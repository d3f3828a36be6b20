----------------------------- MODULE FrameStream -----------------------------
(***************************************************************************)
(* Frames on a byte stream: encode_frame and decode_frame of protocol.cpp, *)
(* and the loop of Connection::reader_loop in transport.cpp that turns     *)
(* whatever recv() returns, parts of a frame or several at once, back into *)
(* frames.  A frame is its sequence number, the payload length its header  *)
(* declares, the bytes it takes, where it ends on the stream and the fault *)
(* it has, if any: a stream that is not this protocol's, another version   *)
(* of it, a length that is not the payload's, a payload that does not      *)
(* match its CRC.                                                          *)
(***************************************************************************)
EXTENDS Naturals, Sequences, FiniteSets

CONSTANTS
    PayloadSizes,                    \* sizes of payloads, a bound
    MaxFrames,                       \* frames that are sent, a bound
    kFrameHeaderBytes,
    kMaxFramePayloadBytes,           \* what decode_frame accepts
    kAbsoluteMaxFramePayloadBytes,   \* what encode_frame accepts
    kReceiveChunkBytes

ASSUME FrameAssumption ==
    /\ PayloadSizes \subseteq Nat
    /\ {MaxFrames, kFrameHeaderBytes, kMaxFramePayloadBytes,
        kAbsoluteMaxFramePayloadBytes, kReceiveChunkBytes} \subseteq Nat \ {0}

VARIABLES
    sequence,     \* sequence numbers given out
    sent,         \* frames put on the stream
    received,     \* bytes that recv() has returned
    consumed,     \* bytes taken out of the buffer
    delivered,    \* frames passed to on_frame
    reader        \* "decoding", "receiving", "ended" or why it was closed

streamVars == <<sequence, sent, received, consumed, delivered, reader>>

Fault == {"none", "magic", "version", "length", "crc"}
Frame(n, size, fault, start) ==
    [sequence |-> n, fault |-> fault, bytes |-> kFrameHeaderBytes + size,
     declared |-> IF fault = "length" THEN size + 1 ELSE size,
     end |-> start + kFrameHeaderBytes + size]

\* Where the first n frames end on the stream, and the bytes on their way.
EndOf(n) == IF n = 0 THEN 0 ELSE sent[n].end
InFlight == EndOf(Len(sent)) - received
Held == received - consumed
FirstHeld == sent[Len(delivered) + 1]

-----------------------------------------------------------------------------

\* A payload beyond the absolute limit is encoded as nothing at all: it has
\* its sequence number, and nothing of it is on the stream.
encode_frame(size, fault) ==
    /\ sequence < MaxFrames /\ sequence' = sequence + 1
    /\ fault # "none" => \A i \in DOMAIN sent : sent[i].fault = "none"
    /\ sent' = IF size <= kAbsoluteMaxFramePayloadBytes
               THEN Append(sent, Frame(sequence + 1, size, fault, EndOf(Len(sent))))
               ELSE sent
    /\ UNCHANGED <<received, consumed, delivered, reader>>

\* Mutation of decode_frame: the payload is waited for before its length is
\* looked at.
decode_when_complete(held, frame) ==
    IF held < kFrameHeaderBytes + frame.declared THEN "incomplete"
    ELSE IF frame.fault \in {"magic", "version"} THEN "ProtocolViolation"
    ELSE IF frame.declared > kMaxFramePayloadBytes THEN "FrameTooLarge"
    ELSE IF frame.fault # "none" THEN "FrameCorrupt" ELSE "frame"
\* What the bytes held say about the frame at their front; the first test that
\* fails decides.
decode_frame(held, frame) ==
    IF held < kFrameHeaderBytes THEN "incomplete"
    ELSE IF frame.fault \in {"magic", "version"} THEN "ProtocolViolation"
    ELSE IF frame.declared > kMaxFramePayloadBytes THEN "FrameTooLarge"
    ELSE IF held < kFrameHeaderBytes + frame.declared THEN "incomplete"
    ELSE IF frame.fault # "none" THEN "FrameCorrupt" ELSE "frame"

\* Mutation of DecodeHeld: one frame for each recv().
DecodeOne ==
    LET outcome == IF Held = 0 THEN "incomplete" ELSE decode_frame(Held, FirstHeld) IN
    /\ reader = "decoding"
    /\ reader' = IF outcome \in {"frame", "incomplete"} THEN "receiving" ELSE outcome
    /\ delivered' = IF outcome = "frame" THEN Append(delivered, FirstHeld) ELSE delivered
    /\ consumed' = IF outcome = "frame" THEN consumed + FirstHeld.bytes ELSE consumed
    /\ UNCHANGED <<sequence, sent, received>>
\* Every complete frame in the buffer is delivered before more is received;
\* anything but a partial frame ends the connection.
DecodeHeld ==
    LET outcome == IF Held = 0 THEN "incomplete" ELSE decode_frame(Held, FirstHeld) IN
    /\ reader = "decoding"
    /\ reader' = CASE outcome = "frame" -> "decoding"
                   [] outcome = "incomplete" -> "receiving"
                   [] OTHER -> outcome
    /\ delivered' = IF outcome = "frame" THEN Append(delivered, FirstHeld) ELSE delivered
    /\ consumed' = IF outcome = "frame" THEN consumed + FirstHeld.bytes ELSE consumed
    /\ UNCHANGED <<sequence, sent, received>>

recv ==
    /\ reader = "receiving"
    /\ \E n \in 1..kReceiveChunkBytes : n <= InFlight /\ received' = received + n
    /\ reader' = "decoding"
    /\ UNCHANGED <<sequence, sent, consumed, delivered>>

\* The peer has closed, in the middle of a frame or not.
EndOfStream ==
    /\ reader = "receiving" /\ sequence = MaxFrames /\ InFlight = 0
    /\ reader' = "ended"
    /\ UNCHANGED <<sequence, sent, received, consumed, delivered>>

StreamInit ==
    /\ sequence = 0 /\ sent = <<>> /\ received = 0 /\ consumed = 0
    /\ delivered = <<>> /\ reader = "receiving"

StreamNext ==
    \/ \E size \in PayloadSizes, fault \in Fault : encode_frame(size, fault)
    \/ DecodeHeld \/ recv \/ EndOfStream
StreamSpec == StreamInit /\ [][StreamNext]_streamVars

-----------------------------------------------------------------------------

Acceptable(frame) == frame.fault = "none" /\ frame.declared <= kMaxFramePayloadBytes

\* However the stream is cut into pieces, the frames that come out are the
\* first of those that went in, in their order and each once; a connection
\* is closed for a bad frame only when one is at the front, and when the
\* stream is over a good one is never left behind in the buffer
\* (decode_frame, Connection::reader_loop).
FramesArriveInOrder ==
    LET n == Len(delivered) IN
    /\ n <= Len(sent) /\ delivered = SubSeq(sent, 1, n)
    /\ reader \in {"ProtocolViolation", "FrameTooLarge", "FrameCorrupt"} =>
          n < Len(sent) /\ ~Acceptable(sent[n + 1])
    /\ reader = "ended" /\ n < Len(sent) => sent[n + 1].fault = "length"

\* While a connection waits for more bytes it holds less than one frame of
\* the accepted size, whatever lengths the peer declares: the length is
\* refused as soon as the header is there (decode_frame, reader_loop).
BufferIsBounded ==
    reader = "receiving" => Held < kFrameHeaderBytes + kMaxFramePayloadBytes
=============================================================================
