------------------------------- MODULE DataProofs -------------------------------
(***************************************************************************)
(* Two structures whose size nothing bounds.                               *)
(*                                                                         *)
(* Frames on a byte stream, for any payloads, any number of frames and any *)
(* way recv() may cut the stream: the frames that come out are the first   *)
(* of those that went in, and a partial frame is never larger than the     *)
(* largest that is accepted.                                               *)
(*                                                                         *)
(* Lineage graphs of any size, built or loaded: what validate() accepts is *)
(* exactly what has no cycle and the longest ways to a root as depths, it  *)
(* stays so whatever is inserted later, and what is asked of such a graph  *)
(* is answered rightly.                                                    *)
(***************************************************************************)
EXTENDS FrameStream, LineageQueries,
        FiniteSetTheorems, SequenceTheorems, WellFoundedInduction, TLAPS

USE DEF streamVars, graphVars

-----------------------------------------------------------------------------
(* Frames. *)

\* Why a reader closes its connection.
Violation == {"ProtocolViolation", "FrameTooLarge", "FrameCorrupt"}

\* What is put on the stream.
FrameRecord ==
    {f \in [sequence: Nat, fault: Fault, bytes: Nat, declared: Nat, end: Nat] :
        /\ f.bytes >= kFrameHeaderBytes
        /\ f.fault = "length" \/ f.bytes = kFrameHeaderBytes + f.declared}

StreamTypes ==
    /\ sequence \in 0..MaxFrames
    /\ sent \in Seq(FrameRecord) /\ delivered \in Seq(FrameRecord)
    /\ received \in Nat /\ consumed \in Nat
    /\ reader \in {"decoding", "receiving", "ended"} \cup Violation

\* Frames lie one behind the other.
Chained ==
    /\ \A i \in 1..Len(sent) : sent[i].end = EndOf(i - 1) + sent[i].bytes
    /\ \A i, j \in 0..Len(sent) : i <= j => EndOf(i) <= EndOf(j)

\* The reader has taken out whole frames, those it delivered, and nothing that
\* recv() has not returned.
Aligned ==
    /\ Len(delivered) <= Len(sent)
    /\ delivered = SubSeq(sent, 1, Len(delivered))
    /\ consumed = EndOf(Len(delivered))
    /\ consumed <= received /\ received <= EndOf(Len(sent))

\* Whether the buffer holds less than the reader can decide about.
Undecided ==
    \/ Held = 0
    \/ Len(delivered) < Len(sent) /\ decode_frame(Held, FirstHeld) = "incomplete"

\* Why the reader is where it is.
Reasons ==
    /\ reader = "receiving" => Undecided
    /\ reader \in Violation =>
          Len(delivered) < Len(sent) /\ ~Acceptable(sent[Len(delivered) + 1])
    /\ reader = "ended" =>
          /\ sequence = MaxFrames
          /\ Len(delivered) < Len(sent) => sent[Len(delivered) + 1].fault = "length"

StreamInv == StreamTypes /\ Chained /\ Aligned /\ Reasons

\* The constants are numbers, and a frame has a header.
LEMMA Sizes ==
    /\ kFrameHeaderBytes \in Nat /\ kFrameHeaderBytes > 0
    /\ kMaxFramePayloadBytes \in Nat /\ kReceiveChunkBytes \in Nat /\ MaxFrames \in Nat
    /\ \A size \in PayloadSizes : size \in Nat
<1>1. \A n \in Nat \ {0} : n \in Nat /\ n > 0
  OBVIOUS
<1> QED BY <1>1, FrameAssumption

\* What is known of the first frames of a stream.
LEMMA FramesOfStream ==
    ASSUME StreamTypes
    PROVE  /\ Len(sent) \in Nat
           /\ \A i \in 1..Len(sent) : sent[i] \in FrameRecord
           /\ \A n \in 0..Len(sent) : EndOf(n) \in Nat
<1>1. sent \in Seq(FrameRecord)
  BY DEF StreamTypes
<1>2. \A i \in 1..Len(sent) : sent[i] \in FrameRecord
  BY <1>1
<1>3. Len(sent) \in Nat
  BY <1>1
<1>4. ASSUME NEW n \in 0..Len(sent) PROVE EndOf(n) \in Nat
  <2>1. CASE n = 0
    BY <2>1 DEF EndOf
  <2>2. CASE n # 0
    <3>1. n \in 1..Len(sent)
      BY <1>3, <2>2
    <3> QED BY <1>2, <2>2, <3>1 DEF EndOf, FrameRecord
  <2> QED BY <2>1, <2>2
<1> QED BY <1>2, <1>3, <1>4

\* Initially nothing is on the stream.
LEMMA InitStreamInv == StreamInit => StreamInv
<1> SUFFICES ASSUME StreamInit PROVE StreamInv
  OBVIOUS
<1>1. StreamTypes
  BY Sizes DEF StreamInit, StreamTypes
<1>2. Chained /\ Aligned
  BY DEF StreamInit, Chained, Aligned, EndOf
<1>3. Reasons
  BY DEF StreamInit, Reasons, Undecided, Held, Violation
<1> QED BY <1>1, <1>2, <1>3 DEF StreamInv

\* A new frame is behind the others, and changes nothing for the reader.
LEMMA EncodeKeeps ==
    ASSUME StreamInv, NEW size \in PayloadSizes, NEW fault \in Fault, encode_frame(size, fault)
    PROVE  StreamInv'
<1>n. PICK n \in Nat : n = Len(sent)
  BY FramesOfStream DEF StreamInv
<1> DEFINE f == Frame(sequence + 1, size, fault, EndOf(n))
<1>0. /\ StreamTypes /\ Chained /\ Aligned /\ Reasons /\ n = Len(sent) /\ EndOf(n) \in Nat
      /\ \A i \in 1..n : sent[i] \in FrameRecord
      /\ \A i \in 0..n : EndOf(i) \in Nat
  BY <1>n, FramesOfStream DEF StreamInv
<1>1. /\ sequence \in 0..MaxFrames /\ sequence < MaxFrames /\ sequence' = sequence + 1
      /\ UNCHANGED <<received, consumed, delivered, reader>>
      /\ sent' = Append(sent, f) \/ sent' = sent
  BY <1>0 DEF encode_frame, StreamTypes
<1>2. sequence' \in 0..MaxFrames /\ reader # "ended"
  BY <1>0, <1>1, Sizes DEF Reasons
<1>3. CASE sent' = sent
  <2>1. StreamTypes' /\ Chained' /\ Aligned'
    BY <1>0, <1>1, <1>2, <1>3 DEF StreamTypes, Chained, Aligned, EndOf
  <2>2. Reasons'
    BY <1>0, <1>1, <1>2, <1>3 DEF Reasons, Undecided, Held, FirstHeld
  <2> QED BY <2>1, <2>2 DEF StreamInv
<1>4. CASE sent' = Append(sent, f)
  <2>1. f \in FrameRecord /\ f.end = EndOf(n) + f.bytes
    BY <1>0, <1>1, Sizes DEF Frame, FrameRecord
  <2> HIDE DEF f
  <2>2. /\ sent' \in Seq(FrameRecord) /\ Len(sent') = n + 1
        /\ \A i \in 1..n : sent'[i] = sent[i]
        /\ sent'[n + 1] = f
    BY <1>0, <1>4, <2>1 DEF StreamTypes
  <2>3. /\ \A i \in 0..n : EndOf(i)' = EndOf(i)
        /\ EndOf(n + 1)' = EndOf(n) + f.bytes
    <3>1. ASSUME NEW i \in 0..n PROVE EndOf(i)' = EndOf(i)
      <4>1. i = 0 \/ i \in 1..n
        BY <1>0
      <4> QED BY <2>2, <4>1 DEF EndOf
    <3>2. EndOf(n + 1)' = f.end
      BY <1>0, <2>2 DEF EndOf
    <3> QED BY <2>1, <3>1, <3>2
  <2>4. StreamTypes'
    BY <1>0, <1>1, <1>2, <2>2 DEF StreamTypes
  <2>5. Chained'
    <3>1. \A i \in 1..(n + 1) : sent'[i].end = EndOf(i - 1)' + sent'[i].bytes
      BY <1>0, <2>1, <2>2, <2>3 DEF Chained
    <3>2. ASSUME NEW i \in 0..(n + 1), NEW j \in 0..(n + 1), i <= j
          PROVE  EndOf(i)' <= EndOf(j)'
      <4>1. EndOf(n) <= EndOf(n + 1)' /\ EndOf(n + 1)' \in Nat
        BY <1>0, <2>1, <2>3 DEF FrameRecord
      <4>2. CASE j \in 0..n
        BY <1>0, <2>3, <3>2, <4>2 DEF Chained
      <4>3. CASE j = n + 1 /\ i \in 0..n
        <5>1. EndOf(i) <= EndOf(n) /\ EndOf(i) \in Nat
          BY <1>0, <4>3 DEF Chained
        <5> QED BY <1>0, <2>3, <4>1, <4>3, <5>1
      <4>4. CASE j = n + 1 /\ i = n + 1
        BY <4>1, <4>4
      <4> QED BY <1>0, <3>2, <4>2, <4>3, <4>4
    <3> QED BY <2>2, <3>1, <3>2 DEF Chained
  <2>6. /\ Len(delivered) <= n /\ Len(delivered) \in Nat
        /\ delivered = SubSeq(sent, 1, Len(delivered))
        /\ consumed = EndOf(Len(delivered)) /\ consumed <= received
        /\ received <= EndOf(n) /\ received \in Nat
    BY <1>0 DEF Aligned, StreamTypes
  <2>7. Aligned'
    <3>1. SubSeq(sent', 1, Len(delivered)) = SubSeq(sent, 1, Len(delivered))
      BY <1>0, <2>2, <2>6
    <3>2. received <= EndOf(n + 1)'
      BY <1>0, <2>1, <2>3, <2>6 DEF FrameRecord
    <3> QED BY <1>1, <2>2, <2>3, <2>6, <3>1, <3>2 DEF Aligned
  <2>8. Len(delivered) < n => sent'[Len(delivered) + 1] = sent[Len(delivered) + 1]
    BY <2>2, <2>6
  <2>9. Reasons'
    <3>1. reader = "receiving" => Undecided'
      BY <1>0, <1>1, <2>2, <2>6, <2>8 DEF Reasons, Undecided, Held, FirstHeld
    <3>2. reader \in Violation =>
            Len(delivered) < n + 1 /\ ~Acceptable(sent'[Len(delivered) + 1])
      BY <1>0, <2>6, <2>8 DEF Reasons
    <3> QED BY <1>1, <1>2, <2>2, <3>1, <3>2 DEF Reasons
  <2> QED BY <2>4, <2>5, <2>7, <2>9 DEF StreamInv
<1> QED BY <1>1, <1>3, <1>4

\* Bytes come in behind those that are there.
LEMMA RecvKeeps == ASSUME StreamInv, recv PROVE StreamInv'
<1>1. PICK k \in 1..kReceiveChunkBytes : k <= InFlight /\ received' = received + k
  BY DEF recv
<1>2. /\ reader' = "decoding" /\ UNCHANGED <<sequence, sent, consumed, delivered>>
      /\ StreamTypes /\ Chained /\ Aligned
  BY DEF recv, StreamInv
<1>3. Len(sent) \in Nat /\ EndOf(Len(sent)) \in Nat /\ received \in Nat /\ consumed \in Nat
  BY <1>2, FramesOfStream DEF StreamTypes
<1>4. /\ received' \in Nat /\ received <= received' /\ received' <= EndOf(Len(sent))
  BY <1>1, <1>3, Sizes DEF InFlight
<1>5. StreamTypes' /\ Chained'
  BY <1>2, <1>4 DEF StreamTypes, Chained, EndOf
<1>6. Aligned'
  BY <1>2, <1>3, <1>4 DEF Aligned, EndOf
<1>7. Reasons'
  BY <1>2 DEF Reasons, Violation
<1> QED BY <1>5, <1>6, <1>7 DEF StreamInv

\* What is in the buffer starts with a frame, and what decode_frame says of it
\* is what the frame is.
LEMMA DecodeSays ==
    ASSUME StreamInv, Held # 0
    PROVE  /\ Len(delivered) < Len(sent) /\ FirstHeld \in FrameRecord
           /\ consumed + FirstHeld.bytes = EndOf(Len(delivered) + 1)
           /\ decode_frame(Held, FirstHeld) \in {"incomplete", "frame"} \cup Violation
           /\ decode_frame(Held, FirstHeld) = "frame" =>
                 FirstHeld.fault = "none" /\ FirstHeld.bytes <= Held
           /\ decode_frame(Held, FirstHeld) \in Violation => ~Acceptable(FirstHeld)
<1> DEFINE n == Len(delivered)
<1>1. /\ n \in Nat /\ Len(sent) \in Nat /\ received \in Nat /\ consumed \in Nat
      /\ n <= Len(sent) /\ consumed = EndOf(n)
      /\ consumed <= received /\ received <= EndOf(Len(sent))
  BY FramesOfStream DEF StreamInv, StreamTypes, Aligned
<1>2. n < Len(sent)
  BY <1>1 DEF Held
<1>3. FirstHeld \in FrameRecord
  BY <1>1, <1>2, FramesOfStream DEF FirstHeld, StreamInv
<1>4. consumed + FirstHeld.bytes = EndOf(n + 1)
  <2>1. n + 1 \in 1..Len(sent) /\ (n + 1) - 1 = n /\ n + 1 # 0
    BY <1>1, <1>2
  <2>2. sent[n + 1].end = EndOf(n) + sent[n + 1].bytes
    BY <2>1 DEF StreamInv, Chained
  <2> QED BY <1>1, <2>1, <2>2 DEF FirstHeld, EndOf
<1> HIDE DEF n
<1>5. decode_frame(Held, FirstHeld) \in {"incomplete", "frame"} \cup Violation
  BY DEF decode_frame, Violation
<1>6. decode_frame(Held, FirstHeld) = "frame" =>
         FirstHeld.fault = "none" /\ FirstHeld.bytes <= Held
  <2>1. Held \in Nat
    BY <1>1 DEF Held
  <2> QED BY <1>3, <2>1, Sizes DEF decode_frame, FrameRecord
<1>7. decode_frame(Held, FirstHeld) \in Violation => ~Acceptable(FirstHeld)
  <2>1. Held \in Nat /\ FirstHeld.declared \in Nat
    BY <1>1, <1>3 DEF Held, FrameRecord
  <2>2. decode_frame(Held, FirstHeld) \in Violation =>
           FirstHeld.fault # "none" \/ FirstHeld.declared > kMaxFramePayloadBytes
    BY <2>1 DEF decode_frame, Violation
  <2> QED BY <2>1, <2>2, Sizes DEF Acceptable
<1> QED BY <1>2, <1>3, <1>4, <1>5, <1>6, <1>7 DEF n

\* The reader takes a whole frame out, waits for more, or gives up.
LEMMA DecodeKeeps == ASSUME StreamInv, DecodeHeld PROVE StreamInv'
<1> DEFINE outcome == IF Held = 0 THEN "incomplete" ELSE decode_frame(Held, FirstHeld)
<1>n. PICK n \in Nat : n = Len(delivered)
  BY DEF StreamInv, StreamTypes
<1>0. /\ StreamTypes /\ Chained /\ Aligned
      /\ Len(sent) \in Nat /\ received \in Nat /\ consumed \in Nat
      /\ n = Len(delivered) /\ n <= Len(sent) /\ delivered = SubSeq(sent, 1, n)
      /\ consumed = EndOf(n) /\ consumed <= received /\ received <= EndOf(Len(sent))
  BY <1>n, FramesOfStream DEF StreamInv, StreamTypes, Aligned
<1>1. /\ UNCHANGED <<sequence, sent, received>>
      /\ delivered' = IF outcome = "frame" THEN Append(delivered, FirstHeld) ELSE delivered
      /\ consumed' = IF outcome = "frame" THEN consumed + FirstHeld.bytes ELSE consumed
      /\ outcome = "frame" => reader' = "decoding"
      /\ outcome = "incomplete" => reader' = "receiving"
      /\ outcome \notin {"frame", "incomplete"} => reader' = outcome
  BY DEF DecodeHeld
<1>2. outcome \in {"incomplete", "frame"} \cup Violation
  BY DecodeSays
<1>3. Chained' /\ \A i : EndOf(i)' = EndOf(i)
  BY <1>0, <1>1 DEF Chained, EndOf
<1>4. CASE outcome = "frame"
  <2>1. /\ n < Len(sent) /\ FirstHeld \in FrameRecord /\ FirstHeld = sent[n + 1]
        /\ consumed + FirstHeld.bytes = EndOf(n + 1) /\ FirstHeld.bytes <= Held
    BY <1>0, <1>4, DecodeSays DEF FirstHeld
  <2>2. /\ delivered' = Append(delivered, FirstHeld) /\ reader' = "decoding"
        /\ consumed' = EndOf(n + 1)
    BY <1>1, <1>4, <2>1
  <2> HIDE DEF outcome
  <2>3. consumed' \in Nat /\ consumed' <= received
    <3>1. FirstHeld.bytes \in Nat
      BY <2>1 DEF FrameRecord
    <3>2. consumed' = consumed + FirstHeld.bytes /\ FirstHeld.bytes <= received - consumed
      BY <2>1, <2>2 DEF Held
    <3> QED BY <1>0, <3>1, <3>2
  <2>4. delivered' \in Seq(FrameRecord) /\ Len(delivered') = n + 1
    BY <1>0, <2>1, <2>2 DEF StreamTypes
  <2>5. delivered' = SubSeq(sent, 1, n + 1)
    BY <1>0, <2>1, <2>2 DEF StreamTypes
  <2>6. StreamTypes'
    BY <1>0, <1>1, <2>2, <2>3, <2>4 DEF StreamTypes
  <2>7. Aligned'
    BY <1>0, <1>1, <1>3, <2>1, <2>2, <2>3, <2>4, <2>5 DEF Aligned
  <2>8. Reasons'
    BY <2>2 DEF Reasons, Violation
  <2> QED BY <1>3, <2>6, <2>7, <2>8 DEF StreamInv
<1>5. CASE outcome # "frame"
  <2>1. /\ UNCHANGED <<sequence, sent, received, delivered, consumed>>
        /\ reader' \in {"receiving"} \cup Violation
        /\ reader' = "receiving" => outcome = "incomplete"
        /\ reader' \in Violation => outcome = reader'
    BY <1>1, <1>2, <1>5 DEF Violation
  <2>2. StreamTypes' /\ Aligned'
    BY <1>0, <1>3, <2>1 DEF StreamTypes, Aligned
  <2>3. reader' = "receiving" => Undecided'
    BY <2>1, DecodeSays DEF Undecided, Held, FirstHeld
  <2>4. reader' \in Violation => n < Len(sent) /\ ~Acceptable(sent[n + 1])
    <3>1. Held = 0 => outcome \notin Violation
      BY DEF Violation
    <3> QED BY <1>0, <2>1, <3>1, DecodeSays DEF FirstHeld
  <2>5. reader' # "ended"
    BY <2>1 DEF Violation
  <2>6. Reasons'
    BY <1>0, <2>1, <2>3, <2>4, <2>5 DEF Reasons
  <2> QED BY <1>3, <2>2, <2>6 DEF StreamInv
<1> QED BY <1>4, <1>5

\* The stream is over with a partial frame in the buffer only if a frame is
\* longer on the stream than it says.
LEMMA EndKeeps == ASSUME StreamInv, EndOfStream PROVE StreamInv'
<1> DEFINE n == Len(delivered)
<1>1. /\ reader = "receiving" /\ reader' = "ended" /\ sequence = MaxFrames /\ InFlight = 0
      /\ UNCHANGED <<sequence, sent, received, consumed, delivered>>
  BY DEF EndOfStream
<1>2. /\ StreamTypes /\ Chained /\ Aligned /\ Undecided
      /\ n \in Nat /\ Len(sent) \in Nat /\ received \in Nat /\ consumed \in Nat
      /\ EndOf(Len(sent)) \in Nat
  BY <1>1, FramesOfStream DEF StreamInv, StreamTypes, Reasons
<1>3. StreamTypes' /\ Chained' /\ Aligned'
  BY <1>1, <1>2 DEF StreamTypes, Chained, Aligned, EndOf
<1>4. ASSUME n < Len(sent) PROVE sent[n + 1].fault = "length"
  <2>1. /\ sent[n + 1] \in FrameRecord /\ EndOf(n) \in Nat /\ EndOf(n + 1) \in Nat
        /\ EndOf(n + 1) <= EndOf(Len(sent))
        /\ EndOf(n + 1) = EndOf(n) + sent[n + 1].bytes
    <3>1. /\ n + 1 \in 1..Len(sent) /\ n + 1 \in 0..Len(sent) /\ Len(sent) \in 0..Len(sent)
          /\ n \in 0..Len(sent) /\ (n + 1) - 1 = n /\ n + 1 # 0
      BY <1>2, <1>4
    <3>2. EndOf(n + 1) = sent[n + 1].end
      BY <3>1 DEF EndOf
    <3> QED BY <1>2, <1>4, <3>1, <3>2, FramesOfStream DEF Chained
  <2>2. Held >= sent[n + 1].bytes /\ Held \in Nat
    BY <1>1, <1>2, <2>1 DEF Held, InFlight, Aligned, FrameRecord
  <2>3. Held # 0 /\ Held >= kFrameHeaderBytes
    BY <2>1, <2>2, Sizes DEF FrameRecord
  <2>4. decode_frame(Held, sent[n + 1]) = "incomplete"
    BY <1>2, <2>3 DEF Undecided, FirstHeld
  <2>5. Held < kFrameHeaderBytes + sent[n + 1].declared
    <3>1. ~(Held < kFrameHeaderBytes)
      BY <2>2, <2>3, Sizes
    <3> QED BY <2>4, <3>1 DEF decode_frame
  <2> QED BY <2>1, <2>2, <2>5, Sizes DEF FrameRecord
<1>5. Reasons'
  BY <1>1, <1>4 DEF Reasons, Violation
<1> QED BY <1>3, <1>5 DEF StreamInv

\* The invariant is inductive.
LEMMA NextStreamInv == StreamInv /\ [StreamNext]_streamVars => StreamInv'
<1>1. StreamInv /\ UNCHANGED streamVars => StreamInv'
  BY DEF StreamInv, StreamTypes, Chained, Aligned, Reasons, Undecided, Held, FirstHeld, EndOf
<1> QED BY <1>1, EncodeKeeps, RecvKeeps, DecodeKeeps, EndKeeps DEF StreamNext

\* However recv() cuts the stream, the frames passed to on_frame are the first of
\* those that were encoded, in their order and each once; the connection is closed
\* only for a frame that is not acceptable, at the front.
THEOREM OrderIsKept == StreamSpec => []FramesArriveInOrder
<1>1. StreamInv => FramesArriveInOrder
  BY DEF StreamInv, Aligned, Reasons, Violation, FramesArriveInOrder
<1> QED BY <1>1, InitStreamInv, NextStreamInv, PTL DEF StreamSpec

\* Whatever lengths the peer declares, a connection that waits for more bytes
\* holds less than one frame of the accepted size.
THEOREM BuffersAreBounded == StreamSpec => []BufferIsBounded
<1>1. StreamInv => BufferIsBounded
  <2> SUFFICES ASSUME StreamInv, reader = "receiving"
               PROVE  Held < kFrameHeaderBytes + kMaxFramePayloadBytes
    BY DEF BufferIsBounded
  <2>1. CASE Held = 0
    BY <2>1, Sizes
  <2>2. CASE Held # 0
    <3>1. decode_frame(Held, FirstHeld) = "incomplete" /\ FirstHeld \in FrameRecord
      BY <2>2, DecodeSays DEF StreamInv, Reasons, Undecided
    <3>2. Held \in Nat /\ FirstHeld.declared \in Nat
      BY <3>1 DEF Held, StreamInv, StreamTypes, Aligned, FrameRecord
    <3>3. \/ Held < kFrameHeaderBytes
          \/ /\ FirstHeld.declared <= kMaxFramePayloadBytes
             /\ Held < kFrameHeaderBytes + FirstHeld.declared
      BY <3>1, <3>2, Sizes DEF decode_frame
    <3> QED BY <3>2, <3>3, Sizes
  <2> QED BY <2>1, <2>2
<1> QED BY <1>1, InitStreamInv, NextStreamInv, PTL DEF StreamSpec

-----------------------------------------------------------------------------
(* Lineage graphs: numbers. *)

\* A nonempty set of naturals has a least element.
LEMMA LeastNatural ==
    ASSUME NEW T \in SUBSET Nat, T # {}
    PROVE  \E m \in T : \A n \in T : m <= n
<1> DEFINE LT == {ss \in Nat \X Nat : ss[1] < ss[2]}
<1>1. OpToRel(<, Nat) = LT
  BY Zenon DEF OpToRel
<1>2. IsWellFoundedOn(LT, Nat)
  BY <1>1, NatLessThanWellFounded, Zenon
<1>3. PICK x \in T : \A y \in T : ~ (<<y, x>> \in LT)
  <2> HIDE DEF LT
  <2> QED BY <1>2, WFMin, Zenon
<1>4. \A y \in T : ~ (y < x)
  BY <1>3
<1> QED BY <1>4

\* A nonempty set of naturals that has a bound has a largest element.
LEMMA LargestIs ==
    ASSUME NEW S \in SUBSET Nat, S # {}, NEW b \in Nat, \A k \in S : k <= b
    PROVE  Largest(S) \in S /\ \A k \in S : k <= Largest(S)
<1> DEFINE T == {n \in Nat : \A k \in S : k <= n}
<1>1. T \in SUBSET Nat /\ T # {}
  OBVIOUS
<1>2. PICK m \in T : \A n \in T : m <= n
  <2> HIDE DEF T
  <2> QED BY <1>1, LeastNatural
<1>3. m \in S
  <2> SUFFICES ASSUME m \notin S PROVE FALSE
    OBVIOUS
  <2>1. PICK k \in S : TRUE
    OBVIOUS
  <2>2. m # 0 /\ \A l \in S : l <= m - 1
    BY <1>2
  <2>3. m - 1 \in T
    BY <1>2, <2>2
  <2> QED BY <1>2, <2>3
<1>4. \E n \in S : \A k \in S : k <= n
  BY <1>2, <1>3
<1> QED BY <1>4 DEF Largest

-----------------------------------------------------------------------------
(* Ancestors. *)

NodeRecord == [lineage: Lineage, parents: Seq(Candidate),
               depth: 0..(kMaxLineageDepth + 1), retired: Reason \cup {"no"}]

GraphTypes ==
    /\ IsFiniteSet(Known) /\ Known \subseteq Candidate
    /\ nodes \in [Known -> NodeRecord]

\* The constants are numbers, and so are identities and depths.
LEMMA GraphNumbers ==
    /\ kMaxLineageDepth \in Nat
    /\ \A c \in Candidate : c \in Nat
    /\ GraphTypes => \A c \in Known : nodes[c].depth \in Nat
<1>1. kMaxLineageDepth \in Nat /\ \A c \in Candidate : c \in Nat
  BY GraphAssumption
<1>2. GraphTypes => \A c \in Known : nodes[c].depth \in 0..(kMaxLineageDepth + 1)
  BY DEF GraphTypes, NodeRecord
<1> QED BY <1>1, <1>2

\* Whatever has the parents of c, and with a node its parents, has the ancestors
\* of c.
LEMMA AncestryIsLeast ==
    ASSUME NEW c, NEW S \in SUBSET Known,
           Parents(c) \subseteq S, \A d \in S : Parents(d) \subseteq S
    PROVE  Ancestry(c) \subseteq S
  BY DEF Ancestry

\* Parents are ancestors, and so are the parents of ancestors.
LEMMA AncestryIsClosed ==
    ASSUME ReferencesHold, NEW c \in Known
    PROVE  /\ Ancestry(c) \in SUBSET Known /\ Parents(c) \in SUBSET Ancestry(c)
           /\ \A a \in Ancestry(c) : Parents(a) \subseteq Ancestry(c)
<1>1. \A d \in Known : Parents(d) \in SUBSET Known
  BY DEF ReferencesHold, Parents
<1>2. Ancestry(c) \in SUBSET Known
  BY DEF Ancestry
<1>3. Parents(c) \in SUBSET Ancestry(c)
  BY <1>1 DEF Ancestry
<1>4. ASSUME NEW a \in Ancestry(c), NEW p \in Parents(a) PROVE p \in Ancestry(c)
  <2>1. p \in Known
    BY <1>1, <1>2
  <2>2. ASSUME NEW S \in SUBSET Known,
               Parents(c) \subseteq S, \A d \in S : Parents(d) \subseteq S
        PROVE  p \in S
    <3>1. a \in S
      BY <2>2, AncestryIsLeast
    <3> QED BY <2>2, <3>1
  <2> QED BY <2>1, <2>2 DEF Ancestry
<1> QED BY <1>2, <1>3, <1>4

\* The ancestors of an ancestor are ancestors.
LEMMA AncestryIsTransitive ==
    ASSUME ReferencesHold, NEW c \in Known, NEW a \in Ancestry(c)
    PROVE  Ancestry(a) \subseteq Ancestry(c)
<1>1. /\ Ancestry(c) \in SUBSET Known
      /\ \A d \in Ancestry(c) : Parents(d) \subseteq Ancestry(c)
  BY AncestryIsClosed
<1> QED BY <1>1, AncestryIsLeast

\* An ancestor is a parent, or an ancestor of a parent.
LEMMA AncestryBySteps ==
    ASSUME ReferencesHold, NEW c \in Known, NEW a \in Ancestry(c)
    PROVE  a \in Parents(c) \/ \E p \in Parents(c) : a \in Ancestry(p)
<1> DEFINE S == Parents(c) \cup {d \in Known : \E p \in Parents(c) : d \in Ancestry(p)}
<1>1. Parents(c) \in SUBSET Known
  BY DEF ReferencesHold, Parents
<1>2. \A p \in Parents(c) : /\ Parents(p) \in SUBSET Ancestry(p)
                            /\ Ancestry(p) \in SUBSET Known
                            /\ \A d \in Ancestry(p) : Parents(d) \subseteq Ancestry(p)
  BY <1>1, AncestryIsClosed
<1>3. S \in SUBSET Known /\ Parents(c) \subseteq S
  BY <1>1
<1>4. ASSUME NEW d \in S PROVE Parents(d) \subseteq S
  <2>1. CASE d \in Parents(c)
    BY <1>2, <2>1
  <2>2. CASE \E p \in Parents(c) : d \in Ancestry(p)
    <3>1. PICK p \in Parents(c) : d \in Ancestry(p)
      BY <2>2
    <3>2. Parents(d) \subseteq Ancestry(p) /\ Ancestry(p) \subseteq Known
      BY <1>2, <3>1
    <3> QED BY <3>2
  <2> QED BY <2>1, <2>2
<1>5. Ancestry(c) \subseteq S
  <2> HIDE DEF S
  <2> QED BY <1>3, <1>4, AncestryIsLeast
<1> QED BY <1>5

-----------------------------------------------------------------------------
(* Depths. *)

\* The computed depth of a child is one more than its deepest parent's.
LEMMA ComputedDepth ==
    ASSUME GraphTypes, NEW parents \in Seq(Candidate), parents # <<>>,
           ToSet(parents) \subseteq Known
    PROVE  /\ \E p \in ToSet(parents) : computed_depth(parents) = 1 + nodes[p].depth
           /\ \A q \in ToSet(parents) : nodes[q].depth < computed_depth(parents)
           /\ computed_depth(parents) \in Nat
<1> DEFINE D == {nodes[p].depth : p \in ToSet(parents) \cap Known}
           m == Largest({0} \cup D)
<1>1. \A p \in Known : nodes[p].depth \in Nat /\ nodes[p].depth <= kMaxLineageDepth + 1
  BY GraphNumbers DEF GraphTypes, NodeRecord
<1>2. parents[1] \in ToSet(parents)
  BY DEF ToSet
<1>3. /\ {0} \cup D \in SUBSET Nat /\ {0} \cup D # {}
      /\ \A k \in {0} \cup D : k <= kMaxLineageDepth + 1
      /\ kMaxLineageDepth + 1 \in Nat
  BY <1>1, GraphNumbers
<1>4. m \in {0} \cup D /\ \A k \in {0} \cup D : k <= m
  <2> DEFINE E == {0} \cup D
  <2>1. E \in SUBSET Nat /\ E # {} /\ \A k \in E : k <= kMaxLineageDepth + 1
    BY <1>3
  <2> HIDE DEF E
  <2>2. Largest(E) \in E /\ \A k \in E : k <= Largest(E)
    BY <1>3, <2>1, LargestIs
  <2> QED BY <2>2 DEF E
<1>5. m \in D
  <2>1. nodes[parents[1]].depth \in D
    BY <1>2
  <2>2. CASE m = 0
    <3>1. nodes[parents[1]].depth = 0
      BY <1>1, <1>2, <1>4, <2>1, <2>2
    <3> QED BY <2>1, <2>2, <3>1
  <2> QED BY <1>4, <2>2
<1>6. computed_depth(parents) = 1 + m
  BY DEF computed_depth
<1>7. \A q \in ToSet(parents) : nodes[q].depth \in D
  OBVIOUS
<1>8. \E p \in ToSet(parents) : m = nodes[p].depth
  BY <1>5
<1>9. m \in Nat
  BY <1>3, <1>4
<1> HIDE DEF D, m
<1> QED BY <1>1, <1>4, <1>6, <1>7, <1>8, <1>9

\* Where depths are right, an ancestor's is smaller.
LEMMA DepthsRise ==
    ASSUME GraphTypes, ReferencesHold, DepthsHold, NEW c \in Known, NEW a \in Ancestry(c)
    PROVE  nodes[a].depth < nodes[c].depth
<1> DEFINE S == {d \in Known : nodes[d].depth < nodes[c].depth}
<1>1. \A d \in Known : \A p \in Parents(d) : p \in Known /\ nodes[p].depth < nodes[d].depth
  <2> TAKE d \in Known
  <2> TAKE p \in Parents(d)
  <2>1. nodes[d].parents \in Seq(Candidate) /\ nodes[d].parents # <<>>
    BY DEF GraphTypes, NodeRecord, Parents, ToSet
  <2>2. ToSet(nodes[d].parents) \subseteq Known /\ p \in ToSet(nodes[d].parents)
    BY DEF ReferencesHold, Parents
  <2>3. nodes[p].depth < computed_depth(nodes[d].parents)
    BY <2>1, <2>2, ComputedDepth
  <2> QED BY <2>2, <2>3 DEF DepthsHold
<1>2. \A d \in Known : nodes[d].depth \in Nat
  BY GraphNumbers
<1>3. S \in SUBSET Known /\ Parents(c) \subseteq S
  BY <1>1
<1>4. \A d \in S : Parents(d) \subseteq S
  BY <1>1, <1>2
<1>5. Ancestry(c) \subseteq S
  <2> HIDE DEF S
  <2> QED BY <1>3, <1>4, AncestryIsLeast
<1> QED BY <1>5

-----------------------------------------------------------------------------
(* Heights. *)

\* Ancestors of c of which one is always the ancestor of the other.
Chains(c) == {S \in SUBSET Ancestry(c) :
                 \A a, b \in S : a = b \/ a \in Ancestry(b) \/ b \in Ancestry(a)}

\* The height is the size of the largest chain.
LEMMA HeightIs ==
    ASSUME GraphTypes, ReferencesHold, NEW c \in Known
    PROVE  /\ Height(c) \in Nat
           /\ \E S \in Chains(c) : Cardinality(S) = Height(c)
           /\ \A S \in Chains(c) : /\ IsFiniteSet(S) /\ Cardinality(S) \in Nat
                                   /\ Cardinality(S) <= Height(c)
<1> DEFINE H == {Cardinality(S) : S \in Chains(c)}
<1>1. \A S \in Chains(c) : S \in SUBSET Known
  BY AncestryIsClosed DEF Chains
<1>2. IsFiniteSet(Known) /\ Cardinality(Known) \in Nat
  BY FS_CardinalityType DEF GraphTypes
<1>3. \A S \in Chains(c) : /\ IsFiniteSet(S) /\ Cardinality(S) \in Nat
                           /\ Cardinality(S) <= Cardinality(Known)
  BY <1>1, <1>2, FS_Subset, FS_CardinalityType
<1>4. {} \in Chains(c)
  BY DEF Chains
<1>5. H \in SUBSET Nat /\ H # {} /\ \A k \in H : k <= Cardinality(Known)
  BY <1>3, <1>4
<1>6. Height(c) = Largest(H)
  BY DEF Height, Chains
<1>7. Largest(H) \in H /\ \A k \in H : k <= Largest(H)
  <2> HIDE DEF H
  <2> QED BY <1>2, <1>5, LargestIs
<1>8. \E S \in Chains(c) : Cardinality(S) = Height(c)
  BY <1>6, <1>7
<1>9. \A S \in Chains(c) : Cardinality(S) <= Height(c)
  BY <1>6, <1>7
<1> HIDE DEF H
<1> QED BY <1>3, <1>5, <1>6, <1>7, <1>8, <1>9

\* A chain of a parent, and the parent itself, are a chain of the child.
LEMMA ChainsGrow ==
    ASSUME GraphTypes, ReferencesHold, NEW c \in Known, NEW p \in Parents(c),
           NEW S \in Chains(p), p \notin S
    PROVE  S \cup {p} \in Chains(c) /\ Cardinality(S \cup {p}) = Cardinality(S) + 1
<1>1. p \in Known /\ p \in Ancestry(c)
  BY AncestryIsClosed DEF ReferencesHold, Parents
<1>2. Ancestry(p) \subseteq Ancestry(c)
  BY <1>1, AncestryIsTransitive
<1>3. S \cup {p} \in Chains(c)
  BY <1>1, <1>2 DEF Chains
<1>4. IsFiniteSet(S)
  BY <1>1, HeightIs
<1> QED BY <1>3, <1>4, FS_AddElement

\* A chain that is not empty has a last element, the others are its ancestors.
LEMMA ChainHasTop ==
    ASSUME GraphTypes, ReferencesHold, Acyclic, NEW c \in Known,
           NEW S \in Chains(c), S # {}
    PROVE  \E t \in S : S \ {t} \subseteq Ancestry(t)
<1> DEFINE Beyond(t) == S \ Ancestry(t)
           T == {Cardinality(Beyond(t)) : t \in S}
<1>1. IsFiniteSet(S)
  BY HeightIs
<1>2. \A t : Beyond(t) \in SUBSET S
  OBVIOUS
<1> DEFINE n == Cardinality(S)
<1>3. \A t : IsFiniteSet(Beyond(t)) /\ Cardinality(Beyond(t)) \in Nat
  BY <1>1, <1>2, FS_Subset, FS_CardinalityType
<1>4. T \in SUBSET Nat /\ T # {}
  BY <1>3
<1>5. PICK m \in T : \A k \in T : m <= k
  <2> HIDE DEF T
  <2> QED BY <1>4, LeastNatural
<1>6. PICK t \in S : m = Cardinality(Beyond(t))
  BY <1>5
<1>7. \A a \in S : Cardinality(Beyond(t)) <= Cardinality(Beyond(a))
  BY <1>5, <1>6
<1>8. ASSUME NEW a \in S \ {t} PROVE a \in Ancestry(t)
  <2> SUFFICES ASSUME a \notin Ancestry(t) PROVE FALSE
    OBVIOUS
  <2>1. S \in SUBSET Known /\ t \in Ancestry(a)
    BY <1>8, AncestryIsClosed DEF Chains
  <2>2. Ancestry(t) \subseteq Ancestry(a) /\ t \notin Ancestry(t)
    BY <2>1, AncestryIsTransitive DEF Acyclic
  <2>3. Beyond(a) \in SUBSET Beyond(t) /\ t \in Beyond(t) /\ t \notin Beyond(a)
    BY <2>1, <2>2
  <2> HIDE DEF Beyond
  <2>4. /\ Cardinality(Beyond(a)) <= Cardinality(Beyond(t))
        /\ Cardinality(Beyond(t)) = Cardinality(Beyond(a)) => Beyond(t) = Beyond(a)
    BY <1>3, <2>3, FS_Subset
  <2> QED BY <1>3, <1>7, <2>3, <2>4
<1> QED BY <1>8

\* Depths that are one more than the deepest parent's are heights.
LEMMA DepthIsHeight ==
    ASSUME GraphTypes, ReferencesHold, DepthsHold
    PROVE  \A c \in Known : nodes[c].depth = Height(c)
<1>0. \A c \in Known : nodes[c].depth \in Nat
  BY GraphNumbers
<1>1. ASSUME NEW c \in Known, NEW S \in Chains(c)
      PROVE  Cardinality(S) <= nodes[c].depth
  <2> DEFINE f == [a \in S |-> nodes[a].depth + 1]
  <2>1. S \in SUBSET Known /\ S \in SUBSET Ancestry(c)
    BY AncestryIsClosed DEF Chains
  <2>2. \A a \in S : nodes[a].depth < nodes[c].depth
    BY <2>1, DepthsRise
  <2>3. f \in [S -> 1..nodes[c].depth]
    BY <1>0, <2>1, <2>2
  <2>4. \A a, b \in S : f[a] = f[b] => a = b
    <3> SUFFICES ASSUME NEW a \in S, NEW b \in S, f[a] = f[b], a # b PROVE FALSE
      OBVIOUS
    <3>1. a \in Ancestry(b) \/ b \in Ancestry(a)
      BY DEF Chains
    <3>2. nodes[a].depth < nodes[b].depth \/ nodes[b].depth < nodes[a].depth
      BY <2>1, <3>1, DepthsRise
    <3> QED BY <1>0, <2>1, <3>2
  <2>5. f \in Injection(S, 1..nodes[c].depth)
    BY <2>3, <2>4 DEF Injection, IsInjective
  <2>6. IsFiniteSet(1..nodes[c].depth) /\ Cardinality(1..nodes[c].depth) = nodes[c].depth
    <3>1. \A n \in Nat : IsFiniteSet(1..n) /\ Cardinality(1..n) = n
      BY FS_Interval
    <3> QED BY <1>0, <3>1
  <2> HIDE DEF f
  <2> QED BY <2>5, <2>6, FS_Injection
<1>2. \A c \in Known : \E S \in Chains(c) : Cardinality(S) = nodes[c].depth
  <2> DEFINE T == {n \in Nat : \E c \in Known : /\ nodes[c].depth = n
                                                /\ \A S \in Chains(c) : Cardinality(S) # n}
  <2> SUFFICES ASSUME T # {} PROVE FALSE
    BY <1>0
  <2>1. PICK n \in T : \A k \in T : n <= k
    <3>1. T \in SUBSET Nat
      OBVIOUS
    <3> HIDE DEF T
    <3> QED BY <3>1, LeastNatural
  <2>2. PICK c \in Known : nodes[c].depth = n /\ \A S \in Chains(c) : Cardinality(S) # n
    BY <2>1
  <2>3. nodes[c].parents \in Seq(Candidate) /\ ToSet(nodes[c].parents) \subseteq Known
    BY DEF GraphTypes, NodeRecord, ReferencesHold
  <2>4. nodes[c].depth = computed_depth(nodes[c].parents)
    BY DEF DepthsHold
  <2>5. CASE nodes[c].parents = <<>>
    <3>1. n = 0
      BY <2>2, <2>4, <2>5 DEF computed_depth
    <3>2. {} \in Chains(c) /\ Cardinality({}) = 0
      BY FS_EmptySet DEF Chains
    <3> QED BY <2>2, <3>1, <3>2
  <2>6. CASE nodes[c].parents # <<>>
    <3>1. PICK p \in ToSet(nodes[c].parents) : n = 1 + nodes[p].depth
      BY <2>2, <2>3, <2>4, <2>6, ComputedDepth
    <3>2. p \in Known /\ p \in Parents(c) /\ nodes[p].depth \in Nat
      BY <1>0, <2>3, <3>1 DEF Parents
    <3>3. nodes[p].depth \notin T
      BY <2>1, <3>1, <3>2
    <3>4. PICK S \in Chains(p) : Cardinality(S) = nodes[p].depth
      BY <3>2, <3>3
    <3>5. p \notin S
      <4>1. p \notin Ancestry(p)
        BY <3>2, DepthsRise
      <4> QED BY <4>1 DEF Chains
    <3>6. S \cup {p} \in Chains(c) /\ Cardinality(S \cup {p}) = n
      BY <3>1, <3>2, <3>4, <3>5, ChainsGrow
    <3> QED BY <2>2, <3>6
  <2> QED BY <2>5, <2>6
<1>3. ASSUME NEW c \in Known PROVE nodes[c].depth = Height(c)
  <2>1. PICK S \in Chains(c) : Cardinality(S) = Height(c)
    BY HeightIs
  <2>2. PICK R \in Chains(c) : Cardinality(R) = nodes[c].depth
    BY <1>2
  <2>3. Height(c) <= nodes[c].depth
    BY <1>1, <2>1
  <2>4. nodes[c].depth <= Height(c) /\ Height(c) \in Nat
    BY <2>2, HeightIs
  <2> QED BY <1>0, <2>3, <2>4
<1> QED BY <1>3

\* And the other way round: heights are one more than the highest parent's.
LEMMA HeightIsComputed ==
    ASSUME GraphTypes, WellFormed
    PROVE  DepthsHold
<1>0. /\ ReferencesHold /\ Acyclic
      /\ \A c \in Known : /\ nodes[c].depth = Height(c) /\ nodes[c].depth \in Nat
                          /\ nodes[c].depth <= kMaxLineageDepth
  BY GraphNumbers DEF WellFormed
<1> SUFFICES ASSUME NEW c \in Known
             PROVE  Height(c) = computed_depth(nodes[c].parents)
  BY <1>0 DEF DepthsHold
<1>1. nodes[c].parents \in Seq(Candidate) /\ ToSet(nodes[c].parents) \subseteq Known
  BY <1>0 DEF GraphTypes, NodeRecord, ReferencesHold
<1>2. CASE nodes[c].parents = <<>>
  <2>1. Parents(c) = {}
    BY <1>2 DEF Parents, ToSet
  <2>2. Ancestry(c) = {}
    BY <2>1, AncestryIsLeast
  <2>3. PICK S \in Chains(c) : Cardinality(S) = Height(c)
    BY <1>0, HeightIs
  <2>4. Height(c) = 0
    BY <2>2, <2>3, FS_EmptySet DEF Chains
  <2> QED BY <1>2, <2>4 DEF computed_depth
<1>3. CASE nodes[c].parents # <<>>
  <2> DEFINE n == computed_depth(nodes[c].parents)
  <2>1. PICK p \in ToSet(nodes[c].parents) : n = 1 + nodes[p].depth
    BY <1>1, <1>3, ComputedDepth
  <2>2. n \in Nat /\ \A q \in Parents(c) : q \in Known /\ nodes[q].depth < n
    BY <1>1, <1>3, ComputedDepth DEF Parents
  <2>3. p \in Parents(c) /\ p \in Known
    BY <1>1, <2>1 DEF Parents
  <2> HIDE DEF n
  <2>4. Height(c) \in Nat /\ n <= Height(c)
    <3>1. PICK S \in Chains(p) : Cardinality(S) = Height(p)
      BY <1>0, <2>3, HeightIs
    <3>2. p \notin S
      BY <1>0, <2>3 DEF Chains, Acyclic
    <3>3. S \cup {p} \in Chains(c) /\ Cardinality(S \cup {p}) = Height(p) + 1
      BY <1>0, <2>3, <3>1, <3>2, ChainsGrow
    <3>4. Cardinality(S \cup {p}) <= Height(c) /\ Height(c) \in Nat
      BY <1>0, <3>3, HeightIs
    <3>5. n = Height(p) + 1
      BY <1>0, <2>1, <2>3
    <3> QED BY <3>3, <3>4, <3>5
  <2>5. Height(c) <= n
    <3>1. PICK S \in Chains(c) : Cardinality(S) = Height(c)
      BY <1>0, HeightIs
    <3>2. CASE S = {}
      BY <2>2, <3>1, <3>2, FS_EmptySet
    <3>3. CASE S # {}
      <4>1. PICK t \in S : S \ {t} \subseteq Ancestry(t)
        BY <1>0, <3>3, ChainHasTop
      <4>2. t \in Ancestry(c) /\ S \in SUBSET Ancestry(c) /\ IsFiniteSet(S)
        BY <1>0, HeightIs DEF Chains
      <4>3. CASE t \in Parents(c)
        <5>1. S \ {t} \in Chains(t)
          BY <4>1 DEF Chains
        <5>2. Cardinality(S \ {t}) = Height(c) - 1
          BY <3>1, <4>2, FS_RemoveElement
        <5>3. Height(c) - 1 <= Height(t) /\ t \in Known /\ Height(t) < n
          BY <1>0, <2>2, <4>3, <5>1, <5>2, HeightIs
        <5>4. Height(t) \in Nat
          BY <1>0, <5>3, HeightIs
        <5> QED BY <2>2, <2>4, <5>3, <5>4
      <4>4. CASE \E q \in Parents(c) : t \in Ancestry(q)
        <5>1. PICK q \in Parents(c) : t \in Ancestry(q)
          BY <4>4
        <5>2. q \in Known /\ Height(q) < n
          BY <1>0, <2>2
        <5>3. Ancestry(t) \subseteq Ancestry(q)
          BY <1>0, <5>1, <5>2, AncestryIsTransitive
        <5>4. S \in Chains(q)
          BY <4>1, <5>1, <5>3 DEF Chains
        <5>5. Height(c) <= Height(q) /\ Height(q) \in Nat
          BY <1>0, <3>1, <5>2, <5>4, HeightIs
        <5> QED BY <2>2, <2>4, <5>2, <5>5
      <4> QED BY <1>0, <4>2, <4>3, <4>4, AncestryBySteps
    <3> QED BY <3>2, <3>3
  <2>6. Height(c) = n
    BY <2>2, <2>4, <2>5
  <2> QED BY <2>6 DEF n
<1> QED BY <1>2, <1>3

\* What validate() accepts is what has the shape of a lineage.
LEMMA AcceptedIsWellFormed ==
    ASSUME GraphTypes, ReferencesHold
    PROVE  DepthsHold <=> WellFormed
<1>1. ASSUME DepthsHold PROVE WellFormed
  <2>1. \A c \in Known : c \notin Ancestry(c)
    BY <1>1, GraphNumbers, DepthsRise
  <2>2. \A c \in Known : nodes[c].depth = Height(c) /\ nodes[c].depth <= kMaxLineageDepth
    BY <1>1, DepthIsHeight DEF DepthsHold
  <2> QED BY <2>1, <2>2 DEF WellFormed, Acyclic
<1> QED BY <1>1, HeightIsComputed

-----------------------------------------------------------------------------
(* The search for a cycle. *)

SearchTypes ==
    /\ colour \in [Known -> 0..2]
    /\ stack \in Seq([node: Known, left: Seq(Candidate)])

\* On the path each node is an ancestor of those before it, and is grey; what it
\* has left are parents.
OnPath ==
    /\ \A i \in 1..Len(stack) : \A c \in Known :
          c = stack[i].node => \A p \in ToSet(stack[i].left) : p \in Parents(c)
    /\ \A i, j \in 1..Len(stack) : \A c, d \in Known :
          i < j /\ c = stack[i].node /\ d = stack[j].node => d \in Ancestry(c) /\ c # d
    /\ \A c \in Known : colour[c] = 1 <=> \E i \in 1..Len(stack) : stack[i].node = c

\* A black node is not on a cycle and has black parents.  The parents of a node
\* on the path are black, or left, or the next on the path.
Explored ==
    /\ \A c \in Known : colour[c] = 2 =>
          c \notin Ancestry(c) /\ \A p \in Parents(c) : colour[p] = 2
    /\ \A i \in 1..Len(stack) : \A c \in Known : c = stack[i].node =>
          \A p \in Parents(c) : \/ p \in ToSet(stack[i].left)
                                \/ colour[p] = 2
                                \/ i < Len(stack) /\ p = stack[i + 1].node

SearchInv == SearchTypes /\ OnPath /\ Explored

\* What is said of a graph is about its nodes.
LEMMA SameNodes ==
    ASSUME UNCHANGED nodes
    PROVE  /\ Known' = Known /\ GraphTypes' = GraphTypes
           /\ \A c : Parents(c)' = Parents(c) /\ Ancestry(c)' = Ancestry(c)
           /\ ReferencesHold' = ReferencesHold /\ Acyclic' = Acyclic
           /\ DepthsHold' = DepthsHold /\ WellFormed' = WellFormed
<1>1. Known' = Known /\ GraphTypes' = GraphTypes /\ ReferencesHold' = ReferencesHold
  BY DEF Known, GraphTypes, ReferencesHold
<1>2. \A c : Parents(c)' = Parents(c)
  BY DEF Parents
<1>3. \A c : Ancestry(c)' = Ancestry(c)
  BY DEF Ancestry, Parents, Known
<1>4. Acyclic' = Acyclic
  BY DEF Acyclic, Ancestry, Parents, Known
<1>5. DepthsHold' = DepthsHold
  BY DEF DepthsHold, computed_depth, Known
<1>6. WellFormed' = WellFormed
  BY DEF WellFormed, ReferencesHold, Acyclic, Height, Ancestry, Parents, Known
<1> QED BY <1>1, <1>2, <1>3, <1>4, <1>5, <1>6

\* The elements of a list are its head and those of its tail.
LEMMA HeadAndTail ==
    ASSUME NEW S, NEW s \in Seq(S), s # <<>>
    PROVE  /\ Tail(s) \in Seq(S) /\ Head(s) \in S
           /\ ToSet(s) = {Head(s)} \cup ToSet(Tail(s))
<1>1. /\ Tail(s) \in Seq(S) /\ Head(s) \in S /\ Head(s) = s[1] /\ Len(s) \in Nat \ {0}
      /\ Len(Tail(s)) = Len(s) - 1
      /\ \A i \in 1..(Len(s) - 1) : Tail(s)[i] = s[i + 1]
      /\ DOMAIN s = 1..Len(s) /\ DOMAIN Tail(s) = 1..(Len(s) - 1)
  OBVIOUS
<1>2. ASSUME NEW x \in ToSet(s) PROVE x \in {Head(s)} \cup ToSet(Tail(s))
  <2>1. PICK i \in 1..Len(s) : x = s[i]
    BY <1>1 DEF ToSet
  <2>2. CASE i = 1
    BY <1>1, <2>1, <2>2
  <2>3. CASE i # 1
    <3>1. i - 1 \in 1..(Len(s) - 1) /\ Tail(s)[i - 1] = x
      BY <1>1, <2>1, <2>3
    <3> QED BY <1>1, <3>1 DEF ToSet
  <2> QED BY <2>2, <2>3
<1>3. ASSUME NEW x \in ToSet(Tail(s)) PROVE x \in ToSet(s)
  <2>1. PICK i \in 1..(Len(s) - 1) : x = s[i + 1]
    BY <1>1 DEF ToSet
  <2>2. i + 1 \in 1..Len(s)
    BY <1>1
  <2> QED BY <1>1, <2>1, <2>2 DEF ToSet
<1>4. Head(s) \in ToSet(s)
  BY <1>1 DEF ToSet
<1> QED BY <1>1, <1>2, <1>3, <1>4

\* What a node is visited with.
LEMMA VisitIs ==
    ASSUME GraphTypes, NEW c \in Known
    PROVE  /\ Visit(c) \in [node: Known, left: Seq(Candidate)]
           /\ Visit(c).node = c /\ ToSet(Visit(c).left) = Parents(c)
<1>1. nodes[c].parents \in Seq(Candidate)
  BY DEF GraphTypes, NodeRecord
<1> QED BY <1>1 DEF Visit, Parents

\* A search starts with one node on its path.
LEMMA StartKeeps ==
    ASSUME GraphTypes, SearchInv, StartAtRoot
    PROVE  SearchInv'
<1> DEFINE unvisited == {c \in Known : colour[c] = 0}
<1>1. /\ Known \in SUBSET Nat /\ unvisited \in SUBSET Nat /\ unvisited # {}
      /\ UNCHANGED nodes /\ stack = <<>>
  BY GraphNumbers DEF GraphTypes, StartAtRoot
<1>2. \E c \in unvisited : \A d \in unvisited : c <= d
  <2> HIDE DEF unvisited
  <2> QED BY <1>1, LeastNatural
<1>3. PICK root \in unvisited : /\ stack' = <<Visit(root)>>
                                /\ colour' = [colour EXCEPT ![root] = 1]
  BY <1>2 DEF StartAtRoot
<1>4. /\ Known' = Known /\ root \in Known /\ colour[root] = 0
      /\ \A c : Parents(c)' = Parents(c) /\ Ancestry(c)' = Ancestry(c)
  BY <1>1, <1>3, SameNodes
<1> DEFINE v == Visit(root)
<1>5. /\ v \in [node: Known, left: Seq(Candidate)] /\ v.node = root
      /\ ToSet(v.left) = Parents(root)
  BY <1>4, VisitIs
<1> HIDE DEF v, unvisited
<1>6. /\ Len(stack') = 1 /\ stack'[1] = v /\ stack' \in Seq([node: Known, left: Seq(Candidate)])
      /\ Len(stack) = 0 /\ \A i \in 1..1 : i = 1
  BY <1>1, <1>3, <1>5 DEF v
<1>7. /\ colour \in [Known -> 0..2] /\ \A c \in Known : colour[c] # 1
      /\ colour' \in [Known -> 0..2] /\ colour'[root] = 1
      /\ \A c \in Known \ {root} : colour'[c] = colour[c]
  BY <1>3, <1>4, <1>6 DEF SearchInv, SearchTypes, OnPath
<1>8. SearchTypes'
  BY <1>4, <1>6, <1>7 DEF SearchTypes
<1>9. OnPath'
  <2>1. \A c \in Known : colour'[c] = 1 <=> \E i \in 1..Len(stack') : stack'[i].node = c
    BY <1>4, <1>5, <1>6, <1>7
  <2>2. ASSUME NEW i \in 1..Len(stack'), NEW c \in Known, c = stack'[i].node,
               NEW p \in ToSet(stack'[i].left)
        PROVE  p \in Parents(c)
    BY <1>5, <1>6, <2>2
  <2> QED BY <1>4, <1>6, <2>1, <2>2 DEF OnPath
<1>10. Explored'
  <2>1. ASSUME NEW c \in Known, colour'[c] = 2
        PROVE  c \notin Ancestry(c) /\ \A p \in Parents(c) : colour'[p] = 2
    <3>1. colour[c] = 2 /\ c \notin Ancestry(c) /\ \A p \in Parents(c) : colour[p] = 2
      BY <1>4, <1>7, <2>1 DEF SearchInv, Explored
    <3>2. \A p \in Parents(c) : p # root
      BY <1>4, <3>1
    <3> QED BY <1>3, <1>7, <3>1, <3>2
  <2>2. ASSUME NEW i \in 1..Len(stack'), NEW c \in Known, c = stack'[i].node,
               NEW p \in Parents(c)
        PROVE  p \in ToSet(stack'[i].left)
    BY <1>5, <1>6, <2>2
  <2> QED BY <1>4, <2>1, <2>2 DEF Explored
<1> QED BY <1>8, <1>9, <1>10 DEF SearchInv

\* The top of the path.
LEMMA TopIs ==
    ASSUME GraphTypes, SearchInv, stack # <<>>
    PROVE  /\ Len(stack) \in Nat \ {0} /\ Top.node \in Known /\ Top.left \in Seq(Candidate)
           /\ Top = stack[Len(stack)] /\ colour[Top.node] = 1
           /\ \A p \in ToSet(Top.left) : p \in Parents(Top.node)
<1>1. Len(stack) \in Nat \ {0} /\ Top = stack[Len(stack)]
  BY DEF SearchInv, SearchTypes, Top
<1> DEFINE E == [node: Known, left: Seq(Candidate)]
<1>2. Top \in E
  <2>1. stack \in Seq(E)
    BY DEF SearchInv, SearchTypes
  <2> HIDE DEF E
  <2> QED BY <1>1, <2>1
<1>3. Len(stack) \in 1..Len(stack)
  BY <1>1
<1> QED BY <1>1, <1>2, <1>3 DEF SearchInv, OnPath

\* A parent that is on the path closes a cycle.
LEMMA GreyIsCyclic ==
    ASSUME GraphTypes, ReferencesHold, SearchInv, stack # <<>>,
           NEW p \in Parents(Top.node), colour[p] = 1
    PROVE  ~Acyclic
<1>1. /\ Len(stack) \in Nat \ {0} /\ Top.node \in Known /\ Top = stack[Len(stack)]
  BY TopIs
<1>2. p \in Known /\ p \in Ancestry(Top.node)
  BY <1>1, AncestryIsClosed DEF ReferencesHold, Parents
<1>3. PICK i \in 1..Len(stack) : stack[i].node = p
  BY <1>2 DEF SearchInv, OnPath
<1>4. CASE i = Len(stack)
  BY <1>1, <1>2, <1>3, <1>4 DEF Acyclic
<1>5. CASE i < Len(stack)
  <2>1. Top.node \in Ancestry(p)
    BY <1>1, <1>2, <1>3, <1>5 DEF SearchInv, OnPath
  <2>2. p \in Ancestry(p)
    BY <1>2, <2>1, AncestryIsTransitive
  <2> QED BY <1>2, <2>2 DEF Acyclic
<1> QED BY <1>1, <1>4, <1>5

\* Following a parent extends the path, or drops a parent that is black.
LEMMA FollowKeeps ==
    ASSUME GraphTypes, ReferencesHold, SearchInv, FollowParent
    PROVE  \/ status' = "cyclic" /\ ~Acyclic
           \/ status' = "cycles" /\ SearchInv'
<1> DEFINE E == [node: Known, left: Seq(Candidate)]
           v == Visit(Head(Top.left))
           rest == [stack EXCEPT ![Len(stack)].left = Tail(@)]
<1>1. PICK n \in Nat \ {0}, t \in Known, left \in Seq(Candidate) :
         n = Len(stack) /\ t = Top.node /\ left = Top.left
  BY TopIs DEF FollowParent
<1>2. PICK parent : parent = Head(left)
  OBVIOUS
<1>3. /\ left # <<>> /\ Tail(left) \in Seq(Candidate) /\ status = "cycles"
      /\ ToSet(left) = {parent} \cup ToSet(Tail(left))
      /\ \A p \in ToSet(left) : p \in Parents(t)
      /\ stack # <<>> /\ UNCHANGED nodes
  BY <1>1, <1>2, HeadAndTail, TopIs DEF FollowParent
<1>4. parent \in Parents(t) /\ parent \in Known /\ colour[t] = 1
  BY <1>1, <1>3, TopIs DEF ReferencesHold, Parents
<1>5. /\ Known' = Known
      /\ \A c : Parents(c)' = Parents(c) /\ Ancestry(c)' = Ancestry(c)
  BY <1>3, SameNodes
<1>6. /\ stack \in Seq(E) /\ colour \in [Known -> 0..2]
      /\ \A i \in 1..n : stack[i] \in E
      /\ stack[n].node = t /\ stack[n].left = left
  <2>1. stack \in Seq(E) /\ colour \in [Known -> 0..2]
    BY DEF SearchInv, SearchTypes
  <2> HIDE DEF E
  <2> QED BY <1>1, <2>1 DEF Top
<1>7. /\ rest \in Seq(E) /\ Len(rest) = n
      /\ \A i \in 1..n : rest[i].node = stack[i].node
      /\ \A i \in 1..(n - 1) : rest[i] = stack[i]
      /\ rest[n].left = Tail(left)
  <2> DEFINE top == [stack[n] EXCEPT !.left = Tail(left)]
  <2>1. \A e \in E, x \in Seq(Candidate) : /\ [e EXCEPT !.left = x] \in E
                                          /\ [e EXCEPT !.left = x].node = e.node
                                          /\ [e EXCEPT !.left = x].left = x
    OBVIOUS
  <2>2. top \in E /\ top.node = stack[n].node /\ top.left = Tail(left)
    <3>1. stack[n] \in E
      BY <1>1, <1>6
    <3> HIDE DEF E
    <3> QED BY <1>3, <2>1, <3>1
  <2>3. rest = [stack EXCEPT ![n] = top]
    BY <1>1, <1>6
  <2> HIDE DEF top, rest, E
  <2>4. rest \in Seq(E) /\ Len(rest) = n /\ n \in 1..n
    <3>1. n \in 1..Len(stack) /\ Len(stack) = n
      BY <1>1
    <3> QED BY <1>6, <2>2, <2>3, <3>1, ExceptSeq
  <2>5. rest[n] = top /\ \A i \in 1..(n - 1) : rest[i] = stack[i]
    BY <1>1, <1>6, <2>3
  <2>6. \A i \in 1..n : i = n \/ i \in 1..(n - 1)
    BY <1>1
  <2> QED BY <2>2, <2>4, <2>5, <2>6
<1>8. CASE colour[parent] = 1
  <2>1. ~Acyclic
    BY <1>1, <1>3, <1>4, <1>8, GreyIsCyclic
  <2> QED BY <1>1, <1>2, <1>8, <2>1 DEF FollowParent
<1>9. CASE colour[parent] = 2
  <2>1. status' = "cycles" /\ stack' = rest /\ colour' = colour
    BY <1>1, <1>2, <1>3, <1>9 DEF FollowParent
  <2> HIDE DEF rest, E
  <2>2. /\ Len(stack') = n /\ \A i \in 1..n : stack'[i].node = stack[i].node
        /\ \A i \in 1..n : \A p \in ToSet(stack'[i].left) : p \in ToSet(stack[i].left)
        /\ \A i \in 1..n : \A p \in ToSet(stack[i].left) :
              p \in ToSet(stack'[i].left) \/ p = parent
    <3>1. \A i \in 1..n : i = n \/ i \in 1..(n - 1)
      BY <1>1
    <3> QED BY <1>3, <1>6, <1>7, <2>1, <3>1
  <2>3. SearchTypes'
    BY <1>5, <1>6, <1>7, <2>1 DEF SearchTypes, E
  <2>4. OnPath'
    <3>1. ASSUME NEW i \in 1..n, NEW c \in Known, c = stack'[i].node,
                 NEW p \in ToSet(stack'[i].left)
          PROVE  p \in Parents(c)
      BY <1>1, <2>2, <3>1 DEF SearchInv, OnPath
    <3>2. \A i, j \in 1..n : \A c, d \in Known :
             i < j /\ c = stack'[i].node /\ d = stack'[j].node => d \in Ancestry(c) /\ c # d
      BY <1>1, <2>2 DEF SearchInv, OnPath
    <3>3. \A c \in Known : colour[c] = 1 <=> \E i \in 1..n : stack'[i].node = c
      BY <1>1, <2>2 DEF SearchInv, OnPath
    <3> QED BY <1>5, <2>1, <2>2, <3>1, <3>2, <3>3 DEF OnPath
  <2>5. Explored'
    <3>1. ASSUME NEW i \in 1..n, NEW c \in Known, c = stack'[i].node, NEW p \in Parents(c)
          PROVE  \/ p \in ToSet(stack'[i].left)
                 \/ colour[p] = 2
                 \/ i < n /\ p = stack'[i + 1].node
      <4>1. \/ p \in ToSet(stack[i].left)
            \/ colour[p] = 2
            \/ i < n /\ p = stack[i + 1].node
        BY <1>1, <2>2, <3>1 DEF SearchInv, Explored
      <4>2. i < n => i + 1 \in 1..n
        BY <1>1
      <4> QED BY <1>9, <2>2, <4>1, <4>2
    <3> QED BY <1>5, <2>1, <2>2, <3>1 DEF SearchInv, Explored
  <2> QED BY <2>1, <2>3, <2>4, <2>5 DEF SearchInv
<1>10. CASE colour[parent] = 0
  <2>0. /\ v \in E /\ v.node = parent /\ ToSet(v.left) = Parents(parent)
    BY <1>1, <1>2, <1>4, VisitIs
  <2>1. /\ status' = "cycles" /\ stack' = Append(rest, v)
        /\ colour' = [colour EXCEPT ![parent] = 1]
    BY <1>1, <1>2, <1>3, <1>10 DEF FollowParent
  <2> HIDE DEF rest, v
  <2>2. /\ stack' \in Seq(E) /\ Len(stack') = n + 1 /\ stack'[n + 1] = v
        /\ \A i \in 1..n : stack'[i] = rest[i]
    BY <1>7, <2>0, <2>1
  <2> HIDE DEF E
  <2>3. /\ \A i \in 1..(n + 1) : i = n + 1 \/ i \in 1..n
        /\ \A i \in 1..n : i = n \/ i \in 1..(n - 1)
        /\ \A i \in 1..n : i \in 1..(n + 1)
        /\ n \in 1..n /\ n + 1 \in 1..(n + 1)
        /\ \A i \in 1..(n + 1) : i < n + 1 => i \in 1..n
        /\ \A i \in 1..n : i < n => i + 1 \in 1..n
    BY <1>1
  <2>4. /\ \A i \in 1..n : stack'[i].node = stack[i].node
        /\ \A i \in 1..n : \A p \in ToSet(stack'[i].left) : p \in ToSet(stack[i].left)
        /\ \A i \in 1..n : \A p \in ToSet(stack[i].left) :
              p \in ToSet(stack'[i].left) \/ (i = n /\ p = parent)
    BY <1>3, <1>6, <1>7, <2>2, <2>3
  <2>5. /\ colour' \in [Known -> 0..2] /\ colour'[parent] = 1
        /\ \A c \in Known : c # parent => colour'[c] = colour[c]
    BY <1>4, <1>6, <2>1
  <2>6. SearchTypes'
    BY <1>5, <2>2, <2>5 DEF SearchTypes, E
  <2>7. OnPath'
    <3>1. ASSUME NEW i \in 1..(n + 1), NEW c \in Known, c = stack'[i].node,
                 NEW p \in ToSet(stack'[i].left)
          PROVE  p \in Parents(c)
      <4>1. CASE i = n + 1
        BY <2>0, <2>2, <3>1, <4>1
      <4>2. CASE i \in 1..n
        BY <1>1, <2>4, <3>1, <4>2 DEF SearchInv, OnPath
      <4> QED BY <2>3, <4>1, <4>2
    <3>2. ASSUME NEW i \in 1..(n + 1), NEW j \in 1..(n + 1), NEW c \in Known, NEW d \in Known,
                 i < j, c = stack'[i].node, d = stack'[j].node
          PROVE  d \in Ancestry(c) /\ c # d
      <4>1. i \in 1..n /\ c = stack[i].node
        BY <1>1, <2>3, <2>4, <3>2
      <4>2. CASE j \in 1..n
        BY <1>1, <2>4, <3>2, <4>1, <4>2 DEF SearchInv, OnPath
      <4>3. CASE j = n + 1
        <5>1. d = parent /\ colour[c] = 1
          BY <1>1, <2>0, <2>2, <3>2, <4>1, <4>3 DEF SearchInv, OnPath
        <5>2. t = c \/ t \in Ancestry(c)
          BY <1>1, <1>6, <2>3, <4>1 DEF SearchInv, OnPath
        <5>3. parent \in Ancestry(c)
          BY <1>4, <5>2, AncestryIsClosed
        <5> QED BY <1>10, <5>1, <5>3
      <4> QED BY <2>3, <4>2, <4>3
    <3>3. ASSUME NEW c \in Known
          PROVE  colour'[c] = 1 <=> \E i \in 1..(n + 1) : stack'[i].node = c
      <4>1. colour[c] = 1 <=> \E i \in 1..n : stack[i].node = c
        BY <1>1 DEF SearchInv, OnPath
      <4>2. CASE c = parent
        BY <2>0, <2>2, <2>3, <2>5, <4>2
      <4>3. CASE c # parent
        BY <2>0, <2>2, <2>3, <2>4, <2>5, <4>1, <4>3
      <4> QED BY <4>2, <4>3
    <3> QED BY <1>5, <2>2, <3>1, <3>2, <3>3 DEF OnPath
  <2>8. Explored'
    <3>1. ASSUME NEW c \in Known, colour'[c] = 2
          PROVE  c \notin Ancestry(c) /\ \A p \in Parents(c) : colour'[p] = 2
      <4>1. colour[c] = 2 /\ c \notin Ancestry(c) /\ \A p \in Parents(c) : colour[p] = 2
        BY <2>5, <3>1 DEF SearchInv, Explored
      <4>2. \A p \in Parents(c) : p \in Known /\ p # parent
        BY <1>10, <4>1 DEF ReferencesHold, Parents
      <4> QED BY <2>5, <4>1, <4>2
    <3>2. ASSUME NEW i \in 1..(n + 1), NEW c \in Known, c = stack'[i].node, NEW p \in Parents(c)
          PROVE  \/ p \in ToSet(stack'[i].left)
                 \/ colour'[p] = 2
                 \/ i < n + 1 /\ p = stack'[i + 1].node
      <4>1. CASE i = n + 1
        BY <2>0, <2>2, <3>2, <4>1
      <4>2. CASE i \in 1..n
        <5>1. \/ p \in ToSet(stack[i].left)
              \/ colour[p] = 2
              \/ i < n /\ p = stack[i + 1].node
          BY <1>1, <2>4, <3>2, <4>2 DEF SearchInv, Explored
        <5>2. p \in Known
          BY DEF ReferencesHold, Parents
        <5>3. colour[p] = 2 => colour'[p] = 2
          BY <1>10, <2>5, <5>2
        <5>4. i < n + 1
          BY <1>1, <4>2
        <5>5. i = n /\ p = parent => p = stack'[i + 1].node
          BY <2>0, <2>2
        <5>6. i < n /\ p = stack[i + 1].node => p = stack'[i + 1].node
          BY <2>3, <2>4, <4>2
        <5> QED BY <2>4, <4>2, <5>1, <5>3, <5>4, <5>5, <5>6
      <4> QED BY <2>3, <4>1, <4>2
    <3> QED BY <1>5, <2>2, <3>1, <3>2 DEF Explored
  <2> QED BY <2>1, <2>6, <2>7, <2>8 DEF SearchInv
<1> QED BY <1>4, <1>6, <1>8, <1>9, <1>10

\* A node whose parents are black becomes black itself.
LEMMA LeaveKeeps ==
    ASSUME GraphTypes, ReferencesHold, SearchInv, LeaveNode
    PROVE  SearchInv'
<1> DEFINE E == [node: Known, left: Seq(Candidate)]
<1>1. PICK n \in Nat \ {0}, t \in Known : n = Len(stack) /\ t = Top.node
  BY TopIs DEF LeaveNode
<1>2. /\ stack # <<>> /\ UNCHANGED nodes /\ stack[n].node = t /\ stack[n].left = <<>>
      /\ stack' = SubSeq(stack, 1, n - 1)
      /\ colour' = [colour EXCEPT ![t] = 2]
  BY <1>1, TopIs DEF LeaveNode, Front
<1>3. /\ Known' = Known
      /\ \A c : Parents(c)' = Parents(c) /\ Ancestry(c)' = Ancestry(c)
  BY <1>2, SameNodes
<1>4. stack \in Seq(E) /\ colour \in [Known -> 0..2]
  BY DEF SearchInv, SearchTypes
<1>5. /\ stack' \in Seq(E) /\ Len(stack') = n - 1
      /\ \A i \in 1..(n - 1) : stack'[i] = stack[i]
  <2> HIDE DEF E
  <2>1. 1 \in Int /\ n - 1 \in Int /\ \A i \in 1..(n - 1) : i \in 1..n
    BY <1>1
  <2>2. \A i \in 1..(n - 1) : stack[i] \in E
    BY <1>1, <1>4, <2>1
  <2>3. /\ SubSeq(stack, 1, n - 1) \in Seq(E)
        /\ Len(SubSeq(stack, 1, n - 1)) = IF 1 <= n - 1 THEN n - 1 - 1 + 1 ELSE 0
        /\ \A i \in 1..(n - 1 - 1 + 1) : SubSeq(stack, 1, n - 1)[i] = stack[1 + i - 1]
    BY <2>1, <2>2, SubSeqProperties
  <2> QED BY <1>1, <1>2, <2>3
<1> HIDE DEF E
<1>6. /\ colour[t] = 1 /\ colour'[t] = 2 /\ colour' \in [Known -> 0..2]
      /\ \A c \in Known : c # t => colour'[c] = colour[c]
  BY <1>1, <1>2, <1>4, TopIs
<1>7. /\ n \in 1..n /\ \A i \in 1..n : i = n \/ i \in 1..(n - 1)
      /\ \A i \in 1..(n - 1) : i < n /\ i \in 1..n
      /\ \A i \in 1..(n - 1) : i + 1 = n \/ (i < n - 1 /\ i + 1 \in 1..(n - 1))
  BY <1>1
<1>8. /\ \A p \in Parents(t) : p \in Known /\ colour[p] = 2
      /\ \A c \in Known : \A p \in Parents(c) : p \in Known
  <2>1. ToSet(<<>>) = {}
    BY DEF ToSet
  <2>2. \A p \in Parents(t) : colour[p] = 2
    BY <1>1, <1>2, <1>7, <2>1 DEF SearchInv, Explored
  <2> QED BY <2>2 DEF ReferencesHold, Parents
<1>9. t \notin Ancestry(t)
  <2> DEFINE black == {c \in Known : colour[c] = 2}
  <2>1. black \in SUBSET Known /\ Parents(t) \subseteq black /\ t \notin black
    BY <1>6, <1>8
  <2>2. \A d \in black : Parents(d) \subseteq black
    BY <1>8 DEF SearchInv, Explored
  <2> HIDE DEF black
  <2> QED BY <2>1, <2>2, AncestryIsLeast
<1>10. SearchTypes'
  BY <1>3, <1>5, <1>6 DEF SearchTypes, E
<1>11. OnPath'
  <2>1. \A i \in 1..(n - 1) : \A c \in Known :
           c = stack'[i].node => \A p \in ToSet(stack'[i].left) : p \in Parents(c)
    BY <1>1, <1>5, <1>7 DEF SearchInv, OnPath
  <2>2. \A i, j \in 1..(n - 1) : \A c, d \in Known :
           i < j /\ c = stack'[i].node /\ d = stack'[j].node => d \in Ancestry(c) /\ c # d
    BY <1>1, <1>5, <1>7 DEF SearchInv, OnPath
  <2>3. ASSUME NEW c \in Known
        PROVE  colour'[c] = 1 <=> \E i \in 1..(n - 1) : stack'[i].node = c
    <3>1. colour[c] = 1 <=> \E i \in 1..n : stack[i].node = c
      BY <1>1 DEF SearchInv, OnPath
    <3>2. CASE c = t
      <4>1. \A i \in 1..(n - 1) : stack[i].node # t
        BY <1>1, <1>2, <1>7 DEF SearchInv, OnPath
      <4> QED BY <1>5, <1>6, <3>2, <4>1
    <3>3. CASE c # t
      BY <1>2, <1>5, <1>6, <1>7, <3>1, <3>3
    <3> QED BY <3>2, <3>3
  <2> QED BY <1>3, <1>5, <2>1, <2>2, <2>3 DEF OnPath
<1>12. Explored'
  <2>1. \A p \in Known : colour[p] = 2 => colour'[p] = 2
    BY <1>6
  <2>2. ASSUME NEW c \in Known, colour'[c] = 2
        PROVE  c \notin Ancestry(c) /\ \A p \in Parents(c) : colour'[p] = 2
    <3>1. c # t => c \notin Ancestry(c) /\ \A p \in Parents(c) : colour[p] = 2
      BY <1>6, <2>2 DEF SearchInv, Explored
    <3> QED BY <1>8, <1>9, <2>1, <3>1
  <2>3. ASSUME NEW i \in 1..(n - 1), NEW c \in Known, c = stack'[i].node, NEW p \in Parents(c)
        PROVE  \/ p \in ToSet(stack'[i].left)
               \/ colour'[p] = 2
               \/ i < n - 1 /\ p = stack'[i + 1].node
    <3>1. \/ p \in ToSet(stack[i].left)
          \/ colour[p] = 2
          \/ i < n /\ p = stack[i + 1].node
      BY <1>1, <1>5, <1>7, <2>3 DEF SearchInv, Explored
    <3>2. CASE i + 1 = n
      <4>1. i < n /\ p = stack[i + 1].node => colour'[p] = 2
        BY <1>2, <1>6, <3>2
      <4> QED BY <1>5, <1>8, <2>1, <3>1, <4>1
    <3>3. CASE i < n - 1 /\ i + 1 \in 1..(n - 1)
      BY <1>5, <1>8, <2>1, <3>1, <3>3
    <3> QED BY <1>7, <3>2, <3>3
  <2> QED BY <1>3, <1>5, <2>2, <2>3 DEF Explored
<1> QED BY <1>10, <1>11, <1>12 DEF SearchInv

-----------------------------------------------------------------------------
(* The theorems. *)

\* A graph in use, in a search, or found wanting.
GraphInv ==
    /\ GraphTypes
    /\ status \in {"serving", "references", "cycles", "depths", "refused", "cyclic"}
    /\ status = "serving" => ReferencesHold /\ DepthsHold
    /\ status = "references" => colour = [c \in Known |-> 0] /\ stack = <<>>
    /\ status = "cycles" => ReferencesHold /\ SearchInv
    /\ status = "depths" => ReferencesHold /\ Acyclic
    /\ status = "refused" => ~WellFormed
    /\ status = "cyclic" => ~Acyclic

\* Lists of bounded length are sequences.
LEMMA ParentListsAreSeqs ==
    ASSUME NEW parents \in ParentLists
    PROVE  parents \in Seq(Candidate)
<1>1. \A n \in Nat : [1..n -> Candidate] \subseteq Seq(Candidate)
  OBVIOUS
<1>2. MaxParents \in Nat
  BY GraphAssumption
<1> QED BY <1>1, <1>2 DEF ParentLists, BoundedSeq, SeqOf

\* A graph starts empty, or as whatever was stored.
LEMMA InitGraphInv == GraphInit => GraphInv
<1> SUFFICES ASSUME GraphInit PROVE GraphInv
  OBVIOUS
<1>1. CASE nodes = [c \in {} |-> 0] /\ status = "serving"
  <2>1. Known = {}
    BY <1>1 DEF Known
  <2>2. GraphTypes
    BY <1>1, <2>1, FS_EmptySet DEF GraphTypes
  <2>3. ReferencesHold /\ DepthsHold
    BY <2>1 DEF ReferencesHold, DepthsHold
  <2> QED BY <1>1, <2>2, <2>3 DEF GraphInv
<1>2. CASE \E parents \in [Stored -> ParentLists],
             depth \in [Stored -> 0..(kMaxLineageDepth + 1)] :
             restore([c \in Stored |-> Node(CHOOSE l \in Lineage : TRUE, parents[c], depth[c])])
  <2>1. PICK parents \in [Stored -> ParentLists],
             depth \in [Stored -> 0..(kMaxLineageDepth + 1)] :
             restore([c \in Stored |-> Node(CHOOSE l \in Lineage : TRUE, parents[c], depth[c])])
    BY <1>2
  <2>2. (CHOOSE l \in Lineage : TRUE) \in Lineage
    BY GraphAssumption
  <2>3. \A c \in Stored : Node(CHOOSE l \in Lineage : TRUE, parents[c], depth[c]) \in NodeRecord
    <3>1. \A c \in Stored : /\ parents[c] \in Seq(Candidate)
                            /\ depth[c] \in 0..(kMaxLineageDepth + 1)
      BY ParentListsAreSeqs
    <3> QED BY <2>2, <3>1 DEF Node, NodeRecord
  <2>4. /\ status = "references" /\ Known = Stored
        /\ nodes \in [Stored -> NodeRecord]
        /\ colour = [c \in Known |-> 0] /\ stack = <<>>
    BY <2>1, <2>3 DEF restore, Known
  <2>5. GraphTypes
    BY <2>4, GraphAssumption DEF GraphTypes
  <2> QED BY <2>4, <2>5 DEF GraphInv
<1> QED BY <1>1, <1>2 DEF GraphInit

\* A node that is inserted has its place, and moves nobody.
LEMMA InsertKeeps ==
    ASSUME GraphInv, NEW c \in Candidate, NEW lineage \in Lineage,
           NEW parents \in ParentLists, NEW depth \in 0..(kMaxLineageDepth + 1),
           insert(c, Node(lineage, parents, depth))
    PROVE  GraphInv'
<1> DEFINE node == Node(lineage, parents, depth)
<1>1. /\ status = "serving" /\ status' = "serving" /\ GraphTypes /\ ReferencesHold /\ DepthsHold
      /\ c \notin Known /\ c \notin ToSet(parents) /\ ToSet(parents) \subseteq Known
      /\ depth = computed_depth(parents) /\ depth <= kMaxLineageDepth
      /\ nodes' = [x \in Known \cup {c} |-> IF x = c THEN node ELSE nodes[x]]
  BY DEF insert, Insertable, Node, GraphInv
<1>2. node \in NodeRecord /\ node.parents = parents /\ node.depth = depth
  BY ParentListsAreSeqs DEF Node, NodeRecord
<1> HIDE DEF node
<1>3. /\ Known' = Known \cup {c} /\ nodes'[c] = node
      /\ \A d \in Known : nodes'[d] = nodes[d]
      /\ nodes' \in [Known' -> NodeRecord]
  <2>1. nodes \in [Known -> NodeRecord]
    BY <1>1 DEF GraphTypes
  <2> QED BY <1>1, <1>2, <2>1 DEF Known
<1>4. GraphTypes'
  BY <1>1, <1>3, FS_AddElement DEF GraphTypes
<1>5. ReferencesHold'
  BY <1>1, <1>2, <1>3 DEF ReferencesHold
<1> DEFINE after(list) == IF list = <<>> THEN 0
                          ELSE 1 + Largest({0} \cup {nodes'[p].depth : p \in ToSet(list) \cap Known'})
<1>6. ASSUME NEW list \in Seq(Candidate), ToSet(list) \subseteq Known
      PROVE  after(list) = computed_depth(list)
  <2>1. \A p \in ToSet(list) : p \in Known /\ nodes'[p].depth = nodes[p].depth
    BY <1>3, <1>6
  <2>2. {nodes'[p].depth : p \in ToSet(list) \cap Known'}
           = {nodes[p].depth : p \in ToSet(list) \cap Known}
    BY <1>3, <2>1
  <2> QED BY <2>2 DEF computed_depth
<1>7. ASSUME NEW d \in Known'
      PROVE  nodes'[d].depth = after(nodes'[d].parents) /\ nodes'[d].depth <= kMaxLineageDepth
  <2> HIDE DEF after
  <2>1. CASE d = c
    <3>1. parents \in Seq(Candidate)
      BY ParentListsAreSeqs
    <3> QED BY <1>1, <1>2, <1>3, <1>6, <2>1, <3>1
  <2>2. CASE d \in Known
    <3>1. nodes[d].parents \in Seq(Candidate) /\ ToSet(nodes[d].parents) \subseteq Known
      BY <1>1, <2>2 DEF GraphTypes, NodeRecord, ReferencesHold
    <3>2. /\ nodes[d].depth = computed_depth(nodes[d].parents)
          /\ nodes[d].depth <= kMaxLineageDepth
      BY <1>1, <2>2 DEF DepthsHold
    <3> QED BY <1>3, <1>6, <2>2, <3>1, <3>2
  <2> QED BY <1>3, <2>1, <2>2
<1>8. DepthsHold'
  BY <1>7 DEF DepthsHold, computed_depth
<1> QED BY <1>1, <1>4, <1>5, <1>8 DEF GraphInv

\* A retirement changes neither parents nor depths.
LEMMA RetireKeeps ==
    ASSUME GraphInv, NEW c \in Candidate, NEW reason \in Reason, retire(c, reason)
    PROVE  GraphInv'
<1>1. /\ status = "serving" /\ status' = "serving" /\ GraphTypes /\ ReferencesHold /\ DepthsHold
      /\ c \in Known /\ nodes' = [nodes EXCEPT ![c].retired = reason]
  BY DEF retire, GraphInv
<1>2. /\ nodes \in [Known -> NodeRecord]
      /\ \A n \in NodeRecord : /\ [n EXCEPT !.retired = reason] \in NodeRecord
                               /\ [n EXCEPT !.retired = reason].parents = n.parents
                               /\ [n EXCEPT !.retired = reason].depth = n.depth
  BY <1>1 DEF GraphTypes, NodeRecord
<1>3. /\ Known' = Known /\ nodes' \in [Known -> NodeRecord]
      /\ \A d \in Known : nodes'[d].parents = nodes[d].parents /\ nodes'[d].depth = nodes[d].depth
  <2> DEFINE n == [nodes[c] EXCEPT !.retired = reason]
  <2>1. /\ n \in NodeRecord /\ n.parents = nodes[c].parents /\ n.depth = nodes[c].depth
        /\ nodes' = [nodes EXCEPT ![c] = n]
    BY <1>1, <1>2
  <2> HIDE DEF n
  <2>2. Known' = Known /\ nodes'[c] = n /\ \A d \in Known : d # c => nodes'[d] = nodes[d]
    BY <1>1, <1>2, <2>1 DEF Known
  <2> QED BY <1>1, <1>2, <2>1, <2>2
<1>4. GraphTypes' /\ ReferencesHold'
  BY <1>1, <1>3 DEF GraphTypes, ReferencesHold
<1> DEFINE after(list) == IF list = <<>> THEN 0
                          ELSE 1 + Largest({0} \cup {nodes'[p].depth : p \in ToSet(list) \cap Known'})
<1>5. ASSUME NEW list PROVE after(list) = computed_depth(list)
  <2>1. {nodes'[p].depth : p \in ToSet(list) \cap Known'}
           = {nodes[p].depth : p \in ToSet(list) \cap Known}
    BY <1>3
  <2> QED BY <2>1 DEF computed_depth
<1>6. ASSUME NEW d \in Known
      PROVE  nodes'[d].depth = after(nodes'[d].parents) /\ nodes'[d].depth <= kMaxLineageDepth
  <2> HIDE DEF after
  <2>1. /\ nodes[d].depth = computed_depth(nodes[d].parents)
        /\ nodes[d].depth <= kMaxLineageDepth
    BY <1>1 DEF DepthsHold
  <2> QED BY <1>3, <1>5, <2>1
<1>7. DepthsHold'
  BY <1>3, <1>6 DEF DepthsHold, computed_depth
<1> QED BY <1>1, <1>4, <1>7 DEF GraphInv

\* The steps of validate() decide.
LEMMA ValidateKeeps ==
    ASSUME GraphInv, \/ ValidateReferences \/ StartAtRoot \/ FollowParent
                     \/ LeaveNode \/ NoCycle \/ ValidateDepths
    PROVE  GraphInv'
<1>0. GraphTypes /\ UNCHANGED nodes
  BY DEF GraphInv, ValidateReferences, StartAtRoot, FollowParent, LeaveNode, NoCycle,
         ValidateDepths
<1>1. /\ Known' = Known /\ GraphTypes' /\ ReferencesHold' = ReferencesHold
      /\ Acyclic' = Acyclic /\ DepthsHold' = DepthsHold /\ WellFormed' = WellFormed
      /\ \A c : Parents(c)' = Parents(c) /\ Ancestry(c)' = Ancestry(c)
  BY <1>0, SameNodes
<1>2. CASE ValidateReferences
  <2>1. CASE ReferencesHold
    <3>1. /\ status' = "cycles" /\ colour' = [c \in Known |-> 0] /\ stack' = <<>>
      BY <1>2, <2>1 DEF ValidateReferences, GraphInv
    <3>2. SearchInv'
      BY <1>1, <3>1 DEF SearchInv, SearchTypes, OnPath, Explored
    <3> QED BY <1>1, <2>1, <3>1, <3>2 DEF GraphInv
  <2>2. CASE ~ReferencesHold
    BY <1>1, <1>2, <2>2 DEF ValidateReferences, GraphInv, WellFormed
  <2> QED BY <2>1, <2>2
<1>3. CASE StartAtRoot
  <2>1. status = "cycles" /\ status' = "cycles"
    BY <1>3 DEF StartAtRoot
  <2> QED BY <1>0, <1>1, <1>3, <2>1, StartKeeps DEF GraphInv
<1>4. CASE FollowParent
  <2>1. status = "cycles"
    BY <1>4 DEF FollowParent
  <2> QED BY <1>0, <1>1, <1>4, <2>1, FollowKeeps DEF GraphInv
<1>5. CASE LeaveNode
  <2>1. status = "cycles" /\ status' = "cycles"
    BY <1>5 DEF LeaveNode
  <2> QED BY <1>0, <1>1, <1>5, <2>1, LeaveKeeps DEF GraphInv
<1>6. CASE NoCycle
  <2>1. /\ status = "cycles" /\ status' = "depths" /\ stack = <<>>
        /\ \A c \in Known : colour[c] # 0
    BY <1>6 DEF NoCycle
  <2>2. ReferencesHold /\ SearchTypes /\ OnPath /\ Explored
    BY <2>1 DEF GraphInv, SearchInv
  <2>3. \A c \in Known : colour[c] = 2
    BY <2>1, <2>2 DEF SearchTypes, OnPath
  <2>4. Acyclic
    BY <2>2, <2>3 DEF Explored, Acyclic
  <2> QED BY <1>1, <2>1, <2>2, <2>4 DEF GraphInv
<1>7. CASE ValidateDepths
  <2>1. /\ status = "depths" /\ status' = IF DepthsHold THEN "serving" ELSE "refused"
        /\ ReferencesHold
    BY <1>7 DEF ValidateDepths, GraphInv
  <2>2. DepthsHold <=> WellFormed
    BY <1>0, <2>1, AcceptedIsWellFormed
  <2> QED BY <1>1, <2>1, <2>2 DEF GraphInv
<1> QED BY <1>2, <1>3, <1>4, <1>5, <1>6, <1>7

\* The invariant is inductive.
LEMMA NextGraphInv == GraphInv /\ [GraphNext]_graphVars => GraphInv'
<1>1. ASSUME GraphInv, UNCHANGED graphVars PROVE GraphInv'
  <2>1. UNCHANGED <<nodes, status, colour, stack>>
    BY <1>1
  <2>2. SearchInv' = SearchInv
    <3>1. Known' = Known /\ \A c : Parents(c)' = Parents(c) /\ Ancestry(c)' = Ancestry(c)
      BY <2>1, SameNodes
    <3>2. SearchTypes' = SearchTypes
      BY <2>1, <3>1 DEF SearchTypes
    <3>3. OnPath' = OnPath
      BY <2>1, <3>1 DEF OnPath
    <3>4. Explored' = Explored
      BY <2>1, <3>1 DEF Explored
    <3> QED BY <3>2, <3>3, <3>4 DEF SearchInv
  <2> QED BY <1>1, <2>1, <2>2, SameNodes DEF GraphInv
<1> QED BY <1>1, InsertKeeps, RetireKeeps, ValidateKeeps DEF GraphNext

\* Graphs of any number of nodes: what validate() lets through, and what insert()
\* makes of it, has known parents, no cycle and as depths the longest ways to a
\* root; what is refused lacks one of these, and what is called cyclic has a
\* node that is its own ancestor (LineageGraph::validate, find_cycle, insert).
THEOREM ValidationIsExact == GraphSpec => []ValidationDecides
<1>1. GraphInv => ValidationDecides
  <2> SUFFICES ASSUME GraphInv PROVE ValidationDecides
    OBVIOUS
  <2>1. status = "serving" => WellFormed
    BY AcceptedIsWellFormed DEF GraphInv
  <2> QED BY <2>1 DEF GraphInv, ValidationDecides
<1> QED BY <1>1, InitGraphInv, NextGraphInv, PTL DEF GraphSpec

\* Whatever parents a child is made from, insert() accepts it
\* (LineageGraph::make_child).
THEOREM ChildrenAreAccepted == GraphSpec => []MadeChildIsAccepted
<1>1. GraphInv => MadeChildIsAccepted
  <2> SUFFICES ASSUME GraphInv, status = "serving",
                      NEW c \in Candidate \ Known, NEW parents \in ParentLists,
                      NEW lineage \in Lineage, CanHaveChild(c, parents)
               PROVE  Insertable(c, make_child(parents, lineage))
    BY DEF MadeChildIsAccepted
  <2> DEFINE D == {nodes[p].depth : p \in ToSet(parents)}
             node == make_child(parents, lineage)
  <2>1. /\ parents \in Seq(Candidate) /\ GraphTypes /\ kMaxLineageDepth \in Nat
        /\ c \notin ToSet(parents) /\ ToSet(parents) \subseteq Known
    BY ParentListsAreSeqs, GraphNumbers DEF GraphInv, CanHaveChild
  <2>2. CASE parents = <<>>
    BY <2>1, <2>2 DEF Insertable, make_child, Node, computed_depth
  <2>3. CASE parents # <<>>
    <3>1. /\ \E p \in ToSet(parents) : computed_depth(parents) = 1 + nodes[p].depth
          /\ \A q \in ToSet(parents) : nodes[q].depth < computed_depth(parents)
          /\ computed_depth(parents) \in Nat
      BY <2>1, <2>3, ComputedDepth
    <3>2. \A p \in ToSet(parents) : /\ nodes[p].depth \in Nat
                                    /\ nodes[p].depth < kMaxLineageDepth
      BY <2>1, <2>3, GraphNumbers DEF CanHaveChild
    <3>3. D \in SUBSET Nat /\ D # {} /\ \A k \in D : k <= kMaxLineageDepth
      BY <2>1, <3>1, <3>2
    <3>4. Largest(D) \in D /\ \A k \in D : k <= Largest(D)
      <4> HIDE DEF D
      <4> QED BY <2>1, <3>3, LargestIs
    <3>5. computed_depth(parents) = 1 + Largest(D)
      <4>1. PICK p \in ToSet(parents) : computed_depth(parents) = 1 + nodes[p].depth
        BY <3>1
      <4>2. nodes[p].depth \in D /\ nodes[p].depth <= Largest(D) /\ Largest(D) \in Nat
        BY <3>3, <3>4
      <4>3. PICK q \in ToSet(parents) : Largest(D) = nodes[q].depth
        BY <3>4
      <4>4. Largest(D) < computed_depth(parents)
        BY <3>1, <4>3
      <4> HIDE DEF D
      <4> QED BY <3>1, <3>2, <4>1, <4>2, <4>4
    <3>6. computed_depth(parents) <= kMaxLineageDepth
      BY <2>1, <3>1, <3>2
    <3>7. node = Node(nodes[parents[1]].lineage, parents, computed_depth(parents))
      BY <2>3, <3>5 DEF make_child
    <3> HIDE DEF node, D
    <3>8. /\ node.parents = parents /\ node.depth = computed_depth(parents)
          /\ node.lineage = nodes[parents[1]].lineage
      BY <3>7 DEF Node
    <3> QED BY <2>1, <3>6, <3>8 DEF Insertable, node
  <2> QED BY <2>2, <2>3
<1> QED BY <1>1, InitGraphInv, NextGraphInv, PTL DEF GraphSpec

\* Where nodes keep their parents they keep their ancestors, whatever is added.
LEMMA AncestryStays ==
    ASSUME ReferencesHold, Known \subseteq Known',
           \A d \in Known : nodes'[d].parents = nodes[d].parents,
           NEW c \in Known
    PROVE  Ancestry(c)' = Ancestry(c)
<1>1. /\ \A d \in Known : Parents(d)' = Parents(d) /\ Parents(d) \subseteq Known
  BY DEF Parents, ReferencesHold
<1>2. ASSUME NEW a \in Ancestry(c)' PROVE a \in Ancestry(c)
  <2>1. /\ Ancestry(c) \in SUBSET Known /\ Parents(c) \subseteq Ancestry(c)
        /\ \A d \in Ancestry(c) : Parents(d) \subseteq Ancestry(c)
    BY AncestryIsClosed
  <2> DEFINE S == Ancestry(c)
  <2>2. /\ S \in SUBSET Known' /\ Parents(c)' \subseteq S
        /\ \A d \in S : Parents(d)' \subseteq S
    BY <1>1, <2>1
  <2> HIDE DEF S
  <2>3. \A T \in SUBSET Known' :
           Parents(c)' \subseteq T /\ (\A d \in T : Parents(d)' \subseteq T) => a \in T
    BY <1>2 DEF Ancestry
  <2>4. a \in S
    BY <2>2, <2>3
  <2> QED BY <2>4 DEF S
<1>3. ASSUME NEW a \in Ancestry(c) PROVE a \in Ancestry(c)'
  <2>1. a \in Known'
    BY DEF Ancestry
  <2>2. ASSUME NEW T \in SUBSET Known', Parents(c)' \subseteq T,
               \A d \in T : Parents(d)' \subseteq T
        PROVE  a \in T
    <3> DEFINE S == T \cap Known
    <3>1. S \in SUBSET Known /\ Parents(c) \subseteq S /\ \A d \in S : Parents(d) \subseteq S
      BY <1>1, <2>2
    <3>2. Ancestry(c) \subseteq S
      <4> HIDE DEF S
      <4> QED BY <3>1, AncestryIsLeast
    <3> QED BY <3>2
  <2> QED BY <2>1, <2>2 DEF Ancestry
<1> QED BY <1>2, <1>3

\* Whatever is inserted or retired later, and however large the graph becomes, a
\* candidate keeps its parents, its ancestors and the reason for its retirement
\* (LineageGraph::insert, LineageGraph::retire).
THEOREM AncestryIsFinal == GraphSpec => HistoryIsFinal
<1> DEFINE HistoryStays ==
             \A c \in Known :
                /\ c \in Known' /\ nodes'[c].parents = nodes[c].parents
                /\ Ancestry(c)' = Ancestry(c)
                /\ nodes[c].retired # "no" => nodes'[c].retired = nodes[c].retired
<1>1. ASSUME GraphInv, [GraphNext]_graphVars, status = "serving"
      PROVE  HistoryStays
  <2>1. GraphTypes /\ ReferencesHold
    BY <1>1 DEF GraphInv
  <2>2. CASE UNCHANGED nodes
    BY <2>2, SameNodes
  <2>3. CASE \E c \in Candidate, lineage \in Lineage, parents \in ParentLists :
             \E depth \in 0..(kMaxLineageDepth + 1) : insert(c, Node(lineage, parents, depth))
    <3>1. /\ Known \subseteq Known' /\ \A d \in Known : nodes'[d] = nodes[d]
      BY <2>1, <2>3 DEF insert, Insertable, GraphTypes, Known
    <3> QED BY <2>1, <3>1, AncestryStays
  <2>4. CASE \E c \in Candidate, reason \in Reason : retire(c, reason)
    <3>1. PICK c \in Known, reason \in Reason :
             nodes[c].retired = "no" /\ nodes' = [nodes EXCEPT ![c].retired = reason]
      BY <2>4 DEF retire
    <3>2. /\ nodes \in [Known -> NodeRecord]
          /\ \A n \in NodeRecord : [n EXCEPT !.retired = reason].parents = n.parents
      BY <2>1 DEF GraphTypes, NodeRecord
    <3>3. /\ Known' = Known /\ nodes'[c].parents = nodes[c].parents
          /\ \A d \in Known : d # c => nodes'[d] = nodes[d]
      <4> DEFINE n == [nodes[c] EXCEPT !.retired = reason]
      <4>1. n.parents = nodes[c].parents /\ nodes' = [nodes EXCEPT ![c] = n]
        BY <3>1, <3>2
      <4> HIDE DEF n
      <4> QED BY <3>2, <4>1 DEF Known
    <3>4. \A d \in Known : Ancestry(d)' = Ancestry(d)
      BY <2>1, <3>3, AncestryStays
    <3> QED BY <3>1, <3>3, <3>4
  <2> QED BY <1>1, <2>2, <2>3, <2>4
       DEF GraphNext, ValidateReferences, StartAtRoot, FollowParent, LeaveNode, NoCycle,
           ValidateDepths
<1>2. GraphInv /\ [GraphNext]_graphVars => [status = "serving" => HistoryStays]_graphVars
  BY <1>1
<1> QED BY <1>2, InitGraphInv, NextGraphInv, PTL DEF GraphSpec, HistoryIsFinal

-----------------------------------------------------------------------------
(* Queries. *)

\* The graph a query walks in.
Served == GraphTypes /\ ReferencesHold /\ DepthsHold

\* What ancestors_of has done when it has been at v and has f before it: all it
\* met are ancestors, and every parent of c or of a visited node is visited or
\* ahead.  The first m nodes ahead are parents of c; once these are through, all
\* parents of c are visited.
AncestorsInv(c, v, f) ==
    /\ v \in Seq(Known) /\ f \in Seq(Known) /\ IsInjective(v)
    /\ ToSet(v) \subseteq Ancestry(c) /\ ToSet(f) \subseteq Ancestry(c)
    /\ Parents(c) \subseteq ToSet(v) \cup ToSet(f)
    /\ \A d \in ToSet(v) : Parents(d) \subseteq ToSet(v) \cup ToSet(f)
    /\ \A i, j \in 1..Len(v) : i < j /\ v[j] \in Parents(c) => v[i] \in Parents(c)
    /\ \E m \in 0..Len(f) :
          /\ \A i \in 1..m : f[i] \in Parents(c)
          /\ m > 0 => ToSet(v) \subseteq Parents(c)
          /\ Parents(c) \subseteq ToSet(v) \cup {f[i] : i \in 1..m}

\* What path_to_root has done: v is a chain of primary parents from c on, whose
\* depths go down, and f is what follows.
PathInv(c, v, f) ==
    /\ v \in Seq(Known)
    /\ v = <<>> => f = <<c>>
    /\ v # <<>> => v[1] = c /\ f = Primary(v[Len(v)])
    /\ \A i \in 2..Len(v) : Primary(v[i - 1]) = <<v[i]>>
    /\ \A i \in 1..Len(v) : nodes[v[i]].depth + i <= nodes[c].depth + 1
    /\ \A i, j \in 1..Len(v) : i < j => nodes[v[j]].depth < nodes[v[i]].depth

\* The walk up from e with x ahead: all visited nodes are deeper than x, and c
\* is on the way exactly if it is x or beyond.
OnTheWay(c, v, x, e) ==
    /\ x \in Known /\ \A d \in ToSet(v) : nodes[x].depth < nodes[d].depth
    /\ c \in PrimaryAncestry(e) <=> c = x \/ c \in PrimaryAncestry(x)

\* What descendants_of has done: D are the descendants among the nodes whose chains
\* were walked, which are all but E and the one e that is walked now.
DescendantsInv(c, v, f, E, e, D) ==
    /\ v \in Seq(Known) /\ E \subseteq Known /\ e \in Known \ E
    /\ f # <<>> => \E x \in Known : f = <<x>> /\ OnTheWay(c, v, x, e)
    /\ D = {d \in Known : /\ d \notin E /\ (f # <<>> => d # e)
                          /\ c \in PrimaryAncestry(d)}

\* A query walks in a graph in use.
QueryInv ==
    \E c, v, f, E, e, D :
        /\ c = about /\ v = visited /\ f = frontier
        /\ E = entries /\ e = entry /\ D = descended
        /\ query \in {"none", "ancestors_of", "path_to_root", "descendants_of"}
        /\ query # "none" => status = "serving" /\ c \in Known
        /\ query = "ancestors_of" => E = {} /\ AncestorsInv(c, v, f)
        /\ query = "path_to_root" => E = {} /\ PathInv(c, v, f)
        /\ query = "descendants_of" => DescendantsInv(c, v, f, E, e, D)

\* What is said of a walk is about the nodes.
LEMMA SameWalks ==
    ASSUME UNCHANGED nodes
    PROVE  /\ \A c, v, f : AncestorsInv(c, v, f)' = AncestorsInv(c, v, f)
           /\ \A c, v, f : PathInv(c, v, f)' = PathInv(c, v, f)
           /\ \A c, v, f, E, e, D :
                 DescendantsInv(c, v, f, E, e, D)' = DescendantsInv(c, v, f, E, e, D)
<1>1. Known' = Known /\ \A c : Parents(c)' = Parents(c) /\ Ancestry(c)' = Ancestry(c)
  BY SameNodes
<1>2. \A c : Primary(c)' = Primary(c)
  BY DEF Primary
<1>3. \A c : PrimaryAncestry(c)' = PrimaryAncestry(c)
  BY <1>1, <1>2 DEF PrimaryAncestry
<1>4. \A c, v, x, e : OnTheWay(c, v, x, e)' = OnTheWay(c, v, x, e)
  BY <1>1, <1>3 DEF OnTheWay
<1>5. \A c, v, f : AncestorsInv(c, v, f)' = AncestorsInv(c, v, f)
  BY <1>1 DEF AncestorsInv
<1>6. \A c, v, f : PathInv(c, v, f)' = PathInv(c, v, f)
  BY <1>1, <1>2 DEF PathInv
<1>7. \A c, v, f, E, e, D :
         DescendantsInv(c, v, f, E, e, D)' = DescendantsInv(c, v, f, E, e, D)
  BY <1>1, <1>3, <1>4 DEF DescendantsInv
<1> QED BY <1>5, <1>6, <1>7

\* A list with one more element.
LEMMA OneMore ==
    ASSUME NEW S, NEW s \in Seq(S), NEW x \in S
    PROVE  /\ Append(s, x) \in Seq(S) /\ Append(s, x) # <<>>
           /\ Len(s) \in Nat /\ Len(Append(s, x)) = Len(s) + 1
           /\ Append(s, x)[Len(s) + 1] = x
           /\ \A i \in 1..Len(s) : Append(s, x)[i] = s[i]
           /\ ToSet(Append(s, x)) = ToSet(s) \cup {x}
           /\ Contains(s, x) <=> x \in ToSet(s)
<1> DEFINE t == Append(s, x)
<1>1. /\ t \in Seq(S) /\ t # <<>> /\ Len(s) \in Nat /\ Len(t) = Len(s) + 1
      /\ t[Len(s) + 1] = x /\ \A i \in 1..Len(s) : t[i] = s[i]
      /\ DOMAIN s = 1..Len(s) /\ DOMAIN t = 1..(Len(s) + 1)
  OBVIOUS
<1> HIDE DEF t
<1>2. ToSet(t) \subseteq ToSet(s) \cup {x}
  BY <1>1 DEF ToSet
<1>3. ToSet(s) \subseteq ToSet(t)
  <2> SUFFICES ASSUME NEW i \in 1..Len(s) PROVE s[i] \in ToSet(t)
    BY <1>1 DEF ToSet
  <2>1. i \in DOMAIN t /\ t[i] = s[i]
    BY <1>1
  <2> QED BY <2>1 DEF ToSet
<1>4. x \in ToSet(t)
  <2>1. Len(s) + 1 \in DOMAIN t
    BY <1>1
  <2> QED BY <1>1, <2>1 DEF ToSet
<1>5. Contains(s, x) <=> x \in ToSet(s)
  BY <1>1 DEF Contains, ToSet
<1> QED BY <1>1, <1>2, <1>3, <1>4, <1>5 DEF t

\* A list without its head, and another behind it.
LEMMA OneLess ==
    ASSUME NEW S, NEW s \in Seq(S), s # <<>>, NEW p \in Seq(S)
    PROVE  /\ Head(s) = s[1] /\ Head(s) \in S /\ Len(s) \in Nat \ {0}
           /\ Tail(s) \o p \in Seq(S) /\ Len(Tail(s) \o p) = Len(s) - 1 + Len(p)
           /\ Len(p) \in Nat
           /\ \A i \in 1..(Len(s) - 1) : (Tail(s) \o p)[i] = s[i + 1]
           /\ {Head(s)} \cup ToSet(Tail(s) \o p) = ToSet(s) \cup ToSet(p)
<1> DEFINE a == Tail(s)
           t == a \o p
<1>1. /\ a \in Seq(S) /\ Head(s) = s[1] /\ Head(s) \in S /\ Len(s) \in Nat \ {0}
      /\ Len(a) = Len(s) - 1 /\ \A i \in 1..(Len(s) - 1) : a[i] = s[i + 1]
      /\ ToSet(s) = {Head(s)} \cup ToSet(a)
  BY HeadAndTail
<1> HIDE DEF a
<1>2. /\ t \in Seq(S) /\ Len(t) = Len(a) + Len(p) /\ Len(a) \in Nat /\ Len(p) \in Nat
      /\ \A i \in 1..Len(a) : t[i] = a[i]
      /\ \A i \in 1..Len(p) : t[Len(a) + i] = p[i]
      /\ DOMAIN t = 1..(Len(a) + Len(p)) /\ DOMAIN a = 1..Len(a) /\ DOMAIN p = 1..Len(p)
  <2>1. a \in Seq(S) /\ p \in Seq(S)
    BY <1>1
  <2>2. t \in Seq(S) /\ Len(t) = Len(a) + Len(p)
    BY <2>1
  <2>3. Len(a) \in Nat /\ Len(p) \in Nat /\ DOMAIN a = 1..Len(a) /\ DOMAIN p = 1..Len(p)
    BY <2>1
  <2>4. \A i \in 1..Len(a) : t[i] = a[i]
    BY <2>1
  <2>5. \A i \in 1..Len(p) : t[Len(a) + i] = p[i]
    BY <2>1, <2>3
  <2>6. DOMAIN t = 1..(Len(a) + Len(p))
    <3> HIDE DEF t
    <3> QED BY <2>2
  <2> QED BY <2>2, <2>3, <2>4, <2>5, <2>6
<1> HIDE DEF t
<1>3. ToSet(t) \subseteq ToSet(a) \cup ToSet(p)
  <2> SUFFICES ASSUME NEW i \in 1..(Len(a) + Len(p)) PROVE t[i] \in ToSet(a) \cup ToSet(p)
    BY <1>2 DEF ToSet
  <2>1. CASE i <= Len(a)
    <3>1. i \in DOMAIN a /\ t[i] = a[i]
      BY <1>2, <2>1
    <3> QED BY <3>1 DEF ToSet
  <2>2. CASE i > Len(a)
    <3>1. i - Len(a) \in 1..Len(p) /\ i = Len(a) + (i - Len(a))
      BY <1>2, <2>2
    <3>2. t[i] = p[i - Len(a)] /\ i - Len(a) \in DOMAIN p
      BY <1>2, <3>1
    <3> QED BY <3>2 DEF ToSet
  <2> QED BY <1>2, <2>1, <2>2
<1>4. ToSet(a) \subseteq ToSet(t)
  <2> SUFFICES ASSUME NEW i \in 1..Len(a) PROVE a[i] \in ToSet(t)
    BY <1>2 DEF ToSet
  <2>1. i \in DOMAIN t /\ t[i] = a[i]
    BY <1>2
  <2> QED BY <2>1 DEF ToSet
<1>5. ToSet(p) \subseteq ToSet(t)
  <2> SUFFICES ASSUME NEW i \in 1..Len(p) PROVE p[i] \in ToSet(t)
    BY <1>2 DEF ToSet
  <2>1. Len(a) + i \in DOMAIN t /\ t[Len(a) + i] = p[i]
    BY <1>2
  <2> QED BY <2>1 DEF ToSet
<1>6. /\ Len(t) = Len(s) - 1 + Len(p)
      /\ \A i \in 1..(Len(s) - 1) : t[i] = s[i + 1]
  BY <1>1, <1>2
<1> QED BY <1>1, <1>2, <1>3, <1>4, <1>5, <1>6 DEF t, a

\* Nothing is its own ancestor, and parents are known.
LEMMA ServedIs ==
    ASSUME Served, NEW c \in Known
    PROVE  /\ c \notin Ancestry(c) /\ c \notin PrimaryAncestry(c)
           /\ nodes[c].parents \in Seq(Known) /\ ToSet(nodes[c].parents) = Parents(c)
           /\ nodes[c].depth \in Nat /\ nodes[c].depth <= kMaxLineageDepth
           /\ Ancestry(c) \in SUBSET Known /\ Parents(c) \in SUBSET Ancestry(c)
           /\ PrimaryAncestry(c) \subseteq Ancestry(c)
<1>1. c \notin Ancestry(c)
  BY GraphNumbers, DepthsRise DEF Served
<1>2. nodes[c].parents \in Seq(Candidate) /\ ToSet(nodes[c].parents) \subseteq Known
  BY DEF Served, GraphTypes, NodeRecord, ReferencesHold
<1>3. nodes[c].parents \in Seq(Known)
  <2> DEFINE s == nodes[c].parents
  <2>1. s \in Seq(Candidate) /\ \A i \in DOMAIN s : s[i] \in Known
    BY <1>2 DEF ToSet
  <2> HIDE DEF s
  <2>2. s \in Seq(Known)
    BY <2>1
  <2> QED BY <2>2 DEF s
<1>4. nodes[c].depth \in Nat /\ nodes[c].depth <= kMaxLineageDepth
  BY GraphNumbers DEF Served, DepthsHold
<1>5. /\ Ancestry(c) \in SUBSET Known /\ Parents(c) \in SUBSET Ancestry(c)
      /\ \A a \in Ancestry(c) : Parents(a) \subseteq Ancestry(c)
  BY AncestryIsClosed DEF Served
<1>6. \A d \in Known : ToSet(Primary(d)) \subseteq Parents(d)
  <2> TAKE d \in Known
  <2>1. nodes[d].parents \in Seq(Candidate)
    BY DEF Served, GraphTypes, NodeRecord
  <2>2. CASE nodes[d].parents = <<>>
    BY <2>2 DEF Primary, ToSet
  <2>3. CASE nodes[d].parents # <<>>
    <3>1. ToSet(Primary(d)) = {Head(nodes[d].parents)}
      BY <2>3 DEF Primary, ToSet
    <3> QED BY <2>1, <2>3, <3>1, HeadAndTail DEF Parents
  <2> QED BY <2>2, <2>3
<1>7. PrimaryAncestry(c) \subseteq Ancestry(c)
  <2> DEFINE S == Ancestry(c)
  <2>1. /\ S \in SUBSET Known /\ ToSet(Primary(c)) \subseteq S
        /\ \A d \in S : ToSet(Primary(d)) \subseteq S
    BY <1>5, <1>6
  <2> HIDE DEF S
  <2>2. PrimaryAncestry(c) \subseteq S
    BY <2>1 DEF PrimaryAncestry
  <2> QED BY <2>2 DEF S
<1> QED BY <1>1, <1>2, <1>3, <1>4, <1>5, <1>7 DEF Parents

\* On the primary way up there is the primary parent and what is on its way up.
LEMMA PrimaryIs ==
    ASSUME Served, NEW c \in Known
    PROVE  \/ Primary(c) = <<>> /\ PrimaryAncestry(c) = {}
           \/ \E p \in Known : /\ Primary(c) = <<p>> /\ nodes[p].depth < nodes[c].depth
                               /\ PrimaryAncestry(c) = {p} \cup PrimaryAncestry(p)
<1>1. CASE nodes[c].parents = <<>>
  <2>1. Primary(c) = <<>> /\ ToSet(Primary(c)) = {}
    BY <1>1 DEF Primary, ToSet
  <2>2. PrimaryAncestry(c) \subseteq {}
    BY <2>1 DEF PrimaryAncestry
  <2> QED BY <2>1, <2>2
<1>2. CASE nodes[c].parents # <<>>
  <2>1. PICK p : p = Head(nodes[c].parents)
    OBVIOUS
  <2>2. Primary(c) = <<p>> /\ ToSet(Primary(c)) = {p}
    BY <1>2, <2>1 DEF Primary, ToSet
  <2>3. p \in Known /\ p \in Parents(c)
    BY <1>2, <2>1, ServedIs, HeadAndTail
  <2>4. nodes[p].depth < nodes[c].depth
    BY <2>3, ServedIs, DepthsRise DEF Served
  <2>5. ASSUME NEW a \in PrimaryAncestry(c) PROVE a \in {p} \cup PrimaryAncestry(p)
    <3> DEFINE S == {p} \cup PrimaryAncestry(p)
    <3>1. S \in SUBSET Known
      BY <2>3 DEF PrimaryAncestry
    <3>2. \A d \in PrimaryAncestry(p) : ToSet(Primary(d)) \subseteq PrimaryAncestry(p)
      <4> TAKE d \in PrimaryAncestry(p)
      <4>1. ToSet(Primary(d)) \subseteq Known
        <5>1. d \in Known
          BY DEF PrimaryAncestry
        <5>2. nodes[d].parents \in Seq(Known)
          BY <5>1, ServedIs
        <5>3. CASE nodes[d].parents = <<>>
          BY <5>3 DEF Primary, ToSet
        <5>4. CASE nodes[d].parents # <<>>
          BY <5>2, <5>4 DEF Primary, ToSet
        <5> QED BY <5>3, <5>4
      <4> QED BY <4>1 DEF PrimaryAncestry
    <3>3. ToSet(Primary(p)) \subseteq PrimaryAncestry(p)
      <4>1. ToSet(Primary(p)) \subseteq Known
        <5>2. nodes[p].parents \in Seq(Known)
          BY <2>3, ServedIs
        <5>3. CASE nodes[p].parents = <<>>
          BY <5>3 DEF Primary, ToSet
        <5>4. CASE nodes[p].parents # <<>>
          BY <5>2, <5>4 DEF Primary, ToSet
        <5> QED BY <5>3, <5>4
      <4> QED BY <4>1 DEF PrimaryAncestry
    <3>4. ToSet(Primary(c)) \subseteq S /\ \A d \in S : ToSet(Primary(d)) \subseteq S
      BY <2>2, <3>2, <3>3
    <3> HIDE DEF S
    <3>5. a \in S
      BY <3>1, <3>4 DEF PrimaryAncestry
    <3> QED BY <3>5 DEF S
  <2>6. ASSUME NEW a \in {p} \cup PrimaryAncestry(p) PROVE a \in PrimaryAncestry(c)
    <3>1. a \in Known
      BY <2>3 DEF PrimaryAncestry
    <3>2. ASSUME NEW S \in SUBSET Known, ToSet(Primary(c)) \subseteq S,
                 \A d \in S : ToSet(Primary(d)) \subseteq S
          PROVE  a \in S
      <4>1. p \in S /\ ToSet(Primary(p)) \subseteq S
        BY <2>2, <3>2
      <4> QED BY <3>2, <4>1 DEF PrimaryAncestry
    <3> QED BY <3>1, <3>2 DEF PrimaryAncestry
  <2>7. PrimaryAncestry(c) = {p} \cup PrimaryAncestry(p)
    BY <2>5, <2>6
  <2> QED BY <2>2, <2>3, <2>4, <2>7
<1> QED BY <1>1, <1>2

\* ancestors_of has met nothing before its first step.
LEMMA AncestorsBegin ==
    ASSUME Served, NEW c \in Known
    PROVE  AncestorsInv(c, <<>>, nodes[c].parents)
<1> DEFINE f == nodes[c].parents
<1>1. /\ f \in Seq(Known) /\ ToSet(f) = Parents(c) /\ Parents(c) \subseteq Ancestry(c)
      /\ ToSet(<<>>) = {} /\ IsInjective(<<>>) /\ Len(f) \in Nat /\ DOMAIN f = 1..Len(f)
  BY ServedIs DEF ToSet, IsInjective
<1> HIDE DEF f
<1>2. \A i \in 1..Len(f) : f[i] \in Parents(c)
  BY <1>1 DEF ToSet
<1>3. Parents(c) \subseteq {f[i] : i \in 1..Len(f)}
  BY <1>1 DEF ToSet
<1>4. Len(f) \in 0..Len(f) /\ <<>> \in Seq(Known) /\ Len(<<>>) = 0
  BY <1>1
<1>5. AncestorsInv(c, <<>>, f)
  BY <1>1, <1>2, <1>3, <1>4 DEF AncestorsInv
<1> QED BY <1>5 DEF f

\* Each step takes one node off the frontier, and visits it unless it was visited.
LEMMA AncestorVisited ==
    ASSUME Served, NEW c \in Known, NEW v, NEW f, AncestorsInv(c, v, f), f # <<>>
    PROVE  IF Head(f) # c /\ ~Contains(v, Head(f))
           THEN AncestorsInv(c, Append(v, Head(f)), Tail(f) \o nodes[Head(f)].parents)
           ELSE AncestorsInv(c, v, Tail(f) \o <<>>)
<1>1. /\ v \in Seq(Known) /\ f \in Seq(Known) /\ IsInjective(v)
      /\ ToSet(v) \subseteq Ancestry(c) /\ ToSet(f) \subseteq Ancestry(c)
      /\ Parents(c) \subseteq ToSet(v) \cup ToSet(f)
      /\ \A d \in ToSet(v) : Parents(d) \subseteq ToSet(v) \cup ToSet(f)
      /\ \A i, j \in 1..Len(v) : i < j /\ v[j] \in Parents(c) => v[i] \in Parents(c)
  BY DEF AncestorsInv
<1>2. PICK m \in 0..Len(f) :
         /\ \A i \in 1..m : f[i] \in Parents(c)
         /\ m > 0 => ToSet(v) \subseteq Parents(c)
         /\ Parents(c) \subseteq ToSet(v) \cup {f[i] : i \in 1..m}
  BY DEF AncestorsInv
<1>3. PICK x : x = Head(f)
  OBVIOUS
<1>4. /\ x \in Known /\ x = f[1] /\ Len(f) \in Nat \ {0} /\ x \in Ancestry(c) /\ x # c
      /\ Contains(v, x) <=> x \in ToSet(v)
  <2>1. x \in Known /\ x = f[1] /\ Len(f) \in Nat \ {0} /\ x \in ToSet(f)
    BY <1>1, <1>3, HeadAndTail, OneLess
  <2>2. c \notin Ancestry(c)
    BY ServedIs
  <2> QED BY <1>1, <2>1, <2>2, OneMore
<1>5. PICK n \in Nat : /\ n = IF m = 0 THEN 0 ELSE m - 1
                       /\ n <= Len(f) - 1 /\ (n > 0 => m > 0)
  BY <1>2, <1>4
\* What the rest of the frontier has, whatever is put behind it.
<1> DEFINE Rest(t, p) ==
             /\ t \in Seq(Known) /\ {x} \cup ToSet(t) = ToSet(f) \cup ToSet(p)
             /\ n \in 0..Len(t) /\ \A i \in 1..n : t[i] \in Parents(c)
             /\ {f[i] : i \in 1..m} \subseteq {x} \cup {t[i] : i \in 1..n}
<1>6. ASSUME NEW p \in Seq(Known), NEW t, t = Tail(f) \o p
      PROVE  Rest(t, p)
  <2>1. /\ t \in Seq(Known) /\ Len(t) = Len(f) - 1 + Len(p) /\ Len(p) \in Nat
        /\ \A i \in 1..(Len(f) - 1) : t[i] = f[i + 1]
        /\ {x} \cup ToSet(t) = ToSet(f) \cup ToSet(p)
    BY <1>1, <1>3, <1>6, OneLess
  <2>2. n \in 0..Len(t)
    BY <1>4, <1>5, <2>1
  <2>3. ASSUME NEW i \in 1..n PROVE t[i] = f[i + 1] /\ i + 1 \in 1..m
    BY <1>2, <1>4, <1>5, <2>1
  <2>4. ASSUME NEW i \in 1..m PROVE f[i] \in {x} \cup {t[k] : k \in 1..n}
    <3>1. CASE i = 1
      BY <1>4, <3>1
    <3>2. CASE i # 1
      <4>1. i - 1 \in 1..n /\ (i - 1) + 1 = i
        BY <1>2, <1>5, <3>2
      <4>2. t[i - 1] = f[i]
        BY <2>3, <4>1
      <4> QED BY <4>1, <4>2
    <3> QED BY <3>1, <3>2
  <2> QED BY <1>2, <2>1, <2>2, <2>3, <2>4
<1>7. CASE x \in ToSet(v)
  <2>1. PICK t : t = Tail(f) \o <<>>
    OBVIOUS
  <2>2. <<>> \in Seq(Known) /\ ToSet(<<>>) = {}
    BY DEF ToSet
  <2>3. /\ t \in Seq(Known) /\ {x} \cup ToSet(t) = ToSet(f)
        /\ n \in 0..Len(t) /\ \A i \in 1..n : t[i] \in Parents(c)
        /\ {f[i] : i \in 1..m} \subseteq {x} \cup {t[i] : i \in 1..n}
    <3>1. Rest(t, <<>>)
      <4> HIDE DEF Rest
      <4> QED BY <1>6, <2>1, <2>2
    <3> QED BY <2>2, <3>1
  <2>4. ToSet(v) \cup ToSet(f) = ToSet(v) \cup ToSet(t)
    BY <1>7, <2>3
  <2>5. Parents(c) \subseteq ToSet(v) \cup {t[i] : i \in 1..n}
    BY <1>2, <1>7, <2>3
  <2>6. n > 0 => ToSet(v) \subseteq Parents(c)
    BY <1>2, <1>5
  <2>7. AncestorsInv(c, v, t)
    BY <1>1, <2>3, <2>4, <2>5, <2>6 DEF AncestorsInv
  <2> QED BY <1>3, <1>4, <1>7, <2>1, <2>7
<1>8. CASE x \notin ToSet(v)
  <2>1. PICK t, w, p : t = Tail(f) \o p /\ w = Append(v, x) /\ p = nodes[x].parents
    OBVIOUS
  <2>2. p \in Seq(Known) /\ ToSet(p) = Parents(x) /\ Parents(x) \subseteq Ancestry(c)
    <3>1. \A a \in Ancestry(c) : Parents(a) \subseteq Ancestry(c)
      BY AncestryIsClosed DEF Served
    <3> QED BY <1>4, <2>1, <3>1, ServedIs
  <2>3. /\ t \in Seq(Known) /\ {x} \cup ToSet(t) = ToSet(f) \cup Parents(x)
        /\ n \in 0..Len(t) /\ \A i \in 1..n : t[i] \in Parents(c)
        /\ {f[i] : i \in 1..m} \subseteq {x} \cup {t[i] : i \in 1..n}
    <3>1. Rest(t, p)
      <4> HIDE DEF Rest
      <4> QED BY <1>6, <2>1, <2>2
    <3> QED BY <2>2, <3>1
  <2>4. /\ w \in Seq(Known) /\ Len(v) \in Nat /\ Len(w) = Len(v) + 1 /\ w[Len(v) + 1] = x
        /\ \A i \in 1..Len(v) : w[i] = v[i]
        /\ ToSet(w) = ToSet(v) \cup {x}
    BY <1>1, <1>4, <2>1, OneMore
  <2>5. IsInjective(w)
    <3>1. DOMAIN w = 1..(Len(v) + 1) /\ DOMAIN v = 1..Len(v)
      BY <1>1, <2>4
    <3>2. \A i \in 1..Len(v) : v[i] # x
      BY <1>8, <3>1 DEF ToSet
    <3>3. \A i, j \in 1..Len(v) : v[i] = v[j] => i = j
      BY <1>1, <3>1 DEF IsInjective
    <3>4. ASSUME NEW i \in 1..(Len(v) + 1), NEW j \in 1..(Len(v) + 1), w[i] = w[j]
          PROVE  i = j
      <4>1. (i \in 1..Len(v) \/ i = Len(v) + 1) /\ (j \in 1..Len(v) \/ j = Len(v) + 1)
        BY <2>4
      <4> QED BY <2>4, <3>2, <3>3, <3>4, <4>1
    <3> QED BY <3>1, <3>4 DEF IsInjective
  <2>6. ToSet(w) \subseteq Ancestry(c) /\ ToSet(t) \subseteq Ancestry(c)
    BY <1>1, <1>4, <2>2, <2>3, <2>4
  <2>7. ToSet(v) \cup ToSet(f) \cup Parents(x) = ToSet(w) \cup ToSet(t)
    BY <2>3, <2>4
  <2>8. /\ Parents(c) \subseteq ToSet(w) \cup ToSet(t)
        /\ \A d \in ToSet(w) : Parents(d) \subseteq ToSet(w) \cup ToSet(t)
    <3>1. ASSUME NEW d \in ToSet(w) PROVE Parents(d) \subseteq ToSet(w) \cup ToSet(t)
      <4>1. d \in ToSet(v) \/ d = x
        BY <2>4
      <4> QED BY <1>1, <2>7, <4>1
    <3> QED BY <1>1, <2>7, <3>1
  <2>9. Parents(c) \subseteq ToSet(w) \cup {t[i] : i \in 1..n}
    BY <1>2, <2>3, <2>4
  <2>10. m > 0 => ToSet(w) \subseteq Parents(c)
    BY <1>2, <1>4, <2>4
  <2>11. ASSUME NEW i \in 1..Len(w), NEW j \in 1..Len(w), i < j, w[j] \in Parents(c)
         PROVE  w[i] \in Parents(c)
    <3>1. i \in 1..Len(v) /\ w[i] = v[i] /\ v[i] \in ToSet(w)
      <4>1. i \in 1..Len(v) /\ w[i] = v[i]
        BY <2>4, <2>11
      <4>2. v[i] \in ToSet(v)
        BY <1>1, <4>1 DEF ToSet
      <4> QED BY <2>4, <4>1, <4>2
    <3>2. CASE m > 0
      BY <2>10, <3>1, <3>2
    <3>3. CASE m = 0
      <4>1. Parents(c) \subseteq ToSet(v)
        BY <1>2, <3>3
      <4>2. w[j] # x
        BY <1>8, <2>11, <4>1
      <4>3. j \in 1..Len(v) /\ w[j] = v[j]
        BY <2>4, <4>2
      <4> QED BY <1>1, <2>11, <3>1, <4>3
    <3> QED BY <1>2, <3>2, <3>3
  <2>12. n > 0 => ToSet(w) \subseteq Parents(c)
    BY <1>5, <2>10
  <2>13. AncestorsInv(c, w, t)
    BY <2>3, <2>4, <2>5, <2>6, <2>8, <2>9, <2>11, <2>12 DEF AncestorsInv
  <2> QED BY <1>3, <1>4, <1>8, <2>1, <2>13
<1> QED BY <1>7, <1>8

\* When nothing is left to visit, all ancestors were.
LEMMA AncestorsFound ==
    ASSUME Served, NEW c \in Known, NEW v, AncestorsInv(c, v, <<>>)
    PROVE  ToSet(v) = Ancestry(c)
<1>1. ToSet(<<>>) = {}
  BY DEF ToSet
<1>2. /\ ToSet(v) \subseteq Ancestry(c) /\ Parents(c) \subseteq ToSet(v)
      /\ \A d \in ToSet(v) : Parents(d) \subseteq ToSet(v)
  BY <1>1 DEF AncestorsInv
<1>3. ToSet(v) \in SUBSET Known
  BY <1>2, ServedIs
<1>4. Ancestry(c) \subseteq ToSet(v)
  BY <1>2, <1>3, AncestryIsLeast
<1> QED BY <1>2, <1>4

\* A path starts with the candidate.
LEMMA PathBegins ==
    ASSUME NEW c \in Known
    PROVE  PathInv(c, <<>>, <<c>>)
<1>1. <<>> \in Seq(Known) /\ Len(<<>>) = 0
  OBVIOUS
<1> QED BY <1>1 DEF PathInv

\* It is never cut off: no node comes back, and the depth bounds its length.
LEMMA PathClimbed ==
    ASSUME Served, NEW c \in Known, NEW v, NEW f, PathInv(c, v, f), f # <<>>
    PROVE  /\ ~Contains(v, Head(f)) /\ ~(Len(v) >= kMaxLineageDepth + 1)
           /\ PathInv(c, Append(v, Head(f)), Primary(Head(f)))
<1>0. /\ v \in Seq(Known) /\ Len(v) \in Nat /\ DOMAIN v = 1..Len(v)
      /\ v = <<>> => f = <<c>>
      /\ v # <<>> => v[1] = c /\ f = Primary(v[Len(v)])
      /\ \A i \in 2..Len(v) : Primary(v[i - 1]) = <<v[i]>>
      /\ \A i \in 1..Len(v) : v[i] \in Known /\ nodes[v[i]].depth + i <= nodes[c].depth + 1
      /\ \A i, j \in 1..Len(v) : i < j => nodes[v[j]].depth < nodes[v[i]].depth
  BY DEF PathInv
<1>1. kMaxLineageDepth \in Nat
  BY GraphNumbers
<1>2. /\ \A d \in Known : nodes[d].depth \in Nat
      /\ nodes[c].depth <= kMaxLineageDepth
  BY ServedIs
<1>3. PICK x : x = Head(f)
  OBVIOUS
<1>4. /\ x \in Known
      /\ v # <<>> => Primary(v[Len(v)]) = <<x>>
      /\ v = <<>> => x = c
      /\ \A i \in 1..Len(v) : nodes[x].depth < nodes[v[i]].depth
      /\ nodes[x].depth + Len(v) <= nodes[c].depth
  <2>1. CASE v = <<>>
    BY <1>0, <1>2, <1>3, <2>1
  <2>2. CASE v # <<>>
    <3>1. Len(v) \in 1..Len(v) /\ Len(v) # 0
      BY <1>0, <2>2
    <3>2. PICK d \in Known : d = v[Len(v)]
      BY <1>0, <3>1
    <3>3. Primary(d) # <<>> /\ x = Head(Primary(d))
      BY <1>0, <1>3, <2>2, <3>2
    <3>4. PICK p \in Known : Primary(d) = <<p>> /\ nodes[p].depth < nodes[d].depth
      BY <3>3, PrimaryIs
    <3>5. p = x
      BY <3>3, <3>4
    <3>6. nodes[x].depth < nodes[d].depth
      BY <3>4, <3>5
    <3>7. \A i \in 1..Len(v) : nodes[d].depth <= nodes[v[i]].depth
      <4> TAKE i \in 1..Len(v)
      <4>1. CASE i = Len(v)
        BY <1>2, <3>2, <4>1
      <4>2. CASE i < Len(v)
        BY <1>0, <1>2, <3>1, <3>2, <4>2
      <4>3. Len(v) \in Nat
        BY <1>0
      <4>4. i = Len(v) \/ i < Len(v)
        BY <4>3
      <4> QED BY <4>1, <4>2, <4>4
    <3>8. \A i \in 1..Len(v) : nodes[x].depth < nodes[v[i]].depth
      BY <1>0, <1>2, <3>4, <3>5, <3>6, <3>7
    <3>9. nodes[d].depth + Len(v) <= nodes[c].depth + 1
      BY <1>0, <3>1, <3>2
    <3>10. nodes[x].depth + Len(v) <= nodes[c].depth
      BY <1>0, <1>2, <3>4, <3>5, <3>6, <3>9
    <3> QED BY <2>2, <3>2, <3>4, <3>5, <3>8, <3>10
  <2> QED BY <2>1, <2>2
<1>5. ~Contains(v, x)
  <2> SUFFICES ASSUME NEW i \in 1..Len(v), v[i] = x PROVE FALSE
    BY DEF Contains
  <2>1. nodes[x].depth < nodes[x].depth
    BY <1>4
  <2> QED BY <1>2, <1>4, <2>1
<1>6. ~(Len(v) >= kMaxLineageDepth + 1)
  BY <1>0, <1>1, <1>2, <1>4
<1>7. PICK w : w = Append(v, x)
  OBVIOUS
<1>8. /\ w \in Seq(Known) /\ w # <<>> /\ Len(w) = Len(v) + 1 /\ w[Len(v) + 1] = x
      /\ \A i \in 1..Len(v) : w[i] = v[i]
  BY <1>0, <1>4, <1>7, OneMore
<1>9. w[1] = c
  <2>1. CASE v = <<>>
    BY <1>4, <1>8, <2>1
  <2>2. CASE v # <<>>
    <3>1. 1 \in 1..Len(v)
      BY <1>0, <2>2
    <3> QED BY <1>0, <1>8, <2>2, <3>1
  <2> QED BY <2>1, <2>2
<1>10. ASSUME NEW i \in 2..Len(w) PROVE Primary(w[i - 1]) = <<w[i]>>
  <2>1. CASE i \in 2..Len(v)
    <3>1. w[i] = v[i] /\ w[i - 1] = v[i - 1]
      <4>1. i \in 1..Len(v) /\ i - 1 \in 1..Len(v)
        BY <1>0, <2>1
      <4> QED BY <1>8, <4>1
    <3> QED BY <1>0, <2>1, <3>1
  <2>2. CASE i = Len(v) + 1
    <3>1. v # <<>> /\ i - 1 = Len(v) /\ Len(v) \in 1..Len(v)
      BY <1>0, <1>8, <1>10, <2>2
    <3>2. w[i - 1] = v[Len(v)] /\ w[i] = x
      BY <1>8, <2>2, <3>1
    <3> QED BY <1>4, <3>1, <3>2
  <2> QED BY <1>0, <1>8, <2>1, <2>2
<1>11. ASSUME NEW i \in 1..Len(w) PROVE nodes[w[i]].depth + i <= nodes[c].depth + 1
  <2>1. CASE i \in 1..Len(v)
    BY <1>0, <1>8, <2>1
  <2>2. CASE i = Len(v) + 1
    BY <1>0, <1>2, <1>4, <1>8, <2>2
  <2> QED BY <1>0, <1>8, <2>1, <2>2
<1>12. ASSUME NEW i \in 1..Len(w), NEW j \in 1..Len(w), i < j
       PROVE  nodes[w[j]].depth < nodes[w[i]].depth
  <2>1. i \in 1..Len(v) /\ w[i] = v[i]
    BY <1>0, <1>8, <1>12
  <2>2. CASE j \in 1..Len(v)
    BY <1>0, <1>8, <1>12, <2>1, <2>2
  <2>3. CASE j = Len(v) + 1
    BY <1>4, <1>8, <2>1, <2>3
  <2> QED BY <1>0, <1>8, <2>2, <2>3
<1>13. w[Len(w)] = x
  BY <1>8
<1>14. PathInv(c, w, Primary(x))
  BY <1>8, <1>9, <1>10, <1>11, <1>12, <1>13 DEF PathInv
<1> QED BY <1>3, <1>5, <1>6, <1>7, <1>14

\* A path that does not go on leads to a root.
LEMMA PathFound ==
    ASSUME Served, NEW c \in Known, NEW v, PathInv(c, v, <<>>)
    PROVE  /\ v # <<>> /\ v[1] = c /\ Primary(Last(v)) = <<>> /\ IsInjective(v)
           /\ \A i \in 2..Len(v) : Primary(v[i - 1]) = <<v[i]>>
<1>1. /\ v \in Seq(Known) /\ v # <<>> /\ v[1] = c /\ Primary(v[Len(v)]) = <<>>
      /\ \A i \in 2..Len(v) : Primary(v[i - 1]) = <<v[i]>>
      /\ \A i, j \in 1..Len(v) : i < j => nodes[v[j]].depth < nodes[v[i]].depth
  BY DEF PathInv
<1>2. ASSUME NEW i \in 1..Len(v), NEW j \in 1..Len(v), v[i] = v[j], i < j PROVE FALSE
  <2>1. v[i] \in Known /\ nodes[v[i]].depth < nodes[v[i]].depth
    BY <1>1, <1>2
  <2> QED BY <2>1, ServedIs
<1>3. IsInjective(v)
  <2>1. Len(v) \in Nat /\ DOMAIN v = 1..Len(v)
    BY <1>1
  <2>2. \A i, j \in 1..Len(v) : v[i] = v[j] => i = j
    BY <1>2, <2>1
  <2> QED BY <2>1, <2>2 DEF IsInjective
<1> QED BY <1>1, <1>3 DEF Last

\* No chain was walked yet; what is not above the candidate is left.
LEMMA DescendantsBegin ==
    ASSUME Served, NEW c \in Known
    PROVE  DescendantsInv(c, <<>>, <<>>, Known \ {c}, c, {})
<1>1. c \notin PrimaryAncestry(c)
  BY ServedIs
<1>2. <<>> \in Seq(Known)
  OBVIOUS
<1> QED BY <1>1, <1>2 DEF DescendantsInv

\* The next chain is walked from the primary parent of its node.
LEMMA EntryTaken ==
    ASSUME Served, NEW c \in Known, NEW v, NEW E, NEW e, NEW D,
           DescendantsInv(c, v, <<>>, E, e, D), NEW d \in E
    PROVE  DescendantsInv(c, <<>>, Primary(d), E \ {d}, d, D)
<1>1. /\ E \subseteq Known /\ d \in Known
      /\ D = {a \in Known : a \notin E /\ c \in PrimaryAncestry(a)}
  BY DEF DescendantsInv
<1>2. ToSet(<<>>) = {} /\ <<>> \in Seq(Known)
  BY DEF ToSet
<1>3. CASE Primary(d) = <<>> /\ PrimaryAncestry(d) = {}
  <2>1. D = {a \in Known : /\ a \notin E \ {d} /\ (Primary(d) # <<>> => a # d)
                           /\ c \in PrimaryAncestry(a)}
    BY <1>1, <1>3
  <2> QED BY <1>1, <1>2, <1>3, <2>1 DEF DescendantsInv
<1>4. ASSUME NEW p \in Known, Primary(d) = <<p>>,
             PrimaryAncestry(d) = {p} \cup PrimaryAncestry(p)
      PROVE  DescendantsInv(c, <<>>, Primary(d), E \ {d}, d, D)
  <2>1. OnTheWay(c, <<>>, p, d)
    BY <1>2, <1>4 DEF OnTheWay
  <2>2. Primary(d) # <<>>
    BY <1>4
  <2>3. D = {a \in Known : /\ a \notin E \ {d} /\ (Primary(d) # <<>> => a # d)
                           /\ c \in PrimaryAncestry(a)}
    BY <1>1, <2>2
  <2> QED BY <1>1, <1>2, <1>4, <2>1, <2>3 DEF DescendantsInv
<1> QED BY <1>1, <1>3, <1>4, PrimaryIs

\* A chain ends at the candidate or at a root, and never comes back.
LEMMA ChainClimbed ==
    ASSUME Served, NEW c \in Known, NEW v, NEW f, NEW E, NEW e, NEW D,
           DescendantsInv(c, v, f, E, e, D), f # <<>>
    PROVE  LET x == Head(f) IN
           /\ ~Contains(v, x)
           /\ x = c => DescendantsInv(c, v, <<>>, E, e, D \cup {e})
           /\ x # c => DescendantsInv(c, Append(v, x), Primary(x), E, e, D)
<1>1. /\ v \in Seq(Known) /\ E \subseteq Known /\ e \in Known \ E
      /\ D = {a \in Known : a \notin E /\ a # e /\ c \in PrimaryAncestry(a)}
  BY DEF DescendantsInv
<1>2. PICK x \in Known : f = <<x>> /\ OnTheWay(c, v, x, e)
  BY DEF DescendantsInv
<1>3. /\ Head(f) = x /\ \A d \in ToSet(v) : nodes[x].depth < nodes[d].depth
      /\ c \in PrimaryAncestry(e) <=> (c = x \/ c \in PrimaryAncestry(x))
      /\ nodes[x].depth \in Nat
  BY <1>2, ServedIs DEF OnTheWay
<1>4. ~Contains(v, x)
  <2>1. x \notin ToSet(v)
    BY <1>3
  <2> QED BY <1>1, <2>1, OneMore
<1>5. ASSUME x = c PROVE DescendantsInv(c, v, <<>>, E, e, D \cup {e})
  <2>1. D \cup {e} = {a \in Known : /\ a \notin E /\ (<<>> # <<>> => a # e)
                                    /\ c \in PrimaryAncestry(a)}
    BY <1>1, <1>3, <1>5
  <2> QED BY <1>1, <2>1 DEF DescendantsInv
<1>6. ASSUME x # c PROVE DescendantsInv(c, Append(v, x), Primary(x), E, e, D)
  <2>1. PICK w : w = Append(v, x)
    OBVIOUS
  <2>2. w \in Seq(Known) /\ ToSet(w) = ToSet(v) \cup {x}
    BY <1>1, <2>1, OneMore
  <2>3. CASE Primary(x) = <<>> /\ PrimaryAncestry(x) = {}
    <3>1. c \notin PrimaryAncestry(e)
      BY <1>3, <1>6, <2>3
    <3>2. D = {a \in Known : /\ a \notin E /\ (Primary(x) # <<>> => a # e)
                             /\ c \in PrimaryAncestry(a)}
      BY <1>1, <2>3, <3>1
    <3> QED BY <1>1, <2>1, <2>2, <2>3, <3>2 DEF DescendantsInv
  <2>4. ASSUME NEW p \in Known, Primary(x) = <<p>>, nodes[p].depth < nodes[x].depth,
               PrimaryAncestry(x) = {p} \cup PrimaryAncestry(p)
        PROVE  DescendantsInv(c, Append(v, x), Primary(x), E, e, D)
    <3>1. nodes[p].depth \in Nat /\ \A d \in ToSet(v) : nodes[d].depth \in Nat
      <4>1. ToSet(v) \subseteq Known
        BY <1>1 DEF ToSet
      <4> QED BY <4>1, ServedIs
    <3>2. \A d \in ToSet(w) : nodes[p].depth < nodes[d].depth
      BY <1>3, <2>2, <2>4, <3>1
    <3>3. OnTheWay(c, w, p, e)
      BY <1>3, <1>6, <2>4, <3>2 DEF OnTheWay
    <3>4. Primary(x) # <<>>
      BY <2>4
    <3>5. D = {a \in Known : /\ a \notin E /\ (Primary(x) # <<>> => a # e)
                             /\ c \in PrimaryAncestry(a)}
      BY <1>1, <3>4
    <3> QED BY <1>1, <2>1, <2>2, <2>4, <3>3, <3>5 DEF DescendantsInv
  <2> QED BY <2>3, <2>4, PrimaryIs
<1> QED BY <1>3, <1>4, <1>5, <1>6

\* A query that begins or goes on leaves the graph as it is.
LEMMA QueryKeeps ==
    ASSUME GraphInv, QueryInv,
           \/ \E c \in Candidate : ancestors_of(c) \/ path_to_root(c) \/ descendants_of(c)
           \/ VisitAncestor \/ ClimbPath \/ NextEntry \/ ClimbChain \/ Return
    PROVE  UNCHANGED graphVars /\ QueryInv'
<1>1. UNCHANGED graphVars
  BY DEF ancestors_of, path_to_root, descendants_of, Begin, VisitAncestor, ClimbPath,
         NextEntry, ClimbChain, Return
<1>2. /\ UNCHANGED <<nodes, status>>
      /\ \A a, w, g : AncestorsInv(a, w, g)' = AncestorsInv(a, w, g)
      /\ \A a, w, g : PathInv(a, w, g)' = PathInv(a, w, g)
      /\ \A a, w, g, F, d, B :
            DescendantsInv(a, w, g, F, d, B)' = DescendantsInv(a, w, g, F, d, B)
      /\ Known' = Known
  BY <1>1, SameNodes, SameWalks
<1>3. PICK c, v, f, E, e, D :
         /\ c = about /\ v = visited /\ f = frontier
         /\ E = entries /\ e = entry /\ D = descended
         /\ query \in {"none", "ancestors_of", "path_to_root", "descendants_of"}
         /\ query # "none" => status = "serving" /\ c \in Known
         /\ query = "ancestors_of" => E = {} /\ AncestorsInv(c, v, f)
         /\ query = "path_to_root" => E = {} /\ PathInv(c, v, f)
         /\ query = "descendants_of" => DescendantsInv(c, v, f, E, e, D)
  BY DEF QueryInv
<1>4. PICK b, w, g, F, d, B :
         /\ b = about' /\ w = visited' /\ g = frontier'
         /\ F = entries' /\ d = entry' /\ B = descended'
  OBVIOUS
\* What is left to show of the new state, in terms of the old graph.
<1> DEFINE After(q) ==
      /\ q # "none" => status = "serving" /\ b \in Known
      /\ q = "ancestors_of" => F = {} /\ AncestorsInv(b, w, g)
      /\ q = "path_to_root" => F = {} /\ PathInv(b, w, g)
      /\ q = "descendants_of" => DescendantsInv(b, w, g, F, d, B)
<1>5. ASSUME NEW q \in {"none", "ancestors_of", "path_to_root", "descendants_of"},
             query' = q, After(q)
      PROVE  QueryInv'
  BY <1>2, <1>4, <1>5 DEF QueryInv
<1>6. status = "serving" => Served
  BY DEF GraphInv, Served
<1> SUFFICES QueryInv'
  BY <1>1
<1> HIDE DEF After
<1>7. CASE \E a \in Candidate : ancestors_of(a) \/ path_to_root(a) \/ descendants_of(a)
  <2>1. PICK a \in Candidate : ancestors_of(a) \/ path_to_root(a) \/ descendants_of(a)
    BY <1>7
  <2>2. status = "serving" /\ a \in Known /\ b = a
    BY <1>4, <2>1 DEF ancestors_of, path_to_root, descendants_of, Begin
  <2>3. CASE ancestors_of(a)
    <3>1. query' = "ancestors_of" /\ w = <<>> /\ g = nodes[a].parents /\ F = {}
      BY <1>4, <2>3 DEF ancestors_of, Begin
    <3>2. AncestorsInv(b, w, g)
      BY <1>6, <2>2, <3>1, AncestorsBegin
    <3>3. After("ancestors_of")
      BY <2>2, <3>1, <3>2 DEF After
    <3> QED BY <1>5, <3>1, <3>3
  <2>4. CASE path_to_root(a)
    <3>1. query' = "path_to_root" /\ w = <<>> /\ g = <<a>> /\ F = {}
      BY <1>4, <2>4 DEF path_to_root, Begin
    <3>2. PathInv(b, w, g)
      BY <2>2, <3>1, PathBegins
    <3>3. After("path_to_root")
      BY <2>2, <3>1, <3>2 DEF After
    <3> QED BY <1>5, <3>1, <3>3
  <2>5. CASE descendants_of(a)
    <3>1. /\ query' = "descendants_of" /\ w = <<>> /\ g = <<>> /\ F = Known \ {a}
          /\ d = a /\ B = {}
      BY <1>4, <2>5 DEF descendants_of, Begin
    <3>2. DescendantsInv(b, w, g, F, d, B)
      BY <1>6, <2>2, <3>1, DescendantsBegin
    <3>3. After("descendants_of")
      BY <2>2, <3>1, <3>2 DEF After
    <3> QED BY <1>5, <3>1, <3>3
  <2> QED BY <2>1, <2>3, <2>4, <2>5
<1>8. CASE VisitAncestor
  <2>1. /\ query = "ancestors_of" /\ f # <<>> /\ query' = "ancestors_of"
        /\ b = c /\ F = E
        /\ w = IF Head(f) # c /\ ~Contains(v, Head(f)) THEN Append(v, Head(f)) ELSE v
        /\ g = Tail(f) \o (IF Head(f) # c /\ ~Contains(v, Head(f))
                           THEN nodes[Head(f)].parents ELSE <<>>)
    BY <1>3, <1>4, <1>8 DEF VisitAncestor, chainVars
  <2>2. Served /\ c \in Known /\ AncestorsInv(c, v, f) /\ E = {} /\ status = "serving"
    BY <1>3, <1>6, <2>1
  <2>3. AncestorsInv(b, w, g)
    <3>1. CASE Head(f) # c /\ ~Contains(v, Head(f))
      BY <2>1, <2>2, <3>1, AncestorVisited
    <3>2. CASE ~(Head(f) # c /\ ~Contains(v, Head(f)))
      BY <2>1, <2>2, <3>2, AncestorVisited
    <3> QED BY <3>1, <3>2
  <2>4. After("ancestors_of")
    BY <2>1, <2>2, <2>3 DEF After
  <2> QED BY <1>5, <2>1, <2>4
<1>9. CASE ClimbPath
  <2>1. /\ query = "path_to_root" /\ f # <<>> /\ query' = "path_to_root"
        /\ b = c /\ F = E
        /\ ~(Contains(v, Head(f)) \/ Len(v) >= kMaxLineageDepth + 1) =>
              w = Append(v, Head(f)) /\ g = Primary(Head(f))
    BY <1>3, <1>4, <1>9 DEF ClimbPath, chainVars
  <2>2. Served /\ c \in Known /\ PathInv(c, v, f) /\ E = {} /\ status = "serving"
    BY <1>3, <1>6, <2>1
  <2>3. PathInv(b, w, g)
    BY <2>1, <2>2, PathClimbed
  <2>4. After("path_to_root")
    BY <2>1, <2>2, <2>3 DEF After
  <2> QED BY <1>5, <2>1, <2>4
<1>10. CASE NextEntry
  <2>1. PICK a : a = CHOOSE n \in E : \A k \in E : n <= k
    OBVIOUS
  <2>2. /\ query = "descendants_of" /\ f = <<>> /\ E # {} /\ query' = "descendants_of"
        /\ b = c /\ d = a /\ F = E \ {a} /\ w = <<>> /\ g = Primary(a) /\ B = D
    BY <1>3, <1>4, <1>10, <2>1 DEF NextEntry
  <2>3. /\ Served /\ c \in Known /\ DescendantsInv(c, v, f, E, e, D)
        /\ status = "serving"
    BY <1>3, <1>6, <2>2
  <2>4. a \in E
    <3>1. E \in SUBSET Nat
      BY <2>3, GraphNumbers DEF DescendantsInv, Served, GraphTypes
    <3>2. \E n \in E : \A k \in E : n <= k
      BY <2>2, <3>1, LeastNatural
    <3> QED BY <2>1, <3>2
  <2>5. DescendantsInv(b, w, g, F, d, B)
    BY <2>2, <2>3, <2>4, EntryTaken
  <2>6. After("descendants_of")
    BY <2>2, <2>3, <2>5 DEF After
  <2> QED BY <1>5, <2>2, <2>6
<1>11. CASE ClimbChain
  <2>1. PICK x : x = Head(f)
    OBVIOUS
  <2>2. /\ query = "descendants_of" /\ f # <<>> /\ query' = "descendants_of"
        /\ b = c /\ d = e /\ F = E
        /\ B = IF x = c THEN D \cup {e} ELSE D
        /\ w = IF x = c \/ Contains(v, x) THEN v ELSE Append(v, x)
        /\ g = IF x = c \/ Contains(v, x) THEN <<>> ELSE Primary(x)
    BY <1>3, <1>4, <1>11, <2>1 DEF ClimbChain
  <2>3. /\ Served /\ c \in Known /\ DescendantsInv(c, v, f, E, e, D)
        /\ status = "serving"
    BY <1>3, <1>6, <2>2
  <2>4. /\ ~Contains(v, x)
        /\ x = c => DescendantsInv(c, v, <<>>, E, e, D \cup {e})
        /\ x # c => DescendantsInv(c, Append(v, x), Primary(x), E, e, D)
    BY <2>1, <2>2, <2>3, ChainClimbed
  <2>5. DescendantsInv(b, w, g, F, d, B)
    BY <2>2, <2>4
  <2>6. After("descendants_of")
    BY <2>2, <2>3, <2>5 DEF After
  <2> QED BY <1>5, <2>2, <2>6
<1>12. CASE Return
  <2>1. query' = "none"
    BY <1>12 DEF Return
  <2>2. After("none")
    BY <2>1 DEF After
  <2> QED BY <1>5, <2>1, <2>2
<1> QED BY <1>7, <1>8, <1>9, <1>10, <1>11, <1>12

\* The invariants are inductive together, and every step of the graph is one of
\* GraphNext.
LEMMA NextQueryInv ==
    ASSUME GraphInv, QueryInv, [QueryNext]_<<graphVars, queryVars>>
    PROVE  [GraphNext]_graphVars /\ GraphInv' /\ QueryInv'
<1>1. CASE query = "none" /\ GraphNext /\ UNCHANGED queryVars
  <2>1. query' = "none"
    BY <1>1 DEF queryVars
  <2>2. QueryInv'
    BY <2>1 DEF QueryInv
  <2> QED BY <1>1, <2>2, NextGraphInv
<1>2. CASE UNCHANGED <<graphVars, queryVars>>
  <2>1. /\ UNCHANGED graphVars
        /\ UNCHANGED <<query, about, visited, frontier, entries, entry, descended>>
    BY <1>2 DEF queryVars
  <2>2. UNCHANGED <<nodes, status>> /\ Known' = Known
    BY <2>1, SameNodes
  <2>3. QueryInv'
    BY <2>1, <2>2, SameWalks DEF QueryInv
  <2> QED BY <2>1, <2>3, NextGraphInv
<1>3. CASE \/ \E c \in Candidate : ancestors_of(c) \/ path_to_root(c) \/ descendants_of(c)
           \/ VisitAncestor \/ ClimbPath \/ NextEntry \/ ClimbChain \/ Return
  BY <1>3, QueryKeeps, NextGraphInv
<1> QED BY <1>1, <1>2, <1>3 DEF QueryNext

\* Queries answer what the graph says, for graphs of any size, built or loaded:
\* ancestors_of finds every ancestor once and parents first, path_to_root always
\* reaches a root before the bound that cuts it off, and descendants_of lists
\* exactly the nodes that have the candidate on their primary chain, in an order
\* that puts no node before one it descends from.
THEOREM QueriesAreRight == QuerySpec => []QueriesAgree
<1>1. QueryInit => GraphInv /\ QueryInv
  BY InitGraphInv DEF QueryInit, NoQuery, QueryInv
<1>2. GraphInv /\ QueryInv => QueriesAgree
  <2> SUFFICES ASSUME GraphInv, QueryInv, Answered PROVE QueriesAgree
    BY DEF QueriesAgree
  <2>1. PICK c, v, E, e, D :
           /\ c = about /\ v = visited /\ E = {} /\ e = entry /\ D = descended
           /\ status = "serving" /\ c \in Known
           /\ query = "ancestors_of" => AncestorsInv(c, v, <<>>)
           /\ query = "path_to_root" => PathInv(c, v, <<>>)
           /\ query = "descendants_of" => DescendantsInv(c, v, <<>>, E, e, D)
    BY DEF QueryInv, Answered
  <2>2. Served
    BY <2>1 DEF GraphInv, Served
  <2>3. CASE query = "ancestors_of"
    <3>1. v \in Seq(Known) /\ ToSet(v) = Ancestry(c)
      BY <2>1, <2>2, <2>3, AncestorsFound DEF AncestorsInv
    <3>2. /\ IsInjective(v) /\ DOMAIN v = 1..Len(v)
          /\ \A i, j \in 1..Len(v) : i < j /\ v[j] \in Parents(c) => v[i] \in Parents(c)
      BY <2>1, <2>3, <3>1 DEF AncestorsInv
    <3> QED BY <2>1, <2>3, <3>1, <3>2 DEF QueriesAgree, AncestorsAgree
  <2>4. CASE query = "path_to_root"
    <3>1. /\ v # <<>> /\ v[1] = c /\ Primary(Last(v)) = <<>> /\ IsInjective(v)
          /\ \A i \in 2..Len(v) : Primary(v[i - 1]) = <<v[i]>>
      BY <2>1, <2>2, <2>4, PathFound
    <3> QED BY <2>1, <2>4, <3>1 DEF QueriesAgree, PathAgrees
  <2>5. CASE query = "descendants_of"
    <3>1. D = {d \in Known : c \in PrimaryAncestry(d)}
      BY <2>1, <2>5 DEF DescendantsInv
    <3>2. \A d, a \in D : d \in Ancestry(a) => ListedBefore(d, a)
      BY <2>2, <3>1, DepthsRise DEF ListedBefore, Served
    <3> QED BY <2>1, <2>5, <3>1, <3>2 DEF QueriesAgree, DescendantsAgree
  <2> QED BY <2>3, <2>4, <2>5 DEF QueriesAgree
<1>3. GraphInv /\ QueryInv /\ [QueryNext]_<<graphVars, queryVars>> => (GraphInv /\ QueryInv)'
  BY NextQueryInv
<1> QED BY <1>1, <1>2, <1>3, PTL DEF QuerySpec
=============================================================================
