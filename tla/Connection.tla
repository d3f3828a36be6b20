------------------------------ MODULE Connection ------------------------------
(***************************************************************************)
(* Connection (transport.cpp): one socket, a reader thread, a writer       *)
(* thread and a bounded outbound queue.  A connection is a record and the  *)
(* operations are functions on it; the owner's callbacks are the business  *)
(* of the module that composes connections.  Frames that are sent are only *)
(* counted.  A socket that is closed unblocks a thread parked in recv and  *)
(* in send, which closesocket() does.                                      *)
(***************************************************************************)
EXTENDS Naturals, Sequences

CONSTANT MaxQueue    \* kMaxOutboundQueueDepth

ASSUME QueueAssumption == MaxQueue \in Nat \ {0}

NoConnection == [peer |-> "None", socket |-> "Closed", closed |-> FALSE,
                 wire |-> <<>>, buffer |-> <<>>, outbound |-> 0,
                 reader |-> "None", writer |-> "None"]

\* The socket is connected; start() has created both threads.
Started == [NoConnection EXCEPT !.peer = "Connected", !.socket = "Open",
                                !.reader = "Running", !.writer = "Waiting"]

-----------------------------------------------------------------------------
(* Closing.  Whoever sets closed_ closes the socket and calls on_closed. *)

\* Mutation of request_close: the socket is left open.
close_flag_only(r) == [r EXCEPT !.closed = TRUE]
request_close(r) == [r EXCEPT !.closed = TRUE, !.socket = "Closed", !.wire = <<>>]

\* A thread of the connection ends, after calling on_closed if it is the one
\* that closed it.
LeaveReader(r) ==
    IF r.closed THEN [r EXCEPT !.reader = "Ended", !.buffer = <<>>]
    ELSE [request_close(r) EXCEPT !.reader = "Closing", !.buffer = <<>>]
LeaveWriter(r) ==
    IF r.closed THEN [r EXCEPT !.writer = "Ended"]
    ELSE [request_close(r) EXCEPT !.writer = "Closing"]

-----------------------------------------------------------------------------
(* reader_loop: everything in the buffer is handed over before recv. *)

CanReceive(r) == r.reader = "Running" /\ r.buffer = <<>>
\* What has arrived, in one piece.
Received(r) == [r EXCEPT !.buffer = r.wire, !.wire = <<>>]
HasArrived(r) == CanReceive(r) /\ r.wire # <<>>
\* The end of the stream, an error, or a frame that cannot be decoded.
StreamEnded(r) ==
    CanReceive(r) /\ r.wire = <<>> /\ (r.socket = "Closed" \/ r.peer = "Gone")
Undecodable(r) == r.reader = "Running" /\ r.buffer # <<>> /\ Head(r.buffer) = "Garbage"
Delivers(r) == r.reader = "Running" /\ r.buffer # <<>> /\ Head(r.buffer) # "Garbage"

-----------------------------------------------------------------------------
(* writer_loop: an idle writer waits for a frame or for the destructor. *)

CanTake(r) == r.writer = "Waiting" /\ r.outbound > 0
Taken(r) == [r EXCEPT !.writer = "Sending", !.outbound = @ - 1]
\* A peer that does not read keeps the writer in send().
CanSend(r) == r.writer = "Sending" /\ r.socket = "Open" /\ r.peer = "Connected"
Sent(r) == [r EXCEPT !.writer = "Waiting"]
SendFails(r) == r.writer = "Sending" /\ (r.socket = "Closed" \/ r.peer = "Gone")

-----------------------------------------------------------------------------
(* send_frame: it queues, never blocks, and closes a connection whose queue *)
(* is too deep.                                                             *)

Overflows(r) == ~r.closed /\ r.outbound >= MaxQueue
send_frame(r) ==
    IF r.closed THEN r
    ELSE LET queued == [r EXCEPT !.outbound = @ + 1]
         IN  IF Overflows(r) THEN request_close(queued) ELSE queued
=============================================================================
