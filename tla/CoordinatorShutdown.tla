------------------------- MODULE CoordinatorShutdown -------------------------
(***************************************************************************)
(* The threads of the coordinator process (coordinator.cpp), from start()  *)
(* to the end of shutdown(): the readers and writers of its connections,   *)
(* the pump, the evaluation pool and the thread that shuts down, around    *)
(* durability_mutex and the snapshot on disk; and the handoff of promotion *)
(* requests to LocalPromotionSink.                                         *)
(*                                                                         *)
(* What the requests do to the core is the subject of FoundryCore.  Here a *)
(* request changes the core or not, and each change has an identity of its *)
(* own, by which it can be found again in an image.  The mutex is held     *)
(* while a save is in progress, except for the final one.                  *)
(***************************************************************************)
EXTENDS SnapshotStore, Connection, FiniteSets

CONSTANTS
    Conn,             \* connections
    Requests,         \* per peer: what its first frame may be, its second, ...
    MaxJobs,          \* evaluation jobs, a bound
    MaxStarts         \* processes, a bound

ASSUME ShutdownAssumption ==
    /\ Saver = {"barrier", "final"}
    /\ {MaxJobs, MaxStarts} \subseteq Nat

VARIABLES
    life,             \* "Down", "Starting" or "Up"
    starts,
    core,             \* the state in memory
    changes,          \* identities of changes used so far
    conn,             \* the connections
    sentFrames,       \* frames each peer has sent
    registry,         \* connections the coordinator knows
    sessions,         \* the ones whose worker has a session
    barrier,          \* who holds durability_mutex, and for what
    pump, pool,       \* the two kinds of background thread
    jobs,             \* queued evaluation jobs
    jobsMade,
    stop,             \* how far shutdown() is, and the connections it has left
    acknowledged,     \* changes whose reply has been queued
    sink              \* the directory of LocalPromotionSink, and the answers

processVars == <<life, starts>>
netVars == <<conn, sentFrames, registry, sessions>>
poolVars == <<pump, pool, jobs, jobsMade>>
ghostVars == <<acknowledged, sink>>
vars == <<processVars, core, changes, storeVars, netVars, barrier, poolVars, stop, ghostVars>>

NoHold == [thread |-> "None", job |-> "None", conn |-> "None", change |-> 0]
Hold(thread, job, c, n) == [thread |-> thread, job |-> job, conn |-> c, change |-> n]
Free == barrier = NoHold
Off == [pc |-> "Off", todo |-> {}, conn |-> "None"]

-----------------------------------------------------------------------------
(* The mutex, the core and the replies. *)

\* The core is changed under the mutex and the save of the change begins.
ChangeAndSave(thread, job, c) ==
    /\ changes' = changes + 1
    /\ core' = [core EXCEPT !.changes = @ \cup {changes + 1}]
    /\ BeginSave("barrier", core')
    /\ barrier' = Hold(thread, job, c, changes + 1)

\* The holder queues a frame on connection c (as the connections are in k)
\* and lets the mutex go, unless the queue is too deep: then it has closed
\* the connection and goes on to note_close, with the mutex.
SendAndRelease(k, thread, c) ==
    LET known == c \in registry IN
    /\ conn' = IF known THEN [k EXCEPT ![c] = send_frame(@)] ELSE k
    /\ barrier' = IF known /\ Overflows(k[c])
                  THEN Hold(thread, "NoteClose", c, 0) ELSE NoHold

-----------------------------------------------------------------------------
(* Frames.  The whole frame runs under the mutex on the reader thread of     *)
(* its connection, whether or not shutdown() has begun.                      *)

Deliver(c) ==
    /\ life = "Up" /\ Free /\ Delivers(conn[c])
Rest(c) == [conn EXCEPT ![c].buffer = Tail(@)]
Request(c) == Head(conn[c].buffer)

\* Hello makes a worker of the peer: from then on it may send what workers
\* send, and before it what controllers send.  "Alien" is what neither may.
OffPlane(c) ==
    \/ Request(c) = "Alien"
    \/ Request(c) = "Work" /\ c \notin sessions
    \/ Request(c) \in {"Query", "Change", "Promote"} /\ c \in sessions

\* A connection that is not registered any more: nothing is done or sent.
HandleUnknown(c) ==
    /\ Deliver(c) /\ c \notin registry
    /\ conn' = Rest(c)
    /\ UNCHANGED <<processVars, core, changes, storeVars, sentFrames, registry,
                   sessions, barrier, poolVars, stop, ghostVars>>

\* The error is queued, and the connection is closed by its own reader
\* thread, which goes on to note_close with the mutex and reads on after it.
protocol_violation(c) ==
    /\ Deliver(c) /\ c \in registry /\ OffPlane(c)
    /\ conn' = [Rest(c) EXCEPT ![c] = request_close(send_frame(@))]
    /\ barrier' = IF conn[c].closed THEN NoHold ELSE Hold("reader", "NoteClose", c, 0)
    /\ UNCHANGED <<processVars, core, changes, storeVars, sentFrames, registry,
                   sessions, poolVars, stop, ghostVars>>

\* A query, and every request that the core refuses: the answer is sent and
\* nothing is saved.
HandleUnchanged(c) ==
    /\ Deliver(c) /\ c \in registry /\ ~OffPlane(c)
    /\ Request(c) = "Query"
    /\ SendAndRelease(Rest(c), "reader", c)
    /\ UNCHANGED <<processVars, core, changes, storeVars, sentFrames, registry,
                   sessions, poolVars, stop, ghostVars>>

\* Every handler that changes the core: mutate, persist, then reply.
HandleChange(c) ==
    /\ Deliver(c) /\ c \in registry /\ ~OffPlane(c)
    /\ Request(c) \in {"Hello", "Work", "Change", "Promote"}
    /\ ChangeAndSave("reader", Request(c), c)
    /\ conn' = Rest(c)
    /\ UNCHANGED <<processVars, sentFrames, registry, sessions, poolVars, stop, ghostVars>>

\* The save has returned.  The reply, or the assignment, is sent if it was
\* successful, and an error (or nothing) if it was not.
FinishChange ==
    LET saved == saving["barrier"].pc = "Saved" IN
    /\ barrier.job \in {"Hello", "Work", "Change", "Dispatch"} /\ Returned("barrier")
    /\ TakeResult("barrier")
    /\ acknowledged' = IF saved THEN acknowledged \cup {barrier.change} ELSE acknowledged
    /\ sessions' = IF saved /\ barrier.job = "Hello"
                   THEN sessions \cup {barrier.conn} ELSE sessions
    /\ IF saved \/ barrier.thread = "reader"
       THEN SendAndRelease(conn, barrier.thread, barrier.conn)
       ELSE barrier' = NoHold /\ UNCHANGED conn
    /\ UNCHANGED <<processVars, core, changes, sentFrames, registry, poolVars, stop, sink>>

-----------------------------------------------------------------------------
(* RequestPromotion: prepare, persist, submit, record the receipt, persist,  *)
(* reply.                                                                    *)

\* SHA-256 of the request's canonical encoding, and the digest of the
\* candidate and its evidence that the request carries.
RequestDigest(n) == <<"canonical encoding", n>>
canonical_state_digest(n) == <<"candidate and evidence", n>>
NoDigest == <<"empty", 0>>
record_promotion_receipt(n, digest) ==
    digest = NoDigest \/ digest = canonical_state_digest(n)

\* Mutation of PersistRequest: a request that could not be saved is handed over.
PersistOrNot ==
    /\ barrier.job = "Promote" /\ Returned("barrier")
    /\ TakeResult("barrier")
    /\ barrier' = [barrier EXCEPT !.job = "Submit"]
    /\ UNCHANGED <<processVars, core, changes, netVars, poolVars, stop, ghostVars>>
PersistRequest ==
    /\ barrier.job = "Promote" /\ Returned("barrier")
    /\ TakeResult("barrier")
    /\ IF saving["barrier"].pc = "Saved"
       THEN barrier' = [barrier EXCEPT !.job = "Submit"] /\ UNCHANGED conn
       ELSE SendAndRelease(conn, "reader", barrier.conn)
    /\ UNCHANGED <<processVars, core, changes, sentFrames, registry, sessions,
                   poolVars, stop, ghostVars>>

\* submit() writes the request, then its receipt, each with atomic_write_file.
submit ==
    /\ \/ /\ barrier.job = "Submit"
          /\ sink' = [sink EXCEPT !.requests = @ \cup {barrier.change}]
          /\ barrier' = [barrier EXCEPT !.job = "Receipt"]
       \/ /\ barrier.job = "Receipt"
          /\ sink' = [sink EXCEPT !.receipts = @ \cup {barrier.change}]
          /\ barrier' = [barrier EXCEPT !.job = "Accepted"]
    /\ UNCHANGED <<processVars, core, changes, storeVars, netVars, poolVars, stop,
                   acknowledged>>

\* The sink is not there, refuses the request or cannot write one of the two.
submit_fails ==
    /\ barrier.job \in {"Submit", "Receipt"}
    /\ saveFailures < MaxSaveFailures /\ saveFailures' = saveFailures + 1
    /\ barrier' = [barrier EXCEPT !.job = "Unavailable"]
    /\ UNCHANGED <<processVars, core, changes, disk, staging, saving, netVars, poolVars,
                   stop, ghostVars>>

\* An accepted receipt carries the digest of the request; an unavailable sink
\* has none to give.  A receipt that is not recorded ends in an error reply.
RecordReceipt ==
    LET digest == IF barrier.job = "Accepted" THEN RequestDigest(barrier.change)
                  ELSE NoDigest
    IN
    /\ barrier.job \in {"Accepted", "Unavailable"}
    /\ IF record_promotion_receipt(barrier.change, digest)
       THEN /\ BeginSave("barrier", core)
            /\ barrier' = [barrier EXCEPT !.job = "Answer"]
            /\ UNCHANGED <<conn, sink>>
       ELSE /\ sink' = [sink EXCEPT !.refused = @ \cup {barrier.change}]
            /\ SendAndRelease(conn, "reader", barrier.conn)
            /\ UNCHANGED storeVars
    /\ UNCHANGED <<processVars, core, changes, sentFrames, registry, sessions,
                   poolVars, stop, acknowledged>>

AnswerPromotion ==
    /\ barrier.job = "Answer" /\ Returned("barrier")
    /\ TakeResult("barrier")
    /\ acknowledged' = IF saving["barrier"].pc = "Saved"
                       THEN acknowledged \cup {barrier.change} ELSE acknowledged
    /\ SendAndRelease(conn, "reader", barrier.conn)
    /\ UNCHANGED <<processVars, core, changes, sentFrames, registry, sessions,
                   poolVars, stop, sink>>

-----------------------------------------------------------------------------
(* Connections. *)

\* The acceptor registers a connection before it starts it, and goes on until
\* shutdown() has closed the listener.
acceptor_loop(c) ==
    /\ life = "Up" /\ stop.pc \in {"Off", "Acceptor"} /\ conn[c].peer = "None"
    /\ conn' = [conn EXCEPT ![c] = Started]
    /\ registry' = registry \cup {c}
    /\ UNCHANGED <<processVars, core, changes, storeVars, sentFrames, sessions,
                   barrier, poolVars, stop, ghostVars>>

ConnectionStep(c, r) ==
    /\ life = "Up"
    /\ conn' = [conn EXCEPT ![c] = r]
    /\ UNCHANGED <<processVars, core, changes, storeVars, sentFrames, registry,
                   sessions, barrier, poolVars, stop, ghostVars>>
reader_loop(c) ==
    \/ HasArrived(conn[c]) /\ ConnectionStep(c, Received(conn[c]))
    \/ StreamEnded(conn[c]) /\ ConnectionStep(c, LeaveReader(conn[c]))
    \/ Undecodable(conn[c]) /\ ConnectionStep(c, LeaveReader(conn[c]))
writer_loop(c) ==
    \/ CanTake(conn[c]) /\ ConnectionStep(c, Taken(conn[c]))
    \/ SendFails(conn[c]) /\ ConnectionStep(c, LeaveWriter(conn[c]))
PeerReads(c) == CanSend(conn[c]) /\ ConnectionStep(c, Sent(conn[c]))

PeerSends(c) ==
    /\ conn[c].peer = "Connected" /\ conn[c].socket = "Open"
    /\ sentFrames[c] < Len(Requests[c])
    /\ sentFrames' = [sentFrames EXCEPT ![c] = @ + 1]
    /\ \E frame \in Requests[c][sentFrames[c] + 1] :
         conn' = [conn EXCEPT ![c].wire = Append(@, frame)]
    /\ UNCHANGED <<processVars, core, changes, storeVars, registry, sessions,
                   barrier, poolVars, stop, ghostVars>>
PeerLeaves(c) ==
    /\ conn[c].peer = "Connected"
    /\ ConnectionStep(c, [conn[c] EXCEPT !.peer = "Gone"])

\* The thread t that closed connection c waits for the mutex, or has it.
Closes(t, c) ==
    \/ barrier = Hold(t, "NoteClose", c, 0)
    \/ /\ Free
       /\ \/ t = "reader" /\ conn[c].reader = "Closing"
          \/ t = "writer" /\ conn[c].writer = "Closing"
          \/ t = "shutdown" /\ stop.pc = "Closing" /\ stop.conn = c
\* on_closed has returned to it.
Resume(t, c) ==
    /\ conn' = CASE t = "reader" /\ conn[c].reader = "Closing" ->
                      [conn EXCEPT ![c].reader = "Ended"]
                 [] t = "writer" -> [conn EXCEPT ![c].writer = "Ended"]
                 [] OTHER -> conn
    /\ stop' = IF t = "shutdown" THEN [stop EXCEPT !.pc = "Connections"] ELSE stop

\* A worker's session ends with its connection, and that is saved, unless the
\* core refuses it as the session of an incarnation that was replaced.
note_close(t, c) ==
    /\ life = "Up" /\ Closes(t, c)
    /\ registry' = registry \ {c} /\ sessions' = sessions \ {c}
    /\ \/ /\ c \in registry \cap sessions
          /\ BeginSave("barrier", core)
          /\ barrier' = Hold(t, "Disconnect", c, 0)
          /\ UNCHANGED <<conn, stop>>
       \/ barrier' = NoHold /\ Resume(t, c) /\ UNCHANGED storeVars
    /\ UNCHANGED <<processVars, core, changes, sentFrames, poolVars, ghostVars>>
FinishNoteClose ==
    /\ barrier.job = "Disconnect" /\ Returned("barrier")
    /\ TakeResult("barrier")
    /\ barrier' = NoHold
    /\ Resume(barrier.thread, barrier.conn)
    /\ UNCHANGED <<processVars, core, changes, sentFrames, registry, sessions,
                   poolVars, ghostVars>>

-----------------------------------------------------------------------------
(* The pump and the pool. *)

\* A tick queues jobs and dispatches work; one that began before shutdown()
\* did goes on, and no other begins.
pump_loop ==
    /\ life = "Up" /\ pump = "Running" /\ barrier.thread # "pump"
    /\ stop.pc # "Off" /\ pump' = "Ended"
    /\ UNCHANGED <<processVars, core, changes, storeVars, netVars, barrier, pool, jobs,
                   jobsMade, stop, ghostVars>>
start_evaluations ==
    /\ life = "Up" /\ pump = "Running" /\ barrier.thread # "pump"
    /\ jobsMade < MaxJobs
    /\ jobsMade' = jobsMade + 1 /\ jobs' = jobs + 1
    /\ UNCHANGED <<processVars, core, changes, storeVars, netVars, barrier, pump, pool,
                   stop, ghostVars>>
begin_dispatch(c) ==
    /\ life = "Up" /\ pump = "Running" /\ Free
    /\ jobsMade < MaxJobs /\ jobsMade' = jobsMade + 1
    /\ c \in sessions
    /\ ChangeAndSave("pump", "Dispatch", c)
    /\ UNCHANGED <<processVars, netVars, pump, pool, jobs, stop, ghostVars>>

\* Mutation of pool_loop: a thread that is told to stop leaves the queue.
pool_loop_abandons ==
    /\ life = "Up" /\ pool = "Idle"
    /\ \/ jobs > 0 /\ jobs' = jobs - 1 /\ pool' = "Evaluating"
       \/ stop.pc = "Pool" /\ pool' = "Ended" /\ UNCHANGED jobs
    /\ UNCHANGED <<processVars, core, changes, storeVars, netVars, barrier, pump,
                   jobsMade, stop, ghostVars>>
pool_loop ==
    /\ life = "Up" /\ pool = "Idle"
    /\ \/ jobs > 0 /\ jobs' = jobs - 1 /\ pool' = "Evaluating"
       \/ jobs = 0 /\ stop.pc = "Pool" /\ pool' = "Ended" /\ UNCHANGED jobs
    /\ UNCHANGED <<processVars, core, changes, storeVars, netVars, barrier, pump,
                   jobsMade, stop, ghostVars>>

\* Mutation of run_evaluation: the record is saved without the mutex.
run_evaluation_unlocked ==
    /\ life = "Up" /\ pool = "Evaluating"
    /\ \/ /\ saving["final"].pc = "Idle"
          /\ core' = [core EXCEPT !.evidence = @ + 1]
          /\ BeginSave("final", core')
          /\ UNCHANGED pool
       \/ /\ Returned("final") /\ TakeResult("final")
          /\ pool' = "Idle" /\ UNCHANGED core
    /\ UNCHANGED <<processVars, changes, netVars, barrier, pump, jobs, jobsMade, stop,
                   ghostVars>>
\* The evaluator is done; the record is committed and saved under the mutex,
\* or the core refuses it.
run_evaluation ==
    /\ life = "Up" /\ pool = "Evaluating" /\ Free
    /\ \/ /\ core' = [core EXCEPT !.evidence = @ + 1]
          /\ BeginSave("barrier", core')
          /\ barrier' = Hold("pool", "Evidence", "None", 0)
          /\ UNCHANGED pool
       \/ pool' = "Idle" /\ UNCHANGED <<core, storeVars, barrier>>
    /\ UNCHANGED <<processVars, changes, netVars, pump, jobs, jobsMade, stop, ghostVars>>
FinishEvaluation ==
    /\ barrier.job = "Evidence" /\ Returned("barrier")
    /\ TakeResult("barrier")
    /\ barrier' = NoHold /\ pool' = "Idle"
    /\ UNCHANGED <<processVars, core, changes, netVars, pump, jobs, jobsMade, stop,
                   ghostVars>>

-----------------------------------------------------------------------------
(* shutdown(), on a thread of its own. *)

ShutdownStep(next) ==
    /\ stop' = [stop EXCEPT !.pc = next]
    /\ UNCHANGED <<processVars, core, changes, netVars, poolVars, ghostVars>>

\* stopping is set.
shutdown ==
    /\ life = "Up" /\ stop.pc = "Off"
    /\ ShutdownStep("Acceptor") /\ UNCHANGED <<storeVars, barrier>>
StopAccepting ==
    /\ stop.pc = "Acceptor"
    /\ ShutdownStep("Pump") /\ UNCHANGED <<storeVars, barrier>>
\* Mutation of StopPump: the mutex is taken for the rest of the shutdown.
StopPumpLocked ==
    /\ stop.pc = "Pump" /\ pump = "Ended" /\ Free
    /\ barrier' = Hold("shutdown", "Drain", "None", 0)
    /\ ShutdownStep("Pool") /\ UNCHANGED storeVars
StopPump ==
    /\ stop.pc = "Pump" /\ pump = "Ended"
    /\ ShutdownStep("Pool") /\ UNCHANGED <<storeVars, barrier>>
\* The pool has been joined; the final snapshot is taken, without the mutex.
persist_final ==
    /\ stop.pc = "Pool" /\ pool = "Ended"
    /\ BeginSave("final", core)
    /\ ShutdownStep("Final") /\ UNCHANGED barrier
\* It was saved and read back, or not; the connections there are then are listed.
ListConnections ==
    /\ stop.pc = "Final" /\ Returned("final")
    /\ TakeResult("final")
    /\ stop' = [stop EXCEPT !.pc = "Connections",
                            !.todo = {<<c, c \in sessions>> : c \in registry}]
    /\ UNCHANGED <<processVars, core, changes, netVars, barrier, poolVars, ghostVars>>
\* Workers are sent a frame; each connection is closed in turn.
CloseConnection ==
    /\ stop.pc = "Connections"
    /\ \E next \in stop.todo :
         LET c == next[1]
             told == IF next[2] THEN send_frame(conn[c]) ELSE conn[c]
         IN  /\ conn' = [conn EXCEPT ![c] = request_close(told)]
             /\ stop' = [pc |-> IF conn[c].closed THEN "Connections" ELSE "Closing",
                         todo |-> stop.todo \ {next}, conn |-> c]
    /\ UNCHANGED <<processVars, core, changes, storeVars, sentFrames, registry,
                   sessions, barrier, poolVars, ghostVars>>
CompleteShutdown ==
    /\ stop.pc = "Connections" /\ stop.todo = {}
    /\ stop' = [Off EXCEPT !.pc = "Complete"]
    /\ registry' = {} /\ sessions' = {}
    /\ UNCHANGED <<processVars, core, changes, storeVars, conn, sentFrames, barrier,
                   poolVars, ghostVars>>

-----------------------------------------------------------------------------
(* The life of the process. *)

\* A file that is refused is not replaced by a fresh state: the process does
\* not start.  The recovered state is saved before anyone connects.
start ==
    /\ life = "Down" /\ starts < MaxStarts
    /\ Intact(disk)
    /\ life' = "Starting" /\ starts' = starts + 1
    /\ core' = disk.image
    /\ BeginSave("barrier", core')
    /\ barrier' = Hold("main", "Start", "None", 0)
    /\ UNCHANGED <<changes, netVars, poolVars, stop, ghostVars>>
FinishStart ==
    /\ barrier.job = "Start" /\ Returned("barrier")
    /\ TakeResult("barrier")
    /\ life' = IF saving["barrier"].pc = "Saved" THEN "Up" ELSE "Down"
    /\ barrier' = NoHold
    /\ UNCHANGED <<starts, core, changes, netVars, poolVars, stop, ghostVars>>

\* The process ends: killed at any moment, or after shutdown().  The staging
\* files it leaves are forgotten: no other process opens one, and if it gets the
\* same name, opening empties it.
Exit ==
    /\ life # "Down" /\ life' = "Down"
    /\ core' = disk.image
    /\ saving' = [s \in Saver |-> NotSaving] /\ staging' = [s \in Saver |-> NoFile]
    /\ conn' = [c \in Conn |-> NoConnection]
    /\ registry' = {} /\ sessions' = {}
    /\ barrier' = NoHold /\ stop' = Off
    /\ pump' = "Running" /\ pool' = "Idle" /\ jobs' = 0
    /\ UNCHANGED <<starts, changes, disk, saveFailures, sentFrames, jobsMade, ghostVars>>

SaveStep(s) ==
    /\ atomic_write_file(s)
    /\ UNCHANGED <<processVars, core, changes, netVars, barrier, poolVars, stop, ghostVars>>

-----------------------------------------------------------------------------

Init ==
    /\ life = "Down" /\ starts = 0
    /\ core = EmptyImage /\ changes = 0
    /\ StoreInit
    /\ conn = [c \in Conn |-> NoConnection] /\ sentFrames = [c \in Conn |-> 0]
    /\ registry = {} /\ sessions = {}
    /\ barrier = NoHold
    /\ pump = "Running" /\ pool = "Idle" /\ jobs = 0 /\ jobsMade = 0
    /\ stop = Off
    /\ acknowledged = {}
    /\ sink = [requests |-> {}, receipts |-> {}, refused |-> {}]

HandleFrame(c) ==
    \/ HandleUnknown(c)
    \/ protocol_violation(c)
    \/ HandleUnchanged(c)
    \/ HandleChange(c)
ReaderStep(c) == reader_loop(c) \/ HandleFrame(c) \/ note_close("reader", c)
WriterStep(c) == writer_loop(c) \/ note_close("writer", c)
HolderStep ==
    \/ FinishChange
    \/ PersistRequest \/ submit \/ submit_fails \/ RecordReceipt \/ AnswerPromotion
    \/ FinishNoteClose \/ FinishEvaluation \/ FinishStart
PoolStep == pool_loop \/ run_evaluation
StopStep ==
    \/ StopAccepting \/ StopPump \/ persist_final \/ ListConnections
    \/ CloseConnection \/ CompleteShutdown
    \/ \E c \in Conn : note_close("shutdown", c)

Next ==
    \/ \E c \in Conn :
         \/ acceptor_loop(c) \/ PeerSends(c) \/ PeerReads(c) \/ PeerLeaves(c)
         \/ ReaderStep(c) \/ WriterStep(c)
         \/ begin_dispatch(c) \/ note_close("pump", c)
    \/ pump_loop \/ start_evaluations
    \/ PoolStep
    \/ HolderStep
    \/ \E s \in Saver : SaveStep(s)
    \/ shutdown \/ StopStep
    \/ start \/ Exit

\* Every thread of a running process goes on with what it is doing, and gets
\* the mutex when it waits for it.  Nothing is assumed of peers, not even that
\* they read, of whoever starts or stops the process, and of the pump's work.
Fairness ==
    /\ \A c \in Conn : WF_vars(ReaderStep(c)) /\ WF_vars(WriterStep(c))
    /\ \A c \in Conn : WF_vars(note_close("pump", c))
    /\ WF_vars(HolderStep) /\ WF_vars(PoolStep) /\ WF_vars(pump_loop)
    /\ \A s \in Saver : WF_vars(SaveStep(s))
    /\ WF_vars(StopStep)

Spec == Init /\ [][Next]_vars
FairSpec == Spec /\ Fairness

-----------------------------------------------------------------------------

\* Whatever happens to the process, whichever writes fail and however two
\* saves overlap, the file at the state path is one image of the core, of one
\* save and all of it: its payload is the one its header was made for
\* (atomic_write_file, replace_with_staging, validate_header).
SnapshotIsIntact == Intact(disk)

AtFinal == stop.pc \in {"Final", "Connections", "Closing", "Complete"}

\* mutate -> persist -> notify: a reply, an assignment or a handoff of a
\* promotion request is sent only when the change it is about is in the image
\* on disk, whatever fails and whoever else saves.  Frames that are handled
\* while the final snapshot is written, and later, are left out.
NotifiedAfterPersist ==
    [][ AtFinal \/ (acknowledged' \cup sink'.requests) \ (acknowledged \cup sink.requests)
                      \subseteq disk.image.changes ]_vars

\* A save never puts an older image in the place of a newer one, so what was
\* on disk when it was acknowledged stays there: two saves are ordered by the
\* mutex.  The final save is the exception.
SavesNeverGoBack ==
    [][ \/ stop.pc = "Final"
        \/ /\ disk.image.changes \subseteq disk'.image.changes
           /\ disk.image.evidence <= disk'.image.evidence ]_vars

\* Jobs that were queued are finished before the final snapshot is taken, and
\* no evidence comes after it (shutdown(), pool_loop).
FinalHasAllEvidence ==
    saving["final"].pc # "Idle" =>
        jobs = 0 /\ saving["final"].image.evidence = core.evidence

\* shutdown() ends: joining the pump and the pool, saving, and closing every
\* connection, whose readers and writers are not joined and may be closing it
\* or handling a frame themselves, with peers that never read.
ShutdownCompletes == stop.pc # "Off" ~> stop.pc \in {"Complete", "Off"}

\* A connection that was closed, by either of its threads, by a sender whose
\* frame found the queue full, by a protocol violation or by shutdown(), is
\* cleared away: the registry forgets it and its reader ends.  Its writer
\* ends if it has something to send; an idle one is not woken.
ClosedIsClearedAway ==
    \A c \in Conn : conn[c].closed ~>
        \/ ~conn[c].closed
        \/ /\ c \notin registry /\ conn[c].reader = "Ended"
           /\ conn[c].writer = "Ended" \/ (conn[c].writer = "Waiting" /\ conn[c].outbound = 0)

-----------------------------------------------------------------------------
(* What comments and documents say and the code does not do. *)

\* README.md says that a publication is acknowledged only after it is
\* durable, and that shutdown writes a final snapshot.  The final snapshot is
\* taken without the mutex while frames are handled, and may replace an image
\* that has a change it does not have.
AcknowledgedOnDisk == acknowledged \subseteq disk.image.changes

\* foundry_select.cpp says of a receipt that it is validated and returned to
\* the caller.  The digest it is validated against is not the one that
\* LocalPromotionSink puts into it.
ReceiptIsReturned == sink.receipts \cap sink.refused = {}
=============================================================================
