-------------------------- MODULE CoordinatorWorkers --------------------------
(***************************************************************************)
(* The coordinator process between its core, its snapshot on disk and the  *)
(* worker processes (coordinator.cpp, worker_runtime.cpp, transport.cpp).  *)
(*                                                                         *)
(* A worker process has one connection in its life and draws its boot      *)
(* identity when it starts, so a boot stands for the process and for its   *)
(* connection.  What a worker sent is a queue that may be lost when the     *)
(* connection goes down.  What it is sent is with its reader thread at     *)
(* once: a frame that a broken connection loses is one the process does    *)
(* not get to before it exits.  A coordinator thread that changes state    *)
(* holds durability_mutex from the change to the reply, so a frame is      *)
(* handled in one step, except where the handler changes the core twice:   *)
(* then the mutex stays taken between the steps (BarrierFree).             *)
(*                                                                         *)
(* Only the replies a worker acts on are modelled.  SelfReport frames are  *)
(* left out: nothing sets has_authority, so all of them are refused.  The  *)
(* runtime sends no Revalidate and no Heartbeat, and AttemptFailed only    *)
(* for a PublishAck that is not accepted, which no handler builds.  The    *)
(* evaluation jobs are the subject of CoordinatorEvaluation.               *)
(***************************************************************************)
EXTENDS FoundryCore, Sequences

CONSTANTS
    Home,            \* the worker identity each process is started under
    MaxSaveFailures  \* snapshots that cannot be written, a bound

ASSUME WorkersAssumption == Home \in [Boot -> Worker] /\ MaxSaveFailures \in Nat

VARIABLES
    up,              \* the coordinator process runs
    durable,         \* the snapshot on disk
    saveFailures,
    pump,            \* the pump thread between its steps
    claim,           \* the publication whose claim is being recorded
    registry,        \* per connection: registered, and its session
    link,            \* per connection: "None", "Up" or "Down"
    toCoordinator,   \* per connection: frames in transit
    runtime          \* per process: the state of ReferenceWorkerRuntime

netVars == <<registry, link, toCoordinator>>
diskVars == <<durable, saveFailures>>
allVars == <<vars, up, diskVars, pump, claim, netVars, runtime>>

NoSession == [epoch |-> 0, worker |-> 0, boot |-> 0, generation |-> 0]
Frame(type, session, attempt) ==
    [type |-> type, session |-> session, attempt |-> attempt]
\* ErrorResponse, for the two messages whose refusal a worker acts on.
HelloRefused == Frame("HelloRefused", NoSession, 0)
PublishRefused == Frame("PublishRefused", NoSession, 0)

IdlePump == [pc |-> "Idle", conn |-> 0, session |-> NoSession, attempt |-> 0]
NoClaim == [conn |-> 0, attempt |-> 0]
NewRuntime == [pc |-> "Unstarted", session |-> NoSession, inbox |-> <<>>,
               refused |-> {}, acknowledged |-> FALSE, job |-> 0,
               authority |-> NoSession]

-----------------------------------------------------------------------------
(* The snapshot. *)

Snapshot ==
    [epoch |-> epoch, taskGeneration |-> taskGeneration,
     policyGeneration |-> policyGeneration, ids |-> ids,
     populations |-> populations, candidates |-> candidates,
     attempts |-> attempts, workers |-> workers, evaluations |-> evaluations,
     selections |-> selections, retentions |-> retentions,
     promotions |-> promotions, reserved |-> reserved, consumed |-> consumed]

\* A save replaces the file or leaves it as it was.
Save == durable' = Snapshot' /\ UNCHANGED saveFailures
SaveFails ==
    /\ saveFailures < MaxSaveFailures
    /\ saveFailures' = saveFailures + 1
    /\ UNCHANGED durable

BarrierFree == up /\ pump.pc # "Saved" /\ claim = NoClaim

\* The worker's reader thread: it resolves HelloAck and ErrorResponse itself
\* and queues every other frame for the loop.
enqueue(r, frame) ==
    CASE frame.type = "HelloAck" -> [r EXCEPT !.session = frame.session]
      [] frame \in {HelloRefused, PublishRefused} ->
           [r EXCEPT !.refused = @ \cup {frame}]
      [] OTHER -> [r EXCEPT !.inbox = Append(@, frame)]

\* A frame is sent on a connection that is registered and not closed.
Send(b, frame) ==
    runtime' = IF registry[b].open /\ link[b] = "Up"
               THEN [runtime EXCEPT ![b] = enqueue(@, frame)] ELSE runtime

\* The reader thread of connection b hands over the next frame.
Receive(b, type) ==
    /\ BarrierFree
    /\ registry[b].open
    /\ toCoordinator[b] # <<>> /\ Head(toCoordinator[b]).type = type
    /\ toCoordinator' = [toCoordinator EXCEPT ![b] = Tail(@)]

-----------------------------------------------------------------------------
(* Frames of a worker. *)

HandleHello(b) ==
    LET w == Home[b] IN
    /\ Receive(b, "Hello")
    /\ register_worker(w, b)
    /\ LET session == [epoch |-> epoch, worker |-> w, boot |-> b,
                       generation |-> workers'[w].sessionGeneration]
       IN \/ /\ Save
             /\ registry' = [registry EXCEPT ![b].session = session]
             /\ Send(b, Frame("HelloAck", session, 0))
          \/ SaveFails /\ Send(b, HelloRefused) /\ UNCHANGED registry
    /\ UNCHANGED <<up, pump, claim, link>>

HandleWorkerReady(b) ==
    /\ Receive(b, "WorkerReady")
    /\ \/ worker_ready(Head(toCoordinator[b]).session) /\ (Save \/ SaveFails)
       \/ /\ ~AcceptsReady(Head(toCoordinator[b]).session)
          /\ UNCHANGED <<vars, diskVars>>
    /\ UNCHANGED <<up, pump, claim, registry, link, runtime>>

\* The session is the one the frame names, not the connection's.
HandleAttemptAccepted(b) ==
    LET frame == Head(toCoordinator[b]) IN
    /\ Receive(b, "AttemptAccepted")
    /\ \/ acknowledge_attempt(frame.session, frame.attempt) /\ (Save \/ SaveFails)
       \/ /\ ~AcceptsAcknowledgement(frame.session, frame.attempt)
          /\ UNCHANGED <<vars, diskVars>>
    /\ UNCHANGED <<up, pump, claim, registry, link, runtime>>

\* Mutation of HandleCandidatePublish: the publication is not saved.
HandlePublishUnsaved(b) ==
    LET a == Head(toCoordinator[b]).attempt IN
    /\ Receive(b, "CandidatePublish")
    /\ publish_candidate(registry[b].session, a)
    /\ claim' = [conn |-> b, attempt |-> a]
    /\ UNCHANGED <<diskVars, up, pump, registry, link, runtime>>
\* The publication, under the connection's session.
HandleCandidatePublish(b) ==
    LET a == Head(toCoordinator[b]).attempt IN
    /\ Receive(b, "CandidatePublish")
    /\ \/ /\ publish_candidate(registry[b].session, a)
          /\ \/ /\ Save
                /\ claim' = [conn |-> b, attempt |-> a]
                /\ UNCHANGED runtime
             \/ SaveFails /\ Send(b, PublishRefused) /\ UNCHANGED claim
       \/ /\ ~AcceptsPublication(registry[b].session, a)
          /\ Send(b, PublishRefused)
          /\ UNCHANGED <<vars, diskVars, claim>>
    /\ UNCHANGED <<up, pump, registry, link>>

\* The rest of that handler: the worker's claim (of success; nothing below
\* looks at the outcome) becomes evidence, saved if it can be, and the
\* publication is acknowledged.
RecordClaim ==
    LET a == claim.attempt IN
    /\ up /\ claim # NoClaim
    /\ \E k \in SelfReportKey :
         record_evaluation(attempts[a].candidate, k, "WorkerSelfReport", "Pass", FALSE,
                           attempts[a].packagePopulation, attempts[a].packageTask)
    /\ Save \/ SaveFails
    /\ Send(claim.conn, Frame("PublishAck", NoSession, a))
    /\ claim' = NoClaim
    /\ UNCHANGED <<up, pump, netVars>>

HandleFrame(b) ==
    \/ HandleHello(b)
    \/ HandleWorkerReady(b)
    \/ HandleAttemptAccepted(b)
    \/ HandleCandidatePublish(b)

\* Mutation of note_close: the core is not told.
CloseUntold(b) ==
    /\ BarrierFree
    /\ registry[b].open /\ link[b] = "Down"
    /\ registry' = [registry EXCEPT ![b].open = FALSE]
    /\ toCoordinator' = [toCoordinator EXCEPT ![b] = <<>>]
    /\ UNCHANGED <<vars, diskVars, up, pump, claim, link, runtime>>
\* The coordinator notices that connection b is down.
note_close(b) ==
    LET session == registry[b].session IN
    /\ BarrierFree
    /\ registry[b].open /\ link[b] = "Down"
    /\ registry' = [registry EXCEPT ![b].open = FALSE]
    /\ toCoordinator' = [toCoordinator EXCEPT ![b] = <<>>]
    /\ IF session # NoSession /\ ValidSession(session)
       THEN worker_disconnected(session) /\ (Save \/ SaveFails)
       ELSE UNCHANGED <<vars, diskVars>>
    /\ UNCHANGED <<up, pump, claim, link, runtime>>

-----------------------------------------------------------------------------
(* The pump thread. *)

\* It lists the registered sessions.  One entry of the list is followed here,
\* and it may be old by the time the pump comes to it.
dispatch_ready_workers(b) ==
    /\ up /\ pump.pc = "Idle"
    /\ registry[b].open /\ registry[b].session # NoSession
    /\ pump' = [IdlePump EXCEPT !.pc = "Listed", !.conn = b]
    /\ UNCHANGED <<vars, up, diskVars, claim, netVars, runtime>>

\* It reads the record of that worker, without the mutex, and builds the
\* authority from the record (worker_authority_of), not from the connection.
begin_dispatch ==
    LET w == Home[pump.conn]
        session == [epoch |-> workers[w].registeredEpoch, worker |-> w,
                    boot |-> workers[w].boot,
                    generation |-> workers[w].sessionGeneration]
    IN
    /\ up /\ pump.pc = "Listed"
    /\ pump' = IF workers[w].state = "Ready"
               THEN [pump EXCEPT !.pc = "Read", !.session = session] ELSE IdlePump
    /\ UNCHANGED <<vars, up, diskVars, claim, netVars, runtime>>

\* Mutation of AuthorizeAndSave: the result of the save is ignored.
AuthorizeAndGoOn ==
    /\ BarrierFree /\ pump.pc = "Read"
    /\ \/ /\ authorize_attempt(pump.session)
          /\ Save \/ SaveFails
          /\ pump' = [pump EXCEPT !.pc = "Saved", !.attempt = ids'.attempt]
       \/ /\ ~AcceptsDispatch(pump.session)
          /\ pump' = IdlePump
          /\ UNCHANGED <<vars, diskVars>>
    /\ UNCHANGED <<up, claim, netVars, runtime>>
\* It takes the mutex, authorizes and saves; when the save fails it returns and
\* the core keeps the attempt.
AuthorizeAndSave ==
    /\ BarrierFree /\ pump.pc = "Read"
    /\ \/ /\ authorize_attempt(pump.session)
          /\ \/ /\ Save
                /\ pump' = [pump EXCEPT !.pc = "Saved", !.attempt = ids'.attempt]
             \/ SaveFails /\ pump' = IdlePump
       \/ /\ ~AcceptsDispatch(pump.session)
          /\ pump' = IdlePump
          /\ UNCHANGED <<vars, diskVars>>
    /\ UNCHANGED <<up, claim, netVars, runtime>>

\* It confirms, sends and lets the mutex go, without another save.
ConfirmAndSend ==
    /\ up /\ pump.pc = "Saved"
    /\ confirm_dispatch(pump.session, pump.attempt)
    /\ Send(pump.conn, Frame("AssignAttempt", pump.session, pump.attempt))
    /\ pump' = IdlePump
    /\ UNCHANGED <<up, diskVars, claim, netVars>>

-----------------------------------------------------------------------------
(* The control plane, and the life of the process. *)

HandleController ==
    /\ BarrierFree
    /\ \/ create_population
       \/ \E p \in PopulationId : start_population(p, populations[p].generation)
       \/ \E a \in AttemptId : cancel_attempt(a)
    /\ Save \/ SaveFails
    /\ UNCHANGED <<up, pump, claim, netVars, runtime>>

\* The process dies between any two steps.  What it leaves is the snapshot;
\* until the next process has recovered it, that is the state of the core.
Crash ==
    /\ up /\ up' = FALSE
    /\ durable.epoch < MaxEpoch
    /\ epoch' = durable.epoch
    /\ taskGeneration' = durable.taskGeneration
    /\ policyGeneration' = durable.policyGeneration
    /\ ids' = durable.ids
    /\ populations' = durable.populations /\ candidates' = durable.candidates
    /\ attempts' = durable.attempts /\ workers' = durable.workers
    /\ evaluations' = durable.evaluations
    /\ selections' = durable.selections /\ retentions' = durable.retentions
    /\ promotions' = durable.promotions
    /\ reserved' = durable.reserved /\ consumed' = durable.consumed
    /\ pump' = IdlePump /\ claim' = NoClaim
    /\ registry' = [b \in Boot |-> [open |-> FALSE, session |-> NoSession]]
    /\ link' = [b \in Boot |-> IF link[b] = "Up" THEN "Down" ELSE link[b]]
    /\ toCoordinator' = [b \in Boot |-> <<>>]
    /\ UNCHANGED <<diskVars, runtime, sessions, heldSelection, heldRetention>>

\* start(): recover under the next epoch, and save before anyone connects.
\* One that fails is a process that is still down.
start ==
    /\ ~up /\ up' = TRUE
    /\ recover
    /\ Save
    /\ UNCHANGED <<pump, claim, netVars, runtime>>

-----------------------------------------------------------------------------
(* The loop of the worker process. *)

Exit(b) ==
    /\ runtime' = [runtime EXCEPT ![b] = [NewRuntime EXCEPT !.pc = "Exited"]]
    /\ link' = [link EXCEPT ![b] = "Down"]
    /\ UNCHANGED <<registry, toCoordinator>>

\* The loop sends a frame and goes on with r, or finds the connection closed.
SendOrExit(b, frame, r) ==
    \/ /\ link[b] = "Up"
       /\ toCoordinator' = [toCoordinator EXCEPT ![b] = Append(@, frame)]
       /\ runtime' = [runtime EXCEPT ![b] = r]
       /\ UNCHANGED <<registry, link>>
    \/ link[b] = "Down" /\ Exit(b)

\* The acceptor registers the connection before it starts.
connect(b) ==
    /\ up /\ runtime[b].pc = "Unstarted"
    /\ link' = [link EXCEPT ![b] = "Up"]
    /\ registry' = [registry EXCEPT ![b] = [open |-> TRUE, session |-> NoSession]]
    /\ toCoordinator' = [toCoordinator EXCEPT ![b] = <<Frame("Hello", NoSession, 0)>>]
    /\ runtime' = [runtime EXCEPT ![b].pc = "AwaitHello"]

\* connect() returns and run() reports ready, or the handshake failed.
\* revalidation_required is not looked at.
FinishHandshake(b) ==
    LET r == runtime[b] IN
    /\ r.pc = "AwaitHello"
    /\ \/ /\ r.session # NoSession
          /\ SendOrExit(b, Frame("WorkerReady", r.session, 0), [r EXCEPT !.pc = "Serving"])
       \/ /\ r.session = NoSession
          /\ HelloRefused \in r.refused \/ link[b] = "Down"
          /\ Exit(b)

\* serve() takes the next frame.  An assignment is accepted, under the
\* session it carries; a PublishAck is remembered.
serve(b) ==
    LET r == runtime[b]
        frame == Head(r.inbox)
        rest == [r EXCEPT !.inbox = Tail(@)]
    IN
    /\ r.pc = "Serving"
    /\ IF r.inbox = <<>> THEN link[b] = "Down" /\ Exit(b)
       ELSE IF frame.type = "AssignAttempt"
       THEN SendOrExit(b, Frame("AttemptAccepted", frame.session, frame.attempt),
                       [rest EXCEPT !.pc = "Producing", !.job = frame.attempt,
                                    !.authority = frame.session])
       ELSE /\ runtime' = [runtime EXCEPT ![b] = [rest EXCEPT !.acknowledged = TRUE]]
            /\ UNCHANGED netVars

\* The output is written and published, or the workspace fails and with it
\* the process.
serve_assignment(b) ==
    LET r == runtime[b] IN
    /\ r.pc = "Producing"
    /\ \/ SendOrExit(b, Frame("CandidatePublish", r.authority, r.job),
                     [r EXCEPT !.pc = "AwaitAck"])
       \/ Exit(b)

\* The loop thread waits here; an answer that was queued for the loop is not
\* an answer.
wait_for_publish_ack(b) ==
    LET r == runtime[b] IN
    /\ r.pc = "AwaitAck"
    /\ \/ r.acknowledged
       \/ PublishRefused \in r.refused
       \/ link[b] = "Down"
    /\ IF r.acknowledged
       THEN /\ runtime' = [runtime EXCEPT ![b] = [r EXCEPT !.pc = "Serving",
                                                           !.acknowledged = FALSE]]
            /\ UNCHANGED netVars
       ELSE Exit(b)

\* The connection breaks; a killed process is one whose connection broke.
Break(b) ==
    /\ link[b] = "Up"
    /\ link' = [link EXCEPT ![b] = "Down"]
    /\ UNCHANGED <<registry, toCoordinator, runtime>>

LoopStep(b) ==
    \/ FinishHandshake(b)
    \/ serve(b)
    \/ serve_assignment(b)
    \/ wait_for_publish_ack(b)

WorkerStep(b) ==
    /\ connect(b) \/ LoopStep(b) \/ Break(b)
    /\ UNCHANGED <<vars, up, diskVars, pump, claim>>

-----------------------------------------------------------------------------

\* Everything but the core.
ProcessInit ==
    /\ up = TRUE
    /\ durable = Snapshot /\ saveFailures = 0
    /\ pump = IdlePump /\ claim = NoClaim
    /\ registry = [b \in Boot |-> [open |-> FALSE, session |-> NoSession]]
    /\ link = [b \in Boot |-> "None"]
    /\ toCoordinator = [b \in Boot |-> <<>>]
    /\ runtime = [b \in Boot |-> NewRuntime]
WorkersInit == Init /\ ProcessInit

\* A connection's reader thread, and the threads that are midway.
ReaderStep(b) == HandleFrame(b) \/ note_close(b)
MidwayStep == RecordClaim \/ begin_dispatch \/ AuthorizeAndSave \/ ConfirmAndSend

WorkersNext ==
    \/ \E b \in Boot : \/ ReaderStep(b)
                       \/ dispatch_ready_workers(b)
                       \/ WorkerStep(b)
    \/ MidwayStep
    \/ HandleController
    \/ Crash \/ start

\* Every thread of a running process goes on: a reader with the frames it
\* has and with the closing of its connection, the pump and a handler that
\* are midway, a worker's loop.  Nobody has to start a worker or a
\* coordinator, to send a request or to cut a connection, and nothing is
\* assumed about what the pump looks at.
WorkersFairness ==
    /\ \A b \in Boot :
         /\ WF_allVars(ReaderStep(b))
         /\ WF_allVars(LoopStep(b) /\ UNCHANGED <<vars, up, diskVars, pump, claim>>)
    /\ WF_allVars(MidwayStep)

WorkersSpec == WorkersInit /\ [][WorkersNext]_allVars
FairWorkersSpec == WorkersSpec /\ WorkersFairness

-----------------------------------------------------------------------------

\* What process b was sent and has not looked at.
Queued(b) == {runtime[b].inbox[i] : i \in DOMAIN runtime[b].inbox}

\* An acknowledged publication survives: from the moment PublishAck is on its
\* way, through crashes, failed saves, later disconnects and restarts, the
\* snapshot on disk has the candidate with that output.
AcknowledgedIsDurable ==
    \A b \in Boot : \A frame \in Queued(b) : frame.type = "PublishAck" =>
        LET a == frame.attempt IN
        /\ durable.attempts[a].state # "Absent"
        /\ durable.candidates[durable.attempts[a].candidate].output = a

\* An authorization that was never persisted is never sent, so the attempt a
\* process was given means the same to every later coordinator: its identity
\* is not handed out again after a restart from an older snapshot.
AssignedIsDurable ==
    \A b \in Boot :
        /\ \A frame \in Queued(b) : frame.type = "AssignAttempt" =>
              durable.attempts[frame.attempt].boot = frame.session.boot
        /\ runtime[b].job # 0 =>
              durable.attempts[runtime[b].job].boot = runtime[b].authority.boot

\* The sequence of snapshots keeps the promise of PublicationLedger.
Recorded == INSTANCE PublicationLedger WITH
    Attempt <- AttemptId,
    over <- {a \in AttemptId : durable.attempts[a].state \in AttemptTerminal},
    produced <- {a \in AttemptId :
                   \E c \in CandidateId : durable.candidates[c].output = a}
OutcomesRecordedOnce == Recorded!Spec

InFlight(a) == attempts[a].state \in AttemptInFlight
Unsaved(a) == attempts[a].state = "Authorized" /\ pump.attempt # a
Deaf(b) == /\ runtime[b].pc = "AwaitAck"
           /\ \E frame \in Queued(b) : frame.type = "PublishAck"
Misdirected(a) ==
    LET b == attempts[a].boot IN
    /\ link[b] = "Up"
    /\ runtime[b].job # a
    /\ ~\E frame \in Queued(b) :
          frame.type = "AssignAttempt" /\ frame.attempt = a

\* No attempt stays in flight while the coordinator runs: a publication, a
\* refusal or the closing of the connection ends it.  There are three ways to
\* be stuck, and no other: its authorization could not be saved; its process
\* waits for a PublishAck it has; it was sent on another connection of the
\* same worker.
InFlightEnds ==
    \A a \in AttemptId :
        (up /\ InFlight(a)) ~> \/ ~up \/ ~InFlight(a)
                               \/ Unsaved(a) \/ Misdirected(a)
                               \/ Deaf(attempts[a].boot)

-----------------------------------------------------------------------------
(* What comments and documents say and the code does not do. *)

\* worker_runtime.cpp says of a waiting publication that its acknowledgement
\* and its rejection are both answers.  The acknowledgement is queued for the
\* loop that waits for it.
AcknowledgementIsHeard == \A b \in Boot : Deaf(b) ~> ~Deaf(b)
=============================================================================
