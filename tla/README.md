# Autonomous Foundry in TLA+

A verification project for the foundry: TLA+ modules that model its state
machine, TLC configurations that check them on small instances, and TLAPS
proofs that hold for every value of the constants. Paths below are relative to
the repository root (`src/` in `PROJECT.json`).

## 1. The system

A *foundry* produces candidate solutions of a task with a pool of workers,
collects evidence about them, selects a winner, decides what to keep, and goes
on to a next population that descends from the winner. One coordinator process
owns the state; workers, evaluators and controllers act on it from outside.

| Component | State | Operations | Hard behaviour |
| --- | --- | --- | --- |
| `FoundryCore` sessions and dispatch (`foundry_dispatch.cpp`) | workers, attempts, candidates, ledgers | register, ready, revalidate, disconnect, reject; authorize, confirm, abandon, acknowledge, publish, fail, cancel, force | late and repeated calls, retries after an undetermined outcome, nine ways for an attempt to end |
| `FoundryCore` lifecycle (`foundry_lifecycle.cpp`) | populations, task and policy generations | revise, create, start, cancel, request revalidation, revalidate, close | refusals after half of the work, closure while calls are still arriving |
| `FoundryCore` decisions (`foundry_select.cpp`) | selections, retentions, promotion requests | prepare and commit selection and retention, promotion request, advance | decisions computed from a state that is gone when they commit |
| `FoundryCore` recovery and audit (`foundry_recovery.cpp`) | all of it, and the epoch | recover, audit | a restart at any point |
| Budget ledger (`accounting.cpp`) | reserved and consumed per kind | reserve, consume, release, consume_direct | limits, underflow |
| Coordinator (`coordinator.cpp`) | connection registry, evaluation jobs, snapshot on disk | pump, evaluation pool, frame handlers, persist | threads, jobs that outlive the state they copied, crash between mutate, persist and notify |
| Worker runtime (`worker_runtime.cpp`) | one session, one attempt, an inbox | connect, serve, publish, wait for the answer | two threads and one inbox, lost acknowledgement |
| Transport (`transport.cpp`) | per connection: socket, receive buffer, bounded outbound queue, two threads | start, send, receive, close | whoever closes first runs the callback; full queues, peers that do not read, partial and joined frames |
| Wire protocol (`protocol.cpp`) | none | encode and decode of frames and some forty payloads | field order, counts and lengths from outside |
| Persistence, workspace (`persistence.cpp`, `workspace.cpp`) | the snapshot file | save, save_and_verify, load, atomic replace | crash or failure between two system calls, states that save but do not load |
| Lineage graph (`lineage.cpp`) | nodes with parents and depth | insert, make_child, retire, restore, validate, three queries | diamonds against cycles, depth limits |
| Promotion sink (`local_promotion_sink.cpp`) | a directory | submit | a handoff of several steps, each of which may fail |
| Identities, processes, hashing, command line | counters, children | | restored counters; children without a deadline |

Interaction: all durable state is in `FoundryCore`, guarded by one mutex that
each public method takes once for its whole body (`docs/CONCURRENCY.md`), so a
method is one atomic step. What is concurrent is the order of the calls: a
worker's connection thread, the pump, the evaluation pool, the controllers and
the operator call in any order, a session authority or prepared decision may be
used long after it was handed out, and the process may restart in between.

What makes the core correct: the ledger agrees with the attempts; a slot is
worked on once at a time; late results never change what is finished; evidence
stays with the output it is about; only current decisions commit, and only a
candidate that passed every mandatory gate wins; a closed population is
quiescent; evaluation comes to an end. `PROJECT.json` lists, under `hazards`,
the lines where each of these could go wrong.

## 2. Modules

```
FoundryState            records, transition tables, ledger, authority, helpers
  FoundryDispatch       foundry_dispatch.cpp
  FoundryLifecycle      foundry_lifecycle.cpp
    FoundrySelect       foundry_select.cpp
  FoundryRecovery       foundry_recovery.cpp
    FoundryCore         all handlers, callers, Spec, properties
      CoordinatorEvaluation   the coordinator's evaluation jobs on top of it
      CoordinatorWorkers      the coordinator, its snapshot and worker processes
        PublicationLedger     what the snapshots promise, abstractly
      MCFoundryCore, MCCoordinator, MCWorkers   instances for TLC
      FoundryTypes            types and reservation marks, one lemma per handler
        FoundrySteps          what a step of each handler does to each table
          FoundrySlots        what records say of each other; slots, workers,
                              action properties
            FoundryDecisions  the ledger, closed populations; ranking, winner,
                              selections, retentions, audit
            WorkersProofs     the snapshot and the workers (with CoordinatorWorkers)

SnapshotStore, Connection     the file and its saves; one connection
  CoordinatorShutdown         the coordinator's threads from start to shutdown
    MCShutdown                instances for TLC
    ShutdownProofs            invariants and theorems

Layout                        fields, widths, lists
  WireFormat, WireMessages    protocol.cpp: the records, the payloads
  SnapshotFormat              persistence.cpp: the records of a snapshot
  Codec                       writing, damage and reading of any of them
    CodecProofs               agreement of all formats, invariant and theorems
FrameStream                   frames on a byte stream
LineageGraph                  lineage.cpp: building, loading, validation
  LineageQueries              ancestors, paths, descendants
  MCData                      instances of Codec, frames and graphs for TLC
  DataProofs                  invariants and theorems of the frames, the graph and the
                              queries
```

An action has the name of the method it models. A refused call changes nothing
but statistics and is no step; where the code changes state and *then* refuses
(`cancel_population`, `commit_selection`), that partial effect is part of the
action. `Next` groups the calls by who makes them: `WorkerCall` uses every
session authority that was ever issued, `EvaluatorCall` binds a report to
the generations of the slot or the current ones, `OperatorCall` and
`ControllerCall` are unrestricted.

Data is abstracted to what the properties tell apart.

- An identity is its allocation counter, which is also the order in which the
  code sorts identities. A record that does not exist is in state `Absent`.
- There is one task and one policy; of their content only what
  `validate_policy` guarantees is assumed (`PolicyAssumption`), and of their
  history only the generation is kept. Of the ranking factors, quality of
  optional evidence, completeness and depth are modelled, over a common
  denominator, so that ties and reversals both occur.
- The artifacts of a candidate, their digest and their producer are the
  attempt that published them (`output`); what an evaluation is really about
  is recorded with it (`about`), a history variable the code has no field for.
- SHA-256 digests are the values they encode.
- The package of `confirm_dispatch` lives in the attempt record: a worker
  echoes its generations and nothing else.
- Every stored evaluation record is complete, as the coordinator always sends.
- `assignments_`, statistics, timestamps and texts are left out.

`CoordinatorEvaluation` adds one job per candidate. A tick of the pump queues a
job for a candidate that awaits evidence and has none; a pool thread takes the
copy; every evaluator return is a step of its own, in which the core accepts
or refuses the record; when nothing is pending the candidate may be scheduled
again. A restart loses all jobs.

`CoordinatorWorkers` puts the same core between its snapshot on disk and the
worker processes.

- `durable` is the file; `Save` replaces it, `SaveFails` leaves it (a bounded
  number of times). `Crash` throws the core away and goes back to `durable`;
  `start` recovers it under the next epoch and saves.
- A frame is handled in one step, because `handle_frame` holds
  `durability_mutex` from the first change to the reply. Where a handler
  changes the core twice (a publication and then the worker's claim;
  authorization and then confirmation) there are two steps with the mutex taken
  (`BarrierFree`), so that a crash falls between them.
- The pump does not hold the mutex when it lists the connections and when it
  reads the worker's record: `dispatch_ready_workers`, `begin_dispatch` and
  `AuthorizeAndSave` are separate steps.
- A worker process has one connection and one boot identity in its life, so a
  boot stands for both. `toCoordinator` is what it sent; a connection that goes
  down loses it when the coordinator notices (`note_close`), or after some of
  it was handled. `runtime` has the two places a received frame goes to: the
  reader thread resolves HelloAck and ErrorResponse itself, everything else is
  queued in the inbox that only the loop reads.

`PublicationLedger` is the abstract promise: in the sequence of snapshots an
attempt that is over stays over, an output stays, and an attempt that was over
without an output never gets one. `OutcomesRecordedOnce` says that
`CoordinatorWorkers` implements it, with both sets read off `durable`.

`CoordinatorShutdown` looks at the same coordinator from the side of its
threads: readers and writers of connections, acceptor, pump, evaluation pool
and the thread in `shutdown()`. What a request does to the core is reduced to a
change with an identity, so that a change can be looked for in an image on
disk.

- `barrier` is `durability_mutex`: who holds it, for which job, connection and
  change. A frame handler holds it over change, save and reply, as
  `handle_frame` does; `note_close` takes it or, called by the holder whose
  frame overflowed a queue, already has it. It is a recursive mutex in the
  code, and the model has the same re-entry.
- `SnapshotStore` keeps the file at the state path, the staging files and, per
  saver, how far a save is: taken, staging file begun, written, in place or
  failed. A file is the image its header was made for and what is behind the
  header, which may be nothing yet, that image, or bytes of two images. What is
  renamed to the state path is the staging file as it is at that moment. The
  ordinary saver runs under the mutex, the final one of `shutdown()` does not, so
  two saves may overlap and only the names of their staging files keep them
  apart. A crash (`Exit`) may come between any two steps and leaves only the file.
- `Connection` is a record with pure operations: `request_close` is taken once,
  closes the socket and with it ends the reader's recv and the writer's send;
  `send_frame` queues without blocking and closes on overflow.
- A promotion request is saved, submitted to the sink or refused by it, its
  receipt validated by `record_promotion_receipt`, and saved again, one step
  each. Digests are tagged by what they are a digest of.
- `stop` walks through the phases of `shutdown()`: stop accepting, join the
  pump, drain and join the pool, final save with verification, close every
  connection. It does not wait for readers, as the code does not.

The data modules are about what crosses a process boundary.

- A *layout* is the list of fields a writer appends or a reader takes. Writers
  and readers are separate functions in the code and separate layouts in
  `WireFormat`, `WireMessages` and `SnapshotFormat`, each transcribed from its
  own function; a list has the ceiling and the least element size its reader
  passes. `Codec` writes a document field by field, lets it arrive whole, cut,
  extended or garbled in one field, and reads it with the checks of
  `ByteReader` or of the snapshot's `Reader`. A reader that takes other bytes
  than were written for the field has misread. A *fill* says how many elements
  each list and how many bytes each string of a document has, within what the code
  lets a record hold (`AtMost`: up to 100 000 candidates; strings up to 4 MiB).
- `FrameStream` puts frames, at most one of them faulty, on a stream that
  `recv` cuts anywhere, and takes them out as `reader_loop` does.
- `LineageGraph` is either built by `insert` and `retire`, or restored with
  arbitrary parents and depths and validated: references, the depth-first
  search as steps with its colours and stack, depths. `LineageQueries` has the three
  queries, each a walk from node to node with what it has visited and what lies
  ahead; the graph stands still meanwhile, as it does in the code. A query reads no
  lineages and no retirements, so `MCData` asks it only of graphs without
  retirements and of one lineage (`Plain`).

## 3. Runs

| Run | Asks | Instance | States |
| --- | --- | --- | --- |
| `dispatch` | `TypeOK`, `ReservationsAccounted`, `WithinLimits`, `ChargedPerOutput`, `OneOpenAttemptPerSlot`, `InFlightSlotIsEmpty`, `BusyWithItsAttempt` | 2 workers, 2 slots, 4 attempts, a budget that two attempts use up, one retry | 269 k |
| `recovery` | `HeldWhileInFlight`, `InFlightHasOwner`, `EvidenceAboutOutput`, `LateResultsRefused`, `ReadyOnlyByRevalidation` | 1 worker with 2 boots, 2 epochs, 3 sessions, a mandatory and an optional requirement, one revalidation | 1.05 M |
| `select` | `AuditClean`, `WinnerPassedEveryGate`, `CommitsCurrentRanking`, `CommitsCurrentRetention` | 2 published candidates, a mandatory and an optional requirement, self reports under the mandatory key, revisions, 2 selection generations | 771 k |
| `succession` | `ClosedIsQuiescent`, `LineageSound`, `SavedStateLoads` | 2 populations, elite candidate, successors made by `advance_population` and by `create_population`, promotion required | 438 k |
| `evaluation` | `SettlesUnlessStale`, `SelectionOutlivesRestart` | 2 populations with an elite candidate, 1 attempt, 2 epochs, one revision each of task and policy; starts with one published candidate | 356 k |
| `workers` | `AcknowledgedIsDurable`, `AssignedIsDurable`, `OutcomesRecordedOnce` | 2 processes of one worker, 2 slots, 2 attempts, 2 epochs, one failed write | 880 k |
| `assignments` | `InFlightEnds` | 2 processes of one worker, 1 slot, 2 attempts, one failed write, no crash (it ends every attempt); starts with a running population | 128 k |
| `shutdown` | `SnapshotIsIntact`, `FinalHasAllEvidence`, `NotifiedAfterPersist`, `SavesNeverGoBack`, `ShutdownCompletes`, `ClosedIsClearedAway` | 1 connection with a queue of 1 and 2 frames, 1 evaluation job, 1 failed write, 2 processes one after the other | 379 k |
| `data` | `ReadsBackWhatWasWritten`, `DamageIsRefused`, `CountsAreBacked`; `FramesArriveInOrder`, `BufferIsBounded`; `ValidationDecides`, `QueriesAgree`, `MadeChildIsAccepted`, `HistoryIsFinal` | every payload and record with 0 to 3 list elements, with 32 terse evidence summaries and 65 closure blockers, and payloads with 4097 candidates; 3 frames of 5 sizes, some beyond each limit; graphs of 4 built and 3 loaded nodes with up to 2 parents each, and every query of every shape of them | 1.6 M |
| `unheard_ack` | violated: `AcknowledgementIsHeard` | 1 process, 1 attempt | |
| `final_snapshot` | violated: `AcknowledgedOnDisk` | 1 connection, 1 change | |
| `receipt` | violated: `ReceiptIsReturned` | 1 connection, 1 promotion request | |

What the new questions are. `SavedStateLoads`: `save` validates nothing, so
every reachable state of the core has to satisfy what `load` demands.
`ReadyOnlyByRevalidation` and `SelectionOutlivesRestart` are the strongest forms of
"revalidate before new work" and "generations never regress" that the code
keeps; each names its exceptions (see *Observations*), and so does
`SettlesUnlessStale`: evidence ends the wait of a published candidate unless it
is bound to generations that its population does not have. `SnapshotIsIntact` is
that the file is one image and all of it; that its content is accepted is
`SavedStateLoads` and `ReadsBackWhatWasWritten`, with the exceptions in
*Observations*. `NotifiedAfterPersist` and `SavesNeverGoBack` are the durability
of what others were told; `FinalHasAllEvidence` and `ShutdownCompletes` say that
shutdown loses no queued job and joins nobody who waits for it;
`ClosedIsClearedAway` that a connection which anybody closed leaves the
registry and its reader ends. The `data` run needs no schedule: it enumerates
what a reviewer of two thousand lines of hand-written encoders would have to compare,
every way to cut a stream of frames, and every small graph, against a
definition without an algorithm (`Ancestry`, `Height`).

Bounds. Every bound is a constant with a `Max` name. Two workers and four attempts
are the least for two slots that are both retried at once, against a budget with
one retry; two boots and two epochs for a replaced incarnation before and after a
restart; two candidates and two selection generations for a winner that is
replaced; two populations for a successor. Two *live* populations at once are not
explored, so the early return of the dispatch loop (`DispatchVerdict` = "fail") is
modelled and not exercised by a run. `select` starts from a state with both
outputs published and the workers rejected (`PublishedInit`), which the core
reaches by ordinary calls; it exercises decisions only. `assignments` starts from
a population that was created and started (`StartedInit`). `evaluation` starts
from one published candidate whose worker has disconnected (`FirstPublished`),
which leaves room for what comes after: a revised task, a selection, a successor
whose elite candidate is evaluated in turn, and a restart anywhere. A
revalidation is outside its bound on population generations. It has no self reports:
their key is not one of the requirements. Two processes of one
identity are the least for a replaced incarnation whose old connection is still
registered; one failed write, because a second one only repeats the states after
the first. In `shutdown`, a queue of one is the least that fills up behind a
writer whose peer does not read, and two processes the least for a start after a
crash; with two connections the liveness properties are out of a run's time, and
two handlers never overlap because of the mutex. In `data`, three elements tell
apart the first, a middle and the last element of a list, and the crowded fill is
where three readers of the snapshot are narrower than their writers, the populous one
where those of the wire are; three frames in chunks of up
to two headers give split headers, split payloads and joined frames; three loaded
nodes are the least for a node that is reached on two ways and for a cycle that
another node leads into, and four built ones for two branches that meet again. The
depth limit is 2, so that built graphs reach it; the lineage depth of
the code (64) and a list of 100 000 candidates are not reached by a run; the refusal of
a slot beyond that depth is modelled (`SlotDepth`) and never taken. The
system may stop in any state - nobody has to call - so deadlock is not checked.

Symmetry over workers, boots and controllers is used in the safety runs, where
these are plain model values, and not in the liveness runs.

Fairness (`CoordinatorSpec`): weak fairness of each candidate's job steps. The
pump ticks for as long as the coordinator runs and the pool serves a FIFO
queue. It is assumed that an evaluator returns: the repository imposes no
deadline on a child process by design (`README.md:355`,
`docs/CONCURRENCY.md:117`), so an evaluator that hangs is outside the
assumption and holds its pool thread for ever. Nothing is assumed of workers,
operators or controllers.

Fairness (`WorkersFairness`): a connection's reader thread goes on with the
frames it has and with the closing of the connection; a worker's loop goes on;
a handler or a dispatch that is halfway goes on. Nothing makes the pump look at
a particular connection, nobody has to start a process, and connections need
not break. `InFlightEnds` has three exceptions, each of which the code gets
stuck in: the save in `begin_dispatch` failed (the worker stays Busy with an
unsent attempt, and the comment at `coordinator.cpp:1269` that the next tick
re-authorizes does not hold); the pump sent the assignment on an older
connection of the same worker, or on one that had just closed; the worker waits
for an acknowledgement that it has.

Fairness (`FairSpec` of `CoordinatorShutdown`): every thread of a running
process goes on with what it is doing and gets the mutex when it waits for it
for ever, a save in progress ends, an evaluation returns, and a closed socket
wakes whoever is parked in recv, send or accept (which closesocket() does).
Peers need not send, read or leave, and nobody has to start or stop the process.

### What the violations show

- `unheard_ack`: `enqueue` queues a PublishAck for `serve()`, which is on the
  stack below `wait_for_publish_ack()`, so the wait ends only when the
  connection goes down, and assignments sent meanwhile are stuck behind it. The
  comment at `worker_runtime.cpp:344-346` calls the acknowledgement an answer.
- `final_snapshot`: `persist_final` (`coordinator.cpp:395`) copies the core and
  saves it without `durability_mutex`, while connections are still open and
  their readers handle frames. A handler that changes, saves and acknowledges
  between the copy and the replace has its change overwritten by the older
  final image. `docs/CONCURRENCY.md:76` calls "shutdown racing result
  publication" resolved by ordering; the ordering has no lock.
  `SavesNeverGoBack` and `NotifiedAfterPersist` hold with that one exception.
- `receipt`: `LocalPromotionSink::submit` answers with the digest of the
  canonical encoding of the request, and `record_promotion_receipt`
  (`foundry_select.cpp:982`) compares it with the request's
  `canonical_state_digest`, another value: every accepted handoff is refused as
  StaleAuthority after the sink has filed it. The comment at
  `foundry_select.cpp:975` says that the receipt is returned to the caller.

### Observations

Disagreements that the models contain and that no run is spent on.

- Recovery resets a population's committed selection generation when a prepared
  decision had replaced the stored one (`foundry_recovery.cpp:185`);
  `README.md:96` says generations never regress. `SelectionOutlivesRestart`
  names this exception.
- `report_attempt_failure` accepts an attempt that is already published and
  makes its worker Ready whatever its state (`foundry_dispatch.cpp:746`), so a
  worker can get around the revalidation `README.md:182` demands; cancelling
  its attempt does the same, and so does the publication of an attempt that was
  running when its worker was replaced. `ReadyOnlyByRevalidation` names these
  exceptions; the last one was found by attempting its proof (TLC meets it only
  with two candidates and a second epoch in one instance).
- Evidence is bound to the population generation the slot was made in
  (`coordinator.cpp:1320`) and to the generation the task has when the evaluator
  starts (`coordinator.cpp:1318`); `record_evaluation` demands those of the
  population (`foundry_dispatch.cpp:824`). Where they differ, evidence is produced
  and refused for ever, on every tick. There are three ways to it, and
  `SettlesUnlessStale` names them (`BindingIsStale`):
  - a revalidation of the population, against the comment at
    `foundry_lifecycle.cpp:485-488`;
  - a revision of the task since the population was made;
  - the start of a population with an elite candidate: the elite is made with the
    generation of the population (`foundry_lifecycle.cpp:236`), which
    `start_population` then counts on (`foundry_lifecycle.cpp:394`), so an elite
    that was not evaluated before cannot be any more.

  The last one needs only the commands a controller has; the coordinator itself never
  calls `revalidate_population` or `revise_task`, which an embedding program can
  reach through `FoundryCoordinator::core()` (`coordinator.hpp:102`).
- `create_population` of a later index (`foundry_lifecycle.cpp:67-103`) makes a
  successor of a closed population without the checks of `advance_population`
  (`foundry_select.cpp:1011-1030`): no retention has to be committed, and
  `max_generation_depth` does not bound the index. The model has both
  (`create_successor`, `advance_population`), and `LineageSound` holds of both.
- The depth check of an elite candidate (`foundry_lifecycle.cpp:242`) never
  refuses: a winner is no deeper than the index of its population, and
  `advance_population` has compared that with `max_generation_depth`, which is at
  most `kMaxLineageDepth` (`policy.cpp:313`). `DepthInv` is the proof. The check of a
  slot (`foundry_dispatch.cpp:349`) can refuse, after `create_population` has made
  enough successors.
- `begin_dispatch` saves the attempt as Authorized and does not save after
  `confirm_dispatch` (`coordinator.cpp:1274`): a crash makes recovery cancel an
  attempt that was sent, where `README.md:184` and `docs/CONCURRENCY.md:91`
  say that attempts in flight become OUTCOME_UNKNOWN.
- A publication moves the population to Evaluating and a retryable slot is then
  never dispatched again until an operator revalidates or cancels, although
  `README.md:105` draws RUNNING <-> EVALUATING.
- A refused `close_population` stores one closure blocker per open attempt and
  unresolved candidate (`foundry_lifecycle.cpp:155-196`); `read_population`
  refuses more than 64 (`persistence.cpp:422`, `1088`), and nothing checks on the way
  out. A population with more open candidates than that, closed too early, leaves a
  snapshot the next start refuses. `SavedStateLoads` leaves list ceilings
  out; `ReadsBackWhatWasWritten` names this list (`Short`).
- `kMinRankingValueBytes` is 35 and `kMinEvidenceSummaryBytes` 31
  (`persistence.cpp:414`, `418`), but a ranking value with an empty key takes 31
  bytes and an evidence summary with empty strings 25, against the comment above
  them: "honest lower bounds and no legal document is rejected by them". A
  promotion with 32 summaries of one-letter keys and empty digests writes 832
  bytes for them, its reader demands 992, and what follows them is shorter than the
  difference when the ancestry is: it is saved and refused at load.
  `ReadsBackWhatWasWritten` names both lists (`Thin`); without them the crowded fill
  violates it. Found by attempting its proof.
- The same between peers: `encode_frame` accepts 16 MiB and `decode_frame` 4 MiB
  (modelled: a frame in between closes the connection); beyond 16 MiB an empty buffer is
  sent without the check the comment at `protocol.cpp:1577` asks for, so the
  message is lost; a population may have 100 000 candidates (`limits.hpp:59`), and
  no list of a payload is read beyond 4096 elements (`protocol.cpp:138-160`), so the
  details of a population with more are sent and refused. `ReadsBackWhatWasWritten`
  names these lists (`Short`), and the populous fill reaches one.
- `request_close` does not wake an idle writer, against "Both threads then observe
  closed_ and unwind" (`transport.cpp:980`). The writer holds a reference to its
  connection (`transport.cpp:952`), so the connection is never destroyed and the
  writer stays parked as long as the process lives. `ClosedIsClearedAway` allows it.
- For the same reason nobody waits for a connection's threads: the reader and the
  writer each hold a reference, so the destructor that would join them runs only
  when both have left their loops (`transport.cpp:905-930`). The comment at
  `coordinator.cpp:1809-1812` ("each connection is then destroyed on this thread,
  which joins its own reader and writer") and `docs/CONCURRENCY.md:69` and `104`
  ("joins happen in destructors", "close sockets; join threads") say otherwise. In
  the model, as in the code, `shutdown()` may return with readers still
  running.
- On POSIX, `SocketHandle::close` does not wake a thread in recv or accept. The model
  follows the Windows branch, the one `docs/VALIDATION.md` validates.
- After the final snapshot, `note_close` of worker connections saves again
  without verification.
- `lineage.hpp:63` says that ties among ancestors are resolved by identity
  order; the code keeps the declared order of parents. `validate` does not
  compare a node's lineage with its primary parent's, as `insert` does.

Each property of a passing run has a mutation of the model (`mutants` in
`PROJECT.json`; the mutated definition stands before the original) under which
TLC finds it violated.

## 4. Proofs

The theorems hold for every value of the constants that satisfies
`BoundsAssumption` (bounds are natural numbers), `PolicyAssumption` (what
`validate_policy` demands), `EvaluatorAssumption` (the sets of requirements are
finite and disjoint), `WorkersAssumption` (every process has a worker identity)
and, for the threads, `ShutdownAssumption`, `StoreAssumption` and
`QueueAssumption` (bounds are natural numbers, the queue has room for one frame),
for the byte stream `FrameAssumption` (sizes are natural numbers and not 0, those
of payloads apart), for documents `FillAssumption` (a string of a legal document
has at most 4 MiB, and a list as many elements as `AtMost` says: what `validate_task`,
`validate_policy`, `validate_candidate_record` and `create_population` allow, 100 000
candidates among it, and for lists that grow with the run the records a snapshot may
hold of a kind; it does not mention what a reader takes), and for lineages
`GraphAssumption` (identities and bounds are natural numbers, a snapshot is finite,
there is a lineage). None of them uses fairness.

| module | theorem | property |
|---|---|---|
| `FoundryTypes` | `TypeCorrect`, `MarksAgree` | `TypeOK`, `HeldWhileInFlight` |
| `FoundrySlots` | `EveryStateLoads` | `SavedStateLoads` |
| | `NoRacingAttempts`, `PublicationFindsItsSlot`, `EvidenceStaysTrue` | `OneOpenAttemptPerSlot`, `InFlightSlotIsEmpty`, `EvidenceAboutOutput` |
| | `NoOrphanedAttempt`, `NoIdleBusyWorker` | `InFlightHasOwner`, `BusyWithItsAttempt` |
| | `LateResultsAreRefused`, `RestartsKeepSelections`, `ReadinessIsEarned` | `LateResultsRefused`, `SelectionOutlivesRestart`, `ReadyOnlyByRevalidation` (actions) |
| `FoundryDecisions` | `NothingReservedIsLost`, `LimitsHold`, `EachOutputChargedOnce`, `ClosedForGood` | `ReservationsAccounted`, `WithinLimits`, `ChargedPerOutput`, `ClosedIsQuiescent` |
| | `MarksAreEarned`, `AuditFindsNothing`, `ChildrenContinueWinners` | `WinnerPassedEveryGate`, `AuditClean`, `LineageSound` |
| | `CommitsAreCurrent`, `RetentionsAreCurrent` | `CommitsCurrentRanking`, `CommitsCurrentRetention` (actions) |
| `WorkersProofs` | `AcknowledgementsAreDurable`, `AssignmentsAreDurable`, `SnapshotsLoad` | `AcknowledgedIsDurable`, `AssignedIsDurable`, `SavedStateLoads` (of `WorkersSpec`) |
| | `SnapshotsAreALedger` | `OutcomesRecordedOnce` (refinement of `PublicationLedger`) |
| `ShutdownProofs` | `DiskIsAlwaysIntact`, `FinalSnapshotIsComplete` | `SnapshotIsIntact`, `FinalHasAllEvidence` |
| | `SavesAreOrdered`, `NobodyHearsTooEarly` | `SavesNeverGoBack`, `NotifiedAfterPersist` (actions) |
| `DataProofs` | `OrderIsKept`, `BuffersAreBounded` | `FramesArriveInOrder`, `BufferIsBounded` (of `StreamSpec`) |
| | `ValidationIsExact`, `ChildrenAreAccepted` | `ValidationDecides`, `MadeChildIsAccepted` (of `GraphSpec`) |
| | `AncestryIsFinal` | `HistoryIsFinal` (action) |
| | `QueriesAreRight` | `QueriesAgree` (of `QuerySpec`) |
| `CodecProofs` | `DocumentsReadBack`, `DamagedDocumentsRefused`, `CountsNeverExceedBytes` | `ReadsBackWhatWasWritten`, `DamageIsRefused`, `CountsAreBacked` |

So every safety property that a passing run checks is also proved. What is left to
the runs alone is liveness.

### The core

The proof is layered, each layer an inductive invariant under the ones before it.

- `CoreInv` (`FoundryTypes`): types. `TypeOK` alone is not inductive.
  `confirm_dispatch` reads the generation of the attempt's population, so an
  attempt that exists must name one; `publish_candidate` changes mark and state
  of an attempt together (`SoundAttempt`); `prepare_selection` selects the
  front of a ranking by scores that count evaluation records, so those have to
  be finite, and a nonempty set of participants has a front
  (`RankingHasFront`) because ranking is a strict order.
- `FoundrySteps` has no invariant. It says of each handler which kind of change it
  makes (a slot authorized, an attempt published, a mark set, ...) and of
  each kind what it leaves alone. A handler is taken apart once; every later
  invariant has one case per kind of change and not one per handler.
- `RefInv` (`FoundrySlots`): counters are exact, records name records that
  exist, depths follow parents, and committed decisions agree with what they
  were made of. `SavedStateLoads` is part of it.
- `SlotInv` and `WorkerInv` (`FoundrySlots`). A slot is dispatched again only while
  it has no output, authoritative evidence is about an output that exists, and a
  stored winner has one: `OneOpenAttemptPerSlot`, `InFlightSlotIsEmpty` and
  `EvidenceAboutOutput` are inductive with these together. That an attempt in
  flight has an owner, and a busy worker an attempt, needs only that a worker
  that is registered was registered in this epoch.
- `HeldInv` (`FoundrySlots`): a selection in a controller's hands was never
  committed and names a generation its population has reached, one it has left
  once the population has ended. `WorkInv` is the layers so far.
- `BudgetInv` (`FoundryDecisions`): what is reserved is the
  *number* of attempts with the mark, so a step that changes one attempt changes
  the count by one (cardinalities of sets that differ in one element). A new
  population starts on a fresh ledger because no attempt can name it yet.
- `DecisionInv`, `MarkInv`, `WinnerInv`, `ClosedInv`, `SeedInv`, `DepthInv`,
  `RetentionInv` and `SelectionInv` (`FoundryDecisions`). `DepthInv` bounds the depth of
  candidates: no deeper than the index of their population, and than
  `kMaxLineageDepth`. `CommitsCurrentRanking` compares the
  installed ranking with the one the state implies, and rests on the digest
  determining it: a stored decision is `Derived` from the population its
  digest describes. `AuditClean` is the hardest: `commit_selection` clears the marks of all
  candidates, then looks for its winner and may refuse. A committed
  decision would lose its marked winner that way, if a *competing* decision of
  the same generation could pass the digest check and name another winner. It
  cannot (`WinnerInv`): stages of slots only grow within a generation and evidence
  is only added, so a decision that was prepared before the commit and still
  matches after it has matched all along, and has the same winner.

### The coordinator, its snapshot and its workers

A crash takes the core back to the file, so `CoordinatorWorkers` does not simply
inherit the invariants of the core: the file itself has to satisfy them.

- `DiskInv`: the core and the file are `Sound` (types and references of a
  snapshot, stated of a record instead of the variables), and the core
  `Follows` the file: an attempt stays who it is, one that is over stays over, an
  output stays, and an attempt that was over without an output has none. `StepFollows`
  proves that each step of the core follows the state before it, from the kinds of change
  of `FoundrySteps`. It is transitive, so after any number of failed saves
  the next successful one still follows the file.
- `StepCalls`: every step of `WorkersNext` but a crash makes one call of the
  core that is a step of `FoundryCore!Next`, or none. That needs the authority
  of the call to be one that was issued, which is not obvious for the pump: it builds
  it from a record it read without the mutex. `Sound` has that a record of the
  current epoch names an issued session, and an older one is refused by its epoch.
- `NetInv`: a frame on its way to a worker, a job in its hands, the attempt the pump is
  about to send and the claim about to be acknowledged are covered by the file.
  `Grown` says that what is covered stays covered while the file goes on, so each
  action only has to account for what it sends.

### The threads

`ShutdownInv` (`ShutdownProofs`) says who may be where while the mutex is held,
in which state of the process's life: a save under `durability_mutex` is a save
of the core as it is, what is on disk is within the core, a holder that is about to
answer has its change in the core, and the image is taken only after the threads
it waits for are joined. `SavesNeverGoBack` and `NotifiedAfterPersist` are action
properties proved from it, with the one exception each that `final_snapshot` is about.

`Files` is about the files: a staging file belongs to one saver and holds what that
saver has written so far, so what is renamed is whole. Nothing else keeps two
overlapping saves apart: under one name for all staging files, `SnapshotIsIntact`
is violated.

### The byte stream

`StreamInv` (`DataProofs`): frames lie one behind the other (`Chained`), what the
reader has taken out is whole frames, the first ones, and no more than
`recv` returned (`Aligned`), and the reader is where it is for a reason
(`Reasons`): it waits because what it holds does not decide about the frame
at the front, and it has given up because that frame is not acceptable. The number
of frames, their sizes and the way `recv` cuts the stream are arbitrary.

### Documents

`CodecProofs` has two halves. The first is about layouts only. `Agrees` says that
two sequences of fields have the same kinds and names, at every depth, and that
each list's reader demands no more for an element than one takes and has room
for as many as a record may hold (`Sound`); `Weighs` is the least number of bytes a
layout takes. Both go through concatenation, lists and repetition
(`AgreesConcat`, `AgreesList`, `RepeatWeighs`), so the agreement of each of the 68
documents follows from that of its pieces, record by record as the functions
of the code call each other. It fails at the two lists of `Thin`,
whose reader demands too much for an element, and at those of `Short`, whose reader
has too little room; no other list is excepted.

The second half, `CodecInv`, is the course of one document: what was written is a
prefix of the layout with legal values (`Course`), at most one cell of it is
garbled, what was read is a prefix of what was written (`ReadAs`), and every count
that was passed is backed by bytes (`Backed`). The hard case is a garbled
count or length: it is larger than all that was written, and so larger than
what is left behind it. `Covered` says that from every field on, the document has at
least the bytes which the fields left there weigh. It is kept while the document is
written, field by field, so no sum over elements of elements is needed.

### Lineage graphs

`Ancestry` is a least set, so a claim about all ancestors is proved by giving a set that
contains the parents and is closed under parents.

- Where each depth is one more than the deepest parent's, an ancestor's depth is smaller
  (`DepthsRise`): there is no cycle, and a chain of ancestors cannot be longer than
  the depth. A chain of that length exists, by the least counterexample
  (`DepthIsHeight`). Conversely, heights are one more than the highest parent's,
  because a chain has a last element (`ChainHasTop`, `HeightIsComputed`). So the
  local test of `validate` accepts exactly the graphs that are well formed, and
  `insert` has to test only its own node.
- `SearchInv` is the depth-first search: each node of the path is an ancestor of those
  before it, a node is grey exactly while it is on the path, black nodes have
  black parents and are on no cycle, and a parent of a path node is black, left
  to follow, or next on the path. A grey parent therefore closes a cycle and an
  exhausted search has found none, whatever the order of roots and parents.
- `QueryInv` is the course of a query in a graph that is in use. Breadth first
  (`AncestorsInv`): all it met are ancestors, and each parent of a visited node is visited
  or ahead, so an empty frontier leaves a set that is closed under parents; what lies
  ahead begins with parents of the candidate until all of these are visited, so
  they come first. Upwards (`PathInv`): the depths along the path fall, so the path
  never comes back to itself and ends at a root before the bound is reached.
  Descendants (`DescendantsInv`): what was found are, of the nodes whose chains are
  walked, those with the candidate among their primary ancestors; a chain that is
  not at its end has the candidate ahead exactly if its node descends from it.

### What the proofs changed

- `ReadyOnlyByRevalidation` was false beyond the run's bounds (see
  *Observations*); it names the exception now.
- `RecoveredPopulation` and `commit_retention` had a CASE with guards that
  overlapped, where the code has an order; they now state the order.
- A frame of `FrameStream` carries where it ends on the stream, which was a
  recursive sum over the frames before it.
- `ReadsBackWhatWasWritten` was false for terse evidence, ranking values and many
  closure blockers, which no fill of the run contained. It names these lists, and a
  fill that reaches two of them was added. What the wire does not read of large
  populations was excluded by `FillAssumption` once; it is named too.
- `LineageSound` bounds the depth, which the proof of the elite candidate's depth check
  needed to know of every population's index (`DepthInv`).
- `Codec` has the code's limit of 4 MiB, fills that give each list and
  string its own size, and a damaged count relative to the document's size, where
  it had one fixed large number.
- `LineageGraph` is split from its queries, and its `insert` names the function
  it makes. A loaded depth may exceed the limit, which the file does not rule out.
- The queries were recursive operators, about which nothing can be proved; they are
  loops of steps now, which is also what the code has. `HistoryIsFinal` spoke of
  what they return; it speaks of the parents and ancestors a candidate has, and
  `QueriesAgree` ties the answers to these.

### Only model-checked

- All liveness: `SettlesUnlessStale`, `InFlightEnds`, `ShutdownCompletes`,
  `ClosedIsClearedAway`.

## 5. Plan

1. *(done)* The core, its decisions, recovery, the evaluation jobs; types and
   reservation marks proved.
2. *(done)* Coordinator connections, dispatch and durability composed with the
   core, the worker runtime at the other end, and the abstract ledger they
   implement.
3. *(done)* The coordinator's threads and graceful shutdown, connections, the
   snapshot file, the promotion handoff; payload and snapshot formats, frames,
   the lineage graph.
4. *(done)* Proofs of every safety property of the core and of the coordinator's
   threads.
5. *(done)* Proof that `CoordinatorWorkers` implements `PublicationLedger`, and
   of the durability of acknowledgements and assignments.
6. *(done)* Proofs about the byte stream, about lineage graphs of any size and their
   queries, and about documents of any size.
7. Two live populations at once, and the remaining control plane commands
   composed with the core.

## 6. Not modelled

- Process control (`process.cpp`): operating system calls around one child, no
  state between calls, no deadline. The evaluation run assumes that it returns.
- Hashing, artifacts: a digest is the value it encodes; the function itself is
  out of a model checker's reach.
- Text, UTF-8 and single-field validation, JSON exports, error wording, command
  line, sample tasks, examples and tests: no behaviour to interleave or order.
- Of the workspace, everything but the atomic replace: directory walks and path
  checks are calls without state.
- Loss of the host's power: the code flushes the stream and does not sync the
  file, so nothing could be promised.
