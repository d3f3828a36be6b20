----------------------------- MODULE ShutdownProofs -----------------------------
(***************************************************************************)
(* The coordinator's saves and its shutdown, for any number of connections,*)
(* jobs, failed writes and processes: the file at the state path is always *)
(* one intact image, what others are told has been saved, saves do not go  *)
(* back, and the final snapshot has all evidence.                          *)
(***************************************************************************)
EXTENDS CoordinatorShutdown, TLAPS

USE DEF processVars, netVars, poolVars, ghostVars, storeVars

-----------------------------------------------------------------------------
(* The inductive invariant. *)

\* The values of the state.
Image == [changes: SUBSET Nat, evidence: Nat]
Content == [image: Image, payload: SUBSET Image]
SaveState == {"Idle", "Serialized", "Created", "Written", "Saved", "Failed"}
StopState == {"Off", "Acceptor", "Pump", "Pool", "Final", "Connections", "Closing", "Complete"}

\* What a holder of durability_mutex may be in the middle of: a change that is
\* being saved, the rest of a promotion handoff, or something else.
ChangeJob == {"Hello", "Work", "Change", "Dispatch", "Promote"}
HandoffJob == {"Submit", "Receipt", "Accepted", "Unavailable", "Answer"}
OtherJob == {"None", "NoteClose", "Disconnect", "Evidence", "Start"}

\* Who may hold the mutex, for what, and how far shutdown() may be.
Thread == {"None", "main", "reader", "writer", "pump", "pool", "shutdown"}
Holds == [thread: Thread, job: ChangeJob \cup HandoffJob \cup OtherJob,
         conn: Conn \cup {"None"}, change: Nat]
Stops == [pc: StopState, todo: SUBSET (Conn \X BOOLEAN), conn: Conn \cup {"None"}]

\* What the proofs need to know of types.
Typed ==
    /\ core \in Image /\ disk \in Content
    /\ saving \in [Saver -> [pc: SaveState, image: Image]]
    /\ changes \in Nat /\ jobs \in Nat
    /\ barrier \in Holds /\ stop \in Stops
    /\ registry \subseteq Conn /\ sessions \subseteq Conn
    /\ barrier.job \in ChangeJob => barrier.conn \in Conn
    /\ sink \in [requests: SUBSET Nat, receipts: SUBSET Nat, refused: SUBSET Nat]

\* Image a has nothing that image b lacks.
Within(a, b) == a.changes \subseteq b.changes /\ a.evidence <= b.evidence

\* A save under the mutex is one of the core as it is now; the final one may
\* be of an earlier core.  The image on disk is always one of an earlier core.
Ordered ==
    /\ Within(disk.image, core)
    /\ saving["barrier"].pc # "Idle" => saving["barrier"].image = core
    /\ saving["final"].pc # "Idle" => Within(saving["final"].image, core)
    /\ saving["barrier"].pc = "Saved" /\ ~AtFinal => disk.image = core

\* What the holder of the mutex is about to tell others is in the core, and
\* the request it hands over has been saved before.
Promised ==
    /\ barrier.job \in ChangeJob \cup HandoffJob => barrier.change \in core.changes
    /\ barrier.job \in HandoffJob /\ ~AtFinal => barrier.change \in disk.image.changes

\* A process that is not up holds nothing but what start() does.
Alive ==
    /\ life \in {"Down", "Starting", "Up"}
    /\ barrier.job = "Start" <=> life = "Starting"
    /\ life # "Up" => stop = Off
    /\ life = "Down" => barrier = NoHold

\* shutdown() joins the pump and then the pool before it saves, and nobody
\* else makes the final save.
Joined ==
    /\ saving["final"].pc # "Idle" => /\ stop.pc = "Final"
                                      /\ saving["final"].image.evidence = core.evidence
    /\ stop.pc = "Pool" \/ AtFinal => pump = "Ended"
    /\ AtFinal => pool = "Ended"
    /\ pool = "Ended" => jobs = 0 /\ pump = "Ended"
    /\ barrier.job = "Evidence" => pool = "Evaluating"
    /\ barrier.thread = "shutdown" => stop.pc = "Closing" /\ barrier.job = "Disconnect"

\* The staging file of a save has the image of that save and no other, as far
\* as it is written.
Staged(s) ==
    LET image == saving[s].image IN
    /\ saving[s].pc = "Created" => staging[StagingName(s)] = File(image, {})
    /\ saving[s].pc = "Written" => staging[StagingName(s)] = File(image, {image})
Files == /\ SnapshotIsIntact
         /\ staging \in [Saver -> Content]
         /\ \A s \in Saver : Staged(s)

\* What every reachable state satisfies, besides what it says of the files.
ShutdownInv == Typed /\ Ordered /\ Promised /\ Alive /\ Joined

-----------------------------------------------------------------------------
(* Saves. *)

\* There are two savers, and the code never confuses them.
LEMMA Savers == "barrier" \in Saver /\ "final" \in Saver /\ "barrier" # "final"
  BY ShutdownAssumption

\* A save begins with the image it was given.
LEMMA BeginSaveDoes ==
    ASSUME Typed, NEW s \in Saver, NEW image \in Image, BeginSave(s, image)
    PROVE  /\ saving'[s].pc = "Serialized" /\ saving'[s].image = image
           /\ \A t \in Saver : t # s => saving'[t] = saving[t]
           /\ saving' \in [Saver -> [pc: SaveState, image: Image]]
           /\ disk' = disk
  BY DEF BeginSave, Typed, SaveState

\* Its result is taken once.
LEMMA TakeResultDoes ==
    ASSUME Typed, NEW s \in Saver, TakeResult(s)
    PROVE  /\ saving'[s].pc = "Idle"
           /\ \A t \in Saver : t # s => saving'[t] = saving[t]
           /\ saving' \in [Saver -> [pc: SaveState, image: Image]]
           /\ disk' = disk
<1>1. NotSaving \in [pc: SaveState, image: Image]
  BY DEF NotSaving, SaveState, Image, EmptyImage
<1>2. NotSaving.pc = "Idle"
  BY DEF NotSaving
<1> QED BY <1>1, <1>2 DEF TakeResult, Typed

\* Two saves that overlap have staging files of their own.
LEMMA StagingNamesDiffer ==
    \A s, t \in Saver : /\ StagingName(s) \in Saver
                        /\ s # t => StagingName(s) # StagingName(t)
  BY DEF StagingName

\* Whoever begins or ends a save leaves the files as they are.
LEMMA FilesStay ==
    ASSUME Files, disk' = disk, staging' = staging,
           \A s \in Saver : \/ saving'[s] = saving[s]
                            \/ saving'[s].pc \notin {"Created", "Written"}
    PROVE  Files'
<1>1. ASSUME NEW s \in Saver PROVE Staged(s)'
  BY DEF Files, Staged
<1>2. SnapshotIsIntact' /\ staging' \in [Saver -> Content]
  BY DEF Files, SnapshotIsIntact, Intact
<1> QED BY <1>1, <1>2 DEF Files

\* A save that fails has no staging file any more.
LEMMA FailedSave ==
    ASSUME Typed, Files, NEW s \in Saver, FailSave(s)
    PROVE  /\ saving'[s].pc = "Failed" /\ saving'[s].image = saving[s].image
           /\ \A t \in Saver : t # s => saving'[t] = saving[t]
           /\ saving' \in [Saver -> [pc: SaveState, image: Image]]
           /\ disk' = disk
           /\ Files'
<1>1. /\ saving'[s].pc = "Failed" /\ saving'[s].image = saving[s].image
      /\ \A t \in Saver : t # s => saving'[t] = saving[t]
      /\ saving' \in [Saver -> [pc: SaveState, image: Image]]
      /\ disk' = disk
  BY DEF FailSave, Typed, SaveState
<1>2. NoFile \in Content
  BY DEF NoFile, File, EmptyImage, Content, Image
<1>3. /\ staging' \in [Saver -> Content]
      /\ \A t \in Saver : t # s => staging'[StagingName(t)] = staging[StagingName(t)]
  BY <1>2, StagingNamesDiffer DEF Files, FailSave
<1>4. ASSUME NEW t \in Saver PROVE Staged(t)'
  <2>1. CASE t = s
    BY <1>1, <2>1 DEF Staged
  <2>2. CASE t # s
    BY <1>1, <1>3, <2>2 DEF Files, Staged, StagingName
  <2> QED BY <2>1, <2>2
<1> QED BY <1>1, <1>3, <1>4 DEF Files, SnapshotIsIntact, Intact

\* A save that does not fail goes from one step to the next.
LEMMA SaveGoesOn ==
    ASSUME Typed, Files, NEW s \in Saver, atomic_write_file(s)
    PROVE  /\ saving[s].pc # "Idle" /\ saving'[s].pc # "Idle"
           /\ saving'[s].image = saving[s].image
           /\ \A t \in Saver : t # s => saving'[t] = saving[t]
           /\ saving' \in [Saver -> [pc: SaveState, image: Image]]
           /\ \/ disk' = disk /\ saving'[s].pc # "Saved"
              \/ disk' = File(saving[s].image, {saving[s].image})
           /\ Files'
<1> DEFINE image == saving[s].image
           header == File(image, {})
           whole == File(image, {image})
<1>0. image \in Image /\ saving \in [Saver -> [pc: SaveState, image: Image]]
  BY DEF Typed
<1>1. header \in Content /\ whole \in Content /\ Intact(whole) /\ NoFile \in Content
  BY <1>0 DEF File, Content, Intact, NoFile, EmptyImage, Image
<1>2. staging \in [Saver -> Content] /\ SnapshotIsIntact /\ StagingName(s) \in Saver
  BY StagingNamesDiffer DEF Files
<1>3. ASSUME NEW content \in Content, staging' = [staging EXCEPT ![StagingName(s)] = content],
             \A t \in Saver : t # s => saving'[t] = saving[t],
             SnapshotIsIntact', Staged(s)'
      PROVE  Files'
  <2>1. /\ staging' \in [Saver -> Content]
        /\ \A t \in Saver : t # s => staging'[StagingName(t)] = staging[StagingName(t)]
    BY <1>2, <1>3, StagingNamesDiffer
  <2>2. ASSUME NEW t \in Saver, t # s PROVE Staged(t)'
    BY <1>3, <2>1, <2>2 DEF Files, Staged, StagingName
  <2> QED BY <1>3, <2>1, <2>2 DEF Files
<1>4. CASE /\ saving[s].pc = "Serialized"
           /\ saving' = [saving EXCEPT ![s].pc = "Created"]
           /\ staging' = [staging EXCEPT ![StagingName(s)] = header]
           /\ UNCHANGED disk
  <2>1. staging'[StagingName(s)] = header /\ saving'[s].pc = "Created" /\ saving'[s].image = image
    BY <1>0, <1>2, <1>4
  <2>2. Staged(s)'
    BY <2>1 DEF Staged, StagingName
  <2>3. SnapshotIsIntact'
    BY <1>2, <1>4 DEF SnapshotIsIntact, Intact
  <2>4. \A t \in Saver : t # s => saving'[t] = saving[t]
    BY <1>0, <1>4
  <2>5. Files'
    BY <1>1, <1>3, <1>4, <2>2, <2>3, <2>4
  <2> QED BY <1>0, <1>4, <2>1, <2>4, <2>5 DEF SaveState
<1>5. CASE /\ saving[s].pc = "Created"
           /\ saving' = [saving EXCEPT ![s].pc = "Written"]
           /\ staging' = [staging EXCEPT ![StagingName(s)].payload = @ \cup {image}]
           /\ UNCHANGED disk
  <2>1. staging[StagingName(s)] = header
    BY <1>5 DEF Files, Staged
  <2>2. staging' = [staging EXCEPT ![StagingName(s)] = whole]
    <3>1. [header EXCEPT !.payload = @ \cup {image}] = whole
      BY DEF File
    <3>2. staging' = [staging EXCEPT ![StagingName(s)] = [header EXCEPT !.payload = @ \cup {image}]]
      BY <1>2, <1>5, <2>1
    <3> QED BY <3>1, <3>2
  <2>3. staging'[StagingName(s)] = whole
    BY <1>2, <2>2
  <2>w. saving'[s].pc = "Written" /\ saving'[s].image = image
    BY <1>0, <1>5
  <2>4. Staged(s)'
    BY <2>3, <2>w DEF Staged, StagingName
  <2>5. SnapshotIsIntact'
    BY <1>2, <1>5 DEF SnapshotIsIntact, Intact
  <2>6. \A t \in Saver : t # s => saving'[t] = saving[t]
    BY <1>0, <1>5
  <2>7. Files'
    BY <1>1, <1>3, <2>2, <2>4, <2>5, <2>6
  <2> QED BY <1>0, <1>5, <2>w, <2>6, <2>7 DEF SaveState
<1>6. CASE /\ saving[s].pc = "Written"
           /\ disk' = staging[StagingName(s)]
           /\ staging' = [staging EXCEPT ![StagingName(s)] = NoFile]
           /\ saving' = [saving EXCEPT ![s].pc = "Saved"]
  <2>1. disk' = whole
    BY <1>6 DEF Files, Staged
  <2>2. saving'[s].pc = "Saved" /\ saving'[s].image = image
    BY <1>0, <1>6
  <2>3. Staged(s)'
    BY <2>2 DEF Staged
  <2>4. SnapshotIsIntact'
    BY <1>1, <2>1 DEF SnapshotIsIntact, Intact
  <2>5. \A t \in Saver : t # s => saving'[t] = saving[t]
    BY <1>0, <1>6
  <2>6. Files'
    BY <1>1, <1>3, <1>6, <2>3, <2>4, <2>5
  <2> QED BY <1>0, <1>6, <2>1, <2>2, <2>5, <2>6 DEF SaveState
<1>7. CASE FailSave(s) /\ saving[s].pc \in {"Serialized", "Created", "Written"}
  BY <1>7, FailedSave
<1> QED BY <1>4, <1>5, <1>6, <1>7
        DEF atomic_write_file, write_staging_file, replace_with_staging

-----------------------------------------------------------------------------
(* Every step preserves the invariant. *)

\* What a step that neither saves nor changes the core leaves to prove.
Quiet == /\ UNCHANGED <<life, core, changes, disk, saving, jobs, pump, pool, stop>>
         /\ sink' \in [requests: SUBSET Nat, receipts: SUBSET Nat, refused: SUBSET Nat]
         /\ registry' \subseteq Conn /\ sessions' \subseteq Conn

\* The mutex is let go, or kept by a thread that has closed a connection.
Releases == \/ barrier' = NoHold
            \/ \E t \in Thread \ {"shutdown"}, c \in Conn \cup {"None"} :
                  barrier' = Hold(t, "NoteClose", c, 0) /\ life = "Up"

\* A step that only touches connections, and may let the mutex go or keep it
\* for a connection it has closed.
LEMMA QuietSteps ==
    ASSUME ShutdownInv, Quiet,
           \/ barrier' = barrier
           \/ barrier.job # "Start" /\ Releases
    PROVE  ShutdownInv'
<1>1. Releases => /\ barrier' \in Holds /\ barrier'.job \in {"None", "NoteClose"}
                  /\ barrier'.thread # "shutdown"
                  /\ life = "Up" \/ barrier' = NoHold
  BY DEF Releases, NoHold, Hold, Holds, Thread, OtherJob
<1> QED BY <1>1 DEF ShutdownInv, Quiet, Typed, Ordered, Within, Promised, Alive, Joined,
           AtFinal, ChangeJob, HandoffJob

\* What a change under the mutex does: a new identity, in the core and in the
\* save that begins.
LEMMA ChangeAndSaveKeeps ==
    ASSUME ShutdownInv, life = "Up", Free, NEW t \in {"reader", "pump"}, NEW c \in Conn,
           NEW job \in ChangeJob, ChangeAndSave(t, job, c),
           UNCHANGED <<life, sessions, registry, pump, pool, jobs, stop, sink>>
    PROVE  ShutdownInv'
<1> DEFINE n == changes + 1
<1>1. /\ n \in Nat /\ changes' = n
      /\ core' \in Image /\ core'.changes = core.changes \cup {n}
      /\ core'.evidence = core.evidence
      /\ barrier' = Hold(t, job, c, n)
      /\ BeginSave("barrier", core')
  BY DEF ShutdownInv, Typed, ChangeAndSave, Image
<1>2. /\ barrier' \in Holds /\ barrier'.job = job /\ barrier'.thread = t
      /\ barrier'.change = n /\ barrier'.conn = c
  BY <1>1 DEF Hold, Holds, Thread
<1>3. /\ saving'["barrier"].pc = "Serialized" /\ saving'["barrier"].image = core'
      /\ saving'["final"] = saving["final"]
      /\ saving' \in [Saver -> [pc: SaveState, image: Image]]
      /\ disk' = disk
  BY <1>1, Savers, BeginSaveDoes DEF ShutdownInv
<1> HIDE DEF n
<1>4. Typed'
  BY <1>1, <1>2, <1>3 DEF ShutdownInv, Typed
<1>5. Ordered'
  BY <1>1, <1>3 DEF ShutdownInv, Ordered, Within, AtFinal, Typed, Image
<1>6. Promised'
  BY <1>1, <1>2 DEF Promised, ChangeJob, HandoffJob
<1>7. Alive' /\ Joined'
  BY <1>1, <1>2, <1>3 DEF ShutdownInv, Alive, Joined, ChangeJob, AtFinal
<1> QED BY <1>4, <1>5, <1>6, <1>7 DEF ShutdownInv

\* What the holder does when it has told c, or has closed it.
LEMMA ReleaseDoes ==
    ASSUME NEW k, NEW t \in Thread \ {"shutdown"}, NEW c \in Conn \cup {"None"},
           SendAndRelease(k, t, c), life = "Up"
    PROVE  Releases
  BY DEF SendAndRelease, Releases

\* Frames.
LEMMA FrameSteps ==
    ASSUME ShutdownInv, NEW c \in Conn, HandleFrame(c) PROVE ShutdownInv'
<1>0. barrier = NoHold /\ life = "Up" /\ NoHold.job = "None"
  BY DEF HandleFrame, HandleUnknown, protocol_violation, HandleUnchanged, HandleChange,
         Deliver, Free, NoHold
<1>r. "reader" \in Thread \ {"shutdown"}
  BY DEF Thread
<1>1. CASE HandleUnknown(c)
  BY <1>1, QuietSteps DEF HandleUnknown, Quiet, ShutdownInv, Typed
<1>2. CASE protocol_violation(c)
  <2>1. Releases
    BY <1>0, <1>2, <1>r DEF protocol_violation, Releases
  <2> QED BY <1>0, <1>2, <2>1, QuietSteps DEF protocol_violation, Quiet, ShutdownInv, Typed
<1>3. CASE HandleUnchanged(c)
  <2>1. Releases
    BY <1>0, <1>3, <1>r, ReleaseDoes DEF HandleUnchanged
  <2> QED BY <1>0, <1>3, <2>1, QuietSteps DEF HandleUnchanged, Quiet, ShutdownInv, Typed
<1>4. CASE HandleChange(c)
  BY <1>0, <1>4, ChangeAndSaveKeeps DEF HandleChange, ChangeJob, Free
<1> QED BY <1>1, <1>2, <1>3, <1>4 DEF HandleFrame

\* The holder takes the result of its save and lets the mutex go.
LEMMA TakesAndReleases ==
    ASSUME ShutdownInv, TakeResult("barrier"), Releases,
           UNCHANGED <<life, core, changes, jobs, pump, pool, stop, sink, registry>>,
           sessions' \subseteq Conn, barrier.job # "Start"
    PROVE  ShutdownInv'
<1>1. /\ barrier' \in Holds /\ barrier'.job \in {"None", "NoteClose"}
      /\ barrier'.thread # "shutdown"
      /\ life = "Up" \/ barrier' = NoHold
  BY DEF Releases, NoHold, Hold, Holds, Thread, OtherJob
<1>2. /\ saving'["barrier"].pc = "Idle"
      /\ saving'["final"] = saving["final"]
      /\ saving' \in [Saver -> [pc: SaveState, image: Image]]
      /\ disk' = disk
  BY Savers, TakeResultDoes DEF ShutdownInv
<1> QED BY <1>1, <1>2 DEF ShutdownInv, Typed, Ordered, Within,
           Promised, Alive, Joined, AtFinal, ChangeJob, HandoffJob

\* The holder goes on to another job of the same handoff.
LEMMA HandoffGoesOn ==
    ASSUME ShutdownInv, NEW job \in HandoffJob, barrier.job \in ChangeJob \cup HandoffJob,
           barrier' = [barrier EXCEPT !.job = job],
           UNCHANGED <<life, core, changes, jobs, pump, pool, stop, registry, sessions>>,
           disk' = disk, saving' \in [Saver -> [pc: SaveState, image: Image]],
           saving'["final"] = saving["final"],
           \/ saving'["barrier"] = saving["barrier"]
           \/ saving'["barrier"].pc = "Idle"
           \/ saving'["barrier"].pc = "Serialized" /\ saving'["barrier"].image = core,
           sink' \in [requests: SUBSET Nat, receipts: SUBSET Nat, refused: SUBSET Nat],
           ~AtFinal => barrier.change \in disk.image.changes
    PROVE  ShutdownInv'
<1>1. /\ barrier' \in Holds /\ barrier'.job = job /\ barrier'.thread = barrier.thread
      /\ barrier'.change = barrier.change
  BY DEF ShutdownInv, Typed, Holds
<1>2. Typed'
  BY <1>1 DEF ShutdownInv, Typed, ChangeJob, HandoffJob
<1>3. Ordered' /\ Promised'
  BY <1>1 DEF ShutdownInv, Ordered, Within, Promised, AtFinal
<1>4. barrier # NoHold
  BY DEF NoHold, ChangeJob, HandoffJob
<1>5. Alive' /\ Joined'
  BY <1>1, <1>4 DEF ShutdownInv, Alive, Joined, ChangeJob, HandoffJob, AtFinal
<1> QED BY <1>2, <1>3, <1>5 DEF ShutdownInv

\* Whoever holds the mutex for a change or a handoff is in a running process,
\* and is not the thread that shuts it down.
LEMMA HolderIsUp ==
    ASSUME ShutdownInv, barrier.job \in ChangeJob \cup HandoffJob
    PROVE  /\ life = "Up" /\ barrier.thread \in Thread \ {"shutdown"}
           /\ barrier.conn \in Conn \cup {"None"} /\ barrier.change \in Nat
           /\ barrier.job # "Start" /\ barrier.change \in core.changes
<1>1. barrier \in Holds /\ barrier # NoHold /\ barrier.job \notin {"Start", "Disconnect"}
  BY DEF ShutdownInv, Typed, NoHold, ChangeJob, HandoffJob
<1> QED BY <1>1 DEF ShutdownInv, Alive, Joined, Promised, Holds

\* RequestPromotion after its first save.
LEMMA HandoffSteps ==
    ASSUME ShutdownInv,
           PersistRequest \/ submit \/ submit_fails \/ RecordReceipt \/ AnswerPromotion
    PROVE  ShutdownInv'
<1>0. barrier.job \in ChangeJob \cup HandoffJob
  BY DEF PersistRequest, submit, submit_fails, RecordReceipt, AnswerPromotion, ChangeJob, HandoffJob
<1>1. /\ life = "Up" /\ barrier.thread \in Thread \ {"shutdown"}
      /\ barrier.conn \in Conn \cup {"None"} /\ barrier.change \in Nat
      /\ barrier.job # "Start" /\ barrier.change \in core.changes
  BY <1>0, HolderIsUp
<1>r. "reader" \in Thread \ {"shutdown"}
  BY DEF Thread
<1>t. /\ saving \in [Saver -> [pc: SaveState, image: Image]]
      /\ sink \in [requests: SUBSET Nat, receipts: SUBSET Nat, refused: SUBSET Nat]
      /\ registry \subseteq Conn /\ sessions \subseteq Conn /\ core \in Image
  BY DEF ShutdownInv, Typed
<1>h. barrier.job \in HandoffJob /\ ~AtFinal => barrier.change \in disk.image.changes
  BY DEF ShutdownInv, Promised
<1>2. CASE PersistRequest
  <2>0. TakeResult("barrier")
    BY <1>2 DEF PersistRequest
  <2>1. CASE saving["barrier"].pc = "Saved"
    <3>1. ~AtFinal => barrier.change \in disk.image.changes
      BY <1>1, <2>1 DEF ShutdownInv, Ordered
    <3>2. barrier' = [barrier EXCEPT !.job = "Submit"] /\ "Submit" \in HandoffJob
      BY <1>2, <2>1 DEF PersistRequest, HandoffJob
    <3>3. UNCHANGED <<life, core, changes, jobs, pump, pool, stop, registry, sessions, sink>>
      BY <1>2 DEF PersistRequest
    <3>4. /\ saving' \in [Saver -> [pc: SaveState, image: Image]] /\ disk' = disk
          /\ saving'["final"] = saving["final"] /\ saving'["barrier"].pc = "Idle"
      BY <2>0, Savers, TakeResultDoes DEF ShutdownInv
    <3> QED BY <1>0, <1>t, <3>1, <3>2, <3>3, <3>4, HandoffGoesOn
  <2>2. CASE saving["barrier"].pc # "Saved"
    <3>1. Releases
      BY <1>1, <1>2, <1>r, <2>2, ReleaseDoes DEF PersistRequest
    <3> QED BY <1>1, <1>2, <1>t, <2>0, <3>1, TakesAndReleases DEF PersistRequest
  <2> QED BY <2>1, <2>2
<1>3. CASE submit
  <2>1. PICK job \in HandoffJob : barrier' = [barrier EXCEPT !.job = job]
    BY <1>3 DEF submit, HandoffJob
  <2>2. ~AtFinal => barrier.change \in disk.image.changes
    BY <1>3, <1>h DEF submit, HandoffJob
  <2>3. sink' \in [requests: SUBSET Nat, receipts: SUBSET Nat, refused: SUBSET Nat]
    BY <1>1, <1>3, <1>t DEF submit
  <2>4. UNCHANGED <<life, core, changes, jobs, pump, pool, stop, registry, sessions, disk, saving>>
    BY <1>3 DEF submit
  <2> QED BY <1>0, <1>t, <2>1, <2>2, <2>3, <2>4, HandoffGoesOn
<1>4. CASE submit_fails
  <2>1. barrier' = [barrier EXCEPT !.job = "Unavailable"] /\ "Unavailable" \in HandoffJob
    BY <1>4 DEF submit_fails, HandoffJob
  <2>2. ~AtFinal => barrier.change \in disk.image.changes
    BY <1>4, <1>h DEF submit_fails, HandoffJob
  <2>3. UNCHANGED <<life, core, changes, jobs, pump, pool, stop, registry, sessions, disk,
                    saving, sink>>
    BY <1>4 DEF submit_fails
  <2> QED BY <1>0, <1>t, <2>1, <2>2, <2>3, HandoffGoesOn
<1>5. CASE RecordReceipt
  <2>0. UNCHANGED <<life, core, changes, jobs, pump, pool, stop, registry, sessions>>
    BY <1>5 DEF RecordReceipt
  <2>1. CASE barrier' = [barrier EXCEPT !.job = "Answer"] /\ BeginSave("barrier", core)
             /\ UNCHANGED sink
    <3>1. ~AtFinal => barrier.change \in disk.image.changes
      BY <1>5, <1>h DEF RecordReceipt, HandoffJob
    <3>2. /\ saving' \in [Saver -> [pc: SaveState, image: Image]] /\ disk' = disk
          /\ saving'["final"] = saving["final"]
          /\ saving'["barrier"].pc = "Serialized" /\ saving'["barrier"].image = core
      BY <1>t, <2>1, Savers, BeginSaveDoes DEF ShutdownInv
    <3>3. "Answer" \in HandoffJob
      BY DEF HandoffJob
    <3> QED BY <1>0, <1>t, <2>0, <2>1, <3>1, <3>2, <3>3, HandoffGoesOn
  <2>2. CASE /\ sink' = [sink EXCEPT !.refused = @ \cup {barrier.change}]
             /\ SendAndRelease(conn, "reader", barrier.conn)
             /\ UNCHANGED storeVars
    <3>1. Releases
      BY <1>1, <1>r, <2>2, ReleaseDoes
    <3>2. sink' \in [requests: SUBSET Nat, receipts: SUBSET Nat, refused: SUBSET Nat]
      BY <1>1, <1>t, <2>2
    <3> QED BY <1>1, <1>t, <2>0, <2>2, <3>1, <3>2, QuietSteps DEF Quiet
  <2> QED BY <1>5, <2>1, <2>2, Zenon DEF RecordReceipt
<1>6. CASE AnswerPromotion
  <2>1. Releases /\ TakeResult("barrier")
    BY <1>1, <1>6, <1>r, ReleaseDoes DEF AnswerPromotion
  <2> QED BY <1>1, <1>6, <1>t, <2>1, TakesAndReleases DEF AnswerPromotion
<1> QED BY <1>2, <1>3, <1>4, <1>5, <1>6

\* A handler ends: the reply is sent, or the assignment.
LEMMA FinishChangeKeeps ==
    ASSUME ShutdownInv, FinishChange PROVE ShutdownInv'
<1>0. barrier.job \in ChangeJob /\ TakeResult("barrier")
  BY DEF FinishChange, ChangeJob
<1>1. /\ life = "Up" /\ barrier.thread \in Thread \ {"shutdown"}
      /\ barrier.conn \in Conn /\ barrier.job # "Start"
  BY <1>0, HolderIsUp DEF ShutdownInv, Typed
<1>2. Releases
  <2>1. CASE SendAndRelease(conn, barrier.thread, barrier.conn)
    BY <1>1, <2>1, ReleaseDoes
  <2>2. CASE barrier' = NoHold
    BY <2>2 DEF Releases
  <2> QED BY <2>1, <2>2 DEF FinishChange
<1>3. sessions' \subseteq Conn
  BY <1>1 DEF FinishChange, ShutdownInv, Typed
<1>4. UNCHANGED <<life, core, changes, jobs, pump, pool, stop, sink, registry>>
  BY DEF FinishChange
<1> QED BY <1>0, <1>1, <1>2, <1>3, <1>4, TakesAndReleases

\* shutdown() goes on to the next connection when on_closed has returned to it.
LEMMA ResumeDoes ==
    ASSUME NEW t, NEW c, Resume(t, c), stop \in Stops,
           t = "shutdown" => stop.pc = "Closing"
    PROVE  \/ stop' = stop
           \/ /\ stop.pc = "Closing" /\ stop'.pc = "Connections" /\ stop' \in Stops
  BY DEF Resume, Stops, StopState

\* A thread tells the coordinator of a connection it has closed.
LEMMA NoteCloseKeeps ==
    ASSUME ShutdownInv, NEW t \in {"reader", "writer", "pump", "shutdown"}, NEW c \in Conn,
           note_close(t, c)
    PROVE  ShutdownInv'
<1>1. /\ life = "Up"
      /\ barrier.job \in {"None", "NoteClose"}
      /\ t = "shutdown" => stop.pc = "Closing"
  BY DEF note_close, Closes, Hold, Free, NoHold, ShutdownInv, Joined
<1>2. /\ UNCHANGED <<life, core, changes, jobs, pump, pool, sink>>
      /\ registry' \subseteq Conn /\ sessions' \subseteq Conn
  BY DEF note_close, ShutdownInv, Typed
<1>3. CASE BeginSave("barrier", core) /\ barrier' = Hold(t, "Disconnect", c, 0)
           /\ UNCHANGED <<conn, stop>>
  <2>1. /\ barrier' \in Holds /\ barrier'.job = "Disconnect" /\ barrier'.thread = t
    BY <1>3 DEF Hold, Holds, Thread, OtherJob
  <2>2. /\ saving'["barrier"].pc = "Serialized" /\ saving'["barrier"].image = core
        /\ saving'["final"] = saving["final"]
        /\ saving' \in [Saver -> [pc: SaveState, image: Image]]
        /\ disk' = disk
    BY <1>3, Savers, BeginSaveDoes DEF ShutdownInv, Typed
  <2>3. Typed' /\ Ordered'
    BY <1>2, <1>3, <2>1, <2>2 DEF ShutdownInv, Typed, Ordered, Within, AtFinal, ChangeJob
  <2>4. Promised' /\ Alive' /\ Joined'
    BY <1>1, <1>2, <1>3, <2>1, <2>2
       DEF ShutdownInv, Promised, Alive, Joined, AtFinal, ChangeJob, HandoffJob
  <2> QED BY <2>3, <2>4 DEF ShutdownInv
<1>4. CASE barrier' = NoHold /\ Resume(t, c) /\ UNCHANGED storeVars
  <2>1. /\ barrier' \in Holds /\ barrier'.job = "None" /\ barrier'.thread = "None"
    BY <1>4 DEF NoHold, Holds, Thread, OtherJob
  <2>2. \/ stop' = stop
        \/ /\ stop.pc = "Closing" /\ stop'.pc = "Connections" /\ stop' \in Stops
    BY <1>1, <1>4, ResumeDoes DEF ShutdownInv, Typed
  <2>3. Typed' /\ Ordered'
    BY <1>2, <1>4, <2>1, <2>2 DEF ShutdownInv, Typed, Ordered, Within, AtFinal, ChangeJob
  <2>4. Promised' /\ Alive' /\ Joined'
    BY <1>1, <1>2, <1>4, <2>1, <2>2
       DEF ShutdownInv, Promised, Alive, Joined, AtFinal, ChangeJob, HandoffJob
  <2> QED BY <2>3, <2>4 DEF ShutdownInv
<1> QED BY <1>3, <1>4 DEF note_close

\* The end of a session has been saved.
LEMMA FinishNoteCloseKeeps ==
    ASSUME ShutdownInv, FinishNoteClose PROVE ShutdownInv'
<1>1. /\ barrier.job = "Disconnect" /\ TakeResult("barrier") /\ barrier' = NoHold
      /\ UNCHANGED <<life, core, changes, jobs, pump, pool, sink, registry, sessions>>
  BY DEF FinishNoteClose
<1>2. \/ stop' = stop
      \/ /\ stop.pc = "Closing" /\ stop'.pc = "Connections" /\ stop' \in Stops
  BY ResumeDoes DEF FinishNoteClose, ShutdownInv, Typed, Joined
<1>3. /\ barrier' \in Holds /\ barrier'.job = "None" /\ barrier'.thread = "None"
  BY <1>1 DEF NoHold, Holds, Thread, OtherJob
<1>4. /\ saving'["barrier"].pc = "Idle" /\ saving'["final"] = saving["final"]
      /\ saving' \in [Saver -> [pc: SaveState, image: Image]]
      /\ disk' = disk
  BY <1>1, Savers, TakeResultDoes DEF ShutdownInv
<1>5. Typed' /\ Ordered'
  BY <1>1, <1>2, <1>3, <1>4
     DEF ShutdownInv, Typed, Ordered, Within, AtFinal, ChangeJob
<1>6. life = "Up"
  BY <1>1 DEF ShutdownInv, Alive, NoHold
<1>7. Promised' /\ Alive' /\ Joined'
  BY <1>1, <1>2, <1>3, <1>4, <1>6
     DEF ShutdownInv, Promised, Alive, Joined, AtFinal, ChangeJob, HandoffJob
<1> QED BY <1>5, <1>7 DEF ShutdownInv

\* The pump's ticks.
LEMMA PumpSteps ==
    ASSUME ShutdownInv,
           \/ pump_loop \/ start_evaluations
           \/ \E c \in Conn : begin_dispatch(c)
    PROVE  ShutdownInv'
<1>1. CASE pump_loop
  BY <1>1 DEF pump_loop, ShutdownInv, Typed, Ordered, Within, Promised, Alive,
              Joined, AtFinal
<1>2. CASE start_evaluations
  BY <1>2 DEF start_evaluations, ShutdownInv, Typed, Ordered, Within, Promised,
              Alive, Joined, AtFinal
<1>3. CASE \E c \in Conn : begin_dispatch(c)
  BY <1>3, ChangeAndSaveKeeps DEF begin_dispatch, ChangeJob
<1> QED BY <1>1, <1>2, <1>3

\* An evaluator's thread: it takes a job, and saves the evidence under the mutex.
LEMMA PoolSteps ==
    ASSUME ShutdownInv, PoolStep \/ FinishEvaluation PROVE ShutdownInv'
<1>1. CASE pool_loop
  BY <1>1 DEF pool_loop, ShutdownInv, Typed, Ordered, Within, Promised, Alive,
              Joined, AtFinal
<1>2. CASE run_evaluation
  <2>0. /\ life = "Up" /\ pool = "Evaluating" /\ barrier.job = "None" /\ ~AtFinal
        /\ saving["final"].pc = "Idle"
        /\ UNCHANGED <<life, changes, registry, sessions, pump, jobs, stop, sink>>
    BY <1>2 DEF run_evaluation, Free, NoHold, ShutdownInv, Joined, AtFinal
  <2>1. CASE pool' = "Idle" /\ UNCHANGED <<core, storeVars, barrier>>
    BY <2>0, <2>1 DEF ShutdownInv, Typed, Ordered, Within, Promised, Alive,
                      Joined, AtFinal
  <2>2. CASE /\ core' = [core EXCEPT !.evidence = @ + 1]
             /\ BeginSave("barrier", core')
             /\ barrier' = Hold("pool", "Evidence", "None", 0)
             /\ UNCHANGED pool
    <3>1. /\ core' \in Image /\ core'.changes = core.changes
          /\ core'.evidence = core.evidence + 1
      BY <2>2 DEF ShutdownInv, Typed, Image
    <3>2. /\ saving'["barrier"].pc = "Serialized" /\ saving'["barrier"].image = core'
          /\ saving'["final"] = saving["final"]
          /\ saving' \in [Saver -> [pc: SaveState, image: Image]]
          /\ disk' = disk
      BY <2>2, <3>1, Savers, BeginSaveDoes DEF ShutdownInv
    <3>3. /\ barrier' \in Holds /\ barrier'.job = "Evidence" /\ barrier'.thread = "pool"
      BY <2>2 DEF Hold, Holds, Thread, OtherJob
    <3>4. Typed'
      BY <2>0, <3>1, <3>2, <3>3 DEF ShutdownInv, Typed, ChangeJob
    <3>5. disk.image.evidence \in Nat /\ core.evidence \in Nat
      BY DEF ShutdownInv, Typed, Content, Image
    <3>6. Ordered'
      BY <2>0, <3>1, <3>2, <3>5 DEF ShutdownInv, Ordered, Within
    <3>7. Promised' /\ Alive' /\ Joined'
      BY <2>0, <2>2, <3>2, <3>3
         DEF ShutdownInv, Promised, Alive, Joined, AtFinal, ChangeJob, HandoffJob
    <3> QED BY <3>4, <3>6, <3>7 DEF ShutdownInv
  <2> QED BY <1>2, <2>1, <2>2 DEF run_evaluation
<1>3. CASE FinishEvaluation
  <2>0. /\ barrier.job = "Evidence" /\ TakeResult("barrier") /\ barrier' = NoHold /\ pool' = "Idle"
        /\ UNCHANGED <<life, core, changes, registry, sessions, pump, jobs, stop, sink>>
    BY <1>3 DEF FinishEvaluation
  <2>1. /\ saving'["barrier"].pc = "Idle" /\ saving'["final"] = saving["final"]
        /\ saving' \in [Saver -> [pc: SaveState, image: Image]]
        /\ disk' = disk
    BY <2>0, Savers, TakeResultDoes DEF ShutdownInv
  <2>2. /\ barrier' \in Holds /\ barrier'.job = "None" /\ barrier'.thread = "None"
    BY <2>0 DEF NoHold, Holds, Thread, OtherJob
  <2>3. life = "Up" /\ pool = "Evaluating"
    BY <2>0 DEF ShutdownInv, Alive, Joined, NoHold
  <2>4. Typed' /\ Ordered'
    BY <2>0, <2>1, <2>2 DEF ShutdownInv, Typed, Ordered, Within, AtFinal, ChangeJob
  <2>5. Promised' /\ Alive' /\ Joined'
    BY <2>0, <2>1, <2>2, <2>3
       DEF ShutdownInv, Promised, Alive, Joined, AtFinal, ChangeJob, HandoffJob
  <2> QED BY <2>4, <2>5 DEF ShutdownInv
<1> QED BY <1>1, <1>2, <1>3 DEF PoolStep

\* What stays when a step of shutdown() leaves the threads and the core alone.
LEMMA StopMoves ==
    ASSUME ShutdownInv, life = "Up",
           UNCHANGED <<life, core, changes, jobs, pump, pool, sink, barrier, disk>>,
           saving' \in [Saver -> [pc: SaveState, image: Image]],
           saving'["barrier"] = saving["barrier"],
           stop' \in Stops, AtFinal => AtFinal',
           barrier.thread # "shutdown" \/ stop' = stop,
           registry' \subseteq Conn, sessions' \subseteq Conn,
           saving'["final"].pc # "Idle" => /\ stop'.pc = "Final"
                                           /\ saving'["final"].image = core,
           stop'.pc = "Pool" => pump = "Ended",
           AtFinal' => pump = "Ended" /\ pool = "Ended"
    PROVE  ShutdownInv'
<1>0. barrier.job # "Start" /\ core \in Image
  BY DEF ShutdownInv, Alive, Typed
<1>1. Typed'
  BY DEF ShutdownInv, Typed
<1>2. Within(core, core)
  BY <1>0 DEF Within, Image
<1>3. Ordered' /\ Promised'
  BY <1>2 DEF ShutdownInv, Ordered, Within, Promised, AtFinal
<1>4. Alive' /\ Joined'
  BY <1>0 DEF ShutdownInv, Alive, Joined, AtFinal
<1> QED BY <1>1, <1>3, <1>4 DEF ShutdownInv

\* The steps of shutdown() itself; in between, its thread waits for others.
LEMMA StopSteps ==
    ASSUME ShutdownInv,
           \/ shutdown \/ StopAccepting \/ StopPump \/ persist_final \/ ListConnections
           \/ CloseConnection \/ CompleteShutdown
    PROVE  ShutdownInv'
<1>0. /\ life = "Up" /\ stop \in Stops
      /\ barrier.thread = "shutdown" => stop.pc = "Closing"
      /\ saving \in [Saver -> [pc: SaveState, image: Image]]
      /\ registry \subseteq Conn /\ sessions \subseteq Conn /\ core \in Image
  BY DEF ShutdownInv, Typed, Alive, Joined, shutdown, StopAccepting, StopPump, persist_final,
         ListConnections, CloseConnection, CompleteShutdown, Off
<1>s. /\ saving["final"].pc # "Idle" => stop.pc = "Final"
      /\ stop.pc = "Pool" \/ AtFinal => pump = "Ended"
      /\ AtFinal => pool = "Ended"
  BY DEF ShutdownInv, Joined
<1>1. CASE shutdown \/ StopAccepting \/ StopPump
  <2>1. /\ stop' \in Stops /\ ~AtFinal /\ ~AtFinal'
        /\ stop'.pc = "Pool" => pump = "Ended"
        /\ barrier.thread # "shutdown" /\ saving["final"].pc = "Idle"
    BY <1>0, <1>1, <1>s DEF shutdown, StopAccepting, StopPump, ShutdownStep, Stops, StopState, AtFinal
  <2>2. UNCHANGED <<life, core, changes, jobs, pump, pool, sink, barrier, disk, saving, registry,
                    sessions>>
    BY <1>1 DEF shutdown, StopAccepting, StopPump, ShutdownStep
  <2> QED BY <1>0, <1>s, <2>1, <2>2, StopMoves
<1>2. CASE persist_final
  <2>1. /\ stop' \in Stops /\ AtFinal' /\ stop'.pc = "Final"
        /\ pump = "Ended" /\ pool = "Ended" /\ barrier.thread # "shutdown"
    BY <1>0, <1>2, <1>s DEF persist_final, ShutdownStep, Stops, StopState, AtFinal
  <2>2. UNCHANGED <<life, core, changes, jobs, pump, pool, sink, barrier, registry, sessions>>
    BY <1>2 DEF persist_final, ShutdownStep
  <2>3. /\ saving'["final"].image = core /\ saving'["barrier"] = saving["barrier"]
        /\ saving' \in [Saver -> [pc: SaveState, image: Image]] /\ disk' = disk
    BY <1>0, <1>2, Savers, BeginSaveDoes DEF persist_final, ShutdownInv
  <2> QED BY <1>0, <2>1, <2>2, <2>3, StopMoves
<1>3. CASE ListConnections
  <2> DEFINE left == {<<c, c \in sessions>> : c \in registry}
  <2>0. left \in SUBSET (Conn \X BOOLEAN)
    <3>1. ASSUME NEW c \in registry, NEW worker, worker = (c \in sessions)
          PROVE  <<c, worker>> \in Conn \X BOOLEAN
      <4>1. worker = TRUE \/ worker = FALSE
        BY <3>1
      <4> QED BY <1>0, <4>1
    <3>2. \A c \in registry : <<c, c \in sessions>> \in Conn \X BOOLEAN
      BY <3>1, Zenon
    <3> QED BY <3>2, Zenon
  <2>e. stop' = [stop EXCEPT !.pc = "Connections", !.todo = left]
    BY <1>3 DEF ListConnections
  <2> HIDE DEF left
  <2>1. /\ stop' \in Stops /\ AtFinal /\ AtFinal' /\ stop'.pc = "Connections"
        /\ barrier.thread # "shutdown"
    BY <1>0, <1>3, <2>0, <2>e DEF ListConnections, Stops, StopState, AtFinal
  <2>2. UNCHANGED <<life, core, changes, jobs, pump, pool, sink, barrier, registry, sessions>>
    BY <1>3 DEF ListConnections
  <2>3. /\ saving'["final"].pc = "Idle" /\ saving'["barrier"] = saving["barrier"]
        /\ saving' \in [Saver -> [pc: SaveState, image: Image]] /\ disk' = disk
    BY <1>0, <1>3, Savers, TakeResultDoes DEF ListConnections, ShutdownInv
  <2> QED BY <1>0, <1>s, <2>1, <2>2, <2>3, StopMoves
<1>4. CASE CloseConnection
  <2>1. PICK next \in stop.todo :
          stop' = [pc |-> IF conn[next[1]].closed THEN "Connections" ELSE "Closing",
                   todo |-> stop.todo \ {next}, conn |-> next[1]]
    BY <1>4 DEF CloseConnection
  <2>2. next \in Conn \X BOOLEAN /\ stop.todo \subseteq Conn \X BOOLEAN
    BY <1>0, <2>1 DEF Stops
  <2>3. /\ stop' \in Stops /\ AtFinal /\ AtFinal' /\ stop.pc = "Connections"
        /\ stop'.pc # "Pool" /\ barrier.thread # "shutdown" /\ saving["final"].pc = "Idle"
    BY <1>0, <1>4, <1>s, <2>1, <2>2 DEF CloseConnection, Stops, StopState, AtFinal
  <2>4. UNCHANGED <<life, core, changes, jobs, pump, pool, sink, barrier, disk, saving, registry,
                    sessions>>
    BY <1>4 DEF CloseConnection
  <2> QED BY <1>0, <1>s, <2>3, <2>4, StopMoves
<1>5. CASE CompleteShutdown
  <2>1. /\ stop' \in Stops /\ AtFinal /\ AtFinal' /\ stop.pc = "Connections"
        /\ stop'.pc = "Complete" /\ barrier.thread # "shutdown" /\ saving["final"].pc = "Idle"
    BY <1>0, <1>5, <1>s DEF CompleteShutdown, Stops, StopState, AtFinal, Off
  <2>2. /\ UNCHANGED <<life, core, changes, jobs, pump, pool, sink, barrier, disk, saving>>
        /\ registry' = {} /\ sessions' = {}
    BY <1>5 DEF CompleteShutdown
  <2> QED BY <1>0, <1>s, <2>1, <2>2, StopMoves
<1> QED BY <1>1, <1>2, <1>3, <1>4, <1>5

\* The process starts with what is on disk, and may be killed at any moment.
LEMMA LifeSteps ==
    ASSUME ShutdownInv, start \/ FinishStart \/ Exit PROVE ShutdownInv'
<1>t. /\ disk \in Content /\ disk.image \in Image
      /\ Within(disk.image, disk.image)
  BY DEF ShutdownInv, Typed, Content, Image, Within
<1>1. CASE start
  <2>1. /\ life = "Down" /\ life' = "Starting" /\ core' = disk.image /\ BeginSave("barrier", core')
        /\ barrier' = Hold("main", "Start", "None", 0)
        /\ UNCHANGED <<changes, registry, sessions, jobs, pump, pool, stop, sink>>
    BY <1>1 DEF start
  <2>2. stop = Off /\ Off.pc = "Off" /\ saving["final"].pc = "Idle"
    BY <2>1 DEF ShutdownInv, Alive, Joined, Off
  <2>3. /\ saving'["barrier"].pc = "Serialized" /\ saving'["barrier"].image = core'
        /\ saving'["final"] = saving["final"]
        /\ saving' \in [Saver -> [pc: SaveState, image: Image]]
        /\ disk' = disk
    BY <1>t, <2>1, Savers, BeginSaveDoes DEF ShutdownInv
  <2>4. /\ barrier' \in Holds /\ barrier'.job = "Start" /\ barrier'.thread = "main"
    BY <2>1 DEF Hold, Holds, Thread, OtherJob
  <2>5. Typed' /\ Ordered'
    BY <1>t, <2>1, <2>2, <2>3, <2>4
       DEF ShutdownInv, Typed, Ordered, Within, ChangeJob
  <2>6. Promised' /\ Alive' /\ Joined'
    BY <2>1, <2>2, <2>3, <2>4
       DEF ShutdownInv, Promised, Alive, Joined, AtFinal, ChangeJob, HandoffJob
  <2> QED BY <2>5, <2>6 DEF ShutdownInv
<1>2. CASE FinishStart
  <2>1. /\ barrier.job = "Start" /\ TakeResult("barrier") /\ barrier' = NoHold
        /\ life' \in {"Up", "Down"}
        /\ UNCHANGED <<core, changes, registry, sessions, jobs, pump, pool, stop, sink>>
    BY <1>2 DEF FinishStart
  <2>2. stop = Off
    BY <2>1 DEF ShutdownInv, Alive
  <2>3. /\ saving'["barrier"].pc = "Idle" /\ saving'["final"] = saving["final"]
        /\ saving' \in [Saver -> [pc: SaveState, image: Image]]
        /\ disk' = disk
    BY <2>1, Savers, TakeResultDoes DEF ShutdownInv
  <2>4. /\ barrier' \in Holds /\ barrier'.job = "None" /\ barrier'.thread = "None"
    BY <2>1 DEF NoHold, Holds, Thread, OtherJob
  <2>5. Typed' /\ Ordered'
    BY <2>1, <2>3, <2>4 DEF ShutdownInv, Typed, Ordered, Within, AtFinal, ChangeJob
  <2>6. Promised' /\ Alive' /\ Joined'
    BY <2>1, <2>2, <2>3, <2>4
       DEF ShutdownInv, Promised, Alive, Joined, AtFinal, ChangeJob, HandoffJob
  <2> QED BY <2>5, <2>6 DEF ShutdownInv
<1>3. CASE Exit
  <2>1. /\ life' = "Down" /\ core' = disk.image /\ saving' = [s \in Saver |-> NotSaving]
        /\ registry' = {} /\ sessions' = {} /\ barrier' = NoHold /\ stop' = Off
        /\ pump' = "Running" /\ pool' = "Idle" /\ jobs' = 0
        /\ UNCHANGED <<changes, disk, sink>>
    BY <1>3 DEF Exit
  <2>2. NotSaving \in [pc: SaveState, image: Image] /\ NotSaving.pc = "Idle"
    BY DEF NotSaving, SaveState, Image, EmptyImage
  <2>3. /\ barrier' \in Holds /\ barrier'.job = "None" /\ barrier'.thread = "None"
    BY <2>1 DEF NoHold, Holds, Thread, OtherJob
  <2>4. stop' \in Stops /\ stop'.pc = "Off"
    BY <2>1 DEF Off, Stops, StopState
  <2>5. Typed' /\ Ordered'
    BY <1>t, <2>1, <2>2, <2>3, <2>4, Savers
       DEF ShutdownInv, Typed, Ordered, Within, ChangeJob
  <2>6. Promised' /\ Alive' /\ Joined'
    BY <2>1, <2>2, <2>3, <2>4, Savers
       DEF ShutdownInv, Promised, Alive, Joined, AtFinal, ChangeJob, HandoffJob
  <2> QED BY <2>5, <2>6 DEF ShutdownInv
<1> QED BY <1>1, <1>2, <1>3

\* A save goes on, with the mutex or without it.
LEMMA SaveSteps ==
    ASSUME ShutdownInv, Files, NEW s \in Saver, SaveStep(s) PROVE ShutdownInv'
<1>1. /\ atomic_write_file(s)
      /\ UNCHANGED <<life, core, changes, registry, sessions, barrier, jobs, pump, pool, stop, sink>>
  BY DEF SaveStep
<1>2. /\ saving[s].pc # "Idle" /\ saving'[s].pc # "Idle"
      /\ saving'[s].image = saving[s].image
      /\ \A t \in Saver : t # s => saving'[t] = saving[t]
      /\ saving' \in [Saver -> [pc: SaveState, image: Image]]
      /\ \/ disk' = disk /\ saving'[s].pc # "Saved"
         \/ disk' = File(saving[s].image, {saving[s].image})
  BY <1>1, SaveGoesOn DEF ShutdownInv
<1>3. s = "barrier" \/ s = "final"
  BY ShutdownAssumption
<1>4. saving[s].image \in Image /\ core \in Image
  BY DEF ShutdownInv, Typed
<1>5. Typed'
  <2>1. File(saving[s].image, {saving[s].image}) \in Content
    BY <1>4 DEF File, Content
  <2>2. disk' \in Content
    BY <1>2, <2>1 DEF ShutdownInv, Typed
  <2> QED BY <1>1, <1>2, <2>2 DEF ShutdownInv, Typed
<1>6. Within(core, core)
  BY <1>4 DEF Within, Image
<1>7. s = "final" => AtFinal
  BY <1>2 DEF ShutdownInv, Joined, AtFinal
<1>8. Ordered' /\ Promised'
  BY <1>1, <1>2, <1>3, <1>6, <1>7, Savers
     DEF ShutdownInv, Ordered, Within, Promised, AtFinal, File, ChangeJob, HandoffJob
<1>9. Alive' /\ Joined'
  BY <1>1, <1>2, <1>3, Savers DEF ShutdownInv, Alive, Joined, AtFinal
<1> QED BY <1>5, <1>8, <1>9 DEF ShutdownInv

\* Connections, and steps that change nothing.
LEMMA ConnectionSteps ==
    ASSUME ShutdownInv,
           \/ \E c \in Conn : \/ acceptor_loop(c) \/ PeerSends(c) \/ PeerReads(c)
                              \/ PeerLeaves(c) \/ reader_loop(c) \/ writer_loop(c)
           \/ UNCHANGED vars
    PROVE  ShutdownInv'
<1>1. Quiet /\ barrier' = barrier
  BY DEF acceptor_loop, PeerSends, PeerReads, PeerLeaves, reader_loop, writer_loop,
         ConnectionStep, vars, Quiet, ShutdownInv, Typed
<1> QED BY <1>1, QuietSteps

\* The invariant holds at first.
LEMMA InvariantBegins ==
    Init => ShutdownInv
<1> SUFFICES ASSUME Init PROVE ShutdownInv
  OBVIOUS
<1>1. /\ EmptyImage \in Image /\ NotSaving \in [pc: SaveState, image: Image]
      /\ NotSaving.pc = "Idle" /\ Within(EmptyImage, EmptyImage)
  BY DEF EmptyImage, NotSaving, Image, SaveState, Within
<1>2. /\ NoHold \in Holds /\ NoHold.job = "None" /\ NoHold.thread = "None"
      /\ Off \in Stops /\ Off.pc = "Off"
  BY DEF NoHold, Holds, Thread, OtherJob, Off, Stops, StopState
<1>3. disk.image = EmptyImage /\ disk \in Content
      /\ saving = [s \in Saver |-> NotSaving]
  BY <1>1 DEF Init, StoreInit, File, Content
<1>4. Typed /\ Ordered
  BY <1>1, <1>2, <1>3, Savers DEF Init, Typed, Ordered, ChangeJob
<1>5. Promised /\ Alive /\ Joined
  BY <1>1, <1>2, <1>3, Savers DEF Init, Promised, Alive, Joined, ChangeJob, HandoffJob, AtFinal
<1> QED BY <1>4, <1>5 DEF ShutdownInv

\* Every step preserves it.
LEMMA StepKeepsInvariant ==
    ShutdownInv /\ Files /\ [Next]_vars => ShutdownInv'
<1> SUFFICES ASSUME ShutdownInv, Files, [Next]_vars PROVE ShutdownInv'
  OBVIOUS
<1>1. CASE \E c \in Conn : HandleFrame(c)
  BY <1>1, FrameSteps
<1>2. CASE \E c \in Conn, t \in {"reader", "writer", "pump", "shutdown"} : note_close(t, c)
  BY <1>2, NoteCloseKeeps
<1>3. CASE pump_loop \/ start_evaluations \/ \E c \in Conn : begin_dispatch(c)
  BY <1>3, PumpSteps
<1>4. CASE PoolStep \/ FinishEvaluation
  BY <1>4, PoolSteps
<1>5. CASE PersistRequest \/ submit \/ submit_fails \/ RecordReceipt \/ AnswerPromotion
  BY <1>5, HandoffSteps
<1>6. CASE FinishChange \/ FinishNoteClose
  BY <1>6, FinishChangeKeeps, FinishNoteCloseKeeps
<1>7. CASE \/ shutdown \/ StopAccepting \/ StopPump \/ persist_final \/ ListConnections
           \/ CloseConnection \/ CompleteShutdown
  BY <1>7, StopSteps
<1>8. CASE start \/ FinishStart \/ Exit
  BY <1>8, LifeSteps
<1>9. CASE \E s \in Saver : SaveStep(s)
  BY <1>9, SaveSteps
<1>10. CASE \/ \E c \in Conn : \/ acceptor_loop(c) \/ PeerSends(c) \/ PeerReads(c)
                               \/ PeerLeaves(c) \/ reader_loop(c) \/ writer_loop(c)
            \/ UNCHANGED vars
  BY <1>10, ConnectionSteps
<1> QED
  BY <1>1, <1>2, <1>3, <1>4, <1>5, <1>6, <1>7, <1>8, <1>9, <1>10
     DEF Next, ReaderStep, WriterStep, HolderStep, StopStep

\* A step that leaves the files alone, and no save half written that was not.
FilesUntouched ==
    /\ UNCHANGED <<disk, staging>>
    /\ \A s \in Saver : \/ saving'[s] = saving[s]
                        \/ saving'[s].pc \notin {"Created", "Written"}

\* Only a save that goes on changes a file.
LEMMA FilesChangeBySaves ==
    ASSUME Typed, [Next]_vars
    PROVE  FilesUntouched \/ Exit \/ \E s \in Saver : atomic_write_file(s)
<1>0. UNCHANGED storeVars => FilesUntouched
  BY DEF FilesUntouched
<1>1. \A s, i : BeginSave(s, i) => FilesUntouched
  BY DEF BeginSave, FilesUntouched, Typed
<1>2. \A s : TakeResult(s) => FilesUntouched
  BY DEF TakeResult, FilesUntouched, Typed, NotSaving
<1>3. ASSUME NEW c \in Conn,
             \/ acceptor_loop(c) \/ PeerSends(c) \/ PeerReads(c) \/ PeerLeaves(c)
             \/ reader_loop(c) \/ writer_loop(c)
      PROVE  FilesUntouched
  BY <1>0, <1>3 DEF acceptor_loop, PeerSends, PeerReads, PeerLeaves, reader_loop, writer_loop,
              ConnectionStep
<1>4. ASSUME NEW c \in Conn, HandleFrame(c) \/ begin_dispatch(c) PROVE FilesUntouched
  BY <1>0, <1>1, <1>4 DEF HandleFrame, HandleUnknown, protocol_violation, HandleUnchanged,
                    HandleChange, begin_dispatch, ChangeAndSave
<1>5. ASSUME NEW c \in Conn, NEW t, note_close(t, c) PROVE FilesUntouched
  BY <1>0, <1>1, <1>5 DEF note_close
<1>6. HolderStep => FilesUntouched
  BY <1>0, <1>1, <1>2 DEF HolderStep, FinishChange, PersistRequest, submit, submit_fails, RecordReceipt,
                    FilesUntouched, AnswerPromotion, FinishNoteClose, FinishEvaluation, FinishStart
<1>7. PoolStep \/ pump_loop \/ start_evaluations => FilesUntouched
  BY <1>0, <1>1 DEF PoolStep, pool_loop, run_evaluation, pump_loop, start_evaluations
<1>8. shutdown \/ StopAccepting \/ StopPump \/ persist_final \/ ListConnections \/ CloseConnection
        \/ CompleteShutdown => FilesUntouched
  BY <1>0, <1>1, <1>2 DEF shutdown, StopAccepting, StopPump, persist_final, ListConnections,
                    CloseConnection, CompleteShutdown, ShutdownStep
<1>9. start \/ UNCHANGED vars => FilesUntouched
  BY <1>0, <1>1 DEF start, vars
<1>10. ASSUME NEW s \in Saver, SaveStep(s) PROVE atomic_write_file(s)
  BY <1>10 DEF SaveStep
<1> QED BY <1>3, <1>4, <1>5, <1>6, <1>7, <1>8, <1>9, <1>10
           DEF Next, ReaderStep, WriterStep, StopStep

\* Every step keeps both: what holds of the threads, and what holds of the
\* files they write.
LEMMA EverythingHolds ==
    Spec => [](ShutdownInv /\ Files)
<1>1. Init => Files
  <2> SUFFICES ASSUME Init PROVE Files
    OBVIOUS
  <2>1. NoFile \in Content /\ Intact(File(EmptyImage, {EmptyImage})) /\ NotSaving.pc = "Idle"
    BY DEF NoFile, File, EmptyImage, Content, Image, Intact, NotSaving
  <2> QED BY <2>1 DEF Init, StoreInit, Files, SnapshotIsIntact, Staged
<1>2. ShutdownInv /\ Files /\ [Next]_vars => Files'
  <2> SUFFICES ASSUME ShutdownInv, Files, [Next]_vars PROVE Files'
    OBVIOUS
  <2>1. CASE FilesUntouched
    BY <2>1, FilesStay DEF FilesUntouched
  <2>2. ASSUME NEW s \in Saver, atomic_write_file(s) PROVE Files'
    BY <2>2, SaveGoesOn DEF ShutdownInv
  <2>3. CASE Exit
    <3>1. /\ disk' = disk /\ staging' = [s \in Saver |-> NoFile]
          /\ saving' = [s \in Saver |-> NotSaving]
      BY <2>3 DEF Exit
    <3>2. NoFile \in Content /\ NotSaving.pc = "Idle"
      BY DEF NoFile, File, EmptyImage, Content, Image, NotSaving
    <3> QED BY <3>1, <3>2 DEF Files, SnapshotIsIntact, Intact, Staged
  <2> QED BY <2>1, <2>2, <2>3, FilesChangeBySaves DEF ShutdownInv
<1> QED BY <1>1, <1>2, InvariantBegins, StepKeepsInvariant, PTL DEF Spec

-----------------------------------------------------------------------------
(* What the runs of Shutdown.cfg check, for every value of the constants. *)

\* Whatever fails, whenever the process is killed and however a save without
\* the mutex overlaps with one that has it, the file at the state path is one
\* image of one save, header and payload: what replaces it is a staging file
\* that no other save has written to and that was written to the end
\* (atomic_write_file, write_staging_file, replace_with_staging).
THEOREM DiskIsAlwaysIntact == Spec => []SnapshotIsIntact
<1>1. Files => SnapshotIsIntact
  BY DEF Files
<1> QED BY <1>1, EverythingHolds, PTL

\* The final snapshot has the evidence of every job that was queued: the pool
\* is joined before it is taken, and no thread that adds evidence is left
\* (shutdown(), pool_loop).
THEOREM FinalSnapshotIsComplete == Spec => []FinalHasAllEvidence
<1>1. ShutdownInv => FinalHasAllEvidence
  BY DEF ShutdownInv, Joined, FinalHasAllEvidence, AtFinal
<1> QED BY <1>1, EverythingHolds, PTL

\* Outside of the final save, what is on disk only gains: the mutex orders the
\* saves of requests, dispatches, disconnections and evaluations, each of the
\* core as it is (persist_or_err).
THEOREM SavesAreOrdered == Spec => SavesNeverGoBack
<1> DEFINE Step == \/ stop.pc = "Final"
                   \/ /\ disk.image.changes \subseteq disk'.image.changes
                      /\ disk.image.evidence <= disk'.image.evidence
<1>1. ASSUME ShutdownInv, Files, [Next]_vars PROVE Step
  <2>0. disk.image.evidence \in Nat
    BY <1>1 DEF ShutdownInv, Typed, Content, Image
  <2>1. CASE disk' = disk
    BY <2>0, <2>1
  <2>2. CASE atomic_write_file("final")
    BY <1>1, <2>2, Savers, SaveGoesOn DEF ShutdownInv, Joined
  <2>3. CASE atomic_write_file("barrier")
    <3>1. \/ disk' = disk
          \/ /\ disk' = File(saving["barrier"].image, {saving["barrier"].image})
             /\ saving["barrier"].pc # "Idle"
      BY <1>1, <2>3, Savers, SaveGoesOn DEF ShutdownInv
    <3>2. CASE /\ disk' = File(saving["barrier"].image, {saving["barrier"].image})
               /\ saving["barrier"].pc # "Idle"
      BY <1>1, <3>2 DEF ShutdownInv, Ordered, Within, File
    <3> QED BY <2>1, <3>1, <3>2
  <2> QED BY <1>1, <2>1, <2>2, <2>3, FilesChangeBySaves, ShutdownAssumption
         DEF ShutdownInv, FilesUntouched, Exit
<1> HIDE DEF Step
<1>2. [](ShutdownInv /\ Files) /\ [][Next]_vars => [][Step]_vars
  BY <1>1, PTL
<1>3. [][Step]_vars => SavesNeverGoBack
  BY PTL DEF Step, SavesNeverGoBack
<1> QED BY <1>2, <1>3, EverythingHolds, PTL DEF Spec

\* Only three steps tell anybody anything: the end of a handler, the handoff
\* of a promotion request, and the answer to one.
LEMMA WhoNotifies ==
    ASSUME [Next]_vars
    PROVE  \/ acknowledged' = acknowledged /\ sink'.requests = sink.requests
           \/ FinishChange \/ submit \/ AnswerPromotion
<1> DEFINE Silent == acknowledged' = acknowledged /\ sink'.requests = sink.requests
<1>1. ASSUME NEW c \in Conn,
             \/ acceptor_loop(c) \/ PeerSends(c) \/ PeerReads(c) \/ PeerLeaves(c)
             \/ reader_loop(c) \/ writer_loop(c)
      PROVE  Silent
  BY <1>1 DEF acceptor_loop, PeerSends, PeerReads, PeerLeaves, reader_loop, writer_loop,
              ConnectionStep
<1>2. ASSUME NEW c \in Conn, HandleFrame(c) \/ begin_dispatch(c) PROVE Silent
  BY <1>2 DEF HandleFrame, HandleUnknown, protocol_violation, HandleUnchanged,
              HandleChange, begin_dispatch
<1>3. ASSUME NEW c \in Conn, NEW t, note_close(t, c) PROVE Silent
  BY <1>3 DEF note_close
<1>4. PersistRequest \/ submit_fails \/ FinishNoteClose \/ FinishEvaluation \/ FinishStart => Silent
  BY DEF PersistRequest, submit_fails, FinishNoteClose, FinishEvaluation, FinishStart
<1>5. RecordReceipt => Silent
  <2> SUFFICES ASSUME RecordReceipt PROVE Silent
    OBVIOUS
  <2>1. CASE sink' = sink
    BY <2>1 DEF RecordReceipt
  <2>2. CASE sink' = [sink EXCEPT !.refused = @ \cup {barrier.change}]
    BY <2>2 DEF RecordReceipt
  <2> QED BY <2>1, <2>2 DEF RecordReceipt
<1>6. PoolStep \/ pump_loop \/ start_evaluations => Silent
  BY DEF PoolStep, pool_loop, run_evaluation, pump_loop, start_evaluations
<1>7. shutdown \/ StopAccepting \/ StopPump \/ persist_final \/ ListConnections \/ CloseConnection
        \/ CompleteShutdown => Silent
  BY DEF shutdown, StopAccepting, StopPump, persist_final, ListConnections, CloseConnection,
         CompleteShutdown, ShutdownStep
<1>8. start \/ Exit \/ UNCHANGED vars => Silent
  BY DEF start, Exit, vars
<1>9. ASSUME NEW s \in Saver, SaveStep(s) PROVE Silent
  BY <1>9 DEF SaveStep
<1> HIDE DEF Silent
<1>10. Silent \/ FinishChange \/ submit \/ AnswerPromotion
  BY <1>1, <1>2, <1>3, <1>4, <1>5, <1>6, <1>7, <1>8, <1>9
     DEF Next, ReaderStep, WriterStep, StopStep, HolderStep
<1> QED BY <1>10 DEF Silent

\* mutate -> persist -> notify: a reply, an assignment or a handoff is sent
\* only of a change that is in the image on disk, until shutdown() takes the
\* final snapshot (coordinator.cpp's handlers, persist_or_err, submit()).
THEOREM NobodyHearsTooEarly == Spec => NotifiedAfterPersist
<1> DEFINE Step == AtFinal \/ (acknowledged' \cup sink'.requests) \ (acknowledged \cup sink.requests)
                                \subseteq disk.image.changes
<1>1. ASSUME ShutdownInv, [Next]_vars PROVE Step
  <2>1. CASE acknowledged' = acknowledged /\ sink'.requests = sink.requests
    BY <2>1
  <2>2. CASE FinishChange \/ AnswerPromotion
    <3>1. /\ barrier.job \in ChangeJob \cup HandoffJob
          /\ sink' = sink
          /\ acknowledged' = IF saving["barrier"].pc = "Saved"
                             THEN acknowledged \cup {barrier.change} ELSE acknowledged
      BY <2>2 DEF FinishChange, AnswerPromotion, ChangeJob, HandoffJob
    <3>2. saving["barrier"].pc = "Saved" /\ ~AtFinal => barrier.change \in disk.image.changes
      BY <1>1, <3>1 DEF ShutdownInv, Ordered, Promised
    <3> QED BY <3>1, <3>2
  <2>3. CASE submit
    <3>1. /\ barrier.job \in HandoffJob
          /\ acknowledged' = acknowledged
          /\ sink'.requests \subseteq sink.requests \cup {barrier.change}
      BY <1>1, <2>3 DEF submit, HandoffJob, ShutdownInv, Typed
    <3>2. ~AtFinal => barrier.change \in disk.image.changes
      BY <1>1, <3>1 DEF ShutdownInv, Promised
    <3> QED BY <3>1, <3>2
  <2> QED BY <1>1, <2>1, <2>2, <2>3, WhoNotifies
<1> HIDE DEF Step
<1>2. [](ShutdownInv /\ Files) /\ [][Next]_vars => [][Step]_vars
  BY <1>1, PTL
<1>3. [][Step]_vars => NotifiedAfterPersist
  BY PTL DEF Step, NotifiedAfterPersist
<1> QED BY <1>2, <1>3, EverythingHolds, PTL DEF Spec
=============================================================================
