--------------------------- MODULE PublicationLedger ---------------------------
(***************************************************************************)
(* What the coordinator promises about the snapshot on disk, whatever      *)
(* happens to the process that writes it: an outcome is recorded once.  An *)
(* attempt that is recorded as over stays over, an output that is recorded *)
(* stays recorded, and an attempt that was over without an output gets     *)
(* none.  One snapshot may record any number of outcomes.                  *)
(***************************************************************************)
CONSTANT Attempt

VARIABLES
    over,       \* attempts on disk in a terminal state
    produced    \* attempts on disk whose output a candidate carries

Init == over = {} /\ produced = {}

Record ==
    \E o, p \in SUBSET Attempt :
        /\ over \subseteq o /\ produced \subseteq p
        /\ p \cap over = produced \cap over
        /\ over' = o /\ produced' = p

Spec == Init /\ [][Record]_<<over, produced>>
=============================================================================
