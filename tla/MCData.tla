-------------------------------- MODULE MCData --------------------------------
(***************************************************************************)
(* The data that crosses a process boundary: documents that are empty,     *)
(* sparse, nested two elements deep, crowded where readers are narrow, and *)
(* with more candidates than the wire's readers take (Codec), the frames   *)
(* they travel in (FrameStream), and lineage graphs, built or loaded       *)
(* (LineageGraph), with what is asked of them (LineageQueries).  The three *)
(* share no state; a behaviour is about one of them.                       *)
(***************************************************************************)
EXTENDS Codec, FrameStream, LineageQueries

Fill(e, t, n) ==
    [elements |-> e, text |-> t, null |-> n, counts |-> <<>>, lengths |-> <<>>]
\* As much evidence with as little in it, and as many closure blockers, as the
\* code may write and more than the snapshot's readers expect.
Crowded == [Fill(1, 64, TRUE) EXCEPT
              !.counts = [mandatory_evidence |-> 32, closure_blockers |-> 65],
              !.lengths = [evaluator_key |-> 1, evidence_digest |-> 0]]
\* One candidate more than the readers of the wire take; those of a snapshot
\* take as many as a population may have.
Populous == [Fill(0, 0, TRUE) EXCEPT !.counts = [candidates |-> 4097]]
MCFills ==
    {Fill(0, 0, TRUE), Fill(1, 3, FALSE), Fill(2, 0, TRUE), Fill(3, 1, FALSE), Crowded,
     Populous}
MCDamagedFills == {Fill(1, 3, FALSE), Fill(2, 0, TRUE)}

NoDocument ==
    /\ format = "none" /\ document = "none" /\ fill = "none" /\ todo = <<>> /\ cells = <<>>
    /\ damage = "none" /\ size = 0 /\ offset = 0 /\ taken = 0 /\ verdict = "none"
NoGraph == nodes = <<>> /\ status = "none" /\ colour = <<>> /\ stack = <<>> /\ NoQuery

NoStream ==
    /\ sequence = 0 /\ sent = <<>> /\ received = 0 /\ consumed = 0
    /\ delivered = <<>> /\ reader = "none"

\* A query reads neither lineages nor retirements: it is asked of one of the
\* graphs that differ only in these.
Plain ==
    \A c \in Known :
        nodes[c].retired = "no" /\ nodes[c].lineage = (CHOOSE l \in Lineage : TRUE)

DataInit ==
    \/ Init /\ (fill = Populous => format # "snapshot") /\ NoStream /\ NoGraph
    \/ NoDocument /\ StreamInit /\ NoGraph
    \/ NoDocument /\ NoStream /\ QueryInit
DataNext ==
    \/ Next /\ UNCHANGED <<streamVars, graphVars, queryVars>>
    \/ reader # "none" /\ StreamNext /\ UNCHANGED <<vars, graphVars, queryVars>>
    \/ /\ QueryNext /\ (query = "none" /\ query' # "none" => Plain)
       /\ UNCHANGED <<vars, streamVars>>
DataSpec == DataInit /\ [][DataNext]_<<vars, streamVars, graphVars, queryVars>>
=============================================================================
