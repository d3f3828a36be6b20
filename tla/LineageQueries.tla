---------------------------- MODULE LineageQueries ----------------------------
(***************************************************************************)
(* What is asked of a LineageGraph that is in use: the ancestors of a      *)
(* candidate, its path to a root and its descendants (lineage.cpp), each a *)
(* walk upwards from node to node.  The graph does not change meanwhile:   *)
(* a query runs under the mutex of the core or on a copy; and as it was    *)
(* validated, every parent a walk comes to has a node.                     *)
(***************************************************************************)
EXTENDS LineageGraph

VARIABLES
    query,       \* "none", or the function that runs
    about,       \* the candidate it was asked about
    visited,     \* nodes the walk has been at
    frontier,    \* nodes it still has to go to
    entries,     \* descendants_of: the nodes whose chains are not walked yet,
    entry,       \* the one whose chain is walked,
    descended    \* and the ones that were found to descend from the candidate

queryVars == <<query, about, visited, frontier, entries, entry, descended>>
walkVars == <<visited, frontier>>
chainVars == <<entries, entry, descended>>

\* The walk goes on with the primary parent of c, if it has one.
Primary(c) == IF nodes[c].parents = <<>> THEN <<>> ELSE <<Head(nodes[c].parents)>>

Begin(function, c, first, others) ==
    /\ query = "none" /\ status = "serving" /\ c \in Known
    /\ query' = function /\ about' = c
    /\ visited' = <<>> /\ frontier' = first
    /\ entries' = others /\ entry' = c /\ descended' = {}
    /\ UNCHANGED graphVars

-----------------------------------------------------------------------------
(* Breadth first: nearest first, each level in the declared order of       *)
(* parents.  A level is what is in front in the frontier, the next one     *)
(* behind it.                                                              *)

ancestors_of(c) == Begin("ancestors_of", c, nodes[c].parents, {})

VisitAncestor ==
    LET current == Head(frontier)
        fresh == current # about /\ ~Contains(visited, current)
    IN
    /\ query = "ancestors_of" /\ frontier # <<>>
    /\ visited' = IF fresh THEN Append(visited, current) ELSE visited
    /\ frontier' = Tail(frontier) \o IF fresh THEN nodes[current].parents ELSE <<>>
    /\ UNCHANGED <<graphVars, query, about, chainVars>>

-----------------------------------------------------------------------------
(* The chain of primary parents; nothing when it comes back to itself or   *)
(* is longer than a lineage may be.                                        *)

path_to_root(c) == Begin("path_to_root", c, <<c>>, {})

ClimbPath ==
    LET current == Head(frontier)
        lost == Contains(visited, current) \/ Len(visited) >= kMaxLineageDepth + 1
    IN
    /\ query = "path_to_root" /\ frontier # <<>>
    /\ visited' = IF lost THEN <<>> ELSE Append(visited, current)
    /\ frontier' = IF lost THEN <<>> ELSE Primary(current)
    /\ UNCHANGED <<graphVars, query, about, chainVars>>

-----------------------------------------------------------------------------
(* The nodes whose primary chain goes through the candidate.  They are     *)
(* sorted in the end; the set of them and the order of the sort stand for  *)
(* the list.                                                               *)

descendants_of(c) == Begin("descendants_of", c, <<>>, Known \ {c})

NextEntry ==
    LET least == CHOOSE d \in entries : \A e \in entries : d <= e IN
    /\ query = "descendants_of" /\ frontier = <<>> /\ entries # {}
    /\ entry' = least /\ entries' = entries \ {least}
    /\ visited' = <<>> /\ frontier' = Primary(least)
    /\ UNCHANGED <<graphVars, query, about, descended>>

ClimbChain ==
    LET current == Head(frontier)
        over == current = about \/ Contains(visited, current)
    IN
    /\ query = "descendants_of" /\ frontier # <<>>
    /\ descended' = IF current = about THEN descended \cup {entry} ELSE descended
    /\ visited' = IF over THEN visited ELSE Append(visited, current)
    /\ frontier' = IF over THEN <<>> ELSE Primary(current)
    /\ UNCHANGED <<graphVars, query, about, entries, entry>>

\* Shallow ones first, then in the order of identities.
ListedBefore(d, e) ==
    \/ nodes[d].depth < nodes[e].depth
    \/ nodes[d].depth = nodes[e].depth /\ d < e

-----------------------------------------------------------------------------

\* The function has its answer, and returns it.
Answered == query # "none" /\ frontier = <<>> /\ entries = {}
Return ==
    /\ Answered
    /\ query' = "none" /\ about' = 0 /\ visited' = <<>> /\ frontier' = <<>>
    /\ entries' = {} /\ entry' = 0 /\ descended' = {}
    /\ UNCHANGED graphVars

NoQuery ==
    /\ query = "none" /\ about = 0 /\ visited = <<>> /\ frontier = <<>>
    /\ entries = {} /\ entry = 0 /\ descended = {}

QueryInit == GraphInit /\ NoQuery
QueryNext ==
    \/ query = "none" /\ GraphNext /\ UNCHANGED queryVars
    \/ \E c \in Candidate : ancestors_of(c) \/ path_to_root(c) \/ descendants_of(c)
    \/ VisitAncestor \/ ClimbPath \/ NextEntry \/ ClimbChain \/ Return

QuerySpec == QueryInit /\ [][QueryNext]_<<graphVars, queryVars>>

-----------------------------------------------------------------------------
(* What the answers are, without an algorithm. *)

\* The least set with the primary parent of c and those of all its members.
PrimaryAncestry(c) ==
    {a \in Known : \A S \in SUBSET Known :
        ToSet(Primary(c)) \subseteq S /\ (\A d \in S : ToSet(Primary(d)) \subseteq S) => a \in S}

\* The ancestors are the transitive parents, each once, direct parents first.
AncestorsAgree ==
    /\ IsInjective(visited) /\ ToSet(visited) = Ancestry(about)
    /\ \A i, j \in DOMAIN visited :
          i < j /\ visited[j] \in Parents(about) => visited[i] \in Parents(about)

\* A path, read backwards, leads from the candidate over primary parents to a
\* root, through each node once.
PathAgrees ==
    /\ visited # <<>> /\ visited[1] = about /\ Primary(Last(visited)) = <<>>
    /\ \A i \in 2..Len(visited) : Primary(visited[i - 1]) = <<visited[i]>>
    /\ IsInjective(visited)

\* The descendants have the candidate on their way up, and each is listed after
\* those it descends from itself.
DescendantsAgree ==
    /\ descended = {d \in Known : about \in PrimaryAncestry(d)}
    /\ \A d, e \in descended : d \in Ancestry(e) => ListedBefore(d, e)

\* Every answer agrees with the graph: of all ways up the ancestors are found,
\* each once and the nearest first; a path is never empty although it is cut
\* off at the greatest depth; and no descendant is missed although only the
\* primary chains are walked (LineageGraph::ancestors_of, path_to_root,
\* descendants_of; the ancestry of a promotion request is such a path).
QueriesAgree ==
    Answered =>
        /\ query = "ancestors_of" => AncestorsAgree
        /\ query = "path_to_root" => PathAgrees
        /\ query = "descendants_of" => DescendantsAgree
=============================================================================
