----------------------------- MODULE LineageGraph -----------------------------
(***************************************************************************)
(* LineageGraph of lineage.cpp: the ancestry of candidates, which is only  *)
(* ever appended to.  A graph is built by insert() and retire(), or it     *)
(* comes out of a snapshot with restore() and is validated step by step    *)
(* before anybody queries it (LineageQueries).                             *)
(*                                                                         *)
(* Identities are numbers in their order; generations and epochs are left  *)
(* out, and a retirement is the reason that was given for it.              *)
(***************************************************************************)
EXTENDS Naturals, Sequences, SequencesExt

CONSTANTS
    Candidate,          \* identities, a set of numbers
    Stored,             \* the identities that have nodes in a snapshot
    Lineage,
    Reason,             \* reasons for a retirement
    MaxParents,         \* parents in a list, a bound (the code allows 8)
    MaxRetired,         \* retired nodes, a bound
    kMaxLineageDepth

ASSUME GraphAssumption ==
    /\ Candidate \subseteq Nat /\ Stored \subseteq Candidate /\ IsFiniteSet(Stored)
    /\ {MaxParents, MaxRetired, kMaxLineageDepth} \subseteq Nat
    /\ Lineage # {}

VARIABLES
    nodes,       \* candidate -> node
    status,      \* "serving", "references", "cycles", "depths", "refused" or "cyclic"
    colour,      \* find_cycle: 0 unvisited, 1 on the current path, 2 explored
    stack        \* find_cycle: nodes on the path, each with the parents it has left

graphVars == <<nodes, status, colour, stack>>

ParentLists == BoundedSeq(Candidate, MaxParents)
Node(lineage, parents, depth) ==
    [lineage |-> lineage, parents |-> parents, depth |-> depth, retired |-> "no"]
Known == DOMAIN nodes
Largest(S) == CHOOSE n \in S : \A k \in S : k <= n

\* A root has depth 0, a child one more than its deepest parent.
computed_depth(parents) ==
    IF parents = <<>> THEN 0
    ELSE 1 + Largest({0} \cup {nodes[p].depth : p \in ToSet(parents) \cap Known})

-----------------------------------------------------------------------------
(* Building. *)

\* Mutation of Insertable: the deepest node is one too deep.
insertable_one_deeper(c, node) ==
    /\ c \notin ToSet(node.parents) /\ c \notin Known
    /\ ToSet(node.parents) \subseteq Known
    /\ node.depth = computed_depth(node.parents)
    /\ node.depth <= kMaxLineageDepth + 1
    /\ node.parents # <<>> => node.lineage = nodes[node.parents[1]].lineage

\* A node that exists is refused, or ignored when it is the same.
Insertable(c, node) ==
    /\ c \notin ToSet(node.parents) /\ c \notin Known
    /\ ToSet(node.parents) \subseteq Known
    /\ node.depth = computed_depth(node.parents)
    /\ node.depth <= kMaxLineageDepth
    /\ node.parents # <<>> => node.lineage = nodes[node.parents[1]].lineage

\* Mutation of insert: a node that exists is replaced by a root.
insert_or_replace(c, node) ==
    /\ status = "serving"
    /\ Insertable(c, node) \/ (c \in Known /\ node.parents = <<>> /\ node.depth = 0)
    /\ nodes' = [d \in Known \cup {c} |-> IF d = c THEN node ELSE nodes[d]]
    /\ UNCHANGED <<status, colour, stack>>
insert(c, node) ==
    /\ status = "serving" /\ Insertable(c, node)
    /\ nodes' = [d \in Known \cup {c} |-> IF d = c THEN node ELSE nodes[d]]
    /\ UNCHANGED <<status, colour, stack>>

\* When a child can be made, and the child.
CanHaveChild(c, parents) ==
    /\ c \notin ToSet(parents) /\ ToSet(parents) \subseteq Known
    /\ parents # <<>> => \A p \in ToSet(parents) : nodes[p].depth < kMaxLineageDepth
\* Mutation of make_child: every child is of the lineage it was asked for.
child_of_any_lineage(parents, explicit_lineage) ==
    Node(explicit_lineage, parents,
         IF parents = <<>> THEN 0
         ELSE 1 + Largest({nodes[p].depth : p \in ToSet(parents)}))
make_child(parents, explicit_lineage) ==
    IF parents = <<>> THEN Node(explicit_lineage, <<>>, 0)
    ELSE Node(nodes[parents[1]].lineage, parents,
              1 + Largest({nodes[p].depth : p \in ToSet(parents)}))

\* The first retirement stays.
retire(c, reason) ==
    /\ status = "serving" /\ c \in Known /\ nodes[c].retired = "no"
    /\ Cardinality({d \in Known : nodes[d].retired # "no"}) < MaxRetired
    /\ nodes' = [nodes EXCEPT ![c].retired = reason]
    /\ UNCHANGED <<status, colour, stack>>

-----------------------------------------------------------------------------
(* Loading: any nodes may come out of a snapshot. *)

restore(image) ==
    /\ nodes = image /\ status = "references"
    /\ colour = [c \in DOMAIN image |-> 0] /\ stack = <<>>

ReferencesHold ==
    \A c \in Known : /\ c \notin ToSet(nodes[c].parents)
                     /\ ToSet(nodes[c].parents) \subseteq Known
ValidateReferences ==
    /\ status = "references"
    /\ status' = IF ReferencesHold THEN "cycles" ELSE "refused"
    /\ UNCHANGED <<nodes, colour, stack>>

\* find_cycle: depth first, from the unvisited nodes in the order of their
\* identities, along the parents in their order.
Visit(c) == [node |-> c, left |-> nodes[c].parents]
Top == stack[Len(stack)]
StartAtRoot ==
    LET unvisited == {c \in Known : colour[c] = 0}
        root == CHOOSE c \in unvisited : \A d \in unvisited : c <= d
    IN
    /\ status = "cycles" /\ stack = <<>> /\ unvisited # {}
    /\ stack' = <<Visit(root)>> /\ colour' = [colour EXCEPT ![root] = 1]
    /\ UNCHANGED <<nodes, status>>
\* Mutation of FollowParent: a node that was explored before closes a cycle.
FollowToExplored ==
    LET parent == Head(Top.left)
        rest == [stack EXCEPT ![Len(stack)].left = Tail(@)]
    IN
    /\ status = "cycles" /\ stack # <<>> /\ Top.left # <<>>
    /\ status' = IF colour[parent] # 0 THEN "cyclic" ELSE status
    /\ stack' = IF colour[parent] = 0 THEN Append(rest, Visit(parent)) ELSE rest
    /\ colour' = IF colour[parent] = 0 THEN [colour EXCEPT ![parent] = 1] ELSE colour
    /\ UNCHANGED nodes
FollowParent ==
    LET parent == Head(Top.left)
        rest == [stack EXCEPT ![Len(stack)].left = Tail(@)]
    IN
    /\ status = "cycles" /\ stack # <<>> /\ Top.left # <<>>
    /\ status' = IF colour[parent] = 1 THEN "cyclic" ELSE status
    /\ stack' = IF colour[parent] = 0 THEN Append(rest, Visit(parent)) ELSE rest
    /\ colour' = IF colour[parent] = 0 THEN [colour EXCEPT ![parent] = 1] ELSE colour
    /\ UNCHANGED nodes
LeaveNode ==
    /\ status = "cycles" /\ stack # <<>> /\ Top.left = <<>>
    /\ colour' = [colour EXCEPT ![Top.node] = 2] /\ stack' = Front(stack)
    /\ UNCHANGED <<nodes, status>>
NoCycle ==
    /\ status = "cycles" /\ stack = <<>> /\ \A c \in Known : colour[c] # 0
    /\ status' = "depths"
    /\ UNCHANGED <<nodes, colour, stack>>

\* The lineage identity of a child is not compared with its parent's here.
DepthsHold ==
    \A c \in Known : /\ nodes[c].depth = computed_depth(nodes[c].parents)
                     /\ nodes[c].depth <= kMaxLineageDepth
ValidateDepths ==
    /\ status = "depths"
    /\ status' = IF DepthsHold THEN "serving" ELSE "refused"
    /\ colour' = [c \in {} |-> 0] /\ stack' = <<>>
    /\ UNCHANGED nodes

-----------------------------------------------------------------------------

\* A foundry starts with no nodes, or with what its snapshot holds.
GraphInit ==
    \/ /\ nodes = [c \in {} |-> 0] /\ status = "serving"
       /\ colour = [c \in {} |-> 0] /\ stack = <<>>
    \/ \E parents \in [Stored -> ParentLists],
          depth \in [Stored -> 0..(kMaxLineageDepth + 1)] :
          restore([c \in Stored |-> Node(CHOOSE l \in Lineage : TRUE, parents[c], depth[c])])

GraphNext ==
    \/ /\ status = "serving"
       /\ \E c \in Candidate, lineage \in Lineage, parents \in ParentLists :
          \E depth \in 0..(kMaxLineageDepth + 1) : insert(c, Node(lineage, parents, depth))
    \/ \E c \in Candidate, reason \in Reason : retire(c, reason)
    \/ ValidateReferences \/ StartAtRoot \/ FollowParent \/ LeaveNode \/ NoCycle
    \/ ValidateDepths

GraphSpec == GraphInit /\ [][GraphNext]_graphVars

-----------------------------------------------------------------------------
(* What a graph is, without an algorithm. *)

Parents(c) == ToSet(nodes[c].parents)
\* The least set with the parents of c and the parents of all its members.
Ancestry(c) ==
    {a \in Known : \A S \in SUBSET Known :
        Parents(c) \subseteq S /\ (\A d \in S : Parents(d) \subseteq S) => a \in S}
\* The longest chain of ancestors.
Height(c) ==
    Largest({Cardinality(S) : S \in {S \in SUBSET Ancestry(c) :
        \A a, b \in S : a = b \/ a \in Ancestry(b) \/ b \in Ancestry(a)}})
Acyclic == \A c \in Known : c \notin Ancestry(c)
WellFormed ==
    /\ ReferencesHold /\ Acyclic
    /\ \A c \in Known : nodes[c].depth = Height(c) /\ nodes[c].depth <= kMaxLineageDepth

\* validate() decides exactly: a graph that is used, built or loaded, has only
\* known parents, no cycle, and depths that are the longest ways to a root;
\* a graph that is refused lacks one of these, and it is called cyclic only
\* if a node is its own ancestor (LineageGraph::insert, validate, find_cycle).
ValidationDecides ==
    /\ status = "serving" => WellFormed
    /\ status = "refused" => ~WellFormed
    /\ status = "cyclic" => ~Acyclic
    /\ status = "depths" => Acyclic

\* A child that make_child builds is one that insert accepts: lineage, depth
\* and depth bound are computed by the one as they are checked by the other.
MadeChildIsAccepted ==
    status = "serving" =>
        \A c \in Candidate \ Known, parents \in ParentLists, lineage \in Lineage :
            CanHaveChild(c, parents) => Insertable(c, make_child(parents, lineage))

\* The history of a candidate is never rewritten: whatever is inserted or
\* retired later, it keeps its parents in their order, its ancestors and the
\* reason for its retirement, which is all that queries read of it
\* (LineageGraph::insert, LineageGraph::retire).
HistoryIsFinal ==
    [][status = "serving" => \A c \in Known :
          /\ c \in Known' /\ nodes'[c].parents = nodes[c].parents
          /\ Ancestry(c)' = Ancestry(c)
          /\ nodes[c].retired # "no" => nodes'[c].retired = nodes[c].retired]_graphVars
=============================================================================
