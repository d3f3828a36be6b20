------------------------------ MODULE CodecProofs ------------------------------
(***************************************************************************)
(* Every document that crosses a process boundary or a restart is read as  *)
(* it was written, however it is filled, and no damaged one is accepted.   *)
(*                                                                         *)
(* First the formats: of every message and record, writer and reader are   *)
(* shown to agree on the kinds and names of all fields in order, down to   *)
(* the elements of lists, and every list's least size and ceiling is       *)
(* compared with what an element takes and a record may hold.  Then the    *)
(* course of a document: what the reader takes is, field by field, what    *)
(* the writer left there, until a damaged field stops it.                  *)
(***************************************************************************)
EXTENDS Codec, SequenceTheorems, TLAPS

-----------------------------------------------------------------------------
(* Layouts that agree. *)

\* A reader with this ceiling has room for every legal list of this name, unless
\* it is one of the short ones.
Roomy(name, ceiling) ==
    \/ ceiling >= AtMost(name)
    \/ name = "closure_blockers" /\ ceiling = Snapshot!kMaxClosureBlockers
    \/ name \in OfCandidates \cup OfTheRun /\ ceiling = Wire!kMaxProtocolElements

\* The lists of candidates that a snapshot holds.
IdLists == {"candidates", "parents", "retained", "retired", "ancestry"}

\* What the limits are, for the provers.
LEMMA Limits ==
    /\ \A name : AtMost(name) \in Nat /\ 16 <= AtMost(name)
    /\ AtMost("factors") = 16 /\ AtMost("required_outputs") = 16
    /\ AtMost("inputs") = 32 /\ AtMost("requirements") = 32
    /\ AtMost("hard_constraints") = 32 /\ AtMost("closure_criteria") = 32
    /\ AtMost("mandatory_evidence") = 32
    /\ AtMost("outstanding_requirements") = 34 /\ AtMost("artifacts") = 64
    /\ AtMost("ranking") = 100000 /\ AtMost("excluded") = 100000
    /\ AtMost("entries") = 100000
    /\ \A name \in IdLists : AtMost(name) <= 100000
  BY DEF AtMost, OfCandidates, OfTheRun, IdLists, LongestLineage,
         kMaxSnapshotRecordsPerKind, Snapshot!kMaxCandidatesPerPopulation,
         Snapshot!kMaxRankingFactors, Snapshot!kMaxRequiredOutputs,
         Snapshot!kMaxInputFiles, Snapshot!kMaxConstraints,
         Snapshot!kMaxEvaluationRequirements, Snapshot!kMaxArtifactsPerCandidate

\* The lists of the wire all have room, or are short.
LEMMA WireIsRoomy == \A name : Roomy(name, Wire!kMaxProtocolElements)
  BY DEF Roomy, AtMost, OfCandidates, OfTheRun, LongestLineage, Wire!kMaxProtocolElements,
         Snapshot!kMaxRankingFactors, Snapshot!kMaxRequiredOutputs,
         Snapshot!kMaxInputFiles, Snapshot!kMaxConstraints,
         Snapshot!kMaxEvaluationRequirements, Snapshot!kMaxArtifactsPerCandidate

\* The fields of the writers, and of the readers, in a set of pairs.
Lefts(P) == {p[1] : p \in P}
Rights(P) == {p[2] : p \in P}

\* Field by field, the layouts w and r are pairs of P.
Zipped(P, w, r) ==
    /\ w \in Seq({p[1] : p \in P}) /\ r \in Seq({p[2] : p \in P})
    /\ Len(w) = Len(r)
    /\ \A i \in 1..Len(w) : <<w[i], r[i]>> \in P

\* What a field takes, a string its length only.
Bytes(field) == FixedWidth[Kind(field)]

\* s counts, up to each field of the layout, bytes that are certainly there.
Mounts(s, layout, bytes) ==
    /\ s \in [0..Len(layout) -> Nat]
    /\ s[0] = 0 /\ s[Len(layout)] = bytes
    /\ \A i \in 1..Len(layout) :
          Bytes(layout[i]) \in Nat /\ s[i] <= s[i - 1] + Bytes(layout[i])

\* The layout takes at least so many bytes, whatever is in its strings and lists.
Weighs(layout, bytes) ==
    /\ Len(layout) \in Nat /\ DOMAIN layout = 1..Len(layout)
    /\ \E s : Mounts(s, layout, bytes)

\* A list and its reader: their elements agree, and unless the reader is one of
\* the narrow ones, it has room for what a writer puts there and demands no more
\* bytes than an element takes.
ListsMatch(P, w, r) ==
    /\ Least(r) \in Nat /\ Least(r) >= 4
    /\ Ceiling(r) \in Nat
    /\ Zipped(P, Element(w), Element(r))
    /\ Short(r) \/ Ceiling(r) >= AtMost(Name(r))
    /\ Thin(r) \/ Weighs(Element(w), Least(r))

\* Pairs of fields of a writer and a reader with one kind and one name; pairs of
\* lists match, with elements that are pairs of P again.
Sound(P) ==
    \A p \in P :
        /\ p = <<p[1], p[2]>>
        /\ Kind(p[1]) \in DOMAIN FixedWidth
        /\ Kind(p[2]) = Kind(p[1]) /\ Name(p[2]) = Name(p[1])
        /\ Kind(p[1]) = "list" => ListsMatch(P, p[1], p[2])

\* A layout of a writer and one of a reader describe the same bytes.
Agrees(w, r) == \E P : Sound(P) /\ Zipped(P, w, r)

\* More pairs do not matter.
LEMMA ZippedSub ==
    ASSUME NEW P, NEW Q, P \subseteq Q, NEW w, NEW r, Zipped(P, w, r)
    PROVE  Zipped(Q, w, r)
  BY DEF Zipped

\* Two sound sets of pairs make one.
LEMMA SoundUnion ==
    ASSUME NEW P, NEW Q, Sound(P), Sound(Q) PROVE Sound(P \cup Q)
  <1> SUFFICES ASSUME NEW p \in P \cup Q
        PROVE /\ p = <<p[1], p[2]>>
              /\ Kind(p[1]) \in DOMAIN FixedWidth
              /\ Kind(p[2]) = Kind(p[1]) /\ Name(p[2]) = Name(p[1])
              /\ Kind(p[1]) = "list" => ListsMatch(P \cup Q, p[1], p[2])
    BY DEF Sound
  <1>1. CASE p \in P
    <2>1. ListsMatch(P, p[1], p[2]) => ListsMatch(P \cup Q, p[1], p[2])
      BY ZippedSub DEF ListsMatch
    <2> QED BY <1>1, <2>1 DEF Sound
  <1>2. CASE p \in Q
    <2>1. ListsMatch(Q, p[1], p[2]) => ListsMatch(P \cup Q, p[1], p[2])
      BY ZippedSub DEF ListsMatch
    <2> QED BY <1>2, <2>1 DEF Sound
  <1> QED BY <1>1, <1>2

\* Layouts behind each other agree if the parts do.
LEMMA ZippedConcat ==
    ASSUME NEW P, NEW w, NEW r, NEW x, NEW y, Zipped(P, w, r), Zipped(P, x, y)
    PROVE  Zipped(P, w \o x, r \o y)
  <1>1. w \in Seq(Lefts(P)) /\ x \in Seq(Lefts(P)) /\ r \in Seq(Rights(P)) /\ y \in Seq(Rights(P))
        /\ Len(w) = Len(r) /\ Len(x) = Len(y)
        /\ (\A i \in 1..Len(w) : <<w[i], r[i]>> \in P)
        /\ (\A i \in 1..Len(x) : <<x[i], y[i]>> \in P)
    BY DEF Zipped, Lefts, Rights
  <1>2. w \o x \in Seq(Lefts(P)) /\ r \o y \in Seq(Rights(P))
        /\ Len(w \o x) = Len(w) + Len(x) /\ Len(r \o y) = Len(r) + Len(y)
    BY <1>1, ConcatProperties
  <1>3. \A i \in 1..Len(w \o x) : <<(w \o x)[i], (r \o y)[i]>> \in P
    BY <1>1
  <1> QED BY <1>1, <1>2, <1>3 DEF Zipped, Lefts, Rights

\* Writers and readers that call the same parts in the same order agree.
LEMMA AgreesConcat ==
    \A w, r, x, y : Agrees(w, r) /\ Agrees(x, y) => Agrees(w \o x, r \o y)
  <1> SUFFICES ASSUME NEW w, NEW r, NEW x, NEW y, Agrees(w, r), Agrees(x, y)
               PROVE  Agrees(w \o x, r \o y)
    OBVIOUS
  <1>1. PICK P : Sound(P) /\ Zipped(P, w, r)
    BY DEF Agrees
  <1>2. PICK Q : Sound(Q) /\ Zipped(Q, x, y)
    BY DEF Agrees
  <1>3. Sound(P \cup Q) /\ Zipped(P \cup Q, w, r) /\ Zipped(P \cup Q, x, y)
    BY <1>1, <1>2, SoundUnion, ZippedSub
  <1>4. PICK U : Sound(U) /\ Zipped(U, w, r) /\ Zipped(U, x, y)
    BY <1>3
  <1> QED BY <1>4, ZippedConcat DEF Agrees

\* A sequence, of whatever elements.
Listing(names) == Len(names) \in Nat /\ DOMAIN names = 1..Len(names)

\* A list agrees with its reader if their elements do.
LEMMA AgreesList ==
    ASSUME NEW name, NEW least \in Nat, least >= 4, NEW ceiling \in Nat,
           NEW w, NEW r, Agrees(w, r),
           Roomy(name, ceiling),
           Thin(<<"list", name, least, ceiling, r>>) \/ Weighs(w, least)
    PROVE  Agrees(Many(name, w), List(name, least, ceiling, r))
  <1>1. PICK P : Sound(P) /\ Zipped(P, w, r)
    BY DEF Agrees
  <1> DEFINE f == <<"list", name, 0, 0, w>>
             g == <<"list", name, least, ceiling, r>>
             U == P \cup {<<f, g>>}
  <1>2. Zipped(U, w, r)
    BY <1>1, ZippedSub
  <1>3. ListsMatch(U, f, g)
    <2>1. /\ Least(g) = least /\ Ceiling(g) = ceiling /\ Name(g) = name
          /\ Element(f) = w /\ Element(g) = r
      BY DEF Least, Ceiling, Element, Name
    <2>2. Thin(g) \/ Weighs(w, least)
      OBVIOUS
    <2>3. Short(g) \/ ceiling >= AtMost(name)
      BY <2>1 DEF Short, Roomy
    <2> HIDE DEF f, g, U
    <2> QED BY <1>2, <2>1, <2>2, <2>3 DEF ListsMatch
  <1>4. Sound(U)
    <2> SUFFICES ASSUME NEW p \in U
        PROVE /\ p = <<p[1], p[2]>>
              /\ Kind(p[1]) \in DOMAIN FixedWidth
              /\ Kind(p[2]) = Kind(p[1]) /\ Name(p[2]) = Name(p[1])
              /\ Kind(p[1]) = "list" => ListsMatch(U, p[1], p[2])
      BY DEF Sound
    <2>1. CASE p \in P
      <3>1. ListsMatch(P, p[1], p[2]) => ListsMatch(U, p[1], p[2])
        BY ZippedSub DEF ListsMatch
      <3> QED BY <1>1, <2>1, <3>1 DEF Sound
    <2>2. CASE p = <<f, g>>
      <3>1. p[1] = f /\ p[2] = g
        BY <2>2
      <3>2. Kind(f) = "list" /\ Kind(g) = "list" /\ Name(f) = name /\ Name(g) = name
        BY DEF Kind, Name
      <3>3. "list" \in DOMAIN FixedWidth
        BY DEF FixedWidth
      <3> HIDE DEF f, g
      <3> QED BY <2>2, <3>1, <3>2, <3>3, <1>3
    <2> QED BY <2>1, <2>2
  <1>5. Zipped(U, <<f>>, <<g>>)
    <2> DEFINE F == {p[1] : p \in U}
               G == {p[2] : p \in U}
    <2>1. <<f, g>> \in U
      OBVIOUS
    <2>2. f \in F /\ g \in G
      <3> HIDE DEF f, g
      <3>1. <<f, g>>[1] \in F /\ <<f, g>>[2] \in G
        BY <2>1
      <3> QED BY <3>1
    <2> HIDE DEF F, G, f, g, U
    <2>3. <<f>> \in Seq(F) /\ <<g>> \in Seq(G) /\ Len(<<f>>) = Len(<<g>>)
      BY <2>2
    <2>4. \A i \in 1..Len(<<f>>) : <<(<<f>>)[i], (<<g>>)[i]>> \in U
      BY <2>1
    <2> QED BY <2>3, <2>4 DEF Zipped, F, G
  <1> QED BY <1>4, <1>5 DEF Agrees, Many, List

\* Weights add up.
LEMMA WeighsConcat ==
    ASSUME NEW S, NEW a \in Seq(S), NEW b \in Seq(S), NEW x, NEW y,
           Weighs(a, x), Weighs(b, y)
    PROVE  Weighs(a \o b, x + y)
  <1>1. PICK s : Mounts(s, a, x)
    BY DEF Weighs
  <1>2. PICK t : Mounts(t, b, y)
    BY DEF Weighs
  <1> DEFINE n == Len(a)
             m == Len(b)
             c == a \o b
             u == [i \in 0..(n + m) |-> IF i <= n THEN s[i] ELSE x + t[i - n]]
  <1>3. n \in Nat /\ m \in Nat /\ x \in Nat /\ y \in Nat
    <2>1. n \in Nat /\ m \in Nat
      OBVIOUS
    <2>2. x = s[n] /\ s \in [0..n -> Nat] /\ y = t[m] /\ t \in [0..m -> Nat]
      BY <1>1, <1>2 DEF Mounts
    <2> HIDE DEF n, m
    <2> QED BY <2>1, <2>2
  <1>4. /\ Len(c) = n + m /\ DOMAIN c = 1..(n + m)
        /\ \A i \in 1..(n + m) : c[i] = IF i <= n THEN a[i] ELSE b[i - n]
    <2>1. c \in Seq(S)
      BY ConcatProperties
    <2> QED BY <2>1, ConcatProperties
  <1> HIDE DEF c, n, m
  <1>5. u \in [0..(n + m) -> Nat] /\ u[0] = 0 /\ u[n + m] = x + y
    BY <1>1, <1>2, <1>3 DEF Mounts, n, m
  <1>6. \A i \in 1..(n + m) : Bytes(c[i]) \in Nat /\ u[i] <= u[i - 1] + Bytes(c[i])
    <2> SUFFICES ASSUME NEW i \in 1..(n + m)
                 PROVE  Bytes(c[i]) \in Nat /\ u[i] <= u[i - 1] + Bytes(c[i])
      OBVIOUS
    <2>1. CASE i <= n
      <3>1. c[i] = a[i] /\ u[i] = s[i] /\ u[i - 1] = s[i - 1] /\ i \in 1..n
        BY <2>1, <1>3, <1>4
      <3> HIDE DEF u
      <3> QED BY <3>1, <1>1 DEF Mounts, n
    <2>2. CASE i = n + 1
      <3>1. c[i] = b[1] /\ u[i] = x + t[1] /\ u[i - 1] = s[n] /\ 1 \in 1..m
        BY <2>2, <1>3, <1>4
      <3>2. t[1] <= t[0] + Bytes(b[1]) /\ t[1] \in Nat /\ Bytes(b[1]) \in Nat /\ t[0] = 0
        BY <3>1, <1>2 DEF Mounts, m
      <3>3. s[n] = x
        BY <1>1 DEF Mounts, n
      <3> HIDE DEF u
      <3> QED BY <3>1, <3>2, <3>3, <1>3
    <2>3. CASE i > n + 1
      <3> DEFINE j == i - n
      <3>1. c[i] = b[j] /\ u[i] = x + t[j] /\ u[i - 1] = x + t[j - 1] /\ j \in 1..m
        BY <2>3, <1>3, <1>4
      <3>2. j \in 0..m /\ j - 1 \in 0..m
        BY <3>1, <1>3
      <3>3. t[j] <= t[j - 1] + Bytes(b[j]) /\ Bytes(b[j]) \in Nat
        BY <3>1, <1>2 DEF Mounts, m
      <3>4. t[j] \in Nat /\ t[j - 1] \in Nat
        BY <3>2, <1>2 DEF Mounts, m
      <3> HIDE DEF u, j
      <3> QED BY <3>1, <3>3, <3>4, <1>3
    <2> QED BY <2>1, <2>2, <2>3, <1>3
  <1>7. Mounts(u, c, x + y)
    <2> HIDE DEF u
    <2> QED BY <1>3, <1>4, <1>5, <1>6 DEF Mounts
  <1>8. Len(c) \in Nat /\ DOMAIN c = 1..Len(c)
    BY <1>3, <1>4
  <1> QED BY <1>7, <1>8 DEF Weighs, c

\* What takes so many bytes takes fewer.
LEMMA WeighsLess ==
    ASSUME NEW l, NEW x, Weighs(l, x), NEW y \in Nat, y <= x
    PROVE  Weighs(l, y)
  <1>1. PICK s : Mounts(s, l, x)
    BY DEF Weighs
  <1>2. Len(l) \in Nat /\ DOMAIN l = 1..Len(l)
    BY DEF Weighs
  <1> DEFINE n == Len(l)
             u == [i \in 0..n |-> IF s[i] <= y THEN s[i] ELSE y]
  <1> HIDE DEF n
  <1>3. u \in [0..n -> Nat] /\ u[0] = 0 /\ u[n] = y
    BY <1>1, <1>2 DEF Mounts, n
  <1>4. \A i \in 1..n : Bytes(l[i]) \in Nat /\ u[i] <= u[i - 1] + Bytes(l[i])
    <2> TAKE i \in 1..n
    <2>1. i \in 0..n /\ i - 1 \in 0..n
      BY <1>2 DEF n
    <2>2. s[i] <= s[i - 1] + Bytes(l[i]) /\ Bytes(l[i]) \in Nat
      BY <1>1 DEF Mounts, n
    <2>3. s[i] \in Nat /\ s[i - 1] \in Nat
      BY <2>1, <1>1 DEF Mounts, n
    <2>4. /\ u[i] = IF s[i] <= y THEN s[i] ELSE y
          /\ u[i - 1] = IF s[i - 1] <= y THEN s[i - 1] ELSE y
      BY <2>1
    <2> HIDE DEF u
    <2> QED BY <2>2, <2>3, <2>4
  <1>5. Mounts(u, l, y)
    <2> HIDE DEF u
    <2> QED BY <1>3, <1>4 DEF Mounts, n
  <1> QED BY <1>2, <1>5 DEF Weighs

\* Fields of one kind take so many times its width.
LEMMA FieldsWeigh ==
    ASSUME NEW kind \in DOMAIN FixedWidth, NEW names, Listing(names)
    PROVE  Weighs(Fields(kind, names), FixedWidth[kind] * Len(names))
  <1> DEFINE n == Len(names)
             v == FixedWidth[kind]
             l == Fields(kind, names)
             s == [i \in 0..n |-> v * i]
  <1>1. n \in Nat /\ v \in Nat
    BY DEF Listing, FixedWidth
  <1>2. l = [i \in 1..n |-> <<kind, names[i]>>]
    BY DEF Fields, Listing
  <1>3. Len(l) = n /\ DOMAIN l = 1..n /\ \A i \in 1..n : Bytes(l[i]) = v
    <2> HIDE DEF n, l
    <2>1. \A i \in 1..n : l[i] = <<kind, names[i]>> /\ DOMAIN l = 1..n
      BY <1>2
    <2>2. \A i \in 1..n : Bytes(l[i]) = v
      BY <2>1 DEF Bytes, Kind
    <2>3. l \in Seq({<<kind, names[i]>> : i \in 1..n})
      <3>1. l \in [1..n -> {<<kind, names[i]>> : i \in 1..n}]
        BY <1>2
      <3> QED BY <3>1, <1>1
    <2> QED BY <2>2, <2>3, <1>1, <1>2
  <1> HIDE DEF n, v, l
  <1>4. s \in [0..n -> Nat] /\ s[0] = 0 /\ s[n] = v * n
    BY <1>1
  <1>5. \A i \in 1..n : s[i] <= s[i - 1] + v
    BY <1>1
  <1> HIDE DEF s
  <1>6. Mounts(s, l, v * n)
    BY <1>1, <1>3, <1>4, <1>5 DEF Mounts
  <1>7. Weighs(l, v * n)
    BY <1>1, <1>3, <1>6 DEF Weighs
  <1> QED BY <1>7 DEF l, v, n

LEMMA Quotient ==
    ASSUME NEW L \in Nat, L > 0, NEW a \in Nat
    PROVE  /\ a \div L \in Nat /\ a % L \in 0..(L - 1)
           /\ a = L * (a \div L) + (a % L)
  OBVIOUS

\* Quotient and remainder by a positive number.
LEMMA QuotientIs ==
    ASSUME NEW L \in Nat, L > 0, NEW q \in Nat, NEW m \in Nat, m < L
    PROVE  /\ (L * q + m) \div L = q
           /\ (L * q + m) % L = m
  <1> DEFINE a == L * q + m
             p == a \div L
             k == a % L
  <1>1. a \in Nat /\ p \in Nat /\ k \in 0..(L - 1) /\ a = L * p + k
    <2>1. a \in Nat OBVIOUS
    <2> QED BY <2>1, Quotient
  <1>2. L * q + m = L * p + k
    BY <1>1
  <1> HIDE DEF p, k, a
  <1>3. ~(p < q)
    <2> SUFFICES ASSUME p < q PROVE FALSE
      OBVIOUS
    <2>1. PICK d \in Nat : q = p + 1 + d
      <3>1. q - p - 1 \in Nat /\ q = p + 1 + (q - p - 1)
        BY <1>1
      <3> QED BY <3>1
    <2>2. L * q = L * p + L + L * d
      BY <2>1, <1>1
    <2>3. L * d \in Nat /\ L * p \in Nat
      BY <1>1, <2>1
    <2> QED BY <1>1, <1>2, <2>2, <2>3
  <1>4. ~(q < p)
    <2> SUFFICES ASSUME q < p PROVE FALSE
      OBVIOUS
    <2>1. PICK d \in Nat : p = q + 1 + d
      <3>1. p - q - 1 \in Nat /\ p = q + 1 + (p - q - 1)
        BY <1>1
      <3> QED BY <3>1
    <2>2. L * p = L * q + L + L * d
      BY <2>1, <1>1
    <2>3. L * d \in Nat /\ L * q \in Nat
      BY <1>1, <2>1
    <2> QED BY <1>1, <1>2, <2>2, <2>3
  <1>5. p = q
    BY <1>1, <1>3, <1>4
  <1>6. k = m
    <2>1. L * p \in Nat /\ L * q = L * p
      BY <1>5, <1>1
    <2> QED BY <2>1, <1>1, <1>2
  <1> QED BY <1>5, <1>6 DEF p, k, a

\* What a repeated layout has at each place.
LEMMA RepeatIs ==
    ASSUME NEW S, NEW l \in Seq(S), NEW n \in Nat
    PROVE  /\ Repeat(n, l) \in Seq(S) /\ Len(Repeat(n, l)) = n * Len(l)
           /\ n * Len(l) \in Nat
           /\ \A i \in 1..(n * Len(l)) :
                 /\ ((i - 1) % Len(l)) + 1 \in 1..Len(l)
                 /\ Repeat(n, l)[i] = l[((i - 1) % Len(l)) + 1]
  <1> DEFINE k == n * Len(l)
             R == [i \in 1..k |-> l[((i - 1) % Len(l)) + 1]]
  <1>1. k \in Nat /\ Len(l) \in Nat
    OBVIOUS
  <1>2. \A i \in 1..k : ((i - 1) % Len(l)) + 1 \in 1..Len(l)
    <2> TAKE i \in 1..k
    <2>1. Len(l) > 0
      <3>1. CASE Len(l) = 0
        <4>1. k = 0 BY <3>1
        <4> QED BY <4>1
      <3> QED BY <3>1, <1>1
    <2>2. i - 1 \in Nat
      BY <1>1
    <2> HIDE DEF k
    <2>3. (i - 1) % Len(l) \in 0..(Len(l) - 1)
      BY <1>1, <2>1, <2>2, Quotient
    <2> QED BY <2>3, <1>1
  <1>3. \A i \in 1..k : l[((i - 1) % Len(l)) + 1] \in S
    BY <1>2
  <1>4. R \in [1..k -> S]
    BY <1>3
  <1> HIDE DEF R, k
  <1>5. R \in Seq(S) /\ Len(R) = k
    BY <1>4, <1>1
  <1>6. \A i \in 1..k : R[i] = l[((i - 1) % Len(l)) + 1]
    BY DEF R
  <1> QED BY <1>1, <1>2, <1>5, <1>6 DEF Repeat, R, k

\* A list of v elements takes v times what an element does.
LEMMA RepeatWeighs ==
    ASSUME NEW S, NEW l \in Seq(S), NEW n \in Nat, NEW b \in Nat, Weighs(l, b)
    PROVE  Weighs(Repeat(n, l), n * b)
  <1>1. PICK s : Mounts(s, l, b)
    BY DEF Weighs
  <1> DEFINE L == Len(l)
             R == Repeat(n, l)
             k == n * L
             u == [i \in 0..k |-> b * (i \div L) + s[i % L]]
  <1>2. L \in Nat /\ k \in Nat
    BY RepeatIs
  <1>3. R \in Seq(S) /\ Len(R) = k
        /\ \A i \in 1..k : ((i - 1) % L) + 1 \in 1..L /\ R[i] = l[((i - 1) % L) + 1]
    BY RepeatIs
  <1>4. CASE L = 0
    <2>1. k = 0 /\ b = 0
      BY <1>1, <1>4 DEF Mounts
    <2> DEFINE z == [i \in 0..0 |-> 0]
    <2>2. z \in [0..0 -> Nat] /\ z[0] = 0
      OBVIOUS
    <2> HIDE DEF z, R, k, L
    <2>3. Mounts(z, R, 0)
      BY <1>3, <2>1, <2>2 DEF Mounts
    <2>4. Weighs(R, 0)
      BY <1>3, <2>1, <2>3 DEF Weighs
    <2>5. n * b = 0
      BY <2>1
    <2> QED BY <2>4, <2>5 DEF R
  <1>5. CASE L > 0
    <2> HIDE DEF R, L
    <2>1. \A i \in 0..k : i \div L \in Nat /\ i % L \in 0..L
      BY <1>2, <1>5, Quotient
    <2>2. \A i \in 0..k : s[i % L] \in Nat
      BY <2>1, <1>1 DEF Mounts, L
    <2>3. u \in [0..k -> Nat]
      <3>1. \A i \in 0..k : b * (i \div L) + s[i % L] \in Nat
        <4> TAKE i \in 0..k
        <4> DEFINE q == i \div L
                   m == i % L
        <4>1. q \in Nat /\ s[m] \in Nat
          BY <2>1, <2>2
        <4> HIDE DEF q, m
        <4>2. b * q + s[m] \in Nat
          BY <4>1
        <4> QED BY <4>2 DEF q, m
      <3> QED BY <3>1
    <2>4. s[0] = 0 /\ s[L] = b
      BY <1>1 DEF Mounts, L
    <2>5. u[0] = 0
      <3>1. 0 \div L = 0 /\ 0 % L = 0
        BY <1>2, <1>5
      <3> QED BY <3>1, <2>4, <1>2
    <2>6. u[k] = n * b
      <3>1. (L * n + 0) \div L = n /\ (L * n + 0) % L = 0
        BY <1>2, <1>5, QuotientIs
      <3>2. L * n + 0 = k
        BY <1>2
      <3>3. k \div L = n /\ k % L = 0
        BY <3>1, <3>2
      <3> HIDE DEF k
      <3>4. u[k] = b * n + 0
        BY <3>3, <2>4, <1>2
      <3> QED BY <3>4
    <2> HIDE DEF k
    <2>7. \A i \in 1..k : Bytes(R[i]) \in Nat /\ u[i] <= u[i - 1] + Bytes(R[i])
      <3> TAKE i \in 1..k
      <3> DEFINE q == (i - 1) \div L
                 m == (i - 1) % L
      <3>1. i - 1 \in Nat /\ i \in 0..k /\ i - 1 \in 0..k
        BY <1>2
      <3>2. q \in Nat /\ m \in 0..(L - 1) /\ i - 1 = L * q + m
        BY <3>1, <1>2, <1>5, Quotient
      <3>3. R[i] = l[m + 1] /\ m + 1 \in 1..L
        BY <1>3
      <3>4. Bytes(l[m + 1]) \in Nat /\ s[m + 1] <= s[m] + Bytes(l[m + 1])
        BY <1>1, <3>3, <3>2, <1>2 DEF Mounts, L
      <3>5. s[m] \in Nat /\ s[m + 1] \in Nat
        BY <1>1, <3>3, <3>2, <1>2 DEF Mounts, L
      <3>6. u[i - 1] = b * q + s[m]
        BY <3>1
      <3>7. u[i] = b * (i \div L) + s[i % L]
        BY <3>1
      <3> HIDE DEF q, m, u
      <3>8. CASE m + 1 < L
        <4>1. (L * q + (m + 1)) \div L = q /\ (L * q + (m + 1)) % L = m + 1
          BY <3>2, <3>8, <1>2, QuotientIs
        <4>2. i = L * q + (m + 1)
          BY <3>2, <1>2
        <4>3. u[i] = b * q + s[m + 1] /\ b * q \in Nat
          BY <4>1, <4>2, <3>7, <3>2
        <4> QED BY <4>3, <3>3, <3>4, <3>5, <3>6
      <3>9. CASE m + 1 = L
        <4>1. (L * (q + 1) + 0) \div L = q + 1 /\ (L * (q + 1) + 0) % L = 0
          BY <3>2, <1>2, <1>5, QuotientIs
        <4>2. i = L * (q + 1) + 0
          BY <3>2, <3>9, <1>2
        <4>3. u[i] = b * (q + 1) + s[0]
          BY <4>1, <4>2, <3>7
        <4>4. b * (q + 1) = b * q + b /\ b * q \in Nat
          BY <3>2
        <4>5. s[m + 1] = b
          BY <3>9, <2>4
        <4> QED BY <4>3, <4>4, <4>5, <2>4, <3>3, <3>4, <3>5, <3>6
      <3> QED BY <3>8, <3>9, <3>2, <1>2
    <2> HIDE DEF u
    <2>8. Mounts(u, R, n * b)
      BY <1>3, <2>3, <2>5, <2>6, <2>7 DEF Mounts
    <2>9. Len(R) \in Nat /\ DOMAIN R = 1..Len(R)
      BY <1>2, <1>3
    <2> QED BY <2>8, <2>9 DEF Weighs, R
  <1> QED BY <1>2, <1>4, <1>5

-----------------------------------------------------------------------------
(* What is left of layouts. *)

\* Every field takes at least a byte.
LEMMA Widths == FixedWidth \in [DOMAIN FixedWidth -> Nat \ {0}]
  BY DEF FixedWidth

\* So does every field of a sound set.
LEMMA WidthOf ==
    ASSUME NEW P, Sound(P), NEW f \in Lefts(P)
    PROVE  Kind(f) \in DOMAIN FixedWidth /\ Bytes(f) \in Nat /\ Bytes(f) > 0
  BY Widths DEF Sound, Lefts, Bytes

\* Any layout takes at least nothing.
LEMMA WeighsZero ==
    ASSUME NEW P, Sound(P), NEW l \in Seq(Lefts(P))
    PROVE  Weighs(l, 0)
  <1> DEFINE n == Len(l)
             z == [i \in 0..n |-> 0]
  <1>1. n \in Nat /\ DOMAIN l = 1..n
    OBVIOUS
  <1>2. z \in [0..n -> Nat] /\ z[0] = 0 /\ z[n] = 0
    BY <1>1
  <1>3. \A i \in 1..n : Bytes(l[i]) \in Nat /\ z[i] <= z[i - 1] + Bytes(l[i])
    <2> TAKE i \in 1..n
    <2>1. l[i] \in Lefts(P)
      OBVIOUS
    <2>2. z[i] = 0 /\ z[i - 1] = 0
      BY <1>1
    <2> HIDE DEF z
    <2> QED BY <2>1, <2>2, WidthOf
  <1> HIDE DEF z
  <1>4. Mounts(z, l, 0)
    BY <1>2, <1>3 DEF Mounts
  <1> QED BY <1>1, <1>4 DEF Weighs

\* What is left of a layout lacks the bytes of its first field at most.
LEMMA WeighsTail ==
    ASSUME NEW S, NEW l \in Seq(S), l # << >>, NEW b, Weighs(l, b)
    PROVE  \E c \in Nat : Weighs(Tail(l), c) /\ b <= c + Bytes(Head(l)) /\ b \in Nat
                          /\ Bytes(Head(l)) \in Nat
  <1>1. PICK s : Mounts(s, l, b)
    BY DEF Weighs
  <1> DEFINE n == Len(l)
             t == Tail(l)
             w == s[1]
             u == [i \in 0..(n - 1) |-> IF s[i + 1] >= w THEN s[i + 1] - w ELSE 0]
             c == u[n - 1]
  <1>2. n \in Nat /\ n >= 1 /\ Head(l) = l[1]
    OBVIOUS
  <1>3. t \in Seq(S) /\ Len(t) = n - 1 /\ \A i \in 1..(n - 1) : t[i] = l[i + 1]
    BY HeadTailProperties
  <1>4. w \in Nat /\ w <= Bytes(l[1]) /\ Bytes(l[1]) \in Nat
    BY <1>1, <1>2 DEF Mounts
  <1> HIDE DEF n, t, w
  <1>5. \A i \in 0..(n - 1) : s[i + 1] \in Nat
    BY <1>1, <1>2 DEF Mounts, n
  <1>6. u \in [0..(n - 1) -> Nat] /\ u[0] = 0
    BY <1>2, <1>4, <1>5 DEF w
  <1>7. \A i \in 1..(n - 1) : Bytes(t[i]) \in Nat /\ u[i] <= u[i - 1] + Bytes(t[i])
    <2> TAKE i \in 1..(n - 1)
    <2>1. i \in 0..(n - 1) /\ i - 1 \in 0..(n - 1) /\ i + 1 \in 1..n
      BY <1>2
    <2>2. t[i] = l[i + 1]
      BY <1>3
    <2>3. Bytes(l[i + 1]) \in Nat /\ s[i + 1] <= s[i] + Bytes(l[i + 1])
      BY <2>1, <1>1, <1>2 DEF Mounts, n
    <2>4. s[i + 1] \in Nat /\ s[i] \in Nat
      BY <2>1, <1>1, <1>2 DEF Mounts, n
    <2>5. /\ u[i] = IF s[i + 1] >= w THEN s[i + 1] - w ELSE 0
          /\ u[i - 1] = IF s[i] >= w THEN s[i] - w ELSE 0
      BY <2>1
    <2> HIDE DEF u
    <2> QED BY <2>2, <2>3, <2>4, <2>5, <1>4
  <1>8. c = IF b >= w THEN b - w ELSE 0
    <2>1. s[n] = b /\ n - 1 \in 0..(n - 1)
      BY <1>1, <1>2 DEF Mounts, n
    <2> QED BY <2>1, <1>2
  <1>9. b \in Nat
    BY <1>1, <1>2 DEF Mounts, n
  <1> HIDE DEF u
  <1>10. Mounts(u, t, c)
    BY <1>3, <1>6, <1>7 DEF Mounts
  <1>11. Weighs(t, c)
    BY <1>3, <1>2, <1>10 DEF Weighs
  <1>12. c \in Nat /\ b <= c + Bytes(l[1])
    BY <1>8, <1>9, <1>4
  <1> QED BY <1>11, <1>12, <1>9, <1>2, <1>4 DEF t

\* The empty layouts agree.
LEMMA ZippedNothing == \A P : Zipped(P, << >>, << >>)
  BY DEF Zipped

\* Layouts that agree have agreeing first fields and rests.
LEMMA ZippedTail ==
    ASSUME NEW P, NEW w, NEW r, Zipped(P, w, r), w # << >>
    PROVE  /\ r # << >> /\ <<Head(w), Head(r)>> \in P
           /\ Zipped(P, Tail(w), Tail(r))
  <1>1. w \in Seq(Lefts(P)) /\ r \in Seq(Rights(P)) /\ Len(w) = Len(r)
        /\ (\A i \in 1..Len(w) : <<w[i], r[i]>> \in P)
    BY DEF Zipped, Lefts, Rights
  <1>2. r # << >> /\ Head(w) = w[1] /\ Head(r) = r[1] /\ Len(w) \in Nat /\ Len(w) >= 1
    BY <1>1
  <1>3. /\ Tail(w) \in Seq(Lefts(P)) /\ Len(Tail(w)) = Len(w) - 1
        /\ \A i \in 1..Len(Tail(w)) : Tail(w)[i] = w[i + 1]
    BY <1>1, HeadTailProperties
  <1>4. /\ Tail(r) \in Seq(Rights(P)) /\ Len(Tail(r)) = Len(r) - 1
        /\ \A i \in 1..Len(Tail(r)) : Tail(r)[i] = r[i + 1]
    BY <1>1, <1>2, HeadTailProperties
  <1>5. \A i \in 1..Len(Tail(w)) : <<Tail(w)[i], Tail(r)[i]>> \in P
    <2> TAKE i \in 1..Len(Tail(w))
    <2>1. Tail(w)[i] = w[i + 1] /\ Tail(r)[i] = r[i + 1] /\ i + 1 \in 1..Len(w)
      BY <1>1, <1>2, <1>3, <1>4
    <2> QED BY <2>1, <1>1
  <1> QED BY <1>1, <1>2, <1>3, <1>4, <1>5 DEF Zipped, Lefts, Rights

\* Elements that agree make repetitions that do.
LEMMA ZippedRepeat ==
    ASSUME NEW P, NEW w, NEW r, Zipped(P, w, r), NEW n \in Nat
    PROVE  Zipped(P, Repeat(n, w), Repeat(n, r))
  <1>1. w \in Seq(Lefts(P)) /\ r \in Seq(Rights(P)) /\ Len(w) = Len(r)
        /\ (\A i \in 1..Len(w) : <<w[i], r[i]>> \in P)
    BY DEF Zipped, Lefts, Rights
  <1>2. /\ Repeat(n, w) \in Seq(Lefts(P)) /\ Len(Repeat(n, w)) = n * Len(w)
        /\ \A i \in 1..(n * Len(w)) :
              /\ ((i - 1) % Len(w)) + 1 \in 1..Len(w)
              /\ Repeat(n, w)[i] = w[((i - 1) % Len(w)) + 1]
    BY <1>1, RepeatIs
  <1>3. /\ Repeat(n, r) \in Seq(Rights(P)) /\ Len(Repeat(n, r)) = n * Len(r)
        /\ \A i \in 1..(n * Len(r)) : Repeat(n, r)[i] = r[((i - 1) % Len(r)) + 1]
    BY <1>1, RepeatIs
  <1>4. \A i \in 1..Len(Repeat(n, w)) : <<Repeat(n, w)[i], Repeat(n, r)[i]>> \in P
    BY <1>1, <1>2, <1>3
  <1> QED BY <1>1, <1>2, <1>3, <1>4 DEF Zipped, Lefts, Rights

\* What is left of a layout behind its first field, with v in it.
Behind(l, v) ==
    (IF Kind(Head(l)) = "list" THEN Repeat(v, Element(Head(l))) ELSE <<>>) \o Tail(l)

\* What is left to write and what is left to read agree behind every field.
LEMMA ZippedBehind ==
    ASSUME NEW P, Sound(P), NEW w, NEW r, Zipped(P, w, r), w # << >>, NEW v \in Nat
    PROVE  Zipped(P, Behind(w, v), Behind(r, v))
  <1>1. <<Head(w), Head(r)>> \in P /\ Zipped(P, Tail(w), Tail(r))
    BY ZippedTail
  <1> DEFINE f == Head(w)
             g == Head(r)
             p == <<f, g>>
  <1>2. p \in P /\ p[1] = f /\ p[2] = g
    BY <1>1
  <1> HIDE DEF p, f, g
  <1>3. Kind(f) = Kind(g) /\ (Kind(f) = "list" => ListsMatch(P, f, g))
    BY <1>2 DEF Sound
  <1>4. CASE Kind(f) = "list"
    <2>1. Zipped(P, Repeat(v, Element(f)), Repeat(v, Element(g)))
      BY <1>3, <1>4, ZippedRepeat DEF ListsMatch
    <2>2. Zipped(P, Repeat(v, Element(f)) \o Tail(w), Repeat(v, Element(g)) \o Tail(r))
      BY <2>1, <1>1, ZippedConcat
    <2> QED BY <2>2, <1>3, <1>4 DEF Behind, f, g
  <1>5. CASE Kind(f) # "list"
    <2>1. Zipped(P, << >> \o Tail(w), << >> \o Tail(r))
      BY <1>1, ZippedConcat, ZippedNothing
    <2> QED BY <2>1, <1>3, <1>5 DEF Behind, f, g
  <1> QED BY <1>4, <1>5

-----------------------------------------------------------------------------
(* Parts of documents. *)

\* A part of a document: writer and reader agree on it, and it takes at least b bytes.
Part(w, r, b) == b \in Nat /\ Agrees(w, r) /\ Weighs(w, b)

\* Sums and products under names of their own, which the provers leave alone.
Plus(b, c) == b + c

\* Two parts behind each other are a part.
LEMMA PartConcat ==
    \A w, r, x, y, b, c :
        Part(w, r, b) /\ Part(x, y, c) => Part(w \o x, r \o y, Plus(b, c))
  <1> SUFFICES ASSUME NEW w, NEW r, NEW x, NEW y, NEW b, NEW c, Part(w, r, b), Part(x, y, c)
               PROVE  Part(w \o x, r \o y, Plus(b, c))
    OBVIOUS
  <1>1. Agrees(w, r) /\ Agrees(x, y) /\ Weighs(w, b) /\ Weighs(x, c) /\ b \in Nat /\ c \in Nat
    BY DEF Part
  <1>2. PICK P : Sound(P) /\ Zipped(P, w, r)
    BY <1>1 DEF Agrees
  <1>3. PICK Q : Sound(Q) /\ Zipped(Q, x, y)
    BY <1>1 DEF Agrees
  <1>4. Sound(P \cup Q) /\ Zipped(P \cup Q, w, r) /\ Zipped(P \cup Q, x, y)
    BY <1>2, <1>3, SoundUnion, ZippedSub
  <1>5. PICK U : Sound(U) /\ Zipped(U, w, r) /\ Zipped(U, x, y)
    BY <1>4
  <1>6. Agrees(w \o x, r \o y)
    BY <1>5, ZippedConcat DEF Agrees
  <1>7. w \in Seq(Lefts(U)) /\ x \in Seq(Lefts(U))
    BY <1>5 DEF Zipped, Lefts
  <1>8. Weighs(w \o x, b + c)
    BY <1>1, <1>7, WeighsConcat
  <1> QED BY <1>1, <1>6, <1>8 DEF Part, Plus

\* A part that takes so many bytes is one that takes fewer.
LEMMA PartLess ==
    \A w, r, b, c : Part(w, r, b) /\ c \in Nat /\ c <= b => Part(w, r, c)
  BY WeighsLess DEF Part

\* A layout without lists that writer and reader share.
LEMMA SharedAgrees ==
    ASSUME NEW n \in Nat, NEW w, w = [i \in 1..n |-> w[i]],
           \A i \in 1..n : Kind(w[i]) \in DOMAIN FixedWidth \ {"list"}
    PROVE  Agrees(w, w) /\ Len(w) = n /\ DOMAIN w = 1..n
  <1> DEFINE P == {<<w[i], w[i]>> : i \in 1..n}
             F == {p[1] : p \in P}
             G == {p[2] : p \in P}
  <1>1. Sound(P)
    <2> SUFFICES ASSUME NEW p \in P
        PROVE /\ p = <<p[1], p[2]>>
              /\ Kind(p[1]) \in DOMAIN FixedWidth
              /\ Kind(p[2]) = Kind(p[1]) /\ Name(p[2]) = Name(p[1])
              /\ Kind(p[1]) = "list" => ListsMatch(P, p[1], p[2])
      BY DEF Sound
    <2>1. PICK i \in 1..n : p = <<w[i], w[i]>>
      OBVIOUS
    <2> QED BY <2>1
  <1>2. \A i \in 1..n : <<w[i], w[i]>> \in P
    OBVIOUS
  <1>3. \A i \in 1..n : w[i] \in F /\ w[i] \in G
    <2> TAKE i \in 1..n
    <2>1. <<w[i], w[i]>>[1] \in F /\ <<w[i], w[i]>>[2] \in G
      BY <1>2
    <2> QED BY <2>1
  <1> HIDE DEF F, G, P
  <1>4. w \in [1..n -> F] /\ w \in [1..n -> G]
    BY <1>3
  <1>5. w \in Seq(F) /\ w \in Seq(G) /\ Len(w) = n /\ DOMAIN w = 1..n
    BY <1>4
  <1>6. Zipped(P, w, w)
    BY <1>2, <1>5 DEF Zipped, F, G
  <1> QED BY <1>1, <1>5, <1>6 DEF Agrees

\* Fields of one kind are a part.
LEMMA FieldsPart ==
    ASSUME NEW kind \in DOMAIN FixedWidth \ {"list"}, NEW names, Listing(names)
    PROVE  Part(Fields(kind, names), Fields(kind, names), FixedWidth[kind] * Len(names))
  <1> DEFINE n == Len(names)
             w == Fields(kind, names)
  <1>1. n \in Nat /\ w = [i \in 1..n |-> <<kind, names[i]>>] /\ FixedWidth[kind] \in Nat
    BY Widths DEF Listing, Fields
  <1> HIDE DEF w, n
  <1>2. \A i \in 1..n : Kind(w[i]) = kind
    BY <1>1 DEF Kind
  <1>3. w = [i \in 1..n |-> w[i]]
    BY <1>1
  <1>4. Agrees(w, w)
    BY <1>1, <1>2, <1>3, SharedAgrees
  <1>5. Weighs(w, FixedWidth[kind] * n)
    BY FieldsWeigh DEF w, n
  <1>6. FixedWidth[kind] * n \in Nat
    <2>1. PICK k : k = FixedWidth[kind]
      OBVIOUS
    <2>2. k \in Nat /\ n \in Nat
      BY <1>1, <2>1
    <2>3. k * n \in Nat
      BY <2>2
    <2> QED BY <2>1, <2>3
  <1> QED BY <1>4, <1>5, <1>6 DEF Part, w, n

\* Identities with their generations are a part.
LEMMA RefsPart ==
    ASSUME NEW names, Listing(names)
    PROVE  Part(Refs(names), Refs(names), 12 * Len(names))
  <1> DEFINE n == Len(names)
             m == 2 * n
             w == Refs(names)
             s == [i \in 0..m |-> IF i % 2 = 1 THEN 6 * i + 2 ELSE 6 * i]
  <1>1. n \in Nat /\ m \in Nat
        /\ w = [i \in 1..m |-> <<IF i % 2 = 1 THEN "id" ELSE "gen", names[(i + 1) \div 2]>>]
    BY DEF Listing, Refs
  <1> HIDE DEF w
  <1>2. \A i \in 1..m : Kind(w[i]) = IF i % 2 = 1 THEN "id" ELSE "gen"
    BY <1>1 DEF Kind
  <1>3. \A i \in 1..m : Bytes(w[i]) = IF i % 2 = 1 THEN 8 ELSE 4
    BY <1>2 DEF Bytes, FixedWidth
  <1>4. Agrees(w, w) /\ Len(w) = m /\ DOMAIN w = 1..m
    <2>1. \A i \in 1..m : Kind(w[i]) \in DOMAIN FixedWidth \ {"list"}
      BY <1>2 DEF FixedWidth
    <2>2. w = [i \in 1..m |-> w[i]]
      BY <1>1
    <2> HIDE DEF m
    <2> QED BY <2>1, <2>2, <1>1, SharedAgrees
  <1>5. s \in [0..m -> Nat] /\ s[0] = 0 /\ s[m] = 12 * n
    BY <1>1
  <1>6. \A i \in 1..m : Bytes(w[i]) \in Nat /\ s[i] <= s[i - 1] + Bytes(w[i])
    <2> TAKE i \in 1..m
    <2>1. /\ s[i] = IF i % 2 = 1 THEN 6 * i + 2 ELSE 6 * i
          /\ s[i - 1] = IF (i - 1) % 2 = 1 THEN 6 * (i - 1) + 2 ELSE 6 * (i - 1)
      BY <1>1
    <2>2. i \in Nat /\ i - 1 \in Nat
      BY <1>1
    <2>3. i % 2 = 1 <=> (i - 1) % 2 # 1
      <3> HIDE DEF m
      <3> QED BY <2>2
    <2> HIDE DEF s
    <2> QED BY <2>1, <2>2, <2>3, <1>3
  <1> HIDE DEF s, m
  <1>7. Mounts(s, w, 12 * n)
    BY <1>4, <1>5, <1>6 DEF Mounts
  <1>8. Weighs(w, 12 * n)
    BY <1>1, <1>4, <1>7 DEF Weighs
  <1>9. 12 * n \in Nat
    BY <1>1
  <1> QED BY <1>4, <1>8, <1>9 DEF Part, w, n

\* An optional identity with its generation is a part.
LEMMA OptRefPart == \A name : Part(OptRef(name), OptRef(name), 12)
  <1> TAKE name
  <1> DEFINE f == <<"opt", name>>
             g == <<"gen", name>>
             w == <<f, g>>
             s == [i \in 0..2 |-> IF i = 0 THEN 0 ELSE IF i = 1 THEN 8 ELSE 12]
  <1>1. Kind(f) = "opt" /\ Kind(g) = "gen" /\ Bytes(f) = 8 /\ Bytes(g) = 4
    BY DEF Kind, Bytes, FixedWidth
  <1> HIDE DEF f, g
  <1>2. w = [i \in 1..2 |-> w[i]] /\ w[1] = f /\ w[2] = g
    OBVIOUS
  <1>3. Agrees(w, w) /\ Len(w) = 2 /\ DOMAIN w = 1..2
    <2>1. \A i \in 1..2 : Kind(w[i]) \in DOMAIN FixedWidth \ {"list"}
      <3>1. "opt" \in DOMAIN FixedWidth \ {"list"} /\ "gen" \in DOMAIN FixedWidth \ {"list"}
        BY DEF FixedWidth
      <3>2. \A i \in 1..2 : i = 1 \/ i = 2
        OBVIOUS
      <3> QED BY <3>1, <3>2, <1>1, <1>2
    <2> HIDE DEF w
    <2> QED BY <2>1, <1>2, SharedAgrees
  <1>4. s \in [0..2 -> Nat] /\ s[0] = 0 /\ s[1] = 8 /\ s[2] = 12
    OBVIOUS
  <1> HIDE DEF s, w
  <1>5. Mounts(s, w, 12)
    BY <1>1, <1>2, <1>3, <1>4 DEF Mounts
  <1>6. Weighs(w, 12)
    BY <1>3, <1>5 DEF Weighs
  <1> QED BY <1>3, <1>6 DEF Part, OptRef, w, f, g

\* A list takes at least its count.
LEMMA CountPart ==
    ASSUME NEW name, NEW least, NEW ceiling, NEW w, NEW r,
           Agrees(Many(name, w), List(name, least, ceiling, r))
    PROVE  Part(Many(name, w), List(name, least, ceiling, r), 4)
  <1> DEFINE f == <<"list", name, 0, 0, w>>
             l == <<f>>
             s == [i \in 0..1 |-> IF i = 0 THEN 0 ELSE 4]
  <1>1. Bytes(f) = 4
    BY DEF Bytes, Kind, FixedWidth
  <1> HIDE DEF f
  <1>2. Len(l) = 1 /\ DOMAIN l = 1..1 /\ l[1] = f
    OBVIOUS
  <1>3. s \in [0..1 -> Nat] /\ s[0] = 0 /\ s[1] = 4
    OBVIOUS
  <1> HIDE DEF s, l
  <1>4. Mounts(s, l, 4)
    BY <1>1, <1>2, <1>3 DEF Mounts
  <1>5. Weighs(l, 4)
    BY <1>2, <1>4 DEF Weighs
  <1> QED BY <1>5 DEF Part, Many, List, l, f

\* A list whose elements are a part, read with bounds that fit, is a part.
LEMMA ListPart ==
    \A name, least, ceiling, w, r :
        Part(w, r, least) /\ least >= 4 /\ ceiling \in Nat /\ Roomy(name, ceiling) =>
            Part(Many(name, w), List(name, least, ceiling, r), 4)
  BY AgreesList, CountPart DEF Part

\* A part repeated a fixed number of times is a part.
LEMMA RepeatPart ==
    \A n, w, r, b : n \in Nat /\ Part(w, r, b) => Part(Repeat(n, w), Repeat(n, r), n * b)
  <1> SUFFICES ASSUME NEW n \in Nat, NEW w, NEW r, NEW b, Part(w, r, b)
               PROVE  Part(Repeat(n, w), Repeat(n, r), n * b)
    OBVIOUS
  <1>1. PICK P : Sound(P) /\ Zipped(P, w, r)
    BY DEF Part, Agrees
  <1>2. Agrees(Repeat(n, w), Repeat(n, r))
    BY <1>1, ZippedRepeat DEF Agrees
  <1>3. w \in Seq(Lefts(P)) /\ b \in Nat /\ Weighs(w, b)
    BY <1>1 DEF Zipped, Lefts, Part
  <1>4. Weighs(Repeat(n, w), n * b)
    BY <1>3, RepeatWeighs
  <1>5. n * b \in Nat
    BY <1>3
  <1> QED BY <1>2, <1>4, <1>5 DEF Part

\* A sequence of n elements.
Sized(names, n) == Len(names) = n /\ DOMAIN names = 1..n /\ n \in Nat
Times(b, n) == b * n

\* The short sequences of names that records use.
LEMMA Sizes ==
    /\ \A p : Sized(<<p>>, 1)
    /\ \A p, q : Sized(<<p, q>>, 2)
    /\ \A p, q, r : Sized(<<p, q, r>>, 3)
    /\ \A p, q, r, s : Sized(<<p, q, r, s>>, 4)
  BY DEF Sized

\* The parts protocol.cpp builds its records from.
LEMMA WireParts ==
    /\ \A names, n : Sized(names, n) =>
        /\ Part(Wire!Id(names), Wire!Id(names), Times(8, n))
        /\ Part(Wire!Opt(names), Wire!Opt(names), Times(8, n))
        /\ Part(Wire!Gen(names), Wire!Gen(names), Times(4, n))
        /\ Part(Wire!Epoch(names), Wire!Epoch(names), Times(8, n))
        /\ Part(Wire!U16(names), Wire!U16(names), Times(2, n))
        /\ Part(Wire!U32(names), Wire!U32(names), Times(4, n))
        /\ Part(Wire!U64(names), Wire!U64(names), Times(8, n))
        /\ Part(Wire!F64(names), Wire!F64(names), Times(8, n))
        /\ Part(Wire!Bool(names), Wire!Bool(names), Times(1, n))
        /\ Part(Wire!Enum(names), Wire!Enum(names), Times(1, n))
        /\ Part(Wire!Str(names), Wire!Str(names), Times(4, n))
        /\ Part(Wire!Refs(names), Wire!Refs(names), Times(12, n))
    /\ \A name : Part(Wire!OptRef(name), Wire!OptRef(name), 12)
    /\ \A name, least, ceiling, w, r :
          Part(w, r, least) /\ least >= 4 /\ ceiling \in Nat /\ Roomy(name, ceiling) =>
              Part(Wire!Many(name, w), Wire!List(name, least, ceiling, r), 4)
  <1>1. ASSUME NEW names, NEW n, Sized(names, n)
        PROVE  /\ Part(Wire!Id(names), Wire!Id(names), Times(8, n))
               /\ Part(Wire!Opt(names), Wire!Opt(names), Times(8, n))
               /\ Part(Wire!Gen(names), Wire!Gen(names), Times(4, n))
               /\ Part(Wire!Epoch(names), Wire!Epoch(names), Times(8, n))
               /\ Part(Wire!U16(names), Wire!U16(names), Times(2, n))
               /\ Part(Wire!U32(names), Wire!U32(names), Times(4, n))
               /\ Part(Wire!U64(names), Wire!U64(names), Times(8, n))
               /\ Part(Wire!F64(names), Wire!F64(names), Times(8, n))
               /\ Part(Wire!Bool(names), Wire!Bool(names), Times(1, n))
               /\ Part(Wire!Enum(names), Wire!Enum(names), Times(1, n))
               /\ Part(Wire!Str(names), Wire!Str(names), Times(4, n))
               /\ Part(Wire!Refs(names), Wire!Refs(names), Times(12, n))
    <2>1. \A k \in DOMAIN FixedWidth \ {"list"} :
            Part(Wire!Fields(k, names), Wire!Fields(k, names), FixedWidth[k] * Len(names))
      <3> TAKE k \in DOMAIN FixedWidth \ {"list"}
      <3>1. Wire!Fields(k, names) = Fields(k, names)
        BY DEF Wire!Fields, Fields
      <3>2. Part(Fields(k, names), Fields(k, names), FixedWidth[k] * Len(names))
        BY <1>1, FieldsPart DEF Sized, Listing
      <3> QED BY <3>1, <3>2
    <2>2. Len(names) = n /\ n \in Nat
      BY <1>1 DEF Sized
    <2>3. /\ {"id", "opt", "gen", "epoch", "u16", "u32", "u64", "f64", "bool", "enum", "str"}
                \subseteq DOMAIN FixedWidth \ {"list"}
          /\ FixedWidth["id"] = 8 /\ FixedWidth["opt"] = 8 /\ FixedWidth["gen"] = 4
          /\ FixedWidth["epoch"] = 8 /\ FixedWidth["u16"] = 2 /\ FixedWidth["u32"] = 4
          /\ FixedWidth["u64"] = 8 /\ FixedWidth["f64"] = 8 /\ FixedWidth["bool"] = 1
          /\ FixedWidth["enum"] = 1 /\ FixedWidth["str"] = 4
      BY DEF FixedWidth
    <2>4. Part(Wire!Refs(names), Wire!Refs(names), 12 * Len(names))
      <3>1. Wire!Refs(names) = Refs(names)
        BY DEF Wire!Refs, Refs
      <3> QED BY <3>1, <1>1, RefsPart DEF Sized, Listing
    <2> QED BY <2>1, <2>2, <2>3, <2>4
           DEF Wire!Id, Wire!Opt, Wire!Gen, Wire!Epoch, Wire!U16, Wire!U32, Wire!U64, Wire!F64,
               Wire!Bool, Wire!Enum, Wire!Str, Times
  <1>2. \A name : Part(Wire!OptRef(name), Wire!OptRef(name), 12)
    BY OptRefPart DEF Wire!OptRef, OptRef
  <1>3. \A name, least, ceiling, w, r :
          Part(w, r, least) /\ least >= 4 /\ ceiling \in Nat /\ Roomy(name, ceiling) =>
              Part(Wire!Many(name, w), Wire!List(name, least, ceiling, r), 4)
    BY ListPart DEF Wire!Many, Wire!List, Many, List
  <1> QED BY <1>1, <1>2, <1>3

\* The parts persistence.cpp builds its records from.
LEMMA SnapshotParts ==
    /\ \A names, n : Sized(names, n) =>
        /\ Part(Snapshot!Id(names), Snapshot!Id(names), Times(8, n))
        /\ Part(Snapshot!Opt(names), Snapshot!Opt(names), Times(8, n))
        /\ Part(Snapshot!Gen(names), Snapshot!Gen(names), Times(4, n))
        /\ Part(Snapshot!Epoch(names), Snapshot!Epoch(names), Times(8, n))
        /\ Part(Snapshot!U16(names), Snapshot!U16(names), Times(2, n))
        /\ Part(Snapshot!U32(names), Snapshot!U32(names), Times(4, n))
        /\ Part(Snapshot!U64(names), Snapshot!U64(names), Times(8, n))
        /\ Part(Snapshot!F64(names), Snapshot!F64(names), Times(8, n))
        /\ Part(Snapshot!Bool(names), Snapshot!Bool(names), Times(1, n))
        /\ Part(Snapshot!Enum(names), Snapshot!Enum(names), Times(1, n))
        /\ Part(Snapshot!Str(names), Snapshot!Str(names), Times(4, n))
        /\ Part(Snapshot!Refs(names), Snapshot!Refs(names), Times(12, n))
    /\ \A name : Part(Snapshot!OptRef(name), Snapshot!OptRef(name), 12)
    /\ \A name, least, ceiling, w, r :
          Part(w, r, least) /\ least >= 4 /\ ceiling \in Nat /\ Roomy(name, ceiling) =>
              Part(Snapshot!Many(name, w), Snapshot!List(name, least, ceiling, r), 4)
  <1>1. ASSUME NEW names, NEW n, Sized(names, n)
        PROVE  /\ Part(Snapshot!Id(names), Snapshot!Id(names), Times(8, n))
               /\ Part(Snapshot!Opt(names), Snapshot!Opt(names), Times(8, n))
               /\ Part(Snapshot!Gen(names), Snapshot!Gen(names), Times(4, n))
               /\ Part(Snapshot!Epoch(names), Snapshot!Epoch(names), Times(8, n))
               /\ Part(Snapshot!U16(names), Snapshot!U16(names), Times(2, n))
               /\ Part(Snapshot!U32(names), Snapshot!U32(names), Times(4, n))
               /\ Part(Snapshot!U64(names), Snapshot!U64(names), Times(8, n))
               /\ Part(Snapshot!F64(names), Snapshot!F64(names), Times(8, n))
               /\ Part(Snapshot!Bool(names), Snapshot!Bool(names), Times(1, n))
               /\ Part(Snapshot!Enum(names), Snapshot!Enum(names), Times(1, n))
               /\ Part(Snapshot!Str(names), Snapshot!Str(names), Times(4, n))
               /\ Part(Snapshot!Refs(names), Snapshot!Refs(names), Times(12, n))
    <2>1. \A k \in DOMAIN FixedWidth \ {"list"} :
            Part(Snapshot!Fields(k, names),
                 Snapshot!Fields(k, names), FixedWidth[k] * Len(names))
      <3> TAKE k \in DOMAIN FixedWidth \ {"list"}
      <3>1. Snapshot!Fields(k, names) = Fields(k, names)
        BY DEF Snapshot!Fields, Fields
      <3>2. Part(Fields(k, names), Fields(k, names), FixedWidth[k] * Len(names))
        BY <1>1, FieldsPart DEF Sized, Listing
      <3> QED BY <3>1, <3>2
    <2>2. Len(names) = n /\ n \in Nat
      BY <1>1 DEF Sized
    <2>3. /\ {"id", "opt", "gen", "epoch", "u16", "u32", "u64", "f64", "bool", "enum", "str"}
                \subseteq DOMAIN FixedWidth \ {"list"}
          /\ FixedWidth["id"] = 8 /\ FixedWidth["opt"] = 8 /\ FixedWidth["gen"] = 4
          /\ FixedWidth["epoch"] = 8 /\ FixedWidth["u16"] = 2 /\ FixedWidth["u32"] = 4
          /\ FixedWidth["u64"] = 8 /\ FixedWidth["f64"] = 8 /\ FixedWidth["bool"] = 1
          /\ FixedWidth["enum"] = 1 /\ FixedWidth["str"] = 4
      BY DEF FixedWidth
    <2>4. Part(Snapshot!Refs(names), Snapshot!Refs(names), 12 * Len(names))
      <3>1. Snapshot!Refs(names) = Refs(names)
        BY DEF Snapshot!Refs, Refs
      <3> QED BY <3>1, <1>1, RefsPart DEF Sized, Listing
    <2> QED BY <2>1, <2>2, <2>3, <2>4
           DEF Snapshot!Id, Snapshot!Opt, Snapshot!Gen, Snapshot!Epoch, Snapshot!U16,
               Snapshot!U32, Snapshot!U64, Snapshot!F64, Snapshot!Bool, Snapshot!Enum,
                        Snapshot!Str, Times
  <1>2. \A name : Part(Snapshot!OptRef(name), Snapshot!OptRef(name), 12)
    BY OptRefPart DEF Snapshot!OptRef, OptRef
  <1>3. \A name, least, ceiling, w, r :
          Part(w, r, least) /\ least >= 4 /\ ceiling \in Nat /\ Roomy(name, ceiling) =>
              Part(Snapshot!Many(name, w), Snapshot!List(name, least, ceiling, r), 4)
    BY ListPart DEF Snapshot!Many, Snapshot!List, Many, List
  <1> QED BY <1>1, <1>2, <1>3

\* A list whose elements may be thinner than its reader believes.
LEMMA ThinPart ==
    ASSUME NEW name, NEW least \in Nat, least >= 4, NEW ceiling \in Nat,
           NEW w, NEW r, Agrees(w, r), Roomy(name, ceiling),
           \/ (name = "factors" /\ least = Snapshot!kMin.rankingValue)
           \/ (name = "mandatory_evidence" /\ least = Snapshot!kMin.evidence)
    PROVE  Part(Many(name, w), List(name, least, ceiling, r), 4)
  <1>1. Thin(<<"list", name, least, ceiling, r>>)
    BY DEF Thin, Name, Least
  <1> QED BY <1>1, AgreesList, CountPart

-----------------------------------------------------------------------------
(* The records of protocol.cpp. *)

\* What the elements of the wire's lists take at least.
LEMMA WireElements ==
    /\ Part(Wire!write_artifact_ref, Wire!read_artifact_ref, 16)
    /\ Part(Wire!write_input_file, Wire!read_input_file, 12)
    /\ Part(Wire!write_evaluation_requirement, Wire!read_evaluation_requirement, 26)
    /\ Part(Wire!write_ranking_factor, Wire!read_ranking_factor, 14)
    /\ Part(Wire!write_evaluation_record, Wire!read_evaluation_record, 97)
    /\ Part(Wire!write_ranking_factor_value, Wire!read_ranking_factor_value, 31)
    /\ Part(Wire!write_exclusion_entry, Wire!read_exclusion_entry, 18)
    /\ Part(Wire!write_retention_entry, Wire!read_retention_entry, 25)
    /\ Part(Wire!write_promotion_evidence_summary, Wire!read_promotion_evidence_summary, 25)
  <1>1. Part(Wire!write_artifact_ref, Wire!read_artifact_ref, 16)
    <2>1. Part(Wire!write_artifact_ref, Wire!read_artifact_ref, Plus(Plus(Times(4, 1),
            Times(8, 1)), Times(4, 1)))
      BY WireParts, PartConcat, Sizes DEF Wire!write_artifact_ref, Wire!read_artifact_ref
    <2> QED BY <2>1 DEF Plus, Times
  <1>2. Part(Wire!write_input_file, Wire!read_input_file, 12)
    <2>1. Part(Wire!write_input_file, Wire!read_input_file, Times(4, 3))
      BY WireParts, PartConcat, Sizes DEF Wire!write_input_file, Wire!read_input_file
    <2> QED BY <2>1 DEF Plus, Times
  <1>3. Part(Wire!write_evaluation_requirement, Wire!read_evaluation_requirement, 26)
    <2>1. Part(Wire!write_evaluation_requirement, Wire!read_evaluation_requirement,
            Plus(Plus(Plus(Times(1, 1), Times(4, 2)), Times(1, 1)), Times(8, 2)))
      BY WireParts, PartConcat, Sizes
         DEF Wire!write_evaluation_requirement, Wire!read_evaluation_requirement
    <2> QED BY <2>1 DEF Plus, Times
  <1>4. Part(Wire!write_ranking_factor, Wire!read_ranking_factor, 14)
    <2>1. Part(Wire!write_ranking_factor, Wire!read_ranking_factor, Plus(Plus(Times(1, 2),
            Times(8, 1)), Times(4, 1)))
      BY WireParts, PartConcat, Sizes DEF Wire!write_ranking_factor, Wire!read_ranking_factor
    <2> QED BY <2>1 DEF Plus, Times
  <1>5. Part(Wire!write_evaluation_record, Wire!read_evaluation_record, 97)
    <2>1. Part(Wire!write_evaluation_record, Wire!read_evaluation_record,
            Plus(Plus(Plus(Plus(Plus(Plus(Plus(Plus(Times(12, 4), Times(8, 1)), Times(4, 1)),
            Times(1, 3)), Times(1, 2)), Times(8, 1)), Times(8, 1)), Times(4, 2)), Times(8, 1)))
      BY WireParts, PartConcat, Sizes
         DEF Wire!write_evaluation_record, Wire!read_evaluation_record
    <2> QED BY <2>1 DEF Plus, Times
  <1>6. Part(Wire!write_ranking_factor_value, Wire!read_ranking_factor_value, 31)
    <2>1. Part(Wire!write_ranking_factor_value, Wire!read_ranking_factor_value,
            Plus(Plus(Plus(Plus(Times(4, 1), Times(1, 2)), Times(8, 2)), Times(1, 1)),
            Times(8, 1)))
      BY WireParts, PartConcat, Sizes
         DEF Wire!write_ranking_factor_value, Wire!read_ranking_factor_value
    <2> QED BY <2>1 DEF Plus, Times
  <1>7. Part(Wire!write_exclusion_entry, Wire!read_exclusion_entry, 18)
    <2>1. Part(Wire!write_exclusion_entry, Wire!read_exclusion_entry, Plus(Plus(Times(12, 1),
            Times(1, 2)), Times(4, 1)))
      BY WireParts, PartConcat, Sizes DEF Wire!write_exclusion_entry, Wire!read_exclusion_entry
    <2> QED BY <2>1 DEF Plus, Times
  <1>8. Part(Wire!write_retention_entry, Wire!read_retention_entry, 25)
    <2>1. Part(Wire!write_retention_entry, Wire!read_retention_entry, Plus(Plus(Plus(Times(12,
            1), Times(1, 1)), Times(4, 1)), Times(4, 2)))
      BY WireParts, PartConcat, Sizes DEF Wire!write_retention_entry, Wire!read_retention_entry
    <2> QED BY <2>1 DEF Plus, Times
  <1>9. Part(Wire!write_promotion_evidence_summary, Wire!read_promotion_evidence_summary, 25)
    <2>1. Part(Wire!write_promotion_evidence_summary, Wire!read_promotion_evidence_summary,
            Plus(Plus(Plus(Plus(Plus(Times(4, 1), Times(1, 3)), Times(1, 2)), Times(8, 1)),
            Times(4, 1)), Times(4, 1)))
      BY WireParts, PartConcat, Sizes
         DEF Wire!write_promotion_evidence_summary, Wire!read_promotion_evidence_summary
    <2> QED BY <2>1 DEF Plus, Times
  <1> QED BY <1>1, <1>2, <1>3, <1>4, <1>5, <1>6, <1>7, <1>8, <1>9

\* The wire's lists, of elements without lists of their own and then of the others.
LEMMA WireLists ==
    /\ Part(Wire!write_artifact_list("artifacts"), Wire!read_artifact_list("artifacts"), 4)
    /\ \A name :
          /\ Part(Wire!write_string_list(name), Wire!read_string_list(name), 4)
          /\ Part(Wire!write_identity_list(name), Wire!read_identity_list(name), 4)
    /\ Part(Wire!Many("inputs", Wire!write_input_file),
            Wire!List("inputs", Wire!kMin.input, Wire!kMaxProtocolElements,
                      Wire!read_input_file), 4)
    /\ Part(Wire!Many("requirements", Wire!write_evaluation_requirement),
            Wire!List("requirements", Wire!kMin.requirement, Wire!kMaxProtocolElements,
                      Wire!read_evaluation_requirement), 4)
    /\ Part(Wire!Many("factors", Wire!write_ranking_factor),
            Wire!List("factors", Wire!kMin.factor, Wire!kMaxProtocolRankingFactors,
                      Wire!read_ranking_factor), 4)
    /\ Part(Wire!Many("factors", Wire!write_ranking_factor_value),
            Wire!List("factors", Wire!kMin.factorValue, Wire!kMaxProtocolRankingFactors,
                      Wire!read_ranking_factor_value), 4)
    /\ Part(Wire!Many("excluded", Wire!write_exclusion_entry),
            Wire!List("excluded", Wire!kMin.exclusion, Wire!kMaxProtocolElements,
                      Wire!read_exclusion_entry), 4)
    /\ Part(Wire!Many("entries", Wire!write_retention_entry),
            Wire!List("entries", Wire!kMin.retention, Wire!kMaxProtocolElements,
                      Wire!read_retention_entry), 4)
    /\ Part(Wire!Many("mandatory_evidence", Wire!write_promotion_evidence_summary),
            Wire!List("mandatory_evidence", Wire!kMin.evidence, Wire!kMaxProtocolElements,
                      Wire!read_promotion_evidence_summary), 4)
    /\ Part(Wire!Many("evaluations", Wire!write_evaluation_record),
            Wire!List("evaluations", Wire!kMin.evaluation, Wire!kMaxProtocolElements,
                      Wire!read_evaluation_record), 4)
    /\ Part(Wire!Many("input_files", Wire!Str(<<"first", "second">>)),
            Wire!List("input_files", 2 * Wire!kMin.string, Wire!kMaxProtocolElements,
                      Wire!Str(<<"first", "second">>)), 4)
  <1>1. /\ Wire!kMaxProtocolElements = 4096 /\ Wire!kMaxProtocolArtifacts = 64
        /\ Wire!kMaxProtocolRankingFactors = 16
    BY DEF Wire!kMaxProtocolElements, Wire!kMaxProtocolArtifacts,
           Wire!kMaxProtocolRankingFactors
  <1>2. /\ Wire!kMin.identity = 8 /\ Wire!kMin.string = 4 /\ Wire!kMin.artifact = 16
        /\ Wire!kMin.factor = 12 /\ Wire!kMin.factorValue = 31 /\ Wire!kMin.exclusion = 14
        /\ Wire!kMin.retention = 21 /\ Wire!kMin.evaluation = 97
        /\ Wire!kMin.evidence = 25 /\ Wire!kMin.input = 12 /\ Wire!kMin.requirement = 26
    BY DEF Wire!kMin
  <1>3. /\ Part(Wire!Str(<<"item">>), Wire!Str(<<"item">>), 4)
        /\ Part(Wire!Id(<<"item">>), Wire!Id(<<"item">>), 8)
        /\ Part(Wire!Str(<<"first", "second">>), Wire!Str(<<"first", "second">>), 8)
    <2>1. /\ Part(Wire!Str(<<"item">>), Wire!Str(<<"item">>), Times(4, 1))
          /\ Part(Wire!Id(<<"item">>), Wire!Id(<<"item">>), Times(8, 1))
          /\ Part(Wire!Str(<<"first", "second">>), Wire!Str(<<"first", "second">>), Times(4, 2))
      BY WireParts, Sizes
    <2> QED BY <2>1 DEF Times
  <1>4. /\ Part(Wire!write_ranking_factor, Wire!read_ranking_factor, 12)
        /\ Part(Wire!write_exclusion_entry, Wire!read_exclusion_entry, 14)
        /\ Part(Wire!write_retention_entry, Wire!read_retention_entry, 21)
    BY WireElements, PartLess
  <1>5. \A name, least, ceiling, w, r :
          Part(w, r, least) /\ least >= 4 /\ ceiling \in Nat /\ Roomy(name, ceiling) =>
              Part(Wire!Many(name, w), Wire!List(name, least, ceiling, r), 4)
    BY WireParts
  <1>17. /\ \A name : Roomy(name, Wire!kMaxProtocolElements)
         /\ Roomy("factors", Wire!kMaxProtocolRankingFactors)
         /\ Roomy("artifacts", Wire!kMaxProtocolArtifacts)
    BY <1>1, Limits, WireIsRoomy DEF Roomy
  <1>6. \A name :
          /\ Part(Wire!write_string_list(name), Wire!read_string_list(name), 4)
          /\ Part(Wire!write_identity_list(name), Wire!read_identity_list(name), 4)
    <2> TAKE name
    <2>1. Roomy(name, Wire!kMaxProtocolElements)
      BY WireIsRoomy
    <2> QED BY <2>1, <1>1, <1>2, <1>3, <1>5
            DEF Wire!write_string_list, Wire!read_string_list, Wire!write_identity_list,
                Wire!read_identity_list
  <1>16. Part(Wire!write_artifact_list("artifacts"), Wire!read_artifact_list("artifacts"), 4)
    BY <1>1, <1>2, <1>5, <1>17, WireElements
       DEF Wire!write_artifact_list, Wire!read_artifact_list
  <1>7. Part(Wire!Many("inputs", Wire!write_input_file),
             Wire!List("inputs", Wire!kMin.input, Wire!kMaxProtocolElements,
                       Wire!read_input_file), 4)
    BY <1>1, <1>2, <1>3, <1>4, <1>5, <1>17, WireElements
  <1>8. Part(Wire!Many("requirements", Wire!write_evaluation_requirement),
             Wire!List("requirements", Wire!kMin.requirement, Wire!kMaxProtocolElements,
                       Wire!read_evaluation_requirement), 4)
    BY <1>1, <1>2, <1>3, <1>4, <1>5, <1>17, WireElements
  <1>9. Part(Wire!Many("factors", Wire!write_ranking_factor),
             Wire!List("factors", Wire!kMin.factor, Wire!kMaxProtocolRankingFactors,
                       Wire!read_ranking_factor), 4)
    BY <1>1, <1>2, <1>3, <1>4, <1>5, <1>17, WireElements
  <1>10. Part(Wire!Many("factors", Wire!write_ranking_factor_value),
             Wire!List("factors", Wire!kMin.factorValue, Wire!kMaxProtocolRankingFactors,
                       Wire!read_ranking_factor_value), 4)
    BY <1>1, <1>2, <1>3, <1>4, <1>5, <1>17, WireElements
  <1>11. Part(Wire!Many("excluded", Wire!write_exclusion_entry),
             Wire!List("excluded", Wire!kMin.exclusion, Wire!kMaxProtocolElements,
                       Wire!read_exclusion_entry), 4)
    BY <1>1, <1>2, <1>3, <1>4, <1>5, <1>17, WireElements
  <1>12. Part(Wire!Many("entries", Wire!write_retention_entry),
             Wire!List("entries", Wire!kMin.retention, Wire!kMaxProtocolElements,
                       Wire!read_retention_entry), 4)
    BY <1>1, <1>2, <1>3, <1>4, <1>5, <1>17, WireElements
  <1>13. Part(Wire!Many("mandatory_evidence", Wire!write_promotion_evidence_summary),
             Wire!List("mandatory_evidence", Wire!kMin.evidence, Wire!kMaxProtocolElements,
                       Wire!read_promotion_evidence_summary), 4)
    BY <1>1, <1>2, <1>3, <1>4, <1>5, <1>17, WireElements
  <1>14. Part(Wire!Many("evaluations", Wire!write_evaluation_record),
             Wire!List("evaluations", Wire!kMin.evaluation, Wire!kMaxProtocolElements,
                       Wire!read_evaluation_record), 4)
    BY <1>1, <1>2, <1>3, <1>4, <1>5, <1>17, WireElements
  <1>15. Part(Wire!Many("input_files", Wire!Str(<<"first", "second">>)),
             Wire!List("input_files", 2 * Wire!kMin.string, Wire!kMaxProtocolElements,
                       Wire!Str(<<"first", "second">>)), 4)
    BY <1>1, <1>2, <1>3, <1>4, <1>5, <1>17, WireElements
  <1> QED BY <1>6, <1>7, <1>8, <1>9, <1>10, <1>11, <1>12, <1>13, <1>14, <1>15, <1>16

\* The two elements that hold lists themselves.
LEMMA WireNested ==
    /\ Part(Wire!Many("ranking", Wire!write_ranking_entry),
            Wire!List("ranking", Wire!kMin.ranking, Wire!kMaxProtocolElements,
                      Wire!read_ranking_entry), 4)
    /\ Part(Wire!Many("nodes", Wire!write_lineage_node),
            Wire!List("nodes", Wire!kMin.lineage, Wire!kMaxProtocolElements,
                      Wire!read_lineage_node), 4)
  <1>1. Part(Wire!write_ranking_entry, Wire!read_ranking_entry, 40)
    <2>1. Part(Wire!write_ranking_entry, Wire!read_ranking_entry,
            Plus(Plus(Plus(Plus(Plus(Plus(Times(12, 1), Times(4, 1)), Times(8, 1)), 4),
            Times(8, 1)), Times(4, 1)), Times(4, 1)))
      BY WireParts, WireLists, PartConcat, Sizes
         DEF Wire!write_ranking_entry, Wire!read_ranking_entry
    <2>2. Part(Wire!write_ranking_entry, Wire!read_ranking_entry, 44)
      BY <2>1 DEF Plus, Times
    <2> QED BY <2>2, PartLess
  <1>2. Part(Wire!write_lineage_node, Wire!read_lineage_node, 45)
    <2>1. Part(Wire!write_lineage_node, Wire!read_lineage_node,
            Plus(Plus(Plus(Plus(Plus(Plus(Plus(Times(12, 1), Times(8, 1)), 4), Times(4, 1)),
            Times(8, 1)), Times(1, 1)), Times(8, 1)), Times(4, 1)))
      BY WireParts, WireLists, PartConcat, Sizes
         DEF Wire!write_lineage_node, Wire!read_lineage_node
    <2>2. Part(Wire!write_lineage_node, Wire!read_lineage_node, 49)
      BY <2>1 DEF Plus, Times
    <2> QED BY <2>2, PartLess
  <1>3. /\ Wire!kMaxProtocolElements = 4096 /\ Wire!kMin.ranking = 40 /\ Wire!kMin.lineage = 45
    BY DEF Wire!kMaxProtocolElements, Wire!kMin
  <1>4. \A name, least, ceiling, w, r :
          Part(w, r, least) /\ least >= 4 /\ ceiling \in Nat /\ Roomy(name, ceiling) =>
              Part(Wire!Many(name, w), Wire!List(name, least, ceiling, r), 4)
    BY WireParts
  <1> QED BY <1>1, <1>2, <1>3, <1>4, WireIsRoomy

\* The same without their sizes, where only the order counts.
LEMMA WirePieces ==
    /\ \A names : Listing(names) =>
        /\ Agrees(Wire!Id(names), Wire!Id(names))
        /\ Agrees(Wire!Opt(names), Wire!Opt(names))
        /\ Agrees(Wire!Gen(names), Wire!Gen(names))
        /\ Agrees(Wire!Epoch(names), Wire!Epoch(names))
        /\ Agrees(Wire!U16(names), Wire!U16(names))
        /\ Agrees(Wire!U32(names), Wire!U32(names))
        /\ Agrees(Wire!U64(names), Wire!U64(names))
        /\ Agrees(Wire!F64(names), Wire!F64(names))
        /\ Agrees(Wire!Bool(names), Wire!Bool(names))
        /\ Agrees(Wire!Enum(names), Wire!Enum(names))
        /\ Agrees(Wire!Str(names), Wire!Str(names))
        /\ Agrees(Wire!Refs(names), Wire!Refs(names))
    /\ \A name : Agrees(Wire!OptRef(name), Wire!OptRef(name))
  <1>1. \A names : Listing(names) => Sized(names, Len(names))
    BY DEF Listing, Sized
  <1> QED BY <1>1, WireParts DEF Part

\* A part agrees.
LEMMA PartAgrees == \A w, r, b : Part(w, r, b) => Agrees(w, r)
  BY DEF Part

\* The records messages are made of.
LEMMA WireRecords ==
    /\ Agrees(Wire!write_budget_limits, Wire!read_budget_limits)
    /\ Agrees(Wire!write_task_spec, Wire!read_task_spec)
    /\ Agrees(Wire!write_policy, Wire!read_policy)
    /\ Agrees(Wire!write_population_spec, Wire!read_population_spec)
    /\ Agrees(Wire!write_population_record, Wire!read_population_record)
    /\ Agrees(Wire!write_candidate_record, Wire!read_candidate_record)
    /\ Agrees(Wire!write_statistics, Wire!read_statistics)
    /\ Agrees(Wire!write_selection_decision, Wire!read_selection_decision)
    /\ Agrees(Wire!write_retention_decision, Wire!read_retention_decision)
    /\ Agrees(Wire!write_promotion_request, Wire!read_promotion_request)
    /\ Agrees(Wire!write_promotion_receipt, Wire!read_promotion_receipt)
    /\ Agrees(Wire!write_worker_session_authority, Wire!read_worker_session_authority)
    /\ Agrees(Wire!write_worker_operation_authority, Wire!read_worker_operation_authority)
    /\ Agrees(Wire!write_controller_session_authority, Wire!read_controller_session_authority)
    /\ Agrees(Wire!write_controller_operation_authority,
              Wire!read_controller_operation_authority)
    /\ Agrees(Wire!write_attempt_package, Wire!read_attempt_package)
    /\ Agrees(Wire!write_evaluation_record, Wire!read_evaluation_record)
    /\ Agrees(Wire!write_lineage_node, Wire!read_lineage_node)
  <1>1. Agrees(Wire!write_budget_limits, Wire!read_budget_limits)
    BY WirePieces, AgreesConcat DEF Wire!write_budget_limits, Wire!read_budget_limits, Listing
  <1>2. Agrees(Wire!write_task_spec, Wire!read_task_spec)
    BY WirePieces, AgreesConcat, WireLists, WireNested, PartAgrees, <1>1
       DEF Wire!write_task_spec, Wire!read_task_spec, Listing
  <1>3. Agrees(Wire!write_policy, Wire!read_policy)
    BY WirePieces, AgreesConcat, WireLists, WireNested, PartAgrees, <1>1
       DEF Wire!write_policy, Wire!read_policy, Listing
  <1>4. Agrees(Wire!write_population_spec, Wire!read_population_spec)
    BY WirePieces, AgreesConcat
       DEF Wire!write_population_spec, Wire!read_population_spec, Listing
  <1>5. Agrees(Wire!write_population_record, Wire!read_population_record)
    BY WirePieces, AgreesConcat, WireLists, WireNested, PartAgrees
       DEF Wire!write_population_record, Wire!read_population_record, Listing
  <1>6. Agrees(Wire!write_candidate_record, Wire!read_candidate_record)
    <2>1. /\ Agrees(Wire!write_identity_list("parents"), Wire!read_identity_list("parents"))
          /\ Agrees(Wire!write_artifact_list("artifacts"),
                    Wire!read_artifact_list("artifacts"))
      BY WireLists, PartAgrees
    <2>2. /\ Agrees(Wire!Refs(<<"id", "population", "task">>),
                    Wire!Refs(<<"id", "population", "task">>))
          /\ Agrees(Wire!Id(<<"lineage">>), Wire!Id(<<"lineage">>))
          /\ Agrees(Wire!U32(<<"depth">>), Wire!U32(<<"depth">>))
          /\ Agrees(Wire!Opt(<<"producer_worker", "producer_boot">>),
                    Wire!Opt(<<"producer_worker", "producer_boot">>))
          /\ Agrees(Wire!OptRef("attempt"), Wire!OptRef("attempt"))
          /\ Agrees(Wire!Opt(<<"assignment">>), Wire!Opt(<<"assignment">>))
          /\ Agrees(Wire!Epoch(<<"created", "state_changed">>),
                    Wire!Epoch(<<"created", "state_changed">>))
          /\ Agrees(Wire!Enum(<<"state">>), Wire!Enum(<<"state">>))
          /\ Agrees(Wire!Str(<<"artifact_set_digest">>), Wire!Str(<<"artifact_set_digest">>))
          /\ Agrees(Wire!U32(<<"attempt_count">>), Wire!U32(<<"attempt_count">>))
          /\ Agrees(Wire!Gen(<<"evidence", "evaluation", "selection">>),
                    Wire!Gen(<<"evidence", "evaluation", "selection">>))
          /\ Agrees(Wire!Bool(<<"selected", "retained", "promotion_eligible", "promotion_requested">>),
                    Wire!Bool(<<"selected", "retained", "promotion_eligible", "promotion_requested">>))
          /\ Agrees(Wire!Str(<<"diversity_key", "failure_reason", "superseded_by_reason">>),
                    Wire!Str(<<"diversity_key", "failure_reason", "superseded_by_reason">>))
      BY WirePieces DEF Listing
    <2> QED BY <2>1, <2>2, AgreesConcat
            DEF Wire!write_candidate_record, Wire!read_candidate_record
  <1>7. Agrees(Wire!write_statistics, Wire!read_statistics)
    BY WirePieces, AgreesConcat DEF Wire!write_statistics, Wire!read_statistics, Listing
  <1>8. Agrees(Wire!write_selection_decision, Wire!read_selection_decision)
    <2>1. /\ Agrees(Wire!Many("ranking", Wire!write_ranking_entry),
                    Wire!List("ranking", Wire!kMin.ranking, Wire!kMaxProtocolElements,
                              Wire!read_ranking_entry))
          /\ Agrees(Wire!Many("excluded", Wire!write_exclusion_entry),
                    Wire!List("excluded", Wire!kMin.exclusion, Wire!kMaxProtocolElements,
                              Wire!read_exclusion_entry))
      BY WireLists, WireNested, PartAgrees
    <2> QED BY <2>1, WirePieces, AgreesConcat
            DEF Wire!write_selection_decision, Wire!read_selection_decision, Listing
  <1>9. Agrees(Wire!write_retention_decision, Wire!read_retention_decision)
    BY WirePieces, AgreesConcat, WireLists, WireNested, PartAgrees
       DEF Wire!write_retention_decision, Wire!read_retention_decision, Listing
  <1>10. Agrees(Wire!write_promotion_request, Wire!read_promotion_request)
    BY WirePieces, AgreesConcat, WireLists, WireNested, PartAgrees
       DEF Wire!write_promotion_request, Wire!read_promotion_request, Listing
  <1>11. Agrees(Wire!write_promotion_receipt, Wire!read_promotion_receipt)
    BY WirePieces, AgreesConcat
       DEF Wire!write_promotion_receipt, Wire!read_promotion_receipt, Listing
  <1>12. Agrees(Wire!write_worker_session_authority, Wire!read_worker_session_authority)
    BY WirePieces, AgreesConcat
       DEF Wire!write_worker_session_authority, Wire!read_worker_session_authority, Listing
  <1>13. Agrees(Wire!write_worker_operation_authority, Wire!read_worker_operation_authority)
    BY WirePieces, AgreesConcat, <1>12
       DEF Wire!write_worker_operation_authority, Wire!read_worker_operation_authority, Listing
  <1>14. Agrees(Wire!write_controller_session_authority, Wire!read_controller_session_authority)
    BY WirePieces, AgreesConcat
       DEF Wire!write_controller_session_authority, Wire!read_controller_session_authority,
         Listing
  <1>15. Agrees(Wire!write_controller_operation_authority,
                Wire!read_controller_operation_authority)
    BY WirePieces, AgreesConcat, <1>14
       DEF Wire!write_controller_operation_authority, Wire!read_controller_operation_authority,
         Listing
  <1>16. Agrees(Wire!write_attempt_package, Wire!read_attempt_package)
    <2>1. /\ Agrees(Wire!write_string_list("required_outputs"),
                    Wire!read_string_list("required_outputs"))
          /\ Agrees(Wire!Many("input_files", Wire!Str(<<"first", "second">>)),
                    Wire!List("input_files", 2 * Wire!kMin.string, Wire!kMaxProtocolElements,
                              Wire!Str(<<"first", "second">>)))
      BY WireLists, PartAgrees
    <2>2. /\ Agrees(Wire!Refs(<<"attempt">>), Wire!Refs(<<"attempt">>))
          /\ Agrees(Wire!Id(<<"assignment">>), Wire!Id(<<"assignment">>))
          /\ Agrees(Wire!Refs(<<"population", "task", "candidate">>),
                    Wire!Refs(<<"population", "task", "candidate">>))
          /\ Agrees(Wire!Str(<<"task_name", "objective">>),
                    Wire!Str(<<"task_name", "objective">>))
          /\ Agrees(Wire!Str(<<"workspace_root", "reference_strategy">>),
                    Wire!Str(<<"workspace_root", "reference_strategy">>))
      BY WirePieces DEF Listing
    <2> QED BY <2>1, <2>2, AgreesConcat
            DEF Wire!write_attempt_package, Wire!read_attempt_package
  <1>17. Agrees(Wire!write_evaluation_record, Wire!read_evaluation_record)
    BY WireElements, PartAgrees
  <1>18. Agrees(Wire!write_lineage_node, Wire!read_lineage_node)
    BY WirePieces, AgreesConcat, WireLists, WireNested, PartAgrees
       DEF Wire!write_lineage_node, Wire!read_lineage_node, Listing
  <1> QED BY <1>1, <1>2, <1>3, <1>4, <1>5, <1>6, <1>7, <1>8, <1>9, <1>10, <1>11,
            <1>12, <1>13, <1>14, <1>15, <1>16, <1>17, <1>18

\* Writer and reader of every message, by the groups of protocol.cpp.
LEMMA SessionAgrees ==
    \A d \in DOMAIN Wire!SessionWrites : Agrees(Wire!SessionWrites[d], Wire!SessionReads[d])
  <1>1. Agrees(Wire!SessionWrites["Hello"], Wire!SessionReads["Hello"])
    BY WirePieces, AgreesConcat DEF Wire!SessionWrites, Wire!SessionReads, Listing
  <1>2. Agrees(Wire!SessionWrites["HelloAck"], Wire!SessionReads["HelloAck"])
    BY WirePieces, AgreesConcat DEF Wire!SessionWrites, Wire!SessionReads, Listing
  <1>3. Agrees(Wire!SessionWrites["WorkerReady"], Wire!SessionReads["WorkerReady"])
    BY WirePieces, AgreesConcat, WireRecords DEF Wire!SessionWrites, Wire!SessionReads, Listing
  <1>4. Agrees(Wire!SessionWrites["Revalidate"], Wire!SessionReads["Revalidate"])
    BY WirePieces, AgreesConcat, WireRecords DEF Wire!SessionWrites, Wire!SessionReads, Listing
  <1>5. Agrees(Wire!SessionWrites["RevalidateAck"], Wire!SessionReads["RevalidateAck"])
    BY WirePieces, AgreesConcat, WireRecords DEF Wire!SessionWrites, Wire!SessionReads, Listing
  <1>6. Agrees(Wire!SessionWrites["Heartbeat"], Wire!SessionReads["Heartbeat"])
    BY WirePieces, AgreesConcat, WireRecords DEF Wire!SessionWrites, Wire!SessionReads, Listing
  <1>7. DOMAIN Wire!SessionWrites = {"Hello", "HelloAck", "WorkerReady", "Revalidate",
         "RevalidateAck", "Heartbeat"}
    BY DEF Wire!SessionWrites
  <1> QED BY <1>1, <1>2, <1>3, <1>4, <1>5, <1>6, <1>7

\* Tasks, policies and the creation of populations.
LEMMA DefinitionAgrees ==
    \A d \in DOMAIN Wire!DefinitionWrites : Agrees(Wire!DefinitionWrites[d],
             Wire!DefinitionReads[d])
  <1>1. Agrees(Wire!DefinitionWrites["CreateTask"], Wire!DefinitionReads["CreateTask"])
    BY AgreesConcat, WireRecords DEF Wire!DefinitionWrites, Wire!DefinitionReads
  <1>2. Agrees(Wire!DefinitionWrites["TaskCreated"], Wire!DefinitionReads["TaskCreated"])
    BY WirePieces, AgreesConcat DEF Wire!DefinitionWrites, Wire!DefinitionReads, Listing
  <1>3. Agrees(Wire!DefinitionWrites["DefinePolicy"], Wire!DefinitionReads["DefinePolicy"])
    BY AgreesConcat, WireRecords DEF Wire!DefinitionWrites, Wire!DefinitionReads
  <1>4. Agrees(Wire!DefinitionWrites["PolicyDefined"], Wire!DefinitionReads["PolicyDefined"])
    BY WirePieces, AgreesConcat DEF Wire!DefinitionWrites, Wire!DefinitionReads, Listing
  <1>5. Agrees(Wire!DefinitionWrites["CreatePopulation"],
               Wire!DefinitionReads["CreatePopulation"])
    BY AgreesConcat, WireRecords DEF Wire!DefinitionWrites, Wire!DefinitionReads
  <1>6. Agrees(Wire!DefinitionWrites["PopulationCreated"],
               Wire!DefinitionReads["PopulationCreated"])
    BY WirePieces DEF Wire!DefinitionWrites, Wire!DefinitionReads, Listing
  <1>7. Agrees(Wire!DefinitionWrites["StartPopulation"],
               Wire!DefinitionReads["StartPopulation"])
    BY WireRecords DEF Wire!DefinitionWrites, Wire!DefinitionReads
  <1>8. DOMAIN Wire!DefinitionWrites = {"CreateTask", "TaskCreated", "DefinePolicy",
         "PolicyDefined", "CreatePopulation", "PopulationCreated", "StartPopulation"}
    BY DEF Wire!DefinitionWrites
  <1> QED BY <1>1, <1>2, <1>3, <1>4, <1>5, <1>6, <1>7, <1>8

\* Commands to a population.
LEMMA PopulationAgrees ==
    \A d \in DOMAIN Wire!PopulationWrites : Agrees(Wire!PopulationWrites[d],
             Wire!PopulationReads[d])
  <1>1. Agrees(Wire!PopulationWrites["PopulationState"],
               Wire!PopulationReads["PopulationState"])
    BY WirePieces, AgreesConcat DEF Wire!PopulationWrites, Wire!PopulationReads, Listing
  <1>2. Agrees(Wire!PopulationWrites["ClosePopulation"],
               Wire!PopulationReads["ClosePopulation"])
    BY WireRecords DEF Wire!PopulationWrites, Wire!PopulationReads
  <1>3. Agrees(Wire!PopulationWrites["AdvancePopulation"],
               Wire!PopulationReads["AdvancePopulation"])
    BY WirePieces, AgreesConcat, WireRecords
       DEF Wire!PopulationWrites, Wire!PopulationReads, Listing
  <1>4. Agrees(Wire!PopulationWrites["PopulationAdvanced"],
               Wire!PopulationReads["PopulationAdvanced"])
    BY WirePieces, AgreesConcat DEF Wire!PopulationWrites, Wire!PopulationReads, Listing
  <1>5. Agrees(Wire!PopulationWrites["RequestSelection"],
               Wire!PopulationReads["RequestSelection"])
    BY WireRecords DEF Wire!PopulationWrites, Wire!PopulationReads
  <1>6. Agrees(Wire!PopulationWrites["RequestRetention"],
               Wire!PopulationReads["RequestRetention"])
    BY WireRecords DEF Wire!PopulationWrites, Wire!PopulationReads
  <1>7. Agrees(Wire!PopulationWrites["RequestPromotion"],
               Wire!PopulationReads["RequestPromotion"])
    BY WireRecords DEF Wire!PopulationWrites, Wire!PopulationReads
  <1>8. Agrees(Wire!PopulationWrites["RequestRevalidation"],
               Wire!PopulationReads["RequestRevalidation"])
    BY WirePieces, AgreesConcat, WireRecords
       DEF Wire!PopulationWrites, Wire!PopulationReads, Listing
  <1>9. DOMAIN Wire!PopulationWrites = {"PopulationState", "ClosePopulation",
         "AdvancePopulation", "PopulationAdvanced", "RequestSelection", "RequestRetention",
         "RequestPromotion", "RequestRevalidation"}
    BY DEF Wire!PopulationWrites
  <1> QED BY <1>1, <1>2, <1>3, <1>4, <1>5, <1>6, <1>7, <1>8, <1>9

\* Cancellation.
LEMMA CancelAgrees ==
    \A d \in DOMAIN Wire!CancelWrites : Agrees(Wire!CancelWrites[d], Wire!CancelReads[d])
  <1>1. Agrees(Wire!CancelWrites["CancelAttemptRequest"],
               Wire!CancelReads["CancelAttemptRequest"])
    BY WirePieces, AgreesConcat, WireRecords DEF Wire!CancelWrites, Wire!CancelReads, Listing
  <1>2. Agrees(Wire!CancelWrites["AttemptCancelled"], Wire!CancelReads["AttemptCancelled"])
    BY WirePieces, AgreesConcat DEF Wire!CancelWrites, Wire!CancelReads, Listing
  <1>3. DOMAIN Wire!CancelWrites = {"CancelAttemptRequest", "AttemptCancelled"}
    BY DEF Wire!CancelWrites
  <1> QED BY <1>1, <1>2, <1>3

\* Attempts, publications and reports of workers.
LEMMA AttemptAgrees ==
    \A d \in DOMAIN Wire!AttemptWrites : Agrees(Wire!AttemptWrites[d], Wire!AttemptReads[d])
  <1>1. Agrees(Wire!AttemptWrites["AssignAttempt"], Wire!AttemptReads["AssignAttempt"])
    BY AgreesConcat, WireRecords DEF Wire!AttemptWrites, Wire!AttemptReads
  <1>2. Agrees(Wire!AttemptWrites["AttemptAccepted"], Wire!AttemptReads["AttemptAccepted"])
    BY WireRecords DEF Wire!AttemptWrites, Wire!AttemptReads
  <1>3. Agrees(Wire!AttemptWrites["AttemptResult"], Wire!AttemptReads["AttemptResult"])
    BY WirePieces, AgreesConcat, WireRecords DEF Wire!AttemptWrites, Wire!AttemptReads, Listing
  <1>4. Agrees(Wire!AttemptWrites["CandidatePublish"], Wire!AttemptReads["CandidatePublish"])
    BY WirePieces, AgreesConcat, WireRecords, WireLists, PartAgrees
       DEF Wire!AttemptWrites, Wire!AttemptReads, Listing
  <1>5. Agrees(Wire!AttemptWrites["PublishAck"], Wire!AttemptReads["PublishAck"])
    BY WirePieces, AgreesConcat DEF Wire!AttemptWrites, Wire!AttemptReads, Listing
  <1>6. Agrees(Wire!AttemptWrites["AttemptFailed"], Wire!AttemptReads["AttemptFailed"])
    BY WirePieces, AgreesConcat, WireRecords DEF Wire!AttemptWrites, Wire!AttemptReads, Listing
  <1>7. Agrees(Wire!AttemptWrites["EvaluationReport"], Wire!AttemptReads["EvaluationReport"])
    BY WireRecords DEF Wire!AttemptWrites, Wire!AttemptReads
  <1>8. Agrees(Wire!AttemptWrites["SelfReport"], Wire!AttemptReads["SelfReport"])
    BY WirePieces, AgreesConcat, WireRecords DEF Wire!AttemptWrites, Wire!AttemptReads, Listing
  <1>9. DOMAIN Wire!AttemptWrites = {"AssignAttempt", "AttemptAccepted", "AttemptResult",
         "CandidatePublish", "PublishAck", "AttemptFailed", "EvaluationReport", "SelfReport"}
    BY DEF Wire!AttemptWrites
  <1> QED BY <1>1, <1>2, <1>3, <1>4, <1>5, <1>6, <1>7, <1>8, <1>9

\* Queries of populations, candidates and lineage.
LEMMA QueryAgrees ==
    \A d \in DOMAIN Wire!QueryWrites : Agrees(Wire!QueryWrites[d], Wire!QueryReads[d])
  <1>1. Agrees(Wire!QueryWrites["QueryPopulation"], Wire!QueryReads["QueryPopulation"])
    BY WirePieces, AgreesConcat, WireRecords DEF Wire!QueryWrites, Wire!QueryReads, Listing
  <1>2. Agrees(Wire!QueryWrites["PopulationDetail"], Wire!QueryReads["PopulationDetail"])
    BY WirePieces, AgreesConcat, WireRecords, WireLists, PartAgrees
       DEF Wire!QueryWrites, Wire!QueryReads, Listing
  <1>3. Agrees(Wire!QueryWrites["QueryCandidate"], Wire!QueryReads["QueryCandidate"])
    BY WirePieces, AgreesConcat, WireRecords DEF Wire!QueryWrites, Wire!QueryReads, Listing
  <1>4. Agrees(Wire!QueryWrites["CandidateDetail"], Wire!QueryReads["CandidateDetail"])
    BY AgreesConcat, WireRecords, WireLists, PartAgrees DEF Wire!QueryWrites, Wire!QueryReads
  <1>5. Agrees(Wire!QueryWrites["QueryLineage"], Wire!QueryReads["QueryLineage"])
    BY WirePieces, AgreesConcat, WireRecords DEF Wire!QueryWrites, Wire!QueryReads, Listing
  <1>6. Agrees(Wire!QueryWrites["LineageDetail"], Wire!QueryReads["LineageDetail"])
    BY WireLists, WireNested, PartAgrees DEF Wire!QueryWrites, Wire!QueryReads
  <1>7. DOMAIN Wire!QueryWrites = {"QueryPopulation", "PopulationDetail", "QueryCandidate",
         "CandidateDetail", "QueryLineage", "LineageDetail"}
    BY DEF Wire!QueryWrites
  <1> QED BY <1>1, <1>2, <1>3, <1>4, <1>5, <1>6, <1>7

\* Statistics, audit and decisions.
LEMMA ReportAgrees ==
    \A d \in DOMAIN Wire!ReportWrites : Agrees(Wire!ReportWrites[d], Wire!ReportReads[d])
  <1>1. Agrees(Wire!ReportWrites["QueryStatistics"], Wire!ReportReads["QueryStatistics"])
    BY WireRecords DEF Wire!ReportWrites, Wire!ReportReads
  <1>2. Agrees(Wire!ReportWrites["StatisticsDetail"], Wire!ReportReads["StatisticsDetail"])
    BY WirePieces, AgreesConcat, WireRecords DEF Wire!ReportWrites, Wire!ReportReads, Listing
  <1>3. Agrees(Wire!ReportWrites["QueryAudit"], Wire!ReportReads["QueryAudit"])
    BY WireRecords DEF Wire!ReportWrites, Wire!ReportReads
  <1>4. Agrees(Wire!ReportWrites["AuditDetail"], Wire!ReportReads["AuditDetail"])
    BY WireLists, PartAgrees DEF Wire!ReportWrites, Wire!ReportReads
  <1>5. Agrees(Wire!ReportWrites["SelectionDecision"], Wire!ReportReads["SelectionDecision"])
    BY WirePieces, AgreesConcat, WireRecords DEF Wire!ReportWrites, Wire!ReportReads, Listing
  <1>6. Agrees(Wire!ReportWrites["RetentionDecision"], Wire!ReportReads["RetentionDecision"])
    BY WireRecords DEF Wire!ReportWrites, Wire!ReportReads
  <1>7. Agrees(Wire!ReportWrites["PromotionRequest"], Wire!ReportReads["PromotionRequest"])
    BY AgreesConcat, WireRecords DEF Wire!ReportWrites, Wire!ReportReads
  <1>8. DOMAIN Wire!ReportWrites = {"QueryStatistics", "StatisticsDetail", "QueryAudit",
         "AuditDetail", "SelectionDecision", "RetentionDecision", "PromotionRequest"}
    BY DEF Wire!ReportWrites
  <1> QED BY <1>1, <1>2, <1>3, <1>4, <1>5, <1>6, <1>7, <1>8

\* Acknowledgements, errors and shutdown.
LEMMA ControlAgrees ==
    \A d \in DOMAIN Wire!ControlWrites : Agrees(Wire!ControlWrites[d], Wire!ControlReads[d])
  <1>1. Agrees(Wire!ControlWrites["ShutdownCoordinator"],
               Wire!ControlReads["ShutdownCoordinator"])
    BY WireRecords DEF Wire!ControlWrites, Wire!ControlReads
  <1>2. Agrees(Wire!ControlWrites["ControlAck"], Wire!ControlReads["ControlAck"])
    BY WirePieces, AgreesConcat DEF Wire!ControlWrites, Wire!ControlReads, Listing
  <1>3. Agrees(Wire!ControlWrites["ErrorResponse"], Wire!ControlReads["ErrorResponse"])
    BY WirePieces, AgreesConcat DEF Wire!ControlWrites, Wire!ControlReads, Listing
  <1>4. Agrees(Wire!ControlWrites["RevalidationApplied"],
               Wire!ControlReads["RevalidationApplied"])
    BY WirePieces, AgreesConcat DEF Wire!ControlWrites, Wire!ControlReads, Listing
  <1>5. DOMAIN Wire!ControlWrites = {"ShutdownCoordinator", "ControlAck", "ErrorResponse",
         "RevalidationApplied"}
    BY DEF Wire!ControlWrites
  <1> QED BY <1>1, <1>2, <1>3, <1>4, <1>5

\* The values that have encodings of their own.
LEMMA ValueAgrees ==
    \A d \in DOMAIN Wire!ValueWrites : Agrees(Wire!ValueWrites[d], Wire!ValueReads[d])
  <1>1. Agrees(Wire!ValueWrites["evaluation_record"], Wire!ValueReads["evaluation_record"])
    BY WireRecords DEF Wire!ValueWrites, Wire!ValueReads
  <1>2. Agrees(Wire!ValueWrites["selection_decision"], Wire!ValueReads["selection_decision"])
    BY WireRecords DEF Wire!ValueWrites, Wire!ValueReads
  <1>3. Agrees(Wire!ValueWrites["retention_decision"], Wire!ValueReads["retention_decision"])
    BY WireRecords DEF Wire!ValueWrites, Wire!ValueReads
  <1>4. Agrees(Wire!ValueWrites["promotion_request"], Wire!ValueReads["promotion_request"])
    BY WireRecords DEF Wire!ValueWrites, Wire!ValueReads
  <1>5. Agrees(Wire!ValueWrites["promotion_receipt"], Wire!ValueReads["promotion_receipt"])
    BY WireRecords DEF Wire!ValueWrites, Wire!ValueReads
  <1>6. DOMAIN Wire!ValueWrites = {"evaluation_record", "selection_decision",
         "retention_decision", "promotion_request", "promotion_receipt"}
    BY DEF Wire!ValueWrites
  <1> QED BY <1>1, <1>2, <1>3, <1>4, <1>5, <1>6

-----------------------------------------------------------------------------
(* The records of persistence.cpp. *)

\* What the elements of a snapshot's lists take at least: a ranking value less than
\* kMinRankingValueBytes, an evidence summary less than kMinEvidenceSummaryBytes.
LEMMA SnapshotElements ==
    /\ Part(Snapshot!write_artifact_ref, Snapshot!read_artifact_ref, 16)
    /\ Part(Snapshot!write_input_file, Snapshot!read_input_file, 12)
    /\ Part(Snapshot!write_requirement, Snapshot!read_requirement, 26)
    /\ Part(Snapshot!write_ranking_factor, Snapshot!read_ranking_factor, 14)
    /\ Part(Snapshot!write_ranking_value, Snapshot!read_ranking_value, 31)
    /\ Part(Snapshot!write_exclusion_entry, Snapshot!read_exclusion_entry, 18)
    /\ Part(Snapshot!write_retention_entry, Snapshot!read_retention_entry, 25)
    /\ Part(Snapshot!write_evidence_summary, Snapshot!read_evidence_summary, 25)
  <1>1. Part(Snapshot!write_artifact_ref, Snapshot!read_artifact_ref, 16)
    <2>1. Part(Snapshot!write_artifact_ref, Snapshot!read_artifact_ref, Plus(Plus(Times(4, 1),
            Times(8, 1)), Times(4, 1)))
      BY SnapshotParts, PartConcat, Sizes
         DEF Snapshot!write_artifact_ref, Snapshot!read_artifact_ref
    <2> QED BY <2>1 DEF Plus, Times
  <1>2. Part(Snapshot!write_input_file, Snapshot!read_input_file, 12)
    <2>1. Part(Snapshot!write_input_file, Snapshot!read_input_file, Times(4, 3))
      BY SnapshotParts, PartConcat, Sizes
         DEF Snapshot!write_input_file, Snapshot!read_input_file
    <2> QED BY <2>1 DEF Plus, Times
  <1>3. Part(Snapshot!write_requirement, Snapshot!read_requirement, 26)
    <2>1. Part(Snapshot!write_requirement, Snapshot!read_requirement, Plus(Plus(Plus(Times(1,
            1), Times(4, 2)), Times(1, 1)), Times(8, 2)))
      BY SnapshotParts, PartConcat, Sizes
         DEF Snapshot!write_requirement, Snapshot!read_requirement
    <2> QED BY <2>1 DEF Plus, Times
  <1>4. Part(Snapshot!write_ranking_factor, Snapshot!read_ranking_factor, 14)
    <2>1. Part(Snapshot!write_ranking_factor, Snapshot!read_ranking_factor, Plus(Plus(Times(1,
            2), Times(8, 1)), Times(4, 1)))
      BY SnapshotParts, PartConcat, Sizes
         DEF Snapshot!write_ranking_factor, Snapshot!read_ranking_factor
    <2> QED BY <2>1 DEF Plus, Times
  <1>5. Part(Snapshot!write_ranking_value, Snapshot!read_ranking_value, 31)
    <2>1. Part(Snapshot!write_ranking_value, Snapshot!read_ranking_value,
            Plus(Plus(Plus(Plus(Times(4, 1), Times(1, 2)), Times(8, 2)), Times(1, 1)),
            Times(8, 1)))
      BY SnapshotParts, PartConcat, Sizes
         DEF Snapshot!write_ranking_value, Snapshot!read_ranking_value
    <2> QED BY <2>1 DEF Plus, Times
  <1>6. Part(Snapshot!write_exclusion_entry, Snapshot!read_exclusion_entry, 18)
    <2>1. Part(Snapshot!write_exclusion_entry, Snapshot!read_exclusion_entry,
            Plus(Plus(Times(12, 1), Times(1, 2)), Times(4, 1)))
      BY SnapshotParts, PartConcat, Sizes
         DEF Snapshot!write_exclusion_entry, Snapshot!read_exclusion_entry
    <2> QED BY <2>1 DEF Plus, Times
  <1>7. Part(Snapshot!write_retention_entry, Snapshot!read_retention_entry, 25)
    <2>1. Part(Snapshot!write_retention_entry, Snapshot!read_retention_entry,
            Plus(Plus(Plus(Times(12, 1), Times(1, 1)), Times(4, 1)), Times(4, 2)))
      BY SnapshotParts, PartConcat, Sizes
         DEF Snapshot!write_retention_entry, Snapshot!read_retention_entry
    <2> QED BY <2>1 DEF Plus, Times
  <1>8. Part(Snapshot!write_evidence_summary, Snapshot!read_evidence_summary, 25)
    <2>1. Part(Snapshot!write_evidence_summary, Snapshot!read_evidence_summary,
            Plus(Plus(Plus(Plus(Plus(Times(4, 1), Times(1, 3)), Times(1, 2)), Times(8, 1)),
            Times(4, 1)), Times(4, 1)))
      BY SnapshotParts, PartConcat, Sizes
         DEF Snapshot!write_evidence_summary, Snapshot!read_evidence_summary
    <2> QED BY <2>1 DEF Plus, Times
  <1> QED BY <1>1, <1>2, <1>3, <1>4, <1>5, <1>6, <1>7, <1>8

\* The lists of a snapshot: two of them only agree, their elements may be too
\* small for their readers.
LEMMA SnapshotLists ==
    /\ \A name \in IdLists :
          Part(Snapshot!id_list(name), Snapshot!read_candidate_ids(name), 4)
    /\ \A name : \A ceiling \in Nat : Roomy(name, ceiling) =>
          Part(Snapshot!string_list(name), Snapshot!read_strings(name, ceiling), 4)
    /\ Part(Snapshot!string_list("closure_blockers"),
            Snapshot!read_strings("closure_blockers", Snapshot!kMaxClosureBlockers), 4)
    /\ Part(Snapshot!Many("inputs", Snapshot!write_input_file),
            Snapshot!List("inputs", Snapshot!kMin.input, Snapshot!kMaxInputFiles,
                          Snapshot!read_input_file), 4)
    /\ Part(Snapshot!Many("requirements", Snapshot!write_requirement),
            Snapshot!List("requirements", Snapshot!kMin.requirement,
                     Snapshot!kMaxEvaluationRequirements,
                          Snapshot!read_requirement), 4)
    /\ Part(Snapshot!Many("factors", Snapshot!write_ranking_factor),
            Snapshot!List("factors", Snapshot!kMin.rankingFactor, Snapshot!kMaxRankingFactors,
                          Snapshot!read_ranking_factor), 4)
    /\ Part(Snapshot!Many("factors", Snapshot!write_ranking_value),
            Snapshot!List("factors", Snapshot!kMin.rankingValue, Snapshot!kMaxRankingFactors,
                          Snapshot!read_ranking_value), 4)
    /\ Part(Snapshot!Many("artifacts", Snapshot!write_artifact_ref),
            Snapshot!List("artifacts", Snapshot!kMin.artifact,
                     Snapshot!kMaxArtifactsPerCandidate,
                          Snapshot!read_artifact_ref), 4)
    /\ Part(Snapshot!Many("excluded", Snapshot!write_exclusion_entry),
            Snapshot!List("excluded", Snapshot!kMin.exclusion,
                     Snapshot!kMaxCandidatesPerPopulation,
                          Snapshot!read_exclusion_entry), 4)
    /\ Part(Snapshot!Many("entries", Snapshot!write_retention_entry),
            Snapshot!List("entries", Snapshot!kMin.retention,
                     Snapshot!kMaxCandidatesPerPopulation,
                          Snapshot!read_retention_entry), 4)
    /\ Part(Snapshot!Many("mandatory_evidence", Snapshot!write_evidence_summary),
            Snapshot!List("mandatory_evidence", Snapshot!kMin.evidence,
                     Snapshot!kMaxEvaluationRequirements,
                          Snapshot!read_evidence_summary), 4)
  <1>1. /\ Snapshot!kMaxInputFiles = 32 /\ Snapshot!kMaxEvaluationRequirements = 32
        /\ Snapshot!kMaxRankingFactors = 16 /\ Snapshot!kMaxArtifactsPerCandidate = 64
        /\ Snapshot!kMaxCandidatesPerPopulation = 100000
    BY DEF Snapshot!kMaxInputFiles, Snapshot!kMaxEvaluationRequirements,
           Snapshot!kMaxRankingFactors, Snapshot!kMaxArtifactsPerCandidate,
           Snapshot!kMaxCandidatesPerPopulation
  <1>2. /\ Snapshot!kMin.identity = 8 /\ Snapshot!kMin.string = 4
        /\ Snapshot!kMin.artifact = 16 /\ Snapshot!kMin.rankingFactor = 14
        /\ Snapshot!kMin.rankingValue = 35 /\ Snapshot!kMin.exclusion = 18
        /\ Snapshot!kMin.retention = 25 /\ Snapshot!kMin.evidence = 31
        /\ Snapshot!kMin.input = 12 /\ Snapshot!kMin.requirement = 26
    BY DEF Snapshot!kMin
  <1>3. /\ Part(Snapshot!Str(<<"item">>), Snapshot!Str(<<"item">>), 4)
        /\ Part(Snapshot!Id(<<"item">>), Snapshot!Id(<<"item">>), 8)
    <2>1. /\ Part(Snapshot!Str(<<"item">>), Snapshot!Str(<<"item">>), Times(4, 1))
          /\ Part(Snapshot!Id(<<"item">>), Snapshot!Id(<<"item">>), Times(8, 1))
      BY SnapshotParts, Sizes
    <2> QED BY <2>1 DEF Times
  <1>4. \A name, least, ceiling, w, r :
          Part(w, r, least) /\ least >= 4 /\ ceiling \in Nat /\ Roomy(name, ceiling) =>
              Part(Snapshot!Many(name, w), Snapshot!List(name, least, ceiling, r), 4)
    BY SnapshotParts
  <1>5. \A name \in IdLists :
          Part(Snapshot!id_list(name), Snapshot!read_candidate_ids(name), 4)
    <2> TAKE name \in IdLists
    <2>1. Roomy(name, Snapshot!kMaxCandidatesPerPopulation)
      <3>1. AtMost(name) <= 100000
        BY Limits
      <3> QED BY <3>1, <1>1 DEF Roomy
    <2> QED BY <2>1, <1>1, <1>2, <1>3, <1>4
            DEF Snapshot!id_list, Snapshot!read_candidate_ids
  <1>21. \A name : \A ceiling \in Nat : Roomy(name, ceiling) =>
          Part(Snapshot!string_list(name), Snapshot!read_strings(name, ceiling), 4)
    BY <1>2, <1>3, <1>4 DEF Snapshot!string_list, Snapshot!read_strings
  <1>20. Part(Snapshot!string_list("closure_blockers"),
              Snapshot!read_strings("closure_blockers", Snapshot!kMaxClosureBlockers), 4)
    <2>1. Roomy("closure_blockers", Snapshot!kMaxClosureBlockers)
      BY DEF Roomy
    <2>2. Snapshot!kMaxClosureBlockers \in Nat
      BY DEF Snapshot!kMaxClosureBlockers
    <2> QED BY <2>1, <2>2, <1>21
  <1>22. /\ Roomy("inputs", Snapshot!kMaxInputFiles)
         /\ Roomy("requirements", Snapshot!kMaxEvaluationRequirements)
         /\ Roomy("factors", Snapshot!kMaxRankingFactors)
         /\ Roomy("artifacts", Snapshot!kMaxArtifactsPerCandidate)
         /\ Roomy("excluded", Snapshot!kMaxCandidatesPerPopulation)
         /\ Roomy("entries", Snapshot!kMaxCandidatesPerPopulation)
         /\ Roomy("mandatory_evidence", Snapshot!kMaxEvaluationRequirements)
    BY <1>1, Limits DEF Roomy
  <1>6. Part(Snapshot!Many("inputs", Snapshot!write_input_file),
             Snapshot!List("inputs", Snapshot!kMin.input, Snapshot!kMaxInputFiles,
                           Snapshot!read_input_file), 4)
    BY <1>1, <1>2, <1>4, <1>22, SnapshotElements
  <1>7. Part(Snapshot!Many("requirements", Snapshot!write_requirement),
             Snapshot!List("requirements", Snapshot!kMin.requirement,
                      Snapshot!kMaxEvaluationRequirements,
                           Snapshot!read_requirement), 4)
    BY <1>1, <1>2, <1>4, <1>22, SnapshotElements
  <1>8. Part(Snapshot!Many("factors", Snapshot!write_ranking_factor),
             Snapshot!List("factors", Snapshot!kMin.rankingFactor, Snapshot!kMaxRankingFactors,
                           Snapshot!read_ranking_factor), 4)
    BY <1>1, <1>2, <1>4, <1>22, SnapshotElements
  <1>9. Part(Snapshot!Many("factors", Snapshot!write_ranking_value),
             Snapshot!List("factors", Snapshot!kMin.rankingValue, Snapshot!kMaxRankingFactors,
                           Snapshot!read_ranking_value), 4)
    <2>1. Agrees(Snapshot!write_ranking_value, Snapshot!read_ranking_value)
      BY SnapshotElements DEF Part
    <2> QED BY <2>1, <1>1, <1>2, <1>22, ThinPart
            DEF Snapshot!Many, Snapshot!List, Many, List
  <1>10. Part(Snapshot!Many("artifacts", Snapshot!write_artifact_ref),
              Snapshot!List("artifacts", Snapshot!kMin.artifact,
                       Snapshot!kMaxArtifactsPerCandidate,
                            Snapshot!read_artifact_ref), 4)
    BY <1>1, <1>2, <1>4, <1>22, SnapshotElements
  <1>11. Part(Snapshot!Many("excluded", Snapshot!write_exclusion_entry),
              Snapshot!List("excluded", Snapshot!kMin.exclusion,
                       Snapshot!kMaxCandidatesPerPopulation,
                            Snapshot!read_exclusion_entry), 4)
    BY <1>1, <1>2, <1>4, <1>22, SnapshotElements
  <1>12. Part(Snapshot!Many("entries", Snapshot!write_retention_entry),
              Snapshot!List("entries", Snapshot!kMin.retention,
                       Snapshot!kMaxCandidatesPerPopulation,
                            Snapshot!read_retention_entry), 4)
    BY <1>1, <1>2, <1>4, <1>22, SnapshotElements
  <1>13. Part(Snapshot!Many("mandatory_evidence", Snapshot!write_evidence_summary),
              Snapshot!List("mandatory_evidence", Snapshot!kMin.evidence,
                       Snapshot!kMaxEvaluationRequirements,
                            Snapshot!read_evidence_summary), 4)
    <2>1. Agrees(Snapshot!write_evidence_summary, Snapshot!read_evidence_summary)
      BY SnapshotElements DEF Part
    <2> QED BY <2>1, <1>1, <1>2, <1>22, ThinPart
            DEF Snapshot!Many, Snapshot!List, Many, List
  <1> QED BY <1>5, <1>20, <1>21, <1>6, <1>7, <1>8, <1>9, <1>10, <1>11, <1>12, <1>13

\* The entries of a ranking, which hold a list themselves.
LEMMA SnapshotNested ==
    Part(Snapshot!Many("ranking", Snapshot!write_ranking_entry),
         Snapshot!List("ranking", Snapshot!kMin.rankingEntry,
                       Snapshot!kMaxCandidatesPerPopulation, Snapshot!read_ranking_entry), 4)
  <1>1. Part(Snapshot!write_ranking_entry, Snapshot!read_ranking_entry, 40)
    <2>1. Part(Snapshot!write_ranking_entry, Snapshot!read_ranking_entry,
            Plus(Plus(Plus(Plus(Plus(Plus(Times(12, 1), Times(4, 1)), Times(8, 1)), 4),
            Times(8, 1)), Times(4, 1)), Times(4, 1)))
      BY SnapshotParts, SnapshotLists, PartConcat, Sizes
         DEF Snapshot!write_ranking_entry, Snapshot!read_ranking_entry
    <2>2. Part(Snapshot!write_ranking_entry, Snapshot!read_ranking_entry, 44)
      BY <2>1 DEF Plus, Times
    <2> QED BY <2>2, PartLess
  <1>2. /\ Snapshot!kMaxCandidatesPerPopulation = 100000 /\ Snapshot!kMin.rankingEntry = 40
    BY DEF Snapshot!kMaxCandidatesPerPopulation, Snapshot!kMin
  <1>3. \A name, least, ceiling, w, r :
          Part(w, r, least) /\ least >= 4 /\ ceiling \in Nat /\ Roomy(name, ceiling) =>
              Part(Snapshot!Many(name, w), Snapshot!List(name, least, ceiling, r), 4)
    BY SnapshotParts
  <1>4. Roomy("ranking", Snapshot!kMaxCandidatesPerPopulation)
    BY <1>2, Limits DEF Roomy
  <1> QED BY <1>1, <1>2, <1>3, <1>4

\* The parts of a snapshot without their sizes.
LEMMA SnapshotPieces ==
    /\ \A names : Listing(names) =>
        /\ Agrees(Snapshot!Id(names), Snapshot!Id(names))
        /\ Agrees(Snapshot!Opt(names), Snapshot!Opt(names))
        /\ Agrees(Snapshot!Gen(names), Snapshot!Gen(names))
        /\ Agrees(Snapshot!Epoch(names), Snapshot!Epoch(names))
        /\ Agrees(Snapshot!U16(names), Snapshot!U16(names))
        /\ Agrees(Snapshot!U32(names), Snapshot!U32(names))
        /\ Agrees(Snapshot!U64(names), Snapshot!U64(names))
        /\ Agrees(Snapshot!F64(names), Snapshot!F64(names))
        /\ Agrees(Snapshot!Bool(names), Snapshot!Bool(names))
        /\ Agrees(Snapshot!Enum(names), Snapshot!Enum(names))
        /\ Agrees(Snapshot!Str(names), Snapshot!Str(names))
        /\ Agrees(Snapshot!Refs(names), Snapshot!Refs(names))
    /\ \A name : Agrees(Snapshot!OptRef(name), Snapshot!OptRef(name))
  <1>1. \A names : Listing(names) => Sized(names, Len(names))
    BY DEF Listing, Sized
  <1> QED BY <1>1, SnapshotParts DEF Part

\* The records of a snapshot and the parts they share.
LEMMA SnapshotRecords ==
    /\ Agrees(Snapshot!write_budget_limits, Snapshot!read_budget_limits)
    /\ Agrees(Snapshot!write_selection_policy, Snapshot!read_selection_policy)
    /\ Agrees(Snapshot!write_retention_policy, Snapshot!read_retention_policy)
    /\ Agrees(Snapshot!write_task, Snapshot!read_task)
    /\ Agrees(Snapshot!write_policy, Snapshot!read_policy)
    /\ Agrees(Snapshot!write_population, Snapshot!read_population)
    /\ Agrees(Snapshot!write_candidate, Snapshot!read_candidate)
    /\ Agrees(Snapshot!write_worker, Snapshot!read_worker)
    /\ Agrees(Snapshot!write_attempt, Snapshot!read_attempt)
    /\ Agrees(Snapshot!write_assignment, Snapshot!read_assignment)
    /\ Agrees(Snapshot!write_evaluation, Snapshot!read_evaluation)
    /\ Agrees(Snapshot!write_selection, Snapshot!read_selection)
    /\ Agrees(Snapshot!write_retention, Snapshot!read_retention)
    /\ Agrees(Snapshot!write_promotion, Snapshot!read_promotion)
    /\ Agrees(Snapshot!write_lineage_node, Snapshot!read_lineage_node)
    /\ Agrees(Snapshot!write_ledger, Snapshot!read_ledger)
    /\ Agrees(Snapshot!write_identity_header, Snapshot!read_identity_header)
    /\ Agrees(Snapshot!write_statistics, Snapshot!read_statistics)
  <1>1. Agrees(Snapshot!write_budget_limits, Snapshot!read_budget_limits)
    BY SnapshotPieces, AgreesConcat
       DEF Snapshot!write_budget_limits, Snapshot!read_budget_limits, Listing
  <1>2. Agrees(Snapshot!write_selection_policy, Snapshot!read_selection_policy)
    <2>1. /\ Agrees(Snapshot!Many("factors", Snapshot!write_ranking_factor),
                    Snapshot!List("factors", Snapshot!kMin.rankingFactor,
                             Snapshot!kMaxRankingFactors, Snapshot!read_ranking_factor))
      BY SnapshotLists, SnapshotNested, PartAgrees DEF IdLists
    <2>2. /\ Agrees(Snapshot!Bool(<<"require_complete_mandatory">>),
                    Snapshot!Bool(<<"require_complete_mandatory">>))
      BY SnapshotPieces DEF Listing
    <2> QED BY <2>1, <2>2, AgreesConcat
            DEF Snapshot!write_selection_policy, Snapshot!read_selection_policy
  <1>3. Agrees(Snapshot!write_retention_policy, Snapshot!read_retention_policy)
    BY SnapshotPieces, AgreesConcat
       DEF Snapshot!write_retention_policy, Snapshot!read_retention_policy, Listing
  <1>4. Agrees(Snapshot!write_task, Snapshot!read_task)
    <2>1. /\ Agrees(Snapshot!Many("inputs", Snapshot!write_input_file),
                    Snapshot!List("inputs", Snapshot!kMin.input,
                             Snapshot!kMaxInputFiles, Snapshot!read_input_file))
          /\ Agrees(Snapshot!string_list("required_outputs"),
                    Snapshot!read_strings("required_outputs", Snapshot!kMaxRequiredOutputs))
          /\ Agrees(Snapshot!Many("requirements", Snapshot!write_requirement),
                    Snapshot!List("requirements", Snapshot!kMin.requirement,
                             Snapshot!kMaxEvaluationRequirements, Snapshot!read_requirement))
          /\ Agrees(Snapshot!string_list("hard_constraints"),
                    Snapshot!read_strings("hard_constraints", Snapshot!kMaxConstraints))
          /\ Agrees(Snapshot!string_list("closure_criteria"),
                    Snapshot!read_strings("closure_criteria", Snapshot!kMaxConstraints))
      <3>1. /\ Snapshot!kMaxRequiredOutputs \in Nat
            /\ Roomy("required_outputs", Snapshot!kMaxRequiredOutputs)
            /\ Snapshot!kMaxConstraints \in Nat
            /\ Roomy("hard_constraints", Snapshot!kMaxConstraints)
            /\ Snapshot!kMaxConstraints \in Nat
            /\ Roomy("closure_criteria", Snapshot!kMaxConstraints)
        BY Limits DEF Roomy, Snapshot!kMaxConstraints, Snapshot!kMaxRequiredOutputs
      <3> QED BY <3>1, SnapshotLists, SnapshotNested, PartAgrees DEF IdLists
    <2>2. /\ Agrees(Snapshot!Refs(<<"id">>), Snapshot!Refs(<<"id">>))
          /\ Agrees(Snapshot!Str(<<"name", "objective">>),
                    Snapshot!Str(<<"name", "objective">>))
          /\ Agrees(Snapshot!Refs(<<"policy">>), Snapshot!Refs(<<"policy">>))
          /\ Agrees(Snapshot!Str(<<"content_digest">>),
                    Snapshot!Str(<<"content_digest">>))
      BY SnapshotPieces DEF Listing
    <2> QED BY <2>1, <2>2, AgreesConcat, <1>1 DEF Snapshot!write_task, Snapshot!read_task
  <1>5. Agrees(Snapshot!write_policy, Snapshot!read_policy)
    BY SnapshotPieces, AgreesConcat, <1>2, <1>3, <1>1
       DEF Snapshot!write_policy, Snapshot!read_policy, Listing
  <1>6. Agrees(Snapshot!write_population, Snapshot!read_population)
    <2>1. /\ Agrees(Snapshot!id_list("candidates"),
                    Snapshot!read_candidate_ids("candidates"))
          /\ Agrees(Snapshot!string_list("closure_blockers"),
                    Snapshot!read_strings("closure_blockers", Snapshot!kMaxClosureBlockers))
      BY SnapshotLists, SnapshotNested, PartAgrees DEF IdLists
    <2>2. /\ Agrees(Snapshot!Refs(<<"id">>), Snapshot!Refs(<<"id">>))
          /\ Agrees(Snapshot!Id(<<"run">>), Snapshot!Id(<<"run">>))
          /\ Agrees(Snapshot!Str(<<"name">>), Snapshot!Str(<<"name">>))
          /\ Agrees(Snapshot!Refs(<<"task", "policy">>),
                    Snapshot!Refs(<<"task", "policy">>))
          /\ Agrees(Snapshot!U32(<<"candidate_budget", "worker_budget", "population_index">>),
                    Snapshot!U32(<<"candidate_budget", "worker_budget", "population_index">>))
          /\ Agrees(Snapshot!Opt(<<"predecessor">>), Snapshot!Opt(<<"predecessor">>))
          /\ Agrees(Snapshot!OptRef("seed_candidate"), Snapshot!OptRef("seed_candidate"))
          /\ Agrees(Snapshot!Opt(<<"seed_lineage">>), Snapshot!Opt(<<"seed_lineage">>))
          /\ Agrees(Snapshot!Enum(<<"state">>), Snapshot!Enum(<<"state">>))
          /\ Agrees(Snapshot!Epoch(<<"created", "state">>),
                    Snapshot!Epoch(<<"created", "state">>))
          /\ Agrees(Snapshot!Gen(<<"committed_selection">>),
                    Snapshot!Gen(<<"committed_selection">>))
          /\ Agrees(Snapshot!Bool(<<"retention_committed">>),
                    Snapshot!Bool(<<"retention_committed">>))
          /\ Agrees(Snapshot!Gen(<<"retention_selection">>),
                    Snapshot!Gen(<<"retention_selection">>))
          /\ Agrees(Snapshot!Bool(<<"require_promotion_request">>),
                    Snapshot!Bool(<<"require_promotion_request">>))
          /\ Agrees(Snapshot!U64(<<"promotion_requests">>),
                    Snapshot!U64(<<"promotion_requests">>))
          /\ Agrees(Snapshot!Opt(<<"committed_promotion_request">>),
                    Snapshot!Opt(<<"committed_promotion_request">>))
          /\ Agrees(Snapshot!Str(<<"status_detail">>), Snapshot!Str(<<"status_detail">>))
      BY SnapshotPieces DEF Listing
    <2> QED BY <2>1, <2>2, AgreesConcat DEF Snapshot!write_population, Snapshot!read_population
  <1>7. Agrees(Snapshot!write_candidate, Snapshot!read_candidate)
    <2>1. /\ Agrees(Snapshot!id_list("parents"),
                    Snapshot!read_candidate_ids("parents"))
          /\ Agrees(Snapshot!Many("artifacts", Snapshot!write_artifact_ref),
                    Snapshot!List("artifacts", Snapshot!kMin.artifact,
                             Snapshot!kMaxArtifactsPerCandidate, Snapshot!read_artifact_ref))
      BY SnapshotLists, SnapshotNested, PartAgrees DEF IdLists
    <2>2. /\ Agrees(Snapshot!Refs(<<"id", "population", "task">>),
                    Snapshot!Refs(<<"id", "population", "task">>))
          /\ Agrees(Snapshot!Id(<<"lineage">>), Snapshot!Id(<<"lineage">>))
          /\ Agrees(Snapshot!U32(<<"depth">>), Snapshot!U32(<<"depth">>))
          /\ Agrees(Snapshot!Opt(<<"producer_worker", "producer_boot">>),
                    Snapshot!Opt(<<"producer_worker", "producer_boot">>))
          /\ Agrees(Snapshot!OptRef("attempt"), Snapshot!OptRef("attempt"))
          /\ Agrees(Snapshot!Opt(<<"assignment">>), Snapshot!Opt(<<"assignment">>))
          /\ Agrees(Snapshot!Epoch(<<"created", "state_changed">>),
                    Snapshot!Epoch(<<"created", "state_changed">>))
          /\ Agrees(Snapshot!Enum(<<"state">>), Snapshot!Enum(<<"state">>))
          /\ Agrees(Snapshot!Str(<<"artifact_set_digest">>),
                    Snapshot!Str(<<"artifact_set_digest">>))
          /\ Agrees(Snapshot!U32(<<"attempt_count">>), Snapshot!U32(<<"attempt_count">>))
          /\ Agrees(Snapshot!Gen(<<"evidence", "evaluation", "selection">>),
                    Snapshot!Gen(<<"evidence", "evaluation", "selection">>))
          /\ Agrees(Snapshot!Bool(<<"selected", "retained", "promotion_eligible", "promotion_requested">>),
                    Snapshot!Bool(<<"selected", "retained", "promotion_eligible", "promotion_requested">>))
          /\ Agrees(Snapshot!Str(<<"diversity_key", "failure_reason", "superseded_by_reason">>),
                    Snapshot!Str(<<"diversity_key", "failure_reason", "superseded_by_reason">>))
      BY SnapshotPieces DEF Listing
    <2> QED BY <2>1, <2>2, AgreesConcat DEF Snapshot!write_candidate, Snapshot!read_candidate
  <1>8. Agrees(Snapshot!write_worker, Snapshot!read_worker)
    BY SnapshotPieces, AgreesConcat DEF Snapshot!write_worker, Snapshot!read_worker, Listing
  <1>9. Agrees(Snapshot!write_attempt, Snapshot!read_attempt)
    BY SnapshotPieces, AgreesConcat DEF Snapshot!write_attempt, Snapshot!read_attempt, Listing
  <1>10. Agrees(Snapshot!write_assignment, Snapshot!read_assignment)
    BY SnapshotPieces, AgreesConcat
       DEF Snapshot!write_assignment, Snapshot!read_assignment, Listing
  <1>11. Agrees(Snapshot!write_evaluation, Snapshot!read_evaluation)
    BY SnapshotPieces, AgreesConcat
       DEF Snapshot!write_evaluation, Snapshot!read_evaluation, Listing
  <1>12. Agrees(Snapshot!write_selection, Snapshot!read_selection)
    <2>1. /\ Agrees(Snapshot!Many("ranking", Snapshot!write_ranking_entry),
                    Snapshot!List("ranking", Snapshot!kMin.rankingEntry,
                             Snapshot!kMaxCandidatesPerPopulation, Snapshot!read_ranking_entry))
          /\ Agrees(Snapshot!Many("excluded", Snapshot!write_exclusion_entry),
                    Snapshot!List("excluded", Snapshot!kMin.exclusion,
                             Snapshot!kMaxCandidatesPerPopulation,
                                      Snapshot!read_exclusion_entry))
      BY SnapshotLists, SnapshotNested, PartAgrees DEF IdLists
    <2>2. /\ Agrees(Snapshot!Gen(<<"generation">>), Snapshot!Gen(<<"generation">>))
          /\ Agrees(Snapshot!Refs(<<"population", "task", "policy">>),
                    Snapshot!Refs(<<"population", "task", "policy">>))
          /\ Agrees(Snapshot!Epoch(<<"coordinator">>), Snapshot!Epoch(<<"coordinator">>))
          /\ Agrees(Snapshot!Enum(<<"state">>), Snapshot!Enum(<<"state">>))
          /\ Agrees(Snapshot!OptRef("selected"), Snapshot!OptRef("selected"))
          /\ Agrees(Snapshot!Str(<<"canonical_state_digest", "rationale">>),
                    Snapshot!Str(<<"canonical_state_digest", "rationale">>))
      BY SnapshotPieces DEF Listing
    <2> QED BY <2>1, <2>2, AgreesConcat DEF Snapshot!write_selection, Snapshot!read_selection
  <1>13. Agrees(Snapshot!write_retention, Snapshot!read_retention)
    <2>1. /\ Agrees(Snapshot!Many("entries", Snapshot!write_retention_entry),
                    Snapshot!List("entries", Snapshot!kMin.retention,
                             Snapshot!kMaxCandidatesPerPopulation,
                                      Snapshot!read_retention_entry))
          /\ Agrees(Snapshot!id_list("retained"),
                    Snapshot!read_candidate_ids("retained"))
          /\ Agrees(Snapshot!id_list("retired"),
                    Snapshot!read_candidate_ids("retired"))
      BY SnapshotLists, SnapshotNested, PartAgrees DEF IdLists
    <2>2. /\ Agrees(Snapshot!Gen(<<"selection">>), Snapshot!Gen(<<"selection">>))
          /\ Agrees(Snapshot!Refs(<<"population", "policy">>),
                    Snapshot!Refs(<<"population", "policy">>))
          /\ Agrees(Snapshot!Epoch(<<"coordinator">>), Snapshot!Epoch(<<"coordinator">>))
          /\ Agrees(Snapshot!Str(<<"canonical_state_digest">>),
                    Snapshot!Str(<<"canonical_state_digest">>))
          /\ Agrees(Snapshot!Bool(<<"committed">>), Snapshot!Bool(<<"committed">>))
      BY SnapshotPieces DEF Listing
    <2> QED BY <2>1, <2>2, AgreesConcat DEF Snapshot!write_retention, Snapshot!read_retention
  <1>14. Agrees(Snapshot!write_promotion, Snapshot!read_promotion)
    <2>1. /\ Agrees(Snapshot!string_list("outstanding_requirements"),
                    Snapshot!read_strings("outstanding_requirements",
                             Snapshot!kMaxOutstandingRequirements))
          /\ Agrees(Snapshot!Many("artifacts", Snapshot!write_artifact_ref),
                    Snapshot!List("artifacts", Snapshot!kMin.artifact,
                             Snapshot!kMaxArtifactsPerCandidate, Snapshot!read_artifact_ref))
          /\ Agrees(Snapshot!Many("mandatory_evidence", Snapshot!write_evidence_summary),
                    Snapshot!List("mandatory_evidence", Snapshot!kMin.evidence,
                             Snapshot!kMaxEvaluationRequirements,
                                      Snapshot!read_evidence_summary))
          /\ Agrees(Snapshot!id_list("ancestry"),
                    Snapshot!read_candidate_ids("ancestry"))
      <3>1. /\ Snapshot!kMaxOutstandingRequirements \in Nat
            /\ Roomy("outstanding_requirements", Snapshot!kMaxOutstandingRequirements)
        BY Limits DEF Roomy, Snapshot!kMaxOutstandingRequirements
      <3> QED BY <3>1, SnapshotLists, SnapshotNested, PartAgrees DEF IdLists
    <2>2. /\ Agrees(Snapshot!Id(<<"id", "foundry", "run">>),
                    Snapshot!Id(<<"id", "foundry", "run">>))
          /\ Agrees(Snapshot!Epoch(<<"coordinator">>), Snapshot!Epoch(<<"coordinator">>))
          /\ Agrees(Snapshot!Refs(<<"population", "candidate", "task">>),
                    Snapshot!Refs(<<"population", "candidate", "task">>))
          /\ Agrees(Snapshot!Id(<<"lineage">>), Snapshot!Id(<<"lineage">>))
          /\ Agrees(Snapshot!Gen(<<"selection">>), Snapshot!Gen(<<"selection">>))
          /\ Agrees(Snapshot!Refs(<<"policy">>), Snapshot!Refs(<<"policy">>))
          /\ Agrees(Snapshot!Gen(<<"evidence">>), Snapshot!Gen(<<"evidence">>))
          /\ Agrees(Snapshot!Enum(<<"eligibility">>), Snapshot!Enum(<<"eligibility">>))
          /\ Agrees(Snapshot!U64(<<"total_artifact_bytes">>),
                    Snapshot!U64(<<"total_artifact_bytes">>))
          /\ Agrees(Snapshot!Str(<<"artifact_set_digest">>),
                    Snapshot!Str(<<"artifact_set_digest">>))
          /\ Agrees(Snapshot!U32(<<"lineage_depth">>), Snapshot!U32(<<"lineage_depth">>))
          /\ Agrees(Snapshot!Str(<<"canonical_state_digest">>),
                    Snapshot!Str(<<"canonical_state_digest">>))
      BY SnapshotPieces DEF Listing
    <2> QED BY <2>1, <2>2, AgreesConcat DEF Snapshot!write_promotion, Snapshot!read_promotion
  <1>15. Agrees(Snapshot!write_lineage_node, Snapshot!read_lineage_node)
    <2>1. /\ Agrees(Snapshot!id_list("parents"),
                    Snapshot!read_candidate_ids("parents"))
      BY SnapshotLists, SnapshotNested, PartAgrees DEF IdLists
    <2>2. /\ Agrees(Snapshot!Refs(<<"candidate">>), Snapshot!Refs(<<"candidate">>))
          /\ Agrees(Snapshot!Id(<<"lineage">>), Snapshot!Id(<<"lineage">>))
          /\ Agrees(Snapshot!U32(<<"depth">>), Snapshot!U32(<<"depth">>))
          /\ Agrees(Snapshot!Epoch(<<"created">>), Snapshot!Epoch(<<"created">>))
          /\ Agrees(Snapshot!Bool(<<"retired">>), Snapshot!Bool(<<"retired">>))
          /\ Agrees(Snapshot!Epoch(<<"retired">>), Snapshot!Epoch(<<"retired">>))
          /\ Agrees(Snapshot!Str(<<"retirement_reason">>),
                    Snapshot!Str(<<"retirement_reason">>))
      BY SnapshotPieces DEF Listing
    <2> QED BY <2>1, <2>2, AgreesConcat DEF Snapshot!write_lineage_node,
               Snapshot!read_lineage_node
  <1>16. Agrees(Snapshot!write_ledger, Snapshot!read_ledger)
    <2>1. Agrees(Repeat(9,
                 Snapshot!U64(<<"reserved", "consumed", "released">>)), Repeat(9,
                          Snapshot!U64(<<"reserved", "consumed", "released">>)))
      <3>1. Part(Snapshot!U64(<<"reserved", "consumed", "released">>),
                 Snapshot!U64(<<"reserved", "consumed", "released">>), Times(8, 3))
        BY SnapshotParts, Sizes
      <3> QED BY <3>1, RepeatPart, PartAgrees
    <2>2. Agrees(Snapshot!Repeat(Snapshot!kBudgetKindCount,
                 Snapshot!U64(<<"reserved", "consumed", "released">>)),
                 Snapshot!Repeat(Snapshot!kBudgetKindCount,
                          Snapshot!U64(<<"reserved", "consumed", "released">>)))
      BY <2>1 DEF Snapshot!Repeat, Repeat, Snapshot!kBudgetKindCount
    <2> QED BY <2>2, SnapshotPieces, AgreesConcat, <1>1
            DEF Snapshot!write_ledger, Snapshot!read_ledger, Listing
  <1>17. Agrees(Snapshot!write_identity_header, Snapshot!read_identity_header)
    <2>1. Agrees(Repeat(18, Snapshot!U32(<<"id_counter">>)), Repeat(18,
                 Snapshot!U32(<<"id_counter">>)))
      <3>1. Part(Snapshot!U32(<<"id_counter">>), Snapshot!U32(<<"id_counter">>), Times(4, 1))
        BY SnapshotParts, Sizes
      <3> QED BY <3>1, RepeatPart, PartAgrees
    <2>2. Agrees(Snapshot!Repeat(Snapshot!kIdKindCount, Snapshot!U32(<<"id_counter">>)),
                 Snapshot!Repeat(Snapshot!kIdKindCount, Snapshot!U32(<<"id_counter">>)))
      BY <2>1 DEF Snapshot!Repeat, Repeat, Snapshot!kIdKindCount
    <2> QED BY <2>2, SnapshotPieces, AgreesConcat
            DEF Snapshot!write_identity_header, Snapshot!read_identity_header, Listing
  <1>18. Agrees(Snapshot!write_statistics, Snapshot!read_statistics)
    BY SnapshotPieces, AgreesConcat
       DEF Snapshot!write_statistics, Snapshot!read_statistics, Listing
  <1> QED BY <1>1, <1>2, <1>3, <1>4, <1>5, <1>6, <1>7, <1>8, <1>9, <1>10, <1>11, <1>12, <1>13,
         <1>14, <1>15, <1>16, <1>17, <1>18

\* Writer and reader of every record kind, as parse_payload dispatches on it.
LEMMA RecordAgrees ==
    \A d \in DOMAIN Snapshot!RecordWrites :
        Agrees(Snapshot!RecordWrites[d], Snapshot!RecordReads[d])
  <1>1. Agrees(Snapshot!RecordWrites["IdentityHeader"], Snapshot!RecordReads["IdentityHeader"])
    BY SnapshotRecords DEF Snapshot!RecordWrites, Snapshot!RecordReads
  <1>2. Agrees(Snapshot!RecordWrites["Statistics"], Snapshot!RecordReads["Statistics"])
    BY SnapshotRecords DEF Snapshot!RecordWrites, Snapshot!RecordReads
  <1>3. Agrees(Snapshot!RecordWrites["Task"], Snapshot!RecordReads["Task"])
    BY SnapshotRecords DEF Snapshot!RecordWrites, Snapshot!RecordReads
  <1>4. Agrees(Snapshot!RecordWrites["Policy"], Snapshot!RecordReads["Policy"])
    BY SnapshotRecords DEF Snapshot!RecordWrites, Snapshot!RecordReads
  <1>5. Agrees(Snapshot!RecordWrites["Population"], Snapshot!RecordReads["Population"])
    BY SnapshotRecords DEF Snapshot!RecordWrites, Snapshot!RecordReads
  <1>6. Agrees(Snapshot!RecordWrites["Candidate"], Snapshot!RecordReads["Candidate"])
    BY SnapshotRecords DEF Snapshot!RecordWrites, Snapshot!RecordReads
  <1>7. Agrees(Snapshot!RecordWrites["Worker"], Snapshot!RecordReads["Worker"])
    BY SnapshotRecords DEF Snapshot!RecordWrites, Snapshot!RecordReads
  <1>8. Agrees(Snapshot!RecordWrites["Attempt"], Snapshot!RecordReads["Attempt"])
    BY SnapshotRecords DEF Snapshot!RecordWrites, Snapshot!RecordReads
  <1>9. Agrees(Snapshot!RecordWrites["Assignment"], Snapshot!RecordReads["Assignment"])
    BY SnapshotRecords DEF Snapshot!RecordWrites, Snapshot!RecordReads
  <1>10. Agrees(Snapshot!RecordWrites["Evaluation"], Snapshot!RecordReads["Evaluation"])
    BY SnapshotRecords DEF Snapshot!RecordWrites, Snapshot!RecordReads
  <1>11. Agrees(Snapshot!RecordWrites["Selection"], Snapshot!RecordReads["Selection"])
    BY SnapshotRecords DEF Snapshot!RecordWrites, Snapshot!RecordReads
  <1>12. Agrees(Snapshot!RecordWrites["Retention"], Snapshot!RecordReads["Retention"])
    BY SnapshotRecords DEF Snapshot!RecordWrites, Snapshot!RecordReads
  <1>13. Agrees(Snapshot!RecordWrites["Promotion"], Snapshot!RecordReads["Promotion"])
    BY SnapshotRecords DEF Snapshot!RecordWrites, Snapshot!RecordReads
  <1>14. Agrees(Snapshot!RecordWrites["LineageNode"], Snapshot!RecordReads["LineageNode"])
    BY SnapshotRecords DEF Snapshot!RecordWrites, Snapshot!RecordReads
  <1>15. Agrees(Snapshot!RecordWrites["Ledger"], Snapshot!RecordReads["Ledger"])
    BY SnapshotRecords DEF Snapshot!RecordWrites, Snapshot!RecordReads
  <1>16. DOMAIN Snapshot!RecordWrites = {"IdentityHeader", "Statistics", "Task", "Policy",
         "Population", "Candidate", "Worker", "Attempt", "Assignment", "Evaluation",
         "Selection", "Retention", "Promotion", "LineageNode", "Ledger"}
    BY DEF Snapshot!RecordWrites
  <1> QED BY <1>1, <1>2, <1>3, <1>4, <1>5, <1>6, <1>7, <1>8, <1>9, <1>10, <1>11, <1>12, <1>13,
         <1>14, <1>15, <1>16

\* Writer and reader of every document agree.
LEMMA DocumentsAgree ==
    \A f \in DOMAIN Writes : \A d \in DOMAIN Writes[f] : Agrees(Writes[f][d], Reads[f][d])
  <1>1. Writes["session"] = Wire!SessionWrites /\ Reads["session"] = Wire!SessionReads
    BY DEF Writes, Reads
  <1>2. Writes["definition"] = Wire!DefinitionWrites /\ Reads["definition"] = Wire!DefinitionReads
    BY DEF Writes, Reads
  <1>3. Writes["population"] = Wire!PopulationWrites /\ Reads["population"] = Wire!PopulationReads
    BY DEF Writes, Reads
  <1>4. Writes["cancel"] = Wire!CancelWrites /\ Reads["cancel"] = Wire!CancelReads
    BY DEF Writes, Reads
  <1>5. Writes["attempt"] = Wire!AttemptWrites /\ Reads["attempt"] = Wire!AttemptReads
    BY DEF Writes, Reads
  <1>6. Writes["query"] = Wire!QueryWrites /\ Reads["query"] = Wire!QueryReads
    BY DEF Writes, Reads
  <1>7. Writes["report"] = Wire!ReportWrites /\ Reads["report"] = Wire!ReportReads
    BY DEF Writes, Reads
  <1>8. Writes["control"] = Wire!ControlWrites /\ Reads["control"] = Wire!ControlReads
    BY DEF Writes, Reads
  <1>9. Writes["value"] = Wire!ValueWrites /\ Reads["value"] = Wire!ValueReads
    BY DEF Writes, Reads
  <1>10. Writes["snapshot"] = Snapshot!RecordWrites /\ Reads["snapshot"] = Snapshot!RecordReads
    BY DEF Writes, Reads
  <1>11. DOMAIN Writes = {"session", "definition", "population", "cancel", "attempt", "query",
                          "report", "control", "value", "snapshot"}
    BY DEF Writes
  <1> QED BY <1>1, <1>2, <1>3, <1>4, <1>5, <1>6, <1>7, <1>8, <1>9, <1>10, <1>11,
             SessionAgrees, DefinitionAgrees, PopulationAgrees, CancelAgrees, AttemptAgrees,
             QueryAgrees, ReportAgrees, ControlAgrees, ValueAgrees, RecordAgrees

-----------------------------------------------------------------------------
(* The course of a document. *)

\* What a writer leaves for a field.
Cell(P) == [kind: DOMAIN FixedWidth, name: {Name(f) : f \in Lefts(P)}, value: Nat, end: Nat]

\* What a field of a legal document may hold.
Legal(field, v) ==
    /\ v \in Nat
    /\ Kind(field) = "list" => v <= AtMost(Name(field))
    /\ Kind(field) = "str" => v <= kMaxSnapshotStringBytes
    /\ Kind(field) = "id" => v # 0
    /\ Kind(field) \in {"bool", "enum"} => v # OutOfRange

\* Where the i-th cell ends.
EndAt(cs, i) == IF i = 0 THEN 0 ELSE cs[i].end

\* The i-th field written, where h[i] is what was left to write before it and
\* v[i] the value it got.
WrittenAs(cs, h, v, i) ==
    /\ h[i] # << >> /\ Legal(Head(h[i]), v[i])
    /\ cs[i].kind = Kind(Head(h[i])) /\ cs[i].name = Name(Head(h[i]))
    /\ cs[i].end = EndAt(cs, i - 1) + Width(Head(h[i]), v[i])
    /\ h[i + 1] = Behind(h[i], v[i])

\* From any field on, the document has as many bytes as the fields need.
Covered(cs, h) ==
    \A i \in 1..Len(h) : \A b \in Nat :
        Weighs(h[i], b) =>
            \E c \in Nat : /\ Weighs(h[Len(h)], c)
                           /\ EndAt(cs, i - 1) + b <= EndAt(cs, Len(cs)) + c

\* The j-th value was replaced by one that no writer puts there.
GarbledAt(cs, j) ==
    /\ j \in 1..Len(cs)
    /\ cs[j].kind \in {"str", "list", "enum", "bool", "id"}
    /\ cs[j].kind \in {"str", "list"} => cs[j].value >= EndAt(cs, Len(cs))
    /\ cs[j].kind \in {"enum", "bool"} => cs[j].value = OutOfRange
    /\ cs[j].kind = "id" => cs[j].value = 0

\* The course of writing: h and v as above, j the garbled cell or 0.
Course(P, w, cs, h, v, j) ==
    /\ cs \in Seq(Cell(P))
    /\ h \in Seq(Seq(Lefts(P))) /\ Len(h) = Len(cs) + 1 /\ h[1] = w
    /\ v \in Seq(Nat) /\ Len(v) = Len(cs)
    /\ \A i \in 1..Len(cs) : WrittenAs(cs, h, v, i)
    /\ \A i \in 1..Len(cs) : i # j => cs[i].value = v[i]
    /\ Covered(cs, h)
    /\ j = 0 \/ GarbledAt(cs, j)

\* Before the bytes arrive the reader has not begun.
WhileWriting == damage = "none" /\ size = 0 /\ offset = 0 /\ taken = 0

\* How many bytes arrived, of e that were written.
SizeIs(e) ==
    /\ size \in Nat
    /\ damage \in {"none", "garbled"} => size = e
    /\ damage = "cut" => size < e
    /\ damage = "extended" => size > e

\* The reader is behind the k-th field, with t left to read.
ReadAs(P, cs, h, j, k, t) ==
    /\ h[Len(h)] = << >> /\ k \in 0..Len(cs)
    /\ k < j \/ j = 0
    /\ Zipped(P, h[k + 1], t)

\* No list the reader accepted has more elements than there are bytes for.
Backed(cs, k, s) ==
    \A i \in 1..k : cs[i].kind = "list" => 4 * cs[i].value <= s - cs[i].end

\* The reader is at a list that it is too narrow for.
AtNarrow == todo # << >> /\ Kind(Head(todo)) = "list" /\ TooNarrow(Head(todo))

\* How a document may end, and why: refused only if it was damaged or at a narrow
\* list, accepted only if it was not and nothing is left.
Verdicts ==
    /\ verdict \in {"writing", "reading", "accepted", "refused"}
    /\ damage \in {"none", "cut", "extended", "garbled"}
    /\ verdict = "refused" => damage # "none" \/ AtNarrow
    /\ verdict = "accepted" => damage = "none" /\ taken = Len(cells)
    /\ format \in DOMAIN Writes /\ document \in DOMAIN Writes[format] /\ fill \in Fills

\* The inductive invariant: at every moment there is a course of writing that
\* accounts for all cells but a garbled one, the reader stands behind the k-th of
\* them with a rest of its layout that agrees with the rest of the writer's, and
\* every list it took is backed by the bytes behind its count.
CodecInv ==
    /\ Verdicts
    /\ \E P, w, r, cs, h, v, j, k, t, e, s :
          /\ w = Writes[format][document] /\ r = Reads[format][document]
          /\ cs = cells /\ k = taken /\ t = todo /\ s = size /\ e = EndAt(cs, Len(cs))
          /\ Sound(P) /\ Zipped(P, w, r)
          /\ Course(P, w, cs, h, v, j)
          /\ damage = "garbled" <=> j # 0
          /\ verdict = "writing" => WhileWriting /\ t = h[Len(h)]
          /\ verdict # "writing" =>
                /\ SizeIs(e) /\ offset = EndAt(cs, k) /\ offset <= size
                /\ ReadAs(P, cs, h, j, k, t) /\ Backed(cs, k, s)

\* It holds before the first field is written.
LEMMA InitCodecInv == Init => CodecInv
  <1> SUFFICES ASSUME Init PROVE CodecInv
    OBVIOUS
  <1>1. format \in DOMAIN Writes /\ document \in DOMAIN Writes[format]
    BY DEF Init
  <1>2. PICK P : Sound(P) /\ Zipped(P, Writes[format][document], Reads[format][document])
    BY <1>1, DocumentsAgree DEF Agrees
  <1>0. PICK w, r, cs : w = Writes[format][document] /\ r = Reads[format][document]
                        /\ cs = cells
    OBVIOUS
  <1> DEFINE h == <<w>>
  <1>3. todo = w /\ cs = << >>
    BY <1>0 DEF Init
  <1>4. w \in Seq(Lefts(P)) /\ Zipped(P, w, r)
    BY <1>0, <1>2 DEF Zipped, Lefts
  <1>5. h \in Seq(Seq(Lefts(P))) /\ Len(h) = 1 /\ h[1] = w
    BY <1>4
  <1>6. Len(cs) = 0 /\ cs \in Seq(Cell(P))
    BY <1>3
  <1>7. Covered(cs, h)
    BY <1>5, <1>6 DEF Covered, EndAt
  <1>8. Course(P, w, cs, h, << >>, 0)
    <2> HIDE DEF h
    <2> QED BY <1>2, <1>5, <1>6, <1>7 DEF Course
  <1>9. WhileWriting /\ todo = h[Len(h)] /\ damage # "garbled"
    <2> HIDE DEF h
    <2> QED BY <1>3, <1>5 DEF WhileWriting, Init
  <1>10. Verdicts /\ verdict = "writing"
    BY <1>1 DEF Init, Verdicts
  <1> HIDE DEF h
  <1> QED BY <1>0, <1>2, <1>4, <1>8, <1>9, <1>10 DEF CodecInv

LEMMA BehindTypes ==
    ASSUME NEW P, Sound(P), NEW l \in Seq(Lefts(P)), l # << >>, NEW v \in Nat
    PROVE  /\ Head(l) \in Lefts(P) /\ Behind(l, v) \in Seq(Lefts(P))
           /\ \A b \in Nat : Weighs(l, b) =>
                \E c \in Nat : Weighs(Behind(l, v), c) /\ b <= c + Bytes(Head(l))
           /\ Kind(Head(l)) = "list" =>
                \A b \in Nat : Weighs(Element(Head(l)), b) => Weighs(Behind(l, v), v * b)
  <1> DEFINE f == Head(l)
             t == Tail(l)
  <1>1. f \in Lefts(P) /\ t \in Seq(Lefts(P))
    BY HeadTailProperties
  <1>2. \A b \in Nat : Weighs(l, b) => \E c \in Nat : Weighs(t, c) /\ b <= c + Bytes(f)
    BY WeighsTail
  <1>3. Weighs(t, 0)
    BY <1>1, WeighsZero
  <1> HIDE DEF f, t
  <1>4. CASE Kind(f) = "list"
    <2> DEFINE R == Repeat(v, Element(f))
    <2>1. Behind(l, v) = R \o t
      BY <1>4 DEF Behind, f, t
    <2>2. Element(f) \in Seq(Lefts(P))
      <3>1. PICK p \in P : p[1] = f
        BY <1>1 DEF Lefts
      <3>2. ListsMatch(P, f, p[2])
        BY <3>1, <1>4 DEF Sound
      <3> QED BY <3>2 DEF ListsMatch, Zipped, Lefts
    <2>3. R \in Seq(Lefts(P)) /\ Weighs(R, 0)
      BY <2>2, RepeatIs, WeighsZero
    <2>4. \A b \in Nat : Weighs(Element(f), b) => Weighs(R, v * b)
      BY <2>2, RepeatWeighs
    <2> HIDE DEF R
    <2>5. \A c \in Nat : Weighs(t, c) => Weighs(R \o t, c)
      <3> SUFFICES ASSUME NEW c \in Nat, Weighs(t, c) PROVE Weighs(R \o t, c)
        OBVIOUS
      <3>1. Weighs(R \o t, 0 + c)
        BY <2>3, <1>1, WeighsConcat
      <3> QED BY <3>1
    <2>6. \A b \in Nat : Weighs(Element(f), b) => Weighs(R \o t, v * b)
      <3> SUFFICES ASSUME NEW b \in Nat, Weighs(Element(f), b) PROVE Weighs(R \o t, v * b)
        OBVIOUS
      <3>1. Weighs(R \o t, v * b + 0)
        BY <2>3, <2>4, <1>1, <1>3, WeighsConcat
      <3> QED BY <3>1
    <2>7. R \o t \in Seq(Lefts(P))
      BY <2>3, <1>1, ConcatProperties
    <2> QED BY <1>1, <1>2, <2>1, <2>5, <2>6, <2>7 DEF f
  <1>5. CASE Kind(f) # "list"
    <2>1. Behind(l, v) = << >> \o t
      BY <1>5 DEF Behind, f, t
    <2>2. Behind(l, v) = t
      BY <2>1, <1>1, ConcatEmptySeq
    <2> QED BY <1>1, <1>2, <1>5, <2>2 DEF f
  <1> QED BY <1>4, <1>5

\* What a field takes, with a value in it.
LEMMA WidthAtLeast ==
    ASSUME NEW P, Sound(P), NEW f \in Lefts(P), NEW v \in Nat
    PROVE  Width(f, v) \in Nat /\ Width(f, v) > 0 /\ Width(f, v) >= Bytes(f)
           /\ Width(f, v) = Bytes(f) + IF Kind(f) = "str" THEN v ELSE 0
  BY WidthOf DEF Width, Bytes

\* Cells end at numbers.
LEMMA EndIsNat ==
    ASSUME NEW P, NEW cs \in Seq(Cell(P)), NEW i \in 0..Len(cs)
    PROVE  EndAt(cs, i) \in Nat
  <1>1. CASE i = 0
    BY <1>1 DEF EndAt
  <1>2. CASE i # 0
    <2>1. cs[i] \in Cell(P)
      BY <1>2
    <2> QED BY <2>1, <1>2 DEF Cell, EndAt
  <1> QED BY <1>1, <1>2

\* A field that is appended continues the course of writing.
LEMMA WrittenIs ==
    ASSUME NEW P, NEW cs \in Seq(Cell(P)), cs = cells
    PROVE  Written = EndAt(cs, Len(cs))
  <1>1. CASE cs = << >>
    BY <1>1 DEF Written, EndAt
  <1>2. CASE cs # << >>
    <2>1. Len(cs) # 0
      BY <1>2
    <2> QED BY <1>2, <2>1 DEF Written, EndAt
  <1> QED BY <1>1, <1>2

\* The course of writing with one more field.
LEMMA CourseGoesOn ==
    ASSUME NEW P, Sound(P), NEW w, NEW cs, NEW h, NEW v, Course(P, w, cs, h, v, 0),
           NEW n, n = Len(cs), NEW l, l = h[n + 1], l # << >>,
           NEW x, Legal(Head(l), x),
           NEW d, d = Append(cs, [kind |-> Kind(Head(l)), name |-> Name(Head(l)), value |-> x,
                                  end |-> EndAt(cs, n) + Width(Head(l), x)])
    PROVE  Course(P, w, d, Append(h, Behind(l, x)), Append(v, x), 0)
  <1> DEFINE f == Head(l)
             rest == Behind(l, x)
             cell == [kind |-> Kind(f), name |-> Name(f), value |-> x,
                      end |-> EndAt(cs, n) + Width(f, x)]
             H == Append(h, rest)
             V == Append(v, x)
  <1>2. /\ n \in Nat /\ cs \in Seq(Cell(P)) /\ x \in Nat
        /\ h \in Seq(Seq(Lefts(P))) /\ Len(h) = n + 1 /\ v \in Seq(Nat) /\ Len(v) = n
    BY DEF Course, Legal
  <1>3. l \in Seq(Lefts(P))
    BY <1>2
  <1>4. f \in Lefts(P) /\ rest \in Seq(Lefts(P))
    BY <1>2, <1>3, BehindTypes
  <1>6. EndAt(cs, n) \in Nat
    BY <1>2, EndIsNat
  <1>7. Width(f, x) \in Nat /\ Width(f, x) >= Bytes(f) /\ Bytes(f) \in Nat
    BY <1>2, <1>4, WidthAtLeast, WidthOf
  <1>8. cell \in Cell(P)
    BY <1>2, <1>4, <1>6, <1>7, WidthOf DEF Cell
  <1>9. /\ d \in Seq(Cell(P)) /\ Len(d) = n + 1
        /\ \A i \in 1..n : d[i] = cs[i]
        /\ d[n + 1] = cell
    <2> HIDE DEF cell
    <2>1. d = Append(cs, cell)
      BY DEF cell
    <2> QED BY <2>1, <1>2, <1>8, AppendProperties
  <1>10. /\ H \in Seq(Seq(Lefts(P))) /\ Len(H) = n + 2
         /\ \A i \in 1..(n + 1) : H[i] = h[i]
         /\ H[n + 2] = rest
    <2> HIDE DEF rest
    <2> QED BY <1>2, <1>4, AppendProperties
  <1>11. /\ V \in Seq(Nat) /\ Len(V) = n + 1
         /\ \A i \in 1..n : V[i] = v[i]
         /\ V[n + 1] = x
    BY <1>2, AppendProperties
  <1>12. \A i \in 0..n : EndAt(d, i) = EndAt(cs, i)
    BY <1>2, <1>9 DEF EndAt
  <1>14. /\ cell.kind = Kind(f) /\ cell.name = Name(f) /\ cell.value = x
         /\ cell.end = EndAt(cs, n) + Width(f, x)
    OBVIOUS
  <1>13. EndAt(d, n + 1) = EndAt(cs, n) + Width(f, x)
    <2> HIDE DEF cell
    <2> QED BY <1>2, <1>9, <1>14 DEF EndAt
  <1>15. \A c \in Nat : Weighs(l, c) =>
            \E g \in Nat : Weighs(rest, g) /\ c <= g + Bytes(f)
    BY <1>2, <1>3, BehindTypes
  <1> HIDE DEF cell, H, V, rest, f
  <1>16. \A i \in 1..(n + 1) : WrittenAs(d, H, V, i)
    <2> TAKE i \in 1..(n + 1)
    <2>1. CASE i <= n
      <3>1. i \in 1..n /\ i - 1 \in 0..n /\ i \in 1..(n + 1) /\ i + 1 \in 1..(n + 1)
        BY <2>1, <1>2
      <3>2. WrittenAs(cs, h, v, i)
        BY <3>1 DEF Course
      <3>3. H[i] = h[i] /\ H[i + 1] = h[i + 1] /\ V[i] = v[i] /\ d[i] = cs[i]
            /\ EndAt(d, i - 1) = EndAt(cs, i - 1)
        BY <3>1, <1>9, <1>10, <1>11, <1>12
      <3> QED BY <3>2, <3>3 DEF WrittenAs
    <2>2. CASE i = n + 1
      <3>1. H[i] = l /\ H[i + 1] = rest /\ V[i] = x /\ d[i] = cell
            /\ EndAt(d, i - 1) = EndAt(cs, n)
        BY <2>2, <1>2, <1>9, <1>10, <1>11, <1>12
      <3> QED BY <3>1, <1>14 DEF WrittenAs, f, rest
    <2> QED BY <2>1, <2>2, <1>2
  <1>17. Covered(d, H)
    <2> SUFFICES ASSUME NEW i \in 1..(n + 2), NEW b \in Nat, Weighs(H[i], b)
                 PROVE  \E c \in Nat : Weighs(rest, c)
                                       /\ EndAt(d, i - 1) + b <= EndAt(d, n + 1) + c
      BY <1>9, <1>10 DEF Covered
    <2>1. CASE i = n + 2
      <3>1. Weighs(rest, b) /\ i - 1 = n + 1
        BY <2>1, <1>10, <1>2
      <3>2. EndAt(d, n + 1) \in Nat
        BY <1>6, <1>7, <1>13
      <3> QED BY <3>1, <3>2
    <2>2. CASE i <= n + 1
      <3>1. i \in 1..(n + 1) /\ i - 1 \in 0..n /\ H[i] = h[i]
        BY <2>2, <1>2, <1>10
      <3>2. PICK c \in Nat : Weighs(l, c) /\ EndAt(cs, i - 1) + b <= EndAt(cs, n) + c
        BY <3>1, <1>2 DEF Course, Covered
      <3>3. PICK g \in Nat : Weighs(rest, g) /\ c <= g + Bytes(f)
        BY <3>2, <1>15
      <3>4. EndAt(d, i - 1) = EndAt(cs, i - 1) /\ EndAt(cs, i - 1) \in Nat
        BY <3>1, <1>2, <1>12, EndIsNat
      <3>5. EndAt(d, i - 1) + b <= EndAt(d, n + 1) + g
        BY <3>2, <3>3, <3>4, <1>6, <1>7, <1>13
      <3> QED BY <3>3, <3>5
    <2> QED BY <2>1, <2>2, <1>2
  <1>18. \A i \in 1..(n + 1) : d[i].value = V[i]
    <2> TAKE i \in 1..(n + 1)
    <2>1. CASE i <= n
      <3>1. i \in 1..n /\ i # 0
        BY <2>1, <1>2
      <3> QED BY <3>1, <1>9, <1>11 DEF Course
    <2>2. CASE i = n + 1
      BY <2>2, <1>9, <1>11, <1>14
    <2> QED BY <2>1, <2>2, <1>2
  <1>19. H[1] = w
    BY <1>2, <1>10 DEF Course
  <1>20. Course(P, w, d, H, V, 0)
    <2>1. \A i \in 1..Len(d) : WrittenAs(d, H, V, i)
      BY <1>9, <1>16
    <2>2. \A i \in 1..Len(d) : i # 0 => d[i].value = V[i]
      BY <1>9, <1>18
    <2>3. Len(H) = Len(d) + 1 /\ Len(V) = Len(d)
      BY <1>2, <1>9, <1>10, <1>11
    <2> QED BY <2>1, <2>2, <2>3, <1>9, <1>10, <1>11, <1>17, <1>19 DEF Course
  <1> QED BY <1>20 DEF H, V, rest

\* Both writers keep the invariant.
LEMMA EmitKeeps ==
    ASSUME CodecInv, verdict = "writing", todo # << >>,
           NEW value, Legal(Head(todo), value), Emit(Head(todo), value)
    PROVE  CodecInv'
  <1>1. PICK P, w, r, cs, h, v, j, t :
          /\ w = Writes[format][document] /\ r = Reads[format][document]
          /\ cs = cells /\ t = todo
          /\ Sound(P) /\ Zipped(P, w, r)
          /\ Course(P, w, cs, h, v, j)
          /\ j = 0 /\ WhileWriting /\ t = h[Len(h)]
    BY DEF CodecInv, WhileWriting
  <1>2. PICK n, d, u, z : n = Len(cs) /\ d = cells' /\ u = todo' /\ z = size'
    OBVIOUS
  <1>3. cs \in Seq(Cell(P)) /\ Len(h) = n + 1
    BY <1>1, <1>2 DEF Course
  <1>4. /\ d = Append(cs, [kind |-> Kind(Head(t)), name |-> Name(Head(t)), value |-> value,
                            end |-> EndAt(cs, n) + Width(Head(t), value)])
        /\ u = Behind(t, value)
        /\ UNCHANGED <<format, document, fill, damage, size, offset, taken, verdict>>
    BY <1>1, <1>2, <1>3, WrittenIs DEF Emit, After, Behind, documentVars
  <1>5. Course(P, w, d, Append(h, u), Append(v, value), 0)
    BY <1>1, <1>2, <1>3, <1>4, CourseGoesOn
  <1>6. PICK H, V, e : H = Append(h, u) /\ V = Append(v, value) /\ e = EndAt(d, Len(d))
    OBVIOUS
  <1>7. u = H[Len(H)]
    <2>1. h \in Seq(Seq(Lefts(P))) /\ t \in Seq(Lefts(P)) /\ t # << >> /\ value \in Nat
      <3>1. n + 1 \in 1..Len(h) /\ h \in Seq(Seq(Lefts(P)))
        BY <1>1, <1>3, <1>2 DEF Course
      <3> QED BY <3>1, <1>1, <1>3 DEF Legal
    <2>2. u \in Seq(Lefts(P))
      BY <2>1, <1>1, <1>4, BehindTypes
    <2> QED BY <2>1, <2>2, <1>6, AppendProperties
  <1>8. w = Writes[format'][document'] /\ r = Reads[format'][document']
        /\ WhileWriting' /\ verdict' = "writing" /\ damage' # "garbled"
    BY <1>1, <1>4 DEF WhileWriting
  <1>9. Verdicts'
    BY <1>4 DEF CodecInv, Verdicts
  <1> QED BY <1>1, <1>2, <1>5, <1>6, <1>7, <1>8, <1>9 DEF CodecInv

LEMMA GarbledCells ==
    ASSUME NEW P, NEW cs \in Seq(Cell(P)), NEW i \in 1..Len(cs), NEW x \in Nat,
           NEW d, d = [cs EXCEPT ![i].value = x]
    PROVE  /\ d \in Seq(Cell(P)) /\ Len(d) = Len(cs)
           /\ \A m \in 1..Len(cs) : m # i => d[m] = cs[m]
           /\ d[i].kind = cs[i].kind /\ d[i].name = cs[i].name /\ d[i].end = cs[i].end
           /\ d[i].value = x
  <1> DEFINE c == [cs[i] EXCEPT !.value = x]
  <1>1. cs[i] \in Cell(P)
    OBVIOUS
  <1>2. c \in Cell(P) /\ c.kind = cs[i].kind /\ c.name = cs[i].name /\ c.end = cs[i].end
        /\ c.value = x
    BY <1>1 DEF Cell
  <1>3. d = [cs EXCEPT ![i] = c]
    OBVIOUS
  <1> HIDE DEF c
  <1>4. d \in Seq(Cell(P)) /\ Len(d) = Len(cs) /\ d[i] = c
        /\ \A m \in 1..Len(cs) : m # i => d[m] = cs[m]
    BY <1>2, <1>3, ExceptSeq
  <1> QED BY <1>2, <1>4

\* A garbled cell leaves the course as it was everywhere else.
LEMMA GarbledCourse ==
    ASSUME NEW P, NEW w, NEW cs, NEW h, NEW v, Course(P, w, cs, h, v, 0),
           NEW i \in 1..Len(cs), NEW x \in Nat,
           NEW d \in Seq(Cell(P)), Len(d) = Len(cs),
           \A m \in 1..Len(cs) : m # i => d[m] = cs[m],
           d[i].kind = cs[i].kind, d[i].name = cs[i].name, d[i].end = cs[i].end,
           d[i].value = x,
           cs[i].kind \in {"str", "list", "enum", "bool", "id"},
           cs[i].kind \in {"str", "list"} => x >= EndAt(cs, Len(cs)),
           cs[i].kind \in {"enum", "bool"} => x = OutOfRange,
           cs[i].kind = "id" => x = 0
    PROVE  /\ Course(P, w, d, h, v, i) /\ Len(d) = Len(cs)
           /\ EndAt(d, Len(d)) = EndAt(cs, Len(cs))
  <1> DEFINE n == Len(cs)
  <1>1. cs \in Seq(Cell(P)) /\ n \in Nat
    BY DEF Course
  <1>2. /\ d \in Seq(Cell(P)) /\ Len(d) = n
        /\ \A m \in 1..n : m # i => d[m] = cs[m]
        /\ d[i].kind = cs[i].kind /\ d[i].name = cs[i].name /\ d[i].end = cs[i].end
        /\ d[i].value = x
    OBVIOUS
  <1>3. \A m \in 1..n : d[m].kind = cs[m].kind /\ d[m].name = cs[m].name /\ d[m].end = cs[m].end
    BY <1>2
  <1>4. \A m \in 0..n : EndAt(d, m) = EndAt(cs, m)
    BY <1>3, <1>1 DEF EndAt
  <1> HIDE DEF n
  <1>5. Len(h) = n + 1 /\ \A m \in 1..n : WrittenAs(cs, h, v, m)
    BY DEF Course, n
  <1>6. \A m \in 1..n : WrittenAs(d, h, v, m)
    <2> TAKE m \in 1..n
    <2>1. m - 1 \in 0..n
      BY <1>1
    <2> QED BY <2>1, <1>3, <1>4, <1>5 DEF WrittenAs
  <1>7. \A m \in 1..n : m # i => d[m].value = v[m]
    <2> TAKE m \in 1..n
    <2>1. m # 0
      BY <1>1
    <2> QED BY <2>1, <1>2 DEF Course, n
  <1>8. Covered(d, h)
    <2>1. \A m \in 1..(n + 1) : \A b \in Nat :
            Weighs(h[m], b) =>
                \E c \in Nat : /\ Weighs(h[n + 1], c)
                               /\ EndAt(cs, m - 1) + b <= EndAt(cs, n) + c
      BY <1>5 DEF Course, Covered, n
    <2>2. \A m \in 1..(n + 1) : EndAt(d, m - 1) = EndAt(cs, m - 1)
      <3> TAKE m \in 1..(n + 1)
      <3>1. m - 1 \in 0..n
        BY <1>1
      <3> QED BY <3>1, <1>4
    <2>3. EndAt(d, n) = EndAt(cs, n)
      BY <1>1, <1>4
    <2>4. \A m \in 1..(n + 1) : \A b \in Nat :
            Weighs(h[m], b) =>
                \E c \in Nat : /\ Weighs(h[n + 1], c)
                               /\ EndAt(d, m - 1) + b <= EndAt(d, n) + c
      BY <2>1, <2>2, <2>3
    <2> QED BY <2>4, <1>2, <1>5 DEF Covered
  <1>9. EndAt(d, Len(d)) = EndAt(cs, n)
    BY <1>1, <1>2, <1>4
  <1>10. GarbledAt(d, i)
    BY <1>1, <1>2, <1>3, <1>9 DEF GarbledAt, n
  <1>11. Course(P, w, d, h, v, i)
    BY <1>2, <1>6, <1>7, <1>8, <1>10 DEF Course, n
  <1> QED BY <1>2, <1>9, <1>11 DEF n

\* So does the way to the reader, whatever it does to the bytes.
LEMMA ArriveKeeps ==
    ASSUME CodecInv, Whole \/ Cut \/ Extended \/ Garble
    PROVE  CodecInv'
  <1>1. /\ verdict = "writing" /\ todo = << >>
        /\ todo' = Reads[format][document] /\ verdict' = "reading"
        /\ UNCHANGED <<format, document, fill, offset, taken>>
    BY DEF Whole, Cut, Extended, Garble, Arrive, documentVars
  <1>2. PICK P, w, r, cs, h, v, e :
          /\ w = Writes[format][document] /\ r = Reads[format][document]
          /\ cs = cells /\ e = EndAt(cs, Len(cs))
          /\ Sound(P) /\ Zipped(P, w, r)
          /\ Course(P, w, cs, h, v, 0)
          /\ WhileWriting /\ << >> = h[Len(h)]
    BY <1>1 DEF CodecInv, WhileWriting
  <1>3. PICK d, s : d = cells' /\ s = size'
    OBVIOUS
  <1>4. e \in Nat /\ Written = e
    <2>1. cs \in Seq(Cell(P)) /\ Len(cs) \in 0..Len(cs)
      BY <1>2 DEF Course
    <2>2. EndAt(cs, Len(cs)) \in Nat
      BY <2>1, EndIsNat
    <2> QED BY <2>1, <2>2, <1>2, WrittenIs
  <1>5. \E j : /\ Course(P, w, d, h, v, j) /\ Len(d) = Len(cs)
               /\ EndAt(d, Len(d)) = e /\ s \in Nat
               /\ damage' \in {"none", "cut", "extended", "garbled"}
               /\ damage' = "garbled" <=> j # 0
               /\ damage' \in {"none", "garbled"} => s = e
               /\ damage' = "cut" => s < e
               /\ damage' = "extended" => s > e
    <2>1. CASE Whole
      <3>1. d = cs /\ damage' = "none" /\ s = e
        BY <2>1, <1>2, <1>3, <1>4 DEF Whole, Arrive
      <3> QED BY <3>1, <1>2, <1>4
    <2>2. CASE Cut
      <3>1. PICK i \in DOMAIN cells : \E bytes \in {cells[i].end - 1, cells[i].end} \ {Written} :
              Arrive("cut", bytes, cells)
        BY <2>2 DEF Cut
      <3>2. d = cs /\ damage' = "cut" /\ s \in {cs[i].end - 1, cs[i].end} /\ s # e
        BY <3>1, <1>2, <1>3, <1>4 DEF Arrive
      <3>3. i \in 1..Len(cs) /\ i \in 0..Len(cs) /\ cs[i].end = EndAt(cs, i)
        <4>1. i \in 1..Len(cs) /\ Len(cs) \in Nat
          BY <3>1, <1>2 DEF Course
        <4> QED BY <4>1 DEF EndAt
      <3>4. cs[i].end \in Nat /\ cs[i].end >= 1 /\ cs[i].end <= e
        <4>1. cs[i].end \in Nat
          BY <3>3, <1>2, EndIsNat DEF Course
        <4>2. /\ cs[i].end = EndAt(cs, i - 1) + Width(Head(h[i]), v[i])
              /\ h[i] # << >> /\ Legal(Head(h[i]), v[i])
          BY <3>3, <1>2 DEF Course, WrittenAs
        <4>3. h[i] \in Seq(Lefts(P)) /\ h[i + 1] \in Seq(Lefts(P)) /\ i + 1 \in 1..Len(h)
          <5>1. h \in Seq(Seq(Lefts(P))) /\ Len(h) = Len(cs) + 1 /\ Len(cs) \in Nat
            BY <1>2 DEF Course
          <5>2. i \in 1..Len(h) /\ i + 1 \in 1..Len(h)
            BY <5>1, <3>3
          <5> QED BY <5>1, <5>2
        <4>4. Width(Head(h[i]), v[i]) \in Nat /\ Width(Head(h[i]), v[i]) > 0
          <5>1. Head(h[i]) \in Lefts(P) /\ v[i] \in Nat
            BY <4>2, <4>3, HeadTailProperties DEF Legal
          <5> QED BY <5>1, <1>2, WidthAtLeast
        <4>5. i - 1 \in 0..Len(cs)
          BY <3>3
        <4>6. EndAt(cs, i - 1) \in Nat
          BY <4>5, <1>2, EndIsNat DEF Course
        <4>7. cs[i].end <= e
          <5>1. Weighs(h[i + 1], 0)
            BY <4>3, <1>2, WeighsZero
          <5>2. PICK c \in Nat : Weighs(h[Len(h)], c) /\ EndAt(cs, (i + 1) - 1) + 0 <= e + c
            BY <5>1, <4>3, <1>2 DEF Course, Covered
          <5>3. c = 0
            BY <5>2, <1>2 DEF Weighs, Mounts
          <5>4. (i + 1) - 1 = i
            BY <3>3
          <5> QED BY <5>2, <5>3, <5>4, <3>3, <4>1, <1>4
        <4> QED BY <4>1, <4>2, <4>4, <4>6, <4>7
      <3>5. s \in Nat /\ s < e
        BY <3>2, <3>4, <1>4
      <3> QED BY <3>2, <3>5, <1>2
    <2>3. CASE Extended
      <3>1. d = cs /\ damage' = "extended" /\ s = e + 1
        BY <2>3, <1>2, <1>3, <1>4 DEF Extended, Arrive
      <3>2. s \in Nat /\ s > e
        BY <3>1, <1>4
      <3> QED BY <3>1, <3>2, <1>2, <1>4
    <2>4. CASE Garble
      <3>1. PICK i \in DOMAIN cells : \E x \in Garbled(cells[i]) :
              Arrive("garbled", Written, [cells EXCEPT ![i].value = x])
        BY <2>4 DEF Garble
      <3>2. PICK x \in Garbled(cells[i]) :
              Arrive("garbled", Written, [cells EXCEPT ![i].value = x])
        BY <3>1
      <3>3. d = [cs EXCEPT ![i].value = x] /\ damage' = "garbled" /\ s = e
        BY <3>2, <1>2, <1>3, <1>4 DEF Arrive
      <3>4. i \in 1..Len(cs)
        BY <3>1, <1>2 DEF Course
      <3>5. /\ x \in Nat
            /\ cs[i].kind \in {"str", "list", "enum", "bool", "id"}
            /\ cs[i].kind \in {"str", "list"} => x >= e
            /\ cs[i].kind \in {"enum", "bool"} => x = OutOfRange
            /\ cs[i].kind = "id" => x = 0
        BY <3>2, <1>2, <1>4 DEF Garbled, Huge, OutOfRange
      <3>6. Course(P, w, d, h, v, i) /\ Len(d) = Len(cs) /\ EndAt(d, Len(d)) = e
        <4>1. cs \in Seq(Cell(P))
          BY <1>2 DEF Course
        <4>2. /\ d \in Seq(Cell(P)) /\ Len(d) = Len(cs)
              /\ \A m \in 1..Len(cs) : m # i => d[m] = cs[m]
              /\ d[i].kind = cs[i].kind /\ d[i].name = cs[i].name /\ d[i].end = cs[i].end
              /\ d[i].value = x
          BY <4>1, <3>3, <3>4, <3>5, GarbledCells
        <4>3. cs[i].kind \in {"str", "list"} => x >= EndAt(cs, Len(cs))
          BY <3>5, <1>2
        <4>4. Course(P, w, d, h, v, i) /\ EndAt(d, Len(d)) = EndAt(cs, Len(cs))
          BY <4>2, <4>3, <3>4, <3>5, <1>2, GarbledCourse
        <4> QED BY <4>2, <4>4, <1>2
      <3>7. i # 0
        BY <3>4
      <3> QED BY <3>3, <3>6, <3>7, <1>4
    <2> QED BY <2>1, <2>2, <2>3, <2>4
  <1>6. PICK j :
               /\ Course(P, w, d, h, v, j) /\ Len(d) = Len(cs)
               /\ EndAt(d, Len(d)) = e /\ s \in Nat
               /\ damage' \in {"none", "cut", "extended", "garbled"}
               /\ damage' = "garbled" <=> j # 0
               /\ damage' \in {"none", "garbled"} => s = e
               /\ damage' = "cut" => s < e
               /\ damage' = "extended" => s > e
    BY <1>5
  <1>7. PICK k : k = taken'
    OBVIOUS
  <1>8. k = 0 /\ offset' = 0 /\ w = Writes[format'][document'] /\ r = Reads[format'][document']
        /\ todo' = r
    BY <1>1, <1>2, <1>7 DEF WhileWriting
  <1>9. ReadAs(P, d, h, j, 0, r)
    <2>1. h[1] = w /\ Len(d) \in Nat
      BY <1>6 DEF Course
    <2>2. 0 < j \/ j = 0
      <3>1. j = 0 \/ j \in 1..Len(d)
        BY <1>6 DEF Course, GarbledAt
      <3> QED BY <3>1, <2>1
    <2> QED BY <2>1, <2>2, <1>2 DEF ReadAs
  <1>10. EndAt(d, 0) = 0 /\ Backed(d, 0, s)
    BY DEF EndAt, Backed
  <1>11. SizeIs(e)'
    BY <1>3, <1>6 DEF SizeIs
  <1>12. Verdicts'
    BY <1>1, <1>6 DEF CodecInv, Verdicts
  <1>13. verdict' # "writing" /\ offset' <= size' /\ offset' = EndAt(d, k)
    BY <1>1, <1>3, <1>6, <1>8, <1>10
  <1> QED BY <1>2, <1>3, <1>6, <1>7, <1>8, <1>9, <1>10, <1>11, <1>12, <1>13 DEF CodecInv

-----------------------------------------------------------------------------
(* The reader. *)

LEMMA ProductGrows ==
    ASSUME NEW a \in Nat, NEW b \in Nat, NEW l \in Nat, a <= b
    PROVE  a * l \in Nat /\ a * l <= b * l /\ l * a = a * l
  <1>1. PICK c \in Nat : b = a + c
    <2>1. b - a \in Nat /\ b = a + (b - a)
      OBVIOUS
    <2> QED BY <2>1
  <1>2. b * l = a * l + c * l /\ c * l \in Nat /\ a * l \in Nat
    BY <1>1
  <1> QED BY <1>2

\* The division of Reader::count and the product of read_count decide the same.
LEMMA ShareIs ==
    ASSUME NEW a \in Nat, NEW b \in Nat, NEW l \in Nat, l > 0
    PROVE  a <= b \div l <=> a * l <= b
  <1> DEFINE q == b \div l
             m == b % l
  <1>1. q \in Nat /\ m \in 0..(l - 1) /\ b = l * q + m
    BY Quotient
  <1> HIDE DEF q, m
  <1>2. a <= q => a * l <= b
    <2> SUFFICES ASSUME a <= q PROVE a * l <= b
      OBVIOUS
    <2>1. a * l <= q * l /\ l * q = q * l /\ a * l \in Nat /\ q * l \in Nat
      BY <1>1, ProductGrows
    <2> QED BY <2>1, <1>1
  <1>3. a * l <= b => a <= q
    <2> SUFFICES ASSUME a * l <= b, ~(a <= q) PROVE FALSE
      OBVIOUS
    <2>1. q + 1 <= a /\ q + 1 \in Nat
      BY <1>1
    <2>2. (q + 1) * l <= a * l
      BY <2>1, ProductGrows
    <2>3. (q + 1) * l = q * l + l /\ l * q = q * l /\ q * l \in Nat
      BY <1>1
    <2>4. a * l \in Nat
      BY ProductGrows
    <2> QED BY <2>2, <2>3, <2>4, <1>1
  <1> QED BY <1>2, <1>3 DEF q

\* A written field ends within the document, and so do the elements of a list.
LEMMA Fits ==
    ASSUME NEW P, Sound(P), NEW w, NEW cs, NEW h, NEW v, NEW j, Course(P, w, cs, h, v, j),
           h[Len(h)] = << >>, NEW i \in 1..Len(cs), NEW g, <<Head(h[i]), g>> \in P,
           NEW f, f = Head(h[i]), NEW e, e = EndAt(cs, Len(cs))
    PROVE  /\ e \in Nat /\ EndAt(cs, i) \in Nat /\ EndAt(cs, i - 1) \in Nat
           /\ EndAt(cs, i) <= e
           /\ EndAt(cs, i) = EndAt(cs, i - 1) + Width(f, v[i]) /\ cs[i].end = EndAt(cs, i)
           /\ Width(f, v[i]) = Bytes(f) + (IF Kind(f) = "str" THEN v[i] ELSE 0)
           /\ Bytes(f) \in Nat /\ Legal(f, v[i]) /\ cs[i].value \in Nat
           /\ cs[i].kind = Kind(f) /\ cs[i].name = Name(f)
           /\ Kind(g) = Kind(f) /\ Name(g) = Name(f) /\ Kind(f) \in DOMAIN FixedWidth
           /\ Kind(f) = "list" =>
                /\ Least(g) \in Nat /\ Least(g) >= 4
                /\ Ceiling(g) \in Nat
                /\ Short(g) \/ Ceiling(g) >= AtMost(Name(g))
                /\ Thin(g) \/ EndAt(cs, i) + v[i] * Least(g) <= e
  <1>1. /\ cs \in Seq(Cell(P)) /\ h \in Seq(Seq(Lefts(P))) /\ Len(h) = Len(cs) + 1
        /\ WrittenAs(cs, h, v, i) /\ Len(cs) \in Nat
    <2>1. cs \in Seq(Cell(P)) /\ h \in Seq(Seq(Lefts(P))) /\ Len(h) = Len(cs) + 1
      BY DEF Course
    <2>2. WrittenAs(cs, h, v, i)
      BY DEF Course
    <2> QED BY <2>1, <2>2
  <1>2. i - 1 \in 0..Len(cs) /\ i \in 0..Len(cs) /\ Len(cs) \in 0..Len(cs)
        /\ i \in 1..Len(h) /\ i + 1 \in 1..Len(h) /\ i # 0 /\ (i + 1) - 1 = i
    BY <1>1
  <1>3. e \in Nat /\ EndAt(cs, i) \in Nat /\ EndAt(cs, i - 1) \in Nat
    BY <1>1, <1>2, EndIsNat
  <1>4. /\ h[i] # << >> /\ Legal(f, v[i])
        /\ cs[i].kind = Kind(f) /\ cs[i].name = Name(f)
        /\ cs[i].end = EndAt(cs, i - 1) + Width(f, v[i])
        /\ h[i + 1] = Behind(h[i], v[i])
    BY <1>1 DEF WrittenAs
  <1>5. cs[i].end = EndAt(cs, i) /\ cs[i].value \in Nat
    <2>1. cs[i] \in Cell(P)
      BY <1>1
    <2> QED BY <2>1, <1>2 DEF EndAt, Cell
  <1>6. h[i] \in Seq(Lefts(P)) /\ h[i + 1] \in Seq(Lefts(P)) /\ v[i] \in Nat
    BY <1>1, <1>2, <1>4 DEF Legal
  <1>7. f \in Lefts(P)
    BY <1>4, <1>6, HeadTailProperties
  <1>8. /\ Width(f, v[i]) = Bytes(f) + (IF Kind(f) = "str" THEN v[i] ELSE 0)
        /\ Bytes(f) \in Nat /\ Kind(f) \in DOMAIN FixedWidth
    BY <1>6, <1>7, WidthAtLeast, WidthOf
  <1>9. \A b \in Nat : Weighs(h[i + 1], b) => EndAt(cs, i) + b <= e
    <2> SUFFICES ASSUME NEW b \in Nat, Weighs(h[i + 1], b) PROVE EndAt(cs, i) + b <= e
      OBVIOUS
    <2>1. PICK c \in Nat : Weighs(h[Len(h)], c) /\ EndAt(cs, (i + 1) - 1) + b <= e + c
      BY <1>2 DEF Course, Covered
    <2>2. c = 0
      BY <2>1 DEF Weighs, Mounts
    <2> QED BY <2>1, <2>2, <1>2, <1>3
  <1>10. EndAt(cs, i) <= e
    <2>1. Weighs(h[i + 1], 0)
      BY <1>6, WeighsZero
    <2> QED BY <2>1, <1>9, <1>3
  <1>11. /\ Kind(g) = Kind(f) /\ Name(g) = Name(f)
         /\ Kind(f) = "list" => ListsMatch(P, f, g)
    <2> DEFINE p == <<f, g>>
    <2>1. p \in P /\ p[1] = f /\ p[2] = g
      OBVIOUS
    <2> HIDE DEF p
    <2> QED BY <2>1 DEF Sound
  <1>12. CASE Kind(f) = "list"
    <2>1. /\ Least(g) \in Nat /\ Least(g) >= 4
          /\ Ceiling(g) \in Nat
          /\ Short(g) \/ Ceiling(g) >= AtMost(Name(g))
          /\ Thin(g) \/ Weighs(Element(f), Least(g))
      BY <1>11, <1>12 DEF ListsMatch
    <2>2. Thin(g) \/ Weighs(h[i + 1], v[i] * Least(g))
      BY <2>1, <1>4, <1>6, <1>12, BehindTypes
    <2>3. v[i] * Least(g) \in Nat
      BY <2>1, <1>6
    <2>4. Thin(g) \/ EndAt(cs, i) + v[i] * Least(g) <= e
      BY <2>2, <2>3, <1>9
    <2> QED BY <2>1, <2>4, <1>3, <1>4, <1>5, <1>8, <1>10, <1>11
  <1>13. CASE Kind(f) # "list"
    BY <1>13, <1>3, <1>4, <1>5, <1>8, <1>10, <1>11
  <1> QED BY <1>12, <1>13

\* What the reader faces: the next field of its own list, g, is the field f
\* the writer put there, as the i-th, unless somebody replaced its value.
LEMMA ReaderFaces ==
    ASSUME NEW P, Sound(P), NEW w, NEW cs, NEW h, NEW v, NEW j, Course(P, w, cs, h, v, j),
           NEW k, NEW t, ReadAs(P, cs, h, j, k, t), t # << >>
    PROVE  /\ k \in Nat /\ k + 1 \in 1..Len(cs) /\ k < Len(cs)
           /\ <<Head(h[k + 1]), Head(t)>> \in P /\ h[k + 1] # << >>
           /\ k + 1 # j => cs[k + 1].value = v[k + 1]
           /\ k + 1 = j => GarbledAt(cs, j)
           /\ v[k + 1] \in Nat => Zipped(P, h[k + 2], Behind(t, v[k + 1]))
  <1>1. /\ k \in 0..Len(cs) /\ h[Len(h)] = << >> /\ Zipped(P, h[k + 1], t)
        /\ Len(h) = Len(cs) + 1 /\ Len(cs) \in Nat
    <2>1. cs \in Seq(Cell(P)) /\ Len(h) = Len(cs) + 1
      BY DEF Course
    <2> QED BY <2>1 DEF ReadAs
  <1>2. h[k + 1] # << >>
    <2>1. Len(h[k + 1]) = Len(t) /\ t \in Seq(Rights(P))
      BY <1>1 DEF Zipped, Rights
    <2> QED BY <2>1
  <1>3. k + 1 \in 1..Len(cs) /\ k < Len(cs) /\ k \in Nat
    <2>1. k # Len(cs)
      BY <1>1, <1>2
    <2> QED BY <2>1, <1>1
  <1>4. <<Head(h[k + 1]), Head(t)>> \in P
    BY <1>1, <1>2, ZippedTail
  <1>5. WrittenAs(cs, h, v, k + 1)
    BY <1>3 DEF Course
  <1>6. v[k + 1] \in Nat => Zipped(P, h[k + 2], Behind(t, v[k + 1]))
    <2>1. h[(k + 1) + 1] = Behind(h[k + 1], v[k + 1]) /\ (k + 1) + 1 = k + 2
      BY <1>3, <1>5 DEF WrittenAs
    <2> QED BY <2>1, <1>1, <1>2, ZippedBehind
  <1>7. k + 1 # j => cs[k + 1].value = v[k + 1]
    BY <1>3 DEF Course
  <1>8. k + 1 = j => GarbledAt(cs, j)
    BY <1>3 DEF Course
  <1> QED BY <1>2, <1>3, <1>4, <1>6, <1>7, <1>8

\* Neither reader accepts a garbled field.
LEMMA GarbledIsRefused ==
    ASSUME NEW g, NEW i, GarbledAt(cells, i), i = taken + 1, taken \in Nat, taken < Len(cells),
           Kind(g) = cells[i].kind, Kind(g) \in DOMAIN FixedWidth,
           cells[i].value \in Nat, NEW e \in Nat, e = EndAt(cells, Len(cells)),
           Kind(g) = "list" => Least(g) \in Nat /\ Least(g) >= 4,
           size = e, offset \in Nat
    PROVE  ~Accepts(g)
  <1> SUFFICES ASSUME Accepts(g) PROVE FALSE
    OBVIOUS
  <1>1. Seen = cells[i].value
    BY DEF Seen
  <1> DEFINE x == cells[i].value
             rest == Remaining - FixedWidth[Kind(g)]
  <1>2. rest \in Int /\ rest < e
    BY Widths DEF Remaining
  <1>3. /\ Kind(g) \in {"str", "list", "enum", "bool", "id"}
        /\ Kind(g) \in {"str", "list"} => x >= e
        /\ Kind(g) \in {"enum", "bool"} => x = OutOfRange
        /\ Kind(g) = "id" => x = 0
    BY DEF GarbledAt
  <1>4. /\ Remaining >= FixedWidth[Kind(g)]
        /\ Kind(g) = "id" => x # 0
        /\ Kind(g) \in {"bool", "enum"} => x # OutOfRange
        /\ Kind(g) = "str" => x <= rest
    BY <1>1 DEF Accepts, ByteReaderAccepts, ReaderAccepts
  <1>5. rest \in Nat
    BY <1>4, Widths DEF Remaining
  <1>6. Kind(g) = "list" => (x = 0 \/ x * Least(g) <= rest) \/ x <= rest \div Least(g)
    BY <1>1 DEF Accepts, ByteReaderAccepts, ReaderAccepts, read_count
  <1> HIDE DEF rest, x
  <1>7. CASE Kind(g) = "list"
    <2>1. x \in Nat /\ x >= e /\ Least(g) \in Nat /\ Least(g) >= 4
      BY <1>3, <1>7 DEF x
    <2>2. x * Least(g) <= rest
      <3>1. x # 0
        BY <2>1, <1>2, <1>5
      <3>2. \A l \in Nat : l > 0 => (x <= rest \div l <=> x * l <= rest)
        BY <2>1, <1>5, ShareIs
      <3>3. Least(g) \in Nat /\ Least(g) > 0
        BY <2>1
      <3>4. x <= rest \div Least(g) <=> x * Least(g) <= rest
        BY <3>2, <3>3
      <3> QED BY <3>1, <3>4, <1>6, <1>7
    <2>3. x <= x * Least(g)
      <3>1. 1 * x <= Least(g) * x /\ x * Least(g) = Least(g) * x
        BY <2>1, ProductGrows
      <3> QED BY <3>1, <2>1
    <2>4. x * Least(g) \in Nat
      BY <2>1
    <2> QED BY <2>1, <2>2, <2>3, <2>4, <1>2
  <1>8. CASE Kind(g) = "str"
    BY <1>2, <1>3, <1>4, <1>8 DEF x
  <1> QED BY <1>3, <1>4, <1>7, <1>8

\* Both readers accept what a writer wrote, where they are not narrow.
LEMMA IntactIsAccepted ==
    ASSUME NEW f, NEW g, NEW i, i = taken + 1, taken \in Nat, taken < Len(cells),
           NEW e \in Nat, size = e, offset \in Nat, NEW x \in Nat, cells[i].value = x,
           NEW end \in Nat, end = offset + Width(f, x), end <= e,
           Kind(g) = Kind(f), Name(g) = Name(f), Kind(f) \in DOMAIN FixedWidth, Legal(f, x),
           Kind(f) = "list" => /\ Least(g) \in Nat /\ Least(g) >= 4
                               /\ Ceiling(g) \in Nat /\ x <= Ceiling(g)
                               /\ end + x * Least(g) <= e
    PROVE  Accepts(g)
  <1> DEFINE rest == Remaining - FixedWidth[Kind(g)]
  <1>1. Seen = x
    BY DEF Seen
  <1>2. FixedWidth[Kind(f)] \in Nat
    BY Widths
  <1>3. rest = e - end + (IF Kind(f) = "str" THEN x ELSE 0)
    BY <1>2 DEF Remaining, Width
  <1>4. rest \in Nat /\ Remaining >= FixedWidth[Kind(g)] /\ (Kind(g) = "str" => x <= rest)
    BY <1>2, <1>3 DEF Width, Remaining
  <1>5. Kind(g) = "list" =>
          /\ x <= Ceiling(g) /\ x * Least(g) <= rest /\ Least(g) # 0
          /\ x <= rest \div Least(g)
    <2> SUFFICES ASSUME Kind(g) = "list"
                 PROVE  /\ x <= Ceiling(g) /\ x * Least(g) <= rest /\ Least(g) # 0
                        /\ x <= rest \div Least(g)
      OBVIOUS
    <2>1. /\ Least(g) \in Nat /\ Least(g) >= 4 
          /\ Ceiling(g) \in Nat /\ x <= Ceiling(g)
          /\ end + x * Least(g) <= e
      OBVIOUS
    <2>3. x * Least(g) \in Nat
      BY <2>1
    <2>4. rest = e - end
      BY <1>3
    <2> HIDE DEF rest
    <2>5. x * Least(g) <= rest
      BY <2>1, <2>3, <2>4
    <2>6. x <= rest \div Least(g)
      <3>1. \A l \in Nat : l > 0 => (x <= rest \div l <=> x * l <= rest)
        BY <1>4, ShareIs
      <3>2. Least(g) \in Nat /\ Least(g) > 0
        BY <2>1
      <3>3. x <= rest \div Least(g) <=> x * Least(g) <= rest
        BY <3>1, <3>2
      <3> QED BY <3>3, <2>5
    <2> QED BY <2>1, <2>5, <2>6
  <1>6. /\ Kind(g) = "id" => x # 0
        /\ Kind(g) \in {"bool", "enum"} => x # OutOfRange
        /\ Kind(g) = "str" => x <= kMaxSnapshotStringBytes
    BY DEF Legal
  <1>7. ByteReaderAccepts(g)
    BY <1>1, <1>4, <1>5, <1>6 DEF ByteReaderAccepts, read_count
  <1>8. ReaderAccepts(g)
    BY <1>1, <1>4, <1>5, <1>6 DEF ReaderAccepts
  <1> QED BY <1>7, <1>8 DEF Accepts

\* The reader's state before a step, with everything it rests on named.
Reading(P, w, r, cs, h, v, j, k, t, e, s) ==
    /\ w = Writes[format][document] /\ r = Reads[format][document]
    /\ cs = cells /\ k = taken /\ t = todo /\ s = size /\ e = EndAt(cs, Len(cs))
    /\ Sound(P) /\ Zipped(P, w, r)
    /\ Course(P, w, cs, h, v, j)
    /\ damage = "garbled" <=> j # 0
    /\ SizeIs(e) /\ offset = EndAt(cs, k) /\ offset <= size
    /\ ReadAs(P, cs, h, j, k, t) /\ Backed(cs, k, s)
    /\ k \in Nat /\ e \in Nat /\ s \in Nat /\ Len(cs) \in Nat /\ EndAt(cs, k) \in Nat

\* The invariant while reading.
LEMMA ReadingIs ==
    ASSUME CodecInv, verdict = "reading"
    PROVE  \E P, w, r, cs, h, v, j, k, t, e, s : Reading(P, w, r, cs, h, v, j, k, t, e, s)
  <1>1. PICK P, w, r, cs, h, v, j, k, t, e, s :
          /\ w = Writes[format][document] /\ r = Reads[format][document]
          /\ cs = cells /\ k = taken /\ t = todo /\ s = size /\ e = EndAt(cs, Len(cs))
          /\ Sound(P) /\ Zipped(P, w, r)
          /\ Course(P, w, cs, h, v, j)
          /\ damage = "garbled" <=> j # 0
          /\ SizeIs(e) /\ offset = EndAt(cs, k) /\ offset <= size
          /\ ReadAs(P, cs, h, j, k, t) /\ Backed(cs, k, s)
    BY DEF CodecInv
  <1>2. cs \in Seq(Cell(P)) /\ k \in 0..Len(cs)
    BY <1>1 DEF Course, ReadAs
  <1>3. Len(cs) \in Nat /\ k \in Nat /\ Len(cs) \in 0..Len(cs)
    BY <1>2
  <1>4. EndAt(cs, k) \in Nat /\ EndAt(cs, Len(cs)) \in Nat
    BY <1>2, <1>3, EndIsNat
  <1>5. s \in Nat
    BY <1>1 DEF SizeIs
  <1> QED BY <1>1, <1>3, <1>4, <1>5 DEF Reading

\* What Fits and ReaderFaces say of the next field, together.
NextField(P, cs, h, v, j, k, t, e, f, g, x, b) ==
    /\ k + 1 \in 1..Len(cs) /\ k < Len(cs)
    /\ f = Head(h[k + 1]) /\ g = Head(t) /\ x = cs[k + 1].value /\ b = EndAt(cs, k + 1)
    /\ k + 1 # j => x = v[k + 1] /\ Legal(f, x)
    /\ k + 1 = j => GarbledAt(cs, j)
    /\ cs[k + 1].kind = Kind(f) /\ cs[k + 1].name = Name(f) /\ cs[k + 1].end = b
    /\ x \in Nat /\ b \in Nat /\ b <= e
    /\ k + 1 # j => /\ b = EndAt(cs, k) + Width(f, x)
                    /\ Width(f, x) = Bytes(f) + (IF Kind(f) = "str" THEN x ELSE 0)
                    /\ Zipped(P, h[k + 2], Behind(t, x))
    /\ Bytes(f) \in Nat
    /\ Kind(g) = Kind(f) /\ Name(g) = Name(f) /\ Kind(f) \in DOMAIN FixedWidth
    /\ Kind(f) = "list" => /\ Least(g) \in Nat /\ Least(g) >= 4
                           /\ Ceiling(g) \in Nat
                           /\ k + 1 # j =>
                                /\ Short(g) \/ Ceiling(g) >= AtMost(Name(g))
                                /\ Thin(g) \/ b + x * Least(g) <= e

\* What the reader faces is what the writer wrote, unless it was garbled.
LEMMA NextFieldIs ==
    ASSUME NEW P, NEW w, NEW r, NEW cs, NEW h, NEW v, NEW j, NEW k, NEW t, NEW e, NEW s,
           Reading(P, w, r, cs, h, v, j, k, t, e, s), t # << >>
    PROVE  \E f, g, x, b : NextField(P, cs, h, v, j, k, t, e, f, g, x, b)
  <1>1. /\ Sound(P) /\ Course(P, w, cs, h, v, j) /\ ReadAs(P, cs, h, j, k, t)
        /\ e = EndAt(cs, Len(cs)) /\ k \in Nat
    BY DEF Reading
  <1>2. /\ k + 1 \in 1..Len(cs) /\ k < Len(cs)
        /\ <<Head(h[k + 1]), Head(t)>> \in P /\ h[k + 1] # << >>
        /\ k + 1 # j => cs[k + 1].value = v[k + 1]
        /\ k + 1 = j => GarbledAt(cs, j)
        /\ v[k + 1] \in Nat => Zipped(P, h[k + 2], Behind(t, v[k + 1]))
    BY <1>1, ReaderFaces
  <1>3. PICK f, g, x, b : f = Head(h[k + 1]) /\ g = Head(t) /\ x = cs[k + 1].value
                          /\ b = EndAt(cs, k + 1)
    OBVIOUS
  <1>4. h[Len(h)] = << >>
    BY <1>1 DEF ReadAs
  <1>5. (k + 1) - 1 = k
    BY <1>1
  <1>6. /\ b \in Nat /\ b <= e
        /\ EndAt(cs, k + 1) = EndAt(cs, (k + 1) - 1) + Width(f, v[k + 1])
        /\ cs[k + 1].end = b
        /\ Width(f, v[k + 1]) = Bytes(f) + (IF Kind(f) = "str" THEN v[k + 1] ELSE 0)
        /\ Bytes(f) \in Nat /\ Legal(f, v[k + 1]) /\ x \in Nat
        /\ cs[k + 1].kind = Kind(f) /\ cs[k + 1].name = Name(f)
        /\ Kind(g) = Kind(f) /\ Name(g) = Name(f) /\ Kind(f) \in DOMAIN FixedWidth
        /\ Kind(f) = "list" =>
             /\ Least(g) \in Nat /\ Least(g) >= 4
             /\ Ceiling(g) \in Nat
             /\ Short(g) \/ Ceiling(g) >= AtMost(Name(g))
             /\ Thin(g) \/ EndAt(cs, k + 1) + v[k + 1] * Least(g) <= e
    <2>1. PICK i : i = k + 1
      OBVIOUS
    <2>2. i \in 1..Len(cs) /\ <<Head(h[i]), g>> \in P /\ f = Head(h[i]) /\ b = EndAt(cs, i)
          /\ x = cs[i].value
      BY <2>1, <1>2, <1>3
    <2>3. /\ EndAt(cs, i) \in Nat /\ EndAt(cs, i) <= e
          /\ EndAt(cs, i) = EndAt(cs, i - 1) + Width(f, v[i]) /\ cs[i].end = EndAt(cs, i)
          /\ Width(f, v[i]) = Bytes(f) + (IF Kind(f) = "str" THEN v[i] ELSE 0)
          /\ Bytes(f) \in Nat /\ Legal(f, v[i]) /\ cs[i].value \in Nat
          /\ cs[i].kind = Kind(f) /\ cs[i].name = Name(f)
          /\ Kind(g) = Kind(f) /\ Name(g) = Name(f) /\ Kind(f) \in DOMAIN FixedWidth
          /\ Kind(f) = "list" =>
               /\ Least(g) \in Nat /\ Least(g) >= 4
               /\ Ceiling(g) \in Nat
               /\ Short(g) \/ Ceiling(g) >= AtMost(Name(g))
               /\ Thin(g) \/ EndAt(cs, i) + v[i] * Least(g) <= e
      BY <2>2, <1>1, <1>4, Fits
    <2> QED BY <2>1, <2>2, <2>3
  <1>7. v[k + 1] \in Nat
    BY <1>6 DEF Legal
  <1>8. NextField(P, cs, h, v, j, k, t, e, f, g, x, b)
    BY <1>1, <1>2, <1>3, <1>5, <1>6, <1>7 DEF NextField
  <1> QED BY <1>8

\* An accepted list has at least four bytes for each of its elements.
LEMMA AcceptedIsBacked ==
    ASSUME NEW g, Accepts(g), Kind(g) = "list", NEW x \in Nat, Seen = x,
           Least(g) \in Nat, Least(g) >= 4,
           NEW s \in Nat, s = size, NEW b \in Nat, b = offset + FixedWidth["list"], offset \in Nat
    PROVE  4 * x <= s - b
  <1> DEFINE rest == Remaining - FixedWidth[Kind(g)]
  <1>1. FixedWidth["list"] \in Nat
    BY Widths DEF FixedWidth
  <1>2. rest = s - b /\ Remaining >= FixedWidth["list"]
    BY <1>1 DEF Remaining, Accepts, ByteReaderAccepts, ReaderAccepts
  <1>3. rest \in Nat
    BY <1>1, <1>2 DEF Remaining
  <1>4. (x = 0 \/ x * Least(g) <= rest) \/ x <= rest \div Least(g)
    BY DEF Accepts, ByteReaderAccepts, ReaderAccepts, read_count
  <1> HIDE DEF rest
  <1>5. x = 0 \/ x * Least(g) <= rest
    <2>1. \A l \in Nat : l > 0 => (x <= rest \div l <=> x * l <= rest)
      BY <1>3, ShareIs
    <2>2. Least(g) \in Nat /\ Least(g) > 0
      OBVIOUS
    <2>3. x <= rest \div Least(g) <=> x * Least(g) <= rest
      BY <2>1, <2>2
    <2> QED BY <2>3, <1>4
  <1>6. 4 * x <= x * Least(g) /\ x * Least(g) \in Nat
    <2>1. \A l \in Nat : 4 <= l => 4 * x <= l * x /\ x * l = l * x /\ l * x \in Nat
      BY ProductGrows
    <2> QED BY <2>1
  <1> QED BY <1>2, <1>3, <1>5, <1>6

\* A field that is read keeps the invariant: nothing is misread.
LEMMA ReadKeeps ==
    ASSUME CodecInv, Read
    PROVE  CodecInv'
  <1>1. verdict = "reading" /\ todo # << >> /\ Accepts(Head(todo))
    BY DEF Read
  <1>2. PICK P, w, r, cs, h, v, j, k, t, e, s : Reading(P, w, r, cs, h, v, j, k, t, e, s)
    BY <1>1, ReadingIs
  <1>3. /\ w = Writes[format][document] /\ r = Reads[format][document]
        /\ cs = cells /\ k = taken /\ t = todo /\ s = size /\ e = EndAt(cs, Len(cs))
        /\ Sound(P) /\ Zipped(P, w, r)
        /\ Course(P, w, cs, h, v, j)
        /\ damage = "garbled" <=> j # 0
        /\ SizeIs(e) /\ offset = EndAt(cs, k) /\ offset <= size
        /\ ReadAs(P, cs, h, j, k, t) /\ Backed(cs, k, s)
        /\ k \in Nat /\ e \in Nat /\ s \in Nat /\ Len(cs) \in Nat /\ EndAt(cs, k) \in Nat
    BY <1>2 DEF Reading
  <1>4. PICK f, g, x, b : NextField(P, cs, h, v, j, k, t, e, f, g, x, b)
    BY <1>1, <1>2, <1>3, NextFieldIs
  <1>5. /\ k + 1 \in 1..Len(cs) /\ k < Len(cs)
        /\ f = Head(h[k + 1]) /\ g = Head(t) /\ x = cs[k + 1].value /\ b = EndAt(cs, k + 1)
        /\ k + 1 # j => x = v[k + 1] /\ Legal(f, x)
        /\ k + 1 = j => GarbledAt(cs, j)
        /\ cs[k + 1].kind = Kind(f) /\ cs[k + 1].name = Name(f) /\ cs[k + 1].end = b
        /\ x \in Nat /\ b \in Nat /\ b <= e
        /\ k + 1 # j => /\ b = EndAt(cs, k) + Width(f, x)
                        /\ Width(f, x) = Bytes(f) + (IF Kind(f) = "str" THEN x ELSE 0)
                        /\ Zipped(P, h[k + 2], Behind(t, x))
        /\ Bytes(f) \in Nat
        /\ Kind(g) = Kind(f) /\ Name(g) = Name(f) /\ Kind(f) \in DOMAIN FixedWidth
        /\ Kind(f) = "list" => Least(g) \in Nat /\ Least(g) >= 4
    BY <1>4 DEF NextField
  <1>6. Seen = x
    BY <1>3, <1>5 DEF Seen
  <1>7. k + 1 # j
    <2> SUFFICES ASSUME k + 1 = j PROVE FALSE
      OBVIOUS
    <2>1. j # 0 /\ damage = "garbled" /\ size = e
      BY <1>3 DEF SizeIs
    <2>2. GarbledAt(cells, k + 1) /\ e = EndAt(cells, Len(cells))
      BY <1>3, <1>5
    <2>3. Kind(g) = cells[k + 1].kind /\ cells[k + 1].value \in Nat /\ taken < Len(cells)
          /\ taken \in Nat /\ k + 1 = taken + 1
      BY <1>3, <1>5
    <2>4. offset \in Nat
      BY <1>3
    <2>5. ~Accepts(g)
      BY <2>1, <2>2, <2>3, <2>4, <1>3, <1>5, GarbledIsRefused
    <2> QED BY <2>5, <1>1, <1>3, <1>5
  <1>8. Width(g, x) = Width(f, x) /\ b = offset + Width(g, x)
    BY <1>3, <1>5, <1>7 DEF Width
  <1>9. Aligned(g)
    BY <1>3, <1>5, <1>6, <1>8 DEF Aligned
  <1>10. /\ taken' = k + 1 /\ offset' = b /\ todo' = Behind(t, x)
         /\ UNCHANGED <<format, document, fill, cells, damage, size, verdict>>
    <2>1. After(g, x) = Behind(t, x)
      BY <1>3, <1>5 DEF After, Behind
    <2> QED BY <2>1, <1>3, <1>5, <1>6, <1>8, <1>9 DEF Read, documentVars
  <1>11. b <= size
    <2>1. Bytes(g) = Bytes(f) /\ Remaining >= Bytes(g)
          /\ (Kind(g) = "str" => x <= Remaining - Bytes(g))
      BY <1>1, <1>3, <1>5, <1>6 DEF Accepts, ByteReaderAccepts, ReaderAccepts, Bytes
    <2>2. b = offset + (Bytes(f) + (IF Kind(f) = "str" THEN x ELSE 0))
      BY <1>3, <1>5, <1>7
    <2>3. Remaining = size - offset /\ offset \in Nat /\ size \in Nat
      BY <1>3 DEF Remaining
    <2> QED BY <2>1, <2>2, <2>3, <1>5
  <1>12. Backed(cs, k + 1, s)
    <2>1. Kind(f) = "list" => 4 * x <= s - b
      <3> SUFFICES ASSUME Kind(f) = "list" PROVE 4 * x <= s - b
        OBVIOUS
      <3>1. b = offset + FixedWidth["list"]
        BY <1>3, <1>5, <1>7 DEF Bytes
      <3>2. Accepts(g) /\ Kind(g) = "list" /\ offset \in Nat
        BY <1>1, <1>3, <1>5
      <3> QED BY <3>1, <3>2, <1>3, <1>5, <1>6, AcceptedIsBacked
    <2>2. \A i \in 1..k : cs[i].kind = "list" => 4 * cs[i].value <= s - cs[i].end
      BY <1>3 DEF Backed
    <2>3. \A i \in 1..(k + 1) : i \in 1..k \/ i = k + 1
      BY <1>3
    <2> QED BY <2>1, <2>2, <2>3, <1>5 DEF Backed
  <1>13. PICK k2, t2 : k2 = k + 1 /\ t2 = Behind(t, x)
    OBVIOUS
  <1>14. ReadAs(P, cs, h, j, k2, t2)
    <2>1. k2 + 1 = k + 2 /\ k2 \in 0..Len(cs)
      BY <1>3, <1>5, <1>13
    <2>2. k2 < j \/ j = 0
      <3>1. j = 0 \/ j \in Nat
        BY <1>3 DEF Course, GarbledAt
      <3>2. k < j \/ j = 0
        BY <1>3 DEF ReadAs
      <3> QED BY <3>1, <3>2, <1>7, <1>3, <1>13
    <2> QED BY <2>1, <2>2, <1>3, <1>5, <1>7, <1>13 DEF ReadAs
  <1>15. SizeIs(e)'
    BY <1>3, <1>10 DEF SizeIs
  <1>16. Verdicts'
    BY <1>1, <1>10 DEF CodecInv, Verdicts
  <1>17. /\ w = Writes[format'][document'] /\ r = Reads[format'][document']
         /\ cs = cells' /\ k2 = taken' /\ t2 = todo' /\ s = size' /\ e = EndAt(cs, Len(cs))
         /\ damage' = "garbled" <=> j # 0
         /\ offset' = EndAt(cs, k2) /\ offset' <= size' /\ verdict' # "writing"
    BY <1>1, <1>3, <1>5, <1>10, <1>11, <1>13
  <1>18. Backed(cs, k2, s)
    BY <1>12, <1>13
  <1> QED BY <1>3, <1>14, <1>15, <1>16, <1>17, <1>18 DEF CodecInv

\* A step that only passes a verdict on what was read.
LEMMA VerdictKeeps ==
    ASSUME CodecInv, verdict = "reading", verdict' \in {"accepted", "refused"},
           UNCHANGED <<documentVars, todo, cells, damage, size, offset, taken>>,
           verdict' = "refused" => damage # "none" \/ AtNarrow,
           verdict' = "accepted" => damage = "none" /\ taken = Len(cells)
    PROVE  CodecInv'
  <1>1. PICK P, w, r, cs, h, v, j, k, t, e, s : Reading(P, w, r, cs, h, v, j, k, t, e, s)
    BY ReadingIs
  <1>2. UNCHANGED <<format, document, fill, todo, cells, damage, size, offset, taken>>
    BY DEF documentVars
  <1>3. /\ w = Writes[format'][document'] /\ r = Reads[format'][document']
        /\ cs = cells' /\ k = taken' /\ t = todo' /\ s = size' /\ e = EndAt(cs, Len(cs))
        /\ Sound(P) /\ Zipped(P, w, r)
        /\ Course(P, w, cs, h, v, j)
        /\ damage' = "garbled" <=> j # 0
        /\ offset' = EndAt(cs, k) /\ offset' <= size' /\ verdict' # "writing"
        /\ ReadAs(P, cs, h, j, k, t) /\ Backed(cs, k, s)
    BY <1>1, <1>2 DEF Reading
  <1>4. SizeIs(e)'
    BY <1>1, <1>2 DEF Reading, SizeIs
  <1>5. Verdicts'
    BY <1>2 DEF CodecInv, Verdicts, AtNarrow, TooNarrow, Seen
  <1> QED BY <1>3, <1>4, <1>5 DEF CodecInv

\* A reader refuses only damage, or a list it is too narrow for.
LEMMA RefuseKeeps ==
    ASSUME CodecInv, Refuse
    PROVE  CodecInv'
  <1>1. /\ verdict = "reading" /\ todo # << >> /\ ~Accepts(Head(todo)) /\ verdict' = "refused"
        /\ UNCHANGED <<documentVars, todo, cells, damage, size, offset, taken>>
    BY DEF Refuse
  <1>2. damage # "none" \/ AtNarrow
    <2> SUFFICES ASSUME damage = "none", ~AtNarrow PROVE FALSE
      OBVIOUS
    <2>1. PICK P, w, r, cs, h, v, j, k, t, e, s : Reading(P, w, r, cs, h, v, j, k, t, e, s)
      BY <1>1, ReadingIs
    <2>2. /\ cs = cells /\ k = taken /\ t = todo /\ j = 0 /\ size = e
          /\ offset = EndAt(cs, k) /\ k \in Nat /\ e \in Nat /\ EndAt(cs, k) \in Nat
      BY <2>1 DEF Reading, SizeIs
    <2>3. PICK f, g, x, b : NextField(P, cs, h, v, j, k, t, e, f, g, x, b)
      BY <1>1, <2>1, <2>2, NextFieldIs
    <2>4. k + 1 # j
      BY <2>2
    <2>5. /\ k < Len(cs) /\ g = Head(t) /\ x = cs[k + 1].value
          /\ Legal(f, x) /\ x \in Nat /\ b \in Nat /\ b <= e
          /\ b = EndAt(cs, k) + Width(f, x)
          /\ Kind(g) = Kind(f) /\ Name(g) = Name(f) /\ Kind(f) \in DOMAIN FixedWidth
          /\ Kind(f) = "list" => /\ Least(g) \in Nat /\ Least(g) >= 4
                                 /\ Ceiling(g) \in Nat
                                 /\ Short(g) \/ Ceiling(g) >= AtMost(Name(g))
                                 /\ Thin(g) \/ b + x * Least(g) <= e
      BY <2>3, <2>4 DEF NextField
    <2>6. /\ taken \in Nat /\ taken < Len(cells) /\ cells[k + 1].value = x
          /\ k + 1 = taken + 1 /\ b = offset + Width(f, x) /\ offset \in Nat
      BY <2>2, <2>5
    <2>8. Kind(f) = "list" => x <= Ceiling(g) /\ ~Thin(g)
      <3> SUFFICES ASSUME Kind(f) = "list" PROVE x <= Ceiling(g) /\ ~Thin(g)
        OBVIOUS
      <3>1. ~Thin(g) /\ (Short(g) => ~(Seen > Ceiling(g)))
        BY <2>2, <2>5, <1>1 DEF AtNarrow, TooNarrow
      <3>2. Seen = x
        BY <2>6 DEF Seen
      <3>3. x <= AtMost(Name(g)) /\ AtMost(Name(g)) \in Nat /\ Ceiling(g) \in Nat
        BY <2>5, Limits DEF Legal
      <3> QED BY <3>1, <3>2, <3>3, <2>5
    <2>7. Accepts(g)
      BY <2>8, <2>2, <2>5, <2>6, IntactIsAccepted
    <2> QED BY <2>7, <2>2, <2>5, <1>1
  <1> QED BY <1>1, <1>2, VerdictKeeps

\* All that was written was read when the reader demands the end.
LEMMA ExhaustedKeeps ==
    ASSUME CodecInv, require_exhausted
    PROVE  CodecInv'
  <1>1. /\ verdict = "reading" /\ todo = << >>
        /\ verdict' = (IF Remaining = 0 THEN "accepted" ELSE "refused")
        /\ UNCHANGED <<documentVars, todo, cells, damage, size, offset, taken>>
    BY DEF require_exhausted
  <1>2. PICK P, w, r, cs, h, v, j, k, t, e, s : Reading(P, w, r, cs, h, v, j, k, t, e, s)
    BY <1>1, ReadingIs
  <1>3. /\ cs = cells /\ k = taken /\ t = << >> /\ s = size /\ e = EndAt(cs, Len(cs))
        /\ Sound(P) /\ Course(P, w, cs, h, v, j) /\ ReadAs(P, cs, h, j, k, t)
        /\ damage = "garbled" <=> j # 0
        /\ SizeIs(e) /\ offset = EndAt(cs, k) /\ offset <= size
        /\ k \in Nat /\ e \in Nat /\ s \in Nat /\ Len(cs) \in Nat
    BY <1>1, <1>2 DEF Reading
  <1>4. k = Len(cs)
    <2> SUFFICES ASSUME k # Len(cs) PROVE FALSE
      OBVIOUS
    <2>1. k + 1 \in 1..Len(cs) /\ Zipped(P, h[k + 1], << >>)
      BY <1>3 DEF ReadAs
    <2>2. h[k + 1] # << >>
      BY <2>1, <1>3 DEF Course, WrittenAs
    <2>3. <<Head(h[k + 1]), Head(<< >>)>> \in P /\ << >> # << >>
      BY <2>1, <2>2, ZippedTail
    <2> QED BY <2>3
  <1>5. j = 0
    <2>1. j = 0 \/ j \in 1..Len(cs)
      BY <1>3 DEF Course, GarbledAt
    <2>2. k < j \/ j = 0
      BY <1>3 DEF ReadAs
    <2> QED BY <2>1, <2>2, <1>3, <1>4
  <1>6. Remaining = size - e /\ e <= size /\ size \in Nat
    BY <1>3, <1>4 DEF Remaining
  <1>7. damage \in {"none", "extended"}
    <2>1. damage \in {"none", "cut", "extended", "garbled"}
      BY DEF CodecInv, Verdicts
    <2> QED BY <2>1, <1>3, <1>5, <1>6 DEF SizeIs
  <1>8. /\ Remaining = 0 => damage = "none"
        /\ Remaining # 0 => damage # "none"
    BY <1>3, <1>6, <1>7 DEF SizeIs
  <1>9. taken = Len(cells)
    BY <1>3, <1>4
  <1>10. verdict' \in {"accepted", "refused"} /\ (verdict' = "refused" => damage # "none")
         /\ (verdict' = "accepted" => damage = "none" /\ taken = Len(cells))
    BY <1>1, <1>8, <1>9
  <1> QED BY <1>1, <1>10, VerdictKeeps

\* What a writer writes is legal.
LEMMA WriteKeeps ==
    ASSUME CodecInv, ByteWriter \/ Writer
    PROVE  CodecInv'
  <1>1. verdict = "writing" /\ todo # << >> /\ Emit(Head(todo), FilledWith(Head(todo)))
    BY DEF ByteWriter, Writer
  <1>2. Legal(Head(todo), FilledWith(Head(todo)))
    <2>1. fill \in Fills
      BY DEF CodecInv, Verdicts
    <2>2. /\ fill.elements \in 0..16
          /\ fill.text \in 0..kMaxSnapshotStringBytes /\ fill.null \in BOOLEAN
          /\ \A n \in DOMAIN fill.counts : fill.counts[n] \in 0..AtMost(n)
          /\ \A n \in DOMAIN fill.lengths : fill.lengths[n] \in 0..kMaxSnapshotStringBytes
      BY <2>1, FillAssumption
    <2>3. /\ \A n : AtMost(n) \in Nat /\ AtMost(n) >= 16
          /\ kMaxSnapshotStringBytes \in Nat
      BY Limits DEF kMaxSnapshotStringBytes
    <2> QED BY <2>2, <2>3 DEF Legal, FilledWith, OutOfRange
  <1> QED BY <1>1, <1>2, EmitKeeps

\* The invariant is inductive.
LEMMA NextCodecInv ==
    ASSUME CodecInv, [Next]_vars PROVE CodecInv'
  <1>1. CASE UNCHANGED vars
    BY <1>1 DEF vars, CodecInv, Verdicts, AtNarrow, TooNarrow, Seen, WhileWriting, SizeIs
  <1>2. CASE Next
    BY <1>2, WriteKeeps, ArriveKeeps, ReadKeeps, RefuseKeeps, ExhaustedKeeps DEF Next
  <1> QED BY <1>1, <1>2

\* It implies the three properties.
LEMMA CodecInvImplies ==
    ASSUME CodecInv PROVE ReadsBackWhatWasWritten /\ DamageIsRefused /\ CountsAreBacked
  <1>1. Verdicts
    BY DEF CodecInv
  <1>2. PICK P, w, r, cs, h, v, j, k, t, e, s :
          /\ cs = cells /\ k = taken /\ t = todo /\ s = size /\ e = EndAt(cs, Len(cs))
          /\ Course(P, w, cs, h, v, j)
          /\ verdict = "writing" => WhileWriting
          /\ verdict # "writing" => /\ SizeIs(e) /\ offset <= size
                                    /\ ReadAs(P, cs, h, j, k, t) /\ Backed(cs, k, s)
    BY DEF CodecInv
  <1>3. ReadsBackWhatWasWritten
    BY <1>1 DEF Verdicts, ReadsBackWhatWasWritten, AtNarrow
  <1>4. DamageIsRefused
    BY <1>1, <1>2 DEF Verdicts, DamageIsRefused, WhileWriting
  <1>5. CountsAreBacked
    <2> SUFFICES ASSUME NEW i \in 1..taken, cells[i].kind = "list"
                 PROVE  cells[i].value <= (size - cells[i].end) \div 4
      BY DEF CountsAreBacked
    <2>1. verdict # "writing"
      BY <1>2 DEF WhileWriting
    <2>2. cs \in Seq(Cell(P)) /\ k \in 0..Len(cs) /\ s \in Nat /\ i \in 1..k
      BY <1>2, <2>1 DEF Course, ReadAs, SizeIs
    <2>3. 4 * cs[i].value <= s - cs[i].end
      BY <1>2, <2>1, <2>2 DEF Backed
    <2>4. PICK x, b : x = cs[i].value /\ b = cs[i].end
      OBVIOUS
    <2>5. x \in Nat /\ b \in Nat
      <3>1. cs[i] \in Cell(P)
        BY <2>2
      <3> QED BY <3>1, <2>4 DEF Cell
    <2>6. s - b \in Nat /\ x * 4 <= s - b
      BY <2>2, <2>3, <2>4, <2>5
    <2>7. x <= (s - b) \div 4
      <3> DEFINE q == s - b
      <3>1. q \in Nat /\ x * 4 <= q
        BY <2>6
      <3> HIDE DEF q
      <3>2. x <= q \div 4
        BY <3>1, <2>5, ShareIs
      <3> QED BY <3>2 DEF q
    <2> QED BY <2>4, <2>7, <1>2
  <1> QED BY <1>3, <1>4, <1>5

-----------------------------------------------------------------------------
(* The theorems. *)

\* The invariant holds of every document.
LEMMA CodecIsInductive == Spec => []CodecInv
  <1> QED BY InitCodecInv, NextCodecInv, PTL DEF Spec

\* What a writer wrote is what its reader gets: of every message and every
\* record, however it is filled, an intact copy is never misread, never accepted
\* with a field left over, and refused only at a list whose reader is too narrow:
\* the two of a snapshot whose elements may be thinner than it believes, its
\* closure blockers beyond 64, and the lists of the wire that grow with the run
\* beyond 4096 (write_* and read_* of protocol.cpp and persistence.cpp).
THEOREM DocumentsReadBack == Spec => []ReadsBackWhatWasWritten
  <1>1. CodecInv => ReadsBackWhatWasWritten
    BY CodecInvImplies
  <1> QED BY <1>1, CodecIsInductive, PTL

\* A document that was cut, extended or garbled anywhere is never accepted, and
\* no reader runs past the bytes it was given (ByteReader::take,
\* Reader::short_buffer, require_exhausted).
THEOREM DamagedDocumentsRefused == Spec => []DamageIsRefused
  <1>1. CodecInv => DamageIsRefused
    BY CodecInvImplies
  <1> QED BY <1>1, CodecIsInductive, PTL

\* Whatever count the bytes hold, a reader that goes on behind it has at least
\* four bytes for each element it is about to make room for (read_count of
\* protocol.cpp, Reader::count of persistence.cpp).
THEOREM CountsNeverExceedBytes == Spec => []CountsAreBacked
  <1>1. CodecInv => CountsAreBacked
    BY CodecInvImplies
  <1> QED BY <1>1, CodecIsInductive, PTL
=============================================================================
