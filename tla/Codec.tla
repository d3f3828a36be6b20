-------------------------------- MODULE Codec --------------------------------
(***************************************************************************)
(* A document - a message payload or the body of a snapshot record - is    *)
(* written field by field, reaches the reader whole or damaged, and is     *)
(* read field by field.  Values are abstracted to what the readers tell    *)
(* apart: a null identity, a discriminant or boolean out of range, an      *)
(* element count, a string's length.                                       *)
(***************************************************************************)
EXTENDS Layout

CONSTANTS
    Fills,          \* how documents are filled
    DamagedFills    \* the ones of them that may also arrive damaged

Wire == INSTANCE WireMessages
Snapshot == INSTANCE SnapshotFormat

\* 4 MiB.
kMaxSnapshotStringBytes == 4194304
\* Records of one kind a snapshot holds at most.
kMaxSnapshotRecordsPerKind == 4194304
\* Ancestors in a lineage at most: kMaxLineageDepth.
LongestLineage == 64

\* Lists as long as a population has candidates, and lists that grow with
\* everything the run has recorded.
OfCandidates == {"candidates", "ranking", "excluded", "entries", "retained", "retired"}
OfTheRun == {"nodes", "evaluations", "violations", "closure_blockers"}

\* Elements a list of a legal document has at most: what validate_task,
\* validate_policy, validate_candidate_record and create_population allow, two
\* more outstanding requirements than a task has requirements, and for what
\* grows with the run the records it may hold.
AtMost(name) ==
    CASE name = "factors" -> Snapshot!kMaxRankingFactors
      [] name = "required_outputs" -> Snapshot!kMaxRequiredOutputs
      [] name \in {"inputs", "input_files"} -> Snapshot!kMaxInputFiles
      [] name \in {"hard_constraints", "closure_criteria"} -> Snapshot!kMaxConstraints
      [] name \in {"requirements", "mandatory_evidence"} -> Snapshot!kMaxEvaluationRequirements
      [] name = "outstanding_requirements" -> Snapshot!kMaxEvaluationRequirements + 2
      [] name = "artifacts" -> Snapshot!kMaxArtifactsPerCandidate
      [] name \in OfCandidates -> Snapshot!kMaxCandidatesPerPopulation
      [] name \in OfTheRun -> kMaxSnapshotRecordsPerKind
      [] OTHER -> LongestLineage

\* A list holds fill.elements elements and a string fill.text bytes, except for
\* the names that counts and lengths give their own.
ASSUME FillAssumption ==
    /\ \A f \in Fills :
          /\ f.elements \in 0..16 /\ f.text \in 0..kMaxSnapshotStringBytes
          /\ f.null \in BOOLEAN
          /\ \A n \in DOMAIN f.counts : f.counts[n] \in 0..AtMost(n)
          /\ \A n \in DOMAIN f.lengths : f.lengths[n] \in 0..kMaxSnapshotStringBytes
    /\ DamagedFills \subseteq Fills

\* Documents by the group of protocol.cpp their functions stand in; those of
\* persistence.cpp are a group of their own.
Writes == [
    session |-> Wire!SessionWrites, definition |-> Wire!DefinitionWrites,
    population |-> Wire!PopulationWrites, cancel |-> Wire!CancelWrites,
    attempt |-> Wire!AttemptWrites, query |-> Wire!QueryWrites,
    report |-> Wire!ReportWrites, control |-> Wire!ControlWrites,
    value |-> Wire!ValueWrites, snapshot |-> Snapshot!RecordWrites]
Reads == [
    session |-> Wire!SessionReads, definition |-> Wire!DefinitionReads,
    population |-> Wire!PopulationReads, cancel |-> Wire!CancelReads,
    attempt |-> Wire!AttemptReads, query |-> Wire!QueryReads,
    report |-> Wire!ReportReads, control |-> Wire!ControlReads,
    value |-> Wire!ValueReads, snapshot |-> Snapshot!RecordReads]

\* Values that stand for "too large": a count or a length beyond every
\* ceiling, a discriminant beyond every enumeration.
Huge == 10000000
OutOfRange == 255

-----------------------------------------------------------------------------

VARIABLES
    format,      \* the group: which writer and which reader
    document,    \* which of the format's documents
    fill,        \* how it is filled
    todo,        \* fields not yet written, or not yet read
    cells,       \* fields written, each with the offset it ends at
    damage,      \* what happened to the bytes on the way
    size,        \* bytes the reader was given
    offset,      \* bytes it has taken
    taken,       \* cells it has taken
    verdict      \* "writing", "reading", "accepted", "refused" or "misread"

vars == <<format, document, fill, todo, cells, damage, size, offset, taken, verdict>>
documentVars == <<format, document, fill>>

Written == IF cells = <<>> THEN 0 ELSE cells[Len(cells)].end
Remaining == size - offset

Init ==
    /\ format \in DOMAIN Writes
    /\ document \in DOMAIN Writes[format]
    /\ fill \in Fills
    /\ todo = Writes[format][document]
    /\ cells = <<>> /\ damage = "none" /\ size = 0 /\ offset = 0 /\ taken = 0
    /\ verdict = "writing"

\* What comes behind a field once it is dealt with: a list's elements first.
After(field, count) ==
    (IF Kind(field) = "list" THEN Repeat(count, Element(field)) ELSE <<>>) \o Tail(todo)

-----------------------------------------------------------------------------
(* Writing. *)

\* The value in a field: null where the record may hold one, the length of a
\* string or list, and a legal value everywhere else.
FilledWith(field) ==
    CASE Kind(field) = "opt" -> IF fill.null THEN 0 ELSE 1
      [] Kind(field) = "str" ->
            IF Name(field) \in DOMAIN fill.lengths THEN fill.lengths[Name(field)] ELSE fill.text
      [] Kind(field) = "list" ->
            IF Name(field) \in DOMAIN fill.counts THEN fill.counts[Name(field)] ELSE fill.elements
      [] OTHER -> 1

Width(field, value) ==
    FixedWidth[Kind(field)] + IF Kind(field) = "str" THEN value ELSE 0

\* Fields follow each other without tags, padding or separators.
Emit(field, value) ==
    /\ cells' = Append(cells, [kind |-> Kind(field), name |-> Name(field),
                               value |-> value, end |-> Written + Width(field, value)])
    /\ todo' = After(field, value)
    /\ UNCHANGED <<documentVars, damage, size, offset, taken, verdict>>

ByteWriter ==
    /\ verdict = "writing" /\ format # "snapshot" /\ todo # <<>>
    /\ Emit(Head(todo), FilledWith(Head(todo)))

Writer ==
    /\ verdict = "writing" /\ format = "snapshot" /\ todo # <<>>
    /\ Emit(Head(todo), FilledWith(Head(todo)))

-----------------------------------------------------------------------------
(* The bytes reach the reader. *)

Arrive(how, bytes, received) ==
    /\ verdict = "writing" /\ todo = <<>>
    /\ how = "none" \/ fill \in DamagedFills
    /\ damage' = how /\ size' = bytes /\ cells' = received
    /\ todo' = Reads[format][document] /\ verdict' = "reading"
    /\ UNCHANGED <<documentVars, offset, taken>>

Whole == Arrive("none", Written, cells)

\* They end inside a field or between two, or one byte too late.
Cut == \E i \in DOMAIN cells : \E bytes \in {cells[i].end - 1, cells[i].end} \ {Written} :
          Arrive("cut", bytes, cells)
Extended == Arrive("extended", Written + 1, cells)

\* A field holds what no writer puts there: a count or a length that what
\* follows cannot hold, a discriminant or a boolean out of range, a null.
Garbled(cell) ==
    CASE cell.kind \in {"str", "list"} -> {Written, Written + Huge}
      [] cell.kind \in {"enum", "bool"} -> {OutOfRange}
      [] cell.kind = "id" -> {0}
      [] OTHER -> {}
Garble == \E i \in DOMAIN cells : \E v \in Garbled(cells[i]) :
             Arrive("garbled", Written, [cells EXCEPT ![i].value = v])

-----------------------------------------------------------------------------
(* Reading. *)

\* What the next bytes hold, if they are the next field that was written.
Seen == IF taken < Len(cells) THEN cells[taken + 1].value ELSE 0

\* Mutation of read_count: only the ceiling is checked.
read_count_ceiling(field, rest) == Seen <= Ceiling(field)
\* An impossible element count is refused before anything is reserved.
read_count(field, rest) ==
    /\ Seen <= Ceiling(field)
    /\ Seen = 0 \/ Seen * Least(field) <= rest

\* ByteReader: every read goes through take(), which refuses to run past the
\* end; the declared length of a string is checked before it is used.
ByteReaderAccepts(field) ==
    LET rest == Remaining - FixedWidth[Kind(field)] IN
    /\ Remaining >= FixedWidth[Kind(field)]
    /\ Kind(field) = "str" => Seen <= rest
    /\ Kind(field) = "list" => read_count(field, rest)
    /\ Kind(field) = "id" => Seen # 0
    /\ Kind(field) \in {"bool", "enum"} => Seen # OutOfRange

\* Reader of the snapshot: the same checks of its own.
ReaderAccepts(field) ==
    LET rest == Remaining - FixedWidth[Kind(field)] IN
    /\ Remaining >= FixedWidth[Kind(field)]
    /\ Kind(field) = "str" => Seen <= kMaxSnapshotStringBytes /\ Seen <= rest
    /\ Kind(field) = "list" =>
          /\ Ceiling(field) = 0 \/ Seen <= Ceiling(field)
          /\ Least(field) # 0 /\ Seen <= rest \div Least(field)
    /\ Kind(field) = "id" => Seen # 0
    /\ Kind(field) \in {"bool", "enum"} => Seen # OutOfRange

Accepts(field) ==
    IF format = "snapshot" THEN ReaderAccepts(field) ELSE ByteReaderAccepts(field)

\* The bytes the reader takes for the field are the ones written for it.
Aligned(field) ==
    /\ taken < Len(cells)
    /\ LET cell == cells[taken + 1] IN
       /\ cell.name = Name(field)
       /\ cell.kind = Kind(field) \/ {cell.kind, Kind(field)} = {"id", "opt"}
       /\ cell.end = offset + Width(field, Seen)

\* The reader takes a field; when it is not the one the writer put there, all
\* that it reads from here on is noise.
Read ==
    /\ verdict = "reading" /\ todo # <<>> /\ Accepts(Head(todo))
    /\ IF Aligned(Head(todo))
       THEN /\ taken' = taken + 1
            /\ offset' = offset + Width(Head(todo), Seen)
            /\ todo' = After(Head(todo), Seen)
            /\ UNCHANGED verdict
       ELSE verdict' = "misread" /\ UNCHANGED <<taken, offset, todo>>
    /\ UNCHANGED <<documentVars, cells, damage, size>>

Refuse ==
    /\ verdict = "reading" /\ todo # <<>> /\ ~Accepts(Head(todo))
    /\ verdict' = "refused"
    /\ UNCHANGED <<documentVars, todo, cells, damage, size, offset, taken>>

\* Mutation of require_exhausted: bytes behind the last field do not matter.
ignore_trailing ==
    /\ verdict = "reading" /\ todo = <<>>
    /\ verdict' = "accepted"
    /\ UNCHANGED <<documentVars, todo, cells, damage, size, offset, taken>>

require_exhausted ==
    /\ verdict = "reading" /\ todo = <<>>
    /\ verdict' = IF Remaining = 0 THEN "accepted" ELSE "refused"
    /\ UNCHANGED <<documentVars, todo, cells, damage, size, offset, taken>>

Next ==
    \/ ByteWriter \/ Writer
    \/ Whole \/ Cut \/ Extended \/ Garble
    \/ Read \/ Refuse \/ require_exhausted

Spec == Init /\ [][Next]_vars

-----------------------------------------------------------------------------

\* A ranking value may take 31 bytes and an evidence summary 25, fewer than
\* persistence.cpp's kMinRankingValueBytes and kMinEvidenceSummaryBytes say.
Thin(field) ==
    \/ Name(field) = "factors" /\ Least(field) = Snapshot!kMin.rankingValue
    \/ Name(field) = "mandatory_evidence" /\ Least(field) = Snapshot!kMin.evidence

\* close_population stores a blocker for every open attempt and unresolved
\* candidate, the snapshot's reader takes 64; and protocol.cpp reads no list of
\* more than 4096 elements, whatever a population may have.
Short(field) ==
    \/ Name(field) = "closure_blockers" /\ Ceiling(field) = Snapshot!kMaxClosureBlockers
    \/ Name(field) \in OfCandidates \cup OfTheRun /\ Ceiling(field) = Wire!kMaxProtocolElements

\* The reader has no room for the list it is at.
TooNarrow(field) == Thin(field) \/ (Short(field) /\ Seen > Ceiling(field))

\* What a writer wrote is what the reader gets, field by field, and an intact
\* document is refused only at two lists of a snapshot with thin elements, at a
\* snapshot's closure blockers beyond 64, and on the wire at a list that grows
\* with the run beyond 4096: the two sequences of fields agree, every other
\* reader has room for as many elements as a writer puts there and demands no
\* more bytes for them than every legal element has, and no field that a record
\* may leave null is read as a mandatory identity.
\* (write_* and read_* of protocol.cpp and of persistence.cpp.)
ReadsBackWhatWasWritten ==
    /\ damage = "none" => verdict # "misread"
    /\ damage = "none" /\ verdict = "refused" =>
          todo # <<>> /\ Kind(Head(todo)) = "list" /\ TooNarrow(Head(todo))
    /\ verdict = "accepted" => taken = Len(cells)

\* A document that was cut anywhere, extended, or carries a count, a length,
\* a discriminant or an identity that no writer produces is refused, and no
\* reader ever runs past the bytes it was given (ByteReader, Reader,
\* read_count, require_exhausted).
DamageIsRefused ==
    /\ damage # "none" => verdict # "accepted"
    /\ offset <= size

\* An element count is believed only when the bytes behind it can hold that
\* many elements, so that nothing is reserved for elements that are not there
\* (read_count, Reader::count).
CountsAreBacked ==
    \A i \in 1..taken :
        cells[i].kind = "list" => cells[i].value <= (size - cells[i].end) \div 4
=============================================================================
