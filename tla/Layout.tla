-------------------------------- MODULE Layout --------------------------------
(***************************************************************************)
(* Records as protocol.cpp and persistence.cpp see them: a layout is the   *)
(* sequence of fields a write_* function appends or a read_* function      *)
(* takes.  Nothing in the bytes says which field they belong to, so writer *)
(* and reader agree only if they list the same fields, with the same       *)
(* widths, in the same order; they are separate functions in the code and  *)
(* separate layouts here.  A field is <<kind, name>>.  A list is its u32   *)
(* count followed by its elements; its reader knows a ceiling for the      *)
(* count (0: none) and the least number of bytes an element takes.         *)
(***************************************************************************)
EXTENDS Naturals, Sequences

Fields(kind, names) == [i \in DOMAIN names |-> <<kind, names[i]>>]
Id(names) == Fields("id", names)
\* An identity field that may be null: optional_identity() when read.
Opt(names) == Fields("opt", names)
Gen(names) == Fields("gen", names)
Epoch(names) == Fields("epoch", names)
U8(names) == Fields("u8", names)
U16(names) == Fields("u16", names)
U32(names) == Fields("u32", names)
U64(names) == Fields("u64", names)
F64(names) == Fields("f64", names)
Bool(names) == Fields("bool", names)
\* A u8 discriminant that the reader checks against the enumeration's size.
Enum(names) == Fields("enum", names)
Str(names) == Fields("str", names)
\* An identity followed by its generation, for each name.
Refs(names) == [i \in 1..(2 * Len(names)) |->
                  <<IF i % 2 = 1 THEN "id" ELSE "gen", names[(i + 1) \div 2]>>]
OptRef(name) == << <<"opt", name>>, <<"gen", name>> >>
\* A list as its reader takes it, and as its writer writes it.
List(name, least, ceiling, element) ==
    << <<"list", name, least, ceiling, element>> >>
Many(name, element) == List(name, 0, 0, element)

Repeat(n, layout) ==
    [i \in 1..(n * Len(layout)) |-> layout[((i - 1) % Len(layout)) + 1]]

Kind(field) == field[1]
Name(field) == field[2]
Least(field) == field[3]
Ceiling(field) == field[4]
Element(field) == field[5]

\* Bytes of a field; a string is its u32 length and its bytes.
FixedWidth == [u8 |-> 1, enum |-> 1, bool |-> 1, u16 |-> 2, u32 |-> 4,
               gen |-> 4, list |-> 4, str |-> 4, id |-> 8, opt |-> 8, u64 |-> 8,
               f64 |-> 8, epoch |-> 8]
=============================================================================
