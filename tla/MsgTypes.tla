------------------------------ MODULE MsgTypes ------------------------------
(***************************************************************************)
(* Message definitions, as the generator reads them                        *)
(* (src/apps/nanorosmsgparser.cpp, src/apps/msgparser): a tree of          *)
(* definition files, the members of a type, the hash of its text and what  *)
(* of it can be generated and compiled.                                    *)
(*                                                                         *)
(* A line is a record [kind, type, dims, here, name]: kind is "field",     *)
(* "const" or "bad" (a member that is not two words and a comment); dims   *)
(* is None, Vector for T[] or n for T[n]; here says that the type is       *)
(* written without a package. A name stands for itself with its package,   *)
(* Header for std_msgs/Header. Empty lines and comments are left out. Two  *)
(* dimensions (T[n][m]) are left out too: what is generated for them does  *)
(* not compile.                                                            *)
(***************************************************************************)
EXTENDS Integers, Sequences, SequencesExt

CONSTANTS
  OneLetter,   \* the types whose name is one letter
  Levels       \* messages within messages: no definition without a cycle is deeper


None == 0
Vector == -1

\* One type for each of the ways the packers, and JSON, treat the sixteen: a byte,
\* words, which are whole numbers or floating, a string, and the two words of time and
\* duration. (The words of JSON differ by whether their kind is looked at.)
Floats == {"float32", "float64"}
Words == {"uint32", "int64"} \cup Floats
Primitive == {"uint8", "string", "time"} \cup Words

ASSUME TypesAssumption == Levels \in Nat /\ OneLetter \cap Primitive = {}

\* A type that has a C++ type of its own in to_cxx_primitiveTypeName.
to_cxx_typeName(f) == f.type \in Primitive

\* find("[]") == length() - 2: of a name of one letter, both are npos.
is_array(f) == f.dims = Vector \/ (f.dims = None /\ f.here /\ f.type \in OneLetter)

is_fixed_array(f) == f.dims > 0

\* A file that is missing is read as an empty one.
Lines(tree, t) == IF t \in DOMAIN tree THEN tree[t] ELSE << >>
OfKind(lines, kind) ==
  LET some[i \in 0..Len(lines)] ==
        IF i = 0 THEN << >>
        ELSE IF lines[i].kind = kind THEN Append(some[i - 1], lines[i]) ELSE some[i - 1]
  IN some[Len(lines)]
Fields(tree, t) == OfKind(Lines(tree, t), "field")
Consts(tree, t) == OfKind(Lines(tree, t), "const")

dependentTypeNames(tree, t) ==
  {f.type : f \in {g \in ToSet(Fields(tree, t)) : ~to_cxx_typeName(g)}}

\* The types the files are about or mention.
Mentioned(tree) == DOMAIN tree \cup UNION {dependentTypeNames(tree, t) : t \in DOMAIN tree}

\* The generated code that does not: T[n] of a message type is written with the
\* dimension twice, 0 is assigned to the elements of string[n], a list of
\* initialisers begins with a comma when the first member is T[n]; the elements of
\* an array of times are neither printed nor read from JSON; two members have one name.
Compiles(tree, t) ==
  /\ Fields(tree, t) # << >> => ~is_fixed_array(Head(Fields(tree, t)))
  /\ \A f \in ToSet(Fields(tree, t)) :
       /\ is_fixed_array(f) => to_cxx_typeName(f) /\ f.type # "string"
       /\ is_array(f) \/ is_fixed_array(f) => f.type # "time"
  /\ \A i, j \in DOMAIN Fields(tree, t) : Fields(tree, t)[i].name = Fields(tree, t)[j].name => i = j

-----------------------------------------------------------------------------
(***************************************************************************)
(* parse_md5: the text that is hashed, which stands for its hash. Members  *)
(* of message types stand in it with the hash of theirs; a file that is    *)
(* missing is read as empty when it is of the same package. The text fails *)
(* (an exception, or a recursion without end, ends the generator) on a bad *)
(* line, on a type of another package that is not there and on a cycle.    *)
(* Left out: every level of the recursion keeps its file open, and on a    *)
(* cycle it may come to one that cannot be opened any more, which reads as *)
(* an empty one, so that the types of the cycle get a hash of their own.   *)
(***************************************************************************)
Text(ok, items) == [ok |-> ok, items |-> items]

\* The word of the member's type. Brackets are written for primitive types, and
\* for T[n]; not for T[] of a message type (they are for Header[], left out here).
\* (Mutant: only the brackets of vectors are written.)
WordMutant(f, hash) ==
  [type |-> IF to_cxx_typeName(f) THEN f.type ELSE "hash", hash |-> hash,
   dims |-> IF to_cxx_typeName(f) /\ is_array(f) THEN f.dims ELSE None]
Word(f, hash) ==
  [type |-> IF to_cxx_typeName(f) THEN f.type ELSE "hash", hash |-> hash,
   dims |-> IF to_cxx_typeName(f) \/ is_fixed_array(f) THEN f.dims ELSE None]

\* The line feed is written before every member but one that is the first line of
\* the file: after constants too, which have none among them, and a value.
Item(feed, value, word, name) == [feed |-> feed, value |-> value, word |-> word, name |-> name]

\* The text of one file, with the hashes of the members' types.
TextOf(tree, t, hash) ==
  LET lines == Lines(tree, t)
      fields == Fields(tree, t)
      of(f) == IF to_cxx_typeName(f) THEN Text(TRUE, << >>)
               ELSE IF f.type \in DOMAIN tree THEN hash[f.type]
               ELSE Text(f.here, << >>)
  IN Text((\A l \in ToSet(lines) : l.kind # "bad") /\ \A f \in ToSet(fields) : of(f).ok,
          [i \in DOMAIN Consts(tree, t) |->
             Item(FALSE, TRUE, Word(Consts(tree, t)[i], << >>), Consts(tree, t)[i].name)]
            \o [i \in DOMAIN fields |->
                  Item(i > 1 \/ lines[1].kind # "field", FALSE,
                       Word(fields[i], of(fields[i]).items), fields[i].name)])

Hashes(tree) ==
  LET hash[d \in 0..Levels] ==
        [t \in DOMAIN tree |->
           IF d = 0 THEN Text(FALSE, << >>) ELSE TextOf(tree, t, hash[d - 1])]
  IN hash[Levels]

md5sum(tree, t) == Hashes(tree)[t].items

\* The files createMsgInfo gets through; the others end the generator.
Parsed(tree) == {t \in DOMAIN tree : Hashes(tree)[t].ok}

\* What a run of the generator over the tree may leave: everything, or what came
\* before the first file that ends it, in the order of the directory.
Generated(tree) ==
  IF Parsed(tree) = DOMAIN tree THEN {DOMAIN tree} ELSE SUBSET Parsed(tree)

\* The types whose packers can be built: theirs and their members' headers are
\* there, of any depth.
Buildable(tree, generated) ==
  LET fits[d \in 0..Levels] ==
        IF d = 0 THEN {t \in generated : Compiles(tree, t)}
        ELSE LET inner == fits[d - 1]
             IN {t \in inner : dependentTypeNames(tree, t) \subseteq inner}
  IN fits[Levels]
=============================================================================
