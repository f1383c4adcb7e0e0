------------------------------ MODULE MsgJson ------------------------------
(***************************************************************************)
(* Messages as JSON: what the echo tool prints of one (toJSONString in the *)
(* generated header, src/src/rosmsg.cpp) and what the pub tool reads       *)
(* (fromJSON in the generated packer, the helpers of                       *)
(* src/include/nanoros/rosmsgpacker.h, src/src/json.cpp).                  *)
(*                                                                         *)
(* A JSON value is a record [is, val]: a number, a string, an array, an    *)
(* object with its keys, or text that is no JSON.                          *)
(***************************************************************************)
EXTENDS MsgCodec

CONSTANTS
  Digit,         \* a function of some bytes: those that are digits, to their numbers
  SixDigits,     \* a function of some words: the floats that are neither infinite nor
                 \* nan, to the number that six digits of theirs make
  NearestFloat,  \* a function of the numbers, to the words of the floats next to them
  Escape,        \* a function of what begins with a backslash, to what it stands for
  Banned         \* the bytes that end a JSON string: the quote, control characters

\* What six digits make is whole here: no other part of a number is told apart.
ASSUME JsonAssumption ==
  /\ DOMAIN NearestFloat \subseteq Nat /\ 0..(Full - 1) \subseteq DOMAIN NearestFloat
  /\ \A n \in DOMAIN NearestFloat : NearestFloat[n] \in 0..(Full - 1)
  /\ \A d \in DOMAIN Digit : Digit[d] \in DOMAIN NearestFloat
  /\ \A v \in DOMAIN SixDigits : SixDigits[v] \in DOMAIN NearestFloat
  /\ \A e \in DOMAIN Escape :
       e \in Seq(Byte) /\ Escape[e] \in Seq(Byte) /\ Len(Escape[e]) <= Len(e)

Json(is, val) == [is |-> is, val |-> val]
NoJson == Json("bad", 0)

Whole(parts) == \A k \in DOMAIN parts : parts[k].is # "bad"
Array(s) == IF Whole(s) THEN Json("array", s) ELSE NoJson
Object(o) == IF Whole(o) THEN Json("object", o) ELSE NoJson

\* The next byte of the text between the quotes of a string: it completes what a
\* backslash begins, or goes on with it, or stands for itself, or is an error.
character(a, b) ==
  LET seen == Append(a.seen, b)
  IN IF seen \in DOMAIN Escape THEN [a EXCEPT !.text = @ \o Escape[seen], !.seen = << >>]
     ELSE IF \E e \in DOMAIN Escape : IsPrefix(seen, e) THEN [a EXCEPT !.seen = seen]
     ELSE IF a.seen = << >> /\ b \notin Banned THEN [a EXCEPT !.text = Append(@, b)]
     ELSE [a EXCEPT !.ok = FALSE]

\* A string is written as it is between its quotes, and read as JSON.
stringOf(v) ==
  LET read[i \in 0..Len(v)] ==
        IF i = 0 THEN [text |-> << >>, seen |-> << >>, ok |-> TRUE]
        ELSE character(read[i - 1], v[i])
      all == read[Len(v)]
  IN IF all.ok /\ all.seen = << >> THEN Json("string", all.text) ELSE NoJson

\* A byte is written as the character it is, not as a number, and a float with the six
\* digits of a stream.
jsonOf(type, v) ==
  CASE type = "uint8" -> IF v \in DOMAIN Digit THEN Json("number", Digit[v]) ELSE NoJson
    [] type \in Floats -> IF v \in DOMAIN SixDigits THEN Json("number", SixDigits[v]) ELSE NoJson
    [] type \in Words \ Floats -> Json("number", v)
    [] type = "string" -> stringOf(v)
    [] type = "time" -> Object([sec |-> Json("number", v[1]), nsec |-> Json("number", v[2])])

JsonOfMsg(tree, x, inner) ==
  LET fields == Fields(tree, x[1])
      one(f, v) == IF to_cxx_typeName(f) THEN jsonOf(f.type, v) ELSE inner[<<f.type, v>>]
      of(i) == IF is_many(fields[i])
               THEN Array([j \in DOMAIN x[2][i] |-> one(fields[i], x[2][i][j])])
               ELSE one(fields[i], x[2][i])
  IN Object([k \in {f.name : f \in ToSet(fields)} |->
               of(CHOOSE i \in DOMAIN fields : fields[i].name = k)])

toJSON(tree, t, m) ==
  LET within == Within(tree, Mentioned(tree), t, m)
      json[d \in 0..Levels] ==
        [x \in within[Levels - d] |-> IF d = 0 THEN NoJson ELSE JsonOfMsg(tree, x, json[d - 1])]
  IN json[Levels][<<t, m>>]

-----------------------------------------------------------------------------
(***************************************************************************)
(* fromJSON: a key that is missing, an element that is missing and a value *)
(* of another kind are exceptions.                                         *)
(***************************************************************************)
Read(val) == [val |-> val, threw |-> FALSE]
Thrown == [val |-> 0, threw |-> TRUE]

\* at() of an object, whose exception stands for a missing key, or a null pointer.
get(json, key) ==
  IF json.is # "object" THEN Json("null", 0)
  ELSE IF key \in DOMAIN json.val THEN json.val[key] ELSE NoJson

\* JSONObject::get of a C++ type.
getAs(type, json) ==
  CASE type = "uint8" -> IF json.is = "number" THEN Read(json.val % Base) ELSE Thrown
    [] type \in Floats -> IF json.is = "number" THEN Read(NearestFloat[json.val]) ELSE Thrown
    [] type \in Words \ Floats -> IF json.is = "number" THEN Read(json.val % Full) ELSE Thrown
    [] type = "string" -> IF json.is = "string" THEN Read(json.val) ELSE Thrown
    [] OTHER -> Thrown

\* (Mutant: "sec" is read twice.)
setTimeMutant(json, blank) ==
  IF json.is # "object" THEN Read(blank)
  ELSE LET sec == getAs("uint32", get(json, "sec"))
       IN IF sec.threw THEN Thrown ELSE Read(<<sec.val, sec.val>>)
setTime(json, blank) ==
  IF json.is # "object" THEN Read(blank)
  ELSE LET part(key) == getAs("uint32", get(json, key))
       IN IF part("sec").threw \/ part("nsec").threw THEN Thrown
          ELSE Read(<<part("sec").val, part("nsec").val>>)

\* isType is true of all types but three, whose members another kind leaves alone.
isType(type, json) ==
  /\ type = "string" => json.is = "string"
  /\ type \in {"int64", "float64"} => json.is = "number"
setPrimitive(type, json, blank) ==
  IF type = "time" THEN setTime(json, blank)
  ELSE IF ~isType(type, json) THEN Read(blank)
  ELSE getAs(type, json)

\* json_.array() is a new, empty array: its size is no array's size.
arraySize(json) == 0

\* The JSON <<type, json>> that is read for the members of known message types.
Objects(tree, known, x) ==
  {<<f.type, get(x[2], f.name)>> :
     f \in {g \in ToSet(Fields(tree, x[1])) : ~to_cxx_typeName(g) /\ g.type \in known}}

JsonWithin(tree, known, t, json) ==
  LET level[k \in 0..Levels] ==
        IF k = 0 THEN {<<t, json>>}
        ELSE UNION {Objects(tree, known, x) : x \in level[k - 1]}
  IN level

setField(known, f, blank, json, inner) ==
  LET all(rs) == IF \E i \in DOMAIN rs : rs[i].threw THEN Thrown
                 ELSE Read([i \in DOMAIN rs |-> rs[i].val])
  IN IF is_array(f)
     THEN IF json.is = "array" THEN Read(SubSeq(json.val, 1, arraySize(json))) ELSE Read(blank)
     ELSE IF is_fixed_array(f)
     THEN IF json.is # "array" THEN Read(blank)
          ELSE IF Len(json.val) < f.dims THEN Thrown
          ELSE all([i \in 1..f.dims |-> getAs(f.type, json.val[i])])
     ELSE IF to_cxx_typeName(f) THEN setPrimitive(f.type, json, blank)
     ELSE IF f.type \in known THEN inner[<<f.type, json>>]
     ELSE Read(blank)

setMember(known, f, blank, json, inner) ==
  LET x == get(json, f.name)
  IN CASE x.is = "null" -> Read(blank)
       [] x.is = "bad" -> Thrown
       [] OTHER -> setField(known, f, blank, x, inner)

setMsg(tree, known, x, blank, inner) ==
  LET fields == Fields(tree, x[1])
      set(i) == setMember(known, fields[i], blank[i], x[2], inner)
  IN IF \E i \in DOMAIN fields : set(i).threw THEN Thrown
     ELSE Read([i \in DOMAIN fields |-> set(i).val])

fromJSON(tree, known, t, json) ==
  LET within == JsonWithin(tree, known, t, json)
      blank == Blanks(tree)
      set[d \in 0..Levels] ==
        [x \in within[Levels - d] |->
           IF d = 0 THEN Read(<< >>) ELSE setMsg(tree, known, x, blank[d][x[1]], set[d - 1])]
  IN set[Levels][<<t, json>>]

-----------------------------------------------------------------------------
\* What the way through JSON leaves of a message: its vectors are empty, its bytes are
\* the digits they were printed as, its floats have six digits, and in its strings the
\* backslashes are gone.
LeftOf(type, v) ==
  CASE type = "uint8" -> Digit[v] % Base
    [] type \in Floats -> NearestFloat[SixDigits[v]]
    [] type = "string" -> stringOf(v).val
    [] OTHER -> v

LeftMsg(tree, known, x, blank, inner) ==
  [i \in DOMAIN Fields(tree, x[1]) |->
     LET f == Fields(tree, x[1])[i]
         one(v) == IF to_cxx_typeName(f) THEN LeftOf(f.type, v)
                   ELSE IF f.type \in known THEN inner[<<f.type, v>>]
                   ELSE blank[i]
     IN IF is_array(f) THEN << >>
        ELSE IF is_fixed_array(f) THEN [j \in 1..f.dims |-> one(x[2][i][j])]
        ELSE one(x[2][i])]

Left(tree, known, t, m) ==
  LET within == Within(tree, known, t, m)
      blank == Blanks(tree)
      left[d \in 0..Levels] ==
        [x \in within[Levels - d] |->
           IF d = 0 THEN << >> ELSE LeftMsg(tree, known, x, blank[d][x[1]], left[d - 1])]
  IN left[Levels][<<t, m>>]
=============================================================================
