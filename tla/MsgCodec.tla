------------------------------ MODULE MsgCodec ------------------------------
(***************************************************************************)
(* What the generated packers write and read (buildSrc in                  *)
(* src/apps/msgparser/msgparser.cpp, the helpers of                        *)
(* src/include/nanoros/rosmsgpacker.h and                                  *)
(* src/include/nanoros/rostcprospacket.h): a message is the sequence of    *)
(* its members' values, a packet a sequence of bytes.                      *)
(*                                                                         *)
(* known is the set of types whose packer getMsgPacker finds. A member     *)
(* without packer is passed over, by the writer and by the reader.         *)
(***************************************************************************)
EXTENDS MsgTypes

CONSTANTS Base, WordBytes    \* values of a byte; bytes of a word

ASSUME CodecAssumption == Base \in Nat \ {0, 1} /\ WordBytes \in Nat \ {0}

\* The weight of the k-th byte of a word: the least significant one comes first.
Weight[k \in 0..WordBytes] == IF k = 0 THEN 1 ELSE Base * Weight[k - 1]
Full == Weight[WordBytes]
Signed(n) == IF 2 * n >= Full THEN n - Full ELSE n

\* (Mutant: the byte is not masked.)
WordOfMutant(n) == [i \in 1..WordBytes |-> n \div Weight[i - 1]]
WordOf(n) == [i \in 1..WordBytes |-> (n \div Weight[i - 1]) % Base]
Number(bytes) ==
  LET sum[k \in 0..Len(bytes)] == IF k = 0 THEN 0 ELSE sum[k - 1] + bytes[k] * Weight[k - 1]
  IN sum[Len(bytes)]

\* What the C++ types hold. A string's length is signed, a vector's is not.
Byte == 0..(Base - 1)
Values(type) ==
  CASE type = "uint8" -> Byte
    [] type \in Words -> 0..(Full - 1)
    [] type = "string" -> {s \in Seq(Byte) : 2 * Len(s) < Full}
    [] type = "time" -> (0..(Full - 1)) \X (0..(Full - 1))

\* TCPROSPacket::push of a primitive type.
push(type, v) ==
  CASE type = "uint8" -> <<v>>
    [] type \in Words -> WordOf(v)
    [] type = "string" -> WordOf(Len(v)) \o v
    [] type = "time" -> WordOf(v[1]) \o WordOf(v[2])

-----------------------------------------------------------------------------
(***************************************************************************)
(* TCPROSPacket::pop: what it returns, whether it failed or threw, and the *)
(* number of bytes that are popped after it.                               *)
(***************************************************************************)
Got(val, at) == [val |-> val, at |-> at, ok |-> TRUE, threw |-> FALSE]
Failed(at) == [val |-> 0, at |-> at, ok |-> FALSE, threw |-> FALSE]
Threw(at) == [val |-> 0, at |-> at, ok |-> FALSE, threw |-> TRUE]

popNumber(bytes, at, width) ==
  IF Len(bytes) < at + width THEN Failed(at)
  ELSE Got(Number(SubSeq(bytes, at + 1, at + width)), at + width)

\* head is the size, which is signed. A sum below zero is large when it is compared.
\* When the size does not fit, what has been popped of it is there again, to be read
\* as what comes next. A size below zero whose sum is not is no length of a string,
\* and the constructor throws. (Mutant: the size is not compared with what there is.)
popStringMutant(bytes, head) ==
  LET size == Signed(head.val)
  IN IF ~head.ok THEN head
     ELSE IF size < 0 THEN Threw(head.at)
     ELSE Got([i \in 1..size |-> IF head.at + i \in DOMAIN bytes THEN bytes[head.at + i] ELSE 0],
              head.at + size)
popString(bytes, head) ==
  LET end == head.at + Signed(head.val)
  IN IF ~head.ok THEN head
     ELSE IF end \notin 0..Len(bytes) THEN Failed(head.at - WordBytes)
     ELSE IF end < head.at THEN Threw(head.at)
     ELSE Got(SubSeq(bytes, head.at + 1, end), end)

\* The first half stays popped when the second is missing.
popTime(sec, nsec) ==
  IF ~sec.ok THEN sec
  ELSE IF ~nsec.ok THEN nsec
  ELSE Got(<<sec.val, nsec.val>>, nsec.at)

pop(type, bytes, at) ==
  LET word == popNumber(bytes, at, WordBytes)
  IN CASE type = "uint8" -> popNumber(bytes, at, 1)
       [] type \in Words -> word
       [] type = "string" -> popString(bytes, word)
       [] type = "time" -> popTime(word, popNumber(bytes, word.at, WordBytes))

-----------------------------------------------------------------------------
(***************************************************************************)
(* The generated packers. A packer of messages within messages works with  *)
(* those of its members: inner stands for what they do.                    *)
(***************************************************************************)
BlankOf(type) ==
  CASE type \in {"uint8"} \cup Words -> 0
    [] type = "string" -> << >>
    [] type = "time" -> <<0, 0>>

\* What the default constructor makes.
BlankMsg(tree, t, inner) ==
  [i \in DOMAIN Fields(tree, t) |->
     LET f == Fields(tree, t)[i]
         one == IF to_cxx_typeName(f) THEN BlankOf(f.type) ELSE inner[f.type]
     IN IF is_array(f) THEN << >>
        ELSE IF is_fixed_array(f) THEN [j \in 1..f.dims |-> one]
        ELSE one]

Blanks(tree) ==
  LET blank[d \in 0..Levels] ==
        [t \in Mentioned(tree) |-> IF d = 0 THEN << >> ELSE BlankMsg(tree, t, blank[d - 1])]
  IN blank

\* The messages <<type, message>> that are members of a message, of the known types.
is_many(f) == is_array(f) \/ is_fixed_array(f)
Members(tree, known, x) ==
  LET fields == Fields(tree, x[1])
      of(i) == IF is_many(fields[i]) THEN ToSet(x[2][i]) ELSE {x[2][i]}
  IN UNION {{<<fields[i].type, v>> : v \in of(i)} :
              i \in {j \in DOMAIN fields : ~to_cxx_typeName(fields[j]) /\ fields[j].type \in known}}

\* The messages within a message, by their level.
Within(tree, known, t, m) ==
  LET level[k \in 0..Levels] ==
        IF k = 0 THEN {<<t, m>>}
        ELSE UNION {Members(tree, known, x) : x \in level[k - 1]}
  IN level

\* The values of the members of one message, but for those of message types.
HasShape(f, v) ==
  LET some == IF to_cxx_typeName(f) THEN Values(f.type) ELSE ToSet(v)
  IN IF is_array(f) THEN v \in Seq(some) /\ Len(v) < Full
     ELSE IF is_fixed_array(f) THEN v \in [1..f.dims -> some]
     ELSE to_cxx_typeName(f) => v \in Values(f.type)
Shaped(tree, x) ==
  /\ DOMAIN x[2] = DOMAIN Fields(tree, x[1]) /\ x[2] = [i \in DOMAIN x[2] |-> x[2][i]]
  /\ \A i \in DOMAIN Fields(tree, x[1]) : HasShape(Fields(tree, x[1])[i], x[2][i])

\* A message of a type, down to the last level, where there is nothing in a message.
IsMsg(tree, t, m) ==
  \A k \in 0..Levels : \A x \in Within(tree, Mentioned(tree), t, m)[k] :
    IF k < Levels THEN Shaped(tree, x) ELSE x[2] = << >>

\* A vector with its number of elements, unless there is no packer for them.
\* (Mutant: the number is written before the packer is looked at.)
pushVectorValueMutant(packer, elements, size) == WordOf(size) \o (IF packer THEN elements ELSE << >>)
pushVectorValue(packer, elements, size) == IF packer THEN WordOf(size) \o elements ELSE << >>

pushField(known, f, v, inner) ==
  LET packer == to_cxx_typeName(f) \/ f.type \in known
      each(x) == IF to_cxx_typeName(f) THEN push(f.type, x) ELSE inner[<<f.type, x>>]
      all == FlattenSeq([i \in DOMAIN v |-> each(v[i])])
  IN IF is_array(f) THEN pushVectorValue(packer, all, Len(v))
     ELSE IF ~packer THEN << >>
     ELSE IF is_fixed_array(f) THEN all
     ELSE each(v)

pushMsg(tree, known, x, inner) ==
  FlattenSeq([i \in DOMAIN Fields(tree, x[1]) |->
                pushField(known, Fields(tree, x[1])[i], x[2][i], inner)])

toPacket(tree, known, t, m) ==
  LET within == Within(tree, known, t, m)
      packet[d \in 0..Levels] ==
        [x \in within[Levels - d] |->
           IF d = 0 THEN << >> ELSE pushMsg(tree, known, x, packet[d - 1])]
  IN packet[Levels][<<t, m>>]

\* What was read until it failed stays in the member, unless it threw.
Kept(read, val) == [val |-> val, at |-> read.at, ok |-> ~read.threw, threw |-> read.threw]
KeptOne(read, blank) == Kept(read, IF read.ok THEN read.val ELSE blank)
KeptArray(read, blank) ==
  Kept(read, [i \in DOMAIN blank |-> IF i <= Len(read.val) THEN read.val[i] ELSE blank[i]])
KeptVector(read) == Kept(read, read.val)

\* n values one after the other, up to one that fails.
Joined(read, one) == [one EXCEPT !.val = Append(read.val, one.val)]
Extended(read, one) == IF one.ok THEN Joined(read, one) ELSE [one EXCEPT !.val = read.val]
popOne(f, inner, bytes, at) == IF to_cxx_typeName(f) THEN pop(f.type, bytes, at) ELSE inner[<<f.type, at>>]
popMany(n, f, inner, bytes, at) ==
  LET many[j \in 0..n] ==
        IF j = 0 THEN Got(<< >>, at)
        ELSE LET a == many[j - 1]
             IN IF a.ok THEN Extended(a, popOne(f, inner, bytes, a.at)) ELSE a
  IN many[n]

popField(known, f, blank, inner, bytes, at) ==
  LET size == popNumber(bytes, at, WordBytes)
  IN IF ~to_cxx_typeName(f) /\ f.type \notin known THEN Got(blank, at)
     ELSE IF is_array(f)
       THEN IF size.ok THEN KeptVector(popMany(size.val, f, inner, bytes, size.at)) ELSE Got(blank, at)
     ELSE IF is_fixed_array(f) THEN KeptArray(popMany(f.dims, f, inner, bytes, at), blank)
     ELSE KeptOne(popOne(f, inner, bytes, at), blank)

\* A packer reads every member whatever became of those before: it never fails.
popMsg(tree, known, t, blank, inner, bytes, at) ==
  LET fields == Fields(tree, t)
      member[i \in 0..Len(fields)] ==
        IF i = 0 THEN Got(<< >>, at)
        ELSE LET a == member[i - 1]
             IN IF a.threw THEN a
                ELSE Joined(a, popField(known, fields[i], blank[i], inner, bytes, a.at))
  IN member[Len(fields)]

toMsg(tree, known, t, bytes, at) ==
  LET blank == Blanks(tree)
      read[d \in 0..Levels] ==
        [x \in Mentioned(tree) \X Nat |->
           IF d = 0 THEN Got(<< >>, x[2])
           ELSE popMsg(tree, known, x[1], blank[d][x[1]], read[d - 1], bytes, x[2])]
  IN read[Levels][<<t, at>>]

-----------------------------------------------------------------------------
\* The look-ups <<packer, member type>> of a message that is written or read: for
\* each member of a message type one, then those of the packers that were found.
Asked(tree, known, t, m) ==
  UNION {{<<x[1], u>> : u \in dependentTypeNames(tree, x[1])} :
         x \in UNION {Within(tree, known, t, m)[k] : k \in 0..Levels}}

\* A message without what has no packer.
MaskedMsg(tree, known, x, blank, inner) ==
  [i \in DOMAIN Fields(tree, x[1]) |->
     LET f == Fields(tree, x[1])[i]
         v == x[2][i]
     IN IF to_cxx_typeName(f) THEN v
        ELSE IF f.type \notin known THEN blank[i]
        ELSE IF is_many(f) THEN [j \in DOMAIN v |-> inner[<<f.type, v[j]>>]]
        ELSE inner[<<f.type, v>>]]

Masked(tree, known, t, m) ==
  LET within == Within(tree, known, t, m)
      blank == Blanks(tree)
      masked[d \in 0..Levels] ==
        [x \in within[Levels - d] |->
           IF d = 0 THEN << >>
           ELSE MaskedMsg(tree, known, x, blank[d][x[1]], masked[d - 1])]
  IN masked[Levels][<<t, m>>]
=============================================================================
