--------------------------- MODULE TypedTopicProofs ---------------------------
(***************************************************************************)
(* For any definitions, messages, sizes of bytes and words, libraries and  *)
(* directories. Of the factories: the code of a packer that was found      *)
(* stays loaded, and what was found stays found. Of a topic: a packet is   *)
(* never read beyond its end; packers with the same hash understand each   *)
(* other; what goes through JSON is the same but for vectors and bytes.    *)
(***************************************************************************)
EXTENDS TypedTopic, SequenceLemmas


\* What a process can load for itself: a library of one of its hints' directories.
LEMMA HintsAreDirs ==
  ASSUME NEW p \in Procs, NEW t \in Types
  PROVE  packerDirHints_(p, t) \in Seq(Dirs)
BY DirsAssumption DEF packerDirHints_

\* Of the hints with a good library there is a first one.
LEMMA FirstHint ==
  ASSUME NEW p \in Procs, NEW t \in Types, Good(p, t) # {}
  PROVE  \E i \in Good(p, t) : \A j \in Good(p, t) : i <= j
<1>1. Good(p, t) \subseteq Nat
  BY HintsAreDirs DEF Good
<1> QED
  BY <1>1, LeastPosition

\* The library that is loaded is a good one.
LEMMA SourceIsGood ==
  ASSUME NEW p \in Procs, NEW t \in Types, Good(p, t) # {}
  PROVE  /\ Source(p, t) \in Dirs
         /\ disk[p][<<Source(p, t), t>>] = "good"
<1>1. PICK i \in Good(p, t) : Source(p, t) = packerDirHints_(p, t)[i]
  BY FirstHint DEF Source
<1> QED
  BY <1>1, HintsAreDirs DEF Good

-----------------------------------------------------------------------------
\* The types of a step's look-ups whose libraries are found in it.
New(p, asked) ==
  {t \in {a[2] : a \in asked} \ packers_[p] : Good(p, t) # {}}

IInv == FactoryTypeOK /\ CodeStaysLoaded

\* What a look-up leaves of what the process had, and what it adds.
Looked(p, asked) ==
  /\ disk' = disk
  /\ \A q \in Procs \ {p} :
       /\ packers_'[q] = packers_[q] /\ dllproxies_'[q] = dllproxies_[q]
       /\ loaded'[q] = loaded[q] /\ nested'[q] = nested[q]
  /\ packers_'[p] = packers_[p] \cup New(p, asked)
  /\ \A t \in Types :
       dllproxies_'[p][t] = IF t \in New(p, asked) THEN Source(p, t) ELSE dllproxies_[p][t]
  /\ loaded'[p] = loaded[p] \cup {<<Source(p, t), t>> : t \in New(p, asked)}
  /\ \A o \in Types : nested'[p][o] \subseteq nested[p][o] \cup packers_'[p]

\* What a look-up does to the maps of its process.
LEMMA LookUpStep ==
  ASSUME IInv, NEW p \in Procs, NEW asked \in SUBSET ((Types \cup {App}) \X Types),
         LookUp(p, asked)
  PROVE  Looked(p, asked)
<1> DEFINE types == {a[2] : a \in asked}
<1>1. types \subseteq Types
  OBVIOUS
<1>2. packers_' = [packers_ EXCEPT ![p] = @ \cup {t \in types : Good(p, t) # {}}]
  BY DEF LookUp, Register
<1>3. packers_'[p] = packers_[p] \cup New(p, asked)
  BY <1>2 DEF New, IInv, FactoryTypeOK
<1>4. /\ dllproxies_' = [dllproxies_ EXCEPT ![p] =
                           [t \in Types |-> IF t \in New(p, asked) THEN Source(p, t) ELSE @[t]]]
      /\ loaded' = [loaded EXCEPT ![p] = @ \cup {<<Source(p, t), t>> : t \in New(p, asked)}]
  BY DEF LookUp, KeepProxy, New
<1>5. nested' = [nested EXCEPT ![p] =
                  [o \in Types |-> @[o] \cup {t \in types : <<o, t>> \in asked /\ Found(p, t)}]]
  BY DEF LookUp
<1>6. \A t \in types : Found(p, t) => t \in packers_'[p]
  BY <1>3 DEF Found, New
<1>7. \A o \in Types : nested'[p][o] = nested[p][o] \cup {t \in types : <<o, t>> \in asked /\ Found(p, t)}
  BY <1>5 DEF IInv, FactoryTypeOK
<1>8. disk' = disk
  BY DEF LookUp
<1>9. \A q \in Procs \ {p} :
        /\ packers_'[q] = packers_[q] /\ dllproxies_'[q] = dllproxies_[q]
        /\ loaded'[q] = loaded[q] /\ nested'[q] = nested[q]
  BY <1>2, <1>4, <1>5 DEF IInv, FactoryTypeOK
<1>10. \A t \in Types :
         dllproxies_'[p][t] = IF t \in New(p, asked) THEN Source(p, t) ELSE dllproxies_[p][t]
  BY <1>4 DEF IInv, FactoryTypeOK
<1>11. loaded'[p] = loaded[p] \cup {<<Source(p, t), t>> : t \in New(p, asked)}
  BY <1>4 DEF IInv, FactoryTypeOK
<1>12. \A o \in Types : nested'[p][o] \subseteq nested[p][o] \cup packers_'[p]
  BY <1>6, <1>7
<1> QED
  BY <1>3, <1>8, <1>9, <1>10, <1>11, <1>12 DEF Looked

\* The maps stay functions of the processes and the types.
LEMMA LookUpShape ==
  ASSUME IInv, NEW p \in Procs, NEW asked, LookUp(p, asked)
  PROVE  /\ packers_' = [q \in Procs |-> packers_'[q]]
         /\ dllproxies_' = [q \in Procs |-> dllproxies_'[q]]
         /\ loaded' = [q \in Procs |-> loaded'[q]]
         /\ nested' = [q \in Procs |-> nested'[q]]
         /\ dllproxies_'[p] = [t \in Types |-> dllproxies_'[p][t]]
         /\ nested'[p] = [o \in Types |-> nested'[p][o]]
BY DEF IInv, FactoryTypeOK, LookUp, Register, KeepProxy

\* The initial states.
LEMMA FactoryStart == FactoryInit => IInv
BY DirsAssumption DEF FactoryInit, IInv, FactoryTypeOK, CodeStaysLoaded, Status

\* A look-up keeps the types and the invariant.
LEMMA LookUpKeeps ==
  ASSUME IInv, NEW p \in Procs, NEW asked \in SUBSET ((Types \cup {App}) \X Types),
         LookUp(p, asked)
  PROVE  IInv'
<1>0. Looked(p, asked)
  BY LookUpStep
<1>1. New(p, asked) \subseteq Types
  BY DEF New
<1>2. \A t \in New(p, asked) : Source(p, t) \in Dirs /\ Source(p, t) # NoDir
  BY <1>1, SourceIsGood, DirsAssumption DEF New
<1>3. FactoryTypeOK'
  <2>1. disk' \in [Procs -> [Dirs \X Types -> Status]]
    BY <1>0 DEF Looked, IInv, FactoryTypeOK
  <2>2. packers_' \in [Procs -> SUBSET Types]
    <3>1. packers_'[p] \subseteq Types
      BY <1>0, <1>1 DEF Looked, IInv, FactoryTypeOK
    <3>2. packers_' = [q \in Procs |-> packers_'[q]]
      BY LookUpShape
    <3>3. ASSUME NEW q \in Procs
          PROVE  packers_'[q] \subseteq Types
      <4>1. packers_[q] \subseteq Types
        BY DEF IInv, FactoryTypeOK
      <4>2. q # p => packers_'[q] = packers_[q]
        BY <1>0 DEF Looked
      <4> QED
        BY <3>1, <4>1, <4>2
    <3> QED
      BY <3>2, <3>3
  <2>3. dllproxies_'[p] \in [Types -> Dirs \cup {NoDir}]
    <3>1. \A t \in Types : dllproxies_[p][t] \in Dirs \cup {NoDir}
      BY DEF IInv, FactoryTypeOK
    <3>2. \A t \in Types : dllproxies_'[p][t] \in Dirs \cup {NoDir}
      BY <3>1, <1>0, <1>2 DEF Looked
    <3>3. dllproxies_'[p] = [t \in Types |-> dllproxies_'[p][t]]
      BY LookUpShape
    <3> QED
      BY <3>2, <3>3
  <2>4. dllproxies_' \in [Procs -> [Types -> Dirs \cup {NoDir}]]
    BY <2>3, <1>0, LookUpShape DEF Looked, IInv, FactoryTypeOK
  <2>5. loaded'[p] \subseteq Dirs \X Types
    BY <1>0, <1>1, <1>2 DEF Looked, IInv, FactoryTypeOK
  <2>6. loaded' \in [Procs -> SUBSET (Dirs \X Types)]
    <3>1. loaded' = [q \in Procs |-> loaded'[q]]
      BY LookUpShape
    <3>2. ASSUME NEW q \in Procs PROVE loaded'[q] \subseteq Dirs \X Types
      <4>1. loaded[q] \subseteq Dirs \X Types
        BY DEF IInv, FactoryTypeOK
      <4>2. q # p => loaded'[q] = loaded[q]
        BY <1>0 DEF Looked
      <4> QED
        BY <2>5, <4>1, <4>2
    <3> QED
      BY <3>1, <3>2
  <2>7. nested'[p] \in [Types -> SUBSET Types]
    <3>1. \A o \in Types : nested'[p][o] \subseteq Types
      BY <1>0, <2>2 DEF Looked, IInv, FactoryTypeOK
    <3> QED
      BY <3>1, LookUpShape
  <2>8. nested' \in [Procs -> [Types -> SUBSET Types]]
    BY <2>7, <1>0, LookUpShape DEF Looked, IInv, FactoryTypeOK
  <2> QED
    BY <2>1, <2>2, <2>4, <2>6, <2>8 DEF FactoryTypeOK
<1>4. ASSUME NEW t \in packers_'[p]
      PROVE  dllproxies_'[p][t] # NoDir /\ <<dllproxies_'[p][t], t>> \in loaded'[p]
  <2>1. t \in Types
    BY <1>3 DEF FactoryTypeOK
  <2>2. CASE t \in New(p, asked)
    BY <2>1, <2>2, <1>0, <1>2 DEF Looked
  <2>3. CASE t \notin New(p, asked)
    BY <2>1, <2>3, <1>0 DEF Looked, IInv, CodeStaysLoaded
  <2> QED
    BY <2>2, <2>3
<1>5. \A o \in Types : nested'[p][o] \subseteq packers_'[p]
  BY <1>0 DEF Looked, IInv, CodeStaysLoaded
<1>6. CodeStaysLoaded'
  <2>1. ASSUME NEW q \in Procs \ {p}
        PROVE  /\ \A t \in packers_'[q] :
                    dllproxies_'[q][t] # NoDir /\ <<dllproxies_'[q][t], t>> \in loaded'[q]
               /\ \A t \in Types : nested'[q][t] \subseteq packers_'[q]
    BY <1>0 DEF Looked, IInv, CodeStaysLoaded
  <2> QED
    BY <1>4, <1>5, <2>1 DEF CodeStaysLoaded
<1> QED
  BY <1>3, <1>6 DEF IInv

\* What becomes of the files is of no account.
LEMMA ChangeDiskKeeps ==
  ASSUME IInv, NEW p \in Procs, NEW d \in Dirs, NEW t \in Types, NEW status \in Status,
         ChangeDisk(p, d, t, status)
  PROVE  IInv'
BY DEF IInv, FactoryTypeOK, CodeStaysLoaded, ChangeDisk

\* Every step keeps the invariant.
LEMMA FactoryInductive == IInv /\ [FactoryNext]_factoryVars => IInv'
<1>1. ASSUME IInv, NEW p \in Procs, NEW d \in Dirs, NEW t \in Types, NEW status \in Status,
             ChangeDisk(p, d, t, status)
      PROVE  IInv'
  BY <1>1, ChangeDiskKeeps
<1>2. ASSUME IInv, NEW p \in Procs, NEW asked \in SUBSET ((Types \cup {App}) \X Types),
             LookUp(p, asked)
      PROVE  IInv'
  BY <1>2, LookUpKeeps
<1>3. ASSUME IInv, UNCHANGED factoryVars
      PROVE  IInv'
  BY <1>3 DEF IInv, FactoryTypeOK, CodeStaysLoaded, factoryVars
<1> QED
  BY <1>1, <1>2, <1>3 DEF FactoryNext

-----------------------------------------------------------------------------
\* The types of the factories' state, for any processes, types and directories.
THEOREM FactoryTypesCorrect == FactorySpec => []FactoryTypeOK
<1>1. IInv => FactoryTypeOK
  BY DEF IInv
<1> QED
  BY FactoryStart, FactoryInductive, <1>1, PTL DEF FactorySpec

\* The code of every packer that is found stays loaded, and a packer's own map has
\* no packers that the factory has not.
THEOREM LoadedForEver == FactorySpec => []CodeStaysLoaded
<1>1. IInv => CodeStaysLoaded
  BY DEF IInv
<1> QED
  BY FactoryStart, FactoryInductive, <1>1, PTL DEF FactorySpec

\* What a process found once it finds for ever, from the same library.
THEOREM FoundForEver == FactorySpec => FoundStaysFound
<1> DEFINE StillFound == \A p \in Procs : \A t \in packers_[p] :
                     t \in packers_'[p] /\ dllproxies_'[p][t] = dllproxies_[p][t]
<1>1. ASSUME IInv, NEW p \in Procs, NEW asked \in SUBSET ((Types \cup {App}) \X Types),
             LookUp(p, asked)
      PROVE  StillFound
  <2>0. Looked(p, asked)
    BY <1>1, LookUpStep
  <2>1. ASSUME NEW t \in packers_[p]
        PROVE  t \in packers_'[p] /\ dllproxies_'[p][t] = dllproxies_[p][t]
    <3>1. t \in Types /\ t \notin New(p, asked)
      BY <1>1 DEF New, IInv, FactoryTypeOK
    <3> QED
      BY <2>0, <3>1 DEF Looked
  <2>2. ASSUME NEW q \in Procs \ {p}, NEW t \in packers_[q]
        PROVE  t \in packers_'[q] /\ dllproxies_'[q][t] = dllproxies_[q][t]
    BY <2>0 DEF Looked
  <2> QED
    BY <2>1, <2>2
<1>2. IInv /\ [FactoryNext]_factoryVars => [StillFound]_factoryVars
  BY <1>1 DEF FactoryNext, ChangeDisk
<1> QED
  BY FactoryStart, FactoryInductive, <1>2, PTL DEF FactorySpec, FoundStaysFound

-----------------------------------------------------------------------------
(***************************************************************************)
(* What the definitions by levels, and the loops, have at 0 and hand on:   *)
(* one lemma for each of them, for they are functions whose values are     *)
(* looked at level by level in all that follows.                           *)
(***************************************************************************)
\* OfKind goes through the lines one after the other.
LEMMA OfKindDef ==
  ASSUME NEW lines, NEW kind, Len(lines) \in Nat
  PROVE  \E some :
           /\ OfKind(lines, kind) = some[Len(lines)] /\ some[0] = << >>
           /\ \A i \in 0..(Len(lines) - 1) :
                some[i + 1] = IF lines[i + 1].kind = kind THEN Append(some[i], lines[i + 1])
                              ELSE some[i]
<1> DEFINE n == Len(lines)
           C == << >>
           E(i, v) == IF lines[i].kind = kind THEN Append(v, lines[i]) ELSE v
           Is(g, k) == g = [i \in 0..k |-> IF i = 0 THEN C ELSE E(i, g[i - 1])]
           T == {k \in 0..n : \E g : Is(g, k)}
           f == CHOOSE g : Is(g, n)
<1>1. OfKind(lines, kind) = f[n]
  BY DEF OfKind
<1> HIDE DEF E, C
<1>2. 0 \in T
  <2>1. Is([i \in 0..0 |-> C], 0)
    OBVIOUS
  <2>2. 0 \in 0..n
    BY TypesAssumption
  <2> QED
    BY <2>1, <2>2
<1>3. \A k \in 0..(n - 1) : k \in T => k + 1 \in T
  <2> SUFFICES ASSUME NEW k \in 0..(n - 1), NEW g, Is(g, k)
               PROVE  \E h : Is(h, k + 1)
    BY TypesAssumption
  <2> WITNESS [i \in 0..(k + 1) |-> IF i = k + 1 THEN E(i, g[k]) ELSE g[i]]
  <2> QED
    OBVIOUS
<1>4. n \in T
  <2>1. n \in Nat /\ n \in 0..n
    BY TypesAssumption
  <2> HIDE DEF T, n
  <2> QED
    BY <1>2, <1>3, <2>1, Induction
<1>5. ASSUME NEW g, Is(g, n)
      PROVE  g[0] = C /\ \A i \in 0..(n - 1) : g[i + 1] = E(i + 1, g[i])
  <2>1. n \in Nat
    BY TypesAssumption
  <2>2. 0 \in 0..n /\ \A i \in 0..(n - 1) : i + 1 \in 0..n /\ i + 1 # 0 /\ (i + 1) - 1 = i
    BY <2>1
  <2> QED
    BY <1>5, <2>2
<1>6. f[0] = C /\ \A i \in 0..(n - 1) : f[i + 1] = E(i + 1, f[i])
  BY <1>4, <1>5
<1> HIDE DEF f
<1> QED
  BY <1>1, <1>6 DEF E, C

\* The levels of the messages within a message.
LEMMA WithinDef ==
  ASSUME NEW tree, NEW known, NEW t, NEW m
  PROVE  LET level == Within(tree, known, t, m) IN
         /\ level[0] = {<<t, m>>}
         /\ \A k \in 0..(Levels - 1) :
              level[k + 1] = UNION {Members(tree, known, x) : x \in level[k]}
<1> DEFINE n == Levels
           C == {<<t, m>>}
           E(i, v) == UNION {Members(tree, known, x) : x \in v}
           Is(g, k) == g = [i \in 0..k |-> IF i = 0 THEN C ELSE E(i, g[i - 1])]
           T == {k \in 0..n : \E g : Is(g, k)}
           f == CHOOSE g : Is(g, n)
<1>1. Within(tree, known, t, m) = f
  BY DEF Within
<1> HIDE DEF E, C
<1>2. 0 \in T
  <2>1. Is([i \in 0..0 |-> C], 0)
    OBVIOUS
  <2>2. 0 \in 0..n
    BY TypesAssumption
  <2> QED
    BY <2>1, <2>2
<1>3. \A k \in 0..(n - 1) : k \in T => k + 1 \in T
  <2> SUFFICES ASSUME NEW k \in 0..(n - 1), NEW g, Is(g, k)
               PROVE  \E h : Is(h, k + 1)
    BY TypesAssumption
  <2> WITNESS [i \in 0..(k + 1) |-> IF i = k + 1 THEN E(i, g[k]) ELSE g[i]]
  <2> QED
    OBVIOUS
<1>4. n \in T
  <2>1. n \in Nat /\ n \in 0..n
    BY TypesAssumption
  <2> HIDE DEF T, n
  <2> QED
    BY <1>2, <1>3, <2>1, Induction
<1>5. ASSUME NEW g, Is(g, n)
      PROVE  g[0] = C /\ \A i \in 0..(n - 1) : g[i + 1] = E(i + 1, g[i])
  <2>1. n \in Nat
    BY TypesAssumption
  <2>2. 0 \in 0..n /\ \A i \in 0..(n - 1) : i + 1 \in 0..n /\ i + 1 # 0 /\ (i + 1) - 1 = i
    BY <2>1
  <2> QED
    BY <1>5, <2>2
<1>6. f[0] = C /\ \A i \in 0..(n - 1) : f[i + 1] = E(i + 1, f[i])
  BY <1>4, <1>5
<1> HIDE DEF f
<1> QED
  BY <1>1, <1>6 DEF E, C

\* The weights of a word's bytes.
LEMMA WeightDef ==
  /\ Weight[0] = 1
         /\ \A k \in 0..(WordBytes - 1) : Weight[k + 1] = Base * Weight[k]
<1> DEFINE n == WordBytes
           C == 1
           E(i, v) == Base * v
           Is(g, k) == g = [i \in 0..k |-> IF i = 0 THEN C ELSE E(i, g[i - 1])]
           T == {k \in 0..n : \E g : Is(g, k)}
           f == CHOOSE g : Is(g, n)
<1>0. n \in Nat
  BY CodecAssumption
<1>1. Weight = f
  BY DEF Weight
<1> HIDE DEF E, C
<1>2. 0 \in T
  <2>1. Is([i \in 0..0 |-> C], 0)
    OBVIOUS
  <2>2. 0 \in 0..n
    BY TypesAssumption, <1>0
  <2> QED
    BY <2>1, <2>2
<1>3. \A k \in 0..(n - 1) : k \in T => k + 1 \in T
  <2> SUFFICES ASSUME NEW k \in 0..(n - 1), NEW g, Is(g, k)
               PROVE  \E h : Is(h, k + 1)
    BY TypesAssumption, <1>0
  <2> WITNESS [i \in 0..(k + 1) |-> IF i = k + 1 THEN E(i, g[k]) ELSE g[i]]
  <2> QED
    OBVIOUS
<1>4. n \in T
  <2>1. n \in Nat /\ n \in 0..n
    BY TypesAssumption, <1>0
  <2> HIDE DEF T, n
  <2> QED
    BY <1>2, <1>3, <2>1, Induction
<1>5. ASSUME NEW g, Is(g, n)
      PROVE  g[0] = C /\ \A i \in 0..(n - 1) : g[i + 1] = E(i + 1, g[i])
  <2>1. n \in Nat
    BY TypesAssumption, <1>0
  <2>2. 0 \in 0..n /\ \A i \in 0..(n - 1) : i + 1 \in 0..n /\ i + 1 # 0 /\ (i + 1) - 1 = i
    BY <2>1
  <2> QED
    BY <1>5, <2>2
<1>6. f[0] = C /\ \A i \in 0..(n - 1) : f[i + 1] = E(i + 1, f[i])
  BY <1>4, <1>5
<1> HIDE DEF f
<1> QED
  BY <1>1, <1>6 DEF E, C

\* A number is summed up byte by byte.
LEMMA NumberDef ==
  ASSUME NEW bytes, Len(bytes) \in Nat
  PROVE  \E sum :
           /\ Number(bytes) = sum[Len(bytes)] /\ sum[0] = 0
           /\ \A k \in 0..(Len(bytes) - 1) : sum[k + 1] = sum[k] + bytes[k + 1] * Weight[(k + 1) - 1]
<1> DEFINE n == Len(bytes)
           C == 0
           E(i, v) == v + bytes[i] * Weight[i - 1]
           Is(g, k) == g = [i \in 0..k |-> IF i = 0 THEN C ELSE E(i, g[i - 1])]
           T == {k \in 0..n : \E g : Is(g, k)}
           f == CHOOSE g : Is(g, n)
<1>1. Number(bytes) = f[n]
  BY DEF Number
<1> HIDE DEF E, C
<1>2. 0 \in T
  <2>1. Is([i \in 0..0 |-> C], 0)
    OBVIOUS
  <2>2. 0 \in 0..n
    BY TypesAssumption
  <2> QED
    BY <2>1, <2>2
<1>3. \A k \in 0..(n - 1) : k \in T => k + 1 \in T
  <2> SUFFICES ASSUME NEW k \in 0..(n - 1), NEW g, Is(g, k)
               PROVE  \E h : Is(h, k + 1)
    BY TypesAssumption
  <2> WITNESS [i \in 0..(k + 1) |-> IF i = k + 1 THEN E(i, g[k]) ELSE g[i]]
  <2> QED
    OBVIOUS
<1>4. n \in T
  <2>1. n \in Nat /\ n \in 0..n
    BY TypesAssumption
  <2> HIDE DEF T, n
  <2> QED
    BY <1>2, <1>3, <2>1, Induction
<1>5. ASSUME NEW g, Is(g, n)
      PROVE  g[0] = C /\ \A i \in 0..(n - 1) : g[i + 1] = E(i + 1, g[i])
  <2>1. n \in Nat
    BY TypesAssumption
  <2>2. 0 \in 0..n /\ \A i \in 0..(n - 1) : i + 1 \in 0..n /\ i + 1 # 0 /\ (i + 1) - 1 = i
    BY <2>1
  <2> QED
    BY <1>5, <2>2
<1>6. f[0] = C /\ \A i \in 0..(n - 1) : f[i + 1] = E(i + 1, f[i])
  BY <1>4, <1>5
<1> HIDE DEF f
<1> QED
  BY <1>1, <1>6 DEF E, C

\* What the default constructors make, by depth.
LEMMA BlanksDef ==
  ASSUME NEW tree
  PROVE  LET blank == Blanks(tree) IN
         /\ \A t \in Mentioned(tree) : blank[0][t] = << >>
         /\ \A d \in 0..(Levels - 1) : \A t \in Mentioned(tree) :
              blank[d + 1][t] = BlankMsg(tree, t, blank[d])
<1> DEFINE n == Levels
           C == [t \in Mentioned(tree) |-> << >>]
           E(i, v) == [t \in Mentioned(tree) |-> BlankMsg(tree, t, v)]
           Is(g, k) == g = [i \in 0..k |-> IF i = 0 THEN C ELSE E(i, g[i - 1])]
           T == {k \in 0..n : \E g : Is(g, k)}
           f == CHOOSE g : Is(g, n)
<1>1. Blanks(tree) = f
  BY DEF Blanks
<1> HIDE DEF E, C
<1>2. 0 \in T
  <2>1. Is([i \in 0..0 |-> C], 0)
    OBVIOUS
  <2>2. 0 \in 0..n
    BY TypesAssumption
  <2> QED
    BY <2>1, <2>2
<1>3. \A k \in 0..(n - 1) : k \in T => k + 1 \in T
  <2> SUFFICES ASSUME NEW k \in 0..(n - 1), NEW g, Is(g, k)
               PROVE  \E h : Is(h, k + 1)
    BY TypesAssumption
  <2> WITNESS [i \in 0..(k + 1) |-> IF i = k + 1 THEN E(i, g[k]) ELSE g[i]]
  <2> QED
    OBVIOUS
<1>4. n \in T
  <2>1. n \in Nat /\ n \in 0..n
    BY TypesAssumption
  <2> HIDE DEF T, n
  <2> QED
    BY <1>2, <1>3, <2>1, Induction
<1>5. ASSUME NEW g, Is(g, n)
      PROVE  g[0] = C /\ \A i \in 0..(n - 1) : g[i + 1] = E(i + 1, g[i])
  <2>1. n \in Nat
    BY TypesAssumption
  <2>2. 0 \in 0..n /\ \A i \in 0..(n - 1) : i + 1 \in 0..n /\ i + 1 # 0 /\ (i + 1) - 1 = i
    BY <2>1
  <2> QED
    BY <1>5, <2>2
<1>6. f[0] = C /\ \A i \in 0..(n - 1) : f[i + 1] = E(i + 1, f[i])
  BY <1>4, <1>5
<1> HIDE DEF f
<1> QED
  BY <1>1, <1>6 DEF E, C

PacketLevels(packet, tree, known, t, m) ==
  /\ packet[0] = [x \in Within(tree, known, t, m)[Levels - 0] |-> << >>]
  /\ \A d \in 0..(Levels - 1) :
       packet[d + 1] = [x \in Within(tree, known, t, m)[Levels - (d + 1)] |->
                          pushMsg(tree, known, x, packet[d])]

\* The packets of the messages within a message, from the innermost.
LEMMA toPacketDef ==
  ASSUME NEW tree, NEW known, NEW t, NEW m
  PROVE  \E packet :
           /\ toPacket(tree, known, t, m) = packet[Levels][<<t, m>>]
           /\ PacketLevels(packet, tree, known, t, m)
<1> DEFINE n == Levels
           C == [x \in Within(tree, known, t, m)[Levels - 0] |-> << >>]
           E(i, v) == [x \in Within(tree, known, t, m)[Levels - i] |-> pushMsg(tree, known, x, v)]
           Is(g, k) == g = [i \in 0..k |-> IF i = 0 THEN C ELSE E(i, g[i - 1])]
           T == {k \in 0..n : \E g : Is(g, k)}
           f == CHOOSE g : Is(g, n)
<1>1. toPacket(tree, known, t, m) = f[n][<<t, m>>]
  BY DEF toPacket
<1> HIDE DEF E, C
<1>2. 0 \in T
  <2>1. Is([i \in 0..0 |-> C], 0)
    OBVIOUS
  <2>2. 0 \in 0..n
    BY TypesAssumption
  <2> QED
    BY <2>1, <2>2
<1>3. \A k \in 0..(n - 1) : k \in T => k + 1 \in T
  <2> SUFFICES ASSUME NEW k \in 0..(n - 1), NEW g, Is(g, k)
               PROVE  \E h : Is(h, k + 1)
    BY TypesAssumption
  <2> WITNESS [i \in 0..(k + 1) |-> IF i = k + 1 THEN E(i, g[k]) ELSE g[i]]
  <2> QED
    OBVIOUS
<1>4. n \in T
  <2>1. n \in Nat /\ n \in 0..n
    BY TypesAssumption
  <2> HIDE DEF T, n
  <2> QED
    BY <1>2, <1>3, <2>1, Induction
<1>5. ASSUME NEW g, Is(g, n)
      PROVE  g[0] = C /\ \A i \in 0..(n - 1) : g[i + 1] = E(i + 1, g[i])
  <2>1. n \in Nat
    BY TypesAssumption
  <2>2. 0 \in 0..n /\ \A i \in 0..(n - 1) : i + 1 \in 0..n /\ i + 1 # 0 /\ (i + 1) - 1 = i
    BY <2>1
  <2> QED
    BY <1>5, <2>2
<1>6. f[0] = C /\ \A i \in 0..(n - 1) : f[i + 1] = E(i + 1, f[i])
  BY <1>4, <1>5
<1> HIDE DEF f
<1>7. PacketLevels(f, tree, known, t, m)
  BY <1>6 DEF E, C, PacketLevels
<1> QED
  BY <1>1, <1>7

MaskedLevels(masked, tree, known, t, m) ==
  /\ masked[0] = [x \in Within(tree, known, t, m)[Levels - 0] |-> << >>]
  /\ \A d \in 0..(Levels - 1) :
       masked[d + 1] = [x \in Within(tree, known, t, m)[Levels - (d + 1)] |->
                          MaskedMsg(tree, known, x, Blanks(tree)[d + 1][x[1]], masked[d])]

\* What is masked in the messages within a message, from the innermost.
LEMMA MaskedDef ==
  ASSUME NEW tree, NEW known, NEW t, NEW m
  PROVE  \E masked :
           /\ Masked(tree, known, t, m) = masked[Levels][<<t, m>>]
           /\ MaskedLevels(masked, tree, known, t, m)
<1> DEFINE n == Levels
           C == [x \in Within(tree, known, t, m)[Levels - 0] |-> << >>]
           E(i, v) == [x \in Within(tree, known, t, m)[Levels - i] |-> MaskedMsg(tree, known, x, Blanks(tree)[i][x[1]], v)]
           Is(g, k) == g = [i \in 0..k |-> IF i = 0 THEN C ELSE E(i, g[i - 1])]
           T == {k \in 0..n : \E g : Is(g, k)}
           f == CHOOSE g : Is(g, n)
<1>1. Masked(tree, known, t, m) = f[n][<<t, m>>]
  BY DEF Masked
<1> HIDE DEF E, C
<1>2. 0 \in T
  <2>1. Is([i \in 0..0 |-> C], 0)
    OBVIOUS
  <2>2. 0 \in 0..n
    BY TypesAssumption
  <2> QED
    BY <2>1, <2>2
<1>3. \A k \in 0..(n - 1) : k \in T => k + 1 \in T
  <2> SUFFICES ASSUME NEW k \in 0..(n - 1), NEW g, Is(g, k)
               PROVE  \E h : Is(h, k + 1)
    BY TypesAssumption
  <2> WITNESS [i \in 0..(k + 1) |-> IF i = k + 1 THEN E(i, g[k]) ELSE g[i]]
  <2> QED
    OBVIOUS
<1>4. n \in T
  <2>1. n \in Nat /\ n \in 0..n
    BY TypesAssumption
  <2> HIDE DEF T, n
  <2> QED
    BY <1>2, <1>3, <2>1, Induction
<1>5. ASSUME NEW g, Is(g, n)
      PROVE  g[0] = C /\ \A i \in 0..(n - 1) : g[i + 1] = E(i + 1, g[i])
  <2>1. n \in Nat
    BY TypesAssumption
  <2>2. 0 \in 0..n /\ \A i \in 0..(n - 1) : i + 1 \in 0..n /\ i + 1 # 0 /\ (i + 1) - 1 = i
    BY <2>1
  <2> QED
    BY <1>5, <2>2
<1>6. f[0] = C /\ \A i \in 0..(n - 1) : f[i + 1] = E(i + 1, f[i])
  BY <1>4, <1>5
<1> HIDE DEF f
<1>7. MaskedLevels(f, tree, known, t, m)
  BY <1>6 DEF E, C, MaskedLevels
<1> QED
  BY <1>1, <1>7

LeftLevels(left, tree, known, t, m) ==
  /\ left[0] = [x \in Within(tree, known, t, m)[Levels - 0] |-> << >>]
  /\ \A d \in 0..(Levels - 1) :
       left[d + 1] = [x \in Within(tree, known, t, m)[Levels - (d + 1)] |->
                        LeftMsg(tree, known, x, Blanks(tree)[d + 1][x[1]], left[d])]

\* What JSON leaves of the messages within a message, from the innermost.
LEMMA LeftDef ==
  ASSUME NEW tree, NEW known, NEW t, NEW m
  PROVE  \E left :
           /\ Left(tree, known, t, m) = left[Levels][<<t, m>>]
           /\ LeftLevels(left, tree, known, t, m)
<1> DEFINE n == Levels
           C == [x \in Within(tree, known, t, m)[Levels - 0] |-> << >>]
           E(i, v) == [x \in Within(tree, known, t, m)[Levels - i] |-> LeftMsg(tree, known, x, Blanks(tree)[i][x[1]], v)]
           Is(g, k) == g = [i \in 0..k |-> IF i = 0 THEN C ELSE E(i, g[i - 1])]
           T == {k \in 0..n : \E g : Is(g, k)}
           f == CHOOSE g : Is(g, n)
<1>1. Left(tree, known, t, m) = f[n][<<t, m>>]
  BY DEF Left
<1> HIDE DEF E, C
<1>2. 0 \in T
  <2>1. Is([i \in 0..0 |-> C], 0)
    OBVIOUS
  <2>2. 0 \in 0..n
    BY TypesAssumption
  <2> QED
    BY <2>1, <2>2
<1>3. \A k \in 0..(n - 1) : k \in T => k + 1 \in T
  <2> SUFFICES ASSUME NEW k \in 0..(n - 1), NEW g, Is(g, k)
               PROVE  \E h : Is(h, k + 1)
    BY TypesAssumption
  <2> WITNESS [i \in 0..(k + 1) |-> IF i = k + 1 THEN E(i, g[k]) ELSE g[i]]
  <2> QED
    OBVIOUS
<1>4. n \in T
  <2>1. n \in Nat /\ n \in 0..n
    BY TypesAssumption
  <2> HIDE DEF T, n
  <2> QED
    BY <1>2, <1>3, <2>1, Induction
<1>5. ASSUME NEW g, Is(g, n)
      PROVE  g[0] = C /\ \A i \in 0..(n - 1) : g[i + 1] = E(i + 1, g[i])
  <2>1. n \in Nat
    BY TypesAssumption
  <2>2. 0 \in 0..n /\ \A i \in 0..(n - 1) : i + 1 \in 0..n /\ i + 1 # 0 /\ (i + 1) - 1 = i
    BY <2>1
  <2> QED
    BY <1>5, <2>2
<1>6. f[0] = C /\ \A i \in 0..(n - 1) : f[i + 1] = E(i + 1, f[i])
  BY <1>4, <1>5
<1> HIDE DEF f
<1>7. LeftLevels(f, tree, known, t, m)
  BY <1>6 DEF E, C, LeftLevels
<1> QED
  BY <1>1, <1>7

JsonLevels(json, tree, t, m) ==
  /\ json[0] = [x \in Within(tree, Mentioned(tree), t, m)[Levels - 0] |-> NoJson]
  /\ \A d \in 0..(Levels - 1) :
       json[d + 1] = [x \in Within(tree, Mentioned(tree), t, m)[Levels - (d + 1)] |->
                        JsonOfMsg(tree, x, json[d])]

\* The JSON of the messages within a message, from the innermost.
LEMMA toJSONDef ==
  ASSUME NEW tree, NEW t, NEW m
  PROVE  \E json :
           /\ toJSON(tree, t, m) = json[Levels][<<t, m>>]
           /\ JsonLevels(json, tree, t, m)
<1> DEFINE n == Levels
           C == [x \in Within(tree, Mentioned(tree), t, m)[Levels - 0] |-> NoJson]
           E(i, v) == [x \in Within(tree, Mentioned(tree), t, m)[Levels - i] |-> JsonOfMsg(tree, x, v)]
           Is(g, k) == g = [i \in 0..k |-> IF i = 0 THEN C ELSE E(i, g[i - 1])]
           T == {k \in 0..n : \E g : Is(g, k)}
           f == CHOOSE g : Is(g, n)
<1>1. toJSON(tree, t, m) = f[n][<<t, m>>]
  BY DEF toJSON
<1> HIDE DEF E, C
<1>2. 0 \in T
  <2>1. Is([i \in 0..0 |-> C], 0)
    OBVIOUS
  <2>2. 0 \in 0..n
    BY TypesAssumption
  <2> QED
    BY <2>1, <2>2
<1>3. \A k \in 0..(n - 1) : k \in T => k + 1 \in T
  <2> SUFFICES ASSUME NEW k \in 0..(n - 1), NEW g, Is(g, k)
               PROVE  \E h : Is(h, k + 1)
    BY TypesAssumption
  <2> WITNESS [i \in 0..(k + 1) |-> IF i = k + 1 THEN E(i, g[k]) ELSE g[i]]
  <2> QED
    OBVIOUS
<1>4. n \in T
  <2>1. n \in Nat /\ n \in 0..n
    BY TypesAssumption
  <2> HIDE DEF T, n
  <2> QED
    BY <1>2, <1>3, <2>1, Induction
<1>5. ASSUME NEW g, Is(g, n)
      PROVE  g[0] = C /\ \A i \in 0..(n - 1) : g[i + 1] = E(i + 1, g[i])
  <2>1. n \in Nat
    BY TypesAssumption
  <2>2. 0 \in 0..n /\ \A i \in 0..(n - 1) : i + 1 \in 0..n /\ i + 1 # 0 /\ (i + 1) - 1 = i
    BY <2>1
  <2> QED
    BY <1>5, <2>2
<1>6. f[0] = C /\ \A i \in 0..(n - 1) : f[i + 1] = E(i + 1, f[i])
  BY <1>4, <1>5
<1> HIDE DEF f
<1>7. JsonLevels(f, tree, t, m)
  BY <1>6 DEF E, C, JsonLevels
<1> QED
  BY <1>1, <1>7

\* The levels of the JSON that is read for the messages within a message.
LEMMA JsonWithinDef ==
  ASSUME NEW tree, NEW known, NEW t, NEW json
  PROVE  LET level == JsonWithin(tree, known, t, json) IN
         /\ level[0] = {<<t, json>>}
         /\ \A k \in 0..(Levels - 1) :
              level[k + 1] = UNION {Objects(tree, known, x) : x \in level[k]}
<1> DEFINE n == Levels
           C == {<<t, json>>}
           E(i, v) == UNION {Objects(tree, known, x) : x \in v}
           Is(g, k) == g = [i \in 0..k |-> IF i = 0 THEN C ELSE E(i, g[i - 1])]
           T == {k \in 0..n : \E g : Is(g, k)}
           f == CHOOSE g : Is(g, n)
<1>1. JsonWithin(tree, known, t, json) = f
  BY DEF JsonWithin
<1> HIDE DEF E, C
<1>2. 0 \in T
  <2>1. Is([i \in 0..0 |-> C], 0)
    OBVIOUS
  <2>2. 0 \in 0..n
    BY TypesAssumption
  <2> QED
    BY <2>1, <2>2
<1>3. \A k \in 0..(n - 1) : k \in T => k + 1 \in T
  <2> SUFFICES ASSUME NEW k \in 0..(n - 1), NEW g, Is(g, k)
               PROVE  \E h : Is(h, k + 1)
    BY TypesAssumption
  <2> WITNESS [i \in 0..(k + 1) |-> IF i = k + 1 THEN E(i, g[k]) ELSE g[i]]
  <2> QED
    OBVIOUS
<1>4. n \in T
  <2>1. n \in Nat /\ n \in 0..n
    BY TypesAssumption
  <2> HIDE DEF T, n
  <2> QED
    BY <1>2, <1>3, <2>1, Induction
<1>5. ASSUME NEW g, Is(g, n)
      PROVE  g[0] = C /\ \A i \in 0..(n - 1) : g[i + 1] = E(i + 1, g[i])
  <2>1. n \in Nat
    BY TypesAssumption
  <2>2. 0 \in 0..n /\ \A i \in 0..(n - 1) : i + 1 \in 0..n /\ i + 1 # 0 /\ (i + 1) - 1 = i
    BY <2>1
  <2> QED
    BY <1>5, <2>2
<1>6. f[0] = C /\ \A i \in 0..(n - 1) : f[i + 1] = E(i + 1, f[i])
  BY <1>4, <1>5
<1> HIDE DEF f
<1> QED
  BY <1>1, <1>6 DEF E, C

SetLevels(set, tree, known, t, json) ==
  /\ set[0] = [x \in JsonWithin(tree, known, t, json)[Levels - 0] |-> Read(<< >>)]
  /\ \A d \in 0..(Levels - 1) :
       set[d + 1] = [x \in JsonWithin(tree, known, t, json)[Levels - (d + 1)] |->
                       setMsg(tree, known, x, Blanks(tree)[d + 1][x[1]], set[d])]

\* What is read of the JSON within JSON, from the innermost.
LEMMA fromJSONDef ==
  ASSUME NEW tree, NEW known, NEW t, NEW json
  PROVE  \E set :
           /\ fromJSON(tree, known, t, json) = set[Levels][<<t, json>>]
           /\ SetLevels(set, tree, known, t, json)
<1> DEFINE n == Levels
           C == [x \in JsonWithin(tree, known, t, json)[Levels - 0] |-> Read(<< >>)]
           E(i, v) == [x \in JsonWithin(tree, known, t, json)[Levels - i] |-> setMsg(tree, known, x, Blanks(tree)[i][x[1]], v)]
           Is(g, k) == g = [i \in 0..k |-> IF i = 0 THEN C ELSE E(i, g[i - 1])]
           T == {k \in 0..n : \E g : Is(g, k)}
           f == CHOOSE g : Is(g, n)
<1>1. fromJSON(tree, known, t, json) = f[n][<<t, json>>]
  BY DEF fromJSON
<1> HIDE DEF E, C
<1>2. 0 \in T
  <2>1. Is([i \in 0..0 |-> C], 0)
    OBVIOUS
  <2>2. 0 \in 0..n
    BY TypesAssumption
  <2> QED
    BY <2>1, <2>2
<1>3. \A k \in 0..(n - 1) : k \in T => k + 1 \in T
  <2> SUFFICES ASSUME NEW k \in 0..(n - 1), NEW g, Is(g, k)
               PROVE  \E h : Is(h, k + 1)
    BY TypesAssumption
  <2> WITNESS [i \in 0..(k + 1) |-> IF i = k + 1 THEN E(i, g[k]) ELSE g[i]]
  <2> QED
    OBVIOUS
<1>4. n \in T
  <2>1. n \in Nat /\ n \in 0..n
    BY TypesAssumption
  <2> HIDE DEF T, n
  <2> QED
    BY <1>2, <1>3, <2>1, Induction
<1>5. ASSUME NEW g, Is(g, n)
      PROVE  g[0] = C /\ \A i \in 0..(n - 1) : g[i + 1] = E(i + 1, g[i])
  <2>1. n \in Nat
    BY TypesAssumption
  <2>2. 0 \in 0..n /\ \A i \in 0..(n - 1) : i + 1 \in 0..n /\ i + 1 # 0 /\ (i + 1) - 1 = i
    BY <2>1
  <2> QED
    BY <1>5, <2>2
<1>6. f[0] = C /\ \A i \in 0..(n - 1) : f[i + 1] = E(i + 1, f[i])
  BY <1>4, <1>5
<1> HIDE DEF f
<1>7. SetLevels(f, tree, known, t, json)
  BY <1>6 DEF E, C, SetLevels
<1> QED
  BY <1>1, <1>7

LevelsRead(read, tree, known, bytes) ==
  /\ read[0] = [x \in Mentioned(tree) \X Nat |-> Got(<< >>, x[2])]
  /\ \A d \in 0..(Levels - 1) :
       read[d + 1] = [x \in Mentioned(tree) \X Nat |->
                        popMsg(tree, known, x[1], Blanks(tree)[d + 1][x[1]], read[d], bytes, x[2])]

\* What is read of messages within messages, from the innermost.
LEMMA toMsgDef ==
  ASSUME NEW tree, NEW known, NEW t, NEW bytes, NEW at
  PROVE  \E read :
           /\ toMsg(tree, known, t, bytes, at) = read[Levels][<<t, at>>]
           /\ LevelsRead(read, tree, known, bytes)
<1> DEFINE n == Levels
           C == [x \in Mentioned(tree) \X Nat |-> Got(<< >>, x[2])]
           E(i, v) == [x \in Mentioned(tree) \X Nat |-> popMsg(tree, known, x[1], Blanks(tree)[i][x[1]], v, bytes, x[2])]
           Is(g, k) == g = [i \in 0..k |-> IF i = 0 THEN C ELSE E(i, g[i - 1])]
           T == {k \in 0..n : \E g : Is(g, k)}
           f == CHOOSE g : Is(g, n)
<1>1. toMsg(tree, known, t, bytes, at) = f[n][<<t, at>>]
  BY DEF toMsg
<1> HIDE DEF E, C
<1>2. 0 \in T
  <2>1. Is([i \in 0..0 |-> C], 0)
    OBVIOUS
  <2>2. 0 \in 0..n
    BY TypesAssumption
  <2> QED
    BY <2>1, <2>2
<1>3. \A k \in 0..(n - 1) : k \in T => k + 1 \in T
  <2> SUFFICES ASSUME NEW k \in 0..(n - 1), NEW g, Is(g, k)
               PROVE  \E h : Is(h, k + 1)
    BY TypesAssumption
  <2> WITNESS [i \in 0..(k + 1) |-> IF i = k + 1 THEN E(i, g[k]) ELSE g[i]]
  <2> QED
    OBVIOUS
<1>4. n \in T
  <2>1. n \in Nat /\ n \in 0..n
    BY TypesAssumption
  <2> HIDE DEF T, n
  <2> QED
    BY <1>2, <1>3, <2>1, Induction
<1>5. ASSUME NEW g, Is(g, n)
      PROVE  g[0] = C /\ \A i \in 0..(n - 1) : g[i + 1] = E(i + 1, g[i])
  <2>1. n \in Nat
    BY TypesAssumption
  <2>2. 0 \in 0..n /\ \A i \in 0..(n - 1) : i + 1 \in 0..n /\ i + 1 # 0 /\ (i + 1) - 1 = i
    BY <2>1
  <2> QED
    BY <1>5, <2>2
<1>6. f[0] = C /\ \A i \in 0..(n - 1) : f[i + 1] = E(i + 1, f[i])
  BY <1>4, <1>5
<1> HIDE DEF f
<1>7. LevelsRead(f, tree, known, bytes)
  BY <1>6 DEF E, C, LevelsRead
<1> QED
  BY <1>1, <1>7

ElementsRead(many, number, field, inner, bytes, at) ==
  /\ many[0] = Got(<< >>, at)
  /\ \A j \in 0..(number - 1) :
       many[j + 1] = IF many[j].ok THEN Extended(many[j], popOne(field, inner, bytes, many[j].at))
                     ELSE many[j]

\* The elements of an array are read one after the other, up to one that fails.
LEMMA popManyDef ==
  ASSUME NEW number \in Nat, NEW field, NEW inner, NEW bytes, NEW at
  PROVE  \E many :
           /\ popMany(number, field, inner, bytes, at) = many[number]
           /\ ElementsRead(many, number, field, inner, bytes, at)
<1> DEFINE n == number
           C == Got(<< >>, at)
           E(i, v) == IF v.ok THEN Extended(v, popOne(field, inner, bytes, v.at)) ELSE v
           Is(g, k) == g = [i \in 0..k |-> IF i = 0 THEN C ELSE E(i, g[i - 1])]
           T == {k \in 0..n : \E g : Is(g, k)}
           f == CHOOSE g : Is(g, n)
<1>1. popMany(number, field, inner, bytes, at) = f[n]
  BY DEF popMany
<1> HIDE DEF E, C
<1>2. 0 \in T
  <2>1. Is([i \in 0..0 |-> C], 0)
    OBVIOUS
  <2>2. 0 \in 0..n
    BY TypesAssumption
  <2> QED
    BY <2>1, <2>2
<1>3. \A k \in 0..(n - 1) : k \in T => k + 1 \in T
  <2> SUFFICES ASSUME NEW k \in 0..(n - 1), NEW g, Is(g, k)
               PROVE  \E h : Is(h, k + 1)
    BY TypesAssumption
  <2> WITNESS [i \in 0..(k + 1) |-> IF i = k + 1 THEN E(i, g[k]) ELSE g[i]]
  <2> QED
    OBVIOUS
<1>4. n \in T
  <2>1. n \in Nat /\ n \in 0..n
    BY TypesAssumption
  <2> HIDE DEF T, n
  <2> QED
    BY <1>2, <1>3, <2>1, Induction
<1>5. ASSUME NEW g, Is(g, n)
      PROVE  g[0] = C /\ \A i \in 0..(n - 1) : g[i + 1] = E(i + 1, g[i])
  <2>1. n \in Nat
    BY TypesAssumption
  <2>2. 0 \in 0..n /\ \A i \in 0..(n - 1) : i + 1 \in 0..n /\ i + 1 # 0 /\ (i + 1) - 1 = i
    BY <2>1
  <2> QED
    BY <1>5, <2>2
<1>6. f[0] = C /\ \A i \in 0..(n - 1) : f[i + 1] = E(i + 1, f[i])
  BY <1>4, <1>5
<1> HIDE DEF f
<1>7. ElementsRead(f, number, field, inner, bytes, at)
  BY <1>6 DEF E, C, ElementsRead
<1> QED
  BY <1>1, <1>7

MembersRead(member, tree, known, t, blank, inner, bytes, at) ==
  /\ member[0] = Got(<< >>, at)
  /\ \A i \in 0..(Len(Fields(tree, t)) - 1) :
       member[i + 1] =
         IF member[i].threw THEN member[i]
         ELSE Joined(member[i], popField(known, Fields(tree, t)[i + 1], blank[i + 1],
                                         inner, bytes, member[i].at))

\* The members are read one after the other, until one throws.
LEMMA popMsgDef ==
  ASSUME NEW tree, NEW known, NEW t, NEW blank, NEW inner, NEW bytes, NEW at,
         Len(Fields(tree, t)) \in Nat
  PROVE  \E member :
           /\ popMsg(tree, known, t, blank, inner, bytes, at) = member[Len(Fields(tree, t))]
           /\ MembersRead(member, tree, known, t, blank, inner, bytes, at)
<1> DEFINE n == Len(Fields(tree, t))
           C == Got(<< >>, at)
           E(i, v) == IF v.threw THEN v
                      ELSE Joined(v, popField(known, Fields(tree, t)[i], blank[i], inner, bytes, v.at))
           Is(g, k) == g = [i \in 0..k |-> IF i = 0 THEN C ELSE E(i, g[i - 1])]
           T == {k \in 0..n : \E g : Is(g, k)}
           f == CHOOSE g : Is(g, n)
<1>1. popMsg(tree, known, t, blank, inner, bytes, at) = f[n]
  BY DEF popMsg
<1> HIDE DEF E, C
<1>2. 0 \in T
  <2>1. Is([i \in 0..0 |-> C], 0)
    OBVIOUS
  <2>2. 0 \in 0..n
    BY TypesAssumption
  <2> QED
    BY <2>1, <2>2
<1>3. \A k \in 0..(n - 1) : k \in T => k + 1 \in T
  <2> SUFFICES ASSUME NEW k \in 0..(n - 1), NEW g, Is(g, k)
               PROVE  \E h : Is(h, k + 1)
    BY TypesAssumption
  <2> WITNESS [i \in 0..(k + 1) |-> IF i = k + 1 THEN E(i, g[k]) ELSE g[i]]
  <2> QED
    OBVIOUS
<1>4. n \in T
  <2>1. n \in Nat /\ n \in 0..n
    BY TypesAssumption
  <2> HIDE DEF T, n
  <2> QED
    BY <1>2, <1>3, <2>1, Induction
<1>5. ASSUME NEW g, Is(g, n)
      PROVE  g[0] = C /\ \A i \in 0..(n - 1) : g[i + 1] = E(i + 1, g[i])
  <2>1. n \in Nat
    BY TypesAssumption
  <2>2. 0 \in 0..n /\ \A i \in 0..(n - 1) : i + 1 \in 0..n /\ i + 1 # 0 /\ (i + 1) - 1 = i
    BY <2>1
  <2> QED
    BY <1>5, <2>2
<1>6. f[0] = C /\ \A i \in 0..(n - 1) : f[i + 1] = E(i + 1, f[i])
  BY <1>4, <1>5
<1> HIDE DEF f
<1>7. MembersRead(f, tree, known, t, blank, inner, bytes, at)
  BY <1>6 DEF E, C, MembersRead
<1> QED
  BY <1>1, <1>7

\* The hashes, from those of the innermost messages.
LEMMA HashesDef ==
  ASSUME NEW tree
  PROVE  \E hash :
           /\ Hashes(tree) = hash[Levels]
           /\ hash[0] = [t \in DOMAIN tree |-> Text(FALSE, << >>)]
           /\ \A d \in 0..(Levels - 1) :
                hash[d + 1] = [t \in DOMAIN tree |-> TextOf(tree, t, hash[d])]
<1> DEFINE n == Levels
           C == [t \in DOMAIN tree |-> Text(FALSE, << >>)]
           E(i, v) == [t \in DOMAIN tree |-> TextOf(tree, t, v)]
           Is(g, k) == g = [i \in 0..k |-> IF i = 0 THEN C ELSE E(i, g[i - 1])]
           T == {k \in 0..n : \E g : Is(g, k)}
           f == CHOOSE g : Is(g, n)
<1>1. Hashes(tree) = f[n]
  BY DEF Hashes
<1> HIDE DEF E, C
<1>2. 0 \in T
  <2>1. Is([i \in 0..0 |-> C], 0)
    OBVIOUS
  <2>2. 0 \in 0..n
    BY TypesAssumption
  <2> QED
    BY <2>1, <2>2
<1>3. \A k \in 0..(n - 1) : k \in T => k + 1 \in T
  <2> SUFFICES ASSUME NEW k \in 0..(n - 1), NEW g, Is(g, k)
               PROVE  \E h : Is(h, k + 1)
    BY TypesAssumption
  <2> WITNESS [i \in 0..(k + 1) |-> IF i = k + 1 THEN E(i, g[k]) ELSE g[i]]
  <2> QED
    OBVIOUS
<1>4. n \in T
  <2>1. n \in Nat /\ n \in 0..n
    BY TypesAssumption
  <2> HIDE DEF T, n
  <2> QED
    BY <1>2, <1>3, <2>1, Induction
<1>5. ASSUME NEW g, Is(g, n)
      PROVE  g[0] = C /\ \A i \in 0..(n - 1) : g[i + 1] = E(i + 1, g[i])
  <2>1. n \in Nat
    BY TypesAssumption
  <2>2. 0 \in 0..n /\ \A i \in 0..(n - 1) : i + 1 \in 0..n /\ i + 1 # 0 /\ (i + 1) - 1 = i
    BY <2>1
  <2> QED
    BY <1>5, <2>2
<1>6. f[0] = C /\ \A i \in 0..(n - 1) : f[i + 1] = E(i + 1, f[i])
  BY <1>4, <1>5
<1> HIDE DEF f
<1> QED
  BY <1>1, <1>6 DEF E, C

\* The types that can be built, when those of their members are.
LEMMA BuildableDef ==
  ASSUME NEW tree, NEW made
  PROVE  \E fits :
           /\ Buildable(tree, made) = fits[Levels]
           /\ fits[0] = {t \in made : Compiles(tree, t)}
           /\ \A d \in 0..(Levels - 1) :
                fits[d + 1] = {t \in fits[d] : dependentTypeNames(tree, t) \subseteq fits[d]}
<1> DEFINE n == Levels
           C == {t \in made : Compiles(tree, t)}
           E(i, v) == {t \in v : dependentTypeNames(tree, t) \subseteq v}
           Is(g, k) == g = [i \in 0..k |-> IF i = 0 THEN C ELSE E(i, g[i - 1])]
           T == {k \in 0..n : \E g : Is(g, k)}
           f == CHOOSE g : Is(g, n)
<1>1. Buildable(tree, made) = f[n]
  BY DEF Buildable
<1> HIDE DEF E, C
<1>2. 0 \in T
  <2>1. Is([i \in 0..0 |-> C], 0)
    OBVIOUS
  <2>2. 0 \in 0..n
    BY TypesAssumption
  <2> QED
    BY <2>1, <2>2
<1>3. \A k \in 0..(n - 1) : k \in T => k + 1 \in T
  <2> SUFFICES ASSUME NEW k \in 0..(n - 1), NEW g, Is(g, k)
               PROVE  \E h : Is(h, k + 1)
    BY TypesAssumption
  <2> WITNESS [i \in 0..(k + 1) |-> IF i = k + 1 THEN E(i, g[k]) ELSE g[i]]
  <2> QED
    OBVIOUS
<1>4. n \in T
  <2>1. n \in Nat /\ n \in 0..n
    BY TypesAssumption
  <2> HIDE DEF T, n
  <2> QED
    BY <1>2, <1>3, <2>1, Induction
<1>5. ASSUME NEW g, Is(g, n)
      PROVE  g[0] = C /\ \A i \in 0..(n - 1) : g[i + 1] = E(i + 1, g[i])
  <2>1. n \in Nat
    BY TypesAssumption
  <2>2. 0 \in 0..n /\ \A i \in 0..(n - 1) : i + 1 \in 0..n /\ i + 1 # 0 /\ (i + 1) - 1 = i
    BY <2>1
  <2> QED
    BY <1>5, <2>2
<1>6. f[0] = C /\ \A i \in 0..(n - 1) : f[i + 1] = E(i + 1, f[i])
  BY <1>4, <1>5
<1> HIDE DEF f
<1> QED
  BY <1>1, <1>6 DEF E, C

-----------------------------------------------------------------------------
(***************************************************************************)
(* The definitions as data: the members of a type, and the messages within *)
(* a message.                                                              *)
(***************************************************************************)
\* Definitions about the messages.
IsTree(tree) ==
  DOMAIN tree \subseteq Messages /\ \A t \in DOMAIN tree : tree[t] \in Seq(Line)

\* The lines of a kind.
LEMMA OfKindType ==
  ASSUME NEW S, NEW lines \in Seq(S), NEW kind
  PROVE  OfKind(lines, kind) \in Seq(S)
<1>1. Len(lines) \in Nat /\ \A i \in 1..Len(lines) : lines[i] \in S
  BY LenProperties, ElementOfSeq
<1>2. PICK some :
        /\ OfKind(lines, kind) = some[Len(lines)] /\ some[0] = << >>
        /\ \A i \in 0..(Len(lines) - 1) :
             some[i + 1] = IF lines[i + 1].kind = kind THEN Append(some[i], lines[i + 1]) ELSE some[i]
  BY <1>1, OfKindDef
<1> DEFINE n == Len(lines)
           T == {i \in 0..n : some[i] \in Seq(S)}
<1>3. 0 \in T
  <2>1. some[0] \in Seq(S)
    BY <1>2, EmptySeq
  <2> QED
    BY <1>1, <2>1
<1>4. \A i \in 0..(n - 1) : i \in T => i + 1 \in T
  <2> SUFFICES ASSUME NEW i \in 0..(n - 1), some[i] \in Seq(S)
               PROVE  some[i + 1] \in Seq(S) /\ i + 1 \in 0..n
    BY <1>1
  <2>1. i + 1 \in 1..n /\ i + 1 \in 0..n
    BY <1>1
  <2>2. Append(some[i], lines[i + 1]) \in Seq(S)
    BY <1>1, <2>1, AppendProperties
  <2> QED
    BY <1>2, <2>1, <2>2
<1>5. n \in T
  <2>1. n \in Nat /\ n \in 0..n
    BY <1>1
  <2> HIDE DEF T, n
  <2> QED
    BY <1>3, <1>4, <2>1, Induction
<1> QED
  BY <1>2, <1>5

\* The members of a type: those of messages that the definitions are about are
\* of types they mention.
LEMMA FieldsType ==
  ASSUME NEW tree, IsTree(tree), NEW t
  PROVE  /\ Fields(tree, t) \in Seq(Line) /\ Consts(tree, t) \in Seq(Line)
         /\ t \notin DOMAIN tree => Fields(tree, t) = << >>
<1>1. Lines(tree, t) \in Seq(Line)
  BY EmptySeq DEF Lines, IsTree
<1>2. Fields(tree, t) \in Seq(Line) /\ Consts(tree, t) \in Seq(Line)
  BY <1>1, OfKindType DEF Fields, Consts
<1>3. t \notin DOMAIN tree => Fields(tree, t) = << >>
  <2> SUFFICES ASSUME t \notin DOMAIN tree
               PROVE  Fields(tree, t) = << >>
    OBVIOUS
  <2>1. Lines(tree, t) = << >> /\ Len(<< >>) = 0
    BY EmptySeq DEF Lines
  <2>2. PICK some : OfKind(<< >>, "field") = some[Len(<< >>)] /\ some[0] = << >>
    BY <2>1, OfKindDef
  <2> QED
    BY <2>1, <2>2 DEF Fields
<1> QED
  BY <1>2, <1>3

\* One member.
LEMMA FieldType ==
  ASSUME NEW tree, IsTree(tree), NEW t, NEW i \in DOMAIN Fields(tree, t)
  PROVE  /\ Fields(tree, t)[i] \in Line
         /\ Fields(tree, t)[i] \in ToSet(Fields(tree, t))
         /\ t \in DOMAIN tree
         /\ ~to_cxx_typeName(Fields(tree, t)[i]) =>
              /\ Fields(tree, t)[i].type \in Messages
              /\ Fields(tree, t)[i].type \in dependentTypeNames(tree, t)
              /\ Fields(tree, t)[i].type \in Mentioned(tree)
<1>1. Fields(tree, t) \in Seq(Line)
  BY FieldsType
<1>2. Fields(tree, t)[i] \in Line
  BY <1>1, LenProperties, ElementOfSeq
<1>3. Fields(tree, t)[i] \in ToSet(Fields(tree, t))
  BY DEF ToSet
<1>4. t \in DOMAIN tree
  <2>1. DOMAIN << >> = {}
    OBVIOUS
  <2> QED
    BY <2>1, FieldsType
<1>5. ASSUME ~to_cxx_typeName(Fields(tree, t)[i])
      PROVE  /\ Fields(tree, t)[i].type \in Messages
             /\ Fields(tree, t)[i].type \in dependentTypeNames(tree, t)
             /\ Fields(tree, t)[i].type \in Mentioned(tree)
  <2>1. Fields(tree, t)[i].type \in Messages
    BY <1>2, <1>5 DEF Line, to_cxx_typeName
  <2>2. Fields(tree, t)[i].type \in dependentTypeNames(tree, t)
    BY <1>3, <1>5 DEF dependentTypeNames
  <2>3. Fields(tree, t)[i].type \in Mentioned(tree)
    BY <1>4, <2>2 DEF Mentioned
  <2> QED
    BY <2>1, <2>2, <2>3
<1> QED
  BY <1>2, <1>3, <1>4, <1>5

LEMMA DependentTypes ==
  ASSUME NEW tree, IsTree(tree), NEW t
  PROVE  /\ dependentTypeNames(tree, t) \subseteq Messages
         /\ dependentTypeNames(tree, t) \subseteq Mentioned(tree)
<1> SUFFICES ASSUME NEW u \in dependentTypeNames(tree, t)
             PROVE  u \in Messages /\ u \in Mentioned(tree)
  OBVIOUS
<1>1. PICK f \in ToSet(Fields(tree, t)) : ~to_cxx_typeName(f) /\ u = f.type
  BY DEF dependentTypeNames
<1>2. PICK i \in DOMAIN Fields(tree, t) : f = Fields(tree, t)[i]
  BY DEF ToSet
<1> QED
  BY <1>1, <1>2, FieldType

\* A level and the next one.
LEMMA WithinStep ==
  ASSUME NEW tree, NEW known, NEW t, NEW m, NEW k \in 0..(Levels - 1),
         NEW x \in Within(tree, known, t, m)[k], NEW i \in DOMAIN Fields(tree, x[1]),
         ~to_cxx_typeName(Fields(tree, x[1])[i]), Fields(tree, x[1])[i].type \in known
  PROVE  /\ ~is_many(Fields(tree, x[1])[i])
              => <<Fields(tree, x[1])[i].type, x[2][i]>> \in Within(tree, known, t, m)[k + 1]
         /\ is_many(Fields(tree, x[1])[i])
              => \A v \in ToSet(x[2][i]) :
                   <<Fields(tree, x[1])[i].type, v>> \in Within(tree, known, t, m)[k + 1]
<1>1. Within(tree, known, t, m)[k + 1] = UNION {Members(tree, known, y) : y \in Within(tree, known, t, m)[k]}
  BY WithinDef
<1>2. Members(tree, known, x) \subseteq Within(tree, known, t, m)[k + 1]
  BY <1>1
<1> QED
  BY <1>2 DEF Members

LEMMA MemberOf ==
  ASSUME NEW tree, NEW known, NEW x, NEW y \in Members(tree, known, x)
  PROVE  \E i \in DOMAIN Fields(tree, x[1]) :
           /\ ~to_cxx_typeName(Fields(tree, x[1])[i]) /\ Fields(tree, x[1])[i].type \in known
           /\ y = <<Fields(tree, x[1])[i].type, y[2]>>
           /\ IF is_many(Fields(tree, x[1])[i]) THEN y[2] \in ToSet(x[2][i]) ELSE y[2] = x[2][i]
BY DEF Members

\* The types of the messages within a message.
LEMMA WithinTypes ==
  ASSUME NEW tree, IsTree(tree), NEW known, NEW t, NEW m, NEW S,
         t \in S, \A u : dependentTypeNames(tree, u) \subseteq S
  PROVE  \A k \in 0..Levels : \A x \in Within(tree, known, t, m)[k] : x = <<x[1], x[2]>> /\ x[1] \in S
<1> DEFINE T == {k \in 0..Levels : \A x \in Within(tree, known, t, m)[k] : x = <<x[1], x[2]>> /\ x[1] \in S}
<1>1. 0 \in T
  BY WithinDef, TypesAssumption
<1>2. \A k \in 0..(Levels - 1) : k \in T => k + 1 \in T
  <2> SUFFICES ASSUME NEW k \in 0..(Levels - 1), k \in T
               PROVE  k + 1 \in T
    OBVIOUS
  <2>0. k + 1 \in 0..Levels
    BY TypesAssumption
  <2> SUFFICES ASSUME NEW y \in Within(tree, known, t, m)[k + 1]
               PROVE  y = <<y[1], y[2]>> /\ y[1] \in S
    BY <2>0
  <2>1. PICK x \in Within(tree, known, t, m)[k] : y \in Members(tree, known, x)
    BY WithinDef
  <2>2. PICK i \in DOMAIN Fields(tree, x[1]) :
          ~to_cxx_typeName(Fields(tree, x[1])[i]) /\ y = <<Fields(tree, x[1])[i].type, y[2]>>
    BY <2>1, MemberOf
  <2>3. Fields(tree, x[1])[i].type \in S
    BY <2>2, FieldType
  <2> QED
    BY <2>2, <2>3
<1>3. \A k \in 0..Levels : k \in T
  <2> HIDE DEF T
  <2> QED
    BY <1>1, <1>2, TypesAssumption, Induction
<1> QED
  BY <1>3

\* What the packers look up are message types.
LEMMA AskedTypes ==
  ASSUME NEW tree, IsTree(tree), NEW known, NEW t \in Messages, NEW m
  PROVE  Asked(tree, known, t, m) \in SUBSET ((Types \cup {App}) \X Types)
<1>1. \A k \in 0..Levels : \A x \in Within(tree, known, t, m)[k] : x[1] \in Messages
  BY WithinTypes, DependentTypes
<1>2. \A u : dependentTypeNames(tree, u) \subseteq Messages
  BY DependentTypes
<1> QED
  BY <1>1, <1>2 DEF Asked, Types

-----------------------------------------------------------------------------
(***************************************************************************)
(* Words and bytes: what is written of a primitive type is a sequence of   *)
(* bytes, and what is read of one is in its range.                         *)
(***************************************************************************)
\* Products.
LEMMA Times ==
  ASSUME NEW b \in Nat, NEW c \in Nat, NEW w \in Nat \ {0}
  PROVE  /\ c * w \in Nat /\ (c > 0 => c * w > 0)
         /\ b < c => b * w + w <= c * w
<1>1. c * w \in Nat /\ (c > 0 => c * w > 0)
  OBVIOUS
<1>2. ASSUME b < c PROVE b * w + w <= c * w
  <2>1. b * w + w = (b + 1) * w
    OBVIOUS
  <2>2. PICK e \in Nat : c = (b + 1) + e
    <3>1. c - (b + 1) \in Nat /\ c = (b + 1) + (c - (b + 1))
      BY <1>2
    <3> QED
      BY <3>1
  <2>3. c * w = (b + 1) * w + e * w
    BY <2>2
  <2>4. e * w \in Nat /\ (b + 1) * w \in Nat
    OBVIOUS
  <2> QED
    BY <2>1, <2>3, <2>4
<1> QED
  BY <1>1, <1>2

\* The weights are positive.
LEMMA WeightType == \A k \in 0..WordBytes : Weight[k] \in Nat \ {0}
<1> DEFINE T == {k \in 0..WordBytes : Weight[k] \in Nat \ {0}}
<1>0. WordBytes \in Nat /\ Base \in Nat /\ Base > 0
  BY CodecAssumption
<1>1. 0 \in T
  BY <1>0, WeightDef
<1>2. \A k \in 0..(WordBytes - 1) : k \in T => k + 1 \in T
  <2> SUFFICES ASSUME NEW k \in 0..(WordBytes - 1), Weight[k] \in Nat \ {0}
               PROVE  k + 1 \in T
    OBVIOUS
  <2>1. Weight[k + 1] = Base * Weight[k]
    BY WeightDef
  <2>2. Base * Weight[k] \in Nat /\ Base * Weight[k] > 0
    BY <1>0, Times
  <2> QED
    BY <1>0, <2>1, <2>2
<1>3. \A k \in 0..WordBytes : k \in T
  <2> HIDE DEF T
  <2> QED
    BY <1>0, <1>1, <1>2, Induction
<1> QED
  BY <1>3

LEMMA FullType == Full \in Nat \ {0}
BY WeightType, CodecAssumption DEF Full

\* What some bytes stand for.
LEMMA NumberType ==
  ASSUME NEW bytes \in Seq(Byte), Len(bytes) <= WordBytes
  PROVE  Number(bytes) \in 0..(Weight[Len(bytes)] - 1)
<1> DEFINE n == Len(bytes)
<1>0. n \in 0..WordBytes /\ n \in Nat /\ WordBytes \in Nat /\ Base \in Nat /\ Base > 0
  BY LenProperties, CodecAssumption
<1>1. PICK sum :
        /\ Number(bytes) = sum[n] /\ sum[0] = 0
        /\ \A k \in 0..(n - 1) : sum[k + 1] = sum[k] + bytes[k + 1] * Weight[(k + 1) - 1]
  BY <1>0, NumberDef
<1> DEFINE T == {k \in 0..n : sum[k] \in 0..(Weight[k] - 1)}
<1>2. 0 \in T
  BY <1>0, <1>1, WeightDef
<1>3. \A k \in 0..(n - 1) : k \in T => k + 1 \in T
  <2> SUFFICES ASSUME NEW k \in 0..(n - 1), sum[k] \in 0..(Weight[k] - 1)
               PROVE  k + 1 \in T
    OBVIOUS
  <2>1. k + 1 \in 1..n /\ k + 1 \in 0..n /\ k \in 0..WordBytes /\ k \in 0..(WordBytes - 1) /\ (k + 1) - 1 = k
    BY <1>0
  <2>2. bytes[k + 1] \in Nat /\ bytes[k + 1] < Base
    BY <2>1, <1>0, ElementOfSeq DEF Byte
  <2>3. Weight[k] \in Nat \ {0} /\ Weight[k + 1] = Base * Weight[k]
    BY <2>1, WeightType, WeightDef
  <2>4. bytes[k + 1] * Weight[k] + Weight[k] <= Base * Weight[k] /\ Base * Weight[k] \in Nat
        /\ bytes[k + 1] * Weight[k] \in Nat
    BY <1>0, <2>2, <2>3, Times
  <2>5. sum[k + 1] = sum[k] + bytes[k + 1] * Weight[k]
    BY <1>1, <2>1
  <2>6. sum[k + 1] \in 0..(Weight[k + 1] - 1)
    <3> DEFINE s == sum[k]
               p == bytes[k + 1] * Weight[k]
               q == Base * Weight[k]
               w == Weight[k]
    <3>1. s \in 0..(w - 1) /\ p \in Nat /\ q \in Nat /\ w \in Nat /\ p + w <= q
      BY <2>3, <2>4
    <3> HIDE DEF s, p, q, w
    <3>2. s + p \in 0..(q - 1)
      BY <3>1
    <3> QED
      BY <2>3, <2>5, <3>2 DEF s, p, q, w
  <2> QED
    BY <2>1, <2>6
<1>4. n \in T
  <2>1. n \in 0..n
    BY <1>0
  <2> HIDE DEF T, n
  <2> QED
    BY <1>0, <1>2, <1>3, <2>1, Induction
<1> QED
  BY <1>1, <1>4

\* A word is a sequence of bytes.
LEMMA WordType ==
  ASSUME NEW n \in Nat
  PROVE  WordOf(n) \in Seq(Byte) /\ Len(WordOf(n)) = WordBytes
<1>1. ASSUME NEW i \in 1..WordBytes
      PROVE  (n \div Weight[i - 1]) % Base \in Byte
  <2>1. i - 1 \in 0..WordBytes /\ Base \in Nat /\ Base > 0
    BY CodecAssumption
  <2>2. Weight[i - 1] \in Nat \ {0}
    BY <2>1, WeightType
  <2>3. n \div Weight[i - 1] \in Nat
    BY <2>2
  <2> QED
    BY <2>1, <2>3 DEF Byte
<1>2. WordOf(n) \in [1..WordBytes -> Byte]
  BY <1>1 DEF WordOf
<1> QED
  BY <1>2, Places, CodecAssumption

\* The words are primitive types of one kind.
LEMMA WordTypes ==
  ASSUME NEW type \in Words
  PROVE  /\ type \in Primitive /\ type \notin {"uint8", "string", "time"}
         /\ Values(type) = 0..(Full - 1)
<1>1. type \in Primitive
  BY DEF Primitive
<1>2. type \notin {"uint8", "string", "time"}
  BY DEF Words, Floats
<1> QED
  BY <1>1, <1>2 DEF Values

\* A value of a primitive type is written as bytes.
LEMMA PushType ==
  ASSUME NEW type \in Primitive, NEW v \in Values(type)
  PROVE  push(type, v) \in Seq(Byte)
<1>1. CASE type = "uint8"
  <2>1. v \in Byte /\ push(type, v) = <<v>>
    BY <1>1 DEF Values, push, Words, Floats
  <2> QED
    BY <2>1
<1>2. CASE type \in Words
  <2>1. v \in Nat /\ push(type, v) = WordOf(v)
    BY <1>2, FullType, WordTypes DEF push
  <2> QED
    BY <2>1, WordType
<1>3. CASE type = "string"
  <2>1. v \in Seq(Byte) /\ push(type, v) = WordOf(Len(v)) \o v
    BY <1>3 DEF Values, push
  <2>2. Len(v) \in Nat
    BY <2>1, LenProperties
  <2> QED
    BY <2>1, <2>2, WordType, ConcatProperties
<1>4. CASE type = "time"
  <2>1. v[1] \in Nat /\ v[2] \in Nat /\ push(type, v) = WordOf(v[1]) \o WordOf(v[2])
    BY <1>4, FullType DEF Values, push
  <2> QED
    BY <2>1, WordType, ConcatProperties
<1> QED
  BY <1>1, <1>2, <1>3, <1>4 DEF Primitive

-----------------------------------------------------------------------------
(***************************************************************************)
(* The messages of a type, as sets, by their depth.                        *)
(***************************************************************************)
\* The values of a member, when those of message types have the values in inner.
Some(f, inner) == IF to_cxx_typeName(f) THEN Values(f.type) ELSE inner[f.type]
Held(f, inner) ==
  IF is_array(f) THEN {v \in Seq(Some(f, inner)) : Len(v) < Full}
  ELSE IF is_fixed_array(f) THEN [1..f.dims -> Some(f, inner)]
  ELSE Some(f, inner)

MsgOf(tree, t, inner) ==
  {m \in [DOMAIN Fields(tree, t) ->
            UNION {Held(Fields(tree, t)[i], inner) : i \in DOMAIN Fields(tree, t)}] :
     \A i \in DOMAIN Fields(tree, t) : m[i] \in Held(Fields(tree, t)[i], inner)}

\* The messages of the types, by depth.
Msgs(tree) ==
  LET msgs[d \in 0..Levels] ==
        [t \in Mentioned(tree) |-> IF d = 0 THEN {<< >>} ELSE MsgOf(tree, t, msgs[d - 1])]
  IN msgs

\* The messages, by depth.
LEMMA MsgsDef ==
  ASSUME NEW tree
  PROVE  LET msgs == Msgs(tree) IN
         /\ \A t \in Mentioned(tree) : msgs[0][t] = {<< >>}
         /\ \A d \in 0..(Levels - 1) : \A t \in Mentioned(tree) :
              msgs[d + 1][t] = MsgOf(tree, t, msgs[d])
<1> DEFINE n == Levels
           C == [t \in Mentioned(tree) |-> {<< >>}]
           E(i, v) == [t \in Mentioned(tree) |-> MsgOf(tree, t, v)]
           Is(g, k) == g = [i \in 0..k |-> IF i = 0 THEN C ELSE E(i, g[i - 1])]
           T == {k \in 0..n : \E g : Is(g, k)}
           f == CHOOSE g : Is(g, n)
<1>1. Msgs(tree) = f
  BY DEF Msgs
<1> HIDE DEF E, C
<1>2. 0 \in T
  <2>1. Is([i \in 0..0 |-> C], 0)
    OBVIOUS
  <2>2. 0 \in 0..n
    BY TypesAssumption
  <2> QED
    BY <2>1, <2>2
<1>3. \A k \in 0..(n - 1) : k \in T => k + 1 \in T
  <2> SUFFICES ASSUME NEW k \in 0..(n - 1), NEW g, Is(g, k)
               PROVE  \E h : Is(h, k + 1)
    BY TypesAssumption
  <2> WITNESS [i \in 0..(k + 1) |-> IF i = k + 1 THEN E(i, g[k]) ELSE g[i]]
  <2> QED
    OBVIOUS
<1>4. n \in T
  <2>1. n \in Nat /\ n \in 0..n
    BY TypesAssumption
  <2> HIDE DEF T, n
  <2> QED
    BY <1>2, <1>3, <2>1, Induction
<1>5. ASSUME NEW g, Is(g, n)
      PROVE  g[0] = C /\ \A i \in 0..(n - 1) : g[i + 1] = E(i + 1, g[i])
  <2>1. n \in Nat
    BY TypesAssumption
  <2>2. 0 \in 0..n /\ \A i \in 0..(n - 1) : i + 1 \in 0..n /\ i + 1 # 0 /\ (i + 1) - 1 = i
    BY <2>1
  <2> QED
    BY <1>5, <2>2
<1>6. f[0] = C /\ \A i \in 0..(n - 1) : f[i + 1] = E(i + 1, f[i])
  BY <1>4, <1>5
<1> HIDE DEF f
<1> QED
  BY <1>1, <1>6 DEF E, C

\* A message, member by member.
LEMMA MsgOfDef ==
  ASSUME NEW tree, NEW t, NEW inner, NEW m
  PROVE  m \in MsgOf(tree, t, inner) <=>
           /\ DOMAIN m = DOMAIN Fields(tree, t) /\ m = [i \in DOMAIN m |-> m[i]]
           /\ \A i \in DOMAIN Fields(tree, t) : m[i] \in Held(Fields(tree, t)[i], inner)
<1> DEFINE D == DOMAIN Fields(tree, t)
           H(i) == Held(Fields(tree, t)[i], inner)
<1>1. ASSUME m \in MsgOf(tree, t, inner)
      PROVE  DOMAIN m = D /\ m = [i \in DOMAIN m |-> m[i]] /\ \A i \in D : m[i] \in H(i)
  BY <1>1 DEF MsgOf
<1>2. ASSUME DOMAIN m = D, m = [i \in DOMAIN m |-> m[i]], \A i \in D : m[i] \in H(i)
      PROVE  m \in MsgOf(tree, t, inner)
  <2>1. \A i \in D : m[i] \in UNION {H(j) : j \in D}
    BY <1>2
  <2> HIDE DEF H
  <2>2. m \in [D -> UNION {H(j) : j \in D}]
    BY <1>2, <2>1
  <2> QED
    BY <1>2, <2>2 DEF MsgOf, H
<1> QED
  BY <1>1, <1>2

\* The messages of one level more.
LEMMA MsgsStep ==
  ASSUME NEW tree, NEW d \in 0..(Levels - 1), NEW t \in Mentioned(tree), NEW m
  PROVE  m \in Msgs(tree)[d + 1][t] <=>
           /\ DOMAIN m = DOMAIN Fields(tree, t) /\ m = [i \in DOMAIN m |-> m[i]]
           /\ \A i \in DOMAIN Fields(tree, t) : m[i] \in Held(Fields(tree, t)[i], Msgs(tree)[d])
<1>1. Msgs(tree)[d + 1][t] = MsgOf(tree, t, Msgs(tree)[d])
  BY MsgsDef
<1> QED
  BY <1>1, MsgOfDef

\* What the application sends has the members' types, to every depth.
LEMMA SentIsMsg ==
  ASSUME NEW tree, IsTree(tree), NEW t \in Mentioned(tree), NEW m, IsMsg(tree, t, m)
  PROVE  m \in Msgs(tree)[Levels][t]
<1> DEFINE W == Within(tree, Mentioned(tree), t, m)
           T == {d \in 0..Levels : \A x \in W[Levels - d] : x[2] \in Msgs(tree)[d][x[1]]}
<1>0. \A k \in 0..Levels : \A x \in W[k] : x = <<x[1], x[2]>> /\ x[1] \in Mentioned(tree)
  BY WithinTypes, DependentTypes
<1>1. 0 \in T
  <2> SUFFICES ASSUME NEW x \in W[Levels]
               PROVE  x[2] \in Msgs(tree)[0][x[1]]
    BY TypesAssumption
  <2>1. Levels \in 0..Levels /\ ~(Levels < Levels)
    BY TypesAssumption
  <2>2. x[2] = << >>
    BY <2>1 DEF IsMsg
  <2>3. x[1] \in Mentioned(tree)
    BY <1>0, <2>1
  <2> QED
    BY <2>2, <2>3, MsgsDef
<1>2. \A d \in 0..(Levels - 1) : d \in T => d + 1 \in T
  <2> SUFFICES ASSUME NEW d \in 0..(Levels - 1), d \in T
               PROVE  d + 1 \in T
    OBVIOUS
  <2> DEFINE k == Levels - (d + 1)
  <2>0. /\ d + 1 \in 0..Levels /\ k \in 0..(Levels - 1) /\ k \in 0..Levels /\ k < Levels
        /\ k + 1 = Levels - d
    BY TypesAssumption
  <2> SUFFICES ASSUME NEW x \in W[k]
               PROVE  x[2] \in Msgs(tree)[d + 1][x[1]]
    BY <2>0
  <2>1. Shaped(tree, x)
    BY <2>0 DEF IsMsg
  <2>2. x[1] \in Mentioned(tree)
    BY <1>0, <2>0
  <2>3. ASSUME NEW y \in W[k + 1]
        PROVE  y[2] \in Msgs(tree)[d][y[1]]
    BY <2>0
  <2> HIDE DEF W, k, T
  <2>4. ASSUME NEW i \in DOMAIN Fields(tree, x[1])
        PROVE  x[2][i] \in Held(Fields(tree, x[1])[i], Msgs(tree)[d])
    <3> DEFINE f == Fields(tree, x[1])[i]
               v == x[2][i]
    <3>1. HasShape(f, v)
      BY <2>1 DEF Shaped
    <3>2. f \in Line /\ (~to_cxx_typeName(f) => f.type \in Mentioned(tree))
      BY FieldType
    <3>3. CASE to_cxx_typeName(f)
      BY <3>1, <3>3 DEF HasShape, Held, Some
    <3>4. CASE ~to_cxx_typeName(f)
      <4> DEFINE S == Msgs(tree)[d][f.type]
      <4>1. ~is_many(f) => <<f.type, v>> \in W[k + 1]
        BY <2>0, <3>2, <3>4, WithinStep DEF W
      <4>2. is_many(f) => \A e \in ToSet(v) : <<f.type, e>> \in W[k + 1]
        BY <2>0, <3>2, <3>4, WithinStep DEF W
      <4>3. ~is_many(f) => v \in S
        BY <2>3, <4>1
      <4>4. is_many(f) => ToSet(v) \subseteq S
        BY <2>3, <4>2
      <4>5. Some(f, Msgs(tree)[d]) = S
        BY <3>4 DEF Some
      <4> HIDE DEF f, v, S
      <4>6. CASE is_array(f)
        <5>1. v \in Seq(ToSet(v)) /\ Len(v) < Full
          BY <3>1, <3>4, <4>6 DEF HasShape
        <5>2. v \in Seq(S)
          BY <4>4, <4>6, <5>1, SeqMonotonic DEF is_many
        <5> QED
          BY <4>5, <4>6, <5>1, <5>2 DEF Held, f, v
      <4>7. CASE ~is_array(f) /\ is_fixed_array(f)
        <5>1. v \in [1..f.dims -> ToSet(v)]
          BY <3>1, <3>4, <4>7 DEF HasShape
        <5>2. v \in [1..f.dims -> S]
          BY <4>4, <4>7, <5>1 DEF is_many
        <5> QED
          BY <4>5, <4>7, <5>2 DEF Held, f, v
      <4>8. CASE ~is_array(f) /\ ~is_fixed_array(f)
        BY <4>3, <4>5, <4>8 DEF Held, is_many, f, v
      <4> QED
        BY <4>6, <4>7, <4>8
    <3> QED
      BY <3>3, <3>4
  <2> QED
    BY <2>1, <2>2, <2>4, MsgsStep DEF Shaped
<1>3. Levels \in T
  <2>1. Levels \in 0..Levels
    BY TypesAssumption
  <2> HIDE DEF T
  <2> QED
    BY <1>1, <1>2, <2>1, TypesAssumption, Induction
<1>4. <<t, m>> \in W[0] /\ Levels - Levels = 0
  BY WithinDef, TypesAssumption
<1> QED
  BY <1>3, <1>4

\* The messages within a message have their types.
LEMMA WithinMsgs ==
  ASSUME NEW tree, IsTree(tree), NEW known, NEW t \in Mentioned(tree), NEW m \in Msgs(tree)[Levels][t]
  PROVE  \A k \in 0..Levels : \A x \in Within(tree, known, t, m)[k] :
           x = <<x[1], x[2]>> /\ x[1] \in Mentioned(tree) /\ x[2] \in Msgs(tree)[Levels - k][x[1]]
<1> DEFINE W == Within(tree, known, t, m)
           T == {k \in 0..Levels : \A x \in W[k] : x[2] \in Msgs(tree)[Levels - k][x[1]]}
<1>0. \A k \in 0..Levels : \A x \in W[k] : x = <<x[1], x[2]>> /\ x[1] \in Mentioned(tree)
  BY WithinTypes, DependentTypes
<1>1. 0 \in T
  BY WithinDef, TypesAssumption
<1>2. \A k \in 0..(Levels - 1) : k \in T => k + 1 \in T
  <2> SUFFICES ASSUME NEW k \in 0..(Levels - 1), k \in T
               PROVE  k + 1 \in T
    OBVIOUS
  <2> DEFINE d == Levels - (k + 1)
  <2>0. k + 1 \in 0..Levels /\ k \in 0..Levels /\ d \in 0..(Levels - 1) /\ d + 1 = Levels - k
    BY TypesAssumption
  <2> SUFFICES ASSUME NEW y \in W[k + 1]
               PROVE  y[2] \in Msgs(tree)[d][y[1]]
    BY <2>0
  <2>1. PICK x \in W[k] : y \in Members(tree, known, x)
    BY WithinDef
  <2>2. x[1] \in Mentioned(tree) /\ x[2] \in Msgs(tree)[d + 1][x[1]]
    BY <1>0, <2>0
  <2> DEFINE Fd(i) == Fields(tree, x[1])[i]
  <2>3. PICK i \in DOMAIN Fields(tree, x[1]) :
          /\ ~to_cxx_typeName(Fd(i)) /\ y = <<Fd(i).type, y[2]>>
          /\ IF is_many(Fd(i)) THEN y[2] \in ToSet(x[2][i]) ELSE y[2] = x[2][i]
    BY <2>1, MemberOf
  <2> DEFINE f == Fd(i)
             v == x[2][i]
             S == Msgs(tree)[d][f.type]
  <2>4. v \in Held(f, Msgs(tree)[d])
    BY <2>0, <2>2, MsgsStep
  <2>5. Some(f, Msgs(tree)[d]) = S
    BY <2>3 DEF Some
  <2>6. ~to_cxx_typeName(f) /\ y[1] = f.type
        /\ IF is_many(f) THEN y[2] \in ToSet(v) ELSE y[2] = v
    BY <2>3
  <2> HIDE DEF f, v, S, Fd
  <2>7. CASE is_array(f)
    <3>1. v \in Seq(S)
      BY <2>4, <2>5, <2>7 DEF Held
    <3>2. y[2] \in ToSet(v)
      BY <2>6, <2>7 DEF is_many
    <3> QED
      BY <2>6, <3>1, <3>2, Elements, ElementOfSeq DEF S
  <2>8. CASE ~is_array(f) /\ is_fixed_array(f)
    <3>1. v \in [1..f.dims -> S]
      BY <2>4, <2>5, <2>8 DEF Held
    <3>2. y[2] \in ToSet(v)
      BY <2>6, <2>8 DEF is_many
    <3> QED
      BY <2>6, <3>1, <3>2 DEF S, ToSet
  <2>9. CASE ~is_array(f) /\ ~is_fixed_array(f)
    BY <2>4, <2>5, <2>6, <2>9 DEF Held, is_many, S
  <2> QED
    BY <2>7, <2>8, <2>9
<1>3. \A k \in 0..Levels : k \in T
  <2> HIDE DEF T
  <2> QED
    BY <1>1, <1>2, TypesAssumption, Induction
<1> QED
  BY <1>0, <1>3

-----------------------------------------------------------------------------
(***************************************************************************)
(* What is written of a message of these sets is a packet: a sequence of   *)
(* bytes.                                                                  *)
(***************************************************************************)
\* The elements of a member, or the one value.
LEMMA HeldCases ==
  ASSUME NEW f \in Line, NEW inner, NEW v \in Held(f, inner)
  PROVE  /\ is_array(f) => v \in Seq(Some(f, inner)) /\ Len(v) < Full
         /\ ~is_array(f) /\ is_fixed_array(f) =>
              v \in [1..f.dims -> Some(f, inner)] /\ f.dims \in Nat
              /\ v \in Seq(Some(f, inner)) /\ Len(v) = f.dims
         /\ ~is_many(f) => v \in Some(f, inner)
<1>1. is_fixed_array(f) => f.dims \in Nat
  BY DEF Line, Vector, is_fixed_array
<1>2. ASSUME ~is_array(f), is_fixed_array(f)
      PROVE  v \in [1..f.dims -> Some(f, inner)] /\ v \in Seq(Some(f, inner)) /\ Len(v) = f.dims
  <2>1. v \in [1..f.dims -> Some(f, inner)]
    BY <1>2 DEF Held
  <2> QED
    BY <1>1, <1>2, <2>1, Places
<1> QED
  BY <1>1, <1>2 DEF Held, is_many

\* What is written for a member.
Each(f, x, inner) == IF to_cxx_typeName(f) THEN push(f.type, x) ELSE inner[<<f.type, x>>]
Every(f, v, inner) == [j \in DOMAIN v |-> Each(f, v[j], inner)]

LEMMA PushFieldDef ==
  ASSUME NEW known, NEW f, NEW v, NEW inner
  PROVE  pushField(known, f, v, inner) =
           LET packer == to_cxx_typeName(f) \/ f.type \in known
           IN IF is_array(f) THEN pushVectorValue(packer, FlattenSeq(Every(f, v, inner)), Len(v))
              ELSE IF ~packer THEN << >>
              ELSE IF is_fixed_array(f) THEN FlattenSeq(Every(f, v, inner))
              ELSE Each(f, v, inner)
BY DEF pushField, Every, Each

\* The messages that are written for the members of x have packets in inner.
Packed(tree, known, x, inner) ==
  \A y \in Members(tree, known, x) : inner[y] \in Seq(Byte)

LEMMA EachType ==
  ASSUME NEW tree, NEW known, NEW x, NEW inner, Packed(tree, known, x, inner),
         NEW i \in DOMAIN Fields(tree, x[1]), Fields(tree, x[1])[i] \in Line,
         to_cxx_typeName(Fields(tree, x[1])[i]) \/ Fields(tree, x[1])[i].type \in known,
         NEW some, x[2][i] \in Held(Fields(tree, x[1])[i], some)
  PROVE  /\ ~is_many(Fields(tree, x[1])[i]) => Each(Fields(tree, x[1])[i], x[2][i], inner) \in Seq(Byte)
         /\ is_many(Fields(tree, x[1])[i]) =>
              /\ Len(x[2][i]) \in Nat /\ DOMAIN x[2][i] = 1..Len(x[2][i])
              /\ Every(Fields(tree, x[1])[i], x[2][i], inner) \in [1..Len(x[2][i]) -> Seq(Byte)]
<1> DEFINE f == Fields(tree, x[1])[i]
           v == x[2][i]
<1>1. /\ is_array(f) => v \in Seq(Some(f, some)) /\ Len(v) < Full
      /\ ~is_array(f) /\ is_fixed_array(f) => v \in Seq(Some(f, some)) /\ Len(v) = f.dims
      /\ ~is_many(f) => v \in Some(f, some)
  BY HeldCases
<1>2. is_many(f) => v \in Seq(Some(f, some))
  BY <1>1 DEF is_many
<1>3. ASSUME to_cxx_typeName(f)
      PROVE  \A e \in Some(f, some) : Each(f, e, inner) \in Seq(Byte)
  <2>1. f.type \in Primitive /\ Some(f, some) = Values(f.type)
    BY <1>3 DEF to_cxx_typeName, Some
  <2> HIDE DEF f
  <2> QED
    BY <1>3, <2>1, PushType DEF Each
<1>4. ASSUME ~to_cxx_typeName(f)
      PROVE  /\ ~is_many(f) => Each(f, v, inner) \in Seq(Byte)
             /\ is_many(f) => \A e \in ToSet(v) : Each(f, e, inner) \in Seq(Byte)
  <2>1. f.type \in known
    BY <1>4
  <2>2. ~is_many(f) => <<f.type, v>> \in Members(tree, known, x)
    BY <1>4, <2>1 DEF Members
  <2>3. is_many(f) => \A e \in ToSet(v) : <<f.type, e>> \in Members(tree, known, x)
    BY <1>4, <2>1 DEF Members
  <2> QED
    BY <1>4, <2>2, <2>3 DEF Each, Packed
<1> HIDE DEF f, v
<1>5. ~is_many(f) => Each(f, v, inner) \in Seq(Byte)
  BY <1>1, <1>3, <1>4
<1>6. ASSUME is_many(f)
      PROVE  Len(v) \in Nat /\ DOMAIN v = 1..Len(v) /\ Every(f, v, inner) \in [1..Len(v) -> Seq(Byte)]
  <2>1. Len(v) \in Nat /\ DOMAIN v = 1..Len(v) /\ \A j \in 1..Len(v) : v[j] \in Some(f, some) /\ v[j] \in ToSet(v)
    BY <1>2, <1>6, LenProperties, ElementOfSeq, Elements
  <2>2. \A j \in 1..Len(v) : Each(f, v[j], inner) \in Seq(Byte)
    BY <1>3, <1>4, <1>6, <2>1
  <2> QED
    BY <2>1, <2>2 DEF Every
<1> QED
  BY <1>5, <1>6 DEF f, v

\* A member is written as bytes.
LEMMA PushFieldType ==
  ASSUME NEW tree, NEW known, NEW x, NEW inner, Packed(tree, known, x, inner),
         NEW i \in DOMAIN Fields(tree, x[1]), Fields(tree, x[1])[i] \in Line,
         NEW some, x[2][i] \in Held(Fields(tree, x[1])[i], some)
  PROVE  pushField(known, Fields(tree, x[1])[i], x[2][i], inner) \in Seq(Byte)
<1> DEFINE f == Fields(tree, x[1])[i]
           v == x[2][i]
           packer == to_cxx_typeName(f) \/ f.type \in known
<1>1. pushField(known, f, v, inner) =
        IF is_array(f) THEN pushVectorValue(packer, FlattenSeq(Every(f, v, inner)), Len(v))
        ELSE IF ~packer THEN << >>
        ELSE IF is_fixed_array(f) THEN FlattenSeq(Every(f, v, inner))
        ELSE Each(f, v, inner)
  BY PushFieldDef
<1>2. packer =>
        /\ ~is_many(f) => Each(f, v, inner) \in Seq(Byte)
        /\ is_many(f) => Len(v) \in Nat /\ Every(f, v, inner) \in [1..Len(v) -> Seq(Byte)]
  BY EachType
<1> HIDE DEF f, v, packer
<1>3. packer /\ is_many(f) => FlattenSeq(Every(f, v, inner)) \in Seq(Byte) /\ WordOf(Len(v)) \in Seq(Byte)
  BY <1>2, Pieces, WordType
<1>4. << >> \in Seq(Byte)
  BY EmptySeq
<1>5. packer /\ is_many(f) => WordOf(Len(v)) \o FlattenSeq(Every(f, v, inner)) \in Seq(Byte)
  BY <1>3, ConcatProperties
<1>6. CASE ~packer
  BY <1>1, <1>4, <1>6 DEF pushVectorValue, f, v
<1>7. CASE packer
  BY <1>1, <1>2, <1>3, <1>5, <1>7 DEF pushVectorValue, is_many, f, v
<1> QED
  BY <1>6, <1>7

\* The packet of a message: its members', one after the other.
Written(tree, known, x, inner) ==
  [i \in 1..Len(Fields(tree, x[1])) |-> pushField(known, Fields(tree, x[1])[i], x[2][i], inner)]

LEMMA PushMsgType ==
  ASSUME NEW tree, IsTree(tree), NEW known, NEW x, NEW inner, Packed(tree, known, x, inner),
         NEW some, x[2] \in MsgOf(tree, x[1], some)
  PROVE  /\ Len(Fields(tree, x[1])) \in Nat /\ DOMAIN Fields(tree, x[1]) = 1..Len(Fields(tree, x[1]))
         /\ pushMsg(tree, known, x, inner) = FlattenSeq(Written(tree, known, x, inner))
         /\ Written(tree, known, x, inner) \in [1..Len(Fields(tree, x[1])) -> Seq(Byte)]
         /\ pushMsg(tree, known, x, inner) \in Seq(Byte)
<1>1. Len(Fields(tree, x[1])) \in Nat /\ DOMAIN Fields(tree, x[1]) = 1..Len(Fields(tree, x[1]))
  BY FieldsType, LenProperties
<1>2. pushMsg(tree, known, x, inner) = FlattenSeq(Written(tree, known, x, inner))
  BY <1>1 DEF pushMsg, Written
<1>3. \A i \in 1..Len(Fields(tree, x[1])) :
        pushField(known, Fields(tree, x[1])[i], x[2][i], inner) \in Seq(Byte)
  <2> SUFFICES ASSUME NEW i \in DOMAIN Fields(tree, x[1])
               PROVE  pushField(known, Fields(tree, x[1])[i], x[2][i], inner) \in Seq(Byte)
    BY <1>1
  <2>1. x[2][i] \in Held(Fields(tree, x[1])[i], some)
    BY MsgOfDef
  <2>2. Fields(tree, x[1])[i] \in Line
    BY FieldType
  <2> QED
    BY <2>1, <2>2, PushFieldType
<1>4. Written(tree, known, x, inner) \in [1..Len(Fields(tree, x[1])) -> Seq(Byte)]
  BY <1>3 DEF Written
<1> QED
  BY <1>1, <1>2, <1>4, Pieces

\* A packet consists of bytes.
LEMMA PacketType ==
  ASSUME NEW tree, IsTree(tree), NEW known, NEW t \in Mentioned(tree), NEW m \in Msgs(tree)[Levels][t],
         NEW packet, PacketLevels(packet, tree, known, t, m)
  PROVE  \A d \in 0..Levels : \A x \in Within(tree, known, t, m)[Levels - d] : packet[d][x] \in Seq(Byte)
<1> DEFINE W == Within(tree, known, t, m)
           T == {d \in 0..Levels : \A x \in W[Levels - d] : packet[d][x] \in Seq(Byte)}
<1>1. 0 \in T
  <2>1. packet[0] = [x \in W[Levels - 0] |-> << >>]
    BY DEF PacketLevels
  <2>2. \A x \in W[Levels - 0] : packet[0][x] \in Seq(Byte)
    BY <2>1, EmptySeq
  <2> QED
    BY <2>2, TypesAssumption
<1>2. \A d \in 0..(Levels - 1) : d \in T => d + 1 \in T
  <2> SUFFICES ASSUME NEW d \in 0..(Levels - 1), d \in T
               PROVE  d + 1 \in T
    OBVIOUS
  <2> DEFINE k == Levels - (d + 1)
  <2>0. /\ d + 1 \in 0..Levels /\ k \in 0..(Levels - 1) /\ k \in 0..Levels
        /\ k + 1 = Levels - d /\ Levels - k = d + 1
    BY TypesAssumption
  <2> SUFFICES ASSUME NEW x \in W[k]
               PROVE  packet[d + 1][x] \in Seq(Byte)
    BY <2>0
  <2>1. packet[d + 1][x] = pushMsg(tree, known, x, packet[d])
    BY DEF PacketLevels
  <2>2. x[1] \in Mentioned(tree) /\ x[2] \in Msgs(tree)[d + 1][x[1]]
    BY <2>0, WithinMsgs
  <2>3. x[2] \in MsgOf(tree, x[1], Msgs(tree)[d])
    BY <2>2, MsgsDef
  <2>4. Packed(tree, known, x, packet[d])
    <3>1. Members(tree, known, x) \subseteq W[k + 1]
      BY <2>0, WithinDef
    <3> QED
      BY <2>0, <3>1 DEF Packed
  <2>5. pushMsg(tree, known, x, packet[d]) \in Seq(Byte)
    BY <2>3, <2>4, PushMsgType
  <2> QED
    BY <2>1, <2>5
<1>3. \A d \in 0..Levels : d \in T
  <2> HIDE DEF T
  <2> QED
    BY <1>1, <1>2, TypesAssumption, Induction
<1> QED
  BY <1>3

LEMMA toPacketType ==
  ASSUME NEW tree, IsTree(tree), NEW known, NEW t \in Mentioned(tree), NEW m \in Msgs(tree)[Levels][t]
  PROVE  toPacket(tree, known, t, m) \in Seq(Byte)
<1>1. PICK packet :
        /\ toPacket(tree, known, t, m) = packet[Levels][<<t, m>>]
        /\ PacketLevels(packet, tree, known, t, m)
  BY toPacketDef
<1>2. \A d \in 0..Levels : \A x \in Within(tree, known, t, m)[Levels - d] : packet[d][x] \in Seq(Byte)
  BY <1>1, PacketType
<1>3. Levels \in 0..Levels /\ Levels - Levels = 0 /\ <<t, m>> \in Within(tree, known, t, m)[0]
  BY WithinDef, TypesAssumption
<1> QED
  BY <1>1, <1>2, <1>3

-----------------------------------------------------------------------------
(***************************************************************************)
(* What a default constructor makes, and what is read of one value,        *)
(* wherever in a packet reading begins.                                    *)
(***************************************************************************)
\* What a default constructor makes is a message.
LEMMA BlankOfType ==
  ASSUME NEW type \in Primitive
  PROVE  BlankOf(type) \in Values(type)
<1>1. Base \in Nat /\ Base > 0
  BY CodecAssumption
<1>2. Full \in Nat /\ Full > 0
  BY FullType
<1>3. CASE type = "uint8"
  BY <1>1, <1>3 DEF BlankOf, Values, Byte, Words, Floats
<1>4. CASE type \in Words
  BY <1>2, <1>4, WordTypes DEF BlankOf
<1>5. CASE type = "string"
  <2>1. << >> \in Seq(Byte) /\ Len(<< >>) = 0
    BY EmptySeq
  <2>2. << >> \in {s \in Seq(Byte) : 2 * Len(s) < Full}
    BY <1>2, <2>1
  <2> QED
    BY <1>5, <2>2 DEF BlankOf, Values
<1>6. CASE type = "time"
  BY <1>2, <1>6 DEF BlankOf, Values
<1> QED
  BY <1>3, <1>4, <1>5, <1>6 DEF Primitive

LEMMA BlankType ==
  ASSUME NEW tree, IsTree(tree)
  PROVE  \A d \in 0..Levels : \A t \in Mentioned(tree) : Blanks(tree)[d][t] \in Msgs(tree)[d][t]
<1> DEFINE T == {d \in 0..Levels : \A t \in Mentioned(tree) : Blanks(tree)[d][t] \in Msgs(tree)[d][t]}
<1>1. 0 \in T
  BY BlanksDef, MsgsDef, TypesAssumption
<1>2. \A d \in 0..(Levels - 1) : d \in T => d + 1 \in T
  <2> SUFFICES ASSUME NEW d \in 0..(Levels - 1), d \in T
               PROVE  d + 1 \in T
    OBVIOUS
  <2>0. d + 1 \in 0..Levels
    BY TypesAssumption
  <2> SUFFICES ASSUME NEW t \in Mentioned(tree)
               PROVE  Blanks(tree)[d + 1][t] \in Msgs(tree)[d + 1][t]
    BY <2>0
  <2> DEFINE b == BlankMsg(tree, t, Blanks(tree)[d])
  <2>1. Blanks(tree)[d + 1][t] = b
    BY BlanksDef
  <2>2. DOMAIN b = DOMAIN Fields(tree, t) /\ b = [i \in DOMAIN b |-> b[i]]
    BY DEF BlankMsg
  <2>3. ASSUME NEW i \in DOMAIN Fields(tree, t)
        PROVE  b[i] \in Held(Fields(tree, t)[i], Msgs(tree)[d])
    <3> DEFINE f == Fields(tree, t)[i]
               one == IF to_cxx_typeName(f) THEN BlankOf(f.type) ELSE Blanks(tree)[d][f.type]
    <3>1. b[i] = IF is_array(f) THEN << >>
                 ELSE IF is_fixed_array(f) THEN [j \in 1..f.dims |-> one]
                 ELSE one
      BY DEF BlankMsg
    <3>2. f \in Line /\ (~to_cxx_typeName(f) => f.type \in Mentioned(tree))
      BY FieldType
    <3>3. one \in Some(f, Msgs(tree)[d])
      BY <2>0, <3>2, BlankOfType DEF Some, to_cxx_typeName
    <3> HIDE DEF f, one, b
    <3>4. << >> \in Seq(Some(f, Msgs(tree)[d])) /\ Len(<< >>) < Full
      BY EmptySeq, FullType
    <3> QED
      BY <3>1, <3>3, <3>4 DEF Held, f
  <2> HIDE DEF b
  <2> QED
    BY <2>1, <2>2, <2>3, MsgsStep
<1>3. \A d \in 0..Levels : d \in T
  <2> HIDE DEF T
  <2> QED
    BY <1>1, <1>2, TypesAssumption, Induction
<1> QED
  BY <1>3

-----------------------------------------------------------------------------
\* What reading from a place in the packet comes to.
IsRead(r, at, bytes) ==
  /\ r = [val |-> r.val, at |-> r.at, ok |-> r.ok, threw |-> r.threw]
  /\ r.at \in at..Len(bytes)
  /\ r.ok \in BOOLEAN /\ r.threw \in BOOLEAN /\ ~(r.ok /\ r.threw)
ReadOf(r, at, bytes, S) == IsRead(r, at, bytes) /\ (r.ok => r.val \in S)
\* A packer that reads on whatever it finds: it ends or throws.
Finished(r, at, bytes, S) == ReadOf(r, at, bytes, S) /\ (r.ok <=> ~r.threw)

LEMMA popNumberType ==
  ASSUME NEW bytes \in Seq(Byte), NEW at \in 0..Len(bytes), NEW width \in 1..WordBytes
  PROVE  ReadOf(popNumber(bytes, at, width), at, bytes, 0..(Weight[width] - 1))
<1>0. Len(bytes) \in Nat /\ WordBytes \in Nat
  BY LenProperties, CodecAssumption
<1>1. CASE Len(bytes) < at + width
  BY <1>0, <1>1 DEF popNumber, Failed, ReadOf, IsRead
<1>2. CASE ~(Len(bytes) < at + width)
  <2>1. /\ SubSeq(bytes, at + 1, at + width) \in Seq(Byte)
        /\ Len(SubSeq(bytes, at + 1, at + width)) = width
    <3>1. \A i \in (at + 1)..(at + width) : bytes[i] \in Byte
      <4>1. \A i \in (at + 1)..(at + width) : i \in 1..Len(bytes)
        BY <1>0, <1>2
      <4> QED
        BY <4>1, ElementOfSeq
    <3>2. at + 1 \in Int /\ at + width \in Int /\ at + 1 <= at + width /\ (at + width) - (at + 1) + 1 = width
      BY <1>0
    <3> QED
      BY <3>1, <3>2, SubSeqProperties
  <2>2. Number(SubSeq(bytes, at + 1, at + width)) \in 0..(Weight[width] - 1)
    <3> DEFINE s == SubSeq(bytes, at + 1, at + width)
    <3>1. s \in Seq(Byte) /\ Len(s) = width /\ Len(s) <= WordBytes
      BY <1>0, <2>1
    <3> HIDE DEF s
    <3>2. Number(s) \in 0..(Weight[Len(s)] - 1)
      BY <3>1, NumberType
    <3>3. Number(s) \in 0..(Weight[width] - 1)
      BY <3>1, <3>2
    <3> QED
      BY <3>3 DEF s
  <2>3. popNumber(bytes, at, width) = Got(Number(SubSeq(bytes, at + 1, at + width)), at + width)
    BY <1>2 DEF popNumber
  <2>4. at + width \in at..Len(bytes)
    BY <1>0, <1>2
  <2> QED
    BY <2>2, <2>3, <2>4 DEF Got, ReadOf, IsRead
<1> QED
  BY <1>1, <1>2

LEMMA popStringType ==
  ASSUME NEW bytes \in Seq(Byte), NEW at \in 0..Len(bytes), NEW head,
         ReadOf(head, at, bytes, 0..(Full - 1)), head.ok => head.at = at + WordBytes
  PROVE  ReadOf(popString(bytes, head), at, bytes, Values("string"))
<1> DEFINE end == head.at + Signed(head.val)
<1>0. Len(bytes) \in Nat /\ Full \in Nat
  BY LenProperties, FullType
<1>1. /\ IsRead(head, at, bytes) /\ (head.ok => head.val \in 0..(Full - 1))
      /\ head.at \in at..Len(bytes) /\ head.at \in Nat
  BY <1>0 DEF ReadOf, IsRead
<1>2. CASE ~head.ok
  <2>1. popString(bytes, head) = head
    BY <1>2 DEF popString
  <2> QED
    BY <1>1, <1>2, <2>1 DEF ReadOf
<1>3. CASE head.ok /\ (end \notin 0..Len(bytes) \/ end < head.at)
  <2>1. popString(bytes, head) = Failed(head.at - WordBytes) \/ popString(bytes, head) = Threw(head.at)
    BY <1>3 DEF popString
  <2>2. ReadOf(Failed(head.at - WordBytes), at, bytes, Values("string"))
    <3>1. head.at - WordBytes = at /\ at \in at..Len(bytes)
      BY <1>0, <1>3, CodecAssumption
    <3> QED
      BY <3>1 DEF Failed, ReadOf, IsRead
  <2>3. ReadOf(Threw(head.at), at, bytes, Values("string"))
    BY <1>1 DEF Threw, ReadOf, IsRead
  <2> QED
    BY <2>1, <2>2, <2>3
<1>4. CASE head.ok /\ end \in 0..Len(bytes) /\ ~(end < head.at)
  <2> DEFINE s == SubSeq(bytes, head.at + 1, end)
             n == head.val
  <2>1. popString(bytes, head) = Got(s, end)
    BY <1>4 DEF popString
  <2>2. n \in 0..(Full - 1) /\ Signed(n) \in Int /\ Signed(n) >= 0
    BY <1>0, <1>1, <1>4 DEF Signed
  <2>3. 2 * n < Full /\ Signed(n) = n
    BY <1>0, <2>2 DEF Signed
  <2>4. end = head.at + n /\ end \in at..Len(bytes) /\ end \in Int
    BY <1>1, <1>4, <2>2, <2>3
  <2>5. s \in Seq(Byte) /\ Len(s) = n
    <3>1. \A i \in (head.at + 1)..end : bytes[i] \in Byte
      <4>1. \A i \in (head.at + 1)..end : i \in 1..Len(bytes)
        BY <1>0, <1>1, <2>4
      <4> QED
        BY <4>1, ElementOfSeq
    <3>2. head.at + 1 \in Int /\ (IF head.at + 1 <= end THEN end - (head.at + 1) + 1 ELSE 0) = n
      BY <1>1, <2>2, <2>4
    <3> QED
      BY <2>4, <3>1, <3>2, SubSeqProperties
  <2> HIDE DEF s, end
  <2>6. s \in Values("string")
    BY <2>3, <2>5 DEF Values
  <2> QED
    BY <2>1, <2>4, <2>6 DEF Got, ReadOf, IsRead
<1> QED
  BY <1>2, <1>3, <1>4

\* What a primitive type's value is read as.
LEMMA popType ==
  ASSUME NEW bytes \in Seq(Byte), NEW at \in 0..Len(bytes), NEW type \in Primitive
  PROVE  ReadOf(pop(type, bytes, at), at, bytes, Values(type))
<1> DEFINE word == popNumber(bytes, at, WordBytes)
<1>0. WordBytes \in 1..WordBytes /\ 1 \in 1..WordBytes /\ Len(bytes) \in Nat
  BY CodecAssumption, LenProperties
<1>1. ReadOf(word, at, bytes, 0..(Full - 1)) /\ (word.ok => word.at = at + WordBytes)
  BY <1>0, popNumberType DEF Full, popNumber, Got, Failed
<1>2. CASE type = "uint8"
  <2>1. Weight[1] = Base
    <3>1. 0 \in 0..(WordBytes - 1) /\ 0 + 1 = 1 /\ Base * 1 = Base
      BY CodecAssumption
    <3> QED
      BY <3>1, WeightDef
  <2>2. ReadOf(popNumber(bytes, at, 1), at, bytes, Byte)
    BY <1>0, <2>1, popNumberType DEF Byte
  <2> QED
    BY <1>2, <2>2 DEF pop, Values, Words, Floats
<1>3. CASE type \in Words
  BY <1>1, <1>3, WordTypes DEF pop
<1>4. CASE type = "string"
  <2>1. ReadOf(popString(bytes, word), at, bytes, Values("string"))
    BY <1>1, popStringType
  <2> QED
    BY <1>4, <2>1 DEF pop
<1>5. CASE type = "time"
  <2> DEFINE more == popNumber(bytes, word.at, WordBytes)
  <2>1. word.at \in 0..Len(bytes) /\ word.at \in at..Len(bytes)
    BY <1>0, <1>1 DEF ReadOf, IsRead
  <2>2. ReadOf(more, word.at, bytes, 0..(Full - 1))
    BY <1>0, <2>1, popNumberType DEF Full
  <2>3. ReadOf(more, at, bytes, 0..(Full - 1))
    BY <1>0, <2>1, <2>2 DEF ReadOf, IsRead
  <2>4. pop(type, bytes, at) = popTime(word, more)
    BY <1>5 DEF pop
  <2> HIDE DEF word, more
  <2>5. CASE ~word.ok
    BY <1>1, <1>5, <2>4, <2>5 DEF popTime, ReadOf
  <2>6. CASE word.ok /\ ~more.ok
    BY <2>3, <1>5, <2>4, <2>6 DEF popTime, ReadOf
  <2>7. CASE word.ok /\ more.ok
    <3>1. pop(type, bytes, at) = Got(<<word.val, more.val>>, more.at)
      BY <2>4, <2>7 DEF popTime
    <3>2. <<word.val, more.val>> \in Values("time")
      BY <1>1, <2>3, <2>7 DEF ReadOf, Values
    <3>3. more.at \in at..Len(bytes)
      BY <2>3 DEF ReadOf, IsRead
    <3> DEFINE v == <<word.val, more.val>>
    <3> HIDE DEF v
    <3>4. ReadOf(Got(v, more.at), at, bytes, Values("time"))
      BY <3>2, <3>3 DEF Got, ReadOf, IsRead, v
    <3> QED
      BY <1>5, <3>1, <3>4 DEF v
  <2> QED
    BY <2>5, <2>6, <2>7
<1> QED
  BY <1>2, <1>3, <1>4, <1>5 DEF Primitive

-----------------------------------------------------------------------------
(***************************************************************************)
(* What is read of arrays and of messages: a message of the type, and no   *)
(* byte beyond the packet's end, whether reading fails, throws or          *)
(* succeeds.                                                               *)
(***************************************************************************)
\* What has been read of an array's elements.
ManyRead(r, at, bytes, S, n) ==
  /\ IsRead(r, at, bytes) /\ r.val \in Seq(S) /\ Len(r.val) <= n
  /\ r.ok => Len(r.val) = n

LEMMA popManyType ==
  ASSUME NEW bytes \in Seq(Byte), NEW at \in 0..Len(bytes), NEW number \in Nat, NEW field, NEW inner,
         NEW S, \A a \in 0..Len(bytes) : ReadOf(popOne(field, inner, bytes, a), a, bytes, S)
  PROVE  ManyRead(popMany(number, field, inner, bytes, at), at, bytes, S, number)
<1>0. Len(bytes) \in Nat
  BY LenProperties
<1>1. PICK many :
        /\ popMany(number, field, inner, bytes, at) = many[number]
        /\ ElementsRead(many, number, field, inner, bytes, at)
  BY popManyDef
<1> DEFINE T == {j \in 0..number : ManyRead(many[j], at, bytes, S, j)}
<1>2. 0 \in T
  <2>1. << >> \in Seq(S) /\ Len(<< >>) = 0
    BY EmptySeq
  <2> DEFINE e == << >>
  <2> HIDE DEF e
  <2>2. ManyRead(Got(e, at), at, bytes, S, 0)
    BY <1>0, <2>1 DEF Got, ManyRead, IsRead, e
  <2> QED
    BY <1>1, <2>2 DEF e, ElementsRead
<1>3. \A j \in 0..(number - 1) : j \in T => j + 1 \in T
  <2> SUFFICES ASSUME NEW j \in 0..(number - 1), ManyRead(many[j], at, bytes, S, j)
               PROVE  j + 1 \in T
    OBVIOUS
  <2> DEFINE a == many[j]
             one == popOne(field, inner, bytes, a.at)
  <2>1. /\ IsRead(a, at, bytes) /\ a.val \in Seq(S) /\ Len(a.val) <= j /\ Len(a.val) \in Nat
        /\ (a.ok => Len(a.val) = j) /\ a.at \in at..Len(bytes) /\ a.at \in 0..Len(bytes)
    BY <1>0, LenProperties DEF ManyRead, IsRead
  <2>2. ReadOf(one, a.at, bytes, S)
    BY <2>1
  <2>3. many[j + 1] = IF a.ok THEN Extended(a, one) ELSE a
    BY <1>1 DEF ElementsRead
  <2>4. j + 1 \in 0..number
    OBVIOUS
  <2> HIDE DEF a, one, T
  <2>5. CASE ~a.ok
    <3>1. ManyRead(a, at, bytes, S, j + 1)
      BY <2>1, <2>5 DEF ManyRead
    <3> QED
      BY <2>3, <2>4, <2>5, <3>1 DEF T
  <2>6. CASE a.ok
    <3> DEFINE val == IF one.ok THEN Append(a.val, one.val) ELSE a.val
    <3>1. val \in Seq(S) /\ Len(val) <= j + 1 /\ (one.ok => Len(val) = j + 1)
      <4>1. one.ok => Append(a.val, one.val) \in Seq(S) /\ Len(Append(a.val, one.val)) = Len(a.val) + 1
        BY <2>1, <2>2, AppendProperties DEF ReadOf
      <4> QED
        BY <2>1, <2>6, <4>1
    <3> HIDE DEF val
    <3>2. Extended(a, one) = [val |-> val, at |-> one.at, ok |-> one.ok, threw |-> one.threw]
      BY <2>2 DEF Extended, Joined, ReadOf, IsRead, val
    <3>3. one.at \in at..Len(bytes) /\ one.ok \in BOOLEAN /\ one.threw \in BOOLEAN /\ ~(one.ok /\ one.threw)
      BY <1>0, <2>1, <2>2 DEF ReadOf, IsRead
    <3>4. ManyRead(Extended(a, one), at, bytes, S, j + 1)
      BY <3>1, <3>2, <3>3 DEF ManyRead, IsRead
    <3> QED
      BY <2>3, <2>4, <2>6, <3>4 DEF T
  <2> QED
    BY <2>5, <2>6
<1>4. \A j \in 0..number : j \in T
  <2> HIDE DEF T
  <2> QED
    BY <1>2, <1>3, Induction
<1> QED
  BY <1>1, <1>4

\* What the packers of the members' types do, from any place of the packet.
Reads(tree, bytes, inner, msgs) ==
  \A u \in Mentioned(tree) : \A a \in 0..Len(bytes) :
    Finished(inner[<<u, a>>], a, bytes, msgs[u])

LEMMA popOneType ==
  ASSUME NEW tree, NEW bytes \in Seq(Byte), NEW inner, NEW msgs, Reads(tree, bytes, inner, msgs),
         NEW f, ~to_cxx_typeName(f) => f.type \in Mentioned(tree), NEW a \in 0..Len(bytes)
  PROVE  ReadOf(popOne(f, inner, bytes, a), a, bytes, Some(f, msgs))
<1>1. CASE to_cxx_typeName(f)
  BY <1>1, popType DEF popOne, Some, to_cxx_typeName
<1>2. CASE ~to_cxx_typeName(f)
  BY <1>2 DEF popOne, Some, Reads, Finished
<1> QED
  BY <1>1, <1>2

\* A member is what it was, or what was read.
LEMMA KeptType ==
  ASSUME NEW r, NEW at, NEW bytes, IsRead(r, at, bytes), NEW val, NEW S, val \in S
  PROVE  Finished(Kept(r, val), at, bytes, S)
<1>1. r.at \in at..Len(bytes) /\ r.threw \in BOOLEAN
  BY DEF IsRead
<1>2. Kept(r, val) = [val |-> val, at |-> r.at, ok |-> ~r.threw, threw |-> r.threw]
  BY DEF Kept
<1>3. CASE r.threw = TRUE
  <2>1. Kept(r, val) = [val |-> val, at |-> r.at, ok |-> FALSE, threw |-> TRUE]
    BY <1>2, <1>3
  <2> QED
    BY <1>1, <2>1 DEF Finished, ReadOf, IsRead
<1>4. CASE r.threw = FALSE
  <2>1. Kept(r, val) = [val |-> val, at |-> r.at, ok |-> TRUE, threw |-> FALSE]
    BY <1>2, <1>4
  <2> QED
    BY <1>1, <2>1 DEF Finished, ReadOf, IsRead
<1> QED
  BY <1>1, <1>3, <1>4

LEMMA popFieldType ==
  ASSUME NEW tree, NEW known, NEW bytes \in Seq(Byte), NEW inner, NEW msgs, Reads(tree, bytes, inner, msgs),
         NEW f \in Line, ~to_cxx_typeName(f) => f.type \in Mentioned(tree), NEW at \in 0..Len(bytes),
         NEW blank \in Held(f, msgs)
  PROVE  Finished(popField(known, f, blank, inner, bytes, at), at, bytes, Held(f, msgs))
<1> DEFINE S == Some(f, msgs)
           size == popNumber(bytes, at, WordBytes)
           one == popOne(f, inner, bytes, at)
<1>0. /\ Len(bytes) \in Nat
      /\ \A a \in 0..Len(bytes) : ReadOf(popOne(f, inner, bytes, a), a, bytes, S)
  BY LenProperties, popOneType
<1>1. Finished(Got(blank, at), at, bytes, Held(f, msgs))
  BY <1>0 DEF Got, Finished, ReadOf, IsRead
<1>2. ReadOf(size, at, bytes, 0..(Full - 1))
  <2>1. WordBytes \in 1..WordBytes
    BY CodecAssumption
  <2> QED
    BY <2>1, popNumberType DEF Full
<1>3. ReadOf(one, at, bytes, S)
  BY <1>0
<1>4. CASE ~to_cxx_typeName(f) /\ f.type \notin known
  <2>1. popField(known, f, blank, inner, bytes, at) = Got(blank, at)
    BY <1>4 DEF popField
  <2> QED
    BY <1>1, <2>1
<1>5. CASE (to_cxx_typeName(f) \/ f.type \in known) /\ is_array(f)
  <2> DEFINE many == popMany(size.val, f, inner, bytes, size.at)
  <2>1. popField(known, f, blank, inner, bytes, at) = IF size.ok THEN KeptVector(many) ELSE Got(blank, at)
    BY <1>5 DEF popField
  <2>2. ASSUME size.ok
        PROVE  Finished(KeptVector(many), at, bytes, Held(f, msgs))
    <3>1. size.val \in 0..(Full - 1) /\ size.at \in at..Len(bytes) /\ size.at \in 0..Len(bytes)
      BY <1>0, <1>2, <2>2 DEF ReadOf, IsRead
    <3>2. size.val \in Nat /\ size.val < Full
      BY <3>1, FullType
    <3> HIDE DEF size, S
    <3>3. ManyRead(many, size.at, bytes, S, size.val)
      BY <1>0, <3>1, <3>2, popManyType
    <3> HIDE DEF many
    <3>4. IsRead(many, at, bytes)
      BY <1>0, <3>1, <3>3 DEF ManyRead, IsRead
    <3>5. many.val \in Seq(S) /\ Len(many.val) < Full
      BY <3>2, <3>3, FullType, LenProperties DEF ManyRead
    <3>6. many.val \in Held(f, msgs)
      BY <1>5, <3>5 DEF Held, S
    <3> QED
      BY <3>4, <3>6, KeptType DEF KeptVector
  <2> HIDE DEF many
  <2> QED
    BY <1>1, <2>1, <2>2
<1>6. CASE (to_cxx_typeName(f) \/ f.type \in known) /\ ~is_array(f) /\ is_fixed_array(f)
  <2> DEFINE many == popMany(f.dims, f, inner, bytes, at)
             val == [i \in DOMAIN blank |-> IF i <= Len(many.val) THEN many.val[i] ELSE blank[i]]
  <2>1. popField(known, f, blank, inner, bytes, at) = Kept(many, val)
    BY <1>6 DEF popField, KeptArray
  <2>2. f.dims \in Nat /\ blank \in [1..f.dims -> S]
    BY <1>6, HeldCases
  <2> HIDE DEF S
  <2>3. ManyRead(many, at, bytes, S, f.dims)
    BY <1>0, <2>2, popManyType
  <2> HIDE DEF many
  <2>4. val \in [1..f.dims -> S]
    <3>1. many.val \in Seq(S) /\ Len(many.val) \in Nat
      BY <2>3, LenProperties DEF ManyRead
    <3>2. \A i \in 1..f.dims : i <= Len(many.val) => many.val[i] \in S
      <4>1. \A i \in 1..f.dims : i <= Len(many.val) => i \in 1..Len(many.val)
        BY <3>1, <2>2
      <4> QED
        BY <3>1, <4>1, ElementOfSeq
    <3> QED
      BY <2>2, <3>2
  <2> HIDE DEF val
  <2>5. val \in Held(f, msgs)
    BY <1>6, <2>4 DEF Held, S
  <2>6. IsRead(many, at, bytes)
    BY <2>3 DEF ManyRead
  <2> QED
    BY <2>1, <2>5, <2>6, KeptType
<1>7. CASE (to_cxx_typeName(f) \/ f.type \in known) /\ ~is_many(f)
  <2>1. popField(known, f, blank, inner, bytes, at) = Kept(one, IF one.ok THEN one.val ELSE blank)
    BY <1>7 DEF popField, is_many, KeptOne
  <2>2. blank \in S
    BY <1>7, HeldCases
  <2> HIDE DEF one
  <2>3. (IF one.ok THEN one.val ELSE blank) \in S /\ Held(f, msgs) = S
    BY <1>3, <1>7, <2>2 DEF ReadOf, Held, is_many
  <2>4. IsRead(one, at, bytes)
    BY <1>3 DEF ReadOf
  <2> QED
    BY <2>1, <2>3, <2>4, KeptType
<1> QED
  BY <1>4, <1>5, <1>6, <1>7 DEF is_many

\* A message is read member by member.
LEMMA popMsgType ==
  ASSUME NEW tree, IsTree(tree), NEW known, NEW bytes \in Seq(Byte), NEW inner, NEW msgs,
         Reads(tree, bytes, inner, msgs), NEW t \in Mentioned(tree), NEW at \in 0..Len(bytes),
         NEW blank \in MsgOf(tree, t, msgs)
  PROVE  Finished(popMsg(tree, known, t, blank, inner, bytes, at), at, bytes, MsgOf(tree, t, msgs))
<1> DEFINE n == Len(Fields(tree, t))
           F(i) == Fields(tree, t)[i]
           AnyHeld == UNION {Held(F(i), msgs) : i \in 1..n}
<1>0. n \in Nat /\ DOMAIN Fields(tree, t) = 1..n /\ Len(bytes) \in Nat
  BY FieldsType, LenProperties
<1>1. PICK member :
        /\ popMsg(tree, known, t, blank, inner, bytes, at) = member[n]
        /\ MembersRead(member, tree, known, t, blank, inner, bytes, at)
  BY <1>0, popMsgDef
<1>2. \A i \in 1..n : /\ F(i) \in Line /\ (~to_cxx_typeName(F(i)) => F(i).type \in Mentioned(tree))
                      /\ blank[i] \in Held(F(i), msgs)
  BY <1>0, FieldType, MsgOfDef
<1> DEFINE Sound(r, i) ==
             /\ IsRead(r, at, bytes) /\ (r.ok <=> ~r.threw)
             /\ r.ok => r.val \in Seq(AnyHeld) /\ Len(r.val) = i /\ \A j \in 1..i : r.val[j] \in Held(F(j), msgs)
           T == {i \in 0..n : Sound(member[i], i)}
<1>3. 0 \in T
  <2>1. member[0] = Got(<< >>, at)
    BY <1>1 DEF MembersRead
  <2>2. << >> \in Seq(AnyHeld) /\ Len(<< >>) = 0
    BY EmptySeq
  <2> DEFINE e == << >>
  <2> HIDE DEF e, AnyHeld
  <2>3. Sound(Got(e, at), 0)
    BY <1>0, <2>2 DEF Got, IsRead, e
  <2> QED
    BY <1>0, <2>1, <2>3 DEF e
<1>4. \A i \in 0..(n - 1) : i \in T => i + 1 \in T
  <2> SUFFICES ASSUME NEW i \in 0..(n - 1), Sound(member[i], i)
               PROVE  i + 1 \in T
    BY <1>0
  <2> DEFINE a == member[i]
             r == popField(known, F(i + 1), blank[i + 1], inner, bytes, a.at)
  <2>0. i + 1 \in 0..n /\ i + 1 \in 1..n
    BY <1>0
  <2>1. member[i + 1] = IF a.threw THEN a ELSE Joined(a, r)
    BY <1>1 DEF MembersRead
  <2>2. Sound(a, i)
    OBVIOUS
  <2>3. a.at \in at..Len(bytes) /\ a.at \in 0..Len(bytes) /\ a.at \in Nat
    BY <1>0, <2>2 DEF IsRead
  <2>4. Finished(r, a.at, bytes, Held(F(i + 1), msgs))
    BY <1>2, <2>0, <2>3, popFieldType
  <2> HIDE DEF a, r, T, AnyHeld, F
  <2>5. CASE a.threw
    <3>1. Sound(a, i + 1)
      BY <2>2, <2>5 DEF IsRead
    <3> QED
      BY <2>0, <2>1, <2>5, <3>1 DEF T
  <2>6. CASE ~a.threw
    <3>1. a.val \in Seq(AnyHeld) /\ Len(a.val) = i /\ \A j \in 1..i : a.val[j] \in Held(F(j), msgs)
      BY <2>2, <2>6
    <3> DEFINE val == Append(a.val, r.val)
    <3>2. ASSUME r.ok
          PROVE  val \in Seq(AnyHeld) /\ Len(val) = i + 1 /\ \A j \in 1..(i + 1) : val[j] \in Held(F(j), msgs)
      <4>1. r.val \in Held(F(i + 1), msgs)
        BY <2>4, <3>2 DEF Finished, ReadOf
      <4>2. r.val \in AnyHeld
        BY <2>0, <4>1 DEF AnyHeld
      <4>3. val \in Seq(AnyHeld) /\ Len(val) = i + 1 /\ val[i + 1] = r.val /\ \A j \in 1..i : val[j] = a.val[j]
        BY <3>1, <4>2, AppendProperties
      <4>4. \A j \in 1..(i + 1) : j \in 1..i \/ j = i + 1
        OBVIOUS
      <4> HIDE DEF val
      <4>5. ASSUME NEW j \in 1..(i + 1)
            PROVE  val[j] \in Held(F(j), msgs)
        <5>1. CASE j \in 1..i
          BY <3>1, <4>3, <5>1
        <5>2. CASE j = i + 1
          BY <4>1, <4>3, <5>2
        <5> QED
          BY <4>4, <5>1, <5>2
      <4> QED
        BY <4>3, <4>5
    <3> HIDE DEF val
    <3>0. r = [val |-> r.val, at |-> r.at, ok |-> r.ok, threw |-> r.threw]
      BY <2>4 DEF Finished, ReadOf, IsRead
    <3>3. Joined(a, r) = [val |-> val, at |-> r.at, ok |-> r.ok, threw |-> r.threw]
      <4> DEFINE v == r.val
                 p == r.at
                 o == r.ok
                 h == r.threw
      <4>1. r = [val |-> v, at |-> p, ok |-> o, threw |-> h]
        BY <3>0
      <4> HIDE DEF v, p, o, h
      <4>2. \A w : [r EXCEPT !.val = w] = [val |-> w, at |-> p, ok |-> o, threw |-> h]
        BY <4>1
      <4> QED
        BY <4>2 DEF Joined, val, p, o, h
    <3>4. r.at \in at..Len(bytes) /\ r.ok \in BOOLEAN /\ r.threw \in BOOLEAN /\ (r.ok <=> ~r.threw)
      BY <1>0, <2>3, <2>4 DEF Finished, ReadOf, IsRead
    <3>5. Sound(Joined(a, r), i + 1)
      BY <3>2, <3>3, <3>4 DEF IsRead
    <3> QED
      BY <2>0, <2>1, <2>6, <3>5 DEF T
  <2> QED
    BY <2>5, <2>6
<1>5. n \in T
  <2>1. n \in 0..n
    BY <1>0
  <2> HIDE DEF T, n
  <2> QED
    BY <1>0, <1>3, <1>4, <2>1, Induction
<1> DEFINE r == member[n]
<1>6. Sound(r, n)
  BY <1>5
<1> HIDE DEF r, AnyHeld
<1>7. r.ok => r.val \in MsgOf(tree, t, msgs)
  <2> SUFFICES ASSUME r.ok
               PROVE  r.val \in MsgOf(tree, t, msgs)
    OBVIOUS
  <2>1. DOMAIN r.val = 1..n /\ r.val = [i \in 1..n |-> r.val[i]]
    BY <1>0, <1>6, LenProperties
  <2> QED
    BY <1>0, <1>6, <2>1, MsgOfDef
<1> QED
  BY <1>1, <1>6, <1>7 DEF Finished, ReadOf, r

\* What toMsg reads, from any place of the packet.
LEMMA LevelsReadType ==
  ASSUME NEW tree, IsTree(tree), NEW known, NEW bytes \in Seq(Byte), NEW read,
         LevelsRead(read, tree, known, bytes)
  PROVE  \A d \in 0..Levels : Reads(tree, bytes, read[d], Msgs(tree)[d])
<1>0. Len(bytes) \in Nat
  BY LenProperties
<1> DEFINE T == {d \in 0..Levels : Reads(tree, bytes, read[d], Msgs(tree)[d])}
<1>1. 0 \in T
  <2>1. ASSUME NEW u \in Mentioned(tree), NEW a \in 0..Len(bytes)
        PROVE  Finished(read[0][<<u, a>>], a, bytes, Msgs(tree)[0][u])
    <3>0. read[0] = [x \in Mentioned(tree) \X Nat |-> Got(<< >>, x[2])]
      BY DEF LevelsRead
    <3>1. read[0][<<u, a>>] = Got(<< >>, a)
      BY <1>0, <3>0
    <3>2. << >> \in Msgs(tree)[0][u]
      BY MsgsDef
    <3> DEFINE e == << >>
    <3> HIDE DEF e
    <3>3. Finished(Got(e, a), a, bytes, Msgs(tree)[0][u])
      BY <1>0, <3>2 DEF Got, Finished, ReadOf, IsRead, e
    <3> QED
      BY <3>1, <3>3 DEF e
  <2> QED
    BY <2>1, TypesAssumption DEF Reads
<1>2. \A d \in 0..(Levels - 1) : d \in T => d + 1 \in T
  <2> SUFFICES ASSUME NEW d \in 0..(Levels - 1), Reads(tree, bytes, read[d], Msgs(tree)[d])
               PROVE  d + 1 \in T
    OBVIOUS
  <2>1. d + 1 \in 0..Levels
    BY TypesAssumption
  <2>2. ASSUME NEW u \in Mentioned(tree), NEW a \in 0..Len(bytes)
        PROVE  Finished(read[d + 1][<<u, a>>], a, bytes, Msgs(tree)[d + 1][u])
    <3> DEFINE blank == Blanks(tree)[d + 1][u]
    <3>0. read[d + 1] = [x \in Mentioned(tree) \X Nat |->
                           popMsg(tree, known, x[1], Blanks(tree)[d + 1][x[1]], read[d], bytes, x[2])]
      BY DEF LevelsRead
    <3>1. read[d + 1][<<u, a>>] = popMsg(tree, known, u, blank, read[d], bytes, a)
      <4>1. <<u, a>> \in Mentioned(tree) \X Nat
        BY <1>0
      <4> QED
        BY <3>0, <4>1
    <3>2. Msgs(tree)[d + 1][u] = MsgOf(tree, u, Msgs(tree)[d])
      BY MsgsDef
    <3>3. blank \in MsgOf(tree, u, Msgs(tree)[d])
      BY <2>1, <3>2, BlankType
    <3> QED
      BY <3>1, <3>2, <3>3, popMsgType
  <2> QED
    BY <2>1, <2>2 DEF Reads
<1>3. \A d \in 0..Levels : d \in T
  <2> HIDE DEF T
  <2> QED
    BY <1>1, <1>2, TypesAssumption, Induction
<1> QED
  BY <1>3

LEMMA toMsgType ==
  ASSUME NEW tree, IsTree(tree), NEW known, NEW t \in Mentioned(tree), NEW bytes \in Seq(Byte)
  PROVE  Finished(toMsg(tree, known, t, bytes, 0), 0, bytes, Msgs(tree)[Levels][t])
<1>1. PICK read :
        toMsg(tree, known, t, bytes, 0) = read[Levels][<<t, 0>>] /\ LevelsRead(read, tree, known, bytes)
  BY toMsgDef
<1>2. Reads(tree, bytes, read[Levels], Msgs(tree)[Levels])
  BY <1>1, LevelsReadType, TypesAssumption
<1>3. 0 \in 0..Len(bytes)
  BY LenProperties
<1> QED
  BY <1>1, <1>2, <1>3 DEF Reads

-----------------------------------------------------------------------------
(***************************************************************************)
(* What the pub tool reads of JSON is a message of the type, or an         *)
(* exception.                                                              *)
(***************************************************************************)
\* A set of JSON values, with all that is found in them, that have the types of
\* what was printed.
Closed(K) ==
  \A j \in K :
    /\ j.is = "number" => j.val \in DOMAIN NearestFloat
    /\ j.is = "string" => j.val \in Values("string")
    /\ j.is = "array" => Len(j.val) \in Nat /\ \A i \in 1..Len(j.val) : j.val[i] \in K
    /\ \A key : get(j, key) \in K

\* What is set, or an exception.
SetTo(r, S) ==
  r = [val |-> r.val, threw |-> r.threw] /\ r.threw \in BOOLEAN /\ (~r.threw => r.val \in S)

LEMMA SetToRead ==
  ASSUME NEW S
  PROVE  SetTo(Thrown, S) /\ \A v \in S : SetTo(Read(v), S)
BY DEF Thrown, Read, SetTo

LEMMA getAsType ==
  ASSUME NEW K, Closed(K), NEW j \in K, NEW type
  PROVE  /\ type \in Primitive => SetTo(getAs(type, j), Values(type))
         /\ type \notin Primitive => getAs(type, j) = Thrown
<1>0. /\ j.is = "number" => j.val \in DOMAIN NearestFloat
      /\ j.is = "string" => j.val \in Values("string")
  BY DEF Closed
<1>1. Base \in Nat /\ Base > 0 /\ Full \in Nat /\ Full > 0
  BY CodecAssumption, FullType
<1>2. ASSUME j.is = "number"
      PROVE  /\ j.val % Base \in Values("uint8")
             /\ j.val % Full \in 0..(Full - 1) /\ NearestFloat[j.val] \in 0..(Full - 1)
  <2>1. j.val \in Nat /\ NearestFloat[j.val] \in 0..(Full - 1)
    BY <1>0, <1>2, JsonAssumption
  <2> QED
    BY <1>1, <2>1 DEF Values, Byte, Words, Floats
<1>3. CASE type = "uint8"
  <2>1. getAs(type, j) = IF j.is = "number" THEN Read(j.val % Base) ELSE Thrown
    BY <1>3 DEF getAs, Words, Floats
  <2>2. type \in Primitive
    BY <1>3 DEF Primitive
  <2> QED
    BY <1>2, <1>3, <2>1, <2>2, SetToRead
<1>4. CASE type \in Words
  <2>0. type \notin {"uint8", "string"} /\ (type \notin Floats => type \in Words \ Floats)
    BY <1>4, WordTypes
  <2>1. \/ getAs(type, j) = IF j.is = "number" THEN Read(j.val % Full) ELSE Thrown
        \/ getAs(type, j) = IF j.is = "number" THEN Read(NearestFloat[j.val]) ELSE Thrown
    BY <2>0 DEF getAs
  <2>2. type \in Primitive /\ Values(type) = 0..(Full - 1)
    BY <1>4, WordTypes
  <2> QED
    BY <1>2, <2>1, <2>2, SetToRead
<1>5. CASE type = "string"
  <2>1. getAs(type, j) = IF j.is = "string" THEN Read(j.val) ELSE Thrown
    BY <1>5 DEF getAs, Words, Floats
  <2>2. type \in Primitive
    BY <1>5 DEF Primitive
  <2> QED
    BY <1>0, <1>5, <2>1, <2>2, SetToRead
<1>6. CASE type \notin {"uint8", "string"} \cup Words
  <2>1. getAs(type, j) = Thrown
    BY <1>6 DEF getAs, Words
  <2> QED
    BY <2>1, SetToRead
<1> QED
  BY <1>3, <1>4, <1>5, <1>6

LEMMA setPrimitiveType ==
  ASSUME NEW K, Closed(K), NEW j \in K, NEW type \in Primitive, NEW blank \in Values(type)
  PROVE  SetTo(setPrimitive(type, j, blank), Values(type))
<1>1. CASE type = "time"
  <2> DEFINE sec == getAs("uint32", get(j, "sec"))
             nsec == getAs("uint32", get(j, "nsec"))
  <2>1. setPrimitive(type, j, blank) =
          IF j.is # "object" THEN Read(blank)
          ELSE IF sec.threw \/ nsec.threw THEN Thrown ELSE Read(<<sec.val, nsec.val>>)
    BY <1>1 DEF setPrimitive, setTime
  <2>2. SetTo(sec, Values("uint32")) /\ SetTo(nsec, Values("uint32"))
    <3>1. get(j, "sec") \in K /\ get(j, "nsec") \in K
      BY DEF Closed
    <3>2. "uint32" \in Primitive
      BY DEF Primitive, Words
    <3> QED
      BY <3>1, <3>2, getAsType
  <2> HIDE DEF sec, nsec
  <2>3. ~sec.threw /\ ~nsec.threw => <<sec.val, nsec.val>> \in Values("time")
    <3>1. Values("uint32") = 0..(Full - 1)
      BY WordTypes DEF Words
    <3>2. Values("time") = (0..(Full - 1)) \X (0..(Full - 1))
      BY DEF Values, Words, Floats
    <3> QED
      BY <2>2, <3>1, <3>2 DEF SetTo
  <2> QED
    BY <1>1, <2>1, <2>3, SetToRead
<1>2. CASE type # "time"
  <2>1. setPrimitive(type, j, blank) = Read(blank) \/ setPrimitive(type, j, blank) = getAs(type, j)
    BY <1>2 DEF setPrimitive
  <2> QED
    BY <2>1, getAsType, SetToRead
<1> QED
  BY <1>1, <1>2

\* The messages that are read of the JSON within x.
Sets(tree, known, x, inner, msgs) ==
  \A y \in Objects(tree, known, x) : SetTo(inner[y], msgs[y[1]])

LEMMA setFieldType ==
  ASSUME NEW K, Closed(K), NEW j \in K, NEW known, NEW f \in Line, NEW msgs, NEW blank \in Held(f, msgs),
         NEW inner,
         ~to_cxx_typeName(f) /\ f.type \in known => SetTo(inner[<<f.type, j>>], msgs[f.type])
  PROVE  SetTo(setField(known, f, blank, j, inner), Held(f, msgs))
<1>0. SetTo(Read(blank), Held(f, msgs)) /\ SetTo(Thrown, Held(f, msgs))
  BY SetToRead
<1>1. CASE is_array(f)
  <2>1. setField(known, f, blank, j, inner) = Read(blank)
          \/ setField(known, f, blank, j, inner) = Read(SubSeq(j.val, 1, 0))
    BY <1>1 DEF setField, arraySize
  <2>2. SubSeq(j.val, 1, 0) = << >>
    BY SubSeqEmpty
  <2>3. << >> \in Held(f, msgs)
    <3>1. << >> \in Seq(Some(f, msgs)) /\ Len(<< >>) < Full
      BY EmptySeq, FullType
    <3> QED
      BY <1>1, <3>1 DEF Held
  <2> QED
    BY <1>0, <2>1, <2>2, <2>3, SetToRead
<1>2. CASE ~is_array(f) /\ is_fixed_array(f)
  <2> DEFINE rs == [i \in 1..f.dims |-> getAs(f.type, j.val[i])]
             val == [i \in DOMAIN rs |-> rs[i].val]
  <2>1. \/ setField(known, f, blank, j, inner) \in {Read(blank), Thrown}
        \/ /\ j.is = "array" /\ ~(Len(j.val) < f.dims) /\ ~\E i \in DOMAIN rs : rs[i].threw
           /\ setField(known, f, blank, j, inner) = Read(val)
    BY <1>2 DEF setField
  <2>2. ASSUME j.is = "array", ~(Len(j.val) < f.dims), ~\E i \in DOMAIN rs : rs[i].threw
        PROVE  val \in Held(f, msgs)
    <3>1. f.dims \in Nat
      BY <1>2, HeldCases
    <3>2. ASSUME NEW i \in 1..f.dims
          PROVE  val[i] \in Some(f, msgs)
      <4>1. j.val[i] \in K
        <5>1. Len(j.val) \in Nat
          BY <2>2 DEF Closed
        <5>2. i \in 1..Len(j.val)
          BY <2>2, <3>1, <5>1
        <5> QED
          BY <2>2, <5>2 DEF Closed
      <4>2. ~getAs(f.type, j.val[i]).threw
        BY <2>2
      <4>3. f.type \in Primitive
        BY <4>1, <4>2, getAsType DEF Thrown
      <4>4. getAs(f.type, j.val[i]).val \in Values(f.type)
        BY <4>1, <4>2, <4>3, getAsType DEF SetTo
      <4> QED
        BY <4>3, <4>4 DEF Some, to_cxx_typeName
    <3>3. val \in [1..f.dims -> Some(f, msgs)]
      BY <3>2
    <3> QED
      BY <1>2, <3>3 DEF Held
  <2> HIDE DEF rs, val
  <2> QED
    BY <1>0, <2>1, <2>2, SetToRead
<1>3. CASE ~is_array(f) /\ ~is_fixed_array(f)
  <2>1. blank \in Some(f, msgs) /\ Held(f, msgs) = Some(f, msgs)
    BY <1>3 DEF Held
  <2>2. CASE to_cxx_typeName(f)
    <3>1. setField(known, f, blank, j, inner) = setPrimitive(f.type, j, blank)
      BY <1>3, <2>2 DEF setField
    <3>2. f.type \in Primitive /\ Some(f, msgs) = Values(f.type)
      BY <2>2 DEF to_cxx_typeName, Some
    <3> HIDE DEF Held
    <3> QED
      BY <2>1, <3>1, <3>2, setPrimitiveType
  <2>3. CASE ~to_cxx_typeName(f) /\ f.type \in known
    <3>1. setField(known, f, blank, j, inner) = inner[<<f.type, j>>]
      BY <1>3, <2>3 DEF setField
    <3>2. Some(f, msgs) = msgs[f.type]
      BY <2>3 DEF Some
    <3> QED
      BY <2>1, <2>3, <3>1, <3>2
  <2>4. CASE ~to_cxx_typeName(f) /\ f.type \notin known
    <3>1. setField(known, f, blank, j, inner) = Read(blank)
      BY <1>3, <2>4 DEF setField
    <3> QED
      BY <1>0, <3>1
  <2> QED
    BY <2>2, <2>3, <2>4
<1> QED
  BY <1>1, <1>2, <1>3

LEMMA setMsgType ==
  ASSUME NEW K, Closed(K), NEW tree, IsTree(tree), NEW known, NEW x, x[2] \in K, NEW msgs, NEW inner,
         Sets(tree, known, x, inner, msgs), NEW blank \in MsgOf(tree, x[1], msgs)
  PROVE  SetTo(setMsg(tree, known, x, blank, inner), MsgOf(tree, x[1], msgs))
<1> DEFINE fields == Fields(tree, x[1])
           set(i) == setMember(known, fields[i], blank[i], x[2], inner)
           val == [i \in DOMAIN fields |-> set(i).val]
<1>1. ASSUME NEW i \in DOMAIN fields
      PROVE  SetTo(set(i), Held(fields[i], msgs))
  <2> DEFINE j == get(x[2], fields[i].name)
  <2>1. fields[i] \in Line /\ blank[i] \in Held(fields[i], msgs) /\ fields[i] \in ToSet(fields)
    BY FieldType, MsgOfDef
  <2>2. j \in K
    BY DEF Closed
  <2>3. ASSUME ~to_cxx_typeName(fields[i]), fields[i].type \in known
        PROVE  SetTo(inner[<<fields[i].type, j>>], msgs[fields[i].type])
    <3>1. <<fields[i].type, j>> \in Objects(tree, known, x)
      BY <2>1, <2>3 DEF Objects
    <3> QED
      BY <3>1 DEF Sets
  <2>4. SetTo(setField(known, fields[i], blank[i], j, inner), Held(fields[i], msgs))
    BY <2>1, <2>2, <2>3, setFieldType
  <2>5. set(i) \in {Read(blank[i]), Thrown, setField(known, fields[i], blank[i], j, inner)}
    BY DEF setMember
  <2> HIDE DEF set, j, fields
  <2> QED
    BY <2>1, <2>4, <2>5, SetToRead
<1>2. setMsg(tree, known, x, blank, inner) =
        IF \E i \in DOMAIN fields : set(i).threw THEN Thrown ELSE Read(val)
  BY DEF setMsg
<1>3. ASSUME ~\E i \in DOMAIN fields : set(i).threw
      PROVE  val \in MsgOf(tree, x[1], msgs)
  <2>1. \A i \in DOMAIN fields : val[i] \in Held(fields[i], msgs)
    <3> HIDE DEF set
    <3> QED
      BY <1>1, <1>3 DEF SetTo
  <2>2. DOMAIN val = DOMAIN fields /\ val = [i \in DOMAIN val |-> val[i]]
    OBVIOUS
  <2> HIDE DEF val, set
  <2> QED
    BY <2>1, <2>2, MsgOfDef
<1> HIDE DEF val, set
<1> QED
  BY <1>2, <1>3, SetToRead

\* What fromJSON makes of JSON that was printed, by whatever definitions.
LEMMA fromJSONType ==
  ASSUME NEW K, Closed(K), NEW tree, IsTree(tree), NEW known, NEW t \in Mentioned(tree), NEW j \in K
  PROVE  SetTo(fromJSON(tree, known, t, j), Msgs(tree)[Levels][t])
<1> DEFINE W == JsonWithin(tree, known, t, j)
<1>1. PICK set :
        fromJSON(tree, known, t, j) = set[Levels][<<t, j>>] /\ SetLevels(set, tree, known, t, j)
  BY fromJSONDef
<1>2. \A k \in 0..Levels : \A x \in W[k] : x[1] \in Mentioned(tree) /\ x[2] \in K
  <2> DEFINE T == {k \in 0..Levels : \A x \in W[k] : x[1] \in Mentioned(tree) /\ x[2] \in K}
  <2>1. 0 \in T
    BY JsonWithinDef, TypesAssumption
  <2>2. \A k \in 0..(Levels - 1) : k \in T => k + 1 \in T
    <3> SUFFICES ASSUME NEW k \in 0..(Levels - 1), k \in T
                 PROVE  k + 1 \in T
      OBVIOUS
    <3>0. k + 1 \in 0..Levels
      BY TypesAssumption
    <3> SUFFICES ASSUME NEW y \in W[k + 1]
                 PROVE  y[1] \in Mentioned(tree) /\ y[2] \in K
      BY <3>0
    <3>1. PICK x \in W[k] : y \in Objects(tree, known, x)
      BY JsonWithinDef
    <3>2. PICK f \in ToSet(Fields(tree, x[1])) :
            ~to_cxx_typeName(f) /\ y = <<f.type, get(x[2], f.name)>>
      BY <3>1 DEF Objects
    <3>3. f.type \in Mentioned(tree)
      <4>1. f.type \in dependentTypeNames(tree, x[1])
        BY <3>2 DEF dependentTypeNames
      <4> QED
        BY <4>1, DependentTypes
    <3>4. get(x[2], f.name) \in K
      BY DEF Closed
    <3> QED
      BY <3>2, <3>3, <3>4
  <2>3. \A k \in 0..Levels : k \in T
    <3> HIDE DEF T
    <3> QED
      BY <2>1, <2>2, TypesAssumption, Induction
  <2> QED
    BY <2>3
<1> DEFINE T == {d \in 0..Levels : \A x \in W[Levels - d] : SetTo(set[d][x], Msgs(tree)[d][x[1]])}
<1>3. 0 \in T
  <2>0. Levels - 0 = Levels /\ Levels \in 0..Levels
    BY TypesAssumption
  <2>1. set[0] = [x \in W[Levels - 0] |-> Read(<< >>)]
    BY <1>1 DEF SetLevels
  <2>2. ASSUME NEW x \in W[Levels - 0]
        PROVE  SetTo(set[0][x], Msgs(tree)[0][x[1]])
    <3>1. << >> \in Msgs(tree)[0][x[1]]
      BY <1>2, <2>0, MsgsDef
    <3>2. set[0][x] = Read(<< >>)
      BY <2>1
    <3> QED
      BY <3>1, <3>2, SetToRead
  <2> QED
    BY <2>2, TypesAssumption
<1>4. \A d \in 0..(Levels - 1) : d \in T => d + 1 \in T
  <2> SUFFICES ASSUME NEW d \in 0..(Levels - 1), d \in T
               PROVE  d + 1 \in T
    OBVIOUS
  <2> DEFINE k == Levels - (d + 1)
  <2>0. /\ d + 1 \in 0..Levels /\ k \in 0..(Levels - 1) /\ k \in 0..Levels /\ k + 1 = Levels - d
    BY TypesAssumption
  <2> SUFFICES ASSUME NEW x \in W[k]
               PROVE  SetTo(set[d + 1][x], Msgs(tree)[d + 1][x[1]])
    BY <2>0
  <2> DEFINE blank == Blanks(tree)[d + 1][x[1]]
  <2>1. x[1] \in Mentioned(tree) /\ x[2] \in K
    BY <1>2, <2>0
  <2>2. set[d + 1][x] = setMsg(tree, known, x, blank, set[d])
    <3>1. set[d + 1] = [z \in W[k] |-> setMsg(tree, known, z, Blanks(tree)[d + 1][z[1]], set[d])]
      BY <1>1 DEF SetLevels
    <3> QED
      BY <3>1
  <2>3. Msgs(tree)[d + 1][x[1]] = MsgOf(tree, x[1], Msgs(tree)[d])
    BY <2>1, MsgsDef
  <2>4. blank \in MsgOf(tree, x[1], Msgs(tree)[d])
    BY <2>0, <2>1, <2>3, BlankType
  <2>5. Sets(tree, known, x, set[d], Msgs(tree)[d])
    <3>1. Objects(tree, known, x) \subseteq W[k + 1]
      BY <2>0, JsonWithinDef
    <3> QED
      BY <2>0, <3>1 DEF Sets
  <2>6. SetTo(setMsg(tree, known, x, blank, set[d]), MsgOf(tree, x[1], Msgs(tree)[d]))
    BY <2>1, <2>4, <2>5, setMsgType
  <2> QED
    BY <2>2, <2>3, <2>6
<1>5. Levels \in T
  <2>1. Levels \in 0..Levels
    BY TypesAssumption
  <2> HIDE DEF T
  <2> QED
    BY <1>3, <1>4, <2>1, TypesAssumption, Induction
<1>6. <<t, j>> \in W[Levels - Levels]
  BY JsonWithinDef, TypesAssumption
<1> QED
  BY <1>1, <1>5, <1>6

-----------------------------------------------------------------------------
(***************************************************************************)
(* What the echo tool prints of a message is JSON in which every value is  *)
(* one that can be read.                                                   *)
(***************************************************************************)
\* What is printed of the values of a set of messages whose JSON is in K.
NumberJson == {Json("number", n) : n \in DOMAIN NearestFloat}
AtomJson ==
  NumberJson \cup {Json("string", s) : s \in Values("string")}
    \cup {Json("object", o) : o \in [{"sec", "nsec"} -> NumberJson]} \cup {NoJson, Json("null", 0)}
ArrayJson(K) == {Json("array", s) : s \in Seq(K)}
ObjectJson(K) == {Json("object", o) : o \in UNION {[S -> K] : S \in SUBSET STRING}}
Grown(K) ==
  LET L == K \cup AtomJson
      M == L \cup ArrayJson(L)
  IN M \cup ObjectJson(M)

LEMMA AtomsClosed ==
  ASSUME NEW K, Closed(K)
  PROVE  Closed(K \cup AtomJson) /\ NoJson \in K \cup AtomJson /\ Json("null", 0) \in K \cup AtomJson
<1> DEFINE L == K \cup AtomJson
<1>1. NoJson \in L /\ Json("null", 0) \in L /\ NumberJson \subseteq L
  BY DEF AtomJson
<1>2. ASSUME NEW j \in L
      PROVE  /\ j.is = "number" => j.val \in DOMAIN NearestFloat
             /\ j.is = "string" => j.val \in Values("string")
             /\ j.is = "array" => Len(j.val) \in Nat /\ \A i \in 1..Len(j.val) : j.val[i] \in L
             /\ \A key : get(j, key) \in L
  <2>1. CASE j \in K
    <3>1. /\ j.is = "number" => j.val \in DOMAIN NearestFloat
          /\ j.is = "string" => j.val \in Values("string")
          /\ j.is = "array" => Len(j.val) \in Nat /\ \A i \in 1..Len(j.val) : j.val[i] \in K
          /\ \A key : get(j, key) \in K
      BY <2>1 DEF Closed
    <3> QED
      BY <3>1
  <2>2. CASE j \in NumberJson
    <3>1. PICK n \in DOMAIN NearestFloat : j = Json("number", n)
      BY <2>2 DEF NumberJson
    <3>2. j.is = "number" /\ j.val = n
      BY <3>1 DEF Json
    <3> HIDE DEF L
    <3> QED
      BY <1>1, <3>2 DEF get
  <2>3. CASE j \in {Json("string", s) : s \in Values("string")}
    <3>1. PICK s \in Values("string") : j = Json("string", s)
      BY <2>3
    <3>2. j.is = "string" /\ j.val = s
      BY <3>1 DEF Json
    <3> HIDE DEF L
    <3> QED
      BY <1>1, <3>2 DEF get
  <2>4. CASE j \in {Json("object", o) : o \in [{"sec", "nsec"} -> NumberJson]}
    <3>1. PICK o \in [{"sec", "nsec"} -> NumberJson] : j = Json("object", o)
      BY <2>4
    <3>2. j.is = "object" /\ j.val = o
      BY <3>1 DEF Json
    <3>3. \A key \in DOMAIN j.val : j.val[key] \in NumberJson
      BY <3>2
    <3> HIDE DEF L
    <3> QED
      BY <1>1, <3>2, <3>3 DEF get
  <2>5. CASE j \in {NoJson, Json("null", 0)}
    <3>1. j.is \in {"bad", "null"}
      BY <2>5 DEF Json, NoJson
    <3> HIDE DEF L
    <3> QED
      BY <1>1, <3>1 DEF get
  <2> QED
    BY <2>1, <2>2, <2>3, <2>4, <2>5 DEF AtomJson
<1>3. Closed(L)
  <2> HIDE DEF L
  <2> QED
    BY <1>2 DEF Closed
<1> QED
  BY <1>1, <1>3

LEMMA ArraysClosed ==
  ASSUME NEW L, Closed(L), NoJson \in L, Json("null", 0) \in L
  PROVE  Closed(L \cup ArrayJson(L))
<1> DEFINE M == L \cup ArrayJson(L)
<1>1. ASSUME NEW j \in M
      PROVE  /\ j.is = "number" => j.val \in DOMAIN NearestFloat
             /\ j.is = "string" => j.val \in Values("string")
             /\ j.is = "array" => Len(j.val) \in Nat /\ \A i \in 1..Len(j.val) : j.val[i] \in M
             /\ \A key : get(j, key) \in M
  <2>1. CASE j \in L
    <3>1. /\ j.is = "number" => j.val \in DOMAIN NearestFloat
          /\ j.is = "string" => j.val \in Values("string")
          /\ j.is = "array" => Len(j.val) \in Nat /\ \A i \in 1..Len(j.val) : j.val[i] \in L
          /\ \A key : get(j, key) \in L
      BY <2>1 DEF Closed
    <3> QED
      BY <3>1
  <2>2. CASE j \in ArrayJson(L)
    <3>1. PICK s \in Seq(L) : j = Json("array", s)
      BY <2>2 DEF ArrayJson
    <3>2. j.is = "array" /\ j.val = s
      BY <3>1 DEF Json
    <3>3. Len(s) \in Nat /\ \A i \in 1..Len(s) : s[i] \in L
      BY LenProperties, ElementOfSeq
    <3>4. \A key : get(j, key) = Json("null", 0)
      BY <3>2 DEF get
    <3> QED
      BY <3>2, <3>3, <3>4
  <2> QED
    BY <2>1, <2>2
<1>2. Closed(M)
  <2> HIDE DEF M
  <2> QED
    BY <1>1 DEF Closed
<1> QED
  BY <1>2

LEMMA ObjectsClosed ==
  ASSUME NEW M, Closed(M), NoJson \in M, Json("null", 0) \in M
  PROVE  Closed(M \cup ObjectJson(M))
<1> DEFINE N == M \cup ObjectJson(M)
<1>1. ASSUME NEW j \in N
      PROVE  /\ j.is = "number" => j.val \in DOMAIN NearestFloat
             /\ j.is = "string" => j.val \in Values("string")
             /\ j.is = "array" => Len(j.val) \in Nat /\ \A i \in 1..Len(j.val) : j.val[i] \in N
             /\ \A key : get(j, key) \in N
  <2>1. CASE j \in M
    <3>1. /\ j.is = "number" => j.val \in DOMAIN NearestFloat
          /\ j.is = "string" => j.val \in Values("string")
          /\ j.is = "array" => Len(j.val) \in Nat /\ \A i \in 1..Len(j.val) : j.val[i] \in M
          /\ \A key : get(j, key) \in M
      BY <2>1 DEF Closed
    <3> QED
      BY <3>1
  <2>2. CASE j \in ObjectJson(M)
    <3>1. PICK o \in UNION {[S -> M] : S \in SUBSET STRING} : j = Json("object", o)
      BY <2>2 DEF ObjectJson
    <3>2. PICK S : o \in [S -> M]
      BY <3>1
    <3>3. j.is = "object" /\ j.val = o
      BY <3>1 DEF Json
    <3>4. \A key \in DOMAIN j.val : j.val[key] \in M
      BY <3>2, <3>3
    <3> QED
      BY <3>3, <3>4 DEF get
  <2> QED
    BY <2>1, <2>2
<1>2. Closed(N)
  <2> HIDE DEF N
  <2> QED
    BY <1>1 DEF Closed
<1> QED
  BY <1>2

LEMMA GrownClosed ==
  ASSUME NEW K, Closed(K)
  PROVE  Closed(Grown(K)) /\ NoJson \in Grown(K)
<1> DEFINE L == K \cup AtomJson
           M == L \cup ArrayJson(L)
<1>1. Closed(L) /\ NoJson \in L /\ Json("null", 0) \in L
  BY AtomsClosed
<1> HIDE DEF L
<1>2. Closed(M) /\ NoJson \in M /\ Json("null", 0) \in M
  BY <1>1, ArraysClosed
<1> HIDE DEF M
<1>3. Closed(M \cup ObjectJson(M)) /\ NoJson \in M \cup ObjectJson(M)
  BY <1>2, ObjectsClosed
<1>4. Grown(K) = M \cup ObjectJson(M)
  BY DEF Grown, L, M
<1> QED
  BY <1>3, <1>4

\* A string is read character by character.
LEMMA stringOfDef ==
  ASSUME NEW v, Len(v) \in Nat
  PROVE  \E read :
           /\ stringOf(v) = IF read[Len(v)].ok /\ read[Len(v)].seen = << >>
                            THEN Json("string", read[Len(v)].text) ELSE NoJson
           /\ read[0] = [text |-> << >>, seen |-> << >>, ok |-> TRUE]
           /\ \A i \in 0..(Len(v) - 1) : read[i + 1] = character(read[i], v[i + 1])
<1> DEFINE n == Len(v)
           C == [text |-> << >>, seen |-> << >>, ok |-> TRUE]
           E(i, a) == character(a, v[i])
           Is(g, k) == g = [i \in 0..k |-> IF i = 0 THEN C ELSE E(i, g[i - 1])]
           T == {k \in 0..n : \E g : Is(g, k)}
           f == CHOOSE g : Is(g, n)
<1>1. stringOf(v) = IF f[n].ok /\ f[n].seen = << >> THEN Json("string", f[n].text) ELSE NoJson
  BY DEF stringOf
<1> HIDE DEF E, C
<1>2. 0 \in T
  <2>1. Is([i \in 0..0 |-> C], 0)
    OBVIOUS
  <2>2. 0 \in 0..n
    OBVIOUS
  <2> QED
    BY <2>1, <2>2
<1>3. \A k \in 0..(n - 1) : k \in T => k + 1 \in T
  <2> SUFFICES ASSUME NEW k \in 0..(n - 1), NEW g, Is(g, k)
               PROVE  \E h : Is(h, k + 1)
    OBVIOUS
  <2> WITNESS [i \in 0..(k + 1) |-> IF i = k + 1 THEN E(i, g[k]) ELSE g[i]]
  <2> QED
    OBVIOUS
<1>4. n \in T
  <2>1. n \in Nat /\ n \in 0..n
    OBVIOUS
  <2> HIDE DEF T, n
  <2> QED
    BY <1>2, <1>3, <2>1, Induction
<1>5. ASSUME NEW g, Is(g, n)
      PROVE  g[0] = C /\ \A i \in 0..(n - 1) : g[i + 1] = E(i + 1, g[i])
  <2>1. 0 \in 0..n /\ \A i \in 0..(n - 1) : i + 1 \in 0..n /\ i + 1 # 0 /\ (i + 1) - 1 = i
    OBVIOUS
  <2> QED
    BY <1>5, <2>1
<1>6. f[0] = C /\ \A i \in 0..(n - 1) : f[i + 1] = E(i + 1, f[i])
  BY <1>4, <1>5
<1> HIDE DEF f
<1> QED
  BY <1>1, <1>6 DEF E, C

\* What has been read is no longer than what was written: the text, and what a
\* backslash has begun.
ReadUpTo(a, i) ==
  /\ a = [text |-> a.text, seen |-> a.seen, ok |-> a.ok]
  /\ a.text \in Seq(Byte) /\ a.seen \in Seq(Byte) /\ Len(a.text) + Len(a.seen) <= i

LEMMA characterType ==
  ASSUME NEW i \in Nat, NEW a, ReadUpTo(a, i), NEW b \in Byte
  PROVE  ReadUpTo(character(a, b), i + 1)
<1> DEFINE seen == Append(a.seen, b)
           c == character(a, b)
<1>0. /\ a.text \in Seq(Byte) /\ a.seen \in Seq(Byte)
      /\ Len(a.text) \in Nat /\ Len(a.seen) \in Nat /\ Len(a.text) + Len(a.seen) <= i
  BY LenProperties DEF ReadUpTo
<1>1. seen \in Seq(Byte) /\ Len(seen) = Len(a.seen) + 1
  BY <1>0, AppendProperties
<1>2. Append(a.text, b) \in Seq(Byte) /\ Len(Append(a.text, b)) = Len(a.text) + 1
  BY <1>0, AppendProperties
<1>3. seen \in DOMAIN Escape
        => /\ a.text \o Escape[seen] \in Seq(Byte)
           /\ Len(a.text \o Escape[seen]) <= Len(a.text) + Len(seen)
  <2> SUFFICES ASSUME seen \in DOMAIN Escape
               PROVE  /\ a.text \o Escape[seen] \in Seq(Byte)
                      /\ Len(a.text \o Escape[seen]) <= Len(a.text) + Len(seen)
    OBVIOUS
  <2> HIDE DEF seen
  <2>1. Escape[seen] \in Seq(Byte) /\ Len(Escape[seen]) \in Nat /\ Len(Escape[seen]) <= Len(seen)
    BY JsonAssumption, LenProperties
  <2>2. /\ a.text \o Escape[seen] \in Seq(Byte)
        /\ Len(a.text \o Escape[seen]) = Len(a.text) + Len(Escape[seen])
    BY <1>0, <2>1, ConcatProperties
  <2> QED
    BY <1>0, <1>1, <2>1, <2>2
<1>4. << >> \in Seq(Byte) /\ Len(<< >>) = 0
  BY EmptySeq
<1>5. \/ c = [text |-> a.text \o Escape[seen], seen |-> << >>, ok |-> a.ok] /\ seen \in DOMAIN Escape
      \/ c = [text |-> a.text, seen |-> seen, ok |-> a.ok]
      \/ c = [text |-> Append(a.text, b), seen |-> a.seen, ok |-> a.ok]
      \/ c = [text |-> a.text, seen |-> a.seen, ok |-> FALSE]
  <2>1. a = [text |-> a.text, seen |-> a.seen, ok |-> a.ok]
    BY DEF ReadUpTo
  <2> QED
    BY <2>1 DEF character
<1> HIDE DEF c, seen
<1>6. CASE c = [text |-> a.text \o Escape[seen], seen |-> << >>, ok |-> a.ok] /\ seen \in DOMAIN Escape
  <2> DEFINE text == a.text \o Escape[seen]
             none == << >>
  <2>1. /\ text \in Seq(Byte) /\ Len(text) \in Nat /\ Len(text) <= Len(a.text) + Len(seen)
        /\ none \in Seq(Byte) /\ Len(none) = 0
    BY <1>3, <1>4, <1>6, LenProperties
  <2>2. c = [text |-> text, seen |-> none, ok |-> a.ok]
    BY <1>6
  <2> HIDE DEF text, none
  <2> QED
    BY <1>0, <1>1, <2>1, <2>2 DEF ReadUpTo, c
<1>7. CASE c = [text |-> a.text, seen |-> seen, ok |-> a.ok]
  BY <1>0, <1>1, <1>7 DEF ReadUpTo, c
<1>8. CASE c = [text |-> Append(a.text, b), seen |-> a.seen, ok |-> a.ok]
  <2> DEFINE text == Append(a.text, b)
  <2>1. text \in Seq(Byte) /\ Len(text) = Len(a.text) + 1 /\ c = [text |-> text, seen |-> a.seen, ok |-> a.ok]
    BY <1>2, <1>8
  <2> HIDE DEF text
  <2> QED
    BY <1>0, <2>1 DEF ReadUpTo, c
<1>9. CASE c = [text |-> a.text, seen |-> a.seen, ok |-> FALSE]
  BY <1>0, <1>9 DEF ReadUpTo, c
<1> QED
  BY <1>5, <1>6, <1>7, <1>8, <1>9

LEMMA stringOfType ==
  ASSUME NEW v \in Values("string")
  PROVE  stringOf(v) = NoJson \/ \E s \in Values("string") : stringOf(v) = Json("string", s)
<1>0. Values("string") = {s \in Seq(Byte) : 2 * Len(s) < Full}
  BY DEF Values, Words, Floats
<1>1. v \in Seq(Byte) /\ Len(v) \in Nat /\ DOMAIN v = 1..Len(v) /\ 2 * Len(v) < Full /\ Full \in Nat
  BY <1>0, LenProperties, FullType
<1>2. PICK read :
        /\ stringOf(v) = IF read[Len(v)].ok /\ read[Len(v)].seen = << >>
                         THEN Json("string", read[Len(v)].text) ELSE NoJson
        /\ read[0] = [text |-> << >>, seen |-> << >>, ok |-> TRUE]
        /\ \A i \in 0..(Len(v) - 1) : read[i + 1] = character(read[i], v[i + 1])
  BY <1>1, stringOfDef
<1> DEFINE n == Len(v)
           T == {i \in 0..n : ReadUpTo(read[i], i)}
<1>3. 0 \in T
  <2> DEFINE e == << >>
  <2>1. e \in Seq(Byte) /\ Len(e) = 0 /\ read[0] = [text |-> e, seen |-> e, ok |-> TRUE]
    BY <1>2, EmptySeq
  <2> HIDE DEF e
  <2>2. ReadUpTo(read[0], 0)
    <3> DEFINE r == read[0]
    <3>1. r = [text |-> e, seen |-> e, ok |-> TRUE]
      BY <2>1
    <3> HIDE DEF r
    <3>2. ReadUpTo(r, 0)
      BY <2>1, <3>1 DEF ReadUpTo
    <3> QED
      BY <3>2 DEF r
  <2>3. 0 \in 0..n
    BY <1>1
  <2> QED
    BY <2>2, <2>3
<1>4. \A i \in 0..(n - 1) : i \in T => i + 1 \in T
  <2> SUFFICES ASSUME NEW i \in 0..(n - 1), ReadUpTo(read[i], i)
               PROVE  i + 1 \in 0..n /\ ReadUpTo(read[i + 1], i + 1)
    OBVIOUS
  <2>1. i \in Nat /\ i + 1 \in 0..n /\ i + 1 \in 1..n
    BY <1>1
  <2>2. v[i + 1] \in Byte
    BY <1>1, <2>1, ElementOfSeq
  <2>3. read[i + 1] = character(read[i], v[i + 1])
    BY <1>2
  <2> QED
    BY <2>1, <2>2, <2>3, characterType
<1>5. ReadUpTo(read[n], n)
  <2>1. n \in T
    <3>1. n \in Nat /\ n \in 0..n
      BY <1>1
    <3> HIDE DEF T, n
    <3> QED
      BY <1>3, <1>4, <3>1, Induction
  <2> QED
    BY <2>1
<1> DEFINE text == read[n].text
<1>6. text \in Seq(Byte) /\ Len(text) \in Nat /\ Len(text) <= n
  <2> DEFINE r == read[n]
  <2> HIDE DEF r
  <2>1. ReadUpTo(r, n)
    BY <1>5 DEF r
  <2>2. /\ r.text \in Seq(Byte) /\ r.seen \in Seq(Byte) /\ Len(r.text) + Len(r.seen) <= n
        /\ Len(r.text) \in Nat /\ Len(r.seen) \in Nat
    <3> HIDE DEF n
    <3> QED
      BY <2>1, LenProperties DEF ReadUpTo
  <2>3. Len(r.text) <= n
    <3> DEFINE k == Len(r.text)
               l == Len(r.seen)
    <3>1. n \in Nat /\ k \in Nat /\ l \in Nat /\ k + l <= n
      BY <1>1, <2>2
    <3> HIDE DEF n, k, l
    <3>2. k <= n
      BY <3>1
    <3> QED
      BY <3>2 DEF k
  <2> QED
    BY <2>2, <2>3 DEF r
<1>7. stringOf(v) = NoJson \/ stringOf(v) = Json("string", text)
  BY <1>2
<1> HIDE DEF text
<1>8. text \in Values("string")
  BY <1>0, <1>1, <1>6
<1> QED
  BY <1>7, <1>8

\* The JSON of a primitive value.
LEMMA jsonOfType ==
  ASSUME NEW type \in Primitive, NEW v \in Values(type)
  PROVE  jsonOf(type, v) \in AtomJson
<1>0. /\ NoJson \in AtomJson /\ NumberJson \subseteq AtomJson /\ Full \in Nat
      /\ \A n \in 0..(Full - 1) : Json("number", n) \in NumberJson
  BY FullType, JsonAssumption DEF AtomJson, NumberJson
<1>1. CASE type = "uint8"
  <2>1. jsonOf(type, v) = IF v \in DOMAIN Digit THEN Json("number", Digit[v]) ELSE NoJson
    BY <1>1 DEF jsonOf, Words, Floats
  <2>2. v \in DOMAIN Digit => Digit[v] \in DOMAIN NearestFloat
    BY JsonAssumption
  <2> QED
    BY <1>0, <2>1, <2>2 DEF NumberJson
<1>2. CASE type \in Words
  <2>0. type \notin {"uint8", "string", "time"} /\ (type \notin Floats => type \in Words \ Floats)
    BY <1>2, WordTypes
  <2>1. \/ jsonOf(type, v) = IF v \in DOMAIN SixDigits THEN Json("number", SixDigits[v]) ELSE NoJson
        \/ jsonOf(type, v) = Json("number", v)
    BY <2>0 DEF jsonOf
  <2>2. v \in 0..(Full - 1)
    BY <1>2, WordTypes
  <2>3. v \in DOMAIN SixDigits => Json("number", SixDigits[v]) \in NumberJson
    BY JsonAssumption DEF NumberJson
  <2> QED
    BY <1>0, <2>1, <2>2, <2>3
<1>3. CASE type = "string"
  <2>1. jsonOf(type, v) = stringOf(v)
    BY <1>3 DEF jsonOf, Words, Floats
  <2>2. stringOf(v) = NoJson \/ \E s \in Values("string") : stringOf(v) = Json("string", s)
    BY <1>3, stringOfType
  <2> QED
    BY <1>0, <2>1, <2>2 DEF AtomJson
<1>4. CASE type = "time"
  <2> DEFINE o == [sec |-> Json("number", v[1]), nsec |-> Json("number", v[2])]
  <2>1. jsonOf(type, v) = Object(o)
    BY <1>4 DEF jsonOf, Words, Floats
  <2>2. v[1] \in 0..(Full - 1) /\ v[2] \in 0..(Full - 1)
    BY <1>0, <1>4 DEF Values, Words, Floats
  <2>3. Json("number", v[1]) \in NumberJson /\ Json("number", v[2]) \in NumberJson
    BY <1>0, <2>2
  <2>4. o \in [{"sec", "nsec"} -> NumberJson]
    BY <2>3
  <2>5. Json("object", o) \in AtomJson
    <3> HIDE DEF o
    <3> QED
      BY <2>4 DEF AtomJson
  <2> QED
    BY <1>0, <2>1, <2>5 DEF Object
<1> QED
  BY <1>1, <1>2, <1>3, <1>4 DEF Primitive

\* The JSON of the messages that are members of x.
Printed(tree, x, inner, K) == \A y \in Members(tree, Mentioned(tree), x) : inner[y] \in K

One(f, v, inner) == IF to_cxx_typeName(f) THEN jsonOf(f.type, v) ELSE inner[<<f.type, v>>]
OfMember(f, v, inner) ==
  IF is_many(f) THEN Array([j \in DOMAIN v |-> One(f, v[j], inner)]) ELSE One(f, v, inner)

LEMMA JsonOfMsgDef ==
  ASSUME NEW tree, NEW x, NEW inner
  PROVE  JsonOfMsg(tree, x, inner) =
           LET fields == Fields(tree, x[1]) IN
           Object([k \in {f.name : f \in ToSet(fields)} |->
                     LET i == CHOOSE i \in DOMAIN fields : fields[i].name = k
                     IN OfMember(fields[i], x[2][i], inner)])
BY DEF JsonOfMsg, OfMember, One

LEMMA MemberJson ==
  ASSUME NEW tree, IsTree(tree), NEW x, NEW inner, NEW K, Printed(tree, x, inner, K),
         NEW i \in DOMAIN Fields(tree, x[1]), NEW some, x[2][i] \in Held(Fields(tree, x[1])[i], some)
  PROVE  LET L == K \cup AtomJson IN
         OfMember(Fields(tree, x[1])[i], x[2][i], inner) \in L \cup ArrayJson(L)
<1> DEFINE f == Fields(tree, x[1])[i]
           v == x[2][i]
           L == K \cup AtomJson
<1>0. f \in Line /\ (~to_cxx_typeName(f) => f.type \in Mentioned(tree))
  BY FieldType
<1>1. /\ is_array(f) => v \in Seq(Some(f, some)) /\ Len(v) < Full
      /\ ~is_array(f) /\ is_fixed_array(f) => v \in Seq(Some(f, some)) /\ Len(v) = f.dims
      /\ ~is_many(f) => v \in Some(f, some)
  BY <1>0, HeldCases
<1>2. is_many(f) => v \in Seq(Some(f, some))
  BY <1>1 DEF is_many
<1>3. ASSUME to_cxx_typeName(f)
      PROVE  \A e \in Some(f, some) : One(f, e, inner) \in L
  <2>1. f.type \in Primitive /\ Some(f, some) = Values(f.type)
    BY <1>3 DEF to_cxx_typeName, Some
  <2> HIDE DEF f
  <2> QED
    BY <1>3, <2>1, jsonOfType DEF One
<1>4. ASSUME ~to_cxx_typeName(f)
      PROVE  /\ ~is_many(f) => One(f, v, inner) \in L
             /\ is_many(f) => \A e \in ToSet(v) : One(f, e, inner) \in L
  <2>2. ~is_many(f) => <<f.type, v>> \in Members(tree, Mentioned(tree), x)
    BY <1>0, <1>4 DEF Members
  <2>3. is_many(f) => \A e \in ToSet(v) : <<f.type, e>> \in Members(tree, Mentioned(tree), x)
    BY <1>0, <1>4 DEF Members
  <2> QED
    BY <1>4, <2>2, <2>3 DEF One, Printed
<1> HIDE DEF f, v, L
<1>5. CASE ~is_many(f)
  BY <1>1, <1>3, <1>4, <1>5 DEF OfMember, f, v, L
<1>6. CASE is_many(f)
  <2> DEFINE s == [j \in DOMAIN v |-> One(f, v[j], inner)]
  <2>1. Len(v) \in Nat /\ DOMAIN v = 1..Len(v) /\ \A j \in 1..Len(v) : v[j] \in Some(f, some) /\ v[j] \in ToSet(v)
    BY <1>2, <1>6, LenProperties, ElementOfSeq, Elements
  <2>2. s \in [1..Len(v) -> L]
    BY <1>3, <1>4, <1>6, <2>1
  <2>3. s \in Seq(L)
    <3> HIDE DEF s
    <3> QED
      BY <2>1, <2>2, Places
  <2>4. OfMember(f, v, inner) = Array(s)
    BY <1>6 DEF OfMember
  <2> HIDE DEF s
  <2>5. Json("array", s) \in ArrayJson(L) /\ NoJson \in L
    BY <2>3 DEF ArrayJson, AtomJson, L
  <2> QED
    BY <2>4, <2>5 DEF Array, f, v, L
<1> QED
  BY <1>5, <1>6

LEMMA JsonOfMsgType ==
  ASSUME NEW tree, IsTree(tree), NEW x, NEW inner, NEW K, Closed(K), Printed(tree, x, inner, K),
         NEW some, \A i \in DOMAIN Fields(tree, x[1]) : x[2][i] \in Held(Fields(tree, x[1])[i], some)
  PROVE  JsonOfMsg(tree, x, inner) \in Grown(K)
<1> DEFINE fields == Fields(tree, x[1])
           L == K \cup AtomJson
           M == L \cup ArrayJson(L)
           names == {f.name : f \in ToSet(fields)}
           at(k) == CHOOSE i \in DOMAIN fields : fields[i].name = k
           o == [k \in names |-> OfMember(fields[at(k)], x[2][at(k)], inner)]
<1>1. \A i \in DOMAIN fields : fields[i] \in Line /\ fields[i].name \in STRING
  BY FieldType DEF Line
<1>2. \A f \in ToSet(fields) : \E i \in DOMAIN fields : fields[i] = f
  BY DEF ToSet
<1>3. \A k \in names : at(k) \in DOMAIN fields
  <2> HIDE DEF fields
  <2> QED
    BY <1>2
<1>4. names \in SUBSET STRING
  BY <1>1, <1>2
<1>5. \A i \in DOMAIN fields : OfMember(fields[i], x[2][i], inner) \in M
  BY MemberJson
<1>6. JsonOfMsg(tree, x, inner) = Object(o)
  BY JsonOfMsgDef
<1>7. o \in [names -> M]
  <2> HIDE DEF M, names, at, fields
  <2> QED
    BY <1>3, <1>5
<1> HIDE DEF o, M, names
<1>8. o \in UNION {[S -> M] : S \in SUBSET STRING}
  BY <1>4, <1>7
<1>9. Json("object", o) \in ObjectJson(M)
  BY <1>8 DEF ObjectJson
<1>10. Grown(K) = M \cup ObjectJson(M) /\ NoJson \in Grown(K)
  BY GrownClosed DEF Grown, M
<1> QED
  BY <1>6, <1>9, <1>10 DEF Object

\* What is printed has the types of what it is printed of.
LEMMA toJSONType ==
  ASSUME NEW tree, IsTree(tree), NEW t \in Mentioned(tree), NEW m \in Msgs(tree)[Levels][t]
  PROVE  \E K : Closed(K) /\ toJSON(tree, t, m) \in K
<1> DEFINE W == Within(tree, Mentioned(tree), t, m)
<1>1. PICK json : toJSON(tree, t, m) = json[Levels][<<t, m>>] /\ JsonLevels(json, tree, t, m)
  BY toJSONDef
<1>2. \A k \in 0..Levels : \A x \in W[k] :
        x = <<x[1], x[2]>> /\ x[1] \in Mentioned(tree) /\ x[2] \in Msgs(tree)[Levels - k][x[1]]
  BY WithinMsgs
<1> DEFINE T == {d \in 0..Levels : \E K : Closed(K) /\ \A x \in W[Levels - d] : json[d][x] \in K}
<1>3. 0 \in T
  <2>1. json[0] = [x \in W[Levels - 0] |-> NoJson]
    BY <1>1 DEF JsonLevels
  <2>2. Closed({})
    BY DEF Closed
  <2>3. Closed(Grown({})) /\ NoJson \in Grown({})
    BY <2>2, GrownClosed
  <2>4. \A x \in W[Levels - 0] : json[0][x] \in Grown({})
    BY <2>1, <2>3
  <2> QED
    BY <2>3, <2>4, TypesAssumption
<1>4. \A d \in 0..(Levels - 1) : d \in T => d + 1 \in T
  <2> SUFFICES ASSUME NEW d \in 0..(Levels - 1), NEW K, Closed(K),
                      \A x \in W[Levels - d] : json[d][x] \in K
               PROVE  d + 1 \in T
    OBVIOUS
  <2> DEFINE k == Levels - (d + 1)
  <2>0. /\ d + 1 \in 0..Levels /\ k \in 0..(Levels - 1) /\ k \in 0..Levels /\ k + 1 = Levels - d
        /\ Levels - k = d + 1
    BY TypesAssumption
  <2>1. ASSUME NEW x \in W[k]
        PROVE  json[d + 1][x] \in Grown(K)
    <3>1. json[d + 1][x] = JsonOfMsg(tree, x, json[d])
      <4>1. json[d + 1] = [z \in W[k] |-> JsonOfMsg(tree, z, json[d])]
        BY <1>1 DEF JsonLevels
      <4> QED
        BY <4>1
    <3>2. x[1] \in Mentioned(tree) /\ x[2] \in Msgs(tree)[d + 1][x[1]]
      BY <1>2, <2>0
    <3>3. \A i \in DOMAIN Fields(tree, x[1]) : x[2][i] \in Held(Fields(tree, x[1])[i], Msgs(tree)[d])
      BY <3>2, MsgsStep
    <3>4. Printed(tree, x, json[d], K)
      <4>1. Members(tree, Mentioned(tree), x) \subseteq W[k + 1]
        BY <2>0, WithinDef
      <4> QED
        BY <2>0, <4>1 DEF Printed
    <3> HIDE DEF W
    <3> QED
      BY <3>1, <3>3, <3>4, JsonOfMsgType
  <2>2. Closed(Grown(K))
    BY GrownClosed
  <2> QED
    BY <2>0, <2>1, <2>2
<1>5. Levels \in T
  <2>1. Levels \in 0..Levels
    BY TypesAssumption
  <2> HIDE DEF T
  <2> QED
    BY <1>3, <1>4, <2>1, TypesAssumption, Induction
<1>6. <<t, m>> \in W[Levels - Levels]
  BY WithinDef, TypesAssumption
<1> QED
  BY <1>1, <1>5, <1>6

-----------------------------------------------------------------------------
(***************************************************************************)
(* The invariant: packers that are found have been built of the process's  *)
(* own definitions, and what is on its way, was delivered and was printed  *)
(* comes of the step before. It is preserved by every step.                *)
(***************************************************************************)
\* A packer that can have been built.
Built(tree, t) == t \in DOMAIN tree /\ Compiles(tree, t)

\* What was written, of a message or of JSON that was printed of one.
Sent(pub, sub, w) ==
  /\ w.msg \in Msgs(pub)[Levels][Topic]
  /\ w.bytes = toPacket(pub, w.known, Topic, w.msg)
  /\ w.known \subseteq Messages /\ \A t \in w.known : Built(pub, t)
  /\ w.of # Nothing =>
       /\ w.of \in Msgs(sub)[Levels][Topic]
       /\ toJSON(sub, Topic, w.of).is # "bad"
       /\ fromJSON(pub, w.known, Topic, toJSON(sub, Topic, w.of)) = Read(w.msg)

\* What was read of it.
Called(pub, sub, g) ==
  LET read == toMsg(sub, g.known, Topic, g.sent.bytes, 0)
  IN /\ Sent(pub, sub, g.sent)
     /\ g.msg = read.val /\ g.at = read.at /\ g.threw = read.threw

Shown(sub, q) == q.msg \in Msgs(sub)[Levels][Topic] /\ q.json = toJSON(sub, Topic, q.msg)

\* The definitions, the packers that can have been built of them and those that are found.
ToolInv ==
  /\ IInv
  /\ source \in DOMAIN Cases
  /\ generated \in [Procs -> SUBSET Messages]
  /\ \A p \in Procs : generated[p] \subseteq DOMAIN Tree(p)
  /\ \A p \in Procs, t \in Messages :
       t \in packers_[p] \/ (\E d \in Dirs : disk[p][<<d, t>>] = "good") => Built(Tree(p), t)
  /\ changes \in 0..MaxChanges

TopicInv ==
  /\ alive \in [Procs -> BOOLEAN]
  /\ advertised \in BOOLEAN /\ subscribed \in BOOLEAN
  /\ advertised => Topic \in packers_[Pub]
  /\ subscribed => Topic \in packers_[Sub]
  /\ wire # Nothing => advertised /\ Sent(Tree(Pub), Tree(Sub), wire)
  /\ got # Nothing =>
       /\ advertised /\ subscribed /\ Called(Tree(Pub), Tree(Sub), got)
       /\ got.threw => ~alive[Sub]
  /\ printed # Nothing => subscribed /\ Shown(Tree(Sub), printed)

TInv == ToolInv /\ TopicInv

LEMMA Trees ==
  ASSUME ToolInv
  PROVE  /\ \A p \in Procs : IsTree(Tree(p))
         /\ Pub \in Procs /\ Sub \in Procs /\ Topic \in Types
BY CasesAssumption, TopicAssumption DEF ToolInv, Tree, IsTree, Types

\* What the processes find has been built.
LEMMA FoundIsBuilt ==
  ASSUME ToolInv, NEW p \in Procs, NEW t \in Messages, Found(p, t)
  PROVE  Built(Tree(p), t)
<1>1. CASE t \in packers_[p]
  BY <1>1 DEF ToolInv
<1>2. CASE t \notin packers_[p]
  <2>1. t \in Types /\ Good(p, t) # {}
    BY <1>2 DEF Found, Types
  <2> QED
    BY <2>1, SourceIsGood DEF ToolInv
<1> QED
  BY <1>1, <1>2

\* A look-up of any types.
LEMMA LookUpInv ==
  ASSUME ToolInv, NEW p \in Procs, NEW asked \in SUBSET ((Types \cup {App}) \X Types),
         LookUp(p, asked), UNCHANGED toolVars
  PROVE  /\ ToolInv'
         /\ \A q \in Procs : packers_[q] \subseteq packers_'[q]
         /\ \A t \in Types : (\E o : <<o, t>> \in asked) => (Found(p, t) => t \in packers_'[p])
<1>1. IInv' /\ Looked(p, asked)
  BY LookUpKeeps, LookUpStep DEF ToolInv
<1>2. \A q \in Procs : packers_[q] \subseteq packers_'[q]
  BY <1>1 DEF Looked
<1>3. disk' = disk
  BY DEF LookUp
<1>4. ASSUME NEW q \in Procs, NEW t \in Messages, t \in packers_'[q]
      PROVE  Found(q, t)
  <2>1. CASE q = p
    BY <1>1, <1>4, <2>1 DEF Looked, Found, New
  <2>2. CASE q # p
    BY <1>1, <1>4, <2>2 DEF Looked, Found
  <2> QED
    BY <2>1, <2>2
<1>5. \A q \in Procs, t \in Messages :
        t \in packers_'[q] \/ (\E d \in Dirs : disk'[q][<<d, t>>] = "good") => Built(Tree(q)', t)
  <2>1. \A q \in Procs : Tree(q)' = Tree(q)
    BY DEF Tree, toolVars
  <2> QED
    BY <1>3, <1>4, <2>1, FoundIsBuilt DEF ToolInv
<1>6. \A t \in Types : (\E o : <<o, t>> \in asked) => (Found(p, t) => t \in packers_'[p])
  <2> SUFFICES ASSUME NEW t \in Types, NEW o, <<o, t>> \in asked, Found(p, t)
               PROVE  t \in packers_'[p]
    OBVIOUS
  <2>1. t \in {a[2] : a \in asked}
    <3>1. <<o, t>>[2] = t
      OBVIOUS
    <3> QED
      BY <3>1
  <2> QED
    BY <1>1, <2>1 DEF Looked, New, Found
<1>7. ToolInv'
  BY <1>1, <1>5 DEF ToolInv, toolVars, Tree
<1> QED
  BY <1>2, <1>6, <1>7

\* The files of the generator and the libraries.
LEMMA GenerateInv == ASSUME ToolInv, NEW p \in Procs, Generate(p) PROVE ToolInv'
<1>1. PICK some \in Generated(Tree(p)) : generated' = [generated EXCEPT ![p] = @ \cup some]
  BY DEF Generate, Outcomes, ToolInv, Tree
<1>2. some \subseteq DOMAIN Tree(p) /\ DOMAIN Tree(p) \subseteq Messages
  BY Trees DEF Generated, Parsed, IsTree
<1>3. UNCHANGED <<factoryVars, source, changes>>
  BY DEF Generate
<1>4. IInv'
  BY <1>3 DEF ToolInv, IInv, FactoryTypeOK, CodeStaysLoaded, factoryVars
<1>5. \A q \in Procs : Tree(q)' = Tree(q)
  BY <1>3 DEF Tree
<1>6. generated' \in [Procs -> SUBSET Messages] /\ \A q \in Procs : generated'[q] \subseteq DOMAIN Tree(q)
  BY <1>1, <1>2 DEF ToolInv
<1> QED
  BY <1>3, <1>4, <1>5, <1>6 DEF ToolInv, factoryVars

LEMMA BuildableBuilt ==
  ASSUME NEW tree, NEW made, NEW t \in Buildable(tree, made)
  PROVE  t \in made /\ Compiles(tree, t)
<1>1. PICK fits :
        /\ Buildable(tree, made) = fits[Levels]
        /\ fits[0] = {u \in made : Compiles(tree, u)}
        /\ \A d \in 0..(Levels - 1) :
             fits[d + 1] = {u \in fits[d] : dependentTypeNames(tree, u) \subseteq fits[d]}
  BY BuildableDef
<1> DEFINE T == {d \in 0..Levels : fits[d] \subseteq fits[0]}
<1>2. 0 \in T /\ \A d \in 0..(Levels - 1) : d \in T => d + 1 \in T
  BY <1>1, TypesAssumption
<1>3. Levels \in T
  <2>1. Levels \in 0..Levels
    BY TypesAssumption
  <2> HIDE DEF T
  <2> QED
    BY <1>2, <2>1, TypesAssumption, Induction
<1> QED
  BY <1>1, <1>3

LEMMA DiskInv ==
  ASSUME ToolInv, NEW p \in Procs, NEW d \in Dirs, NEW t \in Types, NEW status \in Status,
         ChangeDisk(p, d, t, status), UNCHANGED <<source, generated>>, changes' \in 0..MaxChanges,
         t \in Messages /\ status = "good" => Built(Tree(p), t)
  PROVE  ToolInv'
<1>1. IInv'
  BY ChangeDiskKeeps DEF ToolInv
<1>2. \A q \in Procs : Tree(q)' = Tree(q)
  BY DEF Tree
<1>3. packers_' = packers_ /\ disk \in [Procs -> [Dirs \X Types -> Status]]
      /\ disk' = [disk EXCEPT ![p] = [@ EXCEPT ![<<d, t>>] = status]]
  BY DEF ChangeDisk, ToolInv, IInv, FactoryTypeOK
<1>4. ASSUME NEW q \in Procs, NEW u \in Messages, NEW e \in Dirs, disk'[q][<<e, u>>] = "good"
      PROVE  Built(Tree(q), u)
  <2>1. u \in Types /\ <<e, u>> \in Dirs \X Types
    BY DEF Types
  <2>2. CASE q = p /\ <<e, u>> = <<d, t>>
    <3>1. disk'[q][<<e, u>>] = status
      BY <1>3, <2>1, <2>2
    <3>2. u = t
      BY <2>2
    <3> QED
      BY <1>4, <2>2, <3>1, <3>2
  <2>3. CASE ~(q = p /\ <<e, u>> = <<d, t>>)
    <3>1. disk'[q][<<e, u>>] = disk[q][<<e, u>>]
      BY <1>3, <2>1, <2>3
    <3> QED
      BY <1>4, <3>1 DEF ToolInv
  <2> QED
    BY <2>2, <2>3
<1> QED
  BY <1>1, <1>2, <1>3, <1>4 DEF ToolInv

LEMMA InstallInv ==
  ASSUME ToolInv, NEW p \in Procs, NEW d \in Dirs, NEW t \in Types, Install(p, d, t)
  PROVE  ToolInv'
<1>1. t \in Messages => t \notin Services
  BY KindsAssumption
<1>2. t \in Messages => Built(Tree(p), t)
  BY <1>1, BuildableBuilt DEF Install, Built, ToolInv
<1>3. changes' = changes /\ UNCHANGED <<source, generated>> /\ ChangeDisk(p, d, t, "good") /\ "good" \in Status
  BY DEF Install, toolVars, Status
<1> QED
  BY <1>2, <1>3, DiskInv DEF ToolInv

LEMMA SpoilInv ==
  ASSUME ToolInv, NEW p \in Procs, NEW d \in Dirs, NEW t \in Types, NEW status \in {"absent", "noinit"},
         Spoil(p, d, t, status)
  PROVE  ToolInv'
<1>1. UNCHANGED <<source, generated>> /\ ChangeDisk(p, d, t, status) /\ status \in Status /\ status # "good"
  BY DEF Spoil, Status
<1>2. changes' \in 0..MaxChanges
  BY ChangesAssumption DEF Spoil, ToolInv
<1> QED
  BY <1>1, <1>2, DiskInv

-----------------------------------------------------------------------------
\* What the topic keeps when nothing is sent or delivered.
LEMMA TopicKept ==
  ASSUME TInv, \A q \in Procs : packers_[q] \subseteq packers_'[q],
         UNCHANGED <<source, topicVars>>
  PROVE  TopicInv'
<1>1. Tree(Pub)' = Tree(Pub) /\ Tree(Sub)' = Tree(Sub)
  BY DEF Tree
<1>2. Topic \in packers_[Pub] => Topic \in packers_'[Pub]
  BY Trees DEF TInv
<1>3. Topic \in packers_[Sub] => Topic \in packers_'[Sub]
  BY Trees DEF TInv
<1>4. /\ alive' = alive /\ advertised' = advertised /\ subscribed' = subscribed /\ wire' = wire
      /\ got' = got /\ printed' = printed
  BY DEF topicVars
<1> QED
  BY <1>1, <1>2, <1>3, <1>4 DEF TInv, TopicInv

\* The application's look-ups.
LEMMA AppAsks ==
  ASSUME NEW t \in Types
  PROVE  {<<App, t>>} \in SUBSET ((Types \cup {App}) \X Types)
OBVIOUS

LEMMA advertiseInv == ASSUME TInv, advertise PROVE TInv'
<1>1. ToolInv' /\ \A q \in Procs : packers_[q] \subseteq packers_'[q]
  BY Trees, AppAsks, LookUpInv DEF TInv, advertise
<1>2. Found(Pub, Topic) => Topic \in packers_'[Pub]
  <2>1. \E o : <<o, Topic>> \in {<<App, Topic>>}
    OBVIOUS
  <2> QED
    BY <2>1, Trees, AppAsks, LookUpInv DEF TInv, advertise
<1>3. Tree(Pub)' = Tree(Pub) /\ Tree(Sub)' = Tree(Sub)
  BY DEF Tree, advertise, toolVars
<1>4. /\ alive' = alive /\ advertised' = Found(Pub, Topic) /\ subscribed' = subscribed /\ wire' = wire
      /\ got' = got /\ printed' = printed /\ ~advertised
  BY DEF advertise
<1>5. Topic \in packers_[Sub] => Topic \in packers_'[Sub]
  BY <1>1, Trees DEF TInv
<1>6. Found(Pub, Topic) \in BOOLEAN
  BY DEF Found
<1>7. TopicInv'
  BY <1>2, <1>3, <1>4, <1>5, <1>6 DEF TInv, TopicInv
<1> QED
  BY <1>1, <1>7 DEF TInv

LEMMA subscribeInv == ASSUME TInv, subscribe PROVE TInv'
<1>1. ToolInv' /\ \A q \in Procs : packers_[q] \subseteq packers_'[q]
  BY Trees, AppAsks, LookUpInv DEF TInv, subscribe
<1>2. Found(Sub, Topic) => Topic \in packers_'[Sub]
  <2>1. \E o : <<o, Topic>> \in {<<App, Topic>>}
    OBVIOUS
  <2> QED
    BY <2>1, Trees, AppAsks, LookUpInv DEF TInv, subscribe
<1>3. Tree(Pub)' = Tree(Pub) /\ Tree(Sub)' = Tree(Sub)
  BY DEF Tree, subscribe, toolVars
<1>4. /\ alive' = alive /\ advertised' = advertised /\ subscribed' = Found(Sub, Topic) /\ wire' = wire
      /\ got' = got /\ printed' = printed /\ ~subscribed
  BY DEF subscribe
<1>5. Topic \in packers_[Pub] => Topic \in packers_'[Pub]
  BY <1>1, Trees DEF TInv
<1>6. Found(Sub, Topic) \in BOOLEAN
  BY DEF Found
<1>7. TopicInv'
  BY <1>2, <1>3, <1>4, <1>5, <1>6 DEF TInv, TopicInv
<1> QED
  BY <1>1, <1>7 DEF TInv

LEMMA useServiceInv == ASSUME TInv, NEW p \in Procs, NEW t \in Services, useService(p, t) PROVE TInv'
<1>1. t \in Types
  BY DEF Types
<1>2. ToolInv' /\ \A q \in Procs : packers_[q] \subseteq packers_'[q]
  BY <1>1, AppAsks, LookUpInv DEF TInv, useService
<1>3. TopicInv'
  BY <1>2, TopicKept DEF useService, toolVars
<1> QED
  BY <1>2, <1>3 DEF TInv

\* A packet is written with the packers that are found.
LEMMA KnownIsBuilt ==
  ASSUME ToolInv, NEW p \in Procs
  PROVE  KnownMsgs(p) \subseteq Messages /\ \A t \in KnownMsgs(p) : Built(Tree(p), t)
<1>1. \A t \in KnownMsgs(p) : t \in Messages /\ Found(p, t)
  BY DEF KnownMsgs, KnownTo
<1> QED
  BY <1>1, FoundIsBuilt

LEMMA TopicBuilt ==
  ASSUME TInv
  PROVE  /\ advertised => Built(Tree(Pub), Topic) /\ Topic \in Mentioned(Tree(Pub))
         /\ subscribed => Built(Tree(Sub), Topic) /\ Topic \in Mentioned(Tree(Sub))
<1>1. Pub \in Procs /\ Sub \in Procs /\ Topic \in Messages
  BY TopicAssumption
<1>2. advertised => Built(Tree(Pub), Topic)
  BY <1>1 DEF TInv, TopicInv, ToolInv
<1>3. subscribed => Built(Tree(Sub), Topic)
  BY <1>1 DEF TInv, TopicInv, ToolInv
<1> QED
  BY <1>2, <1>3 DEF Built, Mentioned

LEMMA SendInv ==
  ASSUME TInv, advertised, NEW m \in Msgs(Tree(Pub))[Levels][Topic], NEW of, Send(m, of),
         of # Nothing =>
           /\ of \in Msgs(Tree(Sub))[Levels][Topic]
           /\ toJSON(Tree(Sub), Topic, of).is # "bad"
           /\ fromJSON(Tree(Pub), KnownMsgs(Pub), Topic, toJSON(Tree(Sub), Topic, of)) = Read(m),
         UNCHANGED <<toolVars, alive, advertised, subscribed, got, printed>>
  PROVE  TInv'
<1> DEFINE known == KnownMsgs(Pub)
           w == [bytes |-> toPacket(Tree(Pub), known, Topic, m), msg |-> m, known |-> known, of |-> of]
           asked == Asked(Tree(Pub), known, Topic, m)
<1>1. LookUp(Pub, asked) /\ wire' = w
  BY DEF Send
<1>2. asked \in SUBSET ((Types \cup {App}) \X Types)
  BY Trees, AskedTypes, TopicAssumption DEF TInv
<1>3. ToolInv' /\ \A q \in Procs : packers_[q] \subseteq packers_'[q]
  <2> HIDE DEF asked
  <2> QED
    BY <1>1, <1>2, Trees, LookUpInv DEF TInv
<1>4. Sent(Tree(Pub), Tree(Sub), w)
  <2>1. known \subseteq Messages /\ \A t \in known : Built(Tree(Pub), t)
    BY KnownIsBuilt, Trees DEF TInv
  <2>2. w.msg = m /\ w.bytes = toPacket(Tree(Pub), known, Topic, m) /\ w.known = known /\ w.of = of
    OBVIOUS
  <2> HIDE DEF known, w
  <2> QED
    BY <2>1, <2>2 DEF Sent, known
<1>5. Tree(Pub)' = Tree(Pub) /\ Tree(Sub)' = Tree(Sub)
  BY DEF Tree, toolVars
<1>6. (Topic \in packers_[Sub] => Topic \in packers_'[Sub]) /\ (Topic \in packers_[Pub] => Topic \in packers_'[Pub])
  BY <1>3, Trees DEF TInv
<1>7. TopicInv'
  <2>1. Sent(Tree(Pub), Tree(Sub), wire)'
    BY <1>1, <1>4, <1>5
  <2> HIDE DEF w
  <2> QED
    BY <2>1, <1>5, <1>6 DEF TInv, TopicInv
<1> QED
  BY <1>3, <1>7 DEF TInv

LEMMA publishInv == ASSUME TInv, NEW m \in Cases[source].messages, publish(m) PROVE TInv'
<1>1. advertised /\ Send(m, Nothing) /\ UNCHANGED <<toolVars, alive, advertised, subscribed, got, printed>>
  BY DEF publish
<1>2. IsMsg(Tree(Pub), Topic, m)
  BY CasesAssumption DEF TInv, ToolInv, Tree
<1>3. m \in Msgs(Tree(Pub))[Levels][Topic]
  BY <1>1, <1>2, SentIsMsg, Trees, TopicBuilt DEF TInv
<1> QED
  BY <1>1, <1>3, SendInv

LEMMA publishJSONInv == ASSUME TInv, publishJSON PROVE TInv'
<1> DEFINE json == toJSON(Tree(Sub), Topic, printed.msg)
           m == fromJSON(Tree(Pub), KnownMsgs(Pub), Topic, printed.json)
<1>1. printed # Nothing /\ subscribed /\ Shown(Tree(Sub), printed) /\ printed.json.is # "bad" /\ advertised
  BY DEF publishJSON, TInv, TopicInv
<1>2. printed.json = json /\ printed.msg \in Msgs(Tree(Sub))[Levels][Topic]
  BY <1>1 DEF Shown
<1>3. SetTo(m, Msgs(Tree(Pub))[Levels][Topic])
  <2>1. PICK K : Closed(K) /\ json \in K
    BY <1>1, <1>2, toJSONType, Trees, TopicBuilt DEF TInv
  <2> QED
    BY <1>1, <1>2, <2>1, fromJSONType, Trees, TopicBuilt DEF TInv
<1>4. CASE m.threw
  <2>1. UNCHANGED <<factoryVars, wire, toolVars, advertised, subscribed, got, printed>>
        /\ alive' = [alive EXCEPT ![Pub] = FALSE]
    BY <1>4 DEF publishJSON
  <2>2. ToolInv'
    <3>1. UNCHANGED <<factoryVars, toolVars>>
      BY <2>1
    <3> QED
      BY <3>1 DEF TInv, ToolInv, IInv, FactoryTypeOK, CodeStaysLoaded, Tree, factoryVars, toolVars
  <2>3. Tree(Pub)' = Tree(Pub) /\ Tree(Sub)' = Tree(Sub) /\ packers_' = packers_
    BY <2>1 DEF Tree, toolVars, factoryVars
  <2>4. alive' \in [Procs -> BOOLEAN] /\ alive'[Sub] = alive[Sub]
    BY <2>1, TopicAssumption DEF TInv, TopicInv
  <2>5. TopicInv'
    BY <2>1, <2>3, <2>4 DEF TInv, TopicInv
  <2> QED
    BY <2>2, <2>5 DEF TInv
<1>5. CASE ~m.threw
  <2>1. Send(m.val, printed.msg) /\ UNCHANGED <<toolVars, alive, advertised, subscribed, got, printed>>
    BY <1>5 DEF publishJSON
  <2>2. m.val \in Msgs(Tree(Pub))[Levels][Topic] /\ m = Read(m.val)
    BY <1>3, <1>5 DEF SetTo, Read
  <2> HIDE DEF m
  <2>3. fromJSON(Tree(Pub), KnownMsgs(Pub), Topic, json) = Read(m.val)
    BY <1>2, <2>2 DEF m
  <2> QED
    BY <1>1, <1>2, <2>1, <2>2, <2>3, SendInv
<1> QED
  BY <1>4, <1>5

LEMMA spinOnceInv == ASSUME TInv, spinOnce PROVE TInv'
<1> DEFINE known == KnownMsgs(Sub)
           read == toMsg(Tree(Sub), known, Topic, wire.bytes, 0)
           g == [msg |-> read.val, at |-> read.at, threw |-> read.threw, known |-> known, sent |-> wire]
           asked == Asked(Tree(Sub), known, Topic, read.val)
<1>1. /\ wire # Nothing /\ subscribed /\ wire' = Nothing /\ got' = g
      /\ alive' = [alive EXCEPT ![Sub] = ~read.threw]
      /\ UNCHANGED <<toolVars, advertised, subscribed, printed>>
      /\ IF read.threw THEN UNCHANGED factoryVars ELSE LookUp(Sub, asked)
  BY DEF spinOnce, Deliver
<1>2. advertised /\ Sent(Tree(Pub), Tree(Sub), wire)
  BY <1>1 DEF TInv, TopicInv
<1>3. Called(Tree(Pub), Tree(Sub), g)
  <2>1. g.sent = wire /\ g.msg = read.val /\ g.at = read.at /\ g.threw = read.threw /\ g.known = known
    OBVIOUS
  <2> HIDE DEF g, known
  <2> QED
    BY <1>2, <2>1 DEF Called
<1>4. ToolInv' /\ \A q \in Procs : packers_[q] \subseteq packers_'[q]
  <2>1. CASE read.threw
    <3>1. UNCHANGED <<factoryVars, toolVars>>
      BY <1>1, <2>1
    <3> QED
      BY <3>1 DEF TInv, ToolInv, IInv, FactoryTypeOK, CodeStaysLoaded, Tree, factoryVars, toolVars
  <2>2. CASE ~read.threw
    <3>1. asked \in SUBSET ((Types \cup {App}) \X Types)
      BY Trees, AskedTypes, TopicAssumption DEF TInv
    <3>2. LookUp(Sub, asked) /\ UNCHANGED toolVars
      BY <1>1, <2>2
    <3> HIDE DEF asked
    <3> QED
      BY <3>1, <3>2, Trees, LookUpInv DEF TInv
  <2> QED
    BY <2>1, <2>2
<1>5. Tree(Pub)' = Tree(Pub) /\ Tree(Sub)' = Tree(Sub)
  BY <1>1 DEF Tree, toolVars
<1>6. (Topic \in packers_[Sub] => Topic \in packers_'[Sub]) /\ (Topic \in packers_[Pub] => Topic \in packers_'[Pub])
  BY <1>4, Trees DEF TInv
<1>7. Called(Tree(Pub), Tree(Sub), got)'
  BY <1>1, <1>3, <1>5
<1>8. alive' \in [Procs -> BOOLEAN] /\ (got'.threw => ~alive'[Sub])
  <2>1. alive' = [alive EXCEPT ![Sub] = ~read.threw] /\ got'.threw = read.threw
    BY <1>1
  <2> HIDE DEF read
  <2> QED
    BY <2>1, TopicAssumption DEF TInv, TopicInv
<1>9. TopicInv'
  <2>1. wire' = Nothing /\ UNCHANGED <<advertised, subscribed, printed>> /\ subscribed
    BY <1>1
  <2> QED
    BY <1>2, <1>5, <1>6, <1>7, <1>8, <2>1 DEF TInv, TopicInv
<1> QED
  BY <1>4, <1>9 DEF TInv

LEMMA echoInv == ASSUME TInv, echo PROVE TInv'
<1> DEFINE json == toJSON(Tree(Sub), Topic, got.msg)
           q == [json |-> json, msg |-> got.msg]
<1>1. /\ alive[Sub] /\ got # Nothing /\ printed' = q
      /\ alive' = alive \/ alive' = [alive EXCEPT ![Sub] = FALSE]
      /\ UNCHANGED <<factoryVars, toolVars, advertised, subscribed, wire, got>>
  BY DEF echo
<1>2. advertised /\ subscribed /\ Called(Tree(Pub), Tree(Sub), got) /\ ~got.threw
  BY <1>1 DEF TInv, TopicInv
<1>3. got.msg \in Msgs(Tree(Sub))[Levels][Topic]
  <2> DEFINE read == toMsg(Tree(Sub), got.known, Topic, got.sent.bytes, 0)
  <2>1. got.sent.bytes \in Seq(Byte)
    BY <1>2, toPacketType, Trees, TopicBuilt DEF Called, Sent, TInv
  <2>2. Finished(read, 0, got.sent.bytes, Msgs(Tree(Sub))[Levels][Topic])
    BY <1>2, <2>1, toMsgType, Trees, TopicBuilt DEF TInv
  <2>3. got.msg = read.val /\ ~read.threw
    BY <1>2 DEF Called
  <2> HIDE DEF read
  <2> QED
    BY <2>2, <2>3 DEF Finished, ReadOf, IsRead
<1>4. Shown(Tree(Sub), q)
  BY <1>3 DEF Shown
<1>5. ToolInv'
  <2>1. UNCHANGED <<factoryVars, toolVars>>
    BY <1>1
  <2> QED
    BY <2>1 DEF TInv, ToolInv, IInv, FactoryTypeOK, CodeStaysLoaded, Tree, factoryVars, toolVars
<1>6. Tree(Pub)' = Tree(Pub) /\ Tree(Sub)' = Tree(Sub) /\ packers_' = packers_
  BY <1>1 DEF Tree, toolVars, factoryVars
<1>7. Shown(Tree(Sub), printed)' /\ alive' \in [Procs -> BOOLEAN]
  BY <1>1, <1>4, <1>6, TopicAssumption DEF TInv, TopicInv
<1>8. TopicInv'
  <2>1. UNCHANGED <<advertised, subscribed, wire, got>> /\ ~got.threw
    BY <1>1, <1>2
  <2> QED
    BY <1>2, <1>6, <1>7, <2>1 DEF TInv, TopicInv
<1> QED
  BY <1>5, <1>8 DEF TInv

-----------------------------------------------------------------------------
(***************************************************************************)
(* The theorems that rest on the invariant alone, and that a step is one   *)
(* of the factories'.                                                      *)
(***************************************************************************)
\* The initial states.
LEMMA TopicStart == Init => TInv
<1> SUFFICES ASSUME Init PROVE TInv
  OBVIOUS
<1>1. IInv
  BY FactoryStart DEF Init
<1>2. ToolInv
  <2>1. \A p \in Procs, t \in Messages : t \notin packers_[p] /\ \A d \in Dirs : disk[p][<<d, t>>] # "good"
    BY DEF Init, FactoryInit, Types
  <2>2. source \in DOMAIN Cases /\ generated = [p \in Procs |-> {}] /\ changes \in 0..MaxChanges
    BY ChangesAssumption DEF Init
  <2> QED
    BY <1>1, <2>1, <2>2 DEF ToolInv
<1>3. TopicInv
  BY DEF Init, TopicInv
<1> QED
  BY <1>2, <1>3 DEF TInv

\* Every step keeps the invariant.
LEMMA TopicInductive == TInv /\ [Next]_vars => TInv'
<1> SUFFICES ASSUME TInv, [Next]_vars PROVE TInv'
  OBVIOUS
<1>1. ASSUME NEW p \in Procs, Generate(p) PROVE TInv'
  <2>1. UNCHANGED <<factoryVars, source, topicVars>>
    BY <1>1 DEF Generate
  <2> QED
    BY <1>1, <2>1, GenerateInv, TopicKept DEF TInv, factoryVars
<1>2. ASSUME NEW p \in Procs, NEW d \in Dirs, NEW t \in Types, Install(p, d, t) PROVE TInv'
  <2>1. packers_' = packers_ /\ UNCHANGED <<source, topicVars>>
    BY <1>2 DEF Install, ChangeDisk, toolVars
  <2> QED
    BY <1>2, <2>1, InstallInv, TopicKept DEF TInv
<1>3. ASSUME NEW p \in Procs, NEW d \in Dirs, NEW t \in Types, NEW status \in {"absent", "noinit"},
             Spoil(p, d, t, status)
      PROVE  TInv'
  <2>1. packers_' = packers_ /\ UNCHANGED <<source, topicVars>>
    BY <1>3 DEF Spoil, ChangeDisk
  <2> QED
    BY <1>3, <2>1, SpoilInv, TopicKept DEF TInv
<1>4. CASE UNCHANGED vars
  <2>1. UNCHANGED <<factoryVars, toolVars, topicVars>>
    BY <1>4 DEF vars, toolVars, topicVars
  <2>2. ToolInv'
    BY <2>1 DEF TInv, ToolInv, IInv, FactoryTypeOK, CodeStaysLoaded, Tree, factoryVars, toolVars
  <2>3. packers_' = packers_ /\ source' = source
    BY <2>1 DEF factoryVars, toolVars
  <2> QED
    BY <2>1, <2>2, <2>3, TopicKept DEF TInv
<1> QED
  BY <1>1, <1>2, <1>3, <1>4, advertiseInv, subscribeInv, useServiceInv, publishInv, spinOnceInv,
     echoInv, publishJSONInv DEF Next

LEMMA TopicInvariant == Spec => []TInv
BY TopicStart, TopicInductive, PTL DEF Spec

\* What is delivered was read within the packet.
LEMMA TypesHold == TInv => TypeOK
<1> SUFFICES ASSUME TInv PROVE TypeOK
  OBVIOUS
<1>1. ASSUME wire # Nothing
      PROVE  ToSet(wire.bytes) \subseteq Byte
  <2>1. wire.bytes \in Seq(Byte)
    BY <1>1, toPacketType, Trees, TopicBuilt DEF Sent, TInv, TopicInv
  <2> QED
    BY <2>1, Elements, ElementOfSeq
<1> QED
  BY <1>1 DEF TInv, ToolInv, TopicInv, TypeOK, IInv

LEMMA WithinHolds == TInv => ReadWithinPacket
<1> SUFFICES ASSUME TInv, got # Nothing PROVE got.at <= Len(got.sent.bytes)
  BY DEF ReadWithinPacket
<1>1. advertised /\ subscribed /\ Called(Tree(Pub), Tree(Sub), got)
  BY DEF TInv, TopicInv
<1> DEFINE read == toMsg(Tree(Sub), got.known, Topic, got.sent.bytes, 0)
<1>2. got.sent.bytes \in Seq(Byte)
  BY <1>1, toPacketType, Trees, TopicBuilt DEF Called, Sent, TInv
<1>3. Finished(read, 0, got.sent.bytes, Msgs(Tree(Sub))[Levels][Topic])
  BY <1>1, <1>2, toMsgType, Trees, TopicBuilt DEF TInv
<1>4. got.at = read.at
  BY <1>1 DEF Called
<1>5. Len(got.sent.bytes) \in Nat
  BY <1>2, LenProperties
<1> HIDE DEF read
<1> QED
  BY <1>3, <1>4, <1>5 DEF Finished, ReadOf, IsRead

\* Every step is one of the packer factories, or leaves them alone.
LEMMA StepOfFactory == TInv /\ [Next]_vars => [FactoryNext]_factoryVars
<1> SUFFICES ASSUME TInv, [Next]_vars PROVE [FactoryNext]_factoryVars
  OBVIOUS
<1>1. ASSUME NEW p \in Procs, NEW asked \in SUBSET ((Types \cup {App}) \X Types), LookUp(p, asked)
      PROVE  FactoryNext
  BY <1>1 DEF FactoryNext
<1>2. ASSUME NEW p \in Procs, NEW d \in Dirs, NEW t \in Types, NEW status \in Status, ChangeDisk(p, d, t, status)
      PROVE  FactoryNext
  BY <1>2 DEF FactoryNext
<1>3. ASSUME NEW p \in Procs, Generate(p) PROVE UNCHANGED factoryVars
  BY <1>3 DEF Generate
<1>4. ASSUME NEW p \in Procs, NEW d \in Dirs, NEW t \in Types, Install(p, d, t) PROVE FactoryNext
  <2>1. "good" \in Status
    BY DEF Status
  <2> QED
    BY <1>2, <1>4, <2>1 DEF Install
<1>5. ASSUME NEW p \in Procs, NEW d \in Dirs, NEW t \in Types, NEW status \in {"absent", "noinit"},
             Spoil(p, d, t, status)
      PROVE  FactoryNext
  <2>1. status \in Status
    BY DEF Status
  <2> QED
    BY <1>2, <1>5, <2>1 DEF Spoil
<1>6. ASSUME advertise \/ subscribe PROVE FactoryNext
  <2>1. Pub \in Procs /\ Sub \in Procs /\ {<<App, Topic>>} \in SUBSET ((Types \cup {App}) \X Types)
    BY Trees, AppAsks DEF TInv
  <2> QED
    BY <1>1, <1>6, <2>1 DEF advertise, subscribe
<1>7. ASSUME NEW p \in Procs, NEW t \in Services, useService(p, t) PROVE FactoryNext
  <2>1. {<<App, t>>} \in SUBSET ((Types \cup {App}) \X Types)
    BY AppAsks DEF Types
  <2> QED
    BY <1>1, <1>7, <2>1 DEF useService
<1>8. ASSUME NEW m, NEW of, Send(m, of) PROVE FactoryNext
  <2>1. Pub \in Procs /\ Asked(Tree(Pub), KnownMsgs(Pub), Topic, m) \in SUBSET ((Types \cup {App}) \X Types)
    BY Trees, AskedTypes, TopicAssumption DEF TInv
  <2>2. LookUp(Pub, Asked(Tree(Pub), KnownMsgs(Pub), Topic, m))
    BY <1>8 DEF Send
  <2> QED
    BY <1>1, <2>1, <2>2
<1>9. ASSUME spinOnce PROVE [FactoryNext]_factoryVars
  <2> DEFINE m == toMsg(Tree(Sub), KnownMsgs(Sub), Topic, wire.bytes, 0).val
             asked == Asked(Tree(Sub), KnownMsgs(Sub), Topic, m)
  <2>1. Sub \in Procs /\ asked \in SUBSET ((Types \cup {App}) \X Types)
    BY Trees, AskedTypes, TopicAssumption DEF TInv
  <2>2. UNCHANGED factoryVars \/ LookUp(Sub, asked)
    BY <1>9 DEF spinOnce, Deliver
  <2> HIDE DEF asked
  <2> QED
    BY <1>1, <2>1, <2>2
<1>10. ASSUME echo PROVE UNCHANGED factoryVars
  BY <1>10 DEF echo
<1>11. ASSUME publishJSON PROVE [FactoryNext]_factoryVars
  BY <1>8, <1>11 DEF publishJSON
<1>12. ASSUME NEW m, publish(m) PROVE FactoryNext
  BY <1>8, <1>12 DEF publish
<1>13. ASSUME UNCHANGED vars PROVE UNCHANGED factoryVars
  BY <1>13 DEF vars
<1> HIDE DEF FactoryNext
<1> QED
  BY <1>3, <1>4, <1>5, <1>6, <1>7, <1>9, <1>10, <1>11, <1>12, <1>13 DEF Next

-----------------------------------------------------------------------------
\* The types of the whole, and that a packet is a sequence of bytes, whatever the
\* definitions, the messages and the libraries are.
THEOREM TopicTypesCorrect == Spec => []TypeOK
BY TopicInvariant, TypesHold, PTL

\* Whatever the two definitions are, and whatever the bytes say, nothing is read
\* beyond the end of the packet.
THEOREM NeverReadBeyond == Spec => []ReadWithinPacket
BY TopicInvariant, WithinHolds, PTL

\* The two processes use their packer factories as any may be used: what holds of
\* every factory holds of theirs.
THEOREM UsesTheFactories == Spec => FactorySpec
<1>1. Init => FactoryInit
  BY DEF Init
<1> QED
  BY <1>1, TopicInvariant, StepOfFactory, PTL DEF Spec, FactorySpec

\* And so, whatever libraries come and go while messages are published, the code of
\* the packers that both have found stays loaded, and they find them for ever.
THEOREM PackersOfTheTopicStay == Spec => []CodeStaysLoaded /\ FoundStaysFound
BY UsesTheFactories, LoadedForEver, FoundForEver, PTL

-----------------------------------------------------------------------------
(***************************************************************************)
(* What is left of a message that goes through JSON: its vectors are       *)
(* emptied, its bytes become the digits they were printed as, its floats   *)
(* lose digits and its strings their backslashes.                          *)
(***************************************************************************)
\* The messages that have packers are among those of the definitions, and of the
\* known types.
LEMMA KnownWithin ==
  ASSUME NEW tree, IsTree(tree), NEW known, NEW t, NEW m
  PROVE  \A k \in 0..Levels :
           /\ Within(tree, known, t, m)[k] \subseteq Within(tree, Mentioned(tree), t, m)[k]
           /\ \A x \in Within(tree, known, t, m)[k] : x[1] \in known \cup {t}
<1> DEFINE W == Within(tree, known, t, m)
           V == Within(tree, Mentioned(tree), t, m)
           T == {k \in 0..Levels : W[k] \subseteq V[k] /\ \A x \in W[k] : x[1] \in known \cup {t}}
<1>1. 0 \in T
  BY WithinDef, TypesAssumption
<1>2. \A k \in 0..(Levels - 1) : k \in T => k + 1 \in T
  <2> SUFFICES ASSUME NEW k \in 0..(Levels - 1), k \in T, NEW y \in W[k + 1]
               PROVE  y \in V[k + 1] /\ y[1] \in known \cup {t}
    BY TypesAssumption
  <2>1. PICK x \in W[k] : y \in Members(tree, known, x)
    BY WithinDef
  <2>2. y \in Members(tree, Mentioned(tree), x)
    <3>1. \A i \in DOMAIN Fields(tree, x[1]) :
            ~to_cxx_typeName(Fields(tree, x[1])[i]) => Fields(tree, x[1])[i].type \in Mentioned(tree)
      BY FieldType
    <3> QED
      BY <2>1, <3>1 DEF Members
  <2>3. x \in V[k]
    OBVIOUS
  <2>4. y \in V[k + 1]
    BY <2>2, <2>3, WithinDef
  <2>5. y[1] \in known
    BY <2>1, MemberOf
  <2> QED
    BY <2>4, <2>5
<1>3. \A k \in 0..Levels : k \in T
  <2> HIDE DEF T
  <2> QED
    BY <1>1, <1>2, TypesAssumption, Induction
<1> QED
  BY <1>3

\* What is left of a value that has JSON, when it is a number.
LEMMA NumberLeft ==
  ASSUME NEW type \in {"uint8"} \cup Words, NEW v \in Values(type), jsonOf(type, v).is # "bad"
  PROVE  jsonOf(type, v).is = "number" /\ getAs(type, jsonOf(type, v)) = Read(LeftOf(type, v))
<1>0. NoJson.is = "bad" /\ \A n : Json("number", n).is = "number" /\ Json("number", n).val = n
  BY DEF NoJson, Json
<1>1. CASE type = "uint8"
  <2>1. jsonOf(type, v) = Json("number", Digit[v])
    BY <1>0, <1>1 DEF jsonOf, Words, Floats
  <2>2. LeftOf(type, v) = Digit[v] % Base
    BY <1>1 DEF LeftOf, Floats
  <2> QED
    BY <1>0, <1>1, <2>1, <2>2 DEF getAs, Words, Floats
<1>2. CASE type \in Floats
  <2>0. type \notin {"uint8", "string", "time"} /\ type \in Words /\ type \notin Words \ Floats
    BY <1>2, WordTypes DEF Words
  <2>1. jsonOf(type, v) = Json("number", SixDigits[v])
    BY <1>0, <1>2, <2>0 DEF jsonOf
  <2>2. LeftOf(type, v) = NearestFloat[SixDigits[v]]
    BY <1>2, <2>0 DEF LeftOf
  <2> DEFINE n == SixDigits[v]
  <2>3. getAs(type, Json("number", n)) = Read(NearestFloat[n])
    BY <1>0, <1>2, <2>0 DEF getAs
  <2> QED
    BY <1>0, <2>1, <2>2, <2>3
<1>3. CASE type \in Words \ Floats
  <2>0. type \notin {"uint8", "string", "time"} /\ v \in 0..(Full - 1)
    BY <1>3, WordTypes
  <2>1. jsonOf(type, v) = Json("number", v)
    BY <1>3, <2>0 DEF jsonOf
  <2>2. v % Full = v
    BY <2>0, FullType
  <2>3. LeftOf(type, v) = v
    BY <1>3, <2>0 DEF LeftOf
  <2>4. getAs(type, Json("number", v)) = Read(v % Full)
    BY <1>0, <1>3, <2>0 DEF getAs
  <2> QED
    BY <1>0, <2>1, <2>2, <2>3, <2>4
<1> QED
  BY <1>1, <1>2, <1>3

LEMMA PrimitiveLeft ==
  ASSUME NEW type \in Primitive, NEW v \in Values(type), NEW blank, jsonOf(type, v).is # "bad"
  PROVE  /\ jsonOf(type, v).is # "null"
         /\ setPrimitive(type, jsonOf(type, v), blank) = Read(LeftOf(type, v))
<1>1. CASE type \in {"uint8"} \cup Words
  <2>1. jsonOf(type, v).is = "number" /\ getAs(type, jsonOf(type, v)) = Read(LeftOf(type, v))
    BY <1>1, NumberLeft
  <2>2. type \notin {"string", "time"}
    BY <1>1, WordTypes
  <2>3. setPrimitive(type, jsonOf(type, v), blank) = getAs(type, jsonOf(type, v))
    BY <2>1, <2>2 DEF setPrimitive, isType
  <2> QED
    BY <2>1, <2>3
<1>2. CASE type = "string"
  <2>0. type # "uint8" /\ type \notin Words /\ type \notin Floats
    BY <1>2, WordTypes DEF Words
  <2>1. jsonOf(type, v) = stringOf(v) /\ LeftOf(type, v) = stringOf(v).val
    BY <1>2, <2>0 DEF jsonOf, LeftOf
  <2>2. PICK s : stringOf(v) = Json("string", s)
    <3>1. NoJson.is = "bad"
      BY DEF NoJson, Json
    <3> QED
      BY <1>2, <2>1, <3>1, stringOfType
  <2> DEFINE j == stringOf(v)
  <2>3. j.is = "string"
    BY <2>2 DEF Json
  <2> HIDE DEF j
  <2>4. setPrimitive(type, j, blank) = getAs(type, j)
    BY <1>2, <2>3 DEF setPrimitive, isType
  <2>5. getAs(type, j) = Read(j.val)
    BY <1>2, <2>0, <2>3 DEF getAs
  <2> QED
    BY <2>1, <2>3, <2>4, <2>5 DEF j
<1>3. CASE type = "time"
  <2> DEFINE o == [sec |-> Json("number", v[1]), nsec |-> Json("number", v[2])]
             j == jsonOf(type, v)
  <2>1. j = Json("object", o)
    <3>1. j = Object(o)
      BY <1>3 DEF jsonOf, Words, Floats
    <3> QED
      BY <3>1 DEF Object, NoJson, Json
  <2>2. j.is = "object" /\ j.val = o
    BY <2>1 DEF Json
  <2>3. get(j, "sec") = Json("number", v[1]) /\ get(j, "nsec") = Json("number", v[2])
    BY <2>2 DEF get
  <2>4. v[1] % Full = v[1] /\ v[2] % Full = v[2] /\ v = <<v[1], v[2]>>
    BY <1>3, FullType DEF Values, Words, Floats
  <2>5. \A n : getAs("uint32", Json("number", n)) = Read(n % Full)
    BY DEF getAs, Json, Words, Floats
  <2> HIDE DEF j
  <2>6. getAs("uint32", get(j, "sec")) = Read(v[1]) /\ getAs("uint32", get(j, "nsec")) = Read(v[2])
    BY <2>3, <2>4, <2>5
  <2>7. setTime(j, blank) = Read(<<v[1], v[2]>>)
    <3>1. Read(v[1]).val = v[1] /\ ~Read(v[1]).threw /\ Read(v[2]).val = v[2] /\ ~Read(v[2]).threw
      BY DEF Read
    <3> QED
      BY <2>2, <2>6, <3>1 DEF setTime
  <2>8. setPrimitive(type, j, blank) = setTime(j, blank)
    BY <1>3 DEF setPrimitive
  <2> QED
    BY <1>3, <2>2, <2>4, <2>7, <2>8 DEF LeftOf, Floats, j
<1> QED
  BY <1>1, <1>2, <1>3 DEF Primitive

\* What is left of a member.
LeftMember(known, f, v, blank, inner) ==
  LET one(w) == IF to_cxx_typeName(f) THEN LeftOf(f.type, w)
                ELSE IF f.type \in known THEN inner[<<f.type, w>>]
                ELSE blank
  IN IF is_array(f) THEN << >>
     ELSE IF is_fixed_array(f) THEN [j \in 1..f.dims |-> one(v[j])]
     ELSE one(v)

LEMMA LeftMsgDef ==
  ASSUME NEW tree, NEW known, NEW x, NEW blank, NEW inner
  PROVE  LeftMsg(tree, known, x, blank, inner) =
           [i \in DOMAIN Fields(tree, x[1]) |->
              LeftMember(known, Fields(tree, x[1])[i], x[2][i], blank[i], inner)]
BY DEF LeftMsg, LeftMember

\* What the way of a member through JSON rests on, when it is a message.
Through(known, f, v, json, set, left) ==
  LET y == <<f.type, v>>
      made == set[<<f.type, json[y]>>]
  IN ~is_many(f) /\ ~to_cxx_typeName(f)
       => /\ json[y].is # "null"
          /\ f.type \in known /\ json[y].is # "bad" /\ ~made.threw => made = Read(left[y])

\* The way of one member through JSON.
LEMMA MemberLeft ==
  ASSUME NEW tree, IsTree(tree), NEW u, Compiles(tree, u), NEW i \in DOMAIN Fields(tree, u),
         NEW known, NEW some, NEW v \in Held(Fields(tree, u)[i], some), NEW blank,
         NEW json, NEW set, NEW left, NEW j, j = OfMember(Fields(tree, u)[i], v, json),
         j.is # "bad",
         Through(known, Fields(tree, u)[i], v, json, set, left),
         ~setField(known, Fields(tree, u)[i], blank, j, set).threw
  PROVE  /\ j.is # "null"
         /\ setField(known, Fields(tree, u)[i], blank, j, set)
              = Read(LeftMember(known, Fields(tree, u)[i], v, blank, left))
<1> DEFINE f == Fields(tree, u)[i]
<1>0. f \in Line /\ f \in ToSet(Fields(tree, u))
  BY FieldType
<1>1. /\ is_fixed_array(f) => to_cxx_typeName(f) /\ f.type # "string"
      /\ is_array(f) \/ is_fixed_array(f) => f.type # "time"
  BY <1>0 DEF Compiles
<1>2. CASE is_array(f)
  <2> DEFINE s == [k \in DOMAIN v |-> One(f, v[k], json)]
  <2>1. j = Array(s)
    BY <1>2 DEF OfMember, is_many
  <2>2. j = Json("array", s)
    BY <2>1 DEF Array, NoJson, Json
  <2>3. j.is = "array"
    BY <2>2 DEF Json
  <2>4. setField(known, f, blank, j, set) = Read(SubSeq(j.val, 1, 0))
    BY <1>2, <2>3 DEF setField, arraySize
  <2>5. SubSeq(j.val, 1, 0) = << >>
    BY SubSeqEmpty
  <2> QED
    BY <1>2, <2>3, <2>4, <2>5 DEF LeftMember
<1>3. CASE ~is_array(f) /\ is_fixed_array(f)
  <2> DEFINE s == [k \in DOMAIN v |-> One(f, v[k], json)]
             rs == [k \in 1..f.dims |-> getAs(f.type, j.val[k])]
  <2>1. f.type \in {"uint8"} \cup Words /\ Some(f, some) = Values(f.type) /\ to_cxx_typeName(f)
    BY <1>1, <1>3 DEF to_cxx_typeName, Primitive, Some
  <2>2. v \in [1..f.dims -> Values(f.type)] /\ f.dims \in Nat /\ v \in Seq(Values(f.type)) /\ Len(v) = f.dims
    BY <1>0, <1>3, <2>1, HeldCases
  <2>3. j = Array(s)
    BY <1>3 DEF OfMember, is_many
  <2>4. j = Json("array", s) /\ Whole(s)
    BY <2>3 DEF Array, NoJson, Json
  <2>5. j.is = "array" /\ j.val = s /\ DOMAIN s = 1..f.dims /\ s = [k \in 1..f.dims |-> s[k]]
    BY <2>2, <2>4 DEF Json
  <2>6. \A k \in 1..f.dims : s[k] = jsonOf(f.type, v[k])
    BY <2>1, <2>2 DEF One
  <2>7. \A k \in 1..f.dims : getAs(f.type, s[k]) = Read(LeftOf(f.type, v[k]))
    <3> TAKE k \in 1..f.dims
    <3>1. s[k].is # "bad"
      BY <2>4, <2>5 DEF Whole
    <3>2. v[k] \in Values(f.type)
      BY <2>2
    <3> HIDE DEF s, f
    <3> QED
      BY <2>1, <2>6, <3>1, <3>2, NumberLeft
  <2>8. Len(s) = f.dims
    <3>1. \A k \in 1..f.dims : s[k] \in {s[l] : l \in 1..f.dims}
      OBVIOUS
    <3>2. s \in [1..f.dims -> {s[l] : l \in 1..f.dims}]
      <4> HIDE DEF s
      <4> QED
        BY <2>5, <3>1
    <3> HIDE DEF s
    <3> QED
      BY <2>2, <3>2, Places
  <2>9. rs = [k \in 1..f.dims |-> Read(LeftOf(f.type, v[k]))]
    <3> HIDE DEF s
    <3> QED
      BY <2>5, <2>7
  <2>10. setField(known, f, blank, j, set) = Read([k \in 1..f.dims |-> LeftOf(f.type, v[k])])
    <3>1. ~(Len(j.val) < f.dims)
      <4> HIDE DEF s
      <4> QED
        BY <2>2, <2>5, <2>8
    <3>2. setField(known, f, blank, j, set) =
            IF \E k \in DOMAIN rs : rs[k].threw THEN Thrown ELSE Read([k \in DOMAIN rs |-> rs[k].val])
      BY <1>3, <2>5, <3>1 DEF setField
    <3>3. DOMAIN rs = 1..f.dims /\ \A k \in 1..f.dims : ~rs[k].threw /\ rs[k].val = LeftOf(f.type, v[k])
      <4>1. DOMAIN rs = 1..f.dims /\ \A k \in 1..f.dims : rs[k] = Read(LeftOf(f.type, v[k]))
        BY <2>9
      <4>2. \A w : ~Read(w).threw /\ Read(w).val = w
        BY DEF Read
      <4> HIDE DEF rs, f
      <4> QED
        BY <4>1, <4>2
    <3> HIDE DEF rs
    <3>4. [k \in DOMAIN rs |-> rs[k].val] = [k \in 1..f.dims |-> LeftOf(f.type, v[k])]
      BY <3>3
    <3> QED
      BY <3>2, <3>3, <3>4
  <2>11. LeftMember(known, f, v, blank, left) = [k \in 1..f.dims |-> LeftOf(f.type, v[k])]
    BY <1>3, <2>1 DEF LeftMember
  <2> QED
    BY <2>5, <2>10, <2>11
<1>4. CASE ~is_many(f) /\ to_cxx_typeName(f)
  <2>1. f.type \in Primitive /\ v \in Values(f.type)
    BY <1>0, <1>4, HeldCases DEF to_cxx_typeName, Some
  <2>2. j = jsonOf(f.type, v)
    BY <1>4 DEF OfMember, One
  <2>3. setField(known, f, blank, j, set) = setPrimitive(f.type, j, blank)
    BY <1>4 DEF setField, is_many
  <2>4. LeftMember(known, f, v, blank, left) = LeftOf(f.type, v)
    BY <1>4 DEF LeftMember, is_many
  <2>5. j.is # "null" /\ setField(known, f, blank, j, set) = Read(LeftMember(known, f, v, blank, left))
    <3> HIDE DEF f
    <3> QED
      BY <2>1, <2>2, <2>3, <2>4, PrimitiveLeft
  <2> QED
    BY <2>5
<1>5. CASE ~is_many(f) /\ ~to_cxx_typeName(f)
  <2>1. j = json[<<f.type, v>>]
    BY <1>5 DEF OfMember, One
  <2>2. CASE f.type \in known
    <3>1. setField(known, f, blank, j, set) = set[<<f.type, j>>]
      BY <1>5, <2>2 DEF setField, is_many
    <3>2. LeftMember(known, f, v, blank, left) = left[<<f.type, v>>]
      BY <1>5, <2>2 DEF LeftMember, is_many
    <3> QED
      BY <1>5, <2>1, <2>2, <3>1, <3>2 DEF Through
  <2>3. CASE f.type \notin known
    <3>1. setField(known, f, blank, j, set) = Read(blank)
      BY <1>5, <2>3 DEF setField, is_many
    <3>2. LeftMember(known, f, v, blank, left) = blank
      BY <1>5, <2>3 DEF LeftMember, is_many
    <3> QED
      BY <1>5, <2>1, <3>1, <3>2 DEF Through
  <2> QED
    BY <2>2, <2>3
<1> QED
  BY <1>2, <1>3, <1>4, <1>5 DEF is_many

\* A message whose way through JSON is no exception, and that of its members.
MembersThrough(tree, known, x, blank, json, set, left) ==
  LET j == JsonOfMsg(tree, x, json) IN
  /\ j.is # "bad" /\ ~setMsg(tree, known, <<x[1], j>>, blank, set).threw
  /\ \A y \in Members(tree, Mentioned(tree), x) : json[y].is # "null"
  /\ \A y \in Members(tree, known, x) :
       json[y].is # "bad" /\ <<y[1], json[y]>> \in Objects(tree, known, <<x[1], j>>)
         /\ ~set[<<y[1], json[y]>>].threw
       => set[<<y[1], json[y]>>] = Read(left[y])

\* The way of one message through JSON, when those of its members have theirs.
LEMMA MessageLeft ==
  ASSUME NEW tree, IsTree(tree), NEW x, Compiles(tree, x[1]), NEW known, NEW some,
         \A i \in DOMAIN Fields(tree, x[1]) : x[2][i] \in Held(Fields(tree, x[1])[i], some),
         NEW json, NEW set, NEW left, NEW blank,
         MembersThrough(tree, known, x, blank, json, set, left)
  PROVE  LET j == JsonOfMsg(tree, x, json) IN
         setMsg(tree, known, <<x[1], j>>, blank, set) = Read(LeftMsg(tree, known, x, blank, left))
<1> DEFINE u == x[1]
           fields == Fields(tree, u)
           j == JsonOfMsg(tree, x, json)
           names == {f.name : f \in ToSet(fields)}
           at(k) == CHOOSE i \in DOMAIN fields : fields[i].name = k
           of(i) == OfMember(fields[i], x[2][i], json)
           o == [k \in names |-> of(at(k))]
           set1(i) == setMember(known, fields[i], blank[i], <<u, j>>[2], set)
<1>0. /\ j.is # "bad" /\ ~setMsg(tree, known, <<u, j>>, blank, set).threw
      /\ \A y \in Members(tree, Mentioned(tree), x) : json[y].is # "null"
      /\ \A y \in Members(tree, known, x) :
           json[y].is # "bad" /\ <<y[1], json[y]>> \in Objects(tree, known, <<u, j>>)
             /\ ~set[<<y[1], json[y]>>].threw
           => set[<<y[1], json[y]>>] = Read(left[y])
  BY DEF MembersThrough
<1>1. \A i \in DOMAIN fields : fields[i].name \in names /\ at(fields[i].name) = i
  <2> TAKE i \in DOMAIN fields
  <2>1. fields[i] \in ToSet(fields)
    BY FieldType
  <2>2. \A k, l \in DOMAIN fields : fields[k].name = fields[l].name => k = l
    BY DEF Compiles
  <2>3. at(fields[i].name) \in DOMAIN fields /\ fields[at(fields[i].name)].name = fields[i].name
    <3> HIDE DEF fields
    <3> QED
      OBVIOUS
  <2> HIDE DEF fields, at
  <2> QED
    BY <2>1, <2>2, <2>3
<1>2. j = Object(o)
  BY JsonOfMsgDef
<1>3. j = Json("object", o) /\ Whole(o)
  <2>1. j.is # "bad"
    BY <1>0
  <2> HIDE DEF j, o
  <2> QED
    BY <1>2, <2>1 DEF Object, NoJson, Json
<1>4. j.is = "object" /\ j.val = o
  BY <1>3 DEF Json
<1>5. \A i \in DOMAIN fields : get(j, fields[i].name) = of(i) /\ of(i).is # "bad"
  <2> TAKE i \in DOMAIN fields
  <2>1. fields[i].name \in DOMAIN o /\ o[fields[i].name] = of(i)
    <3> HIDE DEF of, at, fields, names
    <3> QED
      BY <1>1
  <2> HIDE DEF o, of, fields
  <2> QED
    BY <1>3, <1>4, <2>1 DEF get, Whole
<1>6. /\ \A i \in DOMAIN fields : ~set1(i).threw
      /\ setMsg(tree, known, <<u, j>>, blank, set) = Read([i \in DOMAIN fields |-> set1(i).val])
  <2>1. setMsg(tree, known, <<u, j>>, blank, set) =
          IF \E i \in DOMAIN fields : set1(i).threw THEN Thrown
          ELSE Read([i \in DOMAIN fields |-> set1(i).val])
    BY DEF setMsg
  <2>2. Thrown.threw
    BY DEF Thrown
  <2>3. ~setMsg(tree, known, <<u, j>>, blank, set).threw
    BY <1>0
  <2> HIDE DEF set1, fields, j, u
  <2> QED
    BY <2>1, <2>2, <2>3
<1>7. ASSUME NEW i \in DOMAIN fields
      PROVE  set1(i) = Read(LeftMember(known, fields[i], x[2][i], blank[i], left))
  <2> DEFINE f == fields[i]
             v == x[2][i]
             y == <<f.type, v>>
  <2>1. set1(i) = CASE of(i).is = "null" -> Read(blank[i])
                    [] of(i).is = "bad" -> Thrown
                    [] OTHER -> setField(known, f, blank[i], of(i), set)
    <3>1. <<u, j>>[2] = j
      OBVIOUS
    <3>2. set1(i) = setMember(known, f, blank[i], j, set)
      BY <3>1
    <3>3. get(j, f.name) = of(i)
      BY <1>5
    <3> HIDE DEF set1, of, j, f
    <3> QED
      BY <3>2, <3>3 DEF setMember
  <2>2. ASSUME ~is_many(f), ~to_cxx_typeName(f)
        PROVE  /\ json[y].is # "null"
               /\ f.type \in known /\ json[y].is # "bad" /\ ~set[<<f.type, json[y]>>].threw
                    => set[<<f.type, json[y]>>] = Read(left[y])
    <3>0. f.type \in Mentioned(tree) /\ f \in ToSet(fields)
      BY <2>2, FieldType
    <3>1. y \in Members(tree, Mentioned(tree), x) /\ (f.type \in known => y \in Members(tree, known, x))
      BY <2>2, <3>0 DEF Members
    <3>2. of(i) = json[y]
      BY <2>2 DEF OfMember, One
    <3>3. f.type \in known => <<y[1], json[y]>> \in Objects(tree, known, <<u, j>>)
      <4>1. f.type \in known => <<f.type, get(<<u, j>>[2], f.name)>> \in Objects(tree, known, <<u, j>>)
        BY <2>2, <3>0 DEF Objects
      <4>2. <<u, j>>[2] = j /\ y[1] = f.type
        OBVIOUS
      <4>3. get(j, f.name) = of(i)
        BY <1>5
      <4> HIDE DEF j, of, y, f, u
      <4> QED
        BY <3>2, <4>1, <4>2, <4>3
    <3>4. y[1] = f.type
      OBVIOUS
    <3> HIDE DEF y, f, fields
    <3> QED
      BY <1>0, <3>1, <3>3, <3>4
  <2>3. ~set1(i).threw /\ of(i).is # "bad"
    BY <1>5, <1>6
  <2>4. of(i).is = "null" => ~Read(blank[i]).threw
    BY DEF Read
  <2>5. x[2][i] \in Held(fields[i], some)
    OBVIOUS
  <2>6. of(i).is # "null"
    <3>1. CASE is_many(f)
      <4>1. of(i) = Array([k \in DOMAIN v |-> One(f, v[k], json)])
        BY <3>1 DEF OfMember
      <4> HIDE DEF f, v, of
      <4> QED
        BY <4>1 DEF Array, Json, NoJson
    <3>2. CASE ~is_many(f) /\ ~to_cxx_typeName(f)
      <4>1. of(i) = json[y]
        BY <3>2 DEF OfMember, One
      <4> QED
        BY <2>2, <3>2, <4>1
    <3>3. CASE ~is_many(f) /\ to_cxx_typeName(f)
      <4>1. of(i) = jsonOf(f.type, v)
        BY <3>3 DEF OfMember, One
      <4>2. f \in Line /\ f.type \in Primitive /\ v \in Values(f.type)
        BY <2>5, <3>3, FieldType, HeldCases DEF to_cxx_typeName, Some
      <4> HIDE DEF f, v, of
      <4> QED
        BY <2>3, <4>1, <4>2, PrimitiveLeft
    <3> QED
      BY <3>1, <3>2, <3>3
  <2>7. set1(i) = setField(known, f, blank[i], of(i), set)
    <3> HIDE DEF set1, of, f
    <3> QED
      BY <2>1, <2>3, <2>6
  <2>8. setField(known, f, blank[i], of(i), set) = Read(LeftMember(known, f, v, blank[i], left))
    <3>1. ~setField(known, f, blank[i], of(i), set).threw
      BY <2>3, <2>7
    <3>2. of(i) = OfMember(f, v, json)
      OBVIOUS
    <3>3. Through(known, f, v, json, set, left)
      BY <2>2 DEF Through
    <3> HIDE DEF of, set1
    <3> QED
      BY <2>3, <2>5, <3>1, <3>2, <3>3, MemberLeft
  <2> HIDE DEF set1, of, f, v
  <2> QED
    BY <2>7, <2>8 DEF f, v
<1>8. [i \in DOMAIN fields |-> set1(i).val] = LeftMsg(tree, known, x, blank, left)
  <2>1. \A i \in DOMAIN fields : set1(i).val = LeftMember(known, fields[i], x[2][i], blank[i], left)
    <3>1. \A w : Read(w).val = w
      BY DEF Read
    <3> HIDE DEF set1, fields
    <3> QED
      BY <1>7, <3>1
  <2>2. LeftMsg(tree, known, x, blank, left) =
          [i \in DOMAIN fields |-> LeftMember(known, fields[i], x[2][i], blank[i], left)]
    BY LeftMsgDef
  <2> HIDE DEF set1, fields
  <2> QED
    BY <2>1, <2>2
<1> QED
  BY <1>6, <1>8

-----------------------------------------------------------------------------
(***************************************************************************)
(* A message within messages through JSON, level by level.                 *)
(***************************************************************************)
\* What fromJSON makes of what toJSON made, when it is no exception.
LEMMA LeftHolds ==
  ASSUME NEW tree, IsTree(tree), NEW t \in Mentioned(tree), NEW m \in Msgs(tree)[Levels][t],
         NEW known, \A u \in known \cup {t} : Compiles(tree, u),
         toJSON(tree, t, m).is # "bad", ~fromJSON(tree, known, t, toJSON(tree, t, m)).threw
  PROVE  fromJSON(tree, known, t, toJSON(tree, t, m)) = Read(Left(tree, known, t, m))
<1> DEFINE W == Within(tree, known, t, m)
           V == Within(tree, Mentioned(tree), t, m)
           J == JsonWithin(tree, known, t, toJSON(tree, t, m))
<1>1. PICK json : toJSON(tree, t, m) = json[Levels][<<t, m>>] /\ JsonLevels(json, tree, t, m)
  BY toJSONDef
<1>2. PICK set :
        /\ fromJSON(tree, known, t, toJSON(tree, t, m)) = set[Levels][<<t, toJSON(tree, t, m)>>]
        /\ SetLevels(set, tree, known, t, toJSON(tree, t, m))
  BY fromJSONDef
<1>3. PICK left : Left(tree, known, t, m) = left[Levels][<<t, m>>] /\ LeftLevels(left, tree, known, t, m)
  BY LeftDef
<1>4. \A k \in 0..Levels : W[k] \subseteq V[k] /\ \A x \in W[k] : x[1] \in known \cup {t}
  BY KnownWithin
<1>5. \A k \in 0..Levels : \A x \in W[k] :
        x = <<x[1], x[2]>> /\ x[1] \in Mentioned(tree) /\ x[2] \in Msgs(tree)[Levels - k][x[1]]
  BY WithinMsgs
<1> DEFINE Same(d, x) == json[d][x].is # "bad" /\ <<x[1], json[d][x]>> \in J[Levels - d]
                           /\ ~set[d][<<x[1], json[d][x]>>].threw
                           => set[d][<<x[1], json[d][x]>>] = Read(left[d][x])
           T == {d \in 0..Levels :
                   /\ \A x \in V[Levels - d] : json[d][x].is # "null"
                   /\ \A x \in W[Levels - d] : Same(d, x)}
<1>6. 0 \in T
  <2>1. json[0] = [x \in V[Levels - 0] |-> NoJson]
    BY <1>1 DEF JsonLevels
  <2>2. NoJson.is = "bad"
    BY DEF NoJson, Json
  <2>3. \A x \in V[Levels - 0] : json[0][x].is = "bad"
    BY <2>1, <2>2
  <2>4. Levels \in 0..Levels /\ Levels - 0 = Levels /\ 0 \in 0..Levels
    BY TypesAssumption
  <2>5. W[Levels - 0] \subseteq V[Levels - 0]
    BY <1>4, <2>4
  <2> HIDE DEF V, W
  <2> QED
    BY <2>3, <2>4, <2>5
<1>7. \A d \in 0..(Levels - 1) : d \in T => d + 1 \in T
  <2> SUFFICES ASSUME NEW d \in 0..(Levels - 1), d \in T
               PROVE  d + 1 \in T
    OBVIOUS
  <2> DEFINE k == Levels - (d + 1)
  <2>0. /\ d + 1 \in 0..Levels /\ k \in 0..(Levels - 1) /\ k \in 0..Levels /\ k + 1 = Levels - d
        /\ Levels - k = d + 1
    BY TypesAssumption
  <2>1. \A x \in V[k] : json[d + 1][x] = JsonOfMsg(tree, x, json[d])
    <3>1. json[d + 1] = [z \in V[k] |-> JsonOfMsg(tree, z, json[d])]
      BY <1>1 DEF JsonLevels
    <3> QED
      BY <3>1
  <2>2. \A x \in V[k] : json[d + 1][x].is # "null"
    <3> TAKE x \in V[k]
    <3>1. PICK o : JsonOfMsg(tree, x, json[d]) = Object(o)
      BY JsonOfMsgDef
    <3> HIDE DEF V
    <3> QED
      BY <2>1, <3>1 DEF Object, Json, NoJson
  <2>3. ASSUME NEW x \in W[k], json[d + 1][x].is # "bad", <<x[1], json[d + 1][x]>> \in J[k],
               ~set[d + 1][<<x[1], json[d + 1][x]>>].threw
        PROVE  set[d + 1][<<x[1], json[d + 1][x]>>] = Read(left[d + 1][x])
    <3> DEFINE j == JsonOfMsg(tree, x, json[d])
               blank == Blanks(tree)[d + 1][x[1]]
    <3>1. x \in V[k] /\ json[d + 1][x] = j /\ x[1] \in known \cup {t}
      BY <1>4, <2>0, <2>1
    <3>2. set[d + 1][<<x[1], j>>] = setMsg(tree, known, <<x[1], j>>, blank, set[d])
      <4>1. set[d + 1] = [z \in J[k] |-> setMsg(tree, known, z, Blanks(tree)[d + 1][z[1]], set[d])]
        BY <1>2 DEF SetLevels
      <4>2. <<x[1], j>> \in J[k] /\ <<x[1], j>>[1] = x[1]
        BY <2>3, <3>1
      <4> HIDE DEF j
      <4> QED
        BY <4>1, <4>2
    <3>3. left[d + 1][x] = LeftMsg(tree, known, x, blank, left[d])
      <4>1. left[d + 1] = [z \in W[k] |-> LeftMsg(tree, known, z, Blanks(tree)[d + 1][z[1]], left[d])]
        BY <1>3 DEF LeftLevels
      <4> QED
        BY <4>1
    <3>4. \A i \in DOMAIN Fields(tree, x[1]) : x[2][i] \in Held(Fields(tree, x[1])[i], Msgs(tree)[d])
      <4>1. x[1] \in Mentioned(tree) /\ x[2] \in Msgs(tree)[d + 1][x[1]]
        BY <1>5, <2>0
      <4> QED
        BY <4>1, MsgsStep
    <3>5. \A y \in Members(tree, Mentioned(tree), x) : json[d][y].is # "null"
      <4>1. Members(tree, Mentioned(tree), x) \subseteq V[k + 1]
        BY <2>0, <3>1, WithinDef
      <4> QED
        BY <2>0, <4>1
    <3>6. \A y \in Members(tree, known, x) :
            json[d][y].is # "bad" /\ <<y[1], json[d][y]>> \in Objects(tree, known, <<x[1], j>>)
              /\ ~set[d][<<y[1], json[d][y]>>].threw
            => set[d][<<y[1], json[d][y]>>] = Read(left[d][y])
      <4>1. Members(tree, known, x) \subseteq W[k + 1]
        BY <2>0, WithinDef
      <4>2. Objects(tree, known, <<x[1], j>>) \subseteq J[k + 1]
        <5>1. <<x[1], j>> \in J[k]
          BY <2>3, <3>1
        <5> HIDE DEF j
        <5> QED
          BY <2>0, <5>1, JsonWithinDef
      <4>3. \A y \in W[k + 1] : Same(d, y)
        BY <2>0
      <4> HIDE DEF J, j, W
      <4> QED
        BY <2>0, <4>1, <4>2, <4>3
    <3>7. Compiles(tree, x[1]) /\ j.is # "bad" /\ ~setMsg(tree, known, <<x[1], j>>, blank, set[d]).threw
      BY <2>3, <3>1, <3>2
    <3>8. setMsg(tree, known, <<x[1], j>>, blank, set[d]) = Read(LeftMsg(tree, known, x, blank, left[d]))
      <4>1. MembersThrough(tree, known, x, blank, json[d], set[d], left[d])
        <5> HIDE DEF blank
        <5> QED
          BY <3>5, <3>6, <3>7 DEF MembersThrough
      <4> DEFINE some == Msgs(tree)[d]
                 jsonD == json[d]
                 setD == set[d]
                 leftD == left[d]
      <4>2. \A i \in DOMAIN Fields(tree, x[1]) : x[2][i] \in Held(Fields(tree, x[1])[i], some)
        BY <3>4
      <4>3. MembersThrough(tree, known, x, blank, jsonD, setD, leftD) /\ Compiles(tree, x[1])
        BY <3>7, <4>1
      <4> HIDE DEF W, V, J, blank, some, jsonD, setD, leftD
      <4>4. setMsg(tree, known, <<x[1], JsonOfMsg(tree, x, jsonD)>>, blank, setD)
              = Read(LeftMsg(tree, known, x, blank, leftD))
        BY <4>2, <4>3, MessageLeft
      <4> QED
        BY <4>4 DEF jsonD, setD, leftD
    <3> HIDE DEF j, blank
    <3> QED
      BY <3>1, <3>2, <3>3, <3>8
  <2> HIDE DEF V, W, J
  <2> QED
    BY <2>0, <2>2, <2>3
<1>8. Levels \in T
  <2>1. Levels \in 0..Levels
    BY TypesAssumption
  <2> HIDE DEF T
  <2> QED
    BY <1>6, <1>7, <2>1, TypesAssumption, Induction
<1>9. <<t, m>> \in W[Levels - Levels] /\ <<t, json[Levels][<<t, m>>]>> \in J[Levels - Levels]
  BY <1>1, WithinDef, JsonWithinDef, TypesAssumption
<1>10. Same(Levels, <<t, m>>)
  BY <1>8, <1>9
<1> HIDE DEF T, W, V, J
<1>11. <<t, m>>[1] = t
  OBVIOUS
<1> QED
  BY <1>1, <1>2, <1>3, <1>9, <1>10, <1>11

LEMMA JsonHolds == TInv => JsonKeepsTheRest
<1> SUFFICES ASSUME TInv, wire # Nothing, Tree(Pub) = Tree(Sub), wire.of # Nothing
             PROVE  wire.msg = Left(Tree(Pub), wire.known, Topic, wire.of)
  BY DEF JsonKeepsTheRest
<1> DEFINE tree == Tree(Pub)
           read == fromJSON(tree, wire.known, Topic, toJSON(tree, Topic, wire.of))
<1>1. advertised /\ Sent(tree, tree, wire)
  BY DEF TInv, TopicInv
<1>2. /\ wire.of \in Msgs(tree)[Levels][Topic] /\ toJSON(tree, Topic, wire.of).is # "bad"
      /\ read = Read(wire.msg) /\ \A u \in wire.known : Compiles(tree, u)
  BY <1>1 DEF Sent, Built
<1>3. IsTree(tree) /\ Topic \in Mentioned(tree) /\ Compiles(tree, Topic)
  BY <1>1, Trees, TopicBuilt DEF TInv, Built
<1>4. \A w : ~Read(w).threw /\ Read(w).val = w
  BY DEF Read
<1>5. \A u \in wire.known \cup {Topic} : Compiles(tree, u)
  BY <1>2, <1>3
<1> HIDE DEF tree
<1>6. read = Read(Left(tree, wire.known, Topic, wire.of))
  <2>1. ~read.threw
    <3> HIDE DEF read
    <3> QED
      BY <1>2, <1>4
  <2> QED
    BY <1>2, <1>3, <1>5, <2>1, LeftHolds
<1> HIDE DEF read
<1> QED
  BY <1>2, <1>4, <1>6 DEF tree

\* What echo printed and the pub tool publishes with the same definitions is the
\* message but for its vectors and its bytes, whatever the definition is.
THEOREM JsonKeepsTheRestOfIt == Spec => []JsonKeepsTheRest
BY TopicInvariant, JsonHolds, PTL

-----------------------------------------------------------------------------
(***************************************************************************)
(* A number is what the bytes of its word stand for: the digits in base    *)
(* Base.                                                                   *)
(***************************************************************************)
\* A quotient and a remainder are one.
LEMMA Division ==
  ASSUME NEW n \in Nat, NEW w \in Nat \ {0}
  PROVE  /\ n \div w \in Nat /\ n % w \in 0..(w - 1)
         /\ n = (n \div w) * w + (n % w)
<1>1. n \div w \in Nat /\ n % w \in 0..(w - 1)
  OBVIOUS
<1>2. n = w * (n \div w) + (n % w)
  OBVIOUS
<1>3. \A x, y \in Nat : x * y = y * x
  OBVIOUS
<1>4. w * (n \div w) = (n \div w) * w
  BY <1>1, <1>3
<1> QED
  BY <1>1, <1>2, <1>4

LEMMA DivisionUnique ==
  ASSUME NEW w \in Nat \ {0}, NEW q1 \in Nat, NEW q2 \in Nat,
         NEW r1 \in 0..(w - 1), NEW r2 \in 0..(w - 1), q1 * w + r1 = q2 * w + r2
  PROVE  q1 = q2 /\ r1 = r2
<1>1. ASSUME NEW a \in Nat, NEW b \in Nat, NEW r \in 0..(w - 1), NEW s \in 0..(w - 1),
             a * w + r = b * w + s, a < b
      PROVE  FALSE
  <2>1. a * w + w <= b * w /\ a * w \in Nat /\ b * w \in Nat
    BY <1>1, Times
  <2> DEFINE x == a * w
             y == b * w
  <2>2. x + r = y + s /\ x + w <= y /\ x \in Nat /\ y \in Nat
    BY <1>1, <2>1
  <2> HIDE DEF x, y
  <2> QED
    BY <2>2
<1>2. q1 = q2
  BY <1>1
<1>3. q1 * w \in Nat
  OBVIOUS
<1>4. r1 = r2
  <2> DEFINE x == q1 * w
  <2>1. x + r1 = x + r2 /\ x \in Nat
    BY <1>2, <1>3
  <2> HIDE DEF x
  <2> QED
    BY <2>1
<1> QED
  BY <1>2, <1>4

\* The remainder of one digit more.
LEMMA OneDigitMore ==
  ASSUME NEW n \in Nat, NEW w \in Nat \ {0}, NEW b \in Nat \ {0}
  PROVE  n % (b * w) = (n % w) + ((n \div w) % b) * w
<1> DEFINE q == n \div w
           r == n % w
           c == q % b
           e == q \div b
           s == c * w
           bw == b * w
<1>1. q \in Nat /\ r \in 0..(w - 1) /\ n = q * w + r
  BY Division
<1>2. c \in 0..(b - 1) /\ e \in Nat /\ q = e * b + c
  BY <1>1, Division
<1>3. s \in Nat /\ s + w <= bw /\ bw \in Nat
  BY <1>2, Times
<1>4. q * w = e * bw + s
  <2> HIDE DEF q, r, c, e
  <2>1. q * w = (e * b + c) * w
    BY <1>2
  <2>2. (e * b + c) * w = (e * b) * w + c * w
    BY <1>2
  <2>3. (e * b) * w = e * (b * w)
    BY <1>2
  <2> QED
    BY <2>1, <2>2, <2>3
<1>5. n = e * bw + (r + s) /\ r + s \in 0..(bw - 1) /\ bw > 0
  <2> DEFINE ebw == e * bw
  <2>1. ebw \in Nat
    <3> HIDE DEF bw, e
    <3> QED
      BY <1>2, <1>3
  <2>2. n = (ebw + s) + r
    BY <1>1, <1>4
  <2> HIDE DEF q, r, s, e, bw, ebw
  <2> QED
    BY <1>1, <1>3, <2>1, <2>2 DEF ebw
<1>6. n \div bw \in Nat /\ n % bw \in 0..(bw - 1) /\ n = (n \div bw) * bw + (n % bw)
  <2> HIDE DEF bw
  <2>1. bw \in Nat \ {0}
    BY <1>3, <1>5
  <2> QED
    BY <2>1, Division
<1>7. n % bw = r + s
  <2> HIDE DEF bw, r, s, e
  <2>1. bw \in Nat \ {0} /\ r + s \in 0..(bw - 1)
    BY <1>3, <1>5
  <2>2. (n \div bw) * bw + (n % bw) = e * bw + (r + s)
    BY <1>5, <1>6
  <2> QED
    BY <1>2, <1>6, <2>1, <2>2, DivisionUnique
<1> QED
  BY <1>7

\* A word is read as the number it was written of.
LEMMA WordNumber ==
  ASSUME NEW n \in 0..(Full - 1)
  PROVE  Number(WordOf(n)) = n
<1> DEFINE word == WordOf(n)
<1>0. WordBytes \in Nat /\ Base \in Nat \ {0} /\ n \in Nat /\ Len(word) = WordBytes
  BY CodecAssumption, FullType, WordType
<1>1. PICK sum :
        /\ Number(word) = sum[WordBytes] /\ sum[0] = 0
        /\ \A k \in 0..(WordBytes - 1) : sum[k + 1] = sum[k] + word[k + 1] * Weight[(k + 1) - 1]
  BY <1>0, NumberDef
<1> DEFINE T == {k \in 0..WordBytes : sum[k] = n % Weight[k]}
<1>2. 0 \in T
  BY <1>0, <1>1, WeightDef
<1>3. \A k \in 0..(WordBytes - 1) : k \in T => k + 1 \in T
  <2> SUFFICES ASSUME NEW k \in 0..(WordBytes - 1), sum[k] = n % Weight[k]
               PROVE  k + 1 \in T
    OBVIOUS
  <2>1. k \in 0..WordBytes /\ k + 1 \in 0..WordBytes /\ k + 1 \in 1..WordBytes /\ (k + 1) - 1 = k
    BY <1>0
  <2>2. Weight[k] \in Nat \ {0} /\ Weight[k + 1] = Base * Weight[k]
    BY <2>1, WeightType, WeightDef
  <2>3. word[k + 1] = (n \div Weight[k]) % Base
    BY <2>1 DEF WordOf
  <2>4. sum[k + 1] = (n % Weight[k]) + ((n \div Weight[k]) % Base) * Weight[k]
    BY <1>1, <2>1, <2>3
  <2>5. sum[k + 1] = n % Weight[k + 1]
    <3> DEFINE w == Weight[k]
    <3>1. w \in Nat \ {0}
      BY <2>2
    <3> HIDE DEF w
    <3>2. n % (Base * w) = (n % w) + ((n \div w) % Base) * w
      BY <1>0, <3>1, OneDigitMore
    <3> QED
      BY <2>2, <2>4, <3>2 DEF w
  <2> QED
    BY <2>1, <2>5
<1>4. WordBytes \in T
  <2>1. WordBytes \in 0..WordBytes
    BY <1>0
  <2> HIDE DEF T
  <2> QED
    BY <1>0, <1>2, <1>3, <2>1, Induction
<1>5. n % Full = n
  BY <1>0, FullType
<1> QED
  BY <1>1, <1>4, <1>5 DEF Full

-----------------------------------------------------------------------------
(***************************************************************************)
(* A packet that holds what was written, at some place, and what is read   *)
(* there.                                                                  *)
(***************************************************************************)
\* A packet has some bytes at a place.
Holds(bytes, at, piece) ==
  /\ at \in Nat /\ at + Len(piece) <= Len(bytes)
  /\ \A j \in 1..Len(piece) : bytes[at + j] = piece[j]

LEMMA HoldsSub ==
  ASSUME NEW bytes \in Seq(Byte), NEW piece \in Seq(Byte), NEW at, Holds(bytes, at, piece)
  PROVE  SubSeq(bytes, at + 1, at + Len(piece)) = piece
<1> DEFINE n == Len(piece)
           sub == SubSeq(bytes, at + 1, at + n)
<1>1. /\ n \in Nat /\ Len(bytes) \in Nat /\ at \in Nat /\ at + n <= Len(bytes)
      /\ \A j \in 1..n : bytes[at + j] = piece[j]
  BY LenProperties DEF Holds
<1>2. /\ sub \in Seq(Byte) /\ Len(sub) = n /\ \A j \in 1..n : sub[j] = bytes[at + j]
  <2>1. at + 1 \in 1..(Len(bytes) + 1) /\ at + n \in 0..Len(bytes)
        /\ (IF at + 1 <= at + n THEN (at + n) - (at + 1) + 1 ELSE 0) = n
        /\ \A j \in 1..n : (at + 1) + j - 1 = at + j
    BY <1>1
  <2> HIDE DEF n
  <2>2. /\ sub \in Seq(Byte) /\ Len(sub) = IF at + 1 <= at + n THEN (at + n) - (at + 1) + 1 ELSE 0
        /\ \A j \in 1..Len(sub) : sub[j] = bytes[(at + 1) + j - 1]
    BY <1>1, <2>1, SubSeqProperties
  <2> HIDE DEF sub
  <2> QED
    BY <1>1, <2>1, <2>2
<1> HIDE DEF sub, n
<1>3. \A j \in 1..n : sub[j] = piece[j]
  BY <1>1, <1>2
<1> QED
  BY <1>2, <1>3, SeqEqual DEF sub, n

LEMMA HoldsBoth ==
  ASSUME NEW bytes \in Seq(Byte), NEW a \in Seq(Byte), NEW b \in Seq(Byte), NEW at, Holds(bytes, at, a \o b)
  PROVE  /\ Holds(bytes, at, a) /\ Holds(bytes, at + Len(a), b)
         /\ Len(a \o b) = Len(a) + Len(b) /\ Len(a) \in Nat /\ Len(b) \in Nat
<1>1. Len(a) \in Nat /\ Len(b) \in Nat /\ Len(bytes) \in Nat
  BY LenProperties
<1>2. /\ Len(a \o b) = Len(a) + Len(b)
      /\ \A j \in 1..(Len(a) + Len(b)) : (a \o b)[j] = IF j <= Len(a) THEN a[j] ELSE b[j - Len(a)]
  BY ConcatProperties
<1> DEFINE n == Len(a)
           l == Len(b)
           both == a \o b
<1>3. /\ at \in Nat /\ at + (n + l) <= Len(bytes)
      /\ \A j \in 1..(n + l) : bytes[at + j] = both[j]
  BY <1>2 DEF Holds
<1>4. n \in Nat /\ l \in Nat /\ \A j \in 1..(n + l) : both[j] = IF j <= n THEN a[j] ELSE b[j - n]
  BY <1>1, <1>2
<1> HIDE DEF n, l, both
<1>5. at + n <= Len(bytes) /\ at + n \in Nat /\ (at + n) + l <= Len(bytes)
  BY <1>1, <1>3, <1>4
<1>6. \A j \in 1..n : bytes[at + j] = a[j]
  BY <1>3, <1>4
<1>7. ASSUME NEW j \in 1..l
      PROVE  bytes[(at + n) + j] = b[j]
  <2>1. n + j \in 1..(n + l) /\ ~(n + j <= n) /\ (n + j) - n = j /\ at + (n + j) = (at + n) + j
    BY <1>3, <1>4
  <2> QED
    BY <1>3, <1>4, <2>1
<1> QED
  BY <1>2, <1>3, <1>4, <1>5, <1>6, <1>7 DEF n, l, Holds

LaidIn(bytes, at, whole, seqs, pos, n) ==
  /\ bytes \in Seq(Byte) /\ whole \in Seq(Byte) /\ Holds(bytes, at, whole)
  /\ n \in Nat /\ seqs \in [1..n -> Seq(Byte)] /\ pos \in [0..n -> Nat] /\ Laid(whole, seqs, pos, n)

LEMMA HoldsPiece ==
  ASSUME NEW bytes, NEW at, NEW whole, NEW seqs, NEW pos, NEW n, LaidIn(bytes, at, whole, seqs, pos, n)
  PROVE  \A i \in 1..n :
           /\ Holds(bytes, at + pos[i - 1], seqs[i])
           /\ at + pos[i] = (at + pos[i - 1]) + Len(seqs[i])
<1> SUFFICES ASSUME NEW i \in 1..n
             PROVE  /\ Holds(bytes, at + pos[i - 1], seqs[i])
                    /\ at + pos[i] = (at + pos[i - 1]) + Len(seqs[i])
  OBVIOUS
<1>0. /\ bytes \in Seq(Byte) /\ whole \in Seq(Byte) /\ Holds(bytes, at, whole)
      /\ n \in Nat /\ seqs[i] \in Seq(Byte) /\ pos \in [0..n -> Nat] /\ Laid(whole, seqs, pos, n)
  BY DEF LaidIn
<1>1. Len(seqs[i]) \in Nat /\ Len(bytes) \in Nat /\ Len(whole) \in Nat
  BY <1>0, LenProperties
<1> DEFINE a == pos[i - 1]
           b == pos[i]
           l == Len(seqs[i])
<1>2. a \in Nat /\ b \in Nat /\ pos[n] = Len(whole)
  BY <1>0 DEF Laid
<1>3. b = a + l /\ b <= Len(whole) /\ \A j \in 1..l : whole[a + j] = seqs[i][j]
  BY <1>0, <1>2 DEF Laid
<1>4. at \in Nat /\ at + Len(whole) <= Len(bytes) /\ \A j \in 1..Len(whole) : bytes[at + j] = whole[j]
  BY <1>0 DEF Holds
<1> HIDE DEF a, b, l
<1>5. l \in Nat
  BY <1>1 DEF l
<1>6. at + a \in Nat /\ (at + a) + l <= Len(bytes) /\ at + b = (at + a) + l
  <2> DEFINE w == Len(whole)
             all == Len(bytes)
  <2>1. w \in Nat /\ all \in Nat
    BY <1>1
  <2>3. at \in Nat /\ a \in Nat /\ b \in Nat /\ l \in Nat
    BY <1>2, <1>4, <1>5
  <2>4. at + w <= all
    BY <1>4
  <2>5. b = a + l /\ b <= w
    BY <1>3
  <2> HIDE DEF w, all
  <2>2. at + a \in Nat /\ (at + a) + l <= all /\ at + b = (at + a) + l
    BY <2>1, <2>3, <2>4, <2>5
  <2> QED
    BY <2>2 DEF all
<1>7. ASSUME NEW j \in 1..l
      PROVE  bytes[(at + a) + j] = seqs[i][j]
  <2>1. a \in Nat /\ at \in Nat /\ l \in Nat /\ Len(whole) \in Nat
    BY <1>1, <1>2, <1>4, <1>5
  <2>2. b = a + l /\ b <= Len(whole)
    BY <1>3
  <2>3. a + j \in 1..Len(whole) /\ at + (a + j) = (at + a) + j
    BY <2>1, <2>2
  <2> QED
    BY <1>3, <1>4, <2>3
<1> QED
  BY <1>6, <1>7 DEF Holds, a, b, l

\* Where the pieces of what was written begin in a packet, and where the last ends.
BeginAt(ends, bytes, at, seqs, n) ==
  /\ ends[0] = at /\ ends[n] = at + Len(FlattenSeq(seqs))
  /\ \A i \in 0..(n - 1) :
       /\ Holds(bytes, ends[i], seqs[i + 1])
       /\ ends[i + 1] = ends[i] + Len(seqs[i + 1])

LEMMA EndsOfPieces ==
  ASSUME NEW bytes, NEW at, NEW seqs, NEW pos, NEW n, LaidIn(bytes, at, FlattenSeq(seqs), seqs, pos, n)
  PROVE  \E ends : BeginAt(ends, bytes, at, seqs, n)
<1> DEFINE whole == FlattenSeq(seqs)
<1>3. LaidIn(bytes, at, whole, seqs, pos, n)
  OBVIOUS
<1> HIDE DEF whole
<1>4. \A i \in 1..n :
        /\ Holds(bytes, at + pos[i - 1], seqs[i])
        /\ at + pos[i] = (at + pos[i - 1]) + Len(seqs[i])
  BY <1>3, HoldsPiece
<1>1. n \in Nat /\ pos \in [0..n -> Nat] /\ Laid(whole, seqs, pos, n) /\ Holds(bytes, at, whole)
  BY <1>3 DEF LaidIn
<1>5. pos[0] = 0 /\ pos[n] = Len(whole) /\ at \in Nat
  BY <1>1 DEF Laid, Holds
<1> DEFINE ends == [i \in 0..n |-> at + pos[i]]
<1>6. ends[0] = at /\ ends[n] = at + Len(whole)
  <2>1. 0 \in 0..n /\ n \in 0..n /\ at + 0 = at
    BY <1>1, <1>5
  <2>2. ends[0] = at + pos[0] /\ ends[n] = at + pos[n]
    BY <2>1
  <2> QED
    BY <1>5, <2>1, <2>2
<1>7. ASSUME NEW i \in 0..(n - 1)
      PROVE  Holds(bytes, ends[i], seqs[i + 1]) /\ ends[i + 1] = ends[i] + Len(seqs[i + 1])
  <2>1. i + 1 \in 1..n /\ (i + 1) - 1 = i /\ i \in 0..n /\ i + 1 \in 0..n
    BY <1>1
  <2>2. Holds(bytes, at + pos[i], seqs[i + 1]) /\ at + pos[i + 1] = (at + pos[i]) + Len(seqs[i + 1])
    BY <1>4, <2>1
  <2> QED
    BY <2>1, <2>2
<1>8. BeginAt(ends, bytes, at, seqs, n)
  <2> HIDE DEF ends
  <2> QED
    BY <1>6, <1>7 DEF BeginAt, whole
<1> QED
  BY <1>8

LEMMA HoldsPieces ==
  ASSUME NEW bytes \in Seq(Byte), NEW at, NEW n \in Nat, NEW seqs \in [1..n -> Seq(Byte)],
         Holds(bytes, at, FlattenSeq(seqs))
  PROVE  \E ends : BeginAt(ends, bytes, at, seqs, n)
<1>1. FlattenSeq(seqs) \in Seq(Byte) /\ \E pos \in [0..n -> Nat] : Laid(FlattenSeq(seqs), seqs, pos, n)
  BY Pieces
<1>2. PICK pos \in [0..n -> Nat] : Laid(FlattenSeq(seqs), seqs, pos, n)
  BY <1>1
<1>3. LaidIn(bytes, at, FlattenSeq(seqs), seqs, pos, n)
  BY <1>1, <1>2 DEF LaidIn
<1> QED
  BY <1>3, EndsOfPieces

-----------------------------------------------------------------------------
\* A word that was written is read.
LEMMA WordRead ==
  ASSUME NEW bytes \in Seq(Byte), NEW n \in 0..(Full - 1), NEW at, Holds(bytes, at, WordOf(n))
  PROVE  popNumber(bytes, at, WordBytes) = Got(n, at + WordBytes)
<1>1. n \in Nat /\ WordOf(n) \in Seq(Byte) /\ Len(WordOf(n)) = WordBytes
  BY FullType, WordType
<1>2. ~(Len(bytes) < at + WordBytes)
  BY <1>1, LenProperties, CodecAssumption DEF Holds
<1>3. SubSeq(bytes, at + 1, at + WordBytes) = WordOf(n)
  BY <1>1, HoldsSub
<1> QED
  BY <1>2, <1>3, WordNumber DEF popNumber

LEMMA ByteRead ==
  ASSUME NEW bytes \in Seq(Byte), NEW v \in Byte, NEW at, Holds(bytes, at, <<v>>)
  PROVE  popNumber(bytes, at, 1) = Got(v, at + 1)
<1>1. <<v>> \in Seq(Byte) /\ Len(<<v>>) = 1 /\ <<v>>[1] = v /\ v \in Nat
  BY CodecAssumption DEF Byte
<1>2. ~(Len(bytes) < at + 1)
  BY <1>1, LenProperties DEF Holds
<1> DEFINE one == <<v>>
<1>3. SubSeq(bytes, at + 1, at + 1) = one
  BY <1>1, HoldsSub
<1>4. one[1] = v /\ Len(one) = 1
  BY <1>1
<1> HIDE DEF one
<1>5. Number(one) = v
  <2>1. PICK sum :
          /\ Number(one) = sum[1] /\ sum[0] = 0
          /\ \A k \in 0..(1 - 1) : sum[k + 1] = sum[k] + one[k + 1] * Weight[(k + 1) - 1]
    BY <1>4, NumberDef
  <2>2. sum[0 + 1] = sum[0] + one[0 + 1] * Weight[(0 + 1) - 1]
    BY <2>1
  <2>3. Weight[0] = 1
    BY WeightDef
  <2> QED
    BY <1>1, <1>4, <2>1, <2>2, <2>3
<1> QED
  BY <1>2, <1>3, <1>5 DEF popNumber

LEMMA StringRead ==
  ASSUME NEW bytes \in Seq(Byte), NEW v \in Seq(Byte), 2 * Len(v) < Full, NEW at,
         Holds(bytes, at, WordOf(Len(v)) \o v)
  PROVE  popString(bytes, popNumber(bytes, at, WordBytes)) = Got(v, at + Len(WordOf(Len(v)) \o v))
<1> DEFINE n == Len(v)
           head == popNumber(bytes, at, WordBytes)
<1>1. v \in Seq(Byte) /\ n \in Nat /\ 2 * n < Full /\ Full \in Nat
  BY LenProperties, FullType
<1>2. n \in 0..(Full - 1) /\ Signed(n) = n
  BY <1>1 DEF Signed
<1>3. WordOf(n) \in Seq(Byte) /\ Len(WordOf(n)) = WordBytes
  BY <1>1, WordType
<1>4. /\ Holds(bytes, at, WordOf(n)) /\ Holds(bytes, at + WordBytes, v)
      /\ Len(WordOf(n) \o v) = WordBytes + n
  <2> DEFINE w == WordOf(n)
  <2>1. Holds(bytes, at, w \o v) /\ w \in Seq(Byte) /\ Len(w) = WordBytes
    BY <1>3
  <2> HIDE DEF w
  <2>2. v \in Seq(Byte)
    BY <1>1
  <2>3. Holds(bytes, at, w) /\ Holds(bytes, at + Len(w), v) /\ Len(w \o v) = Len(w) + Len(v)
    BY <2>1, <2>2, HoldsBoth
  <2>4. Holds(bytes, at, w) /\ Holds(bytes, at + WordBytes, v) /\ Len(w \o v) = WordBytes + n
    BY <2>1, <2>3
  <2> QED
    BY <2>4 DEF w
<1>5. head = Got(n, at + WordBytes)
  BY <1>2, <1>4, WordRead
<1>6. head.ok /\ head.at = at + WordBytes /\ head.val = n
  BY <1>5 DEF Got
<1>7. SubSeq(bytes, (at + WordBytes) + 1, (at + WordBytes) + n) = v
  BY <1>1, <1>4, HoldsSub
<1>8. /\ (at + WordBytes) + n \in 0..Len(bytes) /\ ~((at + WordBytes) + n < at + WordBytes)
      /\ (at + WordBytes) + n = at + (WordBytes + n)
  BY <1>1, <1>4, LenProperties, CodecAssumption DEF Holds
<1> HIDE DEF head, n
<1>9. popString(bytes, head) = Got(v, (at + WordBytes) + n)
  BY <1>2, <1>6, <1>7, <1>8 DEF popString
<1> QED
  BY <1>4, <1>8, <1>9 DEF head, n

LEMMA TimeRead ==
  ASSUME NEW bytes \in Seq(Byte), NEW v \in Values("time"), NEW at,
         Holds(bytes, at, WordOf(v[1]) \o WordOf(v[2]))
  PROVE  LET sec == popNumber(bytes, at, WordBytes) IN
         popTime(sec, popNumber(bytes, sec.at, WordBytes)) = Got(v, at + Len(WordOf(v[1]) \o WordOf(v[2])))
<1> DEFINE sec == popNumber(bytes, at, WordBytes)
           nsec == popNumber(bytes, sec.at, WordBytes)
           a == WordOf(v[1])
           b == WordOf(v[2])
<1>1. v[1] \in 0..(Full - 1) /\ v[2] \in 0..(Full - 1) /\ v = <<v[1], v[2]>> /\ v[1] \in Nat /\ v[2] \in Nat
  BY FullType DEF Values
<1>2. a \in Seq(Byte) /\ b \in Seq(Byte) /\ Len(a) = WordBytes /\ Len(b) = WordBytes
  BY <1>1, WordType
<1>3. Holds(bytes, at, a) /\ Holds(bytes, at + WordBytes, b) /\ Len(a \o b) = WordBytes + WordBytes
  <2> HIDE DEF a, b
  <2>1. Holds(bytes, at, a \o b)
    BY DEF a, b
  <2> QED
    BY <1>2, <2>1, HoldsBoth
<1>4. sec = Got(v[1], at + WordBytes)
  BY <1>1, <1>3, WordRead
<1>5. sec.ok /\ sec.at = at + WordBytes /\ sec.val = v[1]
  BY <1>4 DEF Got
<1>6. nsec = Got(v[2], (at + WordBytes) + WordBytes)
  <2>1. Holds(bytes, sec.at, WordOf(v[2]))
    BY <1>3, <1>5
  <2> HIDE DEF sec
  <2> QED
    BY <1>1, <1>5, <2>1, WordRead
<1>7. nsec.ok /\ nsec.at = (at + WordBytes) + WordBytes /\ nsec.val = v[2]
  BY <1>6 DEF Got
<1>8. (at + WordBytes) + WordBytes = at + (WordBytes + WordBytes)
  BY <1>3, CodecAssumption DEF Holds
<1> HIDE DEF sec, nsec
<1>9. popTime(sec, nsec) = Got(v, (at + WordBytes) + WordBytes)
  BY <1>1, <1>5, <1>7 DEF popTime
<1> QED
  BY <1>3, <1>8, <1>9 DEF sec, nsec, a, b

\* A value that was written is read.
LEMMA popRead ==
  ASSUME NEW bytes \in Seq(Byte), NEW type \in Primitive, NEW v \in Values(type), NEW at,
         Holds(bytes, at, push(type, v))
  PROVE  pop(type, bytes, at) = Got(v, at + Len(push(type, v)))
<1>1. CASE type = "uint8"
  <2>1. push(type, v) = <<v>> /\ v \in Byte /\ pop(type, bytes, at) = popNumber(bytes, at, 1) /\ Len(<<v>>) = 1
    BY <1>1 DEF push, Values, pop, Words, Floats
  <2> QED
    BY <2>1, ByteRead
<1>2. CASE type \in Words
  <2>1. push(type, v) = WordOf(v) /\ v \in 0..(Full - 1) /\ pop(type, bytes, at) = popNumber(bytes, at, WordBytes)
    BY <1>2, WordTypes DEF push, pop
  <2>2. Len(WordOf(v)) = WordBytes
    BY <2>1, WordType, FullType
  <2> QED
    BY <2>1, <2>2, WordRead
<1>3. CASE type = "string"
  <2>1. push(type, v) = WordOf(Len(v)) \o v
        /\ pop(type, bytes, at) = popString(bytes, popNumber(bytes, at, WordBytes))
    BY <1>3 DEF push, pop
  <2>2. v \in Seq(Byte) /\ 2 * Len(v) < Full
    BY <1>3 DEF Values
  <2> QED
    BY <2>1, <2>2, StringRead
<1>4. CASE type = "time"
  <2> DEFINE sec == popNumber(bytes, at, WordBytes)
  <2>1. push(type, v) = WordOf(v[1]) \o WordOf(v[2])
        /\ pop(type, bytes, at) = popTime(sec, popNumber(bytes, sec.at, WordBytes))
    BY <1>4 DEF push, pop
  <2> QED
    BY <1>4, <2>1, TimeRead
<1> QED
  BY <1>1, <1>2, <1>3, <1>4 DEF Primitive

-----------------------------------------------------------------------------
(***************************************************************************)
(* Arrays and members: what is read of what was written for them.          *)
(***************************************************************************)
\* The first values of a function of places, one more at a time.
First(m, j) == [k \in 1..j |-> m[k]]

LEMMA FirstOfAll ==
  ASSUME NEW m
  PROVE  First(m, 0) = << >> /\ \A j \in Nat : First(m, j + 1) = Append(First(m, j), m[j + 1])
<1>1. First(m, 0) = << >>
  <2> DEFINE S == {m[k] : k \in {0}}
  <2>1. First(m, 0) \in [1..0 -> S] /\ 0 \in Nat
    BY DEF First
  <2> HIDE DEF S
  <2>2. First(m, 0) \in Seq(S) /\ Len(First(m, 0)) = 0
    BY <2>1, Places
  <2> QED
    BY <2>2, EmptySeq
<1>2. ASSUME NEW j \in Nat
      PROVE  First(m, j + 1) = Append(First(m, j), m[j + 1])
  <2> DEFINE S == {m[k] : k \in 1..(j + 1)}
             a == First(m, j)
             b == First(m, j + 1)
             c == Append(a, m[j + 1])
  <2>1. j + 1 \in 1..(j + 1) /\ j + 1 \in Nat /\ 1..j \subseteq 1..(j + 1)
        /\ (\A k \in 1..(j + 1) : k \in 1..j \/ k = j + 1)
    OBVIOUS
  <2>2. a \in [1..j -> S] /\ b \in [1..(j + 1) -> S] /\ m[j + 1] \in S
    BY <2>1 DEF First
  <2>3. (\A k \in 1..j : a[k] = m[k]) /\ (\A k \in 1..(j + 1) : b[k] = m[k])
    BY DEF First
  <2> HIDE DEF S, a, b
  <2>4. a \in Seq(S) /\ Len(a) = j /\ b \in Seq(S) /\ Len(b) = j + 1
    BY <2>1, <2>2, Places
  <2>5. c \in Seq(S) /\ Len(c) = j + 1 /\ c[j + 1] = m[j + 1] /\ \A k \in 1..j : c[k] = a[k]
    BY <2>2, <2>4, AppendProperties
  <2> HIDE DEF c
  <2>6. \A k \in 1..(j + 1) : b[k] = c[k]
    BY <2>1, <2>3, <2>5
  <2>7. b = c
    BY <2>4, <2>5, <2>6, SeqEqual
  <2> QED
    BY <2>7 DEF a, b, c
<1> QED
  BY <1>1, <1>2

\* What is read of what was written for one value, from wherever it is.
OneMasked(f, e, masked) == IF to_cxx_typeName(f) THEN e ELSE masked[<<f.type, e>>]
Carries(f, g, e, packet, read, masked, bytes) ==
  \A a : Holds(bytes, a, Each(f, e, packet))
    => popOne(g, read, bytes, a) = Got(OneMasked(f, e, masked), a + Len(Each(f, e, packet)))

LEMMA ExtendedGot ==
  ASSUME NEW s, NEW a, NEW w, NEW b
  PROVE  /\ Joined(Got(s, a), Got(w, b)) = Got(Append(s, w), b)
         /\ Extended(Got(s, a), Got(w, b)) = Got(Append(s, w), b)
         /\ Got(s, a).ok /\ ~Got(s, a).threw /\ Got(s, a).at = a /\ Got(s, a).val = s
<1> DEFINE one == Got(w, b)
           c == Append(s, w)
<1>1. one = [val |-> w, at |-> b, ok |-> TRUE, threw |-> FALSE] /\ one.ok /\ one.val = w
  BY DEF Got
<1>3. Got(s, a).val = s /\ Got(s, a).ok /\ ~Got(s, a).threw /\ Got(s, a).at = a
  BY DEF Got
<1> HIDE DEF one
<1>2. \A x : [one EXCEPT !.val = x] = [val |-> x, at |-> b, ok |-> TRUE, threw |-> FALSE]
  <2> DEFINE o == TRUE
             h == FALSE
  <2>1. one = [val |-> w, at |-> b, ok |-> o, threw |-> h]
    BY <1>1
  <2> HIDE DEF o, h
  <2>2. \A x : [one EXCEPT !.val = x] = [val |-> x, at |-> b, ok |-> o, threw |-> h]
    BY <2>1
  <2> QED
    BY <2>2 DEF o, h
<1>4. Joined(Got(s, a), one) = [one EXCEPT !.val = c]
  BY <1>1, <1>3 DEF Joined
<1>5. Extended(Got(s, a), one) = Joined(Got(s, a), one)
  BY <1>1 DEF Extended
<1> HIDE DEF c
<1>6. Joined(Got(s, a), one) = Got(c, b)
  BY <1>2, <1>4 DEF Got
<1> QED
  BY <1>3, <1>5, <1>6 DEF one, c

\* The elements of an array that were written are read.
ManyCarries(f, g, v, packet, read, masked, bytes) ==
  /\ Len(v) \in Nat /\ DOMAIN v = 1..Len(v) /\ Every(f, v, packet) \in [1..Len(v) -> Seq(Byte)]
  /\ \A j \in 1..Len(v) : Carries(f, g, v[j], packet, read, masked, bytes)

LEMMA ManyCarried ==
  ASSUME NEW bytes \in Seq(Byte), NEW f, NEW g, NEW v, NEW packet, NEW read, NEW masked,
         ManyCarries(f, g, v, packet, read, masked, bytes),
         NEW at, Holds(bytes, at, FlattenSeq(Every(f, v, packet)))
  PROVE  popMany(Len(v), g, read, bytes, at)
           = Got([j \in 1..Len(v) |-> OneMasked(f, v[j], masked)], at + Len(FlattenSeq(Every(f, v, packet))))
<1> DEFINE n == Len(v)
<1>0. /\ n \in Nat /\ Len(v) = n /\ DOMAIN v = 1..n /\ Every(f, v, packet) \in [1..n -> Seq(Byte)]
      /\ \A j \in 1..n : Carries(f, g, v[j], packet, read, masked, bytes)
  BY DEF ManyCarries
<1> HIDE DEF n
<1> DEFINE every == Every(f, v, packet)
           whole == FlattenSeq(every)
           m == [j \in 1..n |-> OneMasked(f, v[j], masked)]
<1>1. \A j \in 1..n : every[j] = Each(f, v[j], packet)
  BY <1>0 DEF Every
<1> HIDE DEF every, whole
<1>2. every \in [1..n -> Seq(Byte)] /\ Holds(bytes, at, whole)
  BY <1>0 DEF every, whole
<1>3. PICK ends : BeginAt(ends, bytes, at, every, n)
  BY <1>0, <1>2, HoldsPieces DEF whole
<1>4. /\ ends[0] = at /\ ends[n] = at + Len(whole)
      /\ \A i \in 0..(n - 1) :
           Holds(bytes, ends[i], every[i + 1]) /\ ends[i + 1] = ends[i] + Len(every[i + 1])
  BY <1>3 DEF BeginAt, whole
<1>5. PICK many :
        /\ popMany(n, g, read, bytes, at) = many[n]
        /\ ElementsRead(many, n, g, read, bytes, at)
  BY <1>0, popManyDef
<1> DEFINE T == {j \in 0..n : many[j] = Got(First(m, j), ends[j])}
<1> HIDE DEF m
<1>7. 0 \in T
  <2>1. First(m, 0) = << >> /\ 0 \in 0..n
    BY <1>0, FirstOfAll
  <2>2. many[0] = Got(<< >>, at) /\ ends[0] = at
    BY <1>4, <1>5 DEF ElementsRead
  <2> QED
    BY <2>1, <2>2
<1>8. \A j \in 0..(n - 1) : j \in T => j + 1 \in T
  <2> SUFFICES ASSUME NEW j \in 0..(n - 1), j \in T
               PROVE  j + 1 \in T
    BY <1>0
  <2> DEFINE i == j + 1
             a == ends[j]
             one == popOne(g, read, bytes, a)
  <2>1. many[j] = Got(First(m, j), a)
    OBVIOUS
  <2>2. i \in 1..n /\ i \in 0..n /\ First(m, i) = Append(First(m, j), m[i])
    <3>1. j \in Nat
      BY <1>0
    <3>2. First(m, j + 1) = Append(First(m, j), m[j + 1])
      BY <3>1, FirstOfAll
    <3> QED
      BY <1>0, <3>2
  <2>3. Holds(bytes, a, every[i]) /\ ends[i] = a + Len(every[i])
    BY <1>4
  <2>4. many[i] = IF many[j].ok THEN Extended(many[j], popOne(g, read, bytes, many[j].at)) ELSE many[j]
    BY <1>5 DEF ElementsRead
  <2> HIDE DEF i, a, T
  <2>5. many[j].ok /\ many[j].at = a
    BY <2>1 DEF Got
  <2>6. every[i] = Each(f, v[i], packet) /\ Carries(f, g, v[i], packet, read, masked, bytes)
    BY <1>0, <1>1, <2>2
  <2>7. one = Got(OneMasked(f, v[i], masked), ends[i])
    BY <2>3, <2>6 DEF Carries
  <2>8. OneMasked(f, v[i], masked) = m[i]
    BY <2>2 DEF m
  <2>9. many[i] = Extended(many[j], one)
    BY <2>4, <2>5
  <2> HIDE DEF one
  <2>10. many[i] = Extended(Got(First(m, j), a), Got(m[i], ends[i]))
    BY <2>1, <2>7, <2>8, <2>9
  <2>11. many[i] = Got(Append(First(m, j), m[i]), ends[i])
    BY <2>10, ExtendedGot
  <2>12. i \in T
    BY <2>2, <2>11 DEF T
  <2> QED
    BY <2>12 DEF i
<1>9. n \in T
  <2>1. n \in 0..n
    BY <1>0
  <2> HIDE DEF T
  <2> QED
    BY <1>0, <1>7, <1>8, <2>1, Induction
<1>10. many[n] = Got(First(m, n), at + Len(whole))
  BY <1>4, <1>9
<1>11. First(m, n) = m
  BY DEF First, m
<1> QED
  BY <1>5, <1>10, <1>11 DEF m, whole, every, n

\* Two members that are written and read alike.
Alike(f, g) ==
  /\ to_cxx_typeName(f) <=> to_cxx_typeName(g)
  /\ f.type = g.type
  /\ is_array(f) <=> is_array(g)
  /\ is_fixed_array(f) <=> is_fixed_array(g)
  /\ is_fixed_array(f) => f.dims = g.dims

\* A member, without what has no packer.
MaskedMember(known, f, v, blank, masked) ==
  IF to_cxx_typeName(f) THEN v
  ELSE IF f.type \notin known THEN blank
  ELSE IF is_many(f) THEN [j \in DOMAIN v |-> masked[<<f.type, v[j]>>]]
  ELSE masked[<<f.type, v>>]

LEMMA MaskedMsgDef ==
  ASSUME NEW tree, NEW known, NEW x, NEW blank, NEW inner
  PROVE  MaskedMsg(tree, known, x, blank, inner) =
           [i \in DOMAIN Fields(tree, x[1]) |->
              MaskedMember(known, Fields(tree, x[1])[i], x[2][i], blank[i], inner)]
BY DEF MaskedMsg, MaskedMember

\* All of one, or of many.
MemberCarries(known, f, g, v, packet, read, masked, bytes) ==
  to_cxx_typeName(f) \/ f.type \in known
    => /\ ~is_many(f) => Carries(f, g, v, packet, read, masked, bytes)
       /\ is_many(f) => ManyCarries(f, g, v, packet, read, masked, bytes)

LEMMA ElementsCarried ==
  ASSUME NEW bytes \in Seq(Byte), NEW f, NEW g, NEW v, NEW packet, NEW read, NEW masked,
         ManyCarries(f, g, v, packet, read, masked, bytes),
         NEW at, Holds(bytes, at, FlattenSeq(Every(f, v, packet)))
  PROVE  /\ Len(v) \in Nat /\ FlattenSeq(Every(f, v, packet)) \in Seq(Byte)
         /\ popMany(Len(v), g, read, bytes, at)
              = Got([j \in DOMAIN v |-> OneMasked(f, v[j], masked)], at + Len(FlattenSeq(Every(f, v, packet))))
<1>1. /\ Len(v) \in Nat /\ DOMAIN v = 1..Len(v) /\ Every(f, v, packet) \in [1..Len(v) -> Seq(Byte)]
      /\ \A j \in 1..Len(v) : Carries(f, g, v[j], packet, read, masked, bytes)
  BY DEF ManyCarries
<1>2. FlattenSeq(Every(f, v, packet)) \in Seq(Byte)
  BY <1>1, Pieces
<1>3. popMany(Len(v), g, read, bytes, at)
        = Got([j \in 1..Len(v) |-> OneMasked(f, v[j], masked)], at + Len(FlattenSeq(Every(f, v, packet))))
  BY ManyCarried
<1> QED
  BY <1>1, <1>2, <1>3

LEMMA KeptGot ==
  ASSUME NEW w, NEW b
  PROVE  KeptVector(Got(w, b)) = Got(w, b) /\ \A blank : KeptOne(Got(w, b), blank) = Got(w, b)
BY DEF KeptVector, KeptOne, Kept, Got

LEMMA KeptArrayGot ==
  ASSUME NEW n \in Nat, NEW w, NEW b, NEW blank, DOMAIN w = 1..n, w = [j \in 1..n |-> w[j]], DOMAIN blank = 1..n
  PROVE  KeptArray(Got(w, b), blank) = Got(w, b)
<1>1. w \in [1..n -> {w[j] : j \in 1..n}]
  BY Zenon
<1>2. Len(w) = n
  BY <1>1, Places
<1>3. \A i \in 1..n : i <= Len(w)
  BY <1>2
<1>4. [i \in DOMAIN blank |-> IF i <= Len(w) THEN w[i] ELSE blank[i]] = w
  BY <1>3
<1>5. Got(w, b).val = w /\ Got(w, b).at = b /\ Got(w, b).threw = FALSE
  BY DEF Got
<1>6. KeptArray(Got(w, b), blank) = Kept(Got(w, b), w)
  BY <1>4, <1>5 DEF KeptArray
<1> QED
  BY <1>6 DEF Kept, Got

\* What is read of what was written for a member.
LEMMA FieldCarried ==
  ASSUME NEW bytes \in Seq(Byte), NEW f \in Line, NEW g \in Line, Alike(f, g), NEW known,
         NEW some, NEW v \in Held(f, some), NEW other, NEW blank \in Held(g, other),
         NEW packet, NEW read, NEW masked, MemberCarries(known, f, g, v, packet, read, masked, bytes),
         NEW at, Holds(bytes, at, pushField(known, f, v, packet))
  PROVE  popField(known, g, blank, read, bytes, at)
           = Got(MaskedMember(known, f, v, blank, masked), at + Len(pushField(known, f, v, packet)))
<1> DEFINE written == pushField(known, f, v, packet)
           all == FlattenSeq(Every(f, v, packet))
           packer == to_cxx_typeName(f) \/ f.type \in known
           values == [j \in DOMAIN v |-> OneMasked(f, v[j], masked)]
<1>0. /\ to_cxx_typeName(f) <=> to_cxx_typeName(g)
      /\ f.type = g.type
      /\ is_array(f) <=> is_array(g)
      /\ is_fixed_array(f) <=> is_fixed_array(g)
      /\ is_fixed_array(f) => f.dims = g.dims
  BY DEF Alike
<1>1. written = IF is_array(f) THEN pushVectorValue(packer, all, Len(v))
                ELSE IF ~packer THEN << >>
                ELSE IF is_fixed_array(f) THEN all
                ELSE Each(f, v, packet)
  BY PushFieldDef
<1>2. at \in Nat /\ Holds(bytes, at, written)
  BY DEF Holds
<1>3. packer => /\ ~is_many(f) => Carries(f, g, v, packet, read, masked, bytes)
                /\ is_many(f) => ManyCarries(f, g, v, packet, read, masked, bytes)
  BY DEF MemberCarries
<1>4. ASSUME packer, is_many(f)
      PROVE  values = MaskedMember(known, f, v, blank, masked)
  <2>1. CASE to_cxx_typeName(f)
    <3>1. v \in Seq(Some(f, some))
      BY <1>4, HeldCases DEF is_many
    <3>2. v = [j \in DOMAIN v |-> v[j]]
      BY <3>1
    <3>3. values = [j \in DOMAIN v |-> v[j]]
      BY <2>1 DEF OneMasked
    <3> QED
      BY <2>1, <3>2, <3>3 DEF MaskedMember
  <2>2. CASE ~to_cxx_typeName(f)
    BY <1>4, <2>2 DEF OneMasked, MaskedMember
  <2> QED
    BY <2>1, <2>2
<1> HIDE DEF written, all, packer, values
<1>5. CASE ~packer
  <2>1. written = << >>
    BY <1>1, <1>5 DEF pushVectorValue
  <2>2. Len(written) = 0 /\ at + 0 = at
    BY <1>2, <2>1
  <2>3. popField(known, g, blank, read, bytes, at) = Got(blank, at)
    BY <1>0, <1>5 DEF popField, packer
  <2>4. MaskedMember(known, f, v, blank, masked) = blank
    BY <1>5 DEF packer, MaskedMember
  <2>5. popField(known, g, blank, read, bytes, at)
          = Got(MaskedMember(known, f, v, blank, masked), at + Len(written))
    BY <2>2, <2>3, <2>4
  <2> QED
    BY <2>5 DEF written
<1>6. CASE packer /\ is_array(f)
  <2> DEFINE n == Len(v)
             size == popNumber(bytes, at, WordBytes)
             head == WordOf(n)
  <2>1. is_many(f) /\ written = head \o all /\ n < Full
    BY <1>1, <1>6, HeldCases DEF is_many, pushVectorValue
  <2>2. n \in Nat /\ all \in Seq(Byte)
    BY <1>3, <1>6, <2>1, Pieces DEF ManyCarries, all
  <2>3. n \in 0..(Full - 1)
    BY <2>1, <2>2, FullType
  <2>4. head \in Seq(Byte) /\ Len(head) = WordBytes
    BY <2>2, WordType
  <2>5. Holds(bytes, at, head) /\ Holds(bytes, at + WordBytes, all) /\ Len(written) = WordBytes + Len(all)
    <3> HIDE DEF head
    <3>1. Holds(bytes, at, head \o all)
      BY <1>2, <2>1
    <3> QED
      BY <2>1, <2>2, <2>4, <3>1, HoldsBoth
  <2>6. size = Got(n, at + WordBytes)
    BY <2>3, <2>5, WordRead
  <2>7. size.ok /\ size.val = n /\ size.at = at + WordBytes
    BY <2>6 DEF Got
  <2>8. popMany(n, g, read, bytes, at + WordBytes) = Got(values, (at + WordBytes) + Len(all))
    BY <1>3, <1>6, <2>1, <2>5, ElementsCarried DEF all, values
  <2>9. popField(known, g, blank, read, bytes, at) = KeptVector(popMany(n, g, read, bytes, at + WordBytes))
    BY <1>0, <1>6, <2>7 DEF popField, packer
  <2>10. (at + WordBytes) + Len(all) = at + Len(written)
    BY <1>2, <2>2, <2>5, CodecAssumption, LenProperties
  <2>11. popField(known, g, blank, read, bytes, at) = Got(values, at + Len(written))
    BY <2>8, <2>9, <2>10, KeptGot
  <2> QED
    BY <1>4, <1>6, <2>1, <2>11 DEF written
<1>7. CASE packer /\ ~is_array(f) /\ is_fixed_array(f)
  <2> DEFINE n == Len(v)
  <2>1. is_many(f) /\ written = all /\ n = f.dims /\ v \in Seq(Some(f, some))
    BY <1>1, <1>7, HeldCases DEF is_many
  <2>2. n \in Nat /\ DOMAIN v = 1..n /\ DOMAIN blank = 1..n
    <3>1. blank \in [1..g.dims -> Some(g, other)]
      BY <1>0, <1>7, HeldCases
    <3> QED
      BY <1>0, <1>7, <2>1, <3>1, LenProperties
  <2>3. popMany(n, g, read, bytes, at) = Got(values, at + Len(all))
    <3>1. Holds(bytes, at, all) /\ ManyCarries(f, g, v, packet, read, masked, bytes)
      BY <1>2, <1>3, <1>7, <2>1
    <3> QED
      BY <3>1, ElementsCarried DEF all, values
  <2>4. popField(known, g, blank, read, bytes, at) = KeptArray(popMany(n, g, read, bytes, at), blank)
    BY <1>0, <1>7, <2>1 DEF popField, packer
  <2>5. DOMAIN values = 1..n /\ values = [j \in 1..n |-> values[j]]
    BY <2>2 DEF values
  <2>6. KeptArray(Got(values, at + Len(all)), blank) = Got(values, at + Len(all))
    <3> HIDE DEF n
    <3> QED
      BY <2>2, <2>5, KeptArrayGot
  <2>7. popField(known, g, blank, read, bytes, at) = Got(values, at + Len(written))
    BY <2>1, <2>3, <2>4, <2>6
  <2> QED
    BY <1>4, <1>7, <2>1, <2>7 DEF written
<1>8. CASE packer /\ ~is_many(f)
  <2>1. written = Each(f, v, packet) /\ ~is_array(f) /\ ~is_fixed_array(f)
    BY <1>1, <1>8 DEF is_many
  <2>2. popOne(g, read, bytes, at) = Got(OneMasked(f, v, masked), at + Len(written))
    BY <1>2, <1>3, <1>8, <2>1 DEF Carries
  <2>3. popField(known, g, blank, read, bytes, at) = KeptOne(popOne(g, read, bytes, at), blank)
    BY <1>0, <1>8, <2>1 DEF popField, packer
  <2>4. OneMasked(f, v, masked) = MaskedMember(known, f, v, blank, masked)
    BY <1>8 DEF packer, OneMasked, MaskedMember
  <2>5. popField(known, g, blank, read, bytes, at) = Got(MaskedMember(known, f, v, blank, masked), at + Len(written))
    BY <2>2, <2>3, <2>4, KeptGot
  <2> QED
    BY <2>5 DEF written
<1> QED
  BY <1>5, <1>6, <1>7, <1>8 DEF is_many

-----------------------------------------------------------------------------
(***************************************************************************)
(* A message, member by member.                                            *)
(***************************************************************************)
\* All members are carried.
MembersCarry(pub, sub, known, x, packet, read, masked, bytes) ==
  /\ Len(Fields(sub, x[1])) = Len(Fields(pub, x[1]))
  /\ \A i \in DOMAIN Fields(pub, x[1]) :
       /\ Alike(Fields(pub, x[1])[i], Fields(sub, x[1])[i])
       /\ MemberCarries(known, Fields(pub, x[1])[i], Fields(sub, x[1])[i], x[2][i],
                        packet, read, masked, bytes)

\* The values of a message's members.
AllHeld(tree, t, m, some) == \A i \in DOMAIN Fields(tree, t) : m[i] \in Held(Fields(tree, t)[i], some)

\* A message that is written for one tree and read for another.
Sends(bytes, pub, sub, known, x, packet, read, masked, some, other, blank, at) ==
  /\ bytes \in Seq(Byte) /\ IsTree(pub) /\ IsTree(sub) /\ Packed(pub, known, x, packet)
  /\ MembersCarry(pub, sub, known, x, packet, read, masked, bytes)
  /\ AllHeld(pub, x[1], x[2], some) /\ AllHeld(sub, x[1], blank, other)
  /\ Holds(bytes, at, pushMsg(pub, known, x, packet))

\* What is read of what was written for a message.
LEMMA MessageCarried ==
  ASSUME NEW bytes, NEW pub, NEW sub, NEW known, NEW x, NEW packet, NEW read, NEW masked,
         NEW some, NEW other, NEW blank, NEW at,
         Sends(bytes, pub, sub, known, x, packet, read, masked, some, other, blank, at)
  PROVE  popMsg(sub, known, x[1], blank, read, bytes, at)
           = Got(MaskedMsg(pub, known, x, blank, masked), at + Len(pushMsg(pub, known, x, packet)))
<1>00. /\ bytes \in Seq(Byte) /\ IsTree(pub) /\ IsTree(sub) /\ Packed(pub, known, x, packet)
      /\ MembersCarry(pub, sub, known, x, packet, read, masked, bytes)
      /\ AllHeld(pub, x[1], x[2], some) /\ AllHeld(sub, x[1], blank, other)
      /\ Holds(bytes, at, pushMsg(pub, known, x, packet))
  BY DEF Sends
<1> DEFINE fs == Fields(pub, x[1])
           gs == Fields(sub, x[1])
           n == Len(fs)
           F(i) == pushField(known, fs[i], x[2][i], packet)
           parts == [i \in DOMAIN fs |-> F(i)]
           m == [i \in DOMAIN fs |-> MaskedMember(known, fs[i], x[2][i], blank[i], masked)]
<1>0. n \in Nat /\ DOMAIN fs = 1..n /\ DOMAIN gs = 1..n /\ Len(gs) = n
  <2>1. Len(fs) \in Nat /\ DOMAIN fs = 1..Len(fs) /\ Len(gs) \in Nat /\ DOMAIN gs = 1..Len(gs)
    BY <1>00, FieldsType, LenProperties
  <2> QED
    BY <1>00, <2>1 DEF MembersCarry
<1>1. pushMsg(pub, known, x, packet) = FlattenSeq(parts)
  BY DEF pushMsg
<1>2. MaskedMsg(pub, known, x, blank, masked) = m
  BY MaskedMsgDef
<1>3. ASSUME NEW i \in 1..n
      PROVE  /\ fs[i] \in Line /\ gs[i] \in Line /\ x[2][i] \in Held(fs[i], some) /\ blank[i] \in Held(gs[i], other)
             /\ Alike(fs[i], gs[i]) /\ MemberCarries(known, fs[i], gs[i], x[2][i], packet, read, masked, bytes)
             /\ parts[i] = F(i) /\ F(i) \in Seq(Byte) /\ m[i] = MaskedMember(known, fs[i], x[2][i], blank[i], masked)
  <2>1. i \in DOMAIN fs /\ i \in DOMAIN gs
    BY <1>0
  <2>2. fs[i] \in Line /\ gs[i] \in Line
    BY <1>00, <2>1, FieldType
  <2>3. Alike(fs[i], gs[i]) /\ MemberCarries(known, fs[i], gs[i], x[2][i], packet, read, masked, bytes)
    BY <1>00, <2>1 DEF MembersCarry
  <2>5. x[2][i] \in Held(fs[i], some) /\ blank[i] \in Held(gs[i], other)
    BY <1>00, <2>1 DEF AllHeld
  <2>4. F(i) \in Seq(Byte)
    BY <1>00, <2>1, <2>2, <2>5, PushFieldType
  <2> QED
    BY <2>1, <2>2, <2>3, <2>4, <2>5
<1>4. parts \in [1..n -> Seq(Byte)]
  BY <1>0, <1>3
<1>5. PICK member :
        /\ popMsg(sub, known, x[1], blank, read, bytes, at) = member[n]
        /\ member[0] = Got(<< >>, at)
        /\ \A i \in 0..(n - 1) :
             member[i + 1] = IF member[i].threw THEN member[i]
                             ELSE Joined(member[i], popField(known, gs[i + 1], blank[i + 1], read, bytes, member[i].at))
  <2>1. Len(Fields(sub, x[1])) \in Nat
    BY <1>0
  <2>2. PICK member :
          /\ popMsg(sub, known, x[1], blank, read, bytes, at) = member[Len(Fields(sub, x[1]))]
          /\ MembersRead(member, sub, known, x[1], blank, read, bytes, at)
    BY <2>1, popMsgDef
  <2> QED
    BY <1>0, <2>2 DEF MembersRead
<1> HIDE DEF parts, m, fs, gs
<1> HIDE DEF n, F
<1>6. Holds(bytes, at, FlattenSeq(parts))
  BY <1>00, <1>1
<1>7. PICK ends : BeginAt(ends, bytes, at, parts, n)
  BY <1>00, <1>0, <1>4, <1>6, HoldsPieces
<1>8. /\ ends[0] = at /\ ends[n] = at + Len(FlattenSeq(parts))
      /\ \A i \in 0..(n - 1) :
           Holds(bytes, ends[i], parts[i + 1]) /\ ends[i + 1] = ends[i] + Len(parts[i + 1])
  BY <1>7 DEF BeginAt
<1> DEFINE T == {i \in 0..n : member[i] = Got(First(m, i), ends[i])}
<1>9. 0 \in T
  <2>1. First(m, 0) = << >> /\ 0 \in 0..n
    BY <1>0, FirstOfAll
  <2> QED
    BY <1>5, <1>8, <2>1
<1>10. \A i \in 0..(n - 1) : i \in T => i + 1 \in T
  <2> SUFFICES ASSUME NEW i \in 0..(n - 1), i \in T
               PROVE  i + 1 \in T
    OBVIOUS
  <2> DEFINE k == i + 1
             a == ends[i]
             one == popField(known, gs[k], blank[k], read, bytes, a)
  <2>1. member[i] = Got(First(m, i), a)
    OBVIOUS
  <2>2. k \in 1..n /\ k \in 0..n /\ First(m, k) = Append(First(m, i), m[k])
    <3>1. i \in Nat
      BY <1>0
    <3>2. First(m, i + 1) = Append(First(m, i), m[i + 1])
      BY <3>1, FirstOfAll
    <3> QED
      BY <1>0, <3>2
  <2>3. Holds(bytes, a, parts[k]) /\ ends[k] = a + Len(parts[k])
    BY <1>8
  <2>4. member[k] = IF member[i].threw THEN member[i]
                    ELSE Joined(member[i], popField(known, gs[k], blank[k], read, bytes, member[i].at))
    BY <1>5
  <2> HIDE DEF k, a, T
  <2>5. ~member[i].threw /\ member[i].at = a
    BY <2>1 DEF Got
  <2>6. parts[k] = pushField(known, fs[k], x[2][k], packet)
    BY <1>3, <2>2 DEF F
  <2>7. one = Got(m[k], ends[k])
    <3> DEFINE f == fs[k]
               g == gs[k]
               v == x[2][k]
               b == blank[k]
    <3>1. /\ f \in Line /\ g \in Line /\ Alike(f, g) /\ v \in Held(f, some) /\ b \in Held(g, other)
          /\ MemberCarries(known, f, g, v, packet, read, masked, bytes)
          /\ m[k] = MaskedMember(known, f, v, b, masked)
          /\ parts[k] = pushField(known, f, v, packet)
          /\ Holds(bytes, a, pushField(known, f, v, packet))
      BY <1>3, <2>2, <2>3, <2>6
    <3> HIDE DEF f, g, v, b
    <3>2. popField(known, g, b, read, bytes, a)
            = Got(MaskedMember(known, f, v, b, masked), a + Len(pushField(known, f, v, packet)))
      BY <1>00, <3>1, FieldCarried
    <3> QED
      BY <2>3, <3>1, <3>2 DEF f, g, v, b
  <2>8. member[k] = Joined(member[i], one)
    BY <2>4, <2>5
  <2> HIDE DEF one
  <2>9. member[k] = Joined(Got(First(m, i), a), Got(m[k], ends[k]))
    BY <2>1, <2>7, <2>8
  <2>10. member[k] = Got(Append(First(m, i), m[k]), ends[k])
    BY <2>9, ExtendedGot
  <2>11. k \in T
    BY <2>2, <2>10 DEF T
  <2> QED
    BY <2>11 DEF k
<1>11. n \in T
  <2>1. n \in 0..n
    BY <1>0
  <2> HIDE DEF T
  <2> QED
    BY <1>0, <1>9, <1>10, <2>1, Induction
<1>12. member[n] = Got(First(m, n), at + Len(FlattenSeq(parts)))
  BY <1>8, <1>11
<1>13. First(m, n) = m
  BY <1>0 DEF First, m
<1> QED
  BY <1>1, <1>2, <1>5, <1>12, <1>13

-----------------------------------------------------------------------------
(***************************************************************************)
(* What the text of a file, that stands for its hash, tells: its constants *)
(* come first, so that texts that are equal have equal members.            *)
(***************************************************************************)
\* The text of a file: its constants, and its members.
OfText(tree, f, hash) ==
  IF to_cxx_typeName(f) THEN Text(TRUE, << >>)
  ELSE IF f.type \in DOMAIN tree THEN hash[f.type]
  ELSE Text(f.here, << >>)
ConstItem(tree, t, i) == Item(FALSE, TRUE, Word(Consts(tree, t)[i], << >>), Consts(tree, t)[i].name)
FieldItem(tree, t, hash, i) ==
  Item(i > 1 \/ Lines(tree, t)[1].kind # "field", FALSE,
       Word(Fields(tree, t)[i], OfText(tree, Fields(tree, t)[i], hash).items), Fields(tree, t)[i].name)
ConstItems(tree, t) == [i \in DOMAIN Consts(tree, t) |-> ConstItem(tree, t, i)]
FieldItems(tree, t, hash) == [i \in DOMAIN Fields(tree, t) |-> FieldItem(tree, t, hash, i)]

LEMMA TextOfDef ==
  ASSUME NEW tree, NEW t, NEW hash
  PROVE  /\ TextOf(tree, t, hash).items = ConstItems(tree, t) \o FieldItems(tree, t, hash)
         /\ TextOf(tree, t, hash).ok => \A f \in ToSet(Fields(tree, t)) : OfText(tree, f, hash).ok
<1>1. TextOf(tree, t, hash) =
        Text((\A l \in ToSet(Lines(tree, t)) : l.kind # "bad")
               /\ \A f \in ToSet(Fields(tree, t)) : OfText(tree, f, hash).ok,
             ConstItems(tree, t) \o FieldItems(tree, t, hash))
  BY DEF TextOf, ConstItems, FieldItems, ConstItem, FieldItem, OfText
<1> DEFINE fine == (\A l \in ToSet(Lines(tree, t)) : l.kind # "bad")
                     /\ \A f \in ToSet(Fields(tree, t)) : OfText(tree, f, hash).ok
           items == ConstItems(tree, t) \o FieldItems(tree, t, hash)
<1>2. fine => \A f \in ToSet(Fields(tree, t)) : OfText(tree, f, hash).ok
  OBVIOUS
<1>3. TextOf(tree, t, hash) = Text(fine, items)
  BY <1>1
<1> HIDE DEF fine, items
<1>4. TextOf(tree, t, hash).items = items /\ TextOf(tree, t, hash).ok = fine
  BY <1>3 DEF Text
<1> QED
  BY <1>2, <1>4 DEF items

\* Two sequences of two parts each, whose elements tell the parts: the second parts
\* of equal ones are equal.
Telling(S, a, b) ==
  /\ a \in Seq(S) /\ b \in Seq(S)
  /\ \A i \in 1..Len(a) : a[i].value = TRUE
  /\ \A i \in 1..Len(b) : b[i].value = FALSE

Told(S, a, b, c, d) == Telling(S, a, b) /\ Telling(S, c, d) /\ a \o b = c \o d

LEMMA SameParts ==
  ASSUME NEW S, NEW a, NEW b, NEW c, NEW d, Told(S, a, b, c, d)
  PROVE  Len(b) = Len(d) /\ \A i \in 1..Len(b) : b[i] = d[i]
<1> DEFINE p == Len(a)
           q == Len(b)
           r == Len(c)
           s == Len(d)
           u == a \o b
           w == c \o d
<1>0. a \in Seq(S) /\ b \in Seq(S) /\ c \in Seq(S) /\ d \in Seq(S)
  BY DEF Told, Telling
<1>1. p \in Nat /\ q \in Nat /\ r \in Nat /\ s \in Nat
  BY <1>0, LenProperties
<1>2. Len(u) = p + q /\ \A i \in 1..(p + q) : u[i] = IF i <= p THEN a[i] ELSE b[i - p]
  BY <1>0, ConcatProperties
<1>3. Len(w) = r + s /\ \A i \in 1..(r + s) : w[i] = IF i <= r THEN c[i] ELSE d[i - r]
  BY <1>0, ConcatProperties
<1>4. u = w
  BY DEF Told
<1>5. /\ \A i \in 1..p : a[i].value = TRUE
      /\ \A i \in 1..q : b[i].value = FALSE
      /\ \A i \in 1..r : c[i].value = TRUE
      /\ \A i \in 1..s : d[i].value = FALSE
  BY DEF Told, Telling
<1> HIDE DEF u, w, p, q, r, s
<1>6. p + q = r + s
  BY <1>2, <1>3, <1>4
<1>7. ~(p < r)
  <2> SUFFICES ASSUME p < r
               PROVE  FALSE
    OBVIOUS
  <2> DEFINE k == p + 1
  <2>1. k \in 1..(p + q) /\ k \in 1..(r + s) /\ ~(k <= p) /\ k <= r /\ k - p = 1 /\ 1 \in 1..q /\ k \in 1..r
    BY <1>1, <1>6
  <2> HIDE DEF k
  <2>2. u[k] = b[1]
    BY <1>2, <2>1
  <2>3. w[k] = c[k]
    BY <1>3, <2>1
  <2>4. b[1].value = FALSE /\ c[k].value = TRUE
    BY <1>5, <2>1
  <2> QED
    BY <1>4, <2>2, <2>3, <2>4
<1>8. ~(r < p)
  <2> SUFFICES ASSUME r < p
               PROVE  FALSE
    OBVIOUS
  <2> DEFINE k == r + 1
  <2>1. k \in 1..(p + q) /\ k \in 1..(r + s) /\ ~(k <= r) /\ k <= p /\ k - r = 1 /\ 1 \in 1..s /\ k \in 1..p
    BY <1>1, <1>6
  <2> HIDE DEF k
  <2>2. w[k] = d[1]
    BY <1>3, <2>1
  <2>3. u[k] = a[k]
    BY <1>2, <2>1
  <2>4. d[1].value = FALSE /\ a[k].value = TRUE
    BY <1>5, <2>1
  <2> QED
    BY <1>4, <2>2, <2>3, <2>4
<1>9. p = r /\ q = s
  BY <1>1, <1>6, <1>7, <1>8
<1>10. ASSUME NEW i \in 1..q
       PROVE  b[i] = d[i]
  <2> DEFINE k == p + i
  <2>1. k \in 1..(p + q) /\ ~(k <= p) /\ k - p = i
    BY <1>1
  <2> HIDE DEF k
  <2>2. u[k] = b[i]
    BY <1>2, <2>1
  <2>3. w[k] = d[i]
    BY <1>3, <1>9, <2>1
  <2> QED
    BY <1>4, <2>2, <2>3
<1> QED
  BY <1>9, <1>10 DEF q, s

ItemsOf(tree, t, hash) ==
  /\ ConstItems(tree, t) \in Seq({ConstItem(tree, t, i) : i \in 1..Len(Consts(tree, t))})
  /\ FieldItems(tree, t, hash) \in Seq({FieldItem(tree, t, hash, i) : i \in 1..Len(Fields(tree, t))})
  /\ Len(FieldItems(tree, t, hash)) = Len(Fields(tree, t))
  /\ \A i \in 1..Len(ConstItems(tree, t)) : ConstItems(tree, t)[i].value = TRUE
  /\ \A i \in 1..Len(Fields(tree, t)) :
       /\ FieldItems(tree, t, hash)[i] = FieldItem(tree, t, hash, i)
       /\ FieldItem(tree, t, hash, i).value = FALSE

LEMMA ItemsType ==
  ASSUME NEW tree, IsTree(tree), NEW t, NEW hash
  PROVE  ItemsOf(tree, t, hash)
<1> DEFINE a == Len(Consts(tree, t))
           b == Len(Fields(tree, t))
           C == {ConstItem(tree, t, i) : i \in 1..a}
           F == {FieldItem(tree, t, hash, i) : i \in 1..b}
<1>1. /\ a \in Nat /\ b \in Nat
      /\ DOMAIN Consts(tree, t) = 1..a /\ DOMAIN Fields(tree, t) = 1..b
  BY FieldsType, LenProperties
<1>2. ConstItems(tree, t) \in [1..a -> C] /\ FieldItems(tree, t, hash) \in [1..b -> F]
  BY <1>1 DEF ConstItems, FieldItems
<1>3. /\ \A i \in 1..a : ConstItems(tree, t)[i] = ConstItem(tree, t, i)
      /\ \A i \in 1..b : FieldItems(tree, t, hash)[i] = FieldItem(tree, t, hash, i)
  BY <1>1 DEF ConstItems, FieldItems
<1> HIDE DEF a, b
<1>4. \A i \in 1..a : ConstItem(tree, t, i).value = TRUE
  BY DEF ConstItem, Item
<1>5. \A i \in 1..b : FieldItem(tree, t, hash, i).value = FALSE
  BY DEF FieldItem, Item
<1> HIDE DEF C, F
<1>6. /\ ConstItems(tree, t) \in Seq(C) /\ Len(ConstItems(tree, t)) = a
      /\ FieldItems(tree, t, hash) \in Seq(F) /\ Len(FieldItems(tree, t, hash)) = b
  BY <1>1, <1>2, Places
<1> QED
  BY <1>3, <1>4, <1>5, <1>6 DEF a, b, C, F, ItemsOf

\* Files with the same text have as many members, with the same words.
LEMMA SameItems ==
  ASSUME NEW tree1, IsTree(tree1), NEW tree2, IsTree(tree2), NEW t, NEW hash1, NEW hash2,
         TextOf(tree1, t, hash1).items = TextOf(tree2, t, hash2).items
  PROVE  /\ Len(Fields(tree1, t)) = Len(Fields(tree2, t))
         /\ \A i \in 1..Len(Fields(tree1, t)) :
              Word(Fields(tree1, t)[i], OfText(tree1, Fields(tree1, t)[i], hash1).items)
                = Word(Fields(tree2, t)[i], OfText(tree2, Fields(tree2, t)[i], hash2).items)
<1> DEFINE a == ConstItems(tree1, t)
           b == FieldItems(tree1, t, hash1)
           c == ConstItems(tree2, t)
           d == FieldItems(tree2, t, hash2)
           A == {ConstItem(tree1, t, i) : i \in 1..Len(Consts(tree1, t))}
           B == {FieldItem(tree1, t, hash1, i) : i \in 1..Len(Fields(tree1, t))}
           C == {ConstItem(tree2, t, i) : i \in 1..Len(Consts(tree2, t))}
           D == {FieldItem(tree2, t, hash2, i) : i \in 1..Len(Fields(tree2, t))}
           S == A \cup B \cup C \cup D
<1>1. a \o b = c \o d
  BY TextOfDef
<1>0. ItemsOf(tree1, t, hash1) /\ ItemsOf(tree2, t, hash2)
  BY ItemsType
<1>2. a \in Seq(A) /\ b \in Seq(B) /\ c \in Seq(C) /\ d \in Seq(D)
  BY <1>0 DEF ItemsOf
<1>3. /\ \A i \in 1..Len(a) : a[i].value = TRUE
      /\ \A i \in 1..Len(c) : c[i].value = TRUE
      /\ Len(b) = Len(Fields(tree1, t)) /\ Len(d) = Len(Fields(tree2, t))
  BY <1>0 DEF ItemsOf
<1>4. \A i \in 1..Len(Fields(tree1, t)) : b[i] = FieldItem(tree1, t, hash1, i) /\ b[i].value = FALSE
  BY <1>0 DEF ItemsOf
<1>5. \A i \in 1..Len(Fields(tree2, t)) : d[i] = FieldItem(tree2, t, hash2, i) /\ d[i].value = FALSE
  BY <1>0 DEF ItemsOf
<1> HIDE DEF a, b, c, d, A, B, C, D
<1>6. a \in Seq(S) /\ b \in Seq(S) /\ c \in Seq(S) /\ d \in Seq(S)
  <2>1. A \subseteq S /\ B \subseteq S /\ C \subseteq S /\ D \subseteq S
    OBVIOUS
  <2> HIDE DEF S
  <2> QED
    BY <1>2, <2>1
<1> HIDE DEF S
<1>7. \A i \in 1..Len(b) : b[i].value = FALSE
  BY <1>3, <1>4
<1>8. \A i \in 1..Len(d) : d[i].value = FALSE
  BY <1>3, <1>5
<1>9. Len(b) = Len(d) /\ \A i \in 1..Len(b) : b[i] = d[i]
  <2>1. Telling(S, a, b) /\ Telling(S, c, d)
    BY <1>3, <1>6, <1>7, <1>8 DEF Telling
  <2>2. Told(S, a, b, c, d)
    BY <1>1, <2>1 DEF Told
  <2> QED
    BY <2>2, SameParts
<1>10. ASSUME NEW i \in 1..Len(Fields(tree1, t))
       PROVE  FieldItem(tree1, t, hash1, i) = FieldItem(tree2, t, hash2, i)
  BY <1>3, <1>4, <1>5, <1>9
<1>11. \A i \in 1..Len(Fields(tree1, t)) :
         Word(Fields(tree1, t)[i], OfText(tree1, Fields(tree1, t)[i], hash1).items)
           = Word(Fields(tree2, t)[i], OfText(tree2, Fields(tree2, t)[i], hash2).items)
  BY <1>10 DEF FieldItem, Item
<1> QED
  BY <1>3, <1>9, <1>11

-----------------------------------------------------------------------------
(***************************************************************************)
(* Types with the same text have the same members, and the types of these  *)
(* have the same text.                                                     *)
(***************************************************************************)
\* Words that are the same are of members that are written and read alike; two
\* members of message types are both one or both many, by the condition.
LEMMA WordsAlike ==
  ASSUME NEW f \in Line, NEW g \in Line, NEW hash1, NEW hash2, Word(f, hash1) = Word(g, hash2),
         ~to_cxx_typeName(f) \/ ~to_cxx_typeName(g) => f.type = g.type /\ is_array(f) = is_array(g)
  PROVE  Alike(f, g) /\ hash1 = hash2
<1>1. /\ hash1 = hash2
      /\ (IF to_cxx_typeName(f) THEN f.type ELSE "hash") = (IF to_cxx_typeName(g) THEN g.type ELSE "hash")
      /\ (IF to_cxx_typeName(f) \/ is_fixed_array(f) THEN f.dims ELSE None)
           = (IF to_cxx_typeName(g) \/ is_fixed_array(g) THEN g.dims ELSE None)
  BY DEF Word
<1>2. "hash" \notin Primitive
  BY DEF Primitive, Words, Floats
<1>3. to_cxx_typeName(f) <=> to_cxx_typeName(g)
  BY <1>1, <1>2 DEF to_cxx_typeName
<1>4. f.dims \in Int /\ g.dims \in Int
  BY DEF Line, Vector
<1>5. CASE to_cxx_typeName(f)
  <2>1. f.type = g.type /\ f.dims = g.dims
    BY <1>1, <1>3, <1>5
  <2>2. f.type \notin OneLetter /\ g.type \notin OneLetter
    BY <1>3, <1>5, TypesAssumption DEF to_cxx_typeName
  <2>3. is_array(f) <=> is_array(g)
    BY <2>1, <2>2 DEF is_array
  <2>4. is_fixed_array(f) <=> is_fixed_array(g)
    BY <2>1 DEF is_fixed_array
  <2> QED
    BY <1>1, <1>3, <2>1, <2>3, <2>4 DEF Alike
<1>6. CASE ~to_cxx_typeName(f)
  <2>1. f.type = g.type /\ is_array(f) = is_array(g)
    BY <1>6
  <2>2. (IF is_fixed_array(f) THEN f.dims ELSE None) = (IF is_fixed_array(g) THEN g.dims ELSE None)
    BY <1>1, <1>3, <1>6
  <2>3. (is_fixed_array(f) <=> is_fixed_array(g)) /\ (is_fixed_array(f) => f.dims = g.dims)
    BY <1>4, <2>2 DEF is_fixed_array, None
  <2>4. is_array(f) <=> is_array(g)
    BY <2>1
  <2> QED
    BY <1>1, <1>3, <2>1, <2>3, <2>4 DEF Alike
<1> QED
  BY <1>5, <1>6

\* The text of a type; a file that is missing is an empty one.
TextAt(tree, hash, t) == IF t \in DOMAIN tree THEN hash[t] ELSE Text(TRUE, << >>)
TextAlike(pub, sub, hash1, hash2, t) ==
  /\ TextAt(pub, hash1, t).ok /\ TextAt(sub, hash2, t).ok
  /\ TextAt(pub, hash1, t).items = TextAt(sub, hash2, t).items

\* One level of hashes from the one below.
OneLevel(tree, hash, next) == \A t \in DOMAIN tree : next[t] = TextOf(tree, t, hash)

\* A type whose file is missing, or whose text is empty, has no members.
LEMMA NoText ==
  ASSUME NEW tree, IsTree(tree), NEW t, NEW hash, TextOf(tree, t, hash).items = << >>
  PROVE  Len(Fields(tree, t)) = 0
<1>1. ItemsOf(tree, t, hash)
  BY ItemsType
<1> DEFINE S == {ConstItem(tree, t, i) : i \in 1..Len(Consts(tree, t))}
                  \cup {FieldItem(tree, t, hash, i) : i \in 1..Len(Fields(tree, t))}
           a == ConstItems(tree, t)
           b == FieldItems(tree, t, hash)
<1>2. a \in Seq(S) /\ b \in Seq(S)
  BY <1>1 DEF ItemsOf
<1>3. a \o b = << >> /\ Len(b) = Len(Fields(tree, t))
  BY <1>1, TextOfDef DEF ItemsOf
<1> HIDE DEF S, a, b
<1>4. Len(a \o b) = Len(a) + Len(b) /\ Len(a) \in Nat /\ Len(b) \in Nat
  BY <1>2, ConcatProperties, LenProperties
<1>5. Len(a \o b) = 0
  BY <1>3
<1> QED
  BY <1>3, <1>4, <1>5

\* Files with the same hash have the same members, and those of message types have
\* types with the same hash.
LEMMA FieldsAlike ==
  ASSUME NEW pub, IsTree(pub), NEW sub, IsTree(sub), SameShape(pub, sub), NEW t,
         NEW hash1, NEW hash2, NEW next1, NEW next2, OneLevel(pub, hash1, next1), OneLevel(sub, hash2, next2),
         TextAlike(pub, sub, next1, next2, t)
  PROVE  /\ Len(Fields(sub, t)) = Len(Fields(pub, t))
         /\ \A i \in DOMAIN Fields(pub, t) :
              /\ Alike(Fields(pub, t)[i], Fields(sub, t)[i])
              /\ ~to_cxx_typeName(Fields(pub, t)[i])
                   => TextAlike(pub, sub, hash1, hash2, Fields(pub, t)[i].type)
<1>0. /\ Len(Fields(pub, t)) \in Nat /\ DOMAIN Fields(pub, t) = 1..Len(Fields(pub, t))
      /\ Len(Fields(sub, t)) \in Nat /\ DOMAIN Fields(sub, t) = 1..Len(Fields(sub, t))
  BY FieldsType, LenProperties
<1>1. CASE t \notin DOMAIN pub
  <2>1. Fields(pub, t) = << >>
    BY <1>1, FieldsType
  <2>2. TextAt(sub, next2, t).items = << >>
    BY <1>1 DEF TextAlike, TextAt, Text
  <2>3. Len(Fields(sub, t)) = 0
    <3>1. CASE t \in DOMAIN sub
      <4>1. TextOf(sub, t, hash2).items = << >>
        BY <2>2, <3>1 DEF TextAt, OneLevel
      <4> QED
        BY <4>1, NoText
    <3>2. CASE t \notin DOMAIN sub
      BY <3>2, FieldsType
    <3> QED
      BY <3>1, <3>2
  <2> QED
    BY <1>0, <2>1, <2>3
<1>2. CASE t \in DOMAIN pub /\ t \notin DOMAIN sub
  <2>1. Fields(sub, t) = << >>
    BY <1>2, FieldsType
  <2>2. TextOf(pub, t, hash1).items = << >>
    BY <1>2 DEF TextAlike, TextAt, Text, OneLevel
  <2>3. Len(Fields(pub, t)) = 0
    BY <2>2, NoText
  <2> QED
    BY <1>0, <2>1, <2>3
<1>3. CASE t \in DOMAIN pub /\ t \in DOMAIN sub
  <2>1. /\ TextOf(pub, t, hash1).ok /\ TextOf(sub, t, hash2).ok
        /\ TextOf(pub, t, hash1).items = TextOf(sub, t, hash2).items
    BY <1>3 DEF TextAlike, TextAt, OneLevel
  <2>2. /\ Len(Fields(pub, t)) = Len(Fields(sub, t))
        /\ \A i \in 1..Len(Fields(pub, t)) :
             Word(Fields(pub, t)[i], OfText(pub, Fields(pub, t)[i], hash1).items)
               = Word(Fields(sub, t)[i], OfText(sub, Fields(sub, t)[i], hash2).items)
    BY <2>1, SameItems
  <2>3. ASSUME NEW i \in DOMAIN Fields(pub, t)
        PROVE  /\ Alike(Fields(pub, t)[i], Fields(sub, t)[i])
               /\ ~to_cxx_typeName(Fields(pub, t)[i])
                    => TextAlike(pub, sub, hash1, hash2, Fields(pub, t)[i].type)
    <3> DEFINE f == Fields(pub, t)[i]
               g == Fields(sub, t)[i]
    <3>1. i \in DOMAIN Fields(sub, t)
      BY <1>0, <2>2
    <3>2. f \in Line /\ f \in ToSet(Fields(pub, t)) /\ g \in Line /\ g \in ToSet(Fields(sub, t))
      BY <3>1, FieldType
    <3>3. Word(f, OfText(pub, f, hash1).items) = Word(g, OfText(sub, g, hash2).items)
      BY <1>0, <2>2
    <3>4. ~to_cxx_typeName(f) \/ ~to_cxx_typeName(g) => f.type = g.type /\ is_array(f) = is_array(g)
      BY <1>3, <3>1 DEF SameShape
    <3>5. OfText(pub, f, hash1).ok /\ OfText(sub, g, hash2).ok
      BY <2>1, <3>2, TextOfDef
    <3> HIDE DEF f, g
    <3>6. Alike(f, g) /\ OfText(pub, f, hash1).items = OfText(sub, g, hash2).items
      BY <3>2, <3>3, <3>4, WordsAlike
    <3>7. ASSUME ~to_cxx_typeName(f)
          PROVE  TextAlike(pub, sub, hash1, hash2, f.type)
      <4>1. ~to_cxx_typeName(g) /\ g.type = f.type
        BY <3>6, <3>7 DEF Alike
      <4>2. TextAt(pub, hash1, f.type).ok /\ TextAt(pub, hash1, f.type).items = OfText(pub, f, hash1).items
        BY <3>5, <3>7 DEF OfText, TextAt, Text
      <4>3. TextAt(sub, hash2, f.type).ok /\ TextAt(sub, hash2, f.type).items = OfText(sub, g, hash2).items
        BY <3>5, <4>1 DEF OfText, TextAt, Text
      <4> QED
        BY <3>6, <4>2, <4>3 DEF TextAlike
    <3> QED
      BY <3>6, <3>7 DEF f, g
  <2> QED
    BY <2>2, <2>3
<1> QED
  BY <1>1, <1>2, <1>3

-----------------------------------------------------------------------------
(***************************************************************************)
(* The levels together: messages within messages that were written are     *)
(* read.                                                                   *)
(***************************************************************************)
\* All levels of the hashes of two trees.
HashLevels(hash, tree) ==
  /\ \A t \in DOMAIN tree : ~hash[0][t].ok
  /\ \A d \in 0..(Levels - 1) : OneLevel(tree, hash[d], hash[d + 1])

LEMMA HashesOf ==
  ASSUME NEW tree
  PROVE  \E hash : Hashes(tree) = hash[Levels] /\ HashLevels(hash, tree)
<1>1. PICK hash :
        /\ Hashes(tree) = hash[Levels]
        /\ hash[0] = [t \in DOMAIN tree |-> Text(FALSE, << >>)]
        /\ \A d \in 0..(Levels - 1) : hash[d + 1] = [t \in DOMAIN tree |-> TextOf(tree, t, hash[d])]
  BY HashesDef
<1>2. \A t \in DOMAIN tree : ~hash[0][t].ok
  BY <1>1 DEF Text
<1>3. \A d \in 0..(Levels - 1) : OneLevel(tree, hash[d], hash[d + 1])
  BY <1>1 DEF OneLevel
<1> QED
  BY <1>1, <1>2, <1>3 DEF HashLevels

\* Two trees, their hashes, and the condition on their shapes.
TwoTrees(pub, sub, hash1, hash2) ==
  /\ IsTree(pub) /\ IsTree(sub) /\ SameShape(pub, sub)
  /\ HashLevels(hash1, pub) /\ HashLevels(hash2, sub)

LEMMA FieldsAlikeAt ==
  ASSUME NEW pub, NEW sub, NEW hash1, NEW hash2, TwoTrees(pub, sub, hash1, hash2),
         NEW d \in 0..(Levels - 1), NEW t, TextAlike(pub, sub, hash1[d + 1], hash2[d + 1], t)
  PROVE  /\ Len(Fields(sub, t)) = Len(Fields(pub, t)) /\ DOMAIN Fields(sub, t) = DOMAIN Fields(pub, t)
         /\ \A i \in DOMAIN Fields(pub, t) :
              /\ Alike(Fields(pub, t)[i], Fields(sub, t)[i])
              /\ ~to_cxx_typeName(Fields(pub, t)[i])
                   => TextAlike(pub, sub, hash1[d], hash2[d], Fields(pub, t)[i].type)
<1>1. IsTree(pub) /\ IsTree(sub) /\ SameShape(pub, sub)
  BY DEF TwoTrees
<1>2. OneLevel(pub, hash1[d], hash1[d + 1]) /\ OneLevel(sub, hash2[d], hash2[d + 1])
  BY DEF TwoTrees, HashLevels
<1>3. /\ Len(Fields(sub, t)) = Len(Fields(pub, t))
      /\ \A i \in DOMAIN Fields(pub, t) :
           /\ Alike(Fields(pub, t)[i], Fields(sub, t)[i])
           /\ ~to_cxx_typeName(Fields(pub, t)[i])
                => TextAlike(pub, sub, hash1[d], hash2[d], Fields(pub, t)[i].type)
  BY <1>1, <1>2, FieldsAlike
<1>4. DOMAIN Fields(sub, t) = DOMAIN Fields(pub, t)
  BY <1>1, <1>3, FieldsType, LenProperties
<1> QED
  BY <1>3, <1>4

\* The default constructors of types with the same hash make the same.
LEMMA BlanksAlike ==
  ASSUME NEW pub, NEW sub, NEW hash1, NEW hash2, TwoTrees(pub, sub, hash1, hash2)
  PROVE  \A d \in 0..Levels : \A t \in Mentioned(pub) \cap Mentioned(sub) :
           TextAlike(pub, sub, hash1[d], hash2[d], t) => Blanks(pub)[d][t] = Blanks(sub)[d][t]
<1> DEFINE Same(d) == \A t \in Mentioned(pub) \cap Mentioned(sub) :
             TextAlike(pub, sub, hash1[d], hash2[d], t) => Blanks(pub)[d][t] = Blanks(sub)[d][t]
           T == {d \in 0..Levels : Same(d)}
<1>0. Levels \in Nat /\ IsTree(pub) /\ IsTree(sub)
  BY TypesAssumption DEF TwoTrees
<1>1. 0 \in T
  <2>1. Same(0)
    BY BlanksDef
  <2> QED
    BY <1>0, <2>1
<1>2. \A d \in 0..(Levels - 1) : d \in T => d + 1 \in T
  <2> SUFFICES ASSUME NEW d \in 0..(Levels - 1), d \in T
               PROVE  d + 1 \in T
    OBVIOUS
  <2>0. d + 1 \in 0..Levels
    BY <1>0
  <2> SUFFICES ASSUME NEW t \in Mentioned(pub) \cap Mentioned(sub),
                      TextAlike(pub, sub, hash1[d + 1], hash2[d + 1], t)
               PROVE  Blanks(pub)[d + 1][t] = Blanks(sub)[d + 1][t]
    BY <2>0
  <2> DEFINE fs == Fields(pub, t)
             gs == Fields(sub, t)
             bp == Blanks(pub)[d]
             bs == Blanks(sub)[d]
             A(f, b) == LET one == IF to_cxx_typeName(f) THEN BlankOf(f.type) ELSE b[f.type]
                        IN IF is_array(f) THEN << >>
                           ELSE IF is_fixed_array(f) THEN [j \in 1..f.dims |-> one]
                           ELSE one
  <2>1. /\ Blanks(pub)[d + 1][t] = [i \in DOMAIN fs |-> A(fs[i], bp)]
        /\ Blanks(sub)[d + 1][t] = [i \in DOMAIN gs |-> A(gs[i], bs)]
    BY BlanksDef DEF BlankMsg
  <2>2. DOMAIN gs = DOMAIN fs
    BY FieldsAlikeAt
  <2>3. ASSUME NEW i \in DOMAIN fs
        PROVE  A(fs[i], bp) = A(gs[i], bs)
    <3> DEFINE f == fs[i]
               g == gs[i]
    <3>1. /\ Alike(f, g)
          /\ ~to_cxx_typeName(f) => TextAlike(pub, sub, hash1[d], hash2[d], f.type)
      BY FieldsAlikeAt
    <3>2. /\ ~to_cxx_typeName(f) => f.type \in Mentioned(pub)
          /\ ~to_cxx_typeName(g) => g.type \in Mentioned(sub)
      BY <1>0, <2>2, FieldType
    <3>3. Same(d)
      OBVIOUS
    <3> HIDE DEF f, g
    <3>4. ~to_cxx_typeName(f) => bp[f.type] = bs[f.type]
      BY <3>1, <3>2, <3>3 DEF Alike
    <3> HIDE DEF bp, bs
    <3>5. (IF to_cxx_typeName(f) THEN BlankOf(f.type) ELSE bp[f.type])
            = (IF to_cxx_typeName(g) THEN BlankOf(g.type) ELSE bs[g.type])
      BY <3>1, <3>4 DEF Alike
    <3>6. A(f, bp) = A(g, bs)
      BY <3>1, <3>5 DEF Alike
    <3> QED
      BY <3>6 DEF f, g
  <2> HIDE DEF A, fs, gs, bp, bs
  <2>4. [i \in DOMAIN fs |-> A(fs[i], bp)] = [i \in DOMAIN gs |-> A(gs[i], bs)]
    BY <2>2, <2>3
  <2> QED
    BY <2>1, <2>4
<1>3. \A d \in 0..Levels : d \in T
  <2> HIDE DEF T
  <2> QED
    BY <1>0, <1>1, <1>2, Induction
<1> QED
  BY <1>3

\* What is read of what was written, at one depth of messages within messages.
CarriedAt(pub, sub, messages, alike, packet, read, masked, bytes) ==
  \A x \in messages : x[1] \in Mentioned(sub) /\ x[1] \in alike
    => \A a : Holds(bytes, a, packet[x]) => read[<<x[1], a>>] = Got(masked[x], a + Len(packet[x]))

\* One value of a member is carried.
LEMMA OneCarried ==
  ASSUME NEW bytes \in Seq(Byte), NEW pub, NEW sub, NEW f, NEW g, Alike(f, g),
         NEW messages, NEW alike, NEW packet, NEW read, NEW masked,
         CarriedAt(pub, sub, messages, alike, packet, read, masked, bytes),
         NEW e, to_cxx_typeName(f) => e \in Values(f.type),
         ~to_cxx_typeName(f) =>
           <<f.type, e>> \in messages /\ f.type \in Mentioned(sub) /\ f.type \in alike
  PROVE  Carries(f, g, e, packet, read, masked, bytes)
<1> SUFFICES ASSUME NEW a, Holds(bytes, a, Each(f, e, packet))
             PROVE  popOne(g, read, bytes, a) = Got(OneMasked(f, e, masked), a + Len(Each(f, e, packet)))
  BY DEF Carries
<1>0. (to_cxx_typeName(f) <=> to_cxx_typeName(g)) /\ f.type = g.type
  BY DEF Alike
<1>1. CASE to_cxx_typeName(f)
  <2> DEFINE type == f.type
  <2>1. type \in Primitive /\ e \in Values(type)
    BY <1>1 DEF to_cxx_typeName
  <2>2. Each(f, e, packet) = push(type, e) /\ OneMasked(f, e, masked) = e
        /\ popOne(g, read, bytes, a) = pop(type, bytes, a)
    BY <1>0, <1>1 DEF Each, OneMasked, popOne
  <2> HIDE DEF type
  <2>3. Holds(bytes, a, push(type, e))
    BY <2>2
  <2>4. pop(type, bytes, a) = Got(e, a + Len(push(type, e)))
    BY <2>1, <2>3, popRead
  <2> QED
    BY <2>2, <2>4
<1>2. CASE ~to_cxx_typeName(f)
  <2> DEFINE y == <<f.type, e>>
  <2>1. y \in messages /\ y[1] = f.type /\ y[1] \in Mentioned(sub) /\ y[1] \in alike
    BY <1>2
  <2>2. Each(f, e, packet) = packet[y] /\ OneMasked(f, e, masked) = masked[y]
        /\ popOne(g, read, bytes, a) = read[<<f.type, a>>]
    BY <1>0, <1>2 DEF Each, OneMasked, popOne
  <2>3. read[<<y[1], a>>] = Got(masked[y], a + Len(packet[y]))
    <3> HIDE DEF y
    <3>1. Holds(bytes, a, packet[y])
      BY <2>2
    <3> QED
      BY <2>1, <3>1 DEF CarriedAt
  <2> QED
    BY <2>1, <2>2, <2>3
<1> QED
  BY <1>1, <1>2

\* The members of a message are carried, when the messages within it are.
LEMMA MembersCarried ==
  ASSUME NEW bytes \in Seq(Byte), NEW pub, IsTree(pub), NEW sub, IsTree(sub), NEW known, NEW x,
         NEW packet, Packed(pub, known, x, packet), NEW read, NEW masked, NEW messages, NEW alike,
         Members(pub, known, x) \subseteq messages,
         CarriedAt(pub, sub, messages, alike, packet, read, masked, bytes),
         NEW some, \A i \in DOMAIN Fields(pub, x[1]) : x[2][i] \in Held(Fields(pub, x[1])[i], some),
         Len(Fields(sub, x[1])) = Len(Fields(pub, x[1])),
         DOMAIN Fields(sub, x[1]) = DOMAIN Fields(pub, x[1]),
         \A i \in DOMAIN Fields(pub, x[1]) :
           /\ Alike(Fields(pub, x[1])[i], Fields(sub, x[1])[i])
           /\ ~to_cxx_typeName(Fields(pub, x[1])[i]) => Fields(pub, x[1])[i].type \in alike
  PROVE  MembersCarry(pub, sub, known, x, packet, read, masked, bytes)
<1> SUFFICES ASSUME NEW i \in DOMAIN Fields(pub, x[1])
             PROVE  MemberCarries(known, Fields(pub, x[1])[i], Fields(sub, x[1])[i], x[2][i],
                                  packet, read, masked, bytes)
  BY DEF MembersCarry
<1> DEFINE f == Fields(pub, x[1])[i]
           g == Fields(sub, x[1])[i]
           v == x[2][i]
<1> SUFFICES ASSUME to_cxx_typeName(f) \/ f.type \in known
             PROVE  /\ ~is_many(f) => Carries(f, g, v, packet, read, masked, bytes)
                    /\ is_many(f) => ManyCarries(f, g, v, packet, read, masked, bytes)
  BY DEF MemberCarries
<1>1. /\ f \in Line /\ v \in Held(f, some) /\ Alike(f, g)
      /\ ~to_cxx_typeName(f) => f.type \in alike /\ f.type \in known
  BY FieldType
<1>2. ~to_cxx_typeName(f) => f.type \in Mentioned(sub)
  <2>1. (to_cxx_typeName(f) <=> to_cxx_typeName(g)) /\ f.type = g.type
    BY <1>1 DEF Alike
  <2>2. ~to_cxx_typeName(g) => g.type \in Mentioned(sub)
    BY FieldType
  <2> QED
    BY <2>1, <2>2
<1>3. ~to_cxx_typeName(f) =>
        /\ ~is_many(f) => <<f.type, v>> \in messages
        /\ is_many(f) => \A e \in ToSet(v) : <<f.type, e>> \in messages
  <2> SUFFICES ASSUME ~to_cxx_typeName(f)
               PROVE  /\ ~is_many(f) => <<f.type, v>> \in messages
                      /\ is_many(f) => \A e \in ToSet(v) : <<f.type, e>> \in messages
    OBVIOUS
  <2>1. f.type \in known
    BY <1>1
  <2>2. ~is_many(f) => <<f.type, v>> \in Members(pub, known, x)
    BY <2>1 DEF Members
  <2>3. is_many(f) => \A e \in ToSet(v) : <<f.type, e>> \in Members(pub, known, x)
    BY <2>1 DEF Members
  <2> QED
    BY <2>2, <2>3
<1>4. is_many(f) => /\ Len(v) \in Nat /\ DOMAIN v = 1..Len(v)
                    /\ Every(f, v, packet) \in [1..Len(v) -> Seq(Byte)]
  BY <1>1, EachType
<1>5. /\ ~is_many(f) => v \in Some(f, some)
      /\ is_many(f) => v \in Seq(Some(f, some))
  BY <1>1, HeldCases DEF is_many
<1> HIDE DEF f, g, v
<1>6. CASE ~is_many(f)
  <2>1. to_cxx_typeName(f) => v \in Values(f.type)
    BY <1>5, <1>6 DEF Some
  <2> QED
    BY <1>1, <1>2, <1>3, <1>6, <2>1, OneCarried
<1>7. CASE is_many(f)
  <2>1. ASSUME NEW j \in 1..Len(v)
        PROVE  Carries(f, g, v[j], packet, read, masked, bytes)
    <3> DEFINE e == v[j]
    <3>1. e \in Some(f, some) /\ e \in ToSet(v)
      BY <1>5, <1>7, ElementOfSeq, Elements
    <3> HIDE DEF e
    <3>2. to_cxx_typeName(f) => e \in Values(f.type)
      BY <3>1 DEF Some
    <3>3. ~to_cxx_typeName(f) => <<f.type, e>> \in messages /\ f.type \in Mentioned(sub) /\ f.type \in alike
      BY <1>1, <1>2, <1>3, <1>7, <3>1
    <3>4. Carries(f, g, e, packet, read, masked, bytes)
      BY <1>1, <3>2, <3>3, OneCarried
    <3> QED
      BY <3>4 DEF e
  <2> QED
    BY <1>4, <1>7, <2>1 DEF ManyCarries
<1> QED
  BY <1>6, <1>7

\* Messages are carried, from the innermost to the whole.
LEMMA CarriedThrough ==
  ASSUME NEW pub, NEW sub, NEW hash1, NEW hash2, TwoTrees(pub, sub, hash1, hash2),
         NEW known, NEW t \in Mentioned(pub), NEW m \in Msgs(pub)[Levels][t],
         NEW packet, PacketLevels(packet, pub, known, t, m),
         NEW masked, MaskedLevels(masked, pub, known, t, m),
         NEW bytes \in Seq(Byte), NEW read, LevelsRead(read, sub, known, bytes)
  PROVE  \A d \in 0..Levels :
           CarriedAt(pub, sub, Within(pub, known, t, m)[Levels - d],
                     {u \in Mentioned(pub) : TextAlike(pub, sub, hash1[d], hash2[d], u)},
                     packet[d], read[d], masked[d], bytes)
<1> DEFINE W == Within(pub, known, t, m)
           A(d) == {u \in Mentioned(pub) : TextAlike(pub, sub, hash1[d], hash2[d], u)}
           T == {d \in 0..Levels :
                   CarriedAt(pub, sub, W[Levels - d], A(d), packet[d], read[d], masked[d], bytes)}
<1>0. Levels \in Nat /\ IsTree(pub) /\ IsTree(sub)
  BY TypesAssumption DEF TwoTrees
<1>1. 0 \in T
  <2> SUFFICES ASSUME NEW x \in W[Levels - 0], x[1] \in Mentioned(sub),
                      NEW a, Holds(bytes, a, packet[0][x])
               PROVE  read[0][<<x[1], a>>] = Got(masked[0][x], a + Len(packet[0][x]))
    BY <1>0 DEF CarriedAt
  <2>1. packet[0][x] = << >> /\ masked[0][x] = << >> /\ a \in Nat
    BY DEF PacketLevels, MaskedLevels, Holds
  <2>2. read[0][<<x[1], a>>] = Got(<< >>, a)
    BY <2>1 DEF LevelsRead
  <2>3. a + Len(packet[0][x]) = a
    BY <2>1
  <2> QED
    BY <2>1, <2>2, <2>3
<1>2. \A d \in 0..(Levels - 1) : d \in T => d + 1 \in T
  <2> SUFFICES ASSUME NEW d \in 0..(Levels - 1), d \in T
               PROVE  d + 1 \in T
    OBVIOUS
  <2> DEFINE k == Levels - (d + 1)
  <2>0. /\ d + 1 \in 0..Levels /\ k \in 0..(Levels - 1) /\ k \in 0..Levels /\ d \in 0..Levels
        /\ k + 1 = Levels - d /\ Levels - k = d + 1
    BY <1>0
  <2> SUFFICES ASSUME NEW x \in W[k], x[1] \in Mentioned(sub), x[1] \in A(d + 1),
                      NEW a, Holds(bytes, a, packet[d + 1][x])
               PROVE  read[d + 1][<<x[1], a>>] = Got(masked[d + 1][x], a + Len(packet[d + 1][x]))
    BY <2>0 DEF CarriedAt
  <2> DEFINE u == x[1]
             b == Blanks(sub)[d + 1][u]
  <2>1. packet[d + 1][x] = pushMsg(pub, known, x, packet[d])
    BY DEF PacketLevels
  <2>2. masked[d + 1][x] = MaskedMsg(pub, known, x, Blanks(pub)[d + 1][u], masked[d])
    BY DEF MaskedLevels
  <2>3. a \in Nat
    BY DEF Holds
  <2>4. read[d + 1][<<u, a>>] = popMsg(sub, known, u, b, read[d], bytes, a)
    <3> DEFINE y == <<u, a>>
    <3>1. y \in Mentioned(sub) \X Nat /\ y[1] = u /\ y[2] = a
      BY <2>3
    <3>2. read[d + 1] = [z \in Mentioned(sub) \X Nat |->
                           popMsg(sub, known, z[1], Blanks(sub)[d + 1][z[1]], read[d], bytes, z[2])]
      BY DEF LevelsRead
    <3> HIDE DEF y, u
    <3>3. read[d + 1][y] = popMsg(sub, known, y[1], Blanks(sub)[d + 1][y[1]], read[d], bytes, y[2])
      BY <3>1, <3>2
    <3> QED
      BY <3>1, <3>3 DEF y
  <2>5. u \in Mentioned(pub) /\ x[2] \in Msgs(pub)[d + 1][u]
    BY <1>0, <2>0, WithinMsgs
  <2>6. \A i \in DOMAIN Fields(pub, u) : x[2][i] \in Held(Fields(pub, u)[i], Msgs(pub)[d])
    BY <2>5, MsgsStep
  <2>7. TextAlike(pub, sub, hash1[d + 1], hash2[d + 1], u)
    OBVIOUS
  <2>8. Blanks(pub)[d + 1][u] = b
    BY <2>0, <2>5, <2>7, BlanksAlike
  <2>9. \A i \in DOMAIN Fields(sub, u) : b[i] \in Held(Fields(sub, u)[i], Msgs(sub)[d])
    <3>1. b \in Msgs(sub)[d + 1][u]
      BY <1>0, <2>0, BlankType
    <3> QED
      BY <3>1, MsgsStep
  <2>10. Members(pub, known, x) \subseteq W[Levels - d]
    BY <2>0, WithinDef
  <2>11. Packed(pub, known, x, packet[d])
    <3>1. \A y \in W[Levels - d] : packet[d][y] \in Seq(Byte)
      BY <1>0, <2>0, PacketType
    <3> QED
      BY <2>10, <3>1 DEF Packed
  <2>12. CarriedAt(pub, sub, W[Levels - d], A(d), packet[d], read[d], masked[d], bytes)
    OBVIOUS
  <2>13. /\ Len(Fields(sub, u)) = Len(Fields(pub, u)) /\ DOMAIN Fields(sub, u) = DOMAIN Fields(pub, u)
         /\ \A i \in DOMAIN Fields(pub, u) :
              /\ Alike(Fields(pub, u)[i], Fields(sub, u)[i])
              /\ ~to_cxx_typeName(Fields(pub, u)[i]) => Fields(pub, u)[i].type \in A(d)
    <3>1. /\ Len(Fields(sub, u)) = Len(Fields(pub, u)) /\ DOMAIN Fields(sub, u) = DOMAIN Fields(pub, u)
          /\ \A i \in DOMAIN Fields(pub, u) :
               /\ Alike(Fields(pub, u)[i], Fields(sub, u)[i])
               /\ ~to_cxx_typeName(Fields(pub, u)[i])
                    => TextAlike(pub, sub, hash1[d], hash2[d], Fields(pub, u)[i].type)
      BY <2>7, FieldsAlikeAt
    <3>2. \A i \in DOMAIN Fields(pub, u) :
            ~to_cxx_typeName(Fields(pub, u)[i]) => Fields(pub, u)[i].type \in Mentioned(pub)
      BY <1>0, FieldType
    <3> QED
      BY <3>1, <3>2
  <2> HIDE DEF A, W, b, k
  <2>14. MembersCarry(pub, sub, known, x, packet[d], read[d], masked[d], bytes)
    BY <1>0, <2>6, <2>10, <2>11, <2>12, <2>13, MembersCarried
  <2>15. Holds(bytes, a, pushMsg(pub, known, x, packet[d]))
    BY <2>1
  <2>16. popMsg(sub, known, x[1], b, read[d], bytes, a)
           = Got(MaskedMsg(pub, known, x, b, masked[d]), a + Len(pushMsg(pub, known, x, packet[d])))
    <3>1. AllHeld(pub, x[1], x[2], Msgs(pub)[d]) /\ AllHeld(sub, x[1], b, Msgs(sub)[d])
      BY <2>6, <2>9 DEF AllHeld
    <3> DEFINE p == packet[d]
               r == read[d]
               q == masked[d]
               some == Msgs(pub)[d]
               other == Msgs(sub)[d]
    <3>2. Sends(bytes, pub, sub, known, x, p, r, q, some, other, b, a)
      BY <1>0, <2>11, <2>14, <2>15, <3>1 DEF Sends
    <3> HIDE DEF p, r, q, some, other
    <3>3. popMsg(sub, known, x[1], b, r, bytes, a)
            = Got(MaskedMsg(pub, known, x, b, q), a + Len(pushMsg(pub, known, x, p)))
      BY <3>2, MessageCarried
    <3> QED
      BY <3>3 DEF p, r, q
  <2> QED
    BY <2>1, <2>2, <2>4, <2>8, <2>16
<1>3. \A d \in 0..Levels : d \in T
  <2> HIDE DEF T
  <2> QED
    BY <1>0, <1>1, <1>2, Induction
<1> QED
  BY <1>3

\* A message that was written is read, by a process that has packers with the same
\* hash and for the same members.
LEMMA RoundTripOf ==
  ASSUME NEW pub, IsTree(pub), NEW sub, IsTree(sub), SameShape(pub, sub), NEW known,
         NEW t \in Parsed(pub) \cap Parsed(sub), md5sum(pub, t) = md5sum(sub, t),
         NEW m \in Msgs(pub)[Levels][t]
  PROVE  toMsg(sub, known, t, toPacket(pub, known, t, m), 0)
           = Got(Masked(pub, known, t, m), Len(toPacket(pub, known, t, m)))
<1> DEFINE bytes == toPacket(pub, known, t, m)
<1>0. /\ t \in DOMAIN pub /\ t \in DOMAIN sub /\ t \in Mentioned(pub) /\ t \in Mentioned(sub)
      /\ Levels \in 0..Levels /\ Levels - Levels = 0
  BY TypesAssumption DEF Parsed, Mentioned
<1>1. PICK hash1 : Hashes(pub) = hash1[Levels] /\ HashLevels(hash1, pub)
  BY HashesOf
<1>2. PICK hash2 : Hashes(sub) = hash2[Levels] /\ HashLevels(hash2, sub)
  BY HashesOf
<1>3. PICK packet : bytes = packet[Levels][<<t, m>>] /\ PacketLevels(packet, pub, known, t, m)
  BY toPacketDef
<1>4. PICK masked :
        Masked(pub, known, t, m) = masked[Levels][<<t, m>>] /\ MaskedLevels(masked, pub, known, t, m)
  BY MaskedDef
<1>5. PICK read :
        toMsg(sub, known, t, bytes, 0) = read[Levels][<<t, 0>>] /\ LevelsRead(read, sub, known, bytes)
  BY toMsgDef
<1>6. bytes \in Seq(Byte)
  BY <1>0, toPacketType
<1>7. TwoTrees(pub, sub, hash1, hash2)
  BY <1>1, <1>2 DEF TwoTrees
<1>8. TextAlike(pub, sub, hash1[Levels], hash2[Levels], t)
  BY <1>0, <1>1, <1>2 DEF TextAlike, TextAt, Parsed, md5sum
<1> HIDE DEF bytes
<1> DEFINE x == <<t, m>>
           alike == {u \in Mentioned(pub) : TextAlike(pub, sub, hash1[Levels], hash2[Levels], u)}
<1>9. CarriedAt(pub, sub, Within(pub, known, t, m)[Levels - Levels], alike,
                packet[Levels], read[Levels], masked[Levels], bytes)
  BY <1>0, <1>3, <1>4, <1>5, <1>6, <1>7, CarriedThrough
<1>10. x \in Within(pub, known, t, m)[Levels - Levels] /\ x[1] = t /\ t \in alike
  BY <1>0, <1>8, WithinDef
<1>11. Holds(bytes, 0, packet[Levels][x])
  <2>1. Len(bytes) \in Nat /\ \A j \in 1..Len(bytes) : 0 + j = j
    BY <1>6, LenProperties
  <2>2. Holds(bytes, 0, bytes)
    BY <2>1 DEF Holds
  <2> QED
    BY <1>3, <2>2
<1> HIDE DEF x, alike
<1>12. read[Levels][<<t, 0>>] = Got(masked[Levels][x], 0 + Len(packet[Levels][x]))
  BY <1>0, <1>9, <1>10, <1>11 DEF CarriedAt
<1>13. packet[Levels][x] = bytes /\ 0 + Len(bytes) = Len(bytes)
  BY <1>3, <1>6, LenProperties DEF x
<1> QED
  BY <1>4, <1>5, <1>12, <1>13 DEF x, bytes

LEMMA RoundTripHolds == TInv => RoundTrip
<1> SUFFICES ASSUME TInv, got # Nothing, source \in SameHash, got.known = got.sent.known
             PROVE  /\ ~got.threw
                    /\ got.msg = Masked(Tree(Pub), got.known, Topic, got.sent.msg)
                    /\ got.at = Len(got.sent.bytes)
  BY DEF RoundTrip
<1> DEFINE pub == Tree(Pub)
           sub == Tree(Sub)
           known == got.known
           m == got.sent.msg
           bytes == got.sent.bytes
           read == toMsg(sub, known, Topic, bytes, 0)
<1>1. Called(pub, sub, got)
  BY DEF TInv, TopicInv
<1>2. /\ got.msg = read.val /\ got.at = read.at /\ got.threw = read.threw
      /\ m \in Msgs(pub)[Levels][Topic] /\ bytes = toPacket(pub, known, Topic, m)
  BY <1>1 DEF Called, Sent
<1>3. IsTree(pub) /\ IsTree(sub)
  BY Trees DEF TInv
<1>4. /\ Topic \in Parsed(pub) \cap Parsed(sub) /\ md5sum(pub, Topic) = md5sum(sub, Topic)
      /\ SameShape(pub, sub)
  BY DEF SameHash, Tree
<1> HIDE DEF pub, sub, known, m, bytes
<1>5. read = Got(Masked(pub, known, Topic, m), Len(bytes))
  BY <1>2, <1>3, <1>4, RoundTripOf
<1>6. read.val = Masked(pub, known, Topic, m) /\ read.at = Len(bytes) /\ ~read.threw
  BY <1>5 DEF Got
<1> QED
  BY <1>2, <1>6 DEF pub, known, m, bytes

\* Packers with the same hash understand each other, whatever the definitions, the
\* messages and the bytes of a word are: what is read of what was written is the
\* message without the members that have no packer, and all of the packet is read.
THEOREM SameHashUnderstood == Spec => []RoundTrip
BY TopicInvariant, RoundTripHolds, PTL
=============================================================================
