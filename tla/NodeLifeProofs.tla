---------------------------- MODULE NodeLifeProofs ----------------------------
(***************************************************************************)
(* For any number of topics and services, and any calls: the master has    *)
(* the entries a node holds, and the destructor leaves there every second  *)
(* publisher.                                                              *)
(***************************************************************************)
EXTENDS NodeLife, SequenceLemmas

(***************************************************************************)
(* The inductive invariant. The entry of the call that is under way is the *)
(* only one whose vector and whose registration may differ; and where the  *)
(* destructor's loop is tells what is left of the vector it erases from.   *)
(***************************************************************************)
InCall == main.pc \in {"call", "executing", "reply"}
Asks == Registers \cup {"getTopicTypes"}

AsHeld(e) == (e \in registered <=> e \in Held) \/ e \in failed

\* What a call takes back is held, what it adds is not.
Naming ==
  InCall =>
    /\ main.op # "none"
    /\ main.op \in Unregisters => Current \in Held
    /\ main.op \in Asks => Current \notin Held

OthersAsHeld ==
  main.pc \notin {"gone", "crashed"} =>
    \A e \in Entry : (InCall => e # Current) => AsHeld(e)

CallInv ==
  /\ main.pc \in {"call", "executing"} /\ main.op # "getTopicTypes" => AsHeld(Current)
  /\ main.pc = "reply" /\ main.op \in Registers => Current \in registered \cup failed
  /\ main.pc = "reply" /\ main.op \in Unregisters => Current \notin registered \ failed
  /\ InCall /\ main.op = "getTopicTypes" => Current \in registered \cup failed

\* The vector after so many erasures: of the slots passed every second is left.
Erased(k) ==
  /\ Len(publishers_) = Len(slots) - k
  /\ \A i \in 1..Len(publishers_) : publishers_[i] = slots[IF i <= k THEN 2 * i ELSE i + k]

\* How many it erases before the vector's end is reached.
Half == (Len(slots) + 1) \div 2

Destroying ==
  /\ main.pc = "idle" => slot = 0
  /\ main.pc \in {"slot", "stop", "gone"} => slot # 0
  /\ main.pc = "slot" => Erased(IF slot - 1 <= Half THEN slot - 1 ELSE Half)
  /\ main.pc = "stop" => Erased(Half)
  /\ InCall /\ slot # 0 => main.op \in Unregisters
  /\ InCall /\ slot # 0 /\ main.op = "unadvertise" =>
       /\ slot - 1 \in 1..Half /\ slot - 1 <= Len(publishers_)
       /\ main.name = publishers_[slot - 1]
       /\ Erased(slot - 2)

SlotInv == IsInjective(slots) /\ Destroying

IInv == TypeOK /\ Naming /\ OthersAsHeld /\ CallInv /\ SlotInv /\ LeftBehind

-----------------------------------------------------------------------------
(***************************************************************************)
(* Entries and vectors.                                                    *)
(***************************************************************************)
VectorsOK ==
  /\ publishers_ \in Seq(Topics) /\ IsInjective(publishers_)
  /\ subscribers_ \in Seq(Inputs) /\ IsInjective(subscribers_)
  /\ serviceProviders_ \in Seq(Services) /\ IsInjective(serviceProviders_)

\* The rest of TypeOK, but for the main thread.
OthersOK ==
  /\ registered \in SUBSET Entry /\ failed \in SUBSET Entry /\ packed \in SUBSET Inputs
  /\ slave \in Inputs \cup {NoName} /\ client \in {"main", "slave", "free"}
  /\ slots \in Seq(Topics) /\ slot \in 0..Len(slots) + 1

MainOK ==
  /\ main \in [pc : MainPcs, op : Ops, name : Topics \cup Inputs \cup Services \cup {NoName},
               ok : BOOLEAN]
  /\ InCall => Current \in Entry

ClientOK ==
  main.pc # "crashed" =>
    (client = "main" <=> main.pc = "executing") /\ (client = "slave" <=> slave # NoName)

\* The type invariant, part by part.
LEMMA TypeParts ==
  TypeOK <=> VectorsOK /\ OthersOK /\ MainOK /\ ClientOK
BY DEF TypeOK, VectorsOK, OthersOK, MainOK, ClientOK, InCall

\* The kind of entry each of the calls is about.
LEMMA Kinds ==
  /\ KindOf("subscribe") = "sub" /\ KindOf("getTopicTypes") = "sub"
  /\ KindOf("advertise") = "pub" /\ KindOf("unadvertise") = "pub"
  /\ KindOf("advertiseService") = "srv" /\ KindOf("unadvertiseService") = "srv"
BY DEF KindOf

\* The possible entries, by kind.
LEMMA EntryKinds ==
  \A x : /\ <<"pub", x>> \in Entry <=> x \in Topics
         /\ <<"sub", x>> \in Entry <=> x \in Inputs
         /\ <<"srv", x>> \in Entry <=> x \in Services
BY DEF Entry

\* The entries of the three vectors, by kind.
LEMMA HeldKinds ==
  /\ \A x : /\ <<"pub", x>> \in Held <=> x \in ToSet(publishers_)
            /\ <<"sub", x>> \in Held <=> x \in ToSet(subscribers_)
            /\ <<"srv", x>> \in Held <=> x \in ToSet(serviceProviders_)
  /\ \A e \in Held : \E k \in {"pub", "sub", "srv"}, x \in ToSet(publishers_)
       \cup ToSet(subscribers_) \cup ToSet(serviceProviders_) : e = <<k, x>>
BY DEF Held

\* What the vectors hold are names of their kind.
LEMMA VectorElements ==
  ASSUME VectorsOK
  PROVE  /\ ToSet(publishers_) \subseteq Topics /\ ToSet(subscribers_) \subseteq Inputs
         /\ ToSet(serviceProviders_) \subseteq Services
<1>1. \A S : \A s \in Seq(S) : ToSet(s) \subseteq S
  BY Elements, ElementOfSeq
<1> QED
  BY <1>1 DEF VectorsOK

\* What a node holds are possible entries.
LEMMA HeldInEntry ==
  ASSUME VectorsOK
  PROVE  Held \subseteq Entry
BY VectorElements DEF Held, Entry

\* The entry of a call is added to its vector.
LEMMA Pushed ==
  ASSUME VectorsOK, MainOK, InCall, Naming, main.op \in Asks, Push
  PROVE  VectorsOK' /\ Held' = Held \cup {Current}
<1>1. Current \in Entry /\ Current \notin Held
  BY DEF MainOK, Naming
<1>2. CASE main.op = "advertise"
  <2>1. /\ Current = <<"pub", main.name>> /\ publishers_' = Append(publishers_, main.name)
        /\ UNCHANGED <<subscribers_, serviceProviders_>>
    BY <1>2, Kinds DEF Current, Push
  <2>2. main.name \in Topics /\ main.name \notin ToSet(publishers_)
    BY <1>1, <2>1, EntryKinds, HeldKinds
  <2>3. /\ publishers_' \in Seq(Topics) /\ IsInjective(publishers_')
        /\ ToSet(publishers_') = ToSet(publishers_) \cup {main.name}
    BY <2>1, <2>2, AppendNew DEF VectorsOK
  <2> QED
    BY <2>1, <2>3 DEF VectorsOK, Held
<1>3. CASE main.op = "advertiseService"
  <2>1. /\ Current = <<"srv", main.name>>
        /\ serviceProviders_' = Append(serviceProviders_, main.name)
        /\ UNCHANGED <<subscribers_, publishers_>>
    BY <1>3, Kinds DEF Current, Push
  <2>2. main.name \in Services /\ main.name \notin ToSet(serviceProviders_)
    BY <1>1, <2>1, EntryKinds, HeldKinds
  <2>3. /\ serviceProviders_' \in Seq(Services) /\ IsInjective(serviceProviders_')
        /\ ToSet(serviceProviders_') = ToSet(serviceProviders_) \cup {main.name}
    BY <2>1, <2>2, AppendNew DEF VectorsOK
  <2> QED
    BY <2>1, <2>3 DEF VectorsOK, Held
<1>4. CASE main.op \in {"subscribe", "getTopicTypes"}
  <2>1. /\ Current = <<"sub", main.name>> /\ subscribers_' = Append(subscribers_, main.name)
        /\ UNCHANGED <<publishers_, serviceProviders_>>
    BY <1>4, Kinds DEF Current, Push
  <2>2. main.name \in Inputs /\ main.name \notin ToSet(subscribers_)
    BY <1>1, <2>1, EntryKinds, HeldKinds
  <2>3. /\ subscribers_' \in Seq(Inputs) /\ IsInjective(subscribers_')
        /\ ToSet(subscribers_') = ToSet(subscribers_) \cup {main.name}
    BY <2>1, <2>2, AppendNew DEF VectorsOK
  <2> QED
    BY <2>1, <2>3 DEF VectorsOK, Held
<1> QED
  BY <1>2, <1>3, <1>4 DEF Asks, Registers

\* The entry with a name is erased from a vector.
LEMMA Erases ==
  ASSUME NEW S, NEW s \in Seq(S), IsInjective(s), NEW k \in 1..Len(s)
  PROVE  /\ Without(s, s[k]) = RemoveAt(s, k)
         /\ Without(s, s[k]) \in Seq(S) /\ IsInjective(Without(s, s[k]))
         /\ ToSet(Without(s, s[k])) = ToSet(s) \ {s[k]}
<1>1. \A i \in 1..Len(s) : s[i] = s[k] => i = k
  BY Injective
<1>2. (CHOOSE i \in 1..Len(s) : s[i] = s[k]) = k
  BY <1>1
<1>3. Without(s, s[k]) = RemoveAt(s, k)
  BY <1>2 DEF Without
<1> QED
  BY <1>3, EraseOne

\* Erasing a name from a vector takes this name and no other out of it.
LEMMA WithoutHeld ==
  ASSUME NEW S, NEW s \in Seq(S), IsInjective(s), NEW x \in ToSet(s)
  PROVE  /\ Without(s, x) \in Seq(S) /\ IsInjective(Without(s, x))
         /\ ToSet(Without(s, x)) = ToSet(s) \ {x}
<1>1. PICK k \in 1..Len(s) : s[k] = x
  BY Elements
<1> QED
  BY <1>1, Erases

-----------------------------------------------------------------------------
(***************************************************************************)
(* What a call of the node does to the invariant, stage by stage.          *)
(***************************************************************************)
Rest == Naming /\ OthersAsHeld /\ CallInv

\* A step that leaves the vectors alone keeps what they hold.
LEMMA SameHeld ==
  UNCHANGED vectors => Held' = Held /\ (VectorsOK' <=> VectorsOK)
BY DEF vectors, Held, VectorsOK

\* Nothing is said of a process that crashed, but for its types.
LEMMA Crashed ==
  ASSUME main'.pc = "crashed", UNCHANGED slots, IsInjective(slots)
  PROVE  Rest' /\ SlotInv' /\ LeftBehind'
<1>1. ~InCall'
  BY DEF InCall
<1>2. Rest'
  BY <1>1 DEF Rest, Naming, OthersAsHeld, CallInv, InCall
<1>3. SlotInv'
  BY <1>1 DEF SlotInv, Destroying
<1>4. LeftBehind'
  BY DEF LeftBehind
<1> QED
  BY <1>2, <1>3, <1>4

\* A step that leaves the main thread, the vectors and the registrations alone.
LEMMA Frame ==
  ASSUME IInv, UNCHANGED <<registered, vectors, main, slots, slot, failed>>
  PROVE  Rest' /\ SlotInv' /\ LeftBehind' /\ VectorsOK' /\ (MainOK' <=> MainOK)
<1>1. Held' = Held /\ Current' = Current /\ (InCall' <=> InCall) /\ (VectorsOK' <=> VectorsOK)
  BY SameHeld DEF Current, InCall
<1>2. publishers_' = publishers_
  BY DEF vectors
<1>3. \A e : AsHeld(e)' <=> AsHeld(e)
  BY <1>1 DEF AsHeld
<1>4. Rest'
  <2>1. Naming'
    BY <1>1 DEF IInv, Naming
  <2>2. OthersAsHeld'
    BY <1>1, <1>3 DEF IInv, OthersAsHeld
  <2>3. CallInv'
    <3>1. AsHeld(Current)' <=> AsHeld(Current)
      BY <1>1 DEF AsHeld
    <3> QED
      BY <1>1, <3>1 DEF IInv, CallInv
  <2> QED
    BY <2>1, <2>2, <2>3 DEF Rest
<1>5. SlotInv'
  <2>1. \A k : Erased(k)' <=> Erased(k)
    BY <1>2 DEF Erased
  <2>2. Half' = Half
    BY DEF Half
  <2> QED
    BY <1>1, <1>2, <2>1, <2>2 DEF IInv, SlotInv, Destroying
<1>6. LeftBehind'
  BY DEF IInv, LeftBehind
<1> QED
  BY <1>1, <1>4, <1>5, <1>6, TypeParts DEF IInv, MainOK

\* A call begins.
LEMMA CallBegins ==
  ASSUME IInv, NEW op \in Registers \cup Unregisters, NEW name, Start(op, name),
         UNCHANGED <<registered, vectors, failed>>,
         ~InCall, main.pc \notin {"gone", "crashed"},
         <<KindOf(op), name>> \in Entry,
         op \in Registers => <<KindOf(op), name>> \notin Held,
         op \in Unregisters => <<KindOf(op), name>> \in Held
  PROVE  /\ Rest' /\ LeftBehind' /\ VectorsOK' /\ MainOK' /\ InCall'
         /\ main'.pc = "call" /\ main'.op = op /\ main'.name = name
<1>1. /\ main'.pc = "call" /\ main'.op = op /\ main'.name = name
      /\ Current' = <<KindOf(op), name>> /\ InCall'
  BY DEF Start, Current, InCall
<1>2. Held' = Held /\ VectorsOK'
  BY SameHeld, TypeParts DEF IInv
<1>3. op \in Unregisters => op \notin Asks /\ op # "none"
  BY DEF Asks, Registers, Unregisters
<1>4. op \in Registers => op \notin Unregisters /\ op # "none" /\ op # "getTopicTypes"
  BY DEF Registers, Unregisters
<1>5. Naming'
  BY <1>1, <1>2, <1>3, <1>4 DEF Naming, Asks
<1>6. \A e \in Entry : AsHeld(e)'
  BY <1>2 DEF IInv, OthersAsHeld, AsHeld
<1>7. OthersAsHeld'
  BY <1>6 DEF OthersAsHeld
<1>8. AsHeld(Current)'
  <2>1. \A e \in Entry : (e \in registered' <=> e \in Held') \/ e \in failed'
    BY <1>6 DEF AsHeld
  <2> QED
    BY <1>1, <2>1 DEF AsHeld
<1>9. CallInv'
  BY <1>1, <1>3, <1>4, <1>8 DEF CallInv, Asks
<1>10. LeftBehind'
  BY <1>1 DEF LeftBehind
<1>11. MainOK'
  <2>1. name \in Topics \cup Inputs \cup Services
    BY DEF Entry
  <2>2. op \in Ops
    BY DEF Ops, Registers, Unregisters
  <2> QED
    BY <1>1, <2>1, <2>2 DEF MainOK, Start, MainPcs
<1> QED
  BY <1>1, <1>2, <1>5, <1>7, <1>9, <1>10, <1>11 DEF Rest

\* It gets its answer.
LEMMA CallAnswered ==
  ASSUME IInv, NEW ok \in BOOLEAN, Replied(ok), main.pc \in {"call", "executing"},
         UNCHANGED <<vectors, slots, slot>>,
         registered' \in SUBSET Entry, failed' \in SUBSET Entry,
         \A e \in Entry : e # Current =>
           (e \in registered' <=> e \in registered) /\ (e \in failed' <=> e \in failed),
         main.op \in Registers => Current \in registered' \cup failed',
         main.op \in Unregisters => Current \notin registered' \ failed',
         main.op = "getTopicTypes" => UNCHANGED <<registered, failed>>
  PROVE  Rest' /\ SlotInv' /\ LeftBehind' /\ VectorsOK' /\ MainOK' /\ main'.pc = "reply"
<1>1. /\ main \in [pc : MainPcs, op : Ops, name : Topics \cup Inputs \cup Services \cup {NoName},
                   ok : BOOLEAN]
      /\ Current \in Entry /\ InCall
  BY TypeParts DEF IInv, MainOK, InCall
<1>2. /\ main'.pc = "reply" /\ main'.op = main.op /\ main'.name = main.name
      /\ Current' = Current /\ InCall' /\ MainOK'
  BY <1>1 DEF Replied, Current, InCall, MainOK, MainPcs
<1>3. Held' = Held /\ VectorsOK' /\ publishers_' = publishers_
  BY SameHeld, TypeParts DEF IInv, vectors
<1>4. Naming'
  BY <1>1, <1>2, <1>3 DEF IInv, Naming
<1>5. OthersAsHeld'
  BY <1>1, <1>2, <1>3 DEF IInv, OthersAsHeld, AsHeld
<1>6. CallInv'
  BY <1>1, <1>2 DEF IInv, CallInv
<1>7. SlotInv'
  <2>1. \A k : Erased(k)' <=> Erased(k)
    BY <1>3 DEF Erased
  <2>2. Half' = Half
    BY DEF Half
  <2> QED
    BY <1>1, <1>2, <1>3, <2>1, <2>2 DEF IInv, SlotInv, Destroying
<1>8. LeftBehind'
  BY <1>2 DEF LeftBehind
<1> QED
  BY <1>2, <1>3, <1>4, <1>5, <1>6, <1>7, <1>8 DEF Rest

\* It returns, with its entry held or not.
LEMMA CallEnds ==
  ASSUME IInv, main.pc = "reply", ~InCall', main'.pc \notin {"stop", "gone"},
         UNCHANGED <<registered, failed>>,
         \/ main.op \in Asks /\ Held' = Held \cup {Current}
         \/ main.op \in Unregisters /\ Held' = Held \ {Current}
  PROVE  Rest' /\ LeftBehind'
<1>1. InCall /\ Current \in Entry
  BY TypeParts DEF IInv, MainOK, InCall
<1>2. \A e \in Entry : e # Current => AsHeld(e)'
  BY <1>1 DEF IInv, OthersAsHeld, AsHeld
<1>3. ASSUME NEW e, e = Current
      PROVE  AsHeld(e)'
  <2>1. main.op \in Asks => e \in registered \cup failed
    BY <1>1, <1>3 DEF IInv, CallInv, Asks
  <2>2. main.op \in Unregisters => e \notin registered \ failed
    BY <1>3 DEF IInv, CallInv
  <2> QED
    BY <1>3, <2>1, <2>2 DEF AsHeld
<1>4. \A e \in Entry : AsHeld(e)'
  BY <1>2, <1>3
<1>5. Rest'
  BY <1>4 DEF Rest, Naming, OthersAsHeld, CallInv, InCall
<1>6. LeftBehind'
  BY DEF LeftBehind
<1> QED
  BY <1>5, <1>6

-----------------------------------------------------------------------------
(***************************************************************************)
(* The actions.                                                            *)
(***************************************************************************)
LEMMA Whole ==
  /\ IInv <=> VectorsOK /\ OthersOK /\ MainOK /\ ClientOK /\ Rest /\ SlotInv /\ LeftBehind
  /\ IInv' <=>
       /\ VectorsOK' /\ OthersOK' /\ MainOK' /\ ClientOK'
       /\ Rest' /\ SlotInv' /\ LeftBehind'
<1>1. TypeOK' <=> VectorsOK' /\ OthersOK' /\ MainOK' /\ ClientOK'
  BY DEF TypeOK, VectorsOK, OthersOK, MainOK, ClientOK, InCall
<1> QED
  BY <1>1, TypeParts DEF IInv, Rest

\* The process ends in the middle of something.
LEMMA CrashKeeps ==
  ASSUME IInv, Crash, UNCHANGED vectors, OthersOK', UNCHANGED slots
  PROVE  IInv'
<1>1. /\ main \in [pc : MainPcs, op : Ops, name : Topics \cup Inputs \cup Services \cup {NoName},
                   ok : BOOLEAN]
      /\ VectorsOK /\ IsInjective(slots)
  BY Whole DEF MainOK, SlotInv
<1>2. main'.pc = "crashed" /\ MainOK'
  BY <1>1 DEF Crash, MainOK, MainPcs, InCall
<1>3. Rest' /\ SlotInv' /\ LeftBehind'
  BY <1>1, <1>2, Crashed
<1>4. ClientOK'
  BY <1>2 DEF ClientOK
<1>5. VectorsOK'
  BY <1>1, SameHeld
<1> QED
  BY <1>2, <1>3, <1>4, <1>5, Whole

\* The application begins a call: the vectors and the master keep what they have.
LEMMA ApplicationKeeps ==
  ASSUME IInv, Application
  PROVE  IInv'
<1>1. /\ VectorsOK /\ OthersOK /\ ClientOK /\ SlotInv
  BY Whole
<1>2. PICK op, name :
        /\ op \in Registers \cup Unregisters
        /\ main.pc = "idle" /\ Start(op, name) /\ Unchanged
        /\ packed' \in SUBSET Inputs
        /\ <<KindOf(op), name>> \in Entry
        /\ op \in Registers => <<KindOf(op), name>> \notin Held
        /\ op \in Unregisters => <<KindOf(op), name>> \in Held
  <2>1. ASSUME NEW t \in Inputs, subscribe(t)
        PROVE  /\ main.pc = "idle" /\ Start("subscribe", t) /\ Unchanged
               /\ packed' \in SUBSET Inputs
               /\ <<"sub", t>> \in Entry /\ <<"sub", t>> \notin Held
    BY <1>1, <2>1, EntryKinds, HeldKinds DEF subscribe, OthersOK
  <2>2. ASSUME NEW t \in Topics, advertise(t)
        PROVE  /\ main.pc = "idle" /\ Start("advertise", t) /\ Unchanged
               /\ packed' \in SUBSET Inputs
               /\ <<"pub", t>> \in Entry /\ <<"pub", t>> \notin Held
    BY <1>1, <2>2, EntryKinds, HeldKinds DEF advertise, OthersOK
  <2>3. ASSUME NEW t \in Topics, unadvertise(t)
        PROVE  /\ main.pc = "idle" /\ Start("unadvertise", t) /\ Unchanged
               /\ packed' \in SUBSET Inputs
               /\ <<"pub", t>> \in Entry /\ <<"pub", t>> \in Held
    BY <1>1, <2>3, EntryKinds, HeldKinds DEF unadvertise, OthersOK
  <2>4. ASSUME NEW s \in Services, advertiseService(s)
        PROVE  /\ main.pc = "idle" /\ Start("advertiseService", s) /\ Unchanged
               /\ packed' \in SUBSET Inputs
               /\ <<"srv", s>> \in Entry /\ <<"srv", s>> \notin Held
    BY <1>1, <2>4, EntryKinds, HeldKinds DEF advertiseService, OthersOK
  <2>5. ASSUME NEW s \in Services, unadvertiseService(s)
        PROVE  /\ main.pc = "idle" /\ Start("unadvertiseService", s) /\ Unchanged
               /\ packed' \in SUBSET Inputs
               /\ <<"srv", s>> \in Entry /\ <<"srv", s>> \in Held
    BY <1>1, <2>5, EntryKinds, HeldKinds DEF unadvertiseService, OthersOK
  <2>6. /\ "subscribe" \in Registers /\ "advertise" \in Registers
        /\ "advertiseService" \in Registers
        /\ "unadvertise" \in Unregisters /\ "unadvertiseService" \in Unregisters
        /\ \A op \in Registers : op \notin Unregisters
    BY DEF Registers, Unregisters
  <2> QED
    BY <2>1, <2>2, <2>3, <2>4, <2>5, <2>6, Kinds DEF Application
<1>3. /\ UNCHANGED <<registered, vectors, slave, client, slots, slot, failed>>
      /\ ~InCall /\ slot = 0
  BY <1>1, <1>2 DEF Unchanged, InCall, SlotInv, Destroying
<1>4. Rest' /\ LeftBehind' /\ VectorsOK' /\ MainOK' /\ main'.pc = "call"
  BY <1>2, <1>3, CallBegins
<1>5. OthersOK'
  BY <1>1, <1>2, <1>3 DEF OthersOK, Entry
<1>6. ClientOK'
  BY <1>1, <1>2, <1>3, <1>4 DEF ClientOK
<1>7. SlotInv'
  BY <1>1, <1>3, <1>4 DEF SlotInv, Destroying, InCall
<1> QED
  BY <1>4, <1>5, <1>6, <1>7, Whole

\* The main thread takes the client: it is in its call, and nobody else in one.
LEMMA ExecuteKeeps ==
  ASSUME IInv, execute
  PROVE  IInv'
<1>1. VectorsOK /\ OthersOK /\ MainOK /\ ClientOK /\ Rest /\ SlotInv
  BY Whole
<1>2. /\ main.pc = "call" /\ client = "free" /\ client' = "main"
      /\ UNCHANGED <<registered, vectors, packed, slave, slots, slot, failed>>
      /\ main'.pc = "executing" /\ main'.op = main.op /\ main'.name = main.name
      /\ MainOK' /\ Current' = Current /\ InCall /\ InCall'
  BY <1>1 DEF execute, MainOK, MainPcs, InCall, Current
<1>3. Held' = Held /\ VectorsOK' /\ publishers_' = publishers_
  BY <1>1, <1>2, SameHeld DEF vectors
<1>4. \A e : AsHeld(e)' <=> AsHeld(e)
  BY <1>2, <1>3 DEF AsHeld
<1>5. AsHeld(Current)' <=> AsHeld(Current)
  BY <1>2, <1>3 DEF AsHeld
<1>6. Rest'
  BY <1>1, <1>2, <1>3, <1>4, <1>5 DEF Rest, Naming, OthersAsHeld, CallInv
<1>7. (\A k : Erased(k)' <=> Erased(k)) /\ Half' = Half
  BY <1>2, <1>3 DEF Erased, Half
<1>8. SlotInv'
  BY <1>1, <1>2, <1>3, <1>7 DEF SlotInv, Destroying
<1>9. OthersOK' /\ ClientOK' /\ LeftBehind'
  BY <1>1, <1>2 DEF OthersOK, Entry, ClientOK, LeftBehind
<1> QED
  BY <1>2, <1>3, <1>6, <1>8, <1>9, Whole

\* The other thread is in a call: the client refuses this one, and the entry counts as failed.
LEMMA RefusedKeeps ==
  ASSUME IInv, Refused
  PROVE  IInv'
<1>1. VectorsOK /\ OthersOK /\ MainOK /\ ClientOK /\ Rest
  BY Whole
<1>2. /\ main.pc = "call" /\ client = "slave" /\ Replied(FALSE) /\ Note(FALSE)
      /\ UNCHANGED <<registered, vectors, packed, slave, client, slots, slot>>
  BY DEF Refused
<1>3. Current \in Entry
  BY <1>1, <1>2 DEF MainOK, InCall
<1>4. failed' = IF main.op = "getTopicTypes" THEN failed ELSE failed \cup {Current}
  BY <1>2 DEF Note
<1>5. main.op \in Registers \cup Unregisters => main.op # "getTopicTypes"
  BY DEF Registers, Unregisters
<1>6. registered' \in SUBSET Entry /\ failed' \in SUBSET Entry
  BY <1>1, <1>2, <1>3, <1>4 DEF OthersOK
<1>7. Rest' /\ SlotInv' /\ LeftBehind' /\ VectorsOK' /\ MainOK' /\ main'.pc = "reply"
  BY <1>2, <1>3, <1>4, <1>5, <1>6, CallAnswered
<1>8. OthersOK' /\ ClientOK'
  BY <1>1, <1>2, <1>6, <1>7 DEF OthersOK, Entry, ClientOK
<1> QED
  BY <1>7, <1>8, Whole

\* The master's answer, or its loss.
LEMMA AnsweredKeeps ==
  ASSUME IInv, Answered
  PROVE  IInv'
<1>1. VectorsOK /\ OthersOK /\ MainOK /\ ClientOK /\ Rest
  BY Whole
<1>2. /\ main.pc = "executing" /\ client' = "free"
      /\ UNCHANGED <<vectors, packed, slave, slots, slot>>
      /\ \E ok \in BOOLEAN : /\ Replied(ok) /\ Note(ok)
                             /\ Handled \/ (~ok /\ UNCHANGED registered)
  BY DEF Answered, Release
<1>3. Current \in Entry
  BY <1>1, <1>2 DEF MainOK, InCall
<1>4. PICK ok \in BOOLEAN : /\ Replied(ok) /\ Note(ok)
                            /\ Handled \/ (~ok /\ UNCHANGED registered)
  BY <1>2
<1>5. failed' = IF main.op = "getTopicTypes" THEN failed
                ELSE IF ok THEN failed \ {Current} ELSE failed \cup {Current}
  BY <1>4 DEF Note
<1>6. \/ registered' = CASE main.op \in Registers -> registered \cup {Current}
                         [] main.op \in Unregisters -> registered \ {Current}
                         [] OTHER -> registered
      \/ ~ok /\ registered' = registered
  BY <1>4 DEF Handled
<1>7. /\ main.op \in Registers => main.op \notin Unregisters
      /\ main.op = "getTopicTypes" => main.op \notin Registers \cup Unregisters
  BY DEF Registers, Unregisters
<1>8. registered' \in SUBSET Entry /\ failed' \in SUBSET Entry
  <2>1. registered \subseteq Entry /\ failed \subseteq Entry
    BY <1>1 DEF OthersOK
  <2>2. registered' \in {registered, registered \cup {Current}, registered \ {Current}}
    BY <1>6, <1>7
  <2>3. failed' \in {failed, failed \cup {Current}, failed \ {Current}}
    BY <1>5
  <2> QED
    BY <1>3, <2>1, <2>2, <2>3
<1>9. Rest' /\ SlotInv' /\ LeftBehind' /\ VectorsOK' /\ MainOK' /\ main'.pc = "reply"
  <2>1. \A e \in Entry : e # Current =>
          (e \in registered' <=> e \in registered) /\ (e \in failed' <=> e \in failed)
    BY <1>5, <1>6, <1>7
  <2>2. main.op \in Registers => Current \in registered' \cup failed'
    BY <1>5, <1>6, <1>7
  <2>3. main.op \in Unregisters => Current \notin registered' \ failed'
    BY <1>5, <1>6, <1>7
  <2>4. main.op = "getTopicTypes" => UNCHANGED <<registered, failed>>
    BY <1>5, <1>6, <1>7
  <2> QED
    BY <1>2, <1>4, <1>8, <2>1, <2>2, <2>3, <2>4, CallAnswered
<1>10. OthersOK' /\ ClientOK'
  BY <1>1, <1>2, <1>8, <1>9 DEF OthersOK, Entry, ClientOK
<1> QED
  BY <1>9, <1>10, Whole

\* The call ends with a fault: the master has changed nothing.
LEMMA FaultKeeps ==
  ASSUME IInv, Fault
  PROVE  IInv'
<1>1. VectorsOK /\ OthersOK /\ MainOK /\ ClientOK /\ Rest
  BY Whole
<1>2. /\ main.pc = "executing" /\ client' = "free" /\ Note(FALSE)
      /\ UNCHANGED <<registered, vectors, packed, slave, slots, slot>>
      /\ IF main.op = "advertise" THEN Replied(FALSE) ELSE Crash
  BY DEF Fault, Release
<1>3. Current \in Entry
  BY <1>1, <1>2 DEF MainOK, InCall
<1>4. failed' = IF main.op = "getTopicTypes" THEN failed ELSE failed \cup {Current}
  BY <1>2 DEF Note
<1>5. registered' \in SUBSET Entry /\ failed' \in SUBSET Entry
  BY <1>1, <1>2, <1>3, <1>4 DEF OthersOK
<1>6. OthersOK'
  BY <1>1, <1>2, <1>5 DEF OthersOK, Entry
<1>7. CASE main.op = "advertise"
  <2>1. main.op \notin Unregisters /\ main.op # "getTopicTypes"
    BY <1>7 DEF Unregisters
  <2>2. Rest' /\ SlotInv' /\ LeftBehind' /\ VectorsOK' /\ MainOK' /\ main'.pc = "reply"
    BY <1>2, <1>3, <1>4, <1>5, <1>7, <2>1, CallAnswered
  <2>3. ClientOK'
    BY <1>1, <1>2, <2>2 DEF ClientOK
  <2> QED
    BY <1>6, <2>2, <2>3, Whole
<1>8. CASE main.op # "advertise"
  BY <1>2, <1>6, <1>8, CrashKeeps
<1> QED
  BY <1>7, <1>8

\* The slave-server thread.
LEMMA SlaveKeeps ==
  ASSUME IInv, \/ SlaveAnswered \/ TornLookup \/ GetSubscriptions
               \/ \E t \in Inputs : SlaveAsksType(t)
  PROVE  IInv'
<1>1. VectorsOK /\ OthersOK /\ MainOK /\ ClientOK
  BY Whole
<1>2. CASE TornLookup \/ GetSubscriptions
  <2>1. Crash /\ UNCHANGED <<registered, vectors, packed, slave, client, slots, slot, failed>>
    BY <1>2 DEF TornLookup, GetSubscriptions
  <2>2. OthersOK'
    BY <1>1, <2>1 DEF OthersOK, Entry
  <2> QED
    BY <2>1, <2>2, CrashKeeps
<1>3. CASE SlaveAnswered
  <2>1. /\ UNCHANGED <<registered, vectors, main, slots, slot, failed>>
        /\ slave # NoName /\ slave' = NoName /\ client' = "free"
        /\ packed' \in {packed, packed \cup {slave}} /\ main.pc # "crashed"
    BY <1>3 DEF SlaveAnswered, Runs, Release
  <2>2. Rest' /\ SlotInv' /\ LeftBehind' /\ VectorsOK' /\ MainOK'
    BY <1>1, <2>1, Frame
  <2>3. OthersOK'
    BY <1>1, <2>1 DEF OthersOK, Entry
  <2>4. ClientOK'
    BY <1>1, <2>1 DEF ClientOK
  <2> QED
    BY <2>2, <2>3, <2>4, Whole
<1>4. ASSUME NEW t \in Inputs, SlaveAsksType(t)
      PROVE  IInv'
  <2>1. /\ UNCHANGED <<registered, vectors, packed, main, slots, slot, failed>>
        /\ slave = NoName /\ slave' = t /\ client = "free" /\ client' = "slave"
    BY <1>4 DEF SlaveAsksType
  <2>2. Rest' /\ SlotInv' /\ LeftBehind' /\ VectorsOK' /\ MainOK'
    BY <1>1, <2>1, Frame
  <2>3. OthersOK'
    BY <1>1, <2>1 DEF OthersOK, Entry
  <2>4. ClientOK'
    BY <1>1, <2>1, NoNameAssumption DEF ClientOK
  <2> QED
    BY <2>2, <2>3, <2>4, Whole
<1> QED
  BY <1>2, <1>3, <1>4

\* What a call returned is held from now on; no such call is the destructor's.
LEMMA PushKeeps ==
  ASSUME IInv, main.pc = "reply", main.op \in Asks, Push, Return,
         UNCHANGED <<registered, slave, client, slots, slot, failed>>,
         packed' \in SUBSET Inputs
  PROVE  IInv'
<1>1. VectorsOK /\ OthersOK /\ MainOK /\ ClientOK /\ Rest /\ SlotInv
  BY Whole
<1>2. InCall /\ slot = 0
  BY <1>1 DEF InCall, SlotInv, Destroying, Asks, Registers, Unregisters
<1>3. main' = Idle /\ main'.pc = "idle" /\ ~InCall'
  BY <1>2 DEF Return, Idle, InCall
<1>4. VectorsOK' /\ Held' = Held \cup {Current}
  BY <1>1, <1>2, Pushed DEF Rest
<1>5. Rest' /\ LeftBehind'
  BY <1>3, <1>4, CallEnds
<1>6. SlotInv'
  BY <1>1, <1>2, <1>3 DEF SlotInv, Destroying
<1>7. OthersOK' /\ MainOK' /\ ClientOK'
  BY <1>1, <1>3 DEF OthersOK, Entry, MainOK, MainPcs, Ops, Idle, ClientOK
<1> QED
  BY <1>4, <1>5, <1>6, <1>7, Whole

\* The entry is pushed to its vector after its call.
LEMMA RegisteredKeeps ==
  ASSUME IInv, Registered \/ TypeAsked
  PROVE  IInv'
<1>1. VectorsOK /\ OthersOK /\ MainOK /\ ClientOK /\ Rest
  BY Whole
<1>2. CASE TypeAsked
  <2>1. /\ main.pc = "reply" /\ main.op = "getTopicTypes" /\ Push /\ Return
        /\ UNCHANGED <<registered, slave, client, slots, slot, failed>>
        /\ packed' \in {packed, packed \cup {main.name}}
    BY <1>2 DEF TypeAsked
  <2>2. main.name \in Inputs
    BY <1>1, <2>1, Kinds, EntryKinds DEF MainOK, InCall, Current
  <2> QED
    BY <1>1, <2>1, <2>2, PushKeeps DEF Asks, OthersOK
<1>3. CASE Registered
  <2>1. /\ main.pc = "reply" /\ main.op \in Asks
        /\ (Push /\ Return) \/ (Crash /\ UNCHANGED vectors)
        /\ UNCHANGED <<registered, packed, slave, client, slots, slot, failed>>
    BY <1>3 DEF Registered, Asks
  <2>2. OthersOK'
    BY <1>1, <2>1 DEF OthersOK, Entry
  <2> QED
    BY <1>1, <2>1, <2>2, PushKeeps, CrashKeeps DEF OthersOK
<1> QED
  BY <1>2, <1>3

\* A subscriber without a packer asks for the type, or enters the vector at once,
\* or there is no answer to ask about.
LEMMA AskTypeKeeps ==
  ASSUME IInv, AskType
  PROVE  IInv'
<1>1. VectorsOK /\ OthersOK /\ MainOK /\ ClientOK /\ Rest /\ SlotInv
  BY Whole
<1>2. /\ main.pc = "reply" /\ main.op = "subscribe"
      /\ UNCHANGED <<registered, packed, slave, client, slots, slot, failed>>
      /\ \/ Start("getTopicTypes", main.name) /\ UNCHANGED vectors
         \/ Push /\ Return
         \/ Crash /\ UNCHANGED vectors
  BY DEF AskType
<1>3. CASE Push /\ Return
  BY <1>1, <1>2, <1>3, PushKeeps DEF OthersOK, Asks, Registers
<1>4. CASE Start("getTopicTypes", main.name) /\ UNCHANGED vectors
  <2>1. main.op \in Asks /\ main.op \in Registers /\ main.op \notin Unregisters
    BY <1>2 DEF Asks, Registers, Unregisters
  <2>2. InCall /\ Current \in Entry /\ Current \notin Held /\ slot = 0
        /\ Current \in registered \cup failed
    BY <1>1, <1>2, <2>1 DEF InCall, MainOK, Rest, Naming, CallInv, SlotInv, Destroying
  <2>3. /\ main'.pc = "call" /\ main'.op = "getTopicTypes" /\ main'.name = main.name
        /\ main'.ok = TRUE /\ InCall' /\ Current' = Current
    BY <1>2, <1>4, Kinds DEF Start, InCall, Current
  <2>4. Held' = Held /\ VectorsOK'
    BY <1>1, <1>4, SameHeld
  <2>5. MainOK'
    BY <1>1, <1>4, <2>2, <2>3 DEF MainOK, Start, MainPcs, Ops
  <2>6. "getTopicTypes" \notin Registers \cup Unregisters
    BY DEF Registers, Unregisters
  <2>7. Naming'
    BY <2>2, <2>3, <2>4, <2>6 DEF Naming
  <2>8. OthersAsHeld'
    BY <1>1, <1>2, <2>2, <2>3, <2>4 DEF Rest, OthersAsHeld, AsHeld
  <2>9. CallInv'
    BY <1>2, <2>2, <2>3, <2>6 DEF CallInv
  <2>10. SlotInv' /\ LeftBehind' /\ OthersOK' /\ ClientOK'
    BY <1>1, <1>2, <2>2, <2>3
       DEF SlotInv, Destroying, LeftBehind, OthersOK, Entry, ClientOK
  <2> QED
    BY <2>4, <2>5, <2>7, <2>8, <2>9, <2>10, Whole DEF Rest
<1>5. CASE Crash /\ UNCHANGED vectors
  <2>1. OthersOK'
    BY <1>1, <1>2 DEF OthersOK, Entry
  <2> QED
    BY <1>1, <1>2, <1>5, <2>1, CrashKeeps DEF OthersOK
<1> QED
  BY <1>2, <1>3, <1>4, <1>5

\* A service leaves its vector after its call, whatever the master answered.
LEMMA ServiceUnadvertisedKeeps ==
  ASSUME IInv, ServiceUnadvertised
  PROVE  IInv'
<1>1. VectorsOK /\ OthersOK /\ MainOK /\ ClientOK /\ Rest /\ SlotInv
  BY Whole
<1>2. /\ main.pc = "reply" /\ main.op = "unadvertiseService"
      /\ serviceProviders_' = Without(serviceProviders_, main.name)
      /\ main' = [main EXCEPT !.pc = "hung"]
      /\ UNCHANGED <<registered, publishers_, subscribers_, packed, slave, client, slots,
                     slot, failed>>
  BY DEF ServiceUnadvertised
<1>3. /\ main'.pc = "hung" /\ ~InCall' /\ MainOK' /\ main.op \in Unregisters
      /\ Current = <<"srv", main.name>>
  BY <1>1, <1>2, Kinds DEF MainOK, MainPcs, InCall, Unregisters, Current
<1>4. main.name \in ToSet(serviceProviders_)
  BY <1>1, <1>2, <1>3, HeldKinds DEF Rest, Naming, InCall
<1>5. /\ serviceProviders_' \in Seq(Services) /\ IsInjective(serviceProviders_')
      /\ ToSet(serviceProviders_') = ToSet(serviceProviders_) \ {main.name}
  BY <1>1, <1>2, <1>4, WithoutHeld DEF VectorsOK
<1>6. VectorsOK' /\ Held' = Held \ {Current}
  BY <1>1, <1>2, <1>3, <1>5 DEF VectorsOK, Held
<1>7. Rest' /\ LeftBehind'
  BY <1>2, <1>3, <1>6, CallEnds
<1>8. SlotInv' /\ OthersOK' /\ ClientOK'
  BY <1>1, <1>2, <1>3 DEF SlotInv, Destroying, OthersOK, Entry, ClientOK
<1> QED
  BY <1>3, <1>6, <1>7, <1>8, Whole

\* One more publisher erased: the rest moves one slot down.
LEMMA OneMoreErased ==
  ASSUME VectorsOK, NEW k \in Nat, Erased(k), k + 1 <= Len(publishers_),
         publishers_' = Without(publishers_, publishers_[k + 1]), UNCHANGED slots
  PROVE  Erased(k + 1)'
<1>1. Len(publishers_) \in Nat /\ k + 1 \in 1..Len(publishers_)
  BY LenProperties DEF VectorsOK
<1>2. /\ Len(publishers_') = Len(publishers_) - 1
      /\ \A i \in 1..(Len(publishers_) - 1) :
           publishers_'[i] = IF i < k + 1 THEN publishers_[i] ELSE publishers_[i + 1]
  <2>1. publishers_' = RemoveAt(publishers_, k + 1)
    BY <1>1, Erases DEF VectorsOK
  <2> QED
    BY <1>1, <2>1, RemoveAtProperties DEF VectorsOK
<1>3. ASSUME NEW i \in 1..Len(publishers_')
      PROVE  publishers_'[i] = slots[IF i <= k + 1 THEN 2 * i ELSE i + (k + 1)]
  <2>1. CASE i <= k
    <3>1. i \in 1..Len(publishers_) /\ publishers_'[i] = publishers_[i]
      BY <1>1, <1>2, <1>3, <2>1
    <3>2. publishers_[i] = slots[2 * i]
      BY <2>1, <3>1 DEF Erased
    <3>3. i <= k + 1
      BY <2>1, <1>1, <1>3
    <3> QED
      BY <3>1, <3>2, <3>3
  <2>2. CASE i = k + 1
    <3>1. i + 1 \in 1..Len(publishers_) /\ publishers_'[i] = publishers_[i + 1]
      BY <1>1, <1>2, <1>3, <2>2
    <3>2. ~(i + 1 <= k) /\ i + 1 + k = 2 * i
      BY <2>2
    <3> QED
      BY <2>2, <3>1, <3>2 DEF Erased
  <2>3. CASE i > k + 1
    <3>1. i + 1 \in 1..Len(publishers_) /\ publishers_'[i] = publishers_[i + 1]
      BY <1>1, <1>2, <1>3, <2>3
    <3>2. ~(i + 1 <= k) /\ i + 1 + k = i + (k + 1)
      BY <2>3
    <3>3. publishers_[i + 1] = slots[i + 1 + k]
      BY <3>1, <3>2 DEF Erased
    <3>4. ~(i <= k + 1)
      BY <2>3
    <3> QED
      BY <3>1, <3>2, <3>3, <3>4
  <2> QED
    BY <1>1, <1>2, <2>1, <2>2, <2>3
<1>4. Len(publishers_') = Len(slots) - (k + 1)
  <2>1. Len(publishers_) = Len(slots) - k
    BY DEF Erased
  <2> QED
    BY <1>1, <1>2, <2>1
<1> QED
  BY <1>3, <1>4 DEF Erased

\* A publisher leaves its vector after its call, whatever the master answered.
LEMMA UnadvertisedKeeps ==
  ASSUME IInv, Unadvertised
  PROVE  IInv'
<1>1. VectorsOK /\ OthersOK /\ MainOK /\ ClientOK /\ Rest /\ SlotInv
  BY Whole
<1>2. /\ main.pc = "reply" /\ main.op = "unadvertise"
      /\ publishers_' = Without(publishers_, main.name) /\ Return
      /\ UNCHANGED <<registered, subscribers_, serviceProviders_, packed, slave, client,
                     slots, slot, failed>>
  BY DEF Unadvertised
<1>3. InCall /\ main.op \in Unregisters /\ Current = <<"pub", main.name>>
  BY <1>2, Kinds DEF InCall, Unregisters, Current
<1>4. /\ main' = IF slot = 0 THEN Idle ELSE [Idle EXCEPT !.pc = "slot"]
      /\ main'.pc = IF slot = 0 THEN "idle" ELSE "slot"
      /\ ~InCall' /\ MainOK'
  BY <1>2 DEF Return, Idle, InCall, MainOK, MainPcs, Ops
<1>5. main.name \in ToSet(publishers_)
  BY <1>1, <1>3, HeldKinds DEF Rest, Naming
<1>6. /\ publishers_' \in Seq(Topics) /\ IsInjective(publishers_')
      /\ ToSet(publishers_') = ToSet(publishers_) \ {main.name}
  BY <1>1, <1>2, <1>5, WithoutHeld DEF VectorsOK
<1>7. VectorsOK' /\ Held' = Held \ {Current}
  BY <1>1, <1>2, <1>3, <1>6 DEF VectorsOK, Held
<1>8. Rest' /\ LeftBehind'
  BY <1>2, <1>3, <1>4, <1>7, CallEnds
<1>9. OthersOK' /\ ClientOK'
  BY <1>1, <1>2, <1>4 DEF OthersOK, Entry, ClientOK
<1>10. SlotInv'
  <2>1. CASE slot = 0
    BY <1>1, <1>2, <1>4, <2>1 DEF SlotInv, Destroying
  <2>2. CASE slot # 0
    <3>1. /\ slot - 1 \in 1..Half /\ slot - 1 <= Len(publishers_)
          /\ main.name = publishers_[slot - 1] /\ Erased(slot - 2)
      BY <1>1, <1>2, <1>3, <2>2 DEF SlotInv, Destroying
    <3>2. slot \in Nat /\ Len(slots) \in Nat /\ Half \in Nat
      BY <1>1, LenProperties DEF OthersOK, Half
    <3>3. slot - 2 \in Nat /\ slot - 2 + 1 = slot - 1
      BY <3>1, <3>2
    <3>4. PICK k \in Nat : k = slot - 2
      BY <3>3
    <3>5. Erased(k + 1)'
      <4>1. main.name = publishers_[k + 1] /\ k + 1 <= Len(publishers_) /\ Erased(k)
        BY <3>1, <3>3, <3>4
      <4> QED
        BY <1>1, <1>2, <4>1, OneMoreErased
    <3>6. slot' - 1 = k + 1 /\ slot' - 1 <= Half' /\ slot' # 0
      BY <1>2, <2>2, <3>1, <3>2, <3>4 DEF Half
    <3>7. Erased(IF slot - 1 <= Half THEN slot - 1 ELSE Half)'
      BY <3>5, <3>6
    <3> QED
      BY <1>1, <1>2, <1>4, <3>6, <3>7 DEF SlotInv, Destroying
  <2> QED
    BY <2>1, <2>2
<1> QED
  BY <1>4, <1>7, <1>8, <1>9, <1>10, Whole

\* Every second publisher is left when the loop has passed all the slots.
LEMMA EvenLeft ==
  ASSUME VectorsOK, slots \in Seq(Topics), IsInjective(slots), Erased(Half)
  PROVE  \A i \in 1..Len(slots) : slots[i] \in ToSet(publishers_) <=> i % 2 = 0
<1> SUFFICES ASSUME NEW i \in 1..Len(slots)
             PROVE  slots[i] \in ToSet(publishers_) <=> i % 2 = 0
  OBVIOUS
<1>1. Len(slots) \in Nat /\ Half \in Nat /\ Len(slots) <= 2 * Half /\ 2 * Half <= Len(slots) + 1
  BY LenProperties DEF Half
<1>2. Len(publishers_) = Len(slots) - Half
  BY DEF Erased
<1>3. \A j \in 1..Len(publishers_) : 2 * j \in 1..Len(slots) /\ publishers_[j] = slots[2 * j]
  <2> SUFFICES ASSUME NEW j \in 1..Len(publishers_)
               PROVE  2 * j \in 1..Len(slots) /\ publishers_[j] = slots[2 * j]
    OBVIOUS
  <2>1. j <= Half /\ 2 * j \in 1..Len(slots)
    BY <1>1, <1>2
  <2> QED
    BY <2>1 DEF Erased
<1>4. slots[i] \in ToSet(publishers_) <=> \E j \in 1..Len(publishers_) : publishers_[j] = slots[i]
  BY Elements DEF VectorsOK
<1>5. ASSUME NEW j \in 1..Len(publishers_), publishers_[j] = slots[i]
      PROVE  i % 2 = 0
  <2>1. i = 2 * j
    BY <1>3, <1>5, Injective
  <2>2. j \in Int
    OBVIOUS
  <2> QED
    BY <2>1, <2>2
<1>6. ASSUME i % 2 = 0
      PROVE  \E j \in 1..Len(publishers_) : publishers_[j] = slots[i]
  <2>1. PICK j \in Nat : i = 2 * j
    <3>1. i = 2 * (i \div 2) /\ i \div 2 \in Nat
      BY <1>6
    <3> QED
      BY <3>1
  <2>2. j \in 1..Len(publishers_)
    BY <1>1, <1>2, <2>1
  <2> QED
    BY <1>3, <2>1, <2>2
<1> QED
  BY <1>4, <1>5, <1>6

\* The destructor begins: the slots are the publishers of that moment.
LEMMA DestroyKeeps ==
  ASSUME IInv, Destroy
  PROVE  IInv'
<1>1. VectorsOK /\ OthersOK /\ MainOK /\ ClientOK /\ Rest /\ SlotInv
  BY Whole
<1>2. /\ main.pc = "idle" /\ slots' = publishers_ /\ slot' = 1
      /\ main' = [Idle EXCEPT !.pc = "slot"]
      /\ UNCHANGED <<registered, vectors, packed, slave, client, failed>>
  BY DEF Destroy, unsubscribeAll, vectors
<1>3. main'.pc = "slot" /\ MainOK' /\ ~InCall /\ ~InCall'
  BY <1>2 DEF Idle, MainOK, MainPcs, Ops, InCall
<1>4. Held' = Held /\ VectorsOK' /\ publishers_' = publishers_
  BY <1>1, <1>2, SameHeld DEF vectors
<1>5. \A e \in Entry : AsHeld(e)'
  BY <1>1, <1>2, <1>3, <1>4 DEF Rest, OthersAsHeld, AsHeld
<1>6. Rest' /\ LeftBehind'
  BY <1>3, <1>5 DEF Rest, Naming, OthersAsHeld, CallInv, InCall, LeftBehind
<1>7. slots' \in Seq(Topics) /\ IsInjective(slots') /\ Len(slots') \in Nat
  BY <1>1, <1>2, LenProperties DEF VectorsOK
<1>8. OthersOK' /\ ClientOK'
  BY <1>1, <1>2, <1>3, <1>7 DEF OthersOK, Entry, ClientOK
<1>9. SlotInv'
  <2>1. Half' \in Nat
    BY <1>7 DEF Half
  <2>2. slot' - 1 = 0 /\ slot' - 1 <= Half' /\ slot' # 0
    BY <1>2, <2>1
  <2>3. Erased(0)'
    <3>1. Len(publishers_') = Len(slots') - 0
      BY <1>2, <1>4, <1>7
    <3>2. ASSUME NEW i \in 1..Len(publishers_')
          PROVE  publishers_'[i] = slots'[IF i <= 0 THEN 2 * i ELSE i + 0]
      BY <1>2, <1>4, <1>7
    <3> QED
      BY <3>1, <3>2 DEF Erased
  <2>4. Erased(IF slot - 1 <= Half THEN slot - 1 ELSE Half)'
    BY <2>2, <2>3
  <2> QED
    BY <1>3, <1>7, <2>2, <2>4 DEF SlotInv, Destroying
<1> QED
  BY <1>3, <1>4, <1>6, <1>8, <1>9, Whole

\* One turn of the destructor loop: the vector shrinks under its iterator.
LEMMA UnadvertiseSlotKeeps ==
  ASSUME IInv, UnadvertiseSlot
  PROVE  IInv'
<1>1. VectorsOK /\ OthersOK /\ MainOK /\ ClientOK /\ Rest /\ SlotInv
  BY Whole
<1>2. /\ main.pc = "slot" /\ slot <= Len(slots) /\ slot' = slot + 1
      /\ IF slot <= Len(publishers_)
         THEN Start("unadvertise", publishers_[slot])
         ELSE Crash \/ UNCHANGED main
      /\ UNCHANGED <<registered, vectors, packed, slave, client, slots, failed>>
  BY DEF UnadvertiseSlot, NextSlot
<1>3. /\ slot \in Nat \ {0} /\ Len(slots) \in Nat /\ Len(publishers_) \in Nat
      /\ publishers_' = publishers_ /\ ~InCall
  BY <1>1, <1>2, LenProperties
     DEF OthersOK, VectorsOK, SlotInv, Destroying, vectors, InCall
<1>4. Half \in Nat /\ Len(slots) <= 2 * Half /\ 2 * Half <= Len(slots) + 1 /\ Half' = Half
  BY <1>2, <1>3 DEF Half
<1>5. Erased(IF slot - 1 <= Half THEN slot - 1 ELSE Half)
  BY <1>1, <1>2 DEF SlotInv, Destroying
<1>6. \A k : Erased(k)' <=> Erased(k)
  BY <1>2, <1>3 DEF Erased
<1>7. OthersOK'
  BY <1>1, <1>2, <1>3 DEF OthersOK, Entry
<1>8. CASE slot <= Len(publishers_)
  <2>1. slot - 1 <= Half
    <3>1. ~(slot - 1 <= Half) => Len(publishers_) = Len(slots) - Half
      BY <1>5 DEF Erased
    <3> QED
      BY <1>3, <1>4, <1>8, <3>1
  <2>2. Erased(slot - 1) /\ Len(publishers_) = Len(slots) - (slot - 1)
    BY <1>5, <2>1 DEF Erased
  <2>3. slot <= Half
    BY <1>3, <1>4, <1>8, <2>2
  <2>4. publishers_[slot] \in ToSet(publishers_) /\ publishers_[slot] \in Topics
    BY <1>1, <1>3, <1>8, Elements, ElementOfSeq DEF VectorsOK
  <2>5. /\ KindOf("unadvertise") = "pub" /\ "unadvertise" \in Unregisters
        /\ "unadvertise" \notin Registers
    BY Kinds DEF Unregisters, Registers
  <2>6. <<"pub", publishers_[slot]>> \in Entry /\ <<"pub", publishers_[slot]>> \in Held
    BY <2>4, EntryKinds, HeldKinds
  <2>7. /\ Rest' /\ LeftBehind' /\ VectorsOK' /\ MainOK' /\ InCall'
        /\ main'.pc = "call" /\ main'.op = "unadvertise" /\ main'.name = publishers_[slot]
    <3>1. PICK name : name = publishers_[slot]
      OBVIOUS
    <3>2. Start("unadvertise", name)
      BY <1>2, <1>8, <3>1
    <3>3. /\ Rest' /\ LeftBehind' /\ VectorsOK' /\ MainOK' /\ InCall'
          /\ main'.pc = "call" /\ main'.op = "unadvertise" /\ main'.name = name
      BY <1>2, <1>3, <2>5, <2>6, <3>1, <3>2, CallBegins
    <3> QED
      BY <3>1, <3>3
  <2>8. ClientOK'
    BY <1>1, <1>2, <2>7 DEF ClientOK
  <2>9. SlotInv'
    <3>1. slot' - 1 = slot /\ slot' - 2 = slot - 1 /\ slot' # 0
      BY <1>2, <1>3
    <3>2. slot' - 1 \in 1..Half' /\ slot' - 1 <= Len(publishers_')
      BY <1>3, <1>4, <1>8, <2>3, <3>1
    <3>3. main'.name = publishers_'[slot' - 1]
      BY <1>3, <2>7, <3>1
    <3>4. Erased(slot - 2)'
      <4>1. PICK k : k = slot - 1
        OBVIOUS
      <4>2. Erased(k)'
        BY <1>6, <2>2, <4>1
      <4> QED
        BY <3>1, <4>1, <4>2
    <3>5. IsInjective(slots')
      BY <1>1, <1>2 DEF SlotInv
    <3> QED
      BY <2>5, <2>7, <3>1, <3>2, <3>3, <3>4, <3>5 DEF SlotInv, Destroying
  <2> QED
    BY <1>7, <2>7, <2>8, <2>9, Whole
<1>9. CASE ~(slot <= Len(publishers_)) /\ Crash
  BY <1>2, <1>7, <1>9, CrashKeeps
<1>10. CASE ~(slot <= Len(publishers_)) /\ UNCHANGED main
  <2>1. Half <= slot - 1
    <3>1. slot - 1 <= Half => Len(publishers_) = Len(slots) - (slot - 1)
      BY <1>5 DEF Erased
    <3> QED
      BY <1>3, <1>4, <1>10, <3>1
  <2>2. Erased(Half)
    <3>1. (IF slot - 1 <= Half THEN slot - 1 ELSE Half) = Half
      BY <1>3, <1>4, <2>1
    <3> QED
      BY <1>5, <3>1
  <2>3. Held' = Held /\ Current' = Current /\ ~InCall' /\ VectorsOK' /\ MainOK'
    BY <1>1, <1>2, <1>3, <1>10, SameHeld DEF Current, InCall, MainOK
  <2>4. Rest' /\ LeftBehind'
    BY <1>1, <1>2, <1>3, <1>10, <2>3
       DEF Rest, Naming, OthersAsHeld, CallInv, AsHeld, LeftBehind, InCall
  <2>5. ClientOK'
    BY <1>1, <1>2, <1>10 DEF ClientOK
  <2>6. Erased(IF slot - 1 <= Half THEN slot - 1 ELSE Half)'
    <3>1. slot' - 1 = slot
      BY <1>2, <1>3
    <3>2. (IF slot' - 1 <= Half' THEN slot' - 1 ELSE Half') = Half
      BY <1>3, <1>4, <2>1, <3>1
    <3>3. PICK k : k = Half
      OBVIOUS
    <3>4. Erased(k)'
      BY <1>6, <2>2, <3>3
    <3> QED
      BY <3>2, <3>3, <3>4
  <2>7. SlotInv'
    <3>1. slot' # 0 /\ IsInjective(slots')
      BY <1>1, <1>2, <1>3 DEF SlotInv
    <3> QED
      BY <1>2, <1>10, <2>3, <2>6, <3>1 DEF SlotInv, Destroying
  <2> QED
    BY <1>7, <2>3, <2>4, <2>5, <2>7, Whole
<1> QED
  BY <1>2, <1>8, <1>9, <1>10

\* The destructor goes on from the publishers to the services.
LEMMA UnadvertiseServicesKeeps ==
  ASSUME IInv, UnadvertiseServices
  PROVE  IInv'
<1>1. VectorsOK /\ OthersOK /\ MainOK /\ ClientOK /\ Rest /\ SlotInv
  BY Whole
<1>2. /\ main.pc = "slot" /\ slot > Len(slots)
      /\ IF serviceProviders_ # << >>
         THEN Start("unadvertiseService", Head(serviceProviders_))
         ELSE main' = [Idle EXCEPT !.pc = "stop"]
      /\ UNCHANGED <<registered, vectors, packed, slave, client, slots, slot, failed>>
  BY DEF UnadvertiseServices
<1>3. /\ slot \in Nat \ {0} /\ Len(slots) \in Nat /\ IsInjective(slots)
      /\ slots \in Seq(Topics) /\ publishers_' = publishers_ /\ ~InCall
  BY <1>1, <1>2, LenProperties DEF OthersOK, SlotInv, Destroying, vectors, InCall
<1>4. OthersOK'
  BY <1>1, <1>2 DEF OthersOK, Entry
<1>5. CASE serviceProviders_ # << >>
  <2>1. PICK s : s = Head(serviceProviders_)
    OBVIOUS
  <2>2. s \in ToSet(serviceProviders_) /\ s \in Services
    <3>1. s \in Services /\ Len(serviceProviders_) \in Nat \ {0} /\ s = serviceProviders_[1]
      BY <1>1, <1>5, <2>1, HeadTailProperties, EmptySeq DEF VectorsOK
    <3> QED
      BY <1>1, <3>1, Elements DEF VectorsOK
  <2>3. /\ KindOf("unadvertiseService") = "srv" /\ "unadvertiseService" \in Unregisters
        /\ "unadvertiseService" \notin Registers
    BY Kinds DEF Unregisters, Registers
  <2>4. <<"srv", s>> \in Entry /\ <<"srv", s>> \in Held
    BY <2>2, EntryKinds, HeldKinds
  <2>5. /\ Rest' /\ LeftBehind' /\ VectorsOK' /\ MainOK' /\ InCall'
        /\ main'.pc = "call" /\ main'.op = "unadvertiseService"
    <3>1. Start("unadvertiseService", s)
      BY <1>2, <1>5, <2>1
    <3> QED
      BY <1>2, <1>3, <2>3, <2>4, <3>1, CallBegins
  <2>6. ClientOK' /\ SlotInv'
    BY <1>1, <1>2, <1>3, <2>3, <2>5 DEF ClientOK, SlotInv, Destroying
  <2> QED
    BY <1>4, <2>5, <2>6, Whole
<1>6. CASE serviceProviders_ = << >>
  <2>1. main' = [Idle EXCEPT !.pc = "stop"] /\ main'.pc = "stop" /\ MainOK' /\ ~InCall'
    BY <1>2, <1>6 DEF Idle, MainOK, MainPcs, Ops, InCall
  <2>2. Held' = Held /\ VectorsOK'
    BY <1>1, <1>2, SameHeld
  <2>3. \A e \in Entry : AsHeld(e)
    BY <1>1, <1>2, <1>3 DEF Rest, OthersAsHeld
  <2>4. Rest'
    BY <1>2, <2>1, <2>2, <2>3 DEF Rest, Naming, OthersAsHeld, CallInv, AsHeld, InCall
  <2>5. Erased(Half)
    <3>1. Half \in Nat /\ 2 * Half <= Len(slots) + 1
      BY <1>3 DEF Half
    <3>2. (IF slot - 1 <= Half THEN slot - 1 ELSE Half) = Half
      BY <1>2, <1>3, <3>1
    <3> QED
      BY <1>1, <1>2, <3>2 DEF SlotInv, Destroying
  <2>6. SlotInv'
    <3>1. Erased(Half)'
      BY <1>2, <1>3, <2>5 DEF Erased, Half
    <3> QED
      BY <1>2, <1>3, <2>1, <3>1 DEF SlotInv, Destroying
  <2>7. ASSUME NEW i \in 1..Len(slots)
        PROVE  \/ <<"pub", slots[i]>> \in registered <=> i % 2 = 0
               \/ <<"pub", slots[i]>> \in failed
    <3>1. slots[i] \in ToSet(publishers_) <=> i % 2 = 0
      BY <1>1, <1>3, <2>5, EvenLeft
    <3>2. <<"pub", slots[i]>> \in Entry
      BY <1>3, EntryKinds, ElementOfSeq
    <3>3. <<"pub", slots[i]>> \in Held <=> slots[i] \in ToSet(publishers_)
      BY HeldKinds
    <3>4. AsHeld(<<"pub", slots[i]>>)
      BY <2>3, <3>2
    <3> QED
      BY <3>1, <3>3, <3>4 DEF AsHeld
  <2>8. LeftBehind'
    BY <1>2, <2>7 DEF LeftBehind
  <2>9. ClientOK'
    BY <1>1, <1>2, <2>1 DEF ClientOK
  <2> QED
    BY <1>4, <2>1, <2>2, <2>4, <2>6, <2>8, <2>9, Whole
<1> QED
  BY <1>5, <1>6

\* The node is gone: what it left registered stays.
LEMMA StopKeeps ==
  ASSUME IInv, Stop
  PROVE  IInv'
<1>1. VectorsOK /\ OthersOK /\ MainOK /\ ClientOK /\ Rest /\ SlotInv /\ LeftBehind
  BY Whole
<1>2. /\ main.pc = "stop" /\ slave = NoName /\ main' = [main EXCEPT !.pc = "gone"]
      /\ publishers_' = << >> /\ subscribers_' = << >> /\ serviceProviders_' = << >>
      /\ UNCHANGED <<registered, packed, slave, client, slots, slot, failed>>
  BY DEF Stop
<1>3. main'.pc = "gone" /\ MainOK' /\ ~InCall'
  BY <1>1, <1>2 DEF MainOK, MainPcs, InCall
<1>4. VectorsOK'
  <2>1. IsInjective(<< >>) /\ \A S : << >> \in Seq(S)
    BY EmptySeq DEF IsInjective
  <2> QED
    BY <1>2, <2>1 DEF VectorsOK
<1>5. Rest'
  BY <1>3 DEF Rest, Naming, OthersAsHeld, CallInv, InCall
<1>6. LeftBehind'
  BY <1>1, <1>2 DEF LeftBehind
<1>7. SlotInv' /\ OthersOK' /\ ClientOK'
  BY <1>1, <1>2, <1>3 DEF SlotInv, Destroying, OthersOK, Entry, ClientOK
<1> QED
  BY <1>3, <1>4, <1>5, <1>6, <1>7, Whole

-----------------------------------------------------------------------------
\* The invariant holds of a node that has just begun.
LEMMA AtStart ==
  ASSUME Init
  PROVE  IInv
<1>1. /\ main = Idle /\ main.pc = "idle" /\ ~InCall /\ slot = 0 /\ slots = << >>
      /\ publishers_ = << >> /\ subscribers_ = << >> /\ serviceProviders_ = << >>
      /\ registered = {} /\ failed = {} /\ packed = {} /\ slave = NoName /\ client = "free"
  BY DEF Init, Idle, InCall
<1>2. IsInjective(<< >>) /\ (\A S : << >> \in Seq(S)) /\ Len(<< >>) = 0 /\ ToSet(<< >>) = {}
  BY EmptySeq DEF IsInjective, ToSet
<1>3. VectorsOK /\ OthersOK /\ ClientOK
  BY <1>1, <1>2 DEF VectorsOK, OthersOK, ClientOK
<1>4. MainOK
  BY <1>1 DEF MainOK, Idle, MainPcs, Ops
<1>5. Held = {}
  BY <1>1, <1>2 DEF Held
<1>6. Rest
  BY <1>1, <1>5 DEF Rest, Naming, OthersAsHeld, CallInv, AsHeld, InCall
<1>7. SlotInv /\ LeftBehind
  BY <1>1, <1>2 DEF SlotInv, Destroying, LeftBehind
<1> QED
  BY <1>3, <1>4, <1>6, <1>7, Whole

\* Every step keeps the invariant.
LEMMA Kept ==
  IInv /\ [Next]_vars => IInv'
<1>1. ASSUME IInv, UNCHANGED vars
      PROVE  IInv'
  <2>1. Rest' /\ SlotInv' /\ LeftBehind' /\ VectorsOK' /\ (MainOK' <=> MainOK)
    BY <1>1, Frame DEF vars
  <2>2. OthersOK' /\ ClientOK'
    BY <1>1, Whole DEF OthersOK, Entry, ClientOK, vars
  <2> QED
    BY <1>1, <2>1, <2>2, Whole
<1>2. ASSUME IInv, Next
      PROVE  IInv'
  <2>1. CASE Application \/ Destroy
    BY <1>2, <2>1, ApplicationKeeps, DestroyKeeps
  <2>2. CASE MainStep
    BY <1>2, <2>2, ExecuteKeeps, RefusedKeeps, AnsweredKeeps, FaultKeeps, RegisteredKeeps,
       AskTypeKeeps, UnadvertisedKeeps, ServiceUnadvertisedKeeps, UnadvertiseSlotKeeps,
       UnadvertiseServicesKeeps, StopKeeps DEF MainStep, Reply
  <2>3. CASE \/ SlaveAnswered \/ TornLookup \/ GetSubscriptions
             \/ \E t \in Inputs : SlaveAsksType(t)
    BY <1>2, <2>3, SlaveKeeps
  <2> QED
    BY <1>2, <2>1, <2>2, <2>3 DEF Next
<1> QED
  BY <1>1, <1>2

\* Every variable keeps its type: no vector has a name twice, and the client the two
\* threads share is in a call of the one that is in it.
THEOREM TypeCorrect == Spec => []TypeOK
<1>1. IInv => TypeOK
  BY DEF IInv
<1> QED
  BY <1>1, AtStart, Kept, PTL DEF Spec

\* Between two calls the master has exactly what the node holds, but for the entries
\* whose last call failed, whatever answers and threads come between.
THEOREM MasterKnowsTheNode == Spec => []RegisteredAsHeld
<1>1. IInv => RegisteredAsHeld
  BY DEF IInv, OthersAsHeld, AsHeld, InCall, RegisteredAsHeld
<1> QED
  BY <1>1, AtStart, Kept, PTL DEF Spec

\* The destructor takes back every second publisher, for any number of them.
THEOREM EverySecondIsLeft == Spec => []LeftBehind
<1>1. IInv => LeftBehind
  BY DEF IInv
<1> QED
  BY <1>1, AtStart, Kept, PTL DEF Spec

\* A node that goes on loses nothing from its vectors but by its own call.
LEMMA OwnCalls ==
  IInv /\ [Next]_vars => [\A e \in Held : e \in Held' \/ e = Current \/ main.pc = "stop"]_vars
<1> SUFFICES ASSUME IInv, Next, NEW e \in Held, e # Current, main.pc # "stop"
             PROVE  e \in Held'
  OBVIOUS
<1>1. VectorsOK /\ MainOK /\ Rest
  BY Whole
<1>2. CASE UNCHANGED vectors
  BY <1>2, SameHeld
<1>3. CASE Push /\ main.pc = "reply" /\ main.op \in Asks
  <2>1. InCall
    BY <1>3 DEF InCall
  <2> QED
    BY <1>1, <1>3, <2>1, Pushed DEF Rest
<1>4. CASE Unadvertised
  <2>1. /\ main.pc = "reply" /\ main.op = "unadvertise" /\ InCall
        /\ main.op \in Unregisters /\ Current = <<"pub", main.name>>
        /\ publishers_' = Without(publishers_, main.name)
        /\ UNCHANGED <<subscribers_, serviceProviders_>>
    BY <1>4, Kinds DEF Unadvertised, InCall, Unregisters, Current
  <2>2. main.name \in ToSet(publishers_)
    BY <1>1, <2>1, HeldKinds DEF Rest, Naming
  <2>3. ToSet(publishers_') = ToSet(publishers_) \ {main.name}
    BY <1>1, <2>1, <2>2, WithoutHeld DEF VectorsOK
  <2> QED
    BY <2>1, <2>3 DEF Held
<1>5. CASE ServiceUnadvertised
  <2>1. /\ main.pc = "reply" /\ main.op = "unadvertiseService" /\ InCall
        /\ main.op \in Unregisters /\ Current = <<"srv", main.name>>
        /\ serviceProviders_' = Without(serviceProviders_, main.name)
        /\ UNCHANGED <<subscribers_, publishers_>>
    BY <1>5, Kinds DEF ServiceUnadvertised, InCall, Unregisters, Current
  <2>2. main.name \in ToSet(serviceProviders_)
    BY <1>1, <2>1, HeldKinds DEF Rest, Naming
  <2>3. ToSet(serviceProviders_') = ToSet(serviceProviders_) \ {main.name}
    BY <1>1, <2>1, <2>2, WithoutHeld DEF VectorsOK
  <2> QED
    BY <2>1, <2>3 DEF Held
<1>6. \/ UNCHANGED vectors
      \/ Push /\ main.pc = "reply" /\ main.op \in Asks
      \/ Unadvertised \/ ServiceUnadvertised
  <2>1. Application \/ Destroy => UNCHANGED vectors
    BY DEF Application, Destroy, subscribe, advertise, unadvertise, advertiseService,
           unadvertiseService, Unchanged, unsubscribeAll, vectors
  <2>2. execute \/ Refused \/ Answered \/ Fault \/ UnadvertiseSlot \/ UnadvertiseServices
          => UNCHANGED vectors
    BY DEF execute, Refused, Answered, Fault, UnadvertiseSlot, UnadvertiseServices
  <2>3. SlaveAnswered \/ TornLookup \/ GetSubscriptions \/ (\E t \in Inputs : SlaveAsksType(t))
          => UNCHANGED vectors
    BY DEF SlaveAnswered, TornLookup, GetSubscriptions, SlaveAsksType
  <2>4. Registered \/ AskType \/ TypeAsked =>
          UNCHANGED vectors \/ (Push /\ main.pc = "reply" /\ main.op \in Asks)
    BY DEF Registered, AskType, TypeAsked, Asks, Registers
  <2>5. ~Stop
    BY DEF Stop
  <2> QED
    BY <2>1, <2>2, <2>3, <2>4, <2>5 DEF Next, MainStep, Reply
<1> QED
  BY <1>2, <1>3, <1>4, <1>5, <1>6

\* An entry leaves a vector by a call about it, or by the destructor, whatever the
\* master answers and whatever becomes of the calls of the other thread.
THEOREM NothingIsLost == Spec => OnlyOwnCalls
BY AtStart, Kept, OwnCalls, PTL DEF Spec, OnlyOwnCalls
=============================================================================
