--------------------------- MODULE PackerFactory ---------------------------
(***************************************************************************)
(* The packer factories of the processes (src/src/packerfactory.cpp,       *)
(* src/include/nanoros/packerfactory.h, src/src/dllproxy.cpp): a packer is *)
(* looked up by type name, and the library that registers it is searched   *)
(* in the directories of packerDirHints_ the first time. What was not      *)
(* found is searched again at the next look-up; what was found stays. A    *)
(* packer keeps a map of its own of the packers of its members.            *)
(*                                                                         *)
(* Messages and services have a factory each; as a name is the one's or    *)
(* the other's, one map stands for both. They differ in where they search. *)
(***************************************************************************)
EXTENDS Integers, Sequences

CONSTANTS
  Procs,       \* processes
  Messages,    \* message types
  Services,    \* service types
  Dirs,        \* directories
  Current,     \* the current directory "."
  Hints,       \* [Procs -> Seq(Dirs)]: those init_nanoros adds
  App,         \* who looks up when it is no packer
  NoDir        \* no directory

ASSUME KindsAssumption == Messages \cap Services = {}
ASSUME DirsAssumption ==
  Current \in Dirs /\ NoDir \notin Dirs /\ Hints \in [Procs -> Seq(Dirs)]
ASSUME AppAssumption == App \notin Messages \cup Services

Types == Messages \cup Services

VARIABLES
  disk,          \* [Procs -> [Dirs \X Types -> Status]]: the libraries' files
  packers_,      \* [Procs -> SUBSET Types]: registered packers
  dllproxies_,   \* [Procs -> [Types -> Dirs or NoDir]]: where its library came from
  loaded,        \* [Procs -> SUBSET (Dirs \X Types)]: libraries that are mapped
  nested         \* [Procs -> [Types -> SUBSET Types]]: the packers' own maps

factoryVars == <<disk, packers_, dllproxies_, loaded, nested>>

\* "noinit": a library without the init function of that name.
Status == {"absent", "noinit", "good"}

FactoryTypeOK ==
  /\ disk \in [Procs -> [Dirs \X Types -> Status]]
  /\ packers_ \in [Procs -> SUBSET Types]
  /\ dllproxies_ \in [Procs -> [Types -> Dirs \cup {NoDir}]]
  /\ loaded \in [Procs -> SUBSET (Dirs \X Types)]
  /\ nested \in [Procs -> [Types -> SUBSET Types]]

FactoryInit ==
  /\ disk = [p \in Procs |-> [x \in Dirs \X Types |-> "absent"]]
  /\ packers_ = [p \in Procs |-> {}]
  /\ dllproxies_ = [p \in Procs |-> [t \in Types |-> NoDir]]
  /\ loaded = [p \in Procs |-> {}]
  /\ nested = [p \in Procs |-> [t \in Types |-> {}]]

\* The constructor of either factory adds the current directory, init_nanoros
\* the others, to the factory of the messages alone.
packerDirHints_(p, t) ==
  IF t \in Services THEN <<Current>> ELSE <<Current>> \o Hints[p]

\* The hints with a library that has the symbol. A DLLProxy never reports that it
\* failed: it is passed over because it has no symbol.
Good(p, t) ==
  {i \in DOMAIN packerDirHints_(p, t) : disk[p][<<packerDirHints_(p, t)[i], t>>] = "good"}

\* The directory of the library that loadPackerFactoryDLL keeps, if any: the first.
Source(p, t) ==
  packerDirHints_(p, t)[CHOOSE i \in Good(p, t) : \A j \in Good(p, t) : i <= j]

Found(p, t) == t \in packers_[p] \/ Good(p, t) # {}

KnownTo(p) == {t \in Types : Found(p, t)}

\* Of the types asked for, those whose library is loaded now. (Mutant: what was
\* found before is looked for again, and forgotten when it is not there.)
RegisterMutant(p, asked) ==
  LET new == {t \in asked : Good(p, t) # {}}
  IN packers_' = [packers_ EXCEPT ![p] = (@ \ asked) \cup new]
Register(p, asked) ==
  LET new == {t \in asked : Good(p, t) # {}}
  IN packers_' = [packers_ EXCEPT ![p] = @ \cup new]

\* The factory keeps the proxy. (Mutant: it does not, and the library is closed.)
KeepProxyMutant(p, new) ==
  dllproxies_' = [dllproxies_ EXCEPT ![p] =
                    [t \in Types |-> IF t \in new THEN Source(p, t) ELSE @[t]]]
    /\ UNCHANGED loaded
KeepProxy(p, new) ==
  /\ dllproxies_' = [dllproxies_ EXCEPT ![p] =
                       [t \in Types |-> IF t \in new THEN Source(p, t) ELSE @[t]]]
  /\ loaded' = [loaded EXCEPT ![p] = @ \cup {<<Source(p, t), t>> : t \in new}]

\* Look-ups <<who, type>> of one step: by the application in the factory, by a
\* packer first in its own map. None of them depends on another.
LookUp(p, asked) ==
  LET types == {a[2] : a \in asked}
      new == {t \in types \ packers_[p] : Good(p, t) # {}}
  IN /\ Register(p, types)
     /\ KeepProxy(p, new)
     /\ nested' = [nested EXCEPT ![p] =
                     [o \in Types |-> @[o] \cup {t \in types : <<o, t>> \in asked /\ Found(p, t)}]]
     /\ UNCHANGED disk

\* Somebody installs, replaces or removes a library.
ChangeDisk(p, d, t, status) ==
  /\ disk[p][<<d, t>>] # status
  /\ disk' = [disk EXCEPT ![p] = [@ EXCEPT ![<<d, t>>] = status]]
  /\ UNCHANGED <<packers_, dllproxies_, loaded, nested>>

FactoryNext ==
  \E p \in Procs :
    \/ \E d \in Dirs, t \in Types, status \in Status : ChangeDisk(p, d, t, status)
    \/ \E asked \in SUBSET ((Types \cup {App}) \X Types) : LookUp(p, asked)

FactorySpec == FactoryInit /\ [][FactoryNext]_factoryVars

-----------------------------------------------------------------------------
\* The code of every registered packer is there as long as the factory is: the
\* library it came from is kept open; and a packer's own map has no other packers
\* than the factory's.
CodeStaysLoaded ==
  \A p \in Procs :
    /\ \A t \in packers_[p] :
         dllproxies_[p][t] # NoDir /\ <<dllproxies_[p][t], t>> \in loaded[p]
    /\ \A t \in Types : nested[p][t] \subseteq packers_[p]

\* What a process found once it finds for ever, from the library it had, whatever
\* becomes of the file.
FoundStaysFound ==
  [][\A p \in Procs : \A t \in packers_[p] :
       t \in packers_'[p] /\ dllproxies_'[p][t] = dllproxies_[p][t]]_factoryVars
=============================================================================
