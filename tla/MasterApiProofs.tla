-------------------------- MODULE MasterApiProofs ---------------------------
(***************************************************************************)
(* What the master guarantees about its registry of services, its lists    *)
(* and its look-ups, for every set of nodes, topics, services and URIs and *)
(* any number of requests.                                                 *)
(***************************************************************************)
EXTENDS MasterApi, MasterServerProofs

(***************************************************************************)
(* The inductive invariant: a list of entries none of which is empty, each *)
(* with its own name and one provider for each node.                       *)
(***************************************************************************)
GoodEntry(e) ==
  /\ e \in SystemServicesInfo
  /\ e.services # << >>
  /\ \A j, k \in 1..Len(e.services) :
       e.services[j].nodeName = e.services[k].nodeName => j = k

ServicesInv ==
  /\ services_ \in Seq(SystemServicesInfo)
  /\ ServicesConsistent

\* Every entry of a registry of the invariant's form is a good one.
LEMMA EntriesAreGood ==
  ASSUME ServicesInv, NEW i \in 1..Len(services_)
  PROVE  GoodEntry(services_[i])
BY DEF ServicesInv, ServicesConsistent, GoodEntry

\* A good entry has a name and a list of providers.
LEMMA ServiceEntryType ==
  ASSUME NEW e \in SystemServicesInfo
  PROVE  /\ e.serviceName \in Services
         /\ e.services \in Seq(SystemServiceProviderNodeInfo)
         /\ Len(e.services) \in Nat
         /\ \A j \in 1..Len(e.services) :
              /\ e.services[j] \in SystemServiceProviderNodeInfo
              /\ e.services[j].nodeName \in Nodes
<1>1. /\ e.serviceName \in Services
      /\ e.services \in Seq(SystemServiceProviderNodeInfo)
  BY DEF SystemServicesInfo
<1>2. \A j \in 1..Len(e.services) : e.services[j] \in SystemServiceProviderNodeInfo
  BY <1>1
<1> QED
  BY <1>1, <1>2 DEF SystemServiceProviderNodeInfo

\* The loop over services_ stops at an entry of the name, if there is one.
LEMMA ServiceEntryProperties ==
  ASSUME ServicesInv, NEW s \in Services
  PROVE  /\ \A i \in ServiceEntry(s) :
              i \in 1..Len(services_) /\ services_[i].serviceName = s
         /\ ServiceEntry(s) = {} =>
              \A i \in 1..Len(services_) : services_[i].serviceName # s
<1>1. \A i \in ServiceEntry(s) :
        i \in 1..Len(services_) /\ services_[i].serviceName = s
  BY DEF ServiceEntry
<1>2. ASSUME NEW i \in 1..Len(services_), services_[i].serviceName = s
      PROVE  i \in ServiceEntry(s)
  <2>1. \A j \in 1..(i - 1) : j \in 1..Len(services_) /\ j # i
    BY DEF ServicesInv
  <2>2. \A j \in 1..(i - 1) : services_[j].serviceName # s
    BY <1>2, <2>1 DEF ServicesInv, ServicesConsistent
  <2> QED
    BY <1>2, <2>2 DEF ServiceEntry
<1> QED
  BY <1>1, <1>2

\* So does the loop over one entry's providers.
LEMMA ProviderEntryProperties ==
  ASSUME ServicesInv, NEW i \in 1..Len(services_), NEW n \in Nodes
  PROVE  /\ \A j \in ProviderEntry(i, n) :
              /\ j \in 1..Len(services_[i].services)
              /\ services_[i].services[j].nodeName = n
         /\ ProviderEntry(i, n) = {} =>
              \A j \in 1..Len(services_[i].services) :
                services_[i].services[j].nodeName # n
<1> DEFINE list == services_[i].services
<1>1. GoodEntry(services_[i])
  BY EntriesAreGood
<1>2. Len(list) \in Nat /\ \A j, k \in 1..Len(list) :
                             list[j].nodeName = list[k].nodeName => j = k
  BY <1>1, ServiceEntryType DEF GoodEntry
<1>3. ProviderEntry(i, n) =
        {j \in 1..Len(list) : /\ list[j].nodeName = n
                              /\ \A k \in 1..(j - 1) : list[k].nodeName # n}
  BY DEF ProviderEntry
<1> HIDE DEF list
<1>4. ASSUME NEW j \in 1..Len(list), list[j].nodeName = n
      PROVE  j \in ProviderEntry(i, n)
  <2>1. \A k \in 1..(j - 1) : k \in 1..Len(list) /\ k # j
    BY <1>2
  <2>2. \A k \in 1..(j - 1) : list[k].nodeName # n
    BY <1>2, <1>4, <2>1
  <2> QED
    BY <1>3, <1>4, <2>2
<1> QED
  BY <1>3, <1>4 DEF list

-----------------------------------------------------------------------------
(***************************************************************************)
(* The registry as a list: an entry is overwritten, appended or erased.    *)
(* Each lemma says what that does to the set of who provides what.         *)
(***************************************************************************)
Elsewhere(s) == {p \in Provided : p.service # s}

\* What is provided under a name is what its entry says.
LEMMA ProvidedByEntry ==
  ASSUME ServicesInv, NEW i \in 1..Len(services_)
  PROVE  Provided = Elsewhere(services_[i].serviceName) \cup ProvidersOf(services_[i])
<1>1. ProvidersOf(services_[i]) \subseteq Provided
  BY DEF Provided
<1>2. ASSUME NEW p \in Provided, p.service = services_[i].serviceName
      PROVE  p \in ProvidersOf(services_[i])
  <2>1. PICK k \in 1..Len(services_) : p \in ProvidersOf(services_[k])
    BY DEF Provided
  <2>2. services_[k].serviceName = p.service
    BY <2>1 DEF ProvidersOf
  <2>3. k = i
    BY <1>2, <2>2 DEF ServicesInv, ServicesConsistent
  <2> QED
    BY <2>1, <2>3
<1> QED
  BY <1>1, <1>2 DEF Elsewhere

\* Nothing is provided under a name without an entry.
LEMMA ProvidedByNobody ==
  ASSUME ServicesInv, NEW s \in Services, ServiceEntry(s) = {}
  PROVE  Elsewhere(s) = Provided
<1> SUFFICES ASSUME NEW p \in Provided PROVE p.service # s
  BY DEF Elsewhere
<1>1. PICK k \in 1..Len(services_) : p \in ProvidersOf(services_[k])
  BY DEF Provided
<1>2. p.service = services_[k].serviceName
  BY <1>1 DEF ProvidersOf
<1> QED
  BY <1>2, ServiceEntryProperties

\* Overwriting an entry with a good one of the same name.
LEMMA OverwriteEntry ==
  ASSUME ServicesInv, NEW i \in 1..Len(services_), NEW e, GoodEntry(e),
         e.serviceName = services_[i].serviceName,
         services_' = [services_ EXCEPT ![i] = e]
  PROVE  /\ ServicesInv'
         /\ Provided' = Elsewhere(e.serviceName) \cup ProvidersOf(e)
<1>1. /\ services_' \in Seq(SystemServicesInfo)
      /\ Len(services_') = Len(services_)
      /\ \A j \in 1..Len(services_) :
           services_'[j] = IF j = i THEN e ELSE services_[j]
  BY UpdateProperties DEF ServicesInv, GoodEntry
<1>2. \A j \in 1..Len(services_) : services_'[j].serviceName = services_[j].serviceName
  BY <1>1
<1>3. ServicesInv'
  <2>1. \A j \in 1..Len(services_) : GoodEntry(services_'[j])
    BY <1>1, EntriesAreGood
  <2> QED
    BY <1>1, <1>2, <2>1 DEF ServicesInv, ServicesConsistent, GoodEntry
<1>4. Provided' = UNION {ProvidersOf(services_'[j]) : j \in 1..Len(services_)}
  BY <1>1 DEF Provided, ProvidersOf
<1>5. ASSUME NEW p \in Provided', p \notin ProvidersOf(e)
      PROVE  p \in Elsewhere(e.serviceName)
  <2>1. PICK j \in 1..Len(services_) : p \in ProvidersOf(services_'[j])
    BY <1>4
  <2>2. j # i /\ p \in ProvidersOf(services_[j])
    BY <1>1, <1>5, <2>1
  <2>3. p.service = services_[j].serviceName
    BY <2>2 DEF ProvidersOf
  <2>4. p.service # e.serviceName
    BY <2>2, <2>3 DEF ServicesInv, ServicesConsistent
  <2> QED
    BY <2>2, <2>4 DEF Elsewhere, Provided
<1>6. ASSUME NEW p \in Elsewhere(e.serviceName)
      PROVE  p \in Provided'
  <2>1. PICK j \in 1..Len(services_) : p \in ProvidersOf(services_[j])
    BY DEF Elsewhere, Provided
  <2>2. p.service = services_[j].serviceName /\ p.service # e.serviceName
    BY <2>1 DEF ProvidersOf, Elsewhere
  <2>3. services_'[j] = services_[j]
    BY <1>1, <2>2
  <2> QED
    BY <1>4, <2>1, <2>3
<1>7. ProvidersOf(e) \subseteq Provided'
  BY <1>1, <1>4
<1> QED
  BY <1>3, <1>5, <1>6, <1>7

\* Appending a good entry under a name that has none.
LEMMA AppendEntry ==
  ASSUME ServicesInv, NEW e, GoodEntry(e), ServiceEntry(e.serviceName) = {},
         services_' = Append(services_, e)
  PROVE  /\ ServicesInv'
         /\ Provided' = Elsewhere(e.serviceName) \cup ProvidersOf(e)
<1>1. /\ services_' \in Seq(SystemServicesInfo)
      /\ Len(services_') = Len(services_) + 1
      /\ \A j \in 1..Len(services_) : services_'[j] = services_[j]
      /\ services_'[Len(services_) + 1] = e
      /\ Len(services_) \in Nat
  BY AppendProperties DEF ServicesInv, GoodEntry
<1>2. e.serviceName \in Services
  BY ServiceEntryType DEF GoodEntry
<1>3. \A j \in 1..Len(services_) : services_[j].serviceName # e.serviceName
  BY <1>2, ServiceEntryProperties
<1>4. \A j \in 1..(Len(services_) + 1) :
        \/ j \in 1..Len(services_) /\ services_'[j] = services_[j]
        \/ j = Len(services_) + 1 /\ services_'[j] = e
  BY <1>1
<1>5. ServicesInv'
  <2>1. \A j \in 1..(Len(services_) + 1) : GoodEntry(services_'[j])
    BY <1>4, EntriesAreGood
  <2>2. \A j, k \in 1..(Len(services_) + 1) :
          services_'[j].serviceName = services_'[k].serviceName => j = k
    BY <1>3, <1>4 DEF ServicesInv, ServicesConsistent
  <2> QED
    BY <1>1, <2>1, <2>2 DEF ServicesInv, ServicesConsistent, GoodEntry
<1>6. Provided' = UNION {ProvidersOf(services_'[j]) : j \in 1..(Len(services_) + 1)}
  BY <1>1 DEF Provided, ProvidersOf
<1>7. Provided' = Provided \cup ProvidersOf(e)
  <2>1. ASSUME NEW p \in Provided' PROVE p \in Provided \cup ProvidersOf(e)
    <3>1. PICK j \in 1..(Len(services_) + 1) : p \in ProvidersOf(services_'[j])
      BY <1>6
    <3> QED
      BY <1>4, <3>1 DEF Provided
  <2>2. ASSUME NEW p \in Provided PROVE p \in Provided'
    <3>1. PICK j \in 1..Len(services_) : p \in ProvidersOf(services_[j])
      BY DEF Provided
    <3>2. j \in 1..(Len(services_) + 1) /\ services_'[j] = services_[j]
      BY <1>1
    <3> QED
      BY <1>6, <3>1, <3>2
  <2>3. ProvidersOf(e) \subseteq Provided'
    <3>1. Len(services_) + 1 \in 1..(Len(services_) + 1)
      BY <1>1
    <3> QED
      BY <1>1, <1>6, <3>1
  <2> QED
    BY <2>1, <2>2, <2>3
<1> QED
  BY <1>2, <1>5, <1>7, ProvidedByNobody

\* Erasing an entry.
LEMMA RemoveEntry ==
  ASSUME ServicesInv, NEW i \in 1..Len(services_),
         services_' = RemoveAt(services_, i)
  PROVE  /\ ServicesInv'
         /\ Provided' = Elsewhere(services_[i].serviceName)
<1> DEFINE N == Len(services_) - 1
           At(j) == IF j < i THEN j ELSE j + 1
<1>1. /\ services_' \in Seq(SystemServicesInfo)
      /\ Len(services_') = N
      /\ N \in Nat
      /\ \A j \in 1..N : services_'[j] = services_[At(j)]
  <2>1. services_ \in Seq(SystemServicesInfo)
    BY DEF ServicesInv
  <2>2. /\ RemoveAt(services_, i) \in Seq(SystemServicesInfo)
        /\ Len(RemoveAt(services_, i)) = Len(services_) - 1
        /\ \A j \in 1..(Len(services_) - 1) :
             RemoveAt(services_, i)[j] = IF j < i THEN services_[j] ELSE services_[j + 1]
    BY <2>1, RemoveAtProperties
  <2>3. N \in Nat
    BY <2>1
  <2> QED
    BY <2>2, <2>3
<1>2. /\ \A j \in 1..N : At(j) \in 1..Len(services_) /\ At(j) # i
      /\ \A j, k \in 1..N : At(j) = At(k) => j = k
      /\ \A k \in 1..Len(services_) : k # i => \E j \in 1..N : At(j) = k
  <2>1. Len(services_) \in Nat /\ i \in 1..Len(services_)
    BY DEF ServicesInv
  <2>2. ASSUME NEW k \in 1..Len(services_), k # i PROVE \E j \in 1..N : At(j) = k
    <3>1. CASE k < i
      <4>1. k \in 1..N /\ At(k) = k
        BY <2>1, <3>1
      <4> QED
        BY <4>1
    <3>2. CASE ~(k < i)
      <4>1. k - 1 \in 1..N /\ At(k - 1) = k
        BY <2>1, <2>2, <3>2
      <4> QED
        BY <4>1
    <3> QED
      BY <3>1, <3>2
  <2> QED
    BY <2>1, <2>2
<1> HIDE DEF N, At
<1>3. ServicesInv'
  <2>1. \A j \in 1..N : GoodEntry(services_'[j])
    BY <1>1, <1>2, EntriesAreGood
  <2>2. \A j, k \in 1..N :
          services_'[j].serviceName = services_'[k].serviceName => j = k
    <3> SUFFICES ASSUME NEW j \in 1..N, NEW k \in 1..N,
                        services_'[j].serviceName = services_'[k].serviceName
                 PROVE  j = k
      OBVIOUS
    <3>1. services_[At(j)].serviceName = services_[At(k)].serviceName
      BY <1>1
    <3>2. At(j) \in 1..Len(services_) /\ At(k) \in 1..Len(services_)
      BY <1>2
    <3>3. At(j) = At(k)
      BY <3>1, <3>2 DEF ServicesInv, ServicesConsistent
    <3> QED
      BY <1>2, <3>3
  <2> QED
    BY <1>1, <2>1, <2>2 DEF ServicesInv, ServicesConsistent, GoodEntry
<1>4. Provided' = UNION {ProvidersOf(services_'[j]) : j \in 1..N}
  BY <1>1 DEF Provided, ProvidersOf
<1>5. ASSUME NEW p \in Provided' PROVE p \in Elsewhere(services_[i].serviceName)
  <2>1. PICK j \in 1..N : p \in ProvidersOf(services_'[j])
    BY <1>4
  <2>2. At(j) \in 1..Len(services_) /\ At(j) # i /\ p \in ProvidersOf(services_[At(j)])
    BY <1>1, <1>2, <2>1
  <2>3. p.service = services_[At(j)].serviceName
    BY <2>2 DEF ProvidersOf
  <2>4. p.service # services_[i].serviceName
    BY <2>2, <2>3 DEF ServicesInv, ServicesConsistent
  <2> QED
    BY <2>2, <2>4 DEF Elsewhere, Provided
<1>6. ASSUME NEW p \in Elsewhere(services_[i].serviceName) PROVE p \in Provided'
  <2>1. PICK k \in 1..Len(services_) : p \in ProvidersOf(services_[k])
    BY DEF Elsewhere, Provided
  <2>2. k # i
    BY <2>1 DEF Elsewhere, ProvidersOf
  <2>3. PICK j \in 1..N : At(j) = k
    BY <1>2, <2>2
  <2> QED
    BY <1>1, <1>4, <2>1, <2>3
<1> QED
  BY <1>3, <1>5, <1>6

-----------------------------------------------------------------------------
(***************************************************************************)
(* One entry: its list of providers changes in the same three ways.        *)
(***************************************************************************)
WithProviders(e, list) == [e EXCEPT !.services = list]

Offer(s, n, v) == [service |-> s, node |-> n, uri |-> v]

OfOthers(e, n) == {p \in ProvidersOf(e) : p.node # n}

\* An entry with another list of providers is an entry of the same service.
LEMMA WithProvidersProperties ==
  ASSUME NEW e \in SystemServicesInfo,
         NEW list \in Seq(SystemServiceProviderNodeInfo)
  PROVE  /\ WithProviders(e, list) \in SystemServicesInfo
         /\ WithProviders(e, list).serviceName = e.serviceName
         /\ WithProviders(e, list).services = list
         /\ ProvidersOf(WithProviders(e, list)) =
              {Offer(e.serviceName, list[j].nodeName, list[j].serviceUri) :
                 j \in 1..Len(list)}
<1>1. /\ WithProviders(e, list) \in SystemServicesInfo
      /\ WithProviders(e, list).serviceName = e.serviceName
      /\ WithProviders(e, list).services = list
  BY DEF WithProviders, SystemServicesInfo
<1> QED
  BY <1>1 DEF ProvidersOf, Offer

\* The fields of a provider's record.
LEMMA ProviderInfoProperties ==
  ASSUME NEW n \in Nodes, NEW u \in Uris, NEW v \in ServiceUris
  PROVE  /\ ProviderInfo(n, u, v) \in SystemServiceProviderNodeInfo
         /\ ProviderInfo(n, u, v).nodeName = n
         /\ ProviderInfo(n, u, v).serviceUri = v
BY DEF ProviderInfo, SystemServiceProviderNodeInfo

\* A node that is in the list already is overwritten.
LEMMA ReplaceProvider ==
  ASSUME NEW e, GoodEntry(e), NEW j \in 1..Len(e.services),
         NEW n \in Nodes, NEW u \in Uris, NEW v \in ServiceUris,
         e.services[j].nodeName = n,
         NEW e2, e2 = WithProviders(e, [e.services EXCEPT ![j] = ProviderInfo(n, u, v)])
  PROVE  /\ GoodEntry(e2)
         /\ e2.serviceName = e.serviceName
         /\ ProvidersOf(e2) = OfOthers(e, n) \cup {Offer(e.serviceName, n, v)}
<1> DEFINE old == e.services
           list == [e.services EXCEPT ![j] = ProviderInfo(n, u, v)]
<1>1. /\ e \in SystemServicesInfo
      /\ old \in Seq(SystemServiceProviderNodeInfo)
      /\ old # << >>
      /\ \A k, l \in 1..Len(old) : old[k].nodeName = old[l].nodeName => k = l
      /\ ProvidersOf(e) = {Offer(e.serviceName, old[k].nodeName, old[k].serviceUri) :
                             k \in 1..Len(old)}
  BY ServiceEntryType DEF GoodEntry, ProvidersOf, Offer
<1>2. /\ list \in Seq(SystemServiceProviderNodeInfo)
      /\ Len(list) = Len(old)
      /\ \A k \in 1..Len(old) :
           list[k] = IF k = j THEN ProviderInfo(n, u, v) ELSE old[k]
  BY <1>1, ProviderInfoProperties, UpdateProperties
<1>3. j \in 1..Len(old) /\ old[j].nodeName = n
  OBVIOUS
<1>4. e2 = WithProviders(e, list)
  OBVIOUS
<1> HIDE DEF old, list
<1>5. /\ e2 \in SystemServicesInfo
      /\ e2.serviceName = e.serviceName
      /\ e2.services = list
      /\ ProvidersOf(e2) = {Offer(e.serviceName, list[k].nodeName, list[k].serviceUri) :
                              k \in 1..Len(old)}
  <2>1. /\ e2 \in SystemServicesInfo
        /\ e2.serviceName = e.serviceName
        /\ e2.services = list
        /\ ProvidersOf(e2) =
             {Offer(e.serviceName, list[k].nodeName, list[k].serviceUri) :
                k \in 1..Len(list)}
    <3>1. e \in SystemServicesInfo /\ list \in Seq(SystemServiceProviderNodeInfo)
      BY <1>1, <1>2
    <3>2. /\ WithProviders(e, list) \in SystemServicesInfo
          /\ WithProviders(e, list).serviceName = e.serviceName
          /\ WithProviders(e, list).services = list
          /\ ProvidersOf(WithProviders(e, list)) =
               {Offer(e.serviceName, list[k].nodeName, list[k].serviceUri) :
                  k \in 1..Len(list)}
      BY <3>1, WithProvidersProperties
    <3> QED
      BY <1>4, <3>2
  <2> QED
    BY <2>1, <1>2
<1>6. \A k \in 1..Len(old) : list[k].nodeName = old[k].nodeName
  BY <1>2, <1>3, ProviderInfoProperties
<1>7. GoodEntry(e2)
  <2>1. list # << >>
    BY <1>1, <1>2, <1>3
  <2>2. \A k, l \in 1..Len(list) : list[k].nodeName = list[l].nodeName => k = l
    BY <1>1, <1>2, <1>6
  <2>3. e2 \in SystemServicesInfo /\ e2.services = list
    BY <1>5
  <2>4. /\ e2.services # << >>
        /\ \A k, l \in 1..Len(e2.services) :
             e2.services[k].nodeName = e2.services[l].nodeName => k = l
    <3> DEFINE services == e2.services
    <3>1. services = list
      BY <2>3
    <3> HIDE DEF services
    <3>2. /\ services # << >>
          /\ \A k, l \in 1..Len(services) :
               services[k].nodeName = services[l].nodeName => k = l
      BY <2>1, <2>2, <3>1
    <3> QED
      BY <3>2 DEF services
  <2> QED
    BY <2>3, <2>4 DEF GoodEntry
<1>8. ASSUME NEW k \in 1..Len(old), k # j
      PROVE  list[k] = old[k] /\ old[k].nodeName # n
  BY <1>1, <1>2, <1>3, <1>8
<1>9. list[j].nodeName = n /\ list[j].serviceUri = v
  BY <1>2, <1>3, ProviderInfoProperties
<1>10. ProvidersOf(e2) = OfOthers(e, n) \cup {Offer(e.serviceName, n, v)}
  <2>1. ASSUME NEW p \in ProvidersOf(e2)
        PROVE  p \in OfOthers(e, n) \cup {Offer(e.serviceName, n, v)}
    <3>1. PICK k \in 1..Len(old) :
            p = Offer(e.serviceName, list[k].nodeName, list[k].serviceUri)
      BY <1>5
    <3>2. CASE k = j
      BY <1>9, <3>1, <3>2
    <3>3. CASE k # j
      BY <1>1, <1>8, <3>1, <3>3 DEF OfOthers, Offer
    <3> QED
      BY <3>2, <3>3
  <2>2. ASSUME NEW p \in OfOthers(e, n) PROVE p \in ProvidersOf(e2)
    <3>1. PICK k \in 1..Len(old) :
            p = Offer(e.serviceName, old[k].nodeName, old[k].serviceUri)
      BY <1>1 DEF OfOthers
    <3>2. k # j
      BY <1>3, <3>1 DEF OfOthers, Offer
    <3> QED
      BY <1>5, <1>8, <3>1, <3>2
  <2>3. Offer(e.serviceName, n, v) \in ProvidersOf(e2)
    BY <1>3, <1>5, <1>9
  <2> QED
    BY <2>1, <2>2, <2>3
<1> QED
  BY <1>5, <1>7, <1>10

\* A node that is not in the list is added.
LEMMA AddProvider ==
  ASSUME NEW e, GoodEntry(e),
         NEW n \in Nodes, NEW u \in Uris, NEW v \in ServiceUris,
         \A j \in 1..Len(e.services) : e.services[j].nodeName # n,
         NEW e2, e2 = WithProviders(e, Append(e.services, ProviderInfo(n, u, v)))
  PROVE  /\ GoodEntry(e2)
         /\ e2.serviceName = e.serviceName
         /\ ProvidersOf(e2) = OfOthers(e, n) \cup {Offer(e.serviceName, n, v)}
<1> DEFINE old == e.services
           N == Len(old)
           list == Append(e.services, ProviderInfo(n, u, v))
<1>1. /\ e \in SystemServicesInfo
      /\ old \in Seq(SystemServiceProviderNodeInfo)
      /\ N \in Nat
      /\ \A k, l \in 1..N : old[k].nodeName = old[l].nodeName => k = l
      /\ ProvidersOf(e) = {Offer(e.serviceName, old[k].nodeName, old[k].serviceUri) :
                             k \in 1..N}
  BY ServiceEntryType DEF GoodEntry, ProvidersOf, Offer
<1>2. /\ list \in Seq(SystemServiceProviderNodeInfo)
      /\ Len(list) = N + 1
      /\ \A k \in 1..N : list[k] = old[k]
      /\ list[N + 1] = ProviderInfo(n, u, v)
  BY <1>1, ProviderInfoProperties, AppendProperties
<1>3. \A k \in 1..N : old[k].nodeName # n
  OBVIOUS
<1>4. e2 = WithProviders(e, list)
  OBVIOUS
<1> HIDE DEF old, N, list
<1>5. /\ e2 \in SystemServicesInfo
      /\ e2.serviceName = e.serviceName
      /\ e2.services = list
      /\ ProvidersOf(e2) = {Offer(e.serviceName, list[k].nodeName, list[k].serviceUri) :
                              k \in 1..(N + 1)}
  <2>1. /\ e2 \in SystemServicesInfo
        /\ e2.serviceName = e.serviceName
        /\ e2.services = list
        /\ ProvidersOf(e2) =
             {Offer(e.serviceName, list[k].nodeName, list[k].serviceUri) :
                k \in 1..Len(list)}
    <3>1. e \in SystemServicesInfo /\ list \in Seq(SystemServiceProviderNodeInfo)
      BY <1>1, <1>2
    <3>2. /\ WithProviders(e, list) \in SystemServicesInfo
          /\ WithProviders(e, list).serviceName = e.serviceName
          /\ WithProviders(e, list).services = list
          /\ ProvidersOf(WithProviders(e, list)) =
               {Offer(e.serviceName, list[k].nodeName, list[k].serviceUri) :
                  k \in 1..Len(list)}
      BY <3>1, WithProvidersProperties
    <3> QED
      BY <1>4, <3>2
  <2> QED
    BY <2>1, <1>2
<1>6. list[N + 1].nodeName = n /\ list[N + 1].serviceUri = v /\ N + 1 \in 1..(N + 1)
  BY <1>1, <1>2, ProviderInfoProperties
<1>7. \A k \in 1..(N + 1) : k \in 1..N \/ k = N + 1
  BY <1>1
<1>8. GoodEntry(e2)
  <2>1. \A k, l \in 1..(N + 1) : list[k].nodeName = list[l].nodeName => k = l
    BY <1>1, <1>2, <1>3, <1>6, <1>7
  <2>2. list # << >>
    BY <1>1, <1>2
  <2> QED
    BY <1>2, <1>5, <2>1, <2>2 DEF GoodEntry
<1>9. ProvidersOf(e2) = OfOthers(e, n) \cup {Offer(e.serviceName, n, v)}
  <2>1. ASSUME NEW p \in ProvidersOf(e2)
        PROVE  p \in OfOthers(e, n) \cup {Offer(e.serviceName, n, v)}
    <3>1. PICK k \in 1..(N + 1) :
            p = Offer(e.serviceName, list[k].nodeName, list[k].serviceUri)
      BY <1>5
    <3>2. CASE k = N + 1
      BY <1>6, <3>1, <3>2
    <3>3. CASE k \in 1..N
      BY <1>1, <1>2, <1>3, <3>1, <3>3 DEF OfOthers, Offer
    <3> QED
      BY <1>7, <3>2, <3>3
  <2>2. ASSUME NEW p \in OfOthers(e, n) PROVE p \in ProvidersOf(e2)
    <3>1. PICK k \in 1..N :
            p = Offer(e.serviceName, old[k].nodeName, old[k].serviceUri)
      BY <1>1 DEF OfOthers
    <3>2. k \in 1..(N + 1)
      BY <1>1
    <3> QED
      BY <1>2, <1>5, <3>1, <3>2
  <2>3. Offer(e.serviceName, n, v) \in ProvidersOf(e2)
    BY <1>5, <1>6
  <2> QED
    BY <2>1, <2>2, <2>3
<1> QED
  BY <1>5, <1>8, <1>9

\* A node that is taken out of the list, which may be left empty.
LEMMA RemoveProvider ==
  ASSUME NEW e, GoodEntry(e), NEW j \in 1..Len(e.services),
         NEW n \in Nodes, e.services[j].nodeName = n,
         NEW list, list = RemoveAt(e.services, j)
  PROVE  /\ list \in Seq(SystemServiceProviderNodeInfo)
         /\ ProvidersOf(WithProviders(e, list)) = OfOthers(e, n)
         /\ list # << >> => GoodEntry(WithProviders(e, list))
<1> DEFINE old == e.services
           N == Len(old) - 1
           At(k) == IF k < j THEN k ELSE k + 1
<1>1. /\ e \in SystemServicesInfo
      /\ old \in Seq(SystemServiceProviderNodeInfo)
      /\ \A k, l \in 1..Len(old) : old[k].nodeName = old[l].nodeName => k = l
      /\ ProvidersOf(e) = {Offer(e.serviceName, old[k].nodeName, old[k].serviceUri) :
                             k \in 1..Len(old)}
  BY ServiceEntryType DEF GoodEntry, ProvidersOf, Offer
<1>2. j \in 1..Len(old) /\ old[j].nodeName = n /\ list = RemoveAt(old, j)
  OBVIOUS
<1>3. /\ list \in Seq(SystemServiceProviderNodeInfo)
      /\ Len(list) = N
      /\ \A k \in 1..N : list[k] = IF k < j THEN old[k] ELSE old[k + 1]
  <2> HIDE DEF old
  <2>1. /\ RemoveAt(old, j) \in Seq(SystemServiceProviderNodeInfo)
        /\ Len(RemoveAt(old, j)) = Len(old) - 1
        /\ \A k \in 1..(Len(old) - 1) :
             RemoveAt(old, j)[k] = IF k < j THEN old[k] ELSE old[k + 1]
    BY <1>1, <1>2, RemoveAtProperties
  <2> QED
    BY <1>2, <2>1
<1>4. \A k \in 1..N : list[k] = old[At(k)]
  BY <1>3
<1>5. /\ \A k \in 1..N : At(k) \in 1..Len(old) /\ At(k) # j
      /\ \A k, l \in 1..N : At(k) = At(l) => k = l
      /\ \A k \in 1..Len(old) : k # j => \E l \in 1..N : At(l) = k
  <2>1. Len(old) \in Nat /\ j \in 1..Len(old)
    BY <1>1, <1>2
  <2>2. ASSUME NEW k \in 1..Len(old), k # j PROVE \E l \in 1..N : At(l) = k
    <3>1. CASE k < j
      <4>1. k \in 1..N /\ At(k) = k
        BY <2>1, <3>1
      <4> QED
        BY <4>1
    <3>2. CASE ~(k < j)
      <4>1. k - 1 \in 1..N /\ At(k - 1) = k
        BY <2>1, <2>2, <3>2
      <4> QED
        BY <4>1
    <3> QED
      BY <3>1, <3>2
  <2> QED
    BY <2>1, <2>2
<1> HIDE DEF old, N, At
<1>6. /\ WithProviders(e, list) \in SystemServicesInfo
      /\ WithProviders(e, list).services = list
      /\ ProvidersOf(WithProviders(e, list)) =
           {Offer(e.serviceName, list[k].nodeName, list[k].serviceUri) : k \in 1..N}
  BY <1>1, <1>3, WithProvidersProperties
<1>7. \A k, l \in 1..N : list[k].nodeName = list[l].nodeName => k = l
  <2> SUFFICES ASSUME NEW k \in 1..N, NEW l \in 1..N,
                      list[k].nodeName = list[l].nodeName
               PROVE  k = l
    OBVIOUS
  <2>1. old[At(k)].nodeName = old[At(l)].nodeName
    BY <1>4
  <2>2. At(k) \in 1..Len(old) /\ At(l) \in 1..Len(old)
    BY <1>5
  <2>3. At(k) = At(l)
    BY <1>1, <2>1, <2>2
  <2> QED
    BY <1>5, <2>3
<1>8. list # << >> => GoodEntry(WithProviders(e, list))
  BY <1>3, <1>6, <1>7 DEF GoodEntry
<1>9. ASSUME NEW p \in ProvidersOf(WithProviders(e, list)) PROVE p \in OfOthers(e, n)
  <2>1. PICK k \in 1..N :
          p = Offer(e.serviceName, old[At(k)].nodeName, old[At(k)].serviceUri)
    BY <1>4, <1>6
  <2>2. At(k) \in 1..Len(old) /\ At(k) # j
    BY <1>5
  <2>3. old[At(k)].nodeName # n
    BY <1>1, <1>2, <2>2
  <2> QED
    BY <1>1, <2>1, <2>2, <2>3 DEF OfOthers, Offer
<1>10. ASSUME NEW p \in OfOthers(e, n) PROVE p \in ProvidersOf(WithProviders(e, list))
  <2>1. PICK k \in 1..Len(old) :
          p = Offer(e.serviceName, old[k].nodeName, old[k].serviceUri)
    BY <1>1 DEF OfOthers
  <2>2. k # j
    BY <1>2, <2>1 DEF OfOthers, Offer
  <2>3. PICK l \in 1..N : At(l) = k
    BY <1>5, <2>2
  <2>4. list[l] = old[k]
    BY <1>4, <2>3
  <2> QED
    BY <1>6, <2>1, <2>4
<1> QED
  BY <1>3, <1>8, <1>9, <1>10

-----------------------------------------------------------------------------
(***************************************************************************)
(* The handlers and the look-up.                                           *)
(***************************************************************************)
OthersThan(s, n) == {p \in Provided : p.service # s \/ p.node # n}

\* What others provide: other services, and the rest of this one's entry.
LEMMA OthersThanByEntry ==
  ASSUME ServicesInv, NEW i \in 1..Len(services_), NEW n \in Nodes,
         NEW s, services_[i].serviceName = s
  PROVE  OthersThan(s, n) = Elsewhere(s) \cup OfOthers(services_[i], n)
<1>1. Provided = Elsewhere(s) \cup ProvidersOf(services_[i])
  BY ProvidedByEntry
<1>2. \A p \in ProvidersOf(services_[i]) : p.service = s
  BY DEF ProvidersOf
<1> QED
  BY <1>1, <1>2 DEF OthersThan, Elsewhere, OfOthers

\* registerServer: the caller provides the service at the new URI, and whatever
\* others provide stays as it is.
LEMMA RegisterServiceStep ==
  ASSUME ServicesInv, NEW n \in Nodes, NEW s \in Services,
         NEW v \in ServiceUris, NEW u \in Uris, RegisterService(n, s, v, u)
  PROVE  /\ ServicesInv'
         /\ Provided' = OthersThan(s, n) \cup {Offer(s, n, v)}
<1> DEFINE info == ProviderInfo(n, u, v)
<1>1. ASSUME NEW i \in ServiceEntry(s), NEW j \in ProviderEntry(i, n),
             services_' = [services_ EXCEPT ![i].services[j] = info]
      PROVE  /\ ServicesInv'
             /\ Provided' = OthersThan(s, n) \cup {Offer(s, n, v)}
  <2> DEFINE e == services_[i]
             e2 == WithProviders(e, [e.services EXCEPT ![j] = info])
  <2>1. i \in 1..Len(services_) /\ e.serviceName = s
    BY ServiceEntryProperties
  <2>2. j \in 1..Len(e.services) /\ e.services[j].nodeName = n
    BY <2>1, ProviderEntryProperties
  <2>3. services_' = [services_ EXCEPT ![i] = e2]
    BY <1>1 DEF WithProviders
  <2>4. GoodEntry(e)
    BY <2>1, EntriesAreGood
  <2>5. GoodEntry(e2) /\ e2.serviceName = s
        /\ ProvidersOf(e2) = OfOthers(e, n) \cup {Offer(s, n, v)}
    BY <2>1, <2>2, <2>4, ReplaceProvider
  <2> HIDE DEF e2
  <2>6. ServicesInv' /\ Provided' = Elsewhere(s) \cup ProvidersOf(e2)
    BY <2>1, <2>3, <2>5, OverwriteEntry
  <2> QED
    BY <2>1, <2>5, <2>6, OthersThanByEntry
<1>2. ASSUME NEW i \in ServiceEntry(s), ProviderEntry(i, n) = {},
             services_' = [services_ EXCEPT ![i].services = Append(@, info)]
      PROVE  /\ ServicesInv'
             /\ Provided' = OthersThan(s, n) \cup {Offer(s, n, v)}
  <2> DEFINE e == services_[i]
             e2 == WithProviders(e, Append(e.services, info))
  <2>1. i \in 1..Len(services_) /\ e.serviceName = s
    BY ServiceEntryProperties
  <2>2. \A j \in 1..Len(e.services) : e.services[j].nodeName # n
    BY <1>2, <2>1, ProviderEntryProperties
  <2>3. services_' = [services_ EXCEPT ![i] = e2]
    BY <1>2 DEF WithProviders
  <2>4. GoodEntry(e)
    BY <2>1, EntriesAreGood
  <2>5. GoodEntry(e2) /\ e2.serviceName = s
        /\ ProvidersOf(e2) = OfOthers(e, n) \cup {Offer(s, n, v)}
    BY <2>1, <2>2, <2>4, AddProvider
  <2> HIDE DEF e2
  <2>6. ServicesInv' /\ Provided' = Elsewhere(s) \cup ProvidersOf(e2)
    BY <2>1, <2>3, <2>5, OverwriteEntry
  <2> QED
    BY <2>1, <2>5, <2>6, OthersThanByEntry
<1>3. ASSUME ServiceEntry(s) = {},
             services_' = Append(services_, [serviceName |-> s, services |-> <<info>>])
      PROVE  /\ ServicesInv'
             /\ Provided' = OthersThan(s, n) \cup {Offer(s, n, v)}
  <2> DEFINE e == [serviceName |-> s, services |-> <<info>>]
  <2>1. info \in SystemServiceProviderNodeInfo /\ info.nodeName = n /\ info.serviceUri = v
    BY ProviderInfoProperties
  <2> HIDE DEF info
  <2>2. e.serviceName = s /\ e.services = <<info>> /\ Len(e.services) = 1
    OBVIOUS
  <2>3. GoodEntry(e)
    <3>1. e \in SystemServicesInfo
      BY <2>1 DEF SystemServicesInfo
    <3> QED
      BY <2>2, <3>1 DEF GoodEntry
  <2>4. ProvidersOf(e) = {Offer(s, n, v)}
    BY <2>1, <2>2 DEF ProvidersOf, Offer
  <2> HIDE DEF e
  <2>5. services_' = Append(services_, e)
    BY <1>3 DEF e
  <2>6. ServicesInv' /\ Provided' = Elsewhere(s) \cup ProvidersOf(e)
    BY <1>3, <2>2, <2>3, <2>5, AppendEntry
  <2>7. OthersThan(s, n) = Elsewhere(s)
    BY <1>3, ProvidedByNobody DEF OthersThan, Elsewhere
  <2> QED
    BY <2>4, <2>6, <2>7
<1> QED
  BY <1>1, <1>2, <1>3 DEF RegisterService

\* unregisterServer: the caller provides the service no longer, everybody else
\* still does.
LEMMA UnregisterServiceStep ==
  ASSUME ServicesInv, NEW n \in Nodes, NEW s \in Services, UnregisterService(n, s)
  PROVE  ServicesInv' /\ Provided' = OthersThan(s, n)
<1>1. ASSUME NEW i \in ServiceEntry(s), NEW j \in ProviderEntry(i, n),
             ShrinkService(i, RemoveAt(services_[i].services, j))
      PROVE  ServicesInv' /\ Provided' = OthersThan(s, n)
  <2> DEFINE e == services_[i]
             rest == RemoveAt(e.services, j)
  <2>1. i \in 1..Len(services_) /\ e.serviceName = s
    BY ServiceEntryProperties
  <2>2. j \in 1..Len(e.services) /\ e.services[j].nodeName = n
    BY <2>1, ProviderEntryProperties
  <2>3. GoodEntry(e)
    BY <2>1, EntriesAreGood
  <2>4. /\ rest \in Seq(SystemServiceProviderNodeInfo)
        /\ ProvidersOf(WithProviders(e, rest)) = OfOthers(e, n)
        /\ rest # << >> => GoodEntry(WithProviders(e, rest))
    BY <2>2, <2>3, RemoveProvider
  <2> HIDE DEF rest
  <2>5. e \in SystemServicesInfo
    BY <2>3 DEF GoodEntry
  <2>6. OthersThan(s, n) = Elsewhere(s) \cup OfOthers(e, n)
    BY <2>1, OthersThanByEntry
  <2>7. CASE rest = << >> /\ services_' = RemoveAt(services_, i)
    <3>1. ServicesInv' /\ Provided' = Elsewhere(s)
      BY <2>1, <2>7, RemoveEntry
    <3>2. OfOthers(e, n) = {}
      <4>1. Len(rest) = 0
        BY <2>7
      <4>2. ProvidersOf(WithProviders(e, rest)) =
              {Offer(e.serviceName, rest[k].nodeName, rest[k].serviceUri) :
                 k \in 1..Len(rest)}
        BY <2>4, <2>5, WithProvidersProperties
      <4> QED
        BY <2>4, <4>1, <4>2
    <3> QED
      BY <2>6, <3>1, <3>2
  <2>8. CASE rest # << >> /\ services_' = [services_ EXCEPT ![i].services = rest]
    <3>1. services_' = [services_ EXCEPT ![i] = WithProviders(e, rest)]
      BY <2>8 DEF WithProviders
    <3>2. WithProviders(e, rest).serviceName = s
      BY <2>1, <2>4, <2>5, WithProvidersProperties
    <3>3. ServicesInv' /\ Provided' = Elsewhere(s) \cup OfOthers(e, n)
      BY <2>1, <2>4, <2>8, <3>1, <3>2, OverwriteEntry
    <3> QED
      BY <2>6, <3>3
  <2> QED
    BY <1>1, <2>7, <2>8 DEF ShrinkService, rest
<1>2. ASSUME NEW i \in ServiceEntry(s), ProviderEntry(i, n) = {}, UNCHANGED services_
      PROVE  ServicesInv' /\ Provided' = OthersThan(s, n)
  <2>1. i \in 1..Len(services_) /\ services_[i].serviceName = s
    BY ServiceEntryProperties
  <2>2. \A j \in 1..Len(services_[i].services) : services_[i].services[j].nodeName # n
    BY <1>2, <2>1, ProviderEntryProperties
  <2>3. OfOthers(services_[i], n) = ProvidersOf(services_[i])
    BY <2>2 DEF OfOthers, ProvidersOf
  <2>4. OthersThan(s, n) = Provided
    BY <2>1, <2>3, OthersThanByEntry, ProvidedByEntry
  <2> QED
    BY <1>2, <2>4 DEF ServicesInv, ServicesConsistent, Provided, ProvidersOf
<1>3. ASSUME ServiceEntry(s) = {}, UNCHANGED services_
      PROVE  ServicesInv' /\ Provided' = OthersThan(s, n)
  <2>1. OthersThan(s, n) = Provided
    BY <1>3, ProvidedByNobody DEF OthersThan, Elsewhere
  <2> QED
    BY <1>3, <2>1 DEF ServicesInv, ServicesConsistent, Provided, ProvidersOf
<1> QED
  BY <1>1, <1>2, <1>3 DEF UnregisterService

\* lookupService: a URI the service is provided at, or nothing when nobody does.
LEMMA LookupServiceProperties ==
  ASSUME ServicesInv, NEW s \in Services
  PROVE  \/ \E p \in Provided : p.service = s /\ LookupService(s) = {p.uri}
         \/ LookupService(s) = {} /\ \A p \in Provided : p.service # s
<1>1. CASE ServiceEntry(s) = {}
  <2>1. LookupService(s) = {}
    BY <1>1 DEF LookupService
  <2> QED
    BY <1>1, <2>1, ProvidedByNobody DEF Elsewhere
<1>2. ASSUME NEW i \in ServiceEntry(s)
      PROVE  \E p \in Provided : p.service = s /\ LookupService(s) = {p.uri}
  <2>1. i \in 1..Len(services_) /\ services_[i].serviceName = s
    BY ServiceEntryProperties
  <2>2. \A k \in ServiceEntry(s) : k = i
    BY <2>1, ServiceEntryProperties DEF ServicesInv, ServicesConsistent
  <2>3. services_[i].services # << >> /\ 1 \in 1..Len(services_[i].services)
    BY <2>1, EntriesAreGood, ServiceEntryType DEF GoodEntry
  <2>4. LookupService(s) = {services_[i].services[1].serviceUri}
    BY <2>2, <2>3 DEF LookupService
  <2>5. Offer(s, services_[i].services[1].nodeName, services_[i].services[1].serviceUri)
          \in Provided
    BY <2>1, <2>3 DEF Provided, ProvidersOf, Offer
  <2> QED
    BY <2>4, <2>5 DEF Offer
<1> QED
  BY <1>1, <1>2

-----------------------------------------------------------------------------
(***************************************************************************)
(* The theorems.                                                           *)
(***************************************************************************)

\* A request either is one of MasterServer's or leaves its state alone.
LEMMA ApiStepIsMasterStep == ApiNext => [Next]_vars
<1> SUFFICES ASSUME ApiNext PROVE [Next]_vars
  OBVIOUS
<1>1. ASSUME NEW n \in Nodes, NEW u \in Uris, NEW t \in Topics, TopicCall(n, t, u)
      PROVE  Next
  <2>1. Request(n, t, u)
    BY <1>1 DEF TopicCall, TopicRequest, registerPublisher, registerSubscriber,
       unregisterPublisher, unregisterSubscriber, Request
  <2> QED
    BY <2>1 DEF Next
<1>2. ASSUME NEW n \in Nodes, NEW u \in Uris, NEW s \in Services, ServiceCall(n, s, u)
      PROVE  UNCHANGED vars
  BY <1>2 DEF ServiceCall, ServiceRequest, Handler, registerServer, registerService,
     unregisterServer, unregisterService, vars, spinVars, history
<1>3. ASSUME NEW n \in Nodes, lookupNode(n)
      PROVE  UNCHANGED vars
  BY <1>3 DEF lookupNode, TopicRequest, Handler, vars, spinVars, history
<1>4. ASSUME NEW s \in Services, lookupService(s)
      PROVE  UNCHANGED vars
  BY <1>4 DEF lookupService, Handler, vars, spinVars, history
<1> QED
  BY <1>1, <1>2, <1>3, <1>4 DEF ApiNext

\* The requests, answers and look-ups are a behaviour of the master: all that is
\* proved of MasterServer holds here as well.
THEOREM ApiImplementsMaster == ApiSpec => Spec
<1>1. ApiInit => Init
  BY DEF ApiInit
<1>2. [ApiNext]_apiVars => [Next]_vars
  BY ApiStepIsMasterStep DEF apiVars
<1> QED
  BY <1>1, <1>2, PTL DEF ApiSpec, Spec

\* What a step does to the registry of services, seen as a directory.
LEMMA DirectoryStep ==
  ASSUME ServicesInv, [ApiNext]_apiVars
  PROVE  ServicesInv' /\ [Directory!Next]_(Directory!directory)
<1>1. ASSUME UNCHANGED <<services_, found>>
      PROVE  ServicesInv' /\ UNCHANGED Directory!directory
  BY <1>1 DEF ServicesInv, ServicesConsistent, Provided, ProvidersOf, Directory!directory
<1>2. ASSUME NEW n \in Nodes, NEW u \in Uris, NEW t \in Topics, TopicCall(n, t, u)
      PROVE  UNCHANGED <<services_, found>>
  BY <1>2 DEF TopicCall, TopicRequest, registerPublisher, registerSubscriber,
     unregisterPublisher, unregisterSubscriber
<1>3. ASSUME NEW n \in Nodes, NEW u \in Uris, NEW s \in Services, NEW v \in ServiceUris,
             registerServer(n, s, v, u)
      PROVE  ServicesInv' /\ Directory!Next
  <2>1. ServicesInv' /\ Provided' = OthersThan(s, n) \cup {Offer(s, n, v)}
    BY <1>3, RegisterServiceStep DEF registerServer
  <2>2. UNCHANGED found
    BY <1>3 DEF registerServer, ServiceRequest
  <2>3. Directory!Register(s, n, v)
    BY <2>1, <2>2 DEF Directory!Register, Directory!Others, OthersThan, Offer
  <2> QED
    BY <2>1, <2>3 DEF Directory!Next
<1>4. ASSUME NEW n \in Nodes, NEW u \in Uris, NEW s \in Services,
             unregisterServer(n, s, u)
      PROVE  ServicesInv' /\ Directory!Next
  <2>1. ServicesInv' /\ Provided' = OthersThan(s, n)
    BY <1>4, UnregisterServiceStep DEF unregisterServer
  <2>2. UNCHANGED found
    BY <1>4 DEF unregisterServer, ServiceRequest
  <2>3. Directory!Unregister(s, n)
    BY <2>1, <2>2 DEF Directory!Unregister, Directory!Others, OthersThan
  <2> QED
    BY <2>1, <2>3 DEF Directory!Next
<1>5. ASSUME NEW n \in Nodes, NEW u \in Uris, NEW s \in Services, NEW v \in ServiceUris,
             registerService(n, s, v, u)
      PROVE  UNCHANGED <<services_, found>>
  <2>1. "registerService" \notin Methods
    BY DEF Methods
  <2> QED
    BY <1>5, <2>1 DEF registerService, ServiceRequest
<1>6. ASSUME NEW n \in Nodes, NEW u \in Uris, NEW s \in Services,
             unregisterService(n, s, u)
      PROVE  UNCHANGED <<services_, found>>
  <2>1. "unregisterService" \notin Methods
    BY DEF Methods
  <2> QED
    BY <1>6, <2>1 DEF unregisterService, ServiceRequest
<1>7. ASSUME NEW s \in Services, lookupService(s)
      PROVE  ServicesInv' /\ Directory!Next
  <2>1. UNCHANGED services_ /\ found' = [service |-> {s}, uris |-> LookupService(s)]
    BY <1>7 DEF lookupService
  <2>2. ServicesInv' /\ Provided' = Provided
    BY <2>1 DEF ServicesInv, ServicesConsistent, Provided, ProvidersOf
  <2>3. Directory!Lookup(s)
    BY <2>1, <2>2, LookupServiceProperties DEF Directory!Lookup
  <2> QED
    BY <2>2, <2>3 DEF Directory!Next
<1>8. ASSUME NEW n \in Nodes, lookupNode(n)
      PROVE  UNCHANGED <<services_, found>>
  BY <1>8 DEF lookupNode, TopicRequest
<1>9. CASE UNCHANGED apiVars
  BY <1>1, <1>9 DEF apiVars
<1>10. CASE ApiNext
  BY <1>1, <1>2, <1>3, <1>4, <1>5, <1>6, <1>7, <1>8, <1>10 DEF ApiNext, ServiceCall
<1> QED
  BY <1>9, <1>10

\* The empty registry is an empty directory.
LEMMA DirectoryInit == ApiInit => ServicesInv /\ Directory!Init
<1> SUFFICES ASSUME ApiInit PROVE ServicesInv /\ Directory!Init
  OBVIOUS
<1>1. services_ \in Seq(SystemServicesInfo) /\ Len(services_) = 0
  <2>1. services_ = << >>
    BY DEF ApiInit
  <2> QED
    BY <2>1
<1>2. ServicesInv
  BY <1>1 DEF ServicesInv, ServicesConsistent
<1>3. Provided = {}
  BY <1>1 DEF Provided
<1> QED
  BY <1>2, <1>3 DEF ApiInit, Directory!Init

\* The invariant holds in every state of every behaviour.
LEMMA SpecServicesInv == ApiSpec => []ServicesInv
BY DirectoryInit, DirectoryStep, PTL DEF ApiSpec

\* One entry for each service, one provider in it for each node, and no entry
\* that was left empty.
THEOREM ServicesStayConsistent == ApiSpec => []ServicesConsistent
<1>1. ServicesInv => ServicesConsistent
  BY DEF ServicesInv
<1> QED
  BY <1>1, SpecServicesInv, PTL

\* The registry of services and its look-up implement the directory: a look-up
\* answers a URI exactly when somebody provides the service, and it is one that
\* was registered last by its node.
THEOREM RegistryIsADirectory == ApiSpec => IsADirectory
<1>1. ServicesInv /\ [ApiNext]_apiVars => [Directory!Next]_(Directory!directory)
  BY DirectoryStep
<1> QED
  BY <1>1, DirectoryInit, SpecServicesInv, PTL DEF ApiSpec, IsADirectory, Directory!Spec

-----------------------------------------------------------------------------
(***************************************************************************)
(* Types.                                                                  *)
(***************************************************************************)

\* The answers carry URIs of the registries.
LEMMA AnswerTypes ==
  ASSUME TypeOK, ServicesInv
  PROVE  /\ \A n \in Nodes : LookupNode(n) \subseteq Uris
         /\ \A s \in Services : LookupService(s) \subseteq ServiceUris
         /\ \A t \in Topics : /\ OtherSide(t, "publishers") \subseteq Uris
                              /\ OtherSide(t, "subscribers") \subseteq Uris
<1>1. ASSUME NEW n \in Nodes PROVE LookupNode(n) \subseteq Uris
  <2>1. \A i \in 1..Len(topics_) : /\ UrisAs(topics_[i].publishers, n) \subseteq Uris
                                   /\ UrisAs(topics_[i].subscribers, n) \subseteq Uris
    BY EntryType DEF UrisAs, SystemNodeInfo
  <2>2. ASSUME NEW i \in 1..Len(services_), NEW j \in ProviderEntry(i, n)
        PROVE  services_[i].services[j].nodeUri \in Uris
    <3>1. services_[i] \in SystemServicesInfo
      BY EntriesAreGood DEF GoodEntry
    <3>2. j \in 1..Len(services_[i].services)
      BY ProviderEntryProperties
    <3>3. services_[i].services[j] \in SystemServiceProviderNodeInfo
      BY <3>1, <3>2, ServiceEntryType
    <3> QED
      BY <3>3 DEF SystemServiceProviderNodeInfo
  <2> QED
    BY <2>1, <2>2 DEF LookupNode
<1>2. ASSUME NEW s \in Services PROVE LookupService(s) \subseteq ServiceUris
  <2>1. ASSUME NEW i \in ServiceEntry(s), services_[i].services # << >>
        PROVE  services_[i].services[1].serviceUri \in ServiceUris
    <3>1. services_[i] \in SystemServicesInfo
      BY ServiceEntryProperties, EntriesAreGood DEF GoodEntry
    <3>2. services_[i].services[1] \in SystemServiceProviderNodeInfo
      BY <2>1, <3>1, ServiceEntryType
    <3> QED
      BY <3>2 DEF SystemServiceProviderNodeInfo
  <2> QED
    BY <2>1 DEF LookupService
<1>3. ASSUME NEW t \in Topics
      PROVE  /\ OtherSide(t, "publishers") \subseteq Uris
             /\ OtherSide(t, "subscribers") \subseteq Uris
  <2>1. \A i \in FirstEntry(t) : /\ UrisOf(topics_[i].publishers) \subseteq Uris
                                 /\ UrisOf(topics_[i].subscribers) \subseteq Uris
    BY FirstEntryProperties, EntryType, UrisOfType
  <2> QED
    BY <2>1 DEF OtherSide
<1> QED
  BY <1>1, <1>2, <1>3

\* A request keeps the types of what only requests change.
LEMMA ApiTypeStep ==
  ASSUME TypeOK, ServicesInv, ServicesInv', ApiTypeOK, [ApiNext]_apiVars
  PROVE  ApiTypeOK'
<1>1. services_' \in Seq(SystemServicesInfo)
  BY DEF ServicesInv
<1>2. \A entry : NumUnregistered(entry) \in {0, 1}
  BY DEF NumUnregistered
<1>3. ASSUME NEW n \in Nodes, NEW u \in Uris, NEW t \in Topics, TopicCall(n, t, u)
      PROVE  ApiTypeOK'
  <2>1. found' = found /\ (latest' = latest \/ latest' = [latest EXCEPT ![n] = {u}])
    BY <1>3 DEF TopicCall, TopicRequest, registerPublisher, registerSubscriber,
       unregisterPublisher, unregisterSubscriber
  <2>2. answer'.num \in {0, 1} /\ answer'.value \subseteq Uris \cup ServiceUris
    <3>1. ASSUME NEW type, registerPublisher(n, t, type, u)
          PROVE  answer'.num \in {0, 1} /\ answer'.value \subseteq Uris
      BY <3>1, AnswerTypes DEF registerPublisher, Answer
    <3>2. ASSUME NEW type, registerSubscriber(n, t, type, u)
          PROVE  answer'.num \in {0, 1} /\ answer'.value \subseteq Uris
      BY <3>2, AnswerTypes DEF registerSubscriber, Answer
    <3>3. CASE unregisterPublisher(n, t, u) \/ unregisterSubscriber(n, t, u)
      BY <1>2, <3>3 DEF unregisterPublisher, unregisterSubscriber, Answer
    <3> QED
      BY <1>3, <3>1, <3>2, <3>3 DEF TopicCall
  <2> QED
    BY <1>1, <2>1, <2>2 DEF ApiTypeOK
<1>4. ASSUME NEW n \in Nodes, NEW u \in Uris, NEW s \in Services, ServiceCall(n, s, u)
      PROVE  ApiTypeOK'
  <2>1. found' = found /\ (latest' = latest \/ latest' = [latest EXCEPT ![n] = {u}])
    BY <1>4 DEF ServiceCall, ServiceRequest, registerServer, registerService,
       unregisterServer, unregisterService
  <2>2. answer'.num \in {0, 1} /\ answer'.value = {}
    BY <1>2, <1>4 DEF ServiceCall, registerServer, registerService, unregisterServer,
       unregisterService, Answer
  <2> QED
    BY <1>1, <2>1, <2>2 DEF ApiTypeOK
<1>5. ASSUME NEW n \in Nodes, lookupNode(n)
      PROVE  ApiTypeOK'
  <2>1. UNCHANGED <<found, latest>> /\ answer'.num = 0 /\ answer'.value = LookupNode(n)
    BY <1>5 DEF lookupNode, TopicRequest, Answer
  <2> QED
    BY <1>1, <2>1, AnswerTypes DEF ApiTypeOK
<1>6. ASSUME NEW s \in Services, lookupService(s)
      PROVE  ApiTypeOK'
  <2>1. /\ latest' = latest /\ answer'.num = 0 /\ answer'.value = LookupService(s)
        /\ found' = [service |-> {s}, uris |-> LookupService(s)]
    BY <1>6 DEF lookupService, Answer
  <2> QED
    BY <1>1, <2>1, AnswerTypes DEF ApiTypeOK
<1>7. CASE UNCHANGED apiVars
  BY <1>7 DEF apiVars, ApiTypeOK
<1> QED
  BY <1>3, <1>4, <1>5, <1>6, <1>7 DEF ApiNext

\* The registry of services, the answers and the histories keep their types.
THEOREM ApiTypeCorrect == ApiSpec => []ApiTypeOK
<1>1. ASSUME ApiInit PROVE ApiTypeOK
  <2>1. services_ \in Seq(SystemServicesInfo)
    BY <1>1, DirectoryInit DEF ServicesInv
  <2>2. answer.num = 0 /\ answer.value = {}
    BY <1>1 DEF ApiInit
  <2>3. /\ found \in [service : SUBSET Services, uris : SUBSET ServiceUris]
        /\ latest \in [Nodes -> SUBSET Uris]
    BY <1>1 DEF ApiInit
  <2> QED
    BY <2>1, <2>2, <2>3 DEF ApiTypeOK
<1>2. /\ TypeOK /\ TypeOK' /\ ServicesInv /\ ServicesInv' /\ ApiTypeOK /\ [ApiNext]_apiVars
      => ApiTypeOK'
  BY ApiTypeStep
<1> QED
  BY <1>1, <1>2, ApiImplementsMaster, TypeCorrect, SpecServicesInv, PTL DEF ApiSpec

-----------------------------------------------------------------------------
(***************************************************************************)
(* Lists and look-ups.                                                     *)
(***************************************************************************)

\* What the two lists say of one topic, in a registry of the invariant's form.
LEMMA ListsOfOneRegistry ==
  ASSUME TypeOK, RegistryConsistent, PublishedTypeKnown
  PROVE  ListsAgree
<1> DEFINE Published == {i \in 1..Len(topics_) : topics_[i].publishers # {}}
<1>1. \A i \in 1..Len(topics_) : topics_[i].topicName \in Topics
  BY EntryType
<1>2. GetPublishedTopics(Topics) = {TopicTypeInfo(i) : i \in Published}
  BY <1>1 DEF GetPublishedTopics
<1>3. GetSystemState.publishers =
        {<<topics_[i].topicName, UrisOf(topics_[i].publishers)>> : i \in Published}
  BY DEF GetSystemState
<1> HIDE DEF Published
<1>4. {x[1] : x \in {TopicTypeInfo(i) : i \in Published}}
      = {topics_[i].topicName : i \in Published}
  <2>1. \A i : TopicTypeInfo(i)[1] = topics_[i].topicName
    BY DEF TopicTypeInfo
  <2>2. ASSUME NEW x \in {TopicTypeInfo(i) : i \in Published}
        PROVE  x[1] \in {topics_[i].topicName : i \in Published}
    BY <2>1
  <2>3. ASSUME NEW i \in Published
        PROVE  topics_[i].topicName \in {x[1] : x \in {TopicTypeInfo(j) : j \in Published}}
    <3>1. TopicTypeInfo(i) \in {TopicTypeInfo(j) : j \in Published}
      OBVIOUS
    <3> QED
      BY <2>1, <3>1
  <2> QED
    BY <2>2, <2>3
<1>5. {x[1] : x \in {<<topics_[i].topicName, UrisOf(topics_[i].publishers)>> : i \in Published}}
      = {topics_[i].topicName : i \in Published}
  <2> DEFINE State(i) == <<topics_[i].topicName, UrisOf(topics_[i].publishers)>>
  <2>1. \A i : State(i)[1] = topics_[i].topicName
    OBVIOUS
  <2> HIDE DEF State
  <2>2. ASSUME NEW x \in {State(i) : i \in Published}
        PROVE  x[1] \in {topics_[i].topicName : i \in Published}
    BY <2>1
  <2>3. ASSUME NEW i \in Published
        PROVE  topics_[i].topicName \in {x[1] : x \in {State(j) : j \in Published}}
    <3>1. State(i) \in {State(j) : j \in Published}
      OBVIOUS
    <3> QED
      BY <2>1, <3>1
  <2>4. {x[1] : x \in {State(i) : i \in Published}} = {topics_[i].topicName : i \in Published}
    BY <2>2, <2>3
  <2> QED
    BY <2>4 DEF State
<1>6. {TopicTypeInfo(i) : i \in Published} \subseteq GetTopicTypes
  BY DEF GetTopicTypes, Published
<1>7. \A x, y \in GetTopicTypes : x[1] = y[1] => x = y
  BY DEF GetTopicTypes, TopicTypeInfo, RegistryConsistent
<1>8. \A x \in {TopicTypeInfo(i) : i \in Published} : x[2] # AnyType
  BY DEF Published, TopicTypeInfo, PublishedTypeKnown
<1> QED
  BY <1>2, <1>3, <1>4, <1>5, <1>6, <1>7, <1>8 DEF ListsAgree

\* The lists of an answer agree with each other: the topics that are published,
\* each with one type, which a publisher gave.
THEOREM ListsAlwaysAgree == ApiSpec => []ListsAgree
<1>1. TypeOK /\ RegistryConsistent /\ PublishedTypeKnown => ListsAgree
  BY ListsOfOneRegistry
<1> QED
  BY <1>1, ApiImplementsMaster, TypeCorrect, RegistryStaysConsistent,
     PublishedTypesAreKnown, PTL

\* What Named is for an entry of a topic, for an entry of a service.
ServiceNamed(i, n) == {services_[i].services[j].nodeUri : j \in ProviderEntry(i, n)}

\* The URIs of a node's registrations are those the entries of topics have of it
\* and those the entries of services have.
LEMMA NodeUrisByEntry ==
  ASSUME NEW n \in Nodes
  PROVE  NodeUris(n) = (UNION {Named(i, n) : i \in 1..Len(topics_)})
                         \cup (UNION {ServiceNamed(i, n) : i \in 1..Len(services_)})
<1> DEFINE topicUris == {r[3].nodeUri : r \in {x \in Registrations : x[3].nodeName = n}}
           serviceUris == UNION {ServiceNamed(i, n) : i \in 1..Len(services_)}
           named == UNION {Named(i, n) : i \in 1..Len(topics_)}
<1>1. \A i \in 1..Len(topics_) :
        Named(i, n) = {x.nodeUri : x \in {y \in topics_[i].publishers \cup topics_[i].subscribers :
                                            y.nodeName = n}}
  BY DEF Named, UrisAs
<1>2. ASSUME NEW u \in topicUris
      PROVE  u \in named
  <2>1. PICK r \in Registrations : r[3].nodeName = n /\ u = r[3].nodeUri
    OBVIOUS
  <2>2. PICK i \in 1..Len(topics_) :
          \/ r \in {topics_[i].topicName} \X {"pub"} \X topics_[i].publishers
          \/ r \in {topics_[i].topicName} \X {"sub"} \X topics_[i].subscribers
    BY DEF Registrations
  <2>3. r[3] \in topics_[i].publishers \cup topics_[i].subscribers
    BY <2>2
  <2> QED
    BY <1>1, <2>1, <2>3
<1>3. ASSUME NEW u \in named
      PROVE  u \in topicUris
  <2>1. PICK i \in 1..Len(topics_) : u \in Named(i, n)
    OBVIOUS
  <2>2. PICK x \in topics_[i].publishers \cup topics_[i].subscribers :
          x.nodeName = n /\ u = x.nodeUri
    BY <1>1, <2>1
  <2>3. \E r \in Registrations : r[3] = x
    <3>1. CASE x \in topics_[i].publishers
      <4>1. <<topics_[i].topicName, "pub", x>> \in Registrations
        BY <3>1 DEF Registrations
      <4> QED
        BY <4>1
    <3>2. CASE x \in topics_[i].subscribers
      <4>1. <<topics_[i].topicName, "sub", x>> \in Registrations
        BY <3>2 DEF Registrations
      <4> QED
        BY <4>1
    <3> QED
      BY <3>1, <3>2
  <2> QED
    BY <2>2, <2>3
<1>4. NodeUris(n) = topicUris \cup serviceUris
  BY DEF NodeUris, ServiceNamed
<1>5. topicUris = named
  BY <1>2, <1>3
<1> QED
  BY <1>4, <1>5

\* The loops over the topics and over the services each stop at one entry, if
\* there is one with the name.
LEMMA LookUpLoops ==
  ASSUME NEW n \in Nodes, Len(topics_) \in Nat, Len(services_) \in Nat
  PROVE  LET topic == {i \in 1..Len(topics_) :
                         Named(i, n) # {} /\ \A j \in 1..(i-1) : Named(j, n) = {}}
             service == {i \in 1..Len(services_) :
                           ProviderEntry(i, n) # {} /\ \A j \in 1..(i-1) : ProviderEntry(j, n) = {}}
         IN /\ \A i, j \in topic : i = j
            /\ topic = {} => \A i \in 1..Len(topics_) : Named(i, n) = {}
            /\ \A i, j \in service : i = j
            /\ service = {} => \A i \in 1..Len(services_) : ProviderEntry(i, n) = {}
<1> DEFINE topics == {i \in 1..Len(topics_) : Named(i, n) # {}}
           topic == {i \in 1..Len(topics_) :
                       Named(i, n) # {} /\ \A j \in 1..(i-1) : Named(j, n) = {}}
           services == {i \in 1..Len(services_) : ProviderEntry(i, n) # {}}
           service == {i \in 1..Len(services_) :
                         ProviderEntry(i, n) # {} /\ \A j \in 1..(i-1) : ProviderEntry(j, n) = {}}
<1>1. ASSUME NEW i \in topic, NEW j \in topic PROVE i = j
  <2>1. ~(i \in 1..(j - 1)) /\ ~(j \in 1..(i - 1))
    OBVIOUS
  <2> QED
    BY <2>1
<1>2. ASSUME topics # {} PROVE topic # {}
  <2>1. topics \in SUBSET Nat
    OBVIOUS
  <2>2. PICK i \in topics : \A j \in topics : i <= j
    BY <1>2, <2>1, LeastPosition
  <2>3. \A j \in 1..(i - 1) : j \in 1..Len(topics_) /\ ~(i <= j)
    OBVIOUS
  <2>4. \A j \in 1..(i - 1) : Named(j, n) = {}
    BY <2>2, <2>3
  <2> QED
    BY <2>4
<1>3. ASSUME NEW i \in service, NEW j \in service PROVE i = j
  <2>1. ~(i \in 1..(j - 1)) /\ ~(j \in 1..(i - 1))
    OBVIOUS
  <2> QED
    BY <2>1
<1>4. ASSUME services # {} PROVE service # {}
  <2>1. services \in SUBSET Nat
    OBVIOUS
  <2>2. PICK i \in services : \A j \in services : i <= j
    BY <1>4, <2>1, LeastPosition
  <2>3. \A j \in 1..(i - 1) : j \in 1..Len(services_) /\ ~(i <= j)
    OBVIOUS
  <2>4. \A j \in 1..(i - 1) : ProviderEntry(j, n) = {}
    BY <2>2, <2>3
  <2> QED
    BY <2>4
<1> QED
  BY <1>1, <1>2, <1>3, <1>4

\* A look-up finds the URI of one registration of the node, if there is any.
LEMMA LookUpFinds ==
  ASSUME TypeOK, RegistryConsistent, ServicesInv, NEW n \in Nodes
  PROVE  /\ LookupNode(n) \subseteq NodeUris(n)
         /\ NodeUris(n) # {} => LookupNode(n) # {}
         /\ \A u, v \in LookupNode(n) : u = v
<1> DEFINE topic == {i \in 1..Len(topics_) :
                       Named(i, n) # {} /\ \A j \in 1..(i-1) : Named(j, n) = {}}
           service == {i \in 1..Len(services_) :
                         ProviderEntry(i, n) # {} /\ \A j \in 1..(i-1) : ProviderEntry(j, n) = {}}
           InTopic(i) == IF UrisAs(topics_[i].publishers, n) # {}
                         THEN UrisAs(topics_[i].publishers, n) ELSE UrisAs(topics_[i].subscribers, n)
<1>1. LookupNode(n) = IF topic # {} THEN UNION {InTopic(i) : i \in topic}
                      ELSE UNION {ServiceNamed(i, n) : i \in service}
  BY DEF LookupNode, ServiceNamed
<1>2. /\ \A i, j \in topic : i = j
      /\ topic = {} => \A i \in 1..Len(topics_) : Named(i, n) = {}
      /\ \A i, j \in service : i = j
      /\ service = {} => \A i \in 1..Len(services_) : ProviderEntry(i, n) = {}
  <2>1. Len(topics_) \in Nat /\ Len(services_) \in Nat
    BY DEF TypeOK, ServicesInv
  <2> QED
    BY <2>1, LookUpLoops, Zenon
<1>3. ASSUME NEW i \in 1..Len(topics_)
      PROVE  /\ InTopic(i) \subseteq Named(i, n)
             /\ Named(i, n) # {} => InTopic(i) # {}
             /\ \A u, v \in InTopic(i) : u = v
  <2>1. ASSUME NEW infos, UniqueNames(infos)
        PROVE  \A u, v \in UrisAs(infos, n) : u = v
    BY <2>1 DEF UrisAs, UniqueNames
  <2>2. UniqueNames(topics_[i].publishers) /\ UniqueNames(topics_[i].subscribers)
    BY DEF RegistryConsistent
  <2> QED
    BY <2>1, <2>2 DEF Named
<1>4. ASSUME NEW i \in 1..Len(services_)
      PROVE  /\ ProviderEntry(i, n) # {} => ServiceNamed(i, n) # {}
             /\ ProviderEntry(i, n) = {} => ServiceNamed(i, n) = {}
             /\ \A u, v \in ServiceNamed(i, n) : u = v
  <2>1. ASSUME NEW j \in ProviderEntry(i, n), NEW k \in ProviderEntry(i, n)
        PROVE  j = k
    BY ProviderEntryProperties, EntriesAreGood DEF GoodEntry
  <2> QED
    BY <2>1 DEF ServiceNamed
<1>5. topic \subseteq 1..Len(topics_) /\ service \subseteq 1..Len(services_)
  OBVIOUS
<1>6. \A i \in topic : Named(i, n) # {}
  OBVIOUS
<1>7. \A i \in service : ProviderEntry(i, n) # {}
  OBVIOUS
<1> HIDE DEF topic, service, InTopic
<1>8. LookupNode(n) \subseteq NodeUris(n)
  <2>1. UNION {InTopic(i) : i \in topic} \subseteq UNION {Named(i, n) : i \in 1..Len(topics_)}
    <3>1. ASSUME NEW i \in topic, NEW u \in InTopic(i)
          PROVE  u \in UNION {Named(j, n) : j \in 1..Len(topics_)}
      <4>1. i \in 1..Len(topics_) /\ u \in Named(i, n)
        BY <1>3, <1>5
      <4> QED
        BY <4>1
    <3> QED
      BY <3>1
  <2>2. UNION {ServiceNamed(i, n) : i \in service}
        \subseteq UNION {ServiceNamed(i, n) : i \in 1..Len(services_)}
    BY <1>5, Zenon
  <2> QED
    BY <1>1, <2>1, <2>2, NodeUrisByEntry
<1>9. ASSUME NodeUris(n) # {} PROVE LookupNode(n) # {}
  <2>1. CASE topic # {}
    <3>1. PICK i \in topic : InTopic(i) # {}
      BY <1>3, <1>5, <1>6, <2>1
    <3>2. UNION {InTopic(j) : j \in topic} # {}
      BY <3>1
    <3> QED
      BY <1>1, <2>1, <3>2
  <2>2. CASE topic = {}
    <3>1. PICK i \in 1..Len(services_) : ServiceNamed(i, n) # {}
      BY <1>2, <1>9, <2>2, NodeUrisByEntry
    <3>2. PICK j \in service : TRUE
      BY <1>2, <1>4, <3>1
    <3>3. ServiceNamed(j, n) # {}
      BY <1>4, <1>5, <1>7
    <3>4. UNION {ServiceNamed(k, n) : k \in service} # {}
      BY <3>3
    <3> QED
      BY <1>1, <2>2, <3>4
  <2> QED
    BY <2>1, <2>2
<1>10. \A u, v \in LookupNode(n) : u = v
  <2>1. CASE topic # {}
    BY <1>1, <1>2, <1>3, <1>5, <2>1
  <2>2. CASE topic = {}
    BY <1>1, <1>2, <1>4, <1>5, <2>2
  <2> QED
    BY <2>1, <2>2
<1> QED
  BY <1>8, <1>9, <1>10

\* A node that is registered for anything can be looked up, and what is found is
\* where it registered from.
THEOREM NodesStayKnown == ApiSpec => []NodesAreKnown
<1>1. TypeOK /\ RegistryConsistent /\ ServicesInv => NodesAreKnown
  BY LookUpFinds DEF NodesAreKnown
<1> QED
  BY <1>1, ApiImplementsMaster, TypeCorrect, RegistryStaysConsistent, SpecServicesInv, PTL
=============================================================================
