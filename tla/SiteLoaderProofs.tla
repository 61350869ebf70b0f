-------------------------- MODULE SiteLoaderProofs --------------------------
(***************************************************************************)
(* Theorems about SiteLoader, for any number of libraries, ports, hosts    *)
(* and calls, and whichever ports fail.                                    *)
(***************************************************************************)
EXTENDS SiteLoader, FiniteSetTheorems, TLAPS

-----------------------------------------------------------------------------
(* Keys and sites.                                                         *)

\* Each key has a site.
LEMMA SiteOfKey == ASSUME NEW k \in Key
                   PROVE  SiteOf(k) \in Site /\ k[1] \in Port
BY DEF Key, Site, SiteOf

\* If there is one base, each site has one key.
LEMMA SiteOfInjective ==
  ASSUME OneBase, NEW k \in Key, NEW j \in Key, SiteOf(k) = SiteOf(j)
  PROVE  k = j
<1>1. PICK b : Base = {b}
  BY DEF OneBase
<1>2. /\ k = <<k[1], k[2], b>>
      /\ j = <<j[1], j[2], b>>
  BY <1>1 DEF Key
<1>3. k[1] = j[1] /\ k[2] = j[2]
  BY DEF SiteOf
<1> QED
  BY <1>2, <1>3

\* The site of a key, as load() and unload() use it.
LEMMA SiteHasKey ==
  ASSUME OneBase, NEW s \in Site
  PROVE  \E k \in Key : SiteOf(k) = s
<1>1. PICK b : Base = {b}
  BY DEF OneBase
<1>2. PICK p \in Port, h \in Host : s = <<p, h>>
  BY DEF Site
<1>3. <<p, h, b>> \in Key /\ SiteOf(<<p, h, b>>) = s
  BY <1>1, <1>2 DEF Key, SiteOf
<1> QED
  BY <1>3

\* The sets that the code's counters count are finite.
LEMMA CountedSets ==
  /\ \A s : IsFiniteSet(CallsOf(s)) /\ Cardinality(CallsOf(s)) \in Nat
  /\ \A l : IsFiniteSet(SitesOf(l)) /\ Cardinality(SitesOf(l)) \in Nat
<1>1. \A s : CallsOf(s) \in SUBSET Call
  BY DEF CallsOf
<1>2. \A l : SitesOf(l) \in SUBSET Key
  BY DEF SitesOf
<1> QED
  BY <1>1, <1>2, ConstantsAssumption, FS_Subset, FS_CardinalityType

\* A key in siteMap holds a reference to its library.
LEMMA KeyHasHandle ==
  ASSUME TypeOK, HandlesCoverSites, NEW k \in Key, siteMap[k] # NoLib
  PROVE  siteMap[k] \in Lib /\ opened[siteMap[k]] > 0
<1> DEFINE l == siteMap[k]
<1>1. l \in Lib /\ opened[l] \in Nat
  BY DEF TypeOK
<1>2. SitesOf(l) # {}
  BY DEF SitesOf
<1>3. Cardinality(SitesOf(l)) > 0
  BY <1>2, CountedSets, FS_EmptySet
<1> QED
  BY <1>1, <1>3, CountedSets DEF HandlesCoverSites

-----------------------------------------------------------------------------
(* Type correctness.                                                       *)

\* Every step keeps the types.
LEMMA TypeStep ==
  ASSUME TypeOK, HandlesCoverSites, [Next]_vars
  PROVE  TypeOK'
<1> USE SiteOfKey, ConstantsAssumption
<1>1. CASE UNCHANGED vars
  BY <1>1 DEF vars, loaderVars, callVars, TypeOK
<1>2. ASSUME NEW c \in Call, NEW s \in Site, CallStarts(c, s)
      PROVE  TypeOK'
  BY <1>2 DEF CallStarts, TypeOK, loaderVars
<1>3. ASSUME NEW c \in Call, CallEnds(c)
      PROVE  TypeOK'
  BY <1>3 DEF CallEnds, TypeOK, loaderVars
<1>4. ASSUME NEW k \in Key, NEW l \in Lib, BindSite(k, l),
             UNCHANGED callVars,
             listening' \in {listening, listening \cup {k[1]}},
             libCount' \in {libCount, [libCount EXCEPT ![l] = @ + 1]},
             accepted' \in {accepted, accepted \cup {k}}
      PROVE  TypeOK'
  <2>1. SiteOf(k) \in Site /\ k[1] \in Port
    OBVIOUS
  <2> QED
    BY <1>4, <2>1 DEF BindSite, DlOpen, AddSite, TypeOK, callVars
<1>5. ASSUME NEW k \in Key, NEW l \in Lib,
             Load(k, l) \/ LoadCannotListen(k, l)
      PROVE  TypeOK'
  BY <1>4, <1>5 DEF Load, LoadCannotListen
<1>6. ASSUME NEW k \in Key, NEW l \in Lib, LoadHasNoSite(k, l)
      PROVE  TypeOK'
  BY <1>6 DEF LoadHasNoSite, DlOpen, TypeOK, callVars
<1>7. ASSUME NEW k \in Key, UnloadWaits(k)
      PROVE  TypeOK'
  BY <1>7 DEF UnloadWaits, RemSite, ActionsRemoved, CountKept, TypeOK,
              callVars
<1>8. ASSUME NEW k \in Key, EraseSite(k), opened' \in [Lib -> Nat]
      PROVE  TypeOK'
  BY <1>8 DEF EraseSite, RemSite, ActionsRemoved, CountKept, TypeOK, callVars
<1>9. ASSUME NEW k \in Key, UnloadKeepsLib(k)
      PROVE  TypeOK'
  BY <1>8, <1>9 DEF UnloadKeepsLib, TypeOK
<1>10. ASSUME NEW k \in Key, NEW result \in {0, -1},
              UnloadClosesLib(k, result)
       PROVE  TypeOK'
  <2>1. siteMap[k] \in Lib /\ opened[siteMap[k]] > 0
    BY <1>10, KeyHasHandle DEF UnloadClosesLib, EraseSite
  <2> QED
    BY <1>8, <1>10, <2>1 DEF UnloadClosesLib, TypeOK
<1> QED
  BY <1>1, <1>2, <1>3, <1>5, <1>6, <1>7, <1>9, <1>10 DEF Next

-----------------------------------------------------------------------------
(* References to the libraries.                                            *)

\* Every load adds a reference, and every unload that removes a key removes
\* at most one.
LEMMA HandlesStep ==
  ASSUME TypeOK, HandlesCoverSites, [Next]_vars
  PROVE  HandlesCoverSites'
<1> USE ConstantsAssumption
<1>1. CASE UNCHANGED <<siteMap, opened>>
  BY <1>1 DEF HandlesCoverSites, SitesOf
<1>2. ASSUME NEW k \in Key, NEW l \in Lib, DlOpen(l), siteMap[k] = NoLib,
             siteMap' \in {siteMap, [siteMap EXCEPT ![k] = l]}
      PROVE  HandlesCoverSites'
  <2> SUFFICES ASSUME NEW m \in Lib
               PROVE  opened'[m] >= Cardinality(SitesOf(m)')
    BY DEF HandlesCoverSites
  <2>1. opened[m] \in Nat /\ opened[m] >= Cardinality(SitesOf(m))
    BY DEF TypeOK, HandlesCoverSites
  <2>2. CASE m = l
    <3>1. opened'[m] = opened[m] + 1
      BY <1>2, <2>2 DEF DlOpen, TypeOK
    <3>2. SitesOf(m)' = SitesOf(m) \/ SitesOf(m)' = SitesOf(m) \cup {k}
      BY <1>2, <2>2 DEF SitesOf, TypeOK
    <3> DEFINE n == Cardinality(SitesOf(m))
    <3>3. n \in Nat /\ IsFiniteSet(SitesOf(m))
      BY CountedSets
    <3>4. Cardinality(SitesOf(m) \cup {k}) \in {n, n + 1}
      BY <3>3, FS_AddElement
    <3>5. Cardinality(SitesOf(m)') \in {n, n + 1}
      BY <3>2, <3>4
    <3> QED
      BY <2>1, <3>1, <3>3, <3>5
  <2>3. CASE m # l
    <3>1. opened'[m] = opened[m]
      BY <1>2, <2>3 DEF DlOpen, TypeOK
    <3>2. SitesOf(m)' = SitesOf(m)
      BY <1>2, <2>3 DEF SitesOf, TypeOK
    <3> QED
      BY <2>1, <3>1, <3>2
  <2> QED
    BY <2>2, <2>3
<1>3. ASSUME NEW k \in Key, siteMap[k] # NoLib,
             siteMap' = [siteMap EXCEPT ![k] = NoLib],
             opened' \in {opened, [opened EXCEPT ![siteMap[k]] = @ - 1]}
      PROVE  HandlesCoverSites'
  <2> SUFFICES ASSUME NEW m \in Lib
               PROVE  opened'[m] >= Cardinality(SitesOf(m)')
    BY DEF HandlesCoverSites
  <2>1. opened[m] \in Nat /\ opened[m] >= Cardinality(SitesOf(m))
    BY DEF TypeOK, HandlesCoverSites
  <2>2. CASE m = siteMap[k]
    <3>1. opened'[m] >= opened[m] - 1 /\ opened'[m] \in Int
      BY <1>3, <2>1, <2>2 DEF TypeOK
    <3>2. SitesOf(m)' = SitesOf(m) \ {k} /\ k \in SitesOf(m)
      BY <1>3, <2>2 DEF SitesOf, TypeOK
    <3>3. Cardinality(SitesOf(m)') = Cardinality(SitesOf(m)) - 1
      BY <3>2, CountedSets, FS_RemoveElement
    <3> QED
      BY <2>1, <3>1, <3>3, CountedSets
  <2>3. CASE m # siteMap[k]
    <3>1. opened'[m] = opened[m]
      BY <1>3, <2>3 DEF TypeOK
    <3>2. SitesOf(m)' = SitesOf(m)
      BY <1>3, <2>3 DEF SitesOf, TypeOK
    <3> QED
      BY <2>1, <3>1, <3>2
  <2> QED
    BY <2>2, <2>3
<1>4. ASSUME NEW k \in Key, NEW l \in Lib,
             Load(k, l) \/ LoadCannotListen(k, l) \/ LoadHasNoSite(k, l)
      PROVE  HandlesCoverSites'
  BY <1>2, <1>4 DEF Load, LoadCannotListen, LoadHasNoSite, BindSite
<1>5. ASSUME NEW k \in Key, NEW result \in {0, -1},
             UnloadKeepsLib(k) \/ UnloadClosesLib(k, result)
      PROVE  HandlesCoverSites'
  <2>1. opened' \in {opened, [opened EXCEPT ![siteMap[k]] = @ - 1]}
    BY <1>5 DEF UnloadKeepsLib, UnloadClosesLib
  <2> QED
    BY <1>3, <1>5, <2>1 DEF UnloadKeepsLib, UnloadClosesLib, EraseSite
<1> QED
  BY <1>1, <1>4, <1>5
     DEF Next, vars, loaderVars, CallStarts, CallEnds, UnloadWaits

\* The types, and a reference to its library for every key: whatever the
\* bases are.
LEMMA HandlesCorrect == Spec => [](TypeOK /\ HandlesCoverSites)
<1>1. Init => TypeOK /\ HandlesCoverSites
  <2> SUFFICES ASSUME Init PROVE TypeOK /\ HandlesCoverSites
    OBVIOUS
  <2>1. TypeOK
    BY DEF Init, TypeOK
  <2>2. \A l \in Lib : SitesOf(l) = {}
    BY ConstantsAssumption DEF Init, SitesOf
  <2>3. \A l \in Lib : Cardinality(SitesOf(l)) = 0
    BY <2>2, FS_EmptySet
  <2> QED
    BY <2>1, <2>3 DEF Init, HandlesCoverSites
<1>2. TypeOK /\ HandlesCoverSites /\ [Next]_vars
        => TypeOK' /\ HandlesCoverSites'
  BY TypeStep, HandlesStep
<1> QED
  BY <1>1, <1>2, PTL DEF Spec

\* The variables have their types.
THEOREM TypeCorrect == Spec => []TypeOK
BY HandlesCorrect, PTL

-----------------------------------------------------------------------------
(* One base: a key, a site and its calls belong together.                  *)

\* If its count is exact, a site without active items has no calls; nor has
\* one whose key has no entry.
LEMMA NoCallsOf ==
  ASSUME LoaderInvariant, NEW k \in Key,
         siteMap[k] = NoLib \/ ~Busy(SiteOf(k))
  PROVE  CallsOf(SiteOf(k)) = {}
<1>1. CASE siteMap[k] = NoLib
  BY <1>1 DEF LoaderInvariant, CallsHaveSites, CallsOf
<1>2. CASE ~Busy(SiteOf(k))
  <2>1. Cardinality(CallsOf(SiteOf(k))) = 0
    BY <1>2, SiteOfKey DEF LoaderInvariant, CountIsExact, Busy
  <2> QED
    BY <2>1, CountedSets, FS_EmptySet
<1> QED
  BY <1>1, <1>2

\* A call starts.
LEMMA StartStep ==
  ASSUME LoaderInvariant, NEW c \in Call, NEW s \in Site, CallStarts(c, s)
  PROVE  CallsHaveSites' /\ CountIsExact'
<1> USE DEF LoaderInvariant
<1>1. /\ callSite[c] = NoSite /\ actionMap[s] # NoLib
      /\ callSite'[c] = s /\ callLib'[c] = actionMap[s]
      /\ \A d \in Call \ {c} : callSite'[d] = callSite[d]
                               /\ callLib'[d] = callLib[d]
      /\ UNCHANGED siteMap
  BY DEF CallStarts, TypeOK, loaderVars
<1>2. CallsHaveSites'
  BY <1>1 DEF CallsHaveSites, ActionsHaveSites
<1>3. CountIsExact'
  <2> SUFFICES ASSUME NEW t \in Site
               PROVE  activeItems'[t] = Cardinality(CallsOf(t)')
    BY DEF CountIsExact
  <2>1. activeItems[t] = Cardinality(CallsOf(t))
    BY DEF CountIsExact
  <2>2. CASE t = s
    <3>1. CallsOf(t)' = CallsOf(t) \cup {c} /\ c \notin CallsOf(t)
      BY <1>1, <2>2, ConstantsAssumption DEF CallsOf
    <3>2. Cardinality(CallsOf(t) \cup {c}) = Cardinality(CallsOf(t)) + 1
      BY <3>1, CountedSets, FS_AddElement
    <3>3. activeItems'[t] = activeItems[t] + 1
      BY <2>2 DEF CallStarts, TypeOK
    <3> QED
      BY <2>1, <3>1, <3>2, <3>3
  <2>3. CASE t # s
    <3>1. CallsOf(t)' = CallsOf(t)
      BY <1>1, <2>3, ConstantsAssumption DEF CallsOf
    <3>2. activeItems'[t] = activeItems[t]
      BY <2>3 DEF CallStarts, TypeOK
    <3> QED
      BY <2>1, <3>1, <3>2
  <2> QED
    BY <2>2, <2>3
<1> QED
  BY <1>2, <1>3

\* A call ends.
LEMMA EndStep ==
  ASSUME LoaderInvariant, NEW c \in Call, CallEnds(c)
  PROVE  CallsHaveSites' /\ CountIsExact'
<1> USE DEF LoaderInvariant
<1> DEFINE s == callSite[c]
<1>1. /\ s \in Site
      /\ callSite'[c] = NoSite
      /\ \A d \in Call \ {c} : callSite'[d] = callSite[d]
                               /\ callLib'[d] = callLib[d]
      /\ UNCHANGED siteMap
  BY DEF CallEnds, TypeOK, loaderVars
<1>2. CallsHaveSites'
  BY <1>1, SiteOfKey, ConstantsAssumption DEF CallsHaveSites
<1>3. CountIsExact'
  <2> SUFFICES ASSUME NEW t \in Site
               PROVE  activeItems'[t] = Cardinality(CallsOf(t)')
    BY DEF CountIsExact
  <2>1. activeItems[t] = Cardinality(CallsOf(t))
    BY DEF CountIsExact
  <2>2. CASE t = s
    <3>1. CallsOf(t)' = CallsOf(t) \ {c} /\ c \in CallsOf(t)
      BY <1>1, <2>2, ConstantsAssumption DEF CallsOf
    <3>2. Cardinality(CallsOf(t) \ {c}) = Cardinality(CallsOf(t)) - 1
      BY <3>1, CountedSets, FS_RemoveElement
    <3>3. activeItems'[t] = activeItems[t] - 1
      BY <1>1, <2>2 DEF CallEnds, TypeOK
    <3> QED
      BY <2>1, <3>1, <3>2, <3>3
  <2>3. CASE t # s
    <3>1. CallsOf(t)' = CallsOf(t)
      BY <1>1, <2>3, ConstantsAssumption DEF CallsOf
    <3>2. activeItems'[t] = activeItems[t]
      BY <1>1, <2>3 DEF CallEnds, TypeOK
    <3> QED
      BY <2>1, <3>1, <3>2
  <2> QED
    BY <2>2, <2>3
<1> QED
  BY <1>2, <1>3

\* load() of a key that has no entry disturbs no call, as the site has none.
LEMMA BindStep ==
  ASSUME OneBase, LoaderInvariant, NEW k \in Key, NEW l \in Lib,
         BindSite(k, l), UNCHANGED callVars
  PROVE  CallsHaveSites' /\ ActionsHaveSites' /\ CountIsExact'
<1> USE DEF LoaderInvariant
<1>1. /\ siteMap[k] = NoLib /\ siteMap'[k] = l
      /\ \A j \in Key \ {k} : siteMap'[j] = siteMap[j]
      /\ SiteOf(k) \in Site
      /\ actionMap'[SiteOf(k)] = l /\ activeItems'[SiteOf(k)] = 0
      /\ \A t \in Site \ {SiteOf(k)} : actionMap'[t] = actionMap[t]
                                       /\ activeItems'[t] = activeItems[t]
      /\ UNCHANGED <<callSite, callLib>>
  BY SiteOfKey DEF BindSite, AddSite, TypeOK, callVars
<1>2. CallsOf(SiteOf(k)) = {}
  BY <1>1, NoCallsOf
<1>3. CallsHaveSites'
  BY <1>1, <1>2 DEF CallsHaveSites, CallsOf
<1>4. ActionsHaveSites'
  BY <1>1, SiteOfKey, SiteOfInjective DEF ActionsHaveSites
<1>5. CountIsExact'
  <2>1. \A t \in Site : CallsOf(t)' = CallsOf(t)
    BY <1>1 DEF CallsOf
  <2> QED
    BY <1>1, <1>2, <2>1, FS_EmptySet DEF CountIsExact
<1> QED
  BY <1>3, <1>4, <1>5

\* unload() disables a site, and removes its entry if it has no calls.
LEMMA UnloadStep ==
  ASSUME OneBase, LoaderInvariant, NEW k \in Key,
         UnloadWaits(k) \/ EraseSite(k)
  PROVE  CallsHaveSites' /\ ActionsHaveSites' /\ CountIsExact'
<1> USE DEF LoaderInvariant
<1>1. /\ \A j \in Key \ {k} : siteMap'[j] = siteMap[j]
      /\ SiteOf(k) \in Site
      /\ actionMap'[SiteOf(k)] = NoLib
      /\ \A t \in Site \ {SiteOf(k)} : actionMap'[t] = actionMap[t]
      /\ UNCHANGED <<callSite, callLib, activeItems>>
  BY SiteOfKey
     DEF UnloadWaits, EraseSite, RemSite, ActionsRemoved, CountKept, TypeOK,
         callVars
<1>2. CallsHaveSites'
  <2>1. siteMap'[k] = siteMap[k] \/ CallsOf(SiteOf(k)) = {}
    BY NoCallsOf DEF UnloadWaits, EraseSite
  <2> QED
    BY <1>1, <2>1 DEF CallsHaveSites, CallsOf
<1>3. ActionsHaveSites'
  BY <1>1, SiteOfKey, SiteOfInjective DEF ActionsHaveSites
<1>4. CountIsExact'
  <2>1. \A t \in Site : CallsOf(t)' = CallsOf(t)
    BY <1>1 DEF CallsOf
  <2> QED
    BY <1>1, <2>1 DEF CountIsExact
<1> QED
  BY <1>2, <1>3, <1>4

\* Every step leaves the sites that were accepted in service, except the one
\* it unloads.
LEMMA ServedStep ==
  ASSUME OneBase, LoaderInvariant, [Next]_vars
  PROVE  BindersListen' /\ AcceptedIsServed'
<1> USE SiteOfKey DEF LoaderInvariant
<1>1. CASE UNCHANGED <<accepted, portMap, listening, siteMap, actionMap>>
  BY <1>1 DEF BindersListen, AcceptedIsServed
<1>2. ASSUME NEW k \in Key, NEW l \in Lib,
             Load(k, l) \/ LoadCannotListen(k, l)
      PROVE  BindersListen' /\ AcceptedIsServed'
  <2>1. /\ siteMap[k] = NoLib /\ siteMap'[k] = l
        /\ \A j \in Key \ {k} : siteMap'[j] = siteMap[j]
        /\ actionMap'[SiteOf(k)] = l
        /\ \A t \in Site \ {SiteOf(k)} : actionMap'[t] = actionMap[t]
        /\ portMap' = portMap \cup {k[1]}
        /\ listening \subseteq listening'
        /\ accepted' \subseteq accepted \cup {k}
    BY <1>2 DEF Load, LoadCannotListen, BindSite, AddSite, TypeOK
  <2>2. k[1] \notin FailingPorts => k[1] \in listening'
    BY <1>2 DEF Load, LoadCannotListen, PortMapped, BindersListen
  <2>3. BindersListen'
    BY <2>1, <2>2 DEF BindersListen
  <2>4. AcceptedIsServed'
    <3> SUFFICES ASSUME NEW j \in accepted', j[1] \notin FailingPorts
                 PROVE  /\ j[1] \in listening'
                        /\ siteMap'[j] # NoLib
                        /\ actionMap'[SiteOf(j)] = siteMap'[j]
      BY DEF AcceptedIsServed
    <3>1. CASE j = k
      BY <2>1, <2>2, <3>1, ConstantsAssumption
    <3>2. CASE j # k
      <4>1. j \in accepted /\ j \in Key
        BY <2>1, <3>2 DEF TypeOK
      <4>2. SiteOf(j) # SiteOf(k)
        BY <3>2, <4>1, SiteOfInjective
      <4> QED
        BY <2>1, <3>2, <4>1, <4>2 DEF AcceptedIsServed
    <3> QED
      BY <3>1, <3>2
  <2> QED
    BY <2>3, <2>4
<1>3. ASSUME NEW k \in Key, UnloadWaits(k) \/ EraseSite(k)
      PROVE  BindersListen' /\ AcceptedIsServed'
  <2>1. /\ \A j \in Key \ {k} : siteMap'[j] = siteMap[j]
        /\ \A t \in Site \ {SiteOf(k)} : actionMap'[t] = actionMap[t]
        /\ accepted' = accepted \ {k}
        /\ UNCHANGED <<portMap, listening>>
    BY <1>3 DEF UnloadWaits, EraseSite, RemSite, ActionsRemoved, TypeOK
  <2>2. \A j \in accepted' : /\ j \in accepted /\ j \in Key /\ j # k
                             /\ SiteOf(j) \in Site /\ SiteOf(j) # SiteOf(k)
    BY <2>1, SiteOfInjective DEF TypeOK
  <2> QED
    BY <2>1, <2>2 DEF BindersListen, AcceptedIsServed
<1> QED
  BY <1>1, <1>2, <1>3
     DEF Next, vars, loaderVars, CallStarts, CallEnds, LoadHasNoSite,
         UnloadKeepsLib, UnloadClosesLib

\* The invariant of the loader, for sites that all have the same base.
THEOREM LoaderCorrect == OneBase => (Spec => []LoaderInvariant)
<1> SUFFICES ASSUME OneBase PROVE Spec => []LoaderInvariant
  OBVIOUS
<1>1. Init /\ TypeOK /\ HandlesCoverSites => LoaderInvariant
  <2> SUFFICES ASSUME Init, TypeOK, HandlesCoverSites PROVE LoaderInvariant
    OBVIOUS
  <2>1. CallsHaveSites
    BY SiteOfKey, ConstantsAssumption DEF Init, CallsHaveSites
  <2>2. ActionsHaveSites
    BY SiteOfKey DEF Init, ActionsHaveSites
  <2>3. \A s \in Site : CallsOf(s) = {}
    BY ConstantsAssumption DEF Init, CallsOf
  <2>4. CountIsExact
    BY <2>3, FS_EmptySet DEF Init, CountIsExact
  <2>5. BindersListen /\ AcceptedIsServed
    BY DEF Init, BindersListen, AcceptedIsServed
  <2> QED
    BY <2>1, <2>2, <2>4, <2>5 DEF LoaderInvariant
<1>2. LoaderInvariant /\ TypeOK' /\ HandlesCoverSites' /\ [Next]_vars
        => LoaderInvariant'
  <2> SUFFICES ASSUME LoaderInvariant, TypeOK', HandlesCoverSites', [Next]_vars
               PROVE  CallsHaveSites' /\ ActionsHaveSites' /\ CountIsExact'
    BY ServedStep DEF LoaderInvariant
  <2>1. CASE UNCHANGED <<siteMap, actionMap, activeItems, callVars>>
    BY <2>1 DEF callVars, LoaderInvariant, CallsHaveSites, ActionsHaveSites,
                CountIsExact, CallsOf
  <2>2. CASE \/ \E c \in Call, s \in Site : CallStarts(c, s)
             \/ \E c \in Call : CallEnds(c)
    <3>1. CallsHaveSites' /\ CountIsExact'
      BY <2>2, StartStep, EndStep
    <3>2. UNCHANGED <<siteMap, actionMap>>
      BY <2>2 DEF CallStarts, CallEnds, loaderVars
    <3> QED
      BY <3>1, <3>2 DEF LoaderInvariant, ActionsHaveSites
  <2>3. CASE \E k \in Key, l \in Lib : Load(k, l) \/ LoadCannotListen(k, l)
    BY <2>3, BindStep DEF Load, LoadCannotListen
  <2>4. CASE \E k \in Key : UnloadWaits(k) \/ EraseSite(k)
    BY <2>4, UnloadStep
  <2> QED
    BY <2>1, <2>2, <2>3, <2>4
       DEF Next, vars, loaderVars, callVars, LoadHasNoSite, UnloadKeepsLib,
           UnloadClosesLib
<1> QED
  BY <1>1, <1>2, HandlesCorrect, PTL DEF Spec

\* The library of an action that is at work is in memory.
THEOREM CalledAreMapped == OneBase => (Spec => []CalledIsMapped)
<1> SUFFICES ASSUME OneBase PROVE Spec => []CalledIsMapped
  OBVIOUS
<1>1. LoaderInvariant => CalledIsMapped
  <2> SUFFICES ASSUME LoaderInvariant, NEW c \in Call, callSite[c] # NoSite
               PROVE  callLib[c] \in Lib /\ opened[callLib[c]] > 0
    BY DEF CalledIsMapped
  <2>1. PICK k \in Key : SiteOf(k) = callSite[c]
    BY SiteHasKey DEF LoaderInvariant, TypeOK
  <2>2. siteMap[k] # NoLib /\ callLib[c] = siteMap[k]
    BY <2>1 DEF LoaderInvariant, CallsHaveSites
  <2> QED
    BY <2>2, KeyHasHandle DEF LoaderInvariant
<1> QED
  BY <1>1, LoaderCorrect, PTL

\* activeItems counts the calls that are at work.
THEOREM CountsAreExact == OneBase => (Spec => []CountIsExact)
<1>1. LoaderInvariant => CountIsExact
  BY DEF LoaderInvariant
<1> QED
  BY <1>1, LoaderCorrect, PTL

\* A site that load() accepted is served until it is unloaded.
THEOREM AcceptedAreServed == OneBase => (Spec => []AcceptedIsServed)
<1>1. LoaderInvariant => AcceptedIsServed
  BY DEF LoaderInvariant
<1> QED
  BY <1>1, LoaderCorrect, PTL

=============================================================================
