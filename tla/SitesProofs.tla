---------------------------- MODULE SitesProofs ----------------------------
(***************************************************************************)
(* Proofs about Sites: a site and the binder are well formed, and however  *)
(* sites are filled, bound, replaced and removed, every action answers at  *)
(* one place only; what a search of a map finds, in any tree; in which     *)
(* order the binder's maps answer; and that registrations keep answers.    *)
(***************************************************************************)
EXTENDS RouteProofs

-----------------------------------------------------------------------------
(* The order of the routes of a map.  A map has finitely many routes, so   *)
(* that there is a first one and a last one among any of them.             *)

LEMMA HasFirst ==
  ASSUME NEW S, IsFiniteSet(S), S # {}, NEW R,
         \A r \in S : <<r, r>> \notin R,
         \A r, q, p \in S : <<r, q>> \in R /\ <<q, p>> \in R => <<r, p>> \in R
  PROVE  \E r \in S : \A q \in S : <<q, r>> \notin R
<1> DEFINE Below(r) == {q \in S : <<q, r>> \in R}
           T == {Cardinality(Below(r)) : r \in S}
<1>1. ASSUME NEW r \in S PROVE IsFiniteSet(Below(r)) /\ Cardinality(Below(r)) \in Nat
  <2>1. Below(r) \in SUBSET S
    OBVIOUS
  <2> HIDE DEF Below
  <2>2. IsFiniteSet(Below(r))
    BY <2>1, FS_Subset, Zenon
  <2> QED
    BY <2>2, FS_CardinalityType, Zenon
<1>2. T \in SUBSET Nat /\ T # {}
  <2> HIDE DEF Below
  <2> QED
    BY <1>1
<1>3. PICK n \in T : \A m \in T : n <= m
  <2> HIDE DEF T
  <2> QED
    BY <1>2, LeastNumber
<1>4. PICK r \in S : \A q \in S : Cardinality(Below(r)) <= Cardinality(Below(q))
  <2> HIDE DEF Below
  <2> QED
    BY <1>3
<1>5. ASSUME NEW q \in S, <<q, r>> \in R PROVE FALSE
  <2>1. Below(q) \in SUBSET Below(r)
    BY <1>5
  <2>2. q \in Below(r) /\ q \notin Below(q)
    BY <1>5
  <2>3. Cardinality(Below(r)) <= Cardinality(Below(q))
    BY <1>4
  <2>4. /\ IsFiniteSet(Below(r))
        /\ Cardinality(Below(r)) \in Nat /\ Cardinality(Below(q)) \in Nat
    BY <1>1
  <2> HIDE DEF Below
  <2>5. /\ Cardinality(Below(q)) <= Cardinality(Below(r))
        /\ Cardinality(Below(r)) = Cardinality(Below(q)) => Below(r) = Below(q)
    BY <2>1, <2>4, FS_Subset, Zenon
  <2>6. Cardinality(Below(r)) = Cardinality(Below(q))
    BY <2>3, <2>4, <2>5
  <2> QED
    BY <2>2, <2>5, <2>6
<1> QED
  BY <1>5

LEMMA FirstRoute ==
  ASSUME NEW S \in SUBSET Routes, IsFiniteSet(S), S # {}
  PROVE  \E r \in S : \A q \in S : ~ Before(q, r)
<1> DEFINE R == {x \in S \X S : Before(x[1], x[2])}
<1>2. \A r, q \in S : <<r, q>> \in R <=> Before(r, q)
  OBVIOUS
<1>3. \A r \in S : <<r, r>> \notin R
  BY RouteOrder
<1>4. \A r, q, p \in S : <<r, q>> \in R /\ <<q, p>> \in R => <<r, p>> \in R
  BY <1>2, RouteOrder
<1> HIDE DEF R
<1>5. \E r \in S : \A q \in S : <<q, r>> \notin R
  BY <1>3, <1>4, HasFirst
<1> QED
  BY <1>2, <1>5

LEMMA LastRoute ==
  ASSUME NEW S \in SUBSET Routes, IsFiniteSet(S), S # {}
  PROVE  \E r \in S : \A q \in S : ~ Before(r, q)
<1> DEFINE R == {x \in S \X S : Before(x[2], x[1])}
<1>2. \A r, q \in S : <<r, q>> \in R <=> Before(q, r)
  OBVIOUS
<1>3. \A r \in S : <<r, r>> \notin R
  BY RouteOrder
<1>4. \A r, q, p \in S : <<r, q>> \in R /\ <<q, p>> \in R => <<r, p>> \in R
  BY <1>2, RouteOrder
<1> HIDE DEF R
<1>5. \E r \in S : \A q \in S : <<q, r>> \notin R
  BY <1>3, <1>4, HasFirst
<1> QED
  BY <1>2, <1>5

\* A route that is not the first has a predecessor, and what is before the
\* route is not after its predecessor.
LEMMA HasPredecessor ==
  ASSUME NEW map, DOMAIN map \subseteq Routes, IsFiniteSet(DOMAIN map),
         NEW r \in DOMAIN map, NEW q \in DOMAIN map, Before(q, r)
  PROVE  \E s \in Predecessor(map, r) : s \in DOMAIN map /\ (s = q \/ Before(q, s))
<1> DEFINE S == {p \in DOMAIN map : Before(p, r)}
<1>0. \A p \in DOMAIN map : p \in Seq(Text)
  BY RoutesOK DEF RouteOK
<1>1. S \in SUBSET DOMAIN map /\ S \in SUBSET Routes /\ q \in S
  OBVIOUS
<1> HIDE DEF S
<1>2. IsFiniteSet(S)
  BY <1>1, FS_Subset, Zenon
<1>3. PICK s \in S : \A p \in S : ~ Before(s, p)
  BY <1>1, <1>2, LastRoute
<1>4. s \in Predecessor(map, r)
  BY <1>3 DEF Predecessor, S
<1>5. s = q \/ Before(q, s)
  BY <1>0, <1>1, <1>3, BeforeTotal
<1> QED
  BY <1>1, <1>4, <1>5

-----------------------------------------------------------------------------
(* A search of one map.                                                    *)

LEMMA ComparisonIs ==
  ASSUME NEW r \in Routes, NEW p \in Path
  PROVE  /\ Comparison[r][p] = Compare(r, p) /\ Comparison[r][p] \in Int
         /\ p \in Match[r] <=> Comparison[r][p] = 0
<1>1. Comparison[r][p] = Compare(r, p)
  BY DEF Comparison
<1>2. Compare(r, p) \in Int
  BY RoutesOK, CompareType, SitesAssumption DEF Text
<1>3. p \in Match[r] <=> Compare(r, p) = 0
  BY CompareIsMatch DEF Match
<1> QED
  BY <1>1, <1>2, <1>3

\* A map that a site may keep.
Filled(map) ==
  /\ DOMAIN map \subseteq Routes /\ IsFiniteSet(DOMAIN map)
  /\ \A r \in DOMAIN map : map[r] # NoAction

\* Whatever the order, only an action whose route matches is found.
LEMMA FoundMatches ==
  ASSUME NEW map, DOMAIN map \subseteq Routes, NEW p \in Path,
         NEW a \in MapFind(map, p) \ {NoAction}
  PROVE  \E r \in DOMAIN map : map[r] = a /\ p \in Match[r]
<1>1. PICK r \in DOMAIN map :
        map[r] = a /\ Comparison[r][p] >= 0 /\ Comparison[r][p] <= 0
  BY DEF MapFind, LowerBounds
<1>2. Comparison[r][p] = 0
  BY <1>1, ComparisonIs
<1> QED
  BY <1>1, <1>2, ComparisonIs

\* Among routes that are apart, the one that matches divides those that are
\* less than the path from those that are not.
LEMMA MatchDivides ==
  ASSUME NEW map, DOMAIN map \subseteq Routes, AllApart(map), NEW p \in Path,
         NEW r \in DOMAIN map, p \in Match[r], NEW q \in DOMAIN map, q # r
  PROVE  /\ p \notin Match[q] /\ Comparison[q][p] \in Int /\ Comparison[q][p] # 0
         /\ Before(q, r) <=> Comparison[q][p] < 0
         /\ Before(r, q) <=> Comparison[q][p] > 0
<1>1. Apart(r, q)
  BY DEF AllApart
<1>2. Compare(r, p) = 0
  BY ComparisonIs
<1> QED
  BY <1>1, <1>2, ApartOrder, ComparisonIs

LEMMA FindsTheMatch ==
  ASSUME NEW map, Filled(map), AllApart(map), NEW p \in Path,
         NEW r \in DOMAIN map, p \in Match[r]
  PROVE  MapFind(map, p) = {map[r]} /\ Answer(map, p) = {map[r]}
<1>0. /\ DOMAIN map \subseteq Routes /\ IsFiniteSet(DOMAIN map) /\ DOMAIN map # {}
      /\ \A q \in DOMAIN map : q \in Seq(Text)
  BY RoutesOK DEF Filled, RouteOK
<1>1. Comparison[r][p] = 0
  BY <1>0, ComparisonIs
<1>2. \A q \in DOMAIN map : q # r =>
        /\ p \notin Match[q] /\ Comparison[q][p] \in Int /\ Comparison[q][p] # 0
        /\ Before(q, r) <=> Comparison[q][p] < 0
        /\ Before(r, q) <=> Comparison[q][p] > 0
  BY <1>0, MatchDivides
<1>3. ~ Before(r, r)
  BY <1>0, BeforeIrreflexive
<1>4. r \in LowerBounds(map, p)
  <2>1. \A q \in Predecessor(map, r) : q \in DOMAIN map /\ q # r /\ Before(q, r)
    BY <1>3 DEF Predecessor
  <2> QED
    BY <1>1, <1>2, <2>1 DEF LowerBounds
<1>5. ASSUME NEW q \in LowerBounds(map, p), q # r PROVE FALSE
  <2>1. q \in DOMAIN map /\ Comparison[q][p] >= 0
    BY DEF LowerBounds
  <2>2. Before(r, q)
    BY <1>2, <1>5, <2>1
  <2>3. PICK s \in Predecessor(map, q) : s \in DOMAIN map /\ (s = r \/ Before(r, s))
    BY <1>0, <2>1, <2>2, HasPredecessor
  <2>4. Comparison[s][p] < 0
    BY <2>3 DEF LowerBounds
  <2>5. s # r => Comparison[s][p] > 0 /\ Comparison[s][p] \in Int
    BY <1>2, <2>3
  <2> QED
    BY <1>1, <2>4, <2>5
<1>6. ~ EndIsBound(map, p)
  <2>1. PICK g \in DOMAIN map : \A q \in DOMAIN map : ~ Before(g, q)
    BY <1>0, LastRoute
  <2>2. ~ (Comparison[g][p] < 0)
    BY <1>1, <1>2, <2>1
  <2> QED
    BY <2>1, <2>2 DEF EndIsBound
<1>7. MapFind(map, p) = {map[r]}
  <2>1. LowerBounds(map, p) = {r}
    BY <1>4, <1>5
  <2> QED
    BY <1>1, <1>6, <2>1 DEF MapFind
<1>8. Answer(map, p) = {map[r]}
  <2>1. {q \in DOMAIN map : p \in Match[q]} = {r}
    BY <1>2
  <2> QED
    BY <2>1 DEF Answer
<1> QED
  BY <1>7, <1>8

LEMMA FindsNothing ==
  ASSUME NEW map, Filled(map), NEW p \in Path,
         \A r \in DOMAIN map : p \notin Match[r]
  PROVE  MapFind(map, p) = {NoAction} /\ Answer(map, p) = {NoAction}
<1>0. DOMAIN map \subseteq Routes /\ IsFiniteSet(DOMAIN map)
  BY DEF Filled
<1>1. \A r \in DOMAIN map : Comparison[r][p] \in Int /\ Comparison[r][p] # 0
  BY <1>0, ComparisonIs
<1>2. {r \in LowerBounds(map, p) : Comparison[r][p] <= 0} = {}
  BY <1>1 DEF LowerBounds
<1>3. ASSUME ~ EndIsBound(map, p)
      PROVE  \E r \in LowerBounds(map, p) : Comparison[r][p] > 0
  <2> DEFINE S == {r \in DOMAIN map : Comparison[r][p] >= 0}
  <2>1. S # {}
    BY <1>1, <1>3 DEF EndIsBound
  <2>2. S \in SUBSET DOMAIN map /\ S \in SUBSET Routes
    BY <1>0
  <2> HIDE DEF S
  <2>3. IsFiniteSet(S)
    BY <1>0, <2>2, FS_Subset, Zenon
  <2>4. PICK r \in S : \A q \in S : ~ Before(q, r)
    BY <2>1, <2>2, <2>3, FirstRoute
  <2>5. r \in DOMAIN map /\ Comparison[r][p] >= 0 /\ Comparison[r][p] > 0
    BY <1>1, <2>2 DEF S
  <2>6. \A q \in Predecessor(map, r) : Comparison[q][p] < 0
    <3>1. \A q \in Predecessor(map, r) : q \in DOMAIN map /\ Before(q, r)
      BY DEF Predecessor
    <3>2. \A q \in Predecessor(map, r) : q \notin S
      BY <2>4, <3>1
    <3> QED
      BY <1>1, <3>1, <3>2 DEF S
  <2> QED
    BY <2>5, <2>6 DEF LowerBounds
<1>4. MapFind(map, p) = {NoAction}
  BY <1>2, <1>3 DEF MapFind
<1>5. Answer(map, p) = {NoAction}
  BY DEF Answer
<1> QED
  BY <1>4, <1>5

\* A search of a map whose routes are apart has one answer.
LEMMA FindAnswers ==
  ASSUME NEW map, Filled(map), AllApart(map), NEW p \in Path
  PROVE  /\ MapFind(map, p) = Answer(map, p)
         /\ \/ Answer(map, p) = {NoAction}
            \/ \E r \in DOMAIN map : /\ p \in Match[r] /\ map[r] # NoAction
                                     /\ Answer(map, p) = {map[r]}
<1>1. CASE \E r \in DOMAIN map : p \in Match[r]
  BY <1>1, FindsTheMatch DEF Filled
<1>2. CASE \A r \in DOMAIN map : p \notin Match[r]
  BY <1>2, FindsNothing
<1> QED
  BY <1>1, <1>2

LEMMA NothingFilled == Filled(<<>>) /\ AllApart(<<>>)
<1>1. DOMAIN <<>> = {}
  OBVIOUS
<1>2. IsFiniteSet({})
  BY FS_EmptySet
<1> QED
  BY <1>1, <1>2 DEF Filled, AllApart

-----------------------------------------------------------------------------
(* The places of the actions.                                            *)

\* TypeOK, place by place.
SiteMapOK(m) == DOMAIN m \subseteq Routes /\ \A r \in DOMAIN m : m[r] \in used
TypeInv ==
  /\ DOMAIN site = Slot
  /\ \A i \in Slot : SiteMapOK(site[i])
  /\ DOMAIN siteMap \subseteq Host
  /\ \A h \in DOMAIN siteMap : DOMAIN siteMap[h] = Slot
  /\ \A h \in DOMAIN siteMap, i \in Slot : SiteMapOK(siteMap[h][i])
  /\ action404 \in used \cup {Default404}
  /\ used \subseteq Action

LEMMA TypeInvIsTypeOK == TypeInv <=> TypeOK
BY DEF TypeInv, TypeOK, SiteMapOK, Maps

Inv == TypeInv /\ OnePlaceEach

LEMMA EmptyMap == \A i \in Slot : DOMAIN EmptySite[i] = {}
BY DEF EmptySite

LEMMA EmptySiteDomain == DOMAIN EmptySite = Slot
BY DEF EmptySite

\* What emplace() leaves: the map it had, or that map and one new route.
LEMMA EmplaceResult ==
  ASSUME NEW map, NEW full \in Pattern, NEW a
  PROVE  LET new == Emplace(map, Route(full), a)
         IN  \/ new = map
             \/ /\ Route(full) \in Routes \ DOMAIN map
                /\ DOMAIN new = DOMAIN map \cup {Route(full)}
                /\ new[Route(full)] = a
                /\ \A r \in DOMAIN map : new[r] = map[r]
BY DEF Emplace, Routes

-----------------------------------------------------------------------------
(* One lemma for each step of Next.                                        *)

LEMMA InitInv == Init => Inv
<1> SUFFICES ASSUME Init PROVE Inv
  OBVIOUS
<1>1. TypeInv
  BY EmptyMap, EmptySiteDomain DEF Init, TypeInv, SiteMapOK
<1>2. OnePlaceEach
  BY DEF Init, OnePlaceEach, OnePlaceInSite, OnePlaceInBinder, SiteOrBinder
<1> QED
  BY <1>1, <1>2 DEF Inv

\* A new action takes one place at most, and one that no action has.
LEMMA AddInv ==
  ASSUME Inv, NEW i \in Slot, NEW full \in Pattern, NEW a \in Action,
         Add(i, full, a)
  PROVE  Inv'
<1> DEFINE r == Route(full)
           new == Emplace(site[i], Route(full), a)
<1>1. /\ a \notin used /\ used' = used \cup {a}
      /\ siteMap' = siteMap /\ action404' = action404
      /\ site' = [site EXCEPT ![i] = new]
  BY DEF Add
<1>2. \/ new = site[i]
      \/ /\ r \in Routes \ DOMAIN site[i]
         /\ DOMAIN new = DOMAIN site[i] \cup {r}
         /\ new[r] = a
         /\ \A q \in DOMAIN site[i] : new[q] = site[i][q]
  BY EmplaceResult, ZenonT(60)
<1>3. /\ DOMAIN site' = Slot
      /\ site'[i] = new
      /\ \A j \in Slot : j # i => site'[j] = site[j]
  BY <1>1 DEF Inv, TypeInv
<1> HIDE DEF new, r
\* Each action of the site is the new one, at the place it was given, or
\* is where it was.
<1>4. \A j \in Slot : \A q \in DOMAIN site'[j] :
        \/ j = i /\ q = r /\ q \in Routes /\ site'[j][q] = a
        \/ q \in DOMAIN site[j] /\ site'[j][q] = site[j][q]
  BY <1>2, <1>3
<1>5. TypeInv'
  <2>1. \A j \in Slot : SiteMapOK(site[j])'
    BY <1>1, <1>4 DEF Inv, TypeInv, SiteMapOK
  <2>2. \A h \in DOMAIN siteMap, j \in Slot : SiteMapOK(siteMap[h][j])'
    BY <1>1 DEF Inv, TypeInv, SiteMapOK
  <2> QED
    BY <1>1, <1>3, <2>1, <2>2 DEF Inv, TypeInv
<1>6. \A j \in Slot, q \in Routes, b \in used :
        InSite(j, q, b)' => InSite(j, q, b)
  BY <1>1, <1>4 DEF InSite
<1>7. \A j \in Slot, q \in Routes : InSite(j, q, a)' => j = i /\ q = r
  BY <1>1, <1>4 DEF InSite, Inv, TypeInv, SiteMapOK
<1>8. \A b : \A h \in Host, j \in Slot, q \in Routes :
        InBinder(h, j, q, b)' <=> InBinder(h, j, q, b)
  BY <1>1 DEF InBinder
<1>9. \A h \in Host, j \in Slot, q \in Routes : ~ InBinder(h, j, q, a)
  BY <1>1 DEF InBinder, Inv, TypeInv, SiteMapOK
<1>10. OnePlaceEach'
  <2>1. OnePlaceInSite'
    BY <1>1, <1>6, <1>7 DEF Inv, OnePlaceEach, OnePlaceInSite
  <2>2. OnePlaceInBinder'
    BY <1>1, <1>8, <1>9 DEF Inv, OnePlaceEach, OnePlaceInBinder
  <2>3. SiteOrBinder'
    BY <1>1, <1>6, <1>8, <1>9 DEF Inv, OnePlaceEach, SiteOrBinder
  <2> QED
    BY <2>1, <2>2, <2>3 DEF OnePlaceEach
<1> QED
  BY <1>5, <1>10 DEF Inv

LEMMA NewSiteInv == ASSUME Inv, NewSite PROVE Inv'
<1>1. \A r, b : \A i \in Slot : ~ InSite(i, r, b)'
  BY EmptyMap DEF NewSite, InSite
<1>2. \A h, i, r, b : InBinder(h, i, r, b)' <=> InBinder(h, i, r, b)
  BY DEF NewSite, InBinder
<1>3. TypeInv'
  BY EmptyMap, EmptySiteDomain DEF NewSite, Inv, TypeInv, SiteMapOK
<1>4. OnePlaceEach'
  BY <1>1, <1>2 DEF NewSite, Inv, OnePlaceEach, OnePlaceInSite,
                    OnePlaceInBinder, SiteOrBinder
<1> QED
  BY <1>3, <1>4 DEF Inv

\* The swap exchanges the places of the site and of one host.
LEMMA AddSiteInv == ASSUME Inv, NEW h \in Host, AddSite(h) PROVE Inv'
<1>1. /\ DOMAIN siteMap' = DOMAIN siteMap \cup {h}
      /\ siteMap'[h] = site
      /\ \A g \in DOMAIN siteMap : g # h => siteMap'[g] = siteMap[g]
      /\ site' = IF h \in DOMAIN siteMap THEN siteMap[h] ELSE EmptySite
      /\ used' = used /\ action404' = action404
  BY DEF AddSite
<1>2. \A r, b : \A i \in Slot : InSite(i, r, b)' => InBinder(h, i, r, b)
  BY <1>1, EmptyMap DEF InSite, InBinder
<1>3. \A i, r, b : InBinder(h, i, r, b)' <=> InSite(i, r, b)
  BY <1>1 DEF InSite, InBinder
<1>4. \A i, r, b : \A g \in Host :
        g # h => (InBinder(g, i, r, b)' <=> InBinder(g, i, r, b))
  BY <1>1 DEF InBinder
<1>5. TypeInv'
  BY <1>1, EmptyMap, EmptySiteDomain DEF Inv, TypeInv, SiteMapOK
<1>6. OnePlaceInSite'
  BY <1>1, <1>2 DEF Inv, OnePlaceEach, OnePlaceInSite, OnePlaceInBinder
<1>7. OnePlaceInBinder'
  BY <1>1, <1>3, <1>4 DEF Inv, OnePlaceEach, OnePlaceInSite,
                          OnePlaceInBinder, SiteOrBinder
<1>8. SiteOrBinder'
  BY <1>1, <1>2, <1>3, <1>4 DEF Inv, OnePlaceEach, OnePlaceInBinder, SiteOrBinder
<1> QED
  BY <1>5, <1>6, <1>7, <1>8 DEF Inv, OnePlaceEach

LEMMA RemSiteInv == ASSUME Inv, NEW h \in Host, RemSite(h) PROVE Inv'
<1>1. /\ h \in DOMAIN siteMap /\ DOMAIN siteMap' = DOMAIN siteMap
      /\ siteMap'[h] = EmptySite
      /\ \A g \in DOMAIN siteMap : g # h => siteMap'[g] = siteMap[g]
      /\ site' = site /\ used' = used /\ action404' = action404
  BY DEF RemSite
<1>2. \A i, r, b : InSite(i, r, b)' <=> InSite(i, r, b)
  BY <1>1 DEF InSite
<1>3. \A r, b : \A g \in Host, i \in Slot :
        InBinder(g, i, r, b)' => InBinder(g, i, r, b)
  BY <1>1, EmptyMap DEF InBinder
<1>4. TypeInv'
  BY <1>1, EmptyMap, EmptySiteDomain DEF Inv, TypeInv, SiteMapOK
<1>5. OnePlaceEach'
  BY <1>1, <1>2, <1>3 DEF Inv, OnePlaceEach, OnePlaceInSite,
                          OnePlaceInBinder, SiteOrBinder
<1> QED
  BY <1>4, <1>5 DEF Inv

LEMMA SetCustome404ActionInv ==
  ASSUME Inv, NEW a \in Action, SetCustome404Action(a) PROVE Inv'
<1>1. /\ a \notin used /\ used' = used \cup {a} /\ action404' = a
      /\ site' = site /\ siteMap' = siteMap
  BY DEF SetCustome404Action
<1>2. \A b : \A i \in Slot, r \in Routes :
        InSite(i, r, b)' <=> InSite(i, r, b) /\ b \in used
  BY <1>1 DEF InSite, Inv, TypeInv, SiteMapOK
<1>3. \A b : \A h \in Host, i \in Slot, r \in Routes :
        InBinder(h, i, r, b)' <=> InBinder(h, i, r, b) /\ b \in used
  BY <1>1 DEF InBinder, Inv, TypeInv, SiteMapOK
<1>4. TypeInv'
  BY <1>1 DEF Inv, TypeInv, SiteMapOK
<1>5. OnePlaceEach'
  <2>1. OnePlaceInSite'
    BY <1>2 DEF Inv, OnePlaceEach, OnePlaceInSite
  <2>2. OnePlaceInBinder'
    <3> SUFFICES ASSUME NEW h \in Host, NEW g \in Host, NEW i \in Slot, NEW j \in Slot,
                        NEW r \in Routes, NEW q \in Routes, NEW b \in used',
                        InBinder(h, i, r, b)', InBinder(g, j, q, b)'
                 PROVE  h = g /\ i = j /\ r = q
      BY DEF OnePlaceInBinder
    <3>1. b \in used /\ InBinder(h, i, r, b) /\ InBinder(g, j, q, b)
      BY <1>3
    <3> QED
      BY <3>1 DEF Inv, OnePlaceEach, OnePlaceInBinder
  <2>3. SiteOrBinder'
    BY <1>2, <1>3 DEF Inv, OnePlaceEach, SiteOrBinder
  <2> QED
    BY <2>1, <2>2, <2>3 DEF OnePlaceEach
<1> QED
  BY <1>4, <1>5 DEF Inv

LEMMA StepInv == Inv /\ [Next]_vars => Inv'
<1> SUFFICES ASSUME Inv, [Next]_vars PROVE Inv'
  OBVIOUS
<1>1. CASE \E i \in Slot, full \in Pattern, a \in Action : Add(i, full, a)
  BY <1>1, AddInv
<1>2. CASE NewSite
  BY <1>2, NewSiteInv
<1>3. CASE \E h \in Host : AddSite(h) \/ RemSite(h)
  BY <1>3, AddSiteInv, RemSiteInv
<1>4. CASE \E a \in Action : SetCustome404Action(a)
  BY <1>4, SetCustome404ActionInv
<1>5. CASE UNCHANGED vars
  BY <1>5 DEF vars, Inv, TypeInv, SiteMapOK, OnePlaceEach, OnePlaceInSite,
              OnePlaceInBinder, SiteOrBinder, InSite, InBinder
<1> QED
  BY <1>1, <1>2, <1>3, <1>4, <1>5 DEF Next

\* Every map has finitely many routes.
FiniteMap(m) == IsFiniteSet(DOMAIN m)
FiniteInv ==
  /\ \A i \in Slot : FiniteMap(site[i])
  /\ \A h \in DOMAIN siteMap, i \in Slot : FiniteMap(siteMap[h][i])

LEMMA FiniteEmptyMap == \A i \in Slot : FiniteMap(EmptySite[i])
BY EmptyMap, FS_EmptySet DEF FiniteMap

LEMMA FiniteInit == Init => FiniteInv
BY FiniteEmptyMap DEF Init, FiniteInv

LEMMA FiniteAdd ==
  ASSUME Inv, FiniteInv, NEW i \in Slot, NEW full \in Pattern, NEW a,
         Add(i, full, a)
  PROVE  FiniteInv'
<1> DEFINE r == Route(full)
           new == Emplace(site[i], Route(full), a)
<1>1. siteMap' = siteMap /\ site' = [site EXCEPT ![i] = new]
  BY DEF Add
<1>2. FiniteMap(new)
  <2>1. new = site[i] \/ DOMAIN new = DOMAIN site[i] \cup {r}
    BY EmplaceResult, ZenonT(60)
  <2>2. IsFiniteSet(DOMAIN site[i])
    BY DEF FiniteInv, FiniteMap
  <2> HIDE DEF new, r
  <2>3. IsFiniteSet(DOMAIN site[i] \cup {r})
    BY <2>2, FS_AddElement, Zenon
  <2> QED
    BY <2>1, <2>2, <2>3 DEF FiniteMap
<1> HIDE DEF new
<1>3. site'[i] = new /\ \A j \in Slot : j # i => site'[j] = site[j]
  BY <1>1 DEF Inv, TypeInv
<1>4. \A j \in Slot : FiniteMap(site'[j])
  BY <1>2, <1>3 DEF FiniteInv
<1> QED
  BY <1>1, <1>4 DEF FiniteInv, FiniteMap

LEMMA FiniteStep == Inv /\ FiniteInv /\ [Next]_vars => FiniteInv'
<1> SUFFICES ASSUME Inv, FiniteInv, [Next]_vars PROVE FiniteInv'
  OBVIOUS
<1>1. CASE \E i \in Slot, full \in Pattern, a \in Action : Add(i, full, a)
  BY <1>1, FiniteAdd
<1>2. CASE NewSite
  BY <1>2, FiniteEmptyMap DEF NewSite, FiniteInv, FiniteMap
<1>3. ASSUME NEW h \in Host, AddSite(h) PROVE FiniteInv'
  <2>1. \A i \in Slot : FiniteMap(site'[i])
    BY <1>3, FiniteEmptyMap DEF AddSite, FiniteInv
  <2>2. \A g \in DOMAIN siteMap', i \in Slot : FiniteMap(siteMap'[g][i])
    BY <1>3 DEF AddSite, FiniteInv
  <2> QED
    BY <2>1, <2>2 DEF FiniteInv, FiniteMap
<1>4. ASSUME NEW h \in Host, RemSite(h) PROVE FiniteInv'
  BY <1>4, FiniteEmptyMap DEF RemSite, FiniteInv, FiniteMap
<1>5. CASE \E a \in Action : SetCustome404Action(a)
  BY <1>5 DEF SetCustome404Action, FiniteInv, FiniteMap
<1>6. CASE UNCHANGED vars
  BY <1>6 DEF vars, FiniteInv, FiniteMap
<1> QED
  BY <1>1, <1>2, <1>3, <1>4, <1>5, <1>6 DEF Next

\* Every map of the site and of the binder is filled.
LEMMA MapsFilled ==
  ASSUME Inv, FiniteInv
  PROVE  /\ \A i \in Slot : Filled(site[i])
         /\ \A h \in DOMAIN siteMap, i \in Slot : Filled(siteMap[h][i])
         /\ \A map \in Maps : Filled(map)
<1>1. ASSUME NEW map, SiteMapOK(map), FiniteMap(map) PROVE Filled(map)
  BY <1>1, SitesAssumption DEF Inv, TypeInv, SiteMapOK, FiniteMap, Filled
<1>2. /\ \A i \in Slot : Filled(site[i])
      /\ \A h \in DOMAIN siteMap, i \in Slot : Filled(siteMap[h][i])
  BY <1>1 DEF Inv, TypeInv, FiniteInv
<1> QED
  BY <1>2 DEF Maps

-----------------------------------------------------------------------------
(* Theorems.                                                               *)

\* The sites and the binder are well formed in every reachable state.
THEOREM SitesTypeCorrect == Spec => []TypeOK
<1>1. Inv => TypeOK
  BY TypeInvIsTypeOK DEF Inv
<1> QED
  BY <1>1, InitInv, StepInv, PTL DEF Spec

\* addSite() and remSite() never leave an action at two places.
THEOREM OnePlace == Spec => []OnePlaceEach
<1>1. Inv => OnePlaceEach
  BY DEF Inv
<1> QED
  BY <1>1, InitInv, StepInv, PTL DEF Spec

-----------------------------------------------------------------------------
(* A search of the binder.                                                 *)

LEMMA Choice ==
  ASSUME NEW X
  PROVE  /\ OrElse({NoAction}, X) = X
         /\ \A a : a # NoAction => OrElse({a}, X) = {a}
BY DEF OrElse

LEMMA LeastIsFirst ==
  ASSUME NEW S \in SUBSET Nat, NEW l \in S, \A j \in S : l <= j
  PROVE  Least(S) = l
<1>1. Least(S) \in S /\ Least(S) <= l
  BY LeastIs
<1>2. l <= Least(S) /\ Least(S) \in Nat /\ l \in Nat
  BY <1>1
<1> QED
  BY <1>1, <1>2

\* A search of one map has one answer.
Single(answer) == answer = {NoAction} \/ \E a : a # NoAction /\ answer = {a}

LEMMA Chosen ==
  ASSUME NEW X, Single(X), X # {NoAction}, NEW Y
  PROVE  OrElse(X, Y) = X
<1>1. PICK a : a # NoAction /\ X = {a}
  BY DEF Single
<1> QED
  BY <1>1, Choice

\* The map of a slot at a host; a host without a site has none.
MapAt(h, slot) == IF h \in DOMAIN siteMap THEN siteMap[h][slot] ELSE <<>>

LEMMA SingleAnswer ==
  ASSUME Inv, FiniteInv, NEW h, NEW slot \in Slot, AllApart(MapAt(h, slot)),
         NEW p \in Path
  PROVE  /\ Single(Answer(MapAt(h, slot), p))
         /\ h \in DOMAIN siteMap =>
              MapFind(siteMap[h][slot], p) = Answer(MapAt(h, slot), p)
         /\ h \notin DOMAIN siteMap => Answer(MapAt(h, slot), p) = {NoAction}
<1>1. Filled(MapAt(h, slot))
  BY MapsFilled, NothingFilled DEF MapAt
<1>2. /\ MapFind(MapAt(h, slot), p) = Answer(MapAt(h, slot), p)
      /\ Single(Answer(MapAt(h, slot), p))
  BY <1>1, FindAnswers DEF Single
<1>3. h \notin DOMAIN siteMap => Answer(MapAt(h, slot), p) = {NoAction}
  <2>1. DOMAIN <<>> = {}
    OBVIOUS
  <2> QED
    BY <2>1 DEF MapAt, Answer
<1> QED
  BY <1>2, <1>3 DEF MapAt

LEMMA SlotIs == \A method \in Method : SlotOf(method) \in Slot /\ "All" \in Slot
BY SitesAssumption DEF SlotOf

LEMMA HostAnswers ==
  ASSUME Inv, FiniteInv, NEW h, NEW method \in Method, NEW p \in Path,
         AllApart(MapAt(h, SlotOf(method))), AllApart(MapAt(h, "All"))
  PROVE  HostFind(h, method, p) =
           OrElse(Answer(MapAt(h, SlotOf(method)), p), Answer(MapAt(h, "All"), p))
<1>1. SlotOf(method) \in Slot /\ "All" \in Slot
  BY SlotIs
<1>2. CASE h \in DOMAIN siteMap
  BY <1>1, <1>2, SingleAnswer DEF HostFind, SiteFind
<1>3. CASE h \notin DOMAIN siteMap
  <2>1. /\ Answer(MapAt(h, SlotOf(method)), p) = {NoAction}
        /\ Answer(MapAt(h, "All"), p) = {NoAction}
    BY <1>1, <1>3, SingleAnswer
  <2> QED
    BY <1>3, <2>1, Choice DEF HostFind
<1> QED
  BY <1>2, <1>3

\* The maps that are searched: those of host "", or those of the host and
\* then those of host "".
LEMMA SearchedIs ==
  ASSUME NEW method, NEW h
  PROVE  LET maps == Searched(method, h)
         IN  /\ maps[1] = MapAt(h, SlotOf(method)) /\ maps[2] = MapAt(h, "All")
             /\ h = AnyHost => DOMAIN maps = 1 .. 2
             /\ h # AnyHost => /\ DOMAIN maps = 1 .. 4
                               /\ maps[3] = MapAt(AnyHost, SlotOf(method))
                               /\ maps[4] = MapAt(AnyHost, "All")
<1> DEFINE slots == <<SlotOf(method), "All">>
           hosts == IF h = AnyHost THEN <<h>> ELSE <<h, AnyHost>>
           maps == [i \in 1 .. 2 * Len(hosts) |->
                      MapAt(hosts[(i + 1) \div 2], slots[((i + 1) % 2) + 1])]
<1>1. Searched(method, h) = maps
  BY DEF Searched, MapAt, SlotOf
<1>2. /\ (1 + 1) \div 2 = 1 /\ ((1 + 1) % 2) + 1 = 1
      /\ (2 + 1) \div 2 = 1 /\ ((2 + 1) % 2) + 1 = 2
      /\ (3 + 1) \div 2 = 2 /\ ((3 + 1) % 2) + 1 = 1
      /\ (4 + 1) \div 2 = 2 /\ ((4 + 1) % 2) + 1 = 2
  OBVIOUS
<1>3. slots[1] = SlotOf(method) /\ slots[2] = "All"
  OBVIOUS
<1>4. /\ hosts[1] = h
      /\ h = AnyHost => 2 * Len(hosts) = 2
      /\ h # AnyHost => 2 * Len(hosts) = 4 /\ hosts[2] = AnyHost
  OBVIOUS
<1>5. /\ 1 \in 1 .. 2 /\ 2 \in 1 .. 2 /\ 1 \in 1 .. 4 /\ 2 \in 1 .. 4
      /\ 3 \in 1 .. 4 /\ 4 \in 1 .. 4
  OBVIOUS
<1> HIDE DEF slots, hosts
<1>6. \A i \in DOMAIN maps : maps[i] = MapAt(hosts[(i + 1) \div 2], slots[((i + 1) % 2) + 1])
  OBVIOUS
<1>7. DOMAIN maps = 1 .. 2 * Len(hosts)
  OBVIOUS
<1> HIDE DEF maps
<1>8. CASE h = AnyHost
  <2>1. DOMAIN maps = 1 .. 2 /\ hosts[1] = h
    BY <1>4, <1>7, <1>8
  <2>2. maps[1] = MapAt(h, SlotOf(method)) /\ maps[2] = MapAt(h, "All")
    BY <1>2, <1>3, <1>5, <1>6, <2>1
  <2> QED
    BY <1>1, <1>8, <2>1, <2>2
<1>9. CASE h # AnyHost
  <2>1. DOMAIN maps = 1 .. 4 /\ hosts[1] = h /\ hosts[2] = AnyHost
    BY <1>4, <1>7, <1>9
  <2>2. maps[1] = MapAt(h, SlotOf(method)) /\ maps[2] = MapAt(h, "All")
    BY <1>2, <1>3, <1>5, <1>6, <2>1
  <2>3. maps[3] = MapAt(AnyHost, SlotOf(method)) /\ maps[4] = MapAt(AnyHost, "All")
    BY <1>2, <1>3, <1>5, <1>6, <2>1
  <2> QED
    BY <1>1, <1>9, <2>1, <2>2, <2>3
<1> QED
  BY <1>8, <1>9

\* The first answer, of two maps or of four.
First(B, with) == IF with = {} THEN {action404} ELSE B[Least(with)]

LEMMA FirstOfTwo ==
  ASSUME NEW B, \A i \in 1 .. 2 : Single(B[i])
  PROVE  OrElse(OrElse(B[1], B[2]), {action404}) =
           First(B, {i \in 1 .. 2 : B[i] # {NoAction}})
<1> DEFINE with == {i \in 1 .. 2 : B[i] # {NoAction}}
<1>0. 1 .. 2 = {1, 2} /\ Single(B[1]) /\ Single(B[2])
  OBVIOUS
<1>1. CASE B[1] # {NoAction}
  <2>1. 1 \in with /\ with \in SUBSET Nat /\ \A j \in with : 1 <= j
    BY <1>1
  <2>2. Least(with) = 1
    <3> HIDE DEF with
    <3> QED
      BY <2>1, LeastIsFirst
  <2>3. First(B, with) = B[1]
    BY <2>1, <2>2 DEF First
  <2> QED
    BY <1>0, <1>1, <2>3, Choice, Chosen
<1>2. CASE B[1] = {NoAction} /\ B[2] # {NoAction}
  <2>1. with = {2} /\ 2 \in with /\ with \in SUBSET Nat /\ \A j \in with : 2 <= j
    BY <1>0, <1>2
  <2>2. Least(with) = 2
    <3> HIDE DEF with
    <3> QED
      BY <2>1, LeastIsFirst
  <2>3. First(B, with) = B[2]
    BY <2>1, <2>2 DEF First
  <2>4. OrElse(B[1], B[2]) = B[2] /\ OrElse(B[2], {action404}) = B[2]
    BY <1>0, <1>2, Choice, Chosen
  <2> QED
    BY <2>3, <2>4
<1>3. CASE B[1] = {NoAction} /\ B[2] = {NoAction}
  <2>1. with = {}
    BY <1>0, <1>3
  <2> QED
    BY <1>3, <2>1, Choice DEF First
<1> QED
  BY <1>1, <1>2, <1>3

LEMMA FirstOfFour ==
  ASSUME NEW B, \A i \in 1 .. 4 : Single(B[i])
  PROVE  OrElse(OrElse(B[1], B[2]), OrElse(OrElse(B[3], B[4]), {action404})) =
           First(B, {i \in 1 .. 4 : B[i] # {NoAction}})
<1> DEFINE with == {i \in 1 .. 4 : B[i] # {NoAction}}
<1>0. /\ 1 .. 4 = {1, 2, 3, 4}
      /\ Single(B[1]) /\ Single(B[2]) /\ Single(B[3]) /\ Single(B[4])
  OBVIOUS
<1>1. ASSUME NEW k \in 1 .. 4, B[k] # {NoAction}, \A j \in 1 .. k - 1 : B[j] = {NoAction}
      PROVE  First(B, with) = B[k]
  <2>1. k \in with /\ with \in SUBSET Nat
    BY <1>1
  <2>2. \A j \in with : k <= j
    BY <1>1
  <2> HIDE DEF with
  <2>3. Least(with) = k
    BY <2>1, <2>2, LeastIsFirst
  <2> QED
    BY <2>1, <2>3 DEF First
<1> HIDE DEF with
<1>2. CASE B[1] # {NoAction}
  <2>1. First(B, with) = B[1]
    BY <1>0, <1>1, <1>2
  <2> QED
    BY <1>0, <1>2, <2>1, Choice, Chosen DEF with
<1>3. CASE B[1] = {NoAction} /\ B[2] # {NoAction}
  <2>1. First(B, with) = B[2]
    <3>1. 2 \in 1 .. 4 /\ \A j \in 1 .. 2 - 1 : j = 1
      OBVIOUS
    <3>2. \A j \in 1 .. 2 - 1 : B[j] = {NoAction}
      BY <1>3, <3>1
    <3> QED
      BY <1>1, <1>3, <3>1, <3>2, Zenon
  <2> QED
    BY <1>0, <1>3, <2>1, Choice, Chosen DEF with
<1>4. CASE B[1] = {NoAction} /\ B[2] = {NoAction} /\ B[3] # {NoAction}
  <2>1. First(B, with) = B[3]
    <3>1. 3 \in 1 .. 4 /\ \A j \in 1 .. 3 - 1 : j = 1 \/ j = 2
      OBVIOUS
    <3>2. \A j \in 1 .. 3 - 1 : B[j] = {NoAction}
      BY <1>4, <3>1
    <3> QED
      BY <1>1, <1>4, <3>1, <3>2, Zenon
  <2>2. OrElse(B[1], B[2]) = {NoAction}
    BY <1>4, Choice
  <2>3. \A X : OrElse(B[3], X) = B[3]
    BY <1>0, <1>4, Chosen
  <2> QED
    BY <2>1, <2>2, <2>3, Choice DEF with
<1>5. CASE B[1] = {NoAction} /\ B[2] = {NoAction} /\ B[3] = {NoAction} /\ B[4] # {NoAction}
  <2>1. First(B, with) = B[4]
    <3>1. 4 \in 1 .. 4 /\ \A j \in 1 .. 4 - 1 : j = 1 \/ j = 2 \/ j = 3
      OBVIOUS
    <3>2. \A j \in 1 .. 4 - 1 : B[j] = {NoAction}
      BY <1>5, <3>1
    <3> QED
      BY <1>1, <1>5, <3>1, <3>2, Zenon
  <2>2. OrElse(B[1], B[2]) = {NoAction} /\ OrElse(B[3], B[4]) = B[4]
    BY <1>5, Choice
  <2>3. \A X : OrElse(B[4], X) = B[4]
    BY <1>0, <1>5, Chosen
  <2> QED
    BY <2>1, <2>2, <2>3, Choice DEF with
<1>6. CASE B[1] = {NoAction} /\ B[2] = {NoAction} /\ B[3] = {NoAction} /\ B[4] = {NoAction}
  <2>1. with = {}
    BY <1>0, <1>6 DEF with
  <2>2. First(B, with) = {action404}
    BY <2>1 DEF First
  <2>3. OrElse(B[1], B[2]) = {NoAction} /\ OrElse(B[3], B[4]) = {NoAction}
    BY <1>6, Choice
  <2>4. OrElse(OrElse(B[1], B[2]), OrElse(OrElse(B[3], B[4]), {action404})) = {action404}
    BY <2>3, Choice
  <2> QED
    BY <2>2, <2>4 DEF with
<1> QED
  BY <1>2, <1>3, <1>4, <1>5, <1>6

FirstAnswer(maps, p) ==
  LET with == {i \in DOMAIN maps : Answer(maps[i], p) # {NoAction}}
  IN  IF with = {} THEN {action404} ELSE Answer(maps[Least(with)], p)

LEMMA FirstAnswers ==
  ASSUME Inv, FiniteInv, NEW method \in Method, NEW h \in Host, NEW p \in Path,
         NEW maps, maps = Searched(method, h),
         \A i \in DOMAIN maps : AllApart(maps[i])
  PROVE  BinderFind(method, h, p) = FirstAnswer(maps, p)
<1> DEFINE B == [i \in DOMAIN maps |-> Answer(maps[i], p)]
           with == {i \in DOMAIN maps : Answer(maps[i], p) # {NoAction}}
<1>1. with = {i \in DOMAIN maps : B[i] # {NoAction}}
  OBVIOUS
<1>2. First(B, with) = FirstAnswer(maps, p)
  <2> SUFFICES ASSUME with # {} PROVE B[Least(with)] = Answer(maps[Least(with)], p)
    BY DEF First, FirstAnswer
  <2>1. with \in SUBSET Nat
    BY SearchedIs
  <2>2. Least(with) \in with
    <3> HIDE DEF with
    <3> QED
      BY <2>1, LeastIs
  <2> QED
    BY <2>2
<1>3. SlotOf(method) \in Slot /\ "All" \in Slot
  BY SlotIs
<1>4. CASE h = AnyHost
  <2>1. /\ DOMAIN maps = 1 .. 2
        /\ maps[1] = MapAt(h, SlotOf(method)) /\ maps[2] = MapAt(h, "All")
    BY <1>4, SearchedIs
  <2>2. 1 \in 1 .. 2 /\ 2 \in 1 .. 2 /\ 1 .. 2 = {1, 2}
    OBVIOUS
  <2>3. AllApart(MapAt(h, SlotOf(method))) /\ AllApart(MapAt(h, "All"))
    BY <2>1, <2>2
  <2>4. B[1] = Answer(MapAt(h, SlotOf(method)), p) /\ B[2] = Answer(MapAt(h, "All"), p)
    BY <2>1, <2>2
  <2>5. HostFind(h, method, p) = OrElse(B[1], B[2])
    BY <2>3, <2>4, HostAnswers
  <2> HIDE DEF B, with
  <2>6. \A i \in 1 .. 2 : Single(B[i])
    BY <1>3, <2>2, <2>3, <2>4, SingleAnswer
  <2>7. BinderFind(method, h, p) = OrElse(OrElse(B[1], B[2]), {action404})
    BY <1>4, <2>5, Choice DEF BinderFind
  <2>8. BinderFind(method, h, p) = First(B, with)
    BY <1>1, <2>1, <2>6, <2>7, FirstOfTwo
  <2> QED
    BY <1>2, <2>8 DEF with
<1>5. CASE h # AnyHost
  <2>1. /\ DOMAIN maps = 1 .. 4
        /\ maps[1] = MapAt(h, SlotOf(method)) /\ maps[2] = MapAt(h, "All")
        /\ maps[3] = MapAt(AnyHost, SlotOf(method)) /\ maps[4] = MapAt(AnyHost, "All")
    BY <1>5, SearchedIs
  <2>2. 1 \in 1 .. 4 /\ 2 \in 1 .. 4 /\ 3 \in 1 .. 4 /\ 4 \in 1 .. 4 /\ 1 .. 4 = {1, 2, 3, 4}
    OBVIOUS
  <2>3. /\ AllApart(MapAt(h, SlotOf(method))) /\ AllApart(MapAt(h, "All"))
        /\ AllApart(MapAt(AnyHost, SlotOf(method))) /\ AllApart(MapAt(AnyHost, "All"))
    BY <2>1, <2>2
  <2>4. /\ B[1] = Answer(MapAt(h, SlotOf(method)), p) /\ B[2] = Answer(MapAt(h, "All"), p)
        /\ B[3] = Answer(MapAt(AnyHost, SlotOf(method)), p)
        /\ B[4] = Answer(MapAt(AnyHost, "All"), p)
    BY <2>1, <2>2
  <2>5. /\ HostFind(h, method, p) = OrElse(B[1], B[2])
        /\ HostFind(AnyHost, method, p) = OrElse(B[3], B[4])
    BY <2>3, <2>4, HostAnswers
  <2> HIDE DEF B, with
  <2>6. \A i \in 1 .. 4 : Single(B[i])
    BY <1>3, <2>2, <2>3, <2>4, SingleAnswer
  <2>7. BinderFind(method, h, p) =
          OrElse(OrElse(B[1], B[2]), OrElse(OrElse(B[3], B[4]), {action404}))
    BY <1>5, <2>5 DEF BinderFind
  <2>8. BinderFind(method, h, p) = First(B, with)
    BY <1>1, <2>1, <2>6, <2>7, FirstOfFour
  <2> QED
    BY <1>2, <2>8 DEF with
<1> QED
  BY <1>4, <1>5

SiteFilled == \A i \in Slot : Filled(site[i])

\* What emplace() adds to a map takes no answer from it.
LEMMA AnswerStays ==
  ASSUME NEW old, NEW new, Filled(old), Filled(new), AllApart(new), NEW p \in Path,
         DOMAIN old \subseteq DOMAIN new, \A r \in DOMAIN old : new[r] = old[r],
         NEW a \in MapFind(old, p) \ {NoAction}
  PROVE  MapFind(new, p) = {a}
<1>1. PICK r \in DOMAIN old : old[r] = a /\ p \in Match[r]
  BY FoundMatches DEF Filled
<1>2. r \in DOMAIN new /\ new[r] = a
  BY <1>1
<1> QED
  BY <1>1, <1>2, FindsTheMatch

LEMMA RegistrationExtends ==
  ASSUME Inv, [Next]_vars, used' # used, NEW i \in Slot
  PROVE  /\ DOMAIN site[i] \subseteq DOMAIN site'[i]
         /\ \A r \in DOMAIN site[i] : site'[i][r] = site[i][r]
<1>1. ASSUME NEW j \in Slot, NEW full \in Pattern, NEW a, Add(j, full, a)
      PROVE  /\ DOMAIN site[i] \subseteq DOMAIN site'[i]
             /\ \A r \in DOMAIN site[i] : site'[i][r] = site[i][r]
  <2> DEFINE r == Route(full)
             new == Emplace(site[j], Route(full), a)
  <2>1. site' = [site EXCEPT ![j] = new]
    BY <1>1 DEF Add
  <2>2. DOMAIN site[j] \subseteq DOMAIN new /\ \A q \in DOMAIN site[j] : new[q] = site[j][q]
    <3>1. \/ new = site[j]
          \/ /\ r \in Routes \ DOMAIN site[j]
             /\ DOMAIN new = DOMAIN site[j] \cup {r}
             /\ new[r] = a
             /\ \A q \in DOMAIN site[j] : new[q] = site[j][q]
      BY EmplaceResult, ZenonT(60)
    <3> HIDE DEF new, r
    <3> QED
      BY <3>1
  <2> HIDE DEF new
  <2> QED
    BY <2>1, <2>2 DEF Inv, TypeInv
<1>2. ASSUME NEW a, SetCustome404Action(a)
      PROVE  /\ DOMAIN site[i] \subseteq DOMAIN site'[i]
             /\ \A r \in DOMAIN site[i] : site'[i][r] = site[i][r]
  BY <1>2 DEF SetCustome404Action
<1>3. ~ NewSite /\ ~ UNCHANGED vars /\ \A h \in Host : ~ AddSite(h) /\ ~ RemSite(h)
  BY DEF NewSite, AddSite, RemSite, vars
<1> QED
  BY <1>1, <1>2, <1>3 DEF Next

-----------------------------------------------------------------------------
(* Theorems about searches.                                                *)

\* What a search of a map finds is the action of a route that matches the
\* path, whatever the routes are and in whatever tree the map keeps them.
THEOREM FoundMatchesAlways == Spec => []FoundRouteMatches
<1>1. Inv => FoundRouteMatches
  <2> SUFFICES ASSUME Inv, NEW map \in Maps, NEW p \in Path,
                      NEW a \in MapFind(map, p) \ {NoAction}
               PROVE  \E r \in DOMAIN map : map[r] = a /\ p \in Match[r]
    BY DEF FoundRouteMatches
  <2>1. DOMAIN map \subseteq Routes
    BY DEF Inv, TypeInv, SiteMapOK, Maps
  <2> QED
    BY <2>1, FoundMatches
<1> QED
  BY <1>1, InitInv, StepInv, PTL DEF Spec

\* Among routes that are apart a search finds the one that matches, and
\* nothing only if none does.
THEOREM FindExact == Spec => []FindIsExact
<1>1. Inv /\ FiniteInv => FindIsExact
  BY MapsFilled, FindAnswers DEF FindIsExact
<1> QED
  BY <1>1, InitInv, StepInv, FiniteInit, FiniteStep, PTL DEF Spec

\* Binder::find() answers with the first match in the order of hosts and
\* methods, and with the action for 404 only if nothing matches.
THEOREM FirstMatch == Spec => []FirstMatchAnswers
<1>1. Inv /\ FiniteInv => FirstMatchAnswers
  <2> SUFFICES ASSUME Inv, FiniteInv, NEW method \in Method, NEW h \in Host,
                      \A i \in DOMAIN Searched(method, h) :
                        AllApart(Searched(method, h)[i]),
                      NEW p \in Path
               PROVE  BinderFind(method, h, p) = FirstAnswer(Searched(method, h), p)
    BY Zenon DEF FirstMatchAnswers, FirstAnswer
  <2> DEFINE maps == Searched(method, h)
  <2>1. maps = Searched(method, h) /\ \A i \in DOMAIN maps : AllApart(maps[i])
    OBVIOUS
  <2> HIDE DEF maps
  <2>2. BinderFind(method, h, p) = FirstAnswer(maps, p)
    BY <2>1, FirstAnswers
  <2> QED
    BY <2>2 DEF maps
<1> QED
  BY <1>1, InitInv, StepInv, FiniteInit, FiniteStep, PTL DEF Spec

\* A registration takes no answer away from a site whose routes are apart.
THEOREM AnswersKept == Spec => AnswersStay
<1>1. Inv /\ FiniteInv => SiteFilled
  BY MapsFilled DEF SiteFilled
<1>2. ASSUME Inv, SiteFilled, SiteFilled', [Next]_vars, used' # used
      PROVE  \A i \in Slot : AllApart(site'[i]) =>
               \A p \in Path : \A a \in MapFind(site[i], p) \ {NoAction} :
                 MapFind(site'[i], p) = {a}
  BY <1>2, RegistrationExtends, AnswerStays DEF SiteFilled
<1> QED
  BY <1>1, <1>2, InitInv, StepInv, FiniteInit, FiniteStep, PTL DEF Spec, AnswersStay

=============================================================================
