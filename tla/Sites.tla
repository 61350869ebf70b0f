------------------------------- MODULE Sites -------------------------------
(***************************************************************************)
(* Express/HTTP: how a request finds its action.  A program fills a Site   *)
(* with actions, each for a method and a route (Binder.cpp), and moves it  *)
(* into the Binder under its host.  Binder::find() searches the site of    *)
(* the request's host and then the site of host "", first the actions of   *)
(* the method, then those of every method.                                 *)
(*                                                                         *)
(* A Site keeps its actions in std::map<Route, Action, RouteTester>.  The  *)
(* map is ordered by Route::operator<, and searched for a path with        *)
(* Route::compare() (Route.cpp): two orders, which agree only if no route  *)
(* gets in the way of another (Apart, below).  Text is a sequence of       *)
(* characters, and a character its code, because the properties are about  *)
(* how these orders compare characters.                                    *)
(***************************************************************************)
EXTENDS Integers, Sequences

\* Nothing refers to a definition whose comment begins with "Mutation": it is
\* what a plausible mistake would make of the definition that follows.

CONSTANTS Pattern,    \* what routes are made of, such as "/a/:id/b"
          Path,       \* paths of requests
          Slot,       \* the maps of Site::actionMap: one for each method, and
                      \* one for all(), but none for HEAD
          Method,
          Host,
          Action, NoAction,
          Default404  \* getDefault404Action()

Slash == 47
Colon == 58
AnyHost == ""
Npos == 0  \* std::string::npos, where characters are counted from 1

ASSUME SitesAssumption ==
  /\ Pattern \subseteq Seq(Nat) /\ \A p \in Pattern : p # <<>> /\ p[1] = Slash
  /\ Path \subseteq Seq(Nat) /\ \A p \in Path : p # <<>>
  /\ {"Get", "All"} \subseteq Slot /\ Method \subseteq Slot \cup {"Head"}
  /\ AnyHost \in Host
  /\ NoAction \notin Action \cup {Default404}
  /\ Default404 \notin Action

-----------------------------------------------------------------------------
(* Routes.                                                                 *)

Least(S) == CHOOSE i \in S : \A j \in S : i <= j

\* std::string::find(c, from)
FindChar(text, c, from) ==
  LET at == {i \in from .. Len(text) : text[i] = c}
  IN  IF at = {} THEN Npos ELSE Least(at)

\* std::string_view::substr(from, n)
Substr(text, from, n) ==
  SubSeq(text, from, IF from + n - 1 < Len(text) THEN from + n - 1 ELSE Len(text))

\* std::string_view::compare(): negative, zero or positive.
CompareText(s, t) ==
  LET differ == {i \in 1 .. Len(s) : i <= Len(t) /\ s[i] # t[i]}
  IN  IF differ = {} THEN Len(s) - Len(t)
      ELSE s[Least(differ)] - t[Least(differ)]

\* A route that Route's constructor refuses: it throws.
Invalid == <<>>

\* Route::Route(): the fixed parts of a route (Route::route).  A name runs
\* from ':' to the next '/', and its text is used nowhere; there are as many
\* names as there are fixed parts but one.  A ':' that does not follow '/'
\* throws runtime_error, and so does, in substr(npos), a name that no '/'
\* follows (out_of_range).
Route(full) ==
  LET parts[start \in 1 .. Len(full)] ==
        LET colon == FindChar(full, Colon, start)
            next  == FindChar(full, Slash, colon)
        IN  IF colon = Npos THEN <<Substr(full, start, Len(full))>>
            ELSE IF full[colon - 1] # Slash \/ next = Npos THEN Invalid
            ELSE IF parts[next] = Invalid THEN Invalid
            ELSE <<Substr(full, start, colon - start)>> \o parts[next]
  IN  parts[1]

Routes == {Route(full) : full \in Pattern} \ {Invalid}

\* Route::operator<(Route const&)
Before(lhs, rhs) ==
  LET differ == {i \in 1 .. Len(lhs) : i <= Len(rhs) /\ lhs[i] # rhs[i]}
  IN  IF differ = {} THEN Len(lhs) < Len(rhs)
      ELSE CompareText(lhs[Least(differ)], rhs[Least(differ)]) < 0

\* Mutation: a name may be empty.
NameEndAtOnce(path, start) ==
  LET slash == FindChar(path, Slash, start)
  IN  IF slash = Npos THEN Len(path) + 1 ELSE slash

\* Where a name that begins at start is over: the first '/' beyond its first
\* character.
NameEnd(path, start) ==
  LET slash == FindChar(path, Slash, start + 1)
  IN  IF slash = Npos THEN Len(path) + 1 ELSE slash

\* Route::compare(): negative if the route comes before the path, zero if it
\* matches.  The fixed parts from i on are compared with the path from start.
Compare(route, path) ==
  LET from[i \in 1 .. Len(route) + 1] == [start \in 1 .. Len(path) + 1 |->
        IF i > Len(route) THEN start - 1 - Len(path)
        ELSE LET test  == CompareText(route[i], Substr(path, start, Len(route[i])))
                 after == start + Len(route[i])
             IN  CASE test # 0 -> test
                   [] test = 0 /\ after > Len(path) ->
                        IF i = Len(route) THEN 0 ELSE -1
                   [] test = 0 /\ after <= Len(path) /\ path[after - 1] # Slash -> 1
                   [] OTHER -> from[i + 1][NameEnd(path, after)]]
  IN  from[1][1]

\* The comparison of every route with every path, in one table.
Comparison == [r \in Routes |-> [p \in Path |-> Compare(r, p)]]

-----------------------------------------------------------------------------
(* std::map<Route, Action, RouteTester>: a function from routes.           *)

\* The route before r in the map, if there is one.
Predecessor(map, r) ==
  {q \in DOMAIN map :
     /\ Before(q, r)
     /\ \A s \in DOMAIN map : ~ (Before(q, s) /\ Before(s, r))}

\* std::map::lower_bound(path), a search of the map's tree for the first
\* route that is not less than the path.  The two orders may disagree: then
\* the answer depends on the shape of the tree, and is any route that is not
\* less than the path and whose predecessor is.
LowerBounds(map, path) ==
  {r \in DOMAIN map :
     /\ Comparison[r][path] >= 0
     /\ \A q \in Predecessor(map, r) : Comparison[q][path] < 0}

\* The answer may be end(): the last route, if any, is less than the path.
EndIsBound(map, path) ==
  \A r \in DOMAIN map :
    (\A q \in DOMAIN map : ~ Before(r, q)) => Comparison[r][path] < 0

\* Mutation: whatever lower_bound() finds.
MapLowerBound(map, path) ==
  {map[r] : r \in LowerBounds(map, path)}
  \cup (IF EndIsBound(map, path) THEN {NoAction} ELSE {})

\* std::map::find(path): the actions that the search may find, NoAction if
\* it may find none.  It finds the lower bound unless the path is less.
MapFind(map, path) ==
  {map[r] : r \in {q \in LowerBounds(map, path) : Comparison[q][path] <= 0}}
  \cup (IF \/ EndIsBound(map, path)
           \/ \E r \in LowerBounds(map, path) : Comparison[r][path] > 0
        THEN {NoAction} ELSE {})

\* Mutation: the route of a pattern that throws is kept.
EmplaceAny(map, route, a) ==
  IF route \in DOMAIN map THEN map
  ELSE [r \in DOMAIN map \cup {route} |-> IF r = route THEN a ELSE map[r]]

\* Mutation: map[route] = action
Assign(map, route, a) ==
  IF route = Invalid THEN map
  ELSE [r \in DOMAIN map \cup {route} |-> IF r = route THEN a ELSE map[r]]

\* std::map::emplace(): the first action of a route stays.  If the route
\* throws the map is as it was.
Emplace(map, route, a) ==
  IF route = Invalid \/ route \in DOMAIN map THEN map
  ELSE [r \in DOMAIN map \cup {route} |-> IF r = route THEN a ELSE map[r]]

-----------------------------------------------------------------------------
(* Sites and the Binder.                                                   *)

EmptySite == [i \in Slot |-> <<>>]

VARIABLES site,       \* the Site that a program is filling
          siteMap,    \* Binder::siteMap
          action404,  \* Binder::action404
          used        \* history: every registration has an action of its own

vars == <<site, siteMap, action404, used>>

Init ==
  /\ site = EmptySite
  /\ siteMap = [h \in {} |-> EmptySite]
  /\ action404 = Default404
  /\ used = {}

\* Site::get(), put(), del(), post() and all()
Add(i, full, a) ==
  /\ a \notin used
  /\ site' = [site EXCEPT ![i] = Emplace(@, Route(full), a)]
  /\ used' = used \cup {a}
  /\ UNCHANGED <<siteMap, action404>>

\* The program goes on with another Site; the one it had is destroyed.
NewSite ==
  /\ site # EmptySite
  /\ site' = EmptySite
  /\ UNCHANGED <<siteMap, action404, used>>

\* Mutation: the site is copied.
AddSiteCopy(h) ==
  /\ siteMap' = [g \in DOMAIN siteMap \cup {h} |->
                   IF g = h THEN site ELSE siteMap[g]]
  /\ UNCHANGED <<site, action404, used>>

\* Binder::addSite(): Site::operator=(Site&&) is a swap, so the program is
\* left with the site that it replaces.
AddSite(h) ==
  /\ siteMap' = [g \in DOMAIN siteMap \cup {h} |->
                   IF g = h THEN site ELSE siteMap[g]]
  /\ site' = IF h \in DOMAIN siteMap THEN siteMap[h] ELSE EmptySite
  /\ UNCHANGED <<action404, used>>

\* Binder::remSite(): the host stays, with a site that has no actions.
RemSite(h) ==
  /\ h \in DOMAIN siteMap
  /\ siteMap' = [siteMap EXCEPT ![h] = EmptySite]
  /\ UNCHANGED <<site, action404, used>>

\* Binder::setCustome404Action()
SetCustome404Action(a) ==
  /\ a \notin used
  /\ action404' = a
  /\ used' = used \cup {a}
  /\ UNCHANGED <<site, siteMap>>

Next ==
  \/ \E i \in Slot, full \in Pattern, a \in Action : Add(i, full, a)
  \/ NewSite
  \/ \E h \in Host : AddSite(h) \/ RemSite(h)
  \/ \E a \in Action : SetCustome404Action(a)

Spec == Init /\ [][Next]_vars

-----------------------------------------------------------------------------
(* Searching: the set of the actions that a search may return.             *)

\* The second search is for what the first did not find.
OrElse(first, second) ==
  (first \ {NoAction}) \cup (IF NoAction \in first THEN second ELSE {})

\* Mutation: HEAD is a method like the others.
OwnSlot(method) == IF method = "Head" THEN "All" ELSE method

SlotOf(method) == IF method = "Head" THEN "Get" ELSE method

\* Site::find()
SiteFind(s, method, path) ==
  OrElse(MapFind(s[SlotOf(method)], path), MapFind(s["All"], path))

\* The part of Binder::find() that is about one host.
HostFind(h, method, path) ==
  IF h \in DOMAIN siteMap THEN SiteFind(siteMap[h], method, path) ELSE {NoAction}

\* Mutation: the site of the host hides the site of host "".
BinderFindHost(method, h, path) ==
  IF h \in DOMAIN siteMap THEN OrElse(HostFind(h, method, path), {action404})
  ELSE OrElse(HostFind(AnyHost, method, path), {action404})

\* Binder::find()
BinderFind(method, h, path) ==
  OrElse(IF h # AnyHost THEN HostFind(h, method, path) ELSE {NoAction},
         OrElse(HostFind(AnyHost, method, path), {action404}))

-----------------------------------------------------------------------------
(* What a route should match, from Route.h: the fixed parts in their order,*)
(* and between two of them any text that is one segment of the path.  A    *)
(* route that ends in '/' also matches one segment more.                   *)

IsName(text) ==
  text # <<>> /\ \A i \in 2 .. Len(text) : text[i] # Slash

\* end says where in the path each fixed part of the route ends.
IsCut(route, path, end) ==
  /\ end[1] = Len(route[1])
  /\ \A i \in 1 .. Len(route) :
       /\ end[i] >= Len(route[i])
       /\ SubSeq(path, end[i] - Len(route[i]) + 1, end[i]) = route[i]
  /\ \A i \in 2 .. Len(route) :
       IsName(SubSeq(path, end[i - 1] + 1, end[i] - Len(route[i])))
  /\ LET last == route[Len(route)]
         rest == SubSeq(path, end[Len(route)] + 1, Len(path))
     IN  rest = <<>> \/ (last[Len(last)] = Slash /\ IsName(rest))

Matches(route, path) ==
  \E end \in [1 .. Len(route) -> 1 .. Len(path)] : IsCut(route, path, end)

\* The paths that each route should match, in one table.
Match == [r \in Routes |-> {p \in Path : Matches(r, p)}]

\* One text begins with the other.
Begins(s, t) == \A i \in 1 .. Len(s) : i <= Len(t) => s[i] = t[i]

\* The first fixed parts in which two routes differ tell them apart: neither
\* begins with the other.  "/a" and "/ab" are not apart, nor are "/a/:x/c"
\* and "/a/b".
Apart(r, q) ==
  \E i \in 1 .. Len(r) :
    /\ i <= Len(q) /\ ~ Begins(r[i], q[i])
    /\ \A j \in 1 .. i - 1 : r[j] = q[j]

AllApart(map) == \A r, q \in DOMAIN map : r = q \/ Apart(r, q)

Maps == {site[i] : i \in Slot}
        \cup UNION {{siteMap[h][i] : i \in Slot} : h \in DOMAIN siteMap}

\* The action of the route that should match.
Answer(map, path) ==
  LET matching == {r \in DOMAIN map : path \in Match[r]}
  IN  {map[r] : r \in matching} \cup (IF matching = {} THEN {NoAction} ELSE {})

-----------------------------------------------------------------------------
(* Properties.                                                             *)

TypeOK ==
  /\ DOMAIN site = Slot
  /\ DOMAIN siteMap \subseteq Host
  /\ \A h \in DOMAIN siteMap : DOMAIN siteMap[h] = Slot
  /\ \A map \in Maps : DOMAIN map \subseteq Routes /\ \A r \in DOMAIN map : map[r] \in used
  /\ action404 \in used \cup {Default404}
  /\ used \subseteq Action

\* Whatever else a map holds, and whatever tree it keeps it in, the action
\* that a search finds is that of a route that matches the path.
FoundRouteMatches ==
  \A map \in Maps, p \in Path : \A a \in MapFind(map, p) \ {NoAction} :
    \E r \in DOMAIN map : map[r] = a /\ p \in Match[r]

\* If the routes of a map are apart, the order of the map and the comparison
\* with a path agree: a search finds the one route that matches, or nothing
\* if none does, in any tree.
FindIsExact ==
  \A map \in Maps : AllApart(map) =>
    \A p \in Path : MapFind(map, p) = Answer(map, p)

\* A request gets the first action that matches it, in the order: its host
\* and method, its host and every method, host "" and its method, host ""
\* and every method; and only then the action for 404.
Searched(method, h) ==
  LET hosts == IF h = AnyHost THEN <<h>> ELSE <<h, AnyHost>>
      slots == <<IF method = "Head" THEN "Get" ELSE method, "All">>
  IN  [i \in 1 .. 2 * Len(hosts) |->
         LET g == hosts[(i + 1) \div 2]
         IN  IF g \in DOMAIN siteMap
             THEN siteMap[g][slots[((i + 1) % 2) + 1]] ELSE <<>>]

FirstMatchAnswers ==
  \A method \in Method, h \in Host :
    LET maps == Searched(method, h)
    IN  (\A i \in DOMAIN maps : AllApart(maps[i])) =>
          \A p \in Path :
            LET with == {i \in DOMAIN maps : Answer(maps[i], p) # {NoAction}}
            IN  BinderFind(method, h, p) = IF with = {} THEN {action404}
                                           ELSE Answer(maps[Least(with)], p)

\* Binding a site moves it: no action answers at two places, or for two
\* routes, however sites are bound, replaced, bound again and removed.
InSite(i, r, a) == r \in DOMAIN site[i] /\ site[i][r] = a
InBinder(h, i, r, a) ==
  h \in DOMAIN siteMap /\ r \in DOMAIN siteMap[h][i] /\ siteMap[h][i][r] = a

OnePlaceInSite ==
  \A i, j \in Slot, r, q \in Routes, a \in used :
    InSite(i, r, a) /\ InSite(j, q, a) => i = j /\ r = q
OnePlaceInBinder ==
  \A h, g \in Host, i, j \in Slot, r, q \in Routes, a \in used :
    InBinder(h, i, r, a) /\ InBinder(g, j, q, a) => h = g /\ i = j /\ r = q
SiteOrBinder ==
  \A h \in Host, i, j \in Slot, r, q \in Routes, a \in used :
    ~ (InSite(i, r, a) /\ InBinder(h, j, q, a))

OnePlaceEach == OnePlaceInSite /\ OnePlaceInBinder /\ SiteOrBinder

\* A registration takes no answer away from a site whose routes are apart:
\* not by the same route registered again, nor by another that shares
\* fixed parts with it.
AnswersStay ==
  [][used' # used =>
       \A i \in Slot : AllApart(site'[i]) =>
         \A p \in Path : \A a \in MapFind(site[i], p) \ {NoAction} :
           MapFind(site'[i], p) = {a}]_vars

=============================================================================
