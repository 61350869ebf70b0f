----------------------------- MODULE SiteLoader -----------------------------
(***************************************************************************)
(* Express/HTTP: the sites a running server gains and loses.  A site is the*)
(* set of actions a shared library registers for a host; the Binder of a   *)
(* port finds the action of a request (Binder.cpp), DynamicSiteLoader loads*)
(* and unloads the libraries (DynamicSiteLoader.cpp) on the orders that    *)
(* DeveloperHandler or main() passes on (DeveloperHandler.cpp,             *)
(* NodeCXX.cpp), and ReadRequestHandler runs the actions (HTTPProtocol.cpp)*)
(*                                                                         *)
(* An action is a coroutine's code: it may suspend, and orders be carried  *)
(* out, while it is at work.  load() and unload() do not suspend.          *)
(***************************************************************************)
EXTENDS Integers, FiniteSets

\* Nothing refers to a definition whose comment begins with "Mutation": it is
\* what a plausible mistake would make of the definition that follows.

CONSTANTS Lib,           \* shared libraries, that is handles of dlopen()
          NoLib,
          Port, Host, Base,
          FailingPorts,  \* ports on which listenOn() may throw
          NoSite,
          Call,          \* requests that are in their action at one time
          MaxOpens       \* bound: dlopen() not yet undone by dlclose()

\* An entry of DynamicSiteLoader::siteMap, and the site that its Binder
\* keeps for it: Binder::siteMap has no bases.
Key  == Port \X Host \X Base
Site == Port \X Host
SiteOf(k) == <<k[1], k[2]>>

ASSUME ConstantsAssumption ==
  /\ NoLib \notin Lib
  /\ NoSite \notin Site
  /\ IsFiniteSet(Key)
  /\ IsFiniteSet(Call)
  /\ FailingPorts \subseteq Port
  /\ MaxOpens \in Nat

VARIABLES
  siteMap,      \* DynamicSiteLoader::siteMap, NoLib where it has no entry
  libCount,     \* DynamicSiteLoader::libCount
  portMap,      \* the ports for which DynamicSiteLoader::portMap has a Binder
  listening,    \* the ports Server::listenOn() was called for
  actionMap,    \* Site::actionMap: the library of the actions, if any
  activeItems,  \* Site::activeItems
  opened,       \* dynamic linker: references to a library
  callSite,     \* the site whose activeItems a running action refers to
  callLib,      \* the library of a running action's code
  accepted      \* history: keys that load() said it had loaded

loaderVars == <<siteMap, libCount, portMap, listening, opened, accepted>>
callVars   == <<callSite, callLib>>
vars == <<loaderVars, actionMap, activeItems, callVars>>

Init ==
  /\ siteMap = [k \in Key |-> NoLib]
  /\ libCount = [l \in Lib |-> 0]
  /\ portMap = {}
  /\ listening = {}
  /\ actionMap = [s \in Site |-> NoLib]
  /\ activeItems = [s \in Site |-> 0]
  /\ opened = [l \in Lib |-> 0]
  /\ callSite = [c \in Call |-> NoSite]
  /\ callLib = [c \in Call |-> NoLib]
  /\ accepted = {}

-----------------------------------------------------------------------------
(* Requests.                                                               *)

\* ReadRequestHandler: Binder::find() returns the action of a site of this
\* port (of the request's host, or of host ""), wrapped to count its calls,
\* and the action starts.
CallStarts(c, s) ==
  /\ callSite[c] = NoSite
  /\ s[1] \in listening
  /\ actionMap[s] # NoLib
  /\ callSite' = [callSite EXCEPT ![c] = s]
  /\ callLib' = [callLib EXCEPT ![c] = actionMap[s]]
  /\ activeItems' = [activeItems EXCEPT ![s] = @ + 1]
  /\ UNCHANGED <<loaderVars, actionMap>>

\* The action returns or throws: ~IncDecRaii.
CallEnds(c) ==
  /\ callSite[c] # NoSite
  /\ activeItems' = [activeItems EXCEPT ![callSite[c]] = @ - 1]
  /\ callSite' = [callSite EXCEPT ![c] = NoSite]
  /\ callLib' = [callLib EXCEPT ![c] = NoLib]
  /\ UNCHANGED <<loaderVars, actionMap>>

-----------------------------------------------------------------------------
(* DynamicSiteLoader::load().                                              *)

\* Mutation: read after the Binder was created.
PortMappedLate(p) == TRUE

\* portMapped, which load() reads before it creates the port's Binder.
PortMapped(p) == p \in portMap

\* dlopen(): every load adds a reference.
DlOpen(l) ==
  /\ opened[l] < MaxOpens
  /\ opened' = [opened EXCEPT ![l] = @ + 1]

\* Binder::addSite(): base is ignored, and the move assignment swaps the
\* site with the new one, whose activeItems is 0.
AddSite(s, l) ==
  /\ actionMap' = [actionMap EXCEPT ![s] = l]
  /\ activeItems' = [activeItems EXCEPT ![s] = 0]

\* The steps load() takes before it makes the port listen.
BindSite(k, l) ==
  /\ siteMap[k] = NoLib
  /\ DlOpen(l)
  /\ siteMap' = [siteMap EXCEPT ![k] = l]
  /\ portMap' = portMap \cup {k[1]}
  /\ AddSite(SiteOf(k), l)

\* load() returns (true, n).
Load(k, l) ==
  /\ BindSite(k, l)
  /\ listening' = IF PortMapped(k[1]) THEN listening
                                      ELSE listening \cup {k[1]}
  /\ libCount' = [libCount EXCEPT ![l] = @ + 1]
  /\ accepted' = accepted \cup {k}
  /\ UNCHANGED callVars

\* listenOn() throws, and so does load().
LoadCannotListen(k, l) ==
  /\ k[1] \in FailingPorts
  /\ ~PortMapped(k[1])
  /\ BindSite(k, l)
  /\ UNCHANGED <<libCount, listening, accepted, callVars>>

\* Mutation: the error path closes the library, also when dlopen() failed.
LoadClosesOnError(k, l) ==
  /\ siteMap[k] = NoLib
  /\ opened' = [opened EXCEPT ![l] = @ - 1]
  /\ UNCHANGED <<siteMap, libCount, portMap, listening, accepted, actionMap,
                 activeItems, callVars>>

\* The library has no getSiteAdder(), or one that returns null: load() throws.
LoadHasNoSite(k, l) ==
  /\ siteMap[k] = NoLib
  /\ DlOpen(l)
  /\ UNCHANGED <<siteMap, libCount, portMap, listening, accepted, actionMap,
                 activeItems, callVars>>

-----------------------------------------------------------------------------
(* DynamicSiteLoader::unload().                                            *)

\* Mutation: the actions are copied out.
RemainingActions(s) == actionMap

\* Binder::remSite(): the site's actions are moved out and destroyed.
ActionsRemoved(s) == [actionMap EXCEPT ![s] = NoLib]

\* Mutation: activeItems is left at 0.
CountLost(s) == [activeItems EXCEPT ![s] = 0]

\* Binder::remSite(): moving the site out has set its activeItems to 0; the
\* number of the calls that are still at work is put back.
CountKept(s) == activeItems

RemSite(s) == /\ actionMap' = ActionsRemoved(s)
              /\ activeItems' = CountKept(s)

\* Mutation: the test for active calls is left out.
NeverBusy(s) == FALSE

\* remSite() reported active calls.
Busy(s) == activeItems[s] # 0

\* unload() returns (true, n, _) with n # 0: the site is disabled, and the
\* order has to be repeated.
UnloadWaits(k) ==
  /\ siteMap[k] # NoLib
  /\ Busy(SiteOf(k))
  /\ RemSite(SiteOf(k))
  /\ accepted' = accepted \ {k}
  /\ UNCHANGED <<siteMap, libCount, portMap, listening, opened, callVars>>

\* The site goes, and its library loses one site.
EraseSite(k) ==
  /\ siteMap[k] # NoLib
  /\ ~Busy(SiteOf(k))
  /\ RemSite(SiteOf(k))
  /\ siteMap' = [siteMap EXCEPT ![k] = NoLib]
  /\ libCount' = [libCount EXCEPT ![siteMap[k]] = @ - 1]
  /\ accepted' = accepted \ {k}
  /\ UNCHANGED <<portMap, listening, callVars>>

\* unload() returns (true, 0, n) with n # 0: the library is still in use.
UnloadKeepsLib(k) ==
  /\ EraseSite(k)
  /\ libCount'[siteMap[k]] # 0
  /\ UNCHANGED opened

\* dlclose() of a library without sites, which may fail: unload() throws.
UnloadClosesLib(k, result) ==
  /\ EraseSite(k)
  /\ libCount'[siteMap[k]] = 0
  /\ opened' = IF result = 0 THEN [opened EXCEPT ![siteMap[k]] = @ - 1]
                             ELSE opened

-----------------------------------------------------------------------------

Next ==
  \/ \E c \in Call, s \in Site : CallStarts(c, s)
  \/ \E c \in Call : CallEnds(c)
  \/ \E k \in Key, l \in Lib : \/ Load(k, l)
                               \/ LoadCannotListen(k, l)
                               \/ LoadHasNoSite(k, l)
  \/ \E k \in Key : UnloadWaits(k) \/ UnloadKeepsLib(k)
  \/ \E k \in Key, result \in {0, -1} : UnloadClosesLib(k, result)

Spec == Init /\ [][Next]_vars

\* Every action returns: a client that stalls is the concern of the action.
Fairness == \A c \in Call : WF_vars(CallEnds(c))

FairSpec == Spec /\ Fairness

-----------------------------------------------------------------------------
(* Properties.  They hold while every site of a port has a host of its own.*)

OneBase == \E b : Base = {b}

\* The types of the variables.
TypeOK ==
  /\ siteMap \in [Key -> Lib \cup {NoLib}]
  /\ libCount \in [Lib -> Int]
  /\ portMap \subseteq Port
  /\ listening \subseteq Port
  /\ actionMap \in [Site -> Lib \cup {NoLib}]
  /\ activeItems \in [Site -> Int]
  /\ opened \in [Lib -> Nat]
  /\ callSite \in [Call -> Site \cup {NoSite}]
  /\ callLib \in [Call -> Lib \cup {NoLib}]
  /\ accepted \subseteq Key

\* The code of an action that has suspended is in memory when it continues,
\* whatever orders were carried out in between.
CalledIsMapped ==
  \A c \in Call : callSite[c] # NoSite => callLib[c] \in Lib
                                          /\ opened[callLib[c]] > 0

CallsOf(s) == {c \in Call : callSite[c] = s}

\* activeItems, which decides if a library may be closed, is the number of
\* the site's actions that are at work, also after the site was disabled,
\* unloaded and loaded again.
CountIsExact == \A s \in Site : activeItems[s] = Cardinality(CallsOf(s))

\* A site that load() said it had loaded answers requests, with the actions
\* of its own library, until it is unloaded.
AcceptedIsServed ==
  \A k \in accepted : k[1] \notin FailingPorts =>
                        /\ k[1] \in listening
                        /\ siteMap[k] # NoLib
                        /\ actionMap[SiteOf(k)] = siteMap[k]

SitesOf(l) == {k \in Key : siteMap[k] = l}

\* DeveloperHandler answers such an order with "Site Removed, but other sites
\* are still using the lib": there is another such site.
KeptIsUsed ==
  \A k \in Key : siteMap[k] # NoLib /\ UnloadKeepsLib(k)
                   => SitesOf(siteMap[k]) # {k}
KeptLibIsUsed == [][KeptIsUsed]_vars

\* A site that an order has disabled drains: repeating the order to unload it
\* succeeds in the end, however many requests keep arriving.
DisabledDrains ==
  \A k \in Key :
    siteMap[k] # NoLib /\ k \notin accepted ~> activeItems[SiteOf(k)] = 0

\* What makes CalledIsMapped inductive: each entry of siteMap has a reference
\* to its library, each action at work has an entry, and a site has no
\* actions but those of its entry.
HandlesCoverSites == \A l \in Lib : opened[l] >= Cardinality(SitesOf(l))

CallsHaveSites ==
  \A c \in Call, k \in Key :
    callSite[c] = SiteOf(k) => siteMap[k] # NoLib /\ callLib[c] = siteMap[k]

ActionsHaveSites ==
  \A k \in Key : actionMap[SiteOf(k)] \in {siteMap[k], NoLib}

\* A port that has a Binder listens, unless listenOn() may fail for it.
BindersListen == portMap \ FailingPorts \subseteq listening

\* The invariant that the proofs carry.
LoaderInvariant ==
  /\ TypeOK /\ HandlesCoverSites
  /\ CallsHaveSites /\ ActionsHaveSites /\ CountIsExact
  /\ BindersListen /\ AcceptedIsServed

=============================================================================
