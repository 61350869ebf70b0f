---------------------------- MODULE NisseServer ----------------------------
(***************************************************************************)
(* The event loop of Core/Service: the class Server (Server.h, Server.cpp, *)
(* Server.tpp), the handlers it owns (Handler.h, Handler.cpp, Handler.tpp, *)
(* ServerHandler.tpp and .cpp) and as much of libevent and                 *)
(* boost::coroutine as they rely on.                                       *)
(*                                                                         *)
(* One thread runs Server::start().  Its steps are the tests of the while  *)
(* loop, the callbacks libevent makes out of event_base_dispatch(), and    *)
(* purgeRetiredHandlers().  A callback is cut at the points where it calls *)
(* back into the server (add, transfer, move, drop, suspend), so a step is *)
(* one such call together with everything that call changes.               *)
(*                                                                         *)
(* A member of Handler is the ADDRESS of a HandlerBase: it is free again   *)
(* once purgeRetiredHandlers() has destroyed the object, and a later       *)
(* handler may be given the same address.                                  *)
(***************************************************************************)
EXTENDS Naturals, FiniteSets

CONSTANTS Handler,        \* addresses a HandlerBase may be allocated at
          NoHandler,      \* nullptr
          Socket,         \* descriptors of accepted connections
          NoSocket,       \* a handler that owns no connection
          AcceptKinds,    \* the handlers a ServerHandler may create
          CallKinds,      \* the handlers transferHandler() may create
          CallerKinds,    \* the handlers whose body calls transferHandler()
          MaxTransfers,   \* bound: calls of transferHandler() by one handler
          FlagSurvives,   \* the dangling dropHandler flag is still readable
          QuietClients    \* no input during the processing of a request

READ   == "read"
WRITE  == "write"
Events == {READ, WRITE}

(***************************************************************************)
(* The handlers of the repository, by the constructor they call:           *)
(*   server    ServerHandler                                EV_READ        *)
(*   timer     TimerHandler                                 EV_PERSIST     *)
(*   reader    ReadMessageHandler                           EV_READ        *)
(*   writer    WriteMessageHandler                          EV_WRITE       *)
(*   developer DeveloperHandler                             both           *)
(*   request   ReadRequestHandler, ReadMessageStreamHandler EV_READ        *)
(*   reply     WriteMessageStreamHandler                    EV_WRITE       *)
(*   call      MySQLConnectionHandler, MySQLPrepareHandler,                *)
(*             MySQLExecuteHandler                          both           *)
(* The last three are HandlerSuspendable, the others HandlerNonSuspendable.*)
(***************************************************************************)
PlainKinds       == {"server", "timer", "reader", "writer", "developer"}
SuspendableKinds == {"request", "reply", "call"}
Kinds            == PlainKinds \cup SuspendableKinds
ConnectionKinds  == Kinds \ {"server", "timer"}

\* eventType of the constructor: what readEvent and writeEvent can wait for.
ReadKinds  == {"server", "reader", "developer", "request", "call"}
WriteKinds == {"writer", "developer", "reply", "call"}
EventType(k) == {e \in Events : \/ e = READ  /\ k \in ReadKinds
                                \/ e = WRITE /\ k \in WriteKinds}

\* The handler a moveHandler() call of this kind creates.
MoverKinds   == {"reader", "request"}
MoveKind(k)  == IF k = "reader" THEN "writer" ELSE "reply"

ASSUME ConstantsAssumption ==
  /\ NoHandler \notin Handler
  /\ NoSocket \notin Socket
  /\ AcceptKinds \subseteq ConnectionKinds
  /\ CallKinds \subseteq ConnectionKinds
  /\ CallerKinds \subseteq SuspendableKinds
  /\ MaxTransfers \in Nat
  /\ FlagSurvives \in BOOLEAN
  /\ QuietClients \in BOOLEAN

VARIABLES
  phase,            \* where Server::start() is
  shutDownNext,     \* Server::shutDownNext
  currentHandler,   \* Server::currentHandler
  handlers,         \* keys of Server::handlers: the live objects
  retiredHandlers,  \* Server::retiredHandlers (a second entry is harmless)
  kind,             \* the class of the object at an address
  stream,           \* the connection the handler's stream member owns
  armed,            \* libevent: which of readEvent, writeEvent are pending
  suspended,        \* HandlerBase::suspended
  worker,           \* HandlerSuspendable::worker: state of the coroutine
  transfers         \* bound only: transferHandler() calls made so far

serverVars == <<phase, shutDownNext, currentHandler, handlers,
                retiredHandlers>>
objectVars == <<kind, stream, armed, suspended, worker, transfers>>
vars       == <<serverVars, objectVars>>

(***************************************************************************)
(* idle       start() is not running                                       *)
(* test       about to evaluate while (!shutDownNext)                      *)
(* dispatch   inside event_base_dispatch(): waiting when currentHandler is *)
(*            NoHandler, in a callback otherwise                           *)
(* purge      about to call purgeRetiredHandlers()                         *)
(* threw      an exception left a callback, libevent and start()           *)
(* undefined  the program has executed undefined behaviour                 *)
(***************************************************************************)
Phases == {"idle", "test", "dispatch", "purge", "threw", "undefined"}

(***************************************************************************)
(* none    worker == nullptr: never activated, or not suspendable          *)
(* first   running, in the activation that created the coroutine           *)
(* again   running, in a later activation                                  *)
(* waiting suspend(EV_READ) or suspend(EV_WRITE) was called                *)
(* called  suspend(0) was called, by transferHandler()                     *)
(* done    eventActivateNonBlocking() has returned or thrown               *)
(***************************************************************************)
WorkerStates == {"none", "first", "again", "waiting", "called", "done"}
Running(h)   == worker[h] \in {"first", "again"}

InCallback == phase = "dispatch" /\ currentHandler # NoHandler
Fresh(h)   == h \in Handler \ handlers
FreeSocket(s) == \A h \in Handler : stream[h] # s

Init ==
  /\ phase = "idle"
  /\ shutDownNext = FALSE
  /\ currentHandler = NoHandler
  /\ handlers = {}
  /\ retiredHandlers = {}
  /\ kind = [h \in Handler |-> "server"]
  /\ stream = [h \in Handler |-> NoSocket]
  /\ armed = [h \in Handler |-> {}]
  /\ suspended = [h \in Handler |-> NoHandler]
  /\ worker = [h \in Handler |-> "none"]
  /\ transfers = [h \in Handler |-> 0]

-----------------------------------------------------------------------------
(* Pieces of the handlers' operations, as functions on the armed events.   *)
(* Nothing refers to a definition whose comment begins with "Mutation": it *)
(* is what a plausible mistake would make of the definition that follows.  *)

\* HandlerBase::setHandlers(): event_add() of a pending event is a no-op.
SetHandlers(a, h, types) == [a EXCEPT ![h] = @ \cup types]

\* Mutation: only readEvent is deleted.
DropEventReadOnly(a, h) == [a EXCEPT ![h] = @ \ {READ}]

\* HandlerBase::dropEvent(): event_del() of both events.
DropEvent(a, h) == [a EXCEPT ![h] = {}]

\* Mutation: one event is armed; a flag that is no event is passed on.
ResumeReadOnly(a, h) == SetHandlers(a, h, {READ})
ResumePersist(a, h)  == SetHandlers(a, h, Events \cup {"persist"})

\* HandlerBase::resume(): both events are armed, whatever h may wait for.
Resume(a, h) == SetHandlers(a, h, Events)

\* The events after HandlerBase::doDropHandler() of h.
AfterDrop(h) == IF suspended[h] = NoHandler
                  THEN DropEvent(armed, h)
                  ELSE Resume(DropEvent(armed, h), suspended[h])

\* Mutation: dropHandler() does not close.
CloseNothing(h) == stream

\* The streams after HandlerStream::close() of h.
CloseStream(h) == [stream EXCEPT ![h] = NoSocket]

\* Mutation: the stream is copied.
CopyStream(h, n) == [stream EXCEPT ![n] = stream[h]]

\* The streams after h's has been moved (std::move) into the constructor of n.
MoveStream(h, n) == [stream EXCEPT ![n] = stream[h], ![h] = NoSocket]

\* Mutation: the destructor does not call dropEvent().
DestroyOnly(hs) == armed

\* The events after ~HandlerBase(), which calls dropEvent(), of hs.
DestroyEvents(hs) == [h \in Handler |-> IF h \in hs THEN {} ELSE armed[h]]

\* Mutation: suspend(EV_WRITE).
SuspendEventsWrite == {WRITE}

\* What HandlerBase::setSuspend() makes the caller wait for: suspend(0).
SuspendEvents == {}

\* The handler that doDropHandler() resumes has not been destroyed.
ResumeIsSafe(h) == suspended[h] \in handlers \cup {NoHandler}

\* Server::delHandler().
DelHandler(h) == retiredHandlers' = retiredHandlers \cup {h}

\* Server::addHandler(): an object of class k is constructed at h, which
\* arms the events of its eventType (see the callers), and is registered.
AddHandler(h, k) ==
  /\ Fresh(h)
  /\ handlers' = handlers \cup {h}
  /\ kind' = [kind EXCEPT ![h] = k]

\* The callback returns: ~SetCurrentHandler resets currentHandler.
CallbackReturns == currentHandler' = NoHandler

-----------------------------------------------------------------------------
(* Server::start().                                                        *)

\* start() up to the first test of the loop's condition.
Start ==
  /\ phase = "idle"
  /\ phase' = "test"
  /\ UNCHANGED <<shutDownNext, currentHandler, handlers, retiredHandlers,
                 objectVars>>

\* Mutation: while (true).
TestNothing ==
  /\ phase = "test"
  /\ phase' = "dispatch"
  /\ UNCHANGED <<shutDownNext, currentHandler, handlers, retiredHandlers,
                 objectVars>>

\* while (!shutDownNext): enter event_base_dispatch() or return.
TestShutDown ==
  /\ phase = "test"
  /\ phase' = IF shutDownNext THEN "idle" ELSE "dispatch"
  /\ UNCHANGED <<shutDownNext, currentHandler, handlers, retiredHandlers,
                 objectVars>>

\* Mutation: runLoop() sets no loopexit timer.
DispatchReturnsOnBreak ==
  /\ phase = "dispatch"
  /\ ~InCallback
  /\ shutDownNext
  /\ phase' = "purge"
  /\ UNCHANGED <<shutDownNext, currentHandler, handlers, retiredHandlers,
                 objectVars>>

\* Mutation: the handlers are purged inside a callback.
DispatchReturnsAtOnce ==
  /\ phase = "dispatch"
  /\ phase' = "purge"
  /\ UNCHANGED <<shutDownNext, currentHandler, handlers, retiredHandlers,
                 objectVars>>

\* event_base_dispatch() returns between two callbacks: the timer set by
\* event_base_loopexit() ran, or event_base_loopbreak() was called.
DispatchReturns ==
  /\ phase = "dispatch"
  /\ ~InCallback
  /\ phase' = "purge"
  /\ UNCHANGED <<shutDownNext, currentHandler, handlers, retiredHandlers,
                 objectVars>>

\* purgeRetiredHandlers(): the retired objects are destroyed.  ~HandlerBase
\* drops their events; their addresses may be allocated again.
PurgeRetiredHandlers ==
  LET Keep(f, blank) == [h \in Handler |-> IF h \in retiredHandlers
                                             THEN blank ELSE f[h]]
  IN /\ phase = "purge"
     /\ phase' = "test"
     /\ handlers' = handlers \ retiredHandlers
     /\ retiredHandlers' = {}
     /\ kind' = Keep(kind, "server")
     /\ stream' = Keep(stream, NoSocket)
     /\ armed' = DestroyEvents(retiredHandlers)
     /\ suspended' = Keep(suspended, NoHandler)
     /\ worker' = Keep(worker, "none")
     /\ transfers' = Keep(transfers, 0)
     /\ UNCHANGED <<shutDownNext, currentHandler>>

-----------------------------------------------------------------------------
(* libevent calls eventCB(), that is HandlerBase::activateEventHandlers(). *)

\* libevent may run the callback of event e of h.  After loopbreak it runs
\* none.  readEvent reports input only if it was created with EV_READ; a
\* timer's readEvent reports its timeout.
CanFire(h, e) ==
  /\ phase = "dispatch"
  /\ ~InCallback
  /\ ~shutDownNext
  /\ e \in armed[h]
  /\ e = READ => kind[h] \in ReadKinds \cup {"timer"}
  /\ QuietClients /\ transfers[h] > 0 => e = WRITE

\* The event is no longer pending (a timer's is EV_PERSIST and stays), and
\* eventActivate() starts or continues the handler's body.
Activate(h, e) ==
  /\ CanFire(h, e)
  /\ worker[h] # "done"
  /\ currentHandler' = h
  /\ armed' = IF kind[h] = "timer" THEN armed
                                   ELSE [armed EXCEPT ![h] = @ \ {e}]
  /\ worker' = IF kind[h] \in SuspendableKinds
                 THEN [worker EXCEPT ![h] = IF @ = "none" THEN "first"
                                                          ELSE "again"]
                 ELSE worker
  /\ UNCHANGED <<phase, shutDownNext, handlers, retiredHandlers, kind,
                 stream, suspended, transfers>>

\* (*worker)() of a coroutine that has finished: undefined behaviour.
ActivateFinished(h, e) ==
  /\ CanFire(h, e)
  /\ worker[h] = "done"
  /\ phase' = "undefined"
  /\ UNCHANGED <<shutDownNext, currentHandler, handlers, retiredHandlers,
                 objectVars>>

-----------------------------------------------------------------------------
(* Calls a program makes before start() or from any callback.              *)

Configuring == phase = "idle" \/ InCallback

\* Server::flagShutDown(), which also makes dispatch return (loopbreak).
FlagShutDown ==
  /\ Configuring
  /\ ~shutDownNext
  /\ shutDownNext' = TRUE
  /\ UNCHANGED <<phase, currentHandler, handlers, retiredHandlers,
                 objectVars>>

\* Server::listenOn().
ListenOn(h) ==
  /\ Configuring
  /\ AddHandler(h, "server")
  /\ armed' = SetHandlers(armed, h, EventType("server"))
  /\ UNCHANGED <<phase, shutDownNext, currentHandler, retiredHandlers,
                 stream, suspended, worker, transfers>>

\* Server::addTimer(): a timeOut of zero gives setHandlers() no timeVal, and
\* the event is never armed.
AddTimer(h, zero) ==
  /\ Configuring
  /\ AddHandler(h, "timer")
  /\ armed' = IF zero THEN armed ELSE SetHandlers(armed, h, {READ})
  /\ UNCHANGED <<phase, shutDownNext, currentHandler, retiredHandlers,
                 stream, suspended, worker, transfers>>

-----------------------------------------------------------------------------
(* The rest of a callback of a HandlerNonSuspendable.                      *)

\* ServerHandler::eventActivate(): accept a connection on s, create its
\* handler at h and wait for the next one.
AcceptConnection(h, k, s) ==
  /\ InCallback
  /\ kind[currentHandler] = "server"
  /\ FreeSocket(s)
  /\ AddHandler(h, k)
  /\ stream' = [stream EXCEPT ![h] = s]
  /\ armed' = SetHandlers(SetHandlers(armed, h, EventType(k)),
                          currentHandler, {READ})
  /\ CallbackReturns
  /\ UNCHANGED <<phase, shutDownNext, retiredHandlers, suspended, worker,
                 transfers>>

\* TimerHandler::eventActivate() returns 0 after its action.
TimerReturns ==
  /\ InCallback
  /\ kind[currentHandler] = "timer"
  /\ CallbackReturns
  /\ UNCHANGED <<phase, shutDownNext, handlers, retiredHandlers, objectVars>>

\* A message is incomplete: eventActivate() returns EV_READ or EV_WRITE.
PlainWaits ==
  /\ InCallback
  /\ kind[currentHandler] \in {"reader", "writer"}
  /\ armed' = SetHandlers(armed, currentHandler,
                          EventType(kind[currentHandler]))
  /\ CallbackReturns
  /\ UNCHANGED <<phase, shutDownNext, handlers, retiredHandlers, kind,
                 stream, suspended, worker, transfers>>

\* dropHandler(), that is doDropHandler(true), of the current handler: its
\* events are dropped, its stream is closed, it is retired, and the handler
\* it had suspended is resumed.
DropHandler ==
  /\ ResumeIsSafe(currentHandler)
  /\ armed' = AfterDrop(currentHandler)
  /\ stream' = CloseStream(currentHandler)
  /\ DelHandler(currentHandler)

\* dropHandler(); return 0;
PlainDrops ==
  /\ InCallback
  /\ kind[currentHandler] \in {"writer", "developer"}
  /\ DropHandler
  /\ CallbackReturns
  /\ UNCHANGED <<phase, shutDownNext, handlers, kind, suspended, worker,
                 transfers>>

\* HandlerBase::moveHandler(): doDropHandler(false), then a new handler on
\* the same connection.
MoveHandler(h) ==
  /\ ResumeIsSafe(currentHandler)
  /\ AddHandler(h, MoveKind(kind[currentHandler]))
  /\ DelHandler(currentHandler)
  /\ armed' = SetHandlers(AfterDrop(currentHandler), h,
                          EventType(MoveKind(kind[currentHandler])))
  /\ stream' = MoveStream(currentHandler, h)

\* moveHandler(...); return 0;
PlainMoves(h) ==
  /\ InCallback
  /\ kind[currentHandler] = "reader"
  /\ MoveHandler(h)
  /\ CallbackReturns
  /\ UNCHANGED <<phase, shutDownNext, suspended, worker, transfers>>

-----------------------------------------------------------------------------
(* The body of a HandlerSuspendable, eventActivateNonBlocking().  A body   *)
(* that has moved its stream away does nothing more than return false.     *)

InBody == /\ InCallback
          /\ kind[currentHandler] \in SuspendableKinds
          /\ currentHandler \notin retiredHandlers

\* suspend(e), by a stream that would block.
Suspend(e) ==
  /\ InBody
  /\ worker' = [worker EXCEPT ![currentHandler] = "waiting"]
  /\ armed' = SetHandlers(armed, currentHandler, {e})
  /\ CallbackReturns
  /\ UNCHANGED <<phase, shutDownNext, handlers, retiredHandlers, kind,
                 stream, suspended, transfers>>

\* Server::transferHandler(): the handler h is created, told which handler
\* to resume, and the current one suspends for no event.
TransferHandler(h, k) ==
  /\ InBody
  /\ kind[currentHandler] \in CallerKinds
  /\ transfers[currentHandler] < MaxTransfers
  /\ AddHandler(h, k)
  /\ armed' = SetHandlers(SetHandlers(armed, h, EventType(k)),
                          currentHandler, SuspendEvents)
  /\ suspended' = [suspended EXCEPT ![h] = currentHandler]
  /\ worker' = [worker EXCEPT ![currentHandler] = "called"]
  /\ transfers' = [transfers EXCEPT ![currentHandler] = @ + 1]
  /\ CallbackReturns
  /\ UNCHANGED <<phase, shutDownNext, retiredHandlers, stream>>

\* moveHandler(), as ReadMessageStreamHandler calls it; the body goes on.
BodyMoves(h) ==
  /\ InBody
  /\ kind[currentHandler] \in MoverKinds
  /\ MoveHandler(h)
  /\ UNCHANGED <<phase, shutDownNext, currentHandler, suspended, worker,
                 transfers>>

\* Mutation: the body's result is never stored.
FlagUninitialised(h) == BOOLEAN

\* What eventActivate() can read in its local dropHandler after the body
\* returned: the body's result if it ran in the activation that declared the
\* variable, an uninitialised local otherwise.
FlagRead(h) ==
  IF worker[h] = "first" \/ FlagSurvives THEN {h \notin retiredHandlers}
                                         ELSE BOOLEAN

BodyReturns == /\ InCallback
               /\ kind[currentHandler] \in SuspendableKinds
               /\ worker' = [worker EXCEPT ![currentHandler] = "done"]
               /\ CallbackReturns
               /\ UNCHANGED <<phase, shutDownNext, handlers, kind,
                              suspended, transfers>>

\* The body returns and the flag reads true: the handler is dropped.
FinishAndDrop ==
  /\ BodyReturns
  /\ TRUE \in FlagRead(currentHandler)
  /\ DropHandler

\* The body returns and the flag reads false: the handler is kept.
FinishAndKeep ==
  /\ BodyReturns
  /\ FALSE \in FlagRead(currentHandler)
  /\ UNCHANGED <<retiredHandlers, armed, stream>>

-----------------------------------------------------------------------------
(* The ways a callback goes wrong.                                         *)

\* Mutation: currentHandler is reset by an assignment after eventActivate()
\* and not by a destructor.
CallbackThrowsPlainly ==
  /\ InCallback
  /\ phase' = "threw"
  /\ UNCHANGED <<shutDownNext, currentHandler, handlers, retiredHandlers,
                 objectVars>>

\* An exception leaves the callback, event_base_dispatch() and start().
CallbackThrows ==
  /\ InCallback
  /\ phase' = "threw"
  /\ CallbackReturns
  /\ worker' = IF kind[currentHandler] \in SuspendableKinds
                 THEN [worker EXCEPT ![currentHandler] = "done"]
                 ELSE worker
  /\ UNCHANGED <<shutDownNext, handlers, retiredHandlers, kind, stream,
                 armed, suspended, transfers>>

\* doDropHandler() resumes a handler that has been destroyed.
ResumeDestroyed ==
  /\ InCallback
  /\ kind[currentHandler] \in ConnectionKinds
  /\ ~ResumeIsSafe(currentHandler)
  /\ phase' = "undefined"
  /\ UNCHANGED <<shutDownNext, currentHandler, handlers, retiredHandlers,
                 objectVars>>

-----------------------------------------------------------------------------

Loop == TestShutDown \/ DispatchReturns \/ PurgeRetiredHandlers

\* The steps after which the callback is over.
Return ==
  \/ \E h \in Handler, k \in AcceptKinds, s \in Socket :
       AcceptConnection(h, k, s)
  \/ TimerReturns
  \/ PlainWaits
  \/ PlainDrops
  \/ \E h \in Handler : PlainMoves(h)
  \/ \E e \in Events : Suspend(e)
  \/ \E h \in Handler, k \in CallKinds : TransferHandler(h, k)
  \/ FinishAndDrop
  \/ FinishAndKeep
  \/ CallbackThrows
  \/ ResumeDestroyed

Next ==
  \/ Start
  \/ Loop
  \/ \E h \in Handler, e \in Events : Activate(h, e)
  \/ \E h \in Handler, e \in Events : ActivateFinished(h, e)
  \/ FlagShutDown
  \/ \E h \in Handler : ListenOn(h)
  \/ \E h \in Handler, zero \in BOOLEAN : AddTimer(h, zero)
  \/ \E h \in Handler : BodyMoves(h)
  \/ Return

Spec == Init /\ [][Next]_vars

(***************************************************************************)
(* The loop runs; a callback comes back; the loopexit timer of runLoop()   *)
(* fires however busy the loop is (strong: it is disabled in callbacks);   *)
(* a writable connection is reported by every poll.                        *)
(***************************************************************************)
Fairness ==
  /\ WF_vars(TestShutDown)
  /\ WF_vars(PurgeRetiredHandlers)
  /\ SF_vars(DispatchReturns)
  /\ WF_vars(Return)
  /\ \A h \in Handler : SF_vars(Activate(h, WRITE))

FairSpec == Spec /\ Fairness

-----------------------------------------------------------------------------
(* Properties that hold whatever the constants are.                        *)

\* The types of the variables.
TypeOK ==
  /\ phase \in Phases
  /\ shutDownNext \in BOOLEAN
  /\ currentHandler \in Handler \cup {NoHandler}
  /\ handlers \subseteq Handler
  /\ retiredHandlers \subseteq Handler
  /\ kind \in [Handler -> Kinds]
  /\ stream \in [Handler -> Socket \cup {NoSocket}]
  /\ armed \in [Handler -> SUBSET Events]
  /\ suspended \in [Handler -> Handler \cup {NoHandler}]
  /\ worker \in [Handler -> WorkerStates]
  /\ transfers \in [Handler -> 0 .. MaxTransfers]

\* An address outside the map of handlers holds no object: no event, no
\* connection and no coroutine is left behind at it.
FreshIsBlank ==
  \A h \in Handler : Fresh(h) => /\ armed[h] = {}
                                /\ stream[h] = NoSocket
                                /\ suspended[h] = NoHandler
                                /\ worker[h] = "none"
                                /\ transfers[h] = 0

\* A retired handler is in the map until the purge, and currentHandler is a
\* live handler, set only while event_base_dispatch() runs.
PointersAreLive ==
  /\ retiredHandlers \subseteq handlers
  /\ currentHandler # NoHandler => /\ currentHandler \in handlers
                                   /\ phase \in {"dispatch", "undefined"}

\* libevent holds a raw pointer to the handler of every pending event: it
\* never holds one to a handler that purgeRetiredHandlers() has destroyed.
PendingIsLive == \A h \in Handler : armed[h] # {} => h \in handlers

\* A connection handed on by moveHandler() has one owner at a time, even in
\* the callback in which both handlers exist: it is not closed twice, nor
\* closed under its new owner.
OneOwner ==
  \A h, g \in Handler : stream[h] = stream[g] /\ h # g => stream[h] = NoSocket

\* A handler waiting to be destroyed has given its connection up: the purge,
\* which runs later, can close nobody's descriptor.
RetiredOwnsNothing == \A h \in retiredHandlers : stream[h] = NoSocket

\* The invariant that the proofs carry from state to state.
Lifecycle == TypeOK /\ FreshIsBlank /\ PointersAreLive /\ OneOwner
                    /\ RetiredOwnsNothing

\* Server.h: "We don't want handlers to delete themselves so they register
\* themselves for deletion".  No object is destroyed under a callback, and
\* none that did not ask for it.
DestroysRetired == \A h \in handlers \ handlers' :
                     h \in retiredHandlers /\ currentHandler = NoHandler
DestroyedWhenSafe == [][DestroysRetired]_vars

\* A connection is closed in a callback of the handler that owns it, never
\* by another handler or by the loop.
ClosesOwn == \A h \in Handler, s \in Socket :
               stream[h] = s /\ FreeSocket(s)' => h = currentHandler
ClosedByOwner == [][ClosesOwn]_vars

-----------------------------------------------------------------------------
(* Properties of the call discipline.  They hold if the dropHandler flag   *)
(* of eventActivate() survives and the clients are quiet.                  *)

Active(h) == h \in handlers \ retiredHandlers

\* Nothing that p created with transferHandler() is still at work.
CallReturned(p) == \A c \in Handler : suspended[c] = p => ~Active(c)

\* A caller goes on only after the handler it created is over: it finds the
\* statement prepared, or executed, when its code continues.
WakesReturned == \A p \in Handler :
                   worker[p] = "called" /\ worker'[p] = "again"
                     => CallReturned(p)
CallerWaits == [][WakesReturned]_vars

\* The suspended pointer of a handler at work leads to a live caller that is
\* waiting for it: doDropHandler() resumes the right object.
AwaitedIsLive ==
  \A c \in Handler : Active(c) /\ suspended[c] # NoHandler
                       => Active(suspended[c]) /\ worker[suspended[c]] = "called"

\* Nothing re-arms the events of a handler that is waiting to be destroyed.
RetiredIsSilent == \A h \in retiredHandlers : armed[h] = {}

\* Handler.h: "If eventActivateNonBlocking() returns true then dropHandler()
\* is called": no handler whose body has finished is kept for ever.
FinishedIsRetired ==
  phase # "threw" =>
    \A h \in Handler : worker[h] = "done" => h \in retiredHandlers

\* The program executes no undefined behaviour.
NoUndefinedBehaviour == phase # "undefined"

\* What the call discipline needs: a build in which the dropHandler flag
\* survives, clients that are quiet, callers that wait for one event at first.
CallAssumption ==
  /\ FlagSurvives
  /\ QuietClients
  /\ \A k \in CallerKinds : EventType(k) # Events

\* A caller waits for one handler at a time.
OneCallee ==
  \A c, d \in Handler :
    Active(c) /\ Active(d) /\ suspended[c] = suspended[d]
      /\ suspended[c] # NoHandler => c = d

\* What is pending for a handler that makes calls: at most one event before
\* its first call; not its writeEvent while it runs or waits for a call.
CallersAreQuiet ==
  \A p \in handlers :
    /\ worker[p] = "called" => kind[p] \in CallerKinds
    /\ kind[p] \in CallerKinds =>
         /\ transfers[p] = 0 => armed[p] # Events
         /\ p = currentHandler => /\ WRITE \notin armed[p]
                                  /\ transfers[p] = 0 => armed[p] = {}
         /\ worker[p] = "called" => transfers[p] > 0
         /\ worker[p] = "called" /\ ~CallReturned(p) => WRITE \notin armed[p]

\* The handler in a callback runs, is still at work unless it has moved its
\* connection away, and would resume a live handler.
CurrentIsSound ==
  InCallback =>
    /\ ResumeIsSafe(currentHandler)
    /\ kind[currentHandler] \in SuspendableKinds => Running(currentHandler)
    /\ kind[currentHandler] \in PlainKinds => Active(currentHandler)

\* The invariant that the proofs of the call discipline carry.
Discipline == /\ AwaitedIsLive /\ OneCallee /\ RetiredIsSilent
              /\ FinishedIsRetired /\ NoUndefinedBehaviour
              /\ CallersAreQuiet /\ CurrentIsSound

\* What a call looks like from outside the event loop.
CallStatus == [h \in Handler |->
                 IF h \notin handlers THEN "free"
                 ELSE IF h \in retiredHandlers THEN "over"
                 ELSE IF worker[h] = "called" THEN "calling" ELSE "ready"]

Calls == INSTANCE HandlerCalls WITH status <- CallStatus, caller <- suspended

\* transferHandler() is a procedure call, as HandlerCalls describes it.
ImplementsCalls == Calls!Spec

-----------------------------------------------------------------------------
(* Liveness.                                                               *)

\* The loop ended in a way that takes no more steps.
Failed == phase \in {"threw", "undefined"}

\* Every handler that was dropped is destroyed, however busy the loop is.
RetiredIsPurged ==
  \A h \in Handler : h \in retiredHandlers ~> h \notin retiredHandlers \/ Failed

\* After flagShutDown(), start() returns.
ShutdownStops == shutDownNext /\ phase # "idle" ~> phase = "idle" \/ Failed

\* A caller whose call is over goes on: its wake-up is not lost.
CallReturns ==
  \A p \in Handler : worker[p] = "called" /\ CallReturned(p)
                       ~> worker[p] # "called" \/ shutDownNext \/ Failed

\* Handler.h says of moveHandler() that "the current handler will
\* immediately suspend until the created handler completes".
MoveSuspends ==
  [][\A h, n \in Handler :
       stream[h] # NoSocket /\ h # n /\ stream'[n] = stream[h]
         => h \notin retiredHandlers']_vars

=============================================================================
