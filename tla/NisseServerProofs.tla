------------------------- MODULE NisseServerProofs -------------------------
(***************************************************************************)
(* Theorems about NisseServer that hold for every set of addresses,        *)
(* sockets and handler kinds, with their proofs.                           *)
(***************************************************************************)
EXTENDS NisseServer, TLAPS

USE ConstantsAssumption

-----------------------------------------------------------------------------
(* The helpers of the handlers' operations keep the types.                 *)

\* A constructor arms events that exist.
LEMMA EventTypeIsEvents == \A k : EventType(k) \in SUBSET Events
BY DEF EventType

\* setHandlers() maps events to events.
LEMMA SetHandlersType ==
  ASSUME NEW a \in [Handler -> SUBSET Events], NEW h \in Handler,
         NEW types \in SUBSET Events
  PROVE  SetHandlers(a, h, types) \in [Handler -> SUBSET Events]
BY DEF SetHandlers

\* doDropHandler() leaves a set of events pending for every handler.
LEMMA AfterDropType ==
  ASSUME TypeOK, NEW h \in Handler
  PROVE  AfterDrop(h) \in [Handler -> SUBSET Events]
BY SetHandlersType DEF AfterDrop, Resume, DropEvent, TypeOK, Events

\* moveHandler() creates a handler of one of the classes.
LEMMA MoveKindType == \A k : MoveKind(k) \in Kinds
BY DEF MoveKind, Kinds, PlainKinds, SuspendableKinds

\* In a callback, currentHandler points to a handler.
LEMMA CurrentType == TypeOK /\ InCallback => currentHandler \in Handler
BY DEF TypeOK, InCallback

-----------------------------------------------------------------------------
(* Type correctness.                                                       *)

\* Every step of the loop, of libevent or of a callback keeps the types.
LEMMA TypeStep == TypeOK /\ [Next]_vars => TypeOK'
<1> SUFFICES ASSUME TypeOK, [Next]_vars PROVE TypeOK'
  OBVIOUS
<1> USE EventTypeIsEvents, MoveKindType, CurrentType
<1>1. CASE Start
  BY <1>1 DEF Start, TypeOK, Phases, objectVars
<1>2. CASE Loop
  <2>1. CASE TestShutDown
    BY <2>1 DEF TestShutDown, TypeOK, Phases, objectVars
  <2>2. CASE DispatchReturns
    BY <2>2 DEF DispatchReturns, TypeOK, Phases, objectVars
  <2>3. CASE PurgeRetiredHandlers
    BY <2>3 DEF PurgeRetiredHandlers, DestroyEvents, TypeOK, Phases, Kinds,
                PlainKinds, WorkerStates
  <2> QED
    BY <1>2, <2>1, <2>2, <2>3 DEF Loop
<1>3. ASSUME NEW h \in Handler, NEW e \in Events, Activate(h, e)
      PROVE  TypeOK'
  BY <1>3 DEF Activate, TypeOK, WorkerStates
<1>4. ASSUME NEW h \in Handler, NEW e \in Events, ActivateFinished(h, e)
      PROVE  TypeOK'
  BY <1>4 DEF ActivateFinished, TypeOK, Phases, objectVars
<1>5. CASE FlagShutDown
  BY <1>5 DEF FlagShutDown, TypeOK, objectVars
<1>6. ASSUME NEW h \in Handler, ListenOn(h)
      PROVE  TypeOK'
  BY <1>6, SetHandlersType DEF ListenOn, AddHandler, TypeOK, Kinds, PlainKinds
<1>7. ASSUME NEW h \in Handler, NEW zero \in BOOLEAN, AddTimer(h, zero)
      PROVE  TypeOK'
  BY <1>7, SetHandlersType
     DEF AddTimer, AddHandler, TypeOK, Kinds, PlainKinds, Events
<1>8. ASSUME NEW h \in Handler, BodyMoves(h)
      PROVE  TypeOK'
  BY <1>8, SetHandlersType, AfterDropType
     DEF BodyMoves, InBody, MoveHandler, MoveStream, AddHandler, DelHandler,
         TypeOK
<1>9. CASE Return
  <2>1. ASSUME NEW h \in Handler, NEW k \in AcceptKinds, NEW s \in Socket,
               AcceptConnection(h, k, s)
        PROVE  TypeOK'
    <3>1. armed' \in [Handler -> SUBSET Events]
      BY <2>1, SetHandlersType DEF AcceptConnection, TypeOK, Events
    <3>2. k \in Kinds
      BY DEF ConnectionKinds
    <3> QED
      BY <2>1, <3>1, <3>2
         DEF AcceptConnection, AddHandler, CallbackReturns, TypeOK
  <2>2. CASE TimerReturns
    BY <2>2 DEF TimerReturns, CallbackReturns, TypeOK, objectVars
  <2>3. CASE PlainWaits
    BY <2>3, SetHandlersType DEF PlainWaits, CallbackReturns, TypeOK
  <2>4. CASE PlainDrops
    BY <2>4, AfterDropType
       DEF PlainDrops, DropHandler, CloseStream, DelHandler, CallbackReturns,
           TypeOK
  <2>5. ASSUME NEW h \in Handler, PlainMoves(h)
        PROVE  TypeOK'
    BY <2>5, SetHandlersType, AfterDropType
       DEF PlainMoves, MoveHandler, MoveStream, AddHandler, DelHandler,
           CallbackReturns, TypeOK
  <2>6. ASSUME NEW e \in Events, Suspend(e)
        PROVE  TypeOK'
    BY <2>6, SetHandlersType
       DEF Suspend, InBody, CallbackReturns, TypeOK, WorkerStates
  <2>7. ASSUME NEW h \in Handler, NEW k \in CallKinds, TransferHandler(h, k)
        PROVE  TypeOK'
    <3>1. armed' \in [Handler -> SUBSET Events]
      BY <2>7, SetHandlersType
         DEF TransferHandler, InBody, SuspendEvents, TypeOK
    <3>2. transfers' \in [Handler -> 0 .. MaxTransfers]
      BY <2>7 DEF TransferHandler, InBody, TypeOK
    <3>3. k \in Kinds
      BY DEF ConnectionKinds
    <3> QED
      BY <2>7, <3>1, <3>2, <3>3
         DEF TransferHandler, InBody, AddHandler, CallbackReturns, TypeOK,
             WorkerStates
  <2>8. CASE FinishAndDrop
    BY <2>8, AfterDropType
       DEF FinishAndDrop, BodyReturns, DropHandler, CloseStream, DelHandler,
           CallbackReturns, TypeOK, WorkerStates
  <2>9. CASE FinishAndKeep
    BY <2>9 DEF FinishAndKeep, BodyReturns, CallbackReturns, TypeOK,
                WorkerStates
  <2>10. CASE CallbackThrows
    BY <2>10 DEF CallbackThrows, CallbackReturns, TypeOK, Phases, WorkerStates
  <2>11. CASE ResumeDestroyed
    BY <2>11 DEF ResumeDestroyed, TypeOK, Phases, objectVars
  <2> QED
    BY <1>9, <2>1, <2>2, <2>3, <2>4, <2>5, <2>6, <2>7, <2>8, <2>9, <2>10,
       <2>11 DEF Return
<1>10. CASE UNCHANGED vars
  BY <1>10 DEF TypeOK, vars, serverVars, objectVars
<1> QED
  BY <1>1, <1>2, <1>3, <1>4, <1>5, <1>6, <1>7, <1>8, <1>9, <1>10 DEF Next

\* A server that was just constructed has the types.
LEMMA InitTypeOK == Init => TypeOK
<1> SUFFICES ASSUME Init PROVE TypeOK
  OBVIOUS
<1>1. transfers \in [Handler -> 0 .. MaxTransfers]
  BY DEF Init
<1>2. armed \in [Handler -> SUBSET Events]
  BY DEF Init
<1> QED
  BY <1>1, <1>2 DEF Init, TypeOK, Phases, Kinds, PlainKinds, WorkerStates

\* The variables have their types in every reachable state.
THEOREM TypeCorrect == Spec => []TypeOK
BY InitTypeOK, TypeStep, PTL DEF Spec

-----------------------------------------------------------------------------
(* The life of a handler.                                                  *)

\* doDropHandler() touches the events of the handler that is dropped and of
\* the one that is resumed, and of no other.
LEMMA AfterDropElsewhere ==
  ASSUME TypeOK, NEW h \in Handler, NEW g \in Handler,
         g # h, g # suspended[h]
  PROVE  AfterDrop(h)[g] = armed[g]
BY DEF AfterDrop, Resume, SetHandlers, DropEvent, TypeOK

\* In a callback, the running handler is in the map.
LEMMA CurrentInMap ==
  PointersAreLive /\ InCallback => currentHandler \in handlers
BY DEF PointersAreLive, InCallback

\* A drop that resumes a live handler arms nothing outside the map.
LEMMA AfterDropBlank ==
  ASSUME TypeOK, FreshIsBlank, PointersAreLive, InCallback,
         ResumeIsSafe(currentHandler), NEW g \in Handler, Fresh(g)
  PROVE  AfterDrop(currentHandler)[g] = {}
<1>1. g # currentHandler /\ g # suspended[currentHandler]
  BY CurrentInMap DEF Fresh, ResumeIsSafe
<1> QED
  BY <1>1, AfterDropElsewhere, CurrentType DEF FreshIsBlank

\* Nothing is left behind at an address that is not in the map.
LEMMA BlankStep ==
  TypeOK /\ FreshIsBlank /\ PointersAreLive /\ [Next]_vars => FreshIsBlank'
<1> DEFINE Blank(g) == /\ armed[g] = {}
                       /\ stream[g] = NoSocket
                       /\ suspended[g] = NoHandler
                       /\ worker[g] = "none"
                       /\ transfers[g] = 0
<1> SUFFICES ASSUME TypeOK, FreshIsBlank, PointersAreLive, [Next]_vars,
                    NEW g \in Handler, Fresh(g)'
             PROVE  Blank(g)'
  BY DEF FreshIsBlank
<1> USE CurrentType, CurrentInMap, AfterDropBlank DEF FreshIsBlank, Fresh
<1>1. CASE Start
  BY <1>1 DEF Start, objectVars
<1>2. CASE Loop
  <2>1. CASE TestShutDown
    BY <2>1 DEF TestShutDown, objectVars
  <2>2. CASE DispatchReturns
    BY <2>2 DEF DispatchReturns, objectVars
  <2>3. CASE PurgeRetiredHandlers
    BY <2>3 DEF PurgeRetiredHandlers, DestroyEvents
  <2> QED
    BY <1>2, <2>1, <2>2, <2>3 DEF Loop
<1>3. ASSUME NEW h \in Handler, NEW e \in Events, Activate(h, e)
      PROVE  Blank(g)'
  BY <1>3 DEF Activate, CanFire, TypeOK
<1>4. ASSUME NEW h \in Handler, NEW e \in Events, ActivateFinished(h, e)
      PROVE  Blank(g)'
  BY <1>4 DEF ActivateFinished, objectVars
<1>5. CASE FlagShutDown
  BY <1>5 DEF FlagShutDown, objectVars
<1>6. ASSUME NEW h \in Handler, ListenOn(h)
      PROVE  Blank(g)'
  BY <1>6 DEF ListenOn, AddHandler, SetHandlers, TypeOK
<1>7. ASSUME NEW h \in Handler, NEW zero \in BOOLEAN, AddTimer(h, zero)
      PROVE  Blank(g)'
  BY <1>7 DEF AddTimer, AddHandler, SetHandlers, TypeOK
<1>8. ASSUME NEW h \in Handler, BodyMoves(h)
      PROVE  Blank(g)'
  <2>1. InCallback /\ g # h /\ Fresh(g) /\ g # currentHandler
    BY <1>8 DEF BodyMoves, InBody, MoveHandler, AddHandler
  <2> QED
    BY <1>8, <2>1
       DEF BodyMoves, MoveHandler, MoveStream, SetHandlers, TypeOK
<1>9. CASE Return
  <2>1. ASSUME NEW h \in Handler, NEW k \in AcceptKinds, NEW s \in Socket,
               AcceptConnection(h, k, s)
        PROVE  Blank(g)'
    <3>1. g # h /\ Fresh(g) /\ g # currentHandler
      BY <2>1 DEF AcceptConnection, AddHandler
    <3> QED
      BY <2>1, <3>1 DEF AcceptConnection, SetHandlers, TypeOK
  <2>2. CASE TimerReturns
    BY <2>2 DEF TimerReturns, objectVars
  <2>3. CASE PlainWaits
    BY <2>3 DEF PlainWaits, SetHandlers, TypeOK
  <2>4. CASE PlainDrops
    BY <2>4 DEF PlainDrops, DropHandler, CloseStream, TypeOK
  <2>5. ASSUME NEW h \in Handler, PlainMoves(h)
        PROVE  Blank(g)'
    <3>1. InCallback /\ g # h /\ Fresh(g) /\ g # currentHandler
      BY <2>5 DEF PlainMoves, MoveHandler, AddHandler
    <3> QED
      BY <2>5, <3>1
         DEF PlainMoves, MoveHandler, MoveStream, SetHandlers, TypeOK
  <2>6. ASSUME NEW e \in Events, Suspend(e)
        PROVE  Blank(g)'
    BY <2>6 DEF Suspend, InBody, SetHandlers, TypeOK
  <2>7. ASSUME NEW h \in Handler, NEW k \in CallKinds, TransferHandler(h, k)
        PROVE  Blank(g)'
    <3>1. g # h /\ Fresh(g) /\ g # currentHandler
      BY <2>7 DEF TransferHandler, InBody, AddHandler
    <3> QED
      BY <2>7, <3>1 DEF TransferHandler, SetHandlers, TypeOK
  <2>8. CASE FinishAndDrop
    BY <2>8 DEF FinishAndDrop, BodyReturns, DropHandler, CloseStream, TypeOK
  <2>9. CASE FinishAndKeep
    BY <2>9 DEF FinishAndKeep, BodyReturns, TypeOK
  <2>10. CASE CallbackThrows
    BY <2>10 DEF CallbackThrows, TypeOK
  <2>11. CASE ResumeDestroyed
    BY <2>11 DEF ResumeDestroyed, objectVars
  <2> QED
    BY <1>9, <2>1, <2>2, <2>3, <2>4, <2>5, <2>6, <2>7, <2>8, <2>9, <2>10,
       <2>11 DEF Return
<1>10. CASE UNCHANGED vars
  BY <1>10 DEF vars, serverVars, objectVars
<1> QED
  BY <1>1, <1>2, <1>3, <1>4, <1>5, <1>6, <1>7, <1>8, <1>9, <1>10 DEF Next

\* retiredHandlers and currentHandler point into the map.
LEMMA PointersStep ==
  TypeOK /\ FreshIsBlank /\ PointersAreLive /\ [Next]_vars => PointersAreLive'
<1> SUFFICES ASSUME TypeOK, FreshIsBlank, PointersAreLive, [Next]_vars
             PROVE  PointersAreLive'
  OBVIOUS
<1> USE CurrentInMap DEF PointersAreLive
<1>1. CASE Start
  BY <1>1 DEF Start
<1>2. CASE Loop
  BY <1>2 DEF Loop, TestShutDown, DispatchReturns, PurgeRetiredHandlers,
              InCallback
<1>3. ASSUME NEW h \in Handler, NEW e \in Events, Activate(h, e)
      PROVE  PointersAreLive'
  <2>1. h \in handlers
    BY <1>3 DEF Activate, CanFire, FreshIsBlank, Fresh
  <2> QED
    BY <1>3, <2>1 DEF Activate, CanFire
<1>4. ASSUME NEW h \in Handler, NEW e \in Events, ActivateFinished(h, e)
      PROVE  PointersAreLive'
  BY <1>4 DEF ActivateFinished
<1>5. CASE FlagShutDown
  BY <1>5 DEF FlagShutDown
<1>6. ASSUME NEW h \in Handler, ListenOn(h)
      PROVE  PointersAreLive'
  BY <1>6 DEF ListenOn, AddHandler
<1>7. ASSUME NEW h \in Handler, NEW zero \in BOOLEAN, AddTimer(h, zero)
      PROVE  PointersAreLive'
  BY <1>7 DEF AddTimer, AddHandler
<1>8. ASSUME NEW h \in Handler, BodyMoves(h)
      PROVE  PointersAreLive'
  BY <1>8 DEF BodyMoves, InBody, MoveHandler, AddHandler, DelHandler
<1>9. CASE Return
  <2>1. ASSUME NEW h \in Handler, NEW k \in AcceptKinds, NEW s \in Socket,
               AcceptConnection(h, k, s)
        PROVE  PointersAreLive'
    BY <2>1 DEF AcceptConnection, AddHandler, CallbackReturns
  <2>2. CASE TimerReturns
    BY <2>2 DEF TimerReturns, CallbackReturns
  <2>3. CASE PlainWaits
    BY <2>3 DEF PlainWaits, CallbackReturns
  <2>4. CASE PlainDrops
    BY <2>4 DEF PlainDrops, DropHandler, DelHandler, CallbackReturns
  <2>5. ASSUME NEW h \in Handler, PlainMoves(h)
        PROVE  PointersAreLive'
    BY <2>5 DEF PlainMoves, MoveHandler, AddHandler, DelHandler,
                CallbackReturns
  <2>6. ASSUME NEW e \in Events, Suspend(e)
        PROVE  PointersAreLive'
    BY <2>6 DEF Suspend, CallbackReturns
  <2>7. ASSUME NEW h \in Handler, NEW k \in CallKinds, TransferHandler(h, k)
        PROVE  PointersAreLive'
    BY <2>7 DEF TransferHandler, AddHandler, CallbackReturns
  <2>8. CASE FinishAndDrop
    BY <2>8 DEF FinishAndDrop, BodyReturns, DropHandler, DelHandler,
                CallbackReturns
  <2>9. CASE FinishAndKeep
    BY <2>9 DEF FinishAndKeep, BodyReturns, CallbackReturns
  <2>10. CASE CallbackThrows
    BY <2>10 DEF CallbackThrows, CallbackReturns
  <2>11. CASE ResumeDestroyed
    BY <2>11 DEF ResumeDestroyed
  <2> QED
    BY <1>9, <2>1, <2>2, <2>3, <2>4, <2>5, <2>6, <2>7, <2>8, <2>9, <2>10,
       <2>11 DEF Return
<1>10. CASE UNCHANGED vars
  BY <1>10 DEF vars, serverVars
<1> QED
  BY <1>1, <1>2, <1>3, <1>4, <1>5, <1>6, <1>7, <1>8, <1>9, <1>10 DEF Next

-----------------------------------------------------------------------------
(* The ownership of the connections.                                       *)

\* Each connection is moved, and never copied, from handler to handler.
LEMMA OwnerStep ==
  Lifecycle /\ [Next]_vars => OneOwner'
<1> SUFFICES ASSUME Lifecycle, [Next]_vars PROVE OneOwner'
  OBVIOUS
<1> USE CurrentType DEF Lifecycle, OneOwner
<1>1. CASE UNCHANGED stream
  BY <1>1
<1>2. CASE PurgeRetiredHandlers
  BY <1>2 DEF PurgeRetiredHandlers
<1>3. ASSUME NEW h \in Handler, NEW k \in AcceptKinds, NEW s \in Socket,
             AcceptConnection(h, k, s)
      PROVE  OneOwner'
  BY <1>3 DEF AcceptConnection, FreeSocket, TypeOK
<1>4. ASSUME NEW h \in Handler,
             stream' = MoveStream(currentHandler, h), InCallback, Fresh(h)
      PROVE  OneOwner'
  BY <1>4, CurrentInMap DEF MoveStream, TypeOK, Fresh
<1>5. ASSUME stream' = CloseStream(currentHandler), InCallback
      PROVE  OneOwner'
  BY <1>5 DEF CloseStream, TypeOK
<1>6. CASE Return
  BY <1>6, <1>1, <1>3, <1>4, <1>5
     DEF Return, TimerReturns, PlainWaits, PlainDrops, DropHandler,
         PlainMoves, MoveHandler, AddHandler, Suspend, TransferHandler,
         FinishAndDrop, FinishAndKeep, BodyReturns, CallbackThrows,
         ResumeDestroyed, objectVars
<1>7. ASSUME NEW h \in Handler, BodyMoves(h)
      PROVE  OneOwner'
  BY <1>7, <1>4 DEF BodyMoves, InBody, MoveHandler, AddHandler
<1> QED
  BY <1>1, <1>2, <1>6, <1>7
     DEF Next, Start, Loop, TestShutDown, DispatchReturns, Activate,
         ActivateFinished, FlagShutDown, ListenOn, AddTimer, vars, objectVars

\* A handler gives its connection up in the step that retires it, and is not
\* given another one.
LEMMA RetiredStep ==
  Lifecycle /\ [Next]_vars => RetiredOwnsNothing'
<1> SUFFICES ASSUME Lifecycle, [Next]_vars PROVE RetiredOwnsNothing'
  OBVIOUS
<1> USE CurrentType DEF Lifecycle, RetiredOwnsNothing
<1>1. CASE UNCHANGED <<stream, retiredHandlers>>
  BY <1>1
<1>2. CASE PurgeRetiredHandlers
  BY <1>2 DEF PurgeRetiredHandlers
<1>3. ASSUME NEW h \in Handler, NEW k \in AcceptKinds, NEW s \in Socket,
             AcceptConnection(h, k, s)
      PROVE  RetiredOwnsNothing'
  BY <1>3 DEF AcceptConnection, AddHandler, Fresh, PointersAreLive, TypeOK
<1>4. ASSUME NEW h \in Handler, InCallback, MoveHandler(h)
      PROVE  RetiredOwnsNothing'
  BY <1>4, CurrentInMap
     DEF MoveHandler, MoveStream, AddHandler, DelHandler, Fresh,
         PointersAreLive, TypeOK
<1>5. ASSUME InCallback, DropHandler
      PROVE  RetiredOwnsNothing'
  BY <1>5 DEF DropHandler, CloseStream, DelHandler, TypeOK
<1>6. CASE Return
  BY <1>6, <1>1, <1>3, <1>4, <1>5
     DEF Return, TimerReturns, PlainWaits, PlainDrops, PlainMoves, Suspend,
         TransferHandler, FinishAndDrop, FinishAndKeep, BodyReturns,
         CallbackThrows, ResumeDestroyed, objectVars
<1>7. ASSUME NEW h \in Handler, BodyMoves(h)
      PROVE  RetiredOwnsNothing'
  BY <1>7, <1>4 DEF BodyMoves, InBody
<1> QED
  BY <1>1, <1>2, <1>6, <1>7
     DEF Next, Start, Loop, TestShutDown, DispatchReturns, Activate,
         ActivateFinished, FlagShutDown, ListenOn, AddTimer, vars, serverVars,
         objectVars

-----------------------------------------------------------------------------
(* The theorems about the life of a handler.                               *)

\* The invariant from which the others follow is inductive.
THEOREM LifecycleCorrect == Spec => []Lifecycle
<1>1. Init => Lifecycle
  <2>1. Init => TypeOK
    BY InitTypeOK
  <2> QED
    BY <2>1 DEF Init, Lifecycle, FreshIsBlank, PointersAreLive, OneOwner,
                RetiredOwnsNothing
<1>2. Lifecycle /\ [Next]_vars => Lifecycle'
  BY TypeStep, BlankStep, PointersStep, OwnerStep, RetiredStep DEF Lifecycle
<1> QED
  BY <1>1, <1>2, PTL DEF Spec

\* libevent never calls back a handler that has been destroyed, whatever the
\* handlers do: not even after a wake-up that came too early.
THEOREM PendingLive == Spec => []PendingIsLive
<1>1. Lifecycle => PendingIsLive
  BY DEF Lifecycle, FreshIsBlank, PendingIsLive, Fresh
<1> QED
  BY <1>1, LifecycleCorrect, PTL

\* The server's pointers into its map of handlers do not dangle.
THEOREM PointersLive == Spec => []PointersAreLive
<1>1. Lifecycle => PointersAreLive
  BY DEF Lifecycle
<1> QED
  BY <1>1, LifecycleCorrect, PTL

\* Two handlers never own one connection.
THEOREM SingleOwner == Spec => []OneOwner
<1>1. Lifecycle => OneOwner
  BY DEF Lifecycle
<1> QED
  BY <1>1, LifecycleCorrect, PTL

\* The purge closes nobody's connection.
THEOREM RetiredEmptyHanded == Spec => []RetiredOwnsNothing
<1>1. Lifecycle => RetiredOwnsNothing
  BY DEF Lifecycle
<1> QED
  BY <1>1, LifecycleCorrect, PTL

\* A handler is destroyed only after it was dropped, and under no callback.
THEOREM DestructionIsSafe == Spec => DestroyedWhenSafe
<1>1. Lifecycle /\ [Next]_vars => [DestroysRetired]_vars
  <2> SUFFICES ASSUME Lifecycle, Next PROVE DestroysRetired
    OBVIOUS
  <2>1. CASE PurgeRetiredHandlers
    BY <2>1 DEF PurgeRetiredHandlers, Lifecycle, PointersAreLive,
                DestroysRetired
  <2>2. CASE handlers \subseteq handlers'
    BY <2>2 DEF DestroysRetired
  <2> QED
    BY <2>1, <2>2
       DEF Next, Start, Loop, TestShutDown, DispatchReturns, Activate,
           ActivateFinished, FlagShutDown, ListenOn, AddTimer, BodyMoves,
           MoveHandler, AddHandler, Return, AcceptConnection, TimerReturns,
           PlainWaits, PlainDrops, PlainMoves, Suspend, TransferHandler,
           FinishAndDrop, FinishAndKeep, BodyReturns, CallbackThrows,
           ResumeDestroyed
<1> QED
  BY <1>1, LifecycleCorrect, PTL DEF Spec, DestroyedWhenSafe

\* A connection is closed only in a callback of its owner.
THEOREM ClosingIsSafe == Spec => ClosedByOwner
<1>1. Lifecycle /\ [Next]_vars => [ClosesOwn]_vars
  <2> SUFFICES ASSUME Lifecycle, Next,
                      NEW g \in Handler, NEW t \in Socket,
                      stream[g] = t, FreeSocket(t)'
               PROVE  g = currentHandler
    BY DEF ClosesOwn
  <2> USE CurrentType DEF Lifecycle
  <2>1. stream'[g] # t
    BY DEF FreeSocket
  <2>2. stream' # stream
    BY <2>1
  <2>3. ~PurgeRetiredHandlers
    BY <2>1 DEF PurgeRetiredHandlers, RetiredOwnsNothing
  <2>4. ASSUME NEW h \in Handler, NEW k \in AcceptKinds, NEW s \in Socket,
               AcceptConnection(h, k, s)
        PROVE  g = currentHandler
    BY <2>4, <2>1 DEF AcceptConnection, AddHandler, FreshIsBlank, TypeOK
  <2>5. ASSUME NEW h \in Handler, InCallback, MoveHandler(h)
        PROVE  g = currentHandler
    BY <2>5, <2>1 DEF MoveHandler, MoveStream, AddHandler, FreshIsBlank, TypeOK
  <2>6. ASSUME DropHandler, InCallback
        PROVE  g = currentHandler
    BY <2>6, <2>1 DEF DropHandler, CloseStream, TypeOK
  <2> QED
    BY <2>2, <2>3, <2>4, <2>5, <2>6
       DEF Next, Start, Loop, TestShutDown, DispatchReturns, Activate,
           ActivateFinished, FlagShutDown, ListenOn, AddTimer, BodyMoves,
           InBody, Return, TimerReturns, PlainWaits, PlainDrops, PlainMoves,
           Suspend, TransferHandler, FinishAndDrop, FinishAndKeep,
           BodyReturns, CallbackThrows, ResumeDestroyed, objectVars
<1> QED
  BY <1>1, LifecycleCorrect, PTL DEF Spec, ClosedByOwner

=============================================================================
