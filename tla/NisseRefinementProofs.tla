----------------------- MODULE NisseRefinementProofs -----------------------
(***************************************************************************)
(* The event loop implements HandlerCalls, under CallAssumption: every     *)
(* step of NisseServer is a step of a program of procedure calls, or none. *)
(***************************************************************************)
EXTENDS NisseCallProofs

-----------------------------------------------------------------------------
(* CallStatus in the terms of NisseServer.                                 *)

\* A handler is at work if it is called from outside unfinished.
LEMMA StatusOf ==
  ASSUME NEW h \in Handler
  PROVE  /\ CallStatus[h] = "free" <=> h \notin handlers
         /\ CallStatus[h] = "over" <=> h \in handlers \cap retiredHandlers
         /\ CallStatus[h] = "calling" <=> Active(h) /\ worker[h] = "called"
         /\ CallStatus[h] = "ready" <=> Active(h) /\ worker[h] # "called"
BY DEF CallStatus, Active

\* The two notions of a call that has returned agree.
LEMMA ReturnedIsCallReturned ==
  ASSUME NEW p \in Handler
  PROVE  Calls!Returned(p) <=> CallReturned(p)
BY StatusOf DEF Calls!Returned, Calls!Unfinished, CallReturned

\* Steps that change no handler's status.
LEMMA StatusKept ==
  ASSUME UNCHANGED <<handlers, retiredHandlers>>,
         \A h \in Handler : worker'[h] = "called" <=> worker[h] = "called"
  PROVE  UNCHANGED CallStatus
BY DEF CallStatus

-----------------------------------------------------------------------------
(* One lemma for each kind of step.                                        *)

\* The purge reclaims what is over, and nobody will return to it.
LEMMA PurgeReclaims ==
  ASSUME Lifecycle, Discipline, PurgeRetiredHandlers
  PROVE  Calls!Reclaim
<1> DEFINE gone == {h \in Handler : CallStatus[h] = "over"}
<1>1. gone = retiredHandlers
  BY StatusOf DEF Lifecycle, PointersAreLive, TypeOK
<1>2. \A h \in gone : CallReturned(h)
  BY <1>1, ConstantsAssumption
     DEF CallReturned, Discipline, AwaitedIsLive, Active, Lifecycle, TypeOK
<1>3. CallStatus' = [h \in Handler |-> IF h \in gone THEN "free"
                                                     ELSE CallStatus[h]]
  BY <1>1 DEF PurgeRetiredHandlers, CallStatus
<1>4. suspended' = [h \in Handler |-> IF h \in gone THEN NoHandler
                                                    ELSE suspended[h]]
  BY <1>1 DEF PurgeRetiredHandlers
<1> QED
  BY <1>2, <1>3, <1>4, ReturnedIsCallReturned DEF Calls!Reclaim

\* A wake-up continues a call that is over, or is nothing to do with calls.
LEMMA ActivateContinues ==
  ASSUME CallAssumption, Lifecycle, Discipline,
         NEW h \in Handler, NEW e \in Events, Activate(h, e)
  PROVE  Calls!Continue(h) \/ UNCHANGED <<CallStatus, suspended>>
<1> USE DEF Activate
<1>1. /\ Active(h)
      /\ worker[h] = "called" => CallReturned(h) /\ kind[h] \in SuspendableKinds
  BY FiringIsSound, ConstantsAssumption
     DEF Discipline, CallersAreQuiet, Active
<1>2. CASE worker[h] = "called"
  <2>1. worker' = [worker EXCEPT ![h] = "again"]
    BY <1>1, <1>2 DEF Lifecycle, TypeOK
  <2>2. CallStatus' = [CallStatus EXCEPT ![h] = "ready"]
    BY <1>1, <2>1 DEF CallStatus, Active, Lifecycle, TypeOK
  <2> QED
    BY <1>1, <1>2, <2>2, StatusOf, ReturnedIsCallReturned DEF Calls!Continue
<1>3. CASE worker[h] # "called"
  <2>1. \A g \in Handler : worker'[g] = "called" <=> worker[g] = "called"
    BY <1>3 DEF Lifecycle, TypeOK
  <2> QED
    BY <2>1, StatusKept
<1> QED
  BY <1>2, <1>3

\* A new handler that no call creates.
LEMMA RegistrationCreates ==
  ASSUME Lifecycle, NEW h \in Handler, Fresh(h),
         handlers' = handlers \cup {h},
         UNCHANGED <<retiredHandlers, suspended, worker>>
  PROVE  Calls!Create(h)
<1>1. worker[h] = "none" /\ h \notin retiredHandlers /\ CallStatus[h] = "free"
  BY StatusOf DEF Lifecycle, FreshIsBlank, PointersAreLive, Fresh
<1>2. CallStatus' = [CallStatus EXCEPT ![h] = "ready"]
  BY <1>1 DEF CallStatus, Lifecycle
<1> QED
  BY <1>1, <1>2 DEF Calls!Create

\* transferHandler() calls.
LEMMA TransferCalls ==
  ASSUME Lifecycle, Discipline, NEW h \in Handler, NEW k \in CallKinds,
         TransferHandler(h, k)
  PROVE  Calls!Call(currentHandler, h)
<1> DEFINE cur == currentHandler
<1>1. /\ InCallback /\ Fresh(h) /\ cur \notin retiredHandlers
      /\ handlers' = handlers \cup {h}
      /\ suspended' = [suspended EXCEPT ![h] = cur]
      /\ worker' = [worker EXCEPT ![cur] = "called"]
      /\ UNCHANGED retiredHandlers
  BY DEF TransferHandler, AddHandler, InBody
<1>2. cur \in Handler /\ cur \in handlers /\ worker[cur] # "called"
  BY <1>1, CurrentType, CurrentInMap, CurrentNotCalling DEF Lifecycle
<1>3. worker[h] = "none" /\ h \notin retiredHandlers /\ CallStatus[h] = "free"
  BY <1>1, StatusOf DEF Lifecycle, FreshIsBlank, PointersAreLive, Fresh
<1>4. CallStatus[cur] = "ready"
  BY <1>1, <1>2, StatusOf DEF Active
<1>5. CallStatus' = [CallStatus EXCEPT ![cur] = "calling", ![h] = "ready"]
  BY <1>1, <1>2, <1>3 DEF CallStatus, Lifecycle, TypeOK, Fresh
<1> QED
  BY <1>1, <1>3, <1>4, <1>5 DEF Calls!Call

\* dropHandler() ends the handler; moveHandler() puts another in its place.
LEMMA RetireEnds ==
  ASSUME CallAssumption, Lifecycle, Discipline,
         \/ PlainDrops
         \/ FinishAndDrop
         \/ \E h \in Handler : PlainMoves(h) \/ BodyMoves(h)
  PROVE  \/ Calls!End(currentHandler)
         \/ \E h \in Handler : Calls!Replace(currentHandler, h)
<1> DEFINE cur == currentHandler
<1>1. /\ InCallback /\ Active(cur)
      /\ retiredHandlers' = retiredHandlers \cup {cur}
      /\ UNCHANGED suspended
      /\ \A g \in Handler \ {cur} : worker'[g] = worker[g]
  BY RetireEffect
<1>2. /\ cur \in Handler /\ cur \in handlers /\ CallStatus[cur] = "ready"
  BY <1>1, CurrentType, CurrentInMap, CurrentNotCalling, StatusOf DEF Lifecycle
<1>3. CASE PlainDrops \/ FinishAndDrop
  <2>1. UNCHANGED handlers
    BY <1>3 DEF PlainDrops, FinishAndDrop, BodyReturns
  <2>2. CallStatus' = [CallStatus EXCEPT ![cur] = "over"]
    BY <1>1, <1>2, <2>1 DEF CallStatus
  <2> QED
    BY <1>1, <1>2, <2>2 DEF Calls!End
<1>4. ASSUME NEW h \in Handler, PlainMoves(h) \/ BodyMoves(h)
      PROVE  Calls!Replace(cur, h)
  <2>1. Fresh(h) /\ handlers' = handlers \cup {h}
    BY <1>4 DEF PlainMoves, BodyMoves, MoveHandler, AddHandler
  <2>2. worker[h] = "none" /\ h \notin retiredHandlers /\ CallStatus[h] = "free"
    BY <2>1, StatusOf DEF Lifecycle, FreshIsBlank, PointersAreLive, Fresh
  <2>3. CallStatus' = [CallStatus EXCEPT ![cur] = "over", ![h] = "ready"]
    BY <1>1, <1>2, <2>1, <2>2 DEF CallStatus, Fresh
  <2> QED
    BY <1>1, <1>2, <2>2, <2>3 DEF Calls!Replace
<1> QED
  BY <1>3, <1>4

\* A callback that returns and leaves the handlers as they were.
LEMMA ReturnStutters ==
  ASSUME Lifecycle, Discipline,
         \/ TimerReturns
         \/ PlainWaits
         \/ \E e \in Events : Suspend(e)
         \/ FinishAndKeep
         \/ CallbackThrows
  PROVE  UNCHANGED <<CallStatus, suspended>>
<1>1. /\ InCallback
      /\ UNCHANGED <<handlers, retiredHandlers, suspended>>
  BY DEF TimerReturns, PlainWaits, Suspend, InBody, FinishAndKeep,
         BodyReturns, CallbackThrows, CallbackReturns, objectVars
<1>2. currentHandler \in Handler /\ worker[currentHandler] # "called"
  BY <1>1, CurrentType, CurrentNotCalling DEF Lifecycle
<1>3. \A h \in Handler : worker'[h] = "called" <=> worker[h] = "called"
  BY <1>2 DEF TimerReturns, PlainWaits, Suspend, FinishAndKeep, BodyReturns,
              CallbackThrows, objectVars, Lifecycle, TypeOK
<1> QED
  BY <1>1, <1>3, StatusKept

-----------------------------------------------------------------------------

\* Every step of the event loop is a step of HandlerCalls, or a stutter.
LEMMA StepImplements ==
  ASSUME CallAssumption, Lifecycle, Discipline, [Next]_vars
  PROVE  [Calls!Next]_(Calls!vars)
<1> USE DEF Calls!vars, Calls!Next
<1>1. CASE UNCHANGED vars
  BY <1>1 DEF vars, serverVars, objectVars, CallStatus
<1>2. CASE Start \/ FlagShutDown \/ TestShutDown \/ DispatchReturns
  BY <1>2 DEF Start, FlagShutDown, TestShutDown, DispatchReturns, objectVars,
              CallStatus
<1>3. CASE PurgeRetiredHandlers
  BY <1>3, PurgeReclaims
<1>4. CASE \E h \in Handler, e \in Events : Activate(h, e)
  BY <1>4, ActivateContinues
<1>5. ~ \E h \in Handler, e \in Events : ActivateFinished(h, e)
  BY FiringIsSound DEF ActivateFinished
<1>6. ASSUME NEW h \in Handler,
             \/ ListenOn(h)
             \/ \E zero \in BOOLEAN : AddTimer(h, zero)
             \/ \E k \in AcceptKinds, s \in Socket : AcceptConnection(h, k, s)
      PROVE  Calls!Create(h)
  BY <1>6, RegistrationCreates
     DEF ListenOn, AddTimer, AcceptConnection, AddHandler
<1>7. CASE \/ PlainDrops
           \/ FinishAndDrop
           \/ \E h \in Handler : PlainMoves(h) \/ BodyMoves(h)
  <2>1. currentHandler \in Handler
    BY <1>7, CurrentType, RetireEffect DEF Lifecycle
  <2> QED
    BY <1>7, <2>1, RetireEnds
<1>8. CASE \E h \in Handler, k \in CallKinds : TransferHandler(h, k)
  <2>1. currentHandler \in Handler
    BY <1>8, CurrentType DEF Lifecycle, TransferHandler, InBody
  <2> QED
    BY <1>8, <2>1, TransferCalls
<1>9. CASE \/ TimerReturns
           \/ PlainWaits
           \/ \E e \in Events : Suspend(e)
           \/ FinishAndKeep
           \/ CallbackThrows
  BY <1>9, ReturnStutters
<1>10. ~ ResumeDestroyed
  BY DEF ResumeDestroyed, Discipline, CurrentIsSound
<1> QED
  BY <1>1, <1>2, <1>3, <1>4, <1>5, <1>6, <1>7, <1>8, <1>9, <1>10
     DEF Next, Loop, Return

\* transferHandler() is a procedure call: seen through CallStatus, the event
\* loop is a program in which callers wait for what they call, and nothing
\* is destroyed while another handler will return to it.
THEOREM CallsImplemented == CallAssumption => (Spec => ImplementsCalls)
<1> SUFFICES ASSUME CallAssumption PROVE Spec => ImplementsCalls
  OBVIOUS
<1>1. Init => Calls!Init
  BY DEF Init, Calls!Init, CallStatus
<1>2. Lifecycle /\ Discipline /\ [Next]_vars => [Calls!Next]_(Calls!vars)
  BY StepImplements
<1> QED
  BY <1>1, <1>2, LifecycleCorrect, DisciplineCorrect, PTL
     DEF Spec, ImplementsCalls, Calls!Spec

=============================================================================
