-------------------------- MODULE NisseCallProofs --------------------------
(***************************************************************************)
(* transferHandler() is a procedure call: the theorems of the call         *)
(* discipline of NisseServer, under CallAssumption, for every set of       *)
(* addresses and sockets, and every bound on the number of calls.          *)
(***************************************************************************)
EXTENDS NisseServerProofs

-----------------------------------------------------------------------------
(* What the invariants say of a handler that is about to run, or to end.   *)

\* libevent calls back only handlers that are at work, never a finished body,
\* and a caller only when its call is over.
LEMMA FiringIsSound ==
  ASSUME CallAssumption, Lifecycle, Discipline,
         NEW h \in Handler, NEW e \in Events, CanFire(h, e)
  PROVE  /\ Active(h)
         /\ worker[h] # "done"
         /\ worker[h] = "called" => CallReturned(h)
         /\ ResumeIsSafe(h)
<1>1. Active(h)
  BY DEF Lifecycle, Discipline, CanFire, FreshIsBlank, Fresh, RetiredIsSilent,
         Active
<1>2. worker[h] # "done"
  BY <1>1 DEF Discipline, FinishedIsRetired, CanFire, Active
<1>3. ASSUME worker[h] = "called" PROVE CallReturned(h)
  <2>1. kind[h] \in CallerKinds /\ transfers[h] > 0
    BY <1>1, <1>3 DEF Discipline, CallersAreQuiet, Active
  <2>2. WRITE \in armed[h]
    BY <2>1 DEF CanFire, CallAssumption
  <2> QED
    BY <1>1, <1>3, <2>1, <2>2 DEF Discipline, CallersAreQuiet, Active
<1>4. ResumeIsSafe(h)
  BY <1>1 DEF Discipline, AwaitedIsLive, ResumeIsSafe, Active, Lifecycle,
              TypeOK
<1> QED
  BY <1>1, <1>2, <1>3, <1>4

\* The handler that runs is waiting for no call.
LEMMA CurrentNotCalling ==
  ASSUME Lifecycle, Discipline, InCallback
  PROVE  worker[currentHandler] # "called"
<1>1. currentHandler \in handlers
  BY CurrentInMap DEF Lifecycle
<1>2. CASE kind[currentHandler] \in SuspendableKinds
  BY <1>2 DEF Discipline, CurrentIsSound, Running
<1>3. CASE kind[currentHandler] \notin SuspendableKinds
  BY <1>1, <1>3, ConstantsAssumption DEF Discipline, CallersAreQuiet
<1> QED
  BY <1>2, <1>3

\* doDropHandler() of the running handler resumes its caller, whose call is
\* thereby over, and silences the handler itself.
LEMMA DropIsSound ==
  ASSUME Lifecycle, Discipline, InCallback, Active(currentHandler)
  PROVE  LET p == suspended[currentHandler]
         IN  /\ AfterDrop(currentHandler)[currentHandler] = {}
             /\ p # NoHandler => /\ Active(p) /\ p # currentHandler
                                 /\ worker[p] = "called"
                                 /\ transfers[p] > 0
                                 /\ AfterDrop(currentHandler)[p] = Events
<1> DEFINE p == suspended[currentHandler]
<1>1. currentHandler \in Handler /\ TypeOK
  BY CurrentType DEF Lifecycle
<1>2. CASE p = NoHandler
  BY <1>1, <1>2 DEF AfterDrop, DropEvent, TypeOK
<1>3. CASE p # NoHandler
  <2>1. p \in Handler /\ Active(p) /\ worker[p] = "called"
    BY <1>1, <1>3 DEF Discipline, AwaitedIsLive, TypeOK
  <2>2. p # currentHandler
    BY <2>1, CurrentNotCalling
  <2>3. transfers[p] > 0
    BY <2>1 DEF Discipline, CallersAreQuiet, Active
  <2>4. /\ AfterDrop(currentHandler)[currentHandler] = {}
        /\ AfterDrop(currentHandler)[p] = Events
    BY <1>1, <1>3, <2>1, <2>2
       DEF AfterDrop, Resume, SetHandlers, DropEvent, TypeOK
  <2> QED
    BY <1>3, <2>1, <2>2, <2>3, <2>4
<1> QED
  BY <1>2, <1>3

-----------------------------------------------------------------------------
(* One lemma for each step that concerns the calls.                        *)

\* A step that only moves start() along.
LEMMA LoopKeepsDiscipline ==
  ASSUME Lifecycle, Discipline,
         Start \/ TestShutDown \/ DispatchReturns \/ FlagShutDown
  PROVE  Discipline'
<1>1. UNCHANGED <<currentHandler, handlers, retiredHandlers, objectVars>>
  BY DEF Start, TestShutDown, DispatchReturns, FlagShutDown
<1>2. phase' # "undefined" /\ (phase = "threw" => phase' = "threw")
  BY DEF Start, TestShutDown, DispatchReturns, FlagShutDown, Discipline,
         NoUndefinedBehaviour
<1>3. InCallback' => InCallback
  BY <1>1 DEF Start, TestShutDown, DispatchReturns, FlagShutDown, InCallback,
              Lifecycle, PointersAreLive
<1> QED
  BY <1>1, <1>2, <1>3
     DEF objectVars, Discipline, AwaitedIsLive, OneCallee, RetiredIsSilent,
         FinishedIsRetired, NoUndefinedBehaviour, CallersAreQuiet,
         CurrentIsSound, Active, CallReturned, ResumeIsSafe, Running

\* The purge destroys no caller that is waited for.
LEMMA PurgeKeepsDiscipline ==
  ASSUME Lifecycle, Discipline, PurgeRetiredHandlers
  PROVE  Discipline'
<1> USE DEF PurgeRetiredHandlers, DestroyEvents, Lifecycle, Discipline, Active
<1>1. \A h \in Handler : Active(h)' <=> Active(h)
  OBVIOUS
<1>2. \A h \in Handler : Active(h) => /\ kind'[h] = kind[h]
                                      /\ armed'[h] = armed[h]
                                      /\ suspended'[h] = suspended[h]
                                      /\ worker'[h] = worker[h]
                                      /\ transfers'[h] = transfers[h]
  OBVIOUS
<1>3. \A h \in handlers' : Active(h)
  OBVIOUS
<1>4. AwaitedIsLive'
  BY <1>1, <1>2 DEF AwaitedIsLive, TypeOK
<1>5. OneCallee'
  BY <1>1, <1>2 DEF OneCallee
<1>6. CallersAreQuiet'
  <2>1. \A p \in Handler : CallReturned(p) => CallReturned(p)'
    BY <1>1, <1>2 DEF CallReturned
  <2>2. UNCHANGED currentHandler
    OBVIOUS
  <2> QED
    BY <1>2, <1>3, <2>1, <2>2 DEF CallersAreQuiet, TypeOK
<1>7. CurrentIsSound' /\ RetiredIsSilent' /\ NoUndefinedBehaviour'
  BY DEF CurrentIsSound, InCallback, RetiredIsSilent, NoUndefinedBehaviour
<1>8. FinishedIsRetired'
  BY DEF FinishedIsRetired, FreshIsBlank, Fresh
<1> QED
  BY <1>4, <1>5, <1>6, <1>7, <1>8

\* A handler that is woken runs with nothing pending that could wake it.
LEMMA ActivateKeepsDiscipline ==
  ASSUME CallAssumption, Lifecycle, Discipline,
         NEW h \in Handler, NEW e \in Events, Activate(h, e)
  PROVE  Discipline'
<1> USE DEF Activate, Lifecycle, Discipline, Active
<1>1. /\ CanFire(h, e) /\ Active(h) /\ worker[h] # "done"
      /\ worker[h] = "called" => CallReturned(h)
      /\ ResumeIsSafe(h)
  BY FiringIsSound
<1>2. worker' \in [Handler -> WorkerStates]
  BY DEF TypeOK, WorkerStates
<1>3. \A g \in Handler \ {h} : armed'[g] = armed[g] /\ worker'[g] = worker[g]
  BY DEF TypeOK
<1>4. \A c \in Handler : Active(c) /\ suspended[c] # NoHandler
                           => suspended[c] # h
  BY <1>1 DEF AwaitedIsLive, CallReturned
<1>5. AwaitedIsLive'
  BY <1>3, <1>4 DEF AwaitedIsLive, TypeOK
<1>6. OneCallee'
  BY DEF OneCallee
<1>7. RetiredIsSilent'
  BY <1>1, <1>3 DEF RetiredIsSilent, PointersAreLive
<1>8. worker'[h] = worker[h] \/ worker'[h] \in {"first", "again"}
  BY DEF TypeOK
<1>9. FinishedIsRetired'
  BY <1>1, <1>3, <1>8 DEF FinishedIsRetired, CanFire
<1>10. CallersAreQuiet'
  <2> SUFFICES ASSUME NEW p \in handlers
               PROVE  /\ worker'[p] = "called" => kind[p] \in CallerKinds
                      /\ kind[p] \in CallerKinds =>
                           /\ transfers[p] = 0 => armed'[p] # Events
                           /\ p = h => /\ WRITE \notin armed'[p]
                                       /\ transfers[p] = 0 => armed'[p] = {}
                           /\ worker'[p] = "called" => transfers[p] > 0
                           /\ worker'[p] = "called" /\ ~CallReturned(p)
                                => WRITE \notin armed'[p]
    BY DEF CallersAreQuiet, CallReturned
  <2>1. CASE p # h
    BY <1>3, <2>1 DEF CallersAreQuiet, TypeOK
  <2>2. CASE p = h /\ kind[h] \in CallerKinds
    <3>1. armed'[h] = armed[h] \ {e} /\ worker'[h] \in {"first", "again"}
      BY <2>2, ConstantsAssumption DEF TypeOK, SuspendableKinds
    <3>2. transfers[h] = 0 => armed[h] # Events
      BY <2>2 DEF CallersAreQuiet
    <3>3. e \in armed[h] /\ armed[h] \subseteq Events
      BY DEF CanFire, TypeOK
    <3>4. transfers[h] > 0 => e = WRITE
      BY DEF CanFire, CallAssumption
    <3>5. transfers[h] = 0 \/ transfers[h] > 0
      BY DEF TypeOK
    <3>6. CASE transfers[h] = 0
      <4>1. armed'[h] = {}
        BY <3>1, <3>2, <3>3, <3>6 DEF Events, READ, WRITE
      <4> QED
        BY <2>2, <3>1, <3>6, <4>1 DEF Events
    <3>7. CASE transfers[h] > 0
      BY <2>2, <3>1, <3>4, <3>7
    <3> QED
      BY <3>5, <3>6, <3>7
  <2>3. CASE p = h /\ kind[h] \notin CallerKinds
    BY <1>1, <1>8, <2>3 DEF CallersAreQuiet
  <2> QED
    BY <2>1, <2>2, <2>3
<1>11. CurrentIsSound'
  <2>1. kind[h] \in SuspendableKinds => worker'[h] \in {"first", "again"}
    BY DEF TypeOK
  <2> QED
    BY <1>1, <2>1 DEF CurrentIsSound, Running, ResumeIsSafe
<1>12. NoUndefinedBehaviour'
  BY DEF NoUndefinedBehaviour
<1> QED
  BY <1>5, <1>6, <1>7, <1>9, <1>10, <1>11, <1>12

\* A new handler that is not created by a call: nothing refers to it.
LEMMA CreateKeepsDiscipline ==
  ASSUME Lifecycle, Discipline, NEW h \in Handler, NEW zero \in BOOLEAN,
         ListenOn(h) \/ AddTimer(h, zero)
  PROVE  Discipline'
<1> USE DEF Lifecycle, Discipline, Active
<1>1. /\ Fresh(h)
      /\ handlers' = handlers \cup {h}
      /\ kind' = [kind EXCEPT ![h] = "server"]
           \/ kind' = [kind EXCEPT ![h] = "timer"]
      /\ UNCHANGED <<phase, currentHandler, retiredHandlers, suspended,
                     worker, transfers>>
      /\ \A g \in Handler \ {h} : armed'[g] = armed[g]
  BY DEF ListenOn, AddTimer, AddHandler, SetHandlers, TypeOK
<1>2. /\ h \notin handlers /\ h \notin retiredHandlers
      /\ worker[h] = "none" /\ suspended[h] = NoHandler
  BY <1>1 DEF Fresh, FreshIsBlank, PointersAreLive
<1>3. kind'[h] \notin CallerKinds /\ \A g \in Handler \ {h} : kind'[g] = kind[g]
  BY <1>1, ConstantsAssumption DEF TypeOK, SuspendableKinds
<1>4. \A c \in Handler : Active(c) => suspended[c] # h
  BY <1>2, ConstantsAssumption DEF AwaitedIsLive
<1>5. AwaitedIsLive' /\ OneCallee'
  BY <1>1, <1>2 DEF AwaitedIsLive, OneCallee
<1>6. RetiredIsSilent'
  BY <1>1, <1>2 DEF RetiredIsSilent, TypeOK
<1>7. FinishedIsRetired' /\ NoUndefinedBehaviour'
  BY <1>1 DEF FinishedIsRetired, NoUndefinedBehaviour
<1>8. CallersAreQuiet'
  <2>1. \A p \in Handler : CallReturned(p) => CallReturned(p)'
    BY <1>1, <1>2, ConstantsAssumption DEF CallReturned
  <2> QED
    BY <1>1, <1>2, <1>3, <2>1 DEF CallersAreQuiet, TypeOK
<1>9. CurrentIsSound'
  <2>1. InCallback' => /\ InCallback /\ currentHandler # h
                       /\ currentHandler \in Handler
    BY <1>1, <1>2 DEF InCallback, PointersAreLive, TypeOK
  <2> SUFFICES ASSUME InCallback'
               PROVE  (/\ ResumeIsSafe(currentHandler)
                       /\ kind[currentHandler] \in SuspendableKinds
                            => Running(currentHandler)
                       /\ kind[currentHandler] \in PlainKinds
                            => Active(currentHandler))'
    BY DEF CurrentIsSound
  <2>2. kind'[currentHandler] = kind[currentHandler]
    BY <1>3, <2>1
  <2>3. ResumeIsSafe(currentHandler)'
    BY <1>1, <2>1 DEF CurrentIsSound, ResumeIsSafe
  <2>4. kind[currentHandler] \in PlainKinds => Active(currentHandler)'
    BY <1>1, <2>1 DEF CurrentIsSound
  <2> QED
    BY <1>1, <2>1, <2>2, <2>3, <2>4 DEF CurrentIsSound, Running
<1> QED
  BY <1>5, <1>6, <1>7, <1>8, <1>9

\* An accepted connection: its handler has made no call, and waits for one
\* event if it will.
LEMMA AcceptKeepsDiscipline ==
  ASSUME CallAssumption, Lifecycle, Discipline, NEW h \in Handler,
         NEW k \in AcceptKinds, NEW s \in Socket, AcceptConnection(h, k, s)
  PROVE  Discipline'
<1> USE DEF Lifecycle, Discipline, Active
<1>1. /\ Fresh(h)
      /\ handlers' = handlers \cup {h}
      /\ kind' = [kind EXCEPT ![h] = k]
      /\ currentHandler' = NoHandler
      /\ UNCHANGED <<phase, retiredHandlers, suspended, worker, transfers>>
  BY DEF AcceptConnection, AddHandler, CallbackReturns
<1>2. /\ h \notin handlers /\ h \notin retiredHandlers
      /\ worker[h] = "none" /\ suspended[h] = NoHandler
      /\ armed[h] = {} /\ transfers[h] = 0
  BY <1>1 DEF Fresh, FreshIsBlank, PointersAreLive
<1>3. /\ InCallback /\ kind[currentHandler] = "server"
      /\ currentHandler \in handlers /\ currentHandler \in Handler
  BY CurrentInMap, CurrentType DEF AcceptConnection
<1>4. Active(currentHandler) /\ currentHandler # h
  BY <1>2, <1>3 DEF CurrentIsSound, PlainKinds
<1>5. /\ armed'[h] = EventType(k)
      /\ \A g \in Handler \ {h, currentHandler} : armed'[g] = armed[g]
  BY <1>2, <1>3, <1>4 DEF AcceptConnection, SetHandlers, TypeOK
<1>6. AwaitedIsLive' /\ OneCallee'
  BY <1>1, <1>2 DEF AwaitedIsLive, OneCallee
<1>7. RetiredIsSilent'
  BY <1>1, <1>2, <1>4, <1>5 DEF RetiredIsSilent, TypeOK
<1>8. FinishedIsRetired' /\ NoUndefinedBehaviour'
  BY <1>1 DEF FinishedIsRetired, NoUndefinedBehaviour
<1>9. CallersAreQuiet'
  <2>1. \A p \in Handler : CallReturned(p) => CallReturned(p)'
    BY <1>1, <1>2, ConstantsAssumption DEF CallReturned
  <2>2. kind'[h] = k /\ \A g \in Handler \ {h} : kind'[g] = kind[g]
    BY <1>1 DEF TypeOK
  <2>3. kind'[currentHandler] \notin CallerKinds
    BY <1>3, <1>4, <2>2, ConstantsAssumption DEF SuspendableKinds
  <2>4. k \in CallerKinds => EventType(k) # Events
    BY DEF CallAssumption
  <2>5. NoHandler \notin handlers'
    BY <1>1, ConstantsAssumption DEF TypeOK
  <2> SUFFICES ASSUME NEW p \in handlers'
               PROVE  (/\ worker[p] = "called" => kind[p] \in CallerKinds
                       /\ kind[p] \in CallerKinds =>
                            /\ transfers[p] = 0 => armed[p] # Events
                            /\ worker[p] = "called" => transfers[p] > 0
                            /\ worker[p] = "called" /\ ~CallReturned(p)
                                 => WRITE \notin armed[p])'
    BY <1>1, <2>5 DEF CallersAreQuiet
  <2>6. CASE p = h
    BY <1>1, <1>2, <1>5, <2>2, <2>4, <2>6
  <2>7. CASE p = currentHandler
    BY <1>1, <1>3, <2>3, <2>7, CurrentNotCalling
  <2>8. CASE p \notin {h, currentHandler}
    BY <1>1, <1>5, <2>1, <2>2, <2>8 DEF CallersAreQuiet, TypeOK
  <2> QED
    BY <2>6, <2>7, <2>8
<1>10. CurrentIsSound'
  BY <1>1 DEF CurrentIsSound, InCallback
<1> QED
  BY <1>6, <1>7, <1>8, <1>9, <1>10

\* A callback that returns and leaves the handlers as they were.
LEMMA ReturnKeepsDiscipline ==
  ASSUME CallAssumption, Lifecycle, Discipline,
         \/ TimerReturns
         \/ PlainWaits
         \/ \E e \in Events : Suspend(e)
         \/ FinishAndKeep
         \/ CallbackThrows
  PROVE  Discipline'
<1> USE DEF Lifecycle, Discipline, Active
<1>1. /\ InCallback
      /\ currentHandler' = NoHandler
      /\ UNCHANGED <<handlers, retiredHandlers, kind, suspended, transfers>>
  BY DEF TimerReturns, PlainWaits, Suspend, InBody, FinishAndKeep,
         BodyReturns, CallbackThrows, CallbackReturns, objectVars
<1>2. /\ currentHandler \in handlers /\ currentHandler \in Handler
      /\ worker[currentHandler] # "called"
  BY <1>1, CurrentInMap, CurrentType, CurrentNotCalling
<1>3. /\ \A g \in Handler \ {currentHandler} :
           armed'[g] = armed[g] /\ worker'[g] = worker[g]
      /\ worker'[currentHandler] # "called"
  BY <1>2 DEF TimerReturns, PlainWaits, Suspend, FinishAndKeep, BodyReturns,
              CallbackThrows, objectVars, SetHandlers, TypeOK
<1>4. AwaitedIsLive'
  BY <1>1, <1>2, <1>3 DEF AwaitedIsLive, TypeOK
<1>5. OneCallee'
  BY <1>1 DEF OneCallee
<1>6. \/ armed'[currentHandler] = armed[currentHandler]
      \/ Active(currentHandler)
  BY <1>2 DEF TimerReturns, PlainWaits, Suspend, FinishAndKeep, CallbackThrows,
              objectVars, CurrentIsSound, PlainKinds, InBody
<1>7. RetiredIsSilent'
  BY <1>1, <1>3, <1>6 DEF RetiredIsSilent, TypeOK
<1>8. FinishedIsRetired'
  <2>1. CASE CallbackThrows
    BY <2>1 DEF CallbackThrows, FinishedIsRetired
  <2>2. CASE FinishAndKeep
    <3>1. currentHandler \in retiredHandlers /\ UNCHANGED phase
      BY <2>2 DEF FinishAndKeep, BodyReturns, FlagRead, CallAssumption
    <3> QED
      BY <1>1, <1>2, <1>3, <3>1 DEF FinishedIsRetired
  <2>3. CASE \E e \in Events : Suspend(e)
    <3>1. worker'[currentHandler] = "waiting" /\ UNCHANGED phase
      BY <1>2, <2>3 DEF Suspend, TypeOK
    <3> QED
      BY <1>1, <1>3, <3>1 DEF FinishedIsRetired
  <2>4. CASE TimerReturns \/ PlainWaits
    <3>1. UNCHANGED <<phase, worker>>
      BY <2>4 DEF TimerReturns, PlainWaits, objectVars
    <3> QED
      BY <1>1, <3>1 DEF FinishedIsRetired
  <2> QED
    BY <2>1, <2>2, <2>3, <2>4
<1>9. CallersAreQuiet'
  <2>1. kind[currentHandler] \in CallerKinds =>
          /\ WRITE \notin armed[currentHandler]
          /\ transfers[currentHandler] = 0 => armed[currentHandler] = {}
    BY <1>2 DEF CallersAreQuiet
  <2>2. kind[currentHandler] \in CallerKinds /\ transfers[currentHandler] = 0
          => armed'[currentHandler] # Events
    <3>1. kind[currentHandler] \in CallerKinds
            => kind[currentHandler] \notin PlainKinds
      BY ConstantsAssumption DEF PlainKinds, SuspendableKinds
    <3>2. CASE \E e \in Events : Suspend(e)
      <4>1. PICK e \in Events : armed'[currentHandler]
                                  = armed[currentHandler] \cup {e}
        BY <1>2, <3>2 DEF Suspend, SetHandlers, TypeOK
      <4> QED
        BY <2>1, <4>1 DEF Events, READ, WRITE
    <3>3. CASE TimerReturns \/ PlainWaits
      BY <3>1, <3>3 DEF TimerReturns, PlainWaits, PlainKinds
    <3>4. CASE FinishAndKeep \/ CallbackThrows
      BY <2>1, <3>4 DEF FinishAndKeep, CallbackThrows, Events
    <3> QED
      BY <3>2, <3>3, <3>4
  <2>3. NoHandler \notin handlers
    BY ConstantsAssumption DEF TypeOK
  <2>4. \A p \in Handler : CallReturned(p)' <=> CallReturned(p)
    BY <1>1 DEF CallReturned
  <2> SUFFICES ASSUME NEW p \in handlers
               PROVE  (/\ worker[p] = "called" => kind[p] \in CallerKinds
                       /\ kind[p] \in CallerKinds =>
                            /\ transfers[p] = 0 => armed[p] # Events
                            /\ worker[p] = "called" => transfers[p] > 0
                            /\ worker[p] = "called" /\ ~CallReturned(p)
                                 => WRITE \notin armed[p])'
    BY <1>1, <2>3 DEF CallersAreQuiet
  <2>5. CASE p = currentHandler
    BY <1>1, <1>3, <2>2, <2>5
  <2>6. CASE p # currentHandler
    BY <1>1, <1>3, <2>4, <2>6 DEF CallersAreQuiet, TypeOK
  <2> QED
    BY <2>5, <2>6
<1>10. CurrentIsSound' /\ NoUndefinedBehaviour'
  BY <1>1 DEF CurrentIsSound, InCallback, NoUndefinedBehaviour, TimerReturns,
              PlainWaits, Suspend, FinishAndKeep, BodyReturns, CallbackThrows
<1> QED
  BY <1>4, <1>5, <1>7, <1>8, <1>9, <1>10

\* A call: the caller waits, with no event that could wake it but input.
LEMMA TransferKeepsDiscipline ==
  ASSUME CallAssumption, Lifecycle, Discipline, NEW h \in Handler,
         NEW k \in CallKinds, TransferHandler(h, k)
  PROVE  Discipline'
<1> USE DEF Lifecycle, Discipline, Active
<1> DEFINE cur == currentHandler
<1>1. /\ Fresh(h)
      /\ handlers' = handlers \cup {h}
      /\ kind' = [kind EXCEPT ![h] = k]
      /\ suspended' = [suspended EXCEPT ![h] = cur]
      /\ worker' = [worker EXCEPT ![cur] = "called"]
      /\ transfers' = [transfers EXCEPT ![cur] = @ + 1]
      /\ currentHandler' = NoHandler
      /\ UNCHANGED <<phase, retiredHandlers>>
      /\ InBody /\ InCallback /\ kind[cur] \in CallerKinds
  BY DEF TransferHandler, AddHandler, CallbackReturns, InBody
<1>2. /\ h \notin handlers /\ h \notin retiredHandlers
      /\ worker[h] = "none" /\ suspended[h] = NoHandler
      /\ armed[h] = {} /\ transfers[h] = 0
  BY <1>1 DEF Fresh, FreshIsBlank, PointersAreLive
<1>3. /\ cur \in handlers /\ cur \in Handler /\ Active(cur) /\ cur # h
      /\ worker[cur] # "called"
  BY <1>1, <1>2, CurrentInMap, CurrentType, CurrentNotCalling DEF InBody
<1>4. /\ armed'[h] = EventType(k)
      /\ \A g \in Handler \ {h} : armed'[g] = armed[g]
  BY <1>2, <1>3 DEF TransferHandler, SetHandlers, SuspendEvents, TypeOK
<1>5. /\ suspended'[h] = cur /\ worker'[cur] = "called"
      /\ transfers'[cur] > 0 /\ transfers'[h] = 0 /\ worker'[h] = "none"
      /\ \A g \in Handler \ {h} :
           suspended'[g] = suspended[g] /\ kind'[g] = kind[g]
      /\ \A g \in Handler \ {cur} :
           worker'[g] = worker[g] /\ transfers'[g] = transfers[g]
  BY <1>1, <1>2, <1>3 DEF TypeOK
<1>6. \A c \in Handler : Active(c) => suspended[c] # cur
  BY <1>3, ConstantsAssumption DEF AwaitedIsLive
<1>7. AwaitedIsLive'
  BY <1>1, <1>2, <1>3, <1>5, <1>6 DEF AwaitedIsLive, TypeOK
<1>8. OneCallee'
  BY <1>1, <1>2, <1>5, <1>6 DEF OneCallee
<1>9. RetiredIsSilent'
  BY <1>1, <1>2, <1>4 DEF RetiredIsSilent, TypeOK
<1>10. FinishedIsRetired' /\ NoUndefinedBehaviour'
  BY <1>1, <1>5 DEF FinishedIsRetired, NoUndefinedBehaviour
<1>11. CallersAreQuiet'
  <2>1. \A p \in Handler \ {cur} : CallReturned(p) => CallReturned(p)'
    BY <1>1, <1>2, <1>5 DEF CallReturned
  <2>2. k \in CallerKinds => EventType(k) # Events
    BY DEF CallAssumption
  <2>3. NoHandler \notin handlers'
    BY <1>1, ConstantsAssumption DEF TypeOK
  <2> SUFFICES ASSUME NEW p \in handlers'
               PROVE  (/\ worker[p] = "called" => kind[p] \in CallerKinds
                       /\ kind[p] \in CallerKinds =>
                            /\ transfers[p] = 0 => armed[p] # Events
                            /\ worker[p] = "called" => transfers[p] > 0
                            /\ worker[p] = "called" /\ ~CallReturned(p)
                                 => WRITE \notin armed[p])'
    BY <1>1, <2>3 DEF CallersAreQuiet
  <2>4. CASE p = h
    <3>1. kind'[h] = k
      BY <1>1 DEF TypeOK
    <3> QED
      BY <1>4, <1>5, <2>2, <2>4, <3>1
  <2>5. CASE p = cur
    <3>1. WRITE \notin armed[cur]
      BY <1>1, <1>3 DEF CallersAreQuiet
    <3> QED
      BY <1>1, <1>3, <1>4, <1>5, <2>5, <3>1
  <2>6. CASE p \notin {h, cur}
    BY <1>1, <1>4, <1>5, <2>1, <2>6 DEF CallersAreQuiet, TypeOK
  <2> QED
    BY <2>4, <2>5, <2>6
<1>12. CurrentIsSound'
  BY <1>1 DEF CurrentIsSound, InCallback
<1> QED
  BY <1>7, <1>8, <1>9, <1>10, <1>11, <1>12

\* What moveHandler() and dropHandler() have in common: the running handler
\* retires, at most one handler appears, and whoever waited is resumed.
LEMMA RetireEffect ==
  ASSUME CallAssumption, Lifecycle, Discipline,
         \/ PlainDrops
         \/ FinishAndDrop
         \/ \E h \in Handler : PlainMoves(h) \/ BodyMoves(h)
  PROVE  /\ InCallback /\ Active(currentHandler)
         /\ retiredHandlers' = retiredHandlers \cup {currentHandler}
         /\ handlers \subseteq handlers'
         /\ UNCHANGED <<phase, suspended, transfers>>
         /\ \A g \in handlers : /\ kind'[g] = kind[g]
                                /\ armed'[g] = AfterDrop(currentHandler)[g]
         /\ \A g \in Handler \ {currentHandler} : worker'[g] = worker[g]
         /\ worker'[currentHandler] \in {worker[currentHandler], "done"}
         /\ \A g \in handlers' \ handlers : /\ armed'[g] = {WRITE}
                                            /\ suspended[g] = NoHandler
                                            /\ worker'[g] = "none"
                                            /\ transfers[g] = 0
         /\ \/ currentHandler' = NoHandler
            \/ /\ UNCHANGED <<currentHandler, worker>>
               /\ kind[currentHandler] \in SuspendableKinds
<1> USE DEF Lifecycle, Discipline, Active
<1>1. CASE PlainDrops \/ FinishAndDrop
  <2>1. InCallback /\ DropHandler /\ CallbackReturns
    BY <1>1 DEF PlainDrops, FinishAndDrop, BodyReturns
  <2>2. currentHandler \in handlers /\ currentHandler \in Handler
    BY <2>1, CurrentInMap, CurrentType
  <2>3. Active(currentHandler)
    BY <1>1, <2>1, <2>2
       DEF PlainDrops, FinishAndDrop, FlagRead, CallAssumption, CurrentIsSound,
           PlainKinds
  <2>4. UNCHANGED <<phase, handlers, kind, suspended, transfers>>
    BY <1>1 DEF PlainDrops, FinishAndDrop, BodyReturns
  <2>5. /\ \A g \in Handler \ {currentHandler} : worker'[g] = worker[g]
        /\ worker'[currentHandler] \in {worker[currentHandler], "done"}
    BY <1>1, <2>2 DEF PlainDrops, FinishAndDrop, BodyReturns, TypeOK
  <2> QED
    BY <2>1, <2>2, <2>3, <2>4, <2>5 DEF DropHandler, DelHandler, CallbackReturns
<1>2. ASSUME NEW h \in Handler, PlainMoves(h) \/ BodyMoves(h)
      PROVE  (/\ InCallback /\ Active(currentHandler)
              /\ retiredHandlers' = retiredHandlers \cup {currentHandler}
              /\ handlers' = handlers \cup {h}
              /\ UNCHANGED <<phase, suspended, transfers, worker>>
              /\ \A g \in handlers : /\ kind'[g] = kind[g]
                                     /\ armed'[g] = AfterDrop(currentHandler)[g]
              /\ h \notin handlers
              /\ armed'[h] = {WRITE} /\ suspended[h] = NoHandler
              /\ worker[h] = "none" /\ transfers[h] = 0
              /\ \/ currentHandler' = NoHandler
                 \/ /\ UNCHANGED currentHandler
                    /\ kind[currentHandler] \in SuspendableKinds)
  <2>1. InCallback /\ MoveHandler(h) /\ UNCHANGED <<suspended, worker>>
    BY <1>2 DEF PlainMoves, BodyMoves, InBody
  <2>2. currentHandler \in handlers /\ currentHandler \in Handler
    BY <2>1, CurrentInMap, CurrentType
  <2>3. Active(currentHandler)
    BY <1>2, <2>1, <2>2
       DEF PlainMoves, BodyMoves, InBody, CurrentIsSound, PlainKinds
  <2>4. /\ h \notin handlers /\ suspended[h] = NoHandler
        /\ worker[h] = "none" /\ transfers[h] = 0
    BY <2>1 DEF MoveHandler, AddHandler, Fresh, FreshIsBlank
  <2>5. AfterDrop(currentHandler) \in [Handler -> SUBSET Events]
    BY <2>2, AfterDropType
  <2>6. AfterDrop(currentHandler)[h] = {}
    BY <2>1, <2>2, <2>4, AfterDropBlank, DropIsSound, <2>3
       DEF MoveHandler, AddHandler
  <2>7. EventType(MoveKind(kind[currentHandler])) = {WRITE}
    BY DEF EventType, MoveKind, ReadKinds, WriteKinds, Events, READ, WRITE
  <2>8. /\ armed'[h] = {WRITE}
        /\ \A g \in Handler \ {h} : armed'[g] = AfterDrop(currentHandler)[g]
    BY <2>1, <2>5, <2>6, <2>7 DEF MoveHandler, SetHandlers
  <2>9. \A g \in handlers : kind'[g] = kind[g]
    BY <2>1, <2>4 DEF MoveHandler, AddHandler, TypeOK
  <2>10. /\ UNCHANGED <<phase, transfers>>
         /\ \/ currentHandler' = NoHandler
            \/ /\ UNCHANGED currentHandler
               /\ kind[currentHandler] \in SuspendableKinds
    BY <1>2 DEF PlainMoves, BodyMoves, InBody, CallbackReturns
  <2>11. \A g \in handlers : armed'[g] = AfterDrop(currentHandler)[g]
    BY <2>4, <2>8 DEF TypeOK
  <2> QED
    BY <2>1, <2>3, <2>4, <2>8, <2>9, <2>10, <2>11
       DEF MoveHandler, AddHandler, DelHandler
<1>3. CASE \E h \in Handler : PlainMoves(h) \/ BodyMoves(h)
  <2>1. PICK h \in Handler : PlainMoves(h) \/ BodyMoves(h)
    BY <1>3
  <2> QED
    BY <1>2, <2>1
<1> QED
  BY <1>1, <1>3

\* The call is over when the handler it created retires; the caller, and
\* nobody else, is resumed.
LEMMA RetireKeepsDiscipline ==
  ASSUME CallAssumption, Lifecycle, Discipline, TypeOK',
         \/ PlainDrops
         \/ FinishAndDrop
         \/ \E h \in Handler : PlainMoves(h) \/ BodyMoves(h)
  PROVE  Discipline'
<1> USE DEF Lifecycle, Discipline, Active
<1> DEFINE cur == currentHandler
           p   == suspended[cur]
<1>1. /\ InCallback /\ Active(cur)
      /\ retiredHandlers' = retiredHandlers \cup {cur}
      /\ handlers \subseteq handlers'
      /\ UNCHANGED <<phase, suspended, transfers>>
      /\ \A g \in handlers : kind'[g] = kind[g] /\ armed'[g] = AfterDrop(cur)[g]
      /\ \A g \in Handler \ {cur} : worker'[g] = worker[g]
      /\ worker'[cur] \in {worker[cur], "done"}
      /\ \A g \in handlers' \ handlers : /\ armed'[g] = {WRITE}
                                         /\ suspended[g] = NoHandler
                                         /\ worker'[g] = "none"
                                         /\ transfers[g] = 0
      /\ \/ currentHandler' = NoHandler
         \/ /\ UNCHANGED <<currentHandler, worker>>
            /\ kind[currentHandler] \in SuspendableKinds
  BY RetireEffect
<1>2. /\ cur \in Handler /\ cur \in handlers /\ worker[cur] # "called"
      /\ handlers \subseteq Handler /\ handlers' \subseteq Handler
      /\ NoHandler \notin Handler
  BY <1>1, CurrentType, CurrentNotCalling, ConstantsAssumption DEF TypeOK
<1>3. /\ AfterDrop(cur)[cur] = {}
      /\ p # NoHandler => /\ Active(p) /\ p # cur /\ worker[p] = "called"
                          /\ transfers[p] > 0 /\ AfterDrop(cur)[p] = Events
  BY <1>1, DropIsSound
<1>4. \A g \in Handler \ {cur, p} : AfterDrop(cur)[g] = armed[g]
  BY <1>2, AfterDropElsewhere
<1>5. \A c \in Handler : Active(c)' /\ suspended[c] # NoHandler
                           => Active(c) /\ c # cur
  BY <1>1
<1>6. AwaitedIsLive'
  <2> SUFFICES ASSUME NEW c \in Handler, Active(c)', suspended[c] # NoHandler
               PROVE  Active(suspended[c])' /\ worker'[suspended[c]] = "called"
    BY <1>1 DEF AwaitedIsLive
  <2>1. Active(suspended[c]) /\ worker[suspended[c]] = "called"
    BY <1>5 DEF AwaitedIsLive
  <2>2. suspended[c] # cur /\ suspended[c] \in Handler
    BY <1>2, <2>1
  <2> QED
    BY <1>1, <2>1, <2>2
<1>7. OneCallee'
  BY <1>1, <1>5 DEF OneCallee
<1>8. RetiredIsSilent'
  <2> SUFFICES ASSUME NEW g \in retiredHandlers' PROVE armed'[g] = {}
    BY DEF RetiredIsSilent
  <2>1. g \in handlers
    BY <1>1, <1>2 DEF PointersAreLive
  <2>2. CASE g = cur
    BY <1>1, <1>3, <2>1, <2>2
  <2>3. CASE g # cur
    <3>1. g \in retiredHandlers /\ g # p
      BY <1>1, <1>2, <1>3, <2>1, <2>3
    <3> QED
      BY <1>1, <1>2, <1>4, <2>1, <2>3, <3>1 DEF RetiredIsSilent
  <2> QED
    BY <2>2, <2>3
<1>9. FinishedIsRetired' /\ NoUndefinedBehaviour'
  BY <1>1 DEF FinishedIsRetired, NoUndefinedBehaviour
<1>10. CallersAreQuiet'
  <2>1. \A q \in Handler : CallReturned(q) => CallReturned(q)'
    BY <1>1, <1>2, <1>5 DEF CallReturned
  <2>2. \A q \in Handler : q = p => CallReturned(q)'
    <3> SUFFICES ASSUME NEW q \in Handler, q = p,
                        NEW c \in Handler, suspended[c] = q
                 PROVE  ~Active(c)'
      BY <1>1 DEF CallReturned
    <3> QED
      BY <1>1, <1>2, <1>5 DEF OneCallee
  <2> SUFFICES ASSUME NEW q \in handlers'
               PROVE  (/\ worker[q] = "called" => kind[q] \in CallerKinds
                       /\ kind[q] \in CallerKinds =>
                            /\ transfers[q] = 0 => armed[q] # Events
                            /\ q = currentHandler =>
                                 /\ WRITE \notin armed[q]
                                 /\ transfers[q] = 0 => armed[q] = {}
                            /\ worker[q] = "called" => transfers[q] > 0
                            /\ worker[q] = "called" /\ ~CallReturned(q)
                                 => WRITE \notin armed[q])'
    BY DEF CallersAreQuiet
  <2>3. CASE q = cur
    BY <1>1, <1>2, <1>3, <2>3 DEF Events
  <2>4. CASE q \in handlers' \ handlers
    BY <1>1, <1>2, <2>4 DEF Events, READ, WRITE
  <2>5. CASE q \in handlers \ {cur}
    <3>1. currentHandler' # q
      BY <1>1, <1>2, <2>5
    <3>2. CASE q = p
      <4>1. transfers[p] # 0 /\ kind[p] \in CallerKinds
        BY <1>2, <1>3, <2>5, <3>2 DEF CallersAreQuiet, TypeOK
      <4> QED
        BY <1>1, <1>2, <1>3, <2>2, <2>5, <3>1, <3>2, <4>1
    <3>3. CASE q # p
      <4>1. armed'[q] = armed[q] /\ worker'[q] = worker[q] /\ kind'[q] = kind[q]
        BY <1>1, <1>2, <1>4, <2>5, <3>3
      <4> QED
        BY <1>1, <1>2, <2>1, <2>5, <3>1, <4>1 DEF CallersAreQuiet
    <3> QED
      BY <3>2, <3>3
  <2> QED
    BY <2>3, <2>4, <2>5
<1>11. CurrentIsSound'
  <2> SUFFICES ASSUME InCallback', UNCHANGED <<currentHandler, worker>>,
                      kind[cur] \in SuspendableKinds
               PROVE  (/\ ResumeIsSafe(currentHandler)
                       /\ kind[currentHandler] \in SuspendableKinds
                            => Running(currentHandler)
                       /\ kind[currentHandler] \in PlainKinds
                            => Active(currentHandler))'
    BY <1>1 DEF CurrentIsSound, InCallback
  <2>1. ResumeIsSafe(cur)'
    BY <1>1 DEF CurrentIsSound, ResumeIsSafe
  <2>2. kind'[cur] = kind[cur]
    BY <1>1, <1>2
  <2>3. kind[cur] \notin PlainKinds
    BY DEF PlainKinds, SuspendableKinds
  <2> QED
    BY <1>1, <2>1, <2>2, <2>3 DEF CurrentIsSound, Running
<1> QED
  BY <1>6, <1>7, <1>8, <1>9, <1>10, <1>11

-----------------------------------------------------------------------------
(* The invariant and what follows from it.                                 *)

\* Every step keeps the call discipline.
LEMMA DisciplineStep ==
  ASSUME CallAssumption, Lifecycle, Lifecycle', Discipline, [Next]_vars
  PROVE  Discipline'
<1>1. CASE UNCHANGED vars
  BY <1>1 DEF vars, serverVars, objectVars, Discipline, AwaitedIsLive,
              OneCallee, RetiredIsSilent, FinishedIsRetired,
              NoUndefinedBehaviour, CallersAreQuiet, CurrentIsSound, Active,
              CallReturned, ResumeIsSafe, Running, InCallback
<1>2. CASE Start \/ FlagShutDown
  BY <1>2, LoopKeepsDiscipline
<1>3. CASE Loop
  BY <1>3, LoopKeepsDiscipline, PurgeKeepsDiscipline DEF Loop
<1>4. CASE \E h \in Handler, e \in Events : Activate(h, e)
  BY <1>4, ActivateKeepsDiscipline
<1>5. ~ \E h \in Handler, e \in Events : ActivateFinished(h, e)
  BY FiringIsSound DEF ActivateFinished
<1>6. CASE \E h \in Handler : ListenOn(h)
  BY <1>6, CreateKeepsDiscipline
<1>7. CASE \E h \in Handler, zero \in BOOLEAN : AddTimer(h, zero)
  BY <1>7, CreateKeepsDiscipline
<1>8. CASE \E h \in Handler : BodyMoves(h)
  BY <1>8, RetireKeepsDiscipline DEF Lifecycle
<1>9. CASE Return
  <2>1. ~ ResumeDestroyed
    BY DEF ResumeDestroyed, Discipline, CurrentIsSound
  <2>2. CASE \E h \in Handler, k \in AcceptKinds, s \in Socket :
               AcceptConnection(h, k, s)
    BY <2>2, AcceptKeepsDiscipline
  <2>3. CASE \E h \in Handler, k \in CallKinds : TransferHandler(h, k)
    BY <2>3, TransferKeepsDiscipline
  <2>4. CASE \/ PlainDrops
             \/ FinishAndDrop
             \/ \E h \in Handler : PlainMoves(h)
    BY <2>4, RetireKeepsDiscipline DEF Lifecycle
  <2>5. CASE \/ TimerReturns
             \/ PlainWaits
             \/ \E e \in Events : Suspend(e)
             \/ FinishAndKeep
             \/ CallbackThrows
    BY <2>5, ReturnKeepsDiscipline
  <2> QED
    BY <1>9, <2>1, <2>2, <2>3, <2>4, <2>5 DEF Return
<1> QED
  BY <1>1, <1>2, <1>3, <1>4, <1>5, <1>6, <1>7, <1>8, <1>9 DEF Next

\* The call discipline is an invariant, if the dropHandler flag survives and
\* the clients are quiet.
THEOREM DisciplineCorrect == CallAssumption => (Spec => []Discipline)
<1> SUFFICES ASSUME CallAssumption PROVE Spec => []Discipline
  OBVIOUS
<1>1. Init => Discipline
  BY ConstantsAssumption
     DEF Init, Discipline, AwaitedIsLive, OneCallee, RetiredIsSilent,
         FinishedIsRetired, NoUndefinedBehaviour, CallersAreQuiet,
         CurrentIsSound, Active, InCallback
<1>2. Lifecycle /\ Lifecycle' /\ Discipline /\ [Next]_vars => Discipline'
  BY DisciplineStep
<1> QED
  BY <1>1, <1>2, LifecycleCorrect, PTL DEF Spec

\* doDropHandler() resumes a live caller that is waiting for this very call.
THEOREM CallersAwait == CallAssumption => (Spec => []AwaitedIsLive)
<1>1. Discipline => AwaitedIsLive
  BY DEF Discipline
<1> QED
  BY <1>1, DisciplineCorrect, PTL

\* No event of a retired handler is pending.
THEOREM RetiredAreSilent == CallAssumption => (Spec => []RetiredIsSilent)
<1>1. Discipline => RetiredIsSilent
  BY DEF Discipline
<1> QED
  BY <1>1, DisciplineCorrect, PTL

\* A handler whose body has returned is retired.
THEOREM FinishedAreRetired == CallAssumption => (Spec => []FinishedIsRetired)
<1>1. Discipline => FinishedIsRetired
  BY DEF Discipline
<1> QED
  BY <1>1, DisciplineCorrect, PTL

\* No finished coroutine is entered and no destroyed handler is resumed.
THEOREM BehaviourIsDefined ==
  CallAssumption => (Spec => []NoUndefinedBehaviour)
<1>1. Discipline => NoUndefinedBehaviour
  BY DEF Discipline
<1> QED
  BY <1>1, DisciplineCorrect, PTL

\* A caller goes on only when the handler it created is over.
THEOREM CallersReallyWait == CallAssumption => (Spec => CallerWaits)
<1> SUFFICES ASSUME CallAssumption PROVE Spec => CallerWaits
  OBVIOUS
<1>1. Lifecycle /\ Discipline /\ [Next]_vars => [WakesReturned]_vars
  <2> SUFFICES ASSUME Lifecycle, Discipline, Next,
                      NEW p \in Handler,
                      worker[p] = "called", worker'[p] = "again"
               PROVE  CallReturned(p)
    BY DEF WakesReturned
  <2>1. ASSUME NEW h \in Handler, NEW e \in Events, Activate(h, e)
        PROVE  CallReturned(p)
    <3>1. p = h
      BY <2>1 DEF Activate, Lifecycle, TypeOK
    <3> QED
      BY <2>1, <3>1, FiringIsSound DEF Activate
  <2>2. CASE \E h \in Handler, e \in Events : Activate(h, e)
    BY <2>1, <2>2
  <2>3. CASE PurgeRetiredHandlers
    BY <2>3 DEF PurgeRetiredHandlers
  <2>4. CASE UNCHANGED worker
    BY <2>4
  <2>5. CASE \E e \in Events : Suspend(e)
    BY <2>5, CurrentType DEF Suspend, InBody, Lifecycle, TypeOK
  <2>6. CASE \E h \in Handler, k \in CallKinds : TransferHandler(h, k)
    BY <2>6, CurrentType DEF TransferHandler, InBody, Lifecycle, TypeOK
  <2>7. CASE FinishAndDrop \/ FinishAndKeep
    BY <2>7, CurrentType
       DEF FinishAndDrop, FinishAndKeep, BodyReturns, Lifecycle, TypeOK
  <2>8. CASE CallbackThrows
    BY <2>8, CurrentType DEF CallbackThrows, Lifecycle, TypeOK
  <2> QED
    BY <2>2, <2>3, <2>4, <2>5, <2>6, <2>7, <2>8
       DEF Next, Start, Loop, TestShutDown, DispatchReturns, ActivateFinished,
           FlagShutDown, ListenOn, AddTimer, BodyMoves, Return,
           AcceptConnection, TimerReturns, PlainWaits, PlainDrops, PlainMoves,
           ResumeDestroyed, objectVars
<1> QED
  BY <1>1, LifecycleCorrect, DisciplineCorrect, PTL DEF Spec, CallerWaits

=============================================================================
