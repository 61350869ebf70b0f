---------------------------- MODULE HandlerCalls ----------------------------
(***************************************************************************)
(* What the event loop promises to the author of a handler, with no mention*)
(* of events, coroutines or the purge: transferHandler() is a procedure    *)
(* call.  The caller continues only when the handler it created is over,   *)
(* and no handler is destroyed while another one will return to it.        *)
(***************************************************************************)
EXTENDS FiniteSets

CONSTANTS Handler, NoHandler

VARIABLES
  status,   \* free, ready, calling or over
  caller    \* the handler to return to

vars == <<status, caller>>

TypeOK == /\ status \in [Handler -> {"free", "ready", "calling", "over"}]
          /\ caller \in [Handler -> Handler \cup {NoHandler}]

Unfinished(h) == status[h] \in {"ready", "calling"}

\* Nothing that h called is still at work.
Returned(h) == \A c \in Handler : caller[c] = h => ~Unfinished(c)

Init == /\ status = [h \in Handler |-> "free"]
        /\ caller = [h \in Handler |-> NoHandler]

\* A handler appears: a listener, a timer, an accepted connection.
Create(h) ==
  /\ status[h] = "free"
  /\ status' = [status EXCEPT ![h] = "ready"]
  /\ UNCHANGED caller

\* p calls c and waits.
Call(p, c) ==
  /\ status[p] = "ready"
  /\ status[c] = "free"
  /\ status' = [status EXCEPT ![p] = "calling", ![c] = "ready"]
  /\ caller' = [caller EXCEPT ![c] = p]

\* The call that p made is over: p goes on.
Continue(p) ==
  /\ status[p] = "calling"
  /\ Returned(p)
  /\ status' = [status EXCEPT ![p] = "ready"]
  /\ UNCHANGED caller

\* h has nothing more to do.
End(h) ==
  /\ status[h] = "ready"
  /\ status' = [status EXCEPT ![h] = "over"]
  /\ UNCHANGED caller

\* h is over and n continues its work on the same connection.
Replace(h, n) ==
  /\ status[h] = "ready"
  /\ status[n] = "free"
  /\ status' = [status EXCEPT ![h] = "over", ![n] = "ready"]
  /\ UNCHANGED caller

\* The handlers that are over are destroyed; nobody returns to them.
Reclaim ==
  LET gone == {h \in Handler : status[h] = "over"}
  IN /\ \A h \in gone : Returned(h)
     /\ status' = [h \in Handler |-> IF h \in gone THEN "free" ELSE status[h]]
     /\ caller' = [h \in Handler |-> IF h \in gone THEN NoHandler
                                                   ELSE caller[h]]

Next == \/ \E h \in Handler : Create(h) \/ Continue(h) \/ End(h)
        \/ \E h, g \in Handler : Call(h, g) \/ Replace(h, g)
        \/ Reclaim

Spec == Init /\ [][Next]_vars

=============================================================================
