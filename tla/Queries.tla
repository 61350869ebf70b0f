------------------------------ MODULE Queries ------------------------------
(***************************************************************************)
(* Core/SQL: handlers that talk to a MySQL server through connections that *)
(* they may share, as the static connection of Example/AddBeer is shared   *)
(* by every request.  A caller prepares or executes a statement; a handler *)
(* of its own (MySQLPrepareHandler, MySQLExecuteHandler) writes the request*)
(* and reads the first part of the reply, and the caller waits for it.     *)
(* Then the caller itself reads the rows.  Whenever the stream would block *)
(* it calls the yield functions it was last given, to suspend the handler  *)
(* that gave them (NonBlockingPrepareStatement.cpp).                       *)
(*                                                                         *)
(* Callers, handlers and their wake-ups are those of NisseServer: a caller *)
(* goes on when its handler is dropped, and a handler is dropped when its  *)
(* body returns (HandlerCalls).  The server answers the requests of one    *)
(* connection in their order; what is between the packets is abstracted.   *)
(***************************************************************************)
EXTENDS Integers, Sequences, FiniteSets

\* Nothing refers to a definition whose comment begins with "Mutation": it is
\* what a plausible mistake would make of the definition that follows.

CONSTANTS Caller,   \* handlers whose code uses a statement
          Loader,   \* those that cannot suspend, such as one that loads a site
          NoCaller,
          Conn, NoConn,
          MaxCalls  \* bound: how many calls each caller makes

ASSUME QueriesAssumption ==
  /\ Loader \subseteq Caller /\ NoCaller \notin Caller /\ NoConn \notin Conn
  /\ IsFiniteSet(Caller) /\ IsFiniteSet(Conn)
  /\ MaxCalls \in [Caller -> Nat]

VARIABLES
  pc,       \* where the call of a caller is, see below
  op,       \* what the call does
  conn,     \* the connection it uses, NoConn outside calls
  taken,    \* packets of the reply that it has read
  yield,    \* the handler's caller that a stream's yield functions suspend
  half,     \* whose request is written in part
  atServer, \* packets that the server has still to send
  arrived,  \* packets to be read
  running,  \* the caller in whose code, or whose handler's, the thread of the
            \* event loop is
  calls,    \* calls that a caller has begun
  undefined,  \* history: another handler's coroutine was suspended, or two
              \* requests were mixed up on the way to the server
  shared,   \* history: another call used the connection during this call
  mixed     \* history: the call has read a packet that was not its next

callVars == <<op, conn, calls>>
wireVars == <<half, atServer, arrived>>
vars == <<pc, callVars, taken, yield, wireVars, running, undefined, shared, mixed>>

(***************************************************************************)
(* idle     the caller's code is not in a call                             *)
(* created  transferHandler() has created the handler                      *)
(* writing  the handler, or a loader, writes the request                   *)
(* reading  the handler, or a loader, reads the first part of the reply    *)
(* dropped  the handler is over and the caller is about to be resumed      *)
(* rows     the caller reads the rows                                      *)
(***************************************************************************)
Stages == {"idle", "created", "writing", "reading", "dropped", "rows"}
Ops    == {"prepare", "execute"}
NoOp   == "none"

\* The server's reply: two packets that the handler waits for, and, to an
\* execute, one more for the rows and their end.
HeadSize == 2
Size(o) == IF o = "execute" THEN 3 ELSE 2
Reply(c, o) == [i \in 1 .. Size(o) |-> [to |-> c, part |-> i]]

InCall(c) == pc[c] # "idle"
Others(c) == {d \in Caller \ {c} : InCall(d) /\ conn[d] = conn[c]}
\* The handler of c exists.
HasHandler(c) == c \notin Loader /\ pc[c] \in {"created", "writing", "reading"}

\* The event loop may run a callback.
LoopRuns == running = NoCaller /\ ~undefined

Init ==
  /\ pc = [c \in Caller |-> "idle"]
  /\ op = [c \in Caller |-> NoOp]
  /\ conn = [c \in Caller |-> NoConn]
  /\ taken = [c \in Caller |-> 0]
  /\ yield = [k \in Conn |-> NoCaller]
  /\ half = [k \in Conn |-> NoCaller]
  /\ atServer = [k \in Conn |-> <<>>]
  /\ arrived = [k \in Conn |-> <<>>]
  /\ running = NoCaller
  /\ calls = [c \in Caller |-> 0]
  /\ undefined = FALSE
  /\ shared = [c \in Caller |-> FALSE]
  /\ mixed = [c \in Caller |-> FALSE]

-----------------------------------------------------------------------------
(* The stream of a connection.                                             *)

\* What c has still to read at this stage.
Missing(c) == (IF pc[c] = "rows" THEN Size(op[c]) ELSE HeadSize) - taken[c]

Min2(a, b) == IF a < b THEN a ELSE b

\* Mutation: c takes all there is.
TakeAll(c, n) ==
  /\ arrived' = [arrived EXCEPT ![conn[c]] = <<>>]
  /\ taken' = [taken EXCEPT ![c] = @ + Len(arrived[conn[c]])]
  /\ UNCHANGED mixed

\* c takes what there is of the n packets it wants.
Take(c, n) ==
  LET k == conn[c]
      m == Min2(n, Len(arrived[k]))
  IN  /\ arrived' = [arrived EXCEPT ![k] = SubSeq(@, m + 1, Len(@))]
      /\ taken' = [taken EXCEPT ![c] = @ + m]
      /\ mixed' = [mixed EXCEPT ![c] =
           @ \/ \E i \in 1 .. m : arrived[k][i] # [to |-> c, part |-> taken[c] + i]]

\* A read or write that would block calls the yield function that the stream
\* has: that of the handler at work suspends it, none makes it wait in the
\* thread of the event loop, and that of another handler, called outside its
\* coroutine, is undefined.
Wait(c) ==
  LET owner == yield[conn[c]]
  IN  /\ running' = IF owner = c THEN NoCaller ELSE c
      /\ undefined' = (owner \notin {NoCaller, c})

\* Mutation: nothing resets the yield functions.
YieldAfterNone(c) == yield

\* ~YieldSetter: the stream no longer suspends anything.
YieldAfter(c) == [yield EXCEPT ![conn[c]] = NoCaller]

\* The caller's code goes on: its call is over.
Return(c) ==
  /\ pc' = [pc EXCEPT ![c] = "idle"]
  /\ op' = [op EXCEPT ![c] = NoOp]
  /\ conn' = [conn EXCEPT ![c] = NoConn]

\* The body of c's handler returns, and it is dropped: that closes a
\* StreamCloser, and NonBlockingMySQLConnection::close() does nothing.
HandlerEnds(c) ==
  /\ pc' = [pc EXCEPT ![c] = "dropped"]
  /\ yield' = YieldAfter(c)
  /\ UNCHANGED <<op, conn>>

-----------------------------------------------------------------------------
(* Calls.                                                                  *)

\* The call is entered on connection k.  History: who shares it.
Enter(c, k, o) ==
  LET users == {d \in Caller \ {c} : InCall(d) /\ conn[d] = k}
  IN  /\ LoopRuns /\ pc[c] = "idle"
      /\ calls[c] < MaxCalls[c]
      /\ op' = [op EXCEPT ![c] = o]
      /\ conn' = [conn EXCEPT ![c] = k]
      /\ calls' = [calls EXCEPT ![c] = @ + 1]
      /\ taken' = [taken EXCEPT ![c] = 0]
      /\ mixed' = [mixed EXCEPT ![c] = FALSE]
      /\ shared' = [d \in Caller |-> IF d = c THEN users # {}
                                     ELSE shared[d] \/ d \in users]

\* NonBlockingPrepareStatement's constructor and doExecute(), in a handler
\* that can suspend: transferHandler().
Call(c, k, o) ==
  /\ c \notin Loader
  /\ Enter(c, k, o)
  /\ pc' = [pc EXCEPT ![c] = "created"]
  /\ UNCHANGED <<yield, wireVars, running, undefined>>

\* NonBlockingPrepareStatement's constructor elsewhere (inHandler() is FALSE
\* of a handler that cannot suspend): createProxy() runs in the caller, with
\* the yield functions that the stream happens to have.  doExecute() throws.
Prepare(c, k) ==
  /\ c \in Loader
  /\ Enter(c, k, "prepare")
  /\ pc' = [pc EXCEPT ![c] = "writing"]
  /\ running' = c
  /\ UNCHANGED <<yield, wireVars, undefined>>

\* Mutation: the handler does not set the yield functions.
SetYieldNot(c) == yield

\* YieldSetter
SetYield(c) == [yield EXCEPT ![conn[c]] = c]

\* eventActivateNonBlocking() begins.
HandlerStarts(c) ==
  /\ LoopRuns /\ pc[c] = "created"
  /\ yield' = SetYield(c)
  /\ pc' = [pc EXCEPT ![c] = "writing"]
  /\ running' = c
  /\ UNCHANGED <<callVars, taken, wireVars, undefined, shared, mixed>>

\* Mutation: a suspended handler waits for EV_READ only.
WokenToRead(c) ==
  pc[c] = "reading" /\ (arrived[conn[c]] # <<>> \/ Others(c) # {})

\* EV_READ on the connection's socket wakes every handler that waits for it;
\* one of them may find that another has read everything.
Woken(c) ==
  \/ pc[c] = "writing"
  \/ pc[c] = "reading" /\ (arrived[conn[c]] # <<>> \/ Others(c) # {})

\* A suspended handler is activated and goes on.
HandlerGoesOn(c) ==
  /\ LoopRuns /\ Woken(c)
  /\ running' = c
  /\ UNCHANGED <<pc, callVars, taken, yield, wireVars, undefined, shared, mixed>>

\* Mutation: execute() returns before the rows are read.
CallerResumesOnly(c) ==
  /\ LoopRuns /\ pc[c] = "dropped"
  /\ Return(c)
  /\ UNCHANGED <<running, calls, taken, yield, wireVars, undefined, shared, mixed>>

\* The handler was dropped, and doDropHandler() resumed the caller: a prepare
\* is over, execute() goes on to the rows.
CallerResumes(c) ==
  /\ LoopRuns /\ pc[c] = "dropped"
  /\ IF op[c] = "prepare"
     THEN Return(c) /\ UNCHANGED running
     ELSE /\ pc' = [pc EXCEPT ![c] = "rows"]
          /\ running' = c
          /\ UNCHANGED <<op, conn>>
  /\ UNCHANGED <<calls, taken, yield, wireVars, undefined, shared, mixed>>

-----------------------------------------------------------------------------
(* What a callback does with the stream.                                   *)

\* The socket takes all of the request, or the rest of it, and the reply is
\* wanted.  A request that is written while another is half written is mixed
\* up with it.
WritesAll(c) ==
  /\ ~undefined /\ running = c /\ pc[c] = "writing"
  /\ pc' = [pc EXCEPT ![c] = "reading"]
  /\ half' = [half EXCEPT ![conn[c]] = NoCaller]
  /\ atServer' = [atServer EXCEPT ![conn[c]] = @ \o Reply(c, op[c])]
  /\ undefined' = (half[conn[c]] \notin {NoCaller, c})
  /\ UNCHANGED <<callVars, taken, yield, arrived, running, shared, mixed>>

\* The socket takes a part of it.
WritesPart(c) ==
  /\ ~undefined /\ running = c /\ pc[c] = "writing"
  /\ half[conn[c]] = NoCaller
  /\ half' = [half EXCEPT ![conn[c]] = c]
  /\ Wait(c)
  /\ UNCHANGED <<pc, callVars, taken, yield, atServer, arrived, shared, mixed>>

\* A read, as far as it goes: it is over when nothing is missing.
Reads(c) ==
  /\ ~undefined /\ running = c /\ pc[c] \in {"reading", "rows"}
  /\ Take(c, Missing(c))
  /\ IF Len(arrived[conn[c]]) < Missing(c)
     THEN Wait(c) /\ UNCHANGED <<pc, op, conn, yield>>
     ELSE /\ IF pc[c] = "rows" \/ c \in Loader
             THEN Return(c) /\ UNCHANGED yield
             ELSE HandlerEnds(c)
          /\ running' = NoCaller
          /\ UNCHANGED undefined
  /\ UNCHANGED <<calls, half, atServer, shared>>

\* The MySQL server sends the next packet of a connection.
ServerSends(k) ==
  /\ ~undefined /\ atServer[k] # <<>>
  /\ arrived' = [arrived EXCEPT ![k] = Append(@, Head(atServer[k]))]
  /\ atServer' = [atServer EXCEPT ![k] = Tail(@)]
  /\ UNCHANGED <<pc, callVars, taken, yield, half, running, undefined, shared, mixed>>

Next ==
  \/ \E c \in Caller, k \in Conn :
       Prepare(c, k) \/ \E o \in Ops : Call(c, k, o)
  \/ \E c \in Caller : \/ HandlerStarts(c) \/ HandlerGoesOn(c) \/ CallerResumes(c)
                       \/ WritesAll(c) \/ WritesPart(c) \/ Reads(c)
  \/ \E k \in Conn : ServerSends(k)

\* The event loop runs the handlers whose sockets are ready, their code does
\* not stop, sockets take what is written to them, and the server answers.
Fairness ==
  /\ \A c \in Caller : /\ WF_vars(HandlerStarts(c)) /\ WF_vars(HandlerGoesOn(c))
                       /\ WF_vars(CallerResumes(c)) /\ WF_vars(WritesAll(c))
                       /\ WF_vars(Reads(c))
  /\ \A k \in Conn : WF_vars(ServerSends(k))

Spec == Init /\ [][Next]_vars /\ Fairness

-----------------------------------------------------------------------------
(* Properties.                                                             *)

Packet == [to : Caller, part : 1 .. 3]

TypeOK ==
  /\ pc \in [Caller -> Stages]
  /\ op \in [Caller -> Ops \cup {NoOp}]
  /\ conn \in [Caller -> Conn \cup {NoConn}]
  /\ \A c \in Caller : InCall(c) <=> conn[c] # NoConn /\ op[c] # NoOp
  /\ taken \in [Caller -> 0 .. 3]
  /\ yield \in [Conn -> Caller \cup {NoCaller}]
  /\ half \in [Conn -> Caller \cup {NoCaller}]
  /\ atServer \in [Conn -> Seq(Packet)]
  /\ arrived \in [Conn -> Seq(Packet)]
  /\ running \in Caller \cup {NoCaller}
  /\ \A c \in Caller : calls[c] \in 0 .. MaxCalls[c]
  /\ undefined \in BOOLEAN
  /\ shared \in [Caller -> BOOLEAN]
  /\ mixed \in [Caller -> BOOLEAN]

\* However many handlers share a connection, in whatever order they end, the
\* yield functions it keeps are never those of a handler that is gone.
YieldIsLive ==
  \A k \in Conn : yield[k] # NoCaller =>
    conn[yield[k]] = k /\ HasHandler(yield[k]) /\ pc[yield[k]] # "created"

\* A connection that nobody uses is as it was opened: no yield functions, and
\* nothing written to it or read from it in part.
IdleIsClean ==
  ~undefined => \A k \in Conn : (\A c \in Caller : InCall(c) => conn[c] # k) =>
    yield[k] = NoCaller /\ half[k] = NoCaller
    /\ atServer[k] = <<>> /\ arrived[k] = <<>>

\* A caller whose call has had the connection to itself, from execute() to
\* the last row, reads its own reply in its order, whoever else used the
\* connection before.
AloneReadsOwn == \A c \in Caller : ~shared[c] => ~mixed[c]

\* Only a shared connection suspends through another handler's coroutine or
\* mixes up requests.
UndefinedIfShared == undefined => \E c \in Caller : InCall(c) /\ shared[c]

\* The thread of the event loop waits in a read.
Blocked(c) ==
  /\ running = c /\ pc[c] \in {"reading", "rows"}
  /\ arrived[conn[c]] = <<>> /\ yield[conn[c]] = NoCaller

\* A call that has the connection to itself stops the event loop only while
\* its caller reads rows, or if the caller cannot suspend.
WaitsForRowsOnly ==
  \A c \in Caller : Blocked(c) /\ ~shared[c] => pc[c] = "rows" \/ c \in Loader

\* Every call returns, unless the connection was shared and what happens is
\* undefined.
CallReturns == \A c \in Caller : InCall(c) ~> (pc[c] = "idle" \/ undefined)

=============================================================================
