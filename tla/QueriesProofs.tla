--------------------------- MODULE QueriesProofs ---------------------------
(***************************************************************************)
(* Theorems about Queries, for any number of callers, connections and      *)
(* calls: what a handler may rely on if no other call uses its connection, *)
(* and what holds of the yield functions even if some do.                  *)
(***************************************************************************)
EXTENDS Queries, FiniteSetTheorems, TLAPS

-----------------------------------------------------------------------------
(* The inductive invariant.                                                *)

TypeInv ==
  /\ pc \in [Caller -> Stages]
  /\ op \in [Caller -> Ops \cup {NoOp}]
  /\ conn \in [Caller -> Conn \cup {NoConn}]
  /\ \A c \in Caller : InCall(c) => conn[c] \in Conn
  /\ yield \in [Conn -> Caller \cup {NoCaller}]
  /\ half \in [Conn -> Caller \cup {NoCaller}]
  /\ running \in Caller \cup {NoCaller}
  /\ shared \in [Caller -> BOOLEAN]

\* A request that is half written is one that its caller's call is writing.
HalfIsWritten ==
  \A k \in Conn : half[k] # NoCaller =>
    conn[half[k]] = k /\ pc[half[k]] = "writing"

\* Two calls that use one connection are both marked as sharing it.
SharingIsMarked ==
  \A c, d \in Caller :
    c # d /\ InCall(c) /\ InCall(d) /\ conn[c] = conn[d] => shared[c]

\* A handler at work whose connection is its own is the one that the stream
\* suspends.
OwnYield ==
  \A c \in Caller : c \notin Loader /\ pc[c] \in {"writing", "reading"} /\ ~shared[c]
                    => yield[conn[c]] = c

RunningInCall ==
  running # NoCaller => pc[running] \in {"writing", "reading", "rows"}

Inv == /\ TypeInv /\ YieldIsLive /\ HalfIsWritten /\ SharingIsMarked
       /\ OwnYield /\ RunningInCall /\ UndefinedIfShared

USE QueriesAssumption

LEMMA InitInv == Init => Inv
BY DEF Init, Inv, TypeInv, YieldIsLive, HalfIsWritten, SharingIsMarked,
       OwnYield, RunningInCall, UndefinedIfShared, Stages, InCall

-----------------------------------------------------------------------------
(* Lemmas about the parts of the actions.                                  *)

\* Whoever is suspended in the place of c shares its connection.
LEMMA OwnerShares ==
  ASSUME Inv, NEW c \in Caller, InCall(c), yield[conn[c]] \notin {NoCaller, c}
  PROVE  shared[c]
<1> DEFINE d == yield[conn[c]]
<1>1. conn[c] \in Conn
  BY DEF Inv, TypeInv
<1>2. d \in Caller /\ d # c
  BY <1>1 DEF Inv, TypeInv
<1>3. conn[d] = conn[c] /\ InCall(d)
  BY <1>1, <1>2 DEF Inv, YieldIsLive, HasHandler, InCall
<1> QED
  BY <1>2, <1>3 DEF Inv, SharingIsMarked

\* Whoever has half written a request on its connection shares it.
LEMMA WriterShares ==
  ASSUME Inv, NEW c \in Caller, InCall(c), half[conn[c]] \notin {NoCaller, c}
  PROVE  shared[c]
<1> DEFINE d == half[conn[c]]
<1>1. conn[c] \in Conn
  BY DEF Inv, TypeInv
<1>2. d \in Caller /\ d # c
  BY <1>1 DEF Inv, TypeInv
<1>3. conn[d] = conn[c] /\ InCall(d)
  BY <1>1, <1>2 DEF Inv, HalfIsWritten, InCall
<1> QED
  BY <1>2, <1>3 DEF Inv, SharingIsMarked

\* Entering a call: the other calls go on, the new one is marked.
LEMMA EnterInv ==
  ASSUME Inv, NEW c \in Caller, NEW k \in Conn, NEW o \in Ops, NEW stage,
         Enter(c, k, o), pc' = [pc EXCEPT ![c] = stage],
         \/ stage = "created" /\ c \notin Loader /\ running' = running
         \/ stage = "writing" /\ c \in Loader /\ running' = c,
         UNCHANGED <<yield, half, undefined>>
  PROVE  Inv'
<1> DEFINE users == {d \in Caller \ {c} : InCall(d) /\ conn[d] = k}
<1>1. /\ pc[c] = "idle" /\ running = NoCaller /\ undefined = FALSE
      /\ op' = [op EXCEPT ![c] = o]
      /\ conn' = [conn EXCEPT ![c] = k]
      /\ shared' = [d \in Caller |-> IF d = c THEN users # {}
                                     ELSE shared[d] \/ d \in users]
  BY DEF Enter, LoopRuns, Inv, UndefinedIfShared
<1>2. /\ pc'[c] = stage /\ conn'[c] = k /\ stage \in {"created", "writing"}
      /\ \A d \in Caller \ {c} : pc'[d] = pc[d] /\ conn'[d] = conn[d]
  BY <1>1 DEF Inv, TypeInv
<1>3. \A d \in Caller \ {c} : InCall(d)' = InCall(d)
  BY <1>2 DEF InCall
<1>4. TypeInv'
  <2>1. pc' \in [Caller -> Stages]
    BY <1>2 DEF Inv, TypeInv, Stages
  <2>2. shared' \in [Caller -> BOOLEAN]
    BY <1>1 DEF Inv, TypeInv
  <2>3. \A d \in Caller : InCall(d)' => conn'[d] \in Conn
    BY <1>2, <1>3 DEF Inv, TypeInv
  <2> QED
    BY <1>1, <2>1, <2>2, <2>3 DEF Inv, TypeInv
<1>5. YieldIsLive'
  BY <1>1, <1>2 DEF Inv, TypeInv, YieldIsLive, HasHandler
<1>6. HalfIsWritten'
  BY <1>1, <1>2 DEF Inv, TypeInv, HalfIsWritten
<1>7. SharingIsMarked'
  <2> SUFFICES ASSUME NEW d \in Caller, NEW e \in Caller, d # e, InCall(d)',
                      InCall(e)', conn'[d] = conn'[e]
               PROVE  shared'[d]
    BY DEF SharingIsMarked
  <2>1. CASE d = c
    BY <2>1, <1>1, <1>2, <1>3
  <2>2. CASE e = c
    BY <2>2, <1>1, <1>2, <1>3
  <2>3. CASE d # c /\ e # c
    BY <2>3, <1>1, <1>2, <1>3 DEF Inv, SharingIsMarked
  <2> QED
    BY <2>1, <2>2, <2>3
<1>8. OwnYield'
  BY <1>1, <1>2 DEF Inv, OwnYield
<1>9. RunningInCall' /\ UndefinedIfShared'
  BY <1>1, <1>2 DEF RunningInCall, UndefinedIfShared
<1> QED
  BY <1>4, <1>5, <1>6, <1>7, <1>8, <1>9 DEF Inv

LEMMA CallInv ==
  ASSUME Inv, NEW c \in Caller, NEW k \in Conn, NEW o \in Ops, Call(c, k, o)
  PROVE  Inv'
BY EnterInv DEF Call, wireVars

LEMMA PrepareInv ==
  ASSUME Inv, NEW c \in Caller, NEW k \in Conn, Prepare(c, k)
  PROVE  Inv'
<1>1. "prepare" \in Ops
  BY DEF Ops
<1> QED
  BY <1>1, EnterInv DEF Prepare, wireVars

-----------------------------------------------------------------------------
(* Callbacks: the stage of one caller changes, and nothing else of calls.  *)

LEMMA HandlerStartsInv ==
  ASSUME Inv, NEW c \in Caller, c \notin Loader, HandlerStarts(c)
  PROVE  Inv'
<1>1. /\ pc[c] = "created" /\ running = NoCaller
      /\ yield' = [yield EXCEPT ![conn[c]] = c]
      /\ pc' = [pc EXCEPT ![c] = "writing"] /\ running' = c
      /\ UNCHANGED <<op, conn, half, undefined, shared>>
      /\ ~undefined
  BY DEF HandlerStarts, LoopRuns, SetYield, callVars, wireVars
<1>2. conn[c] \in Conn
  BY <1>1 DEF Inv, TypeInv, InCall
<1>3. \A d \in Caller : InCall(d)' = InCall(d)
  BY <1>1 DEF InCall, Inv, TypeInv
<1>4. TypeInv'
  BY <1>1, <1>2, <1>3 DEF Inv, TypeInv, Stages
<1>5. YieldIsLive'
  BY <1>1, <1>2 DEF Inv, TypeInv, YieldIsLive, HasHandler
<1>6. HalfIsWritten'
  BY <1>1 DEF Inv, TypeInv, HalfIsWritten
<1>7. SharingIsMarked'
  BY <1>1, <1>3 DEF Inv, SharingIsMarked
\* A handler whose yield functions are replaced shares its connection with c.
<1>8. OwnYield'
  <2> SUFFICES ASSUME NEW d \in Caller, d \notin Loader,
                      pc'[d] \in {"writing", "reading"}, ~shared'[d]
               PROVE  yield'[conn'[d]] = d
    BY DEF OwnYield
  <2>1. CASE d = c
    BY <2>1, <1>1, <1>2 DEF Inv, TypeInv
  <2>2. CASE d # c
    <3>1. pc[d] = pc'[d] /\ InCall(d) /\ InCall(c)
      BY <2>2, <1>1 DEF Inv, TypeInv, InCall
    <3>2. conn[d] # conn[c]
      BY <3>1, <2>2, <1>1 DEF Inv, SharingIsMarked
    <3> QED
      BY <3>1, <3>2, <1>1, <1>2 DEF Inv, TypeInv, OwnYield
  <2> QED
    BY <2>1, <2>2
<1>9. RunningInCall' /\ UndefinedIfShared'
  BY <1>1 DEF Inv, TypeInv, RunningInCall, UndefinedIfShared
<1> QED
  BY <1>4, <1>5, <1>6, <1>7, <1>8, <1>9 DEF Inv

LEMMA HandlerGoesOnInv ==
  ASSUME Inv, NEW c \in Caller, HandlerGoesOn(c)
  PROVE  Inv'
<1>1. /\ pc[c] \in {"writing", "reading"} /\ running' = c
      /\ UNCHANGED <<pc, op, conn, yield, half, undefined, shared>>
  BY DEF HandlerGoesOn, Woken, callVars, wireVars
<1> QED
  BY <1>1 DEF Inv, TypeInv, YieldIsLive, HalfIsWritten, SharingIsMarked, OwnYield,
              RunningInCall, UndefinedIfShared, HasHandler, InCall

\* A call returns: one user less.  What the stages and the yield functions
\* must be for that is said in the hypotheses.
LEMMA ReturnInv ==
  ASSUME Inv, NEW c \in Caller, Return(c), pc[c] # "writing",
         c \in Loader \/ pc[c] # "reading", ~undefined,
         running' = NoCaller, UNCHANGED <<yield, half, undefined, shared>>
  PROVE  Inv'
<1>1. /\ pc' = [pc EXCEPT ![c] = "idle"]
      /\ op' = [op EXCEPT ![c] = NoOp]
      /\ conn' = [conn EXCEPT ![c] = NoConn]
  BY DEF Return
<1>2. /\ pc'[c] = "idle"
      /\ \A d \in Caller \ {c} : pc'[d] = pc[d] /\ conn'[d] = conn[d]
  BY <1>1 DEF Inv, TypeInv
<1>3. ~ InCall(c)' /\ \A d \in Caller \ {c} : InCall(d)' = InCall(d)
  BY <1>2 DEF InCall
<1>4. TypeInv'
  <2>1. \A d \in Caller : InCall(d)' => conn'[d] \in Conn
    BY <1>2, <1>3 DEF Inv, TypeInv
  <2> QED
    BY <1>1, <2>1 DEF Inv, TypeInv, Stages
<1>5. YieldIsLive'
  <2> SUFFICES ASSUME NEW k \in Conn, yield[k] # NoCaller
               PROVE  /\ conn'[yield[k]] = k /\ HasHandler(yield[k])'
                      /\ pc'[yield[k]] # "created"
    BY DEF YieldIsLive
  <2>1. yield[k] \in Caller /\ conn[yield[k]] = k /\ HasHandler(yield[k])
        /\ pc[yield[k]] # "created"
    BY DEF Inv, TypeInv, YieldIsLive
  <2>2. yield[k] # c
    BY <2>1 DEF HasHandler
  <2> QED
    BY <2>1, <2>2, <1>2 DEF HasHandler
<1>6. HalfIsWritten'
  BY <1>2 DEF Inv, TypeInv, HalfIsWritten
<1>7. SharingIsMarked'
  BY <1>2, <1>3 DEF Inv, SharingIsMarked
<1>8. OwnYield'
  BY <1>2 DEF Inv, OwnYield
<1>9. RunningInCall' /\ UndefinedIfShared'
  BY DEF RunningInCall, UndefinedIfShared
<1> QED
  BY <1>4, <1>5, <1>6, <1>7, <1>8, <1>9 DEF Inv

LEMMA CallerResumesInv ==
  ASSUME Inv, NEW c \in Caller, CallerResumes(c)
  PROVE  Inv'
<1>1. /\ pc[c] = "dropped" /\ running = NoCaller /\ ~undefined
      /\ UNCHANGED <<yield, half, undefined, shared>>
  BY DEF CallerResumes, LoopRuns, wireVars
<1>2. CASE Return(c) /\ UNCHANGED running
  BY <1>1, <1>2, ReturnInv
<1>3. CASE /\ pc' = [pc EXCEPT ![c] = "rows"] /\ running' = c
           /\ UNCHANGED <<op, conn>>
  BY <1>1, <1>3 DEF Inv, TypeInv, YieldIsLive, HalfIsWritten, SharingIsMarked,
       OwnYield, RunningInCall, UndefinedIfShared, HasHandler, InCall, Stages
<1> QED
  BY <1>2, <1>3 DEF CallerResumes

\* A stream that would block: where the thread is, and whether that is
\* defined.
LEMMA WaitInv ==
  ASSUME Inv, NEW c \in Caller, running = c, ~undefined, Wait(c),
         UNCHANGED <<pc, conn, shared>>
  PROVE  RunningInCall' /\ UndefinedIfShared'
<1>1. InCall(c)
  BY DEF Inv, RunningInCall, InCall
<1>2. running' \in {NoCaller, c}
  BY DEF Wait
<1>3. RunningInCall'
  BY <1>2 DEF Inv, RunningInCall
<1>4. UndefinedIfShared'
  BY <1>1, OwnerShares DEF Wait, UndefinedIfShared, InCall
<1> QED
  BY <1>3, <1>4

LEMMA WritesAllInv ==
  ASSUME Inv, NEW c \in Caller, WritesAll(c)
  PROVE  Inv'
<1>1. /\ ~undefined /\ running = c /\ pc[c] = "writing"
      /\ pc' = [pc EXCEPT ![c] = "reading"]
      /\ half' = [half EXCEPT ![conn[c]] = NoCaller]
      /\ undefined' = (half[conn[c]] \notin {NoCaller, c})
      /\ UNCHANGED <<op, conn, yield, running, shared>>
  BY DEF WritesAll, callVars
<1>2. conn[c] \in Conn /\ InCall(c)
  BY <1>1 DEF Inv, TypeInv, InCall
<1>3. \A d \in Caller : InCall(d)' = InCall(d)
  BY <1>1 DEF InCall, Inv, TypeInv
<1>4. TypeInv'
  BY <1>1, <1>2, <1>3 DEF Inv, TypeInv, Stages
<1>5. YieldIsLive'
  BY <1>1 DEF Inv, TypeInv, YieldIsLive, HasHandler
<1>6. HalfIsWritten'
  BY <1>1, <1>2 DEF Inv, TypeInv, HalfIsWritten
<1>7. SharingIsMarked'
  BY <1>1, <1>3 DEF Inv, SharingIsMarked
<1>8. OwnYield'
  BY <1>1 DEF Inv, TypeInv, OwnYield
<1>9. RunningInCall' /\ UndefinedIfShared'
  BY <1>1, <1>2, <1>3, WriterShares DEF Inv, TypeInv, RunningInCall, UndefinedIfShared
<1> QED
  BY <1>4, <1>5, <1>6, <1>7, <1>8, <1>9 DEF Inv

LEMMA WritesPartInv ==
  ASSUME Inv, NEW c \in Caller, WritesPart(c)
  PROVE  Inv'
<1>1. /\ ~undefined /\ running = c /\ pc[c] = "writing"
      /\ half' = [half EXCEPT ![conn[c]] = c]
      /\ Wait(c)
      /\ UNCHANGED <<pc, op, conn, yield, shared>>
  BY DEF WritesPart, callVars
<1>2. conn[c] \in Conn
  BY <1>1 DEF Inv, TypeInv, InCall
<1>3. RunningInCall' /\ UndefinedIfShared'
  BY <1>1, WaitInv
<1>4. TypeInv'
  BY <1>1, <1>2 DEF Inv, TypeInv, Wait, InCall
<1>5. HalfIsWritten'
  BY <1>1, <1>2 DEF Inv, TypeInv, HalfIsWritten
<1>6. YieldIsLive' /\ SharingIsMarked' /\ OwnYield'
  BY <1>1 DEF Inv, YieldIsLive, SharingIsMarked, OwnYield, HasHandler, InCall
<1> QED
  BY <1>3, <1>4, <1>5, <1>6 DEF Inv

\* A handler that ends takes only its own connection's yield functions away.
LEMMA HandlerEndsInv ==
  ASSUME Inv, NEW c \in Caller, HandlerEnds(c), pc[c] = "reading", ~undefined,
         running' = NoCaller, UNCHANGED <<half, undefined, shared>>
  PROVE  Inv'
<1>1. /\ pc' = [pc EXCEPT ![c] = "dropped"]
      /\ yield' = [yield EXCEPT ![conn[c]] = NoCaller]
      /\ UNCHANGED <<op, conn>>
  BY DEF HandlerEnds, YieldAfter
<1>2. conn[c] \in Conn /\ InCall(c)
  BY DEF Inv, TypeInv, InCall
<1>3. \A d \in Caller : InCall(d)' = InCall(d)
  BY <1>1, <1>2 DEF InCall, Inv, TypeInv
<1>4. TypeInv'
  BY <1>1, <1>2, <1>3 DEF Inv, TypeInv, Stages
<1>5. YieldIsLive'
  BY <1>1, <1>2 DEF Inv, TypeInv, YieldIsLive, HasHandler
<1>6. HalfIsWritten'
  BY <1>1 DEF Inv, TypeInv, HalfIsWritten
<1>7. SharingIsMarked'
  BY <1>1, <1>3 DEF Inv, SharingIsMarked
<1>8. OwnYield'
  <2> SUFFICES ASSUME NEW d \in Caller, d \notin Loader,
                      pc'[d] \in {"writing", "reading"}, ~shared'[d]
               PROVE  yield'[conn'[d]] = d
    BY DEF OwnYield
  <2>1. d # c /\ pc[d] = pc'[d] /\ InCall(d)
    BY <1>1 DEF Inv, TypeInv, InCall
  <2>2. conn[d] # conn[c]
    BY <2>1, <1>2 DEF Inv, SharingIsMarked
  <2> QED
    BY <2>1, <2>2, <1>1, <1>2 DEF Inv, TypeInv, OwnYield
<1>9. RunningInCall' /\ UndefinedIfShared'
  BY DEF RunningInCall, UndefinedIfShared
<1> QED
  BY <1>4, <1>5, <1>6, <1>7, <1>8, <1>9 DEF Inv

LEMMA ReadsInv ==
  ASSUME Inv, NEW c \in Caller, Reads(c)
  PROVE  Inv'
<1>1. /\ ~undefined /\ running = c /\ pc[c] \in {"reading", "rows"}
      /\ UNCHANGED <<half, shared>>
  BY DEF Reads
<1>2. CASE Wait(c) /\ UNCHANGED <<pc, op, conn, yield>>
  <2>1. RunningInCall' /\ UndefinedIfShared'
    BY <1>1, <1>2, WaitInv
  <2>2. TypeInv'
    BY <1>1, <1>2 DEF Inv, TypeInv, Wait, InCall
  <2>3. YieldIsLive' /\ HalfIsWritten' /\ SharingIsMarked' /\ OwnYield'
    BY <1>1, <1>2 DEF Inv, YieldIsLive, HalfIsWritten, SharingIsMarked, OwnYield,
                      HasHandler, InCall
  <2> QED
    BY <2>1, <2>2, <2>3 DEF Inv
<1>3. CASE /\ IF pc[c] = "rows" \/ c \in Loader
              THEN Return(c) /\ UNCHANGED yield
              ELSE HandlerEnds(c)
           /\ running' = NoCaller /\ UNCHANGED undefined
  <2>1. CASE pc[c] = "rows" \/ c \in Loader
    BY <2>1, <1>1, <1>3, ReturnInv
  <2>2. CASE ~ (pc[c] = "rows" \/ c \in Loader)
    BY <2>2, <1>1, <1>3, HandlerEndsInv
  <2> QED
    BY <2>1, <2>2
<1> QED
  BY <1>2, <1>3 DEF Reads

LEMMA ServerSendsInv ==
  ASSUME Inv, NEW k \in Conn, ServerSends(k)
  PROVE  Inv'
<1>1. UNCHANGED <<pc, op, conn, yield, half, running, undefined, shared>>
  BY DEF ServerSends, callVars
<1> QED
  BY <1>1 DEF Inv, TypeInv, YieldIsLive, HalfIsWritten, SharingIsMarked, OwnYield,
              RunningInCall, UndefinedIfShared, HasHandler, InCall

-----------------------------------------------------------------------------
(* Stages and packets.                                                     *)

\* A loader has no handler, the head of a reply comes before its rows, and
\* only a SELECT has rows.
StagesInv ==
  /\ \A c \in Loader : pc[c] \notin {"created", "dropped", "rows"}
  /\ \A c \in Caller : InCall(c) <=> conn[c] # NoConn /\ op[c] # NoOp
  /\ \A c \in Caller : InCall(c) => op[c] \in Ops
  /\ \A c \in Caller : pc[c] = "rows" => op[c] = "execute"

PacketsInv ==
  /\ taken \in [Caller -> 0 .. 3]
  /\ \A c \in Caller : pc[c] \in {"created", "writing", "reading"}
                         => taken[c] \in 0 .. HeadSize
  /\ atServer \in [Conn -> Seq(Packet)]
  /\ arrived \in [Conn -> Seq(Packet)]
  /\ \A c \in Caller : calls[c] \in 0 .. MaxCalls[c]
  /\ DOMAIN calls = Caller
  /\ undefined \in BOOLEAN
  /\ mixed \in [Caller -> BOOLEAN]

LEMMA InitStages == Init => StagesInv /\ PacketsInv
<1> SUFFICES ASSUME Init PROVE StagesInv /\ PacketsInv
  OBVIOUS
<1>1. StagesInv
  BY DEF Init, StagesInv, InCall, NoOp
<1>2. <<>> \in Seq(Packet)
  OBVIOUS
<1>3. /\ atServer \in [Conn -> Seq(Packet)]
      /\ arrived \in [Conn -> Seq(Packet)]
  BY <1>2 DEF Init
<1>4. \A c \in Caller : 0 \in 0 .. MaxCalls[c]
  BY DEF QueriesAssumption
<1>5. /\ taken \in [Caller -> 0 .. 3]
      /\ \A c \in Caller : taken[c] \in 0 .. HeadSize
  BY DEF Init, HeadSize
<1>6. /\ \A c \in Caller : calls[c] \in 0 .. MaxCalls[c]
      /\ DOMAIN calls = Caller
  BY <1>4 DEF Init
<1>7. undefined \in BOOLEAN /\ mixed \in [Caller -> BOOLEAN]
  BY DEF Init
<1>8. PacketsInv
  BY <1>3, <1>5, <1>6, <1>7 DEF PacketsInv
<1> QED
  BY <1>1, <1>8

LEMMA StagesStep ==
  ASSUME TypeInv, StagesInv, Next
  PROVE  StagesInv'
<1> USE DEF TypeInv, StagesInv, InCall, Ops, NoOp
<1>1. ASSUME NEW c \in Caller, NEW k \in Conn, Prepare(c, k)
      PROVE  StagesInv'
  BY <1>1 DEF Prepare, Enter
<1>2. ASSUME NEW c \in Caller, NEW k \in Conn, NEW o \in Ops, Call(c, k, o)
      PROVE  StagesInv'
  BY <1>2 DEF Call, Enter
<1>3. ASSUME NEW c \in Caller,
             HandlerStarts(c) \/ HandlerGoesOn(c) \/ WritesAll(c) \/ WritesPart(c)
      PROVE  StagesInv'
  BY <1>3 DEF HandlerStarts, HandlerGoesOn, WritesAll, WritesPart, callVars
<1>4. ASSUME NEW c \in Caller, CallerResumes(c)
      PROVE  StagesInv'
  BY <1>4 DEF CallerResumes, Return
<1>5. ASSUME NEW c \in Caller, Reads(c)
      PROVE  StagesInv'
  <2>1. CASE Return(c)
    BY <1>5, <2>1 DEF Reads, Return
  <2>2. CASE HandlerEnds(c) /\ c \notin Loader
    BY <1>5, <2>2 DEF Reads, HandlerEnds
  <2>3. CASE UNCHANGED <<pc, op, conn>>
    BY <2>3
  <2> QED
    BY <1>5, <2>1, <2>2, <2>3 DEF Reads
<1>6. ASSUME NEW k \in Conn, ServerSends(k)
      PROVE  StagesInv'
  BY <1>6 DEF ServerSends, callVars
<1> QED
  BY <1>1, <1>2, <1>3, <1>4, <1>5, <1>6 DEF Next

\* The packets of a reply.
LEMMA ReplyType ==
  ASSUME NEW c \in Caller, NEW o \in Ops
  PROVE  Reply(c, o) \in Seq(Packet)
<1>1. Size(o) \in {2, 3}
  BY DEF Size
<1>2. \A i \in 1 .. Size(o) : [to |-> c, part |-> i] \in Packet
  BY <1>1 DEF Packet
<1> QED
  BY <1>1, <1>2 DEF Reply

\* A read takes no more than it wants.
LEMMA TakeResult ==
  ASSUME PacketsInv, TypeInv, NEW c \in Caller, conn[c] \in Conn,
         NEW n \in Nat, Take(c, n)
  PROVE  /\ arrived' \in [Conn -> Seq(Packet)]
         /\ \E m \in 0 .. n : taken' = [taken EXCEPT ![c] = @ + m]
         /\ mixed' \in [Caller -> BOOLEAN]
<1> DEFINE k == conn[c]
           m == Min2(n, Len(arrived[k]))
<1>1. arrived[k] \in Seq(Packet) /\ Len(arrived[k]) \in Nat
  BY DEF PacketsInv
<1>2. m \in 0 .. n /\ m <= Len(arrived[k])
  BY <1>1 DEF Min2
<1>3. SubSeq(arrived[k], m + 1, Len(arrived[k])) \in Seq(Packet)
  BY <1>1, <1>2
<1>4. arrived' = [arrived EXCEPT ![k] = SubSeq(@, m + 1, Len(@))]
  BY DEF Take
<1>5. taken' = [taken EXCEPT ![c] = @ + m]
  BY DEF Take
<1>6. mixed' \in [Caller -> BOOLEAN]
  BY DEF Take, PacketsInv
<1> QED
  BY <1>2, <1>3, <1>4, <1>5, <1>6 DEF PacketsInv

LEMMA PacketsStep ==
  ASSUME TypeInv, StagesInv, PacketsInv, Next
  PROVE  PacketsInv'
<1>1. ASSUME NEW c \in Caller, NEW k \in Conn, NEW o \in Ops, NEW stage \in Stages,
             Enter(c, k, o), pc' = [pc EXCEPT ![c] = stage],
             UNCHANGED <<atServer, arrived, undefined>>
      PROVE  PacketsInv'
  BY <1>1 DEF Enter, TypeInv, PacketsInv, HeadSize
<1>2. ASSUME NEW c \in Caller, NEW k \in Conn, Prepare(c, k)
      PROVE  PacketsInv'
  BY <1>1, <1>2 DEF Prepare, Ops, Stages, wireVars
<1>3. ASSUME NEW c \in Caller, NEW k \in Conn, NEW o \in Ops, Call(c, k, o)
      PROVE  PacketsInv'
  BY <1>1, <1>3 DEF Call, Stages, wireVars
<1>4. ASSUME NEW c \in Caller, HandlerStarts(c) \/ HandlerGoesOn(c)
      PROVE  PacketsInv'
  BY <1>4 DEF HandlerStarts, HandlerGoesOn, TypeInv, PacketsInv, callVars, wireVars
<1>5. ASSUME NEW c \in Caller, CallerResumes(c)
      PROVE  PacketsInv'
  BY <1>5 DEF CallerResumes, Return, TypeInv, PacketsInv, wireVars
<1>6. ASSUME NEW c \in Caller, WritesAll(c)
      PROVE  PacketsInv'
  <2>1. pc[c] = "writing" /\ InCall(c)
    BY <1>6 DEF WritesAll, InCall
  <2>2. conn[c] \in Conn /\ Reply(c, op[c]) \in Seq(Packet)
    BY <2>1, ReplyType DEF TypeInv, StagesInv
  <2>3. atServer' \in [Conn -> Seq(Packet)]
    BY <1>6, <2>2 DEF WritesAll, PacketsInv
  <2>4. /\ pc' = [pc EXCEPT ![c] = "reading"] /\ undefined' \in BOOLEAN
        /\ UNCHANGED <<taken, arrived, calls, mixed>>
    BY <1>6 DEF WritesAll, callVars
  <2> QED
    BY <2>1, <2>3, <2>4 DEF TypeInv, PacketsInv
<1>7. ASSUME NEW c \in Caller, WritesPart(c)
      PROVE  PacketsInv'
  BY <1>7 DEF WritesPart, Wait, PacketsInv, callVars
<1>8. ASSUME NEW c \in Caller, Reads(c)
      PROVE  PacketsInv'
  <2>1. /\ pc[c] \in {"reading", "rows"} /\ InCall(c) /\ conn[c] \in Conn
        /\ Take(c, Missing(c)) /\ UNCHANGED <<calls, atServer>>
    BY <1>8 DEF Reads, InCall, TypeInv
  <2>2. CASE pc[c] = "reading"
    <3>1. Missing(c) = 2 - taken[c] /\ taken[c] \in 0 .. 2
      BY <2>2 DEF Missing, PacketsInv, HeadSize
    <3>2. PICK m \in 0 .. Missing(c) : taken' = [taken EXCEPT ![c] = @ + m]
      BY <2>1, <3>1, TakeResult
    <3>3. taken'[c] \in 0 .. 2 /\ taken' \in [Caller -> 0 .. 3]
      BY <3>1, <3>2 DEF PacketsInv
    <3>4. \A d \in Caller \ {c} : pc'[d] = pc[d] /\ taken'[d] = taken[d]
      BY <1>8, <3>2 DEF Reads, Return, HandlerEnds, TypeInv, PacketsInv
    <3>5. undefined' \in BOOLEAN
      BY <1>8 DEF Reads, Wait, PacketsInv
    <3>6. arrived' \in [Conn -> Seq(Packet)] /\ mixed' \in [Caller -> BOOLEAN]
      BY <2>1, <3>1, TakeResult
    <3> QED
      BY <2>1, <3>3, <3>4, <3>5, <3>6 DEF PacketsInv, HeadSize
  <2>3. CASE pc[c] = "rows"
    <3>1. Missing(c) = 3 - taken[c] /\ taken[c] \in 0 .. 3
      BY <2>3 DEF Missing, PacketsInv, StagesInv, Size
    <3>2. PICK m \in 0 .. Missing(c) : taken' = [taken EXCEPT ![c] = @ + m]
      BY <2>1, <3>1, TakeResult
    <3>3. taken' \in [Caller -> 0 .. 3]
      BY <3>1, <3>2 DEF PacketsInv
    <3>4. pc'[c] \in {"rows", "idle"}
      BY <1>8, <2>3 DEF Reads, Return, TypeInv
    <3>5. \A d \in Caller \ {c} : pc'[d] = pc[d] /\ taken'[d] = taken[d]
      BY <1>8, <3>2 DEF Reads, Return, HandlerEnds, TypeInv, PacketsInv
    <3>6. undefined' \in BOOLEAN
      BY <1>8 DEF Reads, Wait, PacketsInv
    <3>7. arrived' \in [Conn -> Seq(Packet)] /\ mixed' \in [Caller -> BOOLEAN]
      BY <2>1, <3>1, TakeResult
    <3> QED
      BY <2>1, <3>3, <3>4, <3>5, <3>6, <3>7 DEF PacketsInv
  <2> QED
    BY <2>1, <2>2, <2>3
<1>9. ASSUME NEW k \in Conn, ServerSends(k)
      PROVE  PacketsInv'
  <2>1. atServer[k] \in Seq(Packet) /\ atServer[k] # <<>> /\ arrived[k] \in Seq(Packet)
    BY <1>9 DEF ServerSends, PacketsInv
  <2>2. /\ Head(atServer[k]) \in Packet /\ Tail(atServer[k]) \in Seq(Packet)
        /\ Append(arrived[k], Head(atServer[k])) \in Seq(Packet)
    BY <2>1
  <2> QED
    BY <1>9, <2>2 DEF ServerSends, PacketsInv, callVars
<1> QED
  BY <1>2, <1>3, <1>4, <1>5, <1>6, <1>7, <1>8, <1>9 DEF Next

-----------------------------------------------------------------------------
(* Every packet is accounted for.                                          *)

\* A call has read none of its reply before its request is written, and all
\* of its head when its handler is over; a loader only prepares.
TakenInv ==
  \A c \in Caller :
    /\ pc[c] \in {"created", "writing"} => taken[c] = 0
    /\ pc[c] = "dropped" => taken[c] = HeadSize
    /\ pc[c] = "rows" => taken[c] >= HeadSize
    /\ c \in Loader /\ InCall(c) => op[c] = "prepare"

\* The packets that the calls on connection k have still to read.
Sent(c) == pc[c] \in {"reading", "dropped", "rows"}
Due(k) == {q \in Caller \X (1 .. 3) :
             /\ Sent(q[1]) /\ conn[q[1]] = k
             /\ taken[q[1]] < q[2] /\ q[2] <= Size(op[q[1]])}

\* They are those that the server has still to send, and those that arrived.
Balance ==
  \A k \in Conn : Cardinality(Due(k)) = Len(atServer[k]) + Len(arrived[k])

\* The packets of a connection are those that c has still to read, from the
\* next one on.
HoldsOwn(c) ==
  LET k == conn[c]
      due == IF Sent(c) THEN Size(op[c]) - taken[c] ELSE 0
  IN  /\ Len(arrived[k]) + Len(atServer[k]) = due
      /\ \A i \in 1 .. Len(arrived[k]) :
           arrived[k][i] = [to |-> c, part |-> taken[c] + i]
      /\ \A i \in 1 .. Len(atServer[k]) :
           atServer[k][i] = [to |-> c, part |-> taken[c] + Len(arrived[k]) + i]

\* A call that has its connection to itself finds nothing else there.
OwnPackets == \A c \in Caller : InCall(c) /\ ~shared[c] => HoldsOwn(c)

CountInv == TakenInv /\ Balance /\ OwnPackets /\ AloneReadsOwn

IInv == Inv /\ StagesInv /\ PacketsInv /\ CountInv

LEMMA DueIsFinite ==
  ASSUME NEW k \in Conn
  PROVE  IsFiniteSet(Due(k)) /\ Cardinality(Due(k)) \in Nat
<1>1. IsFiniteSet(1 .. 3)
  <2>1. 1 \in Int /\ 3 \in Int
    OBVIOUS
  <2> QED
    BY <2>1, FS_Interval
<1>2. IsFiniteSet(Caller \X (1 .. 3))
  BY <1>1, FS_Product DEF QueriesAssumption
<1>3. IsFiniteSet(Due(k))
  BY <1>2, FS_Subset DEF Due
<1> QED
  BY <1>3, FS_CardinalityType

\* The packets a + 1 to b of one reply are b - a packets.
LEMMA PartsOfOne ==
  ASSUME NEW c, NEW a \in Nat, NEW b \in Nat, a <= b
  PROVE  /\ IsFiniteSet({c} \X ((a + 1) .. b))
         /\ Cardinality({c} \X ((a + 1) .. b)) = b - a
<1>1. IsFiniteSet({c}) /\ Cardinality({c}) = 1
  BY FS_Singleton
<1>2. IsFiniteSet((a + 1) .. b) /\ Cardinality((a + 1) .. b) = b - a
  <2>1. a + 1 \in Int /\ b \in Int
    OBVIOUS
  <2>2. /\ IsFiniteSet((a + 1) .. b)
        /\ Cardinality((a + 1) .. b) = IF a + 1 > b THEN 0 ELSE b - (a + 1) + 1
    BY <2>1, FS_Interval, Zenon
  <2> QED
    BY <2>2
<1>3. 1 * (b - a) = b - a
  OBVIOUS
<1>4. /\ IsFiniteSet({c} \X ((a + 1) .. b))
      /\ Cardinality({c} \X ((a + 1) .. b)) = Cardinality({c}) * Cardinality((a + 1) .. b)
  BY <1>1, <1>2, FS_Product, Zenon
<1> QED
  BY <1>1, <1>2, <1>3, <1>4

LEMMA BothZero ==
  ASSUME NEW a \in Nat, NEW b \in Nat, a + b = 0
  PROVE  a = 0 /\ b = 0
OBVIOUS

\* The streams as sequences.
LEMMA StreamsType ==
  ASSUME PacketsInv, NEW k \in Conn
  PROVE  /\ arrived[k] \in Seq(Packet) /\ Len(arrived[k]) \in Nat
         /\ atServer[k] \in Seq(Packet) /\ Len(atServer[k]) \in Nat
         /\ Len(arrived[k]) + Len(atServer[k]) = 0
              => arrived[k] = <<>> /\ atServer[k] = <<>>
<1>1. arrived[k] \in Seq(Packet) /\ atServer[k] \in Seq(Packet)
  BY DEF PacketsInv
<1>2. Len(arrived[k]) \in Nat /\ Len(atServer[k]) \in Nat
  BY <1>1
<1>3. ASSUME Len(arrived[k]) + Len(atServer[k]) = 0
      PROVE  Len(arrived[k]) = 0 /\ Len(atServer[k]) = 0
  BY <1>2, <1>3, BothZero, Zenon
<1>4. \A q \in Seq(Packet) : Len(q) = 0 => q = <<>>
  OBVIOUS
<1> QED
  BY <1>1, <1>2, <1>3, <1>4

\* A step that touches neither the call of d nor its connection.
LEMMA HoldsOwnKept ==
  ASSUME NEW d, HoldsOwn(d), conn'[d] = conn[d], op'[d] = op[d],
         taken'[d] = taken[d], Sent(d)' = Sent(d),
         arrived'[conn[d]] = arrived[conn[d]], atServer'[conn[d]] = atServer[conn[d]]
  PROVE  HoldsOwn(d)'
BY DEF HoldsOwn

LEMMA InitCount == Init => CountInv
<1> SUFFICES ASSUME Init PROVE CountInv
  OBVIOUS
<1>1. TakenInv /\ OwnPackets /\ AloneReadsOwn
  BY DEF Init, TakenInv, OwnPackets, AloneReadsOwn, InCall
<1>2. Balance
  <2> SUFFICES ASSUME NEW k \in Conn
               PROVE  Cardinality(Due(k)) = Len(atServer[k]) + Len(arrived[k])
    BY DEF Balance
  <2>1. Due(k) = {}
    BY DEF Init, Due, Sent
  <2>2. Len(atServer[k]) = 0 /\ Len(arrived[k]) = 0
    BY DEF Init
  <2> QED
    BY <2>1, <2>2, FS_EmptySet
<1> QED
  BY <1>1, <1>2 DEF CountInv

\* A connection is empty unless a request was sent on it in a call that has not
\* returned.
LEMMA NothingDue ==
  ASSUME PacketsInv, Balance, NEW k \in Conn,
         \A d \in Caller : Sent(d) => conn[d] # k
  PROVE  arrived[k] = <<>> /\ atServer[k] = <<>>
<1>1. Due(k) = {}
  BY DEF Due
<1>2. Len(atServer[k]) + Len(arrived[k]) = 0
  BY <1>1, FS_EmptySet DEF Balance
<1>3. Len(arrived[k]) \in Nat /\ Len(atServer[k]) \in Nat
  BY StreamsType
<1>4. Len(arrived[k]) = 0 /\ Len(atServer[k]) = 0
  BY <1>2, <1>3, BothZero, Zenon
<1>5. Len(arrived[k]) + Len(atServer[k]) = 0
  BY <1>4
<1> QED
  BY <1>5, StreamsType

\* A step that leaves the streams and what is due on them as they are.
LEMMA QuietCount ==
  ASSUME CountInv, NEW c \in Caller,
         UNCHANGED <<op, conn, taken, arrived, atServer, shared, mixed>>,
         \A d \in Caller : Sent(d)' = Sent(d) /\ InCall(d)' = InCall(d),
         TakenInv'
  PROVE  CountInv'
<1>1. \A k \in Conn : Due(k)' = Due(k)
  BY DEF Due
<1>2. Balance'
  BY <1>1 DEF CountInv, Balance
<1>3. OwnPackets' /\ AloneReadsOwn'
  BY DEF CountInv, OwnPackets, HoldsOwn, AloneReadsOwn
<1> QED
  BY <1>2, <1>3 DEF CountInv

LEMMA EnterCount ==
  ASSUME IInv, NEW c \in Caller, NEW k \in Conn, NEW o \in Ops,
         NEW stage \in {"created", "writing"},
         c \in Loader => o = "prepare",
         Enter(c, k, o), pc' = [pc EXCEPT ![c] = stage],
         UNCHANGED wireVars
  PROVE  CountInv'
<1> DEFINE users == {d \in Caller \ {c} : InCall(d) /\ conn[d] = k}
<1>1. /\ pc[c] = "idle"
      /\ op' = [op EXCEPT ![c] = o]
      /\ conn' = [conn EXCEPT ![c] = k]
      /\ taken' = [taken EXCEPT ![c] = 0]
      /\ mixed' = [mixed EXCEPT ![c] = FALSE]
      /\ shared' = [d \in Caller |-> IF d = c THEN users # {}
                                     ELSE shared[d] \/ d \in users]
      /\ UNCHANGED <<atServer, arrived>>
  BY DEF Enter, wireVars
<1>2. /\ pc'[c] = stage /\ conn'[c] = k /\ op'[c] = o /\ taken'[c] = 0
      /\ ~ mixed'[c]
      /\ \A d \in Caller \ {c} : /\ pc'[d] = pc[d] /\ conn'[d] = conn[d]
                                 /\ op'[d] = op[d] /\ taken'[d] = taken[d]
                                 /\ mixed'[d] = mixed[d]
  BY <1>1 DEF IInv, Inv, TypeInv, PacketsInv
<1>3. /\ ~ Sent(c) /\ ~ Sent(c)'
      /\ \A d \in Caller \ {c} : Sent(d)' = Sent(d) /\ InCall(d)' = InCall(d)
  BY <1>1, <1>2 DEF Sent, InCall
<1>4. TakenInv'
  BY <1>2, <1>3 DEF IInv, CountInv, TakenInv
<1>5. Balance'
  <2>1. \A j \in Conn : Due(j)' = Due(j)
    BY <1>2, <1>3 DEF Due
  <2> QED
    BY <2>1, <1>1 DEF IInv, CountInv, Balance
<1>6. OwnPackets'
  <2> SUFFICES ASSUME NEW d \in Caller, InCall(d)', ~ shared'[d]
               PROVE  HoldsOwn(d)'
    BY DEF OwnPackets
  <2>1. CASE d = c
    <3>1. \A e \in Caller : Sent(e) => conn[e] # k
      BY <2>1, <1>1, <1>3 DEF Sent, InCall
    <3>2. arrived[k] = <<>> /\ atServer[k] = <<>>
      BY <3>1, NothingDue DEF IInv, CountInv
    <3>3. arrived'[k] = <<>> /\ atServer'[k] = <<>>
      BY <3>2, <1>1
    <3>4. Len(arrived'[k]) = 0 /\ Len(atServer'[k]) = 0 /\ 0 + 0 = 0
      BY <3>3
    <3>5. \A i \in 1 .. 0 : FALSE
      OBVIOUS
    <3> QED
      BY <3>4, <3>5, <2>1, <1>2, <1>3, Zenon DEF HoldsOwn
  <2>2. CASE d # c
    <3>1. InCall(d) /\ ~ shared[d]
      BY <2>2, <1>1, <1>3
    <3>2. HoldsOwn(d)
      BY <3>1 DEF IInv, CountInv, OwnPackets
    <3> QED
      BY <2>2, <3>2, <1>1, <1>2, <1>3, HoldsOwnKept
  <2> QED
    BY <2>1, <2>2
<1>7. AloneReadsOwn'
  BY <1>1, <1>2 DEF IInv, CountInv, AloneReadsOwn
<1> QED
  BY <1>4, <1>5, <1>6, <1>7 DEF CountInv

\* The request is written: its whole reply is due.
LEMMA WritesAllCount ==
  ASSUME IInv, NEW c \in Caller, WritesAll(c)
  PROVE  CountInv'
<1> DEFINE k == conn[c]
           n == Size(op[c])
<1>1. /\ pc[c] = "writing" /\ k \in Conn /\ InCall(c) /\ op[c] \in Ops
      /\ taken[c] = 0 /\ n \in {2, 3}
  BY DEF WritesAll, InCall, IInv, Inv, TypeInv, StagesInv, CountInv, TakenInv, Size
<1>2. /\ pc' = [pc EXCEPT ![c] = "reading"]
      /\ atServer' = [atServer EXCEPT ![k] = @ \o Reply(c, op[c])]
      /\ UNCHANGED <<op, conn, taken, arrived, shared, mixed>>
  BY DEF WritesAll, callVars
<1>3. /\ ~ Sent(c) /\ Sent(c)' /\ InCall(c)'
      /\ \A d \in Caller \ {c} : Sent(d)' = Sent(d) /\ InCall(d)' = InCall(d)
  BY <1>1, <1>2 DEF Sent, InCall, IInv, Inv, TypeInv
<1>4. /\ Reply(c, op[c]) \in Seq(Packet) /\ Len(Reply(c, op[c])) = n
      /\ \A i \in 1 .. n : Reply(c, op[c])[i] = [to |-> c, part |-> i]
  BY <1>1, ReplyType DEF Reply
<1>5. /\ \A j \in Conn \ {k} : atServer'[j] = atServer[j]
      /\ atServer'[k] = atServer[k] \o Reply(c, op[c])
  BY <1>1, <1>2 DEF IInv, PacketsInv
<1>10. Len(atServer'[k]) = Len(atServer[k]) + n
  <2>1. \A p, q \in Seq(Packet) : Len(p \o q) = Len(p) + Len(q)
    OBVIOUS
  <2>2. atServer[k] \in Seq(Packet)
    BY <1>1, StreamsType DEF IInv
  <2> QED
    BY <2>1, <2>2, <1>4, <1>5
<1>6. TakenInv'
  BY <1>1, <1>2, <1>3 DEF IInv, CountInv, TakenInv, Inv, TypeInv
<1>7. Balance'
  <2> SUFFICES ASSUME NEW j \in Conn
               PROVE  Cardinality(Due(j)') = Len(atServer'[j]) + Len(arrived'[j])
    BY DEF Balance
  <2>1. Cardinality(Due(j)) = Len(atServer[j]) + Len(arrived[j])
    BY DEF IInv, CountInv, Balance
  <2>2. CASE j = k
    <3> DEFINE new == {c} \X ((0 + 1) .. n)
    <3>1. IsFiniteSet(new) /\ Cardinality(new) = n
      <4>1. 0 \in Nat /\ n \in Nat /\ 0 <= n /\ n - 0 = n
        BY <1>1
      <4> HIDE DEF n
      <4> QED
        BY <4>1, PartsOfOne
    <3>2. Due(j)' = Due(j) \cup new
      BY <2>2, <1>1, <1>2, <1>3 DEF Due
    <3>3. Due(j) \cap new = {}
      BY <1>3 DEF Due
    <3>4. Cardinality(Due(j) \cup new) = Cardinality(Due(j)) + n
      <4>1. IsFiniteSet(Due(j)) /\ Cardinality(Due(j)) \in Nat
        BY DueIsFinite
      <4>2. Cardinality({}) = 0
        BY FS_EmptySet
      <4>3. Cardinality(Due(j) \cup new)
              = Cardinality(Due(j)) + Cardinality(new) - Cardinality(Due(j) \cap new)
        BY <4>1, <3>1, FS_Union, Zenon
      <4>4. Cardinality(Due(j) \cup new) = Cardinality(Due(j)) + n - 0
        BY <4>2, <4>3, <3>1, <3>3
      <4> QED
        BY <4>1, <4>4, <1>1
    <3>5. Len(atServer[j]) \in Nat /\ Len(arrived[j]) \in Nat
      BY StreamsType DEF IInv
    <3>6. Cardinality(Due(j)') = Len(atServer[j]) + Len(arrived[j]) + n
      BY <3>2, <3>4, <2>1
    <3>7. Len(atServer'[j]) = Len(atServer[j]) + n /\ arrived'[j] = arrived[j]
      BY <2>2, <1>2, <1>10
    <3> DEFINE x == Len(atServer[j])
               y == Len(arrived[j])
    <3>8. ASSUME NEW p \in Nat, NEW q \in Nat
          PROVE  p + q + n = (p + n) + q
      BY <1>1
    <3>9. x + y + n = (x + n) + y
      BY <3>5, <3>8, Zenon
    <3> QED
      BY <3>6, <3>7, <3>9
  <2>3. CASE j # k
    <3>1. Due(j)' = Due(j)
      BY <2>3, <1>2, <1>3 DEF Due
    <3> QED
      BY <3>1, <2>1, <2>3, <1>2, <1>5
  <2> QED
    BY <2>2, <2>3
<1>8. OwnPackets'
  <2> SUFFICES ASSUME NEW d \in Caller, InCall(d)', ~ shared[d]
               PROVE  HoldsOwn(d)'
    BY <1>2 DEF OwnPackets
  <2>1. CASE d = c
    <3>1. arrived[k] = <<>> /\ atServer[k] = <<>>
      <4>1. Len(arrived[k]) + Len(atServer[k]) = 0
        BY <2>1, <1>1, <1>3 DEF IInv, CountInv, OwnPackets, HoldsOwn
      <4> QED
        BY <4>1, <1>1, StreamsType DEF IInv
    <3>2. atServer'[k] = Reply(c, op[c]) /\ arrived'[k] = <<>>
      BY <3>1, <1>2, <1>4, <1>5
    <3>3. /\ conn'[d] = k /\ taken'[d] = 0 /\ op'[d] = op[c] /\ Sent(d)'
          /\ Len(arrived'[k]) = 0 /\ Len(atServer'[k]) = n
      BY <3>2, <2>1, <1>1, <1>2, <1>3, <1>4
    <3>4. \A i \in 1 .. n : atServer'[k][i] = [to |-> c, part |-> 0 + 0 + i]
      BY <3>2, <1>4, <1>1
    <3>5. 0 + n = n - 0
      BY <1>1
    <3>6. \A i \in 1 .. 0 : FALSE
      OBVIOUS
    <3> HIDE DEF n, k
    <3> QED
      BY <2>1, <3>3, <3>4, <3>5, <3>6, Zenon DEF HoldsOwn, n
  <2>2. CASE d # c
    <3>1. InCall(d) /\ Sent(d)' = Sent(d)
      BY <2>2, <1>3
    <3>2. conn[d] # k /\ conn[d] \in Conn
      BY <2>2, <3>1, <1>1 DEF IInv, Inv, TypeInv, SharingIsMarked
    <3>3. HoldsOwn(d)
      BY <3>1 DEF IInv, CountInv, OwnPackets
    <3> QED
      BY <3>1, <3>2, <3>3, <1>2, <1>5, HoldsOwnKept
  <2> QED
    BY <2>1, <2>2
<1>9. AloneReadsOwn'
  BY <1>2 DEF IInv, CountInv, AloneReadsOwn
<1> QED
  BY <1>6, <1>7, <1>8, <1>9 DEF CountInv

\* A read takes m packets from the front of the stream, all it wants if they
\* are there; if they are the reader's own next ones, nothing is mixed up.
LEMMA TakeDetail ==
  ASSUME PacketsInv, NEW c \in Caller, conn[c] \in Conn,
         NEW n \in Nat, Take(c, n)
  PROVE  \E m \in 0 .. n :
           /\ m <= Len(arrived[conn[c]])
           /\ Len(arrived[conn[c]]) >= n => m = n
           /\ Len(arrived'[conn[c]]) = Len(arrived[conn[c]]) - m
           /\ \A i \in 1 .. Len(arrived[conn[c]]) - m :
                arrived'[conn[c]][i] = arrived[conn[c]][i + m]
           /\ \A j \in Conn \ {conn[c]} : arrived'[j] = arrived[j]
           /\ taken'[c] = taken[c] + m
           /\ \A d \in Caller \ {c} : taken'[d] = taken[d] /\ mixed'[d] = mixed[d]
           /\ (\A i \in 1 .. m :
                 arrived[conn[c]][i] = [to |-> c, part |-> taken[c] + i])
              => mixed'[c] = mixed[c]
<1> DEFINE k == conn[c]
           m == Min2(n, Len(arrived[k]))
<1>1. arrived[k] \in Seq(Packet) /\ Len(arrived[k]) \in Nat
  BY StreamsType
<1>2. /\ m \in 0 .. n /\ m <= Len(arrived[k])
      /\ Len(arrived[k]) >= n => m = n
  BY <1>1 DEF Min2
<1>3. /\ arrived'[k] = SubSeq(arrived[k], m + 1, Len(arrived[k]))
      /\ \A j \in Conn \ {k} : arrived'[j] = arrived[j]
  BY DEF Take, PacketsInv
<1>4. /\ Len(arrived'[k]) = Len(arrived[k]) - m
      /\ \A i \in 1 .. Len(arrived[k]) - m : arrived'[k][i] = arrived[k][i + m]
  <2> HIDE DEF m
  <2> QED
    BY <1>1, <1>2, <1>3
<1>5. /\ taken'[c] = taken[c] + m
      /\ \A d \in Caller \ {c} : taken'[d] = taken[d]
  BY DEF Take, PacketsInv
<1>6. \A d \in Caller \ {c} : mixed'[d] = mixed[d]
  BY DEF Take, PacketsInv
<1>7. ASSUME \A i \in 1 .. m : arrived[k][i] = [to |-> c, part |-> taken[c] + i]
      PROVE  mixed'[c] = mixed[c]
  BY <1>7 DEF Take, PacketsInv
<1> HIDE DEF m
<1> QED
  BY <1>2, <1>3, <1>4, <1>5, <1>6, <1>7

\* A read of the reply of c, that leaves c where its reply is due or, with the
\* last packet, ends its call.
LEMMA ReadCount ==
  ASSUME IInv, NEW c \in Caller, Sent(c), TakenInv', NEW want \in Nat,
         taken[c] + want <= Size(op[c]), Take(c, want), UNCHANGED <<atServer, shared>>,
         \A d \in Caller \ {c} : pc'[d] = pc[d] /\ conn'[d] = conn[d] /\ op'[d] = op[d],
         \/ Sent(c)' /\ UNCHANGED <<conn, op>>
         \/ ~ InCall(c)' /\ taken[c] + want = Size(op[c]) /\ want <= Len(arrived[conn[c]])
  PROVE  CountInv'
<1> DEFINE k == conn[c]
<1>1. /\ k \in Conn /\ InCall(c) /\ taken[c] \in Nat /\ Size(op[c]) \in {2, 3}
      /\ arrived[k] \in Seq(Packet) /\ Len(arrived[k]) \in Nat
      /\ atServer[k] \in Seq(Packet) /\ Len(atServer[k]) \in Nat
  BY StreamsType DEF Sent, InCall, IInv, Inv, TypeInv, PacketsInv, Size
<1>2. PICK m \in 0 .. want :
        /\ m <= Len(arrived[k])
        /\ Len(arrived[k]) >= want => m = want
        /\ Len(arrived'[k]) = Len(arrived[k]) - m
        /\ \A i \in 1 .. Len(arrived[k]) - m : arrived'[k][i] = arrived[k][i + m]
        /\ \A j \in Conn \ {k} : arrived'[j] = arrived[j]
        /\ taken'[c] = taken[c] + m
        /\ \A d \in Caller \ {c} : taken'[d] = taken[d] /\ mixed'[d] = mixed[d]
        /\ (\A i \in 1 .. m : arrived[k][i] = [to |-> c, part |-> taken[c] + i])
           => mixed'[c] = mixed[c]
  <2>1. PacketsInv
    BY DEF IInv
  <2> QED
    BY <2>1, <1>1, TakeDetail, Zenon
<1>8. /\ m \in Nat /\ taken[c] + m <= Size(op[c])
      /\ \/ Sent(c)' /\ conn'[c] = k /\ op'[c] = op[c]
         \/ ~ InCall(c)' /\ taken[c] + m = Size(op[c])
  <2>1. m \in Nat /\ taken[c] + m <= Size(op[c])
    BY <1>1, <1>2
  <2>2. CASE Sent(c)' /\ UNCHANGED <<conn, op>>
    BY <2>1, <2>2
  <2>3. CASE ~ InCall(c)' /\ taken[c] + want = Size(op[c]) /\ want <= Len(arrived[k])
    <3>1. m = want
      BY <2>3, <1>1, <1>2
    <3> QED
      BY <2>1, <2>3, <3>1
  <2> QED
    BY <2>2, <2>3
<1>3. \A d \in Caller \ {c} : Sent(d)' = Sent(d) /\ InCall(d)' = InCall(d)
  BY DEF Sent, InCall
<1>4. Balance'
  <2> SUFFICES ASSUME NEW j \in Conn
               PROVE  Cardinality(Due(j)') = Len(atServer[j]) + Len(arrived'[j])
    BY DEF Balance
  <2>1. Cardinality(Due(j)) = Len(atServer[j]) + Len(arrived[j])
    BY DEF IInv, CountInv, Balance
  <2>2. CASE j = k
    <3> DEFINE a == taken[c]
               b == taken[c] + m
               read == {c} \X ((a + 1) .. b)
    <3>1. IsFiniteSet(read) /\ Cardinality(read) = m
      <4>1. a \in Nat /\ b \in Nat /\ a <= b /\ b - a = m
        BY <1>1, <1>8
      <4> HIDE DEF a, b
      <4> QED
        BY <4>1, PartsOfOne
    <3>2. read \subseteq Due(j)
      BY <2>2, <1>1, <1>8 DEF Due
    <3>3. Due(j)' = Due(j) \ read
      <4>1. \A q \in Caller \X (1 .. 3) : q[1] = c =>
              (q \in Due(j)' <=> q \in Due(j) /\ b < q[2])
        <5>1. \A q \in Caller \X (1 .. 3) : q[1] = c =>
                (q \in Due(j) <=> taken[c] < q[2] /\ q[2] <= Size(op[c]))
          BY <2>2 DEF Due
        <5>2. CASE Sent(c)' /\ conn'[c] = k /\ op'[c] = op[c]
          <6>1. \A q \in Caller \X (1 .. 3) : q[1] = c =>
                  (q \in Due(j)' <=> taken[c] + m < q[2] /\ q[2] <= Size(op[c]))
            BY <5>2, <2>2, <1>2 DEF Due
          <6> QED
            BY <5>1, <6>1, <1>1, <1>8
        <5>3. CASE ~ InCall(c)' /\ taken[c] + m = Size(op[c])
          <6>1. \A q \in Caller \X (1 .. 3) : q[1] = c => q \notin Due(j)'
            BY <5>3 DEF Due, Sent, InCall
          <6> QED
            BY <5>1, <5>3, <6>1, <1>1
        <5> QED
          BY <5>2, <5>3, <1>8
      <4>2. \A q \in Caller \X (1 .. 3) : q[1] # c => (q \in Due(j)' <=> q \in Due(j))
        BY <1>2, <1>3 DEF Due
      <4>3. \A q \in Due(j) : q[1] = c => (q \in read <=> ~ (b < q[2]))
        BY <1>1, <1>8 DEF Due
      <4>4. \A q \in Due(j) : q[1] # c => q \notin read
        OBVIOUS
      <4>5. Due(j)' \subseteq Caller \X (1 .. 3) /\ Due(j) \subseteq Caller \X (1 .. 3)
        BY DEF Due
      <4> HIDE DEF read, b
      <4> QED
        BY <4>1, <4>2, <4>3, <4>4, <4>5
    <3>4. Cardinality(Due(j)') = Cardinality(Due(j)) - m
      <4>1. IsFiniteSet(Due(j))
        BY DueIsFinite
      <4>2. Cardinality(Due(j) \ read) = Cardinality(Due(j)) - Cardinality(Due(j) \cap read)
        BY <4>1, FS_Difference, Zenon
      <4>3. Due(j) \cap read = read
        BY <3>2
      <4> HIDE DEF read
      <4> QED
        BY <4>2, <4>3, <3>1, <3>3
    <3>5. \A p, q \in Nat : (p + q) - m = p + (q - m)
      BY <1>8
    <3>6. Cardinality(Due(j)') = Len(atServer[j]) + (Len(arrived[j]) - m)
      BY <2>1, <2>2, <3>4, <3>5, <1>1
    <3> QED
      BY <3>6, <1>2, <2>2
  <2>3. CASE j # k
    <3>1. Due(j)' = Due(j)
      <4>1. \A q \in Caller \X (1 .. 3) : q[1] # c => (q \in Due(j)' <=> q \in Due(j))
        BY <1>2, <1>3 DEF Due
      <4>2. \A q \in Caller \X (1 .. 3) : q[1] = c => q \notin Due(j)' /\ q \notin Due(j)
        BY <2>3, <1>1, <1>8 DEF Due, Sent, InCall
      <4>3. Due(j)' \subseteq Caller \X (1 .. 3) /\ Due(j) \subseteq Caller \X (1 .. 3)
        BY DEF Due
      <4> QED
        BY <4>1, <4>2, <4>3
    <3> QED
      BY <3>1, <2>1, <2>3, <1>2
  <2> QED
    BY <2>2, <2>3
<1>5. ASSUME ~ shared[c]
      PROVE  /\ Len(arrived[k]) + Len(atServer[k]) = Size(op[c]) - taken[c]
             /\ \A i \in 1 .. Len(arrived[k]) :
                  arrived[k][i] = [to |-> c, part |-> taken[c] + i]
             /\ \A i \in 1 .. Len(atServer[k]) :
                  atServer[k][i] = [to |-> c, part |-> taken[c] + Len(arrived[k]) + i]
  <2>1. HoldsOwn(c)
    BY <1>1, <1>5 DEF IInv, CountInv, OwnPackets
  <2> QED
    BY <2>1, Zenon DEF HoldsOwn
<1>6. OwnPackets'
  <2> SUFFICES ASSUME NEW d \in Caller, InCall(d)', ~ shared[d]
               PROVE  HoldsOwn(d)'
    BY DEF OwnPackets
  <2>1. CASE d = c
    <3>1. Sent(c)' /\ conn'[c] = k /\ op'[c] = op[c]
      BY <2>1, <1>8
    <3> DEFINE l == Len(arrived[k])
               s == Len(atServer[k])
               t == taken[c]
               n == Size(op[c])
    <3>2. l \in Nat /\ s \in Nat /\ t \in Nat /\ n \in Nat /\ m <= l /\ m \in Nat
      BY <1>1, <1>2, <1>8
    <3>3. Len(arrived'[k]) = l - m /\ taken'[c] = t + m
      BY <1>2
    <3>4. l + s = n - t
      BY <1>5, <2>1
    <3> HIDE DEF l, s, t, n
    <3>5. (l - m) + s = n - (t + m)
      <4>1. \A v, w, x, y, z \in Nat : v + w = x - y => (v - z) + w = x - (y + z)
        OBVIOUS
      <4>2. l + s = n - t => (l - m) + s = n - (t + m)
        BY ONLY <4>1, <3>2
      <4> QED
        BY <4>2, <3>4
    <3>6. \A i \in 1 .. l - m :
            arrived'[k][i] = [to |-> c, part |-> (t + m) + i]
      <4> SUFFICES ASSUME NEW i \in 1 .. l - m
                   PROVE  arrived'[k][i] = [to |-> c, part |-> (t + m) + i]
        OBVIOUS
      <4>1. i + m \in 1 .. l /\ t + (i + m) = (t + m) + i
        BY <3>2
      <4>2. arrived'[k][i] = arrived[k][i + m]
        BY <1>2 DEF l
      <4>3. arrived[k][i + m] = [to |-> c, part |-> t + (i + m)]
        BY <4>1, <1>5, <2>1 DEF l, t
      <4> QED
        BY <4>1, <4>2, <4>3
    <3>7. \A i \in 1 .. s :
            atServer[k][i] = [to |-> c, part |-> (t + m) + (l - m) + i]
      <4>1. \A i \in 1 .. s : t + l + i = (t + m) + (l - m) + i
        BY <3>2
      <4>2. \A i \in 1 .. s : atServer[k][i] = [to |-> c, part |-> t + l + i]
        BY <1>5, <2>1 DEF s, t, l
      <4> QED
        BY <4>1, <4>2
    <3> QED
      <4>1. /\ Len(arrived'[k]) + Len(atServer[k]) = Size(op'[c]) - taken'[c]
            /\ \A i \in 1 .. Len(arrived'[k]) :
                 arrived'[k][i] = [to |-> c, part |-> taken'[c] + i]
            /\ \A i \in 1 .. Len(atServer[k]) :
                 atServer[k][i] = [to |-> c, part |-> taken'[c] + Len(arrived'[k]) + i]
        BY <3>1, <3>3, <3>5, <3>6, <3>7, Zenon DEF s, n
      <4>2. HoldsOwn(c)'
        BY <4>1, <3>1, Zenon DEF HoldsOwn
      <4> QED
        BY <4>2, <2>1
  <2>2. CASE d # c
    <3>1. InCall(d) /\ Sent(d)' = Sent(d)
      BY <2>2, <1>3
    <3>2. conn[d] # k /\ conn[d] \in Conn
      BY <2>2, <3>1, <1>1 DEF IInv, Inv, TypeInv, SharingIsMarked
    <3>3. HoldsOwn(d)
      BY <3>1 DEF IInv, CountInv, OwnPackets
    <3> QED
      BY <2>2, <3>1, <3>2, <3>3, <1>2, HoldsOwnKept
  <2> QED
    BY <2>1, <2>2
<1>7. AloneReadsOwn'
  <2> SUFFICES ASSUME NEW d \in Caller, ~ shared[d] PROVE ~ mixed'[d]
    BY DEF AloneReadsOwn
  <2>1. ~ mixed[d]
    BY DEF IInv, CountInv, AloneReadsOwn
  <2>2. CASE d = c
    <3>1. \A i \in 1 .. m : i \in 1 .. Len(arrived[k])
      BY <1>1, <1>2, <1>8
    <3>2. \A i \in 1 .. m : arrived[k][i] = [to |-> c, part |-> taken[c] + i]
      BY <3>1, <2>2, <1>5
    <3> QED
      BY <3>2, <2>1, <2>2, <1>2
  <2>3. CASE d # c
    BY <2>1, <2>3, <1>2
  <2> QED
    BY <2>2, <2>3
<1> QED
  BY <1>4, <1>6, <1>7 DEF CountInv

LEMMA ReadsCount ==
  ASSUME IInv, NEW c \in Caller, Reads(c)
  PROVE  CountInv'
<1> DEFINE want == Missing(c)
           k == conn[c]
<1>1. /\ pc[c] \in {"reading", "rows"} /\ Sent(c) /\ InCall(c) /\ k \in Conn
      /\ Take(c, want)
      /\ UNCHANGED <<atServer, shared>>
  BY DEF Reads, Sent, InCall, IInv, Inv, TypeInv
<1>2. /\ want \in Nat /\ taken[c] \in Nat
      /\ pc[c] = "reading" => taken[c] + want = HeadSize
      /\ pc[c] = "rows" => taken[c] + want = Size(op[c])
  <2>1. CASE pc[c] = "reading"
    <3>1. taken[c] \in 0 .. 2
      BY <2>1 DEF HeadSize, IInv, PacketsInv
    <3> QED
      BY <2>1, <3>1 DEF Missing, HeadSize
  <2>2. CASE pc[c] = "rows"
    <3>1. op[c] = "execute" /\ taken[c] \in 0 .. 3
      BY <2>2 DEF IInv, StagesInv, PacketsInv
    <3> QED
      BY <2>2, <3>1 DEF Missing, Size
  <2> QED
    BY <1>1, <2>1, <2>2
<1>3. /\ Size(op[c]) \in {2, 3} /\ HeadSize = 2
      /\ c \in Loader => Size(op[c]) = HeadSize
  BY <1>1 DEF Size, HeadSize, IInv, CountInv, TakenInv
<1>4. taken[c] + want <= Size(op[c])
  BY <1>1, <1>2, <1>3
<1>5. PICK m \in 0 .. want : /\ Len(arrived[k]) >= want => m = want
                             /\ taken'[c] = taken[c] + m
                             /\ \A d \in Caller \ {c} : taken'[d] = taken[d]
  <2>1. PacketsInv
    BY DEF IInv
  <2> QED
    BY <2>1, <1>1, <1>2, TakeDetail
<1>6. Len(arrived[k]) \in Nat
  BY <1>1, StreamsType DEF IInv
\* Waiting for more.
<1>7. CASE UNCHANGED <<pc, op, conn>>
  <2>1. TakenInv'
    <3>1. pc[c] = "rows" => taken'[c] >= HeadSize
      BY <1>2, <1>3, <1>5 DEF IInv, CountInv, TakenInv
    <3> QED
      BY <3>1, <1>1, <1>5, <1>7 DEF IInv, CountInv, TakenInv, InCall
  <2>2. Sent(c)'
    BY <1>1, <1>7 DEF Sent
  <2> QED
    BY <2>1, <2>2, <1>1, <1>2, <1>4, <1>7, ReadCount
\* The last packet that is read in this call.
<1>8. CASE Return(c) /\ (pc[c] = "rows" \/ c \in Loader) /\ ~ (Len(arrived[k]) < want)
  <2>1. /\ pc'[c] = "idle" /\ conn' = [conn EXCEPT ![c] = NoConn]
        /\ \A d \in Caller \ {c} : pc'[d] = pc[d] /\ conn'[d] = conn[d] /\ op'[d] = op[d]
    BY <1>8 DEF Return, IInv, Inv, TypeInv
  <2>2. TakenInv'
    BY <2>1, <1>5 DEF IInv, CountInv, TakenInv, InCall
  <2>3. ~ InCall(c)'
    BY <2>1 DEF InCall
  <2>4. taken[c] + want = Size(op[c]) /\ want <= Len(arrived[k])
    BY <1>1, <1>2, <1>3, <1>6, <1>8
  <2> QED
    BY <2>1, <2>2, <2>3, <2>4, <1>1, <1>2, <1>4, ReadCount
\* The last of the head.
<1>9. CASE HandlerEnds(c) /\ pc[c] = "reading" /\ c \notin Loader
           /\ ~ (Len(arrived[k]) < want)
  <2>1. /\ pc'[c] = "dropped" /\ UNCHANGED <<op, conn>>
        /\ \A d \in Caller \ {c} : pc'[d] = pc[d]
    BY <1>9 DEF HandlerEnds, IInv, Inv, TypeInv
  <2>2. taken'[c] = HeadSize
    BY <1>2, <1>5, <1>6, <1>9
  <2>3. TakenInv'
    BY <2>1, <2>2, <1>5, <1>9 DEF IInv, CountInv, TakenInv, InCall
  <2>4. Sent(c)'
    BY <2>1 DEF Sent
  <2> QED
    BY <2>1, <2>3, <2>4, <1>1, <1>2, <1>4, ReadCount
<1> QED
  BY <1>1, <1>7, <1>8, <1>9 DEF Reads

\* A packet arrives: it was the next one at the server.
LEMMA ServerSendsCount ==
  ASSUME IInv, NEW k \in Conn, ServerSends(k)
  PROVE  CountInv'
<1>1. /\ atServer[k] # <<>>
      /\ arrived' = [arrived EXCEPT ![k] = Append(@, Head(atServer[k]))]
      /\ atServer' = [atServer EXCEPT ![k] = Tail(@)]
      /\ UNCHANGED <<pc, op, conn, taken, shared, mixed>>
  BY DEF ServerSends, callVars
<1>2. /\ arrived[k] \in Seq(Packet) /\ Len(arrived[k]) \in Nat
      /\ atServer[k] \in Seq(Packet) /\ Len(atServer[k]) \in Nat
  BY StreamsType DEF IInv
<1>3. /\ arrived'[k] = Append(arrived[k], Head(atServer[k]))
      /\ atServer'[k] = Tail(atServer[k])
      /\ \A j \in Conn \ {k} : arrived'[j] = arrived[j] /\ atServer'[j] = atServer[j]
  BY <1>1 DEF IInv, PacketsInv
<1> DEFINE l == Len(arrived[k])
           s == Len(atServer[k])
<1>4. /\ s \in Nat \ {0} /\ l \in Nat
      /\ Len(arrived'[k]) = l + 1 /\ Len(atServer'[k]) = s - 1
      /\ \A i \in 1 .. l : arrived'[k][i] = arrived[k][i]
      /\ arrived'[k][l + 1] = atServer[k][1]
      /\ \A i \in 1 .. s - 1 : atServer'[k][i] = atServer[k][i + 1]
  <2>1. s # 0
    BY <1>1, <1>2
  <2>2. Head(atServer[k]) = atServer[k][1] /\ Head(atServer[k]) \in Packet
    BY <1>1, <1>2
  <2>3. /\ Len(arrived'[k]) = l + 1
        /\ \A i \in 1 .. l : arrived'[k][i] = arrived[k][i]
        /\ arrived'[k][l + 1] = atServer[k][1]
    BY <2>2, <1>2, <1>3
  <2>4. /\ Len(atServer'[k]) = s - 1
        /\ \A i \in 1 .. s - 1 : atServer'[k][i] = atServer[k][i + 1]
    <3>1. \A q \in Seq(Packet) : q # <<>> =>
            /\ Len(Tail(q)) = Len(q) - 1
            /\ \A i \in 1 .. Len(q) - 1 : Tail(q)[i] = q[i + 1]
      OBVIOUS
    <3> QED
      BY <3>1, <1>1, <1>2, <1>3
  <2> QED
    BY <2>1, <2>3, <2>4, <1>2
<1>5. TakenInv' /\ AloneReadsOwn'
  BY <1>1 DEF IInv, CountInv, TakenInv, AloneReadsOwn, InCall
<1>6. \A d \in Caller : Sent(d)' = Sent(d) /\ InCall(d)' = InCall(d)
  BY <1>1 DEF Sent, InCall
<1>7. \A p \in Nat, q \in Nat \ {0} : (p + 1) + (q - 1) = p + q
                                      /\ (q - 1) + (p + 1) = q + p
  OBVIOUS
<1> HIDE DEF l, s
<1>8. Balance'
  <2> SUFFICES ASSUME NEW j \in Conn
               PROVE  Cardinality(Due(j)') = Len(atServer'[j]) + Len(arrived'[j])
    BY DEF Balance
  <2>1. Due(j)' = Due(j)
    BY <1>1, <1>6 DEF Due
  <2>2. Cardinality(Due(j)) = Len(atServer[j]) + Len(arrived[j])
    BY DEF IInv, CountInv, Balance
  <2>3. CASE j = k
    <3>1. Cardinality(Due(j)) = s + l
      BY <2>2, <2>3 DEF s, l
    <3>2. Len(atServer'[j]) + Len(arrived'[j]) = (s - 1) + (l + 1)
      BY <2>3, <1>4
    <3>3. (s - 1) + (l + 1) = s + l
      BY <1>4, <1>7, Zenon
    <3> QED
      BY <3>1, <3>2, <3>3, <2>1, Zenon
  <2>4. CASE j # k
    BY <2>1, <2>2, <2>4, <1>3
  <2> QED
    BY <2>3, <2>4
<1>9. OwnPackets'
  <2> SUFFICES ASSUME NEW d \in Caller, InCall(d), ~ shared[d]
               PROVE  HoldsOwn(d)'
    BY <1>1, <1>6 DEF OwnPackets
  <2>1. HoldsOwn(d) /\ conn[d] \in Conn
    BY DEF IInv, CountInv, OwnPackets, Inv, TypeInv
  <2>2. CASE conn[d] # k
    BY <2>1, <2>2, <1>1, <1>3, <1>6, HoldsOwnKept
  <2>3. CASE conn[d] = k
    <3> DEFINE due == IF Sent(d) THEN Size(op[d]) - taken[d] ELSE 0
               t == taken[d]
    <3>1. /\ l + s = due
          /\ \A i \in 1 .. l : arrived[k][i] = [to |-> d, part |-> t + i]
          /\ \A i \in 1 .. s : atServer[k][i] = [to |-> d, part |-> t + l + i]
      BY <2>1, <2>3, Zenon DEF HoldsOwn, l, s
    <3>2. t \in Nat
      <4>1. taken \in [Caller -> 0 .. 3]
        BY DEF IInv, PacketsInv
      <4> QED
        BY <4>1
    <3> HIDE DEF due, t
    <3>3. (l + 1) + (s - 1) = due
      <4>1. (l + 1) + (s - 1) = l + s
        BY <1>4, <1>7, Zenon
      <4> QED
        BY <4>1, <3>1, Zenon
    <3>4. \A i \in 1 .. l + 1 : arrived'[k][i] = [to |-> d, part |-> t + i]
      <4>1. arrived'[k][l + 1] = [to |-> d, part |-> t + l + 1]
        BY <3>1, <1>4
      <4>2. t + l + 1 = t + (l + 1)
        BY <3>2, <1>4
      <4>3. \A i \in 1 .. l + 1 : i \in 1 .. l \/ i = l + 1
        BY <1>4
      <4> QED
        BY <4>1, <4>2, <4>3, <3>1, <1>4
    <3>5. \A i \in 1 .. s - 1 : atServer'[k][i] = [to |-> d, part |-> t + (l + 1) + i]
      <4> SUFFICES ASSUME NEW i \in 1 .. s - 1
                   PROVE  atServer'[k][i] = [to |-> d, part |-> t + (l + 1) + i]
        OBVIOUS
      <4>1. \A p, q \in Nat : p + q + (i + 1) = p + (q + 1) + i
        OBVIOUS
      <4>3. i + 1 \in 1 .. s /\ t + l + (i + 1) = t + (l + 1) + i
        BY <4>1, <3>2, <1>4
      <4>2. atServer'[k][i] = atServer[k][i + 1]
        BY <1>4
      <4> QED
        BY <4>2, <4>3, <3>1
    <3>6. /\ conn'[d] = k /\ taken'[d] = t /\ op'[d] = op[d] /\ Sent(d)' = Sent(d)
          /\ due = IF Sent(d) THEN Size(op[d]) - t ELSE 0
      BY <2>3, <1>1, <1>6 DEF t, due
    <3>7. Len(arrived'[k]) = l + 1 /\ Len(atServer'[k]) = s - 1
      BY <1>4
    <3> QED
      BY <3>3, <3>4, <3>5, <3>6, <3>7, Zenon DEF HoldsOwn
  <2> QED
    BY <2>2, <2>3
<1> QED
  BY <1>5, <1>8, <1>9 DEF CountInv

\* A call of a prepare returns when its handler was dropped: it has read all.
LEMMA PrepareReturnsCount ==
  ASSUME IInv, NEW c \in Caller, pc[c] = "dropped", op[c] = "prepare", Return(c),
         UNCHANGED <<taken, arrived, atServer, shared, mixed>>
  PROVE  CountInv'
<1>1. /\ pc'[c] = "idle" /\ taken[c] = 2 /\ Size(op[c]) = 2 /\ conn[c] \in Conn
      /\ \A d \in Caller \ {c} : pc'[d] = pc[d] /\ conn'[d] = conn[d] /\ op'[d] = op[d]
  BY DEF Return, IInv, Inv, TypeInv, CountInv, TakenInv, HeadSize, Size, InCall
<1>2. ~ InCall(c)' /\ \A d \in Caller \ {c} : Sent(d)' = Sent(d) /\ InCall(d)' = InCall(d)
  BY <1>1 DEF Sent, InCall
<1>3. TakenInv'
  BY <1>1, <1>2 DEF IInv, CountInv, TakenInv
<1>4. Balance'
  <2>1. ASSUME NEW j \in Conn PROVE Due(j)' = Due(j)
    <3>1. \A q \in Caller \X (1 .. 3) : q[1] = c => q \notin Due(j)'
      BY <1>1 DEF Due, Sent
    <3>2. \A q \in Caller \X (1 .. 3) : q[1] = c => q \notin Due(j)
      BY <1>1 DEF Due
    <3>3. \A q \in Caller \X (1 .. 3) : q[1] # c => (q \in Due(j)' <=> q \in Due(j))
      BY <1>1, <1>2 DEF Due
    <3>4. Due(j)' \subseteq Caller \X (1 .. 3) /\ Due(j) \subseteq Caller \X (1 .. 3)
      BY DEF Due
    <3> QED
      BY <3>1, <3>2, <3>3, <3>4
  <2> QED
    BY <2>1 DEF IInv, CountInv, Balance
<1>5. OwnPackets'
  <2> SUFFICES ASSUME NEW d \in Caller, InCall(d)', ~ shared[d]
               PROVE  HoldsOwn(d)'
    BY DEF OwnPackets
  <2>1. d # c /\ HoldsOwn(d)
    BY <1>2 DEF IInv, CountInv, OwnPackets
  <2> QED
    BY <2>1, <1>1, <1>2, HoldsOwnKept
<1>6. AloneReadsOwn'
  BY DEF IInv, CountInv, AloneReadsOwn
<1> QED
  BY <1>3, <1>4, <1>5, <1>6 DEF CountInv

LEMMA CountStep ==
  ASSUME IInv, Next
  PROVE  CountInv'
<1>1. ASSUME NEW c \in Caller, NEW k \in Conn, Prepare(c, k)
      PROVE  CountInv'
  BY <1>1, EnterCount DEF Prepare, Ops
<1>2. ASSUME NEW c \in Caller, NEW k \in Conn, NEW o \in Ops, Call(c, k, o)
      PROVE  CountInv'
  BY <1>2, EnterCount DEF Call
<1>3. ASSUME NEW c \in Caller, NEW stage \in {"writing", "rows"},
             pc' = [pc EXCEPT ![c] = stage],
             stage = "writing" => pc[c] = "created",
             stage = "rows" => pc[c] = "dropped",
             UNCHANGED <<op, conn, taken, arrived, atServer, shared, mixed>>
      PROVE  CountInv'
  <2>1. pc'[c] = stage /\ \A d \in Caller \ {c} : pc'[d] = pc[d]
    BY <1>3 DEF IInv, Inv, TypeInv
  <2>2. \A d \in Caller : Sent(d)' = Sent(d) /\ InCall(d)' = InCall(d)
    BY <2>1, <1>3 DEF Sent, InCall
  <2>3. TakenInv'
    BY <2>1, <2>2, <1>3 DEF IInv, CountInv, TakenInv, HeadSize
  <2> QED
    BY <2>2, <2>3, <1>3, QuietCount DEF IInv
<1>4. ASSUME NEW c \in Caller,
             UNCHANGED <<pc, op, conn, taken, arrived, atServer, shared, mixed>>
      PROVE  CountInv'
  <2>1. \A d \in Caller : Sent(d)' = Sent(d) /\ InCall(d)' = InCall(d)
    BY <1>4 DEF Sent, InCall
  <2>2. TakenInv'
    BY <1>4 DEF IInv, CountInv, TakenInv, InCall
  <2> QED
    BY <2>1, <2>2, <1>4, QuietCount DEF IInv
<1>5. ASSUME NEW c \in Caller, HandlerStarts(c)
      PROVE  CountInv'
  BY <1>3, <1>5 DEF HandlerStarts, callVars, wireVars
<1>6. ASSUME NEW c \in Caller, HandlerGoesOn(c) \/ WritesPart(c)
      PROVE  CountInv'
  BY <1>4, <1>6 DEF HandlerGoesOn, WritesPart, callVars, wireVars
<1>7. ASSUME NEW c \in Caller, CallerResumes(c)
      PROVE  CountInv'
  <2>1. pc[c] = "dropped" /\ UNCHANGED <<taken, arrived, atServer, shared, mixed>>
    BY <1>7 DEF CallerResumes, wireVars
  <2>2. CASE op[c] = "prepare"
    BY <2>1, <2>2, <1>7, PrepareReturnsCount DEF CallerResumes
  <2>3. CASE op[c] # "prepare"
    BY <2>1, <2>3, <1>3, <1>7 DEF CallerResumes
  <2> QED
    BY <2>2, <2>3
<1> QED
  BY <1>1, <1>2, <1>5, <1>6, <1>7, WritesAllCount, ReadsCount, ServerSendsCount DEF Next

-----------------------------------------------------------------------------
(* The invariance.                                                         *)

LEMMA StepInv == IInv /\ [Next]_vars => IInv'
<1> SUFFICES ASSUME IInv, [Next]_vars PROVE IInv'
  OBVIOUS
<1>1. CASE Next
  <2>1. StagesInv' /\ PacketsInv' /\ CountInv'
    BY <1>1, StagesStep, PacketsStep, CountStep DEF IInv, Inv
  <2>2. ASSUME NEW c \in Caller, HandlerStarts(c) PROVE Inv'
    <3>1. c \notin Loader
      BY <2>2 DEF HandlerStarts, IInv, StagesInv
    <3> QED
      BY <2>2, <3>1, HandlerStartsInv DEF IInv
  <2>3. Inv'
    BY <1>1, <2>2, CallInv, PrepareInv, HandlerGoesOnInv, CallerResumesInv,
       WritesAllInv, WritesPartInv, ReadsInv, ServerSendsInv DEF IInv, Next
  <2> QED
    BY <2>1, <2>3 DEF IInv
<1>2. CASE UNCHANGED vars
  BY <1>2 DEF vars, callVars, wireVars, IInv, Inv, TypeInv, YieldIsLive, HalfIsWritten,
       SharingIsMarked, OwnYield, RunningInCall, UndefinedIfShared, HasHandler, InCall,
       StagesInv, PacketsInv, CountInv, TakenInv, Balance, Due, Sent, OwnPackets,
       HoldsOwn, AloneReadsOwn
<1> QED
  BY <1>1, <1>2

LEMMA Invariance == Spec => []IInv
<1>1. Init => IInv
  BY InitInv, InitStages, InitCount DEF IInv
<1> QED
  BY <1>1, StepInv, PTL DEF Spec

-----------------------------------------------------------------------------
(* Theorems.                                                               *)

\* Calls, connections and packets are well formed in every reachable state.
THEOREM QueriesTypeCorrect == Spec => []TypeOK
<1>1. IInv => TypeOK
  BY DEF IInv, Inv, TypeInv, StagesInv, PacketsInv, TypeOK
<1> QED
  BY <1>1, Invariance, PTL

\* A stream never keeps the yield functions of a handler that is gone.
THEOREM YieldLive == Spec => []YieldIsLive
<1>1. IInv => YieldIsLive
  BY DEF IInv, Inv
<1> QED
  BY <1>1, Invariance, PTL

\* Calls that do not share their connection are never undefined.
THEOREM DefinedAlone == Spec => []UndefinedIfShared
<1>1. IInv => UndefinedIfShared
  BY DEF IInv, Inv
<1> QED
  BY <1>1, Invariance, PTL

\* A handler that has its connection to itself does not stop the event loop.
THEOREM RowsOnly == Spec => []WaitsForRowsOnly
<1>1. IInv => WaitsForRowsOnly
  <2> SUFFICES ASSUME IInv, NEW c \in Caller, Blocked(c), ~shared[c],
                      pc[c] # "rows", c \notin Loader
               PROVE  FALSE
    BY DEF WaitsForRowsOnly
  <2>1. pc[c] = "reading" /\ yield[conn[c]] = NoCaller
    BY DEF Blocked
  <2> QED
    BY <2>1 DEF IInv, Inv, OwnYield
<1> QED
  BY <1>1, Invariance, PTL

\* When no call uses a connection, nothing of an earlier call is left on it:
\* no yield functions, no request in part, and no packet on its way or unread,
\* whatever calls shared it and in whatever order they went on.
THEOREM IdleClean == Spec => []IdleIsClean
<1>1. IInv => IdleIsClean
  <2> SUFFICES ASSUME IInv, NEW k \in Conn, \A c \in Caller : InCall(c) => conn[c] # k
               PROVE  /\ yield[k] = NoCaller /\ half[k] = NoCaller
                      /\ atServer[k] = <<>> /\ arrived[k] = <<>>
    BY DEF IdleIsClean
  <2>1. yield[k] = NoCaller
    BY DEF IInv, Inv, TypeInv, YieldIsLive, HasHandler, InCall
  <2>2. half[k] = NoCaller
    BY DEF IInv, Inv, TypeInv, HalfIsWritten, InCall
  <2>3. \A d \in Caller : Sent(d) => conn[d] # k
    BY DEF Sent, InCall
  <2>4. atServer[k] = <<>> /\ arrived[k] = <<>>
    BY <2>3, NothingDue DEF IInv, CountInv
  <2> QED
    BY <2>1, <2>2, <2>4
<1> QED
  BY <1>1, Invariance, PTL

\* A caller whose call has its connection to itself reads its own reply, in
\* its order, whoever used the connection before.
THEOREM AloneReads == Spec => []AloneReadsOwn
<1>1. IInv => AloneReadsOwn
  BY DEF IInv, CountInv
<1> QED
  BY <1>1, Invariance, PTL

=============================================================================
