------------------------- MODULE HttpGateway_proofs -------------------------
(***************************************************************************)
(* What the HTTP server's calls do to the service is what its clients may  *)
(* do, so every theorem about Spec holds behind the gateway; what a client *)
(* is told is what the service has done for it; and the clients' views of  *)
(* a chat agree, for any number of calls, handlers, timeouts and crashes.  *)
(***************************************************************************)
EXTENDS HttpGateway, IMServiceCache_proofs

(***************************************************************************)
(* Every step of the gateway is a step of the service or leaves it alone.  *)
(***************************************************************************)
LEMMA GatewaySteps == GNext => [Next]_vars
<1> SUFFICES ASSUME GNext PROVE [Next]_vars
  OBVIOUS
<1> USE DEF Next, Request, Work
<1>1. CASE \E c \in Calls : Refuse(c) \/ Post(c) \/ Get(c) \/ GiveUp(c) \/ Lose(c)
  BY <1>1 DEF Refuse, Post, Get, Issue, GiveUp, Lose
<1>2. ASSUME NEW h \in Handlers, NEW c \in Calls, ArriveSend(h, c)
      PROVE Next
  BY <1>2 DEF ArriveSend
<1>3. ASSUME NEW h \in Handlers, NEW c \in Calls, ArrivePull(h, c)
      PROVE Next
  BY <1>3 DEF ArrivePull
<1>4. ASSUME NEW h \in Handlers, Reply(h)
      PROVE Next
  BY <1>4 DEF Reply
<1>5. ASSUME NEW h \in Handlers, Run(h)
      PROVE Next
  BY <1>5 DEF Run
<1>6. CASE Die
  BY <1>6 DEF Die
<1> QED
  BY <1>1, <1>2, <1>3, <1>4, <1>5, <1>6 DEF GNext

(***************************************************************************)
(* Behind the gateway the service behaves as IMService says.               *)
(***************************************************************************)
THEOREM GatewayRunsService == GSpec => Spec
<1>1. GInit => Init
  BY DEF GInit
<1>2. [GNext]_gvars => [Next]_vars
  BY GatewaySteps DEF gvars
<1> QED
  BY <1>1, <1>2, PTL DEF GSpec, Spec

(***************************************************************************)
(* The cursors found behind the gateway name stored messages: no call that *)
(* timed out or was lost leaves one that does not (handler.go:103,173).    *)
(***************************************************************************)
THEOREM GatewayCursorsSound == GSpec => []CursorsSound
  BY GatewayRunsService, CursorsAreSound, PTL

-----------------------------------------------------------------------------
(* Types                                                                   *)

\* What sendMessage and pullMessage make of a request.
Bodies ==
  [method : {"Send"}, request : {Stamped(p, t) : p \in Posts, t \in 0 .. MaxTime}]
    \union [method : {"Pull"}, request : PullRequests]

\* The RPC of c has left.
Begun(c) == status[c] \notin {"new", "refused"}

BodiesFit ==
  /\ body \in [Calls -> Bodies \union {None}]
  /\ \A c \in Calls : ~ Begun(c) => body[c] = None

\* Handler h works for call c.
WorksFor(h, c) ==
  /\ pc[h] # "Idle" => Begun(c)
  /\ InTx(h) => IsSend(c)
  /\ pc[h] \in PullSteps => IsPull(c) /\ req[h] = Prepared(body[c].request)
  /\ pc[h] = "Reply" =>
       \/ IsSend(c)
       \/ IsPull(c) /\ (code[h] = 0 => req[h] \in Pulls /\ req[h] = Prepared(body[c].request))

HandlersFit == \A h \in Handlers : WorksFor(h, caller[h])

\* The rest of GTypeOK.
ValuesFit ==
  /\ status \in [Calls -> Statuses]
  /\ wire \in SUBSET Calls
  /\ caller \in [Handlers -> Calls \union {None}]
  /\ answer \in [Calls -> Seq(ChatMessages)]
  /\ clock \in Nat
  /\ origin \in [1 .. MaxSends -> Calls \union {None}]
  /\ prior \in [Calls -> SUBSET Calls]
  /\ \A h \in Handlers : caller[h] = None <=> pc[h] = "Idle"

GTypeInv == TypeInv /\ ValuesFit /\ BodiesFit /\ HandlersFit

(***************************************************************************)
(* A statement of handler h leaves what the others hold, its own row and   *)
(* request.  One of a transaction either goes on with it, commits, or      *)
(* answers with an error.                                                  *)
(***************************************************************************)
Runs(h) ==
  /\ row' = row /\ req' = req /\ sends' = sends /\ messages' \in {messages, messages \union {row[h]}}
  /\ \A g \in Handlers \ {h} : pc'[g] = pc[g] /\ code'[g] = code[g] /\ page'[g] = page[g]
  /\ \/ InTx(h) /\ pc'[h] \in TxSteps /\ messages' = messages
     \/ InTx(h) /\ pc'[h] = "Reply" /\ code'[h] # 0 /\ messages' = messages
     \/ InTx(h) /\ pc'[h] = "Reply" /\ messages' = messages \union {row[h]}
     \/ pc[h] \in PullSteps /\ pc'[h] \in PullSteps \union {"Reply"} /\ messages' = messages

LEMMA RunSteps ==
  ASSUME TypeInv, NEW h \in Handlers, Serve(h) \/ Failure(h)
  PROVE  Runs(h)
<1>. USE DEF Runs, TypeInv, TypeOK, InTx, TxSteps, CacheSteps, PullSteps, Goto, Respond,
             store, frames, counters
<1>1. CASE SendCreate(h) \/ SendScan(h) \/ SendLock(h) \/ SendDelete(h) \/ SendFailed(h)
  BY <1>1 DEF SendCreate, SendScan, SendLock, SendDelete, SendFailed
<1>2. CASE SendCommit(h) \/ SendCommitLost(h)
  BY <1>2 DEF SendCommit, SendCommitLost, Committed
<1>3. CASE PullLookup(h) \/ PullQuery(h) \/ PullFailed(h)
  BY <1>3 DEF PullLookup, PullQuery, PullFailed, AfterOwn
<1>4. CASE CursorStored(h) \/ CursorDuplicate(h) \/ CursorBlocked(h) \/ CursorFailed(h)
  BY <1>4 DEF CursorStored, CursorDuplicate, CursorBlocked, CursorFailed, AfterInsert, AfterOwn
<1>. QED
  BY <1>1, <1>2, <1>3, <1>4 DEF Serve, SendDeadlock, Failure

LEMMA BodyFits ==
  ASSUME BodiesFit, NEW c \in Calls
  PROVE  /\ body[c] = None \/ IsSend(c) \/ IsPull(c)
         /\ IsSend(c) => /\ body[c].request \in SendRequests
                         /\ body[c].request.sendTime \in 0 .. MaxTime
         /\ IsPull(c) => body[c].request \in PullRequests
<1>1. CASE body[c] \in [method : {"Send"}, request : {Stamped(p, t) : p \in Posts, t \in 0 .. MaxTime}]
  <2>1. PICK p \in Posts, t \in 0 .. MaxTime : body[c].request = Stamped(p, t)
    BY <1>1
  <2>2. body[c].request \in SendRequests /\ body[c].request.sendTime \in 0 .. MaxTime
    BY <2>1, GatewayAssumption DEF Stamped
  <2>. QED
    BY <1>1, <2>2 DEF IsSend, IsPull
<1>2. CASE body[c] \in [method : {"Pull"}, request : PullRequests]
  BY <1>2 DEF IsSend, IsPull
<1>3. CASE body[c] = None
  BY <1>3 DEF IsSend, IsPull
<1>. QED
  BY <1>1, <1>2, <1>3 DEF BodiesFit, Bodies

LEMMA GTypeInit == GInit => GTypeInv
<1>. SUFFICES ASSUME GInit PROVE GTypeInv
  OBVIOUS
<1>1. TypeInv
  BY TypeInit DEF GInit
<1>2. ValuesFit
  BY GatewayAssumption DEF GInit, Init, ValuesFit, Statuses, Over
<1>3. BodiesFit
  BY DEF GInit, BodiesFit
<1>4. HandlersFit
  BY DEF GInit, Init, HandlersFit, WorksFor, InTx, TxSteps, PullSteps, CacheSteps
<1>. QED
  BY <1>1, <1>2, <1>3, <1>4 DEF GTypeInv

(***************************************************************************)
(* What happens to a call alone: its handler, if it has one, still works   *)
(* for it.                                                                 *)
(***************************************************************************)
LEMMA GTypeCalls ==
  ASSUME GTypeInv, TypeInv', NEW c \in Calls,
         Refuse(c) \/ Post(c) \/ Get(c) \/ GiveUp(c) \/ Lose(c)
  PROVE  GTypeInv'
<1>. USE DEF GTypeInv
<1>1. /\ pc' = pc /\ req' = req /\ code' = code /\ caller' = caller /\ answer' = answer
      /\ origin' = origin
      /\ \A d \in Calls : Begun(d) => Begun(d)' /\ body'[d] = body[d]
  BY DEF ValuesFit, BodiesFit, Refuse, Post, Get, Issue, GiveUp, Lose, Tell, Begun,
         vars, store, frames, history
<1>2. HandlersFit'
  <2>. SUFFICES ASSUME NEW h \in Handlers PROVE WorksFor(h, caller[h])'
    BY DEF HandlersFit
  <2>1. CASE pc[h] = "Idle"
    BY <1>1, <2>1 DEF WorksFor, InTx, TxSteps, PullSteps, CacheSteps
  <2>2. CASE pc[h] # "Idle"
    <3>1. caller[h] \in Calls /\ Begun(caller[h]) /\ WorksFor(h, caller[h])
      BY <2>2 DEF ValuesFit, HandlersFit, WorksFor
    <3>. QED
      BY <1>1, <3>1 DEF WorksFor, InTx, IsSend, IsPull
  <2>. QED
    BY <2>1, <2>2
<1>3. CASE Refuse(c) \/ Lose(c)
  BY <1>1, <1>2, <1>3 DEF Refuse, Lose, ValuesFit, BodiesFit, Begun, Statuses, Over, history
<1>4. ASSUME NEW method \in {"Send", "Pull"}, NEW request, Issue(c, method, request),
             [method |-> method, request |-> request] \in Bodies, clock' \in Nat
      PROVE  GTypeInv'
  BY <1>1, <1>2, <1>4 DEF Issue, ValuesFit, BodiesFit, Begun, Statuses, Over, Finished
<1>5. CASE Post(c)
  <2>1. PICK p \in Posts, t \in Reading : Issue(c, "Send", Stamped(p, t)) /\ clock' = t
    BY <1>5 DEF Post
  <2>2. t \in 0 .. MaxTime
    BY GatewayAssumption DEF Reading, ValuesFit
  <2>. QED
    BY <1>4, <2>1, <2>2 DEF Bodies
<1>6. CASE Get(c)
  <2>1. PICK r \in PullRequests : Issue(c, "Pull", r) /\ clock' = clock
    BY <1>6 DEF Get
  <2>. QED
    BY <1>4, <2>1 DEF Bodies, ValuesFit
<1>7. CASE GiveUp(c)
  <2>1. IsSend(c) => body[c].request.sendTime \in 0 .. MaxTime
    BY BodyFits
  <2>. QED
    BY <1>1, <1>2, <1>7, <2>1, GatewayAssumption
    DEF GiveUp, Tell, ValuesFit, BodiesFit, Begun, Statuses, Over, history
<1>. QED
  BY <1>3, <1>5, <1>6, <1>7

\* A handler nothing happens to goes on with its call.
LEMMA GoesOn ==
  ASSUME GTypeInv, NEW g \in Handlers, pc'[g] = pc[g], req'[g] = req[g], code'[g] = code[g],
         caller'[g] = caller[g], body' = body, \A d \in Calls : Begun(d)' <=> Begun(d)
  PROVE  WorksFor(g, caller[g])'
<1>1. WorksFor(g, caller[g])
  BY DEF GTypeInv, HandlersFit
<1>2. caller[g] \in Calls \/ pc[g] = "Idle"
  BY DEF GTypeInv, ValuesFit
<1>. QED
  BY <1>1, <1>2 DEF WorksFor, InTx, TxSteps, PullSteps, CacheSteps, IsSend, IsPull

LEMMA GTypeArrives ==
  ASSUME GTypeInv, TypeInv', NEW h \in Handlers, NEW c \in Calls,
         ArriveSend(h, c) \/ ArrivePull(h, c), Begun(c)
  PROVE  GTypeInv'
<1>. USE DEF GTypeInv
<1>1. /\ c # None /\ caller' = [caller EXCEPT ![h] = c] /\ wire' \subseteq wire
      /\ UNCHANGED <<status, body, answer, clock, prior>>
  BY GatewayAssumption DEF ArriveSend, ArrivePull, Taken
<1>2. /\ pc'[h] # "Idle" /\ origin' \in [1 .. MaxSends -> Calls \union {None}]
      /\ \A g \in Handlers \ {h} : pc'[g] = pc[g] /\ req'[g] = req[g] /\ code'[g] = code[g]
      /\ WorksFor(h, c)'
  <2>. USE DEF TypeInv, TypeOK, ValuesFit, Goto, Respond, WorksFor, InTx, TxSteps, PullSteps,
               CacheSteps, Begun, IsSend, IsPull
  <2>1. CASE IsSend(c) /\ SendRejected(h) /\ origin' = origin
    BY <1>1, <2>1 DEF SendRejected
  <2>2. CASE IsSend(c) /\ SendAccepted(h) /\ origin' = [origin EXCEPT ![sends + 1] = c]
    BY <1>1, <2>2 DEF SendAccepted
  <2>3. CASE ArrivePull(h, c)
    BY <1>1, <2>3 DEF ArrivePull, PullRejected, PullAccepted, Accept
  <2>. QED
    BY <2>1, <2>2, <2>3 DEF ArriveSend
<1>3. HandlersFit'
  <2>1. \A g \in Handlers \ {h} : WorksFor(g, caller[g])'
    BY <1>1, <1>2, GoesOn DEF ValuesFit, Begun
  <2>. QED
    BY <1>1, <1>2, <2>1 DEF ValuesFit, HandlersFit
<1>. QED
  BY <1>1, <1>2, <1>3 DEF ValuesFit, BodiesFit, Begun

LEMMA GTypeReply ==
  ASSUME GTypeInv, TypeInv', NEW h \in Handlers, Reply(h)
  PROVE  GTypeInv'
<1>. DEFINE c == caller[h]
<1>. USE DEF GTypeInv
<1>1. c \in Calls /\ Begun(c) /\ WorksFor(h, c) /\ pc[h] = "Reply"
  BY DEF Reply, Return, ValuesFit, HandlersFit, WorksFor
<1>2. /\ caller' = [caller EXCEPT ![h] = None] /\ pc' = [pc EXCEPT ![h] = "Idle"]
      /\ \A g \in Handlers \ {h} : pc'[g] = pc[g] /\ req'[g] = req[g] /\ code'[g] = code[g]
      /\ UNCHANGED <<body, wire, origin, prior>>
  BY DEF Reply, Return, Goto, TypeInv, TypeOK, ValuesFit, history
<1>3. /\ status' \in [Calls -> Statuses] /\ clock' \in Nat
      /\ \A d \in Calls : Begun(d)' <=> Begun(d)
  <2>1. IsSend(c) => body[c].request.sendTime \in 0 .. MaxTime
    BY <1>1, BodyFits
  <2>2. CASE status[c] = "waiting"
    <3>1. Tell(c, HttpStatus(code[h])) /\ HttpStatus(code[h]) \in {"ok", "failed"}
      BY <2>2 DEF Reply, HttpStatus
    <3>. QED
      BY <1>1, <2>1, <2>2, <3>1, GatewayAssumption DEF Tell, ValuesFit, Statuses, Over, Begun
  <2>3. CASE status[c] # "waiting"
    BY <2>3 DEF Reply, ValuesFit, Begun
  <2>. QED
    BY <2>2, <2>3
<1>4. answer' \in [Calls -> Seq(ChatMessages)]
  <2>1. CASE status[c] = "waiting" /\ IsPull(c) /\ code[h] = 0
    <3>1. req[h] \in Pulls
      BY <1>1, <2>1 DEF WorksFor, IsPull, IsSend
    <3>2. Delivered(h) \in Seq(ChatMessages)
      BY <3>1, DeliveredFits
    <3>. QED
      BY <1>1, <2>1, <3>2 DEF Reply, ValuesFit
  <2>. QED
    BY <2>1 DEF Reply, ValuesFit
<1>. HIDE DEF c
<1>5. /\ pc'[h] = "Idle" /\ caller'[h] = None
      /\ \A g \in Handlers \ {h} : caller'[g] = caller[g]
  BY <1>2 DEF ValuesFit, TypeInv, TypeOK
<1>6. HandlersFit'
  <2>1. \A g \in Handlers \ {h} : WorksFor(g, caller[g])'
    BY <1>2, <1>3, <1>5, GoesOn
  <2>2. WorksFor(h, caller[h])'
    BY <1>5 DEF WorksFor, InTx, TxSteps, PullSteps, CacheSteps
  <2>. QED
    BY <2>1, <2>2 DEF HandlersFit
<1>7. ValuesFit'
  BY <1>2, <1>3, <1>4, <1>5 DEF ValuesFit
<1>. QED
  BY <1>2, <1>3, <1>6, <1>7 DEF BodiesFit

LEMMA GTypeRun ==
  ASSUME GTypeInv, TypeInv', NEW h \in Handlers, Run(h)
  PROVE  GTypeInv'
<1>. USE DEF GTypeInv
<1>1. Runs(h) /\ UNCHANGED <<status, body, wire, caller, answer, clock, origin, prior>>
  BY RunSteps DEF Run, gateway, history
<1>2. WorksFor(h, caller[h]) /\ req[h] \in Pulls \union {None}
      /\ (pc[h] \in PullSteps => req[h] \in Pulls)
  BY DEF HandlersFit, TypeInv, TypeOK, FramesReady, FrameReady
<1>3. HandlersFit'
  BY <1>1, <1>2
  DEF Runs, HandlersFit, WorksFor, InTx, TxSteps, PullSteps, CacheSteps, Begun, IsSend, IsPull
<1>4. \A g \in Handlers : pc'[g] = "Idle" <=> pc[g] = "Idle"
  BY <1>1 DEF Runs, InTx, TxSteps, PullSteps, CacheSteps
<1>. QED
  BY <1>1, <1>3, <1>4 DEF ValuesFit, BodiesFit, Begun

\* A request under way is one that has left.
WireFits == \A c \in wire : Begun(c)

LEMMA GTypeStep ==
  ASSUME GTypeInv, WireFits, [GNext]_gvars
  PROVE  GTypeInv'
<1>1. TypeInv'
  BY GatewaySteps, TypeStep DEF GTypeInv, gvars
<1>2. ASSUME NEW h \in Handlers, NEW c \in Calls, ArriveSend(h, c) \/ ArrivePull(h, c)
      PROVE  GTypeInv'
  BY <1>1, <1>2, GTypeArrives DEF WireFits, ArriveSend, ArrivePull, Taken
<1>3. CASE Die
  <2>1. HandlersFit'
    BY <1>3 DEF Die, Crash, HandlersFit, WorksFor, InTx, TxSteps, PullSteps, CacheSteps
  <2>2. ValuesFit' /\ BodiesFit'
    BY <1>3 DEF Die, Crash, GTypeInv, ValuesFit, BodiesFit, Begun, history
  <2>. QED
    BY <1>1, <2>1, <2>2 DEF GTypeInv
<1>4. CASE UNCHANGED gvars
  BY <1>1, <1>4
  DEF gvars, vars, gateway, history, frames, GTypeInv, ValuesFit, BodiesFit, HandlersFit,
      WorksFor, Begun, InTx, IsSend, IsPull
<1>. QED
  BY <1>1, <1>2, <1>3, <1>4, GTypeCalls, GTypeReply, GTypeRun DEF GNext

-----------------------------------------------------------------------------
(* Which call a row belongs to                                             *)

\* m is what the RPC of c asks to store.
RowIsOf(m, c) ==
  /\ origin[m.id] = c
  /\ IsSend(c)
  /\ m = ToChatMessage(body[c].request, m.id)

\* Stored and pending rows have ids of their own, from those given so far.
Ids ==
  /\ sends \in 0 .. MaxSends
  /\ \A m \in messages : m.id \in 1 .. sends
  /\ \A h \in Handlers : InTx(h) => row[h].id \in 1 .. sends
  /\ \A m, n \in messages : m.id = n.id => m = n
  /\ \A h \in Handlers : InTx(h) => \A m \in messages : m.id # row[h].id
  /\ \A g, h \in Handlers : InTx(g) /\ InTx(h) /\ row[g].id = row[h].id => g = h

\* Each row is that of a call, and no call has two.
Origins ==
  /\ \A i \in 1 .. MaxSends : i > sends => origin[i] = None
  /\ \A i, j \in 1 .. MaxSends : origin[i] = origin[j] /\ origin[i] # None => i = j
  /\ \A h \in Handlers : InTx(h) => RowIsOf(row[h], caller[h])
  /\ \A m \in messages : origin[m.id] \in Calls /\ RowIsOf(m, origin[m.id])

\* The service has not seen the RPC of c.
Untaken(c) ==
  /\ \A i \in 1 .. MaxSends : origin[i] # c
  /\ \A h \in Handlers : caller[h] # c

\* An RPC is taken by one handler, once.
TakenOnce ==
  /\ \A c \in Calls : c \in wire \/ ~ Begun(c) => Untaken(c)
  /\ \A g, h \in Handlers : caller[g] = caller[h] /\ caller[g] # None => g = h

\* The message of c is stored.
Kept(c) == \E m \in messages : origin[m.id] = c

\* Code 0 and status 200 are given when it is.
SuccessKept ==
  /\ \A h \in Handlers : pc[h] = "Reply" /\ code[h] = 0 /\ IsSend(caller[h]) => Kept(caller[h])
  /\ \A c \in Calls : IsSend(c) /\ status[c] = "ok" => Kept(c)

LinkInv == WireFits /\ Ids /\ Origins /\ TakenOnce /\ SuccessKept

LEMMA LinkInit == GInit => LinkInv
<1>. SUFFICES ASSUME GInit PROVE LinkInv
  OBVIOUS
<1>1. Ids
  BY BoundsAssumption DEF GInit, Init, Ids, InTx, TxSteps
<1>2. WireFits /\ Origins /\ TakenOnce
  BY GatewayAssumption DEF GInit, Init, WireFits, Origins, TakenOnce, Untaken, InTx, TxSteps
<1>3. SuccessKept
  BY DEF GInit, Init, SuccessKept, IsSend
<1>. QED
  BY <1>1, <1>2, <1>3 DEF LinkInv

\* Handler h takes the RPC of c and opens the transaction for its row.
Opens(h, c) ==
  /\ pc[h] = "Idle" /\ c \in wire /\ IsSend(c) /\ sends < MaxSends
  /\ messages' = messages /\ sends' = sends + 1
  /\ pc' = [pc EXCEPT ![h] = "Create"]
  /\ row' = [row EXCEPT ![h] = ToChatMessage(body[c].request, sends + 1)]
  /\ caller' = [caller EXCEPT ![h] = c]
  /\ origin' = [origin EXCEPT ![sends + 1] = c]
  /\ body' = body

\* It commits it.
Commits(h) ==
  /\ InTx(h) /\ pc'[h] = "Reply"
  /\ messages' = messages \union {row[h]} /\ sends' = sends
  /\ \A g \in Handlers \ {h} : pc'[g] = pc[g]
  /\ row' = row /\ caller' = caller /\ origin' = origin /\ body' = body

\* Nothing of this; transactions go on or end.
Settled ==
  /\ messages' = messages /\ sends' = sends /\ origin' = origin
  /\ \A h \in Handlers : pc'[h] \in TxSteps =>
       InTx(h) /\ row'[h] = row[h] /\ caller'[h] = caller[h]
  /\ \A c \in Calls : Begun(c) => body'[c] = body[c]

LEMMA LinkSteps ==
  ASSUME GTypeInv, [GNext]_gvars
  PROVE  \/ \E h \in Handlers, c \in Calls : Opens(h, c)
         \/ \E h \in Handlers : Commits(h)
         \/ Settled
<1>. USE DEF InTx, TxSteps, PullSteps, CacheSteps, GTypeInv, TypeInv, TypeOK, ValuesFit, Goto, Respond,
             store, frames, counters, gateway, history, vars
<1>1. CASE \E c \in Calls : Refuse(c) \/ Post(c) \/ Get(c) \/ GiveUp(c) \/ Lose(c)
  BY <1>1 DEF Refuse, Post, Get, Issue, GiveUp, Lose, Tell, Settled, BodiesFit, Begun
<1>2. CASE \E h \in Handlers, c \in Calls : ArriveSend(h, c)
  <2>1. PICK h \in Handlers, c \in Calls : ArriveSend(h, c)
    BY <1>2
  <2>2. CASE SendRejected(h) /\ origin' = origin
    BY <2>1, <2>2 DEF ArriveSend, Taken, SendRejected, Settled
  <2>3. CASE /\ SendAccepted(h)
             /\ row'[h] = ToChatMessage(body[c].request, sends + 1)
             /\ origin' = [origin EXCEPT ![sends + 1] = c]
    <3>1. Opens(h, c)
      BY <2>1, <2>3 DEF ArriveSend, Taken, SendAccepted, Opens
    <3>. QED
      BY <3>1
  <2>. QED
    BY <2>1, <2>2, <2>3 DEF ArriveSend
<1>3. CASE \E h \in Handlers, c \in Calls : ArrivePull(h, c)
  BY <1>3 DEF ArrivePull, Taken, PullAccepted, Accept, PullRejected, Settled
<1>4. CASE \E h \in Handlers : Reply(h)
  BY <1>4 DEF Reply, Return, Settled
<1>5. CASE \E h \in Handlers : Run(h)
  <2>1. PICK h \in Handlers : Run(h)
    BY <1>5
  <2>2. Runs(h) /\ UNCHANGED <<status, body, wire, caller, answer, clock, origin, prior>>
    BY <2>1, RunSteps DEF Run
  <2>3. CASE pc'[h] = "Reply" /\ InTx(h) /\ messages' = messages \union {row[h]}
    BY <2>2, <2>3 DEF Runs, Commits
  <2>. QED
    BY <2>2, <2>3 DEF Runs, Settled
<1>6. CASE Die
  BY <1>6 DEF Die, Crash, Settled
<1>7. CASE UNCHANGED gvars
  BY <1>7 DEF gvars, Settled
<1>. QED
  BY <1>1, <1>2, <1>3, <1>4, <1>5, <1>6, <1>7 DEF GNext

LEMMA IdsStep ==
  ASSUME GTypeInv, Ids, [GNext]_gvars
  PROVE  Ids'
<1>1. ASSUME NEW h \in Handlers, NEW c \in Calls, Opens(h, c)
      PROVE  Ids'
  BY <1>1, BoundsAssumption
  DEF Opens, Ids, InTx, TxSteps, ToChatMessage, GTypeInv, TypeInv, TypeOK
<1>2. ASSUME NEW h \in Handlers, Commits(h)
      PROVE  Ids'
  BY <1>2 DEF Commits, Ids, InTx, TxSteps
<1>3. CASE Settled
  BY <1>3 DEF Settled, Ids, InTx
<1>. QED
  BY <1>1, <1>2, <1>3, LinkSteps

\* Once begun, a call keeps its RPC.
LEMMA BodiesStay ==
  ASSUME GTypeInv, [GNext]_gvars, NEW c \in Calls, Begun(c)
  PROVE  Begun(c)' /\ body'[c] = body[c]
<1>. USE DEF GTypeInv, ValuesFit, Begun
<1>1. CASE \E d \in Calls : Refuse(d) \/ Post(d) \/ Get(d) \/ GiveUp(d) \/ Lose(d)
  BY <1>1 DEF Refuse, Post, Get, Issue, GiveUp, Lose, Tell, BodiesFit
<1>2. CASE \E h \in Handlers, d \in Calls : ArriveSend(h, d) \/ ArrivePull(h, d)
  BY <1>2 DEF ArriveSend, ArrivePull, Taken
<1>3. CASE \E h \in Handlers : Reply(h)
  <2>1. PICK h \in Handlers : Reply(h)
    BY <1>3
  <2>2. caller[h] \in Calls
    BY <2>1 DEF Reply
  <2>. QED
    BY <2>1, <2>2 DEF Reply, Tell, HttpStatus
<1>4. CASE (\E h \in Handlers : Run(h)) \/ Die \/ UNCHANGED gvars
  BY <1>4 DEF Run, Die, gvars, gateway
<1>. QED
  BY <1>1, <1>2, <1>3, <1>4 DEF GNext

\* A row stays that of its call.
LEMMA RowsStay ==
  ASSUME GTypeInv, [GNext]_gvars, NEW m, NEW c \in Calls, RowIsOf(m, c), origin'[m.id] = c
  PROVE  RowIsOf(m, c)'
<1>1. Begun(c)
  BY DEF RowIsOf, IsSend, GTypeInv, BodiesFit
<1>. QED
  BY <1>1, BodiesStay DEF RowIsOf, IsSend

LEMMA OriginsStep ==
  ASSUME GTypeInv, WireFits, Ids, Origins, TakenOnce, [GNext]_gvars
  PROVE  Origins'
<1>1. \A h \in Handlers : InTx(h) => caller[h] \in Calls
  BY DEF GTypeInv, ValuesFit, InTx, TxSteps
<1>2. sends \in 0 .. MaxSends /\ MaxSends \in Nat
  BY BoundsAssumption DEF Ids
<1>3. ASSUME NEW h \in Handlers, NEW c \in Calls, Opens(h, c)
      PROVE  Origins'
  <2>1. /\ origin' = [origin EXCEPT ![sends + 1] = c] /\ sends' = sends + 1
        /\ origin \in [1 .. MaxSends -> Calls \union {None}] /\ sends + 1 \in 1 .. MaxSends
    BY <1>2, <1>3 DEF Opens, GTypeInv, ValuesFit
  <2>2. \A i \in 1 .. MaxSends : origin[i] # c
    BY <1>3 DEF Opens, TakenOnce, Untaken
  <2>3. \A i \in 1 .. MaxSends : i > sends' => origin'[i] = None
    BY <1>2, <2>1 DEF Origins
  <2>4. \A i, j \in 1 .. MaxSends : origin'[i] = origin'[j] /\ origin'[i] # None => i = j
    BY <2>1, <2>2 DEF Origins
  <2>5. ASSUME NEW g \in Handlers, InTx(g)' PROVE RowIsOf(row[g], caller[g])'
    <3>1. CASE g = h
      <4>1. row'[h] = ToChatMessage(body[c].request, sends + 1) /\ caller'[h] = c /\ IsSend(c)
            /\ body' = body
        BY <1>3 DEF Opens, GTypeInv, TypeInv, TypeOK, ValuesFit
      <4>2. row'[h].id = sends + 1
        BY <4>1 DEF ToChatMessage
      <4>. QED
        BY <2>1, <3>1, <4>1, <4>2 DEF RowIsOf, IsSend
    <3>2. CASE g # h
      <4>1. InTx(g) /\ row'[g] = row[g] /\ caller'[g] = caller[g]
        BY <1>3, <2>5, <3>2 DEF Opens, InTx, GTypeInv, TypeInv, TypeOK, ValuesFit
      <4>2. row[g].id \in 1 .. sends /\ RowIsOf(row[g], caller[g])
        BY <4>1 DEF Ids, Origins
      <4>3. origin'[row[g].id] = caller[g]
        BY <1>2, <2>1, <4>2 DEF RowIsOf
      <4>. QED
        BY <1>1, <1>3, <4>1, <4>2, <4>3 DEF RowIsOf, IsSend, Opens
    <3>. QED
      BY <3>1, <3>2
  <2>6. ASSUME NEW m \in messages' PROVE origin'[m.id] \in Calls /\ RowIsOf(m, origin[m.id])'
    <3>1. m \in messages /\ m.id \in 1 .. sends /\ origin'[m.id] = origin[m.id]
      BY <1>2, <1>3, <2>1 DEF Opens, Ids
    <3>. QED
      BY <1>3, <3>1 DEF Origins, RowIsOf, IsSend, Opens
  <2>. QED
    BY <2>3, <2>4, <2>5, <2>6 DEF Origins
<1>4. ASSUME NEW h \in Handlers, Commits(h)
      PROVE  Origins'
  BY <1>1, <1>4 DEF Commits, Origins, RowIsOf, IsSend, InTx, TxSteps
<1>5. CASE Settled
  <2>1. ASSUME NEW m \in messages PROVE origin[m.id] \in Calls /\ RowIsOf(m, origin[m.id])'
    BY <1>5, <2>1, RowsStay DEF Settled, Origins, RowIsOf
  <2>2. ASSUME NEW h \in Handlers, InTx(h)' PROVE RowIsOf(row[h], caller[h])'
    <3>1. InTx(h) /\ row'[h] = row[h] /\ caller'[h] = caller[h] /\ origin' = origin
      BY <1>5, <2>2 DEF Settled, InTx
    <3>2. RowIsOf(row[h], caller[h])
      BY <3>1 DEF Origins
    <3>. QED
      BY <1>1, <3>1, <3>2, RowsStay DEF RowIsOf
  <2>. QED
    BY <1>5, <2>1, <2>2 DEF Settled, Origins
<1>. QED
  BY <1>3, <1>4, <1>5, LinkSteps

LEMMA TakenStep ==
  ASSUME GTypeInv, WireFits, Ids, TakenOnce, [GNext]_gvars
  PROVE  WireFits' /\ TakenOnce'
<1>. USE DEF GTypeInv, ValuesFit, WireFits, TakenOnce, Untaken, Begun
<1>1. CASE \E c \in Calls : Refuse(c) \/ Post(c) \/ Get(c) \/ GiveUp(c) \/ Lose(c)
  <2>1. CASE \E c \in Calls : Refuse(c)
    BY <2>1 DEF Refuse, history
  <2>2. CASE \E c \in Calls : Post(c)
    BY <2>2 DEF Post, Issue, history
  <2>3. CASE \E c \in Calls : Get(c)
    BY <2>3 DEF Get, Issue, history
  <2>4. CASE \E c \in Calls : GiveUp(c) \/ Lose(c)
    BY <2>4 DEF GiveUp, Lose, Tell, history
  <2>. QED
    BY <1>1, <2>1, <2>2, <2>3, <2>4
<1>2. ASSUME NEW h \in Handlers, NEW c \in Calls, Taken(h, c), UNCHANGED <<origin, sends>>
      PROVE  WireFits' /\ TakenOnce'
  BY <1>2, GatewayAssumption DEF Taken
<1>3. ASSUME NEW h \in Handlers, NEW c \in Calls, Taken(h, c),
             origin' = [origin EXCEPT ![sends + 1] = c]
      PROVE  WireFits' /\ TakenOnce'
  BY <1>3, GatewayAssumption DEF Taken
<1>4. ASSUME NEW h \in Handlers, Reply(h) PROVE WireFits' /\ TakenOnce'
  <2>1. /\ caller[h] \in Calls /\ caller' = [caller EXCEPT ![h] = None] /\ wire' = wire
        /\ origin' = origin
    BY <1>4 DEF Reply, history
  <2>2. \/ status' = status
        \/ /\ status[caller[h]] = "waiting"
           /\ \E s \in {"ok", "failed"} : status' = [status EXCEPT ![caller[h]] = s]
    BY <1>4 DEF Reply, Tell, HttpStatus
  <2>3. \A d \in Calls : Begun(d)' <=> Begun(d)
    BY <2>1, <2>2
  <2>. QED
    BY <2>1, <2>3, GatewayAssumption
<1>5. CASE \E h \in Handlers : Run(h)
  BY <1>5 DEF Run, gateway, history
<1>6. CASE Die
  BY <1>6, GatewayAssumption DEF Die, history
<1>7. CASE UNCHANGED gvars
  BY <1>7 DEF gvars, gateway, history
<1>8. CASE \E h \in Handlers, c \in Calls : ArriveSend(h, c) \/ ArrivePull(h, c)
  BY <1>2, <1>3, <1>8
  DEF ArriveSend, ArrivePull, SendRejected, PullAccepted, Accept, PullRejected, counters
<1>. QED
  BY <1>1, <1>4, <1>5, <1>6, <1>7, <1>8 DEF GNext

\* What is stored for a call stays so.
LEMMA KeptStays ==
  ASSUME GTypeInv, Ids, [GNext]_gvars, NEW c, Kept(c)
  PROVE  Kept(c)'
<1>1. messages \subseteq messages'
  BY GatewaySteps, MessagesGrow DEF gvars
<1>2. \A m \in messages : origin'[m.id] = origin[m.id]
  <2>1. ASSUME NEW h \in Handlers, NEW d \in Calls, Opens(h, d), NEW m \in messages
        PROVE  origin'[m.id] = origin[m.id]
    BY <2>1, BoundsAssumption DEF Opens, Ids, GTypeInv, ValuesFit
  <2>. QED
    BY <2>1, LinkSteps DEF Commits, Settled
<1>. QED
  BY <1>1, <1>2 DEF Kept

LEMMA SuccessStep ==
  ASSUME GTypeInv, Ids, Origins, TakenOnce, SuccessKept, [GNext]_gvars
  PROVE  SuccessKept'
<1>1. \A c : Kept(c) => Kept(c)'
  BY KeptStays
<1>2. ASSUME NEW h \in Handlers, pc'[h] = "Reply", code'[h] = 0, IsSend(caller[h])'
      PROVE  Kept(caller[h])'
  <2>1. CASE /\ pc[h] = "Reply" /\ code[h] = 0 /\ caller'[h] = caller[h]
    <3>1. caller[h] \in Calls /\ Begun(caller[h])
      BY <2>1 DEF GTypeInv, ValuesFit, HandlersFit, WorksFor
    <3>2. IsSend(caller[h])
      BY <1>2, <2>1, <3>1, BodiesStay DEF IsSend
    <3>. QED
      BY <1>1, <2>1, <3>2 DEF SuccessKept
  <2>2. ASSUME NEW g \in Handlers, NEW c \in Calls, ArriveSend(g, c) \/ ArrivePull(g, c)
        PROVE  pc[h] = "Reply" /\ code[h] = 0 /\ caller'[h] = caller[h]
    BY <1>2, <2>2
    DEF ArriveSend, ArrivePull, Taken, SendRejected, SendAccepted, PullRejected, PullAccepted,
        Accept, Goto, Respond, GTypeInv, TypeInv, TypeOK, ValuesFit
  <2>3. ASSUME NEW g \in Handlers, Reply(g)
        PROVE  pc[h] = "Reply" /\ code[h] = 0 /\ caller'[h] = caller[h]
    BY <1>2, <2>3 DEF Reply, Return, Goto, GTypeInv, TypeInv, TypeOK, ValuesFit
  <2>4. ASSUME NEW g \in Handlers, Run(g)
        PROVE  Kept(caller[h])'
    <3>1. Runs(g) /\ UNCHANGED <<caller, body, origin>>
      BY <2>4, RunSteps DEF Run, gateway, history, GTypeInv
    <3>2. CASE g # h
      BY <1>2, <2>1, <3>1, <3>2 DEF Runs
    <3>3. CASE g = h /\ InTx(h)
      BY <1>2, <3>1, <3>3 DEF Runs, TxSteps, PullSteps, CacheSteps, InTx, Origins, RowIsOf, Kept
    <3>4. CASE g = h /\ pc[h] \in PullSteps
      BY <1>2, <3>1, <3>4 DEF GTypeInv, HandlersFit, WorksFor, IsSend, IsPull
    <3>. QED
      BY <3>1, <3>2, <3>3, <3>4 DEF Runs
  <2>5. CASE Die
    BY <1>2, <2>5 DEF Die, Crash
  <2>6. CASE UNCHANGED <<pc, code, caller>>
    BY <1>2, <2>1, <2>6
  <2>7. ASSUME NEW c \in Calls, Refuse(c) \/ Post(c) \/ Get(c) \/ GiveUp(c) \/ Lose(c)
        PROVE  UNCHANGED <<pc, code, caller>>
    BY <2>7 DEF Refuse, Post, Get, Issue, GiveUp, Lose, vars, frames
  <2>. QED
    BY <2>1, <2>2, <2>3, <2>4, <2>5, <2>6, <2>7 DEF GNext, gvars, gateway, vars, frames
<1>3. ASSUME NEW c \in Calls, IsSend(c)', status'[c] = "ok"
      PROVE  Kept(c)'
  <2>1. CASE status[c] = "ok"
    BY <1>1, <1>3, <2>1, BodiesStay DEF SuccessKept, IsSend, Begun
  <2>2. CASE status[c] # "ok"
    <3>1. PICK h \in Handlers : Reply(h) /\ caller[h] = c /\ code[h] = 0
      <4>. USE DEF GTypeInv, ValuesFit
      <4>1. CASE \E d \in Calls : Refuse(d) \/ Post(d) \/ Get(d) \/ GiveUp(d) \/ Lose(d)
        BY <1>3, <2>2, <4>1 DEF Refuse, Post, Get, Issue, GiveUp, Lose, Tell
      <4>2. CASE \E h \in Handlers, d \in Calls : ArriveSend(h, d) \/ ArrivePull(h, d)
        BY <1>3, <2>2, <4>2 DEF ArriveSend, ArrivePull, Taken
      <4>3. CASE \E h \in Handlers : Reply(h)
        BY <1>3, <2>2, <4>3 DEF Reply, Tell, HttpStatus
      <4>4. CASE (\E h \in Handlers : Run(h)) \/ Die \/ UNCHANGED gvars
        BY <1>3, <2>2, <4>4 DEF Run, Die, gvars, gateway
      <4>. QED
        BY <4>1, <4>2, <4>3, <4>4 DEF GNext
    <3>2. pc[h] = "Reply" /\ body' = body
      BY <3>1 DEF Reply, Return
    <3>. QED
      BY <1>1, <1>3, <3>1, <3>2 DEF SuccessKept, IsSend
  <2>. QED
    BY <2>1, <2>2
<1>. QED
  BY <1>2, <1>3 DEF SuccessKept

LEMMA LinkStep ==
  ASSUME GTypeInv, LinkInv, [GNext]_gvars
  PROVE  LinkInv'
  BY TakenStep, IdsStep, OriginsStep, SuccessStep DEF LinkInv

LEMMA GatewayAlways == GSpec => [](GTypeInv /\ LinkInv)
<1>1. GTypeInv /\ LinkInv /\ [GNext]_gvars => GTypeInv' /\ LinkInv'
  BY GTypeStep, LinkStep DEF LinkInv
<1>. QED
  BY <1>1, GTypeInit, LinkInit, PTL DEF GSpec

-----------------------------------------------------------------------------
(* Theorems                                                                *)

(***************************************************************************)
(* The gateway keeps its types, and the handlers at work are exactly those *)
(* that have a caller.                                                     *)
(***************************************************************************)
THEOREM GatewayTypes == GSpec => []GTypeOK
<1>1. GTypeInv => GTypeOK
  BY BodyFits DEF GTypeInv, TypeInv, ValuesFit, GTypeOK
<1>. QED
  BY <1>1, GatewayAlways, PTL

(***************************************************************************)
(* A user who is told 200 has the message stored, once and as it was sent, *)
(* for any number of calls, handlers, lost requests, timeouts and crashes. *)
(***************************************************************************)
THEOREM AcknowledgedIsStored == GSpec => []AckedStored
<1>1. GTypeInv /\ LinkInv => AckedStored
  <2>. SUFFICES ASSUME GTypeInv, LinkInv, NEW c \in Calls, IsSend(c), status[c] = "ok"
                PROVE  \E m \in messages :
                         SentBy(c) = {m} /\ m = ToChatMessage(body[c].request, m.id)
    BY DEF AckedStored
  <2>1. PICK m \in messages : origin[m.id] = c
    BY DEF LinkInv, SuccessKept, Kept
  <2>2. \A n \in messages : origin[n.id] = c => n = m
    <3>1. sends \in 0 .. MaxSends /\ \A n \in messages : n.id \in 1 .. sends
      BY DEF LinkInv, Ids
    <3>2. \A n \in messages : n.id \in 1 .. MaxSends
      BY <3>1, BoundsAssumption
    <3>. QED
      BY <2>1, <3>2, GatewayAssumption DEF LinkInv, Ids, Origins
  <2>3. SentBy(c) = {m}
    BY <2>1, <2>2 DEF SentBy
  <2>4. m = ToChatMessage(body[c].request, m.id)
    BY <2>1 DEF LinkInv, Origins, RowIsOf
  <2>. QED
    BY <2>3, <2>4
<1>. QED
  BY <1>1, GatewayAlways, PTL

-----------------------------------------------------------------------------
(* The refinement of MessageLog                                            *)

\* Only a commit changes the log.
LEMMA LogStays ==
  ASSUME GTypeInv, Ids, [GNext]_gvars, \A h \in Handlers : ~ Commits(h)
  PROVE  LogView' = LogView
<1>1. ASSUME NEW h \in Handlers, NEW c \in Calls, Opens(h, c)
      PROVE  messages' = messages /\ \A m \in messages : origin'[m.id] = origin[m.id]
  BY <1>1, BoundsAssumption DEF Opens, Ids, GTypeInv, ValuesFit
<1>2. messages' = messages /\ \A m \in messages : origin'[m.id] = origin[m.id]
  BY <1>1, LinkSteps DEF Settled
<1>. QED
  BY <1>2 DEF LogView

\* Nobody is told anything while status and body stay.
LEMMA ToldStays ==
  ASSUME UNCHANGED <<status, body>> PROVE ToldView' = ToldView
  BY DEF ToldView, IsPull

\* A step that tells one call s.
LEMMA ToldOne ==
  ASSUME GTypeInv, NEW c \in Calls, NEW s \in Statuses, body' = body, ~ IsPull(c),
         status' = [status EXCEPT ![c] = s]
  PROVE  ToldView' = [ToldView EXCEPT ![c] = IF s = "refused" THEN "failed" ELSE s]
<1>1. \A d \in Calls : IsPull(d)' <=> IsPull(d)
  BY DEF IsPull
<1>2. status'[c] = s /\ \A d \in Calls \ {c} : status'[d] = status[d]
  BY DEF GTypeInv, ValuesFit
<1>. QED
  BY <1>1, <1>2 DEF ToldView

LEMMA LogCalls ==
  ASSUME GTypeInv, Ids, [GNext]_gvars, NEW c \in Calls,
         Refuse(c) \/ Post(c) \/ Get(c) \/ GiveUp(c) \/ Lose(c)
  PROVE  [Log!LogNext]_<<LogView, ToldView>>
<1>. USE DEF Log!LogNext, Log!Call, Log!Fail, Log!Tell
<1>1. LogView' = LogView
  <2>1. messages' = messages /\ origin' = origin
    BY DEF Refuse, Post, Get, Issue, GiveUp, Lose, vars, store, history
  <2>. QED
    BY <2>1 DEF LogView
<1>2. CASE Refuse(c)
  <2>1. status[c] = "new" /\ body[c] = None
    BY <1>2 DEF Refuse, GTypeInv, BodiesFit, Begun
  <2>2. ToldView' = [ToldView EXCEPT ![c] = "failed"]
    BY <1>2, <2>1, ToldOne DEF Refuse, IsPull, Statuses, Over
  <2>3. ToldView[c] = "new"
    BY <2>1 DEF ToldView
  <2>. QED
    BY <1>1, <2>2, <2>3
<1>3. CASE Post(c) \/ Get(c)
  <2>1. PICK method, request : Issue(c, method, request)
    BY <1>3 DEF Post, Get
  <2>2. /\ status[c] = "new" /\ status'[c] = "waiting" /\ body[c] = None
        /\ \A d \in Calls \ {c} : status'[d] = status[d] /\ body'[d] = body[d]
    BY <2>1 DEF Issue, GTypeInv, ValuesFit, BodiesFit, Begun
  <2>3. ToldView[c] = "new"
    BY <2>2 DEF ToldView
  <2>4. CASE IsPull(c)'
    <3>1. ToldView' = ToldView
      BY <2>2, <2>4 DEF ToldView, IsPull
    <3>. QED
      BY <1>1, <3>1
  <2>5. CASE ~ IsPull(c)'
    <3>1. ToldView' = [ToldView EXCEPT ![c] = "waiting"]
      BY <2>2, <2>5 DEF ToldView, IsPull
    <3>. QED
      BY <1>1, <2>3, <3>1
  <2>. QED
    BY <2>4, <2>5
<1>4. CASE GiveUp(c)
  <2>1. status[c] = "waiting" /\ status' = [status EXCEPT ![c] = "failed"] /\ body' = body
    BY <1>4 DEF GiveUp, Tell
  <2>2. CASE IsPull(c)
    <3>1. ToldView' = ToldView
      BY <2>1, <2>2 DEF ToldView, IsPull, GTypeInv, ValuesFit
    <3>. QED
      BY <1>1, <3>1
  <2>3. CASE ~ IsPull(c)
    <3>1. ToldView' = [ToldView EXCEPT ![c] = "failed"]
      BY <2>1, <2>3, ToldOne DEF Statuses, Over
    <3>2. ToldView[c] = "waiting"
      BY <2>1, <2>3 DEF ToldView
    <3>. QED
      BY <1>1, <3>1, <3>2
  <2>. QED
    BY <2>2, <2>3
<1>5. CASE Lose(c)
  BY <1>1, <1>5, ToldStays DEF Lose
<1>. QED
  BY <1>2, <1>3, <1>4, <1>5

\* A stored message of c is in the log.
LEMMA StoredView ==
  ASSUME Ids, NEW c
  PROVE  Log!Stored(c) <=> Kept(c)
<1>1. \A m \in messages : m.id \in 1 .. MaxSends
  BY BoundsAssumption DEF Ids
<1>. QED
  BY <1>1 DEF Log!Stored, Kept, LogView

LEMMA LogReply ==
  ASSUME GTypeInv, LinkInv, NEW h \in Handlers, Reply(h)
  PROVE  [Log!LogNext]_<<LogView, ToldView>>
<1>. DEFINE c == caller[h]
<1>. USE DEF Log!LogNext, Log!Succeed, Log!Fail, Log!Tell
<1>1. LogView' = LogView /\ body' = body
  BY DEF Reply, Return, store, history, LogView
<1>2. c \in Calls /\ pc[h] = "Reply" /\ (IsSend(c) \/ IsPull(c))
  BY DEF Reply, Return, GTypeInv, ValuesFit, HandlersFit, WorksFor
<1>3. CASE status' = status
  BY <1>1, <1>3, ToldStays
<1>4. CASE status[c] = "waiting" /\ status' = [status EXCEPT ![c] = HttpStatus(code[h])]
  <2>1. CASE IsPull(c)
    <3>1. ToldView' = ToldView
      BY <1>1, <1>4, <2>1 DEF ToldView, IsPull, GTypeInv, ValuesFit
    <3>. QED
      BY <1>1, <3>1
  <2>2. CASE ~ IsPull(c)
    <3>1. HttpStatus(code[h]) \in {"ok", "failed"}
      BY DEF HttpStatus
    <3>2. ToldView' = [ToldView EXCEPT ![c] = HttpStatus(code[h])]
      BY <1>1, <1>2, <1>4, <2>2, <3>1, ToldOne DEF Statuses, Over
    <3>3. ToldView[c] = "waiting"
      BY <1>2, <1>4, <2>2 DEF ToldView
    <3>4. HttpStatus(code[h]) = "ok" => Log!Stored(c)
      BY <1>2, <2>2, StoredView DEF HttpStatus, LinkInv, SuccessKept
    <3>. QED
      BY <1>1, <1>2, <3>1, <3>2, <3>3, <3>4
  <2>. QED
    BY <2>1, <2>2
<1>. QED
  BY <1>3, <1>4 DEF Reply, Tell

LEMMA LogRun ==
  ASSUME GTypeInv, LinkInv, [GNext]_gvars, NEW h \in Handlers, Run(h)
  PROVE  [Log!LogNext]_<<LogView, ToldView>>
<1>1. ToldView' = ToldView
  BY ToldStays DEF Run, gateway
<1>2. CASE \E g \in Handlers : Commits(g)
  <2>1. PICK g \in Handlers : Commits(g)
    BY <1>2
  <2>. DEFINE c == caller[g]
              i == row[g].id
  <2>2. c \in Calls /\ Begun(c) /\ RowIsOf(row[g], c) /\ i \in 1 .. MaxSends
    BY <2>1, BoundsAssumption
    DEF Commits, InTx, TxSteps, GTypeInv, ValuesFit, HandlersFit, WorksFor, LinkInv, Ids, Origins
  <2>3. ~ Kept(c)
    <3>1. \A m \in messages : m.id \in 1 .. MaxSends /\ m.id # i
      BY <2>1, BoundsAssumption DEF Commits, LinkInv, Ids
    <3>. QED
      BY <2>2, <3>1, GatewayAssumption DEF RowIsOf, Kept, LinkInv, Origins
  <2>4. IsSend(c) /\ ~ IsPull(c)
    BY <2>2 DEF RowIsOf, IsSend, IsPull
  <2>5. ToldView[c] \in {"waiting", "failed"}
    <3>1. status[c] \in {"waiting", "failed"}
      BY <2>2, <2>3, <2>4 DEF LinkInv, SuccessKept, Begun, GTypeInv, ValuesFit, Statuses, Over
    <3>. QED
      BY <2>2, <2>4, <3>1 DEF ToldView
  <2>6. LogView' = LogView \union {<<c, i>>}
    BY <2>1, <2>2 DEF Commits, LogView, RowIsOf
  <2>7. Log!Store(c)
    BY <1>1, <2>2, <2>3, <2>5, <2>6, StoredView DEF Log!Store, LinkInv
  <2>. QED
    BY <2>2, <2>7 DEF Log!LogNext
<1>3. CASE \A g \in Handlers : ~ Commits(g)
  BY <1>1, <1>3, LogStays DEF LinkInv
<1>. QED
  BY <1>2, <1>3

(***************************************************************************)
(* The service behind the gateway implements MessageLog, for any number of *)
(* calls and handlers: each commit is the one Store of a call that waits   *)
(* or was told of a failure, each 200 a Succeed of a call that is stored,  *)
(* every other step an answer, a new call or nothing.                      *)
(***************************************************************************)
THEOREM GatewayRefinesLog == GSpec => Promised
<1>1. GInit => Log!LogInit
  BY DEF GInit, Init, Log!LogInit, LogView, ToldView
<1>2. GTypeInv /\ LinkInv /\ [GNext]_gvars => [Log!LogNext]_<<LogView, ToldView>>
  <2>. SUFFICES ASSUME GTypeInv, LinkInv, [GNext]_gvars
                PROVE  [Log!LogNext]_<<LogView, ToldView>>
    OBVIOUS
  <2>1. Ids
    BY DEF LinkInv
  <2>2. ASSUME NEW h \in Handlers, NEW c \in Calls, ArriveSend(h, c) \/ ArrivePull(h, c)
        PROVE  LogView' = LogView /\ ToldView' = ToldView
    <3>1. \A g \in Handlers : ~ Commits(g)
      BY <2>2, GatewayAssumption DEF ArriveSend, ArrivePull, Taken, Commits, GTypeInv, ValuesFit,
         WorksFor, InTx, TxSteps, SendRejected, SendAccepted, PullRejected, PullAccepted, Accept,
         store, RowIsOf
    <3>. QED
      BY <2>1, <2>2, <3>1, LogStays, ToldStays DEF ArriveSend, ArrivePull, Taken
  <2>3. CASE Die
    BY <2>3, ToldStays DEF Die, Crash, store, history, LogView
  <2>4. CASE UNCHANGED gvars
    BY <2>4, ToldStays DEF gvars, gateway, vars, store, history, LogView
  <2>. QED
    BY <2>1, <2>2, <2>3, <2>4, LogCalls, LogReply, LogRun DEF GNext
<1>. QED
  BY <1>1, <1>2, GatewayAlways, PTL DEF GSpec, Promised, Log!LogSpec

-----------------------------------------------------------------------------
(* Times                                                                   *)

SentAt(c) == body[c].request.sendTime

\* The sends that are over are in the past of every clock to come.
ClockInv ==
  /\ \A d \in Calls : prior[d] \subseteq Finished
  /\ \A c \in Finished : IsSend(c) => SentAt(c) < clock
  /\ \A d \in Calls : \A c \in prior[d] : IsSend(c) /\ IsSend(d) => SentAt(c) < SentAt(d)

\* Call c leaves, with what the clock has shown.
Leaving(c) ==
  /\ status[c] = "new" /\ status' = [status EXCEPT ![c] = "waiting"]
  /\ \A d \in Calls \ {c} : body'[d] = body[d]
  /\ prior' = [prior EXCEPT ![c] = Finished]
  /\ clock' \in Nat /\ clock <= clock'
  /\ IsSend(c)' => SentAt(c)' = clock'

\* Call c is told s.
Answered(c, s) ==
  /\ status[c] = "waiting" /\ Tell(c, s)
  /\ UNCHANGED <<body, prior>>

LEMMA CallSteps ==
  ASSUME GTypeInv, [GNext]_gvars
  PROVE  \/ \E c \in Calls : Leaving(c)
         \/ \E c \in Calls, s \in {"ok", "failed"} : Answered(c, s)
         \/ \E c \in Calls : Refuse(c)
         \/ UNCHANGED <<status, body, prior, clock>>
<1>. USE DEF gateway, history
<1>1. ASSUME NEW c \in Calls, Post(c)
      PROVE  Leaving(c)
  <2>1. PICK p \in Posts, t \in Reading : Issue(c, "Send", Stamped(p, t)) /\ clock' = t
    BY <1>1 DEF Post
  <2>2. t \in Nat /\ clock <= t
    BY GatewayAssumption DEF Reading, GTypeInv, ValuesFit
  <2>. QED
    BY <2>1, <2>2 DEF Issue, Leaving, SentAt, Stamped, GTypeInv, BodiesFit
<1>2. ASSUME NEW c \in Calls, Get(c)
      PROVE  Leaving(c)
  BY <1>2 DEF Get, Issue, Leaving, IsSend, GTypeInv, BodiesFit, ValuesFit
<1>3. ASSUME NEW c \in Calls, GiveUp(c)
      PROVE  Answered(c, "failed")
  BY <1>3 DEF GiveUp, Answered
<1>4. ASSUME NEW h \in Handlers, Reply(h)
      PROVE  \/ UNCHANGED <<status, body, prior, clock>>
             \/ \E c \in Calls, s \in {"ok", "failed"} : Answered(c, s)
  <2>1. CASE status[caller[h]] = "waiting"
    <3>1. Answered(caller[h], HttpStatus(code[h])) /\ caller[h] \in Calls
      BY <1>4, <2>1 DEF Reply, Answered, GTypeInv, ValuesFit
    <3>. QED
      BY <3>1 DEF HttpStatus
  <2>. QED
    BY <1>4, <2>1 DEF Reply
<1>5. ASSUME NEW h \in Handlers, NEW c \in Calls, ArriveSend(h, c) \/ ArrivePull(h, c)
      PROVE  UNCHANGED <<status, body, prior, clock>>
  BY <1>5 DEF ArriveSend, ArrivePull, Taken
<1>6. ASSUME (\E c \in Calls : Lose(c)) \/ (\E h \in Handlers : Run(h)) \/ Die \/ UNCHANGED gvars
      PROVE  UNCHANGED <<status, body, prior, clock>>
  BY <1>6 DEF Lose, Run, Die, gvars
<1>. QED
  BY <1>1, <1>2, <1>3, <1>4, <1>5, <1>6 DEF GNext

LEMMA ClockStep ==
  ASSUME GTypeInv, ClockInv, [GNext]_gvars
  PROVE  ClockInv'
<1>. USE DEF ClockInv, GTypeInv, ValuesFit, Finished, Over
<1>1. ASSUME NEW c \in Calls, Leaving(c)
      PROVE  ClockInv'
  <2>1. Finished' = Finished /\ c \notin Finished
    BY <1>1 DEF Leaving
  <2>2. \A d \in Finished : (IsSend(d)' <=> IsSend(d)) /\ SentAt(d)' = SentAt(d)
    BY <1>1, <2>1 DEF Leaving, IsSend, SentAt
  <2>3. \A d \in Finished : IsSend(d) => SentAt(d) \in Nat
    BY BodyFits, GatewayAssumption DEF SentAt
  <2>4. \A d \in Finished : IsSend(d)' => SentAt(d)' < clock'
    <3>1. clock \in Nat /\ clock' \in Nat /\ clock <= clock'
      BY <1>1 DEF Leaving
    <3>2. ASSUME NEW d \in Finished, IsSend(d)' PROVE SentAt(d) \in Nat /\ SentAt(d) < clock
      BY <2>2, <2>3, <3>2
    <3>. QED
      BY <2>2, <3>1, <3>2
  <2>5. ASSUME NEW d \in Calls, NEW b \in prior'[d], IsSend(b)', IsSend(d)'
        PROVE  SentAt(b)' < SentAt(d)'
    <3>1. CASE d = c
      <4>1. b \in Finished /\ SentAt(d)' = clock'
        BY <1>1, <2>5, <3>1 DEF Leaving
      <4>. QED
        BY <2>4, <2>5, <4>1
    <3>2. CASE d # c
      <4>1. /\ b \in prior[d] /\ b \in Finished /\ b # c
            /\ body'[b] = body[b] /\ body'[d] = body[d]
        BY <1>1, <2>1, <2>5, <3>2 DEF Leaving
      <4>. QED
        BY <2>5, <4>1 DEF IsSend, SentAt
    <3>. QED
      BY <3>1, <3>2
  <2>6. \A d \in Calls : prior'[d] \subseteq Finished
    BY <1>1 DEF Leaving
  <2>. QED
    BY <2>1, <2>4, <2>5, <2>6
<1>2. ASSUME NEW c \in Calls, NEW s \in {"ok", "failed"}, Answered(c, s)
      PROVE  ClockInv'
  <2>1. Finished' = Finished \union {c}
    BY <1>2 DEF Answered, Tell
  <2>2. \A d \in Calls : (IsSend(d)' <=> IsSend(d)) /\ SentAt(d)' = SentAt(d)
    BY <1>2 DEF Answered, IsSend, SentAt
  <2>3. \A d \in Calls : IsSend(d) => SentAt(d) \in Nat
    BY BodyFits, GatewayAssumption DEF SentAt
  <2>4. clock <= clock' /\ (IsSend(c) => SentAt(c) < clock') /\ clock' \in Nat
    BY <1>2, <2>3 DEF Answered, Tell, SentAt
  <2>5. ASSUME NEW d \in Finished', IsSend(d)'
        PROVE  SentAt(d)' < clock'
    <3>1. CASE d = c
      BY <2>2, <2>4, <2>5, <3>1
    <3>2. CASE d \in Finished
      <4>1. SentAt(d) < clock /\ SentAt(d) \in Nat /\ clock \in Nat
        BY <2>2, <2>3, <2>5, <3>2
      <4>. QED
        BY <2>2, <2>4, <3>2, <4>1
    <3>. QED
      BY <2>1, <3>1, <3>2
  <2>6. prior' = prior
    BY <1>2 DEF Answered
  <2>7. \A d \in Calls : prior'[d] \subseteq Finished'
    BY <2>1, <2>6
  <2>8. \A d \in Calls : \A b \in prior'[d] :
          IsSend(b)' /\ IsSend(d)' => SentAt(b)' < SentAt(d)'
    BY <2>2, <2>6
  <2>. QED
    BY <2>5, <2>7, <2>8
<1>3. ASSUME NEW c \in Calls, Refuse(c)
      PROVE  ClockInv'
  <2>1. Finished' = Finished \union {c} /\ ~ IsSend(c)
    BY <1>3 DEF Refuse, BodiesFit, Begun, IsSend
  <2>. QED
    BY <1>3, <2>1 DEF Refuse, IsSend, SentAt, history
<1>4. CASE UNCHANGED <<status, body, prior, clock>>
  BY <1>4 DEF IsSend, SentAt
<1>. QED
  BY <1>1, <1>2, <1>3, <1>4, CallSteps

(***************************************************************************)
(* A message sent when an earlier send was over has the later time, even   *)
(* if the earlier one was given up and its handler commits last.           *)
(***************************************************************************)
THEOREM CausesComeFirst == GSpec => []CausalOrder
<1>1. GTypeInv /\ LinkInv /\ ClockInv => CausalOrder
  <2>. SUFFICES ASSUME GTypeInv, LinkInv, ClockInv, NEW m \in messages, NEW n \in messages,
                       origin[m.id] \in prior[origin[n.id]]
                PROVE  m.sentAt < n.sentAt
    BY DEF CausalOrder
  <2>1. \A x \in messages : /\ origin[x.id] \in Calls /\ IsSend(origin[x.id])
                            /\ x.sentAt = SentAt(origin[x.id])
    BY DEF LinkInv, Origins, RowIsOf, ToChatMessage, SentAt
  <2>. QED
    BY <2>1 DEF ClockInv
<1>2. GInit => ClockInv
  BY DEF GInit, ClockInv, Finished, Over
<1>3. GTypeInv /\ ClockInv /\ [GNext]_gvars => ClockInv'
  BY ClockStep
<1>. QED
  BY <1>1, <1>2, <1>3, GatewayAlways, PTL DEF GSpec

-----------------------------------------------------------------------------
(* Pulls of a whole chat                                                   *)

\* The pulls Whole is about, answered or not.
WholeAsk(c) ==
  /\ IsPull(c)
  /\ body[c].request.cursor = 0
  /\ Prepared(body[c].request).limit >= MaxSends

\* What the Pull of h has read, and whether it is the answer of such a pull.
Read(h)  == {page[h][i] : i \in DOMAIN page[h]}
Reads(h) == pc[h] = "Reply" /\ code[h] = 0 /\ WholeAsk(caller[h])

\* It asks for no cursor, and one page is enough.
OnePage ==
  \A h \in Handlers :
    /\ pc[h] \in PullSteps /\ WholeAsk(caller[h]) => pc[h] = "Query" /\ hit[h] = None
    /\ Reads(h) => Len(page[h]) <= req[h].limit

\* The stored messages have ids up to MaxSends.
LEMMA FewMessages ==
  ASSUME Ids
  PROVE  Cardinality(messages) \in Nat /\ Cardinality(messages) <= MaxSends
<1>. DEFINE id == [m \in messages |-> m.id]
<1>1. MaxSends \in Nat /\ \A m \in messages : m.id \in 1 .. MaxSends
  BY BoundsAssumption DEF Ids
<1>2. id \in Injection(messages, 1 .. MaxSends)
  <2>1. id \in [messages -> 1 .. MaxSends]
    BY <1>1
  <2>2. \A m, n \in messages : id[m] = id[n] => m = n
    BY DEF Ids
  <2>. QED
    BY <2>1, <2>2 DEF Injection, IsInjective
<1>3. IsFiniteSet(1 .. MaxSends) /\ Cardinality(1 .. MaxSends) = MaxSends
  BY <1>1, FS_Interval
<1>. QED
  BY <1>2, <1>3, FS_Injection, FS_CardinalityType

(***************************************************************************)
(* The query from the start with room for all returns the whole chat.      *)
(***************************************************************************)
LEMMA WholePage ==
  ASSUME Ids, IsFiniteSet(messages), NEW r \in Pulls, r.cursor = 0, r.limit >= MaxSends,
         NEW p \in Answers(r, None)
  PROVE  /\ {p[i] : i \in DOMAIN p} = RowsOf(r.chat)
         /\ ~ HasMore(r, p) /\ Len(p) <= r.limit
<1>. DEFINE rows == RowsOf(r.chat)
            N == Cardinality(rows)
<1>1. IsFiniteSet(rows) /\ N <= Cardinality(messages)
  BY FS_Subset DEF RowsOf
<1>2. N \in Nat /\ N <= r.limit /\ r.limit \in Nat
  BY <1>1, FewMessages, BoundsAssumption, FS_CardinalityType DEF Pulls
<1>. HIDE DEF rows
<1>3. PICK s \in Orderings(rows, r.reverse) : p = Window(s, 0, r.limit + 1)
  BY DEF Answers, Find, rows
<1>4. s \in [1 .. N -> rows] /\ \A m \in rows : \E i \in 1 .. N : s[i] = m
  BY <1>1, <1>3, OrderingCovers
<1>5. s \in Seq(rows) /\ Len(s) = N
  BY <1>2, <1>4
<1>6. p = SubSeq(s, 1, N)
  BY <1>2, <1>3, <1>5 DEF Window
<1>7. Len(p) = N /\ DOMAIN p = 1 .. N /\ \A i \in 1 .. N : p[i] = s[i]
  BY <1>2, <1>5, <1>6
<1>8. {p[i] : i \in DOMAIN p} = rows
  BY <1>4, <1>7
<1>. QED
  BY <1>2, <1>7, <1>8 DEF HasMore, rows

(***************************************************************************)
(* How a handler comes to where it is with the pull of a whole chat: by    *)
(* taking it, by failing, or by the query that reads the chat.             *)
(***************************************************************************)
Waits(h) ==
  /\ pc'[h] = pc[h] /\ caller'[h] = caller[h] /\ body'[caller[h]] = body[caller[h]]
  /\ code'[h] = code[h] /\ page'[h] = page[h] /\ req'[h] = req[h] /\ hit'[h] = hit[h]

ReadsAll(h) ==
  /\ Read(h)' = RowsOf(ChatOf(caller[h])) /\ Len(page'[h]) <= req'[h].limit
  /\ caller[h] \in Calls /\ WholeAsk(caller[h])
  /\ messages' = messages /\ UNCHANGED <<gateway, history>>

LEMMA WholeRun ==
  ASSUME GTypeInv, Ids, OnePage, NEW h \in Handlers, Run(h), WholeAsk(caller[h])'
  PROVE  pc'[h] = "Reply" /\ (code'[h] # 0 \/ ReadsAll(h))
<1>. DEFINE c == caller[h]
<1>1. caller' = caller /\ body' = body /\ WholeAsk(c)
  BY DEF Run, gateway, WholeAsk, IsPull
<1>2. ~ IsSend(c)
  BY <1>1 DEF WholeAsk, IsPull, IsSend
<1>3. Runs(h)
  BY RunSteps DEF Run, GTypeInv
<1>4. pc[h] = "Query" /\ hit[h] = None /\ req[h] = Prepared(body[c].request) /\ c \in Calls
      /\ req[h] \in Pulls
  BY <1>1, <1>2, <1>3 DEF Runs, GTypeInv, HandlersFit, WorksFor, ValuesFit, OnePage, InTx,
     PullSteps, CacheSteps, TypeInv, FramesReady, FrameReady
<1>5. PullQuery(h) \/ PullFailed(h)
  BY <1>4 DEF Run, Serve, SendDeadlock, Failure, SendCreate, SendScan, SendLock, SendDelete, SendCommit, SendCommitLost,
     Committed, SendFailed, TxSteps, PullLookup, CursorStored, CursorDuplicate, CursorBlocked,
     CursorFailed, CacheSteps
<1>6. CASE PullFailed(h)
  BY <1>6 DEF PullFailed, Respond, Goto, GTypeInv, TypeInv, TypeOK
<1>7. CASE PullQuery(h)
  <2>1. req[h].cursor = 0 /\ req[h].limit >= MaxSends /\ req[h].chat = ChatOf(c)
    BY <1>1, <1>4 DEF Prepared, ChatOf, WholeAsk
  <2>2. PICK p \in Answers(req[h], None) :
          /\ page' = [page EXCEPT ![h] = p]
          /\ Goto(h, IF hit[h] = None /\ req[h].cursor > 0 /\ p # << >>
                     THEN "Own" ELSE AfterOwn(req[h], p))
    BY <1>4, <1>7 DEF PullQuery
  <2>3. /\ {p[i] : i \in DOMAIN p} = RowsOf(req[h].chat)
        /\ ~ HasMore(req[h], p) /\ Len(p) <= req[h].limit
    BY <1>4, <2>1, WholePage DEF GTypeInv, TypeInv
  <2>4. pc'[h] = "Reply" /\ page'[h] = p
    BY <2>1, <2>2, <2>3 DEF Goto, AfterOwn, GTypeInv, TypeInv, TypeOK
  <2>5. messages' = messages /\ req' = req
    BY <1>7 DEF PullQuery, store
  <2>. QED
    BY <1>1, <1>4, <2>1, <2>3, <2>4, <2>5 DEF ReadsAll, Read, Run
<1>. QED
  BY <1>5, <1>6, <1>7

LEMMA WholeMoves ==
  ASSUME GTypeInv, GTypeInv', Ids, HitsFit, OnePage, [GNext]_gvars, NEW h \in Handlers,
         WholeAsk(caller[h])', pc'[h] \in PullSteps \union {"Reply"}
  PROVE  \/ Waits(h)
         \/ pc'[h] = "Query" /\ hit'[h] = None
         \/ pc'[h] = "Reply" /\ (code'[h] # 0 \/ ReadsAll(h))
<1>. USE DEF GTypeInv, TypeInv, TypeOK, ValuesFit, vars, frames
<1>1. caller'[h] \in Calls
  BY DEF PullSteps, CacheSteps
<1>2. CASE \E c \in Calls : Refuse(c) \/ Post(c) \/ Get(c) \/ GiveUp(c) \/ Lose(c)
  <2>1. caller' = caller /\ pc' = pc /\ UNCHANGED frames
    BY <1>2 DEF Refuse, Post, Get, Issue, GiveUp, Lose
  <2>2. Begun(caller[h])
    BY <2>1 DEF HandlersFit, WorksFor, PullSteps, CacheSteps
  <2>3. body'[caller[h]] = body[caller[h]]
    BY <1>1, <2>1, <2>2, BodiesStay
  <2>. QED
    BY <2>1, <2>3 DEF Waits
<1>3. ASSUME NEW g \in Handlers, NEW c \in Calls, ArriveSend(g, c) \/ ArrivePull(g, c)
      PROVE  Waits(h) \/ (pc'[h] = "Query" /\ hit'[h] = None) \/ (pc'[h] = "Reply" /\ code'[h] # 0)
  <2>1. caller' = [caller EXCEPT ![g] = c] /\ body' = body
    BY <1>3 DEF ArriveSend, ArrivePull, Taken
  <2>2. CASE g # h
    BY <1>3, <2>1, <2>2 DEF Waits, ArriveSend, ArrivePull, SendRejected, SendAccepted,
       PullRejected, PullAccepted, Accept, Respond, Goto
  <2>3. CASE g = h
    <3>1. ArrivePull(h, c) /\ body[c].request.cursor = 0 /\ pc[h] = "Idle"
      BY <1>3, <2>1, <2>3 DEF ArriveSend, ArrivePull, WholeAsk, IsPull, IsSend, PullRejected,
         PullAccepted, Accept
    <3>2. hit[h] = None
      BY <3>1 DEF HitsFit
    <3>3. CASE PullRejected(h) /\ code'[h] = PullCode(body[c].request) /\ PullCode(body[c].request) # 0
      BY <3>3 DEF PullRejected, Respond, Goto
    <3>4. CASE PullAccepted(h) /\ req'[h] = Prepared(body[c].request)
      <4>1. PICK r \in PullRequests : Accept(h, r)
        BY <3>4 DEF PullAccepted
      <4>2. r.cursor = 0
        BY <3>1, <3>4, <4>1 DEF Accept, Prepared
      <4>. QED
        BY <3>2, <4>1, <4>2 DEF Accept, Goto
    <3>. QED
      BY <3>1, <3>3, <3>4 DEF ArrivePull
  <2>. QED
    BY <2>2, <2>3
<1>4. ASSUME NEW g \in Handlers, Reply(g)
      PROVE  Waits(h)
  BY <1>4 DEF Reply, Return, Goto, Waits, PullSteps, CacheSteps
<1>5. ASSUME NEW g \in Handlers, Run(g), g # h
      PROVE  Waits(h)
  <2>1. Runs(g) /\ caller' = caller /\ body' = body
    BY <1>5, RunSteps DEF Run, gateway
  <2>2. hit'[h] = hit[h]
    BY <1>5 DEF Run, Serve, SendDeadlock, Failure, SendCreate, SendScan, SendLock, SendDelete, SendCommit, SendCommitLost,
       Committed, SendFailed, PullLookup, PullQuery, PullFailed, CursorStored, CursorDuplicate,
       CursorBlocked, CursorFailed
  <2>. QED
    BY <1>5, <2>1, <2>2 DEF Waits, Runs
<1>6. CASE Die
  BY <1>6 DEF Die, Crash, PullSteps, CacheSteps
<1>7. CASE UNCHANGED gvars
  BY <1>7 DEF gvars, gateway, Waits
<1>. QED
  BY <1>2, <1>3, <1>4, <1>5, <1>6, <1>7, WholeRun DEF GNext

LEMMA OnePageStep ==
  ASSUME GTypeInv, GTypeInv', Ids, HitsFit, OnePage, [GNext]_gvars
  PROVE  OnePage'
<1>. SUFFICES ASSUME NEW h \in Handlers, WholeAsk(caller[h])',
                     pc'[h] \in PullSteps \union {"Reply"}
              PROVE  /\ pc'[h] \in PullSteps => pc'[h] = "Query" /\ hit'[h] = None
                     /\ pc'[h] = "Reply" /\ code'[h] = 0 => Len(page'[h]) <= req'[h].limit
  BY DEF OnePage, Reads
<1>1. "Reply" \notin PullSteps /\ "Query" # "Reply"
  BY DEF PullSteps, CacheSteps
<1>2. CASE Waits(h)
  <2>1. WholeAsk(caller[h])
    BY <1>2 DEF Waits, WholeAsk, IsPull
  <2>. QED
    BY <1>1, <1>2, <2>1 DEF Waits, OnePage, Reads
<1>3. CASE ~ Waits(h)
  BY <1>1, <1>3, WholeMoves DEF ReadsAll
<1>. QED
  BY <1>2, <1>3

-----------------------------------------------------------------------------
(* What pulls have seen                                                    *)

\* The messages c was answered, or the handler of c has read for it.
ViewsOf(c) ==
  {Seen(d) : d \in {e \in Calls : e = c /\ Whole(e)}}
    \union {Read(h) : h \in {g \in Handlers : Reads(g) /\ caller[g] = c}}

\* It is of the chat, and has what was told before c began.
ViewFits(c, view) ==
  /\ view \subseteq RowsOf(ChatOf(c))
  /\ \A d \in prior[c] : ChatOf(d) = ChatOf(c) =>
       /\ Whole(d) => Seen(d) \subseteq view
       /\ IsSend(d) /\ status[d] = "ok" => \E m \in view : origin[m.id] = d

ViewsInv ==
  /\ \A c \in Calls : \A view \in ViewsOf(c) : ViewFits(c, view)
  /\ \A c, d \in Calls : ChatOf(c) = ChatOf(d) =>
       \A view \in ViewsOf(c), other \in ViewsOf(d) :
         view \subseteq other \/ other \subseteq view

PullsInv == HitsFit /\ OnePage /\ ViewsInv

(***************************************************************************)
(* What has been answered stays as it was.                                 *)
(***************************************************************************)
LEMMA AnswersStay ==
  ASSUME GTypeInv, Ids, ClockInv, [GNext]_gvars
  PROVE  /\ \A c \in Calls : Begun(c) => body'[c] = body[c] /\ prior'[c] = prior[c]
         /\ \A c \in Finished : status'[c] = status[c] /\ answer'[c] = answer[c]
         /\ messages \subseteq messages' /\ \A m \in messages : origin'[m.id] = origin[m.id]
<1>. USE DEF GTypeInv, ValuesFit, Begun, Finished, Over, gateway, history
<1>1. \A c \in Calls : Begun(c) => body'[c] = body[c]
  BY BodiesStay
<1>2. ASSUME NEW c \in Calls, Begun(c)
      PROVE  prior'[c] = prior[c]
  BY <1>2, CallSteps DEF Leaving, Answered, Refuse
<1>3. ASSUME NEW c \in Finished
      PROVE  status'[c] = status[c]
  BY CallSteps DEF Leaving, Answered, Tell, Refuse
<1>4. ASSUME NEW c \in Finished
      PROVE  answer'[c] = answer[c]
  <2>1. CASE \E h \in Handlers : Reply(h)
    BY <2>1 DEF Reply
  <2>2. CASE answer' = answer
    BY <2>2
  <2>. QED
    BY <2>1, <2>2 DEF GNext, Refuse, Post, Get, Issue, GiveUp, Lose, ArriveSend, ArrivePull, Taken,
       Run, Die, gvars
<1>5. messages \subseteq messages'
  BY GatewaySteps, MessagesGrow DEF gvars
<1>6. \A m \in messages : origin'[m.id] = origin[m.id]
  <2>1. ASSUME NEW h \in Handlers, NEW c \in Calls, Opens(h, c)
        PROVE  \A m \in messages : origin'[m.id] = origin[m.id]
    BY <2>1, BoundsAssumption DEF Opens, Ids
  <2>. QED
    BY <2>1, LinkSteps DEF Commits, Settled
<1>. QED
  BY <1>1, <1>2, <1>3, <1>4, <1>5, <1>6

\* One who has a view has begun.
LEMMA ViewsBegun ==
  ASSUME GTypeInv, NEW c \in Calls, NEW view \in ViewsOf(c)
  PROVE  Begun(c)
<1>1. CASE Whole(c)
  BY <1>1 DEF Whole, Begun
<1>2. CASE \E h \in Handlers : Reads(h) /\ caller[h] = c
  BY <1>2 DEF Reads, GTypeInv, HandlersFit, WorksFor
<1>. QED
  BY <1>1, <1>2 DEF ViewsOf

\* A view is read at once.
Fresh(c, view) ==
  /\ view = RowsOf(ChatOf(c)) /\ messages' = messages
  /\ UNCHANGED <<gateway, history>>

(***************************************************************************)
(* A view is new only when it is read; an answer shows what its handler    *)
(* has read.                                                               *)
(***************************************************************************)
LEMMA ViewSteps ==
  ASSUME GTypeInv, GTypeInv', LinkInv, PullsInv, ClockInv, [GNext]_gvars,
         NEW c \in Calls, NEW view \in ViewsOf(c)'
  PROVE  view \in ViewsOf(c) \/ Fresh(c, view)
<1>1. ASSUME Whole(c)', view = Seen(c)'
      PROVE  view \in ViewsOf(c)
  <2>1. CASE status[c] = "ok"
    <3>1. body'[c] = body[c] /\ answer'[c] = answer[c]
      BY <2>1, AnswersStay DEF LinkInv, Begun, Finished, Over
    <3>2. Whole(c) /\ view = Seen(c)
      BY <1>1, <2>1, <3>1 DEF Whole, IsPull, Seen
    <3>. QED
      BY <3>2 DEF ViewsOf
  <2>2. CASE status[c] # "ok"
    <3>. USE DEF GTypeInv, ValuesFit
    <3>1. status'[c] = "ok"
      BY <1>1 DEF Whole
    <3>2. PICK h \in Handlers : Reply(h) /\ caller[h] = c /\ code[h] = 0 /\ status[c] = "waiting"
      <4>1. CASE \E d \in Calls : Refuse(d) \/ Post(d) \/ Get(d) \/ GiveUp(d) \/ Lose(d)
        BY <2>2, <3>1, <4>1 DEF Refuse, Post, Get, Issue, GiveUp, Lose, Tell
      <4>2. CASE \E h \in Handlers, d \in Calls : ArriveSend(h, d) \/ ArrivePull(h, d)
        BY <2>2, <3>1, <4>2 DEF ArriveSend, ArrivePull, Taken
      <4>3. CASE \E h \in Handlers : Reply(h)
        BY <2>2, <3>1, <4>3 DEF Reply, Tell, HttpStatus
      <4>4. CASE (\E h \in Handlers : Run(h)) \/ Die \/ UNCHANGED gvars
        BY <2>2, <3>1, <4>4 DEF Run, Die, gvars, gateway
      <4>. QED
        BY <4>1, <4>2, <4>3, <4>4 DEF GNext
    <3>3. body' = body /\ pc[h] = "Reply"
      BY <3>2 DEF Reply, Return
    <3>4. WholeAsk(c) /\ IsPull(c)
      BY <1>1, <3>3 DEF Whole, WholeAsk, IsPull
    <3>5. Reads(h) /\ answer'[c] = Delivered(h)
      BY <3>2, <3>3, <3>4 DEF Reads, Reply
    <3>6. Len(page[h]) <= req[h].limit /\ req[h] \in Pulls /\ page[h] \in Seq(ChatMessages)
      BY <3>2, <3>3, <3>4, <3>5 DEF PullsInv, OnePage, HandlersFit, WorksFor, IsPull, IsSend,
         TypeInv, TypeOK
    <3>7. Delivered(h) = page[h]
      <4>1. req[h].limit \in Nat /\ Len(page[h]) \in Nat
        BY <3>6 DEF Pulls
      <4>2. Delivered(h) = SubSeq(page[h], 1, Len(page[h]))
        BY <3>6, <4>1 DEF Delivered, Window
      <4>. QED
        BY <3>6, <4>1, <4>2
    <3>8. view = Read(h)
      BY <1>1, <3>5, <3>7 DEF Seen, Read
    <3>. QED
      BY <3>2, <3>5, <3>8 DEF ViewsOf
  <2>. QED
    BY <2>1, <2>2
<1>2. ASSUME NEW h \in Handlers, Reads(h)', caller'[h] = c, view = Read(h)'
      PROVE  view \in ViewsOf(c) \/ Fresh(c, view)
  <2>1. CASE Waits(h)
    <3>1. Reads(h) /\ caller[h] = c /\ view = Read(h)
      BY <1>2, <2>1 DEF Waits, Reads, Read, WholeAsk, IsPull
    <3>. QED
      BY <3>1 DEF ViewsOf
  <2>2. CASE ReadsAll(h)
    BY <1>2, <2>2 DEF ReadsAll, Fresh, gateway
  <2>. QED
    BY <1>2, <2>1, <2>2, WholeMoves DEF Reads, LinkInv, PullsInv
<1>. QED
  BY <1>1, <1>2 DEF ViewsOf

LEMMA ViewsStep ==
  ASSUME GTypeInv, GTypeInv', LinkInv, PullsInv, ClockInv, [GNext]_gvars
  PROVE  ViewsInv'
<1>1. ASSUME NEW c \in Calls, NEW view \in ViewsOf(c)'
      PROVE  ViewFits(c, view)' /\ ChatOf(c)' = ChatOf(c)
  <2>1. CASE view \in ViewsOf(c)
    <3>1. ViewFits(c, view) /\ Begun(c)
      BY <2>1, ViewsBegun DEF PullsInv, ViewsInv
    <3>2. /\ \A d \in Calls : Begun(d) => body'[d] = body[d] /\ prior'[d] = prior[d]
          /\ \A d \in Finished : status'[d] = status[d] /\ answer'[d] = answer[d]
          /\ messages \subseteq messages' /\ \A m \in messages : origin'[m.id] = origin[m.id]
      BY AnswersStay DEF LinkInv
    <3>3. ChatOf(c)' = ChatOf(c) /\ prior'[c] = prior[c] /\ view \subseteq messages
      BY <3>1, <3>2 DEF ChatOf, ViewFits, RowsOf
    <3>4. view \subseteq RowsOf(ChatOf(c))'
      BY <3>1, <3>2, <3>3 DEF ViewFits, RowsOf
    <3>5. ASSUME NEW d \in prior[c], ChatOf(d)' = ChatOf(c)'
          PROVE  /\ Whole(d)' => Seen(d)' \subseteq view
                 /\ IsSend(d)' /\ status'[d] = "ok" => \E m \in view : origin'[m.id] = d
      <4>1. d \in Finished /\ d \in Calls /\ prior[c] \subseteq Calls
        BY DEF ClockInv, GTypeInv, ValuesFit
      <4>2. CASE status[d] = "ok"
        <5>1. body'[d] = body[d] /\ status'[d] = status[d] /\ answer'[d] = answer[d]
          BY <3>2, <4>1, <4>2 DEF Begun
        <5>2. ChatOf(d) = ChatOf(c) /\ (Whole(d)' => Whole(d)) /\ Seen(d)' = Seen(d)
              /\ (IsSend(d)' => IsSend(d))
          BY <3>3, <3>5, <5>1 DEF ChatOf, Whole, IsPull, IsSend, Seen
        <5>. QED
          BY <3>1, <3>2, <3>3, <5>1, <5>2 DEF ViewFits
      <4>3. CASE status[d] # "ok"
        BY <3>2, <4>1, <4>3 DEF Whole
      <4>. QED
        BY <4>2, <4>3
    <3>. QED
      BY <3>3, <3>4, <3>5 DEF ViewFits
  <2>2. CASE Fresh(c, view)
    <3>1. view = RowsOf(ChatOf(c)) /\ messages' = messages
          /\ UNCHANGED <<status, body, answer, origin, prior>>
      BY <2>2 DEF Fresh, gateway, history
    <3>2. ASSUME NEW d \in prior[c], ChatOf(d) = ChatOf(c)
          PROVE  /\ Whole(d) => Seen(d) \subseteq view
                 /\ IsSend(d) /\ status[d] = "ok" => \E m \in view : origin[m.id] = d
      <4>1. d \in Calls
        BY DEF GTypeInv, ValuesFit
      <4>2. Whole(d) => Seen(d) \in ViewsOf(d)
        BY <4>1 DEF ViewsOf
      <4>3. Whole(d) => Seen(d) \subseteq view
        BY <3>1, <3>2, <4>1, <4>2 DEF PullsInv, ViewsInv, ViewFits
      <4>4. ASSUME IsSend(d), status[d] = "ok"
            PROVE  \E m \in view : origin[m.id] = d
        <5>1. PICK m \in messages : origin[m.id] = d
          BY <4>1, <4>4 DEF LinkInv, SuccessKept, Kept
        <5>2. m.chat = ChatOf(d)
          BY <5>1 DEF LinkInv, Origins, RowIsOf, ToChatMessage, ChatOf
        <5>. QED
          BY <3>1, <3>2, <5>1, <5>2 DEF RowsOf
      <4>. QED
        BY <4>3, <4>4
    <3>3. ViewFits(c, view)
      BY <3>1, <3>2 DEF ViewFits
    <3>. QED
      BY <3>1, <3>3 DEF ViewFits, ChatOf, RowsOf, Whole, Seen, IsPull, IsSend
  <2>. QED
    BY <2>1, <2>2, ViewSteps
<1>2. ASSUME NEW c \in Calls, NEW d \in Calls, ChatOf(c)' = ChatOf(d)',
             NEW view \in ViewsOf(c)', NEW other \in ViewsOf(d)'
      PROVE  view \subseteq other \/ other \subseteq view
  <2>1. ChatOf(c) = ChatOf(d)
    BY <1>1, <1>2
  <2>2. CASE view \in ViewsOf(c) /\ other \in ViewsOf(d)
    BY <2>1, <2>2 DEF PullsInv, ViewsInv
  <2>3. view \subseteq RowsOf(ChatOf(c))' /\ other \subseteq RowsOf(ChatOf(c))'
    BY <1>1, <1>2 DEF ViewFits
  <2>4. CASE Fresh(c, view) \/ Fresh(d, other)
    BY <1>1, <2>1, <2>3, <2>4 DEF Fresh, RowsOf
  <2>. QED
    BY <2>2, <2>4, ViewSteps
<1>. QED
  BY <1>1, <1>2 DEF ViewsInv

LEMMA PullsAlways == GSpec => [](GTypeInv /\ LinkInv /\ ClockInv /\ PullsInv)
<1>1. GInit => ClockInv /\ PullsInv
  <2>. SUFFICES ASSUME GInit PROVE ClockInv /\ PullsInv
    OBVIOUS
  <2>1. HitsFit
    BY CacheInit DEF GInit
  <2>2. ClockInv
    BY DEF GInit, ClockInv, Finished, Over
  <2>3. OnePage
    BY DEF GInit, Init, OnePage, Reads, PullSteps, CacheSteps
  <2>4. \A c \in Calls : ViewsOf(c) = {}
    BY DEF GInit, Init, ViewsOf, Whole, Reads
  <2>. QED
    BY <2>1, <2>2, <2>3, <2>4 DEF PullsInv, ViewsInv
<1>2. GTypeInv /\ GTypeInv' /\ LinkInv /\ ClockInv /\ PullsInv /\ [GNext]_gvars
        => ClockInv' /\ PullsInv'
  <2>. SUFFICES ASSUME GTypeInv, GTypeInv', LinkInv, ClockInv, PullsInv, [GNext]_gvars
                PROVE  ClockInv' /\ PullsInv'
    OBVIOUS
  <2>1. HitsFit'
    BY HitsStep, GatewaySteps DEF PullsInv, GTypeInv, gvars
  <2>2. OnePage'
    BY OnePageStep DEF PullsInv, LinkInv
  <2>. QED
    BY <2>1, <2>2, ClockStep, ViewsStep DEF PullsInv
<1>. QED
  BY <1>1, <1>2, GatewayAlways, PTL DEF GSpec

(***************************************************************************)
(* A pull of the whole chat that began after a send was answered with 200  *)
(* shows its message, whatever failed, timed out or crashed meanwhile.     *)
(***************************************************************************)
THEOREM PullsShowAcked == GSpec => []ReadsAcked
<1>1. GTypeInv /\ PullsInv => ReadsAcked
  <2>. SUFFICES ASSUME GTypeInv, PullsInv, NEW d \in Calls, Whole(d), NEW c \in prior[d],
                       IsSend(c), status[c] = "ok", ChatOf(c) = ChatOf(d)
                PROVE  \E m \in Seen(d) : origin[m.id] = c
    BY DEF ReadsAcked
  <2>1. Seen(d) \in ViewsOf(d)
    BY DEF ViewsOf
  <2>. QED
    BY <2>1 DEF PullsInv, ViewsInv, ViewFits
<1>. QED
  BY <1>1, PullsAlways, PTL

(***************************************************************************)
(* The pulls of a chat see it grow: of two answers one contains the other, *)
(* the later pull the more, although each handler reads when it likes.     *)
(***************************************************************************)
THEOREM PullsSeeOneGrowth == GSpec => []PullsAgree
<1>1. GTypeInv /\ PullsInv => PullsAgree
  <2>. SUFFICES ASSUME GTypeInv, PullsInv, NEW c \in Calls, NEW d \in Calls,
                       Whole(c), Whole(d), ChatOf(c) = ChatOf(d)
                PROVE  /\ Seen(c) \subseteq Seen(d) \/ Seen(d) \subseteq Seen(c)
                       /\ c \in prior[d] => Seen(c) \subseteq Seen(d)
    BY DEF PullsAgree
  <2>1. Seen(c) \in ViewsOf(c) /\ Seen(d) \in ViewsOf(d)
    BY DEF ViewsOf
  <2>. QED
    BY <2>1 DEF PullsInv, ViewsInv, ViewFits
<1>. QED
  BY <1>1, PullsAlways, PTL

=============================================================================
