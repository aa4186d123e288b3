----------------------------- MODULE HttpGateway ----------------------------
(***************************************************************************)
(* The HTTP server of http-server/main.go in front of IMService.  A call c *)
(* is one HTTP request: the goroutine of Hertz that runs sendMessage or    *)
(* pullMessage for it.  Its RPC travels to the service, a handler serves   *)
(* it, the response travels back.                                          *)
(*                                                                         *)
(* The RPC client waits for 1 s.  When it gives up nothing stops what it   *)
(* has started: the request may still be on its way and its handler at     *)
(* work, and what that handler commits stays.                              *)
(***************************************************************************)
EXTENDS IMService

CONSTANTS
  Calls,     \* HTTP requests
  Posts,     \* the bodies of POST /api/send
  MaxTime    \* bound: the last time the clock shows

\* The message sendMessage makes of a body.
Stamped(p, t) == [chat |-> p.chat, text |-> p.text, sender |-> p.sender, sendTime |-> t]

ASSUME GatewayAssumption ==
  /\ MaxTime \in Nat
  /\ Posts \subseteq [chat : RawChats, text : Texts, sender : Parts]
  /\ \A p \in Posts, t \in 0 .. MaxTime : Stamped(p, t) \in SendRequests
  /\ None \notin Calls

VARIABLES
  status,   \* status[c]: "new", "waiting" for the RPC, or the HTTP status
  body,     \* body[c]: the RPC of the call, its method and request
  wire,     \* the calls whose RPC has not reached the service
  caller,   \* caller[h]: the call whose RPC handler h serves
  answer,   \* answer[c]: the messages a pull was answered
  clock,    \* no reading of the clock is below this any more
  origin,   \* history: origin[i] is the call that sent the row with id i
  prior     \* history: prior[c], the calls that were over when c began

gateway == <<status, body, wire, caller, answer, clock>>
history == <<origin, prior>>
gvars   == <<vars, gateway, history>>

\* 200, 400 and 500.
Over == {"ok", "refused", "failed"}

IsSend(c) == body[c] # None /\ body[c].method = "Send"
IsPull(c) == body[c] # None /\ body[c].method = "Pull"

Finished == {c \in Calls : status[c] \in Over}

GInit ==
  /\ Init
  /\ status = [c \in Calls |-> "new"]
  /\ body = [c \in Calls |-> None]
  /\ wire = {}
  /\ caller = [h \in Handlers |-> None]
  /\ answer = [c \in Calls |-> << >>]
  /\ clock = 0
  /\ origin = [i \in 1 .. MaxSends |-> None]
  /\ prior = [c \in Calls |-> {}]

-----------------------------------------------------------------------------
\* Bind fails.
Refuse(c) ==
  /\ status[c] = "new"
  /\ status' = [status EXCEPT ![c] = "refused"]
  /\ UNCHANGED <<vars, body, wire, caller, answer, clock, history>>

\* cli.Send or cli.Pull: the request leaves.
Issue(c, method, request) ==
  /\ status[c] = "new"
  /\ status' = [status EXCEPT ![c] = "waiting"]
  /\ body' = [body EXCEPT ![c] = [method |-> method, request |-> request]]
  /\ wire' = wire \union {c}
  /\ prior' = [prior EXCEPT ![c] = Finished]
  /\ UNCHANGED <<vars, caller, answer, origin>>

\* Variant: the clocks of several HTTP servers.
AnyReading == 0 .. MaxTime

\* What time.Now may return.
Reading == clock .. MaxTime

Post(c) ==
  \E p \in Posts, t \in Reading :
    Issue(c, "Send", Stamped(p, t)) /\ clock' = t

Get(c) ==
  /\ \E r \in PullRequests : Issue(c, "Pull", r)
  /\ clock' = clock

\* A goroutine of the service takes the request and checks it.
Taken(h, c) ==
  /\ c \in wire
  /\ wire' = wire \ {c}
  /\ caller' = [caller EXCEPT ![h] = c]
  /\ UNCHANGED <<status, body, answer, clock, prior>>

ArriveSend(h, c) ==
  /\ Taken(h, c)
  /\ IsSend(c)
  /\ LET m == body[c].request IN
     \/ /\ ~ ValidMessage(m)
        /\ SendRejected(h)
        /\ origin' = origin
     \/ /\ ValidMessage(m)
        /\ SendAccepted(h)
        /\ row'[h] = ToChatMessage(m, sends + 1)
        /\ origin' = [origin EXCEPT ![sends + 1] = c]

ArrivePull(h, c) ==
  /\ Taken(h, c)
  /\ IsPull(c)
  /\ LET r == body[c].request IN
     \/ PullCode(r) = 0 /\ PullAccepted(h) /\ req'[h] = Prepared(r)
     \/ PullCode(r) # 0 /\ PullRejected(h) /\ code'[h] = PullCode(r)
  /\ origin' = origin

\* Variant: only positive codes are errors.
HttpStatusPositive(c) == IF c > 0 THEN "failed" ELSE "ok"

(***************************************************************************)
(* The status of a call whose handler gave code c.  A handler with another *)
(* code than 0 also returns an error, sendHandler then drops the response  *)
(* and the client sees the error: the same status.                         *)
(***************************************************************************)
HttpStatus(c) == IF c = 0 THEN "ok" ELSE "failed"

\* An answer takes a microsecond at least: later readings are after its send.
Tell(c, s) ==
  /\ status' = [status EXCEPT ![c] = s]
  /\ clock' = IF IsSend(c) /\ body[c].request.sendTime >= clock
              THEN body[c].request.sendTime + 1 ELSE clock

\* The response arrives, in time or after its caller has gone.
Reply(h) ==
  LET c == caller[h] IN
  /\ c # None
  /\ Return(h)
  /\ caller' = [caller EXCEPT ![h] = None]
  /\ IF status[c] = "waiting"
     THEN /\ Tell(c, HttpStatus(code[h]))
          /\ answer' = IF IsPull(c) /\ code[h] = 0
                       THEN [answer EXCEPT ![c] = Delivered(h)] ELSE answer
     ELSE UNCHANGED <<status, clock, answer>>
  /\ UNCHANGED <<body, wire, history>>

\* The timeout, or a connection that breaks.
GiveUp(c) ==
  /\ status[c] = "waiting"
  /\ Tell(c, "failed")
  /\ UNCHANGED <<vars, body, wire, caller, answer, history>>

\* The request is lost.
Lose(c) ==
  /\ c \in wire
  /\ wire' = wire \ {c}
  /\ UNCHANGED <<vars, status, body, caller, answer, clock, history>>

Run(h) ==
  /\ Serve(h) \/ Failure(h)
  /\ UNCHANGED <<gateway, history>>

\* The service dies with its handlers; callers find out by their timeouts.
Die ==
  /\ Crash
  /\ caller' = [h \in Handlers |-> None]
  /\ UNCHANGED <<status, body, wire, answer, clock, history>>

GNext ==
  \/ \E c \in Calls : Refuse(c) \/ Post(c) \/ Get(c) \/ GiveUp(c) \/ Lose(c)
  \/ \E h \in Handlers, c \in Calls : ArriveSend(h, c) \/ ArrivePull(h, c)
  \/ \E h \in Handlers : Reply(h) \/ Run(h)
  \/ Die

GSpec == GInit /\ [][GNext]_gvars

-----------------------------------------------------------------------------
(* Properties                                                              *)

Statuses == {"new", "waiting"} \union Over

\* The variables have their types; handlers at work are those with a caller.
GTypeOK ==
  /\ TypeOK
  /\ status \in [Calls -> Statuses]
  /\ \A c \in Calls :
       body[c] = None \/ (IsSend(c) /\ body[c].request \in SendRequests)
                      \/ (IsPull(c) /\ body[c].request \in PullRequests)
  /\ wire \in SUBSET Calls
  /\ caller \in [Handlers -> Calls \union {None}]
  /\ answer \in [Calls -> Seq(ChatMessages)]
  /\ clock \in Nat
  /\ origin \in [1 .. MaxSends -> Calls \union {None}]
  /\ prior \in [Calls -> SUBSET Calls]
  /\ \A h \in Handlers : caller[h] = None <=> pc[h] = "Idle"

SentBy(c) == {m \in messages : origin[m.id] = c}

(***************************************************************************)
(* A user who is told 200 finds the message stored, once and as it was     *)
(* sent, whatever failed, timed out or crashed around it.                  *)
(***************************************************************************)
AckedStored ==
  \A c \in Calls : IsSend(c) /\ status[c] = "ok" =>
    \E m \in messages : SentBy(c) = {m} /\ m = ToChatMessage(body[c].request, m.id)

(***************************************************************************)
(* Of two messages of which the second was sent when the first call was    *)
(* over, the first has the earlier time, even if its handler was left      *)
(* behind by a timeout and commits last: every pull shows them in the      *)
(* order in which they were sent.                                          *)
(***************************************************************************)
CausalOrder ==
  \A m, n \in messages :
    origin[m.id] \in prior[origin[n.id]] => m.sentAt < n.sentAt

\* The pulls of a whole chat, answered: from the start, with room for all.
Whole(c) == /\ IsPull(c) /\ status[c] = "ok"
            /\ body[c].request.cursor = 0
            /\ Prepared(body[c].request).limit >= MaxSends

ChatOf(c) == NormalisedChatId(body[c].request.chat)

Seen(c) == {answer[c][i] : i \in DOMAIN answer[c]}

(***************************************************************************)
(* A pull that begins after a send was acknowledged shows the message.     *)
(***************************************************************************)
ReadsAcked ==
  \A d \in Calls : Whole(d) =>
    \A c \in prior[d] :
      IsSend(c) /\ status[c] = "ok" /\ ChatOf(c) = ChatOf(d) =>
        \E m \in Seen(d) : origin[m.id] = c

(***************************************************************************)
(* The pulls of a chat see it grow: of two answers one contains the other, *)
(* and a pull that begins after another is over sees all that one saw.     *)
(***************************************************************************)
PullsAgree ==
  \A c, d \in Calls : Whole(c) /\ Whole(d) /\ ChatOf(c) = ChatOf(d) =>
    /\ Seen(c) \subseteq Seen(d) \/ Seen(d) \subseteq Seen(c)
    /\ c \in prior[d] => Seen(c) \subseteq Seen(d)

(***************************************************************************)
(* The promise to senders: the service with its timeouts, late commits,    *)
(* lost answers and crashes implements MessageLog.                         *)
(***************************************************************************)
LogView == {<<origin[m.id], m.id>> : m \in messages}

ToldView ==
  [c \in Calls |-> IF IsPull(c) THEN "new"
                   ELSE IF status[c] = "refused" THEN "failed" ELSE status[c]]

Log == INSTANCE MessageLog
         WITH log <- LogView, told <- ToldView, Rows <- 1 .. MaxSends

Promised == Log!LogSpec

=============================================================================
