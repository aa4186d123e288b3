------------------------------ MODULE Pagination ----------------------------
(***************************************************************************)
(* A client that reads a chat page by page, the way README.md:65 expects   *)
(* and idl_http.proto:32 invites to: pull from cursor 0, then from the     *)
(* next_cursor of each answer for as long as has_more is set.  The client  *)
(* runs against IMService while other clients send and pull.               *)
(***************************************************************************)
EXTENDS IMService

CONSTANTS
  SessionChat,        \* the chat the session reads, as the client spells it
  SessionLimits,      \* the page sizes a session may ask for
  SessionDirections,  \* the values of reverse it may ask for
  MaxRetries          \* bound: pulls of the session that fail and are retried

ASSUME SessionAssumption ==
  /\ SessionChat \in RawChats /\ ValidChatId(SessionChat)
  /\ SessionLimits \subseteq Nat
  /\ SessionDirections \subseteq BOOLEAN
  /\ MaxRetries \in Nat
  /\ None \notin Handlers

VARIABLES
  phase,     \* "new", "ready" to pull, "waiting" for an answer, "done", "failed"
  server,    \* the handler that serves the pull the client waits for
  ask,       \* the request the client sends next, waits for or sent last
  got,       \* the messages received so far
  known,     \* the messages stored when the session began
  retries

session == <<phase, server, ask, got, known, retries>>
pvars   == <<vars, session>>

SessionKey == NormalisedChatId(SessionChat)

PInit ==
  /\ Init
  /\ phase = "new" /\ server = None /\ ask = None
  /\ got = << >> /\ known = {} /\ retries = 0

-----------------------------------------------------------------------------
Begin ==
  /\ phase = "new"
  /\ phase' = "ready"
  /\ \E l \in SessionLimits, r \in SessionDirections :
       ask' = [chat |-> SessionChat, cursor |-> 0, limit |-> l, reverse |-> r]
  /\ known' = RowsOf(SessionKey)
  /\ UNCHANGED <<vars, server, got, retries>>

AskPage(h) ==
  /\ phase = "ready"
  /\ Accept(h, ask)
  /\ phase' = "waiting"
  /\ server' = h
  /\ UNCHANGED <<counters, ask, got, known, retries>>

TakePage(h) ==
  /\ server = h
  /\ code[h] = 0
  /\ Return(h)
  /\ got' = got \o Delivered(h)
  /\ IF HasMore(req[h], page[h])
     THEN phase' = "ready" /\ ask' = [ask EXCEPT !.cursor = NextCursor(req[h])]
     ELSE phase' = "done" /\ ask' = ask
  /\ server' = None
  /\ UNCHANGED <<known, retries>>

\* The pull failed: the client asks the same again, or gives up.
Retry ==
  /\ server' = None
  /\ IF retries < MaxRetries
     THEN phase' = "ready" /\ retries' = retries + 1
     ELSE phase' = "failed" /\ retries' = retries
  /\ UNCHANGED <<ask, got, known>>

PullError(h) == server = h /\ code[h] # 0 /\ Return(h) /\ Retry

ServerLost == server # None /\ Crash /\ Retry

-----------------------------------------------------------------------------
\* Other clients call, statements fail.
Others(h) == (Request(h) \/ Failure(h)) /\ UNCHANGED session

\* Handlers at work, for the session and for the others.
Progress(h) == (Serve(h) \/ (server # h /\ Return(h))) /\ UNCHANGED session

OtherCrash == server = None /\ Crash /\ UNCHANGED session

PNext ==
  \/ Begin \/ ServerLost \/ OtherCrash
  \/ \E h \in Handlers :
       AskPage(h) \/ TakePage(h) \/ PullError(h) \/ Others(h) \/ Progress(h)

PSpec == PInit /\ [][PNext]_pvars

(***************************************************************************)
(* Handlers make progress as in IMService, and the client goes on: it asks *)
(* for the next page and takes the answer.  It need not begin.             *)
(***************************************************************************)
PFairness ==
  /\ \A h \in Handlers : WF_pvars(Progress(h)) /\ WF_pvars(TakePage(h) \/ PullError(h))
  /\ WF_pvars(\E h \in Handlers : AskPage(h))

PFairSpec == PSpec /\ PFairness

-----------------------------------------------------------------------------
(* Properties                                                              *)

(***************************************************************************)
(* The variables of the session have their types, and the session waits    *)
(* exactly while a handler serves it.                                      *)
(***************************************************************************)
PTypeOK ==
  /\ TypeOK
  /\ phase \in {"new", "ready", "waiting", "done", "failed"}
  /\ server \in Handlers \union {None}
  /\ ask \in RpcPulls \union {None}
  /\ got \in Seq(ChatMessages)
  /\ known \in SUBSET ChatMessages
  /\ retries \in 0 .. MaxRetries
  /\ (phase = "waiting") <=> (server # None)

Received == {got[i] : i \in DOMAIN got}

(***************************************************************************)
(* A session that has come to its end has received every message that was  *)
(* stored when it began, whatever was sent meanwhile, whatever other pulls *)
(* left in the cache and however often its own pulls failed.               *)
(***************************************************************************)
NothingMissed == phase = "done" => known \subseteq Received

(***************************************************************************)
(* No message is received twice, and the messages come in the order of the *)
(* session, although each page is read by a query of its own.              *)
(***************************************************************************)
InOrderOnce ==
  \A i, j \in DOMAIN got :
    i < j => /\ got[i] # got[j]
             /\ ~ Precedes(ask.reverse, got[j].sentAt, got[i].sentAt)

(***************************************************************************)
(* "If true, can use next_cursor to pull the next page of messages"        *)
(* (idl_http.proto:32): while the session goes on because has_more was     *)
(* set, the chat has a message it has not received.                        *)
(***************************************************************************)
MoreToCome ==
  phase = "ready" /\ ask.cursor > 0 => RowsOf(SessionKey) \ Received # {}

(***************************************************************************)
(* Following next_cursor comes to an end: a session does not go round the  *)
(* same page for ever.                                                     *)
(***************************************************************************)
SessionEnds == phase \in {"ready", "waiting"} ~> phase \in {"done", "failed"}

=============================================================================
