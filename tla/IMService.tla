------------------------------ MODULE IMService -----------------------------
(***************************************************************************)
(* The RPC service of rpc-server/handler.go: IMServiceImpl.Send and        *)
(* IMServiceImpl.Pull, one database statement per step.                    *)
(*                                                                         *)
(* Kitex runs every request in a goroutine of its own.  A handler h is     *)
(* such a goroutine: pc[h] names the statement it is about to run and the  *)
(* other functions hold the variables of its frame.  Handlers share only   *)
(* the database: the rows of chat_messages, those of chat_cursor_caches    *)
(* and the connections of the pool.                                        *)
(*                                                                         *)
(* The database is PostgreSQL at its default isolation, READ COMMITTED:    *)
(* each statement sees what was committed when it started; DELETE and a    *)
(* conflicting INSERT wait for a transaction that is deleting the same     *)
(* row; a row deleted meanwhile is skipped.                                *)
(***************************************************************************)
EXTENDS ChatStore

CONSTANTS
  Handlers,      \* goroutines that may serve requests at the same time
  SendRequests,  \* the messages clients submit, valid or not
  PullRequests,  \* the pulls clients submit, valid or not
  DefaultLimit,  \* the page size of a request with limit 0 (10 in the code)
  MaxOpenConns,  \* connections of the pool (50 in the code)
  Clock,         \* what the senders' clocks guarantee, see Admits
  MaxSends,      \* bound: valid messages accepted in a behaviour
  MaxPulls,      \* bound: valid pulls accepted in a behaviour
  MaxCrashes,    \* bound: crashes of the service process
  None           \* a frame variable that holds nothing

Codes == {-1, 0, 1, 2, 3}

RpcPulls == [chat : RawChats, cursor : Int, limit : Int, reverse : BOOLEAN]

ASSUME RequestsAssumption ==
  /\ SendRequests \subseteq RpcMessages \union {NoMessage}
  /\ NoMessage \notin RpcMessages
  /\ PullRequests \subseteq RpcPulls

ASSUME BoundsAssumption ==
  /\ DefaultLimit \in Nat \ {0}
  /\ MaxOpenConns \in Nat \ {0}
  /\ Clock \in {"any", "distinct", "ordered"}
  /\ MaxSends \in Nat /\ MaxPulls \in Nat /\ MaxCrashes \in Nat

\* What Pull leaves of a request it accepts.
Pulls == [chat : ChatKeys, cursor : Nat, limit : Nat \ {0}, reverse : BOOLEAN]

NoRow == None

VARIABLES
  messages,   \* committed rows of chat_messages
  cursors,    \* committed rows of chat_cursor_caches
  pc,         \* pc[h]: the statement handler h runs next
  row,        \* row[h]: the chatMessage a Send is storing
  targets,    \* targets[h]: the cursors its DELETE has found
  locks,      \* locks[h]: those of them it has locked
  req,        \* req[h]: the request of a Pull, normalised
  hit,        \* hit[h]: the cachedCursor of a Pull, None if nil
  page,       \* page[h]: the messages a Pull has read
  code,       \* code[h]: the Code of the response
  sends, pulls, crashes   \* counters for the bounds

store    == <<messages, cursors>>
frames   == <<row, targets, locks, req, hit, page, code>>
counters == <<sends, pulls, crashes>>
vars     == <<store, pc, frames, counters>>

(***************************************************************************)
(* Idle: free.  Create, Scan, Delete, Commit: the transaction of Send, its *)
(* DELETE split into the scan that finds the rows and the step that locks  *)
(* them.  Lookup, Query: the reads of getMessages.  Own, Next: the insert  *)
(* of createChatCursorCache from getMessages and from Pull; OwnWait and    *)
(* NextWait, the same insert blocked on a row that is being deleted.       *)
(* Reply: the response is made.                                            *)
(***************************************************************************)
TxSteps    == {"Create", "Scan", "Delete", "Commit"}
CacheSteps == {"Own", "OwnWait", "Next", "NextWait"}
Steps      == TxSteps \union CacheSteps \union {"Idle", "Lookup", "Query", "Reply"}

\* The handlers that hold a connection between two steps.
Connected == {h \in Handlers : pc[h] \in {"Scan", "Delete", "Commit", "OwnWait", "NextWait"}}
ConnFree  == Cardinality(Connected) < MaxOpenConns

\* Variant: reads that see rows of transactions still open.
DirtyRowsOf(chat) ==
  {m \in messages \union {row[h] : h \in Connected} : m # None /\ m.chat = chat}

RowsOf(chat)  == {m \in messages : m.chat = chat}
Pending(chat) == {row[g] : g \in {f \in Handlers : pc[f] \in TxSteps /\ row[f].chat = chat}}

\* The cursors some transaction has deleted and not committed yet.
Locked == UNION {locks[g] : g \in Handlers}

-----------------------------------------------------------------------------
Init ==
  /\ messages = {} /\ cursors = {}
  /\ pc = [h \in Handlers |-> "Idle"]
  /\ row = [h \in Handlers |-> NoRow]
  /\ targets = [h \in Handlers |-> {}]
  /\ locks = [h \in Handlers |-> {}]
  /\ req = [h \in Handlers |-> None]
  /\ hit = [h \in Handlers |-> None]
  /\ page = [h \in Handlers |-> << >>]
  /\ code = [h \in Handlers |-> 0]
  /\ sends = 0 /\ pulls = 0 /\ crashes = 0

Goto(h, step) == pc' = [pc EXCEPT ![h] = step]

\* The response is made with this code; a Send's statement results are gone.
Respond(h, c) ==
  /\ Goto(h, "Reply")
  /\ code' = [code EXCEPT ![h] = c]

(***************************************************************************)
(* SendTime is set by the caller, http-server/main.go:64, from the clock   *)
(* of its machine.  "any": nothing is known of it.  "distinct": no two     *)
(* messages of a chat have the same time.  "ordered": moreover the         *)
(* messages of a chat are sent one after the other, each later than those  *)
(* before it.                                                              *)
(***************************************************************************)
Admits(m) ==
  LET chat == NormalisedChatId(m.chat) IN
  /\ Clock # "any" =>
       \A old \in RowsOf(chat) \union Pending(chat) : old.sentAt # m.sendTime
  /\ Clock = "ordered" =>
       /\ Pending(chat) = {}
       /\ \A old \in RowsOf(chat) : old.sentAt < m.sendTime

-----------------------------------------------------------------------------
(* Send                                                                    *)

SendRejected(h) ==
  /\ pc[h] = "Idle"
  /\ \E m \in SendRequests : ~ ValidMessage(m)
  /\ Respond(h, 1)
  /\ UNCHANGED <<store, row, targets, locks, req, hit, page, counters>>

SendAccepted(h) ==
  /\ pc[h] = "Idle"
  /\ sends < MaxSends
  /\ \E m \in SendRequests :
       /\ ValidMessage(m)
       /\ Admits(m)
       /\ row' = [row EXCEPT ![h] = ToChatMessage(m, sends + 1)]
  /\ sends' = sends + 1
  /\ Goto(h, "Create")
  /\ UNCHANGED <<store, targets, locks, req, hit, page, code, pulls, crashes>>

\* BEGIN and tx.Create: the row exists, visible to nobody else.
SendCreate(h) ==
  /\ pc[h] = "Create"
  /\ ConnFree
  /\ Goto(h, "Scan")
  /\ UNCHANGED <<store, frames, counters>>

\* Variants: the DELETE is forgotten, or hits the other direction.
SendScanNothing(h) ==
  /\ pc[h] = "Scan"
  /\ Goto(h, "Delete")
  /\ UNCHANGED <<store, frames, counters>>

SendScanForward(h) ==
  /\ pc[h] = "Scan"
  /\ targets' = [targets EXCEPT
                   ![h] = {e \in cursors : e.chat = row[h].chat /\ ~ e.reverse}]
  /\ Goto(h, "Delete")
  /\ UNCHANGED <<store, row, locks, req, hit, page, code, counters>>

\* Variant: Delete is called on db, not on tx, and takes a second connection.
SendScanOutside(h) ==
  /\ pc[h] = "Scan"
  /\ ConnFree
  /\ targets' = [targets EXCEPT
                   ![h] = {e \in cursors : e.chat = row[h].chat /\ e.reverse}]
  /\ Goto(h, "Delete")
  /\ UNCHANGED <<store, row, locks, req, hit, page, code, counters>>

\* tx...Delete takes its snapshot: the committed reverse cursors of the chat.
SendScan(h) ==
  /\ pc[h] = "Scan"
  /\ targets' = [targets EXCEPT
                   ![h] = {e \in cursors : e.chat = row[h].chat /\ e.reverse}]
  /\ Goto(h, "Delete")
  /\ UNCHANGED <<store, row, locks, req, hit, page, code, counters>>

\* ... and locks them one by one, in any order, each once it is free.
SendLock(h) ==
  /\ pc[h] = "Delete"
  /\ \E e \in targets[h] \ Locked : locks' = [locks EXCEPT ![h] = @ \union {e}]
  /\ UNCHANGED <<store, pc, row, targets, req, hit, page, code, counters>>

SendDelete(h) ==
  /\ pc[h] = "Delete"
  /\ targets[h] = locks[h]
  /\ Goto(h, "Commit")
  /\ UNCHANGED <<store, frames, counters>>

\* Both statements take effect.  Whoever waited for these cursors skips them.
Committed(h) ==
  /\ pc[h] = "Commit"
  /\ messages' = messages \union {row[h]}
  /\ cursors' = cursors \ targets[h]
  /\ targets' = [g \in Handlers |-> IF g = h THEN {} ELSE targets[g] \ targets[h]]
  /\ locks' = [locks EXCEPT ![h] = {}]
  /\ UNCHANGED <<row, req, hit, page, counters>>

SendCommit(h) == Committed(h) /\ Respond(h, 0)

\* The connection is lost while COMMIT is answered: done, reported as failed.
SendCommitLost(h) == Committed(h) /\ Respond(h, -1)

\* A statement of the transaction fails: it is rolled back.
SendFailed(h) ==
  /\ pc[h] \in TxSteps
  /\ Respond(h, -1)
  /\ targets' = [targets EXCEPT ![h] = {}]
  /\ locks' = [locks EXCEPT ![h] = {}]
  /\ UNCHANGED <<store, row, req, hit, page, counters>>

\* The transactions that hold a row the DELETE of h has yet to lock.
WaitsFor(h) ==
  {g \in Handlers \ {h} : pc[h] = "Delete" /\ targets[h] \intersect locks[g] # {}}

\* Waiting leads from h back to h.
Deadlocked(h) ==
  \A S \in SUBSET Handlers :
    (\A g \in S \union {h} : WaitsFor(g) \subseteq S) => h \in S

\* Of transactions that wait for each other, PostgreSQL aborts one.
SendDeadlock(h) == Deadlocked(h) /\ SendFailed(h)

-----------------------------------------------------------------------------
(* Pull                                                                    *)

\* The code Pull gives to a request, 0 if it goes on to the database.
PullCode(r) ==
  IF ~ ValidChatId(r.chat) THEN 1
  ELSE IF r.limit < 0 THEN 2
  ELSE IF r.cursor < 0 THEN 3
  ELSE 0

\* Variant: limit 0 does not become the default.
PreparedAsIs(r) ==
  [chat |-> NormalisedChatId(r.chat), cursor |-> r.cursor, limit |-> r.limit,
   reverse |-> r.reverse]

Prepared(r) ==
  [chat    |-> NormalisedChatId(r.chat),
   cursor  |-> r.cursor,
   limit   |-> IF r.limit = 0 THEN DefaultLimit ELSE r.limit,
   reverse |-> r.reverse]

PullRejected(h) ==
  /\ pc[h] = "Idle"
  /\ \E r \in PullRequests : PullCode(r) # 0 /\ Respond(h, PullCode(r))
  /\ UNCHANGED <<store, row, targets, locks, req, hit, page, counters>>

\* Accepting request r; getChatCacheCursor asks nothing about cursor 0.
Accept(h, r) ==
  /\ pc[h] = "Idle"
  /\ PullCode(r) = 0
  /\ req' = [req EXCEPT ![h] = Prepared(r)]
  /\ Goto(h, IF r.cursor = 0 THEN "Query" ELSE "Lookup")
  /\ UNCHANGED <<store, row, targets, locks, hit, page, code>>

PullAccepted(h) ==
  /\ \E r \in PullRequests : Accept(h, r)
  /\ pulls < MaxPulls
  /\ pulls' = pulls + 1
  /\ UNCHANGED <<sends, crashes>>

\* Variant: the lookup forgets the direction.
PullLookupEitherWay(h) ==
  /\ pc[h] = "Lookup"
  /\ ConnFree
  /\ \/ \E e \in cursors :
          /\ e.chat = req[h].chat /\ e.cursor = req[h].cursor
          /\ hit' = [hit EXCEPT ![h] = e]
     \/ hit' = hit
  /\ Goto(h, "Query")
  /\ UNCHANGED <<store, row, targets, locks, req, page, code, counters>>

PullLookup(h) ==
  /\ pc[h] = "Lookup"
  /\ ConnFree
  /\ LET found == {e \in cursors :
                     CursorKey(e) = <<req[h].chat, req[h].reverse, req[h].cursor>>}
     IN  hit' = [hit EXCEPT ![h] = IF found = {} THEN None
                                   ELSE CHOOSE e \in found : TRUE]
  /\ Goto(h, "Query")
  /\ UNCHANGED <<store, row, targets, locks, req, page, code, counters>>

\* Variant: the comparison excludes the cached send time.
RowsAfter(chat, reverse, t) ==
  {m \in RowsOf(chat) : Precedes(reverse, t, m.sentAt)}

\* The rows from the cached send time on: "sent_at >= ?", "<=" in reverse.
RowsFrom(chat, reverse, t) ==
  {m \in RowsOf(chat) : ~ Precedes(reverse, m.sentAt, t)}

\* What the query of getMessages may return: limit + 1 rows at most.
Answers(r, cached) ==
  IF cached = None
  THEN Find(RowsOf(r.chat), r.reverse, r.cursor, r.limit + 1)
  ELSE Find(RowsFrom(r.chat, r.reverse, cached.sentAt), r.reverse, 0, r.limit + 1)

HasMore(r, p) == Len(p) > r.limit

\* Where a Pull goes with the page p once its own cursor is dealt with.
AfterOwn(r, p) == IF HasMore(r, p) THEN "Next" ELSE "Reply"

PullQuery(h) ==
  /\ pc[h] = "Query"
  /\ ConnFree
  /\ \E p \in Answers(req[h], hit[h]) :
       /\ page' = [page EXCEPT ![h] = p]
       /\ Goto(h, IF hit[h] = None /\ req[h].cursor > 0 /\ p # << >>
                  THEN "Own" ELSE AfterOwn(req[h], p))
  /\ code' = [code EXCEPT ![h] = 0]
  /\ UNCHANGED <<store, row, targets, locks, req, hit, counters>>

\* A read fails: code -1 and no page.
PullFailed(h) ==
  /\ pc[h] \in {"Lookup", "Query"}
  /\ Respond(h, -1)
  /\ UNCHANGED <<store, row, targets, locks, req, hit, page, counters>>

-----------------------------------------------------------------------------
(* createChatCursorCache                                                   *)

\* Variant: the next page starts one further.
NextCursorPast(r) == r.cursor + r.limit + 1

NextCursor(r) == r.cursor + r.limit

\* Variant: the last message of the page instead of the first of the next.
EntryOfLast(h) ==
  IF pc[h] \in {"Own", "OwnWait"}
  THEN ToChatCursor(page[h][1], req[h].reverse, req[h].cursor)
  ELSE ToChatCursor(page[h][req[h].limit], req[h].reverse, NextCursor(req[h]))

\* The row the insert of handler h carries.
Entry(h) ==
  IF pc[h] \in {"Own", "OwnWait"}
  THEN ToChatCursor(page[h][1], req[h].reverse, req[h].cursor)
  ELSE ToChatCursor(page[h][req[h].limit + 1], req[h].reverse, NextCursor(req[h]))

Rivals(h) == {e \in cursors : CursorKey(e) = CursorKey(Entry(h))}

HasConn(h) == pc[h] \in {"OwnWait", "NextWait"} \/ ConnFree

AfterInsert(h) ==
  Goto(h, IF pc[h] \in {"Own", "OwnWait"} THEN AfterOwn(req[h], page[h]) ELSE "Reply")

CursorStored(h) ==
  /\ pc[h] \in CacheSteps
  /\ HasConn(h)
  /\ Rivals(h) = {}
  /\ cursors' = cursors \union {Entry(h)}
  /\ AfterInsert(h)
  /\ UNCHANGED <<messages, frames, counters>>

\* Variant: the insert is tried again for as long as the key is taken.
CursorRetried(h) ==
  /\ pc[h] \in CacheSteps
  /\ HasConn(h)
  /\ Rivals(h) # {} /\ Rivals(h) \intersect Locked = {}
  /\ UNCHANGED vars

\* The key is taken (error 23505) and the row there is not touched.
CursorDuplicate(h) ==
  /\ pc[h] \in CacheSteps
  /\ HasConn(h)
  /\ Rivals(h) # {} /\ Rivals(h) \intersect Locked = {}
  /\ AfterInsert(h)
  /\ UNCHANGED <<store, frames, counters>>

\* The row with this key is being deleted: the insert waits for the outcome.
CursorBlocked(h) ==
  /\ pc[h] \in {"Own", "Next"}
  /\ ConnFree
  /\ Rivals(h) \intersect Locked # {}
  /\ Goto(h, IF pc[h] = "Own" THEN "OwnWait" ELSE "NextWait")
  /\ UNCHANGED <<store, frames, counters>>

\* Any other error is logged and forgotten.
CursorFailed(h) ==
  /\ pc[h] \in CacheSteps
  /\ AfterInsert(h)
  /\ UNCHANGED <<store, frames, counters>>

-----------------------------------------------------------------------------
\* Variant: the message that only tells that there are more is sent as well.
DeliveredWhole(h) == page[h]

\* The response Pull builds from the page: at most limit messages.
Delivered(h) == Window(page[h], 0, req[h].limit)

\* The response leaves; the frame is gone.
Return(h) ==
  /\ pc[h] = "Reply"
  /\ Goto(h, "Idle")
  /\ row' = [row EXCEPT ![h] = NoRow]
  /\ req' = [req EXCEPT ![h] = None]
  /\ hit' = [hit EXCEPT ![h] = None]
  /\ page' = [page EXCEPT ![h] = << >>]
  /\ code' = [code EXCEPT ![h] = 0]
  /\ UNCHANGED <<store, targets, locks, counters>>

\* The process dies and is restarted; PostgreSQL rolls back what was open.
Crash ==
  /\ crashes < MaxCrashes
  /\ crashes' = crashes + 1
  /\ pc' = [h \in Handlers |-> "Idle"]
  /\ row' = [h \in Handlers |-> NoRow]
  /\ targets' = [h \in Handlers |-> {}]
  /\ locks' = [h \in Handlers |-> {}]
  /\ req' = [h \in Handlers |-> None]
  /\ hit' = [h \in Handlers |-> None]
  /\ page' = [h \in Handlers |-> << >>]
  /\ code' = [h \in Handlers |-> 0]
  /\ UNCHANGED <<store, sends, pulls>>

\* Requests arrive.
Request(h) == SendRejected(h) \/ SendAccepted(h) \/ PullRejected(h) \/ PullAccepted(h)

\* The handler runs its next statement.
Serve(h) ==
  \/ SendCreate(h) \/ SendScan(h) \/ SendLock(h) \/ SendDelete(h) \/ SendCommit(h)
  \/ SendDeadlock(h)
  \/ PullLookup(h) \/ PullQuery(h)
  \/ CursorStored(h) \/ CursorDuplicate(h) \/ CursorBlocked(h)

Work(h) == Serve(h) \/ Return(h)

\* The database fails a statement.
Failure(h) == SendFailed(h) \/ SendCommitLost(h) \/ PullFailed(h) \/ CursorFailed(h)

Next == (\E h \in Handlers : Request(h) \/ Work(h) \/ Failure(h)) \/ Crash

Spec == Init /\ [][Next]_vars

(***************************************************************************)
(* Every handler that can take its next step does, sooner or later: the    *)
(* scheduler runs all goroutines, the pool hands a free connection on, and *)
(* PostgreSQL answers.  Nothing makes clients call, statements fail or the *)
(* process crash.                                                          *)
(***************************************************************************)
Fairness == \A h \in Handlers : WF_vars(Work(h))

FairSpec == Spec /\ Fairness

-----------------------------------------------------------------------------
(* Properties                                                              *)

TypeOK ==
  /\ messages \in SUBSET ChatMessages
  /\ cursors \in SUBSET ChatCursors
  /\ pc \in [Handlers -> Steps]
  /\ row \in [Handlers -> ChatMessages \union {NoRow}]
  /\ targets \in [Handlers -> SUBSET ChatCursors]
  /\ locks \in [Handlers -> SUBSET ChatCursors]
  /\ req \in [Handlers -> Pulls \union {None}]
  /\ hit \in [Handlers -> ChatCursors \union {None}]
  /\ page \in [Handlers -> Seq(ChatMessages)]
  /\ code \in [Handlers -> Codes]
  /\ sends \in 0 .. MaxSends
  /\ pulls \in 0 .. MaxPulls
  /\ crashes \in 0 .. MaxCrashes

(***************************************************************************)
(* Every cached cursor, in the table or in the frame of a Pull that found  *)
(* it, is the send time of a committed message of its chat: no cursor      *)
(* comes from a transaction that was rolled back, whatever the order in    *)
(* which Pulls read and cache and Sends commit or fail.                    *)
(***************************************************************************)
Sound(e) == \E m \in messages : m.chat = e.chat /\ m.sentAt = e.sentAt

CursorsSound ==
  /\ \A e \in cursors : Sound(e)
  /\ \A h \in Handlers : hit[h] # None => Sound(hit[h])

(***************************************************************************)
(* A cached cursor may lag behind its position when messages are stored    *)
(* before it, but is never ahead of it: at least e.cursor messages come    *)
(* before the send time it names.  So a pull through the cache repeats     *)
(* nothing that earlier positions have shown, and nextCursor stays below   *)
(* the number of messages.  Needs distinct send times.                     *)
(***************************************************************************)
PositionOf(e) == Rank(RowsOf(e.chat), e.reverse, e.sentAt)

CursorsNotAhead == \A e \in cursors : e.cursor <= PositionOf(e)

(***************************************************************************)
(* A cached cursor names the message at its very position, in the          *)
(* direction the service never invalidates: forward.  Holds while the      *)
(* messages of a chat are stored in the order of their send times.         *)
(***************************************************************************)
ForwardCursorsExact ==
  \A e \in cursors : ~ e.reverse => e.cursor = PositionOf(e)

(***************************************************************************)
(* The same of the direction Send invalidates: what is left in the table   *)
(* once Send has deleted the stale cursors is exact (README.md:58).        *)
(***************************************************************************)
ReverseCursorsExact ==
  \A e \in cursors : e.reverse => e.cursor = PositionOf(e)

(***************************************************************************)
(* The cache is transparent: a query through a cached cursor returns what  *)
(* the query with OFFSET would return at that moment (README.md:69).       *)
(***************************************************************************)
SamePage(h) ==
  pc[h] = "Query" /\ pc'[h] \notin {"Query", "Idle"} /\ code'[h] = 0
    => page'[h] \in Answers(req[h], None)

ForwardTransparent ==
  [][\A h \in Handlers : req[h] # None /\ ~ req[h].reverse => SamePage(h)]_vars

ReverseTransparent ==
  [][\A h \in Handlers : req[h] # None /\ req[h].reverse => SamePage(h)]_vars

(***************************************************************************)
(* Every request is answered, with any number of connections in the pool:  *)
(* no set of Sends and Pulls can wait for each other's rows, connections   *)
(* or cursors.                                                             *)
(***************************************************************************)
AllAnswered == \A h \in Handlers : pc[h] # "Idle" ~> pc[h] = "Idle"

=============================================================================
