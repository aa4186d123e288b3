-------------------------- MODULE IMService_proofs --------------------------
(***************************************************************************)
(* Invariants of IMService for any handlers, requests and bounds.          *)
(*                                                                         *)
(* TypeOK is not inductive: that the cursor a Pull inserts is well-formed  *)
(* depends on its page having the row the cursor is taken from.  And that  *)
(* a page is a sequence depends on the table being finite, as Cardinality  *)
(* says nothing of other sets.                                             *)
(***************************************************************************)
EXTENDS IMService, FiniteSetTheorems, SequenceTheorems, TLAPS

PullSteps == {"Lookup", "Query"} \union CacheSteps

\* What a handler's frame holds at each step.
FrameReady(h) ==
  /\ pc[h] \in TxSteps => row[h] \in ChatMessages
  /\ pc[h] \in PullSteps => req[h] \in Pulls
  /\ pc[h] \in {"Own", "OwnWait"} => page[h] # << >>
  /\ pc[h] \in {"Next", "NextWait"} => HasMore(req[h], page[h])

FramesReady == \A h \in Handlers : FrameReady(h)

TypeInv == TypeOK /\ IsFiniteSet(messages) /\ FramesReady

-----------------------------------------------------------------------------
(* Lemmas about the data                                                   *)

(***************************************************************************)
(* A valid chat id normalises to a key under which messages are stored.    *)
(***************************************************************************)
LEMMA NormalisedIsKey ==
  ASSUME NEW chat \in RawChats, ValidChatId(chat)
  PROVE  /\ NormalisedChatId(chat) \in ChatKeys
         /\ chat[1] \in Names /\ chat[2] \in Names
<1>1. chat[1] \in Names /\ chat[2] \in Names
  <2>1. chat \in Seq(Parts) /\ Len(chat) = 2
    BY DEF RawChats, ValidChatId
  <2>2. chat[1] \in Parts /\ chat[2] \in Parts
    BY <2>1, ElementOfSeq
  <2>. QED
    BY <2>2 DEF Parts, ValidChatId
<1>2. chat = <<chat[1], chat[2]>>
  BY DEF RawChats, ValidChatId
<1>3. chat[1] \in Nat /\ chat[2] \in Nat
  BY <1>1, NamesAssumption
<1>. QED
  BY <1>1, <1>2, <1>3 DEF NormalisedChatId, ChatKeys

(***************************************************************************)
(* The row Send builds from a message it accepts fits chat_messages.       *)
(***************************************************************************)
LEMMA RowFitsTable ==
  ASSUME NEW m \in SendRequests, ValidMessage(m), NEW id \in Nat
  PROVE  ToChatMessage(m, id) \in ChatMessages
<1>1. m \in RpcMessages
  BY RequestsAssumption DEF ValidMessage, MessageError
<1>2. /\ ValidChatId(m.chat) /\ m.sender \in {m.chat[1], m.chat[2]}
      /\ ~ (m.sendTime < 0)
  BY DEF ValidMessage, MessageError
<1>3. /\ m.chat \in RawChats /\ m.text \in Texts /\ m.sendTime \in Int
  BY <1>1 DEF RpcMessages
<1>4. /\ NormalisedChatId(m.chat) \in ChatKeys
      /\ m.sender \in Names /\ Receiver(m.chat, m.sender) \in Names
  BY <1>2, <1>3, NormalisedIsKey DEF Receiver
<1>5. TrimSpace(m.text) \in Texts
  BY <1>3 DEF TrimSpace, Texts
<1>. QED
  BY <1>2, <1>3, <1>4, <1>5 DEF ToChatMessage, ChatMessages

(***************************************************************************)
(* A pull that passes the checks leaves a request with a positive limit.   *)
(***************************************************************************)
LEMMA PreparedIsPull ==
  ASSUME NEW r \in RpcPulls, PullCode(r) = 0
  PROVE  Prepared(r) \in Pulls
<1>1. /\ r.chat \in RawChats /\ r.cursor \in Int /\ r.limit \in Int
      /\ r.reverse \in BOOLEAN
  BY DEF RpcPulls
<1>2. ValidChatId(r.chat) /\ ~ (r.limit < 0) /\ ~ (r.cursor < 0)
  BY DEF PullCode
<1>3. NormalisedChatId(r.chat) \in ChatKeys
  BY <1>1, <1>2, NormalisedIsKey
<1>. QED
  BY <1>1, <1>2, <1>3, BoundsAssumption DEF Prepared, Pulls

(***************************************************************************)
(* A query returns a sequence of rows of the table.                        *)
(***************************************************************************)
LEMMA FindReturnsRows ==
  ASSUME NEW rows, IsFiniteSet(rows), NEW reverse, NEW offset \in Nat, NEW count \in Nat,
         NEW p \in Find(rows, reverse, offset, count)
  PROVE  p \in Seq(rows)
<1>1. PICK s \in Orderings(rows, reverse) : p = Window(s, offset, count)
  BY DEF Find
<1>2. Cardinality(rows) \in Nat
  BY FS_CardinalityType
<1>3. s \in Seq(rows) /\ Len(s) = Cardinality(rows)
  BY <1>1, <1>2 DEF Orderings
<1>4. CASE offset + count < Len(s)
  BY <1>1, <1>3, <1>4 DEF Window
<1>5. CASE ~ (offset + count < Len(s))
  BY <1>1, <1>3, <1>5 DEF Window
<1>. QED
  BY <1>4, <1>5

LEMMA AnswersAreRows ==
  ASSUME NEW r \in Pulls, NEW cached \in ChatCursors \union {None},
         IsFiniteSet(messages), NEW p \in Answers(r, cached)
  PROVE  p \in Seq(messages)
<1>1. RowsOf(r.chat) \subseteq messages
  BY DEF RowsOf
<1>2. /\ r.cursor \in Nat /\ r.limit + 1 \in Nat
  BY DEF Pulls
<1>3. CASE cached = None
  <2>1. p \in Seq(RowsOf(r.chat))
    BY <1>1, <1>2, <1>3, FS_Subset, FindReturnsRows DEF Answers
  <2>. QED
    BY <1>1, <2>1
<1>4. CASE cached # None
  <2>1. RowsFrom(r.chat, r.reverse, cached.sentAt) \subseteq messages
    BY <1>1 DEF RowsFrom
  <2>2. p \in Seq(RowsFrom(r.chat, r.reverse, cached.sentAt))
    BY <1>2, <1>4, <2>1, FS_Subset, FindReturnsRows DEF Answers
  <2>. QED
    BY <2>1, <2>2
<1>. QED
  BY <1>3, <1>4

(***************************************************************************)
(* The row a cursor is taken from is there when it is inserted, so what    *)
(* createChatCursorCache inserts is a cursor.                              *)
(***************************************************************************)
LEMMA EntryIsCursor ==
  ASSUME TypeInv, NEW h \in Handlers, pc[h] \in CacheSteps
  PROVE  Entry(h) \in ChatCursors
<1>1. /\ req[h] \in Pulls /\ page[h] \in Seq(ChatMessages)
      /\ pc[h] \in {"Own", "OwnWait"} => page[h] # << >>
      /\ pc[h] \in {"Next", "NextWait"} => Len(page[h]) > req[h].limit
  BY DEF TypeInv, TypeOK, FramesReady, FrameReady, PullSteps, HasMore
<1>2. /\ req[h].reverse \in BOOLEAN /\ req[h].cursor \in Nat
      /\ req[h].limit \in Nat \ {0}
  BY <1>1 DEF Pulls
<1>3. CASE pc[h] \in {"Own", "OwnWait"}
  <2>1. page[h][1] \in ChatMessages
    BY <1>1, <1>3
  <2>. QED
    BY <1>2, <1>3, <2>1 DEF Entry, ToChatCursor, ChatCursors, ChatMessages
<1>4. CASE pc[h] \in {"Next", "NextWait"}
  <2>1. page[h][req[h].limit + 1] \in ChatMessages
    BY <1>1, <1>2, <1>4
  <2>. QED
    BY <1>2, <1>4, <2>1 DEF Entry, NextCursor, ToChatCursor, ChatCursors, ChatMessages
<1>. QED
  BY <1>3, <1>4 DEF CacheSteps

-----------------------------------------------------------------------------
(* Type correctness                                                        *)

LEMMA TypeInit == Init => TypeInv
<1>. SUFFICES ASSUME Init PROVE TypeInv
  OBVIOUS
<1>1. TypeOK
  BY BoundsAssumption
  DEF Init, TypeOK, Steps, TxSteps, CacheSteps, NoRow, Codes
<1>2. IsFiniteSet(messages)
  BY FS_EmptySet DEF Init
<1>3. FramesReady
  BY DEF Init, FramesReady, FrameReady, PullSteps, TxSteps, CacheSteps
<1>. QED
  BY <1>1, <1>2, <1>3 DEF TypeInv

LEMMA TypeSend ==
  ASSUME TypeInv, NEW h \in Handlers,
         \/ SendRejected(h) \/ SendAccepted(h) \/ SendCreate(h) \/ SendScan(h)
         \/ SendLock(h) \/ SendDelete(h) \/ SendCommit(h) \/ SendCommitLost(h)
         \/ SendFailed(h)
  PROVE  TypeInv'
<1>. USE DEF TypeInv, TypeOK, FramesReady, FrameReady, Goto, Respond, store, frames,
             counters, Steps, TxSteps, CacheSteps, PullSteps, Codes
<1>1. CASE SendRejected(h)
  BY <1>1 DEF SendRejected, HasMore
<1>2. CASE SendAccepted(h)
  <2>1. PICK m \in SendRequests :
          ValidMessage(m) /\ row' = [row EXCEPT ![h] = ToChatMessage(m, sends + 1)]
    BY <1>2 DEF SendAccepted
  <2>2. sends + 1 \in Nat /\ sends + 1 \in 0 .. MaxSends
    BY <1>2, BoundsAssumption DEF SendAccepted
  <2>3. ToChatMessage(m, sends + 1) \in ChatMessages
    BY <2>1, <2>2, RowFitsTable
  <2>. QED
    BY <1>2, <2>1, <2>2, <2>3 DEF SendAccepted, HasMore
<1>3. CASE SendCreate(h)
  BY <1>3 DEF SendCreate, HasMore
<1>4. CASE SendScan(h)
  BY <1>4 DEF SendScan, HasMore
<1>5. CASE SendDelete(h)
  BY <1>5 DEF SendDelete, HasMore
<1>8. CASE SendLock(h)
  <2>1. PICK e \in targets[h] : locks' = [locks EXCEPT ![h] = @ \union {e}]
    BY <1>8 DEF SendLock
  <2>2. locks[h] \union {e} \subseteq ChatCursors
    OBVIOUS
  <2>3. locks' \in [Handlers -> SUBSET ChatCursors]
    BY <2>1, <2>2
  <2>. QED
    BY <1>8, <2>3 DEF SendLock, HasMore
<1>6. CASE Committed(h) /\ \E c \in {0, -1} : Respond(h, c)
  <2>1. row[h] \in ChatMessages
    BY <1>6 DEF Committed
  <2>2. IsFiniteSet(messages')
    BY <1>6, FS_AddElement DEF Committed
  <2>. QED
    BY <1>6, <2>1, <2>2 DEF Committed, HasMore
<1>7. CASE SendFailed(h)
  BY <1>7 DEF SendFailed, HasMore
<1>. QED
  BY <1>1, <1>2, <1>3, <1>4, <1>5, <1>6, <1>7, <1>8 DEF SendCommit, SendCommitLost

LEMMA TypePull ==
  ASSUME TypeInv, NEW h \in Handlers,
         PullRejected(h) \/ PullAccepted(h) \/ PullLookup(h) \/ PullQuery(h) \/ PullFailed(h)
  PROVE  TypeInv'
<1>. USE DEF TypeInv, TypeOK, FramesReady, FrameReady, Goto, Respond, store, frames,
             counters, Steps, TxSteps, CacheSteps, PullSteps, Codes
<1>1. CASE PullRejected(h)
  <2>1. \A r : PullCode(r) \in Codes
    BY DEF PullCode
  <2>. QED
    BY <1>1, <2>1 DEF PullRejected, HasMore
<1>2. CASE PullAccepted(h)
  <2>1. PICK r \in PullRequests : Accept(h, r)
    BY <1>2 DEF PullAccepted
  <2>2. Prepared(r) \in Pulls
    BY <2>1, PreparedIsPull, RequestsAssumption DEF Accept
  <2>3. pulls' \in 0 .. MaxPulls
    BY <1>2, BoundsAssumption DEF PullAccepted
  <2>. QED
    BY <1>2, <2>1, <2>2, <2>3 DEF PullAccepted, Accept, HasMore
<1>3. CASE PullLookup(h)
  <2>1. hit' \in [Handlers -> ChatCursors \union {None}]
    BY <1>3 DEF PullLookup
  <2>. QED
    BY <1>3, <2>1 DEF PullLookup, HasMore
<1>4. CASE PullQuery(h)
  <2>1. PICK p \in Answers(req[h], hit[h]) :
          /\ page' = [page EXCEPT ![h] = p]
          /\ Goto(h, IF hit[h] = None /\ req[h].cursor > 0 /\ p # << >>
                     THEN "Own" ELSE AfterOwn(req[h], p))
    BY <1>4 DEF PullQuery
  <2>2. pc[h] = "Query" /\ req[h] \in Pulls /\ hit[h] \in ChatCursors \union {None}
    BY <1>4 DEF PullQuery
  <2>3. p \in Seq(ChatMessages)
    BY <2>2, AnswersAreRows
  <2>. QED
    BY <1>4, <2>1, <2>2, <2>3 DEF PullQuery, AfterOwn, HasMore
<1>5. CASE PullFailed(h)
  BY <1>5 DEF PullFailed, HasMore
<1>. QED
  BY <1>1, <1>2, <1>3, <1>4, <1>5

LEMMA TypeCursor ==
  ASSUME TypeInv, NEW h \in Handlers,
         CursorStored(h) \/ CursorDuplicate(h) \/ CursorBlocked(h) \/ CursorFailed(h)
  PROVE  TypeInv'
<1>1. pc[h] \in CacheSteps
  BY DEF CursorStored, CursorDuplicate, CursorBlocked, CursorFailed, CacheSteps
<1>2. Entry(h) \in ChatCursors
  BY <1>1, EntryIsCursor
<1>. USE DEF TypeInv, TypeOK, FramesReady, FrameReady, Goto, store, frames, counters,
             Steps, TxSteps, CacheSteps, PullSteps
<1>3. CASE AfterInsert(h) /\ UNCHANGED <<messages, frames, counters>>
           /\ cursors' \in {cursors, cursors \union {Entry(h)}}
  BY <1>1, <1>2, <1>3 DEF AfterInsert, AfterOwn, HasMore
<1>4. CASE CursorBlocked(h)
  BY <1>4 DEF CursorBlocked, HasMore
<1>. QED
  BY <1>3, <1>4 DEF CursorStored, CursorDuplicate, CursorFailed

LEMMA TypeOther ==
  ASSUME TypeInv, (\E h \in Handlers : Return(h)) \/ Crash \/ UNCHANGED vars
  PROVE  TypeInv'
<1>. USE DEF TypeInv, TypeOK, FramesReady, FrameReady, Goto, store, frames, counters,
             Steps, TxSteps, CacheSteps, PullSteps, Codes, NoRow, HasMore
<1>1. CASE \E h \in Handlers : Return(h)
  BY <1>1 DEF Return
<1>2. CASE Crash
  BY <1>2, BoundsAssumption DEF Crash
<1>3. CASE UNCHANGED vars
  BY <1>3 DEF vars
<1>. QED
  BY <1>1, <1>2, <1>3

LEMMA TypeStep == TypeInv /\ [Next]_vars => TypeInv'
<1>. SUFFICES ASSUME TypeInv, [Next]_vars PROVE TypeInv'
  OBVIOUS
<1>. QED
  BY TypeSend, TypePull, TypeCursor, TypeOther
  DEF Next, Request, Work, Serve, SendDeadlock, Failure

(***************************************************************************)
(* The service keeps its types: what reaches the tables fits their columns *)
(* and keys, and no handler indexes a page where it has no row.            *)
(***************************************************************************)
THEOREM TypeCorrect == Spec => []TypeOK
<1>1. TypeInv => TypeOK
  BY DEF TypeInv
<1>. QED
  BY <1>1, TypeInit, TypeStep, PTL DEF Spec

\* The messages a Pull answers are rows.
LEMMA DeliveredFits ==
  ASSUME TypeInv, NEW h \in Handlers, req[h] \in Pulls
  PROVE  Delivered(h) \in Seq(ChatMessages)
<1>1. page[h] \in Seq(ChatMessages) /\ req[h].limit \in Nat
  BY DEF TypeInv, TypeOK, Pulls
<1>. QED
  BY <1>1 DEF Delivered, Window

-----------------------------------------------------------------------------
(* The cache holds send times of committed messages, one for each key      *)

\* The rows of a page come from the table and stay there.
PagesStored == \A h \in Handlers : pc[h] \in CacheSteps => page[h] \in Seq(messages)

SoundInv == CursorsSound /\ PagesStored

(***************************************************************************)
(* No step removes a message.                                              *)
(***************************************************************************)
LEMMA MessagesGrow == ASSUME [Next]_vars PROVE messages \subseteq messages'
  BY DEF Next, Request, Work, Serve, SendDeadlock, Failure, vars, store,
         SendRejected, SendAccepted, SendCreate, SendScan, SendLock, SendDelete, SendCommit,
         SendCommitLost, SendFailed, Committed, PullRejected, PullAccepted, Accept,
         PullLookup, PullQuery, PullFailed, CursorStored, CursorDuplicate,
         CursorBlocked, CursorFailed, Return, Crash

(***************************************************************************)
(* A step adds one cursor at most, the one the handler's page is for.      *)
(***************************************************************************)
LEMMA CursorsFromEntries ==
  ASSUME [Next]_vars
  PROVE  \/ cursors' \subseteq cursors
         \/ \E h \in Handlers : /\ pc[h] \in CacheSteps
                                /\ Rivals(h) = {}
                                /\ cursors' = cursors \union {Entry(h)}
  BY DEF Next, Request, Work, Serve, SendDeadlock, Failure, vars, store,
         SendRejected, SendAccepted, SendCreate, SendScan, SendLock, SendDelete, SendCommit,
         SendCommitLost, SendFailed, Committed, PullRejected, PullAccepted, Accept,
         PullLookup, PullQuery, PullFailed, CursorStored, CursorDuplicate,
         CursorBlocked, CursorFailed, Return, Crash

(***************************************************************************)
(* A cachedCursor a step gives to a handler is in the table.               *)
(***************************************************************************)
LEMMA HitsFromCursors ==
  ASSUME TypeInv, [Next]_vars, NEW h \in Handlers, hit'[h] # None
  PROVE  hit'[h] = hit[h] \/ hit'[h] \in cursors
<1>1. CASE \E g \in Handlers : PullLookup(g)
  BY <1>1 DEF PullLookup, TypeInv, TypeOK
<1>2. CASE (\E g \in Handlers : Return(g)) \/ Crash
  BY <1>2 DEF Return, Crash, TypeInv, TypeOK
<1>. QED
  BY <1>1, <1>2
  DEF Next, Request, Work, Serve, SendDeadlock, Failure, vars, frames,
      SendRejected, SendAccepted, SendCreate, SendScan, SendLock, SendDelete, SendCommit,
      SendCommitLost, SendFailed, Committed, PullRejected, PullAccepted, Accept,
      PullQuery, PullFailed, CursorStored, CursorDuplicate, CursorBlocked, CursorFailed

(***************************************************************************)
(* A handler reaches the inserts of the cache only with the page its own   *)
(* query has just returned.                                                *)
(***************************************************************************)
LEMMA PagesFromQueries ==
  ASSUME TypeInv, [Next]_vars, NEW h \in Handlers, pc'[h] \in CacheSteps
  PROVE  \/ /\ pc[h] \in CacheSteps /\ page'[h] = page[h] /\ req'[h] = req[h]
            /\ pc'[h] \in {"Own", "OwnWait"} => pc[h] \in {"Own", "OwnWait"}
         \/ PullQuery(h) /\ page'[h] \in Answers(req[h], hit[h]) /\ req'[h] = req[h]
<1>. USE DEF CacheSteps, TypeInv, TypeOK, Goto, Respond, frames
<1>1. CASE \E g \in Handlers : PullQuery(g)
  BY <1>1 DEF PullQuery
<1>2. CASE (\E g \in Handlers : Return(g)) \/ Crash
  BY <1>2 DEF Return, Crash
<1>3. CASE \E g \in Handlers : PullAccepted(g) \/ PullRejected(g) \/ PullLookup(g) \/ PullFailed(g)
  BY <1>3 DEF PullAccepted, Accept, PullRejected, PullLookup, PullFailed
<1>4. CASE \E g \in Handlers : CursorStored(g) \/ CursorDuplicate(g) \/ CursorBlocked(g)
                               \/ CursorFailed(g)
  BY <1>4 DEF CursorStored, CursorDuplicate, CursorBlocked, CursorFailed, AfterInsert, AfterOwn
<1>5. CASE \E g \in Handlers : SendRejected(g) \/ SendAccepted(g) \/ SendCreate(g) \/ SendScan(g)
                               \/ SendLock(g) \/ SendDelete(g) \/ SendFailed(g)
  BY <1>5 DEF SendRejected, SendAccepted, SendCreate, SendScan, SendLock, SendDelete, SendFailed
<1>6. CASE \E g \in Handlers : SendCommit(g) \/ SendCommitLost(g)
  BY <1>6 DEF SendCommit, SendCommitLost, Committed
<1>7. CASE UNCHANGED vars
  BY <1>7 DEF vars
<1>. QED
  BY <1>1, <1>2, <1>3, <1>4, <1>5, <1>6, <1>7 DEF Next, Request, Work, Serve, SendDeadlock, Failure

LEMMA SoundStep ==
  ASSUME TypeInv, TypeInv', SoundInv, [Next]_vars
  PROVE  SoundInv'
<1>1. messages \subseteq messages'
  BY MessagesGrow
<1>2. \A e : Sound(e) => Sound(e)'
  BY <1>1 DEF Sound
<1>3. \A h \in Handlers : pc[h] \in CacheSteps => Sound(Entry(h))
  <2>. SUFFICES ASSUME NEW h \in Handlers, pc[h] \in CacheSteps PROVE Sound(Entry(h))
    OBVIOUS
  <2>1. /\ page[h] \in Seq(messages) /\ req[h] \in Pulls
        /\ pc[h] \in {"Own", "OwnWait"} => page[h] # << >>
        /\ pc[h] \in {"Next", "NextWait"} => Len(page[h]) > req[h].limit
    BY DEF SoundInv, PagesStored, TypeInv, FramesReady, FrameReady, PullSteps, HasMore
  <2>2. CASE pc[h] \in {"Own", "OwnWait"}
    <3>1. page[h][1] \in messages
      BY <2>1, <2>2
    <3>. QED
      BY <2>2, <3>1 DEF Sound, Entry, ToChatCursor
  <2>3. CASE pc[h] \in {"Next", "NextWait"}
    <3>1. page[h][req[h].limit + 1] \in messages
      BY <2>1, <2>3 DEF Pulls
    <3>. QED
      BY <2>3, <3>1 DEF Sound, Entry, ToChatCursor
  <2>. QED
    BY <2>2, <2>3 DEF CacheSteps
<1>4. \A e \in cursors' : Sound(e)'
  BY <1>2, <1>3, CursorsFromEntries DEF SoundInv, CursorsSound
<1>5. \A h \in Handlers : hit'[h] # None => Sound(hit[h])'
  BY <1>2, HitsFromCursors DEF SoundInv, CursorsSound, Sound
<1>6. PagesStored'
  <2>. SUFFICES ASSUME NEW h \in Handlers, pc'[h] \in CacheSteps
                PROVE  page'[h] \in Seq(messages')
    BY DEF PagesStored
  <2>1. CASE PullQuery(h) /\ page'[h] \in Answers(req[h], hit[h])
    <3>1. req[h] \in Pulls /\ hit[h] \in ChatCursors \union {None} /\ IsFiniteSet(messages)
      BY <2>1 DEF TypeInv, TypeOK, FramesReady, FrameReady, PullSteps, PullQuery
    <3>2. page'[h] \in Seq(messages)
      BY <2>1, <3>1, AnswersAreRows
    <3>. QED
      BY <1>1, <3>2
  <2>2. CASE pc[h] \in CacheSteps /\ page'[h] = page[h]
    BY <1>1, <2>2 DEF SoundInv, PagesStored
  <2>. QED
    BY <2>1, <2>2, PagesFromQueries
<1>. QED
  BY <1>4, <1>5, <1>6 DEF SoundInv, CursorsSound

(***************************************************************************)
(* Whatever commits, fails or crashes, every cached cursor is the send     *)
(* time of a message that is committed: the cache never refers to what a   *)
(* transaction took back.                                                  *)
(***************************************************************************)
THEOREM CursorsAreSound == Spec => []CursorsSound
<1>1. Init => SoundInv
  BY DEF Init, SoundInv, CursorsSound, PagesStored, CacheSteps
<1>2. TypeInv /\ TypeInv' /\ SoundInv /\ [Next]_vars => SoundInv'
  BY SoundStep
<1>3. SoundInv => CursorsSound
  BY DEF SoundInv
<1>. QED
  BY <1>1, <1>2, <1>3, TypeInit, TypeStep, PTL DEF Spec

=============================================================================
