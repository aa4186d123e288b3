--------------------------- MODULE Pagination_proofs --------------------------
(***************************************************************************)
(* What a client that reads a chat page by page can rely on, for any other *)
(* clients, handlers, page sizes, failures and crashes.                    *)
(***************************************************************************)
EXTENDS Pagination, Transparency_proofs

-----------------------------------------------------------------------------
(* The session's steps                                                     *)

\* The session's pull is accepted by h: a request Next does not know of.
Asked(h) == ask \in RpcPulls /\ Accept(h, ask) /\ UNCHANGED counters

LEMMA ServiceSteps ==
  ASSUME [PNext]_pvars, phase = "ready" => ask \in RpcPulls
  PROVE  [Next]_vars \/ \E h \in Handlers : Asked(h)
<1>. USE DEF Next, Work
<1>1. CASE Begin
  BY <1>1 DEF Begin
<1>2. CASE ServerLost \/ OtherCrash
  BY <1>2 DEF ServerLost, OtherCrash
<1>3. ASSUME NEW h \in Handlers, AskPage(h)
      PROVE  Asked(h)
  BY <1>3 DEF AskPage, Asked
<1>4. ASSUME NEW h \in Handlers, TakePage(h) \/ PullError(h) \/ Others(h) \/ Progress(h)
      PROVE  Next
  BY <1>4 DEF TakePage, PullError, Others, Progress
<1>5. CASE UNCHANGED pvars
  BY <1>5 DEF pvars
<1>. QED
  BY <1>1, <1>2, <1>3, <1>4, <1>5 DEF PNext

\* The session has begun with a request the service accepts.
AskFits ==
  /\ phase # "new" => /\ ask \in RpcPulls /\ PullCode(ask) = 0
                      /\ ask.chat = SessionChat /\ ask.reverse \in SessionDirections
  /\ phase = "new" => ask = None

\* While it waits its handler works for it.
ServerFits ==
  /\ server \in Handlers \union {None}
  /\ phase = "waiting" <=> server # None
  /\ server # None => /\ pc[server] \in PullSteps \union {"Reply"}
                      /\ req[server] = Prepared(ask)

SessionFits ==
  /\ phase \in {"new", "ready", "waiting", "done", "failed"}
  /\ got \in Seq(ChatMessages)
  /\ known \in SUBSET ChatMessages
  /\ retries \in 0 .. MaxRetries

PTypeInv == TypeInv /\ AskFits /\ ServerFits /\ SessionFits

(***************************************************************************)
(* The handler that serves the session keeps at it: its page comes from    *)
(* its query, or it fails.                                                 *)
(***************************************************************************)
Has(h) == pc[h] \in CacheSteps \/ (pc[h] = "Reply" /\ code[h] = 0)

PullGoesOn(h) ==
  /\ pc'[h] \in PullSteps \union {"Reply"} /\ req'[h] = req[h]
  /\ \/ Has(h)' => Has(h) /\ page'[h] = page[h]
     \/ PullQuery(h) /\ page'[h] \in Answers(req[h], hit[h])

LEMMA PullMoves ==
  ASSUME TypeInv, NEW h \in Handlers, pc[h] \in PullSteps \union {"Reply"}, NEW g \in Handlers,
         Request(g) \/ Serve(g) \/ Failure(g) \/ (h # g /\ Return(g))
  PROVE  PullGoesOn(h)
<1>. USE DEF PullGoesOn, Has, PullSteps, CacheSteps, TxSteps, TypeInv, TypeOK, Goto, Respond, frames
<1>1. CASE PullQuery(g)
  BY <1>1 DEF PullQuery, AfterOwn
<1>2. CASE h # g /\ Return(g)
  BY <1>2 DEF Return
<1>3. CASE PullAccepted(g) \/ PullRejected(g) \/ PullLookup(g) \/ PullFailed(g)
  BY <1>3 DEF PullAccepted, Accept, PullRejected, PullLookup, PullFailed
<1>4. CASE CursorStored(g) \/ CursorDuplicate(g) \/ CursorBlocked(g)
                               \/ CursorFailed(g)
  BY <1>4 DEF CursorStored, CursorDuplicate, CursorBlocked, CursorFailed, AfterInsert, AfterOwn
<1>5. CASE SendRejected(g) \/ SendAccepted(g) \/ SendCreate(g) \/ SendScan(g)
                               \/ SendLock(g) \/ SendDelete(g) \/ SendFailed(g)
  BY <1>5 DEF SendRejected, SendAccepted, SendCreate, SendScan, SendLock, SendDelete, SendFailed
<1>6. CASE SendCommit(g) \/ SendCommitLost(g)
  BY <1>6 DEF SendCommit, SendCommitLost, Committed
<1>. QED
  BY <1>1, <1>2, <1>3, <1>4, <1>5, <1>6 DEF Request, Serve, SendDeadlock, Failure

\* What a step is to the session: nothing but the progress of its handler,
Elsewhere ==
  /\ UNCHANGED session /\ [Next]_vars
  /\ server # None => PullGoesOn(server)

\* a failure of its pull,
Fails ==
  /\ server # None /\ Retry /\ UNCHANGED store
  /\ [Next]_vars

\* or one of its own steps.
LEMMA SessionMoves ==
  ASSUME PTypeInv, [PNext]_pvars
  PROVE  \/ Elsewhere
         \/ Begin
         \/ \E h \in Handlers : AskPage(h)
         \/ \E h \in Handlers : TakePage(h)
         \/ Fails
<1>. USE DEF PTypeInv, ServerFits
<1>1. ASSUME NEW g \in Handlers, Others(g) \/ Progress(g)
      PROVE  Elsewhere
  <2>1. [Next]_vars
    BY <1>1 DEF Others, Progress, Next, Work
  <2>2. server # None => PullGoesOn(server)
    BY <1>1, PullMoves DEF Others, Progress
  <2>. QED
    BY <1>1, <2>1, <2>2 DEF Elsewhere, Others, Progress
<1>2. CASE OtherCrash
  BY <1>2 DEF OtherCrash, Elsewhere, Next
<1>3. CASE UNCHANGED pvars
  BY <1>3 DEF pvars, vars, frames, session, Elsewhere, PullGoesOn, Has
<1>4. CASE ServerLost
  BY <1>4 DEF ServerLost, Fails, Crash, Next
<1>5. ASSUME NEW h \in Handlers, PullError(h)
      PROVE  Fails
  BY <1>5, SessionAssumption DEF PullError, Fails, Return, Next, Work
<1>. QED
  BY <1>1, <1>2, <1>3, <1>4, <1>5 DEF PNext

LEMMA AcceptFits ==
  ASSUME TypeInv, NEW h \in Handlers, Asked(h)
  PROVE  TypeInv'
<1>1. Prepared(ask) \in Pulls
  BY PreparedIsPull DEF Asked, Accept
<1>. QED
  BY <1>1 DEF Asked, Accept, Goto, TypeInv, TypeOK, FramesReady, FrameReady, store, counters,
     Steps, TxSteps, CacheSteps, PullSteps, HasMore

LEMMA PTypeInit == PInit => PTypeInv
<1>. SUFFICES ASSUME PInit PROVE PTypeInv
  OBVIOUS
<1>1. TypeInv
  BY TypeInit DEF PInit
<1>. QED
  BY <1>1, SessionAssumption DEF PInit, PTypeInv, AskFits, ServerFits, SessionFits

LEMMA PTypeStep ==
  ASSUME PTypeInv, [PNext]_pvars
  PROVE  PTypeInv'
<1>. USE DEF PTypeInv
<1>1. TypeInv'
  BY ServiceSteps, TypeStep, AcceptFits DEF AskFits
<1>2. CASE Elsewhere
  <2>1. UNCHANGED session /\ (server # None => PullGoesOn(server))
    BY <1>2 DEF Elsewhere
  <2>. QED
    BY <1>1, <2>1 DEF session, AskFits, ServerFits, SessionFits, PullGoesOn
<1>3. CASE Begin
  <2>1. known' \in SUBSET ChatMessages
    BY <1>3 DEF Begin, RowsOf, TypeInv, TypeOK
  <2>2. PICK l \in SessionLimits, r \in SessionDirections :
          ask' = [chat |-> SessionChat, cursor |-> 0, limit |-> l, reverse |-> r]
    BY <1>3 DEF Begin
  <2>3. ask' \in RpcPulls /\ PullCode(ask') = 0 /\ ask'.chat = SessionChat
        /\ ask'.reverse \in SessionDirections
    BY <2>2, SessionAssumption DEF RpcPulls, PullCode
  <2>. QED
    BY <1>1, <1>3, <2>1, <2>3 DEF Begin, AskFits, ServerFits, SessionFits, PullCode
<1>4. ASSUME NEW h \in Handlers, AskPage(h)
      PROVE  PTypeInv'
  BY <1>1, <1>4, SessionAssumption
  DEF AskPage, Accept, Goto, AskFits, ServerFits, SessionFits, PullSteps, PullCode, TypeInv, TypeOK
<1>5. ASSUME NEW h \in Handlers, TakePage(h)
      PROVE  PTypeInv'
  <2>1. server = h /\ server # None /\ req[h] = Prepared(ask) /\ Prepared(ask) \in Pulls
    BY <1>5, SessionAssumption, PreparedIsPull DEF TakePage, ServerFits, AskFits
  <2>2. Delivered(h) \in Seq(ChatMessages)
    BY <2>1, DeliveredFits
  <2>3. got' \in Seq(ChatMessages)
    BY <1>5, <2>2 DEF TakePage, SessionFits
  <2>4. NextCursor(req[h]) \in Nat
    BY <2>1 DEF NextCursor, Pulls
  <2>5. ask \in RpcPulls /\ PullCode(ask) = 0 /\ ask.chat = SessionChat
        /\ ask.reverse \in SessionDirections
    BY <2>1 DEF AskFits, ServerFits
  <2>6. ask' \in RpcPulls /\ PullCode(ask') = 0 /\ ask'.chat = SessionChat
        /\ ask'.reverse \in SessionDirections
    BY <1>5, <2>4, <2>5 DEF TakePage, RpcPulls, PullCode
  <2>. QED
    BY <1>1, <1>5, <2>1, <2>3, <2>6
    DEF TakePage, AskFits, ServerFits, SessionFits, PullCode
<1>6. CASE Fails
  BY <1>1, <1>6, SessionAssumption
  DEF Fails, Retry, AskFits, ServerFits, SessionFits, PullCode
<1>. QED
  BY <1>2, <1>3, <1>4, <1>5, <1>6, SessionMoves

(***************************************************************************)
(* The session keeps its types, and it waits exactly while a handler of    *)
(* the service works for it.                                               *)
(***************************************************************************)
THEOREM SessionTypes == PSpec => []PTypeOK
<1>1. PTypeInv => PTypeOK
  BY DEF PTypeInv, TypeInv, AskFits, ServerFits, SessionFits, PTypeOK
<1>2. PTypeInv /\ [PNext]_pvars => PTypeInv'
  BY PTypeStep
<1>. QED
  BY <1>1, <1>2, PTypeInit, PTL DEF PSpec

-----------------------------------------------------------------------------
(* The service under the session                                           *)

\* What the other modules prove of the cache.
CacheInv ==
  /\ TimesInv /\ HitsFit /\ NotAheadInv
  /\ Clock = "ordered" => OrderInv /\ SoundInv /\ ExactInv
  /\ OneAtATime => ReverseInv

\* A pull that is accepted holds nothing yet.
LEMMA AskKeeps ==
  ASSUME TypeInv, CacheInv, NEW h \in Handlers, Asked(h)
  PROVE  CacheInv'
<1>1. /\ messages' = messages /\ cursors' = cursors /\ row' = row /\ targets' = targets
      /\ hit' = hit /\ page' = page
      /\ pc[h] = "Idle" /\ pc'[h] \in {"Query", "Lookup"}
      /\ \A g \in Handlers \ {h} : pc'[g] = pc[g] /\ req'[g] = req[g]
  BY DEF Asked, Accept, Goto, store, TypeInv, TypeOK
<1>2. \A g \in Handlers : (InTx(g)' <=> InTx(g)) /\ (Own(g)' => Own(g) /\ g # h)
                          /\ (More(g)' => More(g) /\ g # h)
  BY <1>1 DEF InTx, TxSteps, Own, More, CacheSteps
<1>3. \A g \in Handlers \ {h} : OwnEntry(g)' = OwnEntry(g) /\ NextEntry(g)' = NextEntry(g)
  BY <1>1 DEF OwnEntry, NextEntry, NextCursor
<1>4. HitsFit' /\ hit'[h] = None
  BY <1>1 DEF CacheInv, HitsFit, TxSteps, CursorKey
<1>5. TimesInv'
  BY <1>1, <1>2 DEF CacheInv, TimesInv
<1>6. NotAheadInv'
  BY <1>1, <1>2, <1>3 DEF CacheInv, NotAheadInv, Behind
<1>7. OrderInv => OrderInv'
  BY <1>1, <1>2 DEF OrderInv
<1>8. SoundInv => SoundInv'
  BY <1>1 DEF SoundInv, CursorsSound, Sound, PagesStored, CacheSteps
<1>9. ExactInv => ExactInv'
  BY <1>1, <1>2, <1>3 DEF ExactInv, Exact
<1>10. ReverseInv => ReverseInv'
  BY <1>1, <1>2, <1>3, <1>4 DEF ReverseInv, HeldAtPlace, AtPlace, AllFound
<1>. QED
  BY <1>4, <1>5, <1>6, <1>7, <1>8, <1>9, <1>10 DEF CacheInv, OneAtATime

LEMMA CacheInvInit == PInit => CacheInv
  BY CacheInit, ReverseInit
  DEF PInit, Init, CacheInv, ExactInv, Own, More, SoundInv, CursorsSound, PagesStored, CacheSteps

LEMMA CacheInvStep ==
  ASSUME Clock # "any", PTypeInv, PTypeInv', CacheInv, [PNext]_pvars
  PROVE  CacheInv'
<1>1. CASE [Next]_vars
  <2>1. TypeInv /\ TypeInv'
    BY DEF PTypeInv
  <2>2. TimesInv' /\ HitsFit' /\ NotAheadInv'
    BY <1>1, <2>1, TimesStep, HitsStep, NotAheadStep DEF CacheInv
  <2>3. Clock = "ordered" => OrderInv' /\ SoundInv' /\ ExactInv'
    BY <1>1, <2>1, OrderStep, SoundStep, ExactStep DEF CacheInv
  <2>4. OneAtATime => ReverseInv'
    BY <1>1, <2>1, ReverseStep DEF CacheInv
  <2>. QED
    BY <2>2, <2>3, <2>4 DEF CacheInv, OneAtATime
<1>2. CASE \E h \in Handlers : Asked(h)
  BY <1>2, AskKeeps DEF PTypeInv
<1>. QED
  BY <1>1, <1>2, ServiceSteps DEF PTypeInv, AskFits

LEMMA SessionCache ==
  ASSUME Clock # "any"
  PROVE  PSpec => [](PTypeInv /\ CacheInv)
<1>1. PTypeInv /\ PTypeInv' /\ CacheInv /\ [PNext]_pvars => CacheInv'
  BY CacheInvStep
<1>2. PTypeInv /\ [PNext]_pvars => PTypeInv'
  BY PTypeStep
<1>. QED
  BY <1>1, <1>2, PTypeInit, CacheInvInit, PTL DEF PSpec

\* The rows the session reads, and the place of one of them.
Rows == RowsOf(SessionKey)

PlaceOf(m) == Rank(Rows, ask.reverse, m.sentAt)

\* The page its handler has read, what of it will be shown, what it says.
Holding   == server # None /\ Has(server)
Shown     == {Delivered(server)[i] : i \in DOMAIN Delivered(server)}
Continues == HasMore(req[server], page[server])
Going     == phase \in {"ready", "waiting"}

LEMMA RowsFit ==
  ASSUME TypeInv
  PROVE  /\ Rows \in SUBSET ChatMessages /\ IsFiniteSet(Rows) /\ Cardinality(Rows) \in Nat
         /\ TimesInv => DistinctTimes(Rows)
<1>1. Rows \in SUBSET ChatMessages /\ IsFiniteSet(Rows)
  BY FS_Subset DEF Rows, RowsOf, TypeInv, TypeOK
<1>. QED
  BY <1>1, FS_CardinalityType DEF Rows, RowsOf, TimesInv, DistinctTimes

\* No step but one of the service changes the rows, which only grow.
LEMMA RowsGrow ==
  ASSUME PTypeInv, PTypeInv', [PNext]_pvars
  PROVE  /\ Rows \subseteq Rows' /\ IsFiniteSet(Rows')
         /\ Cardinality(Rows) \in Nat /\ Cardinality(Rows') \in Nat
         /\ Cardinality(Rows) <= Cardinality(Rows')
         /\ Elsewhere \/ Rows' = Rows
<1>1. messages \subseteq messages'
  BY ServiceSteps, MessagesGrow DEF PTypeInv, AskFits, Asked, Accept, store
<1>2. Rows \subseteq Rows'
  BY <1>1 DEF Rows, RowsOf
<1>3. Rows' \subseteq messages' /\ IsFiniteSet(messages')
  BY DEF Rows, RowsOf, PTypeInv, TypeInv, TypeOK
<1>4. Elsewhere \/ messages' = messages
  BY SessionMoves DEF Begin, vars, AskPage, Accept, TakePage, Return, Fails, store
<1>5. IsFiniteSet(Rows')
  BY <1>3, FS_Subset
<1>6. /\ Cardinality(Rows) <= Cardinality(Rows')
      /\ Cardinality(Rows) \in Nat /\ Cardinality(Rows') \in Nat
  BY <1>2, <1>5, FS_Subset, FS_CardinalityType
<1>7. Elsewhere \/ Rows' = Rows
  BY <1>4 DEF Rows, RowsOf
<1>. QED
  BY <1>2, <1>5, <1>6, <1>7

\* The server's request is the session's.
LEMMA ServerAsks ==
  ASSUME PTypeInv, server # None
  PROVE  /\ server \in Handlers /\ phase = "waiting" /\ req[server] \in Pulls
         /\ req[server].chat = SessionKey /\ req[server].cursor = ask.cursor
         /\ req[server].reverse = ask.reverse /\ ask.reverse \in SessionDirections
         /\ req[server].limit \in Nat \ {0} /\ ask.cursor \in Nat /\ ask.reverse \in BOOLEAN
         /\ NextCursor(req[server]) = ask.cursor + req[server].limit
<1>1. /\ server \in Handlers /\ phase = "waiting" /\ req[server] = Prepared(ask)
      /\ ask \in RpcPulls /\ PullCode(ask) = 0 /\ ask.chat = SessionChat
      /\ ask.reverse \in SessionDirections
  BY DEF PTypeInv, ServerFits, AskFits
<1>2. Prepared(ask) \in Pulls
  BY <1>1, PreparedIsPull
<1>. QED
  BY <1>1, <1>2 DEF Prepared, SessionKey, Pulls, NextCursor

\* What is shown of a page.
LEMMA DeliveredIs ==
  ASSUME TypeInv, NEW h \in Handlers, req[h] \in Pulls
  PROVE  /\ Delivered(h) \in Seq(ChatMessages) /\ page[h] \in Seq(ChatMessages)
         /\ Len(Delivered(h)) = IF HasMore(req[h], page[h]) THEN req[h].limit ELSE Len(page[h])
         /\ \A i \in DOMAIN Delivered(h) : i \in DOMAIN page[h] /\ Delivered(h)[i] = page[h][i]
<1>1. page[h] \in Seq(ChatMessages) /\ req[h].limit \in Nat
  BY DEF TypeInv, TypeOK, Pulls
<1>2. CASE HasMore(req[h], page[h])
  <2>1. Delivered(h) = SubSeq(page[h], 1, req[h].limit) /\ req[h].limit < Len(page[h])
    BY <1>1, <1>2 DEF Delivered, Window, HasMore
  <2>. QED
    BY <1>1, <1>2, <2>1
<1>3. CASE ~ HasMore(req[h], page[h])
  <2>1. Delivered(h) = SubSeq(page[h], 1, Len(page[h]))
    BY <1>1, <1>3 DEF Delivered, Window, HasMore
  <2>. QED
    BY <1>1, <1>3, <2>1
<1>. QED
  BY <1>2, <1>3

\* What a step of the session does to its handler's page.
LEMMA PageMoves ==
  ASSUME PTypeInv, [PNext]_pvars, Holding'
  PROVE  /\ Elsewhere /\ server \in Handlers /\ server' = server
         /\ req'[server] = req[server] /\ ask' = ask /\ got' = got /\ known' = known
         /\ \/ Holding /\ page'[server] = page[server]
            \/ PullQuery(server) /\ page'[server] \in Answers(req[server], hit[server])
<1>1. CASE Elsewhere
  <2>1. server' = server /\ ask' = ask /\ got' = got /\ known' = known
    BY <1>1 DEF Elsewhere, session
  <2>2. server # None /\ Has(server)'
    BY <2>1 DEF Holding, Has
  <2>. QED
    BY <1>1, <2>1, <2>2 DEF Elsewhere, PullGoesOn, Holding, PTypeInv, ServerFits
<1>2. CASE Begin
  BY <1>2 DEF Begin, Holding, PTypeInv, ServerFits
<1>3. ASSUME NEW h \in Handlers, AskPage(h)
      PROVE  FALSE
  BY <1>3 DEF AskPage, Accept, Goto, Holding, Has, CacheSteps, PTypeInv, TypeInv, TypeOK
<1>4. CASE Fails \/ \E h \in Handlers : TakePage(h)
  BY <1>4 DEF Fails, Retry, TakePage, Holding
<1>. QED
  BY <1>1, <1>2, <1>3, <1>4, SessionMoves

-----------------------------------------------------------------------------
(* There is more to come                                                   *)

ComingInv ==
  /\ phase = "new" => got = << >>
  /\ Going => Len(got) <= ask.cursor
  /\ Going /\ ask.cursor > 0 => Cardinality(Rows) > ask.cursor
  /\ Holding /\ Continues => Cardinality(Rows) > NextCursor(req[server])

(***************************************************************************)
(* A query that returns more rows than the limit has not reached the last. *)
(***************************************************************************)
LEMMA MoreRows ==
  ASSUME PTypeInv, CacheInv, server # None, PullQuery(server),
         NEW p \in Answers(req[server], hit[server]), HasMore(req[server], p)
  PROVE  Cardinality(Rows) > NextCursor(req[server])
<1>. DEFINE r == req[server]
            e == hit[server]
            m == p[r.limit + 1]
<1>1. /\ server \in Handlers /\ r \in Pulls /\ r.chat = SessionKey /\ r.limit \in Nat \ {0}
      /\ r.cursor \in Nat /\ r.reverse \in BOOLEAN /\ NextCursor(r) = r.cursor + r.limit
  BY ServerAsks
<1>2. /\ messages \in SUBSET ChatMessages /\ IsFiniteSet(messages)
      /\ e \in ChatCursors \union {None} /\ pc[server] = "Query"
  BY <1>1 DEF PTypeInv, TypeInv, TypeOK, PullQuery
<1>3. /\ Rows \in SUBSET ChatMessages /\ IsFiniteSet(Rows) /\ Cardinality(Rows) \in Nat
      /\ DistinctTimes(RowsOf(r.chat)) /\ RowsOf(r.chat) = Rows
  BY <1>1, RowsFit DEF PTypeInv, CacheInv, Rows
<1>4. r.limit + 1 \in DOMAIN p
  <2>1. p \in Seq(messages)
    BY <1>1, <1>2, AnswersAreRows
  <2>. QED
    BY <1>1, <2>1 DEF HasMore
<1>. HIDE DEF r, e
<1>5. /\ m \in RowsOf(r.chat)
      /\ e = None => Rank(RowsOf(r.chat), r.reverse, m.sentAt) = r.cursor + (r.limit + 1) - 1
      /\ e # None => Rank(RowsOf(r.chat), r.reverse, m.sentAt)
                       = Rank(RowsOf(r.chat), r.reverse, e.sentAt) + (r.limit + 1) - 1
  BY <1>1, <1>2, <1>3, <1>4, RankInAnswer DEF r, e
<1>. HIDE DEF m
<1>6. Rank(Rows, r.reverse, m.sentAt) \in 0 .. (Cardinality(Rows) - 1)
  BY <1>1, <1>3, <1>5, RankBounds
<1>7. ASSUME e # None
      PROVE  /\ r.cursor <= Rank(Rows, r.reverse, e.sentAt)
             /\ Rank(Rows, r.reverse, e.sentAt) \in Nat
  <2>1. e.chat = r.chat /\ e.reverse = r.reverse /\ e.cursor = r.cursor
    BY <1>1, <1>2, <1>7 DEF CacheInv, HitsFit, CursorKey, e, r
  <2>2. Behind(messages, e)
    BY <1>1, <1>7 DEF CacheInv, NotAheadInv, e
  <2>3. r.cursor <= Rank(Rows, r.reverse, e.sentAt)
    BY <1>3, <2>1, <2>2 DEF Behind, Place, RowsOf
  <2>. QED
    BY <1>3, <2>3, RankGrows
<1>. QED
  BY <1>1, <1>3, <1>5, <1>6, <1>7 DEF r

LEMMA ComingStep ==
  ASSUME PTypeInv, PTypeInv', CacheInv, ComingInv, [PNext]_pvars
  PROVE  ComingInv'
<1>. USE DEF ComingInv, Going
<1>1. /\ Cardinality(Rows) <= Cardinality(Rows') /\ (Elsewhere \/ Rows' = Rows)
      /\ Cardinality(Rows) \in Nat /\ Cardinality(Rows') \in Nat
  BY RowsGrow
<1>2. Going => ask.cursor \in Int
  BY DEF PTypeInv, AskFits, RpcPulls
<1>3. ASSUME Holding', Continues'
      PROVE  Cardinality(Rows') > NextCursor(req[server])'
  <2>1. /\ server \in Handlers /\ server' = server /\ req'[server] = req[server]
        /\ \/ Holding /\ page'[server] = page[server]
           \/ PullQuery(server) /\ page'[server] \in Answers(req[server], hit[server])
    BY <1>3, PageMoves
  <2>2. server # None
    BY <1>3, <2>1 DEF Holding
  <2>3. NextCursor(req[server]) \in Nat /\ NextCursor(req[server])' = NextCursor(req[server])
        /\ HasMore(req[server], page'[server])
    BY <1>3, <2>1, <2>2, ServerAsks DEF Continues, NextCursor, HasMore
  <2>4. Cardinality(Rows) > NextCursor(req[server])
    <3>1. CASE Holding /\ page'[server] = page[server]
      BY <2>3, <3>1 DEF Continues
    <3>2. CASE PullQuery(server) /\ page'[server] \in Answers(req[server], hit[server])
      BY <2>2, <2>3, <3>2, MoreRows
    <3>. QED
      BY <2>1, <3>1, <3>2
  <2>. QED
    BY <1>1, <2>3, <2>4
<1>4. CASE Elsewhere
  BY <1>1, <1>2, <1>3, <1>4 DEF Elsewhere, session
<1>5. CASE Begin
  BY <1>3, <1>5 DEF Begin
<1>6. ASSUME NEW h \in Handlers, AskPage(h)
      PROVE  ComingInv'
  BY <1>1, <1>2, <1>3, <1>6 DEF AskPage
<1>7. ASSUME NEW h \in Handlers, TakePage(h)
      PROVE  ComingInv'
  <2>1. server = h /\ server # None /\ Holding
    BY <1>7, SessionAssumption DEF TakePage, Return, Holding, Has
  <2>2. /\ phase = "waiting" /\ NextCursor(req[h]) = ask.cursor + req[h].limit
        /\ req[h] \in Pulls /\ req[h].limit \in Nat /\ ask.cursor \in Nat
    BY <2>1, ServerAsks
  <2>3. CASE HasMore(req[h], page[h])
    <3>1. Len(Delivered(h)) = req[h].limit /\ Delivered(h) \in Seq(ChatMessages)
      BY <2>2, <2>3, DeliveredIs DEF PTypeInv
    <3>2. Len(got') = Len(got) + req[h].limit /\ Len(got) \in Nat
      <4>1. got' = got \o Delivered(h)
        BY <1>7 DEF TakePage
      <4>2. got \in Seq(ChatMessages)
        BY DEF PTypeInv, SessionFits
      <4>. QED
        BY <3>1, <4>1, <4>2
    <3>3. ask'.cursor = ask.cursor + req[h].limit /\ phase' = "ready"
      BY <1>7, <2>1, <2>2, <2>3 DEF TakePage, PTypeInv, AskFits, RpcPulls
    <3>4. Cardinality(Rows) > ask'.cursor
      BY <2>1, <2>2, <2>3, <3>3 DEF Continues
    <3>5. Rows' = Rows
      BY <1>7 DEF TakePage, Return, store, Rows, RowsOf
    <3>. QED
      BY <1>3, <2>2, <3>2, <3>3, <3>4, <3>5
  <2>4. CASE ~ HasMore(req[h], page[h])
    BY <1>3, <1>7, <2>4 DEF TakePage
  <2>. QED
    BY <2>3, <2>4
<1>8. CASE Fails
  <2>1. server # None /\ phase = "waiting"
    BY <1>8, ServerAsks DEF Fails
  <2>. QED
    BY <1>1, <1>2, <1>3, <1>8, <2>1 DEF Fails, Retry
<1>. QED
  BY <1>4, <1>5, <1>6, <1>7, <1>8, SessionMoves

(***************************************************************************)
(* Where send times are distinct, has_more tells the truth: whenever the   *)
(* session is to go on there is a message it has not received, in either   *)
(* direction, whatever others left in the cache and send meanwhile.        *)
(***************************************************************************)
THEOREM SessionHasMore ==
  ASSUME Clock # "any"
  PROVE  PSpec => []MoreToCome
<1>1. PTypeInv /\ ComingInv => MoreToCome
  <2>. SUFFICES ASSUME PTypeInv, ComingInv, phase = "ready", ask.cursor > 0,
                       Rows \subseteq Received
                PROVE  FALSE
    BY DEF MoreToCome, Rows
  <2>1. got \in Seq(ChatMessages) /\ Len(got) \in Nat /\ DOMAIN got = 1 .. Len(got)
    BY DEF PTypeInv, SessionFits
  <2>2. IsFiniteSet(1 .. Len(got)) /\ Cardinality(1 .. Len(got)) = Len(got)
    <3>1. ASSUME NEW n \in Nat
          PROVE  IsFiniteSet(1 .. n) /\ Cardinality(1 .. n) = n
      BY FS_Interval
    <3>. QED
      BY <2>1, <3>1
  <2>3. got \in Surjection(1 .. Len(got), Received)
    <3>1. got \in [1 .. Len(got) -> Received]
      <4>1. got = [i \in 1 .. Len(got) |-> got[i]]
        BY <2>1
      <4>2. \A i \in 1 .. Len(got) : got[i] \in Received
        BY <2>1 DEF Received
      <4>. QED
        BY <4>1, <4>2
    <3>2. \A m \in Received : \E i \in 1 .. Len(got) : got[i] = m
      BY <2>1 DEF Received
    <3>. QED
      BY <3>1, <3>2 DEF Surjection
  <2>4. IsFiniteSet(Received) /\ Cardinality(Received) <= Len(got)
    BY <2>2, <2>3, FS_Surjection
  <2>5. Cardinality(Rows) <= Cardinality(Received)
    BY <2>4, FS_Subset
  <2>6. Cardinality(Rows) \in Nat /\ Cardinality(Received) \in Nat
    BY <2>4, RowsFit, FS_CardinalityType DEF PTypeInv
  <2>7. ask.cursor \in Int /\ Len(got) <= ask.cursor /\ Cardinality(Rows) > ask.cursor
    BY DEF ComingInv, Going, PTypeInv, AskFits, RpcPulls
  <2>. QED
    BY <2>1, <2>4, <2>5, <2>6, <2>7
<1>2. PInit => ComingInv
  BY DEF PInit, ComingInv, Going, Holding
<1>3. PTypeInv /\ PTypeInv' /\ CacheInv /\ ComingInv /\ [PNext]_pvars => ComingInv'
  BY ComingStep
<1>. QED
  BY <1>1, <1>2, <1>3, SessionCache, PTL DEF PSpec

-----------------------------------------------------------------------------
(* Nothing is missed                                                       *)

\* What the cursors of the session's directions need to be exact: send times
\* in the order of the commits forward, one request at a time backward.
Faithful ==
  /\ Clock # "any"
  /\ FALSE \in SessionDirections => Clock = "ordered"
  /\ TRUE \in SessionDirections => OneAtATime

\* The session's query returns what it would return without a cache.
LEMMA SessionPage ==
  ASSUME Faithful, PTypeInv, CacheInv, server # None, PullQuery(server)
  PROVE  page'[server] \in Find(Rows, ask.reverse, ask.cursor, req[server].limit + 1)
<1>1. /\ server \in Handlers /\ ask.reverse \in SessionDirections /\ ask.reverse \in BOOLEAN
      /\ req[server].chat = SessionKey /\ req[server].cursor = ask.cursor
      /\ req[server].reverse = ask.reverse
  BY ServerAsks
<1>2. pc[server] = "Query" /\ (hit[server] # None => hit[server].reverse = ask.reverse)
  BY <1>1 DEF CacheInv, HitsFit, CursorKey, PullQuery
<1>3. ASSUME hit[server] # None, ask.reverse = FALSE
      PROVE  hit[server].cursor = Place(messages, hit[server])
  <2>1. ExactInv
    BY <1>1, <1>3 DEF Faithful, CacheInv
  <2>. QED
    BY <1>1, <1>2, <1>3, <2>1 DEF ExactInv, Exact
<1>4. ASSUME hit[server] # None, ask.reverse = TRUE
      PROVE  hit[server].cursor = Place(messages, hit[server])
  <2>1. ReverseInv
    BY <1>1, <1>4 DEF Faithful, CacheInv
  <2>. QED
    BY <1>1, <1>2, <1>4, <2>1 DEF ReverseInv, HeldAtPlace, AtPlace
<1>5. hit[server] # None => hit[server].cursor = Place(messages, hit[server])
  BY <1>1, <1>3, <1>4
<1>6. page'[server] \in Answers(req[server], None)
  BY <1>1, <1>5, ExactIsTransparent DEF PTypeInv, CacheInv
<1>. QED
  BY <1>1, <1>6 DEF Answers, Rows

(***************************************************************************)
(* A row from place offset on is in the page the query returns, unless it  *)
(* comes after the limit: the page then says that there is more.           *)
(***************************************************************************)
LEMMA PageCovers ==
  ASSUME NEW rows \in SUBSET ChatMessages, IsFiniteSet(rows), DistinctTimes(rows),
         NEW reverse \in BOOLEAN, NEW offset \in Nat, NEW limit \in Nat,
         NEW p \in Find(rows, reverse, offset, limit + 1),
         NEW m \in rows, Rank(rows, reverse, m.sentAt) >= offset
  PROVE  \/ \E i \in DOMAIN p : i <= limit /\ p[i] = m
         \/ Len(p) > limit /\ Rank(rows, reverse, m.sentAt) >= offset + limit
<1>. DEFINE N == Cardinality(rows)
<1>1. PICK s \in Orderings(rows, reverse) : p = Window(s, offset, limit + 1)
  BY DEF Find
<1>2. N \in Nat /\ s \in [1 .. N -> rows]
  BY <1>1, OrderingCovers
<1>3. PICK k \in 1 .. N : s[k] = m
  BY <1>1, OrderingCovers
<1>4. Rank(rows, reverse, m.sentAt) = k - 1
  BY <1>1, <1>2, <1>3, RankInOrdering
<1>. HIDE DEF N
<1>5. s \in Seq(rows) /\ Len(s) = N /\ DOMAIN s = 1 .. N
  BY <1>2
<1>6. k \in Nat /\ k <= N /\ k - 1 >= offset
  BY <1>2, <1>3, <1>4
<1>7. CASE k - offset <= limit
  <2>1. k - offset \in DOMAIN p /\ p[k - offset] = s[k]
    <3>1. CASE offset + (limit + 1) < N
      BY <1>1, <1>2, <1>5, <1>6, <1>7, <3>1 DEF Window
    <3>2. CASE ~ (offset + (limit + 1) < N)
      BY <1>1, <1>2, <1>5, <1>6, <1>7, <3>2 DEF Window
    <3>. QED
      BY <3>1, <3>2
  <2>. QED
    BY <1>3, <1>7, <2>1
<1>8. CASE ~ (k - offset <= limit)
  <2>1. offset + limit + 1 <= N /\ k - 1 >= offset + limit
    BY <1>2, <1>6, <1>8
  <2>2. Len(p) = limit + 1
    <3>1. CASE offset + (limit + 1) < N
      BY <1>1, <1>2, <1>5, <3>1 DEF Window
    <3>2. CASE ~ (offset + (limit + 1) < N)
      BY <1>1, <1>2, <1>5, <2>1, <3>2 DEF Window
    <3>. QED
      BY <3>1, <3>2
  <2>. QED
    BY <1>4, <2>1, <2>2
<1>. QED
  BY <1>7, <1>8

\* No row of the chat comes to an earlier place.
LEMMA PlacesGrow ==
  ASSUME PTypeInv, PTypeInv', [PNext]_pvars, NEW reverse, NEW t
  PROVE  /\ Rank(Rows, reverse, t) \in Nat /\ Rank(Rows', reverse, t) \in Nat
         /\ Rank(Rows, reverse, t) <= Rank(Rows', reverse, t)
  BY RowsGrow, RankGrows

\* A message known from the start is received, or is still to be read.
MissedInv ==
  /\ known \subseteq Rows
  /\ Going => \A m \in known : m \in Received \/ PlaceOf(m) >= ask.cursor
  /\ Holding => \A m \in known :
       m \in Received \union Shown \/ (Continues /\ PlaceOf(m) >= NextCursor(req[server]))
  /\ phase = "done" => known \subseteq Received

LEMMA MissedPage ==
  ASSUME Faithful, PTypeInv, CacheInv, MissedInv, server # None, PullQuery(server),
         NEW m \in known
  PROVE  \/ m \in Received
         \/ \E i \in DOMAIN page'[server] : i <= req[server].limit /\ page'[server][i] = m
         \/ HasMore(req[server], page'[server]) /\ PlaceOf(m) >= NextCursor(req[server])
<1>1. /\ phase = "waiting" /\ req[server].limit \in Nat /\ ask.cursor \in Nat
      /\ ask.reverse \in BOOLEAN /\ NextCursor(req[server]) = ask.cursor + req[server].limit
  BY ServerAsks
<1>2. m \in Rows /\ (m \in Received \/ PlaceOf(m) >= ask.cursor)
  BY <1>1 DEF MissedInv, Going
<1>3. Rows \in SUBSET ChatMessages /\ IsFiniteSet(Rows) /\ DistinctTimes(Rows)
  BY RowsFit DEF PTypeInv, CacheInv
<1>4. page'[server] \in Find(Rows, ask.reverse, ask.cursor, req[server].limit + 1)
  BY SessionPage
<1>. DEFINE p == page'[server]
            limit == req[server].limit
<1>5. ASSUME PlaceOf(m) >= ask.cursor
      PROVE  \/ \E i \in DOMAIN p : i <= limit /\ p[i] = m
             \/ Len(p) > limit /\ PlaceOf(m) >= ask.cursor + limit
  BY <1>1, <1>2, <1>3, <1>4, <1>5, PageCovers DEF PlaceOf
<1>. QED
  BY <1>1, <1>2, <1>5 DEF HasMore

LEMMA MissedStep ==
  ASSUME Faithful, PTypeInv, PTypeInv', CacheInv, MissedInv, [PNext]_pvars
  PROVE  MissedInv'
<1>. USE DEF MissedInv, Going
<1>1. Rows \subseteq Rows' /\ (Elsewhere \/ Rows' = Rows)
  BY RowsGrow
<1>2. \A r, t : /\ Rank(Rows, r, t) \in Nat /\ Rank(Rows', r, t) \in Nat
                /\ Rank(Rows, r, t) <= Rank(Rows', r, t)
  BY PlacesGrow
<1>3. Going => ask.cursor \in Int
  BY DEF PTypeInv, AskFits, RpcPulls
<1>4. ASSUME Holding', NEW m \in known'
      PROVE  m \in (Received \union Shown)'
             \/ (Continues' /\ PlaceOf(m)' >= NextCursor(req[server])')
  <2>1. /\ server \in Handlers /\ server' = server /\ req'[server] = req[server]
        /\ ask' = ask /\ got' = got /\ known' = known /\ server # None
        /\ \/ Holding /\ page'[server] = page[server]
           \/ PullQuery(server)
    BY <1>4, PageMoves DEF Holding
  <2>2. NextCursor(req[server]) \in Nat /\ NextCursor(req[server])' = NextCursor(req[server])
        /\ ask'.reverse = ask.reverse /\ req'[server].limit = req[server].limit
    BY <2>1, ServerAsks DEF NextCursor
  <2>3. /\ PlaceOf(m) \in Nat /\ PlaceOf(m)' \in Nat /\ PlaceOf(m) <= PlaceOf(m)'
    BY <1>2, <2>2 DEF PlaceOf
  <2>4. Received' = Received
    BY <2>1 DEF Received
  <2>5. CASE Holding /\ page'[server] = page[server]
    <3>1. Shown' = Shown /\ Continues' = Continues
      BY <2>1, <2>5 DEF Shown, Delivered, Continues, HasMore
    <3>. QED
      BY <2>1, <2>2, <2>3, <2>4, <2>5, <3>1
  <2>6. CASE PullQuery(server)
    <3>1. \/ m \in Received
          \/ \E i \in DOMAIN page'[server] : i <= req[server].limit /\ page'[server][i] = m
          \/ HasMore(req[server], page'[server]) /\ PlaceOf(m) >= NextCursor(req[server])
      BY <2>1, <2>6, MissedPage
    <3>2. Continues' = HasMore(req[server], page'[server])
      BY <2>1 DEF Continues, HasMore
    <3>3. (\E i \in DOMAIN page'[server] : i <= req[server].limit /\ page'[server][i] = m)
            => m \in Shown'
      <4>1. ASSUME NEW i \in DOMAIN page'[server], i <= req[server].limit,
                   page'[server][i] = m
            PROVE  m \in Shown'
        <5>1. /\ req[server] \in Pulls /\ req[server].limit \in Nat \ {0} /\ req'[server] = req[server]
              /\ server \in Handlers /\ page'[server] \in Seq(ChatMessages)
          BY <2>1, ServerAsks DEF PTypeInv, TypeInv, TypeOK
        <5>2. i \in DOMAIN Delivered(server)' /\ Delivered(server)'[i] = m
          BY <2>1, <4>1, <5>1 DEF Delivered, Window
        <5>. QED
          BY <2>1, <5>2 DEF Shown
      <4>. QED
        BY <4>1
    <3>. QED
      BY <2>2, <2>3, <2>4, <3>1, <3>2, <3>3
  <2>. QED
    BY <2>1, <2>5, <2>6
<1>5. CASE Elsewhere
  <2>1. UNCHANGED session
    BY <1>5 DEF Elsewhere
  <2>2. \A m : PlaceOf(m) \in Nat /\ PlaceOf(m)' \in Nat /\ PlaceOf(m) <= PlaceOf(m)'
    BY <1>2, <2>1 DEF PlaceOf, session
  <2>3. known' \subseteq Rows' /\ Received' = Received /\ known' = known
        /\ phase' = phase /\ ask' = ask
    BY <1>1, <2>1 DEF session, Received
  <2>4. Going' => \A m \in known' : m \in Received' \/ PlaceOf(m)' >= ask'.cursor
    BY <1>3, <2>2, <2>3
  <2>. QED
    BY <1>4, <2>3, <2>4
<1>6. CASE Begin
  <2>1. known' = Rows /\ ask'.cursor = 0 /\ phase' = "ready"
    BY <1>6 DEF Begin, Rows
  <2>2. \A m : PlaceOf(m)' >= 0
    BY <1>2 DEF PlaceOf
  <2>. QED
    BY <1>1, <1>4, <2>1, <2>2
<1>7. ASSUME NEW h \in Handlers, AskPage(h) \/ Fails
      PROVE  MissedInv'
  <2>1. /\ known' = known /\ ask' = ask /\ got' = got /\ Rows' = Rows /\ Going
        /\ phase' # "done"
    BY <1>1, <1>7, ServerAsks DEF AskPage, Fails, Retry, Accept, store, Rows, RowsOf
  <2>2. Received' = Received /\ \A m : PlaceOf(m)' = PlaceOf(m)
    BY <2>1 DEF Received, PlaceOf
  <2>. QED
    BY <1>4, <2>1, <2>2
<1>8. ASSUME NEW h \in Handlers, TakePage(h)
      PROVE  MissedInv'
  <2>1. server = h /\ server # None /\ Holding
    BY <1>8, SessionAssumption DEF TakePage, Return, Holding, Has
  <2>2. /\ phase = "waiting" /\ req[h] \in Pulls /\ ask \in RpcPulls
    BY <2>1, ServerAsks DEF PTypeInv, AskFits
  <2>3. known' = known /\ Rows' = Rows
    BY <1>8 DEF TakePage, Return, store, Rows, RowsOf
  <2>4. Received' = Received \union Shown
    <3>1. got' = got \o Delivered(h)
      BY <1>8 DEF TakePage
    <3>2. got \in Seq(ChatMessages) /\ Delivered(h) \in Seq(ChatMessages)
      BY <2>1, <2>2, DeliveredIs DEF PTypeInv, SessionFits
    <3>. HIDE <1>8
    <3>3. \A i \in DOMAIN got : i \in DOMAIN got' /\ got'[i] = got[i]
      BY <3>1, <3>2
    <3>4. \A i \in DOMAIN Delivered(h) :
            Len(got) + i \in DOMAIN got' /\ got'[Len(got) + i] = Delivered(h)[i]
      BY <3>1, <3>2
    <3>5. \A i \in DOMAIN got' :
            \/ i \in DOMAIN got /\ got'[i] = got[i]
            \/ i - Len(got) \in DOMAIN Delivered(h) /\ got'[i] = Delivered(h)[i - Len(got)]
      BY <3>1, <3>2
    <3>. QED
      BY <2>1, <3>3, <3>4, <3>5 DEF Received, Shown
  <2>5. CASE HasMore(req[h], page[h])
    <3>1. ask'.cursor = NextCursor(req[h]) /\ ask'.reverse = ask.reverse /\ phase' = "ready"
      BY <1>8, <2>2, <2>5 DEF TakePage, RpcPulls
    <3>2. \A m : PlaceOf(m)' = PlaceOf(m)
      BY <2>3, <3>1 DEF PlaceOf
    <3>. QED
      BY <1>4, <2>1, <2>3, <2>4, <3>1, <3>2
  <2>6. CASE ~ HasMore(req[h], page[h])
    <3>1. phase' = "done"
      BY <1>8, <2>6 DEF TakePage
    <3>2. known' \subseteq Received'
      BY <2>1, <2>3, <2>4, <2>6 DEF Continues
    <3>. QED
      BY <1>4, <2>3, <3>1, <3>2
  <2>. QED
    BY <2>5, <2>6
<1>. QED
  BY <1>5, <1>6, <1>7, <1>8, SessionMoves DEF Fails, PTypeInv, ServerFits

(***************************************************************************)
(* Where the cursors of its directions are exact, a session that follows   *)
(* next_cursor to the end has received every message stored when it began, *)
(* whatever is sent, pulled, failed and retried meanwhile.                 *)
(***************************************************************************)
THEOREM SessionMissesNothing ==
  ASSUME Faithful
  PROVE  PSpec => []NothingMissed
<1>1. PInit => MissedInv
  BY DEF PInit, MissedInv, Going, Holding
<1>2. PTypeInv /\ PTypeInv' /\ CacheInv /\ MissedInv /\ [PNext]_pvars => MissedInv'
  BY MissedStep
<1>3. MissedInv => NothingMissed
  BY DEF MissedInv, NothingMissed
<1>4. PSpec => [](PTypeInv /\ CacheInv)
  BY SessionCache DEF Faithful
<1>. QED
  BY <1>1, <1>2, <1>3, <1>4, PTL DEF PSpec

-----------------------------------------------------------------------------
(* In order, once                                                          *)

\* m is the n-th of the rows in the order of the pull.
Nth(rows, reverse, m, n) == m \in rows /\ Rank(rows, reverse, m.sentAt) = n - 1

\* The n-th comes before those behind it, and is none of them.
LEMMA NthOrders ==
  ASSUME NEW rows \in SUBSET ChatMessages, IsFiniteSet(rows), NEW reverse \in BOOLEAN,
         NEW i \in Nat, NEW j \in Nat, i < j,
         NEW m, NEW n, Nth(rows, reverse, m, i), Nth(rows, reverse, n, j)
  PROVE  m # n /\ ~ Precedes(reverse, n.sentAt, m.sentAt)
<1>1. /\ m \in rows /\ n \in rows /\ Rank(rows, reverse, m.sentAt) = i - 1
      /\ Rank(rows, reverse, n.sentAt) = j - 1
  BY DEF Nth
<1>2. Rank(rows, reverse, m.sentAt) < Rank(rows, reverse, n.sentAt)
      /\ ~ (Rank(rows, reverse, n.sentAt) < Rank(rows, reverse, m.sentAt))
  BY <1>1
<1>. QED
  BY <1>1, <1>2, RankOrders

\* Forward it stays so: what is sent later comes behind it.
LEMMA PlacesStay ==
  ASSUME Clock = "ordered", PTypeInv, PTypeInv', CacheInv, [PNext]_pvars, NEW m, NEW n,
         NEW reverse \in BOOLEAN, ~ reverse, Nth(Rows, reverse, m, n)
  PROVE  Nth(Rows', reverse, m, n)
<1>1. Rows \subseteq Rows' /\ (Elsewhere \/ Rows' = Rows)
  BY RowsGrow
<1>2. CASE Rows' = Rows
  BY <1>2
<1>3. CASE Elsewhere
  <2>. DEFINE e == ToChatCursor(m, reverse, 0)
  <2>1. [Next]_vars /\ TypeInv /\ OrderInv
    BY <1>3 DEF Elsewhere, PTypeInv, CacheInv
  <2>2. m \in messages /\ m \in ChatMessages /\ m.chat = SessionKey
    BY DEF Nth, Rows, RowsOf, PTypeInv, TypeInv, TypeOK
  <2>3. e \in ChatCursors /\ ~ e.reverse /\ e.chat = SessionKey /\ e.sentAt = m.sentAt
    BY <2>2 DEF ToChatCursor, ChatCursors, ChatMessages
  <2>4. Sound(e)
    BY <2>2, <2>3 DEF Sound
  <2>5. Place(messages', e) = Place(messages, e)
    BY <2>1, <2>3, <2>4, ForwardPlaceStays
  <2>6. e.reverse = reverse
    BY DEF ToChatCursor
  <2>. QED
    BY <1>1, <2>3, <2>5, <2>6 DEF Place, Nth, Rows, RowsOf
<1>. QED
  BY <1>1, <1>2, <1>3

\* The i-th message received is the i-th of the chat, and the page that is
\* read goes on where the session is.
OrderedInv ==
  /\ phase = "new" => got = << >>
  /\ \A i \in DOMAIN got : Nth(Rows, ask.reverse, got[i], i)
  /\ Going => Len(got) = ask.cursor
  /\ Holding => \A i \in DOMAIN page[server] :
       Nth(Rows, ask.reverse, page[server][i], ask.cursor + i)

LEMMA OrderedStep ==
  ASSUME Clock = "ordered", SessionDirections \subseteq {FALSE},
         PTypeInv, PTypeInv', CacheInv, OrderedInv, [PNext]_pvars
  PROVE  OrderedInv'
<1>. USE DEF OrderedInv, Going
<1>1. phase # "new" => \A m, n : Nth(Rows, ask.reverse, m, n) => Nth(Rows', ask.reverse, m, n)
  BY PlacesStay DEF PTypeInv, AskFits
<1>2. ASSUME Holding', NEW i \in DOMAIN page'[server']
      PROVE  Nth(Rows', ask'.reverse, page'[server'][i], ask'.cursor + i)
  <2>1. /\ server \in Handlers /\ server' = server /\ ask' = ask /\ server # None
        /\ phase # "new"
        /\ \/ Holding /\ page'[server] = page[server]
           \/ PullQuery(server)
    BY <1>2, PageMoves, ServerAsks DEF Holding
  <2>. DEFINE m == page'[server][i]
  <2>2. CASE Holding /\ page'[server] = page[server]
    BY <1>1, <1>2, <2>1, <2>2
  <2>3. CASE PullQuery(server)
    <3>1. /\ req[server].limit \in Nat \ {0} /\ ask.cursor \in Nat /\ ask.reverse \in BOOLEAN
      BY <2>1, ServerAsks
    <3>2. page'[server] \in Find(Rows, ask.reverse, ask.cursor, req[server].limit + 1)
      BY <2>1, <2>3, <3>1, SessionPage DEF Faithful
    <3>3. Rows \in SUBSET ChatMessages /\ IsFiniteSet(Rows) /\ DistinctTimes(Rows)
      BY RowsFit DEF PTypeInv, CacheInv
    <3>4. req[server].limit + 1 \in Nat
      BY <3>1
    <3>5. m \in Rows /\ Rank(Rows, ask.reverse, m.sentAt) = ask.cursor + i - 1
      <4>1. i \in DOMAIN page'[server]
        BY <1>2, <2>1
      <4>. QED
        BY <3>1, <3>2, <3>3, <3>4, <4>1, RankInFind
    <3>6. i \in Nat
      BY <1>2, <2>1 DEF PTypeInv, TypeInv, TypeOK
    <3>7. ask.cursor + i - 1 = (ask.cursor + i) - 1
      BY <3>1, <3>6
    <3>8. Nth(Rows, ask.reverse, m, ask.cursor + i)
      BY <3>5, <3>7 DEF Nth
    <3>. QED
      BY <1>1, <2>1, <3>8
  <2>. QED
    BY <2>1, <2>2, <2>3
<1>3. ASSUME got' = got, ask' = ask
      PROVE  \A i \in DOMAIN got' : Nth(Rows', ask'.reverse, got'[i], i)
  BY <1>1, <1>3
<1>4. CASE Elsewhere
  BY <1>2, <1>3, <1>4 DEF Elsewhere, session
<1>5. CASE Begin
  BY <1>2, <1>5 DEF Begin
<1>6. ASSUME NEW h \in Handlers, AskPage(h) \/ Fails
      PROVE  OrderedInv'
  BY <1>2, <1>3, <1>6, ServerAsks DEF AskPage, Fails, Retry
<1>7. ASSUME NEW h \in Handlers, TakePage(h)
      PROVE  OrderedInv'
  <2>1. server = h /\ server # None /\ Holding
    BY <1>7, SessionAssumption DEF TakePage, Return, Holding, Has
  <2>2. /\ phase = "waiting" /\ req[h] \in Pulls /\ req[h].limit \in Nat /\ ask \in RpcPulls
        /\ ask.cursor \in Nat /\ NextCursor(req[h]) = ask.cursor + req[h].limit
    BY <2>1, ServerAsks DEF PTypeInv, AskFits
  <2>3. /\ got \in Seq(ChatMessages) /\ Delivered(h) \in Seq(ChatMessages)
        /\ Len(Delivered(h)) = IF HasMore(req[h], page[h]) THEN req[h].limit
                               ELSE Len(page[h])
        /\ \A i \in DOMAIN Delivered(h) : i \in DOMAIN page[h] /\ Delivered(h)[i] = page[h][i]
    BY <2>1, <2>2, DeliveredIs DEF PTypeInv, SessionFits
  <2>4. got' = got \o Delivered(h) /\ phase' # "new"
    BY <1>7 DEF TakePage
  <2>5. \A i \in DOMAIN got' :
          \/ i \in DOMAIN got /\ got'[i] = got[i]
          \/ i - Len(got) \in DOMAIN Delivered(h) /\ got'[i] = Delivered(h)[i - Len(got)]
    BY <2>3, <2>4
  <2>6. ASSUME NEW i \in DOMAIN got'
        PROVE  Nth(Rows, ask.reverse, got'[i], i)
    <3>1. CASE i \in DOMAIN got /\ got'[i] = got[i]
      BY <3>1
    <3>2. CASE i - Len(got) \in DOMAIN Delivered(h)
               /\ got'[i] = Delivered(h)[i - Len(got)]
      <4>1. Nth(Rows, ask.reverse, got'[i], ask.cursor + (i - Len(got)))
        BY <2>1, <2>3, <3>2
      <4>2. Len(got) = ask.cursor /\ i \in Nat
        BY <2>2, <2>3, <2>4
      <4>. QED
        BY <2>2, <4>1, <4>2
    <3>. QED
      BY <2>5, <3>1, <3>2
  <2>7. \A i \in DOMAIN got' : Nth(Rows', ask'.reverse, got'[i], i)
    <3>1. ask'.reverse = ask.reverse
      BY <1>7, <2>2 DEF TakePage, RpcPulls
    <3>. QED
      BY <1>1, <2>2, <2>6, <3>1
  <2>8. Going' => Len(got') = ask'.cursor
    <3>1. CASE HasMore(req[h], page[h])
      <4>1. ask'.cursor = NextCursor(req[h])
        BY <1>7, <2>2, <3>1 DEF TakePage, RpcPulls
      <4>2. Len(Delivered(h)) = req[h].limit
        BY <2>3, <3>1
      <4>3. Len(got') = Len(got) + Len(Delivered(h))
        <5>1. got' = got \o Delivered(h)
          BY <2>4
        <5>2. got \in Seq(ChatMessages) /\ Delivered(h) \in Seq(ChatMessages)
          BY <2>3
        <5>. QED
          BY <5>1, <5>2
      <4>. QED
        BY <2>2, <4>1, <4>2, <4>3
    <3>2. CASE ~ HasMore(req[h], page[h])
      BY <1>7, <3>2 DEF TakePage
    <3>. QED
      BY <3>1, <3>2
  <2>. QED
    BY <1>2, <2>4, <2>7, <2>8
<1>. QED
  BY <1>4, <1>5, <1>6, <1>7, SessionMoves DEF Fails, PTypeInv, ServerFits

(***************************************************************************)
(* While messages are stored in the order of their send times, a session   *)
(* that reads a chat forward receives its messages in their order, each    *)
(* once: the i-th it receives is the i-th of the chat.                     *)
(***************************************************************************)
THEOREM SessionInOrderOnce ==
  ASSUME Clock = "ordered", SessionDirections \subseteq {FALSE}
  PROVE  PSpec => []InOrderOnce
<1>1. PTypeInv /\ OrderedInv => InOrderOnce
  <2>. SUFFICES ASSUME PTypeInv, OrderedInv, NEW i \in DOMAIN got, NEW j \in DOMAIN got, i < j
                PROVE  /\ got[i] # got[j]
                       /\ ~ Precedes(ask.reverse, got[j].sentAt, got[i].sentAt)
    BY DEF InOrderOnce
  <2>1. Nth(Rows, ask.reverse, got[i], i) /\ Nth(Rows, ask.reverse, got[j], j)
    BY DEF OrderedInv
  <2>2. i \in Nat /\ j \in Nat /\ got # << >>
    BY DEF PTypeInv, SessionFits
  <2>3. Rows \in SUBSET ChatMessages /\ IsFiniteSet(Rows)
    BY RowsFit DEF PTypeInv
  <2>4. ask.reverse \in BOOLEAN
    BY <2>2 DEF PTypeInv, AskFits, OrderedInv
  <2>. QED
    BY <2>1, <2>2, <2>3, <2>4, NthOrders
<1>2. PInit => OrderedInv
  BY DEF PInit, OrderedInv, Going, Holding
<1>3. PTypeInv /\ PTypeInv' /\ CacheInv /\ OrderedInv /\ [PNext]_pvars => OrderedInv'
  BY OrderedStep
<1>4. PSpec => [](PTypeInv /\ CacheInv)
  BY SessionCache
<1>. QED
  BY <1>1, <1>2, <1>3, <1>4, PTL DEF PSpec

-----------------------------------------------------------------------------
(* The cache under the session                                             *)

(***************************************************************************)
(* The client that reads page by page does the cache no harm: the cursors  *)
(* it leaves with the others' are exact, forward where messages are stored *)
(* in the order of their send times, ...                                   *)
(***************************************************************************)
THEOREM SessionForwardExact ==
  ASSUME Clock = "ordered"
  PROVE  PSpec => []ForwardCursorsExact
<1>1. CacheInv => ForwardCursorsExact
  BY DEF CacheInv, ExactInv, Exact, Place, ForwardCursorsExact, PositionOf, RowsOf
<1>2. PSpec => [](PTypeInv /\ CacheInv)
  BY SessionCache
<1>. QED
  BY <1>1, <1>2, PTL

(***************************************************************************)
(* ... and reverse where requests are served one at a time.                *)
(***************************************************************************)
THEOREM SessionReverseExact ==
  ASSUME Clock # "any", OneAtATime
  PROVE  PSpec => []ReverseCursorsExact
<1>1. CacheInv => ReverseCursorsExact
  BY DEF CacheInv, ReverseInv, AtPlace, Place, ReverseCursorsExact, PositionOf, RowsOf
<1>. QED
  BY <1>1, SessionCache, PTL

\* In a session, too, a page comes from a query.
LEMMA SessionQueries ==
  ASSUME PTypeInv, [PNext]_pvars, NEW h \in Handlers,
         pc[h] = "Query", pc'[h] \notin {"Query", "Idle"}, code'[h] = 0
  PROVE  PullQuery(h)
<1>1. CASE [Next]_vars
  BY <1>1, OnlyQueries DEF PTypeInv
<1>2. ASSUME NEW g \in Handlers, Asked(g)
      PROVE  FALSE
  BY <1>2 DEF Asked, Accept, Goto, PTypeInv, TypeInv, TypeOK
<1>. QED
  BY <1>1, <1>2, ServiceSteps DEF PTypeInv, AskFits

(***************************************************************************)
(* And so no page of the session, nor of any pull beside it, depends on    *)
(* whether its cursor was cached: forward where messages are stored in the *)
(* order of their send times, ...                                          *)
(***************************************************************************)
THEOREM SessionForwardTransparent ==
  ASSUME Clock = "ordered"
  PROVE  PSpec => ForwardTransparent
<1>. DEFINE Same == \A h \in Handlers : req[h] # None /\ ~ req[h].reverse => SamePage(h)
<1>1. PTypeInv /\ CacheInv /\ [PNext]_pvars => [Same]_vars
  <2>. SUFFICES ASSUME PTypeInv, CacheInv, [PNext]_pvars, NEW h \in Handlers, ~ req[h].reverse,
                       pc[h] = "Query", pc'[h] \notin {"Query", "Idle"}, code'[h] = 0
                PROVE  page'[h] \in Answers(req[h], None)
    BY DEF SamePage
  <2>1. PullQuery(h)
    BY SessionQueries
  <2>2. hit[h] # None => hit[h].cursor = Place(messages, hit[h])
    BY DEF CacheInv, ExactInv, Exact, HitsFit, CursorKey
  <2>. QED
    BY <2>1, <2>2, ExactIsTransparent DEF PTypeInv, CacheInv
<1>2. PSpec => [](PTypeInv /\ CacheInv)
  BY SessionCache
<1>. QED
  BY <1>1, <1>2, PTL DEF PSpec, ForwardTransparent

(***************************************************************************)
(* ... and reverse where requests are served one at a time.                *)
(***************************************************************************)
THEOREM SessionReverseTransparent ==
  ASSUME Clock # "any", OneAtATime
  PROVE  PSpec => ReverseTransparent
<1>. DEFINE Same == \A h \in Handlers : req[h] # None /\ req[h].reverse => SamePage(h)
<1>1. PTypeInv /\ CacheInv /\ [PNext]_pvars => [Same]_vars
  <2>. SUFFICES ASSUME PTypeInv, CacheInv, [PNext]_pvars, NEW h \in Handlers, req[h].reverse,
                       pc[h] = "Query", pc'[h] \notin {"Query", "Idle"}, code'[h] = 0
                PROVE  page'[h] \in Answers(req[h], None)
    BY DEF SamePage
  <2>1. PullQuery(h)
    BY SessionQueries
  <2>2. hit[h] # None => hit[h].cursor = Place(messages, hit[h])
    BY DEF CacheInv, ReverseInv, HeldAtPlace, AtPlace, HitsFit, CursorKey
  <2>. QED
    BY <2>1, <2>2, ExactIsTransparent DEF PTypeInv, CacheInv
<1>2. PSpec => [](PTypeInv /\ CacheInv)
  BY SessionCache
<1>. QED
  BY <1>1, <1>2, PTL DEF PSpec, ReverseTransparent

=============================================================================
