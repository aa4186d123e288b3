------------------------ MODULE IMServiceCache_proofs ------------------------
(***************************************************************************)
(* How the cursors of the cache relate to the positions they stand for,    *)
(* for any handlers, requests and bounds.                                  *)
(***************************************************************************)
EXTENDS IMService_proofs

\* No two of the rows were sent at the same time.
DistinctTimes(rows) == \A m, n \in rows : m.sentAt = n.sentAt => m = n

-----------------------------------------------------------------------------
(* Ranks in the answer of a query                                          *)

(***************************************************************************)
(* An ordering shows every row, each at one place.                         *)
(***************************************************************************)
LEMMA OrderingCovers ==
  ASSUME NEW rows, IsFiniteSet(rows), NEW reverse, NEW s \in Orderings(rows, reverse)
  PROVE  /\ Cardinality(rows) \in Nat /\ s \in [1 .. Cardinality(rows) -> rows]
         /\ \A m \in rows : \E i \in 1 .. Cardinality(rows) : s[i] = m
<1>. DEFINE N == Cardinality(rows)
<1>1. N \in Nat /\ s \in [1 .. N -> rows] /\ \A i, j \in 1 .. N : s[i] = s[j] => i = j
  BY FS_CardinalityType DEF Orderings
<1>2. IsFiniteSet(1 .. N) /\ Cardinality(1 .. N) = N
  BY <1>1, FS_Interval
<1>3. s \in Injection(1 .. N, rows)
  BY <1>1 DEF Injection, IsInjective
<1>4. s \in Surjection(1 .. N, rows)
  BY <1>2, <1>3, FS_Injection
<1>. QED
  BY <1>1, <1>4 DEF Surjection

(***************************************************************************)
(* Among rows with distinct times, the one that ORDER BY puts at place k   *)
(* has exactly k - 1 before it.                                            *)
(***************************************************************************)
LEMMA RankInOrdering ==
  ASSUME NEW rows \in SUBSET ChatMessages, IsFiniteSet(rows), DistinctTimes(rows),
         NEW reverse \in BOOLEAN, NEW s \in Orderings(rows, reverse),
         NEW k \in DOMAIN s
  PROVE  Rank(rows, reverse, s[k].sentAt) = k - 1
<1>. DEFINE Before == {m \in rows : Precedes(reverse, m.sentAt, s[k].sentAt)}
            front  == [i \in 1 .. (k - 1) |-> s[i]]
            N      == Cardinality(rows)
<1>1. N \in Nat /\ s \in [1 .. N -> rows] /\ k \in 1 .. N
  BY FS_CardinalityType DEF Orderings
<1>2. /\ \A i, j \in 1 .. N : s[i] = s[j] => i = j
      /\ \A i, j \in 1 .. N : i < j => ~ Precedes(reverse, s[j].sentAt, s[i].sentAt)
  BY <1>1 DEF Orderings
<1>3. \A i \in 1 .. N : s[i] \in rows /\ s[i].sentAt \in Nat
  BY <1>1 DEF ChatMessages
<1>4. \A i, j \in 1 .. N : i < j => Precedes(reverse, s[i].sentAt, s[j].sentAt)
  <2>. SUFFICES ASSUME NEW i \in 1 .. N, NEW j \in 1 .. N, i < j
                PROVE  Precedes(reverse, s[i].sentAt, s[j].sentAt)
    OBVIOUS
  <2>1. s[i].sentAt # s[j].sentAt
    BY <1>2, <1>3 DEF DistinctTimes
  <2>2. ~ Precedes(reverse, s[j].sentAt, s[i].sentAt)
    BY <1>2
  <2>. QED
    BY <1>3, <2>1, <2>2 DEF Precedes
<1>5. \A m \in rows : \E i \in 1 .. N : s[i] = m
  BY <1>1, OrderingCovers
<1>6. \A m \in Before : \E i \in 1 .. (k - 1) : front[i] = m
  <2>. SUFFICES ASSUME NEW m \in Before PROVE \E i \in 1 .. (k - 1) : front[i] = m
    OBVIOUS
  <2>1. PICK i \in 1 .. N : s[i] = m
    BY <1>5
  <2>2. i # k /\ ~ (k < i)
    BY <1>1, <1>3, <1>4, <2>1 DEF Precedes
  <2>3. i \in 1 .. (k - 1)
    BY <1>1, <2>2
  <2>. QED
    BY <2>1, <2>3
<1>7. front \in [1 .. (k - 1) -> Before]
  BY <1>1, <1>3, <1>4
<1>8. front \in Bijection(1 .. (k - 1), Before)
  <2>1. \A i, j \in 1 .. (k - 1) : front[i] = front[j] => i = j
    BY <1>1, <1>2
  <2>. HIDE DEF front, Before
  <2>2. front \in Injection(1 .. (k - 1), Before)
    BY <1>7, <2>1 DEF Injection, IsInjective
  <2>3. front \in Surjection(1 .. (k - 1), Before)
    BY <1>6, <1>7 DEF Surjection
  <2>. QED
    BY <2>2, <2>3 DEF Bijection
<1>9. Cardinality(1 .. (k - 1)) = k - 1 /\ IsFiniteSet(1 .. (k - 1))
  <2>1. 1 \in Int /\ k - 1 \in Int /\ ~ (k - 1 < 0)
    BY <1>1
  <2>2. /\ IsFiniteSet(1 .. (k - 1))
        /\ Cardinality(1 .. (k - 1)) = IF 1 > k - 1 THEN 0 ELSE (k - 1) - 1 + 1
    BY <2>1, FS_Interval
  <2>. QED
    BY <2>1, <2>2
<1>10. Cardinality(Before) = k - 1
  BY <1>8, <1>9, FS_Bijection DEF ExistsBijection
<1>. QED
  BY <1>10 DEF Rank

(***************************************************************************)
(* The rows before x are the rows before t and, from t on, those before x. *)
(***************************************************************************)
LEMMA RankSplits ==
  ASSUME NEW rows \in SUBSET ChatMessages, IsFiniteSet(rows),
         NEW reverse \in BOOLEAN, NEW t \in Nat, NEW u \in Nat,
         ~ Precedes(reverse, u, t)
  PROVE  LET part == {m \in rows : ~ Precedes(reverse, m.sentAt, t)}
         IN  Rank(rows, reverse, u) = Rank(rows, reverse, t) + Rank(part, reverse, u)
<1>. DEFINE part == {m \in rows : ~ Precedes(reverse, m.sentAt, t)}
            A == {m \in rows : Precedes(reverse, m.sentAt, t)}
            B == {m \in part : Precedes(reverse, m.sentAt, u)}
            C == {m \in rows : Precedes(reverse, m.sentAt, u)}
<1>1. \A m \in rows : m.sentAt \in Nat
  BY DEF ChatMessages
<1>2. C = A \union B
  BY <1>1 DEF Precedes
<1>3. A \intersect B = {}
  OBVIOUS
<1>4. IsFiniteSet(A) /\ IsFiniteSet(B)
  BY FS_Subset
<1>5. Cardinality(A) \in Nat /\ Cardinality(B) \in Nat
  BY <1>4, FS_CardinalityType
<1>6. Cardinality(A \union B) = Cardinality(A) + Cardinality(B) - Cardinality(A \intersect B)
  BY <1>4, FS_Union
<1>. HIDE DEF A, B, C
<1>7. Cardinality(C) = Cardinality(A) + Cardinality(B)
  <2>1. Cardinality(A \intersect B) = 0
    BY <1>3, FS_EmptySet
  <2>. QED
    BY <1>2, <1>5, <1>6, <2>1
<1>. QED
  BY <1>7 DEF Rank, A, B, C

(***************************************************************************)
(* The i-th row of a page is at place offset + i of the order.             *)
(***************************************************************************)
LEMMA RankInFind ==
  ASSUME NEW rows \in SUBSET ChatMessages, IsFiniteSet(rows), DistinctTimes(rows),
         NEW reverse \in BOOLEAN, NEW offset \in Nat, NEW count \in Nat,
         NEW p \in Find(rows, reverse, offset, count), NEW i \in DOMAIN p
  PROVE  /\ p[i] \in rows
         /\ Rank(rows, reverse, p[i].sentAt) = offset + i - 1
<1>1. PICK s \in Orderings(rows, reverse) : p = Window(s, offset, count)
  BY DEF Find
<1>2. Cardinality(rows) \in Nat
  BY FS_CardinalityType
<1>3. s \in Seq(rows) /\ DOMAIN s = 1 .. Len(s) /\ Len(s) \in Nat
  BY <1>1, <1>2 DEF Orderings
<1>4. offset + i \in DOMAIN s /\ p[i] = s[offset + i] /\ i \in Nat
  <2>1. CASE offset + count < Len(s)
    BY <1>1, <1>3, <2>1 DEF Window
  <2>2. CASE ~ (offset + count < Len(s))
    BY <1>1, <1>3, <2>2 DEF Window
  <2>. QED
    BY <2>1, <2>2
<1>5. Rank(rows, reverse, s[offset + i].sentAt) = offset + i - 1
  BY <1>4, RankInOrdering
<1>. QED
  BY <1>3, <1>4, <1>5

(***************************************************************************)
(* The i-th row of the page a query returns: at place cursor + i without a *)
(* cached cursor, i - 1 places after the cached send time with one.        *)
(***************************************************************************)
LEMMA RankInAnswer ==
  ASSUME NEW r \in Pulls, NEW cached \in ChatCursors \union {None},
         messages \in SUBSET ChatMessages, IsFiniteSet(messages),
         DistinctTimes(RowsOf(r.chat)),
         NEW p \in Answers(r, cached), NEW i \in DOMAIN p
  PROVE  /\ p[i] \in RowsOf(r.chat)
         /\ cached = None =>
              Rank(RowsOf(r.chat), r.reverse, p[i].sentAt) = r.cursor + i - 1
         /\ cached # None =>
              Rank(RowsOf(r.chat), r.reverse, p[i].sentAt)
                = Rank(RowsOf(r.chat), r.reverse, cached.sentAt) + i - 1
<1>. DEFINE rows == RowsOf(r.chat)
<1>1. rows \in SUBSET ChatMessages /\ IsFiniteSet(rows)
  BY FS_Subset DEF RowsOf
<1>2. r.cursor \in Nat /\ r.limit + 1 \in Nat /\ r.reverse \in BOOLEAN
  BY DEF Pulls
<1>3. DistinctTimes(rows)
  OBVIOUS
<1>. HIDE DEF rows
<1>4. CASE cached = None
  <2>1. p \in Find(rows, r.reverse, r.cursor, r.limit + 1)
    BY <1>4 DEF Answers, rows
  <2>2. p[i] \in rows /\ Rank(rows, r.reverse, p[i].sentAt) = r.cursor + i - 1
    BY <1>1, <1>2, <1>3, <2>1, RankInFind
  <2>. QED
    BY <1>4, <2>2 DEF rows
<1>5. CASE cached # None
  <2>. DEFINE t == cached.sentAt
              part == {m \in rows : ~ Precedes(r.reverse, m.sentAt, t)}
  <2>1. t \in Nat
    BY <1>5 DEF ChatCursors
  <2>2. part \in SUBSET ChatMessages /\ IsFiniteSet(part) /\ DistinctTimes(part)
    BY <1>1, <1>3, FS_Subset DEF DistinctTimes
  <2>3. p \in Find(part, r.reverse, 0, r.limit + 1)
    BY <1>5 DEF Answers, RowsFrom, rows
  <2>. HIDE DEF part, t
  <2>4. p[i] \in part /\ Rank(part, r.reverse, p[i].sentAt) = 0 + i - 1
    BY <1>2, <2>2, <2>3, RankInFind
  <2>5. p[i] \in rows /\ p[i].sentAt \in Nat /\ ~ Precedes(r.reverse, p[i].sentAt, t)
    BY <1>1, <2>4 DEF part, ChatMessages
  <2>6. Rank(rows, r.reverse, p[i].sentAt)
          = Rank(rows, r.reverse, t) + Rank(part, r.reverse, p[i].sentAt)
    BY <1>1, <1>2, <2>1, <2>5, RankSplits DEF part
  <2>7. Rank(rows, r.reverse, t) \in Nat
    <3>1. IsFiniteSet({m \in rows : Precedes(r.reverse, m.sentAt, t)})
      BY <1>1, FS_Subset
    <3>. QED
      BY <3>1, FS_CardinalityType DEF Rank
  <2>8. i \in Nat
    <3>1. p \in Seq(part)
      BY <1>2, <2>2, <2>3, FindReturnsRows
    <3>. QED
      BY <3>1
  <2>9. Rank(rows, r.reverse, p[i].sentAt) = Rank(rows, r.reverse, t) + i - 1
    BY <2>4, <2>6, <2>7, <2>8
  <2>. QED
    BY <1>5, <2>5, <2>9 DEF rows, t
<1>. QED
  BY <1>4, <1>5

(***************************************************************************)
(* The number of rows before a given time never shrinks as rows are added. *)
(***************************************************************************)
LEMMA RankGrows ==
  ASSUME NEW rows, NEW more, rows \subseteq more, IsFiniteSet(more),
         NEW reverse, NEW t
  PROVE  /\ Rank(rows, reverse, t) \in Nat /\ Rank(more, reverse, t) \in Nat
         /\ Rank(rows, reverse, t) <= Rank(more, reverse, t)
<1>. DEFINE A == {m \in rows : Precedes(reverse, m.sentAt, t)}
            B == {m \in more : Precedes(reverse, m.sentAt, t)}
<1>1. A \subseteq B /\ B \subseteq more
  OBVIOUS
<1>2. IsFiniteSet(B)
  BY <1>1, FS_Subset
<1>3. IsFiniteSet(A) /\ Cardinality(A) <= Cardinality(B)
  BY <1>1, <1>2, FS_Subset
<1>4. Cardinality(A) \in Nat /\ Cardinality(B) \in Nat
  BY <1>2, <1>3, FS_CardinalityType
<1>. QED
  BY <1>3, <1>4 DEF Rank

\* PositionOf with the rows as a parameter: where e stands among the rows.
Place(rows, e) == Rank({m \in rows : m.chat = e.chat}, e.reverse, e.sentAt)

-----------------------------------------------------------------------------
(* What the senders' clocks guarantee of stored and of pending rows        *)

InTx(h) == pc[h] \in TxSteps

\* Committed and pending rows of a chat have different times.
TimesInv ==
  /\ \A m, n \in messages : m.chat = n.chat /\ m.sentAt = n.sentAt => m = n
  /\ \A h \in Handlers : InTx(h) =>
       \A m \in messages : m.chat = row[h].chat => m.sentAt # row[h].sentAt
  /\ \A g, h \in Handlers : InTx(g) /\ InTx(h) /\ g # h =>
       ~ (row[g].chat = row[h].chat /\ row[g].sentAt = row[h].sentAt)

\* A pending row is the only one of its chat, and later than the stored ones.
OrderInv ==
  /\ \A h \in Handlers : InTx(h) =>
       \A m \in messages : m.chat = row[h].chat => m.sentAt < row[h].sentAt
  /\ \A g, h \in Handlers : InTx(g) /\ InTx(h) /\ g # h => row[g].chat # row[h].chat

\* A row becomes pending when h accepts message m.
Enters(h, m) ==
  /\ ~ InTx(h) /\ Admits(m)
  /\ messages' = messages
  /\ row'[h].chat = NormalisedChatId(m.chat) /\ row'[h].sentAt = m.sendTime
  /\ \A g \in Handlers \ {h} : pc'[g] = pc[g] /\ row'[g] = row[g]

\* A pending row is committed.
Leaves(h) ==
  /\ InTx(h) /\ pc'[h] \notin TxSteps
  /\ messages' = messages \union {row[h]}
  /\ row' = row
  /\ \A g \in Handlers \ {h} : pc'[g] = pc[g]

\* Nothing becomes pending and nothing is committed.
Stays ==
  /\ messages' = messages
  /\ \A h \in Handlers : pc'[h] \in TxSteps => InTx(h) /\ row'[h] = row[h]

LEMMA RowSteps ==
  ASSUME TypeInv, [Next]_vars
  PROVE  \/ \E h \in Handlers, m \in SendRequests : Enters(h, m)
         \/ \E h \in Handlers : Leaves(h)
         \/ Stays
<1>. USE DEF TypeInv, TypeOK, InTx, TxSteps, CacheSteps, Goto, Respond, store, frames
<1>1. CASE \E h \in Handlers : SendAccepted(h)
  <2>1. PICK h \in Handlers, m \in SendRequests :
          /\ SendAccepted(h) /\ Admits(m)
          /\ row' = [row EXCEPT ![h] = ToChatMessage(m, sends + 1)]
    BY <1>1 DEF SendAccepted
  <2>2. Enters(h, m)
    BY <2>1 DEF SendAccepted, Enters, ToChatMessage
  <2>. QED
    BY <2>2
<1>2. CASE \E h \in Handlers : SendCommit(h) \/ SendCommitLost(h)
  BY <1>2 DEF SendCommit, SendCommitLost, Committed, Leaves
<1>3. CASE \E h \in Handlers : SendRejected(h) \/ SendCreate(h) \/ SendScan(h)
                               \/ SendLock(h) \/ SendDelete(h) \/ SendFailed(h)
  BY <1>3 DEF SendRejected, SendCreate, SendScan, SendLock, SendDelete, SendFailed, Stays
<1>4. CASE \E h \in Handlers : PullAccepted(h) \/ PullRejected(h) \/ PullLookup(h)
                               \/ PullQuery(h) \/ PullFailed(h)
  BY <1>4 DEF PullAccepted, Accept, PullRejected, PullLookup, PullQuery, PullFailed,
              AfterOwn, Stays
<1>5. CASE \E h \in Handlers : CursorStored(h) \/ CursorDuplicate(h) \/ CursorBlocked(h)
                               \/ CursorFailed(h)
  BY <1>5 DEF CursorStored, CursorDuplicate, CursorBlocked, CursorFailed, AfterInsert,
              AfterOwn, Stays
<1>6. CASE (\E h \in Handlers : Return(h)) \/ Crash
  BY <1>6 DEF Return, Crash, Stays
<1>7. CASE UNCHANGED vars
  BY <1>7 DEF vars, Stays
<1>. QED
  BY <1>1, <1>2, <1>3, <1>4, <1>5, <1>6, <1>7 DEF Next, Request, Work, Serve, SendDeadlock, Failure

LEMMA TimesStep ==
  ASSUME Clock # "any", TypeInv, TimesInv, [Next]_vars
  PROVE  TimesInv'
<1>1. ASSUME NEW h \in Handlers, NEW m \in SendRequests, Enters(h, m)
      PROVE  TimesInv'
  <2>1. /\ \A n \in messages : n.chat = row'[h].chat => n.sentAt # row'[h].sentAt
        /\ \A g \in Handlers : InTx(g) /\ row[g].chat = row'[h].chat
                                 => row[g].sentAt # row'[h].sentAt
    BY <1>1 DEF Enters, Admits, RowsOf, Pending, InTx
  <2>. QED
    BY <1>1, <2>1 DEF Enters, TimesInv, InTx
<1>2. ASSUME NEW h \in Handlers, Leaves(h)
      PROVE  TimesInv'
  BY <1>2 DEF Leaves, TimesInv, InTx
<1>3. CASE Stays
  BY <1>3 DEF Stays, TimesInv, InTx
<1>. QED
  BY <1>1, <1>2, <1>3, RowSteps

LEMMA OrderStep ==
  ASSUME Clock = "ordered", TypeInv, OrderInv, [Next]_vars
  PROVE  OrderInv'
<1>1. ASSUME NEW h \in Handlers, NEW m \in SendRequests, Enters(h, m)
      PROVE  OrderInv'
  <2>1. /\ \A n \in messages : n.chat = row'[h].chat => n.sentAt < row'[h].sentAt
        /\ \A g \in Handlers : InTx(g) => row[g].chat # row'[h].chat
    BY <1>1 DEF Enters, Admits, RowsOf, Pending, InTx
  <2>. QED
    BY <1>1, <2>1 DEF Enters, OrderInv, InTx
<1>2. ASSUME NEW h \in Handlers, Leaves(h)
      PROVE  OrderInv'
  BY <1>2 DEF Leaves, OrderInv, InTx
<1>3. CASE Stays
  BY <1>3 DEF Stays, OrderInv, InTx
<1>. QED
  BY <1>1, <1>2, <1>3, RowSteps

-----------------------------------------------------------------------------
(* The cursors a Pull reads and those it is about to insert                *)

OwnEntry(h)  == ToChatCursor(page[h][1], req[h].reverse, req[h].cursor)
NextEntry(h) == ToChatCursor(page[h][req[h].limit + 1], req[h].reverse, NextCursor(req[h]))

Own(h)  == pc[h] \in {"Own", "OwnWait"}
More(h) == pc[h] \in CacheSteps /\ HasMore(req[h], page[h])

\* The cursor a Pull found has the key it looked for.
HitsFit ==
  \A h \in Handlers :
    /\ pc[h] = "Query" /\ hit[h] # None =>
         CursorKey(hit[h]) = <<req[h].chat, req[h].reverse, req[h].cursor>>
    /\ pc[h] \in {"Idle", "Lookup"} \union TxSteps => hit[h] = None

LEMMA HitsStep ==
  ASSUME TypeInv, HitsFit, [Next]_vars
  PROVE  HitsFit'
<1>. USE DEF TypeInv, TypeOK, HitsFit, TxSteps, CacheSteps, Goto, Respond, frames
<1>1. CASE \E h \in Handlers : PullLookup(h)
  <2>. PICK h \in Handlers : PullLookup(h)
    BY <1>1
  <2>1. hit'[h] = None \/ CursorKey(hit'[h]) = <<req[h].chat, req[h].reverse, req[h].cursor>>
    BY DEF PullLookup
  <2>. QED
    BY <2>1 DEF PullLookup, CursorKey
<1>2. CASE \E h \in Handlers : PullAccepted(h) \/ PullRejected(h) \/ PullQuery(h) \/ PullFailed(h)
  BY <1>2 DEF PullAccepted, Accept, PullRejected, PullQuery, PullFailed, AfterOwn, CursorKey
<1>3. CASE \E h \in Handlers : SendRejected(h) \/ SendAccepted(h) \/ SendCreate(h) \/ SendScan(h)
                               \/ SendLock(h) \/ SendDelete(h) \/ SendFailed(h)
  BY <1>3 DEF SendRejected, SendAccepted, SendCreate, SendScan, SendLock, SendDelete, SendFailed, CursorKey
<1>4. CASE \E h \in Handlers : SendCommit(h) \/ SendCommitLost(h)
  BY <1>4 DEF SendCommit, SendCommitLost, Committed, CursorKey
<1>5. CASE \E h \in Handlers : CursorStored(h) \/ CursorDuplicate(h) \/ CursorBlocked(h)
                               \/ CursorFailed(h)
  BY <1>5 DEF CursorStored, CursorDuplicate, CursorBlocked, CursorFailed, AfterInsert,
              AfterOwn, CursorKey
<1>6. CASE \E h \in Handlers : Return(h)
  BY <1>6 DEF Return, CursorKey
<1>7. CASE Crash
  BY <1>7 DEF Crash, CursorKey
<1>8. CASE UNCHANGED vars
  BY <1>8 DEF vars, CursorKey
<1>. QED
  BY <1>1, <1>2, <1>3, <1>4, <1>5, <1>6, <1>7, <1>8 DEF Next, Request, Work, Serve, SendDeadlock, Failure

(***************************************************************************)
(* The inserted entry is one of the two, and both are cursors.             *)
(***************************************************************************)
LEMMA EntryCases ==
  ASSUME TypeInv, NEW h \in Handlers
  PROVE  /\ Own(h) => OwnEntry(h) \in ChatCursors
         /\ More(h) => NextEntry(h) \in ChatCursors
         /\ pc[h] \in CacheSteps => \/ Own(h) /\ Entry(h) = OwnEntry(h)
                                    \/ More(h) /\ Entry(h) = NextEntry(h)
<1>1. pc[h] \in CacheSteps => req[h] \in Pulls /\ page[h] \in Seq(ChatMessages)
  BY DEF TypeInv, TypeOK, FramesReady, FrameReady, PullSteps
<1>2. Own(h) => page[h][1] \in ChatMessages
  BY <1>1 DEF TypeInv, FramesReady, FrameReady, Own, CacheSteps
<1>3. More(h) => page[h][req[h].limit + 1] \in ChatMessages
  BY <1>1 DEF More, HasMore, Pulls
<1>4. pc[h] \in CacheSteps => \/ Own(h) /\ Entry(h) = OwnEntry(h)
                              \/ More(h) /\ Entry(h) = NextEntry(h)
  BY DEF CacheSteps, Own, More, OwnEntry, NextEntry, Entry, TypeInv, FramesReady, FrameReady
<1>5. Own(h) => OwnEntry(h) \in ChatCursors
  BY <1>1, <1>2
  DEF OwnEntry, Own, CacheSteps, ToChatCursor, ChatCursors, ChatMessages, Pulls
<1>6. ASSUME More(h)
      PROVE  NextEntry(h) \in ChatCursors
  <2>1. req[h].reverse \in BOOLEAN /\ NextCursor(req[h]) \in Nat
    BY <1>1, <1>6 DEF More, NextCursor, Pulls
  <2>2. page[h][req[h].limit + 1] \in ChatMessages
    BY <1>3, <1>6
  <2>. QED
    BY <2>1, <2>2 DEF NextEntry, ToChatCursor, ChatCursors, ChatMessages
<1>. QED
  BY <1>4, <1>5, <1>6

(***************************************************************************)
(* When its query answers, a Pull without cached cursor has the very rows  *)
(* at its positions; with one, rows as far on as the cached cursor is.     *)
(***************************************************************************)
LEMMA QueryPositions ==
  ASSUME TypeInv, TypeInv', TimesInv, HitsFit, NEW h \in Handlers, PullQuery(h),
         page'[h] \in Answers(req[h], hit[h])
  PROVE  /\ Own(h)' => Place(messages, OwnEntry(h)') = req[h].cursor
         /\ More(h)' => Place(messages, NextEntry(h)')
                          = (IF hit[h] = None THEN req[h].cursor ELSE Place(messages, hit[h]))
                            + req[h].limit
<1>. DEFINE r == req[h]
            p == page'[h]
<1>1. /\ r \in Pulls /\ hit[h] \in ChatCursors \union {None} /\ req'[h] = r
      /\ messages \in SUBSET ChatMessages /\ IsFiniteSet(messages)
      /\ p \in Seq(ChatMessages) /\ r.limit \in Nat \ {0} /\ r.cursor \in Nat
  BY DEF PullQuery, TypeInv, TypeOK, FramesReady, FrameReady, PullSteps, frames, Pulls
<1>2. DistinctTimes(RowsOf(r.chat))
  BY DEF TimesInv, DistinctTimes, RowsOf
<1>3. \A i \in DOMAIN p :
        /\ p[i].chat = r.chat
        /\ hit[h] = None => Rank(RowsOf(r.chat), r.reverse, p[i].sentAt) = r.cursor + i - 1
        /\ hit[h] # None => Rank(RowsOf(r.chat), r.reverse, p[i].sentAt)
                              = Rank(RowsOf(r.chat), r.reverse, hit[h].sentAt) + i - 1
  <2>. SUFFICES ASSUME NEW i \in DOMAIN p
                PROVE  /\ p[i] \in RowsOf(r.chat)
                       /\ hit[h] = None =>
                            Rank(RowsOf(r.chat), r.reverse, p[i].sentAt) = r.cursor + i - 1
                       /\ hit[h] # None =>
                            Rank(RowsOf(r.chat), r.reverse, p[i].sentAt)
                              = Rank(RowsOf(r.chat), r.reverse, hit[h].sentAt) + i - 1
    BY DEF RowsOf
  <2>1. p \in Answers(r, hit[h])
    OBVIOUS
  <2>. HIDE DEF p, r
  <2>. QED
    BY <1>1, <1>2, <2>1, RankInAnswer
<1>4. hit[h] # None => Place(messages, hit[h]) = Rank(RowsOf(r.chat), r.reverse, hit[h].sentAt)
  BY DEF PullQuery, HitsFit, CursorKey, Place, RowsOf
<1>5. hit[h] # None => Place(messages, hit[h]) \in Nat
  <2>1. RowsOf(r.chat) \subseteq RowsOf(r.chat) /\ IsFiniteSet(RowsOf(r.chat))
    BY <1>1, FS_Subset DEF RowsOf
  <2>. QED
    BY <1>4, <2>1, RankGrows
<1>6. ASSUME Own(h)' PROVE Place(messages, OwnEntry(h)') = r.cursor
  <2>1. hit[h] = None /\ p # << >>
    BY <1>1, <1>6 DEF PullQuery, Own, Goto, AfterOwn, TypeInv, TypeOK, FramesReady, FrameReady
  <2>2. 1 \in DOMAIN p
    BY <1>1, <2>1
  <2>3. Place(messages, OwnEntry(h)') = Rank(RowsOf(r.chat), r.reverse, p[1].sentAt)
    BY <1>1, <1>3, <2>2 DEF OwnEntry, ToChatCursor, Place, RowsOf
  <2>. QED
    BY <1>1, <1>3, <2>1, <2>2, <2>3
<1>7. ASSUME More(h)'
      PROVE  Place(messages, NextEntry(h)')
               = (IF hit[h] = None THEN r.cursor ELSE Place(messages, hit[h])) + r.limit
  <2>1. r.limit + 1 \in DOMAIN p
    BY <1>1, <1>7 DEF More, HasMore
  <2>2. Place(messages, NextEntry(h)') = Rank(RowsOf(r.chat), r.reverse, p[r.limit + 1].sentAt)
    BY <1>1, <1>3, <2>1 DEF NextEntry, ToChatCursor, Place, RowsOf
  <2>. QED
    BY <1>1, <1>3, <1>4, <1>5, <2>1, <2>2
<1>. QED
  BY <1>6, <1>7

-----------------------------------------------------------------------------
(* No cursor is ahead of its position                                      *)

Behind(rows, e) == e.cursor <= Place(rows, e)

NotAheadInv ==
  /\ \A e \in cursors : Behind(messages, e)
  /\ \A h \in Handlers :
       /\ hit[h] # None => Behind(messages, hit[h])
       /\ Own(h) => Behind(messages, OwnEntry(h))
       /\ More(h) => Behind(messages, NextEntry(h))

(***************************************************************************)
(* A cursor that is not ahead stays so as messages are added.              *)
(***************************************************************************)
LEMMA BehindStays ==
  ASSUME NEW rows, NEW more, rows \subseteq more, IsFiniteSet(more),
         NEW e \in ChatCursors, Behind(rows, e)
  PROVE  Behind(more, e)
<1>. DEFINE mine == {m \in rows : m.chat = e.chat}
            ours == {m \in more : m.chat = e.chat}
<1>1. mine \subseteq ours /\ IsFiniteSet(ours)
  BY FS_Subset
<1>2. /\ Rank(mine, e.reverse, e.sentAt) \in Nat /\ Rank(ours, e.reverse, e.sentAt) \in Nat
      /\ Rank(mine, e.reverse, e.sentAt) <= Rank(ours, e.reverse, e.sentAt)
  BY <1>1, RankGrows
<1>3. e.cursor \in Nat
  BY DEF ChatCursors
<1>. QED
  BY <1>2, <1>3 DEF Behind, Place

LEMMA NotAheadStep ==
  ASSUME TypeInv, TypeInv', TimesInv, HitsFit, NotAheadInv, [Next]_vars
  PROVE  NotAheadInv'
<1>1. messages \subseteq messages' /\ IsFiniteSet(messages')
  BY MessagesGrow DEF TypeInv
<1>2. \A e \in ChatCursors : Behind(messages, e) => Behind(messages', e)
  BY <1>1, BehindStays
<1>3. \A e \in cursors' : Behind(messages', e)
  <2>1. \A h \in Handlers : pc[h] \in CacheSteps =>
          Entry(h) \in ChatCursors /\ Behind(messages, Entry(h))
    BY EntryCases DEF NotAheadInv
  <2>2. \A e \in cursors' : e \in ChatCursors /\ Behind(messages, e)
    BY <2>1, CursorsFromEntries DEF NotAheadInv, TypeInv, TypeOK
  <2>. QED
    BY <1>2, <2>2
<1>4. ASSUME NEW h \in Handlers, hit'[h] # None PROVE Behind(messages', hit'[h])
  <2>1. hit'[h] \in ChatCursors /\ Behind(messages, hit'[h])
    BY <1>4, HitsFromCursors DEF NotAheadInv, TypeInv, TypeOK
  <2>. QED
    BY <1>2, <2>1
<1>5. ASSUME NEW h \in Handlers, pc'[h] \in CacheSteps
      PROVE  /\ Own(h)' => Behind(messages', OwnEntry(h)')
             /\ More(h)' => Behind(messages', NextEntry(h)')
  <2>1. CASE /\ pc[h] \in CacheSteps /\ page'[h] = page[h] /\ req'[h] = req[h]
             /\ pc'[h] \in {"Own", "OwnWait"} => pc[h] \in {"Own", "OwnWait"}
    <3>1. OwnEntry(h)' = OwnEntry(h) /\ NextEntry(h)' = NextEntry(h)
      BY <2>1 DEF OwnEntry, NextEntry, NextCursor
    <3>2. (Own(h)' => Own(h)) /\ (More(h)' => More(h))
      BY <2>1 DEF Own, More, HasMore
    <3>. QED
      BY <1>2, <3>1, <3>2, EntryCases DEF NotAheadInv
  <2>2. CASE PullQuery(h) /\ page'[h] \in Answers(req[h], hit[h]) /\ req'[h] = req[h]
    <3>1. messages' = messages /\ req[h] \in Pulls
      BY <2>2 DEF PullQuery, store, TypeInv, FramesReady, FrameReady, PullSteps
    <3>2. req[h].cursor \in Nat /\ req[h].limit \in Nat
      BY <3>1 DEF Pulls
    <3>3. OwnEntry(h)'.cursor = req[h].cursor
      BY <2>2 DEF OwnEntry, ToChatCursor
    <3>4. NextEntry(h)'.cursor = req[h].cursor + req[h].limit
      BY <2>2 DEF NextEntry, NextCursor, ToChatCursor
    <3>5. hit[h] # None => req[h].cursor <= Place(messages, hit[h])
      BY <2>2 DEF NotAheadInv, Behind, HitsFit, CursorKey, PullQuery
    <3>6. hit[h] # None => Place(messages, hit[h]) \in Nat
      <4>1. IsFiniteSet({m \in messages : m.chat = hit[h].chat})
        BY FS_Subset DEF TypeInv
      <4>. QED
        BY <4>1, RankGrows DEF Place
    <3>7. /\ Own(h)' => Place(messages, OwnEntry(h)') = req[h].cursor
          /\ More(h)' => Place(messages, NextEntry(h)')
                           = (IF hit[h] = None THEN req[h].cursor
                              ELSE Place(messages, hit[h])) + req[h].limit
      BY <2>2, QueryPositions
    <3>. QED
      BY <3>1, <3>2, <3>3, <3>4, <3>5, <3>6, <3>7 DEF Behind
  <2>. QED
    BY <1>5, <2>1, <2>2, PagesFromQueries
<1>6. \A h \in Handlers : (Own(h)' => pc'[h] \in CacheSteps) /\ (More(h)' => pc'[h] \in CacheSteps)
  BY DEF Own, More, CacheSteps
<1>. QED
  BY <1>3, <1>4, <1>5, <1>6 DEF NotAheadInv

LEMMA CacheInit == Init => TimesInv /\ OrderInv /\ HitsFit /\ NotAheadInv
  BY DEF Init, TimesInv, OrderInv, HitsFit, NotAheadInv, InTx, TxSteps, Own, More, CacheSteps

(***************************************************************************)
(* When no two messages of a chat have the same send time, no cached       *)
(* cursor runs ahead of the position it stands for, in either direction    *)
(* and in whatever order messages commit: at least that many messages come *)
(* before it, so a pull through the cache repeats no earlier position.     *)
(***************************************************************************)
THEOREM CursorsAreNotAhead ==
  ASSUME Clock # "any"
  PROVE  Spec => []CursorsNotAhead
<1>1. NotAheadInv => CursorsNotAhead
  BY DEF NotAheadInv, Behind, Place, CursorsNotAhead, PositionOf, RowsOf
<1>2. TypeInv /\ TimesInv /\ [Next]_vars => TimesInv'
  BY TimesStep
<1>3. TypeInv /\ HitsFit /\ [Next]_vars => HitsFit'
  BY HitsStep
<1>4. TypeInv /\ TypeInv' /\ TimesInv /\ HitsFit /\ NotAheadInv /\ [Next]_vars => NotAheadInv'
  BY NotAheadStep
<1>. QED
  BY <1>1, <1>2, <1>3, <1>4, TypeInit, TypeStep, CacheInit, PTL DEF Spec

-----------------------------------------------------------------------------
(* Forward cursors are exact                                               *)

Exact(rows, e) == ~ e.reverse => e.cursor = Place(rows, e)

ExactInv ==
  /\ \A e \in cursors : Exact(messages, e)
  /\ \A h \in Handlers :
       /\ hit[h] # None => Exact(messages, hit[h])
       /\ Own(h) => Exact(messages, OwnEntry(h))
       /\ More(h) => Exact(messages, NextEntry(h))

(***************************************************************************)
(* While messages are stored in the order of their times, a new one comes  *)
(* after every row a forward cursor can stand for.                         *)
(***************************************************************************)
LEMMA ForwardPlaceStays ==
  ASSUME TypeInv, OrderInv, [Next]_vars, NEW e \in ChatCursors, Sound(e), ~ e.reverse
  PROVE  Place(messages', e) = Place(messages, e)
<1>1. ASSUME NEW h \in Handlers, Leaves(h)
      PROVE  Place(messages', e) = Place(messages, e)
  <2>. DEFINE before(rows) ==
         {m \in {m \in rows : m.chat = e.chat} : Precedes(e.reverse, m.sentAt, e.sentAt)}
  <2>1. PICK m \in messages : m.chat = e.chat /\ m.sentAt = e.sentAt
    BY DEF Sound
  <2>2. row[h].chat = e.chat => e.sentAt < row[h].sentAt
    BY <1>1, <2>1 DEF OrderInv, Leaves
  <2>3. row[h] \in ChatMessages
    BY <1>1 DEF Leaves, InTx, TypeInv, FramesReady, FrameReady
  <2>4. row[h].chat = e.chat => ~ Precedes(e.reverse, row[h].sentAt, e.sentAt)
    BY <2>2, <2>3 DEF Precedes, ChatMessages, ChatCursors
  <2>5. before(messages \union {row[h]}) = before(messages)
    BY <2>4
  <2>. QED
    BY <1>1, <2>5 DEF Leaves, Place, Rank
<1>2. CASE messages' = messages
  BY <1>2
<1>. QED
  BY <1>1, <1>2, RowSteps DEF Enters, Stays

(***************************************************************************)
(* What a Pull is about to insert names a committed message.               *)
(***************************************************************************)
LEMMA EntriesSound ==
  ASSUME TypeInv, SoundInv, NEW h \in Handlers
  PROVE  /\ Own(h) => Sound(OwnEntry(h))
         /\ More(h) => Sound(NextEntry(h))
<1>1. pc[h] \in CacheSteps => page[h] \in Seq(messages) /\ req[h] \in Pulls
  BY DEF SoundInv, PagesStored, TypeInv, FramesReady, FrameReady, PullSteps
<1>2. Own(h) => page[h][1] \in messages
  BY <1>1 DEF Own, CacheSteps, TypeInv, FramesReady, FrameReady
<1>3. More(h) => page[h][req[h].limit + 1] \in messages
  BY <1>1 DEF More, HasMore, Pulls
<1>. QED
  BY <1>2, <1>3 DEF Sound, OwnEntry, NextEntry, ToChatCursor

LEMMA ExactStep ==
  ASSUME TypeInv, TypeInv', TimesInv, OrderInv, HitsFit, SoundInv, ExactInv, [Next]_vars
  PROVE  ExactInv'
<1>1. \A e \in ChatCursors : Sound(e) /\ Exact(messages, e) => Exact(messages', e)
  BY ForwardPlaceStays DEF Exact
<1>2. \A e \in cursors' : Exact(messages', e)
  <2>1. \A h \in Handlers : pc[h] \in CacheSteps =>
          Entry(h) \in ChatCursors /\ Sound(Entry(h)) /\ Exact(messages, Entry(h))
    BY EntryCases, EntriesSound DEF ExactInv
  <2>2. \A e \in cursors' : e \in ChatCursors /\ Sound(e) /\ Exact(messages, e)
    BY <2>1, CursorsFromEntries DEF ExactInv, SoundInv, CursorsSound, TypeInv, TypeOK
  <2>. QED
    BY <1>1, <2>2
<1>3. ASSUME NEW h \in Handlers, hit'[h] # None PROVE Exact(messages', hit'[h])
  <2>1. hit'[h] \in ChatCursors /\ Sound(hit'[h]) /\ Exact(messages, hit'[h])
    BY <1>3, HitsFromCursors DEF ExactInv, SoundInv, CursorsSound, TypeInv, TypeOK, Sound
  <2>. QED
    BY <1>1, <2>1
<1>4. ASSUME NEW h \in Handlers, pc'[h] \in CacheSteps
      PROVE  /\ Own(h)' => Exact(messages', OwnEntry(h)')
             /\ More(h)' => Exact(messages', NextEntry(h)')
  <2>1. CASE /\ pc[h] \in CacheSteps /\ page'[h] = page[h] /\ req'[h] = req[h]
             /\ pc'[h] \in {"Own", "OwnWait"} => pc[h] \in {"Own", "OwnWait"}
    <3>1. OwnEntry(h)' = OwnEntry(h) /\ NextEntry(h)' = NextEntry(h)
      BY <2>1 DEF OwnEntry, NextEntry, NextCursor
    <3>2. (Own(h)' => Own(h)) /\ (More(h)' => More(h))
      BY <2>1 DEF Own, More, HasMore
    <3>. QED
      BY <1>1, <3>1, <3>2, EntryCases, EntriesSound DEF ExactInv
  <2>2. CASE PullQuery(h) /\ page'[h] \in Answers(req[h], hit[h]) /\ req'[h] = req[h]
    <3>1. messages' = messages /\ req[h] \in Pulls
      BY <2>2 DEF PullQuery, store, TypeInv, FramesReady, FrameReady, PullSteps
    <3>2. OwnEntry(h)'.cursor = req[h].cursor
      BY <2>2 DEF OwnEntry, ToChatCursor
    <3>3. /\ NextEntry(h)'.cursor = req[h].cursor + req[h].limit
          /\ NextEntry(h)'.reverse = req[h].reverse
      BY <2>2 DEF NextEntry, NextCursor, ToChatCursor
    <3>4. hit[h] # None /\ ~ req[h].reverse => req[h].cursor = Place(messages, hit[h])
      BY <2>2 DEF ExactInv, Exact, HitsFit, CursorKey, PullQuery
    <3>5. /\ Own(h)' => Place(messages, OwnEntry(h)') = req[h].cursor
          /\ More(h)' => Place(messages, NextEntry(h)')
                           = (IF hit[h] = None THEN req[h].cursor
                              ELSE Place(messages, hit[h])) + req[h].limit
      BY <2>2, QueryPositions
    <3>. QED
      BY <3>1, <3>2, <3>3, <3>4, <3>5 DEF Exact
  <2>. QED
    BY <1>4, <2>1, <2>2, PagesFromQueries
<1>5. \A h \in Handlers : (Own(h)' => pc'[h] \in CacheSteps) /\ (More(h)' => pc'[h] \in CacheSteps)
  BY DEF Own, More, CacheSteps
<1>. QED
  BY <1>2, <1>3, <1>4, <1>5 DEF ExactInv

(***************************************************************************)
(* When the messages of a chat are stored in the order of their send       *)
(* times, a forward cursor stands for its very position for ever, although *)
(* no Send ever deletes it.                                                *)
(***************************************************************************)
THEOREM ForwardCursorsAreExact ==
  ASSUME Clock = "ordered"
  PROVE  Spec => []ForwardCursorsExact
<1>1. ExactInv => ForwardCursorsExact
  BY DEF ExactInv, Exact, Place, ForwardCursorsExact, PositionOf, RowsOf
<1>2. Init => ExactInv /\ SoundInv
  BY DEF Init, ExactInv, Own, More, SoundInv, CursorsSound, PagesStored, CacheSteps
<1>3. TypeInv /\ TimesInv /\ [Next]_vars => TimesInv'
  BY TimesStep
<1>4. TypeInv /\ OrderInv /\ [Next]_vars => OrderInv'
  BY OrderStep
<1>5. TypeInv /\ HitsFit /\ [Next]_vars => HitsFit'
  BY HitsStep
<1>6. TypeInv /\ TypeInv' /\ SoundInv /\ [Next]_vars => SoundInv'
  BY SoundStep
<1>7. TypeInv /\ TypeInv' /\ TimesInv /\ OrderInv /\ HitsFit /\ SoundInv /\ ExactInv
        /\ [Next]_vars => ExactInv'
  BY ExactStep
<1>. QED
  BY <1>1, <1>2, <1>3, <1>4, <1>5, <1>6, <1>7, TypeInit, TypeStep, CacheInit, PTL DEF Spec

=============================================================================
