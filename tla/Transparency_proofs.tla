------------------------ MODULE Transparency_proofs -------------------------
(***************************************************************************)
(* A query through an exact cursor and the query with OFFSET return the    *)
(* same page, for any handlers, requests and bounds.                       *)
(***************************************************************************)
EXTENDS IMServiceCache_proofs

-----------------------------------------------------------------------------
(* The one order of rows with distinct times                               *)

(***************************************************************************)
(* The rank of a row is below the number of rows, and a row that precedes  *)
(* another has the smaller rank.                                           *)
(***************************************************************************)
LEMMA RankBounds ==
  ASSUME NEW rows \in SUBSET ChatMessages, IsFiniteSet(rows), NEW reverse \in BOOLEAN,
         NEW m \in rows
  PROVE  Rank(rows, reverse, m.sentAt) \in 0 .. (Cardinality(rows) - 1)
<1>. DEFINE A == {n \in rows : Precedes(reverse, n.sentAt, m.sentAt)}
<1>1. m \notin A /\ A \subseteq rows /\ m.sentAt \in Nat
  BY DEF Precedes, ChatMessages
<1>2. IsFiniteSet(A) /\ Cardinality(A) <= Cardinality(rows) /\ A # rows
  BY <1>1, FS_Subset
<1>3. Cardinality(rows) # Cardinality(A)
  BY <1>1, <1>2, FS_Subset
<1>4. Cardinality(A) \in Nat /\ Cardinality(rows) \in Nat
  BY <1>2, FS_CardinalityType
<1>. HIDE DEF A
<1>5. Cardinality(A) \in 0 .. (Cardinality(rows) - 1)
  BY <1>2, <1>3, <1>4
<1>. QED
  BY <1>5 DEF Rank, A

LEMMA RankOrders ==
  ASSUME NEW rows \in SUBSET ChatMessages, IsFiniteSet(rows), NEW reverse \in BOOLEAN,
         NEW m \in rows, NEW n \in rows, Precedes(reverse, m.sentAt, n.sentAt)
  PROVE  Rank(rows, reverse, m.sentAt) < Rank(rows, reverse, n.sentAt)
<1>. DEFINE A == {x \in rows : Precedes(reverse, x.sentAt, m.sentAt)}
            B == {x \in rows : Precedes(reverse, x.sentAt, n.sentAt)}
<1>1. \A x \in rows : x.sentAt \in Nat
  BY DEF ChatMessages
<1>2. m \in B /\ m \notin A /\ A \subseteq B
  BY <1>1 DEF Precedes
<1>3. IsFiniteSet(B) /\ B \subseteq rows
  BY FS_Subset
<1>4. IsFiniteSet(A) /\ Cardinality(A) <= Cardinality(B) /\ Cardinality(A) # Cardinality(B)
  BY <1>2, <1>3, FS_Subset
<1>5. Cardinality(A) \in Nat /\ Cardinality(B) \in Nat
  BY <1>3, <1>4, FS_CardinalityType
<1>. HIDE DEF A, B
<1>6. Cardinality(A) < Cardinality(B)
  BY <1>4, <1>5
<1>. QED
  BY <1>6 DEF Rank, A, B

\* Rows with distinct times have distinct ranks.
LEMMA RankDistinct ==
  ASSUME NEW rows \in SUBSET ChatMessages, IsFiniteSet(rows), DistinctTimes(rows),
         NEW reverse \in BOOLEAN, NEW m \in rows, NEW n \in rows,
         Rank(rows, reverse, m.sentAt) = Rank(rows, reverse, n.sentAt)
  PROVE  m = n
<1>1. m.sentAt \in Nat /\ n.sentAt \in Nat
  BY DEF ChatMessages
<1>2. /\ Rank(rows, reverse, m.sentAt) \in 0 .. (Cardinality(rows) - 1)
      /\ Cardinality(rows) \in Nat
  BY RankBounds, FS_CardinalityType
<1>3. ~ Precedes(reverse, m.sentAt, n.sentAt) /\ ~ Precedes(reverse, n.sentAt, m.sentAt)
  BY <1>2, RankOrders
<1>. QED
  BY <1>1, <1>3 DEF Precedes, DistinctTimes

(***************************************************************************)
(* There is an order for ORDER BY to return: by counting, every place is   *)
(* the rank of some row.                                                   *)
(***************************************************************************)
LEMMA OrderingExists ==
  ASSUME NEW rows \in SUBSET ChatMessages, IsFiniteSet(rows), DistinctTimes(rows),
         NEW reverse \in BOOLEAN
  PROVE  Orderings(rows, reverse) # {}
<1>. DEFINE N == Cardinality(rows)
            rank == [m \in rows |-> Rank(rows, reverse, m.sentAt) + 1]
            s == [k \in 1 .. N |-> CHOOSE m \in rows : rank[m] = k]
<1>1. N \in Nat /\ IsFiniteSet(1 .. N) /\ Cardinality(1 .. N) = N
  BY FS_CardinalityType, FS_Interval
<1>2. rank \in [rows -> 1 .. N]
  <2>1. ASSUME NEW m \in rows PROVE Rank(rows, reverse, m.sentAt) + 1 \in 1 .. N
    BY <1>1, RankBounds
  <2>. QED
    BY <2>1
<1>3. \A m, n \in rows : rank[m] = rank[n] => m = n
  <2>. SUFFICES ASSUME NEW m \in rows, NEW n \in rows, rank[m] = rank[n] PROVE m = n
    OBVIOUS
  <2>1. /\ Rank(rows, reverse, m.sentAt) \in 0 .. (N - 1)
        /\ Rank(rows, reverse, n.sentAt) \in 0 .. (N - 1)
    BY RankBounds
  <2>2. Rank(rows, reverse, m.sentAt) = Rank(rows, reverse, n.sentAt)
    BY <1>1, <2>1
  <2>. QED
    BY <2>2, RankDistinct
<1>4. \A k \in 1 .. N : \E m \in rows : rank[m] = k
  <2>. HIDE DEF rank
  <2>1. rank \in Injection(rows, 1 .. N)
    BY <1>2, <1>3 DEF Injection, IsInjective
  <2>2. rank \in Surjection(rows, 1 .. N)
    BY <1>1, <2>1, FS_Injection
  <2>. QED
    BY <2>2 DEF Surjection
<1>5. \A k \in 1 .. N : s[k] \in rows /\ rank[s[k]] = k
  BY <1>4
<1>6. s \in [1 .. N -> rows]
  BY <1>5
<1>7. \A i, j \in 1 .. N : s[i] = s[j] => i = j
  BY <1>5
<1>8. \A i, j \in 1 .. N : i < j => ~ Precedes(reverse, s[j].sentAt, s[i].sentAt)
  <2>. SUFFICES ASSUME NEW i \in 1 .. N, NEW j \in 1 .. N, i < j,
                       Precedes(reverse, s[j].sentAt, s[i].sentAt)
                PROVE  FALSE
    OBVIOUS
  <2>. DEFINE x == s[i]
              y == s[j]
  <2>1. x \in rows /\ y \in rows /\ rank[x] = i /\ rank[y] = j
    BY <1>5
  <2>2. Precedes(reverse, y.sentAt, x.sentAt)
    OBVIOUS
  <2>. HIDE DEF x, y
  <2>3. Rank(rows, reverse, y.sentAt) < Rank(rows, reverse, x.sentAt)
    BY <2>1, <2>2, RankOrders
  <2>4. /\ Rank(rows, reverse, x.sentAt) \in 0 .. (N - 1)
        /\ Rank(rows, reverse, y.sentAt) \in 0 .. (N - 1)
    BY <2>1, RankBounds
  <2>5. Rank(rows, reverse, x.sentAt) + 1 = i /\ Rank(rows, reverse, y.sentAt) + 1 = j
    BY <2>1
  <2>. QED
    BY <1>1, <2>3, <2>4, <2>5
<1>9. s \in Orderings(rows, reverse)
  BY <1>6, <1>7, <1>8 DEF Orderings
<1>. QED
  BY <1>9

-----------------------------------------------------------------------------
(* Pages                                                                   *)

\* The length of a page.
LEMMA WindowLength ==
  ASSUME NEW rows, IsFiniteSet(rows), NEW reverse, NEW s \in Orderings(rows, reverse),
         NEW offset \in Nat, NEW count \in Nat, ~ (Cardinality(rows) < offset)
  PROVE  /\ Window(s, offset, count) \in Seq(rows)
         /\ Len(Window(s, offset, count))
              = IF offset + count < Cardinality(rows) THEN count
                ELSE Cardinality(rows) - offset
<1>1. Cardinality(rows) \in Nat
  BY FS_CardinalityType
<1>2. s \in Seq(rows) /\ Len(s) = Cardinality(rows)
  BY <1>1 DEF Orderings
<1>3. Window(s, offset, count) \in Seq(rows)
  BY FindReturnsRows DEF Find
<1>. QED
  BY <1>1, <1>2, <1>3 DEF Window

(***************************************************************************)
(* The page from time t on is the page behind the rows before t.           *)
(***************************************************************************)
LEMMA SamePages ==
  ASSUME NEW rows \in SUBSET ChatMessages, IsFiniteSet(rows), DistinctTimes(rows),
         NEW reverse \in BOOLEAN, NEW t \in Nat, NEW count \in Nat,
         NEW p \in Find({m \in rows : ~ Precedes(reverse, m.sentAt, t)}, reverse, 0, count)
  PROVE  p \in Find(rows, reverse, Rank(rows, reverse, t), count)
<1>. DEFINE part == {m \in rows : ~ Precedes(reverse, m.sentAt, t)}
            before == {m \in rows : Precedes(reverse, m.sentAt, t)}
            R == Rank(rows, reverse, t)
<1>1. /\ part \in SUBSET ChatMessages /\ IsFiniteSet(part) /\ DistinctTimes(part)
      /\ IsFiniteSet(before)
  BY FS_Subset DEF DistinctTimes
<1>2. /\ R \in Nat /\ Cardinality(part) \in Nat /\ Cardinality(rows) \in Nat
      /\ Cardinality(rows) = R + Cardinality(part)
  <2>1. Cardinality(before) = R
    BY DEF Rank
  <2>2. part = rows \ before /\ rows \intersect before = before
    OBVIOUS
  <2>. HIDE DEF part, before, R
  <2>3. Cardinality(rows \ before) = Cardinality(rows) - Cardinality(rows \intersect before)
    BY FS_Difference, Zenon
  <2>4. Cardinality(part) = Cardinality(rows) - Cardinality(before)
    BY <2>2, <2>3
  <2>. QED
    BY <1>1, <2>1, <2>4, FS_CardinalityType
<1>3. PICK s \in Orderings(part, reverse) : p = Window(s, 0, count)
  BY DEF Find
<1>4. PICK u \in Orderings(rows, reverse) : TRUE
  BY OrderingExists
<1>. DEFINE q == Window(u, R, count)
<1>5. q \in Find(rows, reverse, R, count)
  BY <1>4 DEF Find
<1>6. part \subseteq rows
  OBVIOUS
<1>7. p \in Find(part, reverse, 0, count)
  OBVIOUS
<1>8. \A m \in part : Rank(rows, reverse, m.sentAt) = R + Rank(part, reverse, m.sentAt)
  <2>. SUFFICES ASSUME NEW m \in part
                PROVE  Rank(rows, reverse, m.sentAt) = R + Rank(part, reverse, m.sentAt)
    OBVIOUS
  <2>1. m.sentAt \in Nat /\ ~ Precedes(reverse, m.sentAt, t)
    BY DEF ChatMessages
  <2>. QED
    BY <2>1, RankSplits
<1>. HIDE DEF part, before, R
<1>9. p \in Seq(rows) /\ q \in Seq(rows) /\ Len(p) = Len(q)
  <2>. ~ (Cardinality(part) < 0) /\ ~ (Cardinality(rows) < R)
    BY <1>2
  <2>1. p \in Seq(part) /\ Len(p) = IF 0 + count < Cardinality(part) THEN count
                                    ELSE Cardinality(part) - 0
    BY <1>1, <1>3, WindowLength
  <2>2. q \in Seq(rows) /\ Len(q) = IF R + count < Cardinality(rows) THEN count
                                    ELSE Cardinality(rows) - R
    BY <1>2, <1>4, WindowLength DEF q
  <2>3. p \in Seq(rows)
    BY <1>6, <2>1
  <2>. QED
    BY <1>2, <2>1, <2>2, <2>3
<1>. HIDE DEF q
<1>10. \A i \in 1 .. Len(p) : p[i] = q[i]
  <2>. SUFFICES ASSUME NEW i \in 1 .. Len(p) PROVE p[i] = q[i]
    OBVIOUS
  <2>1. i \in DOMAIN p /\ i \in DOMAIN q /\ i \in Nat
    BY <1>9
  <2>2. p[i] \in part /\ Rank(part, reverse, p[i].sentAt) = 0 + i - 1
    BY <1>1, <1>7, <2>1, RankInFind
  <2>3. q[i] \in rows /\ Rank(rows, reverse, q[i].sentAt) = R + i - 1
    BY <1>2, <1>5, <2>1, RankInFind
  <2>4. Rank(rows, reverse, p[i].sentAt) = R + i - 1
    BY <1>2, <1>8, <2>1, <2>2
  <2>. QED
    BY <1>6, <2>2, <2>3, <2>4, RankDistinct
<1>11. p = q
  BY <1>9, <1>10, SeqEqual
<1>. QED
  BY <1>5, <1>11 DEF R

(***************************************************************************)
(* A query through a cursor that is exact returns what the query with      *)
(* OFFSET returns.                                                         *)
(***************************************************************************)
LEMMA ExactIsTransparent ==
  ASSUME TypeInv, TimesInv, HitsFit, NEW h \in Handlers, PullQuery(h),
         hit[h] # None => hit[h].cursor = Place(messages, hit[h])
  PROVE  page'[h] \in Answers(req[h], None)
<1>. DEFINE r == req[h]
            rows == RowsOf(r.chat)
<1>1. /\ r \in Pulls /\ hit[h] \in ChatCursors \union {None}
      /\ messages \in SUBSET ChatMessages /\ IsFiniteSet(messages)
  BY DEF PullQuery, TypeInv, TypeOK, FramesReady, FrameReady, PullSteps
<1>2. page'[h] \in Answers(r, hit[h])
  BY DEF PullQuery, TypeInv, TypeOK
<1>3. rows \in SUBSET ChatMessages /\ IsFiniteSet(rows) /\ DistinctTimes(rows)
  BY <1>1, FS_Subset DEF RowsOf, TimesInv, DistinctTimes
<1>4. CASE hit[h] = None
  BY <1>2, <1>4
<1>5. CASE hit[h] # None
  <2>1. /\ hit[h].chat = r.chat /\ hit[h].reverse = r.reverse /\ hit[h].cursor = r.cursor
    BY <1>5 DEF HitsFit, PullQuery, CursorKey
  <2>2. r.cursor = Rank(rows, r.reverse, hit[h].sentAt)
    BY <1>5, <2>1 DEF Place, RowsOf
  <2>3. /\ r.reverse \in BOOLEAN /\ r.limit + 1 \in Nat /\ hit[h].sentAt \in Nat
    BY <1>1, <1>5 DEF Pulls, ChatCursors
  <2>4. page'[h] \in Find({m \in rows : ~ Precedes(r.reverse, m.sentAt, hit[h].sentAt)},
                          r.reverse, 0, r.limit + 1)
    BY <1>2, <1>5 DEF Answers, RowsFrom
  <2>. HIDE DEF rows, r
  <2>5. page'[h] \in Find(rows, r.reverse, r.cursor, r.limit + 1)
    BY <1>3, <2>2, <2>3, <2>4, SamePages
  <2>. QED
    BY <2>5 DEF Answers, rows, r
<1>. QED
  BY <1>4, <1>5

\* Only its query takes a Pull past the step "Query" with code 0.
LEMMA OnlyQueries ==
  ASSUME TypeInv, [Next]_vars, NEW h \in Handlers,
         pc[h] = "Query", pc'[h] \notin {"Query", "Idle"}, code'[h] = 0
  PROVE  PullQuery(h)
<1>. USE DEF TypeInv, TypeOK, Goto, Respond, TxSteps, CacheSteps
<1>1. CASE \E g \in Handlers : SendRejected(g) \/ SendAccepted(g) \/ SendCreate(g) \/ SendScan(g)
                               \/ SendLock(g) \/ SendDelete(g) \/ SendFailed(g)
  BY <1>1 DEF SendRejected, SendAccepted, SendCreate, SendScan, SendLock, SendDelete, SendFailed
<1>2. CASE \E g \in Handlers : SendCommit(g) \/ SendCommitLost(g)
  BY <1>2 DEF SendCommit, SendCommitLost, Committed
<1>3. CASE \E g \in Handlers : PullAccepted(g) \/ PullRejected(g) \/ PullLookup(g) \/ PullFailed(g)
  BY <1>3 DEF PullAccepted, Accept, PullRejected, PullLookup, PullFailed
<1>4. CASE \E g \in Handlers : PullQuery(g)
  BY <1>4 DEF PullQuery
<1>5. CASE \E g \in Handlers : CursorStored(g) \/ CursorDuplicate(g) \/ CursorBlocked(g)
                               \/ CursorFailed(g)
  BY <1>5 DEF CursorStored, CursorDuplicate, CursorBlocked, CursorFailed, AfterInsert
<1>6. CASE (\E g \in Handlers : Return(g)) \/ Crash
  BY <1>6 DEF Return, Crash
<1>7. CASE UNCHANGED vars
  BY <1>7 DEF vars
<1>. QED
  BY <1>1, <1>2, <1>3, <1>4, <1>5, <1>6, <1>7 DEF Next, Request, Work, Serve, SendDeadlock, Failure

-----------------------------------------------------------------------------
(***************************************************************************)
(* While messages are stored in the order of their send times, a forward   *)
(* pull returns the same page whether it finds its cursor in the cache or  *)
(* not (README.md:69).                                                     *)
(***************************************************************************)
THEOREM ForwardPullsAreTransparent ==
  ASSUME Clock = "ordered"
  PROVE  Spec => ForwardTransparent
<1>. DEFINE Same == \A h \in Handlers : req[h] # None /\ ~ req[h].reverse => SamePage(h)
<1>1. TypeInv /\ TimesInv /\ HitsFit /\ ExactInv /\ [Next]_vars => [Same]_vars
  <2>. SUFFICES ASSUME TypeInv, TimesInv, HitsFit, ExactInv, [Next]_vars,
                       NEW h \in Handlers, ~ req[h].reverse,
                       pc[h] = "Query", pc'[h] \notin {"Query", "Idle"}, code'[h] = 0
                PROVE  page'[h] \in Answers(req[h], None)
    BY DEF SamePage
  <2>1. PullQuery(h)
    BY OnlyQueries
  <2>2. hit[h] # None => hit[h].cursor = Place(messages, hit[h])
    BY DEF ExactInv, Exact, HitsFit, CursorKey
  <2>. QED
    BY <2>1, <2>2, ExactIsTransparent
<1>2. Spec => [](TypeInv /\ TimesInv /\ HitsFit /\ ExactInv)
  <2>1. Init => TypeInv /\ TimesInv /\ OrderInv /\ HitsFit /\ SoundInv /\ ExactInv
    BY TypeInit, CacheInit
    DEF Init, ExactInv, Own, More, SoundInv, CursorsSound, PagesStored, CacheSteps
  <2>2. TypeInv /\ TypeInv' /\ TimesInv /\ OrderInv /\ HitsFit /\ SoundInv /\ ExactInv
          /\ [Next]_vars => TimesInv' /\ OrderInv' /\ HitsFit' /\ SoundInv' /\ ExactInv'
    BY TimesStep, OrderStep, HitsStep, SoundStep, ExactStep
  <2>. QED
    BY <2>1, <2>2, TypeStep, PTL DEF Spec
<1>. QED
  BY <1>1, <1>2, PTL DEF Spec, ForwardTransparent

-----------------------------------------------------------------------------
(* What a step does to the cursors                                         *)

\* A commit removes the cursors its Send has found, from the table and from
\* what the others have found.
Clears(h) ==
  /\ pc[h] = "Commit" /\ pc'[h] = "Reply"
  /\ messages' = messages \union {row[h]}
  /\ cursors' = cursors \ targets[h]
  /\ row' = row
  /\ \A g \in Handlers \ {h} : pc'[g] = pc[g] /\ targets'[g] = targets[g] \ targets[h]

\* A cursor is inserted.
Adds(h) ==
  /\ pc[h] \in CacheSteps /\ pc'[h] # pc[h] /\ cursors' # cursors
  /\ messages' = messages /\ cursors' = cursors \union {Entry(h)}
  /\ row' = row /\ targets' = targets
  /\ pc'[h] \notin TxSteps
  /\ \A g \in Handlers \ {h} : pc'[g] = pc[g]

\* A Send looks for the cursors it deletes.
Looks(h) ==
  /\ messages' = messages /\ cursors' = cursors /\ row' = row
  /\ targets'[h] = {e \in cursors : e.chat = row[h].chat /\ e.reverse}
  /\ \A g \in Handlers \ {h} : pc'[g] = pc[g] /\ targets'[g] = targets[g]

\* Nothing of all this.
Rests ==
  /\ messages' = messages /\ cursors' = cursors
  /\ \A h \in Handlers : pc'[h] \in {"Delete", "Commit"} =>
       pc[h] \in {"Delete", "Commit"} /\ row'[h] = row[h] /\ targets'[h] = targets[h]

LEMMA CursorSteps ==
  ASSUME TypeInv, [Next]_vars
  PROVE  \/ \E h \in Handlers : Clears(h) \/ Adds(h) \/ Looks(h)
         \/ Rests
<1>. USE DEF TypeInv, TypeOK, TxSteps, CacheSteps, Goto, Respond, store, frames
<1>1. CASE \E h \in Handlers : SendCommit(h) \/ SendCommitLost(h)
  <2>1. PICK h \in Handlers : SendCommit(h) \/ SendCommitLost(h)
    BY <1>1
  <2>2. Clears(h)
    BY <2>1 DEF SendCommit, SendCommitLost, Committed, Clears
  <2>. QED
    BY <2>2
<1>2. CASE \E h \in Handlers : CursorStored(h)
  <2>1. PICK h \in Handlers : CursorStored(h)
    BY <1>2
  <2>2. /\ pc'[h] # pc[h] /\ pc'[h] \notin TxSteps
        /\ \A g \in Handlers \ {h} : pc'[g] = pc[g]
    BY <2>1 DEF CursorStored, AfterInsert, AfterOwn
  <2>3. CASE cursors' = cursors
    <3>1. Rests
      BY <2>1, <2>2, <2>3 DEF CursorStored, Rests
    <3>. QED
      BY <3>1
  <2>4. CASE cursors' # cursors
    <3>1. Adds(h)
      BY <2>1, <2>2, <2>4 DEF CursorStored, Adds
    <3>. QED
      BY <3>1
  <2>. QED
    BY <2>3, <2>4
<1>3. CASE \E h \in Handlers : SendScan(h)
  <2>1. PICK h \in Handlers : SendScan(h)
    BY <1>3
  <2>2. Looks(h)
    BY <2>1 DEF SendScan, Looks
  <2>. QED
    BY <2>2
<1>4. CASE \E h \in Handlers : SendRejected(h) \/ SendAccepted(h) \/ SendCreate(h)
                               \/ SendLock(h) \/ SendDelete(h) \/ SendFailed(h)
  BY <1>4 DEF SendRejected, SendAccepted, SendCreate, SendLock, SendDelete, SendFailed, Rests
<1>5. CASE \E h \in Handlers : PullAccepted(h) \/ PullRejected(h) \/ PullLookup(h)
                               \/ PullQuery(h) \/ PullFailed(h)
  BY <1>5 DEF PullAccepted, Accept, PullRejected, PullLookup, PullQuery, PullFailed,
              AfterOwn, Rests
<1>6. CASE \E h \in Handlers : CursorDuplicate(h) \/ CursorBlocked(h) \/ CursorFailed(h)
  BY <1>6 DEF CursorDuplicate, CursorBlocked, CursorFailed, AfterInsert, AfterOwn, Rests
<1>7. CASE (\E h \in Handlers : Return(h)) \/ Crash
  BY <1>7 DEF Return, Crash, Rests
<1>8. CASE UNCHANGED vars
  BY <1>8 DEF vars, Rests
<1>. QED
  BY <1>1, <1>2, <1>3, <1>4, <1>5, <1>6, <1>7, <1>8 DEF Next, Request, Work, Serve, SendDeadlock, Failure

\* Cursors of another chat do not move, and nothing moves without a commit.
LEMMA OthersStay ==
  ASSUME TypeInv, [Next]_vars, NEW e,
         \A m \in messages' \ messages : m.chat # e.chat
  PROVE  Place(messages', e) = Place(messages, e)
<1>1. messages \subseteq messages'
  BY MessagesGrow
<1>2. {m \in messages' : m.chat = e.chat} = {m \in messages : m.chat = e.chat}
  BY <1>1
<1>. QED
  BY <1>2 DEF Place

\* A Pull about to query holds what it has just looked up.
LEMMA QueryFrom ==
  ASSUME TypeInv, HitsFit, [Next]_vars, NEW h \in Handlers, pc'[h] = "Query", hit'[h] # None
  PROVE  pc[h] \in {"Lookup", "Query"} /\ req'[h] = req[h]
<1>. USE DEF TypeInv, TypeOK, TxSteps, CacheSteps, Goto, Respond, store, frames
<1>1. CASE \E g \in Handlers : SendCommit(g) \/ SendCommitLost(g)
  BY <1>1 DEF SendCommit, SendCommitLost, Committed, HitsFit, Steps
<1>2. CASE \E g \in Handlers : SendRejected(g) \/ SendAccepted(g) \/ SendCreate(g) \/ SendScan(g)
                               \/ SendLock(g) \/ SendDelete(g) \/ SendFailed(g)
  BY <1>2 DEF SendRejected, SendAccepted, SendCreate, SendScan, SendLock, SendDelete, SendFailed
<1>3. CASE \E g \in Handlers : PullAccepted(g)
  BY <1>3 DEF PullAccepted, Accept, HitsFit
<1>4. CASE \E g \in Handlers : PullRejected(g) \/ PullLookup(g) \/ PullQuery(g) \/ PullFailed(g)
  BY <1>4 DEF PullRejected, PullLookup, PullQuery, PullFailed, AfterOwn
<1>5. CASE \E g \in Handlers : CursorStored(g) \/ CursorDuplicate(g) \/ CursorBlocked(g)
                               \/ CursorFailed(g)
  BY <1>5 DEF CursorStored, CursorDuplicate, CursorBlocked, CursorFailed, AfterInsert, AfterOwn
<1>6. CASE (\E g \in Handlers : Return(g)) \/ Crash
  BY <1>6 DEF Return, Crash
<1>7. CASE UNCHANGED vars
  BY <1>7 DEF vars
<1>. QED
  BY <1>1, <1>2, <1>3, <1>4, <1>5, <1>6, <1>7 DEF Next, Request, Work, Serve, SendDeadlock, Failure

-----------------------------------------------------------------------------
(* One handler: no races                                                   *)

\* e stands at its position.
AtPlace(e) == e.reverse => e.cursor = Place(messages, e)

\* So does what the Pull of h holds.
HeldAtPlace(h) ==
  /\ pc[h] = "Query" /\ hit[h] # None => AtPlace(hit[h])
  /\ Own(h) => AtPlace(OwnEntry(h))
  /\ More(h) => AtPlace(NextEntry(h))

\* Without a commit a Pull that holds what is at its place goes on to do so.
LEMMA HeldStays ==
  ASSUME TypeInv, TypeInv', TimesInv, HitsFit, [Next]_vars, NEW h \in Handlers,
         messages' = messages, HeldAtPlace(h), \A e \in cursors : AtPlace(e)
  PROVE  HeldAtPlace(h)'
<1>1. ASSUME pc'[h] = "Query", hit'[h] # None
      PROVE  AtPlace(hit[h])'
  <2>1. pc[h] \in {"Lookup", "Query"}
    BY <1>1, QueryFrom
  <2>2. AtPlace(hit'[h])
    BY <1>1, <2>1, HitsFromCursors DEF HeldAtPlace, HitsFit
  <2>. QED
    BY <2>2 DEF AtPlace
<1>2. ASSUME Own(h)' \/ More(h)'
      PROVE  /\ Own(h)' => AtPlace(OwnEntry(h))'
             /\ More(h)' => AtPlace(NextEntry(h))'
  <2>1. pc'[h] \in CacheSteps
    BY <1>2 DEF Own, More, CacheSteps
  <2>2. CASE /\ pc[h] \in CacheSteps /\ page'[h] = page[h] /\ req'[h] = req[h]
             /\ pc'[h] \in {"Own", "OwnWait"} => pc[h] \in {"Own", "OwnWait"}
    BY <2>2 DEF OwnEntry, NextEntry, NextCursor, Own, More, HasMore, HeldAtPlace, AtPlace
  <2>3. CASE PullQuery(h) /\ page'[h] \in Answers(req[h], hit[h]) /\ req'[h] = req[h]
    <3>1. /\ OwnEntry(h)'.cursor = req[h].cursor
          /\ NextEntry(h)'.cursor = req[h].cursor + req[h].limit
          /\ NextEntry(h)'.reverse = req[h].reverse
      BY <2>3 DEF OwnEntry, NextEntry, NextCursor, ToChatCursor
    <3>2. hit[h] # None /\ req[h].reverse => req[h].cursor = Place(messages, hit[h])
      BY <2>3 DEF HeldAtPlace, AtPlace, HitsFit, CursorKey, PullQuery
    <3>3. /\ Own(h)' => Place(messages, OwnEntry(h)') = req[h].cursor
          /\ More(h)' => Place(messages, NextEntry(h)')
                           = (IF hit[h] = None THEN req[h].cursor
                              ELSE Place(messages, hit[h])) + req[h].limit
      BY <2>3, QueryPositions
    <3>. QED
      BY <3>1, <3>2, <3>3 DEF AtPlace
  <2>. QED
    BY <2>1, <2>2, <2>3, PagesFromQueries
<1>. QED
  BY <1>1, <1>2 DEF HeldAtPlace

\* Requests are served one at a time.
OneAtATime == \A g, h \in Handlers : g = h

\* A Send that has looked for the cursors to delete has all of its chat.
AllFound ==
  \A h \in Handlers : pc[h] \in {"Delete", "Commit"} =>
    \A e \in cursors : e.reverse /\ e.chat = row[h].chat => e \in targets[h]

ReverseInv ==
  /\ \A e \in cursors : AtPlace(e)
  /\ \A h \in Handlers : HeldAtPlace(h)
  /\ AllFound

LEMMA ReverseStep ==
  ASSUME OneAtATime, TypeInv, TypeInv', TimesInv, HitsFit, ReverseInv, [Next]_vars
  PROVE  ReverseInv'
<1>. USE DEF OneAtATime, ReverseInv
<1>1. ASSUME NEW h \in Handlers, Clears(h)
      PROVE  ReverseInv'
  <2>1. ASSUME NEW e \in cursors', e.reverse
        PROVE  Place(messages', e) = Place(messages, e)
    <3>1. row[h].chat # e.chat
      BY <1>1, <2>1 DEF Clears, AllFound
    <3>2. \A m \in messages' \ messages : m.chat # e.chat
      BY <1>1, <3>1 DEF Clears
    <3>. QED
      BY <3>2, OthersStay
  <2>2. \A e \in cursors' : AtPlace(e)'
    BY <1>1, <2>1 DEF Clears, AtPlace
  <2>3. \A g \in Handlers : pc'[g] = "Reply"
    BY <1>1 DEF Clears
  <2>. QED
    BY <2>2, <2>3 DEF HeldAtPlace, Own, More, CacheSteps, AllFound
<1>2. ASSUME messages' = messages
      PROVE  \A h \in Handlers : HeldAtPlace(h)'
  BY <1>2, HeldStays
<1>3. ASSUME NEW h \in Handlers, Adds(h)
      PROVE  ReverseInv'
  <2>1. AtPlace(Entry(h))
    BY <1>3, EntryCases DEF Adds, HeldAtPlace
  <2>2. \A e \in cursors' : AtPlace(e)'
    BY <1>3, <2>1 DEF Adds, AtPlace
  <2>3. AllFound'
    BY <1>3 DEF Adds, AllFound, TxSteps
  <2>. QED
    BY <1>2, <1>3, <2>2, <2>3 DEF Adds
<1>4. ASSUME NEW h \in Handlers, Looks(h)
      PROVE  ReverseInv'
  BY <1>2, <1>4 DEF Looks, AtPlace, AllFound
<1>5. CASE Rests
  BY <1>2, <1>5 DEF Rests, AtPlace, AllFound
<1>. QED
  BY <1>1, <1>3, <1>4, <1>5, CursorSteps

LEMMA ReverseInit == Init => ReverseInv
  BY DEF Init, ReverseInv, HeldAtPlace, Own, More, CacheSteps, AllFound

LEMMA ReverseAlways ==
  ASSUME Clock # "any", OneAtATime
  PROVE  Spec => [](TypeInv /\ TimesInv /\ HitsFit /\ ReverseInv)
<1>1. TypeInv /\ TypeInv' /\ TimesInv /\ HitsFit /\ ReverseInv /\ [Next]_vars
        => TimesInv' /\ HitsFit' /\ ReverseInv'
  BY TimesStep, HitsStep, ReverseStep
<1>. QED
  BY <1>1, TypeInit, TypeStep, CacheInit, ReverseInit, PTL DEF Spec

(***************************************************************************)
(* Where requests are served one at a time, the reverse cursors that Send  *)
(* leaves name the messages at their positions, with failures and crashes  *)
(* at every step: what makes them stale is concurrency alone.              *)
(***************************************************************************)
THEOREM ReverseCursorsAreExact ==
  ASSUME Clock # "any", OneAtATime
  PROVE  Spec => []ReverseCursorsExact
<1>1. ReverseInv => ReverseCursorsExact
  BY DEF ReverseInv, AtPlace, Place, ReverseCursorsExact, PositionOf, RowsOf
<1>. QED
  BY <1>1, ReverseAlways, PTL

(***************************************************************************)
(* And a reverse pull then returns the same page whether it finds its      *)
(* cursor in the cache or not.                                             *)
(***************************************************************************)
THEOREM ReversePullsAreTransparent ==
  ASSUME Clock # "any", OneAtATime
  PROVE  Spec => ReverseTransparent
<1>. DEFINE Same == \A h \in Handlers : req[h] # None /\ req[h].reverse => SamePage(h)
<1>1. TypeInv /\ TimesInv /\ HitsFit /\ ReverseInv /\ [Next]_vars => [Same]_vars
  <2>. SUFFICES ASSUME TypeInv, TimesInv, HitsFit, ReverseInv, [Next]_vars,
                       NEW h \in Handlers, req[h].reverse,
                       pc[h] = "Query", pc'[h] \notin {"Query", "Idle"}, code'[h] = 0
                PROVE  page'[h] \in Answers(req[h], None)
    BY DEF SamePage
  <2>1. PullQuery(h)
    BY OnlyQueries
  <2>2. hit[h] # None => hit[h].cursor = Place(messages, hit[h])
    BY DEF ReverseInv, HeldAtPlace, AtPlace, HitsFit, CursorKey
  <2>. QED
    BY <2>1, <2>2, ExactIsTransparent
<1>. QED
  BY <1>1, ReverseAlways, PTL DEF Spec, ReverseTransparent

=============================================================================
