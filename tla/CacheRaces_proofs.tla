-------------------------- MODULE CacheRaces_proofs -------------------------
(***************************************************************************)
(* Reverse cursors and the races that make them stale, for any handlers,   *)
(* requests and bounds.                                                    *)
(***************************************************************************)
EXTENDS CacheRaces, Transparency_proofs

-----------------------------------------------------------------------------
(* The invariant                                                           *)

\* The cursors in the table, but for the tainted ones.
CleanExact == \A e \in cursors : e \notin tainted => AtPlace(e)

\* What a Pull that is not raced holds, and the chat it is for.
HeldExact ==
  \A h \in Handlers :
    /\ Own(h) => OwnEntry(h).chat = req[h].chat
    /\ More(h) => NextEntry(h).chat = req[h].chat
    /\ ~ raced[h] => HeldAtPlace(h)

\* A Send that has looked for the cursors to delete has all but tainted ones.
Scanned ==
  \A h \in Handlers : pc[h] \in {"Delete", "Commit"} =>
    \A e \in cursors :
      e.reverse /\ e.chat = row[h].chat /\ e \notin tainted => e \in targets[h]

RaceInv == CleanExact /\ HeldExact /\ Scanned

\* The rows of a page are of the chat that was asked for.
LEMMA PageChat ==
  ASSUME TypeInv, TypeInv', TimesInv, NEW h \in Handlers, PullQuery(h),
         page'[h] \in Answers(req[h], hit[h])
  PROVE  /\ Own(h)' => OwnEntry(h)'.chat = req[h].chat
         /\ More(h)' => NextEntry(h)'.chat = req[h].chat
<1>1. /\ req[h] \in Pulls /\ hit[h] \in ChatCursors \union {None}
      /\ messages \in SUBSET ChatMessages /\ IsFiniteSet(messages)
      /\ page'[h] \in Seq(ChatMessages) /\ req[h].limit \in Nat \ {0} /\ req'[h] = req[h]
  BY DEF PullQuery, TypeInv, TypeOK, FramesReady, FrameReady, PullSteps, frames, Pulls
<1>2. DistinctTimes(RowsOf(req[h].chat))
  BY DEF TimesInv, DistinctTimes, RowsOf
<1>3. \A i \in DOMAIN page'[h] : page'[h][i].chat = req[h].chat
  <2>. SUFFICES ASSUME NEW i \in DOMAIN page'[h]
                PROVE  page'[h][i] \in RowsOf(req[h].chat)
    BY DEF RowsOf
  <2>. QED
    BY <1>1, <1>2, RankInAnswer
<1>4. Own(h)' => 1 \in DOMAIN page'[h]
  BY <1>1 DEF Own, TypeInv, FramesReady, FrameReady
<1>5. More(h)' => req[h].limit + 1 \in DOMAIN page'[h]
  BY <1>1 DEF More, HasMore
<1>. QED
  BY <1>1, <1>3, <1>4, <1>5 DEF OwnEntry, NextEntry, ToChatCursor

-----------------------------------------------------------------------------
(* The step                                                                *)

LEMMA CleanStep ==
  ASSUME TypeInv, RaceInv, Next, History PROVE CleanExact'
<1>. SUFFICES ASSUME NEW e \in cursors', e \notin tainted' PROVE AtPlace(e)'
  BY DEF CleanExact
<1>1. IF e \in cursors THEN e \notin tainted
      ELSE \A h \in Handlers : ~ (Inserts(h) /\ raced[h])
  BY DEF History
<1>2. CASE e \in cursors
  <2>1. AtPlace(e)
    BY <1>1, <1>2 DEF RaceInv, CleanExact
  <2>2. ASSUME NEW h \in Handlers, Clears(h), e.reverse
        PROVE  Place(messages', e) = Place(messages, e)
    <3>1. row[h].chat # e.chat
      BY <1>1, <1>2, <2>2 DEF RaceInv, Scanned, Clears
    <3>2. \A m \in messages' \ messages : m.chat # e.chat
      BY <2>2, <3>1 DEF Clears
    <3>. QED
      BY <3>2, OthersStay
  <2>3. e.reverse => Place(messages', e) = Place(messages, e)
    BY <2>2, CursorSteps DEF Adds, Looks, Rests
  <2>. QED
    BY <2>1, <2>3 DEF AtPlace
<1>3. CASE e \notin cursors
  <2>1. PICK h \in Handlers : Adds(h)
    BY <1>3, CursorSteps DEF Clears, Looks, Rests
  <2>2. e = Entry(h) /\ messages' = messages /\ ~ raced[h] /\ pc[h] \in CacheSteps
    BY <1>1, <1>3, <2>1 DEF Adds, Inserts
  <2>3. AtPlace(e)
    BY <2>2, EntryCases DEF RaceInv, HeldExact, HeldAtPlace
  <2>. QED
    BY <2>2, <2>3 DEF AtPlace
<1>. QED
  BY <1>2, <1>3

LEMMA ScannedStep ==
  ASSUME TypeInv, RaceInv, Next, History PROVE Scanned'
<1>. SUFFICES ASSUME NEW h \in Handlers, pc'[h] \in {"Delete", "Commit"},
                     NEW e \in cursors', e.reverse, e.chat = row'[h].chat, e \notin tainted'
              PROVE  e \in targets'[h]
  BY DEF Scanned
<1>1. IF e \in cursors THEN e \notin tainted ELSE ~ Deleting(e.chat)
  BY DEF History
<1>2. ASSUME pc[h] \in {"Delete", "Commit"}, row'[h] = row[h], e \in cursors
      PROVE  e \in targets[h]
  BY <1>1, <1>2 DEF RaceInv, Scanned
<1>3. ASSUME NEW g \in Handlers, Clears(g) PROVE e \in targets'[h]
  BY <1>2, <1>3 DEF Clears
<1>4. ASSUME NEW g \in Handlers, Adds(g) PROVE e \in targets'[h]
  <2>1. pc[h] \in {"Delete", "Commit"} /\ row'[h] = row[h] /\ targets'[h] = targets[h]
    BY <1>4 DEF Adds, TxSteps
  <2>2. e \in cursors
    BY <1>1, <2>1 DEF Deleting
  <2>. QED
    BY <1>2, <2>1, <2>2
<1>5. ASSUME NEW g \in Handlers, Looks(g) PROVE e \in targets'[h]
  BY <1>2, <1>5 DEF Looks
<1>6. CASE Rests
  BY <1>2, <1>6 DEF Rests
<1>. QED
  BY <1>3, <1>4, <1>5, <1>6, CursorSteps

LEMMA HeldStep ==
  ASSUME TypeInv, TypeInv', TimesInv, HitsFit, HitsFit', RaceInv, Next, History
  PROVE  HeldExact'
<1>. SUFFICES ASSUME NEW h \in Handlers
              PROVE  /\ Own(h)' => (OwnEntry(h).chat = req[h].chat)'
                     /\ More(h)' => (NextEntry(h).chat = req[h].chat)'
                     /\ ~ raced'[h] =>
                          /\ pc'[h] = "Query" /\ hit'[h] # None => AtPlace(hit[h])'
                          /\ Own(h)' => AtPlace(OwnEntry(h))'
                          /\ More(h)' => AtPlace(NextEntry(h))'
  BY DEF HeldExact, HeldAtPlace
<1>1. raced'[h] <=> Holds(h) /\ (raced[h] \/ Overtaken(h) \/ hit'[h] \in tainted)
  BY DEF History
<1>2. ASSUME ~ Overtaken(h), NEW e, e.chat = req[h].chat
      PROVE  Place(messages', e) = Place(messages, e)
  BY <1>2, OthersStay DEF Overtaken
<1>3. ASSUME ~ raced'[h], pc'[h] = "Query", hit'[h] # None
      PROVE  AtPlace(hit[h])'
  <2>1. ~ raced[h] /\ ~ Overtaken(h) /\ hit'[h] \notin tainted
    BY <1>1, <1>3 DEF Holds
  <2>2. pc[h] \in {"Lookup", "Query"} /\ req'[h] = req[h]
    BY <1>3, QueryFrom
  <2>3. hit'[h].chat = req[h].chat
    BY <1>3, <2>2 DEF HitsFit, CursorKey
  <2>4. AtPlace(hit'[h])
    <3>1. CASE hit'[h] \in cursors
      BY <2>1, <3>1 DEF RaceInv, CleanExact
    <3>2. CASE hit'[h] = hit[h]
      BY <1>3, <2>1, <2>2, <3>2 DEF RaceInv, HeldExact, HeldAtPlace, HitsFit
    <3>. QED
      BY <1>3, <3>1, <3>2, HitsFromCursors
  <2>. QED
    BY <1>2, <2>1, <2>3, <2>4 DEF AtPlace
<1>4. ASSUME Own(h)' \/ More(h)'
      PROVE  /\ Own(h)' => (OwnEntry(h).chat = req[h].chat)'
             /\ More(h)' => (NextEntry(h).chat = req[h].chat)'
             /\ ~ raced'[h] =>
                  /\ Own(h)' => AtPlace(OwnEntry(h))'
                  /\ More(h)' => AtPlace(NextEntry(h))'
  <2>1. pc'[h] \in CacheSteps
    BY <1>4 DEF Own, More, CacheSteps
  <2>2. page'[h] # << >>
    <3>1. page'[h] \in Seq(ChatMessages) /\ req'[h] \in Pulls
      BY <2>1 DEF TypeInv, TypeOK, FramesReady, FrameReady, PullSteps
    <3>2. Own(h)' => page'[h] # << >>
      BY DEF Own, TypeInv, FramesReady, FrameReady
    <3>3. More(h)' => page'[h] # << >>
      BY <3>1 DEF More, HasMore, Pulls
    <3>. QED
      BY <1>4, <3>2, <3>3
  <2>3. ~ raced'[h] => ~ raced[h] /\ ~ Overtaken(h)
    BY <1>1, <2>2 DEF Holds
  <2>4. CASE /\ pc[h] \in CacheSteps /\ page'[h] = page[h] /\ req'[h] = req[h]
             /\ pc'[h] \in {"Own", "OwnWait"} => pc[h] \in {"Own", "OwnWait"}
    <3>1. OwnEntry(h)' = OwnEntry(h) /\ NextEntry(h)' = NextEntry(h)
      BY <2>4 DEF OwnEntry, NextEntry, NextCursor
    <3>2. (Own(h)' => Own(h)) /\ (More(h)' => More(h))
      BY <2>4 DEF Own, More, HasMore
    <3>3. /\ Own(h) => OwnEntry(h).chat = req[h].chat
          /\ More(h) => NextEntry(h).chat = req[h].chat
          /\ ~ raced[h] => /\ Own(h) => AtPlace(OwnEntry(h))
                           /\ More(h) => AtPlace(NextEntry(h))
      BY DEF RaceInv, HeldExact, HeldAtPlace
    <3>. QED
      BY <1>2, <2>3, <2>4, <3>1, <3>2, <3>3 DEF AtPlace
  <2>5. CASE PullQuery(h) /\ page'[h] \in Answers(req[h], hit[h]) /\ req'[h] = req[h]
    <3>1. messages' = messages
      BY <2>5 DEF PullQuery, store
    <3>2. OwnEntry(h)'.cursor = req[h].cursor
      BY <2>5 DEF OwnEntry, ToChatCursor
    <3>3. /\ NextEntry(h)'.cursor = req[h].cursor + req[h].limit
          /\ NextEntry(h)'.reverse = req[h].reverse
      BY <2>5 DEF NextEntry, NextCursor, ToChatCursor
    <3>4. ~ raced[h] /\ hit[h] # None /\ req[h].reverse => req[h].cursor = Place(messages, hit[h])
      BY <2>5 DEF RaceInv, HeldExact, HeldAtPlace, AtPlace, HitsFit, CursorKey, PullQuery
    <3>5. /\ Own(h)' => Place(messages, OwnEntry(h)') = req[h].cursor
          /\ More(h)' => Place(messages, NextEntry(h)')
                           = (IF hit[h] = None THEN req[h].cursor
                              ELSE Place(messages, hit[h])) + req[h].limit
      BY <2>5, QueryPositions
    <3>6. /\ Own(h)' => OwnEntry(h)'.chat = req'[h].chat
          /\ More(h)' => NextEntry(h)'.chat = req'[h].chat
      BY <2>5, PageChat
    <3>. QED
      BY <2>3, <3>1, <3>2, <3>3, <3>4, <3>5, <3>6 DEF AtPlace
  <2>. QED
    BY <2>1, <2>4, <2>5, PagesFromQueries
<1>. QED
  BY <1>3, <1>4

LEMMA RaceStep ==
  ASSUME TypeInv, TypeInv', TimesInv, HitsFit, HitsFit', RaceInv, [Next /\ History]_rvars
  PROVE  RaceInv'
<1>1. CASE Next /\ History
  BY <1>1, CleanStep, ScannedStep, HeldStep DEF RaceInv
<1>2. CASE UNCHANGED rvars
  BY <1>2
  DEF rvars, vars, store, frames, RaceInv, CleanExact, HeldExact, HeldAtPlace, Scanned, AtPlace,
      Own, More, OwnEntry, NextEntry
<1>. QED
  BY <1>1, <1>2

LEMMA RaceAlways ==
  ASSUME Clock # "any"
  PROVE  RSpec => [](TypeInv /\ TimesInv /\ HitsFit /\ RaceInv)
<1>1. [Next /\ History]_rvars => [Next]_vars
  BY DEF rvars
<1>2. RInit => TypeInv /\ TimesInv /\ HitsFit
  BY TypeInit, CacheInit DEF RInit
<1>3. RInit => RaceInv
  BY DEF RInit, Init, RaceInv, CleanExact, HeldExact, HeldAtPlace, Scanned, Own, More, CacheSteps
<1>4. TypeInv /\ [Next]_vars => TypeInv'
  BY TypeStep
<1>5. TypeInv /\ TimesInv /\ [Next]_vars => TimesInv'
  BY TimesStep
<1>6. TypeInv /\ HitsFit /\ [Next]_vars => HitsFit'
  BY HitsStep
<1>7. TypeInv /\ TypeInv' /\ TimesInv /\ HitsFit /\ HitsFit' /\ RaceInv
        /\ [Next /\ History]_rvars => RaceInv'
  BY RaceStep
<1>. QED
  BY <1>1, <1>2, <1>3, <1>4, <1>5, <1>6, <1>7, PTL DEF RSpec

-----------------------------------------------------------------------------
(***************************************************************************)
(* When send times are distinct, a reverse cursor in the cache names the   *)
(* message at its position unless a race of a Pull with a Send left it     *)
(* there.                                                                  *)
(***************************************************************************)
THEOREM OnlyRacesLeaveStale ==
  ASSUME Clock # "any"
  PROVE  RSpec => []StaleOnlyByRace
<1>1. RaceInv => StaleOnlyByRace
  BY DEF RaceInv, CleanExact, AtPlace, Place, StaleOnlyByRace, PositionOf, RowsOf
<1>. QED
  BY <1>1, RaceAlways, PTL

(***************************************************************************)
(* A reverse pull that no Send overtook reads the page at its cursor.      *)
(***************************************************************************)
THEOREM UnracedPullsAreExact ==
  ASSUME Clock # "any"
  PROVE  RSpec => UnracedExact
<1>. DEFINE Same == \A h \in Handlers :
                      req[h] # None /\ req[h].reverse /\ ~ raced[h] => SamePage(h)
<1>1. TypeInv /\ TimesInv /\ HitsFit /\ RaceInv /\ [Next /\ History]_rvars => [Same]_rvars
  <2>. SUFFICES ASSUME TypeInv, TimesInv, HitsFit, RaceInv, Next,
                       NEW h \in Handlers, req[h].reverse, ~ raced[h],
                       pc[h] = "Query", pc'[h] \notin {"Query", "Idle"}, code'[h] = 0
                PROVE  page'[h] \in Answers(req[h], None)
    BY DEF SamePage
  <2>1. PullQuery(h)
    BY OnlyQueries
  <2>2. hit[h] # None => hit[h].cursor = Place(messages, hit[h])
    BY DEF RaceInv, HeldExact, HeldAtPlace, AtPlace, HitsFit, CursorKey
  <2>. QED
    BY <2>1, <2>2, ExactIsTransparent
<1>. QED
  BY <1>1, RaceAlways, PTL DEF RSpec, UnracedExact

=============================================================================
