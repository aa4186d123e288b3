------------------------------ MODULE ChatStore -----------------------------
(***************************************************************************)
(* The two tables of rpc-server/models.go and the queries handler.go runs  *)
(* on them.  PostgreSQL itself is external: what is modelled of it is what *)
(* the statements the handlers issue can return.                           *)
(***************************************************************************)
EXTENDS ChatId, FiniteSets

(***************************************************************************)
(* chat_messages has no primary key, so two equal rows may both be there:  *)
(* id tells them apart, as the row's place in the table does.  sentAt is   *)
(* uint64(SendTime) of a SendTime checked to be >= 0, the same number.     *)
(***************************************************************************)
ChatMessages == [id : Nat, chat : ChatKeys, sender : Names, receiver : Names,
                 text : Texts, sentAt : Nat]

\* chat_cursor_caches, with primary key <<chat, reverse, cursor>>.
ChatCursors == [chat : ChatKeys, reverse : BOOLEAN, cursor : Nat, sentAt : Nat]

CursorKey(e) == <<e.chat, e.reverse, e.cursor>>

\* The chatMessage literal of Send, for the id-th message accepted.
ToChatMessage(m, id) ==
  [id       |-> id,
   chat     |-> NormalisedChatId(m.chat),
   sender   |-> m.sender,
   receiver |-> Receiver(m.chat, m.sender),
   text     |-> TrimSpace(m.text),
   sentAt   |-> m.sendTime]

ToChatCursor(m, reverse, cursor) ==
  [chat |-> m.chat, reverse |-> reverse, cursor |-> cursor, sentAt |-> m.sentAt]

-----------------------------------------------------------------------------
\* t comes strictly before u in the order of the pull.
Precedes(reverse, t, u) == IF reverse THEN t > u ELSE t < u

(***************************************************************************)
(* The orders in which ORDER BY sent_at ASC|DESC may enumerate a set of    *)
(* rows.  The column does not break ties: rows sent at the same time come  *)
(* in any order, and each query may choose another one.                    *)
(***************************************************************************)
Orderings(rows, reverse) ==
  {s \in [1 .. Cardinality(rows) -> rows] :
     /\ \A i, j \in DOMAIN s : s[i] = s[j] => i = j
     /\ \A i, j \in DOMAIN s : i < j => ~ Precedes(reverse, s[j].sentAt, s[i].sentAt)}

\* OFFSET offset LIMIT count of one ordering.
Window(s, offset, count) ==
  SubSeq(s, offset + 1, IF offset + count < Len(s) THEN offset + count ELSE Len(s))

\* What Order(...).Offset(offset).Limit(count).Find may return.
Find(rows, reverse, offset, count) ==
  {Window(s, offset, count) : s \in Orderings(rows, reverse)}

\* How many of the rows the pull's order puts strictly before time t.
Rank(rows, reverse, t) == Cardinality({m \in rows : Precedes(reverse, m.sentAt, t)})

=============================================================================
