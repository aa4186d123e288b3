---------------------------- MODULE MCIMService -----------------------------
(* Instances of IMService for TLC: the requests clients submit.            *)
EXTENDS IMService, TLC

CONSTANTS Times, Limits, MaxCursor

MCNames == {1, 2}
MCWords == {"hi"}

Text(body, padded) == [body |-> body, padded |-> padded]

Message(chat, sender, text, t) ==
  [chat |-> chat, text |-> text, sender |-> sender, sendTime |-> t]

\* The other spelling of the chat id, the second member writing.
GoodSends == {Message(<<2, 1>>, 2, Text("hi", TRUE), t) : t \in Times}

BadSends ==
  {NoMessage,
   Message(<<1, 2, 1>>, 1, Text("hi", FALSE), 1),
   Message(<<1, 2>>, 0, Text("hi", FALSE), 1),
   Message(<<1, 2>>, 1, Text("", TRUE), 1),
   Message(<<1, 2>>, 1, Text("hi", FALSE), -1)}

MCSends == GoodSends \union BadSends

PullOf(chat, cursor, limit, reverse) ==
  [chat |-> chat, cursor |-> cursor, limit |-> limit, reverse |-> reverse]

GoodPulls(directions) ==
  {PullOf(<<1, 2>>, c, l, r) : c \in 0 .. MaxCursor, l \in Limits, r \in directions}

BadPulls ==
  {PullOf(<<1>>, 0, 1, FALSE), PullOf(<<1, 2>>, 0, -1, FALSE),
   PullOf(<<1, 2>>, -1, 1, TRUE)}

BothWays == GoodPulls(BOOLEAN) \union BadPulls
Forward  == GoodPulls({FALSE}) \union BadPulls
Backward == GoodPulls({TRUE}) \union BadPulls

\* One bad request of each kind: handlers do with all of them the same.
FewSends    == GoodSends \union {NoMessage}
FewBackward == GoodPulls({TRUE}) \union {PullOf(<<1>>, 0, 1, FALSE)}

\* A service at rest after three sends and two pulls in reverse that cached
\* a cursor each.
Sent(i) == ToChatMessage(Message(<<2, 1>>, 2, Text("hi", TRUE), i), i)

Stocked ==
  /\ messages = {Sent(1), Sent(2), Sent(3)} /\ sends = 3
  /\ cursors = {ToChatCursor(Sent(2), TRUE, 1), ToChatCursor(Sent(1), TRUE, 2)}
  /\ pulls = 2 /\ crashes = 0
  /\ pc = [h \in Handlers |-> "Idle"]
  /\ row = [h \in Handlers |-> NoRow]
  /\ targets = [h \in Handlers |-> {}] /\ locks = [h \in Handlers |-> {}]
  /\ req = [h \in Handlers |-> None] /\ hit = [h \in Handlers |-> None]
  /\ page = [h \in Handlers |-> << >>] /\ code = [h \in Handlers |-> 0]

StockedSpec == Stocked /\ [][Next]_vars /\ Fairness

HandlerSymmetry == Permutations(Handlers)

=============================================================================
