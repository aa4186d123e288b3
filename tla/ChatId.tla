------------------------------- MODULE ChatId -------------------------------
(***************************************************************************)
(* The message checks and chat-id helpers of rpc-server/utils.go.          *)
(*                                                                         *)
(* A chat id "a:b" is represented by what strings.Split(id, ":") returns,  *)
(* the sequence of its parts: <<a, b>>.  A part is a natural number: 0 is  *)
(* the empty string and the order of the others is Go's string order, the  *)
(* only thing sort.Strings looks at.  "" is <<0>>, "a:b:c" is <<a, b, c>>. *)
(***************************************************************************)
EXTENDS Integers, Sequences

CONSTANTS
  Names,      \* the member names, positive so that 0 stays the empty string
  Words,      \* what a text may hold between its leading and trailing spaces
  NoMessage   \* the nil *rpc.Message a request without that field carries

ASSUME NamesAssumption == Names \subseteq Nat \ {0}
ASSUME WordsAssumption == Words \subseteq STRING

EmptyPart == 0
Parts     == Names \union {EmptyPart}
RawChats  == Seq(Parts)

\* The chat ids under which messages are stored: two members, in order.
ChatKeys == {k \in Names \X Names : k[1] <= k[2]}

\* A text is a body with or without spaces around it.
Texts == [body : Words \union {""}, padded : BOOLEAN]

RpcMessages == [chat : RawChats, text : Texts, sender : Parts, sendTime : Int]

-----------------------------------------------------------------------------
\* strings.TrimSpace: a text of spaces only has the empty body.
TrimSpace(text) == [text EXCEPT !.padded = FALSE]

ValidChatId(chat) ==
  /\ Len(chat) = 2
  /\ chat[1] # EmptyPart
  /\ chat[2] # EmptyPart

\* GetNormalisedChatID, on the two-part ids its callers have validated.
NormalisedChatId(chat) ==
  IF chat[2] < chat[1] THEN <<chat[2], chat[1]>> ELSE chat

\* The receiver GetSenderReceiver returns: the other end of the chat.
Receiver(chat, sender) == IF sender = chat[1] THEN chat[2] ELSE chat[1]

\* The first error ValidateMessage finds, or "none".
MessageError(m) ==
  IF m = NoMessage THEN "invalid message"
  ELSE IF ~ ValidChatId(m.chat) THEN "invalid chat id"
  ELSE IF m.sender \notin {m.chat[1], m.chat[2]} THEN "invalid sender"
  ELSE IF TrimSpace(m.text).body = "" THEN "invalid message"
  ELSE IF m.sendTime < 0 THEN "invalid send time"
  ELSE "none"

ValidMessage(m) == MessageError(m) = "none"

=============================================================================
