------------------------------ MODULE HttpApi -------------------------------
(***************************************************************************)
(* One HTTP request from its parameters to the body of the answer: the     *)
(* binding to the protobuf types (idl_http.pb.go), the struct handed to    *)
(* the RPC, and what encoding/json leaves of the response.  Between them   *)
(* runs RpcCall.  Hertz is external: Bind gives parameters that are not    *)
(* there the zero value, and fails if one does not parse.                  *)
(***************************************************************************)
EXTENDS RpcCall

CONSTANTS
  SendForms, PullForms,   \* what users send: functions from names to values
  Now                     \* readings of the clock

\* handler.go:91-111: a page has its list and has_more and, exactly if there is
\* more, a next cursor, which is never 0 (cursor + limit, of at least 0 and 1).
ASSUME PageAssumption ==
  \A o \in PullOutcomes : ~ o.err =>
    /\ o.resp.Messages # Nil /\ o.resp.HasMore \in BOOLEAN
    /\ IF o.resp.HasMore THEN o.resp.NextCursor \in Int \ {0} ELSE o.resp.NextCursor = Nil

VARIABLES
  form,    \* the parameters of the request
  reply    \* the answer: status and body, Nil before

hvars == <<cvars, form, reply>>

-----------------------------------------------------------------------------
(* api.SendRequest, api.PullRequest and what becomes of them               *)

ApiSendRequest == [chat |-> << >>, text |-> << >>, sender |-> << >>]

ApiPullRequest == [chat |-> << >>, cursor |-> 0, limit |-> 0, reverse |-> FALSE]

Bind(f, struct) == [k \in DOMAIN struct |-> IF k \in DOMAIN f THEN f[k] ELSE struct[k]]

RpcSendRequest(r, now) ==
  [Message |-> [Chat |-> r.chat, Text |-> r.text, Sender |-> r.sender, SendTime |-> now]]

\* Reverse is a pointer in the RPC, and always set.
RpcPullRequest(r) ==
  [Chat |-> r.chat, Cursor |-> r.cursor, Limit |-> r.limit, Reverse |-> r.reverse]

-----------------------------------------------------------------------------
(* PullResponseRest, api.Message and their JSON                            *)

OrZero(pointer, zero) == IF pointer = Nil THEN zero ELSE pointer

GetHasMore(resp)    == OrZero(resp.HasMore, FALSE)
GetNextCursor(resp) == OrZero(resp.NextCursor, 0)

\* A struct without the fields tagged omitempty that have the zero value.
Json(struct, zero, omitempty) ==
  [k \in {f \in DOMAIN struct : f \notin omitempty \/ struct[f] # zero[f]} |-> struct[k]]

ApiMessage == [chat |-> << >>, text |-> << >>, sender |-> << >>, send_time |-> 0]

MessageJson(m) ==
  Json([chat |-> m.Chat, text |-> m.Text, sender |-> m.Sender, send_time |-> m.SendTime],
       ApiMessage, DOMAIN ApiMessage)

\* Made empty, not nil: null is not what an empty page looks like.
ApiMessages(list) == IF list = Nil THEN << >> ELSE [i \in DOMAIN list |-> MessageJson(list[i])]

NoPage == [messages |-> << >>, has_more |-> FALSE, next_cursor |-> 0]

\* Variant: the tags of api.PullResponse, all omitempty.
OmitAll == DOMAIN NoPage

OmitEmpty == {"next_cursor"}

PullResponseRest(resp) ==
  Json([messages |-> ApiMessages(resp.Messages), has_more |-> GetHasMore(resp),
        next_cursor |-> GetNextCursor(resp)], NoPage, OmitEmpty)

-----------------------------------------------------------------------------
HInit == CInit /\ form = Nil /\ reply = Nil

\* A parameter does not parse.
Refuse ==
  /\ step = "start" /\ form = Nil
  /\ form' = Error
  /\ reply' = [status |-> 400, body |-> Nil]
  /\ UNCHANGED cvars

Ask ==
  /\ form = Nil
  /\ Call
  /\ \/ /\ method' = "Send"
        /\ \E f \in SendForms, now \in Now :
             form' = f /\ given' = RpcSendRequest(Bind(f, ApiSendRequest), now)
     \/ /\ method' = "Pull"
        /\ \E f \in PullForms : form' = f /\ given' = RpcPullRequest(Bind(f, ApiPullRequest))
  /\ UNCHANGED reply

Answer ==
  /\ step \in {"done", "error"} /\ reply = Nil
  /\ reply' =
       IF step = "error" \/ got.Code # 0 THEN [status |-> 500, body |-> Nil]
       ELSE [status |-> 200,
             body   |-> IF method = "Pull" THEN PullResponseRest(got) ELSE Nil]
  /\ UNCHANGED <<cvars, form>>

HNext == Refuse \/ Ask \/ (Carry /\ UNCHANGED <<form, reply>>) \/ Answer

HSpec == HInit /\ [][HNext]_hvars

-----------------------------------------------------------------------------
(* Properties                                                              *)

\* What a reader of JSON takes a field for.
Reads(json, field, zero) == IF field \in DOMAIN json THEN json[field] ELSE zero

(***************************************************************************)
(* The user of a pull sees the page the handler answered with: messages    *)
(* and has_more are spelled out even if empty and false (README.md:35),    *)
(* next_cursor is there exactly when there is more, and each message reads *)
(* as it was served, fields left out included.                             *)
(***************************************************************************)
PageShown ==
  reply # Nil /\ reply.status = 200 /\ method = "Pull" =>
    LET body == reply.body IN
    /\ {"messages", "has_more"} \subseteq DOMAIN body
    /\ body.has_more = served.HasMore
    /\ ("next_cursor" \in DOMAIN body) <=> served.HasMore
    /\ served.HasMore => body.next_cursor = served.NextCursor
    /\ Len(body.messages) = Len(served.Messages)
    /\ \A i \in DOMAIN body.messages :
         LET m == body.messages[i] IN
         EqualMessage(served.Messages[i],
           [Chat |-> Reads(m, "chat", << >>), Text |-> Reads(m, "text", << >>),
            Sender |-> Reads(m, "sender", << >>), SendTime |-> Reads(m, "send_time", 0)])

=============================================================================
