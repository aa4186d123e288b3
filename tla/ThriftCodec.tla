---------------------------- MODULE ThriftCodec -----------------------------
(***************************************************************************)
(* The generated Thrift codec, kitex_gen/rpc: how the structs of           *)
(* idl_rpc.thrift are written and read.                                    *)
(*                                                                         *)
(* Each struct has two writers, Write (idl_rpc.go), to a protocol, and     *)
(* FastWriteNocopy (k-idl_rpc.go), into a buffer of BLength bytes, and two *)
(* readers, Read and FastRead.  Which are used is Kitex's choice, and may  *)
(* differ at the two ends.                                                 *)
(*                                                                         *)
(* A struct in memory is a record, a pointer that is nil is Nil.  On the   *)
(* wire it is the sequence of its fields, each an id, a type and a value;  *)
(* a field of type "END" says that the bytes end before the struct does.   *)
(* A string is the sequence of its bytes.                                  *)
(***************************************************************************)
EXTENDS Integers, SequencesExt

CONSTANTS Nil, Error

Field(id, type, val) == <<[id |-> id, type |-> type, val |-> val]>>

End == Field(0, "END", 0)

\* A field that is left out when its pointer is nil.
Optional(id, type, val) == IF val = Nil THEN << >> ELSE Field(id, type, val)

\* The written fields of p, none if p is nil.
Unless(p, fields) == IF p = Nil THEN << >> ELSE fields

\* A struct type: its zero value and, by field id, names, types, who is required.
Struct(zero, names, types, required) ==
  [zero |-> zero, names |-> names, types |-> types, required |-> required]

Known(S, f) == f.id \in DOMAIN S.types /\ f.type = S.types[f.id]

-----------------------------------------------------------------------------
(* What is generated alike for every struct.                               *)

\* Bytes: a field's type and id, the stop that ends a struct, a list's head.
FieldBegin == 3
FieldStop  == 1
ListBegin  == 5

StringLength(s) == 4 + Len(s)

Sum(s) ==
  LET upTo[n \in 0 .. Len(s)] == IF n = 0 THEN 0 ELSE upTo[n - 1] + s[n]
  IN upTo[Len(s)]

\* The bytes of a field's value on the wire, if it is neither a struct nor a list.
PlainSize(f) ==
  CASE f.type = "STRING" -> StringLength(f.val)
    [] f.type = "I64"    -> 8
    [] f.type = "I32"    -> 4
    [] f.type = "BOOL"   -> 1
    [] f.type = "END"    -> 0

\* The bytes of a struct: a head and Size(f) bytes for each field f, and the stop.
StructSize(w, Size(_)) == FieldStop + Sum([i \in DOMAIN w |-> FieldBegin + Size(w[i])])

\* The bytes of a field's value, if Size measures the fields one level down.
Nested(f, Size(_)) ==
  CASE f.type = "STRUCT" -> StructSize(f.val, Size)
    [] f.type = "LIST"   ->
         ListBegin + Sum([i \in DOMAIN f.val |-> StructSize(f.val[i], Size)])
    [] OTHER             -> PlainSize(f)

\* A field of a request or a response, whose messages hold plain fields only;
\* any field, down to those of arguments and results.
BodySize(f) == Nested(f, PlainSize)
Size(f)     == Nested(f, BodySize)

\* Variant: the end of the bytes is taken for the end of the struct.
NeverCut(f) == FALSE

Cut(f) == f.type = "END"

KnownFields(S, w) == {i \in DOMAIN w : Known(S, w[i])}

Seen(S, w) == {w[i].id : i \in KnownFields(S, w)}

Latest(at) == CHOOSE i \in at : \A j \in at : j <= i

(***************************************************************************)
(* What the loop of Read makes of the fields of w: an error if the bytes   *)
(* end, if a known field's value is one or if a required field is not      *)
(* there; else the struct in which each field has the value last read for  *)
(* it, or the zero value.  value is what was read for each known field.    *)
(***************************************************************************)
ReadLoop(S, w, value) ==
  IF \/ \E i \in DOMAIN w : Cut(w[i])
     \/ \E i \in KnownFields(S, w) : value[i] = Error
     \/ ~ S.required \subseteq Seen(S, w)
  THEN Error
  ELSE [k \in DOMAIN S.zero |->
          LET at == {i \in KnownFields(S, w) : S.names[w[i].id] = k}
          IN IF at = {} THEN S.zero[k] ELSE value[Latest(at)]]

(***************************************************************************)
(* FastRead has the bytes in a slice: each step says how many it has used, *)
(* and the next field is read at buf[offset:], which their sum has reached.*)
(* If a step is wrong by a byte it reads there what is not a field, and    *)
(* the struct is lost: an error.                                           *)
(***************************************************************************)
FastReadLoop(S, w, value) ==
  LET used == [i \in DOMAIN w |-> IF Known(S, w[i]) THEN value[i].offset ELSE Size(w[i])]
  IN [val    |-> IF \A i \in DOMAIN w : used[i] = Size(w[i])
                 THEN ReadLoop(S, w, [i \in KnownFields(S, w) |-> value[i].val])
                 ELSE Error,
      offset |-> FieldStop + Sum([i \in DOMAIN w |-> FieldBegin + used[i]])]

\* Variant: the length in front of a string is not counted.
FastPlainBare(f) ==
  [val |-> f.val, offset |-> IF f.type = "STRING" THEN Len(f.val) ELSE PlainSize(f)]

\* A string, a number or a boolean.
Plain(f)     == f.val
FastPlain(f) == [val |-> f.val, offset |-> PlainSize(f)]

\* A list, of the elements read.
ReadList(read) == IF \E i \in DOMAIN read : read[i] = Error THEN Error ELSE read

FastReadList(read) ==
  [val    |-> ReadList([i \in DOMAIN read |-> read[i].val]),
   offset |-> ListBegin + Sum([i \in DOMAIN read |-> read[i].offset])]

-----------------------------------------------------------------------------
(* Message                                                                 *)

Message ==
  Struct([Chat |-> << >>, Text |-> << >>, Sender |-> << >>, SendTime |-> 0],
         <<"Chat", "Text", "Sender", "SendTime">>,
         <<"STRING", "STRING", "STRING", "I64">>, {})

ReadMessage(w) ==
  ReadLoop(Message, w, [i \in KnownFields(Message, w) |-> Plain(w[i])])

FastReadMessage(w) ==
  FastReadLoop(Message, w, [i \in KnownFields(Message, w) |-> FastPlain(w[i])])

WriteMessage(p) == Unless(p,
  Field(1, "STRING", p.Chat) \o Field(2, "STRING", p.Text)
    \o Field(3, "STRING", p.Sender) \o Field(4, "I64", p.SendTime))

FastWriteMessage(p) == Unless(p,
  Field(4, "I64", p.SendTime) \o Field(1, "STRING", p.Chat)
    \o Field(2, "STRING", p.Text) \o Field(3, "STRING", p.Sender))

\* Variant: a field forgotten.
MessageLengthShort(p) == FieldStop +
  IF p = Nil THEN 0
  ELSE (FieldBegin + StringLength(p.Chat)) + (FieldBegin + StringLength(p.Text))
         + (FieldBegin + 8)

MessageLength(p) == FieldStop +
  IF p = Nil THEN 0
  ELSE (FieldBegin + StringLength(p.Chat)) + (FieldBegin + StringLength(p.Text))
         + (FieldBegin + StringLength(p.Sender)) + (FieldBegin + 8)

EqualMessage(p, q) ==
  \/ p = Nil /\ q = Nil
  \/ /\ p # Nil /\ q # Nil
     /\ p.Chat = q.Chat /\ p.Text = q.Text
     /\ p.Sender = q.Sender /\ p.SendTime = q.SendTime

-----------------------------------------------------------------------------
(* SendRequest.  A nil message is written as a message without fields.     *)

SendRequest == Struct([Message |-> Nil], <<"Message">>, <<"STRUCT">>, {1})

ReadSendRequest(w) ==
  ReadLoop(SendRequest, w, [i \in KnownFields(SendRequest, w) |-> ReadMessage(w[i].val)])

FastReadSendRequest(w) ==
  FastReadLoop(SendRequest, w, [i \in KnownFields(SendRequest, w) |-> FastReadMessage(w[i].val)])

WriteSendRequest(p) == Unless(p, Field(1, "STRUCT", WriteMessage(p.Message)))

FastWriteSendRequest(p) == Unless(p, Field(1, "STRUCT", FastWriteMessage(p.Message)))

SendRequestLength(p) == FieldStop +
  IF p = Nil THEN 0 ELSE FieldBegin + MessageLength(p.Message)

EqualSendRequest(p, q) ==
  \/ p = Nil /\ q = Nil
  \/ p # Nil /\ q # Nil /\ EqualMessage(p.Message, q.Message)

-----------------------------------------------------------------------------
(* SendResponse                                                            *)

SendResponse ==
  Struct([Code |-> 0, Msg |-> << >>], <<"Code", "Msg">>, <<"I32", "STRING">>, {1, 2})

ReadSendResponse(w) ==
  ReadLoop(SendResponse, w, [i \in KnownFields(SendResponse, w) |-> Plain(w[i])])

FastReadSendResponse(w) ==
  FastReadLoop(SendResponse, w, [i \in KnownFields(SendResponse, w) |-> FastPlain(w[i])])

WriteSendResponse(p) ==
  Unless(p, Field(1, "I32", p.Code) \o Field(2, "STRING", p.Msg))

FastWriteSendResponse(p) ==
  Unless(p, Field(1, "I32", p.Code) \o Field(2, "STRING", p.Msg))

SendResponseLength(p) == FieldStop +
  IF p = Nil THEN 0 ELSE (FieldBegin + 4) + (FieldBegin + StringLength(p.Msg))

EqualSendResponse(p, q) ==
  \/ p = Nil /\ q = Nil
  \/ p # Nil /\ q # Nil /\ p.Code = q.Code /\ p.Msg = q.Msg

-----------------------------------------------------------------------------
(* PullRequest                                                             *)

PullRequest ==
  Struct([Chat |-> << >>, Cursor |-> 0, Limit |-> 0, Reverse |-> Nil],
         <<"Chat", "Cursor", "Limit", "Reverse">>,
         <<"STRING", "I64", "I32", "BOOL">>, {1, 2, 3})

ReadPullRequest(w) ==
  ReadLoop(PullRequest, w, [i \in KnownFields(PullRequest, w) |-> Plain(w[i])])

FastReadPullRequest(w) ==
  FastReadLoop(PullRequest, w, [i \in KnownFields(PullRequest, w) |-> FastPlain(w[i])])

WritePullRequest(p) == Unless(p,
  Field(1, "STRING", p.Chat) \o Field(2, "I64", p.Cursor)
    \o Field(3, "I32", p.Limit) \o Optional(4, "BOOL", p.Reverse))

\* Variant: a pointer to false taken for nil.
FastWritePullRequestIfTrue(p) == Unless(p,
  Field(2, "I64", p.Cursor) \o Field(3, "I32", p.Limit)
    \o (IF p.Reverse = TRUE THEN Field(4, "BOOL", TRUE) ELSE << >>)
    \o Field(1, "STRING", p.Chat))

FastWritePullRequest(p) == Unless(p,
  Field(2, "I64", p.Cursor) \o Field(3, "I32", p.Limit)
    \o Optional(4, "BOOL", p.Reverse) \o Field(1, "STRING", p.Chat))

PullRequestLength(p) == FieldStop +
  IF p = Nil THEN 0
  ELSE (FieldBegin + StringLength(p.Chat)) + (FieldBegin + 8) + (FieldBegin + 4)
         + (IF p.Reverse = Nil THEN 0 ELSE FieldBegin + 1)

EqualPullRequest(p, q) ==
  \/ p = Nil /\ q = Nil
  \/ /\ p # Nil /\ q # Nil
     /\ p.Chat = q.Chat /\ p.Cursor = q.Cursor
     /\ p.Limit = q.Limit /\ p.Reverse = q.Reverse

-----------------------------------------------------------------------------
(* PullResponse.  A list that is nil is not written, an empty one is.      *)

PullResponse ==
  Struct([Code |-> 0, Msg |-> << >>, Messages |-> Nil, HasMore |-> Nil, NextCursor |-> Nil],
         <<"Code", "Msg", "Messages", "HasMore", "NextCursor">>,
         <<"I32", "STRING", "LIST", "BOOL", "I64">>, {1, 2})

ReadPullResponse(w) ==
  LET Value(f) ==
        IF f.type = "LIST" THEN ReadList([j \in DOMAIN f.val |-> ReadMessage(f.val[j])])
                           ELSE Plain(f)
  IN ReadLoop(PullResponse, w, [i \in KnownFields(PullResponse, w) |-> Value(w[i])])

FastReadPullResponse(w) ==
  LET Value(f) ==
        IF f.type = "LIST"
        THEN FastReadList([j \in DOMAIN f.val |-> FastReadMessage(f.val[j])])
        ELSE FastPlain(f)
  IN FastReadLoop(PullResponse, w, [i \in KnownFields(PullResponse, w) |-> Value(w[i])])

\* The elements of a slice, none if it is nil.
Elements(list) == IF list = Nil THEN << >> ELSE list

\* The list field, each element written by Write.
Listed(list, Write(_)) ==
  IF list = Nil THEN << >>
  ELSE Field(3, "LIST", [i \in DOMAIN list |-> Write(list[i])])

WritePullResponse(p) == Unless(p,
  Field(1, "I32", p.Code) \o Field(2, "STRING", p.Msg)
    \o Listed(p.Messages, WriteMessage)
    \o Optional(4, "BOOL", p.HasMore) \o Optional(5, "I64", p.NextCursor))

FastWritePullResponse(p) == Unless(p,
  Field(1, "I32", p.Code)
    \o Optional(4, "BOOL", p.HasMore) \o Optional(5, "I64", p.NextCursor)
    \o Field(2, "STRING", p.Msg) \o Listed(p.Messages, FastWriteMessage))

PullResponseLength(p) == FieldStop +
  IF p = Nil THEN 0
  ELSE (FieldBegin + 4) + (FieldBegin + StringLength(p.Msg))
         + (IF p.Messages = Nil THEN 0
            ELSE FieldBegin + ListBegin
                   + Sum([i \in DOMAIN p.Messages |-> MessageLength(p.Messages[i])]))
         + (IF p.HasMore = Nil THEN 0 ELSE FieldBegin + 1)
         + (IF p.NextCursor = Nil THEN 0 ELSE FieldBegin + 8)

\* A nil list equals an empty one.
EqualPullResponse(p, q) ==
  \/ p = Nil /\ q = Nil
  \/ /\ p # Nil /\ q # Nil
     /\ p.Code = q.Code /\ p.Msg = q.Msg
     /\ p.HasMore = q.HasMore /\ p.NextCursor = q.NextCursor
     /\ LET a == Elements(p.Messages)
            b == Elements(q.Messages)
        IN Len(a) = Len(b) /\ \A i \in DOMAIN a : EqualMessage(a[i], b[i])

-----------------------------------------------------------------------------
(* The arguments and results of the two methods: structs of one field, by  *)
(* convention with the id of the argument, and 0 for the result.           *)

Only(id, x) == [i \in {id} |-> x]

SendArgs == Struct([Req |-> Nil], Only(1, "Req"), Only(1, "STRUCT"), {})

ReadSendArgs(w) ==
  ReadLoop(SendArgs, w, [i \in KnownFields(SendArgs, w) |-> ReadSendRequest(w[i].val)])

FastReadSendArgs(w) ==
  FastReadLoop(SendArgs, w, [i \in KnownFields(SendArgs, w) |-> FastReadSendRequest(w[i].val)])

WriteSendArgs(p) == Field(1, "STRUCT", WriteSendRequest(p.Req))

FastWriteSendArgs(p) == Field(1, "STRUCT", FastWriteSendRequest(p.Req))

SendArgsLength(p) == FieldStop + FieldBegin + SendRequestLength(p.Req)

SendResult == Struct([Success |-> Nil], Only(0, "Success"), Only(0, "STRUCT"), {})

ReadSendResult(w) ==
  ReadLoop(SendResult, w, [i \in KnownFields(SendResult, w) |-> ReadSendResponse(w[i].val)])

FastReadSendResult(w) ==
  FastReadLoop(SendResult, w, [i \in KnownFields(SendResult, w) |-> FastReadSendResponse(w[i].val)])

WriteSendResult(p) ==
  IF p.Success = Nil THEN << >> ELSE Field(0, "STRUCT", WriteSendResponse(p.Success))

FastWriteSendResult(p) ==
  IF p.Success = Nil THEN << >> ELSE Field(0, "STRUCT", FastWriteSendResponse(p.Success))

SendResultLength(p) == FieldStop +
  IF p.Success = Nil THEN 0 ELSE FieldBegin + SendResponseLength(p.Success)

PullArgs == Struct([Req |-> Nil], Only(2, "Req"), Only(2, "STRUCT"), {})

ReadPullArgs(w) ==
  ReadLoop(PullArgs, w, [i \in KnownFields(PullArgs, w) |-> ReadPullRequest(w[i].val)])

FastReadPullArgs(w) ==
  FastReadLoop(PullArgs, w, [i \in KnownFields(PullArgs, w) |-> FastReadPullRequest(w[i].val)])

WritePullArgs(p) == Field(2, "STRUCT", WritePullRequest(p.Req))

FastWritePullArgs(p) == Field(2, "STRUCT", FastWritePullRequest(p.Req))

PullArgsLength(p) == FieldStop + FieldBegin + PullRequestLength(p.Req)

PullResult == Struct([Success |-> Nil], Only(0, "Success"), Only(0, "STRUCT"), {})

ReadPullResult(w) ==
  ReadLoop(PullResult, w, [i \in KnownFields(PullResult, w) |-> ReadPullResponse(w[i].val)])

FastReadPullResult(w) ==
  FastReadLoop(PullResult, w, [i \in KnownFields(PullResult, w) |-> FastReadPullResponse(w[i].val)])

WritePullResult(p) ==
  IF p.Success = Nil THEN << >> ELSE Field(0, "STRUCT", WritePullResponse(p.Success))

FastWritePullResult(p) ==
  IF p.Success = Nil THEN << >> ELSE Field(0, "STRUCT", FastWritePullResponse(p.Success))

PullResultLength(p) == FieldStop +
  IF p.Success = Nil THEN 0 ELSE FieldBegin + PullResponseLength(p.Success)

-----------------------------------------------------------------------------
(* What the fields hold in memory; Reverse and the list, HasMore and       *)
(* NextCursor of a response are pointers that may be nil.                  *)

Strings == Seq(0 .. 255)

Messages == [Chat : Strings, Text : Strings, Sender : Strings, SendTime : Int]

SendRequestType == [Message : Messages]

SendResponseType == [Code : Int, Msg : Strings]

PullRequestType ==
  [Chat : Strings, Cursor : Int, Limit : Int, Reverse : BOOLEAN \cup {Nil}]

PullResponseType ==
  [Code : Int, Msg : Strings, Messages : Seq(Messages) \cup {Nil},
   HasMore : BOOLEAN \cup {Nil}, NextCursor : Int \cup {Nil}]

Data ==
  Strings \cup Int \cup BOOLEAN \cup Messages \cup Seq(Messages)
    \cup SendRequestType \cup PullRequestType
    \cup SendResponseType \cup PullResponseType
    \cup [Req : SendRequestType] \cup [Req : PullRequestType]
    \cup [Success : SendResponseType] \cup [Success : PullResponseType]

\* Nil and Error are values of their own.
ASSUME NilAssumption == Nil # Error /\ Nil \notin Data /\ Error \notin Data

=============================================================================
