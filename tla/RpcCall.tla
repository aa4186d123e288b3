------------------------------ MODULE RpcCall -------------------------------
(***************************************************************************)
(* One RPC through the generated glue, kitex_gen/rpc/imservice, and the    *)
(* codec: the client wraps the request in the arguments, they are written, *)
(* travel and are read; the glue calls the handler and wraps its response  *)
(* in the result, which goes back the same way.  Kitex is external: it     *)
(* picks the writer and the reader at each end and turns an error into an  *)
(* exception the client gets in place of a response.                       *)
(***************************************************************************)
EXTENDS ThriftCodec

CONSTANTS
  SendRequests, PullRequests,    \* what the HTTP server asks
  SendOutcomes, PullOutcomes,    \* what handler.go returns: resp, and err or not
  MaxNewer                       \* how many fields newer peers add to a call

\* main.go:59,84 and handler.go:22,63: a request to send has its message, and a
\* response without an error has code 0.
ASSUME CallAssumption ==
  /\ SendRequests \subseteq SendRequestType /\ PullRequests \subseteq PullRequestType
  /\ \A o \in SendOutcomes : o.resp \in SendResponseType
  /\ \A o \in PullOutcomes : o.resp \in PullResponseType
  /\ \A o \in SendOutcomes \cup PullOutcomes : o.err \in BOOLEAN /\ (o.err \/ o.resp.Code = 0)
  /\ MaxNewer \in Nat

VARIABLES
  step,      \* where the call stands
  method,    \* "Send" or "Pull"
  given,     \* the request the client passes
  wire,      \* the struct under way
  room,      \* the bytes reserved for it, Nil if it is written to a stream
  newer,     \* how many fields a newer peer has added
  damaged,   \* the connection broke while it was under way
  heard,     \* the request the handler sees
  served,    \* the response the handler gives
  got        \* the response the client returns

cvars == <<step, method, given, wire, room, newer, damaged, heard, served, got>>

Steps == {"start", "calling", "sent", "arrived", "answering", "answered", "done", "error"}

CInit ==
  /\ step = "start" /\ method = "Send" /\ given = Nil /\ wire = << >>
  /\ room = Nil /\ newer = 0 /\ damaged = FALSE
  /\ heard = Nil /\ served = Nil /\ got = Nil

-----------------------------------------------------------------------------
\* _args.Req = req
Call ==
  /\ step = "start"
  /\ \/ method' = "Send" /\ \E r \in SendRequests : given' = r
     \/ method' = "Pull" /\ \E r \in PullRequests : given' = r
  /\ step' = "calling"
  /\ UNCHANGED <<wire, room, newer, damaged, heard, served, got>>

\* Written to a stream, or into a buffer of the length announced.
Stream(w)    == wire' = w /\ room' = Nil
Buffer(w, l) == wire' = w /\ room' = l

WriteArgs ==
  /\ step = "calling"
  /\ LET args == [Req |-> given] IN
     IF method = "Send"
     THEN Stream(WriteSendArgs(args)) \/ Buffer(FastWriteSendArgs(args), SendArgsLength(args))
     ELSE Stream(WritePullArgs(args)) \/ Buffer(FastWritePullArgs(args), PullArgsLength(args))
  /\ step' = "sent"
  /\ UNCHANGED <<method, given, newer, damaged, heard, served, got>>

UnderWay == step \in {"sent", "answered"} /\ ~ damaged

\* A field that no reader knows, and what w is with one more of them.
Added == Field(9, "I64", 0)

OneMore(w) == {SubSeq(w, 1, i) \o Added \o SubSeq(w, i + 1, Len(w)) : i \in 0 .. Len(w)}

\* The structs in w, and w with another value in its field i.
Inner(w) == {i \in DOMAIN w : w[i].type = "STRUCT"}

With(w, i, v) == [w EXCEPT ![i].val = v]

\* The values of f with one more in a struct: its own, or one of its list.
Within(f) ==
  CASE f.type = "STRUCT" -> OneMore(f.val)
    [] f.type = "LIST"   ->
         UNION {{[f.val EXCEPT ![j] = v] : v \in OneMore(f.val[j])} : j \in DOMAIN f.val}
    [] OTHER             -> {}

\* A request or a response with one more, in it or in one of its messages.
NewerBody(w) ==
  OneMore(w) \cup UNION {{With(w, i, v) : v \in Within(w[i])} : i \in DOMAIN w}

\* A peer built from a newer IDL: a field the reader does not know, in any struct
\* and at any place in it, as many times as there are such fields.
Newer ==
  /\ UnderWay
  /\ newer < MaxNewer /\ newer' = newer + 1
  /\ \/ wire' \in OneMore(wire)
     \/ \E i \in Inner(wire) : \E v \in NewerBody(wire[i].val) :
          wire' = With(wire, i, v)
  /\ room' = Nil
  /\ UNCHANGED <<step, method, given, damaged, heard, served, got>>

\* The connection breaks before a field, within a struct or before the stop.
Break ==
  /\ UnderWay
  /\ damaged' = TRUE
  /\ room' = Nil
  /\ \/ \E n \in 0 .. Len(wire) : wire' = SubSeq(wire, 1, n) \o End
     \/ \E n \in Inner(wire) : \E k \in 0 .. Len(wire[n].val) :
          wire' = [SubSeq(wire, 1, n) EXCEPT ![n].val = SubSeq(@, 1, k) \o End] \o End
  /\ UNCHANGED <<step, method, given, newer, heard, served, got>>

Fail == step' = "error" /\ UNCHANGED <<heard, got>>

Hear(args) ==
  IF args = Error THEN Fail ELSE step' = "arrived" /\ heard' = args.Req /\ got' = got

ReadArgs ==
  /\ step = "sent"
  /\ IF method = "Send"
     THEN Hear(ReadSendArgs(wire)) \/ Hear(FastReadSendArgs(wire).val)
     ELSE Hear(ReadPullArgs(wire)) \/ Hear(FastReadPullArgs(wire).val)
  /\ UNCHANGED <<method, given, wire, room, newer, damaged, served>>

\* Variant: the response counts, whatever the error.
ErrorIgnored(o) == FALSE

\* "if err != nil { return err }": the response is dropped.
Dropped(o) == o.err

\* sendHandler and pullHandler.
Handle ==
  /\ step = "arrived"
  /\ \E o \in IF method = "Send" THEN SendOutcomes ELSE PullOutcomes :
       IF Dropped(o) THEN step' = "error" /\ served' = Nil
                     ELSE step' = "answering" /\ served' = o.resp
  /\ UNCHANGED <<method, given, wire, room, newer, damaged, heard, got>>

WriteResult ==
  /\ step = "answering"
  /\ LET result == [Success |-> served] IN
     IF method = "Send"
     THEN \/ Stream(WriteSendResult(result))
          \/ Buffer(FastWriteSendResult(result), SendResultLength(result))
     ELSE \/ Stream(WritePullResult(result))
          \/ Buffer(FastWritePullResult(result), PullResultLength(result))
  /\ step' = "answered"
  /\ UNCHANGED <<method, given, newer, damaged, heard, served, got>>

GetSuccess(result) == result.Success

Receive(result) ==
  IF result = Error THEN Fail
  ELSE step' = "done" /\ got' = GetSuccess(result) /\ heard' = heard

ReadResult ==
  /\ step = "answered"
  /\ IF method = "Send"
     THEN Receive(ReadSendResult(wire)) \/ Receive(FastReadSendResult(wire).val)
     ELSE Receive(ReadPullResult(wire)) \/ Receive(FastReadPullResult(wire).val)
  /\ UNCHANGED <<method, given, wire, room, newer, damaged, served>>

Carry ==
  \/ WriteArgs \/ Newer \/ Break \/ ReadArgs
  \/ Handle \/ WriteResult \/ ReadResult

CNext == Call \/ Carry

CSpec == CInit /\ [][CNext]_cvars

-----------------------------------------------------------------------------
(* Properties                                                              *)

(***************************************************************************)
(* The handler sees the request the HTTP server made, whichever writer and *)
(* reader were used and whatever fields a newer peer has added.            *)
(***************************************************************************)
RequestArrives ==
  step \in {"arrived", "answering", "answered", "done"} =>
    IF method = "Send" THEN EqualSendRequest(heard, given) ELSE EqualPullRequest(heard, given)

(***************************************************************************)
(* A call that returns without error returns a response, never nil (the    *)
(* HTTP server reads resp.Code at once, http-server/main.go:70,96): the    *)
(* one the handler gave, with code 0.                                      *)
(***************************************************************************)
ResponseArrives ==
  step = "done" =>
    /\ got # Nil /\ got.Code = 0
    /\ IF method = "Send" THEN EqualSendResponse(got, served) ELSE EqualPullResponse(got, served)

(***************************************************************************)
(* The buffer BLength reserves is what FastWriteNocopy fills, so that no   *)
(* write falls outside of it and no garbage follows the struct.            *)
(***************************************************************************)
BufferFits == room # Nil => room = StructSize(wire, Size)

(***************************************************************************)
(* A call fails only because the connection broke or because the handler   *)
(* returned an error: no reader ever loses its place in a struct or misses *)
(* a field, whichever writer wrote it and whatever a newer peer has added. *)
(***************************************************************************)
FailsForCause == step = "error" => damaged \/ (heard # Nil /\ served = Nil)

(***************************************************************************)
(* Half a struct is never taken for a whole one: if the connection breaks  *)
(* under way the call ends in an error.                                    *)
(***************************************************************************)
BreakNoticed == damaged => step \in {"sent", "answered", "error"}

=============================================================================
