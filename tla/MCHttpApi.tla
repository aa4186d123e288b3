------------------------------ MODULE MCHttpApi -----------------------------
(* Instances of HttpApi and RpcCall for TLC: structs with short and empty  *)
(* strings, parameters there and not, pointers set and not, lists of none  *)
(* to two messages.                                                        *)
EXTENDS HttpApi

Str == {<< >>, <<1>>, <<1, 2>>}

MCNow == {0, 5}

\* One of the parameters may be missing, or all of them.
Partial(f) == {f, Restrict(f, {})} \cup {Restrict(f, DOMAIN f \ {n}) : n \in DOMAIN f}

MCSendForms ==
  UNION {Partial([chat |-> <<1, 2>>, text |-> t, sender |-> <<3>>]) : t \in Str}

MCPullForms ==
  UNION {Partial([chat |-> <<1, 2>>, cursor |-> n, limit |-> 2, reverse |-> r]) :
           n \in {0, 7}, r \in BOOLEAN}

MCSendRequests == {RpcSendRequest(Bind(f, ApiSendRequest), n) : f \in MCSendForms, n \in MCNow}

MCPullRequests == {RpcPullRequest(Bind(f, ApiPullRequest)) : f \in MCPullForms}

Outcome(resp, err) == [resp |-> resp, err |-> err]

MCSendOutcomes ==
  {Outcome([Code |-> 0, Msg |-> <<8>>], FALSE),
   Outcome([Code |-> 1, Msg |-> <<9, 9>>], TRUE),
   Outcome([Code |-> -1, Msg |-> << >>], TRUE)}

M1 == [Chat |-> <<1, 2>>, Text |-> <<4>>, Sender |-> <<1>>, SendTime |-> 5]
M2 == [Chat |-> <<1, 2>>, Text |-> <<4, 4>>, Sender |-> <<2>>, SendTime |-> 0]

Page(list, more, next) ==
  Outcome([Code |-> 0, Msg |-> <<8>>, Messages |-> list, HasMore |-> more,
           NextCursor |-> next], FALSE)

MCPullOutcomes ==
  {Page(<< >>, FALSE, Nil), Page(<<M1>>, FALSE, Nil), Page(<<M1, M2>>, TRUE, 2),
   Outcome([Code |-> 2, Msg |-> <<9>>, Messages |-> Nil, HasMore |-> Nil,
            NextCursor |-> Nil], TRUE)}

=============================================================================
