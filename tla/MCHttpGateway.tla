--------------------------- MODULE MCHttpGateway ----------------------------
(* Instances of HttpGateway for TLC: two users of one chat.                *)
EXTENDS HttpGateway, TLC

MCNames == {1, 2}
MCWords == {"hi"}

PostOf(sender, words) ==
  [chat |-> <<2, 1>>, text |-> [body |-> words, padded |-> TRUE], sender |-> sender]

GoodPosts == {PostOf(1, "hi")}
MCPosts   == GoodPosts \union {PostOf(1, "")}

GoodSends == {Stamped(p, t) : p \in GoodPosts, t \in 0 .. MaxTime}
MCSends   == {Stamped(p, t) : p \in MCPosts, t \in 0 .. MaxTime}

WholePull == [chat |-> <<1, 2>>, cursor |-> 0, limit |-> 0, reverse |-> FALSE]
BadPull   == [WholePull EXCEPT !.limit = -1]

GoodPulls == {WholePull}
MCPulls   == {WholePull, BadPull}

GatewaySymmetry == Permutations(Handlers) \union Permutations(Calls)

=============================================================================
