---------------------------- MODULE MCPagination ----------------------------
(* Instances of Pagination for TLC.  The session is one more client, so    *)
(* the other clients submit well-formed requests only: MCIMService has the *)
(* rest.                                                                   *)
EXTENDS Pagination, TLC

CONSTANTS Times, Limits, MaxCursor

MCNames == {1, 2}
MCWords == {"hi"}

MCSends ==
  {[chat |-> <<2, 1>>, text |-> [body |-> "hi", padded |-> FALSE],
    sender |-> 2, sendTime |-> t] : t \in Times}

MCPulls(directions) ==
  {[chat |-> <<1, 2>>, cursor |-> c, limit |-> l, reverse |-> r] :
     c \in 0 .. MaxCursor, l \in Limits, r \in directions}

BothWays == MCPulls(BOOLEAN)
Forward  == MCPulls({FALSE})
Backward == MCPulls({TRUE})

MCChat == <<2, 1>>

HandlerSymmetry == Permutations(Handlers)

=============================================================================
