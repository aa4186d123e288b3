----------------------------- MODULE MessageLog -----------------------------
(***************************************************************************)
(* What the service promises to whoever sends a message, without handlers, *)
(* transactions or timeouts: a log of stored messages and what the user of *)
(* each call was told.  A success means stored.  A failure leaves it open: *)
(* the message may be in the log, never be, or come later.  One call       *)
(* stores one message at most.                                             *)
(***************************************************************************)
CONSTANTS Calls, Rows

VARIABLES
  log,    \* the stored messages: the call that sent each and its row
  told    \* told[c]: what the user of call c knows

Tellings == {"new", "waiting", "ok", "failed"}

Stored(c) == \E i \in Rows : <<c, i>> \in log

LogInit ==
  /\ log = {}
  /\ told = [c \in Calls |-> "new"]

Tell(c, from, to) ==
  /\ told[c] = from
  /\ told' = [told EXCEPT ![c] = to]
  /\ log' = log

Call(c) == Tell(c, "new", "waiting")

Succeed(c) == Stored(c) /\ Tell(c, "waiting", "ok")

Fail(c) == Tell(c, "new", "failed") \/ Tell(c, "waiting", "failed")

\* At any time after the call, even once its user has been told of a failure.
Store(c) ==
  /\ told[c] \in {"waiting", "failed"}
  /\ ~ Stored(c)
  /\ \E i \in Rows : log' = log \union {<<c, i>>}
  /\ told' = told

LogNext == \E c \in Calls : Call(c) \/ Succeed(c) \/ Fail(c) \/ Store(c)

LogSpec == LogInit /\ [][LogNext]_<<log, told>>

=============================================================================
