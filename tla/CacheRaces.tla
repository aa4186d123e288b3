----------------------------- MODULE CacheRaces -----------------------------
(***************************************************************************)
(* What makes a reverse cursor stale.  Nothing locks the messages while a  *)
(* Pull works out the cursors it caches (handler.go:88-108), so a Send     *)
(* that commits meanwhile invalidates too early.  Two history variables    *)
(* note where that happened; the steps are those of IMService.             *)
(***************************************************************************)
EXTENDS IMService

VARIABLES
  raced,    \* raced[h]: what the Pull of h holds may be out of date
  tainted   \* the cached cursors that may be so

rvars == <<vars, raced, tainted>>

RInit ==
  /\ Init
  /\ raced = [h \in Handlers |-> FALSE]
  /\ tainted = {}

\* The Pull of h holds what it has read, a cursor or a page.
Holds(h) == hit'[h] # None \/ page'[h] # << >>

\* A message of the chat that h pulls is committed in this step.
Overtaken(h) == \E m \in messages' \ messages : m.chat = req[h].chat

\* A Send to the chat has found the cursors it deletes and is not over.
Deleting(chat) ==
  \E g \in Handlers : pc[g] \in {"Delete", "Commit"} /\ row[g].chat = chat

\* The handler that inserts a cursor in this step, if one does.
Inserts(h) == pc[h] \in CacheSteps /\ pc'[h] # pc[h] /\ cursors' # cursors

History ==
  /\ raced' = [h \in Handlers |->
                 Holds(h) /\ (raced[h] \/ Overtaken(h) \/ hit'[h] \in tainted)]
  /\ tainted' = {e \in cursors' :
                   IF e \in cursors
                   THEN e \in tainted
                   ELSE Deleting(e.chat) \/ \E h \in Handlers : Inserts(h) /\ raced[h]}

RSpec == RInit /\ [][Next /\ History]_rvars

-----------------------------------------------------------------------------
(* Properties                                                              *)

(***************************************************************************)
(* A reverse cursor that no race has touched names the message at its      *)
(* position.  Only a Pull that holds what it read while a Send to the chat *)
(* commits, one that inserts while a Send is deleting, or one that started *)
(* from such a cursor can leave a stale one.  Needs distinct send times.   *)
(***************************************************************************)
StaleOnlyByRace ==
  \A e \in cursors : e.reverse /\ e \notin tainted => e.cursor = PositionOf(e)

(***************************************************************************)
(* A reverse pull reads the page at its cursor unless it goes through a    *)
(* tainted cursor or a Send to the chat commits between its two reads.     *)
(***************************************************************************)
UnracedExact ==
  [][\A h \in Handlers :
       req[h] # None /\ req[h].reverse /\ ~ raced[h] => SamePage(h)]_rvars

=============================================================================
