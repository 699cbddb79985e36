------------------------------ MODULE PlayerTurn ------------------------------
(***************************************************************************)
(* What the table and the history of the bot get out of a turn of the      *)
(* autoplayer: decisions are executed until the table has received one     *)
(* action; nothing is said about buttons, boxes and windows.  BetSequence  *)
(* implements this specification.                                          *)
(***************************************************************************)
CONSTANTS Action,    \* what may be received, and registered
          NoAction

VARIABLES phase,     \* "waiting" for a heartbeat, "acting", or the turn is "over"
          received,  \* what the table has received in this turn
          booked     \* what the last decision has left in the history

vars == <<phase, received, booked>>

Init == phase = "waiting" /\ received = NoAction /\ booked = NoAction

\* A heartbeat decides, again if the last decision had no effect on the table.
Decide ==
  /\ phase = "waiting" /\ received = NoAction
  /\ phase' = "acting" /\ booked' = NoAction
  /\ UNCHANGED received

\* The table receives an action, and this is the first one.
Receive(a) ==
  /\ phase = "acting" /\ received = NoAction
  /\ received' = a
  /\ UNCHANGED <<phase, booked>>

\* The action is registered.  It may have missed the table, but nothing else than
\* what is registered was received.
Finish(a) ==
  /\ phase = "acting" /\ received \in {NoAction, a}
  /\ phase' = "waiting" /\ booked' = a
  /\ received' \in {received, a}

\* There was nothing to be done, neither now nor before.
GiveUp ==
  /\ phase = "acting" /\ received = NoAction
  /\ phase' = "waiting"
  /\ UNCHANGED <<received, booked>>

EndTurn ==
  /\ phase = "waiting" /\ received # NoAction
  /\ phase' = "over" /\ booked' = NoAction
  /\ UNCHANGED received

Next == Decide \/ GiveUp \/ EndTurn \/ \E a \in Action : Receive(a) \/ Finish(a)

Spec == Init /\ [][Next]_vars
=============================================================================
