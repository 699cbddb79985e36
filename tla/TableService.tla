---------------------------- MODULE TableService ----------------------------
(***************************************************************************)
(* What the instances of OpenHoldem promise each other: a poker table is   *)
(* played by at most one of them.  An instance takes a table that nobody   *)
(* plays, or leaves the table it plays; nothing is said about how the      *)
(* instances find out.  AutoConnector implements this specification.       *)
(***************************************************************************)
CONSTANTS Instance,   \* the OpenHoldem processes of one machine
          Window,     \* the top-level windows of poker tables
          NoWindow    \* the HWND NULL

VARIABLE serving      \* serving[i]: the table instance i plays, or NoWindow

Init == serving = [i \in Instance |-> NoWindow]

\* Instance i starts to play table w.  It may have played another one before.
Serve(i, w) ==
  /\ \A j \in Instance : serving[j] # w
  /\ serving' = [serving EXCEPT ![i] = w]

\* Instance i stops playing, because it disconnects, exits or dies.
Leave(i) ==
  /\ serving[i] # NoWindow
  /\ serving' = [serving EXCEPT ![i] = NoWindow]

Next == \E i \in Instance : Leave(i) \/ \E w \in Window : Serve(i, w)

Spec == Init /\ [][Next]_serving
=============================================================================
