----------------------------- MODULE MCFormulas -----------------------------
(* Small bots for TLC. *)
EXTENDS Formulas

CONSTANTS alli, delay, call, sub

\* f$alli uses f$delay, and f$call a function that calls f$call again.
Recursive == [f \in Function |->
  CASE f = alli  -> <<delay, "early">>
    [] f = delay -> <<"late", "early">>
    [] f = call  -> <<"early", sub>>
    [] f = sub   -> <<"late", call>>]

MCResetFormulas   == <<call>>
MCSecondary       == <<delay>>
MCPrimary         == <<alli, call>>
MCHeartbeat       == <<sub>>
MCDebug           == <<sub>>
MCDecisions       == {<<call>>, <<sub>>}
MCBackupActions   == <<call>>
MCBackup          == [f \in Function |-> sub]
=============================================================================
