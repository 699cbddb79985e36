--------------------------- MODULE MCBetSequence ---------------------------
(* Small tables and decisions for TLC. *)
EXTENDS BetSequence

MCBetPots == <<"betpot_1_1", "betpot_1_2">>

\* The decisions of OpenPPL come with all their backups, those of an OH-script
\* may be anything.
MCDecisions ==
  {{"allin", "betpot_1_1", "betpot_1_2", "raise", "call", "check", "fold"},
   {"betsize", "raise", "call", "check", "fold"},
   {"check", "fold"},
   {"allin", "betpot_1_2", "betsize"},
   {"betpot_1_1", "betsize", "call"}}

MCLayouts ==
  {{"allin", "raise", "call", "fold", "i3button", "i3edit", "i3slider"},
   {"raise", "check", "betpot_1_1", "i3button", "i3edit"},
   {"allin", "betpot_1_1", "betpot_1_2", "raise", "i3button", "i3edit"},
   {"call", "fold", "i3button", "i3edit", "i3slider"},
   {"call", "fold"}}

Map(a, b, c, s, d) == [allinconfirmation |-> a, betpot_raise |-> b,
                       confirmation |-> c, swag |-> s, doubleclick |-> d]

MCTablemaps ==
  {Map(TRUE, TRUE, "enter", "select and delete", FALSE),
   Map(FALSE, FALSE, "click bet", "select and delete", FALSE),
   Map(TRUE, FALSE, "click bet", "nothing", TRUE),
   Map(FALSE, TRUE, "nothing", "select and delete", FALSE),
   Map(TRUE, TRUE, "invalid", "nothing", FALSE)}
=============================================================================
