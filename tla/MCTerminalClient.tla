-------------------------- MODULE MCTerminalClient --------------------------
(* Instance of TerminalClient for TLC; clients are interchangeable. *)
EXTENDS TerminalClient, TLC
Symmetric == Permutations(Client)
\* Either all clients come and go, or all but one do and enter lines.
TwoOrSilent == entered = 0 \/ At("none") # {}
=============================================================================
