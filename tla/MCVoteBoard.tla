----------------------------- MODULE MCVoteBoard -----------------------------
(* Instance of VoteBoardObserver for TLC. *)
EXTENDS VoteBoardObserver, TLC

Symmetric == Permutations(Client)
=============================================================================
