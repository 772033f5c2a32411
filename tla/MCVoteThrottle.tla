--------------------------- MODULE MCVoteThrottle ---------------------------
(* Instance of VoteThrottle for TLC; the bounds are in the cfg files. *)
EXTENDS VoteThrottle
=============================================================================
