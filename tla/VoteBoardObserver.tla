-------------------------- MODULE VoteBoardObserver --------------------------
(***************************************************************************)
(* VoteBoard watched while a snapshot is taken: a history variable         *)
(* remembers, for a handler whose snapshot is under way, which handlers    *)
(* have not moved their vote since it began. It never influences a step.   *)
(***************************************************************************)
EXTENDS VoteBoard

VARIABLE unmoved   \* unmoved[c]: the handlers with one and the same vote
                   \* throughout c's snapshot

obsVars == <<vars, unmoved>>

ObsInit ==
    /\ Init
    /\ unmoved = [c \in Client |-> {}]

Snapshotting(c) == pc[c] \in {"load", "publish"}

Voters == {d \in Client : current_vote[d] \in Option}
Moved == {d \in Client : current_vote'[d] # current_vote[d]}

\* A snapshot starts with the step that leads to its first load.
ObsNext ==
    /\ Next
    /\ unmoved' = [c \in Client |->
            IF ~Snapshotting(c)' THEN {}
            ELSE IF ~Snapshotting(c) THEN Voters'
            ELSE unmoved[c] \ Moved]

ObsSpec == ObsInit /\ [][ObsNext]_obsVars
-----------------------------------------------------------------------------
\* Per option, a snapshot never under-counts: every handler that held option
\* o all through the snapshot is in the number loaded for o (vote.rs:38-40).
SteadyHolderCounted ==
    \A c \in Client : Snapshotting(c) =>
        \A o \in Option : o < Len(loaded[c]) =>
            loaded[c][o + 1] >= Cardinality({d \in unmoved[c] : current_vote[d] = o})
=============================================================================
