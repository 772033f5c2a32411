---------------------------- MODULE VoteIntegrity ----------------------------
(***************************************************************************)
(* The verdict of a scenario with fickle bots: tally_votes,                *)
(* pick_actual_snapshot and check_vote_integrity of src/src/bot/mod.rs.    *)
(***************************************************************************)
EXTENDS Integers, FiniteSets, Functions

CONSTANTS
    N_OPTIONS,   \* number of options on the board
    None         \* no vote, no snapshot, nothing pending

ASSUME OptionsAssumption == N_OPTIONS \in Nat \ {0}

Option == 0 .. N_OPTIONS - 1

ASSUME NoneAssumption == None \notin Option /\ None \notin [Option -> Nat]

\* How many of the votes, one per voter, are for each option.
Tally(votes) == [o \in Option |-> Cardinality({v \in DOMAIN votes : votes[v] = o})]

Held(snaps) == {snaps[v] : v \in DOMAIN snaps} \ {None}
Holders(snaps, s) == Cardinality({v \in DOMAIN snaps : snaps[v] = s})

\* Slip: ties go to the smaller sum.
BeatsIfSmaller(snaps, s, t) ==
    \/ Holders(snaps, s) > Holders(snaps, t)
    \/ Holders(snaps, s) = Holders(snaps, t) /\ SumFunction(s) < SumFunction(t)

\* Slip: ties are not looked at.
BeatsByHolders(snaps, s, t) == Holders(snaps, s) > Holders(snaps, t)

\* The order of max_by: more holders, then the larger sum.
Beats(snaps, s, t) ==
    \/ Holders(snaps, s) > Holders(snaps, t)
    \/ Holders(snaps, s) = Holders(snaps, t) /\ SumFunction(s) > SumFunction(t)

\* The snapshots that may be taken for the server's: the greatest in that
\* order, equals being told apart by the iteration order of a HashMap. If
\* nobody holds a snapshot it is the empty board.
Picks(snaps) ==
    IF Held(snaps) = {}
    THEN {[o \in Option |-> 0]}
    ELSE {s \in Held(snaps) : \A t \in Held(snaps) : ~Beats(snaps, t, s)}

\* check_vote_integrity
Verdict(expected, actual, fickleCount) ==
    [passed |-> expected = actual, expected |-> expected, actual |-> actual,
     fickle_count |-> fickleCount]
==============================================================================
