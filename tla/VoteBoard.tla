------------------------------ MODULE VoteBoard ------------------------------
(***************************************************************************)
(* The shared tally of src/src/vote.rs, as the connection handlers of      *)
(* src/src/client.rs use it.                                               *)
(*                                                                         *)
(* Every handler owns a local current_vote and changes the shared counters *)
(* with one atomic fetch_add at a time: a vote is "increment the new       *)
(* option, then decrement the old one", an unvote is one decrement, and    *)
(* each is followed by a snapshot that loads the counters one by one.      *)
(* Handlers run on several threads, so every atomic access is a step of    *)
(* its own here and any two handlers may interleave between them.          *)
(***************************************************************************)
EXTENDS Integers, Sequences, FiniteSets

CONSTANTS
    Client,      \* the connection ids; an id is never used again
    N_OPTIONS,   \* number of vote options
    None         \* Rust's None for current_vote

ASSUME ClientFinite == IsFiniteSet(Client)
ASSUME OptionsAssumption == N_OPTIONS \in Nat \ {0}
ASSUME NoneAssumption == None \notin Nat

Option == 0 .. (N_OPTIONS - 1)

\* What a vote message may carry: a usize. N_OPTIONS stands for all the
\* indices that are out of range, which the code treats alike.
Choice == 0 .. N_OPTIONS

VARIABLES
    counts,        \* VoteBoard.counts, one atomic per option
    current_vote,  \* the local current_vote of each handler
    pc,            \* where each handler is
    target,        \* the choice the handler is moving to (None: unvote)
    loaded,        \* the counters its snapshot has loaded so far
    leaving        \* the handler has left its read loop

vars == <<counts, current_vote, pc, target, loaded, leaving>>

Init ==
    /\ counts = [o \in Option |-> 0]
    /\ current_vote = [c \in Client |-> None]
    /\ pc = [c \in Client |-> "read"]
    /\ target = [c \in Client |-> None]
    /\ loaded = [c \in Client |-> <<>>]
    /\ leaving = [c \in Client |-> FALSE]
-----------------------------------------------------------------------------
\* fetch_add on the counter of choice o; an index out of range, or None, is
\* skipped by the bounds checks.
FetchAdd(o, d) ==
    counts' = IF o \in Option THEN [counts EXCEPT ![o] = @ + d] ELSE counts

\* A Vote message arrives: the handler calls board.vote(current_vote, o).
RecvVote(c, o) ==
    /\ pc[c] = "read"
    /\ target' = [target EXCEPT ![c] = o]
    /\ pc' = [pc EXCEPT ![c] = "inc"]
    /\ UNCHANGED <<counts, current_vote, loaded, leaving>>

\* Slip: a repeated vote for the same option is not incremented.
IncOnlyOnChange(c) ==
    /\ pc[c] = "inc"
    /\ FetchAdd(IF target[c] = current_vote[c] THEN None ELSE target[c], 1)
    /\ pc' = [pc EXCEPT ![c] = "dec"]
    /\ UNCHANGED <<current_vote, target, loaded, leaving>>

\* The first half of vote(): the new option gains one.
Inc(c) ==
    /\ pc[c] = "inc"
    /\ FetchAdd(target[c], 1)
    /\ pc' = [pc EXCEPT ![c] = "dec"]
    /\ UNCHANGED <<current_vote, target, loaded, leaving>>

\* An Unvote message with a vote to take back; without one the handler does
\* nothing.
RecvUnvote(c) ==
    /\ pc[c] = "read"
    /\ current_vote[c] # None
    /\ target' = [target EXCEPT ![c] = None]
    /\ pc' = [pc EXCEPT ![c] = "dec"]
    /\ UNCHANGED <<counts, current_vote, loaded, leaving>>

\* Slip: an exit that forgets to take the vote back.
DisconnectKeepsVote(c) ==
    /\ pc[c] = "read"
    /\ leaving' = [leaving EXCEPT ![c] = TRUE]
    /\ pc' = [pc EXCEPT ![c] = "gone"]
    /\ UNCHANGED <<counts, current_vote, target, loaded>>

\* The read loop ends (end of stream, read error, or the write task ended):
\* a handler that still holds a vote takes it back on its way out.
Disconnect(c) ==
    /\ pc[c] = "read"
    /\ leaving' = [leaving EXCEPT ![c] = TRUE]
    /\ target' = [target EXCEPT ![c] = None]
    /\ pc' = [pc EXCEPT ![c] = IF current_vote[c] = None THEN "gone" ELSE "dec"]
    /\ UNCHANGED <<counts, current_vote, loaded>>

\* Slip: the handler records the vote but leaves the old option counted.
DecForgotten(c) ==
    /\ pc[c] = "dec"
    /\ current_vote' = [current_vote EXCEPT ![c] = target[c]]
    /\ target' = [target EXCEPT ![c] = None]
    /\ pc' = [pc EXCEPT ![c] = "load"]
    /\ loaded' = [loaded EXCEPT ![c] = <<>>]
    /\ UNCHANGED <<counts, leaving>>

\* Slip: an unvote reads current_vote instead of taking it.
DecWithoutTake(c) ==
    /\ pc[c] = "dec"
    /\ FetchAdd(current_vote[c], -1)
    /\ current_vote' = [current_vote EXCEPT
                            ![c] = IF target[c] = None THEN @ ELSE target[c]]
    /\ target' = [target EXCEPT ![c] = None]
    /\ pc' = [pc EXCEPT ![c] = "load"]
    /\ loaded' = [loaded EXCEPT ![c] = <<>>]
    /\ UNCHANGED leaving

\* The second half of vote(), or unvote(): the previous option loses one. The
\* handler's own current_vote follows with no other access in between.
Dec(c) ==
    /\ pc[c] = "dec"
    /\ FetchAdd(current_vote[c], -1)
    /\ current_vote' = [current_vote EXCEPT ![c] = target[c]]
    /\ target' = [target EXCEPT ![c] = None]
    /\ pc' = [pc EXCEPT ![c] = "load"]
    /\ loaded' = [loaded EXCEPT ![c] = <<>>]
    /\ UNCHANGED leaving

\* Slip: the snapshot stops one option early.
LoadOneShort(c) ==
    LET o == Len(loaded[c]) IN
    /\ pc[c] = "load"
    /\ loaded' = [loaded EXCEPT
                    ![c] = Append(@, IF counts[o] < 0 THEN 0 ELSE counts[o])]
    /\ pc' = [pc EXCEPT ![c] = IF o + 2 >= N_OPTIONS THEN "publish" ELSE "load"]
    /\ UNCHANGED <<counts, current_vote, target, leaving>>

\* One load of snapshot(), options in index order, clamped with max(0). The
\* percentages are a function of the loaded counters and are left out.
LoadOption(c) ==
    LET o == Len(loaded[c]) IN
    /\ pc[c] = "load"
    /\ loaded' = [loaded EXCEPT
                    ![c] = Append(@, IF counts[o] < 0 THEN 0 ELSE counts[o])]
    /\ pc' = [pc EXCEPT ![c] = IF o + 1 = N_OPTIONS THEN "publish" ELSE "load"]
    /\ UNCHANGED <<counts, current_vote, target, leaving>>

\* The snapshot goes to broadcast_vote_throttled (module VoteThrottle), and
\* the handler reads on, or ends.
Publish(c) ==
    /\ pc[c] = "publish"
    /\ loaded' = [loaded EXCEPT ![c] = <<>>]
    /\ pc' = [pc EXCEPT ![c] = IF leaving[c] THEN "gone" ELSE "read"]
    /\ UNCHANGED <<counts, current_vote, target, leaving>>

Step(c) ==
    \/ \E o \in Choice : RecvVote(c, o)
    \/ RecvUnvote(c)
    \/ Disconnect(c)
    \/ Inc(c)
    \/ Dec(c)
    \/ LoadOption(c)
    \/ Publish(c)

Next == \E c \in Client : Step(c)

Spec == Init /\ [][Next]_vars
-----------------------------------------------------------------------------
TypeOK ==
    /\ counts \in [Option -> Int]
    /\ current_vote \in [Client -> Choice \cup {None}]
    /\ pc \in [Client -> {"read", "inc", "dec", "load", "publish", "gone"}]
    /\ target \in [Client -> Choice \cup {None}]
    /\ loaded \in [Client -> Seq(Nat)]
    /\ leaving \in [Client -> BOOLEAN]
    /\ \A c \in Client :
          /\ pc[c] = "load" => Len(loaded[c]) < N_OPTIONS
          /\ pc[c] = "publish" => Len(loaded[c]) = N_OPTIONS

\* The handlers whose vote is o, and those that have already added their new
\* vote o but have not dropped the previous one yet.
Holders(o) == {c \in Client : current_vote[c] = o}
Arriving(o) == {c \in Client : pc[c] = "dec" /\ target[c] = o}

\* Every counter is exactly the number of handlers that hold the option, plus
\* those caught between the two halves of vote(): whatever the interleaving,
\* no vote is lost, counted for ever or taken back twice (vote.rs:21-36).
CountsExact ==
    \A o \in Option :
        counts[o] = Cardinality(Holders(o)) + Cardinality(Arriving(o))

\* The clamp of snapshot() never hides anything: no counter is negative at any
\* step of any interleaving (vote.rs:17-20 and 39). A handler takes back only
\* what it has added to that counter before, so that this would hold with the
\* halves of vote() in the other order too.
NeverNegative == \A o \in Option : counts[o] >= 0

\* The snapshot a handler publishes after voting shows its own vote: whatever
\* the others do while it loads the counters, its option counts at least one
\* (client.rs:151-156).
ReadYourVote ==
    \A c \in Client :
        (pc[c] \in {"load", "publish"} /\ current_vote[c] \in Option)
            => (Len(loaded[c]) > current_vote[c]
                    => loaded[c][current_vote[c] + 1] >= 1)

\* When the last handler has left, the board is back to zero: no exit path
\* leaves a vote behind (client.rs:179-184).
EmptyBoardWhenAllGone ==
    (\A c \in Client : pc[c] = "gone") => (\A o \in Option : counts[o] = 0)
=============================================================================
