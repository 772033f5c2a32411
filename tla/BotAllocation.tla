---------------------------- MODULE BotAllocation ----------------------------
(***************************************************************************)
(* How a ratio text becomes a number of bots per type: RatioSpec::parse    *)
(* and allocate of src/src/bot/mod.rs.                                     *)
(*                                                                         *)
(* A text is the sequence of its comma separated parts, each with the type *)
(* it names and the number after the colon; a part that has no colon or an *)
(* unknown name has the type Unknown, one whose number does not parse the  *)
(* ratio 0, which parse refuses as well. A blank text is <<>>.             *)
(***************************************************************************)
EXTENDS Integers, FiniteSets, Sequences, Functions

CONSTANT RATIO_LIMIT    \* 2^32: ratios and their sum are u32

ASSUME RatioLimitAssumption == RATIO_LIMIT \in Nat \ {0}

BotType == {"normal", "fickle", "spammer", "ghost", "quitter"}
Unknown == "unknown"

\* normal:40,spammer:20,fickle:20,ghost:10,quitter:10, in tens
Default == << [type |-> "normal",  ratio |-> 4], [type |-> "spammer", ratio |-> 2],
              [type |-> "fickle",  ratio |-> 2], [type |-> "ghost",   ratio |-> 1],
              [type |-> "quitter", ratio |-> 1] >>

\* what the parts of a text may be
SpecText == Seq([type : BotType \cup {Unknown}, ratio : Nat])

\* parse succeeds
Parses(text) ==
    /\ text # <<>>
    /\ \A i \in DOMAIN text : /\ text[i].type \in BotType
                              /\ text[i].ratio \in 1 .. RATIO_LIMIT - 1

ExactRatioSum(spec) == SumFunction([i \in DOMAIN spec |-> spec[i].ratio])
Overflows(spec) == ExactRatioSum(spec) >= RATIO_LIMIT

\* the u32 sum as a release build computes it; a debug build panics instead
RatioSum(spec) == ExactRatioSum(spec) % RATIO_LIMIT

Floor(total, spec) == [i \in DOMAIN spec |-> (total * spec[i].ratio) \div RatioSum(spec)]

\* saturating_sub: the floors exceed the total when the sum has wrapped
Remainder(total, spec) ==
    LET floors == SumFunction(Floor(total, spec))
    IN  IF floors > total THEN 0 ELSE total - floors

\* Slip: the extra bots go to the smaller ratios first.
RankAscending(spec, i) ==
    Cardinality({j \in DOMAIN spec : \/ spec[j].ratio < spec[i].ratio
                                     \/ spec[j].ratio = spec[i].ratio /\ j < i})

\* where a stable sort by descending ratio puts entry i, counted from 0
Rank(spec, i) ==
    Cardinality({j \in DOMAIN spec : \/ spec[j].ratio > spec[i].ratio
                                     \/ spec[j].ratio = spec[i].ratio /\ j < i})

\* The loop hands out the remainder one by one, round the sorted entries.
Allocate(total, spec) ==
    [i \in DOMAIN spec |->
        Floor(total, spec)[i]
        + Cardinality({k \in 0 .. Remainder(total, spec) - 1 : k % Len(spec) = Rank(spec, i)})]

\* What an allocation must be: it adds up to the total, every entry gets its
\* share rounded down or one bot more, and none gets one more before those
\* with a larger ratio, or with the same ratio and an earlier place, do.
SoundAllocation(total, spec, alloc) ==
    LET Share(i) == (total * spec[i].ratio) \div ExactRatioSum(spec)
    IN  /\ SumFunction(alloc) = total
        /\ \A i \in DOMAIN spec : alloc[i] \in {Share(i), Share(i) + 1}
        /\ \A i, j \in DOMAIN spec :
              alloc[i] > Share(i) /\ alloc[j] = Share(j)
                 => \/ spec[i].ratio > spec[j].ratio
                    \/ spec[i].ratio = spec[j].ratio /\ i < j
=============================================================================
