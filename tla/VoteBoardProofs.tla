--------------------------- MODULE VoteBoardProofs ---------------------------
(***************************************************************************)
(* Machine-checked proofs about VoteBoard and its observer, for every      *)
(* finite set of clients and every number of options.                      *)
(***************************************************************************)
EXTENDS VoteBoardObserver, FiniteSetTheorems, TLAPS

(* The type invariant is preserved by every step of every handler
   (client.rs:115-184). *)
LEMMA TypeStep == TypeOK /\ [Next]_vars => TypeOK'
<1> SUFFICES ASSUME TypeOK, [Next]_vars PROVE TypeOK'
    OBVIOUS
<1> USE OptionsAssumption, NoneAssumption DEF TypeOK, Option, Choice
<1>1. ASSUME NEW c \in Client, NEW o \in Choice, RecvVote(c, o) PROVE TypeOK'
  BY <1>1 DEF RecvVote
<1>2. ASSUME NEW c \in Client, RecvUnvote(c) PROVE TypeOK'
  BY <1>2 DEF RecvUnvote
<1>3. ASSUME NEW c \in Client, Disconnect(c) PROVE TypeOK'
  BY <1>3 DEF Disconnect
<1>4. ASSUME NEW c \in Client, Inc(c) PROVE TypeOK'
  BY <1>4 DEF Inc, FetchAdd
<1>5. ASSUME NEW c \in Client, Dec(c) PROVE TypeOK'
  BY <1>5 DEF Dec, FetchAdd
<1>6. ASSUME NEW c \in Client, LoadOption(c) PROVE TypeOK'
  <2> DEFINE o == Len(loaded[c])
             v == IF counts[o] < 0 THEN 0 ELSE counts[o]
  <2>1. o \in Option /\ v \in Nat
    BY <1>6 DEF LoadOption
  <2>2. loaded' = [loaded EXCEPT ![c] = Append(@, v)]
    BY <1>6 DEF LoadOption
  <2>3. loaded'[c] \in Seq(Nat) /\ Len(loaded'[c]) = o + 1
    BY <2>1, <2>2
  <2>4. loaded' \in [Client -> Seq(Nat)]
    BY <2>2, <2>3
  <2>5. pc' = [pc EXCEPT ![c] = IF o + 1 = N_OPTIONS THEN "publish" ELSE "load"]
    BY <1>6 DEF LoadOption
  <2>6. UNCHANGED <<counts, current_vote, target, leaving>>
    BY <1>6 DEF LoadOption
  <2>7. \A d \in Client : /\ pc'[d] = "load" => Len(loaded'[d]) < N_OPTIONS
                          /\ pc'[d] = "publish" => Len(loaded'[d]) = N_OPTIONS
    BY <2>1, <2>2, <2>3, <2>5
  <2> QED
    BY <2>4, <2>5, <2>6, <2>7
<1>7. ASSUME NEW c \in Client, Publish(c) PROVE TypeOK'
  BY <1>7 DEF Publish
<1>8. CASE UNCHANGED vars
  BY <1>8 DEF vars
<1> QED
  BY <1>1, <1>2, <1>3, <1>4, <1>5, <1>6, <1>7, <1>8 DEF Next, Step

(* Every handler is always in one of its program points with well-typed local
   variables, and a snapshot has loaded exactly the options it is due
   (client.rs:115-184). *)
THEOREM TypeCorrect == Spec => []TypeOK
<1>1. Init => TypeOK
  BY OptionsAssumption DEF Init, TypeOK, Option, Choice
<1> QED
  BY <1>1, TypeStep, PTL DEF Spec
-----------------------------------------------------------------------------
(* Cardinalities of sets of clients: each is a natural number, and grows or
   shrinks by one with a client. *)
LEMMA CardClients ==
  ASSUME NEW S \in SUBSET Client
  PROVE  /\ Cardinality(S) \in Nat
         /\ S = {} => Cardinality(S) = 0
         /\ S # {} => Cardinality(S) >= 1
         /\ \A c \in Client : c \notin S => Cardinality(S \cup {c}) = Cardinality(S) + 1
         /\ \A c \in S : Cardinality(S \ {c}) = Cardinality(S) - 1
<1>1. IsFiniteSet(S)
  BY ClientFinite, FS_Subset
<1>2. Cardinality(S) \in Nat /\ (Cardinality(S) = 0 <=> S = {})
  BY <1>1, FS_CardinalityType, FS_EmptySet
<1>3. \A c \in Client : c \notin S => Cardinality(S \cup {c}) = Cardinality(S) + 1
  BY <1>1, FS_AddElement
<1>4. \A c \in S : Cardinality(S \ {c}) = Cardinality(S) - 1
  BY <1>1, FS_RemoveElement
<1> QED
  BY <1>2, <1>3, <1>4

(* The increment of vote(): only the new option's counter and its set of
   arriving handlers grow, both by one (vote.rs:22-24). *)
LEMMA IncKeepsCounts ==
  ASSUME TypeOK, CountsExact, NEW c \in Client, Inc(c)
  PROVE  CountsExact'
<1> SUFFICES ASSUME NEW o \in Option
             PROVE  counts'[o] = Cardinality(Holders(o)') + Cardinality(Arriving(o)')
  BY DEF CountsExact
<1>1. Holders(o)' = Holders(o) /\ Holders(o) \in SUBSET Client
  BY DEF Inc, Holders
<1>2. Arriving(o) \in SUBSET Client /\ c \notin Arriving(o)
  BY DEF Inc, Arriving
<1>3. counts[o] = Cardinality(Holders(o)) + Cardinality(Arriving(o))
  BY DEF CountsExact
<1>4. counts[o] \in Int
  BY DEF TypeOK
<1>5. CASE target[c] = o
  <2>1. Arriving(o)' = Arriving(o) \cup {c}
    BY <1>5 DEF Inc, Arriving, TypeOK
  <2>2. counts'[o] = counts[o] + 1
    BY <1>5 DEF Inc, FetchAdd, TypeOK
  <2>3. Cardinality(Arriving(o) \cup {c}) = Cardinality(Arriving(o)) + 1
    BY <1>2, CardClients
  <2>4. Cardinality(Holders(o)) \in Nat /\ Cardinality(Arriving(o)) \in Nat
    BY <1>1, <1>2, CardClients
  <2> QED
    BY <1>1, <1>3, <2>1, <2>2, <2>3, <2>4
<1>6. CASE target[c] # o
  <2>1. Arriving(o)' = Arriving(o)
    BY <1>6 DEF Inc, Arriving, TypeOK
  <2>2. counts'[o] = counts[o]
    BY <1>6 DEF Inc, FetchAdd, TypeOK
  <2> QED
    BY <1>1, <1>3, <2>1, <2>2
<1> QED
  BY <1>5, <1>6

(* The decrement: the handler leaves the old option's holders and turns from
   arriving at the new option into a holder of it (vote.rs:25-36,
   client.rs:152 and 159). *)
LEMMA DecKeepsCounts ==
  ASSUME TypeOK, CountsExact, NEW c \in Client, Dec(c)
  PROVE  CountsExact'
<1> SUFFICES ASSUME NEW o \in Option
             PROVE  counts'[o] = Cardinality(Holders(o)') + Cardinality(Arriving(o)')
  BY DEF CountsExact
<1>1. /\ Holders(o) \in SUBSET Client /\ Arriving(o) \in SUBSET Client
      /\ Holders(o) \ {c} \in SUBSET Client
  BY DEF Holders, Arriving
<1>2. counts[o] = Cardinality(Holders(o)) + Cardinality(Arriving(o)) /\ counts[o] \in Int
  BY DEF CountsExact, TypeOK
<1>3. /\ Holders(o)' = IF target[c] = o THEN (Holders(o) \ {c}) \cup {c}
                                         ELSE Holders(o) \ {c}
      /\ Arriving(o)' = Arriving(o) \ {c}
      /\ c \in Holders(o) <=> current_vote[c] = o
      /\ c \in Arriving(o) <=> target[c] = o
  BY DEF Dec, Holders, Arriving, TypeOK
<1>4. counts'[o] = IF current_vote[c] = o THEN counts[o] - 1 ELSE counts[o]
  BY DEF Dec, FetchAdd, TypeOK
<1>5. Cardinality(Holders(o) \ {c}) =
          IF current_vote[c] = o THEN Cardinality(Holders(o)) - 1 ELSE Cardinality(Holders(o))
  <2>1. CASE current_vote[c] = o
    BY <1>1, <1>3, <2>1, CardClients
  <2>2. CASE current_vote[c] # o
    <3>1. Holders(o) \ {c} = Holders(o)
      BY <1>3, <2>2
    <3> QED
      BY <3>1, <2>2
  <2> QED
    BY <2>1, <2>2
<1>6. Cardinality(Arriving(o) \ {c}) =
          IF target[c] = o THEN Cardinality(Arriving(o)) - 1 ELSE Cardinality(Arriving(o))
  <2>1. CASE target[c] = o
    BY <1>1, <1>3, <2>1, CardClients
  <2>2. CASE target[c] # o
    <3>1. Arriving(o) \ {c} = Arriving(o)
      BY <1>3, <2>2
    <3> QED
      BY <3>1, <2>2
  <2> QED
    BY <2>1, <2>2
<1>7. Cardinality((Holders(o) \ {c}) \cup {c}) = Cardinality(Holders(o) \ {c}) + 1
  BY <1>1, CardClients
<1>8. Cardinality(Holders(o)) \in Nat /\ Cardinality(Arriving(o)) \in Nat
  BY <1>1, CardClients
<1>9. CASE target[c] = o
  BY <1>2, <1>3, <1>4, <1>5, <1>6, <1>7, <1>8, <1>9
<1>10. CASE target[c] # o
  BY <1>2, <1>3, <1>4, <1>5, <1>6, <1>8, <1>10
<1> QED
  BY <1>9, <1>10

(* No other step touches a counter or moves a handler into or out of the two
   sets. *)
LEMMA OthersKeepCounts ==
  ASSUME TypeOK, CountsExact,
         UNCHANGED <<counts, current_vote>>,
         \A d \in Client, o \in Option :
            (pc'[d] = "dec" /\ target'[d] = o) <=> (pc[d] = "dec" /\ target[d] = o)
  PROVE  CountsExact'
<1> SUFFICES ASSUME NEW o \in Option
             PROVE  counts'[o] = Cardinality(Holders(o)') + Cardinality(Arriving(o)')
  BY DEF CountsExact
<1>1. Holders(o)' = Holders(o) /\ Arriving(o)' = Arriving(o)
  BY DEF Holders, Arriving
<1> QED
  BY <1>1 DEF CountsExact

LEMMA CountsStep == TypeOK /\ CountsExact /\ [Next]_vars => CountsExact'
<1> SUFFICES ASSUME TypeOK, CountsExact, [Next]_vars PROVE CountsExact'
    OBVIOUS
<1> USE NoneAssumption DEF TypeOK, Option, Choice
<1>1. ASSUME NEW c \in Client, NEW o \in Choice, RecvVote(c, o) PROVE CountsExact'
  BY <1>1, OthersKeepCounts DEF RecvVote
<1>2. ASSUME NEW c \in Client, RecvUnvote(c) PROVE CountsExact'
  BY <1>2, OthersKeepCounts DEF RecvUnvote
<1>3. ASSUME NEW c \in Client, Disconnect(c) PROVE CountsExact'
  BY <1>3, OthersKeepCounts DEF Disconnect
<1>4. ASSUME NEW c \in Client, Inc(c) PROVE CountsExact'
  BY <1>4, IncKeepsCounts
<1>5. ASSUME NEW c \in Client, Dec(c) PROVE CountsExact'
  BY <1>5, DecKeepsCounts
<1>6. ASSUME NEW c \in Client, LoadOption(c) PROVE CountsExact'
  BY <1>6, OthersKeepCounts DEF LoadOption
<1>7. ASSUME NEW c \in Client, Publish(c) PROVE CountsExact'
  BY <1>7, OthersKeepCounts DEF Publish
<1>8. CASE UNCHANGED vars
  BY <1>8, OthersKeepCounts DEF vars
<1> QED
  BY <1>1, <1>2, <1>3, <1>4, <1>5, <1>6, <1>7, <1>8 DEF Next, Step

(* No interleaving of any number of handlers loses a vote, leaves one behind
   or takes one back twice (vote.rs:21-36, client.rs:150-184). *)
THEOREM CountsCorrect == Spec => []CountsExact
<1>1. Init => CountsExact
  <2> SUFFICES ASSUME Init, NEW o \in Option
               PROVE  counts[o] = Cardinality(Holders(o)) + Cardinality(Arriving(o))
    BY DEF CountsExact
  <2>1. Holders(o) = {} /\ Arriving(o) = {}
    BY NoneAssumption DEF Init, Holders, Arriving, Option
  <2>2. counts[o] = 0
    BY DEF Init
  <2> QED
    BY <2>1, <2>2, FS_EmptySet
<1> QED
  BY <1>1, TypeCorrect, CountsStep, PTL DEF Spec
-----------------------------------------------------------------------------
(* A counter is at least one while a handler holds the option, so the clamp
   of snapshot() is never needed and a handler's own vote is never missing. *)
LEMMA CountBounds ==
  ASSUME CountsExact, NEW o \in Option
  PROVE  /\ counts[o] >= 0
         /\ \A c \in Client : current_vote[c] = o => counts[o] >= 1
<1>1. /\ Holders(o) \in SUBSET Client /\ Arriving(o) \in SUBSET Client
      /\ \A c \in Client : current_vote[c] = o => Holders(o) # {}
  BY DEF Holders, Arriving
<1>2. /\ Cardinality(Holders(o)) \in Nat /\ Cardinality(Arriving(o)) \in Nat
      /\ Holders(o) # {} => Cardinality(Holders(o)) >= 1
  BY <1>1, CardClients
<1>3. counts[o] = Cardinality(Holders(o)) + Cardinality(Arriving(o))
  BY DEF CountsExact
<1> QED
  BY <1>1, <1>2, <1>3

(* No counter is ever negative (vote.rs:17-20 and the clamp at 39). *)
THEOREM NeverNegativeCorrect == Spec => []NeverNegative
<1>1. CountsExact => NeverNegative
  BY CountBounds DEF NeverNegative
<1> QED
  BY <1>1, CountsCorrect, PTL

LEMMA ReadYourVoteStep ==
  TypeOK /\ CountsExact /\ ReadYourVote /\ [Next]_vars => ReadYourVote'
<1> SUFFICES ASSUME TypeOK, CountsExact, ReadYourVote, [Next]_vars,
                    NEW d \in Client,
                    (pc[d] \in {"load", "publish"} /\ current_vote[d] \in Option)',
                    (Len(loaded[d]) > current_vote[d])'
             PROVE  loaded'[d][current_vote'[d] + 1] >= 1
    BY DEF ReadYourVote
<1> USE DEF TypeOK
<1>1. ASSUME NEW c \in Client, c # d, Step(c)
      PROVE  UNCHANGED <<pc[d], current_vote[d], loaded[d]>>
  BY <1>1 DEF Step, RecvVote, RecvUnvote, Disconnect, Inc, Dec, LoadOption, Publish
<1>2. CASE UNCHANGED <<pc[d], current_vote[d], loaded[d]>>
  BY <1>2 DEF ReadYourVote
<1>3. CASE LoadOption(d)
  <2> DEFINE o == Len(loaded[d])
             v == IF counts[o] < 0 THEN 0 ELSE counts[o]
  <2>1. /\ loaded' = [loaded EXCEPT ![d] = Append(@, v)]
        /\ pc[d] = "load" /\ current_vote' = current_vote
    BY <1>3 DEF LoadOption
  <2>2. o \in Option /\ v \in Nat
    BY <2>1, OptionsAssumption DEF Option
  <2>3. loaded'[d] = Append(loaded[d], v) /\ loaded[d] \in Seq(Nat)
    BY <2>1
  <2>4. current_vote[d] \in Option /\ current_vote[d] \in 0 .. o
    BY <2>1, <2>2, <2>3 DEF Option
  <2>5. CASE current_vote[d] = o
    <3>1. v >= 1
      BY <2>2, <2>5, CountBounds
    <3> QED
      BY <2>1, <2>2, <2>3, <2>5, <3>1
  <2>6. CASE current_vote[d] < o
    <3>1. loaded[d][current_vote[d] + 1] >= 1
      BY <2>1, <2>4, <2>6 DEF ReadYourVote
    <3>2. loaded'[d][current_vote[d] + 1] = loaded[d][current_vote[d] + 1]
      BY <2>2, <2>3, <2>4, <2>6
    <3> QED
      BY <2>1, <3>1, <3>2
  <2> QED
    BY <2>2, <2>4, <2>5, <2>6 DEF Option
<1>4. CASE Dec(d)
  <2>1. loaded'[d] = <<>>
    BY <1>4 DEF Dec
  <2> QED
    BY <2>1 DEF Option
<1>5. ASSUME \/ \E o \in Choice : RecvVote(d, o)
             \/ RecvUnvote(d) \/ Disconnect(d) \/ Inc(d) \/ Publish(d)
      PROVE  FALSE
  BY <1>5 DEF RecvVote, RecvUnvote, Disconnect, Inc, Publish
<1>6. CASE UNCHANGED vars
  BY <1>2, <1>6 DEF vars
<1> QED
  BY <1>1, <1>2, <1>3, <1>4, <1>5, <1>6 DEF Next, Step

(* The snapshot published for a vote always counts that vote, whatever the
   other handlers do while it is being taken (client.rs:151-156). *)
THEOREM ReadYourVoteCorrect == Spec => []ReadYourVote
<1>1. Init => ReadYourVote
  BY DEF Init, ReadYourVote
<1> QED
  BY <1>1, TypeCorrect, CountsCorrect, ReadYourVoteStep, PTL DEF Spec
-----------------------------------------------------------------------------
(* The strengthening behind EmptyBoardWhenAllGone: once a handler is leaving it
   only takes its vote back, and it is gone with no vote (client.rs:178-184). *)
Exiting ==
    \A c \in Client :
        /\ leaving[c] => pc[c] \in {"dec", "load", "publish", "gone"}
        /\ leaving[c] /\ pc[c] = "dec" => target[c] = None
        /\ leaving[c] /\ pc[c] # "dec" => current_vote[c] = None
        /\ pc[c] = "gone" => leaving[c]

LEMMA ExitingStep == TypeOK /\ Exiting /\ [Next]_vars => Exiting'
<1> SUFFICES ASSUME TypeOK, Exiting, [Next]_vars PROVE Exiting'
    OBVIOUS
<1> USE DEF TypeOK, Exiting
<1>1. ASSUME NEW c \in Client, NEW o \in Choice, RecvVote(c, o) PROVE Exiting'
  BY <1>1 DEF RecvVote
<1>2. ASSUME NEW c \in Client, RecvUnvote(c) PROVE Exiting'
  BY <1>2 DEF RecvUnvote
<1>3. ASSUME NEW c \in Client, Disconnect(c) PROVE Exiting'
  BY <1>3 DEF Disconnect
<1>4. ASSUME NEW c \in Client, Inc(c) PROVE Exiting'
  BY <1>4 DEF Inc
<1>5. ASSUME NEW c \in Client, Dec(c) PROVE Exiting'
  BY <1>5 DEF Dec
<1>6. ASSUME NEW c \in Client, LoadOption(c) PROVE Exiting'
  BY <1>6 DEF LoadOption
<1>7. ASSUME NEW c \in Client, Publish(c) PROVE Exiting'
  BY <1>7 DEF Publish
<1>8. CASE UNCHANGED vars
  BY <1>8 DEF vars
<1> QED
  BY <1>1, <1>2, <1>3, <1>4, <1>5, <1>6, <1>7, <1>8 DEF Next, Step

(* After the last handler has left, every counter is back to zero
   (client.rs:178-185). *)
THEOREM EmptyBoardCorrect == Spec => []EmptyBoardWhenAllGone
<1>1. Init => Exiting
  BY DEF Init, Exiting
<1>2. Exiting /\ CountsExact => EmptyBoardWhenAllGone
  <2> SUFFICES ASSUME Exiting, CountsExact, \A c \in Client : pc[c] = "gone",
                      NEW o \in Option
               PROVE  counts[o] = 0
    BY DEF EmptyBoardWhenAllGone
  <2>1. Holders(o) = {} /\ Arriving(o) = {}
    BY NoneAssumption DEF Exiting, Holders, Arriving, Option
  <2> QED
    BY <2>1, FS_EmptySet DEF CountsExact
<1> QED
  BY <1>1, <1>2, TypeCorrect, CountsCorrect, ExitingStep, PTL DEF Spec
-----------------------------------------------------------------------------
(* What the observer adds to an execution changes nothing of it. *)
LEMMA ObserverIsSilent == ObsSpec => Spec
<1>1. ObsInit => Init
  BY DEF ObsInit
<1>2. [ObsNext]_obsVars => [Next]_vars
  BY DEF ObsNext, obsVars, vars
<1> QED
  BY <1>1, <1>2, PTL DEF ObsSpec, Spec

SteadyInv == unmoved \in [Client -> SUBSET Client] /\ SteadyHolderCounted
Steady(c, o) == {d \in unmoved[c] : current_vote[d] = o}

\* What a snapshot has loaded stays, unless a new one begins.
LEMMA SnapshotStep ==
  ASSUME TypeOK, [Next]_vars, NEW c \in Client, Snapshotting(c)'
  PROVE  \/ ~Snapshotting(c) /\ loaded'[c] = <<>>
         \/ Snapshotting(c) /\ loaded'[c] = loaded[c]
         \/ /\ Snapshotting(c) /\ LoadOption(c)
            /\ loaded'[c] = Append(loaded[c], IF counts[Len(loaded[c])] < 0 THEN 0
                                              ELSE counts[Len(loaded[c])])
            /\ Len(loaded[c]) \in Option
<1> USE DEF TypeOK, Snapshotting
<1>1. ASSUME NEW d \in Client, d # c, Step(d) PROVE pc'[c] = pc[c] /\ loaded'[c] = loaded[c]
  BY <1>1 DEF Step, RecvVote, RecvUnvote, Disconnect, Inc, Dec, LoadOption, Publish
<1>2. CASE UNCHANGED vars
  BY <1>2 DEF vars
<1>3. ASSUME NEW o \in Choice, RecvVote(c, o) PROVE FALSE
  BY <1>3 DEF RecvVote
<1>4. CASE RecvUnvote(c) \/ Disconnect(c) \/ Inc(c) \/ Publish(c)
  BY <1>4 DEF RecvUnvote, Disconnect, Inc, Publish
<1>5. CASE Dec(c)
  BY <1>5 DEF Dec
<1>6. CASE LoadOption(c)
  BY <1>6, OptionsAssumption DEF LoadOption, Option
<1> QED
  BY <1>1, <1>2, <1>3, <1>4, <1>5, <1>6 DEF Next, Step

LEMMA SteadyStep ==
  TypeOK /\ TypeOK' /\ CountsExact /\ SteadyInv /\ [ObsNext]_obsVars => SteadyInv'
<1> SUFFICES ASSUME TypeOK, TypeOK', CountsExact, SteadyInv, [ObsNext]_obsVars PROVE SteadyInv'
  OBVIOUS
<1>1. CASE UNCHANGED obsVars
  BY <1>1 DEF obsVars, vars, SteadyInv, SteadyHolderCounted, Snapshotting
<1>2. CASE ObsNext
  <2>1. unmoved' \in [Client -> SUBSET Client]
    BY <1>2 DEF ObsNext, SteadyInv, Voters
  <2> SUFFICES ASSUME NEW c \in Client, Snapshotting(c)', NEW o \in Option, o < Len(loaded'[c])
               PROVE  loaded'[c][o + 1] >= Cardinality(Steady(c, o)')
    BY <2>1 DEF SteadyInv, SteadyHolderCounted, Steady
  <2>2. [Next]_vars
    BY <1>2 DEF ObsNext
  <2>3. loaded[c] \in Seq(Nat) /\ Len(loaded[c]) \in Nat /\ o \in Nat
        /\ counts \in [Option -> Int]
    BY OptionsAssumption DEF TypeOK, Option
  <2>4. Snapshotting(c)
    BY <2>2, <2>3, SnapshotStep
  <2>5. Steady(c, o)' \subseteq Steady(c, o)
    <3>1. unmoved'[c] = unmoved[c] \ Moved
      BY <1>2, <2>4 DEF ObsNext
    <3> QED
      BY <3>1 DEF Steady, Moved, SteadyInv
  <2>6. /\ Steady(c, o) \subseteq Holders(o) /\ Holders(o) \in SUBSET Client
        /\ Arriving(o) \in SUBSET Client
    BY DEF Steady, Holders, Arriving, SteadyInv
  <2>7. /\ IsFiniteSet(Steady(c, o)) /\ IsFiniteSet(Holders(o))
        /\ Cardinality(Steady(c, o)') \in Nat /\ Cardinality(Arriving(o)) \in Nat
        /\ Cardinality(Steady(c, o)') <= Cardinality(Steady(c, o))
        /\ Cardinality(Steady(c, o)') <= Cardinality(Holders(o))
    BY <2>5, <2>6, ClientFinite, FS_Subset, FS_CardinalityType
  <2>8. CASE loaded'[c] = loaded[c]
    <3>1. loaded[c][o + 1] >= Cardinality(Steady(c, o))
      BY <2>4, <2>8 DEF SteadyInv, SteadyHolderCounted, Steady
    <3>2. loaded[c][o + 1] \in Nat /\ Cardinality(Steady(c, o)) \in Nat
      BY <2>3, <2>7, <2>8, FS_CardinalityType
    <3> QED
      BY <2>7, <2>8, <3>1, <3>2
  <2>9. CASE loaded'[c] # loaded[c]
    <3> DEFINE k == Len(loaded[c])
               v == IF counts[k] < 0 THEN 0 ELSE counts[k]
    <3>1. loaded'[c] = Append(loaded[c], v) /\ k \in Option
      BY <2>2, <2>4, <2>9, SnapshotStep
    <3>2. v \in Nat /\ v >= counts[k]
      BY <2>3, <3>1
    <3> HIDE DEF v
    <3>3. loaded'[c][k + 1] = v /\ \A i \in 1 .. k : loaded'[c][i] = loaded[c][i]
      BY <2>3, <3>1, <3>2
    <3>4. CASE o = k
      <4>1. counts[o] = Cardinality(Holders(o)) + Cardinality(Arriving(o))
        BY DEF CountsExact
      <4>2. Cardinality(Holders(o)) \in Nat
        BY <2>7, FS_CardinalityType
      <4> QED
        BY <2>7, <3>2, <3>3, <3>4, <4>1, <4>2
    <3>5. CASE o # k
      <4>1. o < k
        BY <2>3, <3>1, <3>2, <3>5
      <4>2. loaded[c][o + 1] >= Cardinality(Steady(c, o)) /\ loaded[c][o + 1] \in Nat
        BY <2>3, <2>4, <4>1 DEF SteadyInv, SteadyHolderCounted, Steady
      <4>3. loaded'[c][o + 1] = loaded[c][o + 1] /\ Cardinality(Steady(c, o)) \in Nat
        <5>1. o + 1 \in 1 .. k
          BY <2>3, <4>1
        <5> QED
          BY <2>7, <3>3, <5>1, FS_CardinalityType
      <4> QED
        BY <2>7, <4>2, <4>3
    <3> QED
      BY <3>4, <3>5
  <2> QED
    BY <2>8, <2>9
<1> QED
  BY <1>1, <1>2

(* Per option, a snapshot never misses a handler that held its vote all through it,
   whatever the others do between the loads (vote.rs:38-40). *)
THEOREM SteadyHolderCorrect == ObsSpec => []SteadyHolderCounted
<1>1. ObsInit => SteadyInv
  BY DEF ObsInit, Init, SteadyInv, SteadyHolderCounted, Snapshotting
<1>2. SteadyInv => SteadyHolderCounted
  BY DEF SteadyInv
<1> QED
  BY <1>1, <1>2, SteadyStep, ObserverIsSilent, TypeCorrect, CountsCorrect, PTL DEF ObsSpec
=============================================================================
