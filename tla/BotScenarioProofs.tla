-------------------------- MODULE BotScenarioProofs --------------------------
(***************************************************************************)
(* Machine-checked proofs about BotScenario: the barrier, the types, the   *)
(* allocation and the lines a normal bot waits for, for every set of       *)
(* requests, every number of bots and options, every limit, every duration *)
(* and any number of faults.                                               *)
(***************************************************************************)
EXTENDS BotScenario, BotAllocationProofs

Fields == {"kind", "pc", "timer", "tries", "left", "leader", "vote", "snap", "received"}

\* There are finitely many bots, each a record.
Shape ==
    /\ IsFiniteSet(Bot)
    /\ bots = [b \in Bot |-> bots[b]]
    /\ \A b \in Bot : DOMAIN bots[b] = Fields

Before == {"connect", "send", "barrier", "failed"}
After == {"settle", "revote", "propagate", "done", "failed"}

\* Nobody has passed the barrier, or everybody who has not failed has, with
\* one leader. What makes it inductive is that a bot fails before the barrier
\* only without having arrived, so that the rest are never enough.
OneSide ==
    \/ \A b \in Fickle : bots[b].pc \in Before /\ ~bots[b].leader
    \/ /\ \A b \in Fickle : bots[b].pc \in After
       /\ \E l \in Fickle : \A b \in Fickle : bots[b].leader <=> b = l

\* A step of one bot that keeps its kind, and on its side of the barrier, is
\* harmless.
LEMMA OneBotMoves ==
  ASSUME Shape, OneSide, NEW b \in Bot, NEW r,
         bots' = [bots EXCEPT ![b] = r],
         DOMAIN r = Fields, r.kind = bots[b].kind, r.leader = bots[b].leader,
         b \in Fickle => \/ bots[b].pc \in Before \ {"failed"} /\ r.pc \in Before
                         \/ bots[b].pc \in After \ {"failed"} /\ r.pc \in After
  PROVE  Shape' /\ OneSide'
<1>1. /\ Bot' = Bot
      /\ bots'[b] = r
      /\ \A c \in Bot \ {b} : bots'[c] = bots[c]
  BY DEF Shape, Bot
<1>2. Shape'
  BY <1>1 DEF Shape, Bot
<1>3. Fickle' = Fickle
  BY <1>1 DEF Fickle
<1>4. \A c \in Fickle : bots'[c].leader = bots[c].leader
  BY <1>1 DEF Fickle
<1>5. ASSUME \A c \in Fickle : bots[c].pc \in Before /\ ~bots[c].leader
      PROVE  OneSide'
  <2>1. \A c \in Fickle : bots'[c].pc \in Before
    BY <1>1, <1>5 DEF Before, After, Fickle
  <2> QED
    BY <1>3, <1>4, <1>5, <2>1 DEF OneSide
<1>6. ASSUME \A c \in Fickle : bots[c].pc \in After,
             NEW l \in Fickle, \A c \in Fickle : bots[c].leader <=> c = l
      PROVE  OneSide'
  <2>1. \A c \in Fickle : bots'[c].pc \in After
    BY <1>1, <1>6 DEF Before, After, Fickle
  <2>2. \A c \in Fickle : bots'[c].leader <=> c = l
    BY <1>4, <1>6
  <2> QED
    BY <1>3, <1>6, <2>1, <2>2 DEF OneSide
<1>7. CASE \A c \in Fickle : bots[c].pc \in Before /\ ~bots[c].leader
  BY <1>2, <1>5, <1>7
<1>8. CASE /\ \A c \in Fickle : bots[c].pc \in After
           /\ \E l \in Fickle : \A c \in Fickle : bots[c].leader <=> c = l
  BY <1>2, <1>6, <1>8
<1> QED
  BY <1>7, <1>8 DEF OneSide

LEMMA BotsUnchanged ==
  ASSUME Shape, OneSide, UNCHANGED bots
  PROVE  Shape' /\ OneSide'
<1>1. Bot' = Bot /\ Fickle' = Fickle
  BY DEF Bot, Fickle
<1> QED
  BY <1>1 DEF Shape, OneSide

\* The bots that are at the barrier with the one that arrives are all fickle
\* bots as soon as they are as many.
LEMMA LastToArrive ==
  ASSUME Shape, NEW b \in Fickle, bots[b].pc = "send",
         ~(Cardinality(AtBarrier) + 1 < BarrierSize)
  PROVE  AtBarrier \cup {b} = Fickle
<1>1. IsFiniteSet(Fickle) /\ AtBarrier \subseteq Fickle /\ b \notin AtBarrier
  BY FS_Subset DEF Shape, Fickle, AtBarrier
<1>2. IsFiniteSet(AtBarrier)
  BY <1>1, FS_Subset
<1>3. Cardinality(AtBarrier \cup {b}) = Cardinality(AtBarrier) + 1
  BY <1>1, <1>2, FS_AddElement
<1>4. Cardinality(AtBarrier) \in Nat /\ Cardinality(Fickle) \in Nat
  BY <1>1, <1>2, FS_CardinalityType
<1>5. BarrierSize = Cardinality(Fickle)
  BY DEF BarrierSize
<1>6. Cardinality(AtBarrier \cup {b}) >= Cardinality(Fickle)
  BY <1>3, <1>4, <1>5
<1>7. AtBarrier \cup {b} \subseteq Fickle
  BY <1>1
<1>8. Cardinality(AtBarrier \cup {b}) <= Cardinality(Fickle)
      /\ (Cardinality(AtBarrier \cup {b}) = Cardinality(Fickle) => AtBarrier \cup {b} = Fickle)
  BY <1>1, <1>7, FS_Subset
<1> QED
  BY <1>3, <1>4, <1>6, <1>8

LEMMA ArriveStep ==
  ASSUME Shape, OneSide, NEW b \in Bot, Arrive(b)
  PROVE  Shape' /\ OneSide'
<1>1. b \in Fickle /\ bots[b].pc = "send"
  BY DEF Arrive, Due
<1>2. \A c \in Fickle : bots[c].pc \in Before /\ ~bots[c].leader
  BY <1>1 DEF OneSide, After
<1>3. CASE Cardinality(AtBarrier) + 1 < BarrierSize
  <2> DEFINE r == [bots[b] EXCEPT !.pc = "barrier"]
  <2>1. bots' = [bots EXCEPT ![b] = r]
    BY <1>3 DEF Arrive
  <2>2. /\ DOMAIN r = Fields /\ r.kind = bots[b].kind /\ r.leader = bots[b].leader
        /\ bots[b].pc \in Before \ {"failed"} /\ r.pc \in Before
    BY <1>1 DEF Shape, Fields, Before
  <2> HIDE DEF r
  <2> QED
    BY <2>1, <2>2, OneBotMoves
<1>4. CASE ~(Cardinality(AtBarrier) + 1 < BarrierSize)
  <2> DEFINE R(c) == [bots[c] EXCEPT !.pc = "settle", !.timer = SETTLE, !.leader = (c = b)]
  <2>1. AtBarrier \cup {b} = Fickle
    BY <1>1, <1>4, LastToArrive
  <2>2. bots' = [c \in Bot |-> IF c \in Fickle THEN R(c) ELSE bots[c]]
    BY <1>4, <2>1 DEF Arrive
  <2>3. \A c \in Bot : /\ DOMAIN R(c) = Fields /\ R(c).kind = bots[c].kind
                       /\ R(c).pc = "settle" /\ R(c).leader = (c = b)
    BY DEF Shape, Fields
  <2> HIDE DEF R
  <2>4. Bot' = Bot /\ \A c \in Bot : bots'[c] = IF c \in Fickle THEN R(c) ELSE bots[c]
    BY <2>2 DEF Bot
  <2>5. Shape'
    BY <2>2, <2>3, <2>4 DEF Shape
  <2>6. Fickle' = Fickle
    BY <2>3, <2>4 DEF Fickle
  <2>7. \A c \in Fickle : bots'[c].pc = "settle" /\ bots'[c].leader = (c = b)
    BY <2>3, <2>4 DEF Fickle
  <2> QED
    BY <1>1, <2>5, <2>6, <2>7 DEF OneSide, After
<1> QED
  BY <1>3, <1>4

\* A tick changes nothing but the timers.
LEMMA TickStep ==
  ASSUME Shape, OneSide, Tick
  PROVE  Shape' /\ OneSide'
<1> DEFINE R(c) == [bots[c] EXCEPT !.timer = IF @ > 0 THEN @ - 1 ELSE 0]
<1>1. bots' = [c \in Bot |-> R(c)]
  BY DEF Tick
<1>2. \A c \in Bot : /\ DOMAIN R(c) = Fields /\ R(c).kind = bots[c].kind
                     /\ R(c).pc = bots[c].pc /\ R(c).leader = bots[c].leader
  BY DEF Shape, Fields
<1> HIDE DEF R
<1>3. Bot' = Bot /\ \A c \in Bot : bots'[c] = R(c)
  BY <1>1 DEF Bot
<1>4. Shape'
  BY <1>1, <1>2, <1>3 DEF Shape
<1>5. /\ Fickle' = Fickle
      /\ \A c \in Fickle : bots'[c].pc = bots[c].pc /\ bots'[c].leader = bots[c].leader
  BY <1>2, <1>3 DEF Fickle
<1> QED
  BY <1>4, <1>5 DEF OneSide

LEMMA SpawnStep ==
  ASSUME Spawn
  PROVE  Shape' /\ OneSide'
<1>0. PICK n \in 0 .. MaxBots :
         \E kind : bots' = [b \in 1 .. n |-> NewBot(kind[b], request.msgs)]
  <2> DEFINE n == IF stage = "start" THEN request.count
                  ELSE SumFunction([i \in DOMAIN alloc |-> alloc[i].n])
             Kind(b) == IF stage = "start" THEN request.mode ELSE alloc[EntryOf(b)].type
             kind == [b \in 1 .. n |-> Kind(b)]
  <2>1. n \in 0 .. MaxBots /\ bots' = [b \in 1 .. n |-> NewBot(Kind(b), request.msgs)]
    BY DEF Spawn
  <2> HIDE DEF n, Kind
  <2>2. [b \in 1 .. n |-> NewBot(kind[b], request.msgs)]
            = [b \in 1 .. n |-> NewBot(Kind(b), request.msgs)]
    OBVIOUS
  <2> QED
    BY <2>1, <2>2
<1>1. PICK kind : bots' = [b \in 1 .. n |-> NewBot(kind[b], request.msgs)]
  BY <1>0
<1> DEFINE R(b) == NewBot(kind[b], request.msgs)
<1>2. \A b \in 1 .. n : /\ DOMAIN R(b) = Fields /\ R(b).leader = FALSE
                        /\ R(b).kind = "fickle" => R(b).pc = "connect"
  BY DEF NewBot, Fields, BotType
<1> HIDE DEF R
<1>3. bots' = [b \in 1 .. n |-> R(b)]
  BY <1>1 DEF R
<1>4. Bot' = 1 .. n /\ \A b \in 1 .. n : bots'[b] = R(b)
  BY <1>3 DEF Bot
<1>5. IsFiniteSet(1 .. n)
  BY FS_Interval
<1>6. Shape'
  BY <1>2, <1>3, <1>4, <1>5 DEF Shape
<1> QED
  BY <1>2, <1>4, <1>6 DEF OneSide, Fickle, Before

\* One step of one bot, apart from arriving.
LEMMA BotMoves ==
  ASSUME Shape, OneSide, NEW b \in Bot, BotStep(b), ~Arrive(b)
  PROVE  Shape' /\ OneSide'
<1> DEFINE Harmless(r) ==
        /\ DOMAIN r = Fields /\ r.kind = bots[b].kind /\ r.leader = bots[b].leader
        /\ b \in Fickle => \/ bots[b].pc \in Before \ {"failed"} /\ r.pc \in Before
                           \/ bots[b].pc \in After \ {"failed"} /\ r.pc \in After
<1>1. ASSUME NEW r, Harmless(r), Go(b, r) PROVE Shape' /\ OneSide'
  BY <1>1, OneBotMoves DEF Go
<1>2. DOMAIN bots[b] = Fields
  BY DEF Shape
<1>3. b \in Fickle <=> bots[b].kind = "fickle"
  BY DEF Fickle
<1>4. b \in Fickle => bots[b].pc \in Before \cup After
  BY DEF OneSide
<1> USE <1>2, <1>3 DEF Due, Fields, Before, After
<1>5. ASSUME NEW option, NEW r, Send(b, option, r), Harmless(r),
             Harmless([bots[b] EXCEPT !.pc = "failed"])
      PROVE  Shape' /\ OneSide'
  BY <1>1, <1>5 DEF Send
<1>6. CASE Connect(b)
  <2>1. /\ Harmless([bots[b] EXCEPT !.pc = "hold", !.timer = HOLD]) \/ bots[b].kind # "ghost"
        /\ Harmless([bots[b] EXCEPT !.pc = "send"])
        /\ Harmless([bots[b] EXCEPT !.pc = "failed"])
        /\ Harmless([bots[b] EXCEPT !.tries = @ + 1, !.timer = 1])
    BY <1>6 DEF Connect
  <2> HIDE DEF Harmless
  <2> QED
    BY <1>1, <1>6, <2>1 DEF Connect
<1>7. CASE SendVote(b)
  <2>1. PICK o \in Option :
            Send(b, o, [bots[b] EXCEPT !.vote = o, !.left = @ - 1, !.timer = VOTE_INTERVAL])
    BY <1>7 DEF SendVote
  <2>2. /\ Harmless([bots[b] EXCEPT !.vote = o, !.left = @ - 1, !.timer = VOTE_INTERVAL])
        /\ Harmless([bots[b] EXCEPT !.pc = "failed"])
    BY <1>7 DEF SendVote
  <2> HIDE DEF Harmless
  <2> QED
    BY <1>5, <2>1, <2>2
<1>8. CASE Quit(b)
  <2>1. PICK o \in Option : Send(b, o, Done(bots[b]))
    BY <1>8 DEF Quit
  <2>2. Harmless(Done(bots[b])) /\ Harmless([bots[b] EXCEPT !.pc = "failed"])
    BY <1>8 DEF Quit, Done
  <2> HIDE DEF Harmless
  <2> QED
    BY <1>5, <2>1, <2>2
<1>9. ASSUME NEW kind \in Chatters, SendLine(b, kind) PROVE Shape' /\ OneSide'
  <2>1. /\ Harmless([bots[b] EXCEPT !.left = @ - 1])
        /\ Harmless([bots[b] EXCEPT !.pc = "failed"])
    BY <1>9 DEF SendLine, Chatters
  <2> HIDE DEF Harmless
  <2> QED
    BY <1>5, <1>9, <2>1 DEF SendLine
<1>10. CASE StartReceiving(b)
  <2>1. Harmless([bots[b] EXCEPT !.pc = "recv", !.timer = RECV_TIMEOUT])
    BY <1>10 DEF StartReceiving, Chatters
  <2> HIDE DEF Harmless
  <2> QED
    BY <1>1, <1>10, <2>1 DEF StartReceiving
<1>11. CASE Receive(b)
  <2> DEFINE bot == [bots[b] EXCEPT !.received = @ + 1]
  <2>1. Harmless(bot) /\ Harmless(Done(bot))
    BY <1>4, <1>11 DEF Receive, Done
  <2>2. CASE UNCHANGED bots
    BY <2>2, BotsUnchanged
  <2>3. CASE Go(b, IF bot.received >= request.msgs THEN Done(bot) ELSE bot)
    <3> HIDE DEF bot, Harmless
    <3> QED
      BY <1>1, <2>1, <2>3
  <2> QED
    BY <1>11, <2>2, <2>3 DEF Receive
<1>12. CASE StopReceiving(b)
  <2>1. Harmless(Done(bots[b]))
    BY <1>4, <1>12 DEF StopReceiving, Done
  <2> HIDE DEF Harmless
  <2> QED
    BY <1>1, <1>12, <2>1 DEF StopReceiving
<1>13. CASE Hear(b)
  <2> DEFINE counts == Head(conns[b].queue).counts
  <2>1. CASE UNCHANGED bots
    BY <2>1, BotsUnchanged
  <2>2. CASE Go(b, [bots[b] EXCEPT !.snap = counts])
    <3> HIDE DEF counts
    <3>1. Harmless([bots[b] EXCEPT !.snap = counts])
      BY <1>4, <1>13 DEF Hear, Ended
    <3> HIDE DEF Harmless
    <3> QED
      BY <1>1, <2>2, <3>1
  <2> QED
    BY <1>13, <2>1, <2>2 DEF Hear
<1>14. CASE Settled(b)
  <2>1. /\ \A n : Harmless([bots[b] EXCEPT !.pc = "revote", !.left = n])
        /\ Harmless([bots[b] EXCEPT !.pc = "revote", !.timer = ROUNDS * ROUND])
    BY <1>14 DEF Settled
  <2> HIDE DEF Harmless
  <2> QED
    BY <1>1, <1>14, <2>1 DEF Settled
<1>15. CASE Revote(b)
  <2>1. /\ Harmless([bots[b] EXCEPT !.left = @ - 1, !.timer = ROUND])
        /\ Harmless([bots[b] EXCEPT !.pc = "failed"])
    BY <1>15 DEF Revote
  <2> HIDE DEF Harmless
  <2> QED
    BY <1>5, <1>15, <2>1 DEF Revote
<1>16. CASE AwaitPropagation(b)
  <2>1. Harmless([bots[b] EXCEPT !.pc = "propagate", !.timer = PROPAGATION])
    BY <1>16 DEF AwaitPropagation
  <2> HIDE DEF Harmless
  <2> QED
    BY <1>1, <1>16, <2>1 DEF AwaitPropagation
<1>17. ASSUME NEW place \in {"propagate", "hold"}, EndAt(b, place) PROVE Shape' /\ OneSide'
  <2>1. Harmless(Done(bots[b]))
    BY <1>4, <1>17 DEF EndAt, Done
  <2> HIDE DEF Harmless
  <2> QED
    BY <1>1, <1>17, <2>1 DEF EndAt
<1> QED
  BY <1>6, <1>7, <1>8, <1>9, <1>10, <1>11, <1>12, <1>13, <1>14, <1>15, <1>16, <1>17
  DEF BotStep, SendChat, SendSpam, Finish, Release, Chatters

LEMMA SideStep == Shape /\ OneSide /\ [Next]_vars => Shape' /\ OneSide'
<1> SUFFICES ASSUME Shape, OneSide, [Next]_vars PROVE Shape' /\ OneSide'
    OBVIOUS
<1>1. CASE Prepare \/ AssertFails \/ Report \/ Flush \/ UNCHANGED vars
  BY <1>1, BotsUnchanged DEF Prepare, AssertFails, Report, Flush, vars
<1>2. CASE Spawn
  BY <1>2, SpawnStep
<1>3. CASE Tick
  BY <1>3, TickStep
<1>4. ASSUME NEW b \in Bot, BotStep(b) PROVE Shape' /\ OneSide'
  BY <1>4, ArriveStep, BotMoves
<1>5. ASSUME NEW b \in Bot, ServerStep(b) PROVE Shape' /\ OneSide'
  BY <1>5, BotsUnchanged DEF ServerStep, Accept, HandleLine, Leave
<1> QED
  BY <1>1, <1>2, <1>3, <1>4, <1>5 DEF Next

(* The barrier of the fickle bots (fickle.rs:54-55, mod.rs:442-448 and 534):
   when one has passed it, every other that has not failed has passed it too,
   and exactly one is the leader; for any number of bots of any kinds, with
   connections refused, closed or late. *)
THEOREM BarrierCorrect == Spec => []BarrierHolds
<1>1. Init => Shape /\ OneSide
  <2> SUFFICES ASSUME Init PROVE Shape /\ OneSide
    OBVIOUS
  <2>1. Bot = {} /\ bots = <<>>
    BY DEF Init, Bot
  <2>2. bots = [b \in Bot |-> bots[b]]
    BY <2>1
  <2> QED
    BY <2>1, <2>2, FS_EmptySet DEF Shape, OneSide, Fickle
<1>2. Shape /\ OneSide => BarrierHolds
  <2> SUFFICES ASSUME Shape, OneSide,
                      NEW b \in Fickle, bots[b].pc \in {"settle", "revote", "propagate", "done"}
               PROVE  /\ \A c \in Fickle : bots[c].pc \notin {"connect", "send", "barrier"}
                      /\ Cardinality({c \in Fickle : bots[c].leader}) = 1
    BY DEF BarrierHolds
  <2>1. \A c \in Fickle : bots[c].pc \in After
    BY DEF OneSide, Before
  <2>2. PICK l \in Fickle : \A c \in Fickle : bots[c].leader <=> c = l
    BY DEF OneSide, Before
  <2>3. {c \in Fickle : bots[c].leader} = {l}
    BY <2>2
  <2> QED
    BY <2>1, <2>3, FS_Singleton DEF After
<1> QED
  BY <1>1, <1>2, SideStep, PTL DEF Spec
------------------------------------------------------------------------------
(* The allocation. *)

LEMMA RequestType ==
  ASSUME request \in Requests
  PROVE  /\ request.count \in Nat /\ request.msgs \in Nat /\ request.faults \in Nat
         /\ request.mode \in BotType \cup {"mixed", "other"}
         /\ SpecOf(request) \in SpecText
<1>1. request \in [mode : BotType \cup {"mixed", "other"}, count : Nat, msgs : Nat,
                   ratio : {None} \cup SpecText, faults : Nat]
  BY RequestsAssumption
<1>2. request.ratio \in {None} \cup SpecText
  BY <1>1
<1>3. Default \in SpecText
  BY DEF Default, SpecText, BotType
<1> QED
  BY <1>1, <1>2, <1>3 DEF SpecOf

\* Prepare allocates what Allocate gives.
LEMMA PrepareStep ==
  ASSUME request \in Requests, Prepare, stage' = "allocated"
  PROVE  LET spec == SpecOf(request)
         IN  /\ spec \in SpecText /\ Parses(spec)
             /\ Allocate(request.count, spec) \in [DOMAIN spec -> Nat]
             /\ alloc' \in Seq([type : BotType, n : Nat])
             /\ [i \in DOMAIN alloc' |-> alloc'[i].n] = Allocate(request.count, spec)
<1> DEFINE spec == SpecOf(request)
           n == Allocate(request.count, spec)
<1>1. /\ Parses(spec) /\ RatioSum(spec) # 0
      /\ alloc' = [i \in DOMAIN spec |-> [type |-> spec[i].type, n |-> n[i]]]
  BY DEF Prepare
<1>2. spec \in SpecText /\ request.count \in Nat
  BY RequestType
<1> HIDE DEF spec
<1>3. n \in [DOMAIN spec -> Nat]
  BY <1>1, <1>2, AllocateType
<1> HIDE DEF n
<1>4. /\ DOMAIN spec = 1 .. Len(spec) /\ Len(spec) \in Nat
      /\ \A i \in DOMAIN spec : spec[i].type \in BotType
  BY <1>1, <1>2, ParsedText
<1>5. DOMAIN alloc' = DOMAIN spec /\ \A i \in DOMAIN spec : alloc'[i].n = n[i]
  BY <1>1
<1>6. alloc' \in Seq([type : BotType, n : Nat])
  BY <1>1, <1>3, <1>4
<1>7. [i \in DOMAIN alloc' |-> alloc'[i].n] = n
  BY <1>3, <1>5
<1> QED
  BY <1>1, <1>2, <1>3, <1>6, <1>7 DEF spec, n

(* The allocation of a mixed scenario (mod.rs:284-324): for every ratio text
   that parses and whose sum is a u32, and every number of bots, the numbers
   add up, every entry gets its share rounded down or one more, and the ones
   more go to the larger ratios and the earlier entries first. *)
THEOREM AllocationCorrect == Spec => []AllocationSound
<1> DEFINE Inv == request \in Requests /\ AllocationSound
<1>1. Init => Inv
  BY DEF Init, AllocationSound
<1>2. Inv /\ [Next]_vars => Inv'
  <2> SUFFICES ASSUME Inv, [Next]_vars PROVE Inv'
    OBVIOUS
  <2>1. request' = request
    BY DEF Next, vars, scenarioVars, Prepare, Spawn, AssertFails, Report, Tick, Flush, BotStep,
           ServerStep, Accept, HandleLine, Leave, Connect, SendVote, Quit, SendChat, SendSpam,
           SendLine, StartReceiving, Receive, StopReceiving, Hear, Arrive, Settled, Revote,
           AwaitPropagation, Finish, Release, EndAt
  <2>2. CASE Prepare /\ stage' = "allocated"
    <3> DEFINE spec == SpecOf(request)
    <3>1. /\ spec \in SpecText /\ Parses(spec)
          /\ [i \in DOMAIN alloc' |-> alloc'[i].n] = Allocate(request.count, spec)
      BY <2>2, PrepareStep
    <3>2. ~Overflows(spec) => SoundAllocation(request.count, spec, Allocate(request.count, spec))
      BY <3>1, RequestType, AllocateSound
    <3> QED
      BY <2>1, <3>1, <3>2 DEF AllocationSound
  <2>3. CASE ~Prepare /\ stage' = "allocated"
    <3>1. stage = "allocated" /\ alloc' = alloc
      BY <2>3 DEF Next, vars, scenarioVars, Spawn, AssertFails, Report, Tick, Flush, BotStep,
           ServerStep, Accept, HandleLine, Leave, Connect, SendVote, Quit, SendChat, SendSpam,
           SendLine, StartReceiving, Receive, StopReceiving, Hear, Arrive, Settled, Revote,
           AwaitPropagation, Finish, Release, EndAt
    <3> QED
      BY <2>1, <3>1 DEF AllocationSound
  <2>4. CASE stage' # "allocated"
    BY <2>1, <2>4 DEF AllocationSound
  <2> QED
    BY <2>2, <2>3, <2>4
<1> QED
  BY <1>1, <1>2, PTL DEF Spec
------------------------------------------------------------------------------
(* Types. What makes them inductive is where each kind of bot may be, and     *)
(* that chat lines are about only if the bots are asked to send some.         *)

Placed(bot) ==
    /\ bot.pc \in {"barrier", "settle", "revote", "propagate"} => bot.kind = "fickle"
    /\ bot.pc = "recv" => /\ bot.kind \in Chatters
                          /\ bot.received < request.msgs \/ request.msgs = 0
    /\ bot.pc \in {"connect", "send"} => bot.received = 0
    /\ bot.pc \in {"barrier", "settle", "propagate"} => bot.left = 0
    /\ bot.pc = "revote" /\ bot.left > 0 => bot.vote # None
    /\ bot.kind \in Chatters => bot.left <= request.msgs
GoodBot == {bot \in BotState : Placed(bot)}

GoodLine == {line \in Line : line.option = None => request.msgs > 0}
GoodEvent == {event \in Event : event.from # 0 => request.msgs > 0}
GoodConn == {c \in ConnState : /\ c.inbox \in Seq(GoodLine)
                               /\ c.queue \in Seq(GoodEvent) /\ Len(c.queue) <= CAP}

BotsGood == bots \in Seq(GoodBot) /\ Len(bots) <= MaxBots
ConnsGood == conns \in Seq(GoodConn) /\ Len(conns) = Len(bots)
RestGood ==
    /\ stage \in {"start", "rejected", "allocated", "running", "panicked", "reported"}
    /\ request \in Requests /\ alloc \in Seq([type : BotType, n : Nat])
    /\ pending \in Counts \cup {None} /\ recent \in BOOLEAN /\ faults \in 0 .. request.faults
Good == BotsGood /\ ConnsGood /\ RestGood

LEMMA BotsAre ==
  ASSUME Good
  PROVE  /\ Bot = 1 .. Len(bots) /\ DOMAIN conns = Bot /\ Len(bots) \in 0 .. MaxBots
         /\ IsFiniteSet(Bot) /\ Cardinality(Bot) = Len(bots)
         /\ \A b \in Bot : bots[b] \in GoodBot /\ conns[b] \in GoodConn
<1>1. Bot = 1 .. Len(bots) /\ Len(bots) \in Nat
  BY DEF Good, BotsGood, Bot
<1>2. IsFiniteSet(Bot) /\ Cardinality(Bot) = Len(bots)
  BY <1>1, FS_Interval
<1> QED
  BY <1>1, <1>2, DurationsAssumption DEF Good, BotsGood, ConnsGood, Bot

LEMMA GoodIsTyped == ASSUME Good PROVE TypeOK
<1>1. bots \in Seq(BotState) /\ conns \in Seq(ConnState)
  BY DEF Good, BotsGood, ConnsGood, GoodBot, GoodConn
<1>2. \A b \in Bot : Len(conns[b].queue) <= CAP
  BY BotsAre DEF GoodConn
<1> QED
  BY <1>1, <1>2 DEF Good, BotsGood, ConnsGood, RestGood, TypeOK

\* One bot changes.
LEMMA GoFacts ==
  ASSUME Good, request' = request, NEW b \in Bot, NEW r \in GoodBot, Go(b, r)
  PROVE  /\ BotsGood' /\ Bot' = Bot /\ Len(bots') = Len(bots)
         /\ bots'[b] = r /\ \A c \in Bot \ {b} : bots'[c] = bots[c]
<1>1. GoodBot' = GoodBot
  BY DEF GoodBot, BotState, Placed
<1>2. bots \in Seq(GoodBot) /\ bots' = [bots EXCEPT ![b] = r] /\ Bot = DOMAIN bots
  BY DEF Good, BotsGood, Go, Bot
<1>3. bots' \in Seq(GoodBot) /\ Len(bots') = Len(bots) /\ DOMAIN bots' = DOMAIN bots
  BY <1>2
<1> QED
  BY <1>1, <1>2, <1>3 DEF Good, BotsGood, Bot

\* The board that a change of one connection leads to.
LEMMA BoardType ==
  ASSUME Good, NEW cs \in Seq(ConnState), Len(cs) = Len(bots)
  PROVE  BoardOf(cs) \in Counts
<1>1. DOMAIN cs = Bot
  BY BotsAre
<1>2. ASSUME NEW o \in Option
      PROVE  Cardinality({c \in Bot : cs[c].vote = o}) \in 0 .. MaxBots
  <2>1. /\ {c \in Bot : cs[c].vote = o} \subseteq Bot
        /\ IsFiniteSet(Bot) /\ Cardinality(Bot) \in 0 .. MaxBots
    BY BotsAre
  <2>2. /\ IsFiniteSet({c \in Bot : cs[c].vote = o})
        /\ Cardinality({c \in Bot : cs[c].vote = o}) <= Cardinality(Bot)
    BY <2>1, FS_Subset
  <2> QED
    BY <2>1, <2>2, FS_CardinalityType, DurationsAssumption
<1>3. BoardOf(cs) = [o \in Option |-> Cardinality({c \in Bot : cs[c].vote = o})]
  BY <1>1 DEF BoardOf, Tally
<1> QED
  BY <1>2, <1>3 DEF Counts

LEMMA EnqueueFacts ==
  ASSUME NEW c \in GoodConn, NEW event \in GoodEvent
  PROVE  LET d == Enqueue(c, event)
         IN  /\ d \in GoodConn
             /\ d.state = c.state /\ d.inbox = c.inbox /\ d.vote = c.vote
             /\ c.state # "open" => d = c
             /\ c.state = "open" =>
                   \/ d.queue = Append(c.queue, event) /\ d.overtaken = c.overtaken
                   \/ /\ d.queue = Append(Tail(c.queue), event) /\ d.overtaken
                      /\ c.queue # <<>>
<1>1. CASE c.state # "open"
  BY <1>1 DEF Enqueue
<1>2. ASSUME NEW q \in Seq(GoodEvent), Len(q) <= CAP, NEW o \in BOOLEAN
      PROVE  [c EXCEPT !.queue = q, !.overtaken = o] \in GoodConn
  <2>1. q \in Seq(Event)
    BY <1>2 DEF GoodEvent
  <2>2. [c EXCEPT !.queue = q, !.overtaken = o] \in ConnState
    BY <2>1 DEF GoodConn, ConnState
  <2> QED
    BY <1>2, <2>2 DEF GoodConn, ConnState
<1>3. CASE c.state = "open" /\ Len(c.queue) < CAP
  <2> DEFINE q == Append(c.queue, event)
  <2>1. c.queue \in Seq(GoodEvent) /\ c.overtaken \in BOOLEAN
    BY DEF GoodConn, ConnState
  <2>2. q \in Seq(GoodEvent) /\ Len(q) <= CAP
    BY <1>3, <2>1, DurationsAssumption
  <2>3. Enqueue(c, event) = [c EXCEPT !.queue = q, !.overtaken = c.overtaken]
    BY <1>3 DEF Enqueue, GoodConn, ConnState
  <2>4. Enqueue(c, event) \in GoodConn
    BY <1>2, <2>1, <2>2, <2>3
  <2> QED
    BY <1>3, <2>4 DEF Enqueue, GoodConn, ConnState
<1>4. CASE c.state = "open" /\ ~(Len(c.queue) < CAP)
  <2> DEFINE q == Append(Tail(c.queue), event)
  <2>1. c.queue # <<>> /\ Len(c.queue) = CAP /\ c.queue \in Seq(GoodEvent)
    BY <1>4, DurationsAssumption DEF GoodConn
  <2>2. q \in Seq(GoodEvent) /\ Len(q) <= CAP
    BY <2>1, DurationsAssumption
  <2>3. Enqueue(c, event) = [c EXCEPT !.queue = q, !.overtaken = TRUE]
    BY <1>4 DEF Enqueue
  <2>4. Enqueue(c, event) \in GoodConn
    BY <1>2, <2>2, <2>3
  <2> QED
    BY <1>4, <2>1, <2>3, <2>4 DEF GoodConn, ConnState
<1> QED
  BY <1>1, <1>3, <1>4

LEMMA DeliverFacts ==
  ASSUME NEW cs \in Seq(GoodConn), NEW event \in GoodEvent
  PROVE  /\ Deliver(cs, event) \in Seq(GoodConn) /\ Len(Deliver(cs, event)) = Len(cs)
         /\ \A c \in DOMAIN cs : Deliver(cs, event)[c] = Enqueue(cs[c], event)
<1>1. \A c \in DOMAIN cs : Enqueue(cs[c], event) \in GoodConn
  BY EnqueueFacts
<1> QED
  BY <1>1 DEF Deliver

\* Good lines and events do not depend on the step, the request being the same.
LEMMA SameRequest ==
  ASSUME request' = request
  PROVE  GoodBot' = GoodBot /\ GoodConn' = GoodConn
BY DEF GoodBot, GoodConn, BotState, Placed, GoodLine, GoodEvent

LEMMA SnapshotGood == ASSUME NEW counts \in Counts PROVE Snapshot(counts) \in GoodEvent
BY DurationsAssumption DEF Snapshot, GoodEvent, Event

LEMMA AnnounceFacts ==
  ASSUME Good, NEW cs \in Seq(GoodConn), Len(cs) = Len(bots), Announce(cs)
  PROVE  /\ BoardOf(cs) \in Counts
         /\ \/ conns' = Deliver(cs, Snapshot(BoardOf(cs))) /\ recent' /\ pending' = pending
            \/ conns' = cs /\ pending' = BoardOf(cs) /\ recent /\ recent' = recent
         /\ conns' \in Seq(GoodConn) /\ Len(conns') = Len(bots)
         /\ pending' \in Counts \cup {None} /\ recent' \in BOOLEAN
<1>1. cs \in Seq(ConnState)
  BY DEF GoodConn
<1>2. BoardOf(cs) \in Counts
  BY <1>1, BoardType
<1>3. /\ Deliver(cs, Snapshot(BoardOf(cs))) \in Seq(GoodConn)
      /\ Len(Deliver(cs, Snapshot(BoardOf(cs)))) = Len(cs)
  BY <1>2, SnapshotGood, DeliverFacts
<1> QED
  BY <1>2, <1>3 DEF Announce, Good, RestGood

\* A connection that changes but for its queue.
LEMMA ConnGood ==
  ASSUME Good, NEW b \in Bot, NEW d \in GoodConn
  PROVE  /\ [conns EXCEPT ![b] = d] \in Seq(GoodConn)
         /\ Len([conns EXCEPT ![b] = d]) = Len(bots)
         /\ DOMAIN [conns EXCEPT ![b] = d] = Bot
<1>1. conns \in Seq(GoodConn) /\ Len(conns) = Len(bots) /\ DOMAIN conns = Bot
  BY BotsAre DEF Good, ConnsGood
<1> QED
  BY <1>1

\* How the server changes one connection before it tells the others.
Heard(b) == [conns[b] EXCEPT !.inbox = Tail(@)]
Voted(b) == [conns[b] EXCEPT !.inbox = Tail(@), !.vote = Head(conns[b].inbox).option]
Closed(b) == [conns[b] EXCEPT !.state = "gone", !.inbox = <<>>, !.queue = <<>>, !.vote = None]

LEMMA ServerFacts ==
  ASSUME Good, NEW b \in Bot
  PROVE  /\ conns[b].inbox # <<>> =>
              /\ Heard(b) \in GoodConn /\ Voted(b) \in GoodConn
              /\ Head(conns[b].inbox).option = None => Chat(b) \in GoodEvent
         /\ Closed(b) \in GoodConn
         /\ \A s \in {"open", "gone", "backlog"} : [conns[b] EXCEPT !.state = s] \in GoodConn
<1>1. conns[b] \in GoodConn /\ b \in 1 .. MaxBots
  BY BotsAre, DurationsAssumption
<1>2. ASSUME conns[b].inbox # <<>>
      PROVE  /\ Heard(b) \in GoodConn /\ Voted(b) \in GoodConn
             /\ Head(conns[b].inbox).option = None => Chat(b) \in GoodEvent
  <2>1. /\ conns[b].inbox \in Seq(GoodLine) /\ Tail(conns[b].inbox) \in Seq(GoodLine)
        /\ Head(conns[b].inbox) \in GoodLine
    BY <1>1, <1>2 DEF GoodConn
  <2>2. Tail(conns[b].inbox) \in Seq(Line)
    BY <2>1 DEF GoodLine
  <2>3. Head(conns[b].inbox).option \in Option \cup {None}
    BY <2>1 DEF GoodLine, Line
  <2>4. Heard(b) \in GoodConn /\ Voted(b) \in GoodConn
    BY <1>1, <2>1, <2>2, <2>3 DEF GoodConn, ConnState, Heard, Voted
  <2>5. Head(conns[b].inbox).option = None => Chat(b) \in GoodEvent
    BY <1>1, <2>1 DEF Chat, GoodEvent, Event, GoodLine, Event
  <2> QED
    BY <2>4, <2>5
<1>3. Closed(b) \in GoodConn
  <2>1. <<>> \in Seq(Line) /\ <<>> \in Seq(Event) /\ <<>> \in Seq(GoodLine) /\ <<>> \in Seq(GoodEvent)
    OBVIOUS
  <2>2. Len(<<>>) <= CAP
    BY DurationsAssumption
  <2> QED
    BY <1>1, <2>1, <2>2 DEF Closed, GoodConn, ConnState
<1>4. \A s \in {"open", "gone", "backlog"} : [conns[b] EXCEPT !.state = s] \in GoodConn
  BY <1>1 DEF GoodConn, ConnState
<1> QED
  BY <1>2, <1>3, <1>4

\* What the steps of the server do.
LEMMA AcceptFacts ==
  ASSUME Good, NEW b \in Bot, Accept(b)
  PROVE  /\ conns[b].state = "backlog"
         /\ \/ conns' = [conns EXCEPT ![b] = [conns[b] EXCEPT !.state = "open"]]
            \/ /\ conns' = [conns EXCEPT ![b] = [conns[b] EXCEPT !.state = "gone"]]
               /\ Cardinality({c \in Bot : conns[c].state = "open"}) >= MAX_CONNECTIONS
         /\ UNCHANGED <<scenarioVars, bots, pending, recent, faults>>
<1>1. Cardinality({c \in Bot : conns[c].state = "open"}) \in Nat
  BY BotsAre, FS_Subset, FS_CardinalityType
<1>2. \A s : [conns EXCEPT ![b].state = s] = [conns EXCEPT ![b] = [conns[b] EXCEPT !.state = s]]
  OBVIOUS
<1>3. CASE Cardinality({c \in Bot : conns[c].state = "open"}) < MAX_CONNECTIONS
  BY <1>2, <1>3 DEF Accept
<1>4. CASE Cardinality({c \in Bot : conns[c].state = "open"}) >= MAX_CONNECTIONS
  BY <1>1, <1>2, <1>4, DurationsAssumption DEF Accept
<1> QED
  BY <1>1, <1>3, <1>4, DurationsAssumption

LEMMA HandleFacts ==
  ASSUME Good, NEW b \in Bot, HandleLine(b)
  PROVE  /\ conns[b].state = "open" /\ conns[b].inbox # <<>>
         /\ \/ /\ Head(conns[b].inbox).option # None
               /\ Announce([conns EXCEPT ![b] = Voted(b)])
            \/ /\ Head(conns[b].inbox).option = None
               /\ conns' = Deliver([conns EXCEPT ![b] = Heard(b)], Chat(b))
               /\ UNCHANGED <<pending, recent>>
         /\ UNCHANGED <<scenarioVars, bots, faults>>
<1> DEFINE rest == [conns EXCEPT ![b].inbox = Tail(@)]
<1>1. b \in DOMAIN conns
  BY BotsAre
<1>2. rest = [conns EXCEPT ![b] = Heard(b)]
  BY DEF Heard
<1>3. [rest EXCEPT ![b].vote = Head(conns[b].inbox).option] = [conns EXCEPT ![b] = Voted(b)]
  BY <1>1 DEF Voted
<1> QED
  BY <1>2, <1>3 DEF HandleLine

LEMMA LeaveFacts ==
  ASSUME Good, NEW b \in Bot, Leave(b)
  PROVE  /\ conns[b].state = "open" /\ Ended(b)
         /\ \/ /\ conns[b].vote # None
               /\ Announce([conns EXCEPT ![b] = Closed(b)])
            \/ /\ conns[b].vote = None
               /\ conns' = [conns EXCEPT ![b] = Closed(b)] /\ UNCHANGED <<pending, recent>>
         /\ UNCHANGED <<scenarioVars, bots, faults>>
<1>1. b \in DOMAIN conns
  BY BotsAre
<1>2. [conns EXCEPT ![b].state = "gone", ![b].inbox = <<>>, ![b].queue = <<>>, ![b].vote = None]
         = [conns EXCEPT ![b] = Closed(b)]
  BY <1>1 DEF Closed
<1> QED
  BY <1>2 DEF Leave

LEMMA ServerGood ==
  ASSUME Good, Flush \/ \E b \in Bot : ServerStep(b)
  PROVE  Good'
<1>1. request' = request /\ bots' = bots
  BY DEF Flush, ServerStep, Accept, HandleLine, Leave, scenarioVars
<1>2. BotsGood'
  BY <1>1, SameRequest DEF Good, BotsGood
<1>3. ASSUME conns' \in Seq(GoodConn), Len(conns') = Len(bots),
             pending' \in Counts \cup {None}, recent' \in BOOLEAN,
             UNCHANGED <<scenarioVars, bots, faults>>
      PROVE  Good'
  BY <1>1, <1>2, <1>3, SameRequest DEF Good, ConnsGood, RestGood, scenarioVars
<1>4. CASE Flush
  <2>1. pending \in Counts /\ conns \in Seq(GoodConn) /\ Len(conns) = Len(bots)
    BY <1>4 DEF Flush, Good, RestGood, ConnsGood
  <2>2. /\ conns' \in Seq(GoodConn) /\ Len(conns') = Len(bots)
        /\ pending' = None /\ recent' = TRUE /\ UNCHANGED <<scenarioVars, bots, faults>>
    BY <1>4, <2>1, SnapshotGood, DeliverFacts DEF Flush
  <2> QED
    BY <1>3, <2>2
<1>5. ASSUME NEW b \in Bot, Accept(b) PROVE Good'
  <2>1. PICK s \in {"open", "gone"} :
           conns' = [conns EXCEPT ![b] = [conns[b] EXCEPT !.state = s]]
    BY <1>5, AcceptFacts
  <2>2. [conns[b] EXCEPT !.state = s] \in GoodConn
    BY ServerFacts
  <2>3. conns' \in Seq(GoodConn) /\ Len(conns') = Len(bots)
    BY <2>1, <2>2, ConnGood
  <2>4. UNCHANGED <<scenarioVars, bots, pending, recent, faults>>
    BY <1>5, AcceptFacts
  <2> QED
    BY <1>3, <2>3, <2>4 DEF Good, RestGood
<1>6. ASSUME NEW b \in Bot, NEW d \in GoodConn, Announce([conns EXCEPT ![b] = d]),
             UNCHANGED <<scenarioVars, bots, faults>>
      PROVE  Good'
  BY <1>3, <1>6, ConnGood, AnnounceFacts
<1>7. ASSUME NEW b \in Bot, HandleLine(b) PROVE Good'
  <2>1. Heard(b) \in GoodConn /\ Voted(b) \in GoodConn
    BY <1>7, HandleFacts, ServerFacts
  <2>2. CASE Announce([conns EXCEPT ![b] = Voted(b)])
    BY <1>6, <1>7, <2>1, <2>2, HandleFacts
  <2>3. CASE /\ Head(conns[b].inbox).option = None
             /\ conns' = Deliver([conns EXCEPT ![b] = Heard(b)], Chat(b))
             /\ UNCHANGED <<pending, recent>>
    <3>1. Chat(b) \in GoodEvent
      BY <1>7, <2>3, HandleFacts, ServerFacts
    <3>2. /\ [conns EXCEPT ![b] = Heard(b)] \in Seq(GoodConn)
          /\ Len([conns EXCEPT ![b] = Heard(b)]) = Len(bots)
      BY <2>1, ConnGood
    <3>3. conns' \in Seq(GoodConn) /\ Len(conns') = Len(bots)
      BY <2>3, <3>1, <3>2, DeliverFacts
    <3> QED
      BY <1>3, <1>7, <2>3, <3>3, HandleFacts DEF Good, RestGood
  <2> QED
    BY <1>7, <2>2, <2>3, HandleFacts
<1>8. ASSUME NEW b \in Bot, Leave(b) PROVE Good'
  <2>1. Closed(b) \in GoodConn
    BY ServerFacts
  <2>2. CASE Announce([conns EXCEPT ![b] = Closed(b)])
    BY <1>6, <1>8, <2>1, <2>2, LeaveFacts
  <2>3. CASE conns' = [conns EXCEPT ![b] = Closed(b)] /\ UNCHANGED <<pending, recent>>
    <3>1. conns' \in Seq(GoodConn) /\ Len(conns') = Len(bots)
      BY <2>1, <2>3, ConnGood
    <3> QED
      BY <1>3, <1>8, <2>3, <3>1, LeaveFacts DEF Good, RestGood
  <2> QED
    BY <1>8, <2>2, <2>3, LeaveFacts
<1> QED
  BY <1>4, <1>5, <1>7, <1>8 DEF ServerStep

\* What the steps of the bots do to one connection.
Sent(b, option) == [conns[b] EXCEPT !.inbox = Append(@, [option |-> option])]
Took(b) == [conns[b] EXCEPT !.queue = Tail(@)]

LEMMA BotConnFacts ==
  ASSUME Good, NEW b \in Bot
  PROVE  /\ conns[b].queue # <<>> => Took(b) \in GoodConn /\ Head(conns[b].queue) \in GoodEvent
         /\ \A o \in Option \cup {None} : (o = None => request.msgs > 0) => Sent(b, o) \in GoodConn
<1>1. conns[b] \in GoodConn
  BY BotsAre
<1>2. ASSUME conns[b].queue # <<>>
      PROVE  Took(b) \in GoodConn /\ Head(conns[b].queue) \in GoodEvent
  <2>1. /\ Tail(conns[b].queue) \in Seq(GoodEvent) /\ Head(conns[b].queue) \in GoodEvent
        /\ Len(Tail(conns[b].queue)) <= CAP
    BY <1>1, <1>2, DurationsAssumption DEF GoodConn
  <2>2. Tail(conns[b].queue) \in Seq(Event)
    BY <2>1 DEF GoodEvent
  <2> QED
    BY <1>1, <2>1, <2>2 DEF Took, GoodConn, ConnState
<1>3. ASSUME NEW o \in Option \cup {None}, o = None => request.msgs > 0
      PROVE  Sent(b, o) \in GoodConn
  <2>1. [option |-> o] \in GoodLine /\ [option |-> o] \in Line
    BY <1>3 DEF GoodLine, Line
  <2>2. /\ Append(conns[b].inbox, [option |-> o]) \in Seq(GoodLine)
        /\ Append(conns[b].inbox, [option |-> o]) \in Seq(Line)
    BY <1>1, <2>1 DEF GoodConn, ConnState
  <2> QED
    BY <1>1, <2>2 DEF Sent, GoodConn, ConnState
<1> QED
  BY <1>2, <1>3

LEMMA DurationTypes ==
  /\ VOTE_INTERVAL \in Nat /\ SETTLE \in Nat /\ ROUND \in Nat /\ PROPAGATION \in Nat
  /\ HOLD \in Nat /\ RECV_TIMEOUT \in Nat /\ ROUNDS \in Nat /\ MAX_ATTEMPTS \in Nat
  /\ VOTE_INTERVAL > 0 /\ SETTLE > 0 /\ ROUND > 0 /\ PROPAGATION > 0
  /\ HOLD > 0 /\ RECV_TIMEOUT > 0 /\ ROUNDS > 0 /\ MAX_ATTEMPTS > 0
BY DurationsAssumption

LEMMA BotMoveGood ==
  ASSUME Good, NEW b \in Bot, NEW r \in GoodBot, Go(b, r) \/ UNCHANGED bots,
         \/ UNCHANGED conns
         \/ \E d \in GoodConn : conns' = [conns EXCEPT ![b] = d],
         UNCHANGED <<scenarioVars, pending, recent>>, faults' \in 0 .. request.faults
  PROVE  Good'
<1>1. request' = request /\ GoodBot' = GoodBot /\ GoodConn' = GoodConn
  BY SameRequest DEF scenarioVars
<1>2. BotsGood' /\ Len(bots') = Len(bots)
  BY <1>1, GoFacts DEF Good, BotsGood
<1>3. ConnsGood'
  BY <1>1, <1>2, ConnGood DEF Good, ConnsGood
<1>4. RestGood'
  BY <1>1 DEF Good, RestGood, scenarioVars
<1> QED
  BY <1>2, <1>3, <1>4 DEF Good

\* What a bot becomes, action by action, is what a bot may be.
FailedBot(b) == [bots[b] EXCEPT !.pc = "failed"]

LEMMA SendGood ==
  ASSUME Good, NEW b \in Bot, NEW o \in Option \cup {None}, o = None => request.msgs > 0,
         NEW r \in GoodBot, Send(b, o, r), UNCHANGED <<scenarioVars, pending, recent, faults>>
  PROVE  Good'
<1>1. FailedBot(b) \in GoodBot
  <2>1. bots[b] \in GoodBot
    BY BotsAre
  <2> QED
    BY <2>1 DEF FailedBot, GoodBot, BotState, Placed
<1>2. faults' \in 0 .. request.faults
  BY DEF Good, RestGood
<1>3. \/ conns' = [conns EXCEPT ![b] = Sent(b, o)] /\ Go(b, r)
      \/ UNCHANGED conns /\ (Go(b, r) \/ Go(b, FailedBot(b)))
  BY DEF Send, Sent, FailedBot
<1>4. Sent(b, o) \in GoodConn
  BY BotConnFacts
<1> QED
  BY <1>1, <1>2, <1>3, <1>4, BotMoveGood

LEMMA BotGood ==
  ASSUME Good, NEW b \in Bot, BotStep(b), ~Arrive(b)
  PROVE  Good'
<1>1. bots[b] \in GoodBot /\ faults \in 0 .. request.faults
  BY BotsAre DEF Good, RestGood
<1>2. request.msgs \in Nat /\ request.faults \in Nat
  BY RequestType DEF Good, RestGood
<1>0. bots[b].left \in Nat /\ bots[b].tries \in 0 .. MAX_ATTEMPTS - 1
      /\ bots[b].received \in 0 .. request.msgs
  BY <1>1 DEF GoodBot, BotState
<1>17. bots[b].left > 0 => bots[b].left - 1 \in Nat
  BY <1>0
<1>3. FailedBot(b) \in GoodBot
  BY <1>1 DEF FailedBot, GoodBot, BotState, Placed
<1>4. bots[b].pc = "recv" \/ bots[b].kind = "fickle" \/ bots[b].kind = "ghost" => Done(bots[b]) \in GoodBot
  BY <1>1 DEF GoodBot, BotState, Placed, Done, Chatters
<1>5. CASE Connect(b)
  <2>1. /\ [bots[b] EXCEPT !.pc = "hold", !.timer = HOLD] \in GoodBot
        /\ [bots[b] EXCEPT !.pc = "send"] \in GoodBot
    BY <1>1, <1>5, DurationsAssumption DEF Connect, Due, GoodBot, BotState, Placed
  <2>2. bots[b].tries + 1 # MAX_ATTEMPTS
           => [bots[b] EXCEPT !.tries = @ + 1, !.timer = 1] \in GoodBot
    <3>1. bots[b].tries + 1 # MAX_ATTEMPTS => bots[b].tries + 1 \in 0 .. MAX_ATTEMPTS - 1
      BY <1>0, DurationTypes
    <3> QED
      BY <1>1, <3>1 DEF GoodBot, BotState, Placed
  <2>3. [conns[b] EXCEPT !.state = "backlog"] \in GoodConn
    BY ServerFacts
  <2>4. \/ conns' = [conns EXCEPT ![b] = [conns[b] EXCEPT !.state = "backlog"]] /\ faults' = faults
        \/ UNCHANGED conns /\ faults < request.faults /\ faults' = faults + 1
    BY <1>5 DEF Connect
  <2>5. \/ Go(b, [bots[b] EXCEPT !.pc = "hold", !.timer = HOLD])
        \/ Go(b, [bots[b] EXCEPT !.pc = "send"])
        \/ Go(b, FailedBot(b))
        \/ /\ bots[b].tries + 1 # MAX_ATTEMPTS
           /\ Go(b, [bots[b] EXCEPT !.tries = @ + 1, !.timer = 1])
    BY <1>5 DEF Connect, FailedBot
  <2>6. faults' \in 0 .. request.faults /\ UNCHANGED <<scenarioVars, pending, recent>>
    BY <1>1, <1>2, <1>5, <2>4 DEF Connect
  <2> QED
    BY <1>3, <2>1, <2>2, <2>3, <2>4, <2>5, <2>6, BotMoveGood
<1>6. CASE SendVote(b)
  <2>1. PICK o \in Option :
            Send(b, o, [bots[b] EXCEPT !.vote = o, !.left = @ - 1, !.timer = VOTE_INTERVAL])
    BY <1>6 DEF SendVote
  <2>2. [bots[b] EXCEPT !.vote = o, !.left = @ - 1, !.timer = VOTE_INTERVAL] \in GoodBot
    <3>1. bots[b].left - 1 \in Nat /\ VOTE_INTERVAL \in Nat
      BY <1>6, <1>17, DurationTypes DEF SendVote
    <3>2. bots[b].kind = "fickle" /\ bots[b].pc = "send"
      BY <1>6 DEF SendVote, Due, Fickle
    <3> QED
      BY <1>1, <3>1, <3>2 DEF GoodBot, BotState, Placed, Chatters
  <2> QED
    BY <1>6, <2>1, <2>2, NoneAssumption, SendGood DEF SendVote
<1>7. CASE Quit(b)
  <2>1. PICK o \in Option : Send(b, o, Done(bots[b]))
    BY <1>7 DEF Quit
  <2>2. Done(bots[b]) \in GoodBot
    BY <1>1, <1>7 DEF Quit, Due, GoodBot, BotState, Placed, Done, Chatters
  <2> QED
    BY <1>7, <2>1, <2>2, NoneAssumption, SendGood DEF Quit
<1>8. ASSUME NEW kind \in Chatters, SendLine(b, kind) PROVE Good'
  <2>1. [bots[b] EXCEPT !.left = @ - 1] \in GoodBot /\ request.msgs > 0
    BY <1>1, <1>2, <1>8 DEF SendLine, Due, GoodBot, BotState, Placed, Chatters
  <2> QED
    BY <1>8, <2>1, SendGood DEF SendLine
<1>9. CASE StartReceiving(b)
  <2>1. [bots[b] EXCEPT !.pc = "recv", !.timer = RECV_TIMEOUT] \in GoodBot
    <3>1. /\ bots[b].kind \in Chatters /\ bots[b].pc = "send" /\ bots[b].left = 0
          /\ RECV_TIMEOUT \in Nat
      BY <1>9, DurationTypes DEF StartReceiving, Due
    <3>2. bots[b].received = 0
      BY <1>1, <3>1 DEF GoodBot, Placed
    <3>3. bots[b].received < request.msgs \/ request.msgs = 0
      BY <1>2, <3>2
    <3> QED
      BY <1>1, <3>1, <3>2, <3>3 DEF GoodBot, BotState, Placed, Chatters
  <2> QED
    BY <1>1, <1>9, <2>1, BotMoveGood DEF StartReceiving, serverVars
<1>10. CASE Receive(b)
  <2> DEFINE bot == [bots[b] EXCEPT !.received = @ + 1]
  <2>1. Took(b) \in GoodConn /\ Head(conns[b].queue) \in GoodEvent
    BY <1>10, BotConnFacts DEF Receive
  <2>2. conns' = [conns EXCEPT ![b] = Took(b)] /\ UNCHANGED <<scenarioVars, pending, recent, faults>>
    BY <1>10 DEF Receive, Took
  <2>3. ASSUME Head(conns[b].queue).from = b
        PROVE  /\ bot.received >= request.msgs => Done(bot) \in GoodBot
               /\ bot.received < request.msgs => bot \in GoodBot
               /\ bot.received \in Nat
    <3>1. request.msgs > 0 /\ bots[b].received < request.msgs /\ bots[b].received \in Nat
      <4>1. b # 0
        BY BotsAre
      <4>2. request.msgs > 0
        BY <2>1, <2>3, <4>1 DEF GoodEvent
      <4> QED
        BY <1>1, <1>2, <1>10, <4>2 DEF Receive, GoodBot, Placed, BotState
    <3>2. bots[b].received + 1 \in 0 .. request.msgs /\ bots[b].pc = "recv"
      BY <1>2, <1>10, <3>1 DEF Receive
    <3>3. bot = [bots[b] EXCEPT !.received = bots[b].received + 1] /\ bot \in BotState
          /\ bot.received = bots[b].received + 1
      BY <1>1, <3>2 DEF GoodBot, BotState
    <3>4. bot.pc = "recv" /\ bot.kind = bots[b].kind /\ bot.left = bots[b].left
      BY <1>1, <3>2 DEF GoodBot, BotState
    <3> HIDE DEF bot
    <3>5. Placed(bots[b])
      BY <1>1 DEF GoodBot
    <3>6. Done(bot) \in BotState /\ Done(bot).pc = "done" /\ Done(bot).kind = bots[b].kind
          /\ Done(bot).left = bots[b].left
      BY <3>3, <3>4 DEF BotState, Done
    <3>7. Placed(Done(bot))
      BY <3>2, <3>5, <3>6 DEF Placed
    <3>8. bot.received < request.msgs => Placed(bot)
      BY <3>2, <3>4, <3>5 DEF Placed
    <3> QED
      BY <3>2, <3>3, <3>6, <3>7, <3>8 DEF GoodBot
  <2>4. CASE Head(conns[b].queue).from # b
    BY <1>1, <1>10, <2>1, <2>2, <2>4, BotMoveGood DEF Receive
  <2>5. CASE Head(conns[b].queue).from = b
    <3>1. Go(b, IF bot.received >= request.msgs THEN Done(bot) ELSE bot)
      BY <1>10, <2>5 DEF Receive
    <3> HIDE DEF bot
    <3>2. \/ bot.received >= request.msgs /\ Go(b, Done(bot))
          \/ bot.received < request.msgs /\ Go(b, bot)
      BY <1>2, <2>3, <2>5, <3>1
    <3> QED
      BY <1>1, <2>1, <2>2, <2>3, <2>5, <3>2, BotMoveGood
  <2> QED
    BY <2>4, <2>5
<1>11. CASE StopReceiving(b)
  BY <1>1, <1>4, <1>11, BotMoveGood DEF StopReceiving, serverVars
<1>12. CASE Hear(b)
  <2> DEFINE counts == Head(conns[b].queue).counts
  <2>1. Took(b) \in GoodConn /\ counts \in Counts \cup {None}
    BY <1>12, BotConnFacts DEF Hear, GoodEvent, Event
  <2>2. conns' = [conns EXCEPT ![b] = Took(b)] /\ UNCHANGED <<scenarioVars, pending, recent, faults>>
    BY <1>12 DEF Hear, Took
  <2>3. UNCHANGED bots \/ Go(b, [bots[b] EXCEPT !.snap = counts])
    BY <1>12 DEF Hear
  <2> HIDE DEF counts
  <2>4. [bots[b] EXCEPT !.snap = counts] \in GoodBot
    BY <1>1, <2>1 DEF GoodBot, BotState, Placed
  <2> QED
    BY <1>1, <2>1, <2>2, <2>3, <2>4, BotMoveGood
<1>13. CASE Settled(b)
  <2>1. PICK n \in Nat : n = IF bots[b].vote = None THEN 0 ELSE ROUNDS
    BY DurationsAssumption
  <2>2. PICK t \in Nat : t = ROUNDS * ROUND
    <3>1. ROUNDS \in Nat /\ ROUND \in Nat
      BY DurationsAssumption
    <3> QED
      BY <3>1
  <2>3. /\ [bots[b] EXCEPT !.pc = "revote", !.left = n] \in GoodBot
        /\ [bots[b] EXCEPT !.pc = "revote", !.timer = t] \in GoodBot
    <3>1. bots[b].pc = "settle" /\ bots[b].kind = "fickle" /\ bots[b].left = 0
      BY <1>1, <1>13 DEF Settled, Due, GoodBot, Placed
    <3>2. n > 0 => bots[b].vote # None
      BY <2>1
    <3>3. /\ [bots[b] EXCEPT !.pc = "revote", !.left = n] \in BotState
          /\ [bots[b] EXCEPT !.pc = "revote", !.timer = t] \in BotState
      BY <1>1 DEF GoodBot, BotState
    <3>4. Placed([bots[b] EXCEPT !.pc = "revote", !.left = n])
      BY <1>1, <3>1, <3>2 DEF GoodBot, BotState, Placed, Chatters
    <3>5. Placed([bots[b] EXCEPT !.pc = "revote", !.timer = t])
      BY <1>1, <3>1 DEF GoodBot, BotState, Placed, Chatters
    <3> QED
      BY <3>3, <3>4, <3>5 DEF GoodBot
  <2>4. \/ Go(b, [bots[b] EXCEPT !.pc = "revote", !.left = n])
        \/ Go(b, [bots[b] EXCEPT !.pc = "revote", !.timer = t])
    BY <1>13, <2>1, <2>2 DEF Settled
  <2> QED
    BY <1>1, <1>13, <2>3, <2>4, BotMoveGood DEF Settled, serverVars
<1>14. CASE Revote(b)
  <2>1. /\ [bots[b] EXCEPT !.left = @ - 1, !.timer = ROUND] \in GoodBot
        /\ bots[b].vote \in Option
    <3>1. bots[b].left - 1 \in Nat /\ ROUND \in Nat /\ bots[b].left > 0
      BY <1>14, <1>17, DurationTypes DEF Revote
    <3>2. bots[b].kind = "fickle" /\ bots[b].pc = "revote" /\ bots[b].vote # None
      BY <1>1, <1>14 DEF Revote, Due, GoodBot, Placed
    <3> QED
      BY <1>1, <3>1, <3>2 DEF GoodBot, BotState, Placed, Chatters
  <2> QED
    BY <1>14, <2>1, NoneAssumption, SendGood DEF Revote
<1>15. CASE AwaitPropagation(b)
  <2>1. [bots[b] EXCEPT !.pc = "propagate", !.timer = PROPAGATION] \in GoodBot
    BY <1>1, <1>15, DurationsAssumption DEF AwaitPropagation, Due, GoodBot, BotState, Placed
  <2> QED
    BY <1>1, <1>15, <2>1, BotMoveGood DEF AwaitPropagation, serverVars
<1>16. ASSUME NEW place \in {"propagate", "hold"}, EndAt(b, place) PROVE Good'
  <2>1. Done(bots[b]) \in GoodBot
    BY <1>1, <1>16 DEF EndAt, Due, GoodBot, BotState, Placed, Done
  <2> QED
    BY <1>1, <1>16, <2>1, BotMoveGood DEF EndAt, serverVars
<1> QED
  BY <1>5, <1>6, <1>7, <1>8, <1>9, <1>10, <1>11, <1>12, <1>13, <1>14, <1>15, <1>16
  DEF BotStep, SendChat, SendSpam, Finish, Release, Chatters

\* All bots change at once.
LEMMA AllMove ==
  ASSUME Good, NEW R, \A c \in Bot : R[c] \in GoodBot, bots' = [c \in Bot |-> R[c]],
         UNCHANGED <<request, conns>>, RestGood'
  PROVE  Good' /\ Bot' = Bot /\ Len(bots') = Len(bots) /\ \A c \in Bot : bots'[c] = R[c]
<1>1. GoodBot' = GoodBot /\ GoodConn' = GoodConn
  BY SameRequest
<1>2. Bot = 1 .. Len(bots) /\ Len(bots) \in Nat
  BY BotsAre, DurationsAssumption
<1>3. bots' \in Seq(GoodBot) /\ Len(bots') = Len(bots) /\ DOMAIN bots' = Bot
  BY <1>2
<1> QED
  BY <1>1, <1>3 DEF Good, BotsGood, ConnsGood, Bot

LEMMA ArriveFacts ==
  ASSUME Good, NEW b \in Bot, Arrive(b)
  PROVE  /\ b \in Fickle /\ bots[b].pc = "send" /\ bots[b].left = 0 /\ stage = "running"
         /\ UNCHANGED <<scenarioVars, serverVars, faults>>
         /\ \/ Go(b, [bots[b] EXCEPT !.pc = "barrier"])
            \/ /\ AtBarrier \cup {b} = Fickle
               /\ bots' = [c \in Bot |-> IF c \in Fickle
                                         THEN [bots[c] EXCEPT !.pc = "settle", !.timer = SETTLE,
                                                              !.leader = (c = b)]
                                         ELSE bots[c]]
<1>1. Shape
  <2>1. \A c \in Bot : DOMAIN bots[c] = Fields
    BY BotsAre DEF GoodBot, BotState, Fields
  <2> QED
    BY <2>1, BotsAre DEF Shape, Good, BotsGood, Bot
<1>2. b \in Fickle /\ bots[b].pc = "send"
  BY DEF Arrive, Due
<1>3. CASE Cardinality(AtBarrier) + 1 < BarrierSize
  BY <1>2, <1>3 DEF Arrive, Go, Due
<1>4. CASE ~(Cardinality(AtBarrier) + 1 < BarrierSize)
  <2>1. AtBarrier \cup {b} = Fickle
    BY <1>1, <1>2, <1>4, LastToArrive
  <2> QED
    BY <1>2, <1>4, <2>1 DEF Arrive, Due
<1> QED
  BY <1>3, <1>4

LEMMA ArriveGood ==
  ASSUME Good, NEW b \in Bot, Arrive(b)
  PROVE  Good'
<1>1. /\ b \in Fickle /\ bots[b].pc = "send" /\ bots[b].left = 0
      /\ UNCHANGED <<scenarioVars, serverVars, faults>>
  BY ArriveFacts
<1>2. \A c \in Bot : bots[c] \in GoodBot
  BY BotsAre
<1>3. faults' \in 0 .. request.faults /\ RestGood'
  BY <1>1 DEF Good, RestGood, scenarioVars, serverVars
<1>4. CASE Go(b, [bots[b] EXCEPT !.pc = "barrier"])
  <2>1. [bots[b] EXCEPT !.pc = "barrier"] \in GoodBot
    BY <1>1, <1>2 DEF GoodBot, BotState, Placed, Fickle, Chatters
  <2> QED
    BY <1>1, <1>3, <1>4, <2>1, BotMoveGood DEF serverVars
<1>5. CASE /\ AtBarrier \cup {b} = Fickle
           /\ bots' = [c \in Bot |-> IF c \in Fickle
                                     THEN [bots[c] EXCEPT !.pc = "settle", !.timer = SETTLE,
                                                          !.leader = (c = b)]
                                     ELSE bots[c]]
  <2> DEFINE R == [c \in Bot |-> IF c \in Fickle
                                 THEN [bots[c] EXCEPT !.pc = "settle", !.timer = SETTLE,
                                                      !.leader = (c = b)]
                                 ELSE bots[c]]
  <2>1. ASSUME NEW c \in Fickle
        PROVE  [bots[c] EXCEPT !.pc = "settle", !.timer = SETTLE, !.leader = (c = b)] \in GoodBot
    <3>1. bots[c] \in GoodBot /\ bots[c].kind = "fickle"
      BY <1>2 DEF Fickle
    <3>2. bots[c].left = 0
      BY <1>1, <1>5, <3>1 DEF AtBarrier, GoodBot, Placed
    <3>3. PICK l \in BOOLEAN : l = (c = b)
      OBVIOUS
    <3>4. [bots[c] EXCEPT !.pc = "settle", !.timer = SETTLE, !.leader = l] \in GoodBot
      BY <3>1, <3>2, DurationTypes DEF GoodBot, BotState, Placed, Chatters
    <3> QED
      BY <3>3, <3>4
  <2>2. \A c \in Bot : R[c] \in GoodBot
    BY <1>2, <2>1
  <2>3. bots' = [c \in Bot |-> R[c]]
    BY <1>5
  <2> HIDE DEF R
  <2> QED
    BY <1>1, <1>3, <2>2, <2>3, AllMove DEF scenarioVars, serverVars
<1> QED
  BY <1>4, <1>5, ArriveFacts

\* How a tick changes a bot.
Ticked(bot) == [bot EXCEPT !.timer = IF @ > 0 THEN @ - 1 ELSE 0]

LEMMA TickFacts ==
  ASSUME Good, Tick
  PROVE  /\ stage = "running" /\ Bot' = Bot /\ \A c \in Bot : bots'[c] = Ticked(bots[c])
         /\ \/ Quiet /\ faults' = faults
            \/ ~Quiet /\ faults' = faults + 1
         /\ recent' = FALSE /\ UNCHANGED <<scenarioVars, conns, pending>>
         /\ Good'
<1>1. \A c \in Bot : Ticked(bots[c]) \in GoodBot
  <2> SUFFICES ASSUME NEW c \in Bot PROVE Ticked(bots[c]) \in GoodBot
    OBVIOUS
  <2>1. bots[c] \in GoodBot
    BY BotsAre
  <2>2. PICK t \in Nat : t = IF bots[c].timer > 0 THEN bots[c].timer - 1 ELSE 0
    BY <2>1 DEF GoodBot, BotState
  <2>3. Ticked(bots[c]) = [bots[c] EXCEPT !.timer = t]
    BY <2>2 DEF Ticked
  <2> QED
    BY <2>1, <2>3 DEF GoodBot, BotState, Placed
<1> DEFINE R == [c \in Bot |-> Ticked(bots[c])]
<1>2. bots' = [c \in Bot |-> R[c]]
  BY DEF Tick, Ticked
<1>3. RestGood'
  <2>1. request.faults \in Nat
    BY RequestType DEF Good, RestGood
  <2>2. faults' \in 0 .. request.faults
    BY <2>1 DEF Tick, Good, RestGood
  <2> QED
    BY <2>2 DEF Tick, Good, RestGood, scenarioVars
<1>4. UNCHANGED <<request, conns>>
  BY DEF Tick, scenarioVars
<1>5. \A c \in Bot : R[c] \in GoodBot /\ R[c] = Ticked(bots[c])
  BY <1>1
<1> HIDE DEF R
<1>6. Good' /\ Bot' = Bot /\ \A c \in Bot : bots'[c] = R[c]
  BY <1>2, <1>3, <1>4, <1>5, AllMove
<1> QED
  BY <1>5, <1>6 DEF Tick

LEMMA EntryType ==
  ASSUME alloc \in Seq([type : BotType, n : Nat])
  PROVE  \A i \in DOMAIN alloc : alloc[i].type \in BotType /\ alloc[i].n \in Nat
<1> DEFINE Entry == [type : BotType, n : Nat]
<1>1. \A e \in Entry : e.type \in BotType /\ e.n \in Nat
  OBVIOUS
<1>2. alloc \in Seq(Entry)
  OBVIOUS
<1> HIDE DEF Entry
<1>3. \A i \in DOMAIN alloc : alloc[i] \in Entry
  BY <1>2
<1> QED
  BY <1>1, <1>3

\* Every bot belongs to an entry of the allocation.
LEMMA EntryExists ==
  ASSUME alloc \in Seq([type : BotType, n : Nat]),
         NEW b \in Nat \ {0}, b <= SumFunction([i \in DOMAIN alloc |-> alloc[i].n])
  PROVE  EntryOf(b) \in DOMAIN alloc
<1> DEFINE Upto(k) == SumFunction([j \in 1 .. k |-> alloc[j].n])
           T == {k \in 0 .. Len(alloc) : b <= Upto(k)}
<1>1. DOMAIN alloc = 1 .. Len(alloc) /\ Len(alloc) \in Nat
  OBVIOUS
<1>2. Upto(Len(alloc)) = SumFunction([i \in DOMAIN alloc |-> alloc[i].n])
  BY <1>1
<1>3. Upto(0) = 0
  <2> DEFINE f == [j \in 1 .. 0 |-> alloc[j].n]
  <2>1. DOMAIN f = {}
    OBVIOUS
  <2> HIDE DEF f
  <2>2. SumFunction(f) = 0
    BY <2>1, SumEmpty DEF SumFunction
  <2> QED
    BY <2>2 DEF f
<1>4. \A k \in 0 .. Len(alloc) : Upto(k) \in Nat
  <2> SUFFICES ASSUME NEW k \in 0 .. Len(alloc) PROVE Upto(k) \in Nat
    OBVIOUS
  <2> DEFINE f == [j \in 1 .. k |-> alloc[j].n]
  <2>0. \A j \in 1 .. k : j \in DOMAIN alloc
    BY <1>1
  <2>1. \A j \in 1 .. k : alloc[j].n \in Nat
    BY <2>0, EntryType
  <2>2. DOMAIN f = 1 .. k /\ \A j \in 1 .. k : f[j] \in Nat
    BY <2>1
  <2>3. IsFiniteSet(1 .. k)
    BY FS_Interval
  <2> HIDE DEF f
  <2>4. SumFunction(f) \in Nat
    BY <2>2, <2>3, SumType DEF SumFunction
  <2> QED
    BY <2>4 DEF f
<1> HIDE DEF Upto
<1>5. Len(alloc) \in T /\ T \in SUBSET Nat
  BY <1>1, <1>2
<1>6. PICK m \in T : \A k \in T : m <= k
  <2> HIDE DEF T
  <2> QED
    BY <1>5, LeastNumber
<1>7. m \in 0 .. Len(alloc) /\ b <= Upto(m) /\ m # 0
  BY <1>3, <1>6
<1>8. m - 1 \notin T /\ m - 1 \in 0 .. Len(alloc)
  BY <1>6, <1>7
<1>9. Upto(m - 1) < b
  BY <1>4, <1>8
<1>10. m \in DOMAIN alloc /\ Upto(m - 1) < b /\ b <= Upto(m)
  BY <1>1, <1>7, <1>9
<1>11. EntryOf(b) = CHOOSE i \in DOMAIN alloc : Upto(i - 1) < b /\ b <= Upto(i)
  BY DEF EntryOf, Upto
<1> QED
  BY <1>10, <1>11

LEMMA SpawnFacts ==
  ASSUME Good, Spawn
  PROVE  \E n \in 0 .. MaxBots : \E kind :
            /\ \A b \in 1 .. n : kind[b] \in BotType \cup {"other"}
            /\ stage = "start" =>
                  n = request.count /\ request.mode # "mixed" /\ \A b \in 1 .. n : kind[b] = request.mode
            /\ stage = "allocated" => \A b \in 1 .. n : kind[b] \in BotType
            /\ stage \in {"start", "allocated"}
            /\ bots' = [b \in 1 .. n |-> NewBot(kind[b], request.msgs)]
            /\ conns' = [b \in 1 .. n |-> NewConn]
            /\ stage' = "running" /\ UNCHANGED <<request, alloc, report, pending, recent, faults>>
<1> DEFINE n == IF stage = "start" THEN request.count
                ELSE SumFunction([i \in DOMAIN alloc |-> alloc[i].n])
           Kind(b) == IF stage = "start" THEN request.mode ELSE alloc[EntryOf(b)].type
           kind == [b \in 1 .. n |-> Kind(b)]
<1>1. /\ n \in 0 .. MaxBots /\ bots' = [b \in 1 .. n |-> NewBot(Kind(b), request.msgs)]
      /\ conns' = [b \in 1 .. n |-> NewConn]
      /\ stage' = "running" /\ UNCHANGED <<request, alloc, report, pending, recent, faults>>
      /\ \/ stage = "allocated"
         \/ stage = "start" /\ request.mode # "mixed"
  BY DEF Spawn
<1>2. CASE stage = "start"
  <2>1. n = request.count /\ request.mode \in BotType \cup {"other"}
    BY <1>1, <1>2, RequestType DEF Good, RestGood
  <2>2. \A b \in 1 .. n : Kind(b) = request.mode
    BY <1>2
  <2> HIDE DEF n, Kind
  <2>3. [b \in 1 .. n |-> NewBot(kind[b], request.msgs)] = [b \in 1 .. n |-> NewBot(Kind(b), request.msgs)]
    OBVIOUS
  <2>4. \A b \in 1 .. n : kind[b] = request.mode
    BY <2>2
  <2> HIDE DEF kind
  <2> QED
    BY <1>1, <1>2, <2>1, <2>3, <2>4
<1>3. CASE stage = "allocated"
  <2>1. \A b \in 1 .. n : Kind(b) \in BotType
    <3> SUFFICES ASSUME NEW b \in 1 .. n PROVE alloc[EntryOf(b)].type \in BotType
      BY <1>3
    <3>1. alloc \in Seq([type : BotType, n : Nat])
      BY DEF Good, RestGood
    <3>2. b \in Nat \ {0} /\ b <= SumFunction([i \in DOMAIN alloc |-> alloc[i].n])
      BY <1>1, <1>3, DurationsAssumption
    <3>3. EntryOf(b) \in DOMAIN alloc
      BY <3>1, <3>2, EntryExists
    <3>4. \A i \in DOMAIN alloc : alloc[i].type \in BotType
      BY <3>1, EntryType
    <3> QED
      BY <3>3, <3>4
  <2> HIDE DEF n, Kind
  <2>2. [b \in 1 .. n |-> NewBot(kind[b], request.msgs)] = [b \in 1 .. n |-> NewBot(Kind(b), request.msgs)]
    OBVIOUS
  <2>3. \A b \in 1 .. n : kind[b] \in BotType
    BY <2>1
  <2> HIDE DEF kind
  <2> QED
    BY <1>1, <1>3, <2>2, <2>3
<1> QED
  BY <1>1, <1>2, <1>3

LEMMA SpawnGood ==
  ASSUME Good, Spawn
  PROVE  Good'
<1>1. PICK n, kind :
            /\ n \in 0 .. MaxBots
            /\ \A b \in 1 .. n : kind[b] \in BotType \cup {"other"}
            /\ bots' = [b \in 1 .. n |-> NewBot(kind[b], request.msgs)]
            /\ conns' = [b \in 1 .. n |-> NewConn]
            /\ stage' = "running" /\ UNCHANGED <<request, alloc, report, pending, recent, faults>>
  BY SpawnFacts
<1>2. request.msgs \in Nat
  BY RequestType DEF Good, RestGood
<1>3. \A k \in BotType \cup {"other"} : NewBot(k, request.msgs) \in GoodBot
  <2> SUFFICES ASSUME NEW k \in BotType \cup {"other"} PROVE NewBot(k, request.msgs) \in GoodBot
    OBVIOUS
  <2>1. 0 \in 0 .. MAX_ATTEMPTS - 1 /\ 0 \in 0 .. request.msgs
    BY <1>2, DurationTypes
  <2>2. NewBot(k, request.msgs) \in BotState
    BY <1>2, <2>1 DEF NewBot, BotState
  <2>3. Placed(NewBot(k, request.msgs))
    BY <1>2 DEF NewBot, Placed
  <2> QED
    BY <2>2, <2>3 DEF GoodBot
<1>4. NewConn \in GoodConn
  <2>1. <<>> \in Seq(Line) /\ <<>> \in Seq(Event) /\ <<>> \in Seq(GoodLine) /\ <<>> \in Seq(GoodEvent)
    OBVIOUS
  <2>2. Len(<<>>) <= CAP
    BY DurationsAssumption
  <2> QED
    BY <2>1, <2>2 DEF NewConn, GoodConn, ConnState
<1>5. GoodBot' = GoodBot /\ GoodConn' = GoodConn
  BY <1>1, SameRequest
<1>6. n \in Nat /\ n <= MaxBots
  BY <1>1, DurationsAssumption
<1>7. bots' \in Seq(GoodBot) /\ Len(bots') = n
  BY <1>1, <1>3, <1>6
<1>8. conns' \in Seq(GoodConn) /\ Len(conns') = n
  BY <1>1, <1>4, <1>6
<1> QED
  BY <1>1, <1>5, <1>6, <1>7, <1>8 DEF Good, BotsGood, ConnsGood, RestGood

LEMMA GoodStep == Good /\ [Next]_vars => Good'
<1> SUFFICES ASSUME Good, [Next]_vars PROVE Good'
  OBVIOUS
<1>1. ASSUME UNCHANGED <<request, bots, conns, pending, recent, faults>>,
             alloc' \in Seq([type : BotType, n : Nat]),
             stage' \in {"rejected", "allocated", "running", "panicked", "reported", stage}
      PROVE  Good'
  <2>1. GoodBot' = GoodBot /\ GoodConn' = GoodConn
    BY <1>1, SameRequest
  <2> QED
    BY <1>1, <2>1 DEF Good, BotsGood, ConnsGood, RestGood
<1>2. CASE Prepare
  <2>1. alloc' \in Seq([type : BotType, n : Nat])
    <3>1. CASE alloc' = alloc
      BY <3>1 DEF Good, RestGood
    <3>2. CASE stage' = "allocated"
      BY <1>2, <3>2, PrepareStep DEF Good, RestGood
    <3> QED
      BY <1>2, <3>1, <3>2 DEF Prepare
  <2>2. stage' \in {"rejected", "panicked", "allocated"}
    BY <1>2 DEF Prepare
  <2> QED
    BY <1>1, <1>2, <2>1, <2>2 DEF Prepare, serverVars
<1>3. CASE AssertFails \/ Report \/ UNCHANGED vars
  <2>1. /\ UNCHANGED <<request, alloc, bots, conns, pending, recent, faults>>
        /\ stage' \in {"panicked", "reported", stage}
    BY <1>3 DEF AssertFails, Report, vars, scenarioVars, serverVars
  <2> QED
    BY <1>1, <2>1 DEF Good, RestGood
<1>4. CASE Spawn
  BY <1>4, SpawnGood
<1>5. CASE Tick
  BY <1>5, TickFacts
<1>6. ASSUME NEW b \in Bot, BotStep(b) PROVE Good'
  BY <1>6, ArriveGood, BotGood
<1>7. CASE Flush \/ \E b \in Bot : ServerStep(b)
  BY <1>7, ServerGood
<1> QED
  BY <1>2, <1>3, <1>4, <1>5, <1>6, <1>7 DEF Next

LEMMA GoodInit == Init => Good
<1> SUFFICES ASSUME Init PROVE Good
  OBVIOUS
<1>1. <<>> \in Seq(GoodBot) /\ <<>> \in Seq(GoodConn) /\ <<>> \in Seq([type : BotType, n : Nat])
  OBVIOUS
<1>2. Len(<<>>) = 0 /\ 0 <= MaxBots
  BY DurationsAssumption
<1>3. 0 \in 0 .. request.faults
  BY RequestType DEF Init
<1>4. BotsGood /\ ConnsGood
  BY <1>1, <1>2 DEF Init, BotsGood, ConnsGood
<1>5. RestGood
  BY <1>1, <1>3 DEF Init, RestGood
<1> QED
  BY <1>4, <1>5 DEF Good

(* Types, for every set of requests and all limits and durations. Beyond the
   shape of the records this says that nobody counts more lines of its own
   than it was asked to send (mod.rs:233-262), that no receiver is more than CAP
   events behind, that no bot tries more often than MAX_ATTEMPTS, and that no
   snapshot counts more votes than there are bots. *)
THEOREM TypeCorrect == Spec => []TypeOK
<1>1. Good => TypeOK
  BY GoodIsTyped
<1> QED
  BY <1>1, GoodInit, GoodStep, PTL DEF Spec
------------------------------------------------------------------------------
(* The assertion of the normal mode.                                          *)

\* How many of the events in a queue are lines of bot b.
Own(b, queue) == Cardinality({i \in DOMAIN queue : queue[i].from = b})

LEMMA OwnType ==
  ASSUME NEW b, NEW q \in Seq(Event)
  PROVE  /\ Own(b, q) \in Nat /\ IsFiniteSet({i \in DOMAIN q : q[i].from = b})
         /\ q = <<>> => Own(b, q) = 0
<1> DEFINE A == {i \in DOMAIN q : q[i].from = b}
<1>1. DOMAIN q = 1 .. Len(q) /\ Len(q) \in Nat
  OBVIOUS
<1>2. IsFiniteSet(DOMAIN q)
  BY <1>1, FS_Interval
<1>3. A \subseteq DOMAIN q
  OBVIOUS
<1>4. q = <<>> => A = {}
  BY <1>1
<1> HIDE DEF A
<1>5. IsFiniteSet(A) /\ Cardinality(A) \in Nat /\ (q = <<>> => Cardinality(A) = 0)
  BY <1>2, <1>3, <1>4, FS_Subset, FS_CardinalityType, FS_EmptySet
<1> QED
  BY <1>5 DEF A, Own

LEMMA OwnAppend ==
  ASSUME NEW b, NEW q \in Seq(Event), NEW e \in Event
  PROVE  Own(b, Append(q, e)) = Own(b, q) + (IF e.from = b THEN 1 ELSE 0)
<1> DEFINE A == {i \in DOMAIN q : q[i].from = b}
           B == {i \in DOMAIN Append(q, e) : Append(q, e)[i].from = b}
           n == Len(q)
<1>1. /\ n \in Nat /\ DOMAIN q = 1 .. n /\ DOMAIN Append(q, e) = 1 .. n + 1
      /\ \A i \in 1 .. n : Append(q, e)[i] = q[i]
      /\ Append(q, e)[n + 1] = e
  OBVIOUS
<1>2. B = IF e.from = b THEN A \cup {n + 1} ELSE A
  <2>1. \A i : i \in 1 .. n + 1 <=> i \in 1 .. n \/ i = n + 1
    BY <1>1
  <2> QED
    BY <1>1, <2>1
<1>3. n + 1 \notin A
  BY <1>1
<1>4. IsFiniteSet(A) /\ Cardinality(A) \in Nat
  BY OwnType DEF Own
<1> HIDE DEF A, B, n
<1>5. Cardinality(A \cup {n + 1}) = Cardinality(A) + 1
  BY <1>3, <1>4, FS_AddElement
<1>6. Cardinality(B) = Cardinality(A) + (IF e.from = b THEN 1 ELSE 0)
  BY <1>2, <1>4, <1>5
<1> QED
  BY <1>6 DEF A, B, Own

LEMMA OwnTail ==
  ASSUME NEW b, NEW q \in Seq(Event), q # <<>>
  PROVE  Own(b, q) = Own(b, Tail(q)) + (IF Head(q).from = b THEN 1 ELSE 0)
<1> DEFINE A == {i \in DOMAIN q : q[i].from = b}
           B == {i \in DOMAIN Tail(q) : Tail(q)[i].from = b}
           C == {i \in A : i # 1}
           f == [i \in B |-> i + 1]
           n == Len(q)
<1>1. /\ n \in Nat /\ n > 0 /\ DOMAIN q = 1 .. n /\ DOMAIN Tail(q) = 1 .. n - 1
      /\ \A i \in 1 .. n - 1 : Tail(q)[i] = q[i + 1]
      /\ Head(q) = q[1] /\ Tail(q) \in Seq(Event)
  OBVIOUS
<1>2. \A i \in B : i + 1 \in C
  BY <1>1
<1>3. \A j \in C : \E i \in B : i + 1 = j
  <2> SUFFICES ASSUME NEW j \in C PROVE j - 1 \in B /\ (j - 1) + 1 = j
    OBVIOUS
  <2>1. j \in 1 .. n /\ j # 1 /\ q[j].from = b
    BY <1>1
  <2>2. j - 1 \in 1 .. n - 1 /\ (j - 1) + 1 = j
    BY <1>1, <2>1
  <2> QED
    BY <1>1, <2>1, <2>2
<1>4. \A i, j \in B : i + 1 = j + 1 => i = j
  BY <1>1
<1>5. f \in Injection(B, C) /\ f \in Surjection(B, C)
  <2>1. f \in [B -> C] /\ (\A i, j \in B : f[i] = f[j] => i = j) /\ \A j \in C : \E i \in B : f[i] = j
    BY <1>2, <1>3, <1>4
  <2> HIDE DEF f, B, C
  <2> QED
    BY <2>1 DEF Injection, Surjection, IsInjective
<1>6. IsFiniteSet(A) /\ IsFiniteSet(B) /\ Cardinality(A) \in Nat
  BY <1>1, OwnType DEF Own
<1>7. C \subseteq A
  OBVIOUS
<1>8. A = IF Head(q).from = b THEN C \cup {1} ELSE C
  BY <1>1
<1>9. 1 \notin C
  OBVIOUS
<1> HIDE DEF A, B, C, f
<1>10. IsFiniteSet(C) /\ Cardinality(C) \in Nat
  BY <1>6, <1>7, FS_Subset, FS_CardinalityType
<1>11. Cardinality(B) = Cardinality(C)
  BY <1>5, <1>10, FS_Injection
<1>12. Cardinality(C \cup {1}) = Cardinality(C) + 1
  BY <1>9, <1>10, FS_AddElement
<1>13. Cardinality(A) = Cardinality(B) + (IF Head(q).from = b THEN 1 ELSE 0)
  BY <1>8, <1>10, <1>11, <1>12
<1> QED
  BY <1>13 DEF A, B, Own

------------------------------------------------------------------------------
(* One step, seen from each bot and its connection.                           *)

LEMMA GoView ==
  ASSUME Good, NEW b \in Bot, NEW r, Go(b, r)
  PROVE  Bot' = Bot /\ bots'[b] = r /\ \A c \in Bot \ {b} : bots'[c] = bots[c]
BY DEF Go, Good, BotsGood, Bot

LEMMA ConnView ==
  ASSUME Good, NEW b \in Bot, NEW d, conns' = [conns EXCEPT ![b] = d]
  PROVE  conns'[b] = d /\ \A c \in Bot \ {b} : conns'[c] = conns[c]
BY BotsAre

LEMMA DeliverView ==
  ASSUME Good, NEW b \in Bot, NEW d \in GoodConn, NEW event \in GoodEvent,
         conns' = Deliver([conns EXCEPT ![b] = d], event)
  PROVE  /\ conns'[b] = Enqueue(d, event)
         /\ \A c \in Bot \ {b} : conns'[c] = Enqueue(conns[c], event)
<1> DEFINE cs == [conns EXCEPT ![b] = d]
<1>1. cs \in Seq(GoodConn) /\ DOMAIN cs = Bot
  BY ConnGood
<1>2. cs[b] = d /\ \A c \in Bot \ {b} : cs[c] = conns[c]
  BY BotsAre
<1>3. \A c \in Bot : conns'[c] = Enqueue(cs[c], event)
  BY <1>1, DeliverFacts
<1> QED
  BY <1>2, <1>3

\* A bot takes a step: it and its connection change, no other.
LEMMA BotStepView ==
  ASSUME Good, NEW b \in Bot, BotStep(b), ~Arrive(b)
  PROVE  /\ ~Ended(b) /\ faults <= faults' /\ UNCHANGED <<scenarioVars, pending, recent>>
         /\ Bot' = Bot
         /\ \A c \in Bot \ {b} : bots'[c] = bots[c] /\ conns'[c] = conns[c]
         /\ bots'[b].kind = bots[b].kind /\ conns'[b].overtaken = conns[b].overtaken
<1>1. bots[b] \in GoodBot /\ conns[b] \in GoodConn /\ b \in DOMAIN conns /\ b \in DOMAIN bots
      /\ faults \in Nat
  <2>1. request.faults \in Nat
    BY RequestType DEF Good, RestGood
  <2> QED
    BY <2>1, BotsAre DEF Bot, Good, RestGood
<1>2. ASSUME NEW r, Go(b, r), r.kind = bots[b].kind
      PROVE  /\ Bot' = Bot /\ bots'[b].kind = bots[b].kind
             /\ \A c \in Bot \ {b} : bots'[c] = bots[c]
  BY <1>2, GoView
<1>3. ASSUME NEW d, conns' = [conns EXCEPT ![b] = d], d.overtaken = conns[b].overtaken
      PROVE  /\ conns'[b].overtaken = conns[b].overtaken
             /\ \A c \in Bot \ {b} : conns'[c] = conns[c]
  BY <1>3, ConnView
<1>4. ASSUME NEW o, NEW r, Send(b, o, r), r.kind = bots[b].kind
      PROVE  /\ Bot' = Bot /\ bots'[b].kind = bots[b].kind
             /\ \A c \in Bot \ {b} : bots'[c] = bots[c] /\ conns'[c] = conns[c]
             /\ conns'[b].overtaken = conns[b].overtaken
  <2>1. Go(b, r) \/ Go(b, FailedBot(b))
    BY <1>4 DEF Send, FailedBot
  <2>2. conns' = conns \/ conns' = [conns EXCEPT ![b] = Sent(b, o)]
    BY <1>4 DEF Send, Sent
  <2>3. FailedBot(b).kind = bots[b].kind /\ Sent(b, o).overtaken = conns[b].overtaken
    BY <1>1 DEF FailedBot, Sent, GoodBot, BotState, GoodConn, ConnState
  <2> QED
    BY <1>2, <1>3, <1>4, <2>1, <2>2, <2>3
<1>5. UNCHANGED bots => /\ Bot' = Bot /\ bots'[b].kind = bots[b].kind
                        /\ \A c \in Bot \ {b} : bots'[c] = bots[c]
  BY DEF Bot
<1>6. UNCHANGED conns => /\ conns'[b].overtaken = conns[b].overtaken
                         /\ \A c \in Bot \ {b} : conns'[c] = conns[c]
  OBVIOUS
<1>7. Took(b).overtaken = conns[b].overtaken
  BY <1>1 DEF Took, GoodConn, ConnState
<1>8. ASSUME NEW r, Go(b, r), r.kind = bots[b].kind, UNCHANGED conns
      PROVE  /\ Bot' = Bot /\ bots'[b].kind = bots[b].kind
             /\ \A c \in Bot \ {b} : bots'[c] = bots[c] /\ conns'[c] = conns[c]
             /\ conns'[b].overtaken = conns[b].overtaken
  BY <1>2, <1>6, <1>8
<1> USE DEF GoodBot, BotState
<1>9. CASE Connect(b)
  <2>1. ~Ended(b) /\ faults <= faults' /\ UNCHANGED <<scenarioVars, pending, recent>>
    BY <1>1, <1>9 DEF Connect, Due, Ended
  <2>2. PICK r : Go(b, r) /\ r.kind = bots[b].kind
    <3>1. /\ [bots[b] EXCEPT !.pc = "hold", !.timer = HOLD].kind = bots[b].kind
          /\ [bots[b] EXCEPT !.pc = "send"].kind = bots[b].kind
          /\ [bots[b] EXCEPT !.pc = "failed"].kind = bots[b].kind
          /\ [bots[b] EXCEPT !.tries = @ + 1, !.timer = 1].kind = bots[b].kind
      BY <1>1
    <3> QED
      BY <1>9, <3>1 DEF Connect
  <2>3. PICK d : d.overtaken = conns[b].overtaken
                 /\ (UNCHANGED conns \/ conns' = [conns EXCEPT ![b] = d])
    <3>1. [conns[b] EXCEPT !.state = "backlog"].overtaken = conns[b].overtaken
      BY <1>1 DEF GoodConn, ConnState
    <3> QED
      BY <1>9, <3>1 DEF Connect
  <2> QED
    BY <1>2, <1>3, <1>6, <2>1, <2>2, <2>3
<1>10. CASE SendVote(b)
  <2>1. PICK o : Send(b, o, [bots[b] EXCEPT !.vote = o, !.left = @ - 1, !.timer = VOTE_INTERVAL])
    BY <1>10 DEF SendVote
  <2>2. [bots[b] EXCEPT !.vote = o, !.left = @ - 1, !.timer = VOTE_INTERVAL].kind = bots[b].kind
    BY <1>1
  <2>3. ~Ended(b) /\ UNCHANGED <<scenarioVars, pending, recent, faults>>
    BY <1>10 DEF SendVote, Due, Ended
  <2>4. PICK r : Send(b, o, r) /\ r.kind = bots[b].kind
    BY <2>1, <2>2
  <2> QED
    BY <1>1, <1>4, <2>3, <2>4
<1>11. CASE Quit(b)
  <2>1. PICK o : Send(b, o, Done(bots[b]))
    BY <1>11 DEF Quit
  <2>2. Done(bots[b]).kind = bots[b].kind
    BY <1>1 DEF Done
  <2>3. ~Ended(b) /\ UNCHANGED <<scenarioVars, pending, recent, faults>>
    BY <1>11 DEF Quit, Due, Ended
  <2> QED
    BY <1>1, <1>4, <2>1, <2>2, <2>3
<1>12. CASE \E kind : SendLine(b, kind)
  <2>1. Send(b, None, [bots[b] EXCEPT !.left = @ - 1])
    BY <1>12 DEF SendLine
  <2>2. [bots[b] EXCEPT !.left = @ - 1].kind = bots[b].kind
    BY <1>1
  <2>3. ~Ended(b) /\ UNCHANGED <<scenarioVars, pending, recent, faults>>
    BY <1>12 DEF SendLine, Due, Ended
  <2>4. PICK r : Send(b, None, r) /\ r.kind = bots[b].kind
    BY <2>1, <2>2
  <2> QED
    BY <1>1, <1>4, <2>3, <2>4
<1>13. CASE StartReceiving(b)
  <2>1. [bots[b] EXCEPT !.pc = "recv", !.timer = RECV_TIMEOUT].kind = bots[b].kind
    BY <1>1
  <2>2. Go(b, [bots[b] EXCEPT !.pc = "recv", !.timer = RECV_TIMEOUT])
        /\ ~Ended(b) /\ UNCHANGED <<scenarioVars, serverVars, faults>>
    BY <1>13 DEF StartReceiving, Due, Ended
  <2>3. PICK r : Go(b, r) /\ r.kind = bots[b].kind
    BY <2>1, <2>2
  <2> QED
    BY <1>1, <1>8, <2>2, <2>3 DEF serverVars
<1>14. CASE Receive(b)
  <2> DEFINE bot == [bots[b] EXCEPT !.received = @ + 1]
  <2>1. bot.kind = bots[b].kind /\ Done(bot).kind = bots[b].kind
    BY <1>1 DEF Done
  <2>2. UNCHANGED bots \/ Go(b, bot) \/ Go(b, Done(bot))
    BY <1>14 DEF Receive
  <2>3. conns' = [conns EXCEPT ![b] = Took(b)] /\ ~Ended(b)
        /\ UNCHANGED <<scenarioVars, pending, recent, faults>>
    BY <1>14 DEF Receive, Took, Ended
  <2> HIDE DEF bot
  <2> QED
    BY <1>1, <1>2, <1>3, <1>5, <1>7, <2>1, <2>2, <2>3
<1>15. CASE Hear(b)
  <2> DEFINE bot == [bots[b] EXCEPT !.snap = Head(conns[b].queue).counts]
  <2>1. bot.kind = bots[b].kind
    BY <1>1
  <2>2. UNCHANGED bots \/ Go(b, bot)
    BY <1>15 DEF Hear
  <2>3. conns' = [conns EXCEPT ![b] = Took(b)] /\ ~Ended(b)
        /\ UNCHANGED <<scenarioVars, pending, recent, faults>>
    BY <1>15 DEF Hear, Took
  <2> HIDE DEF bot
  <2> QED
    BY <1>1, <1>2, <1>3, <1>5, <1>7, <2>1, <2>2, <2>3
<1>16. CASE StopReceiving(b) \/ \E place \in {"propagate", "hold"} : EndAt(b, place)
  <2>1. Done(bots[b]).kind = bots[b].kind
    BY <1>1 DEF Done
  <2>2. Go(b, Done(bots[b])) /\ ~Ended(b) /\ UNCHANGED <<scenarioVars, serverVars, faults>>
    BY <1>16 DEF StopReceiving, EndAt, Due, Ended
  <2> QED
    BY <1>1, <1>8, <2>1, <2>2 DEF serverVars
<1>17. CASE Settled(b)
  <2>1. /\ [bots[b] EXCEPT !.pc = "revote", !.left = IF bots[b].vote = None THEN 0 ELSE ROUNDS].kind
              = bots[b].kind
        /\ [bots[b] EXCEPT !.pc = "revote", !.timer = ROUNDS * ROUND].kind = bots[b].kind
    BY <1>1
  <2>2. ~Ended(b) /\ UNCHANGED <<scenarioVars, serverVars, faults>>
    BY <1>17 DEF Settled, Due, Ended
  <2>3. PICK r : Go(b, r) /\ r.kind = bots[b].kind
    BY <1>17, <2>1 DEF Settled
  <2> QED
    BY <1>1, <1>8, <2>2, <2>3 DEF serverVars
<1>18. CASE Revote(b)
  <2>1. [bots[b] EXCEPT !.left = @ - 1, !.timer = ROUND].kind = bots[b].kind
    BY <1>1
  <2>2. Send(b, bots[b].vote, [bots[b] EXCEPT !.left = @ - 1, !.timer = ROUND])
        /\ ~Ended(b) /\ UNCHANGED <<scenarioVars, pending, recent, faults>>
    BY <1>18 DEF Revote, Due, Ended
  <2>3. PICK r : Send(b, bots[b].vote, r) /\ r.kind = bots[b].kind
    BY <2>1, <2>2
  <2> QED
    BY <1>1, <1>4, <2>2, <2>3
<1>19. CASE AwaitPropagation(b)
  <2>1. [bots[b] EXCEPT !.pc = "propagate", !.timer = PROPAGATION].kind = bots[b].kind
    BY <1>1
  <2>2. Go(b, [bots[b] EXCEPT !.pc = "propagate", !.timer = PROPAGATION])
        /\ ~Ended(b) /\ UNCHANGED <<scenarioVars, serverVars, faults>>
    BY <1>19 DEF AwaitPropagation, Due, Ended
  <2>3. PICK r : Go(b, r) /\ r.kind = bots[b].kind
    BY <2>1, <2>2
  <2> QED
    BY <1>1, <1>8, <2>2, <2>3 DEF serverVars
<1> QED
  BY <1>9, <1>10, <1>11, <1>12, <1>13, <1>14, <1>15, <1>16, <1>17, <1>18, <1>19
  DEF BotStep, SendChat, SendSpam, Finish, Release

LEMMA AnnounceView ==
  ASSUME Good, NEW b \in Bot, NEW d \in GoodConn, Announce([conns EXCEPT ![b] = d])
  PROVE  LET board == BoardOf([conns EXCEPT ![b] = d])
         IN  /\ board \in Counts
             /\ \/ /\ conns'[b] = Enqueue(d, Snapshot(board)) /\ pending' = pending
                   /\ \A c \in Bot \ {b} : conns'[c] = Enqueue(conns[c], Snapshot(board))
                \/ /\ conns'[b] = d /\ pending' = board
                   /\ \A c \in Bot \ {b} : conns'[c] = conns[c]
                   /\ recent /\ recent'
<1> DEFINE cs == [conns EXCEPT ![b] = d]
           board == BoardOf(cs)
<1>1. cs \in Seq(GoodConn) /\ Len(cs) = Len(bots)
  BY ConnGood
<1>2. Announce(cs)
  OBVIOUS
<1>3. /\ board \in Counts
      /\ \/ conns' = Deliver(cs, Snapshot(board)) /\ recent' /\ pending' = pending
         \/ conns' = cs /\ pending' = board /\ recent /\ recent' = recent
  <2> HIDE DEF cs
  <2> QED
    BY <1>1, <1>2, AnnounceFacts
<1> HIDE DEF board
<1>4. CASE conns' = Deliver(cs, Snapshot(board)) /\ recent' /\ pending' = pending
  <2>1. Snapshot(board) \in GoodEvent
    BY <1>3, SnapshotGood
  <2> QED
    BY <1>3, <1>4, <2>1, DeliverView DEF board
<1>5. CASE conns' = cs /\ pending' = board /\ recent /\ recent' = recent
  BY <1>3, <1>5, ConnView DEF board
<1> QED
  BY <1>3, <1>4, <1>5

LEMMA FlushView ==
  ASSUME Good, Flush
  PROVE  /\ pending \in Counts /\ pending' = None /\ Snapshot(pending) \in GoodEvent
         /\ \A c \in Bot : conns'[c] = Enqueue(conns[c], Snapshot(pending))
         /\ UNCHANGED <<scenarioVars, bots, faults>> /\ recent'
<1>1. pending \in Counts /\ conns \in Seq(GoodConn) /\ DOMAIN conns = Bot
  BY BotsAre DEF Flush, Good, RestGood, ConnsGood
<1>2. Snapshot(pending) \in GoodEvent
  BY <1>1, SnapshotGood
<1>3. \A c \in DOMAIN conns : Deliver(conns, Snapshot(pending))[c] = Enqueue(conns[c], Snapshot(pending))
  BY <1>1, <1>2, DeliverFacts
<1> QED
  BY <1>1, <1>2, <1>3 DEF Flush

LEMMA ChatView ==
  ASSUME Good, NEW b \in Bot, HandleLine(b), Head(conns[b].inbox).option = None
  PROVE  /\ Chat(b) \in GoodEvent /\ conns'[b] = Enqueue(Heard(b), Chat(b))
         /\ \A c \in Bot \ {b} : conns'[c] = Enqueue(conns[c], Chat(b))
         /\ UNCHANGED <<scenarioVars, bots, pending, recent, faults>>
<1>1. conns[b].inbox # <<>> /\ conns' = Deliver([conns EXCEPT ![b] = Heard(b)], Chat(b))
      /\ UNCHANGED <<scenarioVars, bots, pending, recent, faults>>
  BY HandleFacts
<1>2. Heard(b) \in GoodConn /\ Chat(b) \in GoodEvent
  BY <1>1, ServerFacts
<1> QED
  BY <1>1, <1>2, DeliverView

\* Nobody's receiver is less overtaken after a step of the server.
LEMMA ServerStepView ==
  ASSUME Good, Flush \/ \E b \in Bot : ServerStep(b)
  PROVE  /\ UNCHANGED <<scenarioVars, bots, faults>>
         /\ \A c \in Bot : conns[c].overtaken => conns'[c].overtaken
<1>1. \A c \in Bot : conns[c] \in GoodConn
  BY BotsAre
<1>2. \A d \in GoodConn, e \in GoodEvent : d.overtaken => Enqueue(d, e).overtaken
  <2> SUFFICES ASSUME NEW d \in GoodConn, NEW e \in GoodEvent, d.overtaken
               PROVE  Enqueue(d, e).overtaken
    OBVIOUS
  <2> QED
    BY EnqueueFacts
<1>3. CASE Flush
  BY <1>1, <1>2, <1>3, FlushView
<1>4. ASSUME NEW b \in Bot, Accept(b)
      PROVE  \A c \in Bot : conns[c].overtaken => conns'[c].overtaken
  <2>1. PICK s : conns' = [conns EXCEPT ![b] = [conns[b] EXCEPT !.state = s]]
    BY <1>4, AcceptFacts
  <2>2. [conns[b] EXCEPT !.state = s].overtaken = conns[b].overtaken
    BY <1>1 DEF GoodConn, ConnState
  <2> QED
    BY <2>1, <2>2, ConnView
<1>5. ASSUME NEW b \in Bot, NEW d \in GoodConn, d.overtaken = conns[b].overtaken,
             Announce([conns EXCEPT ![b] = d])
      PROVE  \A c \in Bot : conns[c].overtaken => conns'[c].overtaken
  <2>1. PICK board \in Counts :
            \/ /\ conns'[b] = Enqueue(d, Snapshot(board))
               /\ \A c \in Bot \ {b} : conns'[c] = Enqueue(conns[c], Snapshot(board))
            \/ conns'[b] = d /\ \A c \in Bot \ {b} : conns'[c] = conns[c]
    BY <1>5, AnnounceView
  <2>2. Snapshot(board) \in GoodEvent
    BY SnapshotGood
  <2> QED
    BY <1>1, <1>2, <1>5, <2>1, <2>2
<1>6. ASSUME NEW b \in Bot
      PROVE  /\ Voted(b).overtaken = conns[b].overtaken /\ Heard(b).overtaken = conns[b].overtaken
             /\ Closed(b).overtaken = conns[b].overtaken
  BY <1>1 DEF Voted, Heard, Closed, GoodConn, ConnState
<1>7. ASSUME NEW b \in Bot, HandleLine(b)
      PROVE  \A c \in Bot : conns[c].overtaken => conns'[c].overtaken
  <2>1. conns[b].inbox # <<>>
    BY <1>7, HandleFacts
  <2>2. Heard(b) \in GoodConn /\ Voted(b) \in GoodConn
    BY <2>1, ServerFacts
  <2>3. CASE Head(conns[b].inbox).option = None
    BY <1>1, <1>2, <1>6, <1>7, <2>2, <2>3, ChatView
  <2>4. CASE Head(conns[b].inbox).option # None
    BY <1>5, <1>6, <1>7, <2>2, <2>4, HandleFacts
  <2> QED
    BY <2>3, <2>4
<1>8. ASSUME NEW b \in Bot, Leave(b)
      PROVE  \A c \in Bot : conns[c].overtaken => conns'[c].overtaken
  <2>1. Closed(b) \in GoodConn
    BY ServerFacts
  <2>2. CASE Announce([conns EXCEPT ![b] = Closed(b)])
    BY <1>5, <1>6, <2>1, <2>2
  <2>3. CASE conns' = [conns EXCEPT ![b] = Closed(b)]
    BY <1>6, <2>3, ConnView
  <2> QED
    BY <1>8, <2>2, <2>3, LeaveFacts
<1>9. UNCHANGED <<scenarioVars, bots, faults>>
  BY DEF Flush, ServerStep, Accept, HandleLine, Leave
<1> QED
  BY <1>3, <1>4, <1>7, <1>8, <1>9 DEF ServerStep

\* What a step never undoes, once the bots are there.
LEMMA StepMonotone ==
  ASSUME Good, [Next]_vars, ~Spawn
  PROVE  /\ Bot' = Bot /\ request' = request /\ faults <= faults' /\ faults \in Nat
         /\ \A c \in Bot : /\ bots'[c].kind = bots[c].kind
                           /\ Ended(c) => bots'[c].pc = bots[c].pc
                           /\ conns[c].overtaken => conns'[c].overtaken
<1>0. faults \in Nat /\ \A c \in Bot : bots[c] \in GoodBot
  BY BotsAre DEF Good, RestGood
<1>1. CASE Prepare \/ AssertFails \/ Report \/ UNCHANGED vars
  BY <1>0, <1>1 DEF Prepare, AssertFails, Report, vars, scenarioVars, serverVars, Bot
<1>2. CASE Tick
  <2>1. \A c \in Bot : Ticked(bots[c]).kind = bots[c].kind /\ Ticked(bots[c]).pc = bots[c].pc
    BY <1>0 DEF Ticked, GoodBot, BotState
  <2> QED
    BY <1>0, <1>2, <2>1, TickFacts DEF scenarioVars
<1>3. CASE Flush \/ \E b \in Bot : ServerStep(b)
  BY <1>0, <1>3, ServerStepView DEF scenarioVars, Bot
<1>4. ASSUME NEW b \in Bot, BotStep(b), ~Arrive(b)
      PROVE  /\ Bot' = Bot /\ request' = request /\ faults <= faults'
             /\ \A c \in Bot : /\ bots'[c].kind = bots[c].kind
                               /\ Ended(c) => bots'[c].pc = bots[c].pc
                               /\ conns[c].overtaken => conns'[c].overtaken
  BY <1>4, BotStepView DEF scenarioVars
<1>5. ASSUME NEW b \in Bot, Arrive(b)
      PROVE  /\ Bot' = Bot /\ request' = request /\ faults <= faults'
             /\ \A c \in Bot : /\ bots'[c].kind = bots[c].kind
                               /\ Ended(c) => bots'[c].pc = bots[c].pc
                               /\ conns[c].overtaken => conns'[c].overtaken
  <2>1. ~Ended(b) /\ conns' = conns /\ request' = request /\ faults' = faults
    BY <1>5, ArriveFacts DEF Ended, scenarioVars, serverVars
  <2>2. CASE Go(b, [bots[b] EXCEPT !.pc = "barrier"])
    <3>1. PICK r : Go(b, r) /\ r.kind = bots[b].kind
      BY <1>0, <2>2 DEF GoodBot, BotState
    <3>2. Bot' = Bot /\ bots'[b] = r /\ \A c \in Bot \ {b} : bots'[c] = bots[c]
      BY <3>1, GoView
    <3>3. \A c \in Bot : bots'[c].kind = bots[c].kind /\ (Ended(c) => bots'[c].pc = bots[c].pc)
      BY <2>1, <3>1, <3>2
    <3> QED
      BY <1>0, <2>1, <3>2, <3>3
  <2>3. CASE /\ AtBarrier \cup {b} = Fickle
             /\ bots' = [c \in Bot |-> IF c \in Fickle
                                       THEN [bots[c] EXCEPT !.pc = "settle", !.timer = SETTLE,
                                                            !.leader = (c = b)]
                                       ELSE bots[c]]
    <3>1. \A c \in Bot : [bots[c] EXCEPT !.pc = "settle", !.timer = SETTLE,
                                         !.leader = (c = b)].kind = bots[c].kind
      BY <1>0 DEF GoodBot, BotState
    <3>2. Bot' = Bot /\ \A c \in Bot : bots'[c].kind = bots[c].kind
      BY <2>3, <3>1 DEF Bot
    <3>3. \A c \in Fickle : ~Ended(c)
      BY <2>1, <2>3 DEF AtBarrier, Ended
    <3>4. \A c \in Bot \ Fickle : bots'[c] = bots[c]
      BY <2>3
    <3>5. \A c \in Bot : Ended(c) => bots'[c].pc = bots[c].pc
      BY <3>3, <3>4
    <3> QED
      BY <1>0, <2>1, <3>2, <3>5
  <2> QED
    BY <1>5, <2>2, <2>3, ArriveFacts
<1> QED
  BY <1>0, <1>1, <1>2, <1>3, <1>4, <1>5 DEF Next

\* What the assertion fails with.
Cause == ~AllServed \/ Overtaken # {} \/ faults >= RECV_TIMEOUT

\* A normal bot's lines: not sent yet, sent, sent back or received; and the
\* time it has left to receive them.
Kept(b, bot, c, f) ==
    /\ bot.kind = "normal" /\ bot.pc \in {"connect", "send", "recv", "done"}
    /\ c.state = "gone" => bot.pc = "done"
    /\ c.state = "none" => bot.pc = "connect"
    /\ \A i \in DOMAIN c.inbox : c.inbox[i].option = None
    /\ bot.pc = "recv" => bot.left = 0 /\ (request.msgs > 0 => bot.timer + f >= RECV_TIMEOUT)
    /\ IF bot.pc = "done" THEN bot.received = request.msgs
       ELSE bot.left + Len(c.inbox) + Own(b, c.queue) + bot.received = request.msgs

Normal ==
    request.mode = "normal" =>
        /\ stage \in {"start", "running", "panicked", "reported"}
        /\ stage = "running" /\ ~Cause =>
              Len(bots) = request.count /\ \A b \in Bot : Kept(b, bots[b], conns[b], faults)
        /\ stage = "panicked" => Cause

LEMMA KeptLater ==
  ASSUME NEW b, NEW bot \in GoodBot, NEW c, NEW f \in Nat, NEW g \in Nat, f <= g,
         Kept(b, bot, c, f)
  PROVE  Kept(b, bot, c, g)
<1>1. bot.timer \in Nat /\ RECV_TIMEOUT \in Nat
  BY DurationTypes DEF GoodBot, BotState
<1>2. bot.timer + f >= RECV_TIMEOUT => bot.timer + g >= RECV_TIMEOUT
  BY <1>1
<1> QED
  BY <1>2 DEF Kept

\* An event that is not a line of its own does not matter to a bot, unless its
\* receiver is overtaken.
LEMMA KeptEnqueue ==
  ASSUME NEW b, NEW bot, NEW c \in GoodConn, NEW f, NEW e \in GoodEvent,
         Kept(b, bot, c, f), e.from # b, ~Enqueue(c, e).overtaken
  PROVE  Kept(b, bot, Enqueue(c, e), f)
<1> DEFINE d == Enqueue(c, e)
<1>1. /\ d.state = c.state /\ d.inbox = c.inbox
      /\ d.queue = c.queue \/ d.queue = Append(c.queue, e)
  BY EnqueueFacts
<1>2. c.queue \in Seq(Event) /\ e \in Event
  BY DEF GoodConn, ConnState, GoodEvent
<1>3. Own(b, c.queue) \in Nat /\ Own(b, Append(c.queue, e)) = Own(b, c.queue) + 0
  BY <1>2, OwnType, OwnAppend
<1> HIDE DEF d
<1>4. Own(b, d.queue) = Own(b, c.queue)
  <2>1. CASE d.queue = c.queue
    BY <2>1
  <2>2. CASE d.queue = Append(c.queue, e)
    BY <1>3, <2>2
  <2> QED
    BY <1>1, <2>1, <2>2
<1> QED
  BY <1>1, <1>4 DEF Kept, d

LEMMA CauseStays == ASSUME Good, [Next]_vars, ~Spawn, Cause PROVE Cause'
<1>1. /\ Bot' = Bot /\ faults <= faults' /\ faults \in Nat
      /\ \A c \in Bot : /\ Ended(c) => bots'[c].pc = bots[c].pc
                        /\ conns[c].overtaken => conns'[c].overtaken
  BY StepMonotone
<1>2. Failed # {} => Failed' # {}
  BY <1>1 DEF Failed, Ended
<1>3. Overtaken # {} => Overtaken' # {}
  BY <1>1 DEF Overtaken
<1>4. faults >= RECV_TIMEOUT => faults' >= RECV_TIMEOUT
  <2>1. faults' \in Nat
    BY GoodStep, RequestType DEF Good, RestGood
  <2> QED
    BY <1>1, <2>1, DurationTypes
<1> QED
  BY <1>1, <1>2, <1>3, <1>4 DEF Cause, AllServed

\* The situation of a normal scenario in which nothing has gone wrong.
Going ==
    /\ Good /\ request.mode = "normal" /\ stage = "running" /\ ~Cause
    /\ \A b \in Bot : Kept(b, bots[b], conns[b], faults)

LEMMA NormalTick == ASSUME Going, Tick PROVE \A b \in Bot : Kept(b, bots'[b], conns'[b], faults')
<1> SUFFICES ASSUME NEW b \in Bot PROVE Kept(b, bots'[b], conns'[b], faults')
  OBVIOUS
<1>1. /\ bots[b] \in GoodBot /\ conns[b] \in GoodConn /\ faults \in Nat
      /\ Kept(b, bots[b], conns[b], faults)
  BY BotsAre DEF Going, Good, RestGood
<1>2. bots'[b] = Ticked(bots[b]) /\ conns' = conns
  BY TickFacts DEF Going
<1>3. PICK t \in Nat : t = IF bots[b].timer > 0 THEN bots[b].timer - 1 ELSE 0
  BY <1>1 DEF GoodBot, BotState
<1>4. /\ Ticked(bots[b]).kind = bots[b].kind /\ Ticked(bots[b]).pc = bots[b].pc
      /\ Ticked(bots[b]).left = bots[b].left /\ Ticked(bots[b]).received = bots[b].received
      /\ Ticked(bots[b]).timer = t /\ t >= bots[b].timer - 1 /\ bots[b].timer \in Nat
  BY <1>1, <1>3 DEF Ticked, GoodBot, BotState
<1>5. ASSUME bots[b].pc = "recv", request.msgs > 0 PROVE t + faults' >= RECV_TIMEOUT
  <2>1. ~Quiet
    <3> SUFFICES ASSUME Quiet PROVE FALSE
      OBVIOUS
    <3>1. /\ conns[b].state \notin {"gone", "none", "backlog"}
          /\ conns[b].state \in {"none", "backlog", "open", "gone"}
      BY <1>1, <1>5 DEF Quiet, Kept, GoodConn, ConnState
    <3>2. conns[b].inbox = <<>> /\ conns[b].queue = <<>>
      BY <1>5, <3>1 DEF Quiet
    <3>3. conns[b].queue \in Seq(Event)
      BY <1>1 DEF GoodConn, ConnState
    <3>4. Len(conns[b].inbox) = 0 /\ Own(b, conns[b].queue) = 0
      BY <3>2, <3>3, OwnType
    <3>5. bots[b].left = 0 /\ bots[b].received < request.msgs /\ bots[b].received \in Nat
          /\ request.msgs \in Nat
      BY <1>1, <1>5, RequestType DEF Kept, GoodBot, Placed, BotState, Going, Good, RestGood
    <3> QED
      BY <1>1, <1>5, <3>4, <3>5 DEF Kept
  <2>2. faults' = faults + 1
    BY <2>1, TickFacts DEF Going
  <2>3. bots[b].timer + faults >= RECV_TIMEOUT
    BY <1>1, <1>5 DEF Kept
  <2> QED
    BY <1>1, <1>4, <2>2, <2>3, DurationTypes
<1> QED
  BY <1>1, <1>2, <1>4, <1>5 DEF Kept

LEMMA NormalServer ==
  ASSUME Going, ~Cause', Flush \/ \E b \in Bot : ServerStep(b)
  PROVE  \A b \in Bot : Kept(b, bots'[b], conns'[b], faults')
<1>1. /\ Good /\ \A b \in Bot : /\ bots[b] \in GoodBot /\ conns[b] \in GoodConn
                                /\ Kept(b, bots[b], conns[b], faults)
  BY BotsAre DEF Going
<1>2. bots' = bots /\ faults' = faults
  BY <1>1, ServerStepView
<1>3. \A c \in Bot : ~conns'[c].overtaken
  BY <1>2 DEF Cause, Overtaken, Bot
<1>4. ASSUME NEW c \in Bot, NEW e \in GoodEvent, e.from # c, conns'[c] = Enqueue(conns[c], e)
      PROVE  Kept(c, bots[c], conns'[c], faults)
  BY <1>1, <1>3, <1>4, KeptEnqueue
<1>5. ASSUME NEW counts \in Counts PROVE Snapshot(counts).from = 0 /\ 0 \notin Bot
  BY <1>1, BotsAre DEF Snapshot
<1>6. CASE Flush
  BY <1>1, <1>2, <1>4, <1>5, <1>6, FlushView
<1>7. ASSUME NEW b \in Bot, Accept(b) PROVE \A c \in Bot : Kept(c, bots[c], conns'[c], faults)
  <2>1. ~(Cardinality({c \in Bot : conns[c].state = "open"}) >= MAX_CONNECTIONS)
    <3> DEFINE Open == {c \in Bot : conns[c].state = "open"}
    <3>1. IsFiniteSet(Bot) /\ Cardinality(Bot) \in Nat /\ Cardinality(Bot) <= MAX_CONNECTIONS
      BY <1>1, BotsAre, FS_CardinalityType DEF Going, Cause, AllServed
    <3>2. Open \subseteq Bot \ {b}
      BY <1>1, <1>7, AcceptFacts
    <3>3. IsFiniteSet(Bot \ {b}) /\ Cardinality(Bot \ {b}) = Cardinality(Bot) - 1
      BY <3>1, FS_RemoveElement
    <3>4. Cardinality(Open) <= Cardinality(Bot) - 1 /\ Cardinality(Open) \in Nat
      BY <3>2, <3>3, FS_Subset, FS_CardinalityType
    <3> QED
      BY <3>1, <3>4, DurationsAssumption
  <2>2. conns' = [conns EXCEPT ![b] = [conns[b] EXCEPT !.state = "open"]]
    BY <1>1, <1>7, <2>1, AcceptFacts
  <2>3. conns'[b] = [conns[b] EXCEPT !.state = "open"] /\ \A c \in Bot \ {b} : conns'[c] = conns[c]
    BY <1>1, <2>2, ConnView
  <2>4. /\ conns'[b].state = "open" /\ conns'[b].inbox = conns[b].inbox
        /\ conns'[b].queue = conns[b].queue
    BY <1>1, <2>3 DEF GoodConn, ConnState
  <2>5. Kept(b, bots[b], conns'[b], faults)
    BY <1>1, <2>4 DEF Kept
  <2> QED
    BY <1>1, <2>3, <2>5
<1>8. ASSUME NEW b \in Bot, HandleLine(b) PROVE \A c \in Bot : Kept(c, bots[c], conns'[c], faults)
  <2>1. conns[b].state = "open" /\ conns[b].inbox # <<>>
    BY <1>1, <1>8, HandleFacts
  <2>2. conns[b].inbox \in Seq(Line) /\ conns[b].queue \in Seq(Event)
    BY <1>1 DEF GoodConn, ConnState
  <2>3. Head(conns[b].inbox).option = None
    <3>1. 1 \in DOMAIN conns[b].inbox
      BY <2>1, <2>2
    <3> QED
      BY <1>1, <2>1, <2>2, <3>1 DEF Kept
  <2>4. /\ Chat(b) \in GoodEvent /\ conns'[b] = Enqueue(Heard(b), Chat(b))
        /\ \A c \in Bot \ {b} : conns'[c] = Enqueue(conns[c], Chat(b))
    BY <1>1, <1>8, <2>3, ChatView
  <2>5. \A c \in Bot \ {b} : Kept(c, bots[c], conns'[c], faults)
    BY <1>4, <2>4 DEF Chat
  <2>6. Heard(b) \in GoodConn /\ Heard(b).inbox = Tail(conns[b].inbox)
        /\ Heard(b).queue = conns[b].queue /\ Heard(b).state = conns[b].state
    <3>1. Heard(b) \in GoodConn
      BY <1>1, <2>1, ServerFacts
    <3> QED
      BY <1>1, <3>1 DEF Heard, GoodConn, ConnState
  <2>7. /\ conns'[b].state = "open" /\ conns'[b].inbox = Tail(conns[b].inbox)
        /\ conns'[b].queue = Append(conns[b].queue, Chat(b))
    BY <1>3, <2>1, <2>4, <2>6, EnqueueFacts
  <2>8. Own(b, conns'[b].queue) = Own(b, conns[b].queue) + 1 /\ Own(b, conns[b].queue) \in Nat
    <3>1. Chat(b) \in Event /\ Chat(b).from = b
      BY <2>4 DEF GoodEvent, Chat
    <3> QED
      BY <2>2, <2>7, <3>1, OwnAppend, OwnType
  <2>9. Len(conns'[b].inbox) = Len(conns[b].inbox) - 1 /\ Len(conns[b].inbox) \in Nat
    BY <2>1, <2>2, <2>7
  <2>10. \A i \in DOMAIN conns'[b].inbox : conns'[b].inbox[i].option = None
    <3>1. \A i \in DOMAIN Tail(conns[b].inbox) : /\ i + 1 \in DOMAIN conns[b].inbox
                                                 /\ Tail(conns[b].inbox)[i] = conns[b].inbox[i + 1]
      BY <2>1, <2>2
    <3> QED
      BY <1>1, <2>7, <3>1 DEF Kept
  <2>11. bots[b].left \in Nat /\ bots[b].received \in Nat
    BY <1>1, RequestType DEF GoodBot, BotState, Going, Good, RestGood
  <2>12. Kept(b, bots[b], conns[b], faults)
    BY <1>1
  <2>13. bots[b].left + Len(conns'[b].inbox) + Own(b, conns'[b].queue) + bots[b].received
            = bots[b].left + Len(conns[b].inbox) + Own(b, conns[b].queue) + bots[b].received
    <3>1. PICK l \in Nat, i \in Nat, o \in Nat, r \in Nat :
             /\ l = bots[b].left /\ i = Len(conns[b].inbox)
             /\ o = Own(b, conns[b].queue) /\ r = bots[b].received
      BY <2>8, <2>9, <2>11
    <3>2. Len(conns'[b].inbox) = i - 1 /\ Own(b, conns'[b].queue) = o + 1
      BY <2>8, <2>9, <3>1
    <3>3. l + (i - 1) + (o + 1) + r = l + i + o + r
      OBVIOUS
    <3> QED
      BY <3>1, <3>2, <3>3
  <2>14. Kept(b, bots[b], conns'[b], faults)
    BY <2>1, <2>7, <2>10, <2>12, <2>13 DEF Kept
  <2> QED
    BY <2>5, <2>14
<1>9. ASSUME NEW b \in Bot, Leave(b) PROVE \A c \in Bot : Kept(c, bots[c], conns'[c], faults)
  <2>1. bots[b].pc = "done" /\ Closed(b) \in GoodConn /\ Kept(b, bots[b], conns[b], faults)
    BY <1>1, <1>9, LeaveFacts, ServerFacts DEF Kept, Ended
  <2>2. Closed(b).state = "gone" /\ Closed(b).inbox = <<>> /\ Closed(b).queue = <<>>
    BY <1>1 DEF Closed, GoodConn, ConnState
  <2>3. Kept(b, bots[b], Closed(b), faults)
    BY <2>1, <2>2 DEF Kept
  <2>4. CASE Announce([conns EXCEPT ![b] = Closed(b)])
    <3>1. PICK board \in Counts :
            \/ /\ conns'[b] = Enqueue(Closed(b), Snapshot(board))
               /\ \A c \in Bot \ {b} : conns'[c] = Enqueue(conns[c], Snapshot(board))
            \/ conns'[b] = Closed(b) /\ \A c \in Bot \ {b} : conns'[c] = conns[c]
      BY <1>1, <2>1, <2>4, AnnounceView
    <3>2. Snapshot(board) \in GoodEvent /\ Enqueue(Closed(b), Snapshot(board)) = Closed(b)
      BY <2>1, <2>2, SnapshotGood, EnqueueFacts
    <3> QED
      BY <1>1, <1>4, <1>5, <2>3, <3>1, <3>2
  <2>5. CASE conns' = [conns EXCEPT ![b] = Closed(b)]
    BY <1>1, <2>3, <2>5, ConnView
  <2> QED
    BY <1>1, <1>9, <2>4, <2>5, LeaveFacts
<1> QED
  BY <1>2, <1>6, <1>7, <1>8, <1>9 DEF ServerStep

LEMMA NormalBot ==
  ASSUME Going, ~Cause', NEW b \in Bot, BotStep(b)
  PROVE  \A c \in Bot : Kept(c, bots'[c], conns'[c], faults')
<1>1. /\ Good /\ bots[b] \in GoodBot /\ conns[b] \in GoodConn /\ Kept(b, bots[b], conns[b], faults)
      /\ bots[b].kind = "normal" /\ request.msgs \in Nat /\ faults \in Nat
  BY BotsAre, RequestType DEF Going, Kept, Good, RestGood
<1>2. ~Arrive(b) /\ b \notin Fickle
  BY <1>1 DEF Arrive, Fickle
<1>3. /\ Bot' = Bot /\ faults <= faults' /\ request' = request
      /\ \A c \in Bot \ {b} : bots'[c] = bots[c] /\ conns'[c] = conns[c]
  BY <1>1, <1>2, BotStepView DEF scenarioVars
<1>4. faults' \in Nat
  BY <1>1, <1>2, BotGood, RequestType DEF Good, RestGood
<1>5. ASSUME Kept(b, bots'[b], conns'[b], faults')
      PROVE  \A c \in Bot : Kept(c, bots'[c], conns'[c], faults')
  <2>1. \A c \in Bot \ {b} : Kept(c, bots[c], conns[c], faults') 
    BY <1>1, <1>3, <1>4, KeptLater, BotsAre DEF Going
  <2> QED
    BY <1>3, <1>5, <2>1
<1> SUFFICES Kept(b, bots'[b], conns'[b], faults')
  BY <1>5
<1>6. ASSUME NEW r, Go(b, r) PROVE bots'[b] = r /\ r.pc # "failed"
  <2>1. bots'[b] = r
    BY <1>1, <1>6, GoView
  <2>2. bots'[b].pc # "failed"
    BY <1>3 DEF Cause, AllServed, Failed
  <2> QED
    BY <2>1, <2>2
<1>7. ASSUME NEW d, conns' = [conns EXCEPT ![b] = d] PROVE conns'[b] = d
  BY <1>1, <1>7, ConnView
<1>8. Len(conns[b].inbox) \in Nat /\ conns[b].inbox \in Seq(Line)
      /\ conns[b].queue \in Seq(Event) /\ Own(b, conns[b].queue) \in Nat
      /\ bots[b].left \in Nat /\ bots[b].received \in Nat /\ bots[b].timer \in Nat
  <2>1. conns[b].inbox \in Seq(Line) /\ conns[b].queue \in Seq(Event)
    BY <1>1 DEF GoodConn, ConnState
  <2>2. bots[b].left \in Nat /\ bots[b].received \in Nat /\ bots[b].timer \in Nat
    BY <1>1 DEF GoodBot, BotState
  <2>3. Own(b, conns[b].queue) \in Nat
    BY <2>1, OwnType
  <2> QED
    BY <2>1, <2>2, <2>3
<1>9. CASE Connect(b)
  <2>1. bots[b].pc = "connect"
    BY <1>9 DEF Connect, Due
  <2>2. \/ /\ Go(b, [bots[b] EXCEPT !.pc = "send"])
           /\ conns' = [conns EXCEPT ![b] = [conns[b] EXCEPT !.state = "backlog"]]
        \/ /\ Go(b, [bots[b] EXCEPT !.tries = @ + 1, !.timer = 1]) \/ Go(b, FailedBot(b))
           /\ conns' = conns
    BY <1>1, <1>9 DEF Connect, FailedBot
  <2>3. CASE /\ Go(b, [bots[b] EXCEPT !.pc = "send"])
             /\ conns' = [conns EXCEPT ![b] = [conns[b] EXCEPT !.state = "backlog"]]
    <3>1. bots'[b] = [bots[b] EXCEPT !.pc = "send"] /\ conns'[b] = [conns[b] EXCEPT !.state = "backlog"]
      BY <1>6, <1>7, <2>3
    <3>2. /\ bots'[b].pc = "send" /\ bots'[b].kind = "normal" /\ bots'[b].left = bots[b].left
          /\ bots'[b].received = bots[b].received
          /\ conns'[b].state = "backlog" /\ conns'[b].inbox = conns[b].inbox
          /\ conns'[b].queue = conns[b].queue
      BY <1>1, <3>1 DEF GoodBot, BotState, GoodConn, ConnState
    <3> QED
      BY <1>1, <2>1, <3>2 DEF Kept
  <2>4. CASE Go(b, [bots[b] EXCEPT !.tries = @ + 1, !.timer = 1]) /\ conns' = conns
    <3>1. bots'[b] = [bots[b] EXCEPT !.tries = @ + 1, !.timer = 1]
      BY <1>6, <2>4
    <3>2. /\ bots'[b].pc = "connect" /\ bots'[b].kind = "normal" /\ bots'[b].left = bots[b].left
          /\ bots'[b].received = bots[b].received
      BY <1>1, <2>1, <3>1 DEF GoodBot, BotState
    <3> QED
      BY <1>1, <2>1, <2>4, <3>2 DEF Kept
  <2>5. CASE Go(b, FailedBot(b))
    <3>1. FailedBot(b).pc = "failed"
      BY <1>1 DEF FailedBot, GoodBot, BotState
    <3> QED
      BY <1>6, <2>5, <3>1
  <2> QED
    BY <2>2, <2>3, <2>4, <2>5
<1>10. CASE SendChat(b)
  <2> DEFINE r == [bots[b] EXCEPT !.left = @ - 1]
  <2>1. bots[b].pc = "send" /\ bots[b].left > 0 /\ Send(b, None, r) /\ faults' = faults
    BY <1>10 DEF SendChat, SendLine, Due
  <2>2. conns[b].state # "gone"
    BY <1>1, <2>1 DEF Kept
  <2>3. Go(b, r) /\ conns' = [conns EXCEPT ![b] = Sent(b, None)]
    BY <2>1, <2>2 DEF Send, Sent
  <2>4. bots'[b] = r /\ conns'[b] = Sent(b, None)
    BY <1>6, <1>7, <2>3
  <2>5. /\ bots'[b].pc = "send" /\ bots'[b].kind = "normal" /\ bots'[b].left = bots[b].left - 1
        /\ bots'[b].received = bots[b].received
    BY <1>1, <2>1, <2>4 DEF GoodBot, BotState
  <2>6. /\ conns'[b].inbox = Append(conns[b].inbox, [option |-> None])
        /\ conns'[b].queue = conns[b].queue /\ conns'[b].state = conns[b].state
    BY <1>1, <2>4 DEF Sent, GoodConn, ConnState
  <2>7. \A i \in DOMAIN conns'[b].inbox : conns'[b].inbox[i].option = None
    <3>1. \A i \in DOMAIN conns[b].inbox : conns[b].inbox[i].option = None
      BY <1>1 DEF Kept
    <3>2. \A i \in DOMAIN conns'[b].inbox : \/ i \in DOMAIN conns[b].inbox
                                               /\ conns'[b].inbox[i] = conns[b].inbox[i]
                                            \/ conns'[b].inbox[i] = [option |-> None]
      BY <1>8, <2>6
    <3> QED
      BY <3>1, <3>2
  <2>8. Len(conns'[b].inbox) = Len(conns[b].inbox) + 1
    BY <1>8, <2>6
  <2>9. bots'[b].left + Len(conns'[b].inbox) + Own(b, conns'[b].queue) + bots'[b].received = request.msgs
    <3>1. PICK l \in Nat, i \in Nat, o \in Nat, n \in Nat :
             /\ l = bots[b].left /\ i = Len(conns[b].inbox)
             /\ o = Own(b, conns[b].queue) /\ n = bots[b].received
      BY <1>8
    <3>2. l + i + o + n = request.msgs
      BY <1>1, <2>1, <3>1 DEF Kept
    <3>3. (l - 1) + (i + 1) + o + n = l + i + o + n
      OBVIOUS
    <3> QED
      BY <2>5, <2>6, <2>8, <3>1, <3>2, <3>3
  <2> QED
    BY <1>1, <2>1, <2>2, <2>5, <2>6, <2>7, <2>9 DEF Kept
<1>11. CASE StartReceiving(b)
  <2>1. Go(b, [bots[b] EXCEPT !.pc = "recv", !.timer = RECV_TIMEOUT]) /\ conns' = conns /\ faults' = faults
        /\ bots[b].pc = "send" /\ bots[b].left = 0
    BY <1>11 DEF StartReceiving, serverVars, Due
  <2>2. bots'[b] = [bots[b] EXCEPT !.pc = "recv", !.timer = RECV_TIMEOUT]
    BY <1>6, <2>1
  <2>3. /\ bots'[b].pc = "recv" /\ bots'[b].kind = "normal" /\ bots'[b].left = 0
        /\ bots'[b].received = bots[b].received /\ bots'[b].timer = RECV_TIMEOUT
    BY <1>1, <2>1, <2>2 DEF GoodBot, BotState
  <2>4. RECV_TIMEOUT + faults >= RECV_TIMEOUT
    BY <1>1, DurationTypes
  <2> QED
    BY <1>1, <2>1, <2>3, <2>4 DEF Kept
<1>12. CASE Receive(b)
  <2> DEFINE bot == [bots[b] EXCEPT !.received = @ + 1]
  <2>1. /\ bots[b].pc = "recv" /\ conns[b].queue # <<>> /\ faults' = faults
        /\ conns' = [conns EXCEPT ![b] = Took(b)]
    BY <1>12 DEF Receive, Took
  <2>2. conns'[b] = Took(b)
    BY <1>7, <2>1
  <2>3. /\ conns'[b].queue = Tail(conns[b].queue) /\ conns'[b].inbox = conns[b].inbox
        /\ conns'[b].state = conns[b].state
    BY <1>1, <2>2 DEF Took, GoodConn, ConnState
  <2>4. /\ Own(b, conns[b].queue) = Own(b, Tail(conns[b].queue))
                                     + (IF Head(conns[b].queue).from = b THEN 1 ELSE 0)
        /\ Own(b, Tail(conns[b].queue)) \in Nat
    <3>1. Tail(conns[b].queue) \in Seq(Event)
      BY <1>8, <2>1
    <3> QED
      BY <1>8, <2>1, <3>1, OwnTail, OwnType
  <2>5. PICK i \in Nat, o \in Nat, n \in Nat :
             /\ i = Len(conns[b].inbox) /\ o = Own(b, Tail(conns[b].queue)) /\ n = bots[b].received
    BY <1>8, <2>4
  <2>6. /\ bots[b].left = 0
        /\ 0 + i + (o + (IF Head(conns[b].queue).from = b THEN 1 ELSE 0)) + n = request.msgs
    BY <1>1, <2>1, <2>4, <2>5 DEF Kept
  <2>7. CASE Head(conns[b].queue).from # b
    <3>1. bots'[b] = bots[b]
      BY <1>12, <2>7 DEF Receive
    <3>2. 0 + i + o + n = request.msgs
      BY <2>6, <2>7
    <3>3. bots[b].left + Len(conns'[b].inbox) + Own(b, conns'[b].queue) + bots[b].received = request.msgs
      BY <2>3, <2>5, <2>6, <3>2
    <3> QED
      BY <1>1, <2>1, <2>3, <3>1, <3>3 DEF Kept
  <2>8. CASE Head(conns[b].queue).from = b
    <3>1. Go(b, IF bot.received >= request.msgs THEN Done(bot) ELSE bot)
      BY <1>12, <2>8 DEF Receive
    <3>2. /\ bot.received = n + 1 /\ bot.pc = "recv" /\ bot.kind = "normal" /\ bot.left = 0
          /\ bot.timer = bots[b].timer
      BY <1>1, <2>1, <2>5, <2>6 DEF GoodBot, BotState
    <3>3. /\ Done(bot).received = n + 1 /\ Done(bot).pc = "done" /\ Done(bot).kind = "normal"
      BY <1>1, <3>2 DEF GoodBot, BotState, Done
    <3>4. 0 + i + o + (n + 1) = request.msgs
      BY <2>6, <2>8
    <3>5. CASE bot.received >= request.msgs
      <4>1. bots'[b] = Done(bot)
        BY <1>6, <3>1, <3>5
      <4>2. n + 1 = request.msgs
        BY <3>2, <3>4, <3>5
      <4> QED
        BY <1>1, <2>1, <2>3, <3>3, <4>1, <4>2 DEF Kept
    <3>6. CASE ~(bot.received >= request.msgs)
      <4>1. bots'[b] = bot
        BY <1>6, <3>1, <3>6
      <4> HIDE DEF bot
      <4>2. bots'[b].left + Len(conns'[b].inbox) + Own(b, conns'[b].queue) + bots'[b].received
               = request.msgs
        BY <2>3, <2>5, <3>2, <3>4, <4>1
      <4> QED
        BY <1>1, <2>1, <2>3, <3>2, <4>1, <4>2 DEF Kept
    <3> QED
      BY <3>5, <3>6
  <2> QED
    BY <2>7, <2>8
<1>13. CASE StopReceiving(b)
  <2>1. bots[b].pc = "recv" /\ bots[b].left = 0 /\ conns[b].state # "gone"
        /\ bots[b].timer = 0 /\ faults' = faults /\ conns' = conns /\ Go(b, Done(bots[b]))
    BY <1>1, <1>13 DEF StopReceiving, Kept, serverVars
  <2>2. request.msgs = 0
    <3>1. ~(faults' >= RECV_TIMEOUT)
      BY DEF Cause
    <3>2. request.msgs > 0 => bots[b].timer + faults >= RECV_TIMEOUT
      BY <1>1, <2>1 DEF Kept
    <3> QED
      BY <1>1, <2>1, <3>1, <3>2
  <2>3. bots[b].received = 0
    BY <1>1, <2>2 DEF GoodBot, BotState
  <2>4. bots'[b] = Done(bots[b])
    BY <1>6, <2>1
  <2>5. bots'[b].pc = "done" /\ bots'[b].kind = "normal" /\ bots'[b].received = 0
    BY <1>1, <2>3, <2>4 DEF GoodBot, BotState, Done
  <2> QED
    BY <1>1, <2>1, <2>2, <2>5 DEF Kept
<1> QED
  <2>1. bots[b].pc \in {"connect", "send", "recv", "done"}
    BY <1>1 DEF Kept
  <2>2. ~SendVote(b) /\ ~Quit(b) /\ ~SendSpam(b) /\ ~Hear(b) /\ ~Settled(b) /\ ~Revote(b)
        /\ ~AwaitPropagation(b) /\ ~Finish(b) /\ ~Release(b)
    BY <1>1, <1>2, <2>1 DEF SendVote, Quit, SendSpam, SendLine, Hear, Settled, Revote,
       AwaitPropagation, Finish, Release, EndAt, Due
  <2> QED
    BY <1>2, <1>9, <1>10, <1>11, <1>12, <1>13, <2>2 DEF BotStep

LEMMA NormalSpawn ==
  ASSUME Good, Spawn, stage = "start", request.mode = "normal"
  PROVE  Len(bots') = request.count /\ \A b \in Bot' : Kept(b, bots'[b], conns'[b], faults')
<1>1. PICK n, kind :
            /\ n \in 0 .. MaxBots
            /\ n = request.count /\ \A b \in 1 .. n : kind[b] = "normal"
            /\ bots' = [b \in 1 .. n |-> NewBot(kind[b], request.msgs)]
            /\ conns' = [b \in 1 .. n |-> NewConn]
  BY SpawnFacts
<1>2. n \in Nat /\ request.msgs \in Nat
  BY <1>1, DurationsAssumption, RequestType DEF Good, RestGood
<1>3. Len(bots') = n /\ Bot' = 1 .. n
  BY <1>1, <1>2 DEF Bot
<1>4. ASSUME NEW b \in 1 .. n PROVE Kept(b, bots'[b], conns'[b], faults')
  <2>1. bots'[b] = NewBot("normal", request.msgs) /\ conns'[b] = NewConn
    BY <1>1
  <2>2. /\ bots'[b].kind = "normal" /\ bots'[b].pc = "connect" /\ bots'[b].left = request.msgs
        /\ bots'[b].received = 0
        /\ conns'[b].state = "none" /\ conns'[b].inbox = <<>> /\ conns'[b].queue = <<>>
    BY <2>1 DEF NewBot, NewConn, BotType
  <2>3. <<>> \in Seq(Event) /\ Len(<<>>) = 0 /\ DOMAIN <<>> = {}
    OBVIOUS
  <2>4. Own(b, <<>>) = 0
    BY <2>3, OwnType
  <2>5. request.msgs + 0 + 0 + 0 = request.msgs
    BY <1>2
  <2> QED
    BY <2>2, <2>3, <2>4, <2>5 DEF Kept
<1> QED
  BY <1>1, <1>3, <1>4

\* If all have received what they have sent, nothing is missing.
LEMMA NothingMissing ==
  ASSUME Good, Len(bots) = request.count, \A b \in Bot : bots[b].received = request.msgs
  PROVE  ~Missing
<1> DEFINE f == [b \in Bot |-> bots[b].received]
<1>1. request.msgs \in Nat /\ request.count \in Nat
  BY RequestType DEF Good, RestGood
<1>2. IsFiniteSet(Bot) /\ Cardinality(Bot) = request.count
  BY BotsAre
<1>3. DOMAIN f = Bot /\ \A b \in Bot : f[b] = request.msgs
  OBVIOUS
<1>4. Received = SumFunctionOnSet(f, Bot)
  BY DEF Received, SumFunction
<1> HIDE DEF f
<1>5. PICK m \in Nat, n \in Nat : m = request.msgs /\ n = request.count
  BY <1>1
<1>6. SumFunctionOnSet(f, Bot) = m * Cardinality(Bot)
  BY <1>2, <1>3, <1>5, SumConstant
<1>7. m * n = n * m
  OBVIOUS
<1> QED
  BY <1>2, <1>4, <1>5, <1>6, <1>7 DEF Missing

LEMMA NormalStep == Good /\ Normal /\ [Next]_vars => Normal'
<1> SUFFICES ASSUME Good, Normal, [Next]_vars, request.mode = "normal" PROVE Normal'
  <2>1. Spawn => request' = request
    BY DEF Spawn
  <2> QED
    BY <2>1, StepMonotone DEF Normal
<1>1. request' = request /\ Good'
  <2>1. Spawn => request' = request
    BY DEF Spawn
  <2> QED
    BY <2>1, StepMonotone, GoodStep
<1>2. stage \in {"start", "running", "panicked", "reported"} /\ ~Prepare
  BY DEF Normal, Prepare
<1>3. CASE Spawn
  <2>1. stage = "start" /\ stage' = "running"
    BY <1>2, <1>3 DEF Spawn
  <2>2. Len(bots') = request.count /\ \A b \in Bot' : Kept(b, bots'[b], conns'[b], faults')
    BY <1>3, <2>1, NormalSpawn
  <2>3. (\A b \in Bot : Kept(b, bots[b], conns[b], faults))'
    BY <1>1, <2>2 DEF Kept
  <2> QED
    BY <1>1, <2>1, <2>2, <2>3 DEF Normal
<1>4. ASSUME ~Spawn, stage = "running", stage' = "running" PROVE Normal'
  <2> SUFFICES ASSUME ~Cause'
               PROVE  /\ Len(bots') = request.count
                      /\ (\A b \in Bot : Kept(b, bots[b], conns[b], faults))'
    BY <1>1, <1>4 DEF Normal
  <2>1. ~Cause
    BY <1>4, CauseStays
  <2>2. Going /\ Len(bots) = request.count
    BY <1>4, <2>1 DEF Going, Normal
  <2>3. Bot' = Bot
    BY <1>4, StepMonotone
  <2>4. Len(bots') = request.count
    <3>1. /\ Bot = 1 .. Len(bots) /\ Len(bots) \in Nat
          /\ Bot' = 1 .. Len(bots') /\ Len(bots') \in Nat
      BY <1>1 DEF Good, BotsGood, Bot
    <3>2. \A n \in Nat : Cardinality(1 .. n) = n
      <4> SUFFICES ASSUME NEW n \in Nat PROVE Cardinality(1 .. n) = n
        OBVIOUS
      <4> QED
        BY FS_Interval
    <3> QED
      BY <2>2, <2>3, <3>1, <3>2
  <2>5. \A b \in Bot : Kept(b, bots'[b], conns'[b], faults')
    <3>1. CASE UNCHANGED vars
      BY <2>2, <3>1 DEF Going, vars, serverVars
    <3>2. CASE Tick
      BY <2>2, <3>2, NormalTick
    <3>3. CASE Flush \/ \E b \in Bot : ServerStep(b)
      BY <2>2, <3>3, NormalServer
    <3>4. CASE \E b \in Bot : BotStep(b)
      BY <2>2, <3>4, NormalBot
    <3> QED
      BY <1>2, <1>4, <3>1, <3>2, <3>3, <3>4 DEF Next, AssertFails, Report
  <2>6. (\A b \in Bot : Kept(b, bots[b], conns[b], faults))'
    BY <1>1, <2>3, <2>5 DEF Kept
  <2> QED
    BY <2>4, <2>6
<1>5. CASE AssertFails
  <2>1. /\ stage = "running" /\ stage' = "panicked" /\ Missing /\ \A b \in Bot : Ended(b)
        /\ bots' = bots /\ conns' = conns /\ faults' = faults
    BY <1>5 DEF AssertFails, Joined, serverVars
  <2>2. Cause
    <3> SUFFICES ASSUME ~Cause PROVE FALSE
      OBVIOUS
    <3>1. Len(bots) = request.count /\ \A b \in Bot : Kept(b, bots[b], conns[b], faults)
      BY <2>1 DEF Normal
    <3>2. \A b \in Bot : bots[b].received = request.msgs
      BY <2>1, <3>1 DEF Kept, Ended
    <3> QED
      BY <2>1, <3>1, <3>2, NothingMissing
  <2>3. Cause'
    BY <2>1, <2>2 DEF Cause, AllServed, Failed, Overtaken, Bot
  <2> QED
    BY <1>1, <2>1, <2>3 DEF Normal
<1>6. CASE ~Spawn /\ ~AssertFails /\ stage' = stage /\ stage # "running"
  BY <1>1, <1>2, <1>6, CauseStays DEF Normal
<1>7. CASE Report
  BY <1>1, <1>7 DEF Normal, Report
<1>8. ~Spawn /\ ~AssertFails /\ ~Report => stage' = stage
  <2>1. Tick \/ Flush \/ (\E b \in Bot : BotStep(b) /\ ~Arrive(b)) \/ (\E b \in Bot : Arrive(b))
           \/ (\E b \in Bot : ServerStep(b)) => UNCHANGED scenarioVars
    BY BotStepView, ServerStepView, ArriveFacts DEF Tick
  <2> QED
    BY <1>2, <2>1 DEF Next, vars, scenarioVars
<1> QED
  BY <1>3, <1>4, <1>5, <1>6, <1>7, <1>8

(* The assertion of the normal mode (mod.rs:586-596), for any number of bots
   and lines: it fails only after a connection was refused or closed, a
   receiver was overtaken, or as many things had gone wrong as the bots wait
   for (BOT_RECV_TIMEOUT_SECS). Lines of a bot are conserved: each is still to
   be sent, with the server, in the bot's queue, or received. *)
THEOREM MissingHasCauseCorrect == Spec => []MissingHasCause
<1>1. Init => Normal
  BY DEF Init, Normal
<1>2. Normal => MissingHasCause
  BY DEF Normal, MissingHasCause, Cause
<1> QED
  BY <1>1, <1>2, GoodInit, GoodStep, NormalStep, PTL DEF Spec
==============================================================================
