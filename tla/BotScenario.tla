----------------------------- MODULE BotScenario -----------------------------
(***************************************************************************)
(* A run of the load-test bots against the server: run_scenario of         *)
(* src/src/bot/mod.rs, the five kinds of bots, and as much of the server   *)
(* as they can notice.                                                     *)
(*                                                                         *)
(* Each bot is a task with a connection of its own, both numbered in the   *)
(* order in which the bots are spawned. Time goes in ticks that count the  *)
(* sleeps down. A tick waits until the server and the bots have done what  *)
(* they had to do. Two things may go wrong, request.faults times in all: a *)
(* tick that does not wait, so that a line is on its way or a task         *)
(* unscheduled across it, and a connection attempt that is refused.        *)
(*                                                                         *)
(* The server is a coarse one: a handler treats a line, and the end of its *)
(* connection, in one step. VoteBoard, VoteThrottle and ChatServer have    *)
(* the steps in full.                                                      *)
(***************************************************************************)
EXTENDS BotAllocation, VoteIntegrity

CONSTANTS
    Requests,         \* the command lines tried
    MAX_CONNECTIONS,  \* permits of the server
    CAP,              \* capacity of the broadcast channel
    MAX_ATTEMPTS,     \* of connect
    VOTE_INTERVAL,    \* between the votes of a fickle bot
    SETTLE,           \* SETTLE_AFTER_BARRIER_MS
    ROUNDS,           \* RE_VOTE_ROUNDS
    ROUND,            \* RE_VOTE_INTERVAL_MS
    PROPAGATION,      \* SNAPSHOT_PROPAGATION_MS
    HOLD,             \* GHOST_HOLD_SECS
    RECV_TIMEOUT,     \* BOT_RECV_TIMEOUT_SECS
    MaxBots           \* bound: larger scenarios stop after the allocation

ASSUME DurationsAssumption ==
    /\ {VOTE_INTERVAL, SETTLE, ROUND, PROPAGATION, HOLD, RECV_TIMEOUT} \subseteq Nat \ {0}
    /\ {MAX_CONNECTIONS, CAP, MAX_ATTEMPTS, ROUNDS} \subseteq Nat \ {0}
    /\ MaxBots \in Nat

\* a command line has a mode, which may be unknown, and numbers
ASSUME RequestsAssumption ==
    Requests \subseteq [mode : BotType \cup {"mixed", "other"}, count : Nat, msgs : Nat,
                       ratio : {None} \cup SpecText, faults : Nat]

VARIABLES
    stage,     \* start, rejected, allocated, running, panicked or reported
    request,   \* the command line: mode, count, msgs and the text of the ratio;
               \* and the bound faults on what goes wrong while it runs
    alloc,     \* allocation of a mixed scenario, [type, n] in the order of the ratio
    bots,      \* the tasks
    conns,     \* what the server has of their connections
    pending,   \* the snapshot held back by the throttle
    recent,    \* a snapshot was sent in this tick
    faults,    \* refused attempts and late ticks so far
    report     \* the report

serverVars == <<conns, pending, recent>>
scenarioVars == <<stage, request, alloc, report>>
vars == <<scenarioVars, bots, serverVars, faults>>

Bot == DOMAIN bots
Fickle == {b \in Bot : bots[b].kind = "fickle"}
Chatters == {"normal", "spammer"}
Ended(b) == bots[b].pc \in {"done", "failed"}
Failed == {b \in Bot : bots[b].pc = "failed"}

\* what a handler broadcasts; a chat line is known by its sender
Chat(b) == [from |-> b, counts |-> None]
Snapshot(counts) == [from |-> 0, counts |-> counts]
\* what a bot sends, a chat line having no option
Line == [option : Option \cup {None}]

NewBot(kind, msgs) ==
    [kind |-> kind, pc |-> IF kind \in BotType THEN "connect" ELSE "done",
     timer |-> 0, tries |-> 0, left |-> msgs,
     leader |-> FALSE, vote |-> None, snap |-> None, received |-> 0]
NewConn == [state |-> "none", inbox |-> <<>>, vote |-> None, queue |-> <<>>, overtaken |-> FALSE]

\* the ratio asked for, or the default one
SpecOf(req) == IF req.ratio = None THEN Default ELSE req.ratio

Init ==
    /\ stage = "start" /\ request \in Requests
    /\ alloc = <<>> /\ bots = <<>> /\ conns = <<>> /\ report = None
    /\ pending = None /\ recent = FALSE /\ faults = 0
------------------------------------------------------------------------------
(* The scenario. *)

\* RatioSpec::parse and allocate. When the sum of the ratios overflows, a
\* debug build panics and a release build goes on with the wrapped sum, which
\* is a division by zero when it is 0.
Prepare ==
    /\ stage = "start" /\ request.mode = "mixed"
    /\ LET spec == SpecOf(request)
       IN  \/ ~Parses(spec) /\ stage' = "rejected" /\ UNCHANGED alloc
           \/ Parses(spec) /\ Overflows(spec) /\ stage' = "panicked" /\ UNCHANGED alloc
           \/ /\ Parses(spec) /\ RatioSum(spec) # 0
              /\ stage' = "allocated"
              /\ LET n == Allocate(request.count, spec)
                 IN  alloc' = [i \in DOMAIN spec |-> [type |-> spec[i].type, n |-> n[i]]]
    /\ UNCHANGED <<request, report, bots, serverVars, faults>>

\* Entry of alloc the b-th bot belongs to.
EntryOf(b) == CHOOSE i \in DOMAIN alloc :
                 LET Upto(k) == SumFunction([j \in 1 .. k |-> alloc[j].n])
                 IN  Upto(i - 1) < b /\ b <= Upto(i)

\* One task per bot, each with its share of the common state.
Spawn ==
    /\ \/ stage = "allocated"
       \/ stage = "start" /\ request.mode # "mixed"
    /\ LET n == IF stage = "start" THEN request.count
                ELSE SumFunction([i \in DOMAIN alloc |-> alloc[i].n])
           Kind(b) == IF stage = "start" THEN request.mode ELSE alloc[EntryOf(b)].type
       IN  /\ n \in 0 .. MaxBots
           /\ bots' = [b \in 1 .. n |-> NewBot(Kind(b), request.msgs)]
           /\ conns' = [b \in 1 .. n |-> NewConn]
    /\ stage' = "running"
    /\ UNCHANGED <<request, alloc, report, pending, recent, faults>>

Expected == Tally([b \in Fickle |-> IF Ended(b) /\ b \notin Failed THEN bots[b].vote ELSE None])
Results == {b \in Fickle : bots[b].pc = "done"}

Received == SumFunction([b \in Bot |-> bots[b].received])

\* All handles have been joined. Only the normal mode asserts that nothing is
\* missing; only the modes with fickle bots have a verdict.
Joined == stage = "running" /\ \A b \in Bot : Ended(b)
Missing == request.mode = "normal" /\ Received # request.count * request.msgs

AssertFails ==
    /\ Joined /\ Missing
    /\ stage' = "panicked"
    /\ UNCHANGED <<request, alloc, report, bots, serverVars, faults>>

Report ==
    /\ Joined /\ ~Missing
    /\ stage' = "reported"
    /\ \E actual \in Picks([b \in Results |-> bots[b].snap]) :
          report' = [total |-> request.count, failure |-> Cardinality(Failed),
                     success |-> Cardinality(Bot \ Failed),
                     integrity |-> IF Results = {} THEN None
                                   ELSE Verdict(Expected, actual, Cardinality(Results))]
    /\ UNCHANGED <<request, alloc, bots, serverVars, faults>>
------------------------------------------------------------------------------
(* The server. *)

\* Slip: the channel keeps everything.
EnqueueUnbounded(c, event) ==
    IF c.state # "open" THEN c ELSE [c EXCEPT !.queue = Append(@, event)]

\* A receiver that is CAP events behind loses its oldest one.
Enqueue(c, event) ==
    IF c.state # "open" THEN c
    ELSE IF Len(c.queue) < CAP THEN [c EXCEPT !.queue = Append(@, event)]
    ELSE [c EXCEPT !.queue = Append(Tail(@), event), !.overtaken = TRUE]

Deliver(cs, event) == [c \in DOMAIN cs |-> Enqueue(cs[c], event)]
BoardOf(cs) == Tally([c \in DOMAIN cs |-> cs[c].vote])

\* broadcast_vote_throttled, after a vote has changed: at once if the interval
\* has passed, which it may have done within the tick, or else held back.
Announce(cs) ==
    \/ /\ conns' = Deliver(cs, Snapshot(BoardOf(cs)))
       /\ recent' = TRUE /\ UNCHANGED pending
    \/ recent /\ conns' = cs /\ pending' = BoardOf(cs) /\ UNCHANGED recent

Flush ==
    /\ pending # None
    /\ conns' = Deliver(conns, Snapshot(pending))
    /\ pending' = None /\ recent' = TRUE
    /\ UNCHANGED <<scenarioVars, bots, faults>>

\* A connection over the limit is closed after an error line.
Accept(b) ==
    /\ conns[b].state = "backlog"
    /\ LET free == Cardinality({c \in Bot : conns[c].state = "open"}) < MAX_CONNECTIONS
       IN  conns' = [conns EXCEPT ![b].state = IF free THEN "open" ELSE "gone"]
    /\ UNCHANGED <<scenarioVars, bots, pending, recent, faults>>

HandleLine(b) ==
    /\ conns[b].state = "open" /\ conns[b].inbox # <<>>
    /\ LET rest == [conns EXCEPT ![b].inbox = Tail(@)]
           option == Head(conns[b].inbox).option
       IN  IF option # None
           THEN Announce([rest EXCEPT ![b].vote = option])
           ELSE conns' = Deliver(rest, Chat(b)) /\ UNCHANGED <<pending, recent>>
    /\ UNCHANGED <<scenarioVars, bots, faults>>

\* The handler of a bot that has ended: lines not read yet may be lost with
\* the connection, as the bot may close it with data it has not read.
Leave(b) ==
    /\ conns[b].state = "open" /\ Ended(b)
    /\ LET without == [conns EXCEPT ![b].state = "gone", ![b].inbox = <<>>,
                                    ![b].queue = <<>>, ![b].vote = None]
       IN  IF conns[b].vote # None THEN Announce(without)
           ELSE conns' = without /\ UNCHANGED <<pending, recent>>
    /\ UNCHANGED <<scenarioVars, bots, faults>>
------------------------------------------------------------------------------
(* The bots. *)

Due(b, place) == stage = "running" /\ bots[b].pc = place /\ bots[b].timer = 0
Go(b, bot) == bots' = [bots EXCEPT ![b] = bot]
Done(bot) == [bot EXCEPT !.pc = "done", !.timer = 0]

\* connect(): the host may refuse while its backlog is full, and is asked again
\* after a pause until MAX_ATTEMPTS.
Connect(b) ==
    /\ Due(b, "connect")
    /\ \/ /\ Go(b, IF bots[b].kind = "ghost" THEN [bots[b] EXCEPT !.pc = "hold", !.timer = HOLD]
                                             ELSE [bots[b] EXCEPT !.pc = "send"])
          /\ conns' = [conns EXCEPT ![b].state = "backlog"]
          /\ UNCHANGED faults
       \/ /\ faults < request.faults /\ faults' = faults + 1
          /\ Go(b, IF bots[b].tries + 1 = MAX_ATTEMPTS
                   THEN [bots[b] EXCEPT !.pc = "failed"]
                   ELSE [bots[b] EXCEPT !.tries = @ + 1, !.timer = 1])
          /\ UNCHANGED conns
    /\ UNCHANGED <<scenarioVars, pending, recent>>

\* the bot has sent a line: a vote counts, and so does a chat line less to send
HasSent(b) == bots[b].vote # None \/ bots[b].left < request.msgs

\* send_msg(..).await?: the host of the bot still takes the first line for a
\* connection that the server has closed, and a reset answers it; a later one
\* fails, or is lost as well if the reset has not come yet.
Send(b, option, bot) ==
    \/ /\ conns[b].state # "gone"
       /\ conns' = [conns EXCEPT ![b].inbox = Append(@, [option |-> option])]
       /\ Go(b, bot)
    \/ /\ conns[b].state = "gone"
       /\ \/ Go(b, bot)
          \/ HasSent(b) /\ Go(b, [bots[b] EXCEPT !.pc = "failed"])
       /\ UNCHANGED conns

SendVote(b) ==
    /\ Due(b, "send") /\ b \in Fickle /\ bots[b].left > 0
    /\ \E o \in Option :
          Send(b, o, [bots[b] EXCEPT !.vote = o, !.left = @ - 1, !.timer = VOTE_INTERVAL])
    /\ UNCHANGED <<scenarioVars, pending, recent, faults>>

\* One vote, and the stream is dropped.
Quit(b) ==
    /\ Due(b, "send") /\ bots[b].kind = "quitter"
    /\ \E o \in Option : Send(b, o, Done(bots[b]))
    /\ UNCHANGED <<scenarioVars, pending, recent, faults>>

\* Normal bots and spammers do the same: send all their lines, then begin to
\* read what they have been sent meanwhile.
SendLine(b, kind) ==
    /\ Due(b, "send") /\ bots[b].kind = kind /\ bots[b].left > 0
    /\ Send(b, None, [bots[b] EXCEPT !.left = @ - 1])
    /\ UNCHANGED <<scenarioVars, pending, recent, faults>>
SendChat(b) == SendLine(b, "normal")
SendSpam(b) == SendLine(b, "spammer")

StartReceiving(b) ==
    /\ Due(b, "send") /\ bots[b].kind \in Chatters /\ bots[b].left = 0
    /\ Go(b, [bots[b] EXCEPT !.pc = "recv", !.timer = RECV_TIMEOUT])
    /\ UNCHANGED <<scenarioVars, serverVars, faults>>

\* Slip: the count is compared before the line is counted.
ReceiveStopsShort(b) ==
    /\ stage = "running" /\ bots[b].pc = "recv" /\ conns[b].queue # <<>>
    /\ conns' = [conns EXCEPT ![b].queue = Tail(@)]
    /\ IF Head(conns[b].queue).from # b THEN UNCHANGED bots
       ELSE LET bot == [bots[b] EXCEPT !.received = @ + 1]
            IN  Go(b, IF bot.received >= request.msgs THEN Done(bots[b]) ELSE bot)
    /\ UNCHANGED <<scenarioVars, pending, recent, faults>>

\* recv_until_count_with_timeout: a line of its own counts, and the count is
\* compared only then.
Receive(b) ==
    /\ stage = "running" /\ bots[b].pc = "recv" /\ conns[b].queue # <<>>
    /\ conns' = [conns EXCEPT ![b].queue = Tail(@)]
    /\ IF Head(conns[b].queue).from # b THEN UNCHANGED bots
       ELSE LET bot == [bots[b] EXCEPT !.received = @ + 1]
            IN  Go(b, IF bot.received >= request.msgs THEN Done(bot) ELSE bot)
    /\ UNCHANGED <<scenarioVars, pending, recent, faults>>

\* The time is over, or the server has closed the connection.
StopReceiving(b) ==
    /\ stage = "running" /\ bots[b].pc = "recv"
    /\ bots[b].timer = 0 \/ conns[b].state = "gone"
    /\ Go(b, Done(bots[b]))
    /\ UNCHANGED <<scenarioVars, serverVars, faults>>

\* The receiving task of a fickle bot keeps the counts of the last snapshot.
Hear(b) ==
    /\ b \in Fickle /\ ~Ended(b) /\ conns[b].queue # <<>>
    /\ conns' = [conns EXCEPT ![b].queue = Tail(@)]
    /\ LET counts == Head(conns[b].queue).counts
       IN  IF counts = None THEN UNCHANGED bots ELSE Go(b, [bots[b] EXCEPT !.snap = counts])
    /\ UNCHANGED <<scenarioVars, pending, recent, faults>>

\* Slip: the barrier is for one bot in the mixed mode too.
BarrierForOne == 1
\* Slip: the barrier counts all bots.
BarrierForAll == IF Bot = {} THEN 1 ELSE Cardinality(Bot)

BarrierSize == IF Fickle = {} THEN 1 ELSE Cardinality(Fickle)
AtBarrier == {b \in Fickle : bots[b].pc = "barrier"}

\* Barrier::wait: the last one to arrive is the leader and releases all.
Arrive(b) ==
    /\ Due(b, "send") /\ bots[b].left = 0 /\ b \in Fickle
    /\ bots' = IF Cardinality(AtBarrier) + 1 < BarrierSize
               THEN [bots EXCEPT ![b].pc = "barrier"]
               ELSE [c \in Bot |-> IF c \in AtBarrier \cup {b}
                                   THEN [bots[c] EXCEPT !.pc = "settle", !.timer = SETTLE,
                                                        !.leader = (c = b)]
                                   ELSE bots[c]]
    /\ UNCHANGED <<scenarioVars, serverVars, faults>>

\* Slip: the leader does not vote again.
SettledWithoutRevote(b) ==
    /\ Due(b, "settle")
    /\ Go(b, IF bots[b].leader THEN [bots[b] EXCEPT !.pc = "revote", !.left = 0]
             ELSE [bots[b] EXCEPT !.pc = "revote", !.timer = ROUNDS * ROUND])
    /\ UNCHANGED <<scenarioVars, serverVars, faults>>

\* After the barrier the leader votes again, if it has voted at all; the others
\* wait as long as that takes.
Settled(b) ==
    /\ Due(b, "settle")
    /\ Go(b, IF bots[b].leader
             THEN [bots[b] EXCEPT !.pc = "revote", !.left = IF bots[b].vote = None THEN 0 ELSE ROUNDS]
             ELSE [bots[b] EXCEPT !.pc = "revote", !.timer = ROUNDS * ROUND])
    /\ UNCHANGED <<scenarioVars, serverVars, faults>>

Revote(b) ==
    /\ Due(b, "revote") /\ bots[b].left > 0
    /\ Send(b, bots[b].vote, [bots[b] EXCEPT !.left = @ - 1, !.timer = ROUND])
    /\ UNCHANGED <<scenarioVars, pending, recent, faults>>

AwaitPropagation(b) ==
    /\ Due(b, "revote") /\ bots[b].left = 0
    /\ Go(b, [bots[b] EXCEPT !.pc = "propagate", !.timer = PROPAGATION])
    /\ UNCHANGED <<scenarioVars, serverVars, faults>>

\* A fickle bot stops listening and returns, a ghost drops its stream.
EndAt(b, place) ==
    /\ Due(b, place)
    /\ Go(b, Done(bots[b]))
    /\ UNCHANGED <<scenarioVars, serverVars, faults>>
Finish(b) == EndAt(b, "propagate")
Release(b) == EndAt(b, "hold")
------------------------------------------------------------------------------
\* Nobody has anything to do before the next tick.
Quiet ==
    /\ pending = None
    /\ \A b \in Bot :
          /\ bots[b].timer > 0 \/ bots[b].pc \in {"barrier", "done", "failed"}
          /\ conns[b].state # "backlog"
          /\ conns[b].state = "open" => conns[b].inbox = <<>> /\ ~Ended(b)
          /\ bots[b].kind = "fickle" \/ bots[b].pc = "recv" => conns[b].queue = <<>> \/ Ended(b)
          /\ bots[b].pc = "recv" => conns[b].state # "gone"

Tick ==
    /\ stage = "running" /\ \E b \in Bot : bots[b].timer > 0 /\ ~Ended(b)
    /\ \/ Quiet /\ UNCHANGED faults
       \/ ~Quiet /\ faults < request.faults /\ faults' = faults + 1
    /\ bots' = [b \in Bot |-> [bots[b] EXCEPT !.timer = IF @ > 0 THEN @ - 1 ELSE 0]]
    /\ recent' = FALSE
    /\ UNCHANGED <<scenarioVars, conns, pending>>

BotStep(b) ==
    \/ Connect(b) \/ SendVote(b) \/ Quit(b) \/ SendChat(b) \/ SendSpam(b)
    \/ StartReceiving(b) \/ Receive(b) \/ StopReceiving(b) \/ Hear(b)
    \/ Arrive(b) \/ Settled(b) \/ Revote(b) \/ AwaitPropagation(b)
    \/ Finish(b) \/ Release(b)
ServerStep(b) == Accept(b) \/ HandleLine(b) \/ Leave(b)

Next ==
    \/ Prepare \/ Spawn \/ AssertFails \/ Report \/ Tick \/ Flush
    \/ \E b \in Bot : BotStep(b) \/ ServerStep(b)

Spec == Init /\ [][Next]_vars
\* The runtime goes on as long as there is something to run; no step repeats
\* for ever.
FairSpec == Spec /\ WF_vars(Next)
------------------------------------------------------------------------------
\* Type correctness.
Counts == [Option -> 0 .. MaxBots]
Event == [from : 0 .. MaxBots, counts : Counts \cup {None}]
BotState == [kind : BotType \cup {"other"},
             pc : {"connect", "send", "recv", "barrier", "settle", "revote",
                   "propagate", "hold", "done", "failed"},
             timer : Nat, tries : 0 .. MAX_ATTEMPTS - 1, left : Nat, leader : BOOLEAN,
             vote : Option \cup {None}, snap : Counts \cup {None}, received : 0 .. request.msgs]
ConnState == [state : {"none", "backlog", "open", "gone"}, inbox : Seq(Line),
              vote : Option \cup {None}, queue : Seq(Event), overtaken : BOOLEAN]
TypeOK ==
    /\ stage \in {"start", "rejected", "allocated", "running", "panicked", "reported"}
    /\ request \in Requests
    /\ alloc \in Seq([type : BotType, n : Nat])
    /\ bots \in Seq(BotState) /\ Len(bots) <= MaxBots
    /\ conns \in Seq(ConnState) /\ Len(conns) = Len(bots)
    /\ \A b \in Bot : Len(conns[b].queue) <= CAP
    /\ pending \in Counts \cup {None} /\ recent \in BOOLEAN /\ faults \in 0 .. request.faults

\* allocate (mod.rs:284-324): whatever the ratios, the bots add up to the
\* total and the remainder goes to the larger ratios, one each.
AllocationSound ==
    stage = "allocated" /\ ~Overflows(SpecOf(request)) =>
        SoundAllocation(request.count, SpecOf(request), [i \in DOMAIN alloc |-> alloc[i].n])

\* The barrier (fickle.rs:54-55): when one fickle bot has passed it, all have
\* sent their last vote and passed it too, and one of them is the leader.
BarrierHolds ==
    (\E b \in Fickle : bots[b].pc \in {"settle", "revote", "propagate", "done"}) =>
        /\ \A b \in Fickle : bots[b].pc \notin {"connect", "send", "barrier"}
        /\ Cardinality({b \in Fickle : bots[b].leader}) = 1

Overtaken == {b \in Bot : conns[b].overtaken}
\* every bot found a permit free and did its part
AllServed == Failed = {} /\ Cardinality(Bot) <= MAX_CONNECTIONS
LastVotes == Tally([b \in Fickle |-> bots[b].vote])
\* the bots wait long enough for what has gone wrong so far: for the settling
\* to be over before the last re-vote, and to hear that re-vote
Slack == faults < SETTLE + (ROUNDS - 1) * ROUND /\ faults < ROUND + PROPAGATION

\* The settling and the re-votes (fickle.rs:57-85): when the first fickle bot
\* is about to stop listening, each has heard the final tally, even if a late
\* flush has sent an older one after it, unless its receiver was overtaken or
\* too much has gone wrong for the time they wait.
ListenersHaveFinalTally ==
    request.msgs > 0 /\ AllServed /\ Slack
        /\ (\E b \in Fickle : Due(b, "propagate")) /\ (\A b \in Fickle : ~Ended(b)) =>
    \A b \in Fickle \ Overtaken : bots[b].snap = LastVotes

\* pick_actual_snapshot (mod.rs:99-121): with one or two fickle bots the
\* verdict is right although the one that stops last may see the other leave.
VerdictOfTwoPasses ==
    stage = "reported" /\ request.msgs > 0 /\ AllServed /\ Slack /\ Overtaken = {}
        /\ Cardinality(Fickle) \in 1 .. 2 => report.integrity.passed

\* The verdict does not depend on the order in which the HashMap is read.
VerdictDetermined ==
    stage = "reported" /\ request.msgs > 0 /\ AllServed /\ Slack /\ Overtaken = {} =>
        Cardinality(Picks([b \in Results |-> bots[b].snap])) = 1

\* The assertion of the normal mode (mod.rs:586-596) does not fail without a
\* cause: a connection refused or closed, a receiver overtaken, or as many
\* things gone wrong as the bots wait for.
MissingHasCause ==
    stage = "panicked" /\ request.mode = "normal" =>
        ~AllServed \/ Overtaken # {} \/ faults >= RECV_TIMEOUT

\* A scenario ends with its report or its assertion unless a fickle bot fails.
EndsUnlessFickleFails ==
    stage = "running" ~> stage # "running" \/ Fickle \cap Failed # {}

\* docs/REPORT.md:287 says that the results of all bots are collected.
ScenarioEnds == stage = "running" ~> stage # "running"

\* mod.rs:103 says that the snapshot held by most is the final state of the
\* server: the verdict of a scenario in which nothing failed is a pass.
VerdictPasses ==
    stage = "reported" /\ request.msgs > 0 /\ AllServed /\ Overtaken = {} /\ Fickle # {} =>
        report.integrity.passed
==============================================================================
