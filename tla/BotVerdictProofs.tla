-------------------------- MODULE BotVerdictProofs ---------------------------
(***************************************************************************)
(* Machine-checked proofs about BotScenario: what the fickle bots hear     *)
(* before they stop listening, and the verdict taken from it, for every    *)
(* set of requests, every number of bots and options, every limit, every   *)
(* duration and any number of faults.                                      *)
(***************************************************************************)
EXTENDS BotScenarioProofs

Served == stage \in {"running", "reported"} /\ AllServed

\* A bot, its connection and what has gone wrong so far, as long as no bot has
\* failed and all connections have been let in: the last vote of a fickle bot is
\* the last one in its inbox, or with the server; nobody else votes for good.
Tracked(bot, c, f) ==
    /\ c.state = "gone" => bot.pc = "done"
    /\ c.state = "none" => bot.pc \in {"connect", "done"}
    /\ bot.pc = "connect" => c.state = "none"
    /\ c.vote # None => c.state = "open"
    /\ bot.kind \notin {"fickle", "quitter"} =>
          c.vote = None /\ \A i \in DOMAIN c.inbox : c.inbox[i].option = None
    /\ bot.kind = "quitter" =>
          /\ bot.pc \in {"connect", "send", "done"}
          /\ bot.timer > 0 => bot.pc = "connect" /\ bot.timer = 1 /\ f > 0
    /\ bot.kind = "fickle" =>
          /\ bot.pc \in {"connect", "send", "barrier", "settle", "revote", "propagate", "done"}
          /\ \A i \in DOMAIN c.inbox : c.inbox[i].option # None
          /\ \/ bot.vote # None
             \/ bot.pc \in {"connect", "send"} /\ bot.left = request.msgs
             \/ request.msgs = 0
          /\ bot.pc # "done" =>
                bot.vote = IF c.inbox = <<>> THEN c.vote ELSE c.inbox[Len(c.inbox)].option

AllTracked == Served => \A b \in Bot : Tracked(bots[b], conns[b], faults)
------------------------------------------------------------------------------
(* Steps, as far as the connections can tell. *)

\* How a step of the server moves a connection: not at all, or it lets it in,
\* takes a line from it, or winds it up.
Moved(c, d, ended) ==
    \/ d.state = c.state /\ d.inbox = c.inbox /\ d.vote = c.vote
    \/ c.state = "backlog" /\ d.state = "open" /\ d.inbox = c.inbox /\ d.vote = c.vote
    \/ /\ c.state = "open" /\ d.state = "open"
       /\ c.inbox # <<>> /\ d.inbox = Tail(c.inbox)
       /\ d.vote = IF Head(c.inbox).option = None THEN c.vote ELSE Head(c.inbox).option
    \/ c.state = "open" /\ ended /\ d.state = "gone" /\ d.inbox = <<>> /\ d.vote = None

\* What it does to the queue when the server sends the counts s, or none.
Told(c, d, s) ==
    \/ d.state = "gone" /\ d.queue = <<>>
    \/ d.queue = c.queue /\ (s = None \/ d.state # "open")
    \/ \E e : e.counts = s /\ d.queue = Append(c.queue, e)
    \/ \E e : e.counts = s /\ d.queue = Append(Tail(c.queue), e) /\ c.queue # <<>> /\ d.overtaken

\* A vote that is handled, and a snapshot held back, are not forgotten.
Passed(s) ==
    /\ pending # None => pending' # None \/ s # None
    /\ \A c \in Bot :
          conns[c].inbox # <<>> /\ Head(conns[c].inbox).option # None
             /\ conns'[c].inbox # conns[c].inbox /\ ~Ended(c)
          => pending' # None \/ s # None

LEMMA EnqueueMoves ==
  ASSUME NEW c \in GoodConn, NEW d \in GoodConn, NEW e \in GoodEvent, NEW ended,
         Moved(c, d, ended), d.queue = c.queue \/ (d.state = "gone" /\ d.queue = <<>>)
  PROVE  Moved(c, Enqueue(d, e), ended) /\ Told(c, Enqueue(d, e), e.counts)
<1>1. /\ Enqueue(d, e).state = d.state /\ Enqueue(d, e).inbox = d.inbox /\ Enqueue(d, e).vote = d.vote
      /\ d.state # "open" => Enqueue(d, e) = d
      /\ d.state = "open" =>
            \/ Enqueue(d, e).queue = Append(d.queue, e)
            \/ Enqueue(d, e).queue = Append(Tail(d.queue), e) /\ Enqueue(d, e).overtaken /\ d.queue # <<>>
  BY EnqueueFacts
<1>2. Moved(c, Enqueue(d, e), ended)
  BY <1>1 DEF Moved
<1>3. Told(c, Enqueue(d, e), e.counts)
  BY <1>1 DEF Told
<1> QED
  BY <1>2, <1>3

\* A step of the server: every connection is moved and told, and the counts
\* sent or held back are those of the board after it, or those held back before.
LEMMA ServerEffect ==
  ASSUME Good, Served, Flush \/ \E b \in Bot : ServerStep(b)
  PROVE  /\ UNCHANGED <<scenarioVars, bots, faults>>
         /\ \A c \in Bot : conns'[c] \in GoodConn
         /\ \A c \in Bot : conns[c].overtaken => conns'[c].overtaken
         /\ \A c \in Bot : Moved(conns[c], conns'[c], Ended(c))
         /\ pending' \in {pending, None, BoardOf(conns')}
         /\ \E s \in {None, pending, BoardOf(conns')} :
               Passed(s) /\ \A c \in Bot : Told(conns[c], conns'[c], s)
<1>1. /\ \A c \in Bot : conns[c] \in GoodConn
      /\ Good' /\ Bot' = Bot /\ UNCHANGED <<scenarioVars, bots, faults>>
      /\ \A c \in Bot : conns[c].overtaken => conns'[c].overtaken
  BY BotsAre, ServerGood, ServerStepView DEF Bot
<1>2. DOMAIN conns = Bot /\ DOMAIN conns' = Bot /\ \A c \in Bot : conns'[c] \in GoodConn
  <2>1. conns' \in Seq(GoodConn') /\ Len(conns') = Len(bots') /\ GoodConn' = GoodConn
    BY <1>1, SameRequest DEF Good, ConnsGood, scenarioVars
  <2>2. Bot = 1 .. Len(bots) /\ DOMAIN conns = Bot /\ bots' = bots
    BY <1>1, BotsAre
  <2> QED
    BY <2>1, <2>2
<1>3. \A c \in Bot : Moved(conns[c], conns[c], Ended(c)) /\ Told(conns[c], conns[c], None)
  BY DEF Moved, Told
<1>4. CASE Flush
  <2>1. /\ pending \in Counts /\ pending' = None /\ Snapshot(pending) \in GoodEvent
        /\ \A c \in Bot : conns'[c] = Enqueue(conns[c], Snapshot(pending))
    BY <1>4, FlushView
  <2>2. Snapshot(pending).counts = pending /\ pending # None
    BY <1>4 DEF Snapshot, Flush
  <2>3. \A c \in Bot : Moved(conns[c], conns'[c], Ended(c)) /\ Told(conns[c], conns'[c], pending)
    BY <1>1, <1>3, <2>1, <2>2, EnqueueMoves
  <2>4. Passed(pending)
    BY <2>2 DEF Passed
  <2> QED
    BY <1>1, <1>2, <2>1, <2>3, <2>4
<1>5. ASSUME NEW b \in Bot, Accept(b)
      PROVE  /\ \A c \in Bot : Moved(conns[c], conns'[c], Ended(c)) /\ Told(conns[c], conns'[c], None)
             /\ pending' = pending /\ Passed(None)
  <2>1. conns[b].state = "backlog" /\ pending' = pending
        /\ conns' = [conns EXCEPT ![b] = [conns[b] EXCEPT !.state = "open"]]
    <3>1. ~(Cardinality({c \in Bot : conns[c].state = "open"}) >= MAX_CONNECTIONS)
      <4> DEFINE Open == {c \in Bot : conns[c].state = "open"}
      <4>1. IsFiniteSet(Bot) /\ Cardinality(Bot) \in Nat /\ Cardinality(Bot) <= MAX_CONNECTIONS
        BY BotsAre, FS_CardinalityType DEF Served, AllServed
      <4>2. Open \subseteq Bot \ {b}
        BY <1>5, AcceptFacts
      <4>3. IsFiniteSet(Bot \ {b}) /\ Cardinality(Bot \ {b}) = Cardinality(Bot) - 1
        BY <4>1, FS_RemoveElement
      <4>4. Cardinality(Open) <= Cardinality(Bot) - 1 /\ Cardinality(Open) \in Nat
        BY <4>2, <4>3, FS_Subset, FS_CardinalityType
      <4> QED
        BY <4>1, <4>4, DurationsAssumption
    <3> QED
      BY <1>5, <3>1, AcceptFacts
  <2>2. /\ conns'[b] = [conns[b] EXCEPT !.state = "open"]
        /\ \A c \in Bot \ {b} : conns'[c] = conns[c]
    BY <2>1, ConnView
  <2>3. /\ conns'[b].state = "open" /\ conns'[b].inbox = conns[b].inbox
        /\ conns'[b].vote = conns[b].vote /\ conns'[b].queue = conns[b].queue
    BY <1>1, <2>2 DEF GoodConn, ConnState
  <2>4. Moved(conns[b], conns'[b], Ended(b)) /\ Told(conns[b], conns'[b], None)
    BY <2>1, <2>3 DEF Moved, Told
  <2>5. \A c \in Bot : conns'[c].inbox = conns[c].inbox
    BY <2>2, <2>3
  <2> QED
    BY <1>3, <2>1, <2>2, <2>4, <2>5 DEF Passed
<1>6. ASSUME NEW b \in Bot, NEW d \in GoodConn, Announce([conns EXCEPT ![b] = d]),
             Moved(conns[b], d, Ended(b)),
             d.queue = conns[b].queue \/ (d.state = "gone" /\ d.queue = <<>>)
      PROVE  /\ \A c \in Bot : Moved(conns[c], conns'[c], Ended(c))
             /\ pending' \in {pending, BoardOf(conns')}
             /\ \E s \in {None, BoardOf(conns')} :
                   Passed(s) /\ \A c \in Bot : Told(conns[c], conns'[c], s)
  <2> DEFINE cs == [conns EXCEPT ![b] = d]
             board == BoardOf(cs)
  <2>1. /\ board \in Counts
        /\ \/ /\ conns'[b] = Enqueue(d, Snapshot(board)) /\ pending' = pending
              /\ \A c \in Bot \ {b} : conns'[c] = Enqueue(conns[c], Snapshot(board))
           \/ /\ conns'[b] = d /\ pending' = board
              /\ \A c \in Bot \ {b} : conns'[c] = conns[c]
    BY <1>6, AnnounceView
  <2>2. board # None /\ Snapshot(board) \in GoodEvent /\ Snapshot(board).counts = board
    <3>1. None \notin Counts
      <4>1. 0 .. MaxBots \subseteq Nat
        BY DurationsAssumption
      <4> QED
        BY <4>1, NoneAssumption DEF Counts
    <3> QED
      BY <2>1, <3>1, SnapshotGood DEF Snapshot
  <2>3. BoardOf(conns') = board
    <3>1. DOMAIN cs = Bot /\ cs[b] = d /\ \A c \in Bot \ {b} : cs[c] = conns[c]
      BY <1>2
    <3>2. Enqueue(d, Snapshot(board)).vote = d.vote
          /\ \A c \in Bot : Enqueue(conns[c], Snapshot(board)).vote = conns[c].vote
      BY <1>1, <1>6, <2>2, EnqueueFacts
    <3>3. \A c \in Bot : conns'[c].vote = cs[c].vote
      BY <2>1, <3>1, <3>2
    <3> HIDE DEF cs
    <3> QED
      BY <1>2, <3>1, <3>3 DEF BoardOf, Tally
  <2> HIDE DEF board
  <2>4. CASE /\ conns'[b] = Enqueue(d, Snapshot(board)) /\ pending' = pending
             /\ \A c \in Bot \ {b} : conns'[c] = Enqueue(conns[c], Snapshot(board))
    <3>1. \A c \in Bot : Moved(conns[c], conns'[c], Ended(c)) /\ Told(conns[c], conns'[c], board)
      BY <1>1, <1>3, <1>6, <2>2, <2>4, EnqueueMoves
    <3>2. Passed(board)
      BY <2>2 DEF Passed
    <3> QED
      BY <2>3, <2>4, <3>1, <3>2
  <2>5. CASE /\ conns'[b] = d /\ pending' = board
             /\ \A c \in Bot \ {b} : conns'[c] = conns[c]
    <3>1. \A c \in Bot : Moved(conns[c], conns'[c], Ended(c)) /\ Told(conns[c], conns'[c], None)
      BY <1>3, <1>6, <2>5 DEF Told
    <3>2. Passed(None)
      BY <2>2, <2>5 DEF Passed
    <3> QED
      BY <2>3, <2>5, <3>1, <3>2
  <2> QED
    BY <2>1, <2>4, <2>5
<1>7. ASSUME NEW b \in Bot, HandleLine(b)
      PROVE  /\ \A c \in Bot : Moved(conns[c], conns'[c], Ended(c))
             /\ pending' \in {pending, BoardOf(conns')}
             /\ \E s \in {None, BoardOf(conns')} :
                   Passed(s) /\ \A c \in Bot : Told(conns[c], conns'[c], s)
  <2>1. conns[b].state = "open" /\ conns[b].inbox # <<>>
    BY <1>7, HandleFacts
  <2>2. Heard(b) \in GoodConn /\ Voted(b) \in GoodConn
    BY <2>1, ServerFacts
  <2>3. /\ Heard(b).state = "open" /\ Heard(b).inbox = Tail(conns[b].inbox)
        /\ Heard(b).vote = conns[b].vote /\ Heard(b).queue = conns[b].queue
        /\ Voted(b).state = "open" /\ Voted(b).inbox = Tail(conns[b].inbox)
        /\ Voted(b).vote = Head(conns[b].inbox).option /\ Voted(b).queue = conns[b].queue
    BY <1>1, <2>1 DEF Heard, Voted, GoodConn, ConnState
  <2>4. CASE Head(conns[b].inbox).option # None
    <3>1. Moved(conns[b], Voted(b), Ended(b))
      BY <2>1, <2>3, <2>4 DEF Moved
    <3> QED
      BY <1>6, <1>7, <2>2, <2>3, <2>4, <3>1, HandleFacts
  <2>5. CASE Head(conns[b].inbox).option = None
    <3>1. /\ Chat(b) \in GoodEvent /\ conns'[b] = Enqueue(Heard(b), Chat(b))
          /\ \A c \in Bot \ {b} : conns'[c] = Enqueue(conns[c], Chat(b))
          /\ pending' = pending
      BY <1>7, <2>5, ChatView
    <3>2. Moved(conns[b], Heard(b), Ended(b)) /\ Chat(b).counts = None
      BY <2>1, <2>3, <2>5 DEF Moved, Chat
    <3>3. \A c \in Bot : Moved(conns[c], conns'[c], Ended(c)) /\ Told(conns[c], conns'[c], None)
      BY <1>1, <1>3, <2>2, <2>3, <3>1, <3>2, EnqueueMoves
    <3>4. \A c \in Bot \ {b} : conns'[c].inbox = conns[c].inbox
      BY <1>1, <3>1, EnqueueFacts
    <3>5. Passed(None)
      BY <2>5, <3>1, <3>4 DEF Passed
    <3> QED
      BY <3>1, <3>3, <3>5
  <2> QED
    BY <2>4, <2>5
<1>8. ASSUME NEW b \in Bot, Leave(b)
      PROVE  /\ \A c \in Bot : Moved(conns[c], conns'[c], Ended(c))
             /\ pending' \in {pending, BoardOf(conns')}
             /\ \E s \in {None, BoardOf(conns')} :
                   Passed(s) /\ \A c \in Bot : Told(conns[c], conns'[c], s)
  <2>1. conns[b].state = "open" /\ Ended(b) /\ Closed(b) \in GoodConn
    BY <1>8, LeaveFacts, ServerFacts
  <2>2. /\ Closed(b).state = "gone" /\ Closed(b).inbox = <<>> /\ Closed(b).queue = <<>>
        /\ Closed(b).vote = None
    BY <1>1 DEF Closed, GoodConn, ConnState
  <2>3. Moved(conns[b], Closed(b), Ended(b)) /\ Told(conns[b], Closed(b), None)
    BY <2>1, <2>2 DEF Moved, Told
  <2>4. CASE Announce([conns EXCEPT ![b] = Closed(b)])
    BY <1>6, <2>1, <2>2, <2>3, <2>4
  <2>5. CASE conns' = [conns EXCEPT ![b] = Closed(b)] /\ pending' = pending
    <3>1. conns'[b] = Closed(b) /\ \A c \in Bot \ {b} : conns'[c] = conns[c]
      BY <2>5, ConnView
    <3>2. Passed(None)
      BY <2>1, <2>5, <3>1 DEF Passed
    <3> QED
      BY <1>3, <2>3, <2>5, <3>1, <3>2
  <2> QED
    BY <1>8, <2>4, <2>5, LeaveFacts
<1> QED
  BY <1>1, <1>2, <1>4, <1>5, <1>7, <1>8 DEF ServerStep
------------------------------------------------------------------------------
(* Tracked is kept by every step. *)

\* Who is served after a step, and was there before it, was served before it.
LEMMA ServedBefore ==
  ASSUME Good, [Next]_vars, ~Spawn, Served'
  PROVE  Served /\ (stage' = "reported" => stage = "reported" \/ Report)
<1>1. Failed = {} /\ Cardinality(Bot) <= MAX_CONNECTIONS
  <2>1. Bot' = Bot /\ \A c \in Bot : Ended(c) => bots'[c].pc = bots[c].pc
    BY StepMonotone
  <2> QED
    BY <2>1 DEF Served, AllServed, Failed, Ended
<1>2. stage \in {"running", "reported"} /\ (stage' = "reported" => stage = "reported" \/ Report)
  <2>1. Tick \/ Flush \/ (\E b \in Bot : BotStep(b) /\ ~Arrive(b)) \/ (\E b \in Bot : Arrive(b))
           \/ (\E b \in Bot : ServerStep(b)) => UNCHANGED scenarioVars
    BY BotStepView, ServerStepView, ArriveFacts DEF Tick
  <2>2. ~Prepare /\ ~AssertFails
    BY DEF Prepare, AssertFails, Served
  <2> QED
    BY <2>1, <2>2 DEF Next, vars, scenarioVars, Served, Report, Joined
<1> QED
  BY <1>1, <1>2 DEF Served, AllServed

\* Later, with more gone wrong, it still holds.
LEMMA TrackedLater ==
  ASSUME NEW bot, NEW c, NEW f \in Nat, NEW g \in Nat, f <= g, Tracked(bot, c, f)
  PROVE  Tracked(bot, c, g)
BY DEF Tracked

LEMMA TrackedMoves ==
  ASSUME NEW bot, NEW c \in GoodConn, NEW d \in GoodConn, NEW f, Tracked(bot, c, f),
         Moved(c, d, bot.pc = "done")
  PROVE  Tracked(bot, d, f)
<1>1. CASE d.state = c.state /\ d.inbox = c.inbox /\ d.vote = c.vote
  BY <1>1 DEF Tracked
<1>2. CASE c.state = "backlog" /\ d.state = "open" /\ d.inbox = c.inbox /\ d.vote = c.vote
  BY <1>2 DEF Tracked
<1>3. CASE /\ c.state = "open" /\ d.state = "open"
           /\ c.inbox # <<>> /\ d.inbox = Tail(c.inbox)
           /\ d.vote = IF Head(c.inbox).option = None THEN c.vote ELSE Head(c.inbox).option
  <2>1. c.inbox \in Seq(Line)
    BY DEF GoodConn, ConnState
  <2>2. Head(c.inbox) = c.inbox[1] /\ 1 \in DOMAIN c.inbox
    BY <1>3, <2>1
  <2>3. \A i \in DOMAIN d.inbox : i + 1 \in DOMAIN c.inbox /\ d.inbox[i] = c.inbox[i + 1]
    BY <1>3, <2>1
  <2>4. IF d.inbox = <<>> THEN c.inbox[Len(c.inbox)] = c.inbox[1]
        ELSE d.inbox[Len(d.inbox)] = c.inbox[Len(c.inbox)]
    <3>1. CASE d.inbox = <<>>
      <4>1. Len(c.inbox) = 1
        <5>1. Len(Tail(c.inbox)) = Len(c.inbox) - 1 /\ Len(c.inbox) \in Nat
          BY <1>3, <2>1
        <5>2. Len(d.inbox) = 0
          BY <3>1
        <5> QED
          BY <1>3, <5>1, <5>2
      <4> QED
        BY <3>1, <4>1
    <3>2. CASE d.inbox # <<>>
      <4>1. Len(d.inbox) = Len(c.inbox) - 1 /\ Len(d.inbox) \in DOMAIN d.inbox
        BY <1>3, <2>1, <3>2
      <4>2. d.inbox[Len(d.inbox)] = c.inbox[Len(d.inbox) + 1] /\ Len(d.inbox) + 1 = Len(c.inbox)
        BY <1>3, <2>1, <2>3, <4>1
      <4> QED
        BY <3>2, <4>2
    <3> QED
      BY <3>1, <3>2
  <2>5. bot.kind \notin {"fickle", "quitter"} =>
           d.vote = None /\ \A i \in DOMAIN d.inbox : d.inbox[i].option = None
    BY <1>3, <2>2, <2>3 DEF Tracked
  <2>6. bot.kind = "fickle" => \A i \in DOMAIN d.inbox : d.inbox[i].option # None
    BY <2>3 DEF Tracked
  <2>7. bot.kind = "fickle" /\ bot.pc # "done" =>
           bot.vote = IF d.inbox = <<>> THEN d.vote ELSE d.inbox[Len(d.inbox)].option
    BY <1>3, <2>2, <2>4 DEF Tracked
  <2> QED
    BY <1>3, <2>5, <2>6, <2>7 DEF Tracked
<1>4. CASE c.state = "open" /\ bot.pc = "done" /\ d.state = "gone" /\ d.inbox = <<>> /\ d.vote = None
  <2>1. DOMAIN <<>> = {}
    OBVIOUS
  <2> QED
    BY <1>4, <2>1 DEF Tracked
<1> QED
  BY <1>1, <1>2, <1>3, <1>4 DEF Moved

LEMMA TrackedServer ==
  ASSUME Good, Served, AllTracked, Flush \/ \E b \in Bot : ServerStep(b)
  PROVE  \A c \in Bot : Tracked(bots'[c], conns'[c], faults')
<1>1. /\ UNCHANGED <<bots, faults>>
      /\ \A c \in Bot : conns'[c] \in GoodConn /\ Moved(conns[c], conns'[c], Ended(c))
  BY ServerEffect
<1>2. \A c \in Bot : conns[c] \in GoodConn /\ Tracked(bots[c], conns[c], faults)
  BY BotsAre DEF AllTracked
<1>3. \A c \in Bot : Moved(conns[c], conns'[c], bots[c].pc = "done")
  BY <1>1 DEF Served, AllServed, Failed, Ended, Moved
<1> QED
  BY <1>1, <1>2, <1>3, TrackedMoves

LEMMA TrackedTick ==
  ASSUME Good, Served, AllTracked, Tick
  PROVE  \A c \in Bot : Tracked(bots'[c], conns'[c], faults')
<1> SUFFICES ASSUME NEW c \in Bot PROVE Tracked(bots'[c], conns'[c], faults')
  OBVIOUS
<1>1. /\ bots[c] \in GoodBot /\ Tracked(bots[c], conns[c], faults) /\ faults \in Nat
      /\ bots'[c] = Ticked(bots[c]) /\ conns' = conns /\ faults' \in {faults, faults + 1}
  <2>1. bots'[c] = Ticked(bots[c]) /\ conns' = conns /\ (faults' = faults \/ faults' = faults + 1)
    BY TickFacts
  <2> QED
    BY <2>1, BotsAre DEF AllTracked, Good, RestGood
<1>2. /\ bots'[c].kind = bots[c].kind /\ bots'[c].pc = bots[c].pc /\ bots'[c].vote = bots[c].vote
      /\ bots'[c].left = bots[c].left
      /\ bots[c].timer \in Nat /\ (bots'[c].timer > 0 => bots'[c].timer = bots[c].timer - 1)
  BY <1>1 DEF Ticked, GoodBot, BotState
<1>3. bots[c].kind = "quitter" => ~(bots'[c].timer > 0)
  BY <1>1, <1>2 DEF Tracked
<1> QED
  BY <1>1, <1>2, <1>3 DEF Tracked

LEMMA TrackedSpawn ==
  ASSUME Good, Spawn
  PROVE  \A c \in Bot' : Tracked(bots'[c], conns'[c], faults')
<1>1. PICK n, kind :
            /\ n \in 0 .. MaxBots
            /\ bots' = [b \in 1 .. n |-> NewBot(kind[b], request.msgs)]
            /\ conns' = [b \in 1 .. n |-> NewConn]
            /\ request' = request
  BY SpawnFacts
<1>2. DOMAIN <<>> = {}
  OBVIOUS
<1>3. Bot' = 1 .. n
  BY <1>1 DEF Bot
<1>4. ASSUME NEW c \in 1 .. n PROVE Tracked(bots'[c], conns'[c], faults')
  <2>1. PICK k : bots'[c] = NewBot(k, request.msgs) /\ conns'[c] = NewConn
    BY <1>1
  <2>2. /\ bots'[c].kind = k /\ bots'[c].pc = (IF k \in BotType THEN "connect" ELSE "done")
        /\ bots'[c].left = request.msgs /\ bots'[c].timer = 0 /\ bots'[c].vote = None
        /\ conns'[c].state = "none" /\ conns'[c].inbox = <<>> /\ conns'[c].vote = None
    BY <2>1 DEF NewBot, NewConn
  <2> QED
    BY <1>2, <2>2 DEF Tracked, BotType
<1> QED
  BY <1>3, <1>4

\* A bot sends a line; as long as it is not cut off, the line arrives.
Delivered(b, o, r) ==
    /\ conns[b].state # "gone" /\ bots'[b] = r /\ conns'[b] = Sent(b, o)
    /\ Bot' = Bot /\ \A c \in Bot \ {b} : bots'[c] = bots[c] /\ conns'[c] = conns[c]
    /\ conns'[b].state = conns[b].state /\ conns'[b].vote = conns[b].vote
    /\ conns'[b].queue = conns[b].queue /\ conns'[b].overtaken = conns[b].overtaken
    /\ conns'[b].inbox = Append(conns[b].inbox, [option |-> o])
    /\ conns'[b].inbox # <<>> /\ conns'[b].inbox[Len(conns'[b].inbox)].option = o
    /\ \A i \in DOMAIN conns'[b].inbox :
          \/ i \in DOMAIN conns[b].inbox /\ conns'[b].inbox[i] = conns[b].inbox[i]
          \/ conns'[b].inbox[i].option = o

LEMMA SentFacts ==
  ASSUME Good, NEW b \in Bot, NEW o, NEW r, Send(b, o, r), Tracked(bots[b], conns[b], faults),
         bots[b].pc # "done"
  PROVE  Delivered(b, o, r)
<1>1. conns[b].state # "gone"
  BY DEF Tracked
<1>2. Go(b, r) /\ conns' = [conns EXCEPT ![b] = Sent(b, o)]
  BY <1>1 DEF Send, Sent
<1>3. /\ bots'[b] = r /\ conns'[b] = Sent(b, o)
      /\ Bot' = Bot /\ \A c \in Bot \ {b} : bots'[c] = bots[c] /\ conns'[c] = conns[c]
  BY <1>2, GoView, ConnView
<1>4. conns[b] \in GoodConn
  BY BotsAre
<1>5. /\ conns'[b].state = conns[b].state /\ conns'[b].vote = conns[b].vote
      /\ conns'[b].queue = conns[b].queue /\ conns'[b].overtaken = conns[b].overtaken
      /\ conns'[b].inbox = Append(conns[b].inbox, [option |-> o])
  BY <1>3, <1>4 DEF Sent, GoodConn, ConnState
<1>6. conns[b].inbox \in Seq(Line)
  BY <1>4 DEF GoodConn, ConnState
<1>7. /\ Append(conns[b].inbox, [option |-> o]) # <<>>
      /\ Len(Append(conns[b].inbox, [option |-> o])) = Len(conns[b].inbox) + 1
      /\ Len(conns[b].inbox) \in Nat
      /\ Append(conns[b].inbox, [option |-> o])[Len(conns[b].inbox) + 1] = [option |-> o]
  BY <1>6
<1>8. \A i \in DOMAIN Append(conns[b].inbox, [option |-> o]) :
               \/ i \in DOMAIN conns[b].inbox /\ Append(conns[b].inbox, [option |-> o])[i] = conns[b].inbox[i]
               \/ Append(conns[b].inbox, [option |-> o])[i] = [option |-> o]
  BY <1>6
<1> QED
  BY <1>1, <1>3, <1>5, <1>7, <1>8 DEF Delivered

LEMMA TrackedBot ==
  ASSUME Good, Served, AllTracked, Served', NEW b \in Bot, BotStep(b), ~Arrive(b)
  PROVE  \A c \in Bot : Tracked(bots'[c], conns'[c], faults')
<1>1. /\ bots[b] \in GoodBot /\ conns[b] \in GoodConn /\ Tracked(bots[b], conns[b], faults)
      /\ request.msgs \in Nat /\ faults \in Nat /\ faults' \in Nat
  BY BotsAre, RequestType, BotGood DEF AllTracked, Good, RestGood
<1>2. /\ ~Ended(b) /\ Bot' = Bot /\ faults <= faults' /\ request' = request
      /\ \A c \in Bot \ {b} : bots'[c] = bots[c] /\ conns'[c] = conns[c]
      /\ bots'[b].kind = bots[b].kind
  BY BotStepView DEF scenarioVars
<1>3. ASSUME Tracked(bots'[b], conns'[b], faults')
      PROVE  \A c \in Bot : Tracked(bots'[c], conns'[c], faults')
  <2>1. \A c \in Bot \ {b} : Tracked(bots[c], conns[c], faults') 
    BY <1>1, <1>2, TrackedLater DEF AllTracked
  <2> QED
    BY <1>2, <1>3, <2>1
<1> SUFFICES Tracked(bots'[b], conns'[b], faults')
  BY <1>3
<1>4. ASSUME NEW r, Go(b, r) PROVE bots'[b] = r /\ r.pc # "failed"
  <2>1. bots'[b] = r
    BY <1>4, GoView
  <2>2. bots'[b].pc # "failed"
    BY <1>2 DEF Served, AllServed, Failed
  <2> QED
    BY <2>1, <2>2
<1>5. ASSUME NEW d, conns' = [conns EXCEPT ![b] = d] PROVE conns'[b] = d
  BY <1>5, ConnView
<1>6. bots[b].pc # "done"
  BY <1>2 DEF Ended
\* the connection stays and the bot keeps its vote
<1>7. ASSUME conns'[b].state = conns[b].state, conns'[b].inbox = conns[b].inbox,
             conns'[b].vote = conns[b].vote, bots'[b].vote = bots[b].vote,
             bots[b].pc # "connect", bots'[b].pc # "connect",
             bots'[b].kind = "quitter" => FALSE,
             bots'[b].kind = "fickle" =>
                /\ bots'[b].pc \in {"send", "barrier", "settle", "revote", "propagate", "done"}
                /\ bots'[b].pc = "send" => bots'[b].left = bots[b].left
                /\ bots[b].pc = "send" => bots'[b].pc = "send"
      PROVE  Tracked(bots'[b], conns'[b], faults')
  <2>1. conns'[b].state \notin {"gone", "none"}
    BY <1>1, <1>6, <1>7 DEF Tracked
  <2>2. bots'[b].kind = "fickle" => \/ bots'[b].vote # None
                                    \/ bots'[b].pc \in {"connect", "send"} /\ bots'[b].left = request.msgs
                                    \/ request.msgs = 0
    BY <1>1, <1>2, <1>7 DEF Tracked
  <2>3. bots'[b].kind = "fickle" =>
           /\ \A i \in DOMAIN conns'[b].inbox : conns'[b].inbox[i].option # None
           /\ bots'[b].vote = IF conns'[b].inbox = <<>> THEN conns'[b].vote
                              ELSE conns'[b].inbox[Len(conns'[b].inbox)].option
    BY <1>1, <1>2, <1>6, <1>7 DEF Tracked
  <2> QED
    BY <1>1, <1>2, <1>7, <2>1, <2>2, <2>3 DEF Tracked
<1>8. CASE Connect(b)
  <2>1. bots[b].pc = "connect" /\ bots[b].timer = 0
    BY <1>8 DEF Connect, Due
  <2>2. PICK pc : /\ pc = IF bots[b].kind = "ghost" THEN "hold" ELSE "send"
                  /\ \/ /\ \/ Go(b, [bots[b] EXCEPT !.pc = "hold", !.timer = HOLD]) /\ pc = "hold"
                           \/ Go(b, [bots[b] EXCEPT !.pc = "send"]) /\ pc = "send"
                        /\ conns' = [conns EXCEPT ![b] = [conns[b] EXCEPT !.state = "backlog"]]
                     \/ /\ \/ Go(b, [bots[b] EXCEPT !.tries = @ + 1, !.timer = 1])
                           \/ Go(b, FailedBot(b))
                        /\ conns' = conns /\ faults' = faults + 1
    BY <1>8 DEF Connect, FailedBot
  <2>3. CASE /\ \/ Go(b, [bots[b] EXCEPT !.pc = "hold", !.timer = HOLD]) /\ pc = "hold"
                \/ Go(b, [bots[b] EXCEPT !.pc = "send"]) /\ pc = "send"
             /\ conns' = [conns EXCEPT ![b] = [conns[b] EXCEPT !.state = "backlog"]]
    <3>1. \/ bots'[b] = [bots[b] EXCEPT !.pc = "hold", !.timer = HOLD] /\ pc = "hold"
          \/ bots'[b] = [bots[b] EXCEPT !.pc = "send"] /\ pc = "send"
      BY <1>4, <2>3
    <3>2. /\ bots'[b].pc = pc /\ bots'[b].kind = bots[b].kind /\ bots'[b].left = bots[b].left
          /\ bots'[b].vote = bots[b].vote /\ (pc = "send" => bots'[b].timer = 0)
      BY <1>1, <2>1, <3>1 DEF GoodBot, BotState
    <3>3. conns'[b] = [conns[b] EXCEPT !.state = "backlog"]
      BY <1>5, <2>3
    <3>4. /\ conns'[b].state = "backlog" /\ conns'[b].inbox = conns[b].inbox
          /\ conns'[b].vote = conns[b].vote
      BY <1>1, <3>3 DEF GoodConn, ConnState
    <3>5. conns[b].vote = None
      BY <1>1, <2>1 DEF Tracked
    <3> QED
      BY <1>1, <1>2, <2>1, <2>2, <3>2, <3>4, <3>5 DEF Tracked
  <2>4. CASE Go(b, [bots[b] EXCEPT !.tries = @ + 1, !.timer = 1]) /\ conns' = conns /\ faults' = faults + 1
    <3>1. bots'[b] = [bots[b] EXCEPT !.tries = @ + 1, !.timer = 1]
      BY <1>4, <2>4
    <3>2. /\ bots'[b].pc = "connect" /\ bots'[b].kind = bots[b].kind /\ bots'[b].left = bots[b].left
          /\ bots'[b].vote = bots[b].vote /\ bots'[b].timer = 1
      BY <1>1, <2>1, <3>1 DEF GoodBot, BotState
    <3>3. faults' > 0
      BY <1>1, <2>4
    <3> QED
      BY <1>1, <1>2, <2>1, <2>4, <3>2, <3>3 DEF Tracked
  <2>5. CASE Go(b, FailedBot(b))
    <3>1. FailedBot(b).pc = "failed"
      BY <1>1 DEF FailedBot, GoodBot, BotState
    <3> QED
      BY <1>4, <2>5, <3>1
  <2> QED
    BY <2>2, <2>3, <2>4, <2>5
<1>9. CASE SendVote(b)
  <2> DEFINE r(o) == [bots[b] EXCEPT !.vote = o, !.left = @ - 1, !.timer = VOTE_INTERVAL]
  <2>1. PICK o \in Option : Send(b, o, r(o))
    BY <1>9 DEF SendVote
  <2>2. bots[b].pc = "send" /\ bots[b].kind = "fickle" /\ faults' = faults /\ o # None
    BY <1>9, NoneAssumption DEF SendVote, Due, Fickle
  <2>3. r(o).pc = "send" /\ r(o).kind = "fickle" /\ r(o).vote = o
    BY <1>1, <2>2 DEF GoodBot, BotState
  <2> HIDE DEF r
  <2>4. /\ bots'[b] = r(o) /\ conns[b].state # "gone"
        /\ conns'[b].state = conns[b].state /\ conns'[b].vote = conns[b].vote
        /\ conns'[b].inbox # <<>> /\ conns'[b].inbox[Len(conns'[b].inbox)].option = o
        /\ \A i \in DOMAIN conns'[b].inbox :
               \/ i \in DOMAIN conns[b].inbox /\ conns'[b].inbox[i] = conns[b].inbox[i]
               \/ conns'[b].inbox[i].option = o
    <3>1. Delivered(b, o, r(o))
      BY <1>1, <1>6, <2>1, SentFacts
    <3> QED
      BY <3>1 DEF Delivered
  <2>5. \A i \in DOMAIN conns'[b].inbox : conns'[b].inbox[i].option # None
    BY <1>1, <2>2, <2>4 DEF Tracked
  <2> QED
    BY <1>1, <2>2, <2>3, <2>4, <2>5 DEF Tracked
<1>10. CASE Quit(b)
  <2>1. PICK o \in Option : Send(b, o, Done(bots[b]))
    BY <1>10 DEF Quit
  <2>2. bots[b].pc = "send" /\ bots[b].kind = "quitter" /\ faults' = faults
    BY <1>10 DEF Quit, Due
  <2>3. Done(bots[b]).pc = "done" /\ Done(bots[b]).kind = "quitter" /\ Done(bots[b]).timer = 0
    BY <1>1, <2>2 DEF GoodBot, BotState, Done
  <2>4. /\ bots'[b] = Done(bots[b])
        /\ conns'[b].state = conns[b].state /\ conns'[b].vote = conns[b].vote
    <3>1. Delivered(b, o, Done(bots[b]))
      BY <1>1, <1>6, <2>1, SentFacts
    <3> QED
      BY <3>1 DEF Delivered
  <2> QED
    BY <1>1, <2>2, <2>3, <2>4 DEF Tracked
<1>11. CASE SendChat(b) \/ SendSpam(b)
  <2> DEFINE r == [bots[b] EXCEPT !.left = @ - 1]
  <2>1. bots[b].pc = "send" /\ bots[b].kind \in Chatters /\ Send(b, None, r) /\ faults' = faults
    BY <1>11 DEF SendChat, SendSpam, SendLine, Due, Chatters
  <2>2. r.pc = "send" /\ r.kind = bots[b].kind
    BY <1>1, <2>1 DEF GoodBot, BotState
  <2> HIDE DEF r
  <2>3. /\ bots'[b] = r /\ conns[b].state # "gone"
        /\ conns'[b].state = conns[b].state /\ conns'[b].vote = conns[b].vote
        /\ \A i \in DOMAIN conns'[b].inbox :
               \/ i \in DOMAIN conns[b].inbox /\ conns'[b].inbox[i] = conns[b].inbox[i]
               \/ conns'[b].inbox[i].option = None
    <3>1. Delivered(b, None, r)
      BY <1>1, <1>6, <2>1, SentFacts
    <3> QED
      BY <3>1 DEF Delivered
  <2>4. \A i \in DOMAIN conns'[b].inbox : conns'[b].inbox[i].option = None
    BY <1>1, <2>1, <2>3 DEF Tracked, Chatters
  <2> QED
    BY <1>1, <2>1, <2>2, <2>3, <2>4 DEF Tracked, Chatters
<1>12. CASE StartReceiving(b)
  <2>1. bots[b].kind \in Chatters /\ bots[b].pc = "send" /\ conns' = conns
    BY <1>12 DEF StartReceiving, Due, serverVars
  <2> DEFINE r == [bots[b] EXCEPT !.pc = "recv", !.timer = RECV_TIMEOUT]
  <2>2. bots'[b] = r
    BY <1>4, <1>12 DEF StartReceiving
  <2>3. r.vote = bots[b].vote /\ r.pc = "recv"
    BY <1>1 DEF GoodBot, BotState
  <2> HIDE DEF r
  <2> QED
    BY <1>1, <1>2, <1>7, <2>1, <2>2, <2>3 DEF Chatters
<1>13. CASE Receive(b)
  <2> DEFINE bot == [bots[b] EXCEPT !.received = @ + 1]
  <2>1. /\ bot.vote = bots[b].vote /\ Done(bot).vote = bots[b].vote
        /\ bot.pc = bots[b].pc /\ Done(bot).pc = "done"
    BY <1>1 DEF Done, GoodBot, BotState
  <2>2. UNCHANGED bots \/ Go(b, bot) \/ Go(b, Done(bot))
    BY <1>13 DEF Receive
  <2>3. conns' = [conns EXCEPT ![b] = Took(b)] /\ bots[b].pc = "recv"
    BY <1>13 DEF Receive, Took
  <2> HIDE DEF bot
  <2>4. bots'[b].vote = bots[b].vote /\ bots'[b].pc # "connect"
    BY <1>4, <2>1, <2>2, <2>3
  <2>5. conns'[b] = Took(b)
    BY <1>5, <2>3
  <2>6. /\ conns'[b].state = conns[b].state /\ conns'[b].inbox = conns[b].inbox
        /\ conns'[b].vote = conns[b].vote
    BY <1>1, <2>5 DEF Took, GoodConn, ConnState
  <2>7. bots[b].kind \in Chatters
    BY <1>1, <2>3 DEF GoodBot, Placed
  <2> QED
    BY <1>2, <1>7, <2>3, <2>4, <2>6, <2>7 DEF Chatters
<1>14. CASE StopReceiving(b) \/ Release(b) \/ Finish(b)
  <2>1. Go(b, Done(bots[b])) /\ bots[b].pc \in {"recv", "hold", "propagate"} /\ conns' = conns
    BY <1>14 DEF StopReceiving, Release, Finish, EndAt, Due, serverVars
  <2>2. bots'[b] = Done(bots[b])
    BY <1>4, <2>1
  <2>3. bots'[b].vote = bots[b].vote /\ bots'[b].pc = "done"
    BY <1>1, <2>2 DEF GoodBot, BotState, Done
  <2>4. bots'[b].kind # "quitter"
    BY <1>1, <1>2, <2>1 DEF Tracked
  <2> QED
    BY <1>7, <2>1, <2>3, <2>4
<1>15. CASE Hear(b)
  <2> DEFINE bot == [bots[b] EXCEPT !.snap = Head(conns[b].queue).counts]
  <2>1. bot.vote = bots[b].vote /\ bot.pc = bots[b].pc /\ bot.left = bots[b].left /\ bot.kind = bots[b].kind
        /\ bot.timer = bots[b].timer
    BY <1>1 DEF GoodBot, BotState
  <2>2. UNCHANGED bots \/ Go(b, bot)
    BY <1>15 DEF Hear
  <2>3. conns' = [conns EXCEPT ![b] = Took(b)]
    BY <1>15 DEF Hear, Took
  <2> HIDE DEF bot
  <2>4. bots'[b] = bots[b] \/ bots'[b] = bot
    BY <1>4, <2>2
  <2>5. conns'[b] = Took(b)
    BY <1>5, <2>3
  <2>6. /\ conns'[b].state = conns[b].state /\ conns'[b].inbox = conns[b].inbox
        /\ conns'[b].vote = conns[b].vote
    BY <1>1, <2>5 DEF Took, GoodConn, ConnState
  <2>7. Tracked(bots[b], conns[b], faults')
    BY <1>1, <1>2, TrackedLater
  <2> QED
    BY <1>2, <2>1, <2>4, <2>6, <2>7 DEF Tracked
<1>16. CASE Settled(b) \/ AwaitPropagation(b)
  <2>1. /\ bots[b].pc \in {"settle", "revote"} /\ conns' = conns
        /\ \/ Go(b, [bots[b] EXCEPT !.pc = "revote", !.left = IF bots[b].vote = None THEN 0 ELSE ROUNDS])
           \/ Go(b, [bots[b] EXCEPT !.pc = "revote", !.timer = ROUNDS * ROUND])
           \/ Go(b, [bots[b] EXCEPT !.pc = "propagate", !.timer = PROPAGATION])
    BY <1>16 DEF Settled, AwaitPropagation, Due, serverVars
  <2>2. \/ bots'[b] = [bots[b] EXCEPT !.pc = "revote", !.left = IF bots[b].vote = None THEN 0 ELSE ROUNDS]
        \/ bots'[b] = [bots[b] EXCEPT !.pc = "revote", !.timer = ROUNDS * ROUND]
        \/ bots'[b] = [bots[b] EXCEPT !.pc = "propagate", !.timer = PROPAGATION]
    BY <1>4, <2>1
  <2>3. bots'[b].vote = bots[b].vote /\ bots'[b].pc \in {"revote", "propagate"}
    BY <1>1, <2>2 DEF GoodBot, BotState
  <2>4. bots[b].kind = "fickle"
    BY <1>1, <2>1 DEF GoodBot, Placed
  <2> QED
    BY <1>2, <1>7, <2>1, <2>3, <2>4
<1>17. CASE Revote(b)
  <2> DEFINE r == [bots[b] EXCEPT !.left = @ - 1, !.timer = ROUND]
  <2>1. Send(b, bots[b].vote, r) /\ bots[b].pc = "revote" /\ bots[b].left > 0 /\ faults' = faults
    BY <1>17 DEF Revote, Due
  <2>2. bots[b].kind = "fickle" /\ bots[b].vote # None
    BY <1>1, <2>1 DEF GoodBot, Placed
  <2>3. r.pc = "revote" /\ r.kind = "fickle" /\ r.vote = bots[b].vote
    BY <1>1, <2>1, <2>2 DEF GoodBot, BotState
  <2> HIDE DEF r
  <2>4. /\ bots'[b] = r /\ conns[b].state # "gone"
        /\ conns'[b].state = conns[b].state /\ conns'[b].vote = conns[b].vote
        /\ conns'[b].inbox # <<>> /\ conns'[b].inbox[Len(conns'[b].inbox)].option = bots[b].vote
        /\ \A i \in DOMAIN conns'[b].inbox :
               \/ i \in DOMAIN conns[b].inbox /\ conns'[b].inbox[i] = conns[b].inbox[i]
               \/ conns'[b].inbox[i].option = bots[b].vote
    <3>1. Delivered(b, bots[b].vote, r)
      BY <1>1, <1>6, <2>1, SentFacts
    <3> QED
      BY <3>1 DEF Delivered
  <2>5. \A i \in DOMAIN conns'[b].inbox : conns'[b].inbox[i].option # None
    BY <1>1, <2>2, <2>4 DEF Tracked
  <2> QED
    BY <1>1, <2>1, <2>2, <2>3, <2>4, <2>5 DEF Tracked
<1> QED
  BY <1>8, <1>9, <1>10, <1>11, <1>12, <1>13, <1>14, <1>15, <1>16, <1>17 DEF BotStep

\* At the barrier a bot changes its place, its timer and its leadership.
LEMMA TrackedArrive ==
  ASSUME Good, Served, AllTracked, NEW b \in Bot, Arrive(b)
  PROVE  \A c \in Bot : Tracked(bots'[c], conns'[c], faults')
<1>1. /\ b \in Fickle /\ bots[b].pc = "send" /\ bots[b].left = 0
      /\ conns' = conns /\ faults' = faults /\ request' = request
  BY ArriveFacts DEF serverVars, scenarioVars
<1>2. \A c \in Bot : bots[c] \in GoodBot /\ Tracked(bots[c], conns[c], faults)
  BY BotsAre DEF AllTracked
<1>3. ASSUME NEW c \in Fickle, NEW r, c = b \/ bots[c].pc = "barrier",
             r.kind = bots[c].kind, r.vote = bots[c].vote, r.pc \in {"barrier", "settle"}
      PROVE  Tracked(r, conns[c], faults)
  <2>1. /\ c \in Bot /\ r.kind = "fickle" /\ bots[c].pc \in {"send", "barrier"}
        /\ bots[c].pc = "send" => bots[c].left = 0
    BY <1>1, <1>3 DEF Fickle
  <2> QED
    BY <1>2, <1>3, <2>1 DEF Tracked
<1>4. CASE Go(b, [bots[b] EXCEPT !.pc = "barrier"])
  <2> DEFINE r == [bots[b] EXCEPT !.pc = "barrier"]
  <2>1. r.kind = bots[b].kind /\ r.vote = bots[b].vote /\ r.pc = "barrier"
    BY <1>2 DEF GoodBot, BotState
  <2>2. Go(b, r)
    BY <1>4
  <2> HIDE DEF r
  <2>3. bots'[b] = r /\ \A c \in Bot \ {b} : bots'[c] = bots[c]
    BY <2>2, GoView
  <2>4. Tracked(r, conns[b], faults)
    BY <1>1, <1>3, <2>1
  <2> QED
    BY <1>1, <1>2, <2>3, <2>4
<1>5. CASE /\ AtBarrier \cup {b} = Fickle
           /\ bots' = [c \in Bot |-> IF c \in Fickle
                                     THEN [bots[c] EXCEPT !.pc = "settle", !.timer = SETTLE,
                                                          !.leader = (c = b)]
                                     ELSE bots[c]]
  <2> DEFINE R(c) == [bots[c] EXCEPT !.pc = "settle", !.timer = SETTLE, !.leader = (c = b)]
  <2>1. \A c \in Bot : R(c).kind = bots[c].kind /\ R(c).vote = bots[c].vote /\ R(c).pc = "settle"
    BY <1>2 DEF GoodBot, BotState
  <2>2. \A c \in Bot : bots'[c] = IF c \in Fickle THEN R(c) ELSE bots[c]
    BY <1>5
  <2> HIDE DEF R
  <2>3. \A c \in Fickle : c \in Bot /\ (c = b \/ bots[c].pc = "barrier")
    BY <1>5 DEF AtBarrier, Fickle
  <2>4. \A c \in Fickle : Tracked(R(c), conns[c], faults)
    BY <1>3, <2>1, <2>3
  <2> QED
    BY <1>1, <1>2, <2>2, <2>4
<1> QED
  BY <1>4, <1>5, ArriveFacts

LEMMA TrackedStep == Good /\ AllTracked /\ [Next]_vars => AllTracked'
<1> SUFFICES ASSUME Good, AllTracked, [Next]_vars, Served'
             PROVE  (\A b \in Bot : Tracked(bots[b], conns[b], faults))'
  BY DEF AllTracked
<1>1. CASE Spawn
  <2>1. request' = request
    BY <1>1 DEF Spawn
  <2>2. \A b \in Bot' : Tracked(bots'[b], conns'[b], faults')
    BY <1>1, TrackedSpawn
  <2> QED
    BY <2>1, <2>2 DEF Tracked
<1>2. CASE ~Spawn
  <2>1. Served /\ Bot' = Bot /\ request' = request
    BY <1>2, ServedBefore, StepMonotone
  <2>2. \A c \in Bot : Tracked(bots'[c], conns'[c], faults')
    <3>1. CASE Prepare \/ AssertFails \/ Report \/ UNCHANGED vars
      <4>1. bots' = bots /\ conns' = conns /\ faults' = faults
        BY <3>1 DEF Prepare, AssertFails, Report, vars, serverVars
      <4> QED
        BY <2>1, <4>1 DEF AllTracked
    <3>2. CASE Tick
      BY <2>1, <3>2, TrackedTick
    <3>3. CASE Flush \/ \E b \in Bot : ServerStep(b)
      BY <2>1, <3>3, TrackedServer
    <3>4. CASE \E b \in Bot : BotStep(b) /\ ~Arrive(b)
      BY <2>1, <3>4, TrackedBot
    <3>5. CASE \E b \in Bot : Arrive(b)
      BY <2>1, <3>5, TrackedArrive
    <3> QED
      BY <1>2, <3>1, <3>2, <3>3, <3>4, <3>5 DEF Next
  <2> QED
    BY <2>1, <2>2 DEF Tracked
<1> QED
  BY <1>1, <1>2
------------------------------------------------------------------------------
(* After the barrier. *)

Late == {"settle", "revote", "propagate"}
Through == /\ Served /\ request.msgs > 0 /\ Fickle # {}
           /\ \A b \in Fickle : bots[b].pc \in Late \cup {"done"}
Listening == Through /\ \A b \in Fickle : bots[b].pc # "done"

\* The time from here to the end of a bot that has passed the barrier.
Remaining(bot) ==
    bot.timer + (IF bot.pc = "settle" THEN ROUNDS * ROUND + PROPAGATION
                 ELSE IF bot.pc = "revote" THEN bot.left * ROUND + PROPAGATION ELSE 0)
WholeWait == SETTLE + (ROUNDS * ROUND + PROPAGATION)

ToRevote(bot) == bot.leader /\ (bot.pc = "settle" \/ (bot.pc = "revote" /\ bot.left > 0))

\* What a fickle bot does then: it hears something, or waits for something
\* else, or votes again.
HearsLate(b) ==
    /\ conns[b].queue # <<>> /\ conns'[b] = Took(b)
    /\ bots'[b].pc = bots[b].pc
    /\ bots'[b].snap = IF Head(conns[b].queue).counts = None THEN bots[b].snap
                       ELSE Head(conns[b].queue).counts
    /\ ToRevote(bots'[b]) = ToRevote(bots[b]) /\ Remaining(bots'[b]) = Remaining(bots[b])
WaitsLate(b) ==
    /\ conns' = conns /\ bots'[b].snap = bots[b].snap
    /\ IF bots'[b].pc = "done" THEN bots[b].pc = "propagate" /\ bots[b].timer = 0
       ELSE /\ ToRevote(bots'[b]) = ToRevote(bots[b])
            /\ Remaining(bots'[b]) = Remaining(bots[b])
RevotesLate(b) ==
    /\ Delivered(b, bots[b].vote, bots'[b])
    /\ bots'[b].pc = "revote" /\ bots'[b].snap = bots[b].snap /\ bots'[b].leader = bots[b].leader
    /\ bots[b].pc = "revote" /\ bots[b].left > 0 /\ bots'[b].left = bots[b].left - 1
    /\ Remaining(bots'[b]) = Remaining(bots[b])
    /\ Remaining(bots'[b]) >= ROUND + PROPAGATION
    /\ ToRevote(bots[b]) /\ ~ToRevote(bots'[b]) => Remaining(bots[b]) = ROUND + PROPAGATION

LEMMA RemainingType ==
  ASSUME NEW bot \in GoodBot
  PROVE  Remaining(bot) \in Nat /\ WholeWait \in Nat /\ ROUNDS * ROUND \in Nat
<1>1. bot.timer \in Nat /\ bot.left \in Nat
  BY DEF GoodBot, BotState
<1>2. ROUNDS * ROUND \in Nat /\ bot.left * ROUND \in Nat
  BY <1>1, DurationTypes
<1> QED
  BY <1>1, <1>2, DurationTypes DEF Remaining, WholeWait

LEMMA LateStep ==
  ASSUME Good, Served, AllTracked, Served', request.msgs > 0,
         NEW b \in Fickle, bots[b].pc \in Late, BotStep(b)
  PROVE  /\ bots'[b].pc \in Late \cup {"done"} /\ bots'[b].vote = bots[b].vote /\ faults' = faults
         /\ HearsLate(b) \/ WaitsLate(b) \/ RevotesLate(b)
<1>1. /\ b \in Bot /\ bots[b] \in GoodBot /\ conns[b] \in GoodConn
      /\ bots[b].kind = "fickle" /\ bots[b].vote # None /\ Tracked(bots[b], conns[b], faults)
      /\ bots[b].pc \in {"settle", "revote", "propagate"}
  <2>1. b \in Bot /\ bots[b].kind = "fickle"
    BY DEF Fickle
  <2>2. Tracked(bots[b], conns[b], faults)
    BY <2>1 DEF AllTracked
  <2>3. bots[b].vote # None
    BY <2>1, <2>2, RequestType DEF Tracked, Late, Good, RestGood
  <2> QED
    BY <2>1, <2>2, <2>3, BotsAre DEF Late
<1>2. ~Arrive(b)
  BY <1>1 DEF Arrive, Due
<1>3. ASSUME NEW r, Go(b, r) PROVE bots'[b] = r
  BY <1>1, <1>3, GoView
<1>4. /\ bots[b].timer \in Nat /\ bots[b].left \in Nat /\ bots[b].leader \in BOOLEAN
      /\ bots[b].pc = "settle" => bots[b].left = 0
      /\ DOMAIN bots[b] = Fields
  BY <1>1 DEF GoodBot, BotState, Placed, Fields
<1>5. CASE Hear(b)
  <2> DEFINE bot == [bots[b] EXCEPT !.snap = Head(conns[b].queue).counts]
  <2>1. /\ bot.vote = bots[b].vote /\ bot.pc = bots[b].pc /\ bot.left = bots[b].left
        /\ bot.timer = bots[b].timer /\ bot.leader = bots[b].leader
        /\ bot.snap = Head(conns[b].queue).counts
    BY <1>1 DEF GoodBot, BotState
  <2>2. /\ conns[b].queue # <<>> /\ faults' = faults /\ conns' = [conns EXCEPT ![b] = Took(b)]
        /\ IF Head(conns[b].queue).counts = None THEN bots' = bots ELSE Go(b, bot)
    BY <1>5 DEF Hear, Took
  <2> HIDE DEF bot
  <2>3. IF Head(conns[b].queue).counts = None THEN bots'[b] = bots[b] ELSE bots'[b] = bot
    BY <1>3, <2>2
  <2>4. conns'[b] = Took(b)
    BY <1>1, <2>2, ConnView
  <2>5. HearsLate(b)
    BY <2>1, <2>2, <2>3, <2>4 DEF HearsLate, ToRevote, Remaining
  <2> QED
    BY <1>1, <2>1, <2>2, <2>3, <2>5 DEF Late
<1>6. CASE Settled(b) /\ bots[b].leader
  <2> DEFINE r == [bots[b] EXCEPT !.pc = "revote", !.left = ROUNDS]
  <2>1. Go(b, r) /\ bots[b].pc = "settle" /\ bots[b].timer = 0 /\ conns' = conns /\ faults' = faults
    BY <1>1, <1>6 DEF Settled, Due, serverVars
  <2>2. /\ r.vote = bots[b].vote /\ r.snap = bots[b].snap /\ r.pc = "revote" /\ r.left = ROUNDS
        /\ r.leader = bots[b].leader /\ r.timer = 0
    BY <1>4, <2>1 DEF Fields
  <2> HIDE DEF r
  <2>3. bots'[b] = r
    BY <1>3, <2>1
  <2>4. WaitsLate(b)
    BY <1>6, <2>1, <2>2, <2>3, DurationTypes DEF WaitsLate, ToRevote, Remaining
  <2> QED
    BY <2>1, <2>2, <2>3, <2>4 DEF Late
<1>7. CASE Settled(b) /\ ~bots[b].leader
  <2> DEFINE r == [bots[b] EXCEPT !.pc = "revote", !.timer = ROUNDS * ROUND]
  <2>1. Go(b, r) /\ bots[b].pc = "settle" /\ bots[b].timer = 0 /\ conns' = conns /\ faults' = faults
    BY <1>1, <1>7 DEF Settled, Due, serverVars
  <2>2. /\ r.vote = bots[b].vote /\ r.snap = bots[b].snap /\ r.pc = "revote" /\ r.left = 0
        /\ r.leader = bots[b].leader /\ r.timer = ROUNDS * ROUND
    BY <1>4, <2>1 DEF Fields
  <2> HIDE DEF r
  <2>3. bots'[b] = r
    BY <1>3, <2>1
  <2>4. Remaining(r) = Remaining(bots[b])
    <3>1. Remaining(bots[b]) = ROUNDS * ROUND + PROPAGATION
      BY <1>1, <2>1, RemainingType, DurationTypes DEF Remaining
    <3>2. 0 * ROUND = 0
      BY DurationTypes
    <3> QED
      BY <1>1, <2>2, <3>1, <3>2, RemainingType, DurationTypes DEF Remaining
  <2>5. WaitsLate(b)
    BY <1>7, <2>1, <2>2, <2>3, <2>4 DEF WaitsLate, ToRevote
  <2> QED
    BY <2>1, <2>2, <2>3, <2>5 DEF Late
<1>8. CASE AwaitPropagation(b)
  <2> DEFINE r == [bots[b] EXCEPT !.pc = "propagate", !.timer = PROPAGATION]
  <2>1. /\ Go(b, r) /\ bots[b].pc = "revote" /\ bots[b].timer = 0 /\ bots[b].left = 0
        /\ conns' = conns /\ faults' = faults
    BY <1>8 DEF AwaitPropagation, Due, serverVars
  <2>2. /\ r.vote = bots[b].vote /\ r.snap = bots[b].snap /\ r.pc = "propagate"
        /\ r.timer = PROPAGATION
    BY <1>4, <2>1 DEF Fields
  <2> HIDE DEF r
  <2>3. bots'[b] = r
    BY <1>3, <2>1
  <2>4. Remaining(r) = Remaining(bots[b])
    <3>1. 0 * ROUND = 0
      BY DurationTypes
    <3> QED
      BY <2>1, <2>2, <3>1, DurationTypes DEF Remaining
  <2>5. WaitsLate(b)
    BY <2>1, <2>2, <2>3, <2>4 DEF WaitsLate, ToRevote
  <2> QED
    BY <2>1, <2>2, <2>3, <2>5 DEF Late
<1>9. CASE Finish(b)
  <2>1. /\ Go(b, Done(bots[b])) /\ bots[b].pc = "propagate" /\ bots[b].timer = 0
        /\ conns' = conns /\ faults' = faults
    BY <1>9 DEF Finish, EndAt, Due, serverVars
  <2>2. /\ Done(bots[b]).vote = bots[b].vote /\ Done(bots[b]).snap = bots[b].snap
        /\ Done(bots[b]).pc = "done"
    BY <1>4 DEF Fields, Done
  <2>3. bots'[b] = Done(bots[b])
    BY <1>3, <2>1
  <2>4. WaitsLate(b)
    BY <2>1, <2>2, <2>3 DEF WaitsLate
  <2> QED
    BY <2>1, <2>2, <2>3, <2>4
<1>10. CASE Revote(b)
  <2> DEFINE r == [bots[b] EXCEPT !.left = @ - 1, !.timer = ROUND]
  <2>1. /\ Send(b, bots[b].vote, r) /\ bots[b].pc = "revote" /\ bots[b].timer = 0 /\ bots[b].left > 0
        /\ faults' = faults
    BY <1>10 DEF Revote, Due
  <2>2. /\ r.vote = bots[b].vote /\ r.snap = bots[b].snap /\ r.pc = "revote"
        /\ r.leader = bots[b].leader /\ r.timer = ROUND /\ r.left = bots[b].left - 1
    BY <1>4, <2>1 DEF Fields
  <2> HIDE DEF r
  <2>3. Delivered(b, bots[b].vote, r)
    BY <1>1, <2>1, SentFacts
  <2>4. bots'[b] = r
    BY <2>3 DEF Delivered
  <2>5. /\ Remaining(bots[b]) = Remaining(r) /\ Remaining(r) >= ROUND + PROPAGATION
        /\ bots[b].left = 1 => Remaining(bots[b]) = ROUND + PROPAGATION
    <3>1. PICK n \in Nat, m \in Nat : n = bots[b].left /\ m = n - 1
      BY <1>4, <2>1
    <3>2. n * ROUND = ROUND + m * ROUND /\ m * ROUND \in Nat
      BY <3>1, DurationTypes
    <3>3. Remaining(bots[b]) = 0 + (n * ROUND + PROPAGATION)
      BY <2>1, <3>1 DEF Remaining
    <3>4. Remaining(r) = ROUND + (m * ROUND + PROPAGATION)
      BY <2>2, <3>1 DEF Remaining
    <3>5. n = 1 => m * ROUND = 0
      BY <3>1, DurationTypes
    <3> QED
      BY <3>1, <3>2, <3>3, <3>4, <3>5, DurationTypes
  <2>6. ToRevote(bots[b]) /\ ~ToRevote(r) => bots[b].left = 1
    BY <1>4, <2>1, <2>2 DEF ToRevote
  <2>7. RevotesLate(b)
    BY <2>1, <2>2, <2>3, <2>4, <2>5, <2>6 DEF RevotesLate
  <2> QED
    BY <2>1, <2>2, <2>4, <2>7 DEF Late
<1> QED
  <2>1. /\ ~Connect(b) /\ ~SendVote(b) /\ ~Quit(b) /\ ~SendChat(b) /\ ~SendSpam(b)
        /\ ~StartReceiving(b) /\ ~Receive(b) /\ ~StopReceiving(b) /\ ~Release(b)
    BY <1>1 DEF Connect, SendVote, Quit, SendChat, SendSpam, SendLine, StartReceiving, Receive,
       StopReceiving, Release, EndAt, Due
  <2> QED
    BY <1>2, <1>4, <1>5, <1>6, <1>7, <1>8, <1>9, <1>10, <2>1 DEF BotStep

\* The step of a fickle bot, and that of any other.
FickleStep(b) ==
    /\ b \in Fickle /\ bots[b].pc \in Late /\ BotStep(b)
    /\ HearsLate(b) \/ WaitsLate(b) \/ RevotesLate(b)
    /\ \A c \in Bot \ {b} : bots'[c] = bots[c] /\ conns'[c] = conns[c]
    /\ pending' = pending /\ faults' = faults
OtherStep(b) ==
    /\ b \in Bot \ Fickle /\ BotStep(b) /\ ~Ended(b)
    /\ \A c \in Bot \ {b} : bots'[c] = bots[c] /\ conns'[c] = conns[c]
    /\ pending' = pending /\ faults <= faults'

LEMMA ThroughView ==
  ASSUME Good, AllTracked, Through, [Next]_vars, Served'
  PROVE  /\ Bot' = Bot /\ Fickle' = Fickle /\ request' = request /\ Good' /\ AllTracked' /\ ~Spawn
         /\ \A b \in Bot : bots'[b].kind = bots[b].kind
         /\ \A b \in Fickle : /\ bots'[b].vote = bots[b].vote
                              /\ bots[b].pc = "done" => bots'[b].pc = "done" /\ bots'[b].snap = bots[b].snap
         /\ Through' /\ LastVotes' = LastVotes
         /\ \/ Tick
            \/ Flush \/ \E b \in Bot : ServerStep(b)
            \/ \E b \in Bot : FickleStep(b) \/ OtherStep(b)
            \/ UNCHANGED <<bots, conns, pending, faults>>
<1>1. Good' /\ AllTracked' /\ ~Spawn
  <2>1. ~Spawn
    BY DEF Spawn, Through, Served
  <2> QED
    BY <2>1, GoodStep, TrackedStep
<1>2. /\ Bot' = Bot /\ request' = request /\ faults <= faults'
      /\ \A c \in Bot : bots'[c].kind = bots[c].kind
  BY <1>1, StepMonotone
<1>3. Fickle' = Fickle
  BY <1>2 DEF Fickle
<1>4. /\ \A b \in Fickle : /\ b \in Bot /\ bots[b].pc \in Late \cup {"done"}
                           /\ bots[b] \in GoodBot
  BY BotsAre DEF Through, Fickle
<1>5. \/ Tick
      \/ Flush \/ \E b \in Bot : ServerStep(b)
      \/ \E b \in Bot : FickleStep(b) \/ OtherStep(b)
      \/ UNCHANGED <<bots, conns, pending, faults>>
  <2>1. ASSUME NEW b \in Bot, BotStep(b)
        PROVE  FickleStep(b) \/ OtherStep(b)
    <3>1. ~Arrive(b)
      <4>1. ASSUME Arrive(b) PROVE FALSE
        <5>1. b \in Fickle /\ bots[b].pc = "send"
          BY <4>1, ArriveFacts
        <5> QED
          BY <1>4, <5>1 DEF Late
      <4> QED
        BY <4>1
    <3>2. /\ ~Ended(b) /\ faults <= faults' /\ pending' = pending
          /\ \A c \in Bot \ {b} : bots'[c] = bots[c] /\ conns'[c] = conns[c]
      BY <2>1, <3>1, BotStepView
    <3>3. CASE b \in Fickle
      <4>1. bots[b].pc \in Late
        BY <1>4, <3>2, <3>3 DEF Ended
      <4>2. /\ faults' = faults
            /\ HearsLate(b) \/ WaitsLate(b) \/ RevotesLate(b)
        BY <2>1, <3>3, <4>1, LateStep DEF Through
      <4> QED
        BY <2>1, <3>2, <3>3, <4>1, <4>2 DEF FickleStep
    <3>4. CASE b \notin Fickle
      BY <2>1, <3>2, <3>4 DEF OtherStep
    <3> QED
      BY <3>3, <3>4
  <2>2. Prepare \/ AssertFails \/ Report \/ UNCHANGED vars => UNCHANGED <<bots, conns, pending, faults>>
    BY DEF Prepare, AssertFails, Report, vars, serverVars
  <2> QED
    BY <1>1, <2>1, <2>2 DEF Next
<1>6. \A b \in Fickle : /\ bots'[b].vote = bots[b].vote
                        /\ bots'[b].pc \in Late \cup {"done"}
                        /\ bots[b].pc = "done" => bots'[b].pc = "done" /\ bots'[b].snap = bots[b].snap
  <2>1. CASE Tick
    <3>1. \A b \in Bot : bots'[b] = Ticked(bots[b])
      BY <2>1, TickFacts
    <3>2. \A b \in Fickle : /\ Ticked(bots[b]).vote = bots[b].vote
                            /\ Ticked(bots[b]).pc = bots[b].pc
                            /\ Ticked(bots[b]).snap = bots[b].snap
      BY <1>4 DEF Ticked, GoodBot, BotState, Placed
    <3> QED
      BY <1>4, <3>1, <3>2
  <2>2. CASE Flush \/ \E b \in Bot : ServerStep(b)
    BY <1>4, <2>2, ServerEffect DEF Through
  <2>3. CASE \E b \in Bot : FickleStep(b) \/ OtherStep(b)
    <3>1. PICK b \in Bot : FickleStep(b) \/ OtherStep(b)
      BY <2>3
    <3>2. \A c \in Bot \ {b} : bots'[c] = bots[c]
      BY <3>1 DEF FickleStep, OtherStep
    <3>3. CASE FickleStep(b)
      <4>1. bots'[b].pc \in Late \cup {"done"} /\ bots'[b].vote = bots[b].vote
        BY <3>3, LateStep DEF Through, FickleStep
      <4>2. bots[b].pc # "done"
        BY <3>3 DEF FickleStep, Late
      <4> QED
        BY <1>4, <3>2, <4>1, <4>2
    <3>4. CASE OtherStep(b)
      BY <1>4, <3>2, <3>4 DEF OtherStep
    <3> QED
      BY <3>1, <3>3, <3>4
  <2>4. CASE UNCHANGED <<bots, conns, pending, faults>>
    BY <1>4, <2>4
  <2> QED
    BY <1>5, <2>1, <2>2, <2>3, <2>4
<1>7. Through'
  BY <1>2, <1>3, <1>6 DEF Through
<1>8. LastVotes' = LastVotes
  BY <1>3, <1>6 DEF LastVotes, Tally
<1> QED
  BY <1>1, <1>2, <1>3, <1>5, <1>6, <1>7, <1>8
------------------------------------------------------------------------------
(* When every fickle bot has its last vote with the server, or on its way     *)
(* there, the board only shrinks.                                             *)

Leq(s, t) == \A o \in Option : s[o] <= t[o]

Steady ==
    /\ \A b \in Fickle :
          /\ \/ conns[b].state = "open" /\ conns[b].vote = bots[b].vote
             \/ conns[b].state = "gone" /\ conns[b].vote = None /\ bots[b].pc = "done"
          /\ \A i \in DOMAIN conns[b].inbox : conns[b].inbox[i].option = bots[b].vote
    /\ \A b \in Bot \ Fickle :
          /\ conns[b].vote = None
          /\ bots[b].kind = "quitter" => bots[b].pc = "done" /\ conns[b].state \notin {"open", "backlog"}

LEMMA SteadyStep ==
  ASSUME Good, AllTracked, Through, Steady, [Next]_vars, Served'
  PROVE  Steady' /\ \A c \in Bot : conns'[c].vote \in {conns[c].vote, None}
<1>1. /\ Bot' = Bot /\ Fickle' = Fickle /\ AllTracked' /\ Good'
      /\ \A c \in Bot : bots'[c].kind = bots[c].kind
      /\ \A b \in Fickle : bots'[b].vote = bots[b].vote /\ bots'[b].pc \in Late \cup {"done"}
  BY ThroughView DEF Through
<1>2. /\ \A c \in Bot : conns[c] \in GoodConn /\ bots[c] \in GoodBot
      /\ \A b \in Fickle : b \in Bot /\ bots[b].pc \in Late \cup {"done"}
      /\ DOMAIN <<>> = {}
  BY BotsAre DEF Fickle, Through
<1>3. \A c \in Bot \ Fickle :
         bots'[c].kind # "quitter" => conns'[c].vote = None /\ conns[c].vote = None
  <2>1. (\A c \in Bot : Tracked(bots[c], conns[c], faults))'
    BY <1>1 DEF AllTracked
  <2> QED
    BY <1>1, <2>1 DEF Tracked, Steady, Fickle
\* what is left to show of a bot
<1> DEFINE Keeps(c) ==
        /\ c \in Fickle =>
             /\ \/ conns'[c].state = "open" /\ conns'[c].vote = bots[c].vote
                \/ conns'[c].state = "gone" /\ conns'[c].vote = None /\ bots'[c].pc = "done"
             /\ \A i \in DOMAIN conns'[c].inbox : conns'[c].inbox[i].option = bots[c].vote
             /\ conns'[c].vote \in {conns[c].vote, None}
        /\ c \notin Fickle /\ bots[c].kind = "quitter" =>
              /\ bots'[c].pc = "done" /\ conns'[c].state \notin {"open", "backlog"}
              /\ conns'[c].vote = None
<1>4. ASSUME \A c \in Bot : Keeps(c)
      PROVE  Steady' /\ \A c \in Bot : conns'[c].vote \in {conns[c].vote, None}
  <2>1. /\ \A b \in Fickle :
             /\ \/ conns'[b].state = "open" /\ conns'[b].vote = bots'[b].vote
                \/ conns'[b].state = "gone" /\ conns'[b].vote = None /\ bots'[b].pc = "done"
             /\ \A i \in DOMAIN conns'[b].inbox : conns'[b].inbox[i].option = bots'[b].vote
        /\ \A b \in Bot \ Fickle :
             /\ conns'[b].vote = None
             /\ bots'[b].kind = "quitter" =>
                   bots'[b].pc = "done" /\ conns'[b].state \notin {"open", "backlog"}
    BY <1>1, <1>2, <1>3, <1>4
  <2>2. Steady'
    BY <1>1, <2>1 DEF Steady
  <2>3. \A c \in Bot : conns'[c].vote \in {conns[c].vote, None}
    BY <1>3, <1>4, <2>1
  <2> QED
    BY <2>2, <2>3
\* a bot that does nothing, and is told something
<1>5. ASSUME NEW c \in Bot, Moved(conns[c], conns'[c], Ended(c)), bots'[c].pc = bots[c].pc
      PROVE  Keeps(c)
  <2>1. CASE c \in Fickle
    <3>1. /\ \/ conns[c].state = "open" /\ conns[c].vote = bots[c].vote
             \/ conns[c].state = "gone" /\ conns[c].vote = None /\ bots[c].pc = "done"
          /\ \A i \in DOMAIN conns[c].inbox : conns[c].inbox[i].option = bots[c].vote
      BY <2>1 DEF Steady
    <3>2. CASE /\ conns'[c].state = conns[c].state /\ conns'[c].inbox = conns[c].inbox
               /\ conns'[c].vote = conns[c].vote
      BY <1>5, <2>1, <3>1, <3>2
    <3>3. CASE /\ conns[c].state = "open" /\ conns'[c].state = "open"
               /\ conns[c].inbox # <<>> /\ conns'[c].inbox = Tail(conns[c].inbox)
               /\ conns'[c].vote = IF Head(conns[c].inbox).option = None THEN conns[c].vote
                                   ELSE Head(conns[c].inbox).option
      <4>1. conns[c].inbox \in Seq(Line)
        BY <1>2 DEF GoodConn, ConnState
      <4>2. /\ Head(conns[c].inbox) = conns[c].inbox[1] /\ 1 \in DOMAIN conns[c].inbox
            /\ \A i \in DOMAIN conns'[c].inbox :
                  i + 1 \in DOMAIN conns[c].inbox /\ conns'[c].inbox[i] = conns[c].inbox[i + 1]
        BY <3>3, <4>1
      <4> QED
        BY <2>1, <3>1, <3>3, <4>2
    <3>4. CASE /\ conns[c].state = "open" /\ Ended(c)
               /\ conns'[c].state = "gone" /\ conns'[c].inbox = <<>> /\ conns'[c].vote = None
      <4>1. bots[c].pc = "done"
        BY <1>2, <2>1, <3>4 DEF Ended, Late
      <4> QED
        BY <1>2, <1>5, <2>1, <3>4, <4>1
    <3> QED
      BY <1>5, <3>1, <3>2, <3>3, <3>4 DEF Moved
  <2>2. CASE c \notin Fickle /\ bots[c].kind = "quitter"
    <3>1. bots[c].pc = "done" /\ conns[c].state \notin {"open", "backlog"} /\ conns[c].vote = None
      BY <2>2 DEF Steady
    <3> QED
      BY <1>5, <2>2, <3>1 DEF Moved
  <2> QED
    BY <2>1, <2>2
<1>6. \A c \in Bot : Moved(conns[c], conns[c], Ended(c))
  BY DEF Moved
<1>7. CASE Tick
  <2>1. \A c \in Bot : bots'[c] = Ticked(bots[c]) /\ conns'[c] = conns[c]
    BY <1>7, TickFacts
  <2>2. \A c \in Bot : bots'[c].pc = bots[c].pc
    BY <1>2, <2>1 DEF Ticked, GoodBot, BotState
  <2>3. \A c \in Bot : Keeps(c)
    BY <1>5, <1>6, <2>1, <2>2
  <2> QED
    BY <1>4, <2>3
<1>8. CASE Flush \/ \E b \in Bot : ServerStep(b)
  <2>1. bots' = bots /\ \A c \in Bot : Moved(conns[c], conns'[c], Ended(c))
    BY <1>8, ServerEffect DEF Through
  <2>2. \A c \in Bot : Keeps(c)
    BY <1>5, <2>1
  <2> QED
    BY <1>4, <2>2
<1>9. CASE \E b \in Bot : FickleStep(b) \/ OtherStep(b)
  <2>1. PICK b \in Bot : FickleStep(b) \/ OtherStep(b)
    BY <1>9
  <2>2. \A c \in Bot \ {b} : bots'[c] = bots[c] /\ conns'[c] = conns[c]
    BY <2>1 DEF FickleStep, OtherStep
  <2>3. \A c \in Bot \ {b} : Keeps(c)
    BY <1>5, <1>6, <2>2
  <2>4. Keeps(b)
    <3>1. CASE OtherStep(b)
      <4>1. bots[b].pc # "done" /\ b \notin Fickle
        BY <3>1 DEF OtherStep, Ended
      <4> QED
        BY <4>1 DEF Steady
    <3>2. CASE FickleStep(b)
      <4>1. b \in Fickle /\ conns[b].state = "open" /\ conns[b].vote = bots[b].vote
            /\ \A i \in DOMAIN conns[b].inbox : conns[b].inbox[i].option = bots[b].vote
        BY <3>2 DEF FickleStep, Steady, Late
      <4>2. /\ conns'[b].state = conns[b].state /\ conns'[b].vote = conns[b].vote
            /\ \A i \in DOMAIN conns'[b].inbox :
                  \/ i \in DOMAIN conns[b].inbox /\ conns'[b].inbox[i] = conns[b].inbox[i]
                  \/ conns'[b].inbox[i].option = bots[b].vote
        <5>1. CASE HearsLate(b)
          BY <1>2, <5>1 DEF HearsLate, Took, GoodConn, ConnState
        <5>2. CASE WaitsLate(b)
          BY <5>2 DEF WaitsLate
        <5>3. CASE RevotesLate(b)
          BY <5>3 DEF RevotesLate, Delivered
        <5> QED
          BY <3>2, <5>1, <5>2, <5>3 DEF FickleStep
      <4> QED
        BY <4>1, <4>2
    <3> QED
      BY <2>1, <3>1, <3>2
  <2>5. \A c \in Bot : Keeps(c)
    BY <2>3, <2>4
  <2> QED
    BY <1>4, <2>5
<1>10. CASE UNCHANGED <<bots, conns, pending, faults>>
  <2>1. \A c \in Bot : Keeps(c)
    BY <1>5, <1>6, <1>10
  <2> QED
    BY <1>4, <2>1
<1> QED
  BY <1>7, <1>8, <1>9, <1>10, ThroughView

\* The snapshots that a fickle bot may still hear, and those heard last.
Travelling == {s \in Counts : \/ s = pending
                              \/ \E b \in Fickle : \E i \in DOMAIN conns[b].queue :
                                    conns[b].queue[i].counts = s}
Snaps == {s \in Counts : \E b \in Fickle : bots[b].snap = s}

LEMMA BoardIs ==
  ASSUME NEW cs, DOMAIN cs = Bot, NEW o \in Option
  PROVE  BoardOf(cs)[o] = Cardinality({c \in Bot : cs[c].vote = o})
<1>1. {v \in DOMAIN [c \in DOMAIN cs |-> cs[c].vote] : [c \in DOMAIN cs |-> cs[c].vote][v] = o}
      = {c \in Bot : cs[c].vote = o}
  OBVIOUS
<1> QED
  BY <1>1 DEF BoardOf, Tally

LEMMA LastVotesIs ==
  ASSUME NEW o \in Option
  PROVE  LastVotes[o] = Cardinality({b \in Fickle : bots[b].vote = o})
<1>1. {v \in DOMAIN [b \in Fickle |-> bots[b].vote] : [b \in Fickle |-> bots[b].vote][v] = o}
      = {b \in Fickle : bots[b].vote = o}
  OBVIOUS
<1> QED
  BY <1>1 DEF LastVotes, Tally

LEMMA BoardShrinks ==
  ASSUME Good, DOMAIN conns' = Bot, \A c \in Bot : conns'[c].vote \in {conns[c].vote, None}
  PROVE  Leq(BoardOf(conns'), BoardOf(conns))
<1>1. ASSUME NEW o \in Option
      PROVE  Cardinality({c \in Bot : conns'[c].vote = o}) <= Cardinality({c \in Bot : conns[c].vote = o})
  <2>1. {c \in Bot : conns'[c].vote = o} \subseteq {c \in Bot : conns[c].vote = o}
    BY NoneAssumption
  <2>2. IsFiniteSet({c \in Bot : conns[c].vote = o})
    BY BotsAre, FS_Subset
  <2> QED
    BY <2>1, <2>2, FS_Subset
<1>2. \A o \in Option : /\ BoardOf(conns)[o] = Cardinality({c \in Bot : conns[c].vote = o})
                        /\ BoardOf(conns')[o] = Cardinality({c \in Bot : conns'[c].vote = o})
  <2>1. DOMAIN conns = Bot
    BY BotsAre
  <2> QED
    BY <2>1, BoardIs
<1>3. \A o \in Option : BoardOf(conns')[o] <= BoardOf(conns)[o]
  BY <1>1, <1>2
<1> QED
  BY <1>3 DEF Leq

\* The board is what the fickle bots voted last, as long as none has stopped.
LEMMA SteadyBoard ==
  ASSUME Good, Steady
  PROVE  /\ Leq(BoardOf(conns), LastVotes)
         /\ (\A b \in Fickle : bots[b].pc # "done") => BoardOf(conns) = LastVotes
<1>1. \A o \in Option : {c \in Bot : conns[c].vote = o} \subseteq {b \in Fickle : bots[b].vote = o}
  BY NoneAssumption DEF Steady, Fickle
<1>2. (\A b \in Fickle : bots[b].pc # "done") =>
         \A o \in Option : {c \in Bot : conns[c].vote = o} = {b \in Fickle : bots[b].vote = o}
  BY <1>1 DEF Steady, Fickle
<1>3. \A o \in Option : Cardinality({c \in Bot : conns[c].vote = o}) <= Cardinality({b \in Fickle : bots[b].vote = o})
  <2>1. \A o \in Option : IsFiniteSet({b \in Fickle : bots[b].vote = o})
    BY BotsAre, FS_Subset DEF Fickle
  <2> QED
    BY <1>1, <2>1, FS_Subset
<1>4. DOMAIN conns = Bot
  BY BotsAre
<1>5. \A o \in Option : /\ BoardOf(conns)[o] = Cardinality({c \in Bot : conns[c].vote = o})
                        /\ LastVotes[o] = Cardinality({b \in Fickle : bots[b].vote = o})
  BY <1>4, BoardIs, LastVotesIs
<1>6. Leq(BoardOf(conns), LastVotes)
  <2>1. \A o \in Option : BoardOf(conns)[o] <= LastVotes[o]
    BY <1>3, <1>5
  <2> QED
    BY <2>1 DEF Leq
<1>7. ASSUME \A b \in Fickle : bots[b].pc # "done"
      PROVE  BoardOf(conns) = LastVotes
  <2>1. \A o \in Option : BoardOf(conns)[o] = LastVotes[o]
    BY <1>2, <1>5, <1>7
  <2>2. BoardOf(conns) = [o \in Option |-> BoardOf(conns)[o]] /\ LastVotes = [o \in Option |-> LastVotes[o]]
    BY DEF BoardOf, LastVotes, Tally
  <2> QED
    BY <2>1, <2>2
<1> QED
  BY <1>6, <1>7

\* What the bots may hear is what they could hear before, or the new board.
LEMMA TravelStep ==
  ASSUME Good, AllTracked, Through, [Next]_vars, Served'
  PROVE  /\ Travelling' \subseteq Travelling \cup {BoardOf(conns')}
         /\ Snaps' \subseteq Snaps \cup Travelling
<1>1. /\ Bot' = Bot /\ Fickle' = Fickle /\ Good' /\ \A b \in Fickle : b \in Bot
      /\ \A c \in Bot : conns[c] \in GoodConn /\ bots[c] \in GoodBot
  BY ThroughView, BotsAre DEF Fickle
<1>2. /\ Travelling' = {s \in Counts : \/ s = pending'
                                       \/ \E b \in Fickle : \E i \in DOMAIN conns'[b].queue :
                                             conns'[b].queue[i].counts = s}
      /\ Snaps' = {s \in Counts : \E b \in Fickle : bots'[b].snap = s}
  BY <1>1 DEF Travelling, Snaps, Counts, Option
<1>3. \A b \in Fickle : conns[b].queue \in Seq(Event)
  BY <1>1 DEF GoodConn, ConnState
<1>4. CASE Tick
  <2>1. pending' = pending /\ conns' = conns /\ \A c \in Bot : bots'[c] = Ticked(bots[c])
    BY <1>4, TickFacts
  <2>2. \A c \in Bot : bots'[c].snap = bots[c].snap
    BY <1>1, <2>1 DEF Ticked, GoodBot, BotState
  <2> QED
    BY <1>1, <1>2, <2>1, <2>2 DEF Travelling, Snaps
<1>5. CASE Flush \/ \E b \in Bot : ServerStep(b)
  <2>1. bots' = bots /\ pending' \in {pending, None, BoardOf(conns')}
    BY <1>5, ServerEffect DEF Through
  <2>2. PICK s \in {None, pending, BoardOf(conns')} : \A c \in Bot : Told(conns[c], conns'[c], s)
    BY <1>5, ServerEffect DEF Through
  <2>3. ASSUME NEW b \in Fickle, NEW i \in DOMAIN conns'[b].queue
        PROVE  \/ conns'[b].queue[i].counts = s
               \/ \E j \in DOMAIN conns[b].queue : conns'[b].queue[i] = conns[b].queue[j]
    <3> DEFINE q == conns[b].queue
               p == conns'[b].queue
    <3>1. q \in Seq(Event) /\ Told(conns[b], conns'[b], s)
      BY <1>1, <1>3, <2>2
    <3>2. CASE p = <<>>
      BY <2>3, <3>2
    <3>3. CASE p = q
      BY <2>3, <3>3
    <3>4. ASSUME NEW e, e.counts = s, p = Append(q, e)
          PROVE  p[i].counts = s \/ \E j \in DOMAIN q : p[i] = q[j]
      <4>1. \A k \in DOMAIN Append(q, e) : Append(q, e)[k] = e \/ (k \in DOMAIN q /\ Append(q, e)[k] = q[k])
        BY <3>1
      <4> QED
        BY <2>3, <3>4, <4>1
    <3>5. ASSUME NEW e, e.counts = s, p = Append(Tail(q), e), q # <<>>
          PROVE  p[i].counts = s \/ \E j \in DOMAIN q : p[i] = q[j]
      <4>1. Tail(q) \in Seq(Event) /\ \A k \in DOMAIN Tail(q) : k + 1 \in DOMAIN q /\ Tail(q)[k] = q[k + 1]
        BY <3>1, <3>5
      <4> DEFINE t == Tail(q)
      <4>2. t \in Seq(Event)
        BY <4>1
      <4> HIDE DEF t
      <4>3. \A k \in DOMAIN Append(t, e) : Append(t, e)[k] = e \/ (k \in DOMAIN t /\ Append(t, e)[k] = t[k])
        BY <4>2
      <4>4. i \in DOMAIN Append(t, e) /\ p = Append(t, e)
        BY <2>3, <3>5 DEF t
      <4>5. p[i] = e \/ (i \in DOMAIN t /\ p[i] = t[i])
        BY <4>3, <4>4
      <4>6. \A k \in DOMAIN t : k + 1 \in DOMAIN q /\ t[k] = q[k + 1]
        BY <4>1 DEF t
      <4> QED
        BY <3>5, <4>5, <4>6
    <3> HIDE DEF p, q
    <3>6. \/ p = <<>> \/ p = q
          \/ \E e : e.counts = s /\ p = Append(q, e)
          \/ \E e : e.counts = s /\ p = Append(Tail(q), e) /\ q # <<>>
      BY <3>1 DEF Told, p, q
    <3>7. p[i].counts = s \/ \E j \in DOMAIN q : p[i] = q[j]
      <4>1. p = q => \E j \in DOMAIN q : p[i] = q[j]
        BY <2>3 DEF p, q
      <4>2. p # <<>>
        BY <2>3 DEF p
      <4> QED
        BY <3>4, <3>5, <3>6, <4>1, <4>2
    <3> QED
      BY <3>7 DEF p, q
  <2>4. Travelling' \subseteq Travelling \cup {BoardOf(conns')}
    <3>1. ASSUME NEW t \in Travelling', t # BoardOf(conns') PROVE t \in Travelling
      <4>1. t \in Counts /\ t # None
        <5>1. 0 .. MaxBots \subseteq Nat
          BY DurationsAssumption
        <5> QED
          BY <1>2, <5>1, NoneAssumption DEF Counts
      <4>2. \/ t \in {s, pending}
            \/ \E b \in Fickle : \E j \in DOMAIN conns[b].queue : conns[b].queue[j].counts = t
        BY <1>2, <2>1, <2>3, <3>1, <4>1
      <4>3. t = s => t = pending
        BY <2>2, <3>1, <4>1
      <4> QED
        BY <4>1, <4>2, <4>3 DEF Travelling
    <3> QED
      BY <3>1
  <2> QED
    BY <1>2, <2>1, <2>4 DEF Snaps
<1>6. CASE \E b \in Bot : FickleStep(b) \/ OtherStep(b)
  <2>1. PICK b \in Bot : FickleStep(b) \/ OtherStep(b)
    BY <1>6
  <2>2. /\ \A c \in Bot \ {b} : bots'[c] = bots[c] /\ conns'[c] = conns[c]
        /\ pending' = pending
    BY <2>1 DEF FickleStep, OtherStep
  <2>3. ASSUME b \in Fickle
        PROVE  /\ \A i \in DOMAIN conns'[b].queue :
                     \E j \in DOMAIN conns[b].queue : conns'[b].queue[i] = conns[b].queue[j]
               /\ \/ bots'[b].snap = bots[b].snap
                  \/ \E j \in DOMAIN conns[b].queue : bots'[b].snap = conns[b].queue[j].counts
    <3>1. HearsLate(b) \/ WaitsLate(b) \/ RevotesLate(b)
      BY <2>1, <2>3 DEF FickleStep, OtherStep
    <3>2. CASE HearsLate(b)
      <4>1. conns[b].queue # <<>> /\ conns[b].queue \in Seq(Event) /\ conns[b] \in GoodConn
        BY <1>1, <1>3, <2>3, <3>2 DEF HearsLate
      <4>2. conns'[b].queue = Tail(conns[b].queue)
        BY <3>2, <4>1 DEF HearsLate, Took, GoodConn, ConnState
      <4>3. /\ \A k \in DOMAIN Tail(conns[b].queue) :
                  k + 1 \in DOMAIN conns[b].queue /\ Tail(conns[b].queue)[k] = conns[b].queue[k + 1]
            /\ 1 \in DOMAIN conns[b].queue /\ Head(conns[b].queue) = conns[b].queue[1]
        BY <4>1
      <4> QED
        BY <3>2, <4>2, <4>3 DEF HearsLate
    <3>3. CASE WaitsLate(b)
      BY <3>3 DEF WaitsLate
    <3>4. CASE RevotesLate(b)
      BY <3>4 DEF RevotesLate, Delivered
    <3> QED
      BY <3>1, <3>2, <3>3, <3>4
  <2>4. Travelling' \subseteq Travelling
    BY <1>1, <1>2, <2>2, <2>3 DEF Travelling
  <2>5. Snaps' \subseteq Snaps \cup Travelling
    <3>1. ASSUME NEW t \in Counts, NEW c \in Fickle, bots'[c].snap = t
          PROVE  t \in Snaps \/ t \in Travelling
      <4>1. CASE c = b
        BY <2>3, <3>1, <4>1 DEF Snaps, Travelling
      <4>2. CASE c # b
        BY <1>1, <2>2, <3>1, <4>2 DEF Snaps
      <4> QED
        BY <4>1, <4>2
    <3> QED
      BY <1>2, <3>1
  <2> QED
    BY <2>4, <2>5
<1>7. CASE UNCHANGED <<bots, conns, pending, faults>>
  BY <1>2, <1>7 DEF Travelling, Snaps
<1> QED
  BY <1>4, <1>5, <1>6, <1>7, ThroughView

\* Snapshots between the board and the last votes, each below the next.
OrderedBy(S, board, last) ==
    /\ \A s \in S : Leq(board, s) /\ Leq(s, last)
    /\ \A s, t \in S : Leq(s, t) \/ Leq(t, s)
Ordered(S) == OrderedBy(S, BoardOf(conns), LastVotes)

Clean == Steady /\ Ordered(Travelling)

\* Enough for the verdict, once the first of the fickle bots has stopped.
Leaving ==
    /\ Steady /\ Ordered(Travelling \cup Snaps)
    /\ \E b \in Fickle : bots[b].pc = "done" /\ bots[b].snap = LastVotes

LEMMA LeqTransitive ==
  ASSUME NEW r \in [Option -> Nat], NEW s \in [Option -> Nat], NEW t \in [Option -> Nat],
         Leq(r, s), Leq(s, t)
  PROVE  Leq(r, t)
<1>1. \A o \in Option : r[o] \in Nat /\ s[o] \in Nat /\ t[o] \in Nat
  OBVIOUS
<1> QED
  BY <1>1 DEF Leq

LEMMA LeqReflexive == ASSUME NEW s \in [Option -> Nat] PROVE Leq(s, s)
BY DEF Leq

LEMMA OrderedGrows ==
  ASSUME NEW S \in SUBSET [Option -> Nat], NEW T, NEW board \in [Option -> Nat],
         NEW new \in [Option -> Nat], NEW last \in [Option -> Nat],
         OrderedBy(S, board, last), Leq(new, board), Leq(new, last), T \subseteq S \cup {new}
  PROVE  OrderedBy(T, new, last)
<1>1. \A s \in S : s \in [Option -> Nat] /\ Leq(board, s) /\ Leq(s, last)
  BY DEF OrderedBy
<1>2. \A s \in S : Leq(new, s)
  BY <1>1, LeqTransitive
<1>3. Leq(new, new)
  BY LeqReflexive
<1> QED
  BY <1>1, <1>2, <1>3 DEF OrderedBy

LEMMA CountsType ==
  ASSUME Good
  PROVE  /\ Counts \subseteq [Option -> Nat] /\ None \notin Counts
         /\ BoardOf(conns) \in Counts /\ LastVotes \in Counts
<1>1. 0 .. MaxBots \subseteq Nat
  BY DurationsAssumption
<1>2. Counts \subseteq [Option -> Nat]
  BY <1>1 DEF Counts
<1>3. BoardOf(conns) \in Counts
  <2>1. conns \in Seq(ConnState)
    BY DEF Good, ConnsGood, GoodConn
  <2> QED
    BY <2>1, BoardType DEF Good, ConnsGood
<1>4. LastVotes \in Counts
  <2>1. ASSUME NEW o \in Option
        PROVE  Cardinality({b \in Fickle : bots[b].vote = o}) \in 0 .. MaxBots
    <3>1. {b \in Fickle : bots[b].vote = o} \subseteq Bot
      BY DEF Fickle
    <3>2. IsFiniteSet(Bot) /\ Cardinality(Bot) \in 0 .. MaxBots
      BY BotsAre
    <3>3. /\ IsFiniteSet({b \in Fickle : bots[b].vote = o})
          /\ Cardinality({b \in Fickle : bots[b].vote = o}) <= Cardinality(Bot)
      BY <3>1, <3>2, FS_Subset
    <3>4. Cardinality({b \in Fickle : bots[b].vote = o}) \in Nat
      BY <3>3, FS_CardinalityType
    <3> QED
      BY <3>2, <3>3, <3>4, DurationsAssumption
  <2>2. \A o \in Option : LastVotes[o] \in 0 .. MaxBots
    BY <2>1, LastVotesIs
  <2>3. LastVotes = [o \in Option |-> LastVotes[o]]
    BY DEF LastVotes, Tally
  <2> QED
    BY <2>2, <2>3 DEF Counts
<1> QED
  BY <1>2, <1>3, <1>4, NoneAssumption

LEMMA BoardLater == Good' => (DOMAIN conns = Bot /\ BoardOf(conns) \in Counts)'
<1>1. Good => DOMAIN conns = Bot /\ BoardOf(conns) \in Counts
  BY CountsType, BotsAre
<1> QED
  BY <1>1, PTL

\* What is ordered stays so when the new board joins it.
LEMMA OrderedStep ==
  ASSUME Good, AllTracked, Through, Steady, [Next]_vars, Served',
         NEW S \in SUBSET Counts, Ordered(S),
         NEW T, T \subseteq S \cup {BoardOf(conns')}
  PROVE  OrderedBy(T, BoardOf(conns'), LastVotes')
<1>1. /\ Counts \subseteq [Option -> Nat]
      /\ BoardOf(conns) \in Counts /\ LastVotes \in Counts
  BY CountsType
<1>2. Good' /\ LastVotes' = LastVotes /\ Bot' = Bot
  BY ThroughView
<1>3. BoardOf(conns') \in Counts /\ DOMAIN conns' = Bot
  <2>1. (DOMAIN conns = Bot /\ BoardOf(conns) \in Counts)'
    BY <1>2, BoardLater
  <2> QED
    BY <1>2, <2>1 DEF Counts, Option
<1>4. Leq(BoardOf(conns'), BoardOf(conns)) /\ Leq(BoardOf(conns), LastVotes)
  BY <1>3, SteadyStep, BoardShrinks, SteadyBoard
<1>5. Leq(BoardOf(conns'), LastVotes)
  <2>1. /\ BoardOf(conns') \in [Option -> Nat] /\ BoardOf(conns) \in [Option -> Nat]
        /\ LastVotes \in [Option -> Nat]
    BY <1>1, <1>3
  <2> QED
    BY <1>4, <2>1, LeqTransitive
<1>6. OrderedBy(T, BoardOf(conns'), LastVotes)
  <2>1. /\ BoardOf(conns') \in [Option -> Nat] /\ BoardOf(conns) \in [Option -> Nat]
        /\ LastVotes \in [Option -> Nat] /\ S \in SUBSET [Option -> Nat]
    BY <1>1, <1>3
  <2>2. OrderedBy(S, BoardOf(conns), LastVotes)
    BY DEF Ordered
  <2> QED
    BY <1>4, <1>5, <2>1, <2>2, OrderedGrows
<1> QED
  BY <1>2, <1>6

LEMMA CleanStep ==
  ASSUME Good, AllTracked, Through, Clean, [Next]_vars, Served'
  PROVE  Clean'
<1>1. Steady' /\ Travelling' \subseteq Travelling \cup {BoardOf(conns')}
  BY SteadyStep, TravelStep DEF Clean
<1>2. Travelling \in SUBSET Counts
  BY DEF Travelling
<1>3. OrderedBy(Travelling', BoardOf(conns'), LastVotes')
  BY <1>1, <1>2, OrderedStep DEF Clean
<1> QED
  BY <1>1, <1>3 DEF Clean, Ordered

LEMMA LeavingStep ==
  ASSUME Good, AllTracked, Through, Leaving, [Next]_vars, Served'
  PROVE  Leaving'
<1>1. /\ Steady' /\ Travelling' \subseteq Travelling \cup {BoardOf(conns')}
      /\ Snaps' \subseteq Snaps \cup Travelling
  BY SteadyStep, TravelStep DEF Leaving
<1>2. Travelling \cup Snaps \in SUBSET Counts
  BY DEF Travelling, Snaps
<1>3. Travelling' \cup Snaps' \subseteq (Travelling \cup Snaps) \cup {BoardOf(conns')}
  BY <1>1
<1>4. OrderedBy(Travelling' \cup Snaps', BoardOf(conns'), LastVotes')
  BY <1>2, <1>3, OrderedStep DEF Leaving
<1>5. (\E b \in Fickle : bots[b].pc = "done" /\ bots[b].snap = LastVotes)'
  <2>1. PICK b \in Fickle : bots[b].pc = "done" /\ bots[b].snap = LastVotes
    BY DEF Leaving
  <2>2. Fickle' = Fickle /\ LastVotes' = LastVotes /\ bots'[b].pc = "done" /\ bots'[b].snap = bots[b].snap
    BY <2>1, ThroughView
  <2> QED
    BY <2>1, <2>2
<1> QED
  BY <1>1, <1>4, <1>5 DEF Leaving, Ordered
------------------------------------------------------------------------------
(* Until the first fickle bot stops listening.                                *)

\* A quitter was refused and will vote after the pause.
Delayed == \E b \in Bot : bots[b].kind = "quitter" /\ bots[b].timer > 0
Delay == IF Delayed THEN 1 ELSE 0

LeaderToRevote == \E b \in Fickle : ToRevote(bots[b])

\* A snapshot of the last re-vote is still to be taken, or was sent to a bot.
Coming == pending # None \/ \E b \in Fickle : conns[b].inbox # <<>>
Fresh(bot, c, last) ==
    bot.snap = last \/ \E i \in DOMAIN c.queue : c.queue[i].counts # None

BeforeLastRevote == SETTLE + (ROUNDS - 1) * ROUND

\* Before the last re-vote only faults keep the server from settling; a quitter
\* that is still to vote is the trace of one of them.
Settling ==
    /\ LeaderToRevote
    /\ Clean \/ \A b \in Fickle : Remaining(bots[b]) + faults >= WholeWait + Delay

\* After it the server has settled and all will hear of that, unless faults
\* make the wait too short.
Revoted ==
    /\ ~LeaderToRevote /\ Clean
    /\ Coming \/ \A b \in Fickle \ Overtaken : Fresh(bots[b], conns[b], LastVotes)
    /\ \/ \A b \in Fickle \ Overtaken : bots[b].snap = LastVotes
       \/ \A b \in Fickle : Remaining(bots[b]) + faults >= ROUND + PROPAGATION

Waits ==
    Listening =>
        /\ \A b, c \in Fickle : Remaining(bots[b]) <= Remaining(bots[c]) + faults
        /\ faults >= BeforeLastRevote \/ Settling \/ Revoted

\* In a quiet moment they have heard everything, and the server has too.
LEMMA QuietListeners ==
  ASSUME Good, AllTracked, Listening, Quiet
  PROVE  /\ ~Coming /\ Travelling = {}
         /\ \A b \in Fickle : /\ bots[b].timer > 0 /\ conns[b].queue = <<>>
                              /\ conns[b].inbox = <<>> /\ conns[b].state = "open"
                              /\ conns[b].vote = bots[b].vote
<1>1. ASSUME NEW b \in Fickle
      PROVE  /\ bots[b].timer > 0 /\ conns[b].queue = <<>>
             /\ conns[b].inbox = <<>> /\ conns[b].state = "open"
             /\ conns[b].vote = bots[b].vote
  <2>1. /\ b \in Bot /\ bots[b].kind = "fickle" /\ bots[b].pc \in Late
        /\ conns[b] \in GoodConn /\ Tracked(bots[b], conns[b], faults)
    BY BotsAre DEF Fickle, Listening, Through, AllTracked
  <2>2. bots[b].timer > 0 /\ conns[b].state # "backlog" /\ ~Ended(b)
    BY <2>1 DEF Quiet, Late, Ended
  <2>3. conns[b].state \notin {"gone", "none"} /\ conns[b].state \in {"none", "backlog", "open", "gone"}
    BY <2>1 DEF Tracked, Late, GoodConn, ConnState
  <2>4. conns[b].state = "open"
    BY <2>2, <2>3
  <2>5. conns[b].inbox = <<>> /\ conns[b].queue = <<>>
    BY <2>1, <2>2, <2>4 DEF Quiet
  <2>6. conns[b].vote = bots[b].vote
    BY <2>1, <2>5 DEF Tracked, Late
  <2> QED
    BY <2>2, <2>4, <2>5, <2>6
<1>2. pending = None /\ DOMAIN <<>> = {}
  BY DEF Quiet
<1>3. Travelling = {}
  BY <1>1, <1>2, CountsType DEF Travelling
<1> QED
  BY <1>1, <1>2, <1>3 DEF Coming

LEMMA QuietClean ==
  ASSUME Good, AllTracked, Listening, Quiet, ~Delayed
  PROVE  Clean
<1>1. /\ Travelling = {} /\ DOMAIN <<>> = {}
      /\ \A b \in Fickle : /\ conns[b].inbox = <<>> /\ conns[b].state = "open"
                           /\ conns[b].vote = bots[b].vote
  BY QuietListeners
<1>2. ASSUME NEW b \in Bot \ Fickle
      PROVE  /\ conns[b].vote = None
             /\ bots[b].kind = "quitter" => bots[b].pc = "done" /\ conns[b].state \notin {"open", "backlog"}
  <2>1. bots[b].kind # "fickle" /\ Tracked(bots[b], conns[b], faults) /\ bots[b] \in GoodBot
    BY BotsAre DEF Fickle, AllTracked, Listening, Through
  <2>2. CASE bots[b].kind = "quitter"
    <3>1. ~(bots[b].timer > 0) /\ bots[b].pc \in {"connect", "send", "done"}
      BY <2>1, <2>2 DEF Delayed, Tracked
    <3>2. bots[b].pc = "done" /\ conns[b].state # "backlog" /\ conns[b].state # "open"
      BY <3>1 DEF Quiet, Ended
    <3> QED
      BY <2>1, <3>2 DEF Tracked
  <2>3. CASE bots[b].kind # "quitter"
    BY <2>1, <2>3 DEF Tracked
  <2> QED
    BY <2>2, <2>3
<1> QED
  BY <1>1, <1>2 DEF Clean, Steady, Ordered, OrderedBy

\* What travels is the final tally, as long as all listen.
LEMMA CleanListeners ==
  ASSUME Good, Listening, Clean
  PROVE  \A s \in Travelling : s = LastVotes
<1>1. /\ Counts \subseteq [Option -> Nat] /\ LastVotes \in Counts
      /\ BoardOf(conns) = LastVotes
  BY CountsType, SteadyBoard DEF Listening, Clean
<1>2. ASSUME NEW s \in Travelling PROVE s = LastVotes
  <2>1. s \in [Option -> Nat] /\ LastVotes \in [Option -> Nat]
    BY <1>1 DEF Travelling
  <2>2. Leq(LastVotes, s) /\ Leq(s, LastVotes)
    BY <1>1 DEF Clean, Ordered, OrderedBy
  <2>3. \A o \in Option : s[o] \in Nat /\ LastVotes[o] \in Nat /\ LastVotes[o] <= s[o] /\ s[o] <= LastVotes[o]
    BY <2>1, <2>2 DEF Leq
  <2>4. \A o \in Option : s[o] = LastVotes[o]
    BY <2>3
  <2> QED
    BY <2>1, <2>4
<1> QED
  BY <1>2

LEMMA DelayType == Delay \in {0, 1} /\ (Delayed <=> Delay = 1)
BY DEF Delay

LEMMA WaitTypes ==
  /\ \A bot \in GoodBot : Remaining(bot) \in Nat
  /\ WholeWait \in Nat /\ BeforeLastRevote \in Nat /\ ROUND \in Nat /\ PROPAGATION \in Nat
  /\ WholeWait = BeforeLastRevote + (ROUND + PROPAGATION)
<1>1. PICK m \in Nat : ROUNDS = m + 1
  <2>1. ROUNDS - 1 \in Nat /\ ROUNDS = (ROUNDS - 1) + 1
    BY DurationTypes
  <2> QED
    BY <2>1
<1>2. /\ m * ROUND \in Nat /\ ROUNDS * ROUND = m * ROUND + ROUND /\ ROUNDS - 1 = m
  BY <1>1, DurationTypes
<1>3. BeforeLastRevote = SETTLE + m * ROUND
  BY <1>2 DEF BeforeLastRevote
<1>4. WholeWait = SETTLE + ((m * ROUND + ROUND) + PROPAGATION)
  BY <1>2 DEF WholeWait
<1>5. \A bot \in GoodBot : Remaining(bot) \in Nat
  BY RemainingType
<1> QED
  BY <1>2, <1>3, <1>4, <1>5, DurationTypes

\* A tick takes one from all the waits at once, unless it is a fault.
LEMMA WaitsTick ==
  ASSUME Good, AllTracked, Waits, Listening, [Next]_vars, Served', Tick, Listening'
  PROVE  Waits'
<1>1. /\ Bot' = Bot /\ Fickle' = Fickle /\ LastVotes' = LastVotes
      /\ conns' = conns /\ pending' = pending /\ faults \in Nat
      /\ \A c \in Bot : bots'[c] = Ticked(bots[c])
      /\ \/ Quiet /\ faults' = faults
         \/ ~Quiet /\ faults' = faults + 1
  <2>1. /\ Bot' = Bot /\ Fickle' = Fickle /\ LastVotes' = LastVotes
    BY ThroughView DEF Listening
  <2>2. /\ conns' = conns /\ pending' = pending
        /\ \A c \in Bot : bots'[c] = Ticked(bots[c])
        /\ \/ Quiet /\ faults' = faults
           \/ ~Quiet /\ faults' = faults + 1
    BY TickFacts
  <2> QED
    BY <2>1, <2>2 DEF Good, RestGood
<1>2. /\ \A c \in Bot : bots[c] \in GoodBot /\ Tracked(bots[c], conns[c], faults)
      /\ \A b \in Fickle : b \in Bot /\ bots[b].pc \in Late
  BY BotsAre DEF AllTracked, Listening, Through, Fickle
<1>3. \A c \in Bot :
         /\ bots'[c].kind = bots[c].kind /\ bots'[c].pc = bots[c].pc /\ bots'[c].left = bots[c].left
         /\ bots'[c].leader = bots[c].leader /\ bots'[c].snap = bots[c].snap
         /\ bots[c].timer \in Nat
         /\ bots'[c].timer = IF bots[c].timer > 0 THEN bots[c].timer - 1 ELSE 0
  BY <1>1, <1>2 DEF Ticked, GoodBot, BotState
<1>4. /\ \A b \in Fickle : ToRevote(bots'[b]) = ToRevote(bots[b])
      /\ LeaderToRevote' = LeaderToRevote
  <2>1. \A b \in Fickle : ToRevote(bots'[b]) = ToRevote(bots[b])
    BY <1>2, <1>3 DEF ToRevote
  <2> QED
    BY <1>1, <2>1 DEF LeaderToRevote
<1>5. \A b \in Fickle :
         /\ Remaining(bots[b]) \in Nat /\ Remaining(bots'[b]) \in Int
         /\ Remaining(bots'[b]) <= Remaining(bots[b]) /\ Remaining(bots[b]) <= Remaining(bots'[b]) + 1
         /\ Quiet => Remaining(bots[b]) = Remaining(bots'[b]) + 1
  <2>1. ASSUME NEW b \in Fickle
        PROVE  /\ Remaining(bots[b]) \in Nat /\ Remaining(bots'[b]) \in Int
               /\ Remaining(bots'[b]) <= Remaining(bots[b])
               /\ Remaining(bots[b]) <= Remaining(bots'[b]) + 1
               /\ Quiet => Remaining(bots[b]) = Remaining(bots'[b]) + 1
    <3>1. PICK k \in Nat : k = (IF bots[b].pc = "settle" THEN ROUNDS * ROUND + PROPAGATION
                                ELSE IF bots[b].pc = "revote" THEN bots[b].left * ROUND + PROPAGATION
                                ELSE 0)
      <4>1. bots[b].left \in Nat
        BY <1>2 DEF GoodBot, BotState
      <4>2. ROUNDS * ROUND \in Nat /\ bots[b].left * ROUND \in Nat
        BY <4>1, DurationTypes
      <4> QED
        BY <4>2, DurationTypes
    <3>2. Remaining(bots[b]) = bots[b].timer + k /\ Remaining(bots'[b]) = bots'[b].timer + k
      BY <1>2, <1>3, <3>1 DEF Remaining
    <3>3. Quiet => bots[b].timer > 0
      BY QuietListeners
    <3> QED
      BY <1>2, <1>3, <3>2, <3>3
  <2> QED
    BY <2>1
<1>6. ~Delayed'
  <2>1. \A c \in Bot : bots[c].kind = "quitter" => ~(bots'[c].timer > 0)
    BY <1>2, <1>3 DEF Tracked
  <2> QED
    BY <1>1, <1>3, <2>1 DEF Delayed
<1>7. Delay' = 0
  BY <1>6 DEF Delay
<1>8. Clean => Clean'
  BY CleanStep DEF Listening
<1>9. /\ \A b, c \in Fickle : Remaining(bots[b]) <= Remaining(bots[c]) + faults
      /\ faults >= BeforeLastRevote \/ Settling \/ Revoted
  BY DEF Waits
<1>10. \A b, c \in Fickle : Remaining(bots'[b]) <= Remaining(bots'[c]) + faults'
  <2>1. ASSUME NEW b \in Fickle, NEW c \in Fickle
        PROVE  Remaining(bots'[b]) <= Remaining(bots'[c]) + faults'
    <3>1. Remaining(bots[b]) <= Remaining(bots[c]) + faults
      BY <1>9
    <3> QED
      BY <1>1, <1>5, <3>1
  <2> QED
    BY <2>1
<1>11. faults' >= BeforeLastRevote \/ Settling' \/ Revoted'
  <2>1. CASE faults >= BeforeLastRevote
    BY <1>1, <2>1, WaitTypes
  <2>2. CASE Settling
    <3>1. LeaderToRevote'
      BY <1>4, <2>2 DEF Settling
    <3>2. Clean' \/ \A b \in Fickle : Remaining(bots'[b]) + faults' >= WholeWait
      <4>1. CASE Clean
        BY <1>8, <4>1
      <4>2. CASE Quiet /\ ~Delayed
        BY <1>8, <4>2, QuietClean
      <4>3. CASE ~Clean /\ ~(Quiet /\ ~Delayed)
        <5>1. ASSUME NEW b \in Fickle PROVE Remaining(bots'[b]) + faults' >= WholeWait
          <6>1. Remaining(bots[b]) + faults >= WholeWait + Delay
            BY <2>2, <4>3 DEF Settling
          <6>2. Quiet => Delay = 1
            BY <4>3, DelayType
          <6> QED
            BY <1>1, <1>5, <6>1, <6>2, DelayType, WaitTypes
        <5> QED
          BY <5>1
      <4> QED
        BY <4>1, <4>2, <4>3
    <3>3. Clean' \/ \A b \in Fickle : Remaining(bots'[b]) + faults' >= WholeWait + Delay'
      BY <1>7, <3>2, WaitTypes
    <3> QED
      BY <1>1, <3>1, <3>3 DEF Settling, WholeWait
  <2>3. CASE Revoted
    <3>1. ~LeaderToRevote' /\ Clean'
      BY <1>4, <1>8, <2>3 DEF Revoted
    <3>2. Overtaken' = Overtaken /\ Coming' = Coming
      BY <1>1 DEF Overtaken, Coming
    <3>3. Coming \/ \A b \in Fickle \ Overtaken : Fresh(bots'[b], conns[b], LastVotes)
      BY <1>2, <1>3, <2>3 DEF Revoted, Fresh
    <3>4. \/ \A b \in Fickle \ Overtaken : bots'[b].snap = LastVotes
          \/ \A b \in Fickle : Remaining(bots'[b]) + faults' >= ROUND + PROPAGATION
      <4>1. CASE \A b \in Fickle \ Overtaken : bots[b].snap = LastVotes
        BY <1>2, <1>3, <4>1
      <4>2. CASE Quiet
        <5>1. ~Coming /\ DOMAIN <<>> = {} /\ \A b \in Fickle : conns[b].queue = <<>>
          BY <4>2, QuietListeners
        <5>2. \A b \in Fickle \ Overtaken : bots[b].snap = LastVotes
          BY <2>3, <5>1 DEF Revoted, Fresh
        <5> QED
          BY <1>2, <1>3, <5>2
      <4>3. CASE ~Quiet /\ ~(\A b \in Fickle \ Overtaken : bots[b].snap = LastVotes)
        <5>1. ASSUME NEW b \in Fickle PROVE Remaining(bots'[b]) + faults' >= ROUND + PROPAGATION
          <6>1. Remaining(bots[b]) + faults >= ROUND + PROPAGATION
            BY <2>3, <4>3 DEF Revoted
          <6> QED
            BY <1>1, <1>5, <4>3, <6>1, WaitTypes
        <5> QED
          BY <5>1
      <4> QED
        BY <4>1, <4>2, <4>3
    <3> QED
      BY <1>1, <3>1, <3>2, <3>3, <3>4 DEF Revoted
  <2> QED
    BY <1>9, <2>1, <2>2, <2>3
<1> QED
  BY <1>1, <1>10, <1>11 DEF Waits, BeforeLastRevote

\* Being sent something, a listening bot has it in its queue, and keeps what it
\* had unless its receiver is overtaken.
LEMMA ToldFresh ==
  ASSUME NEW bot, NEW c \in GoodConn, NEW d \in GoodConn, NEW s, NEW last,
         Told(c, d, s), d.state = "open",
         s # None \/ (Fresh(bot, c, last) /\ ~d.overtaken)
  PROVE  Fresh(bot, d, last)
<1>1. c.queue \in Seq(Event)
  BY DEF GoodConn, ConnState
<1>2. CASE d.queue = c.queue /\ s = None
  BY <1>2 DEF Fresh
<1>3. ASSUME NEW e, e.counts = s, d.queue = Append(c.queue, e)
      PROVE  Fresh(bot, d, last)
  <2>1. /\ \A i \in DOMAIN c.queue : i \in DOMAIN Append(c.queue, e) /\ Append(c.queue, e)[i] = c.queue[i]
        /\ Len(c.queue) + 1 \in DOMAIN Append(c.queue, e) /\ Append(c.queue, e)[Len(c.queue) + 1] = e
    BY <1>1
  <2> QED
    BY <1>3, <2>1 DEF Fresh
<1>4. ASSUME NEW e, e.counts = s, d.queue = Append(Tail(c.queue), e), c.queue # <<>>, s # None
      PROVE  Fresh(bot, d, last)
  <2> DEFINE t == Tail(c.queue)
  <2>1. t \in Seq(Event)
    BY <1>1, <1>4
  <2> HIDE DEF t
  <2>2. Len(t) + 1 \in DOMAIN Append(t, e) /\ Append(t, e)[Len(t) + 1] = e
    BY <2>1
  <2>3. d.queue = Append(t, e)
    BY <1>4 DEF t
  <2> QED
    BY <1>4, <2>2, <2>3 DEF Fresh
<1> QED
  BY <1>2, <1>3, <1>4 DEF Told

LEMMA WaitsServer ==
  ASSUME Good, AllTracked, Waits, Listening, [Next]_vars, Served',
         Flush \/ \E b \in Bot : ServerStep(b)
  PROVE  Waits'
<1>1. /\ Bot' = Bot /\ Fickle' = Fickle /\ LastVotes' = LastVotes
      /\ bots' = bots /\ faults' = faults
      /\ \A c \in Bot : conns'[c] \in GoodConn
      /\ \A c \in Bot : conns[c].overtaken => conns'[c].overtaken
      /\ \A c \in Bot : Moved(conns[c], conns'[c], Ended(c))
  BY ThroughView, ServerEffect DEF Listening, Through
<1>2. PICK s \in {None, pending, BoardOf(conns')} :
         Passed(s) /\ \A c \in Bot : Told(conns[c], conns'[c], s)
  BY ServerEffect DEF Listening, Through
<1>3. /\ \A c \in Bot : bots[c] \in GoodBot /\ conns[c] \in GoodConn /\ Tracked(bots[c], conns[c], faults)
      /\ \A b \in Fickle : b \in Bot /\ bots[b].kind = "fickle" /\ bots[b].pc \in Late /\ ~Ended(b)
      /\ request.msgs \in Nat /\ request.msgs > 0
  BY BotsAre, RequestType DEF AllTracked, Listening, Through, Fickle, Late, Ended, Good, RestGood
<1>4. LeaderToRevote' = LeaderToRevote /\ Delay' = Delay
  BY <1>1 DEF LeaderToRevote, Delay, Delayed
<1>5. Clean => Clean'
  BY CleanStep DEF Listening
<1>6. /\ \A b, c \in Fickle : Remaining(bots[b]) <= Remaining(bots[c]) + faults
      /\ faults >= BeforeLastRevote \/ Settling \/ Revoted
  BY DEF Waits
<1>7. Settling => Settling'
  BY <1>1, <1>4, <1>5 DEF Settling, WholeWait
<1>8. ASSUME Revoted PROVE Revoted'
  <2>1. Clean' /\ Steady' /\ ~LeaderToRevote'
    BY <1>4, <1>5, <1>8 DEF Revoted, Clean
  <2>2. Overtaken \subseteq Overtaken'
    BY <1>1 DEF Overtaken
  <2>3. \A b \in Fickle : conns'[b].state = "open"
    <3>1. \A b \in Fickle : bots'[b].pc # "done"
      BY <1>1, <1>3 DEF Late
    <3> QED
      BY <1>1, <2>1, <3>1 DEF Steady
  <2>4. Coming' \/ \A b \in Fickle \ Overtaken' : Fresh(bots[b], conns'[b], LastVotes)
    <3>1. CASE s # None
      BY <1>1, <1>2, <1>3, <2>3, <3>1, ToldFresh
    <3>2. CASE Coming /\ s = None
      <4>1. CASE pending # None
        BY <1>2, <3>2, <4>1 DEF Passed, Coming
      <4>2. ASSUME NEW b \in Fickle, conns[b].inbox # <<>>, conns'[b].inbox = <<>>
            PROVE  pending' # None
        <5>1. Head(conns[b].inbox).option # None
          <6>1. conns[b].inbox \in Seq(Line)
            BY <1>3 DEF GoodConn, ConnState
          <6>2. 1 \in DOMAIN conns[b].inbox /\ Head(conns[b].inbox) = conns[b].inbox[1]
            BY <4>2, <6>1
          <6> QED
            BY <1>3, <6>2 DEF Tracked
        <5> QED
          BY <1>2, <1>3, <3>2, <4>2, <5>1 DEF Passed
      <4> QED
        BY <1>1, <3>2, <4>1, <4>2 DEF Coming
    <3>3. CASE ~Coming
      <4>1. \A b \in Fickle \ Overtaken' : Fresh(bots[b], conns[b], LastVotes) /\ ~conns'[b].overtaken
        BY <1>1, <1>3, <1>8, <2>2, <3>3 DEF Revoted, Overtaken
      <4> QED
        BY <1>2, <1>1, <1>3, <2>3, <4>1, ToldFresh
    <3> QED
      BY <3>1, <3>2, <3>3
  <2>5. \/ \A b \in Fickle \ Overtaken' : bots[b].snap = LastVotes
        \/ \A b \in Fickle : Remaining(bots[b]) + faults >= ROUND + PROPAGATION
    BY <1>8, <2>2 DEF Revoted
  <2> QED
    BY <1>1, <2>1, <2>4, <2>5 DEF Revoted
<1>9. faults' >= BeforeLastRevote \/ Settling' \/ Revoted'
  BY <1>1, <1>6, <1>7, <1>8
<1>10. \A b, c \in Fickle : Remaining(bots'[b]) <= Remaining(bots'[c]) + faults'
  BY <1>1, <1>6
<1> QED
  BY <1>1, <1>9, <1>10 DEF Waits, BeforeLastRevote

LEMMA WaitsFickle ==
  ASSUME Good, AllTracked, Waits, Listening, [Next]_vars, Served', Listening',
         NEW b \in Bot, FickleStep(b)
  PROVE  Waits'
<1>1. /\ Bot' = Bot /\ Fickle' = Fickle /\ LastVotes' = LastVotes /\ b \in Fickle
      /\ faults' = faults /\ pending' = pending
      /\ \A c \in Bot : bots'[c].kind = bots[c].kind
      /\ \A c \in Bot \ {b} : bots'[c] = bots[c] /\ conns'[c] = conns[c]
      /\ bots'[b].pc # "done"
      /\ HearsLate(b) \/ WaitsLate(b) \/ RevotesLate(b)
  <2>1. /\ Bot' = Bot /\ Fickle' = Fickle /\ LastVotes' = LastVotes
        /\ \A c \in Bot : bots'[c].kind = bots[c].kind
    BY ThroughView DEF Listening
  <2>2. b \in Fickle
    BY DEF FickleStep
  <2> QED
    BY <2>1, <2>2 DEF FickleStep, Listening
<1>2. /\ \A c \in Bot : bots[c] \in GoodBot /\ conns[c] \in GoodConn
      /\ \A c \in Fickle : c \in Bot /\ bots[c].kind = "fickle" /\ Remaining(bots[c]) \in Nat
      /\ faults \in Nat
  BY BotsAre, WaitTypes DEF Fickle, Good, RestGood
<1>3. Remaining(bots'[b]) = Remaining(bots[b])
  BY <1>1 DEF HearsLate, WaitsLate, RevotesLate
<1>4. \A c \in Fickle : Remaining(bots'[c]) = Remaining(bots[c])
  BY <1>1, <1>2, <1>3
<1>5. Delay' = Delay
  <2>1. \A c \in Bot : bots[c].kind = "quitter" => bots'[c] = bots[c]
    BY <1>1, <1>2
  <2> QED
    BY <1>1, <2>1 DEF Delay, Delayed
<1>6. Clean => Clean'
  BY CleanStep DEF Listening
<1>7. /\ \A d, c \in Fickle : Remaining(bots[d]) <= Remaining(bots[c]) + faults
      /\ faults >= BeforeLastRevote \/ Settling \/ Revoted
  BY DEF Waits
<1>8. \A d, c \in Fickle : Remaining(bots'[d]) <= Remaining(bots'[c]) + faults'
  BY <1>1, <1>4, <1>7
\* what the last re-vote needs as well
<1>9. ASSUME RevotesLate(b)
      PROVE  Coming' /\ Overtaken' = Overtaken /\ \A c \in Fickle : bots'[c].snap = bots[c].snap
  <2>1. Coming'
    BY <1>1, <1>9 DEF RevotesLate, Delivered, Coming
  <2>2. \A c \in Bot : conns'[c].overtaken = conns[c].overtaken
    BY <1>1, <1>9 DEF RevotesLate, Delivered
  <2>3. \A c \in Fickle : bots'[c].snap = bots[c].snap
    BY <1>1, <1>2, <1>9 DEF RevotesLate
  <2> QED
    BY <1>1, <2>1, <2>2, <2>3 DEF Overtaken
<1>10. ASSUME \A c \in Fickle : ToRevote(bots'[c]) = ToRevote(bots[c])
       PROVE  Waits'
  <2>1. LeaderToRevote' = LeaderToRevote
    BY <1>1, <1>10 DEF LeaderToRevote
  <2>2. Settling => Settling'
    BY <1>1, <1>4, <1>5, <1>6, <2>1 DEF Settling, WholeWait
  <2>3. ASSUME Revoted PROVE Revoted'
    <3>1. Clean' /\ ~LeaderToRevote'
      BY <1>6, <2>1, <2>3 DEF Revoted
    <3>2. CASE RevotesLate(b)
      <4>1. Coming' /\ Overtaken' = Overtaken /\ \A c \in Fickle : bots'[c].snap = bots[c].snap
        BY <1>9, <3>2
      <4>2. \/ \A c \in Fickle \ Overtaken : bots'[c].snap = LastVotes
            \/ \A c \in Fickle : Remaining(bots'[c]) + faults' >= ROUND + PROPAGATION
        BY <1>1, <1>4, <2>3, <4>1 DEF Revoted
      <4> QED
        BY <1>1, <3>1, <4>1, <4>2 DEF Revoted
    <3>3. CASE HearsLate(b) \/ WaitsLate(b)
      <4>1. /\ conns'[b].inbox = conns[b].inbox /\ conns'[b].overtaken = conns[b].overtaken
            /\ \/ conns'[b].queue = conns[b].queue /\ bots'[b].snap = bots[b].snap
               \/ /\ conns[b].queue # <<>> /\ conns'[b].queue = Tail(conns[b].queue)
                  /\ bots'[b].snap = IF Head(conns[b].queue).counts = None THEN bots[b].snap
                                     ELSE Head(conns[b].queue).counts
        <5>1. CASE HearsLate(b)
          BY <1>2, <5>1 DEF HearsLate, Took, GoodConn, ConnState
        <5>2. CASE WaitsLate(b)
          BY <5>2 DEF WaitsLate
        <5> QED
          BY <3>3, <5>1, <5>2
      <4>2. conns[b].queue \in Seq(Event)
        BY <1>2 DEF GoodConn, ConnState
      <4>3. conns[b].queue # <<>> =>
               /\ 1 \in DOMAIN conns[b].queue /\ Head(conns[b].queue) = conns[b].queue[1]
               /\ \A i \in DOMAIN conns[b].queue :
                     i # 1 => i - 1 \in DOMAIN Tail(conns[b].queue)
                              /\ Tail(conns[b].queue)[i - 1] = conns[b].queue[i]
        BY <4>2
      <4>4. ASSUME conns[b].queue # <<>>, Head(conns[b].queue).counts # None
            PROVE  Head(conns[b].queue).counts = LastVotes
        <5>1. Head(conns[b].queue) \in Event
          BY <4>2, <4>3, <4>4
        <5>2. Head(conns[b].queue).counts \in Counts
          BY <4>4, <5>1 DEF Event
        <5>3. Head(conns[b].queue).counts \in Travelling
          BY <1>1, <4>3, <4>4, <5>2 DEF Travelling
        <5> QED
          BY <2>3, <5>3, CleanListeners DEF Revoted
      <4>5. bots'[b].snap = bots[b].snap \/ bots'[b].snap = LastVotes
        BY <4>1, <4>4
      <4>6. Fresh(bots[b], conns[b], LastVotes) => Fresh(bots'[b], conns'[b], LastVotes)
        <5>1. CASE bots[b].snap = LastVotes
          BY <4>5, <5>1 DEF Fresh
        <5>2. ASSUME NEW i \in DOMAIN conns[b].queue, conns[b].queue[i].counts # None
              PROVE  Fresh(bots'[b], conns'[b], LastVotes)
          <6>1. CASE conns'[b].queue = conns[b].queue
            BY <5>2, <6>1 DEF Fresh
          <6>2. CASE conns[b].queue # <<>> /\ conns'[b].queue = Tail(conns[b].queue) /\ i # 1
            BY <4>3, <5>2, <6>2 DEF Fresh
          <6>3. CASE conns[b].queue # <<>> /\ conns'[b].queue = Tail(conns[b].queue) /\ i = 1
            <7>1. Head(conns[b].queue).counts # None
              BY <4>3, <5>2, <6>3
            <7>2. bots'[b].snap = Head(conns[b].queue).counts \/ conns'[b].queue = conns[b].queue
              BY <4>1, <7>1
            <7> QED
              BY <4>4, <6>1, <6>3, <7>1, <7>2 DEF Fresh
          <6> QED
            BY <4>1, <6>1, <6>2, <6>3
        <5> QED
          BY <5>1, <5>2 DEF Fresh
      <4>7. Overtaken' = Overtaken /\ Coming' = Coming
        <5>1. \A c \in Bot : conns'[c].overtaken = conns[c].overtaken /\ conns'[c].inbox = conns[c].inbox
          BY <1>1, <4>1
        <5>2. Overtaken' = Overtaken
          BY <1>1, <5>1 DEF Overtaken
        <5>3. Coming' = Coming
          BY <1>1, <1>2, <5>1 DEF Coming
        <5> QED
          BY <5>2, <5>3
      <4>8. Coming \/ \A c \in Fickle \ Overtaken : Fresh(bots'[c], conns'[c], LastVotes)
        BY <1>1, <1>2, <2>3, <4>6 DEF Revoted
      <4>9. \/ \A c \in Fickle \ Overtaken : bots'[c].snap = LastVotes
            \/ \A c \in Fickle : Remaining(bots'[c]) + faults' >= ROUND + PROPAGATION
        <5>1. CASE \A c \in Fickle \ Overtaken : bots[c].snap = LastVotes
          BY <1>1, <1>2, <4>5, <5>1
        <5> QED
          BY <1>1, <1>4, <2>3, <5>1 DEF Revoted
      <4> QED
        BY <1>1, <3>1, <4>7, <4>8, <4>9 DEF Revoted
    <3> QED
      BY <1>1, <3>2, <3>3
  <2> QED
    BY <1>1, <1>7, <1>8, <2>2, <2>3 DEF Waits, BeforeLastRevote
\* the last re-vote
<1>11. ASSUME RevotesLate(b), ToRevote(bots[b]), ~ToRevote(bots'[b])
       PROVE  Waits'
  <2>1. Remaining(bots[b]) = ROUND + PROPAGATION
    BY <1>11 DEF RevotesLate
  <2>2. LeaderToRevote
    BY <1>1, <1>11 DEF LeaderToRevote
  <2>3. CASE LeaderToRevote'
    <3>1. Settling => Settling'
      BY <1>1, <1>4, <1>5, <1>6, <2>3 DEF Settling, WholeWait
    <3> QED
      BY <1>1, <1>7, <1>8, <2>2, <3>1 DEF Waits, BeforeLastRevote, Revoted
  <2>4. CASE ~LeaderToRevote' /\ Clean
    <3>1. Coming' /\ Clean'
      BY <1>6, <1>9, <1>11, <2>4
    <3>2. \A c \in Fickle : Remaining(bots'[c]) + faults' >= ROUND + PROPAGATION
      BY <1>1, <1>4, <1>7, <2>1
    <3>3. Revoted'
      BY <1>1, <2>4, <3>1, <3>2 DEF Revoted
    <3> QED
      BY <1>1, <1>8, <3>3 DEF Waits, BeforeLastRevote
  <2>5. CASE ~Clean
    <3>1. faults >= BeforeLastRevote
      <4>1. CASE Settling
        <5>1. Remaining(bots[b]) + faults >= WholeWait + Delay
          BY <1>1, <2>5, <4>1 DEF Settling
        <5> QED
          BY <1>2, <2>1, <5>1, DelayType, WaitTypes
      <4> QED
        BY <1>7, <2>5, <4>1 DEF Revoted
    <3> QED
      BY <1>1, <1>8, <3>1 DEF Waits, BeforeLastRevote
  <2> QED
    BY <2>3, <2>4, <2>5
<1>12. \/ ToRevote(bots'[b]) = ToRevote(bots[b])
       \/ RevotesLate(b) /\ ToRevote(bots[b]) /\ ~ToRevote(bots'[b])
  <2>1. CASE RevotesLate(b)
    <3>1. ToRevote(bots'[b]) => ToRevote(bots[b])
      BY <2>1 DEF RevotesLate, ToRevote
    <3>2. ToRevote(bots[b]) \in BOOLEAN /\ ToRevote(bots'[b]) \in BOOLEAN
      BY DEF ToRevote
    <3> QED
      BY <2>1, <3>1, <3>2
  <2>2. CASE HearsLate(b) \/ WaitsLate(b)
    BY <1>1, <2>2 DEF HearsLate, WaitsLate
  <2> QED
    BY <1>1, <2>1, <2>2
<1> QED
  BY <1>1, <1>2, <1>10, <1>11, <1>12

LEMMA WaitsOther ==
  ASSUME Good, AllTracked, Waits, Listening, [Next]_vars, Served', NEW b \in Bot, OtherStep(b)
  PROVE  Waits'
<1>1. /\ Bot' = Bot /\ Fickle' = Fickle /\ LastVotes' = LastVotes
      /\ AllTracked' /\ Good' /\ \A c \in Bot : bots'[c].kind = bots[c].kind
  BY ThroughView DEF Listening
<1>2. /\ b \in Bot \ Fickle /\ BotStep(b) /\ ~Ended(b) /\ pending' = pending
      /\ \A c \in Bot \ {b} : bots'[c] = bots[c] /\ conns'[c] = conns[c]
  BY DEF OtherStep
<1>3. /\ \A c \in Fickle : /\ c \in Bot /\ c # b /\ bots'[c] = bots[c] /\ conns'[c] = conns[c]
                           /\ Remaining(bots[c]) \in Nat
      /\ faults \in Nat /\ faults' \in Nat /\ faults <= faults'
  BY <1>1, <1>2, BotsAre, WaitTypes DEF Fickle, Good, RestGood, OtherStep
<1>4. LeaderToRevote' = LeaderToRevote /\ Coming' = Coming
  BY <1>1, <1>2, <1>3 DEF LeaderToRevote, Coming
<1>5. Fickle \ Overtaken' = Fickle \ Overtaken
  BY <1>1, <1>3 DEF Overtaken
<1>6. Clean => Clean'
  BY CleanStep DEF Listening
<1>7. Delay' <= Delay \/ faults' >= faults + 1
  <2>1. ASSUME Delayed', ~Delayed PROVE faults' >= faults + 1
    <3>1. bots[b].kind = "quitter" /\ bots'[b].timer > 0 /\ ~(bots[b].timer > 0)
      <4>1. PICK c \in Bot : bots'[c].kind = "quitter" /\ bots'[c].timer > 0
        BY <1>1, <2>1 DEF Delayed
      <4>2. c = b
        BY <1>2, <2>1, <4>1 DEF Delayed
      <4> QED
        BY <1>1, <2>1, <4>1, <4>2 DEF Delayed
    <3>2. bots'[b].pc = "connect"
      <4>1. Tracked(bots[b], conns[b], faults)' 
        BY <1>1 DEF AllTracked
      <4> QED
        BY <1>1, <3>1, <4>1 DEF Tracked
    <3>3. bots[b].pc \in {"connect", "send", "done"} /\ bots[b] \in GoodBot
      BY <3>1, BotsAre DEF AllTracked, Tracked, Listening, Through
    <3>4. Connect(b) \/ Quit(b)
      BY <1>2, <3>1, <3>3 DEF BotStep, SendVote, SendChat, SendSpam, SendLine, StartReceiving,
         Receive, StopReceiving, Hear, Arrive, Settled, Revote, AwaitPropagation, Finish, Release,
         EndAt, Due, Fickle, Chatters
    <3>5. CASE Quit(b)
      <4>1. bots'[b].pc # "connect"
        <5>1. PICK r : Go(b, r) /\ r.pc # "connect"
          <6>1. Done(bots[b]).pc = "done" /\ FailedBot(b).pc = "failed"
            BY <3>3 DEF Done, FailedBot, GoodBot, BotState
          <6> QED
            BY <3>5, <6>1 DEF Quit, Send, FailedBot
        <5> QED
          BY <5>1, GoView
      <4> QED
        BY <3>2, <4>1
    <3>6. CASE Connect(b)
      <4>1. ASSUME Go(b, [bots[b] EXCEPT !.pc = "send"]) PROVE FALSE
        <5>1. bots'[b] = [bots[b] EXCEPT !.pc = "send"]
          BY <4>1, GoView
        <5>2. bots'[b].pc = "send"
          BY <3>3, <5>1 DEF GoodBot, BotState
        <5> QED
          BY <3>2, <5>2
      <4> QED
        BY <1>3, <3>1, <3>6, <4>1 DEF Connect
    <3> QED
      BY <3>4, <3>5, <3>6
  <2>2. Delay' = IF Delayed' THEN 1 ELSE 0
    BY DEF Delay
  <2>3. Delay = IF Delayed THEN 1 ELSE 0
    BY DEF Delay
  <2> QED
    BY <2>1, <2>2, <2>3
<1>8. /\ \A d, c \in Fickle : Remaining(bots[d]) <= Remaining(bots[c]) + faults
      /\ faults >= BeforeLastRevote \/ Settling \/ Revoted
  BY DEF Waits
<1>9. Settling => Settling'
  <2>1. ASSUME Settling, ~Clean, NEW c \in Fickle
        PROVE  Remaining(bots'[c]) + faults' >= WholeWait + Delay'
    <3>1. Remaining(bots[c]) + faults >= WholeWait + Delay
      BY <2>1 DEF Settling
    <3>2. Delay' \in {0, 1}
      BY DEF Delay
    <3> QED
      BY <1>3, <1>7, <3>1, <3>2, DelayType, WaitTypes
  <2> QED
    BY <1>1, <1>4, <1>6, <2>1 DEF Settling, WholeWait
<1>10. Revoted => Revoted'
  <2>1. ASSUME Revoted, NEW c \in Fickle, Remaining(bots[c]) + faults >= ROUND + PROPAGATION
        PROVE  Remaining(bots'[c]) + faults' >= ROUND + PROPAGATION
    BY <1>3, <2>1, WaitTypes
  <2> QED
    BY <1>1, <1>3, <1>4, <1>5, <1>6, <2>1 DEF Revoted
<1>11. \A d, c \in Fickle : Remaining(bots'[d]) <= Remaining(bots'[c]) + faults'
  <2>1. ASSUME NEW d \in Fickle, NEW c \in Fickle
        PROVE  Remaining(bots'[d]) <= Remaining(bots'[c]) + faults'
    <3>1. Remaining(bots[d]) <= Remaining(bots[c]) + faults
      BY <1>8
    <3> QED
      BY <1>3, <3>1
  <2> QED
    BY <2>1
<1>12. faults' >= BeforeLastRevote \/ Settling' \/ Revoted'
  BY <1>3, <1>8, <1>9, <1>10, WaitTypes
<1> QED
  BY <1>1, <1>11, <1>12 DEF Waits, BeforeLastRevote

Early == {"connect", "send", "barrier"}

\* A bot on this side of the barrier stays there until it arrives.
LEMMA EarlyStep ==
  ASSUME Good, NEW b \in Fickle, bots[b].pc \in Early, BotStep(b), ~Arrive(b)
  PROVE  bots'[b].pc \in Early \cup {"failed"}
<1>1. b \in Bot /\ bots[b] \in GoodBot /\ bots[b].kind = "fickle" /\ bots[b].pc \in {"connect", "send", "barrier"}
  BY BotsAre DEF Fickle, Early
<1>2. Connect(b) \/ SendVote(b) \/ Hear(b)
  BY <1>1 DEF BotStep, Quit, SendChat, SendSpam, SendLine, StartReceiving,
     Receive, StopReceiving, Settled, Revote, AwaitPropagation, Finish, Release, EndAt, Due, Chatters
<1>3. ASSUME NEW r, Go(b, r), r.pc \in Early \cup {"failed"}
      PROVE  bots'[b].pc \in Early \cup {"failed"}
  BY <1>1, <1>3, GoView
<1>4. FailedBot(b).pc = "failed"
  BY <1>1 DEF FailedBot, GoodBot, BotState
<1>5. CASE Connect(b)
  <2> DEFINE r1 == [bots[b] EXCEPT !.pc = "send"]
             r2 == [bots[b] EXCEPT !.tries = @ + 1, !.timer = 1]
  <2>1. Go(b, r1) \/ Go(b, FailedBot(b)) \/ Go(b, r2)
    BY <1>1, <1>5 DEF Connect, FailedBot
  <2>2. r1.pc = "send" /\ r2.pc = bots[b].pc
    BY <1>1 DEF GoodBot, BotState
  <2> HIDE DEF r1, r2
  <2> QED
    BY <1>3, <1>4, <2>1, <2>2 DEF Early
<1>6. CASE SendVote(b)
  <2> DEFINE r(o) == [bots[b] EXCEPT !.vote = o, !.left = @ - 1, !.timer = VOTE_INTERVAL]
  <2>1. PICK o \in Option : Go(b, r(o)) \/ Go(b, FailedBot(b))
    BY <1>6 DEF SendVote, Send, FailedBot
  <2>2. r(o).pc = bots[b].pc
    BY <1>1 DEF GoodBot, BotState
  <2> HIDE DEF r
  <2> QED
    BY <1>3, <1>4, <2>1, <2>2
<1>7. CASE Hear(b)
  <2> DEFINE r == [bots[b] EXCEPT !.snap = Head(conns[b].queue).counts]
  <2>1. bots' = bots \/ Go(b, r)
    BY <1>7 DEF Hear
  <2>2. r.pc = bots[b].pc
    BY <1>1 DEF GoodBot, BotState
  <2> HIDE DEF r
  <2> QED
    BY <1>3, <2>1, <2>2
<1> QED
  BY <1>2, <1>5, <1>6, <1>7

\* All pass the barrier in the step of the last one.
LEMMA ThroughBefore ==
  ASSUME Good, AllTracked, [Next]_vars, Through', ~Through
  PROVE  \E b \in Bot :
            /\ Arrive(b) /\ AtBarrier \cup {b} = Fickle
            /\ bots' = [c \in Bot |-> IF c \in Fickle
                                      THEN [bots[c] EXCEPT !.pc = "settle", !.timer = SETTLE,
                                                           !.leader = (c = b)]
                                      ELSE bots[c]]
<1>1. ~Spawn
  <2>1. ASSUME Spawn PROVE FALSE
    <3>1. PICK n, kind :
            /\ n \in 0 .. MaxBots
            /\ bots' = [b \in 1 .. n |-> NewBot(kind[b], request.msgs)]
            /\ conns' = [b \in 1 .. n |-> NewConn]
            /\ request' = request
      BY <2>1, SpawnFacts
    <3>2. PICK b \in Bot' : bots'[b].kind = "fickle" /\ bots'[b].pc \in Late \cup {"done"}
      BY DEF Through, Fickle
    <3>3. b \in 1 .. n /\ bots'[b] = NewBot(kind[b], request.msgs)
      BY <3>1, <3>2 DEF Bot
    <3>4. bots'[b].pc = "connect"
      BY <3>2, <3>3 DEF NewBot, BotType
    <3> QED
      BY <3>2, <3>4 DEF Late
  <2> QED
    BY <2>1
<1>2. /\ Served /\ Bot' = Bot /\ request' = request /\ Fickle' = Fickle
      /\ \A c \in Fickle : c \in Bot /\ bots[c] \in GoodBot /\ Tracked(bots[c], conns[c], faults)
  <2>1. Served
    BY <1>1, ServedBefore DEF Through
  <2>2. Bot' = Bot /\ request' = request /\ \A c \in Bot : bots'[c].kind = bots[c].kind
    BY <1>1, StepMonotone
  <2> QED
    BY <2>1, <2>2, BotsAre DEF Fickle, AllTracked
<1>3. PICK c \in Fickle : bots[c].pc \in Early
  <2>1. PICK c \in Fickle : bots[c].pc \notin Late \cup {"done"}
    BY <1>2 DEF Through
  <2>2. bots[c].kind = "fickle"
    BY DEF Fickle
  <2>3. bots[c].pc \in Early
    BY <1>2, <2>1, <2>2 DEF Tracked, Late, Early
  <2> QED
    BY <2>3
<1>4. bots'[c].pc \in Late \cup {"done"}
  BY <1>2 DEF Through
<1>5. bots'[c].pc \notin Early \cup {"failed"}
  BY <1>4 DEF Late, Early
<1>6. ~Tick /\ ~Flush /\ ~(\E b \in Bot : ServerStep(b)) /\ ~Prepare /\ ~AssertFails /\ ~Report /\ ~UNCHANGED vars
  <2>1. ~Tick
    <3>1. Tick => bots'[c] = Ticked(bots[c])
      BY <1>2, TickFacts
    <3>2. Ticked(bots[c]).pc = bots[c].pc
      BY <1>2 DEF Ticked, GoodBot, BotState
    <3> QED
      BY <1>3, <1>5, <3>1, <3>2
  <2>2. Flush \/ (\E b \in Bot : ServerStep(b)) => bots' = bots
    BY ServerStepView
  <2> QED
    BY <1>3, <1>5, <2>1, <2>2 DEF Prepare, AssertFails, Report, vars
<1>7. PICK b \in Bot : BotStep(b)
  BY <1>1, <1>6 DEF Next
<1>8. Arrive(b)
  <2>1. ASSUME ~Arrive(b) PROVE FALSE
    <3>1. CASE c = b
      BY <1>3, <1>5, <1>7, <2>1, <3>1, EarlyStep
    <3>2. CASE c # b
      <4>1. bots'[c] = bots[c]
        BY <1>2, <1>7, <2>1, <3>2, BotStepView
      <4> QED
        BY <1>3, <1>5, <4>1
    <3> QED
      BY <3>1, <3>2
  <2> QED
    BY <2>1
<1>9. ~Go(b, [bots[b] EXCEPT !.pc = "barrier"])
  <2>1. ASSUME Go(b, [bots[b] EXCEPT !.pc = "barrier"]) PROVE FALSE
    <3>1. bots'[b] = [bots[b] EXCEPT !.pc = "barrier"] /\ b \in Fickle
      BY <1>8, <2>1, GoView, ArriveFacts
    <3>2. bots'[b].pc = "barrier"
      BY <1>2, <3>1 DEF GoodBot, BotState
    <3> QED
      BY <1>2, <3>1, <3>2 DEF Through, Late
  <2> QED
    BY <2>1
<1> QED
  BY <1>8, <1>9, ArriveFacts

LEMMA WaitsRelease ==
  ASSUME Good, AllTracked, [Next]_vars, Through', ~Through
  PROVE  Listening' /\ Waits'
<1>1. PICK b \in Bot :
         /\ Arrive(b) /\ AtBarrier \cup {b} = Fickle
         /\ bots' = [c \in Bot |-> IF c \in Fickle
                                   THEN [bots[c] EXCEPT !.pc = "settle", !.timer = SETTLE,
                                                        !.leader = (c = b)]
                                   ELSE bots[c]]
  BY ThroughBefore
<1>2. b \in Fickle /\ faults' = faults /\ Fickle \subseteq Bot
  BY <1>1, ArriveFacts DEF Fickle
<1>3. ~Spawn /\ Bot' = Bot /\ \A c \in Bot : bots'[c].kind = bots[c].kind
  <2>1. ~Spawn
    <3>1. stage = "running"
      BY <1>1, ArriveFacts
    <3> QED
      BY <3>1 DEF Spawn
  <2> QED
    BY <2>1, StepMonotone
<1>4. Fickle' = Fickle
  BY <1>3 DEF Fickle
<1>5. ASSUME NEW c \in Fickle
      PROVE  /\ bots'[c].pc = "settle" /\ bots'[c].timer = SETTLE /\ bots'[c].leader = (c = b)
             /\ Remaining(bots'[c]) = WholeWait
  <2>1. bots[c] \in GoodBot /\ bots'[c] = [bots[c] EXCEPT !.pc = "settle", !.timer = SETTLE, !.leader = (c = b)]
    BY <1>1, <1>2, BotsAre
  <2>2. bots'[c].pc = "settle" /\ bots'[c].timer = SETTLE /\ bots'[c].leader = (c = b)
    BY <2>1 DEF GoodBot, BotState
  <2> QED
    BY <2>2 DEF Remaining, WholeWait
<1>6. Listening'
  BY <1>4, <1>5 DEF Listening
<1>7. faults \in Nat /\ WholeWait \in Nat
  BY WaitTypes, RequestType DEF Good, RestGood
<1>8. WholeWait + faults >= WholeWait + Delay'
  <2>1. AllTracked' /\ Served'
    BY TrackedStep DEF Through
  <2>2. Delayed' => faults' > 0
    BY <2>1 DEF Delayed, AllTracked, Tracked
  <2>3. Delay' \in {0, 1} /\ (Delayed' <=> Delay' = 1)
    BY DEF Delay
  <2>4. Delay' <= faults
    <3>1. CASE Delayed'
      BY <1>2, <1>7, <2>2, <2>3, <3>1
    <3>2. CASE ~Delayed'
      BY <1>7, <2>3, <3>2
    <3> QED
      BY <3>1, <3>2
  <2>5. \A w, f, d \in Nat : d <= f => w + f >= w + d
    OBVIOUS
  <2>6. Delay' \in Nat
    BY <2>3
  <2> QED
    BY <1>7, <2>4, <2>5, <2>6
<1>9. Settling'
  <2>1. LeaderToRevote'
    <3>1. ToRevote(bots'[b])
      BY <1>2, <1>5 DEF ToRevote
    <3> QED
      BY <1>2, <1>4, <3>1 DEF LeaderToRevote
  <2>2. \A c \in Fickle : Remaining(bots'[c]) + faults' >= WholeWait + Delay'
    BY <1>2, <1>5, <1>8
  <2> QED
    BY <1>4, <2>1, <2>2 DEF Settling, WholeWait
<1>10. \A c, d \in Fickle : Remaining(bots'[c]) <= Remaining(bots'[d]) + faults'
  BY <1>2, <1>5, <1>7
<1> QED
  BY <1>4, <1>6, <1>9, <1>10 DEF Waits

LEMMA WaitsStep == Good /\ AllTracked /\ Waits /\ [Next]_vars => Waits'
<1> SUFFICES ASSUME Good, AllTracked, Waits, [Next]_vars, Listening' PROVE Waits'
  BY DEF Waits
<1>1. CASE ~Through
  BY <1>1, WaitsRelease DEF Listening
<1>2. CASE Through
  <2>1. Served' /\ Listening
    <3>1. Served'
      BY DEF Listening, Through
    <3>2. Fickle' = Fickle /\ \A b \in Fickle : bots[b].pc = "done" => bots'[b].pc = "done"
      BY <1>2, <3>1, ThroughView
    <3> QED
      BY <1>2, <3>1, <3>2 DEF Listening
  <2>2. CASE Tick
    BY <2>1, <2>2, WaitsTick
  <2>3. CASE Flush \/ \E b \in Bot : ServerStep(b)
    BY <2>1, <2>3, WaitsServer
  <2>4. CASE \E b \in Bot : FickleStep(b) \/ OtherStep(b)
    BY <2>1, <2>4, WaitsFickle, WaitsOther
  <2>5. CASE UNCHANGED <<bots, conns, pending, faults>>
    <3>1. /\ LeaderToRevote' = LeaderToRevote /\ Delay' = Delay /\ Coming' = Coming
          /\ Overtaken' = Overtaken /\ LastVotes' = LastVotes /\ Fickle' = Fickle
      BY <2>5 DEF LeaderToRevote, Delay, Delayed, Coming, Overtaken, LastVotes, Fickle, Bot
    <3>2. Clean => Clean'
      BY <2>1, CleanStep DEF Listening
    <3>3. Settling => Settling'
      BY <2>5, <3>1, <3>2 DEF Settling, WholeWait
    <3>4. Revoted => Revoted'
      BY <2>5, <3>1, <3>2 DEF Revoted
    <3> QED
      BY <2>1, <2>5, <3>1, <3>3, <3>4 DEF Waits, BeforeLastRevote
  <2> QED
    BY <1>2, <2>1, <2>2, <2>3, <2>4, <2>5, ThroughView
<1> QED
  BY <1>1, <1>2

LEMMA LeaderWaits ==
  ASSUME NEW bot \in GoodBot, ToRevote(bot)
  PROVE  Remaining(bot) >= ROUND + PROPAGATION
<1>1. bot.timer \in Nat /\ bot.left \in Nat /\ bot.leader
  BY DEF GoodBot, BotState, ToRevote
<1>2. CASE bot.pc = "settle"
  <2>1. ROUNDS * ROUND >= ROUND /\ ROUNDS * ROUND \in Nat
    <3>1. PICK m \in Nat : ROUNDS = m + 1
      <4>1. ROUNDS - 1 \in Nat /\ ROUNDS = (ROUNDS - 1) + 1
        BY DurationTypes
      <4> QED
        BY <4>1
    <3>2. m * ROUND \in Nat /\ ROUNDS * ROUND = m * ROUND + ROUND
      BY <3>1, DurationTypes
    <3> QED
      BY <3>2, DurationTypes
  <2> QED
    BY <1>1, <1>2, <2>1, DurationTypes DEF Remaining
<1>3. CASE bot.pc = "revote" /\ bot.left > 0
  <2>1. PICK m \in Nat : bot.left = m + 1
    <3>1. bot.left - 1 \in Nat /\ bot.left = (bot.left - 1) + 1
      BY <1>1, <1>3
    <3> QED
      BY <3>1
  <2>2. m * ROUND \in Nat /\ bot.left * ROUND = m * ROUND + ROUND
    BY <2>1, DurationTypes
  <2> QED
    BY <1>1, <1>3, <2>2, DurationTypes DEF Remaining
<1> QED
  BY <1>2, <1>3 DEF ToRevote

\* When the wait of one is over and little has gone wrong, all have heard the
\* final tally.
LEMMA ListenersHear ==
  ASSUME Good, Waits, Listening, Slack, NEW b \in Fickle, Remaining(bots[b]) = 0
  PROVE  Clean /\ \A c \in Fickle \ Overtaken : bots[c].snap = LastVotes
<1>1. /\ \A c, d \in Fickle : Remaining(bots[c]) <= Remaining(bots[d]) + faults
      /\ faults >= BeforeLastRevote \/ Settling \/ Revoted
  BY DEF Waits
<1>2. /\ \A c \in Fickle : bots[c] \in GoodBot /\ Remaining(bots[c]) \in Nat
      /\ faults \in Nat
  BY BotsAre, WaitTypes, RequestType DEF Fickle, Good, RestGood
<1>3. /\ ~(faults >= BeforeLastRevote) /\ ~(faults >= ROUND + PROPAGATION)
      /\ ~(faults >= WholeWait) /\ ~(faults >= WholeWait + 1)
  <2>1. faults < BeforeLastRevote /\ faults < ROUND + PROPAGATION
    BY DEF Slack, BeforeLastRevote
  <2> QED
    BY <1>2, <2>1, WaitTypes
<1>4. ~Settling
  <2>1. ASSUME NEW l \in Fickle, ToRevote(bots[l]) PROVE FALSE
    <3>1. Remaining(bots[l]) >= ROUND + PROPAGATION
      BY <1>2, <2>1, LeaderWaits
    <3>2. Remaining(bots[l]) <= faults
      BY <1>1, <1>2
    <3> QED
      BY <1>2, <1>3, <3>1, <3>2, WaitTypes
  <2> QED
    BY <2>1 DEF Settling, LeaderToRevote
<1>5. Revoted
  BY <1>1, <1>3, <1>4
<1>6. ~(Remaining(bots[b]) + faults >= ROUND + PROPAGATION)
  BY <1>2, <1>3
<1> QED
  BY <1>5, <1>6 DEF Revoted

LEMMA ListenersSafe ==
  ASSUME Good, AllTracked, Waits, BarrierHolds
  PROVE  ListenersHaveFinalTally
<1> SUFFICES ASSUME request.msgs > 0, AllServed, Slack, NEW b \in Fickle, Due(b, "propagate"),
                    \A c \in Fickle : ~Ended(c)
             PROVE  \A c \in Fickle \ Overtaken : bots[c].snap = LastVotes
  BY DEF ListenersHaveFinalTally
<1>1. Served /\ bots[b].pc = "propagate" /\ bots[b].timer = 0
  BY DEF Due, Served
<1>2. ASSUME NEW c \in Fickle
      PROVE  bots[c].pc \in Late
  <2>1. bots[c].pc \notin {"connect", "send", "barrier"}
    BY <1>1 DEF BarrierHolds
  <2>2. Tracked(bots[c], conns[c], faults) /\ bots[c].kind = "fickle" /\ bots[c].pc # "done"
    BY <1>1 DEF AllTracked, Fickle, Ended
  <2> QED
    BY <2>1, <2>2 DEF Tracked, Late
<1>3. Listening
  BY <1>1, <1>2 DEF Listening, Through, Late
<1>4. Remaining(bots[b]) = 0
  BY <1>1 DEF Remaining
<1> QED
  BY <1>3, <1>4, ListenersHear

\* ListenersHaveFinalTally (fickle.rs:57-85): when the first of the fickle bots is
\* about to stop listening, each has heard the votes that all of them cast last,
\* unless its receiver was overtaken or too much has gone wrong for the time
\* they wait after the barrier.
THEOREM ListenersCorrect == Spec => []ListenersHaveFinalTally
<1>1. Init => Good /\ AllTracked /\ Waits
  BY GoodInit DEF Init, AllTracked, Waits, Listening, Through, Served
<1>2. Good /\ AllTracked /\ Waits /\ [Next]_vars => (Good /\ AllTracked /\ Waits)'
  BY GoodStep, TrackedStep, WaitsStep
<1>3. Good /\ AllTracked /\ Waits /\ BarrierHolds => ListenersHaveFinalTally
  BY ListenersSafe
<1> QED
  BY <1>1, <1>2, <1>3, BarrierCorrect, PTL DEF Spec
------------------------------------------------------------------------------
(* The verdict.                                                               *)

\* From the moment the first fickle bot stops, what they have heard or may
\* still hear is ordered, and that bot has the final tally.
Leaves == Through /\ ~Listening /\ Slack /\ Overtaken = {} => Leaving

\* What has not gone wrong after a step had not gone wrong before it.
LEMMA LuckBefore ==
  ASSUME Good, [Next]_vars, ~Spawn
  PROVE  (Slack' => Slack) /\ (Overtaken' = {} => Overtaken = {})
<1>1. /\ Bot' = Bot /\ faults <= faults' /\ faults \in Nat /\ faults' \in Nat
      /\ \A c \in Bot : conns[c].overtaken => conns'[c].overtaken
  <2>1. Good'
    BY GoodStep
  <2>2. faults' \in Nat
    BY <2>1 DEF Good, RestGood
  <2> QED
    BY <2>2, StepMonotone
<1>2. Slack' => Slack
  <2>1. \A f, g, m \in Nat : f <= g /\ g < m => f < m
    OBVIOUS
  <2>2. BeforeLastRevote \in Nat /\ ROUND + PROPAGATION \in Nat
    BY WaitTypes
  <2>3. Slack' => faults' < BeforeLastRevote /\ faults' < ROUND + PROPAGATION
    BY DEF Slack, BeforeLastRevote
  <2>4. faults < BeforeLastRevote /\ faults < ROUND + PROPAGATION => Slack
    BY DEF Slack, BeforeLastRevote
  <2> QED
    BY <1>1, <2>1, <2>2, <2>3, <2>4
<1>3. Overtaken' = {} => Overtaken = {}
  BY <1>1 DEF Overtaken
<1> QED
  BY <1>2, <1>3

LEMMA FirstToStop ==
  ASSUME Good, AllTracked, Waits, [Next]_vars, Served', Listening, ~Listening',
         Slack, Overtaken = {}
  PROVE  Leaving'
<1>1. /\ Bot' = Bot /\ Fickle' = Fickle /\ LastVotes' = LastVotes /\ Through' /\ ~Spawn
      /\ \A b \in Fickle : b \in Bot /\ bots[b] \in GoodBot /\ bots[b].pc # "done"
      /\ \A c \in Bot : bots'[c].kind = bots[c].kind
  BY ThroughView, BotsAre DEF Fickle, Listening
<1>2. PICK b \in Fickle : bots'[b].pc = "done"
  BY <1>1 DEF Listening
<1>3. bots'[b].pc # bots[b].pc /\ b \in Bot
  BY <1>1, <1>2
<1>4. FickleStep(b)
  <2>1. ~Tick
    <3>1. Tick => bots'[b] = Ticked(bots[b])
      BY <1>1, TickFacts
    <3>2. Ticked(bots[b]).pc = bots[b].pc
      BY <1>1 DEF Ticked, GoodBot, BotState
    <3> QED
      BY <1>3, <3>1, <3>2
  <2>2. Flush \/ (\E c \in Bot : ServerStep(c)) => bots' = bots
    BY ServerStepView
  <2>3. \A c \in Bot : FickleStep(c) \/ OtherStep(c) => c = b
    BY <1>3 DEF FickleStep, OtherStep
  <2>4. ~OtherStep(b)
    BY DEF OtherStep
  <2> QED
    BY <1>3, <2>1, <2>2, <2>3, <2>4, ThroughView DEF Listening
<1>5. WaitsLate(b) /\ bots[b].pc = "propagate" /\ bots[b].timer = 0
  BY <1>2, <1>3, <1>4 DEF FickleStep, HearsLate, WaitsLate, RevotesLate
<1>6. Clean /\ \A c \in Fickle : bots[c].snap = LastVotes
  <2>1. Remaining(bots[b]) = 0
    BY <1>5 DEF Remaining
  <2> QED
    BY <2>1, ListenersHear
<1>7. /\ LastVotes \in Counts /\ BoardOf(conns) = LastVotes /\ Counts \subseteq [Option -> Nat]
      /\ \A s \in Travelling \cup Snaps : s = LastVotes
  <2>1. BoardOf(conns) = LastVotes
    BY <1>6, SteadyBoard DEF Listening, Clean
  <2>2. \A s \in Travelling : s = LastVotes
    BY <1>6, CleanListeners
  <2>3. \A s \in Snaps : s = LastVotes
    BY <1>6 DEF Snaps
  <2> QED
    BY <2>1, <2>2, <2>3, CountsType
<1>8. Leq(LastVotes, LastVotes)
  <2>1. LastVotes \in [Option -> Nat]
    BY <1>7
  <2> QED
    BY <2>1, LeqReflexive
<1>9. Ordered(Travelling \cup Snaps)
  BY <1>7, <1>8 DEF Ordered, OrderedBy
<1>10. /\ Steady' /\ Travelling' \subseteq Travelling \cup {BoardOf(conns')}
       /\ Snaps' \subseteq Snaps \cup Travelling
  BY <1>6, SteadyStep, TravelStep DEF Clean, Listening
<1>11. OrderedBy(Travelling' \cup Snaps', BoardOf(conns'), LastVotes')
  <2>1. Travelling \cup Snaps \in SUBSET Counts
    BY DEF Travelling, Snaps
  <2>2. Travelling' \cup Snaps' \subseteq (Travelling \cup Snaps) \cup {BoardOf(conns')}
    BY <1>10
  <2> QED
    BY <1>6, <1>9, <2>1, <2>2, OrderedStep DEF Clean, Listening
<1>12. bots'[b].snap = LastVotes'
  BY <1>1, <1>5, <1>6 DEF WaitsLate
<1> QED
  BY <1>1, <1>2, <1>10, <1>11, <1>12 DEF Leaving, Ordered

LEMMA LeavesStep == Good /\ AllTracked /\ Waits /\ Leaves /\ [Next]_vars => Leaves'
<1> SUFFICES ASSUME Good, AllTracked, Waits, Leaves, [Next]_vars,
                    Through', ~Listening', Slack', (Overtaken = {})'
             PROVE  Leaving'
  BY DEF Leaves
<1>1. Through
  BY WaitsRelease
<1>2. Served' /\ ~Spawn
  BY <1>1, ThroughView DEF Through
<1>3. Slack /\ Overtaken = {}
  BY <1>2, LuckBefore
<1>4. CASE Listening
  BY <1>2, <1>3, <1>4, FirstToStop
<1>5. CASE ~Listening
  BY <1>1, <1>2, <1>3, <1>5, LeavingStep DEF Leaves
<1> QED
  BY <1>4, <1>5

\* All have ended when the report is made, and nothing happens after it.
Ends == stage = "reported" => \A b \in Bot : Ended(b)

LEMMA EndsStep == Good /\ Ends /\ [Next]_vars => Ends'
<1> SUFFICES ASSUME Good, Ends, [Next]_vars, stage' = "reported"
             PROVE  \A b \in Bot' : Ended(b)'
  BY DEF Ends
<1>1. ~Spawn
  BY DEF Spawn
<1>2. Bot' = Bot /\ \A c \in Bot : Ended(c) => bots'[c].pc = bots[c].pc
  BY <1>1, StepMonotone
<1>3. \A c \in Bot : Ended(c)
  <2>1. stage = "reported" \/ Report
    <3>1. Tick \/ Flush \/ (\E b \in Bot : BotStep(b) /\ ~Arrive(b)) \/ (\E b \in Bot : Arrive(b))
             \/ (\E b \in Bot : ServerStep(b)) => UNCHANGED scenarioVars
      BY BotStepView, ServerStepView, ArriveFacts DEF Tick
    <3>2. ~Prepare /\ ~AssertFails
      BY DEF Prepare, AssertFails
    <3> QED
      BY <1>1, <3>1, <3>2 DEF Next, vars, scenarioVars
  <2> QED
    BY <2>1 DEF Ends, Report, Joined
<1> QED
  BY <1>2, <1>3 DEF Ended

LEMMA SumOfOptions ==
  ASSUME NEW s \in [Option -> Nat], NEW t \in [Option -> Nat], Leq(s, t)
  PROVE  /\ SumFunction(s) \in Nat /\ SumFunction(t) \in Nat /\ SumFunction(s) <= SumFunction(t)
         /\ SumFunction(s) = SumFunction(t) => s = t
<1>1. IsFiniteSet(Option)
  BY OptionsAssumption, FS_Interval DEF Option
<1>2. \A o \in Option : s[o] \in Nat /\ t[o] \in Nat /\ s[o] <= t[o]
  BY DEF Leq
<1>3. /\ SumFunction(s) = SumFunctionOnSet(s, Option)
      /\ SumFunction(t) = SumFunctionOnSet(t, Option)
  BY DEF SumFunction
<1>4. SumFunctionOnSet(s, Option) \in Nat /\ SumFunctionOnSet(t, Option) \in Nat
  BY <1>1, <1>2, SumType
<1>5. /\ SumFunctionOnSet(s, Option) <= SumFunctionOnSet(t, Option)
      /\ (\E o \in Option : s[o] < t[o]) =>
            SumFunctionOnSet(s, Option) < SumFunctionOnSet(t, Option)
  <2>1. \A o \in Option : s[o] \in Int /\ t[o] \in Int /\ s[o] <= t[o]
    BY <1>2
  <2> QED
    BY <1>1, <2>1, SumMonotone
<1>6. ASSUME s # t PROVE \E o \in Option : s[o] < t[o]
  <2>1. PICK o \in Option : s[o] # t[o]
    BY <1>6
  <2> QED
    BY <1>2, <2>1
<1> QED
  BY <1>3, <1>4, <1>5, <1>6

\* Of things with a bounded value one has the greatest.
LEMMA GreatestValue ==
  ASSUME NEW S, S # {}, NEW V \in [S -> Nat], NEW m \in Nat, \A s \in S : V[s] <= m
  PROVE  \E s \in S : \A t \in S : V[t] <= V[s]
<1> DEFINE T == {n \in Nat : \E s \in S : n = m - V[s]}
<1>1. \A s \in S : V[s] \in Nat /\ m - V[s] \in Nat
  OBVIOUS
<1>2. T \in SUBSET Nat /\ T # {}
  BY <1>1
<1>3. PICK n \in T : \A k \in T : n <= k
  <2> HIDE DEF T
  <2> QED
    BY <1>2, LeastNumber
<1>4. PICK s \in S : n = m - V[s]
  BY <1>3
<1>5. ASSUME NEW t \in S PROVE V[t] <= V[s]
  <2>1. m - V[t] \in T
    BY <1>1
  <2>2. m - V[s] <= m - V[t]
    BY <1>3, <1>4, <2>1
  <2> QED
    BY <1>1, <2>2
<1> QED
  BY <1>4, <1>5

LEMMA HoldersType ==
  ASSUME NEW snaps, IsFiniteSet(DOMAIN snaps), NEW s
  PROVE  Holders(snaps, s) \in Nat /\ Holders(snaps, s) <= Cardinality(DOMAIN snaps)
<1>1. {v \in DOMAIN snaps : snaps[v] = s} \subseteq DOMAIN snaps
  OBVIOUS
<1> QED
  BY <1>1, FS_Subset, FS_CardinalityType DEF Holders

\* Snapshots of which each is below the next leave one pick only: those with
\* as many holders and the same sum are the same.
LEMMA OnePick ==
  ASSUME NEW snaps, IsFiniteSet(DOMAIN snaps), Held(snaps) # {}, NEW last \in [Option -> Nat],
         \A s \in Held(snaps) : s \in [Option -> Nat] /\ Leq(s, last),
         \A s, t \in Held(snaps) : Leq(s, t) \/ Leq(t, s)
  PROVE  \E s \in Held(snaps) : Picks(snaps) = {s}
<1> DEFINE H == Held(snaps)
           V == [s \in H |-> Holders(snaps, s)]
<1>1. PICK s \in H : \A t \in H : Holders(snaps, t) <= Holders(snaps, s)
  <2>1. V \in [H -> Nat] /\ Cardinality(DOMAIN snaps) \in Nat
        /\ \A t \in H : V[t] <= Cardinality(DOMAIN snaps) /\ V[t] = Holders(snaps, t)
    BY HoldersType, FS_CardinalityType
  <2> HIDE DEF H, V
  <2>2. H # {}
    BY DEF H
  <2>3. \E t \in H : \A u \in H : V[u] <= V[t]
    BY <2>1, <2>2, GreatestValue
  <2> QED
    BY <2>1, <2>3
<1> DEFINE A == {t \in H : Holders(snaps, t) = Holders(snaps, s)}
           W == [t \in A |-> SumFunction(t)]
<1>2. \A t \in H : SumFunction(t) \in Nat /\ SumFunction(t) <= SumFunction(last) /\ SumFunction(last) \in Nat
  BY SumOfOptions
<1>3. PICK p \in A : \A t \in A : SumFunction(t) <= SumFunction(p)
  <2>1. W \in [A -> Nat] /\ SumFunction(last) \in Nat
        /\ \A t \in A : W[t] <= SumFunction(last) /\ W[t] = SumFunction(t)
    BY <1>1, <1>2
  <2>2. A # {}
    BY <1>1
  <2> HIDE DEF A, W
  <2>3. \E t \in A : \A u \in A : W[u] <= W[t]
    BY <2>1, <2>2, GreatestValue
  <2> QED
    BY <2>1, <2>3
<1>4. \A t \in H :
         /\ Holders(snaps, t) \in Nat /\ Holders(snaps, t) <= Holders(snaps, p)
         /\ Holders(snaps, t) = Holders(snaps, p) => SumFunction(t) <= SumFunction(p)
  BY <1>1, <1>3, HoldersType
<1>5. p \in H
  BY <1>5
<1> HIDE DEF A, W
<1>6. p \in Picks(snaps)
  <2>1. ASSUME NEW t \in H PROVE ~Beats(snaps, t, p)
    <3>1. /\ Holders(snaps, t) \in Nat /\ Holders(snaps, p) \in Nat
          /\ Holders(snaps, t) <= Holders(snaps, p)
          /\ SumFunction(t) \in Nat /\ SumFunction(p) \in Nat
          /\ Holders(snaps, t) = Holders(snaps, p) => SumFunction(t) <= SumFunction(p)
      BY <1>2, <1>4, <1>5, <2>1
    <3> QED
      BY <3>1 DEF Beats
  <2> QED
    BY <1>5, <2>1 DEF Picks
<1>7. ASSUME NEW t \in Picks(snaps) PROVE t = p
  <2>1. t \in H /\ ~Beats(snaps, p, t)
    BY <1>5, <1>7 DEF Picks
  <2>2. Holders(snaps, t) = Holders(snaps, p) /\ SumFunction(t) = SumFunction(p)
    <3>1. /\ Holders(snaps, t) \in Nat /\ Holders(snaps, p) \in Nat
          /\ Holders(snaps, t) <= Holders(snaps, p)
          /\ SumFunction(t) \in Nat /\ SumFunction(p) \in Nat
          /\ Holders(snaps, t) = Holders(snaps, p) => SumFunction(t) <= SumFunction(p)
      BY <1>2, <1>4, <1>5, <2>1
    <3> QED
      BY <2>1, <3>1 DEF Beats
  <2>3. Leq(t, p) \/ Leq(p, t)
    BY <1>5, <2>1
  <2>4. t \in [Option -> Nat] /\ p \in [Option -> Nat]
    BY <1>5, <2>1
  <2> QED
    BY <2>2, <2>3, <2>4, SumOfOptions
<1> QED
  BY <1>5, <1>6, <1>7

\* What can be said of a report with fickle bots when nothing has failed.
LEMMA ReportedLeaves ==
  ASSUME Leaves, stage \in {"running", "reported"}, \A b \in Bot : Ended(b),
         request.msgs > 0, AllServed, Slack, Overtaken = {}, Fickle # {}
  PROVE  Leaving /\ Results = Fickle /\ \A b \in Fickle : bots[b].pc = "done"
<1>1. Served
  BY DEF Served
<1>2. \A b \in Fickle : bots[b].pc = "done"
  BY DEF Ended, AllServed, Failed, Fickle
<1>3. Through /\ ~Listening
  BY <1>1, <1>2 DEF Through, Listening
<1> QED
  BY <1>2, <1>3 DEF Leaves, Results

HeldLast == [b \in Results |-> bots[b].snap]

LEMMA PicksLeft ==
  ASSUME Good, Leaving, Results = Fickle
  PROVE  /\ IsFiniteSet(Fickle) /\ DOMAIN HeldLast = Fickle
         /\ LastVotes \in [Option -> Nat] /\ LastVotes \in Held(HeldLast)
         /\ \A s \in Held(HeldLast) : s \in [Option -> Nat] /\ Leq(s, LastVotes)
         /\ \E s \in Held(HeldLast) : Picks(HeldLast) = {s}
<1>1. IsFiniteSet(Fickle) /\ DOMAIN HeldLast = Fickle
  BY BotsAre, FS_Subset DEF Fickle, HeldLast
<1>2. LastVotes \in [Option -> Nat] /\ LastVotes # None /\ Counts \subseteq [Option -> Nat]
  BY CountsType
<1>3. Held(HeldLast) \subseteq Snaps
  <2>1. ASSUME NEW b \in Fickle, bots[b].snap # None PROVE bots[b].snap \in Counts
    BY <2>1, BotsAre DEF Fickle, GoodBot, BotState
  <2> QED
    BY <2>1 DEF Held, Snaps, HeldLast
<1>4. /\ \A s \in Held(HeldLast) : s \in [Option -> Nat] /\ Leq(s, LastVotes)
      /\ \A s, t \in Held(HeldLast) : Leq(s, t) \/ Leq(t, s)
  BY <1>2, <1>3 DEF Leaving, Ordered, OrderedBy, Snaps
<1>5. LastVotes \in Held(HeldLast)
  BY <1>2 DEF Leaving, Held, HeldLast
<1>6. \E s \in Held(HeldLast) : Picks(HeldLast) = {s}
  BY <1>1, <1>2, <1>4, <1>5, OnePick
<1> QED
  BY <1>1, <1>2, <1>4, <1>5, <1>6

LEMMA VerdictSafe ==
  ASSUME Good, AllTracked, Leaves, Ends
  PROVE  VerdictDetermined
<1> SUFFICES ASSUME stage = "reported", request.msgs > 0, AllServed, Slack, Overtaken = {}
             PROVE  Cardinality(Picks(HeldLast)) = 1
  BY DEF VerdictDetermined, HeldLast
<1>1. CASE Fickle = {}
  <2>1. Held(HeldLast) = {}
    BY <1>1 DEF Held, Results, HeldLast
  <2>2. Picks(HeldLast) = {[o \in Option |-> 0]}
    BY <2>1 DEF Picks
  <2> QED
    BY <2>2, FS_Singleton
<1>2. CASE Fickle # {}
  <2>1. \E s \in Held(HeldLast) : Picks(HeldLast) = {s}
    BY <1>2, ReportedLeaves, PicksLeft DEF Ends
  <2> QED
    BY <2>1, FS_Singleton
<1> QED
  BY <1>1, <1>2

\* VerdictDetermined (mod.rs:99-121): as long as no receiver was overtaken and
\* the bots waited long enough, the verdict does not depend on the order in
\* which the HashMap of the snapshots is read.
THEOREM VerdictDeterminedCorrect == Spec => []VerdictDetermined
<1>1. Init => Good /\ AllTracked /\ Waits /\ Leaves /\ Ends
  BY GoodInit DEF Init, AllTracked, Waits, Leaves, Listening, Through, Served, Ends
<1>2. Good /\ AllTracked /\ Waits /\ Leaves /\ Ends /\ [Next]_vars
         => (Good /\ AllTracked /\ Waits /\ Leaves /\ Ends)'
  BY GoodStep, TrackedStep, WaitsStep, LeavesStep, EndsStep
<1>3. Good /\ AllTracked /\ Leaves /\ Ends => VerdictDetermined
  BY VerdictSafe
<1> QED
  BY <1>1, <1>2, <1>3, PTL DEF Spec

\* One of two fickle bots has the final tally, and what the other one has is
\* below it: the larger sum decides.
LEMMA PickOfTwo ==
  ASSUME Good, Leaving, Results = Fickle, Cardinality(Fickle) \in 1 .. 2
  PROVE  Picks(HeldLast) = {LastVotes}
<1>1. /\ IsFiniteSet(Fickle) /\ DOMAIN HeldLast = Fickle
      /\ LastVotes \in [Option -> Nat] /\ LastVotes \in Held(HeldLast)
      /\ \A s \in Held(HeldLast) : s \in [Option -> Nat] /\ Leq(s, LastVotes)
  BY PicksLeft
<1>2. PICK s \in Held(HeldLast) : Picks(HeldLast) = {s}
  BY PicksLeft
<1>3. PICK b \in Fickle : HeldLast[b] = LastVotes
  BY <1>1 DEF Held
<1>4. Holders(HeldLast, LastVotes) >= 1 /\ Holders(HeldLast, LastVotes) \in Nat
  <2> DEFINE S == {v \in DOMAIN HeldLast : HeldLast[v] = LastVotes}
  <2>1. {b} \subseteq S /\ S \subseteq Fickle
    BY <1>1, <1>3
  <2>2. IsFiniteSet(S) /\ Cardinality(S) \in Nat /\ Cardinality({b}) <= Cardinality(S)
    BY <1>1, <2>1, FS_Subset, FS_CardinalityType
  <2>3. Cardinality({b}) = 1
    BY FS_Singleton
  <2> QED
    BY <2>2, <2>3 DEF Holders
<1>5. ASSUME NEW t \in Held(HeldLast) PROVE ~Beats(HeldLast, t, LastVotes)
  <2>1. CASE t = LastVotes
    <3>1. SumFunction(LastVotes) \in Nat
      BY <1>1, SumOfOptions
    <3> QED
      BY <1>4, <2>1, <3>1 DEF Beats
  <2>2. CASE t # LastVotes
    <3> DEFINE S == {v \in DOMAIN HeldLast : HeldLast[v] = t}
    <3>1. S \subseteq Fickle \ {b}
      BY <1>1, <1>3, <2>2
    <3>2. IsFiniteSet(Fickle \ {b}) /\ Cardinality(Fickle \ {b}) = Cardinality(Fickle) - 1
      BY <1>1, FS_RemoveElement
    <3>3. Cardinality(S) <= Cardinality(Fickle) - 1 /\ Cardinality(S) \in Nat
      BY <3>1, <3>2, FS_Subset, FS_CardinalityType
    <3>4. Holders(HeldLast, t) <= 1 /\ Holders(HeldLast, t) \in Nat
      BY <3>3 DEF Holders
    <3>5. /\ SumFunction(t) \in Nat /\ SumFunction(LastVotes) \in Nat
          /\ SumFunction(t) <= SumFunction(LastVotes)
      BY <1>1, SumOfOptions
    <3> QED
      BY <1>4, <3>4, <3>5 DEF Beats
  <2> QED
    BY <2>1, <2>2
<1>6. LastVotes \in Picks(HeldLast)
  BY <1>1, <1>5 DEF Picks
<1> QED
  BY <1>2, <1>6

LEMMA ReportOfTwo ==
  ASSUME Good, Leaves, Report, request.msgs > 0, AllServed, Slack, Overtaken = {},
         Cardinality(Fickle) \in 1 .. 2
  PROVE  report'.integrity.passed
<1>1. Fickle # {}
  BY FS_EmptySet
<1>2. Leaving /\ Results = Fickle /\ \A b \in Fickle : bots[b].pc = "done"
  BY <1>1, ReportedLeaves DEF Report, Joined
<1>3. Expected = LastVotes
  <2>1. \A b \in Fickle : Ended(b) /\ b \notin Failed
    BY <1>2 DEF Ended, Failed
  <2>2. [b \in Fickle |-> IF Ended(b) /\ b \notin Failed THEN bots[b].vote ELSE None]
        = [b \in Fickle |-> bots[b].vote]
    BY <2>1
  <2> QED
    BY <2>2 DEF Expected, LastVotes
<1>4. PICK actual \in Picks(HeldLast) :
         report'.integrity = IF Results = {} THEN None
                             ELSE Verdict(Expected, actual, Cardinality(Results))
  BY DEF Report, HeldLast
<1>5. actual = LastVotes
  BY <1>2, <1>4, PickOfTwo
<1>6. report'.integrity = Verdict(LastVotes, LastVotes, Cardinality(Results))
  BY <1>1, <1>2, <1>3, <1>4, <1>5
<1>7. Verdict(LastVotes, LastVotes, Cardinality(Results)).passed
  BY DEF Verdict
<1> QED
  BY <1>6, <1>7

LEMMA VerdictStep ==
  Good /\ Leaves /\ VerdictOfTwoPasses /\ [Next]_vars => VerdictOfTwoPasses'
<1> SUFFICES ASSUME Good, Leaves, VerdictOfTwoPasses, [Next]_vars,
                    stage' = "reported", (request.msgs > 0)', AllServed', Slack',
                    (Overtaken = {})', (Cardinality(Fickle) \in 1 .. 2)'
             PROVE  report'.integrity.passed
  BY DEF VerdictOfTwoPasses
<1>1. ~Spawn
  BY DEF Spawn
<1>2. Served /\ (stage = "reported" \/ Report)
  BY <1>1, ServedBefore DEF Served
<1>3. request.msgs > 0 /\ AllServed /\ Slack /\ Overtaken = {} /\ Cardinality(Fickle) \in 1 .. 2
  <2>1. /\ Bot' = Bot /\ request' = request /\ \A c \in Bot : bots'[c].kind = bots[c].kind
    BY <1>1, StepMonotone
  <2>2. Fickle' = Fickle
    BY <2>1 DEF Fickle
  <2> QED
    BY <1>1, <1>2, <2>1, <2>2, LuckBefore DEF Served
<1>4. CASE Report
  BY <1>3, <1>4, ReportOfTwo
<1>5. CASE stage = "reported" /\ ~Report
  <2>1. report' = report
    <3>1. Tick \/ Flush \/ (\E b \in Bot : BotStep(b) /\ ~Arrive(b)) \/ (\E b \in Bot : Arrive(b))
             \/ (\E b \in Bot : ServerStep(b)) => UNCHANGED scenarioVars
      BY BotStepView, ServerStepView, ArriveFacts DEF Tick
    <3>2. ~Prepare /\ ~AssertFails
      BY <1>5 DEF Prepare, AssertFails, Joined
    <3> QED
      BY <1>1, <1>5, <3>1, <3>2 DEF Next, vars, scenarioVars
  <2> QED
    BY <1>3, <1>5, <2>1 DEF VerdictOfTwoPasses
<1> QED
  BY <1>2, <1>4, <1>5

\* VerdictOfTwoPasses (mod.rs:99-121): with one or two fickle bots the verdict is
\* a pass, as long as no receiver was overtaken and the bots waited long
\* enough, although one bot may see the other leave.
THEOREM VerdictOfTwoCorrect == Spec => []VerdictOfTwoPasses
<1>1. Init => Good /\ AllTracked /\ Waits /\ Leaves /\ VerdictOfTwoPasses
  BY GoodInit DEF Init, AllTracked, Waits, Leaves, Listening, Through, Served, VerdictOfTwoPasses
<1>2. Good /\ AllTracked /\ Waits /\ Leaves /\ VerdictOfTwoPasses /\ [Next]_vars
         => (Good /\ AllTracked /\ Waits /\ Leaves /\ VerdictOfTwoPasses)'
  BY GoodStep, TrackedStep, WaitsStep, LeavesStep, VerdictStep
<1> QED
  BY <1>1, <1>2, PTL DEF Spec
==============================================================================
