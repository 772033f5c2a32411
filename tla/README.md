# A verification of rust-multichat-server in TLA+

The repository is a TCP chat and voting server written with tokio, a terminal
client and a set of load bots. This directory holds TLA+ modules translated
from its code, TLC configurations that check them on small instances, and
proofs, checked by TLAPS, that hold for every value of the constants. Paths
below are those of the repository (`src/vote.rs` is the file of the crate).

## 1. Inventory: the system and what makes it correct

| Component | State | Operations | Talks to |
|---|---|---|---|
| Vote tally, `src/vote.rs` | one `AtomicI64` per option | `vote`, `unvote`, `snapshot` | called by every handler, no lock |
| Throttled broadcast, `src/room.rs` 88-151 | last slot, pending snapshot, "flush scheduled" flag | `broadcast_vote_throttled`, `schedule_vote_flush`, the spawned flush | handlers call it; it sends on the channel |
| Room, `src/room.rs` 31-86 | table of members under an `RwLock`, broadcast channel | `join`, `leave`, `set_nick`, `subscribe`, `broadcast` | handlers; every write task receives |
| Accept loop, `src/server.rs` | semaphore, next id, list of join handles | accept, refuse, Ctrl-C, await all | spawns handlers, sends `Shutdown` |
| Connection handler and write task, `src/client.rs` 76-188 | local `current_vote`, `nick`, channel receiver | subscribe, join, welcome, read loop, exit | all of the above |
| Line reader, `src/client.rs` 17-67 | buffer, overflow flag | `read_line_bounded` | the read loop |
| Terminal client, `src/tui.rs` | participant count, list of messages, own vote, tally | parse and send a line, one update per server message | the server, over TCP |
| Bots, `src/bot/` | tasks, barrier, counters, snapshots heard | five bot types, scenario runners | the server, over TCP |
| Allocation and vote check, `src/bot/mod.rs` 82-135, 225-324 | none | `parse`, `allocate`, `tally_votes`, `pick_actual_snapshot`, `check_vote_integrity` | called by the scenario runners |
| Metrics, `src/metrics.rs` | two counters | record, report | nothing reads them back |
| Protocol, command line | none | types, start-up | |

What is hard in it, and what correctness means for each part:

* **Tally.** `vote()` is two independent atomic operations and `snapshot()` is
  one load per option; handlers on different threads interleave anywhere
  between them. Correct means: no vote lost, doubled or left behind by a handler
  that has gone, no negative counter, and a snapshot that cannot miss a vote that
  did not move.
* **Throttle.** Three shared variables, no lock across them, a task that sleeps,
  and a wall clock that may be set back. Correct means: one flush at a time, no
  pending snapshot that nobody will send, none sent twice, a rate limit for
  direct sends.
* **Server and handlers.** Each connection is two tasks with four ways to end,
  a permit and an entry in the table to give back, a channel that overtakes slow
  receivers, peers that stall or vanish, and a shutdown that can come at any
  point. Correct means: permits exact, no handler forgotten, presence events that
  replay to the table, and everything that should end does end.
* **Terminal clients.** A participant count put together from two sources that
  speak of different moments, an own vote and a nickname kept on both sides of the
  connection, a list that gives up its oldest line. Correct means: what is shown
  agrees with the server, up to what is on its way.
* **Bots.** A barrier that every fickle bot must reach, a verdict that rests on waits
  of fixed length and on what bots hear that stop one after the other, an allocation
  by rounded shares. Correct means: nobody passes the barrier early, everybody has
  heard the final tally before the first one stops listening, the same results give the same
  verdict, and a scenario ends.

The hazards, each at its line, are listed in `PROJECT.json` with the properties
that would catch them.

## 2. The modules

| Module | What it models | Proofs |
|---|---|---|
| `VoteBoard` | the tally and the part of a handler that votes | `VoteBoardProofs` |
| `VoteBoardObserver` | `VoteBoard` with a history variable that watches a snapshot | `VoteBoardProofs` |
| `VoteThrottle` | the throttled broadcast and its flush task | `VoteThrottleProofs` |
| `Announcer` | what that broadcast promises; `VoteThrottle` implements it | `VoteThrottleProofs` |
| `ChatServer` | accept loop, room, channel, handlers, write tasks, peers | `ChatServerProofs` |
| `LineReader` | `read_line_bounded`, call after call | `LineReaderProofs` |
| `LineSource` | what the read loop may expect of it; `LineReader` implements it | `LineReaderProofs` |
| `TerminalClient` | the terminal client, with the room and the handler that answer it | `TerminalClientProofs` |
| `BotScenario` | scenario runners, the five bots, a coarse server | `BotScenarioProofs`, `BotVerdictProofs` |
| `BotAllocation` | `parse` and `allocate`, part of `BotScenario` | `BotAllocationProofs` |
| `VoteIntegrity` | tally, pick and verdict, part of `BotScenario` | `BotVerdictProofs` |
| `MC...` | instances for TLC, with the symmetry where it is used | |

Conventions. An operator whose comment begins with "Slip:" is not part of the
specification. It is a plausible mistake in the operator that follows it, and
shows that the named property would notice it ("mutants" in `PROJECT.json`).

### VoteBoard

`counts` is the array of atomics, `current_vote` the local of each handler.
`pc` says where a handler is: `RecvVote` takes a vote message, `Inc` and `Dec` are
the two `fetch_add` of `vote()`, `RecvUnvote` and `Disconnect` lead to the
decrement of `unvote()`, `LoadOption` is one load of `snapshot()`, `Publish` hands
the result on. An index that is out of range is one more value of `Choice`: all
of them fail the same bounds checks. The percentages are a function of the
counters and are left out.

The atomics are `Relaxed`; the model interleaves their accesses in program
order. The properties about counters speak of one location at a time, where
coherence gives the same order. `SteadyHolderCounted` and `ReadYourVote` compare a
load with earlier writes of the same location: of the same thread
for `ReadYourVote`; for a steady holder on another thread a relaxed load may be
late, and the property is about executions in which a write is visible once it
is done. What holds for each option does not hold for their sum, where a voter who moves
may be in none of the numbers loaded.

### VoteThrottle

Every call, and every flush task that a call spawns, is a process; each access to
the last slot, the flag, the pending slot and the clock is a step. Snapshots are
numbered in the order in which calls receive them, so that "the newest" has a
meaning. A call, and a flush that has woken up, has no await in it and
keeps one of `Threads` threads. `Tick` moves the wall clock and every sleep,
`SetBack` the wall clock only, since sleeps run on a monotonic clock. Locals that
are out of scope hold 0. A poisoned mutex is left out: no code panics while holding
it. `NoLostWakeup` rests on the order "clear the flag, then lock and take" against
"lock and store, then swap": with relaxed atomics the mutex orders the two sides.

`Announcer` is what remains for the callers: each snapshot is offered, and sent once, or
held and sent later, or held and given up for another one held in its place. It promises
no order, because the code keeps none (run `vote_latest`). The refinement mapping
(`StatusOf` in `VoteThrottle`) reads the status of a snapshot off the place where it is.

### ChatServer

A connection has a handler (`hpc`), a write task (`wpc`), a receiver (`rx`) and a
peer. The channel is the log of everything ever sent; a receiver is an index
into it and is overtaken when more than `CAP` events lie ahead of it. Each await
and each point where another thread can run in between is a step: `join` and
`leave` are two steps each, because the presence event is sent after the lock is
released. `Welcome`, `ReadLine`, `ReadEnds`, `WriterEnded`, `AbortWriter`,
`LeaveRemove`, `LeaveAnnounce` follow `handle_client`; `WelcomeFails` is the `?` at
`client.rs:92`. `Finish` is the end of the spawned task, where the permit is
dropped. In the code the permit is free a moment before the join handle
is finished; the model takes the two together, which can only make a
finished handle be kept for one more accept.

A line of a peer that is broadcast, chat or snapshot, is the event "line"; lines
that are not broadcast change nothing here. `RecvError::Closed` cannot happen
while the server holds the room, and is left out. Sending with no receiver drops
the event in the code and appends it here; nobody can tell the difference,
as a receiver starts at the end of the log. The snapshot that a handler broadcasts when it
takes its vote back on the way out (`client.rs:179-184`) is not on this log either; it is in
`VoteBoard`, and no property here depends on it.

### LineReader

`input` is all that a peer sends before it closes; `pos` is how much of it is
consumed, `filled` how much the `BufReader` has received, in pieces of any size;
`buf` and `overflow` are the locals of the present call. `EndOfLine`, `MoreOfLine` and
`EndOfStream` are the three branches of the loop, `ReadFails` is the `?` behind `fill_buf`,
which drops the line that is under way and ends the read loop. `out` remembers what each call returned
and where in the stream it ended. The reference, `LinesFaithful`, does not speak of
chunks: the k-th line returned is the k-th line of the stream, without its
carriage return, or empty if it is longer than `max_len` (the carriage return
counts). At the end of the stream a carriage return stays. `LineSource` has no chunks and
no buffer: one step gives out one line of the stream, until
there is none left or the connection breaks.

### TerminalClient

The room and the handler, reduced to what a terminal client can notice, and the
client itself. `join` counts under the lock and announces after it, `leave` removes and
announces after it, and each receiver exists since before its join. The client
starts from the count in its welcome line and adds presence events to it, its own
arrival among them, which is why the title subtracts one. The history variable
`alone` remembers whether anybody else was on the way in or out at the join.

`Enter` is a line typed: `ParseInput` and `Mark` follow `parse_input`, quirks included. The
line is trimmed first, so "/nick" with nothing behind it is a chat line, and so is
"/unvote" with something behind it; "/vote 0" is taken for the first option
(`saturating_sub`). A line of blanks is dropped before all that. `SetNick`, `Chat`, `Vote`
and `Unvote` are the handler's side of a line, and `inbox` is what lies between. A
chat line carries, besides the nickname its handler puts on it, the one its writer had
chosen when he entered it (`as`): that field is history, which `LinesNamed` compares.
`SetNick` writes the table and the handler's own copy in one step; nobody reads the
nickname in the table.

The write task, the socket and the receiving task of the client keep the order of
events and are one step, `ViewEvent`. It is for receivers that are not overtaken, and for lines
that are not too long for the server; `ChatServer` and `LineReader` have those. Snapshots, which replace the counters shown, and the
error line of a refused connection are left out, and so are drawing and keys.

### BotScenario, BotAllocation, VoteIntegrity

A scenario from the command line to the report: `Prepare` parses the ratios and
allocates, `Spawn` starts one task per bot, `Report` or `AssertFails` end it once all have been
joined. A bot is one record; `pc` is the await it is in and `timer` the sleep that is
left. `Connect` with its retries, `SendVote`, `Arrive`, `Settled`, `Revote`,
`AwaitPropagation` and `Finish` are the fickle bot, `Hear` its receiving task;
`SendChat`, `SendSpam`, `StartReceiving`, `Receive` and `StopReceiving` the normal bot and the
spammer; `Quit` the quitter and `Release` the ghost.

The server is coarse here: a handler treats a line, or the end of its connection, in one
step, and the steps in between are in the modules above. Welcome and presence
lines, to which bots pay no attention, are left out. The throttle knows only whether a
snapshot was sent in the same tick. A line sent to a connection that the server has
refused is lost; a second one may fail, once a reset has answered the first (`Send`). Time is counted in ticks, as far as sleeps
go. A tick waits until everybody has done what there is to do, which says that the
sleeps of the bots are long compared with a round trip; `faults` is the number of times
that does not hold (a line or a task held up across a tick), or that a connection attempt
is refused.

A ratio text is the list of its parts. The `u32` sum of the ratios may wrap: a debug
build panics, a release build goes on with the wrapped sum (and divides by 0
if it is 0); `Prepare` allows both. The product of total and ratio is a `u64` and
taken as unbounded: it can wrap only for totals of 2^32 and more. `Picks` is the set of snapshots that the iteration order of
the `HashMap` may let `pick_actual_snapshot` return.

## 3. The runs

| Run | Instance | Shows |
|---|---|---|
| `vote_board` | 3 handlers, 2 options, symmetric | type, `CountsExact`, `NeverNegative`, `ReadYourVote`, `EmptyBoardWhenAllGone`, `SteadyHolderCounted` |
| `vote_throttle` | interval 2, 3 threads, 3 calls, one set-back | type, `OneFlushArmed`, `NoLostWakeup`, `AtMostOnce`, `DirectKeepsInterval`, `DeferredIsAnnounced`, `ImplementsAnnouncer` |
| `vote_latest` | 1 thread, 3 calls | violated: `LatestNeverDropped` |
| `chat_server` | 2 permits, 3 connections, capacity 2, 1 refusal | type, `PermitsExact`, `NoHandlerForgotten`, `PresenceMatchesMembers`, `LeakedOnlyByFailedWelcome` |
| `chat_server_live` | 2 connections, 1 line, capacity 2 | `ClosedPeerLeaves`, `ShutdownEndsHandler`, `OnlyThreeThingsHoldShutdown` |
| `shutdown` | 2 connections, capacity 8 | violated: `ShutdownCompletes` |
| `line_reader` | all streams of up to 7 bytes, limit 2, a read that may fail | type, `BufferBounded`, `LinesFaithful`, `NothingLeftBehind`, `ImplementsLineSource` |
| `terminal_client` | 3 clients, 2 options, lists of 3, up to 3 lines typed, symmetric | type, `CountRightIfAlone`, `ErrorSettledAtJoin`, `OwnVoteMarked`, `LinesNamed`, `ListIsLatest` |
| `participants_settled` | 2 clients | violated: `SettledCountIsRight` |
| `bot_scenario` | 13 scenarios of up to 4 bots and 3 faults, 3 permits, capacity 3; 165 allocations | type, `AllocationSound`, `BarrierHolds`, `ListenersHaveFinalTally`, `VerdictOfTwoPasses`, `VerdictDetermined`, `MissingHasCause`, `EndsUnlessFickleFails` |
| `bot_hang` | 2 fickle bots, 2 votes each, 1 permit | violated: `ScenarioEnds` |
| `bot_verdict` | 3 fickle bots, no fault | violated: `VerdictPasses` |

The violated properties state what a comment or a document of the repository
says; `PROJECT.json` "findings" quotes each line and tells the behaviour that
contradicts it.

Bounds and why they suffice:

* Handlers: three. Two move their votes against each other while the third takes a
  snapshot. Two options are enough to move between and to have one loaded
  before the other; an index out of range is the third choice. Votes per handler are
  not bounded: the state space is finite as it is.
* Calls: three, `MaxCalls`: one that takes the slot, one deferred, one that races
  with the flush or arms the next. `THROTTLE` is 2 ticks so that a
  sleep can be partly over; `MaxTime` only stops the clock once nothing sleeps.
  `MaxBacks` is one set-back, to any earlier time.
* Connections: three on two permits (`MaxConn`, `MAX_CONNECTIONS`), so that a
  permit is used again and the list of handles is pruned; `MaxRefused` is 1.
  `CAP` is 2: the events of two connections overtake a receiver. Where being overtaken
  must not be the reason (`shutdown`), `CAP` is 8. `MaxLines` bounds the
  lines broadcast; it is 0 in the safety run, where presence events fill the
  channel already, and 1 in the liveness run.
* Streams: seven bytes of three kinds with a limit of two: room for a line at the
  limit, one past it with a tail of several chunks, an empty one, and an
  unfinished one.
* Clients: three. The third is needed for a count that finds 0 and is clipped; two are
  enough for a count that is wrong. `MaxEntered` is three lines: a vote, a name or a
  word changed while two others are on their way, and a list of three that is
  full. The constraint `TwoOrSilent` cuts the product of both: either all three clients come
  and go, or two do and enter lines.
* Bots: four, `MaxBots`; larger scenarios stop after their allocation. Two fickle bots can
  miss each other at the barrier, three can form a majority, four of several kinds share
  the permits, of which there are three. Durations are scaled to one or two ticks and keep
  their order of size: the settling and the propagation are longer than the interval of the
  throttle, which is one tick. Two rounds of re-votes instead of three. `RATIO_LIMIT`
  stands for 2^32 and is 16.
* Faults. The waits of the fickle bots are of fixed length, so that enough delays defeat them.
  `Slack` is a condition under which they do not: fewer faults than ticks from the barrier to
  the last re-vote, and than ticks from there to the end. With the durations of the run both
  are 3. It is sufficient, and close to necessary: without it TLC finds all three properties
  that rest on it violated by two fickle bots and four faults, and none by three.
  Likewise `MissingHasCause` allows for the `RECV_TIMEOUT` ticks that a normal bot waits for
  all its lines together, and the scenario of one normal bot with two faults reaches that many.

`CHECK_DEADLOCK FALSE` is set everywhere because every instance really stops: all
handlers gone, all calls made, the server stopped.

Fairness. `FairSpec` of `VoteThrottle`: a thread inside a call or a woken flush
runs on (weak fairness per call and per flush), and time passes. `FairSpec` of
`ChatServer`: the runtime polls every task that can make progress, per handler, per
write task and for the wait of the accept loop. Nothing is assumed of peers: they
need not connect, send, read or close; nobody needs to press Ctrl-C; a
handler need not find another line to read. `FairSpec` of `BotScenario` is weak fairness
of the whole next-state relation: the runtime goes on as long as anything is left to
run. More is not needed, as no step can repeat for ever: lines, attempts, ticks and faults
all run out.

## 4. The proofs

All theorems hold for every value of the constants that satisfies the assumptions
named in the modules: a finite set of handlers and at least one option; a
positive interval and at least one thread; a positive limit and capacity; a finite set
of clients and a list of at least one message; positive durations.

* `VoteBoardProofs`. `CountsExact` says that each counter is the number of holders plus the
  number of handlers between the two halves of `vote()`. With the type
  invariant it is inductive. The proof splits on how one handler's step
  moves it in and out of the two sets, with lemmas on the cardinality of a set
  that gains or loses one element. `NeverNegative` and `EmptyBoardWhenAllGone`
  follow from it (the latter with the fact that a handler that has gone, or is
  on its way out, has given its vote back); `ReadYourVote` needs it to know that the
  counter loaded is positive. `SteadyHolderCounted` is about the observed
  specification, which implements `VoteBoard` (`ObserverIsSilent`): a counter at the moment it
  is loaded is at least the number of its holders, and the steady ones among
  them can only become fewer (`SteadyInv`).
* `VoteThrottleProofs`. `TypeCorrect` carries the life cycle of a call and its flush: a
  flush exists only after its call has spawned it. `DirectKeepsInterval` needs that
  a call about to compare has found the interval passed (`SlotReady`).
  `OneFlushArmed` is inductive as stated; `NoLostWakeup` follows with it.
  `AtMostOnce` needs that a snapshot is in one place at a time: with its call, in
  the pending slot, with a flush, or sent (`OnePlace`). `AnnouncerImplemented` is the
  refinement: each step of the throttle changes the status of the one snapshot that moves,
  or of none; liveness of `Announcer` is left to TLC.
* `ChatServerProofs`. The inductive invariant is the conjunction of type correctness,
  `PermitsExact`, `NoHandlerForgotten` and `IdsInOrder` (connections from `next_id` on
  have not started). It is proved group by group: accept loop, handler, write task,
  peers. `PresenceMatchesMembers` needs to know, for each place of a handler, what has been sent
  of it (`Announcements`), and that everything is sent once and in order (`InOrder`).
  `LeakedOnlyByFailedWelcome` needs that a handler that is done and still in the table has
  never spawned its write task (`EarlyReturn`).
* `LineReaderProofs`. The invariant adds to `LinesFaithful` what the locals know: `buf` is the
  beginning of the present line, whole unless `overflow` is set, and `overflow` tells
  exactly whether it is already longer than the limit (`InLine`); after the
  unfinished last line has been returned, they are empty (`AllReturned`). After a read has
  failed only the lines returned before remain. Lemmas state
  what `Take`, `StripCR` and one more returned line do. `LineSourceImplemented` follows from
  the same invariant: a line returned is the one line that may come next.
* `TerminalClientProofs`. `CountRightIfAlone` counts what is ahead of a client in the
  channel, which does not lend itself to induction. The invariant (`CountInv`) counts members
  instead: `RoomAt(log, k)` are those whom the first k events have brought in and not taken
  out. Everybody joins once and leaves once, in this order (`Sound`), each place of a handler
  tells what has been sent of it (`Places`), what is seen and what is ahead make up all
  that was sent (`Balance`), and the count of a client that joined alone is the size of
  `RoomAt(log, rx)`, itself once more (`Counted`). Lemmas tell what one more event does to
  these numbers. `ErrorSettledAtJoin` follows: the error is the distance of the count
  from the size of that room, and both move by the same event.
  The lines that clients enter follow in the same module. The queue between a client and
  its handler is looked at through one relation, `Leaves`: the value that the last line of
  some type among the first i leaves. Lemmas say what it becomes when a line is put at the end or taken from the front.
  `OwnVoteMarked` is that relation for the types of votes (`MarkInv`); for `LinesNamed` it is
  stated of the name after the whole queue and of the name before every chat line in it
  (`NameInv`). `ListIsLatest` is inductive with the fact that a list is empty until the welcome
  line has come (`ListInv`).
* `BotAllocationProofs`. `AllocateSound` is about sums over a list of any length. It avoids
  the library's induction theorems: if a statement about the subsets of a finite set
  were false of some of them, it would be false of a smallest one (`SubsetInduction` states it
  for a set of subsets, so that no operator is passed). From it follow that the library's fold
  is a sum (`SumOf`) and what a sum does with one element more or less, a factor, larger
  terms, or terms 0 and 1. The remainder is then smaller than the number of entries
  (`RemainderBound`), and those that get one more are those of the first ranks (`ExtraCount`).
* `BotScenarioProofs`. `BarrierHolds` with `OneSide`: no fickle bot is past the
  barrier, or all that have not failed are and one of them leads. It is inductive because a
  bot that fails before the barrier has never arrived there, so that those who have are one too
  few for ever. `TypeCorrect` is not inductive as it stands: `Good` adds at which awaits each
  kind of bot may be, that a bot still receiving is short of `request.msgs` lines of its
  own, and that there are no such lines if none were asked for (`Placed`, `GoodEvent`).
  `MissingHasCause` counts lines (`Normal`): as long as nothing has gone wrong, those that a
  normal bot has not sent yet, those in its inbox, its own in its queue and those received
  add up to what it was asked to send (`Kept`), and its time left and the faults so
  far add up to at least `RECV_TIMEOUT`. When all have ended, nobody misses a line.
* `BotVerdictProofs`. What a fickle bot voted last is the last line in its inbox, or its vote
  with the server; nobody else's vote stays (`Tracked`). `Clean` says that every vote is with
  the server and the snapshots on their way lie between the board and the final
  tally, each below the next: from then on the board only shrinks. `Waits` measures
  time after the barrier. Until the leader has voted for the last time either the state is
  clean or the ticks used up are all due to faults (`Settling`); after it the state is clean, and
  the final tally has been heard, or it is coming and the ticks used up are due to faults
  (`Revoted`). A bot about to stop has no tick left, so that with `Slack` only the good cases
  remain: `ListenersHaveFinalTally`. `Leaves` carries the order of `Clean` over to what
  has been heard, and the first to stop holds the final tally. Snapshots in such an order
  that are held by as many bots and have the same sum are the same one (`OnePick`), which is
  `VerdictDetermined`. If there are one or two bots, the final tally is held by one and no other
  by more, and none has a larger sum (`PickOfTwo`): `VerdictOfTwoPasses`. With three this
  fails (run `bot_verdict`).

Every invariant that a passing run checks is proved. Only model-checked: liveness
(`DeferredIsAnnounced`, `ClosedPeerLeaves`, `ShutdownEndsHandler`, `OnlyThreeThingsHoldShutdown`,
`EndsUnlessFickleFails`, and
the fairness of `Announcer` in `ImplementsAnnouncer`), which is outside what the prover can do.
The violated properties are, of course, only refuted by TLC.

## 5. Plan

Done, in the order of importance: tally, throttle, server and handlers, line reader;
terminal clients; bots, allocation and verdict; the abstract specifications of the
throttle and of the line reader; proofs of all safety properties, those of the timed bots
included.

What is left, should the code grow:

1. The composition of tally and throttle: what the clients finally see of the last
   vote. Today the answer is the violated run `vote_latest`; a corrected throttle would deserve
   a stronger `Announcer` that promises an order.
2. The bots on `ChatServer` in place of their coarse server. Its handlers treat a
   line in one step; that this is a fair summary of `VoteBoard` and `ChatServer` is argued above
   and not proved.

## 6. Not modelled, and known deviations

Not modelled: socket set-up and the backlog (`server.rs:20-27`), accept errors, JSON and the
wording of messages, terminal drawing and keys, logging, CPU and memory figures, round-trip
times, the metrics counters (monotone, and only logged), the command line. They keep no state
that the properties speak of. `protocol.rs` is types only; its cases appear as inputs
and events.

Seen while modelling, and not the subject of a run:

* That no counter is negative does not rest on the order of the two halves of `vote()`, as
  `vote.rs:17-20` and `docs/REPORT.md:133-134` have it: a handler takes back only what it has
  added before, in either order.
* The total of a snapshot may be short: a voter who moves from an option not loaded yet to one
  already loaded is in neither number (`vote.rs:39`); `vote.rs:18-19` and `docs/REPORT.md:133`
  say the opposite of re-votes.
* A flush sends without a look at the interval (`room.rs:148`), so that it and a direct
  broadcast may be sent at the same instant, even on one thread; `room.rs:10-13` has one
  broadcast per interval.
* On two threads an older snapshot can overwrite a newer one in the pending slot
  (`room.rs:107`); `docs/REPORT.md:180` speaks of the latest.
* One peer that reads nothing for ever holds up the shutdown for ever (`client.rs:101`,
  `server.rs:93-95`). `OnlyThreeThingsHoldShutdown` says that besides it only a handler that
  subscribes late and an overtaken receiver do; without any one of its premises TLC finds it
  violated.
* Ratios whose `u32` sum wraps are allocated more bots than asked for in a release build
  (`bot/mod.rs:296`); the test at `bot/mod.rs:855-867` draws ratios of up to 100.
* A welcome line that cannot be written leaves the id in the table for good
  (`client.rs:92`); `LeakedOnlyByFailedWelcome` shows that nothing else does.
* Without own lines to wait for (`msg_count` 0) a bot waits for its time-out,
  although `bot/mod.rs:331` has it leave as soon as the count is reached: the count is
  compared only after a line of its own.
* `bot/mod.rs:104` takes the larger sum for the more recent one; when bots leave one after the
  other it is the older one.
* `bot/fickle.rs:42-44` speaks of a token bucket that the server does not have.
