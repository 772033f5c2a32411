---------------------------- MODULE VoteThrottle ----------------------------
(***************************************************************************)
(* The throttled snapshot broadcast of src/src/room.rs:                    *)
(* broadcast_vote_throttled, schedule_vote_flush and the flush task it     *)
(* spawns.                                                                 *)
(*                                                                         *)
(* Handlers call it from several threads. Each call and each flush task is *)
(* a process here, and each access to last_vote_broadcast_ms, to the       *)
(* pending slot, to vote_flush_scheduled and to the clock is a step.       *)
(* Snapshots are numbered in the order in which they were taken, so that   *)
(* "newer" has a meaning; call m is the call that was handed snapshot m,   *)
(* and flush m is the flush task that call m spawned.                      *)
(***************************************************************************)
EXTENDS Integers, Sequences, FiniteSets

CONSTANTS
    THROTTLE,    \* VOTE_BROADCAST_THROTTLE_MS, in ticks of the clock
    Threads,     \* worker threads of the runtime
    MaxCalls,    \* bound: number of calls
    MaxTime,     \* bound: no tick after this one unless a flush sleeps
    MaxBacks     \* bound: how often the wall clock is set back

ASSUME ThrottleAssumption == THROTTLE \in Nat \ {0}
ASSUME ThreadsAssumption == Threads \in Nat \ {0}
ASSUME BoundsAssumption == MaxCalls \in Nat /\ MaxTime \in Nat /\ MaxBacks \in Nat

Call == 1 .. MaxCalls
NoMsg == 0      \* an empty pending slot

VARIABLES
    clock,      \* the wall clock (SystemTime::now)
    backs,      \* how often it has been set back
    last,       \* last_vote_broadcast_ms
    pending,    \* pending_vote_broadcast
    scheduled,  \* vote_flush_scheduled
    calls,      \* number of calls so far
    pc,         \* where each call is
    nowMs,      \* its now_ms
    seen,       \* the last it loaded
    fpc,        \* where each flush task is
    timer,      \* ticks its sleep still has to run
    fmsg,       \* the snapshot it took from the pending slot
    fnow,       \* its now_ms
    sent        \* the snapshots broadcast, in order, each with its time slot

callVars == <<pc, nowMs, seen>>
flushVars == <<fpc, timer, fmsg, fnow>>
vars == <<clock, backs, last, pending, scheduled, calls, callVars, flushVars, sent>>

\* u64::saturating_sub
Sat(a, b) == IF a > b THEN a - b ELSE 0

\* The room is created with last = 0, and the Unix clock is already far from
\* 0: the first call finds its slot free.
Init ==
    /\ clock = THROTTLE
    /\ backs = 0
    /\ last = 0
    /\ pending = NoMsg
    /\ scheduled = FALSE
    /\ calls = 0
    /\ pc = [m \in Call |-> "idle"]
    /\ nowMs = [m \in Call |-> 0]
    /\ seen = [m \in Call |-> 0]
    /\ fpc = [m \in Call |-> "none"]
    /\ timer = [m \in Call |-> 0]
    /\ fmsg = [m \in Call |-> NoMsg]
    /\ fnow = [m \in Call |-> 0]
    /\ sent = <<>>

\* None of the functions awaits anything: a call, or a flush that has woken up,
\* keeps its thread until it is done.
Running ==
    {m \in Call : pc[m] \notin {"idle", "done"}}
        \cup {MaxCalls + m : m \in {n \in Call : fpc[n] \notin {"none", "asleep", "done"}}}
ThreadFree == Cardinality(Running) < Threads

\* Locals that are out of scope hold 0.
ForgetLocals(m) ==
    /\ nowMs' = [nowMs EXCEPT ![m] = 0]
    /\ seen' = [seen EXCEPT ![m] = 0]

Goto(m, l) == pc' = [pc EXCEPT ![m] = l]
FGoto(m, l) == fpc' = [fpc EXCEPT ![m] = l]
Broadcast(m, slot) == sent' = Append(sent, [msg |-> m, slot |-> slot])
-----------------------------------------------------------------------------
(* broadcast_vote_throttled *)

\* A handler has taken snapshot calls + 1 and enters the function.
Enter ==
    /\ calls < MaxCalls
    /\ ThreadFree
    /\ calls' = calls + 1
    /\ Goto(calls + 1, "clock")
    /\ UNCHANGED <<clock, backs, last, pending, scheduled, nowMs, seen, flushVars, sent>>

ReadClock(m) ==
    /\ pc[m] = "clock"
    /\ nowMs' = [nowMs EXCEPT ![m] = clock]
    /\ Goto(m, "load")
    /\ UNCHANGED <<clock, backs, last, pending, scheduled, calls, seen, flushVars, sent>>

\* Loads last and decides whether the interval has passed.
LoadLast(m) ==
    /\ pc[m] = "load"
    /\ seen' = [seen EXCEPT ![m] = last]
    /\ Goto(m, IF Sat(nowMs[m], last) >= THROTTLE THEN "cas" ELSE "defer")
    /\ UNCHANGED <<clock, backs, last, pending, scheduled, calls, nowMs, flushVars, sent>>

\* Slip: the slot is stored without comparing it with the one loaded.
CasAsStore(m) ==
    /\ pc[m] = "cas"
    /\ last' = nowMs[m]
    /\ Goto(m, "send")
    /\ UNCHANGED <<clock, backs, pending, scheduled, calls, nowMs, seen, flushVars, sent>>

\* Slip: a call that loses the exchange gives its snapshot up.
CasLoserReturns(m) ==
    /\ pc[m] = "cas"
    /\ last' = IF last = seen[m] THEN nowMs[m] ELSE last
    /\ Goto(m, IF last = seen[m] THEN "send" ELSE "done")
    /\ UNCHANGED <<clock, backs, pending, scheduled, calls, nowMs, seen, flushVars, sent>>

\* compare_exchange(last, now_ms): the winner takes the slot, a loser defers.
Cas(m) ==
    /\ pc[m] = "cas"
    /\ last' = IF last = seen[m] THEN nowMs[m] ELSE last
    /\ Goto(m, IF last = seen[m] THEN "send" ELSE "defer")
    /\ UNCHANGED <<clock, backs, pending, scheduled, calls, nowMs, seen, flushVars, sent>>

\* Slip: no return after the direct broadcast.
SendWithoutReturn(m) ==
    /\ pc[m] = "send"
    /\ Broadcast(m, nowMs[m])
    /\ Goto(m, "defer")
    /\ UNCHANGED <<clock, backs, last, pending, scheduled, calls, nowMs, seen, flushVars>>

SendNow(m) ==
    /\ pc[m] = "send"
    /\ Broadcast(m, nowMs[m])
    /\ Goto(m, "done")
    /\ ForgetLocals(m)
    /\ UNCHANGED <<clock, backs, last, pending, scheduled, calls, flushVars>>

\* Slip: the snapshot is stored and no flush is asked for.
DeferAndReturn(m) ==
    /\ pc[m] = "defer"
    /\ pending' = m
    /\ Goto(m, "done")
    /\ ForgetLocals(m)
    /\ UNCHANGED <<clock, backs, last, scheduled, calls, flushVars, sent>>

\* Overwrites whatever the pending slot holds.
Defer(m) ==
    /\ pc[m] = "defer"
    /\ pending' = m
    /\ Goto(m, "arm")
    /\ ForgetLocals(m)
    /\ UNCHANGED <<clock, backs, last, scheduled, calls, flushVars, sent>>

(* schedule_vote_flush *)

\* Slip: the flag is set without looking at its old value.
ArmAlways(m) ==
    /\ pc[m] = "arm"
    /\ scheduled' = TRUE
    /\ Goto(m, "plan")
    /\ UNCHANGED <<clock, backs, last, pending, calls, nowMs, seen, flushVars, sent>>

\* swap(true): only the call that finds the flag clear goes on.
Arm(m) ==
    /\ pc[m] = "arm"
    /\ scheduled' = TRUE
    /\ Goto(m, IF scheduled THEN "done" ELSE "plan")
    /\ UNCHANGED <<clock, backs, last, pending, calls, nowMs, seen, flushVars, sent>>

PlanClock(m) ==
    /\ pc[m] = "plan"
    /\ nowMs' = [nowMs EXCEPT ![m] = clock]
    /\ Goto(m, "spawn")
    /\ UNCHANGED <<clock, backs, last, pending, scheduled, calls, seen, flushVars, sent>>

\* Slip: now - last is not saturated, and grows when the clock was set back.
DelayUnsaturated(now, l) ==
    LET d == Sat(THROTTLE, now - l) IN IF d = 0 THEN 1 ELSE d

\* Loads last, computes the delay, at least one, and spawns the flush task.
Delay(now, l) ==
    LET d == Sat(THROTTLE, Sat(now, l)) IN IF d = 0 THEN 1 ELSE d

Spawn(m) ==
    /\ pc[m] = "spawn"
    /\ timer' = [timer EXCEPT ![m] = Delay(nowMs[m], last)]
    /\ FGoto(m, "asleep")
    /\ Goto(m, "done")
    /\ ForgetLocals(m)
    /\ UNCHANGED <<clock, backs, last, pending, scheduled, calls, fmsg, fnow, sent>>

(* the spawned task: sleep, then flush_pending_vote_snapshot *)

\* Slip: the flag is never cleared.
FlushWakeKeepsFlag(m) ==
    /\ fpc[m] = "asleep"
    /\ timer[m] = 0
    /\ ThreadFree
    /\ FGoto(m, "take")
    /\ UNCHANGED <<clock, backs, last, pending, scheduled, calls, callVars, timer, fmsg, fnow, sent>>

\* The sleep is over: the flag is cleared first.
FlushWake(m) ==
    /\ fpc[m] = "asleep"
    /\ timer[m] = 0
    /\ ThreadFree
    /\ scheduled' = FALSE
    /\ FGoto(m, "take")
    /\ UNCHANGED <<clock, backs, last, pending, calls, callVars, timer, fmsg, fnow, sent>>

FlushTake(m) ==
    /\ fpc[m] = "take"
    /\ fmsg' = [fmsg EXCEPT ![m] = pending]
    /\ pending' = NoMsg
    /\ FGoto(m, IF pending = NoMsg THEN "done" ELSE "clock")
    /\ UNCHANGED <<clock, backs, last, scheduled, calls, callVars, timer, fnow, sent>>

FlushClock(m) ==
    /\ fpc[m] = "clock"
    /\ fnow' = [fnow EXCEPT ![m] = clock]
    /\ FGoto(m, "stamp")
    /\ UNCHANGED <<clock, backs, last, pending, scheduled, calls, callVars, timer, fmsg, sent>>

\* Stores the slot without looking at the previous one.
FlushStamp(m) ==
    /\ fpc[m] = "stamp"
    /\ last' = fnow[m]
    /\ FGoto(m, "send")
    /\ UNCHANGED <<clock, backs, pending, scheduled, calls, callVars, timer, fmsg, fnow, sent>>

FlushSend(m) ==
    /\ fpc[m] = "send"
    /\ Broadcast(fmsg[m], fnow[m])
    /\ FGoto(m, "done")
    /\ fmsg' = [fmsg EXCEPT ![m] = NoMsg]
    /\ fnow' = [fnow EXCEPT ![m] = 0]
    /\ UNCHANGED <<clock, backs, last, pending, scheduled, calls, callVars, timer>>
-----------------------------------------------------------------------------
(* the environment *)

\* Time passes for the clock and for every sleeping flush.
Tick ==
    /\ clock < MaxTime \/ \E m \in Call : timer[m] > 0
    /\ clock' = clock + 1
    /\ timer' = [m \in Call |-> Sat(timer[m], 1)]
    /\ UNCHANGED <<backs, last, pending, scheduled, calls, callVars, fpc, fmsg, fnow, sent>>

\* The wall clock is set back (the sleeps run on a monotonic clock).
SetBack ==
    /\ backs < MaxBacks
    /\ backs' = backs + 1
    /\ \E t \in 0 .. (clock - 1) : clock' = t
    /\ UNCHANGED <<last, pending, scheduled, calls, callVars, flushVars, sent>>

CallStep(m) ==
    \/ ReadClock(m) \/ LoadLast(m) \/ Cas(m) \/ SendNow(m)
    \/ Defer(m) \/ Arm(m) \/ PlanClock(m) \/ Spawn(m)

FlushStep(m) ==
    \/ FlushWake(m) \/ FlushTake(m) \/ FlushClock(m)
    \/ FlushStamp(m) \/ FlushSend(m)

Next ==
    \/ Enter
    \/ Tick
    \/ SetBack
    \/ \E m \in Call : CallStep(m) \/ FlushStep(m)

Spec == Init /\ [][Next]_vars

\* Threads that are inside a call or a flush run on, and time passes.
FairSpec ==
    /\ Spec
    /\ WF_vars(Tick)
    /\ \A m \in Call : WF_vars(CallStep(m)) /\ WF_vars(FlushStep(m))
-----------------------------------------------------------------------------
TypeOK ==
    /\ clock \in Nat /\ backs \in Nat /\ last \in Nat
    /\ pending \in Call \cup {NoMsg}
    /\ scheduled \in BOOLEAN
    /\ calls \in 0 .. MaxCalls
    /\ pc \in [Call -> {"idle", "clock", "load", "cas", "send", "defer", "arm",
                        "plan", "spawn", "done"}]
    /\ nowMs \in [Call -> Nat] /\ seen \in [Call -> Nat]
    /\ fpc \in [Call -> {"none", "asleep", "take", "clock", "stamp", "send", "done"}]
    /\ timer \in [Call -> 0 .. THROTTLE]
    /\ fmsg \in [Call -> Call \cup {NoMsg}] /\ fnow \in [Call -> Nat]
    /\ sent \in Seq([msg : Call, slot : Nat])

\* A flush that has been decided on and has not woken up yet.
Armed(m) == pc[m] \in {"plan", "spawn"} \/ fpc[m] = "asleep"

\* The flag vote_flush_scheduled is set exactly while one flush, and never two,
\* is on its way (room.rs:114-116, 128-131 and 135).
OneFlushArmed ==
    /\ scheduled <=> \E m \in Call : Armed(m)
    /\ \A m, n \in Call : Armed(m) /\ Armed(n) => m = n

\* No lost wakeup: a snapshot in the pending slot always has someone who will
\* still pick it up, whatever the order of storing the slot, swapping the flag,
\* clearing it and taking the slot (room.rs:107-110 and 135-141).
NoLostWakeup ==
    pending # NoMsg =>
        \/ scheduled
        \/ \E m \in Call : pc[m] = "arm" \/ fpc[m] = "take"

\* No snapshot is broadcast twice, by its own call and by a flush or by two
\* flushes (room.rs:102-103 and 137-149).
AtMostOnce ==
    \A i, j \in DOMAIN sent : sent[i].msg = sent[j].msg => i = j

\* What the compare_exchange is for: a call that goes on to broadcast directly
\* has moved the slot forward by at least the interval, however many calls
\* found the interval passed at the same time (room.rs:96-101).
DirectKeepsInterval ==
    [][\A m \in Call : (pc[m] = "cas" /\ pc'[m] = "send")
                            => last' - last >= THROTTLE]_vars

\* A vote change that was deferred is always followed by a later broadcast,
\* also when the wall clock is set back meanwhile (room.rs:107-151).
DeferredIsAnnounced ==
    \A k \in 0 .. MaxCalls :
        ((\E m \in Call : pc[m] = "defer") /\ Len(sent) = k) ~> (Len(sent) > k)

\* docs/REPORT.md on the throttle: it lowers the frequency only and never drops
\* the latest state. Once nothing is under way any more, the last broadcast is
\* the newest snapshot.
Quiet ==
    /\ pending = NoMsg
    /\ \A m \in Call : pc[m] \in {"idle", "done"} /\ fpc[m] \in {"none", "done"}

LatestNeverDropped == Quiet /\ calls > 0 => sent[Len(sent)].msg = calls

\* What has become of snapshot m.
Sent(m) == \E i \in DOMAIN sent : sent[i].msg = m
Carried(m) == \E f \in Call : fmsg[f] = m
StatusOf(m) ==
    IF pc[m] = "idle" THEN "new"
    ELSE IF Sent(m) THEN "sent"
    ELSE IF pending = m THEN "held"
    ELSE IF Carried(m) THEN "leaving"
    ELSE IF pc[m] \in {"clock", "load", "cas", "send", "defer"} THEN "offered"
    ELSE "superseded"

\* All of it together, as the handlers see it: whatever the interleaving, each
\* snapshot is sent, or held and sent, or superseded by a later one to be held
\* (room.rs:91-151).
Promise == INSTANCE Announcer WITH Snapshot <- Call, status <- [m \in Call |-> StatusOf(m)]
ImplementsAnnouncer == Promise!FairSpec
=============================================================================
