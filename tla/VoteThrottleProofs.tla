------------------------- MODULE VoteThrottleProofs -------------------------
(***************************************************************************)
(* Machine-checked proofs about VoteThrottle, for every interval, every    *)
(* number of threads and every bound on calls, time and clock changes.     *)
(***************************************************************************)
EXTENDS VoteThrottle, TLAPS

\* Calls start in order, a flush exists only once its call is over, and it
\* carries a snapshot exactly between taking it and broadcasting it.
Lifecycle ==
    \A m \in Call :
        /\ pc[m] = "idle" <=> m > calls
        /\ fpc[m] # "none" => pc[m] = "done"
        /\ fpc[m] \in {"clock", "stamp", "send"} <=> fmsg[m] # NoMsg

LEMMA CallFacts ==
  /\ Call \subseteq Nat
  /\ NoMsg \notin Call
  /\ \A k \in 0 .. MaxCalls : k < MaxCalls => k + 1 \in Call /\ k + 1 \in 0 .. MaxCalls
BY BoundsAssumption DEF Call, NoMsg

LEMMA DelayRange ==
  ASSUME NEW now \in Nat, NEW l \in Nat
  PROVE  Delay(now, l) \in 0 .. THROTTLE /\ Delay(now, l) >= 1
BY ThrottleAssumption DEF Delay, Sat

LEMMA SatNat == ASSUME NEW a \in Nat, NEW b \in Nat PROVE Sat(a, b) \in Nat /\ Sat(a, b) <= a
BY DEF Sat

LEMMA BroadcastType ==
  ASSUME sent \in Seq([msg : Call, slot : Nat]), NEW m \in Call, NEW slot \in Nat,
         Broadcast(m, slot)
  PROVE  sent' \in Seq([msg : Call, slot : Nat])
<1>1. [msg |-> m, slot |-> slot] \in [msg : Call, slot : Nat]
  OBVIOUS
<1>2. sent' = Append(sent, [msg |-> m, slot |-> slot])
  BY DEF Broadcast
<1> HIDE DEF Broadcast
<1> DEFINE S == [msg : Call, slot : Nat]
           r == [msg |-> m, slot |-> slot]
<1>3. r \in S /\ sent \in Seq(S) /\ sent' = Append(sent, r)
  BY <1>1, <1>2
<1> HIDE DEF S, r
<1>4. sent' \in Seq(S)
  BY <1>3
<1> QED
  BY <1>4 DEF S

LEMMA TypeStep == TypeOK /\ Lifecycle /\ [Next]_vars => TypeOK' /\ Lifecycle'
<1> SUFFICES ASSUME TypeOK, Lifecycle, [Next]_vars PROVE TypeOK' /\ Lifecycle'
    OBVIOUS
<1> USE CallFacts DEF TypeOK, Lifecycle, callVars, flushVars, Goto, FGoto, ForgetLocals
<1>1. CASE Enter
  BY <1>1 DEF Enter
<1>2. CASE Tick
  <2>1. \A m \in Call : Sat(timer[m], 1) \in 0 .. THROTTLE
    BY ThrottleAssumption DEF Sat
  <2>2. timer' \in [Call -> 0 .. THROTTLE] /\ clock' \in Nat
    BY <1>2, <2>1 DEF Tick
  <2> QED
    BY <1>2, <2>2 DEF Tick
<1>3. CASE SetBack
  BY <1>3 DEF SetBack
<1>4. ASSUME NEW m \in Call, CallStep(m) PROVE TypeOK' /\ Lifecycle'
  <2>1. CASE ReadClock(m)
    BY <2>1 DEF ReadClock
  <2>2. CASE LoadLast(m)
    BY <2>2 DEF LoadLast
  <2>3. CASE Cas(m)
    BY <2>3 DEF Cas
  <2>4. CASE SendNow(m)
    <3>1. sent' \in Seq([msg : Call, slot : Nat])
      BY <2>4, BroadcastType DEF SendNow
    <3> QED
      BY <2>4, <3>1 DEF SendNow
  <2>5. CASE Defer(m)
    BY <2>5 DEF Defer
  <2>6. CASE Arm(m)
    BY <2>6 DEF Arm
  <2>7. CASE PlanClock(m)
    BY <2>7 DEF PlanClock
  <2>8. CASE Spawn(m)
    <3>1. Delay(nowMs[m], last) \in 0 .. THROTTLE
      BY DelayRange
    <3>2. fpc[m] = "none" /\ fmsg[m] = NoMsg
      BY <2>8 DEF Spawn
    <3> QED
      BY <2>8, <3>1, <3>2 DEF Spawn
  <2> QED
    BY <1>4, <2>1, <2>2, <2>3, <2>4, <2>5, <2>6, <2>7, <2>8 DEF CallStep
<1>5. ASSUME NEW m \in Call, FlushStep(m) PROVE TypeOK' /\ Lifecycle'
  <2>1. CASE FlushWake(m)
    BY <2>1 DEF FlushWake
  <2>2. CASE FlushTake(m)
    BY <2>2 DEF FlushTake
  <2>3. CASE FlushClock(m)
    BY <2>3 DEF FlushClock
  <2>4. CASE FlushStamp(m)
    BY <2>4 DEF FlushStamp
  <2>5. CASE FlushSend(m)
    <3>1. fmsg[m] \in Call /\ fnow[m] \in Nat
      BY <2>5 DEF FlushSend
    <3>2. sent' \in Seq([msg : Call, slot : Nat])
      BY <2>5, <3>1, BroadcastType DEF FlushSend
    <3> QED
      BY <2>5, <3>2 DEF FlushSend
  <2> QED
    BY <1>5, <2>1, <2>2, <2>3, <2>4, <2>5 DEF FlushStep
<1>6. CASE UNCHANGED vars
  BY <1>6 DEF vars
<1> QED
  BY <1>1, <1>2, <1>3, <1>4, <1>5, <1>6 DEF Next

(* The variables keep their types: in particular the delay of a flush is never
   longer than the interval, also when the clock has been set back
   (room.rs:124-126). *)
THEOREM TypeCorrect == Spec => [](TypeOK /\ Lifecycle)
<1>1. Init => TypeOK /\ Lifecycle
  <2> SUFFICES ASSUME Init PROVE TypeOK /\ Lifecycle
    OBVIOUS
  <2>1. sent \in Seq([msg : Call, slot : Nat])
    BY DEF Init
  <2>2. Lifecycle
    BY BoundsAssumption DEF Init, Lifecycle, Call
  <2>3. 0 \in 0 .. THROTTLE /\ 0 \in 0 .. MaxCalls
    BY ThrottleAssumption, BoundsAssumption
  <2> QED
    BY <2>1, <2>2, <2>3, ThrottleAssumption DEF Init, TypeOK
<1> QED
  BY <1>1, TypeStep, PTL DEF Spec
-----------------------------------------------------------------------------
\* A call about to compare-and-swap has found the interval passed.
SlotReady == \A m \in Call : pc[m] = "cas" => nowMs[m] - seen[m] >= THROTTLE

LEMMA SlotReadyStep == TypeOK /\ SlotReady /\ [Next]_vars => SlotReady'
<1> SUFFICES ASSUME TypeOK, SlotReady, [Next]_vars, NEW m \in Call, pc'[m] = "cas"
             PROVE  nowMs'[m] - seen'[m] >= THROTTLE
    BY DEF SlotReady
<1> USE DEF TypeOK, callVars, flushVars
<1>1. CASE pc[m] = "cas" /\ nowMs'[m] = nowMs[m] /\ seen'[m] = seen[m]
  BY <1>1 DEF SlotReady
<1>2. CASE LoadLast(m)
  BY <1>2, ThrottleAssumption DEF LoadLast, Goto, Sat
<1>3. ASSUME NEW n \in Call, n # m, CallStep(n)
      PROVE  pc'[m] = pc[m] /\ nowMs'[m] = nowMs[m] /\ seen'[m] = seen[m]
  BY <1>3 DEF CallStep, ReadClock, LoadLast, Cas, SendNow, Defer, Arm, PlanClock, Spawn,
              Goto, ForgetLocals
<1>4. ASSUME CallStep(m), ~LoadLast(m) PROVE FALSE
  BY <1>4 DEF CallStep, ReadClock, Cas, SendNow, Defer, Arm, PlanClock, Spawn, Goto
<1>5. ASSUME NEW n \in Call, FlushStep(n) PROVE UNCHANGED callVars
  BY <1>5 DEF FlushStep, FlushWake, FlushTake, FlushClock, FlushStamp, FlushSend
<1>6. CASE Tick \/ SetBack \/ UNCHANGED vars
  BY <1>1, <1>6 DEF Tick, SetBack, vars
<1>7. ASSUME Enter
      PROVE  pc[m] = "cas" /\ nowMs'[m] = nowMs[m] /\ seen'[m] = seen[m]
  BY <1>7 DEF Enter, Goto
<1> QED
  BY <1>1, <1>2, <1>3, <1>4, <1>5, <1>6, <1>7 DEF Next

(* Every direct broadcast has moved the slot forward by at least the interval,
   with any number of calls competing for it (room.rs:96-101). *)
THEOREM DirectKeepsIntervalCorrect == Spec => DirectKeepsInterval
<1>1. Init => SlotReady
  BY DEF Init, SlotReady
<1>2. TypeOK /\ SlotReady /\ [Next]_vars =>
        [\A m \in Call : (pc[m] = "cas" /\ pc'[m] = "send")
                            => last' - last >= THROTTLE]_vars
  <2> SUFFICES ASSUME TypeOK, SlotReady, [Next]_vars, NEW m \in Call,
                      pc[m] = "cas", pc'[m] = "send"
               PROVE  last' - last >= THROTTLE
    OBVIOUS
  <2> USE DEF TypeOK, callVars, flushVars
  <2>1. CASE Cas(m)
    BY <2>1 DEF Cas, Goto, SlotReady
  <2>2. ASSUME CallStep(m), ~Cas(m) PROVE FALSE
    BY <2>2 DEF CallStep, ReadClock, LoadLast, SendNow, Defer, Arm, PlanClock, Spawn, Goto
  <2>3. ASSUME NEW n \in Call, n # m, CallStep(n) PROVE FALSE
    BY <2>3 DEF CallStep, ReadClock, LoadLast, Cas, SendNow, Defer, Arm, PlanClock, Spawn, Goto
  <2>4. ASSUME NEW n \in Call, FlushStep(n) PROVE FALSE
    BY <2>4 DEF FlushStep, FlushWake, FlushTake, FlushClock, FlushStamp, FlushSend
  <2>5. ASSUME Enter \/ Tick \/ SetBack \/ UNCHANGED vars PROVE FALSE
    BY <2>5 DEF Enter, Tick, SetBack, vars, Goto
  <2> QED
    BY <2>1, <2>2, <2>3, <2>4, <2>5 DEF Next
<1> QED
  BY <1>1, <1>2, TypeCorrect, SlotReadyStep, PTL DEF Spec, DirectKeepsInterval
-----------------------------------------------------------------------------
LEMMA OneFlushArmedStep ==
  TypeOK /\ Lifecycle /\ OneFlushArmed /\ [Next]_vars => OneFlushArmed'
<1> SUFFICES ASSUME TypeOK, Lifecycle, OneFlushArmed, [Next]_vars PROVE OneFlushArmed'
    OBVIOUS
<1> USE CallFacts DEF TypeOK, Lifecycle, callVars, flushVars, Goto, FGoto
<1>1. ASSUME scheduled' = scheduled, \A n \in Call : Armed(n)' <=> Armed(n)
      PROVE  OneFlushArmed'
  BY <1>1 DEF OneFlushArmed
<1>2. CASE Enter
  <2>1. \A n \in Call : Armed(n)' <=> Armed(n)
    BY <1>2 DEF Enter, Armed
  <2> QED
    BY <1>1, <1>2, <2>1 DEF Enter
<1>3. CASE Tick \/ SetBack \/ UNCHANGED vars
  BY <1>1, <1>3 DEF Tick, SetBack, vars, Armed
<1>4. ASSUME NEW m \in Call, CallStep(m) PROVE OneFlushArmed'
  <2>1. CASE ReadClock(m) \/ LoadLast(m) \/ Cas(m) \/ SendNow(m) \/ Defer(m)
    <3>1. \A n \in Call : Armed(n)' <=> Armed(n)
      BY <2>1 DEF ReadClock, LoadLast, Cas, SendNow, Defer, Armed
    <3> QED
      BY <1>1, <2>1, <3>1 DEF ReadClock, LoadLast, Cas, SendNow, Defer
  <2>2. CASE Arm(m) /\ scheduled
    <3>1. \A n \in Call : Armed(n)' <=> Armed(n)
      BY <2>2 DEF Arm, Armed
    <3> QED
      BY <1>1, <2>2, <3>1 DEF Arm
  <2>3. CASE Arm(m) /\ ~scheduled
    <3>1. scheduled' = TRUE /\ \A n \in Call : Armed(n)' <=> n = m
      BY <2>3 DEF Arm, Armed, OneFlushArmed
    <3> QED
      BY <3>1 DEF OneFlushArmed
  <2>4. CASE PlanClock(m) \/ Spawn(m)
    <3>1. \A n \in Call : Armed(n)' <=> Armed(n)
      BY <2>4 DEF PlanClock, Spawn, Armed
    <3> QED
      BY <1>1, <2>4, <3>1 DEF PlanClock, Spawn
  <2> QED
    BY <1>4, <2>1, <2>2, <2>3, <2>4 DEF CallStep
<1>5. ASSUME NEW m \in Call, FlushStep(m) PROVE OneFlushArmed'
  <2>1. CASE FlushWake(m)
    <3>1. scheduled' = FALSE /\ \A n \in Call : ~Armed(n)'
      BY <2>1 DEF FlushWake, Armed, OneFlushArmed
    <3> QED
      BY <3>1 DEF OneFlushArmed
  <2>2. CASE FlushTake(m) \/ FlushClock(m) \/ FlushStamp(m) \/ FlushSend(m)
    <3>1. \A n \in Call : Armed(n)' <=> Armed(n)
      BY <2>2 DEF FlushTake, FlushClock, FlushStamp, FlushSend, Armed
    <3> QED
      BY <1>1, <2>2, <3>1 DEF FlushTake, FlushClock, FlushStamp, FlushSend
  <2> QED
    BY <1>5, <2>1, <2>2 DEF FlushStep
<1> QED
  BY <1>2, <1>3, <1>4, <1>5 DEF Next

(* vote_flush_scheduled is set exactly while one flush is on its way
   (room.rs:114-116, 128-131 and 135). *)
THEOREM OneFlushArmedCorrect == Spec => []OneFlushArmed
<1>1. Init => OneFlushArmed
  BY DEF Init, OneFlushArmed, Armed
<1> QED
  BY <1>1, TypeCorrect, OneFlushArmedStep, PTL DEF Spec

LEMMA NoLostWakeupStep ==
  TypeOK /\ Lifecycle /\ NoLostWakeup /\ [Next]_vars => NoLostWakeup'
<1> SUFFICES ASSUME TypeOK, Lifecycle, NoLostWakeup, [Next]_vars PROVE NoLostWakeup'
    OBVIOUS
<1> USE CallFacts DEF TypeOK, Lifecycle, callVars, flushVars, Goto, FGoto
<1>1. ASSUME pending' = pending, scheduled => scheduled',
             \A n \in Call : /\ pc[n] = "arm" => pc'[n] = "arm"
                             /\ fpc[n] = "take" => fpc'[n] = "take"
      PROVE  NoLostWakeup'
  BY <1>1 DEF NoLostWakeup
<1>2. CASE Enter \/ Tick \/ SetBack \/ UNCHANGED vars
  <2>1. pending' = pending /\ scheduled' = scheduled /\ fpc' = fpc
    BY <1>2 DEF Enter, Tick, SetBack, vars
  <2>2. \A n \in Call : pc[n] = "arm" => pc'[n] = "arm"
    <3>1. CASE Enter
      BY <3>1 DEF Enter
    <3>2. CASE Tick \/ SetBack \/ UNCHANGED vars
      BY <3>2 DEF Tick, SetBack, vars
    <3> QED
      BY <1>2, <3>1, <3>2
  <2> QED
    BY <1>1, <2>1, <2>2
<1>3. ASSUME NEW m \in Call, CallStep(m) PROVE NoLostWakeup'
  <2>1. CASE ReadClock(m) \/ LoadLast(m) \/ Cas(m) \/ SendNow(m) \/ PlanClock(m) \/ Spawn(m)
    <3>1. \A n \in Call : /\ pc[n] = "arm" => pc'[n] = "arm"
                          /\ fpc[n] = "take" => fpc'[n] = "take"
      BY <2>1 DEF ReadClock, LoadLast, Cas, SendNow, PlanClock, Spawn
    <3> QED
      BY <1>1, <2>1, <3>1 DEF ReadClock, LoadLast, Cas, SendNow, PlanClock, Spawn
  <2>2. CASE Defer(m)
    <3>1. pc'[m] = "arm"
      BY <2>2 DEF Defer
    <3> QED
      BY <3>1 DEF NoLostWakeup
  <2>3. CASE Arm(m)
    BY <2>3 DEF Arm, NoLostWakeup
  <2> QED
    BY <1>3, <2>1, <2>2, <2>3 DEF CallStep
<1>4. ASSUME NEW m \in Call, FlushStep(m) PROVE NoLostWakeup'
  <2>1. CASE FlushWake(m)
    <3>1. fpc'[m] = "take"
      BY <2>1 DEF FlushWake
    <3> QED
      BY <3>1 DEF NoLostWakeup
  <2>2. CASE FlushTake(m)
    BY <2>2 DEF FlushTake, NoLostWakeup
  <2>3. CASE FlushClock(m) \/ FlushStamp(m) \/ FlushSend(m)
    BY <1>1, <2>3 DEF FlushClock, FlushStamp, FlushSend
  <2> QED
    BY <1>4, <2>1, <2>2, <2>3 DEF FlushStep
<1> QED
  BY <1>2, <1>3, <1>4 DEF Next

(* A snapshot in the pending slot always has somebody who will still take it:
   no order of the slot's and the flag's accesses loses the wakeup
   (room.rs:107-116 and 135-141). *)
THEOREM NoLostWakeupCorrect == Spec => []NoLostWakeup
<1>1. Init => NoLostWakeup
  BY DEF Init, NoLostWakeup
<1> QED
  BY <1>1, TypeCorrect, NoLostWakeupStep, PTL DEF Spec
-----------------------------------------------------------------------------
(* Where a snapshot can be: with its call, in the pending slot, with one
   flush, or broadcast; never in two of these places. *)
WithCall(m) == pc[m] \in {"idle", "clock", "load", "cas", "send", "defer"}

OnePlace ==
    /\ \A m \in Call : WithCall(m) => pending # m /\ ~Carried(m) /\ ~Sent(m)
    /\ \A m \in Call : pending = m => ~Carried(m) /\ ~Sent(m)
    /\ \A m \in Call : Carried(m) => ~Sent(m)
    /\ \A f, g \in Call : fmsg[f] = fmsg[g] /\ fmsg[f] # NoMsg => f = g

\* Broadcasting m appends it: m was sent, and nothing else is new.
LEMMA BroadcastSends ==
  ASSUME sent \in Seq([msg : Call, slot : Nat]), NEW m \in Call, NEW slot \in Nat,
         Broadcast(m, slot)
  PROVE  /\ \A k \in Call : Sent(k)' <=> Sent(k) \/ k = m
         /\ AtMostOnce /\ ~Sent(m) => AtMostOnce'
<1> DEFINE r == [msg |-> m, slot |-> slot]
<1>1. r.msg = m
  OBVIOUS
<1>2. sent' = Append(sent, r)
  BY DEF Broadcast
<1> HIDE DEF r
<1>3. /\ DOMAIN sent = 1 .. Len(sent) /\ Len(sent) \in Nat
      /\ DOMAIN sent' = 1 .. (Len(sent) + 1)
      /\ sent'[Len(sent) + 1] = r
      /\ \A i \in DOMAIN sent : sent'[i] = sent[i]
  BY <1>2
<1>4. \A i \in DOMAIN sent' : i \in DOMAIN sent \/ i = Len(sent) + 1
  BY <1>3
<1>5. DOMAIN sent \subseteq DOMAIN sent' /\ Len(sent) + 1 \in DOMAIN sent'
  BY <1>3
<1>6. \A k \in Call : Sent(k)' <=> Sent(k) \/ k = m
  BY <1>1, <1>3, <1>4, <1>5 DEF Sent
<1>7. ASSUME AtMostOnce, ~Sent(m) PROVE AtMostOnce'
  BY <1>1, <1>3, <1>4, <1>7 DEF AtMostOnce, Sent
<1> QED
  BY <1>6, <1>7

LEMMA OnePlaceStep ==
  TypeOK /\ Lifecycle /\ OnePlace /\ AtMostOnce /\ [Next]_vars => OnePlace' /\ AtMostOnce'
<1> SUFFICES ASSUME TypeOK, Lifecycle, OnePlace, AtMostOnce, [Next]_vars
             PROVE  OnePlace' /\ AtMostOnce'
    OBVIOUS
<1> USE CallFacts DEF TypeOK, Lifecycle, callVars, flushVars, Goto, FGoto
<1>1. ASSUME UNCHANGED <<pending, fmsg, sent>>, \A m \in Call : WithCall(m)' => WithCall(m)
      PROVE  OnePlace' /\ AtMostOnce'
  <2>1. \A m \in Call : (Carried(m)' <=> Carried(m)) /\ (Sent(m)' <=> Sent(m))
    BY <1>1 DEF Carried, Sent
  <2>2. AtMostOnce'
    BY <1>1 DEF AtMostOnce
  <2> QED
    BY <1>1, <2>1, <2>2 DEF OnePlace
<1>2. CASE Enter
  <2>1. \A m \in Call : WithCall(m)' => WithCall(m)
    BY <1>2 DEF Enter, WithCall
  <2> QED
    BY <1>1, <1>2, <2>1 DEF Enter
<1>3. CASE Tick \/ SetBack \/ UNCHANGED vars
  BY <1>1, <1>3 DEF Tick, SetBack, vars, WithCall
<1>4. ASSUME NEW m \in Call, CallStep(m) PROVE OnePlace' /\ AtMostOnce'
  <2>1. CASE ReadClock(m) \/ LoadLast(m) \/ Cas(m) \/ Arm(m) \/ PlanClock(m) \/ Spawn(m)
    <3>1. \A n \in Call : WithCall(n)' => WithCall(n)
      BY <2>1 DEF ReadClock, LoadLast, Cas, Arm, PlanClock, Spawn, WithCall
    <3>2. UNCHANGED <<pending, fmsg, sent>>
      BY <2>1 DEF ReadClock, LoadLast, Cas, Arm, PlanClock, Spawn
    <3> QED
      BY <1>1, <3>1, <3>2
  <2>2. CASE SendNow(m)
    <3>1. /\ \A k \in Call : Sent(k)' <=> Sent(k) \/ k = m
          /\ AtMostOnce /\ ~Sent(m) => AtMostOnce'
      BY <2>2, BroadcastSends DEF SendNow
    <3>2. WithCall(m) /\ ~WithCall(m)' /\ \A n \in Call : WithCall(n)' => WithCall(n)
      BY <2>2 DEF SendNow, WithCall
    <3>3. pending' = pending /\ fmsg' = fmsg
      BY <2>2 DEF SendNow
    <3>4. \A k \in Call : Carried(k)' <=> Carried(k)
      BY <3>3 DEF Carried
    <3> QED
      BY <3>1, <3>2, <3>3, <3>4 DEF OnePlace
  <2>3. CASE Defer(m)
    <3>1. WithCall(m) /\ ~WithCall(m)' /\ \A n \in Call : WithCall(n)' => WithCall(n)
      BY <2>3 DEF Defer, WithCall
    <3>2. pending' = m /\ fmsg' = fmsg /\ sent' = sent
      BY <2>3 DEF Defer
    <3>3. \A k \in Call : (Carried(k)' <=> Carried(k)) /\ (Sent(k)' <=> Sent(k))
      BY <3>2 DEF Carried, Sent
    <3>4. AtMostOnce'
      BY <3>2 DEF AtMostOnce
    <3> QED
      BY <3>1, <3>2, <3>3, <3>4 DEF OnePlace
  <2> QED
    BY <1>4, <2>1, <2>2, <2>3 DEF CallStep
<1>5. ASSUME NEW m \in Call, FlushStep(m) PROVE OnePlace' /\ AtMostOnce'
  <2>1. CASE FlushWake(m) \/ FlushClock(m) \/ FlushStamp(m)
    BY <1>1, <2>1 DEF FlushWake, FlushClock, FlushStamp, WithCall
  <2>2. CASE FlushTake(m)
    <3>1. /\ pending' = NoMsg /\ fmsg' = [fmsg EXCEPT ![m] = pending]
          /\ UNCHANGED <<pc, sent>>
      BY <2>2 DEF FlushTake
    <3>2. \A k \in Call : /\ Carried(k)' => Carried(k) \/ k = pending
                          /\ Sent(k)' <=> Sent(k)
                          /\ WithCall(k)' <=> WithCall(k)
      BY <3>1 DEF Carried, Sent, WithCall
    <3>3. AtMostOnce'
      BY <3>1 DEF AtMostOnce
    <3>4. \A f, g \in Call : fmsg'[f] = fmsg'[g] /\ fmsg'[f] # NoMsg => f = g
      BY <3>1 DEF OnePlace, Carried
    <3> QED
      BY <3>1, <3>2, <3>3, <3>4 DEF OnePlace
  <2>3. CASE FlushSend(m)
    <3>1. fmsg[m] \in Call /\ fnow[m] \in Nat /\ Carried(fmsg[m])
      BY <2>3 DEF FlushSend, Carried
    <3>2. /\ \A k \in Call : Sent(k)' <=> Sent(k) \/ k = fmsg[m]
          /\ AtMostOnce /\ ~Sent(fmsg[m]) => AtMostOnce'
      BY <2>3, <3>1, BroadcastSends DEF FlushSend
    <3>3. fmsg' = [fmsg EXCEPT ![m] = NoMsg] /\ pending' = pending /\ pc' = pc
      BY <2>3 DEF FlushSend
    <3>4. \A k \in Call : Carried(k)' => Carried(k) /\ k # fmsg[m]
      BY <3>3 DEF Carried, OnePlace
    <3>5. \A k \in Call : WithCall(k)' <=> WithCall(k)
      BY <3>3 DEF WithCall
    <3>6. \A f, g \in Call : fmsg'[f] = fmsg'[g] /\ fmsg'[f] # NoMsg => f = g
      BY <3>3 DEF OnePlace
    <3>7. /\ ~WithCall(fmsg[m]) /\ pending # fmsg[m]
          /\ \A k \in Call : WithCall(k)' => pending' # k /\ ~Carried(k)' /\ ~Sent(k)'
      BY <3>1, <3>2, <3>3, <3>4, <3>5 DEF OnePlace
    <3>8. /\ \A k \in Call : pending' = k => ~Carried(k)' /\ ~Sent(k)'
          /\ \A k \in Call : Carried(k)' => ~Sent(k)'
      BY <3>1, <3>2, <3>3, <3>4, <3>7 DEF OnePlace
    <3>9. AtMostOnce'
      BY <3>1, <3>2 DEF OnePlace
    <3> QED
      BY <3>6, <3>7, <3>8, <3>9 DEF OnePlace
  <2> QED
    BY <1>5, <2>1, <2>2, <2>3 DEF FlushStep
<1> QED
  BY <1>2, <1>3, <1>4, <1>5 DEF Next

(* No snapshot is broadcast twice, whoever broadcasts it
   (room.rs:102-103 and 137-149). *)
THEOREM AtMostOnceCorrect == Spec => []AtMostOnce
<1>1. Init => OnePlace /\ AtMostOnce
  BY CallFacts DEF Init, OnePlace, AtMostOnce, Carried, Sent
<1> QED
  BY <1>1, TypeCorrect, OnePlaceStep, PTL DEF Spec
-----------------------------------------------------------------------------
(* The throttle as an Announcer *)

\* A snapshot keeps its status while the slot, what the flushes carry and what
\* was sent stay, and its call stays on the same side of Enter and of deferring.
LEMMA StatusKept ==
  ASSUME UNCHANGED <<pending, fmsg, sent>>, NEW m \in Call,
         pc'[m] = "idle" <=> pc[m] = "idle", WithCall(m)' <=> WithCall(m)
  PROVE  StatusOf(m)' = StatusOf(m)
<1>1. (Sent(m)' <=> Sent(m)) /\ (Carried(m)' <=> Carried(m)) /\ pending' = pending
  BY DEF Sent, Carried
<1> QED
  BY <1>1 DEF StatusOf, WithCall

\* The status of a snapshot, place by place.
LEMMA StatusByPlace ==
  ASSUME OnePlace, NEW m \in Call
  PROVE  /\ pc[m] = "idle" => StatusOf(m) = "new"
         /\ WithCall(m) /\ pc[m] # "idle" => StatusOf(m) = "offered"
         /\ pc[m] # "idle" /\ pending = m => StatusOf(m) = "held"
         /\ pc[m] # "idle" /\ Carried(m) => StatusOf(m) = "leaving"
         /\ pc[m] # "idle" /\ Sent(m) => StatusOf(m) = "sent"
         /\ StatusOf(m) = "held" => pending = m
BY DEF OnePlace, StatusOf, WithCall

\* One snapshot changes its status: an update of the status function.
LEMMA OneStatusChanges ==
  ASSUME NEW s \in Call, NEW to,
         StatusOf(s)' = to, \A k \in Call \ {s} : StatusOf(k)' = StatusOf(k)
  PROVE  [k \in Call |-> StatusOf(k)'] = [[k \in Call |-> StatusOf(k)] EXCEPT ![s] = to]
OBVIOUS

LEMMA StepIsAnnouncerStep ==
  ASSUME TypeOK, Lifecycle, OnePlace, OnePlace', [Next]_vars
  PROVE  [Promise!Next]_[m \in Call |-> StatusOf(m)]
<1> USE CallFacts DEF TypeOK, Lifecycle, callVars, flushVars, Goto, FGoto
<1>1. ASSUME \A m \in Call : StatusOf(m)' = StatusOf(m)
      PROVE  [Promise!Next]_[m \in Call |-> StatusOf(m)]
  BY <1>1
<1>2. ASSUME UNCHANGED <<pending, fmsg, sent>>,
             \A m \in Call : /\ pc'[m] = "idle" <=> pc[m] = "idle"
                             /\ WithCall(m)' <=> WithCall(m)
      PROVE  [Promise!Next]_[m \in Call |-> StatusOf(m)]
  BY <1>1, <1>2, StatusKept
<1>3. CASE Tick \/ SetBack \/ UNCHANGED vars
  BY <1>2, <1>3 DEF Tick, SetBack, vars, WithCall
<1>4. CASE Enter
  <2>1. PICK s \in Call : /\ pc[s] = "idle" /\ pc' = [pc EXCEPT ![s] = "clock"]
                          /\ UNCHANGED <<pending, fmsg, sent>>
    <3>1. calls + 1 \in Call /\ pc[calls + 1] = "idle"
      BY <1>4 DEF Enter
    <3>2. pc' = [pc EXCEPT ![calls + 1] = "clock"] /\ UNCHANGED <<pending, fmsg, sent>>
      BY <1>4 DEF Enter
    <3> QED
      BY <3>1, <3>2
  <2>2. \A k \in Call \ {s} : StatusOf(k)' = StatusOf(k)
    BY <2>1, StatusKept DEF WithCall
  <2>3. StatusOf(s) = "new" /\ StatusOf(s)' = "offered"
    <3>1. WithCall(s) /\ WithCall(s)' /\ pc'[s] # "idle"
      BY <2>1 DEF WithCall
    <3> QED
      BY <2>1, <3>1, StatusByPlace DEF OnePlace, StatusOf
  <2>4. Promise!Offer(s)
    BY <2>1, <2>2, <2>3, OneStatusChanges DEF Promise!Offer, Promise!Step
  <2> QED
    BY <2>1, <2>4 DEF Promise!Next
<1>5. ASSUME NEW m \in Call, CallStep(m)
      PROVE  [Promise!Next]_[k \in Call |-> StatusOf(k)]
  <2>1. CASE ReadClock(m) \/ LoadLast(m) \/ Cas(m) \/ Arm(m) \/ PlanClock(m) \/ Spawn(m)
    BY <1>2, <2>1 DEF ReadClock, LoadLast, Cas, Arm, PlanClock, Spawn, WithCall
  <2>2. CASE SendNow(m)
    <3>1. /\ pc[m] = "send" /\ pc' = [pc EXCEPT ![m] = "done"]
          /\ UNCHANGED <<pending, fmsg>>
          /\ \A k \in Call : Sent(k)' <=> Sent(k) \/ k = m
      BY <2>2, BroadcastSends DEF SendNow
    <3>2. \A k \in Call \ {m} : StatusOf(k)' = StatusOf(k)
      BY <3>1 DEF StatusOf, Carried
    <3>3. StatusOf(m) = "offered" /\ StatusOf(m)' = "sent"
      BY <3>1, StatusByPlace DEF StatusOf, WithCall
    <3>4. Promise!SendNow(m)
      BY <3>2, <3>3, OneStatusChanges DEF Promise!SendNow, Promise!Step
    <3> QED
      BY <3>4 DEF Promise!Next
  <2>3. CASE Defer(m)
    <3>1. /\ pc[m] = "defer" /\ pc' = [pc EXCEPT ![m] = "arm"]
          /\ pending' = m /\ UNCHANGED <<fmsg, sent>>
      BY <2>3 DEF Defer
    <3>2. \A k \in Call : (Sent(k)' <=> Sent(k)) /\ (Carried(k)' <=> Carried(k))
      BY <3>1 DEF Sent, Carried
    <3>3. StatusOf(m) = "offered" /\ StatusOf(m)' = "held" /\ pending # m
      BY <3>1, <3>2, StatusByPlace DEF StatusOf, WithCall, OnePlace
    <3>4. ASSUME NEW k \in Call, k # m
          PROVE  StatusOf(k)' = IF StatusOf(k) = "held" THEN "superseded" ELSE StatusOf(k)
      BY <3>1, <3>2, <3>4 DEF StatusOf, OnePlace, WithCall
    <3>5. Promise!Hold(m)
      BY <3>3, <3>4 DEF Promise!Hold
    <3> QED
      BY <3>5 DEF Promise!Next
  <2> QED
    BY <1>5, <2>1, <2>2, <2>3 DEF CallStep
<1>6. ASSUME NEW m \in Call, FlushStep(m)
      PROVE  [Promise!Next]_[k \in Call |-> StatusOf(k)]
  <2>1. CASE FlushWake(m) \/ FlushClock(m) \/ FlushStamp(m)
    BY <1>2, <2>1 DEF FlushWake, FlushClock, FlushStamp, WithCall
  <2>2. CASE FlushTake(m) /\ pending = NoMsg
    <3>1. fmsg[m] = NoMsg /\ UNCHANGED <<pc, sent>> /\ pending' = pending
          /\ fmsg' = [fmsg EXCEPT ![m] = NoMsg]
      BY <2>2 DEF FlushTake
    <3>2. UNCHANGED <<pending, fmsg, sent>>
      BY <3>1
    <3> QED
      BY <1>2, <3>1, <3>2 DEF WithCall
  <2>3. ASSUME FlushTake(m), NEW s \in Call, pending = s
        PROVE  [Promise!Next]_[k \in Call |-> StatusOf(k)]
    <3>1. /\ pending' = NoMsg /\ fmsg' = [fmsg EXCEPT ![m] = s]
          /\ fmsg[m] = NoMsg /\ UNCHANGED <<pc, sent>>
      BY <2>3 DEF FlushTake
    <3>2. \A k \in Call : (Sent(k)' <=> Sent(k)) /\ (Carried(k)' <=> Carried(k) \/ k = s)
      BY <3>1 DEF Sent, Carried
    <3>3. \A k \in Call \ {s} : StatusOf(k)' = StatusOf(k)
      BY <2>3, <3>1, <3>2 DEF StatusOf
    <3>4. StatusOf(s) = "held" /\ StatusOf(s)' = "leaving"
      BY <2>3, <3>1, <3>2 DEF StatusOf, OnePlace, WithCall
    <3>5. Promise!Take(s)
      BY <3>3, <3>4, OneStatusChanges DEF Promise!Take, Promise!Step
    <3> QED
      BY <3>5 DEF Promise!Next
  <2>4. ASSUME FlushSend(m), NEW s \in Call, fmsg[m] = s
        PROVE  [Promise!Next]_[k \in Call |-> StatusOf(k)]
    <3>1. /\ fmsg' = [fmsg EXCEPT ![m] = NoMsg] /\ UNCHANGED <<pc, pending>>
          /\ Carried(s)
          /\ \A k \in Call : Sent(k)' <=> Sent(k) \/ k = s
      BY <2>4, BroadcastSends DEF FlushSend, Carried
    <3>2. \A k \in Call : k # s => (Carried(k)' <=> Carried(k))
      BY <2>4, <3>1 DEF Carried
    <3>3. \A k \in Call \ {s} : StatusOf(k)' = StatusOf(k)
      BY <3>1, <3>2 DEF StatusOf
    <3>4. StatusOf(s) = "leaving" /\ StatusOf(s)' = "sent"
      BY <3>1 DEF StatusOf, OnePlace, WithCall
    <3>5. Promise!SendHeld(s)
      BY <3>3, <3>4, OneStatusChanges DEF Promise!SendHeld, Promise!Step
    <3> QED
      BY <3>5 DEF Promise!Next
  <2>5. FlushSend(m) => fmsg[m] \in Call
    BY DEF FlushSend
  <2> QED
    BY <1>6, <2>1, <2>2, <2>3, <2>4, <2>5 DEF FlushStep, FlushTake
<1> QED
  BY <1>3, <1>4, <1>5, <1>6 DEF Next

(* Every step of the calls, the flushes and the clocks is a step of Announcer
   or changes no snapshot's status: a snapshot is broadcast at most once, and
   given up only for another one that is held in its place (room.rs:91-151). *)
THEOREM AnnouncerImplemented == Spec => Promise!Spec
<1>1. Init => OnePlace /\ AtMostOnce /\ Promise!Init
  <2>1. Init => OnePlace /\ AtMostOnce
    BY CallFacts DEF Init, OnePlace, AtMostOnce, Carried, Sent
  <2>2. Init => Promise!Init
    BY DEF Init, Promise!Init, StatusOf
  <2> QED
    BY <2>1, <2>2
<1>2. TypeOK /\ Lifecycle /\ OnePlace /\ OnePlace' /\ [Next]_vars
        => [Promise!Next]_[m \in Call |-> StatusOf(m)]
  BY StepIsAnnouncerStep
<1> QED
  BY <1>1, <1>2, TypeCorrect, OnePlaceStep, PTL DEF Spec, Promise!Spec
=============================================================================
