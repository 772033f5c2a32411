------------------------------ MODULE Announcer ------------------------------
(***************************************************************************)
(* What the handlers may expect of broadcast_vote_throttled                *)
(* (src/src/room.rs): a snapshot handed to it is broadcast once, or held   *)
(* back and broadcast later, or held back and given up for another one     *)
(* that is held in its place. Clocks, intervals, flags and tasks do not    *)
(* exist here, and neither does an order of the broadcasts: the code       *)
(* promises none.                                                          *)
(***************************************************************************)
CONSTANT Snapshot

VARIABLE status   \* what has become of each snapshot

Init == status = [s \in Snapshot |-> "new"]

Step(s, from, to) == status[s] = from /\ status' = [status EXCEPT ![s] = to]

Offer(s)    == Step(s, "new", "offered")
SendNow(s)  == Step(s, "offered", "sent")
Take(s)     == Step(s, "held", "leaving")
SendHeld(s) == Step(s, "leaving", "sent")

\* There is room for one: the one held before is given up.
Hold(s) ==
    /\ status[s] = "offered"
    /\ status' = [t \in Snapshot |-> IF t = s THEN "held"
                                     ELSE IF status[t] = "held" THEN "superseded"
                                     ELSE status[t]]

Next == \E s \in Snapshot :
            Offer(s) \/ SendNow(s) \/ Hold(s) \/ Take(s) \/ SendHeld(s)

Spec == Init /\ [][Next]_status

\* A snapshot does not stay with a call, in the slot or with a flush for ever.
FairSpec ==
    /\ Spec
    /\ \A s \in Snapshot : /\ WF_status(SendNow(s) \/ Hold(s))
                           /\ WF_status(Take(s))
                           /\ WF_status(SendHeld(s))
==============================================================================
