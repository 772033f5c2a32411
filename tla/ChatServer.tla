----------------------------- MODULE ChatServer -----------------------------
(***************************************************************************)
(* The life of the server and of its connections: the accept loop of       *)
(* src/src/server.rs, the handler and write task of src/src/client.rs, and *)
(* the membership and broadcast channel of src/src/room.rs.                *)
(*                                                                         *)
(* Each connection has two tasks. Its handler subscribes to the channel,   *)
(* joins the room, writes the welcome line, spawns the write task, reads   *)
(* lines until the peer is gone or the write task has ended, and leaves.   *)
(* The write task copies events from the channel to the socket. Every      *)
(* point where another task can run in between is a step of its own.       *)
(*                                                                         *)
(* The channel is the log of everything sent, of which the last CAP events *)
(* are retained; a receiver is an index into the log. What an event says   *)
(* matters only for presence and shutdown: every chat line and every       *)
(* snapshot is the event "line". The votes themselves are in VoteBoard,    *)
(* the throttle of their snapshots in VoteThrottle.                        *)
(***************************************************************************)
EXTENDS Integers, Sequences, FiniteSets

CONSTANTS
    MAX_CONNECTIONS,  \* permits of the semaphore
    CAP,              \* BROADCAST_CAP: events the channel retains
    MaxConn,          \* bound: connections accepted
    MaxRefused,       \* bound: connections refused
    MaxLines          \* bound: lines broadcast

ASSUME ServerAssumption ==
    /\ MAX_CONNECTIONS \in Nat \ {0}
    /\ CAP \in Nat \ {0}
    /\ MaxConn \in Nat /\ MaxRefused \in Nat /\ MaxLines \in Nat

\* Connections by their id: next_id starts at 1 and is never reused.
Conn == 1 .. MaxConn

Joined(c) == [kind |-> "joined", id |-> c]
Left(c)   == [kind |-> "left", id |-> c]
Line(c)   == [kind |-> "line", id |-> c]
Shutdown  == [kind |-> "shutdown", id |-> 0]
Event == [kind : {"joined", "left", "line"}, id : Conn] \cup {Shutdown}

VARIABLES
    srv,       \* the accept loop: "accepting", "waiting" for handles, "stopped"
    permits,   \* available permits
    next_id,   \* the id the next accepted connection gets
    handles,   \* the handlers whose JoinHandle the loop still keeps
    refused,   \* connections turned away
    clients,   \* Room.clients
    log,       \* everything sent on the broadcast channel
    hpc,       \* where each handler is
    wpc,       \* where each write task is
    rx,        \* how much of the log each receiver has behind it
    peer       \* the other end: "open", "stalled" (reads nothing), "closed"

srvVars == <<srv, permits, next_id, handles, refused>>
connVars == <<hpc, wpc, rx, peer>>
vars == <<srvVars, clients, log, connVars>>

Init ==
    /\ srv = "accepting"
    /\ permits = MAX_CONNECTIONS
    /\ next_id = 1
    /\ handles = {}
    /\ refused = 0
    /\ clients = {}
    /\ log = <<>>
    /\ hpc = [c \in Conn |-> "none"]
    /\ wpc = [c \in Conn |-> "none"]
    /\ rx = [c \in Conn |-> 0]
    /\ peer = [c \in Conn |-> "open"]

HGoto(c, l) == hpc' = [hpc EXCEPT ![c] = l]
WGoto(c, l) == wpc' = [wpc EXCEPT ![c] = l]
Send(e) == log' = Append(log, e)
Finished(c) == hpc[c] = "done"
-----------------------------------------------------------------------------
(* The accept loop *)

\* Slip: retain keeps the finished handles instead of the others.
AcceptRetainsFinished ==
    /\ srv = "accepting"
    /\ permits > 0
    /\ next_id \in Conn
    /\ permits' = permits - 1
    /\ next_id' = next_id + 1
    /\ handles' = {h \in handles \cup {next_id} : Finished(h)}
    /\ HGoto(next_id, "subscribe")
    /\ UNCHANGED <<srv, refused, clients, log, wpc, rx, peer>>

\* A permit is free: the handler is spawned with it, and the handles of
\* finished handlers are dropped.
Accept ==
    /\ srv = "accepting"
    /\ permits > 0
    /\ next_id \in Conn
    /\ permits' = permits - 1
    /\ next_id' = next_id + 1
    /\ handles' = {h \in handles \cup {next_id} : ~Finished(h)}
    /\ HGoto(next_id, "subscribe")
    /\ UNCHANGED <<srv, refused, clients, log, wpc, rx, peer>>

\* No permit: a detached task writes an error line and drops the socket.
Refuse ==
    /\ srv = "accepting"
    /\ permits = 0
    /\ refused < MaxRefused
    /\ refused' = refused + 1
    /\ UNCHANGED <<srv, permits, next_id, handles, clients, log, connVars>>

\* Slip: the event is to be sent after the handlers have been awaited.
CtrlCAwaitsFirst ==
    /\ srv = "accepting"
    /\ srv' = "waiting"
    /\ UNCHANGED <<permits, next_id, handles, refused, clients, log, connVars>>

CtrlC ==
    /\ srv = "accepting"
    /\ Send(Shutdown)
    /\ srv' = "waiting"
    /\ UNCHANGED <<permits, next_id, handles, refused, clients, connVars>>

\* The handles are awaited one after the other; run() returns after the last.
Stop ==
    /\ srv = "waiting"
    /\ \A h \in handles : Finished(h)
    /\ srv' = "stopped"
    /\ UNCHANGED <<permits, next_id, handles, refused, clients, log, connVars>>
-----------------------------------------------------------------------------
(* The handler of connection c *)

Subscribe(c) ==
    /\ hpc[c] = "subscribe"
    /\ rx' = [rx EXCEPT ![c] = Len(log)]
    /\ HGoto(c, "join")
    /\ UNCHANGED <<srvVars, clients, log, wpc, peer>>

\* Room::join: under the write lock, then, with the lock released, the
\* presence event.
JoinInsert(c) ==
    /\ hpc[c] = "join"
    /\ clients' = clients \cup {c}
    /\ HGoto(c, "announce")
    /\ UNCHANGED <<srvVars, log, wpc, rx, peer>>

JoinAnnounce(c) ==
    /\ hpc[c] = "announce"
    /\ Send(Joined(c))
    /\ HGoto(c, "welcome")
    /\ UNCHANGED <<srvVars, clients, wpc, rx, peer>>

\* The welcome line fits the empty socket buffer; the write task starts.
Welcome(c) ==
    /\ hpc[c] = "welcome"
    /\ WGoto(c, "recv")
    /\ HGoto(c, "read")
    /\ UNCHANGED <<srvVars, clients, log, rx, peer>>

\* Slip: an exit that does not return the permit.
FinishKeepsPermit(c) ==
    /\ HGoto(c, "done")
    /\ permits' = permits

\* Slip: the permit is returned by hand and once more when it is dropped.
FinishReturnsTwice(c) ==
    /\ HGoto(c, "done")
    /\ permits' = permits + 2

\* The task is over: its permit goes back to the semaphore.
Finish(c) ==
    /\ HGoto(c, "done")
    /\ permits' = permits + 1

\* Slip: the early return cleans the table and announces nothing.
WelcomeFailsRemoves(c) ==
    /\ hpc[c] = "welcome"
    /\ peer[c] = "closed"
    /\ Finish(c)
    /\ clients' = clients \ {c}
    /\ UNCHANGED <<srv, next_id, handles, refused, log, wpc, rx, peer>>

\* The peer has reset the connection: the `?` returns at once, and the id
\* stays in the room.
WelcomeFails(c) ==
    /\ hpc[c] = "welcome"
    /\ peer[c] = "closed"
    /\ Finish(c)
    /\ UNCHANGED <<srv, next_id, handles, refused, clients, log, wpc, rx, peer>>

\* A line of the peer is broadcast: a chat line, or the snapshot after a vote.
ReadLine(c) ==
    /\ hpc[c] = "read"
    /\ Len(SelectSeq(log, LAMBDA e : e.kind = "line")) < MaxLines
    /\ Send(Line(c))
    /\ UNCHANGED <<srvVars, clients, connVars>>

\* Slip: the end of the stream is noticed only once the write task has ended.
ReadEndsAfterWriter(c) ==
    /\ hpc[c] = "read"
    /\ peer[c] = "closed"
    /\ wpc[c] = "ended"
    /\ HGoto(c, "abort")
    /\ UNCHANGED <<srvVars, clients, log, wpc, rx, peer>>

\* End of stream or a read error.
ReadEnds(c) ==
    /\ hpc[c] = "read"
    /\ peer[c] = "closed"
    /\ HGoto(c, "abort")
    /\ UNCHANGED <<srvVars, clients, log, wpc, rx, peer>>

\* The other branch of the select: the write task has ended.
WriterEnded(c) ==
    /\ hpc[c] = "read"
    /\ wpc[c] = "ended"
    /\ HGoto(c, "abort")
    /\ UNCHANGED <<srvVars, clients, log, wpc, rx, peer>>

\* Slip: the handler ends with its write task and never leaves the room.
AbortAndReturn(c) ==
    /\ hpc[c] = "abort"
    /\ WGoto(c, "ended")
    /\ Finish(c)
    /\ UNCHANGED <<srv, next_id, handles, refused, clients, log, rx, peer>>

\* The write task is cancelled wherever it is.
AbortWriter(c) ==
    /\ hpc[c] = "abort"
    /\ WGoto(c, "ended")
    /\ HGoto(c, "leave")
    /\ UNCHANGED <<srvVars, clients, log, rx, peer>>

\* Room::leave: the removal under the write lock, then the presence event.
LeaveRemove(c) ==
    /\ hpc[c] = "leave"
    /\ clients' = clients \ {c}
    /\ HGoto(c, "bye")
    /\ UNCHANGED <<srvVars, log, wpc, rx, peer>>

LeaveAnnounce(c) ==
    /\ hpc[c] = "bye"
    /\ Send(Left(c))
    /\ Finish(c)
    /\ UNCHANGED <<srv, next_id, handles, refused, clients, wpc, rx, peer>>
-----------------------------------------------------------------------------
(* The write task of connection c *)

\* The receiver has been overtaken: it resumes at the oldest retained event.
Lagged(c) ==
    /\ wpc[c] = "recv"
    /\ Len(log) - rx[c] > CAP
    /\ rx' = [rx EXCEPT ![c] = Len(log) - CAP]
    /\ UNCHANGED <<srvVars, clients, log, hpc, wpc, peer>>

\* Slip: the write task carries on after Shutdown.
RecvSkipsShutdown(c) ==
    /\ wpc[c] = "recv"
    /\ rx[c] < Len(log)
    /\ Len(log) - rx[c] <= CAP
    /\ rx' = [rx EXCEPT ![c] = @ + 1]
    /\ WGoto(c, IF log[rx[c] + 1] = Shutdown THEN "recv" ELSE "write")
    /\ UNCHANGED <<srvVars, clients, log, hpc, peer>>

\* The next event: Shutdown ends the task, anything else is written.
Recv(c) ==
    /\ wpc[c] = "recv"
    /\ rx[c] < Len(log)
    /\ Len(log) - rx[c] <= CAP
    /\ rx' = [rx EXCEPT ![c] = @ + 1]
    /\ WGoto(c, IF log[rx[c] + 1] = Shutdown THEN "ended" ELSE "write")
    /\ UNCHANGED <<srvVars, clients, log, hpc, peer>>

\* The socket takes the line; a stalled peer's does not.
Written(c) ==
    /\ wpc[c] = "write"
    /\ peer[c] # "stalled"
    /\ WGoto(c, "recv")
    /\ UNCHANGED <<srvVars, clients, log, hpc, rx, peer>>

WriteFails(c) ==
    /\ wpc[c] = "write"
    /\ peer[c] = "closed"
    /\ WGoto(c, "ended")
    /\ UNCHANGED <<srvVars, clients, log, hpc, rx, peer>>
-----------------------------------------------------------------------------
(* The peers *)

SetPeer(c, from, to) ==
    /\ hpc[c] # "none"
    /\ peer[c] \in from
    /\ peer' = [peer EXCEPT ![c] = to]
    /\ UNCHANGED <<srvVars, clients, log, hpc, wpc, rx>>

Stall(c)  == SetPeer(c, {"open"}, "stalled")
Resume(c) == SetPeer(c, {"stalled"}, "open")
Close(c)  == SetPeer(c, {"open", "stalled"}, "closed")

Progress(c) ==
    \/ Subscribe(c) \/ JoinInsert(c) \/ JoinAnnounce(c)
    \/ Welcome(c) \/ WelcomeFails(c)
    \/ ReadEnds(c) \/ WriterEnded(c)
    \/ AbortWriter(c) \/ LeaveRemove(c) \/ LeaveAnnounce(c)

Writer(c) == Lagged(c) \/ Recv(c) \/ Written(c) \/ WriteFails(c)

Next ==
    \/ Accept \/ Refuse \/ CtrlC \/ Stop
    \/ \E c \in Conn : Progress(c) \/ ReadLine(c) \/ Writer(c)
    \/ \E c \in Conn : Stall(c) \/ Resume(c) \/ Close(c)

Spec == Init /\ [][Next]_vars

\* The runtime polls every task that can go on. Nobody has to connect, to
\* send a line, to read, to close or to press Ctrl-C.
FairSpec ==
    /\ Spec
    /\ WF_vars(Stop)
    /\ \A c \in Conn : WF_vars(Progress(c)) /\ WF_vars(Writer(c))
-----------------------------------------------------------------------------
Working == {c \in Conn : hpc[c] \notin {"none", "done"}}

TypeOK ==
    /\ srv \in {"accepting", "waiting", "stopped"}
    /\ permits \in 0 .. MAX_CONNECTIONS
    /\ next_id \in 1 .. (MaxConn + 1)
    /\ handles \subseteq Conn /\ clients \subseteq Conn
    /\ refused \in 0 .. MaxRefused
    /\ log \in Seq(Event)
    /\ hpc \in [Conn -> {"none", "subscribe", "join", "announce", "welcome", "read",
                        "abort", "leave", "bye", "done"}]
    /\ wpc \in [Conn -> {"none", "recv", "write", "ended"}]
    /\ rx \in [Conn -> Nat]
    /\ peer \in [Conn -> {"open", "stalled", "closed"}]
    /\ \A c \in Conn : rx[c] <= Len(log)

\* Permits are neither leaked nor returned twice, on any of the handler's exit
\* paths: the free ones and the running handlers always add up to the limit,
\* so that at most MAX_CONNECTIONS run (server.rs:48-62 and 70-75).
PermitsExact == permits + Cardinality(Working) = MAX_CONNECTIONS

\* The accept loop drops only finished handles, so that once run() has
\* returned no handler is left behind (server.rs:76-78 and 93-95).
NoHandlerForgotten ==
    /\ Working \subseteq handles
    /\ srv = "stopped" => Working = {}

SentEvent(e) == \E i \in DOMAIN log : log[i] = e

\* Whoever replays the presence events knows the room: except while a handler
\* is between changing the table and announcing it, c is in the table exactly
\* when it has been announced as joined and not as left, and it is announced
\* once (room.rs:53-71).
PresenceMatchesMembers ==
    \A c \in Conn :
        /\ hpc[c] \notin {"announce", "bye"} =>
              (c \in clients <=> SentEvent(Joined(c)) /\ ~SentEvent(Left(c)))
        /\ \A i, j \in DOMAIN log :
              log[i] = log[j] /\ log[i] \in {Joined(c), Left(c)} => i = j
        /\ \A i, j \in DOMAIN log : log[i] = Joined(c) /\ log[j] = Left(c) => i < j

\* A connection whose peer has closed is wound up, whatever the other peers
\* do: none that stalls can hold it up (client.rs:119-185).
ClosedPeerLeaves ==
    \A c \in Conn : (c \in Working /\ peer[c] = "closed") ~> (hpc[c] = "done")

\* A handler that has subscribed before the shutdown event and whose peer does
\* not stall for ever ends, unless its receiver is overtaken by CAP events
\* (client.rs:105-110 and 174, server.rs:85-88).
ShutdownAhead(c) ==
    /\ hpc[c] \notin {"none", "subscribe", "done"}
    /\ wpc[c] # "ended"
    /\ \E i \in DOMAIN log : i > rx[c] /\ log[i] = Shutdown

Overtaken(c) == Len(log) - rx[c] > CAP

ShutdownEndsHandler ==
    \A c \in Conn :
        <>[](peer[c] # "stalled") =>
            (ShutdownAhead(c) ~> (hpc[c] = "done" \/ Overtaken(c)))

\* docs/REPORT.md 4.6: on SIGINT the shutdown event reaches every client and
\* all handlers are awaited. So, if no peer stalls for ever, the server stops.
ShutdownCompletes ==
    (\A c \in Conn : <>[](peer[c] # "stalled")) =>
        ((srv = "waiting") ~> (srv = "stopped"))

\* Three things can hold the server up: a handler still to subscribe when the
\* shutdown event is sent, a receiver overtaken by CAP events, and a peer that
\* reads nothing for ever while its handler runs. Without them run() gets to its
\* end, whatever the handlers were doing and in whatever order they are awaited
\* (server.rs:85-95, client.rs:101 and 174-185).
Holding(c) == c \in Working /\ peer[c] = "stalled"

OnlyThreeThingsHoldShutdown ==
    /\ [](srv = "waiting" => \A c \in Conn : hpc[c] # "subscribe" /\ ~Overtaken(c))
    /\ \A c \in Conn : <>[]~Holding(c)
    => (srv = "waiting") ~> (srv = "stopped")

\* The only ids that outlive their handler are those of welcome lines that could
\* not be written, where the early return skips leave: every other exit, at any
\* moment and for any reason, takes its id out of the table that later counts
\* are made from (client.rs:88-92, 119-185; room.rs:52-66).
LeakedOnlyByFailedWelcome ==
    \A c \in clients \ Working : wpc[c] = "none" /\ peer[c] = "closed"
=============================================================================
