--------------------------- MODULE TerminalClient ---------------------------
(***************************************************************************)
(* Terminal clients in a room: what src/src/tui.rs makes of the lines its  *)
(* user enters and of the events it receives, with the part of the server  *)
(* that answers it: Room of src/src/room.rs and the handler of             *)
(* src/src/client.rs.                                                      *)
(*                                                                         *)
(* The number of participants shown starts from the count that Room::join  *)
(* returned and the welcome line carried, and follows the presence events. *)
(* The count is taken under the lock of the room, the presence event is    *)
(* sent after the lock is released, and the receiver exists since before   *)
(* both. The two sources therefore speak of different moments, and every   *)
(* step of one connection may fall between any two of another.             *)
(*                                                                         *)
(* The write task, the socket and the receiving task of the client keep    *)
(* the order of events; they are one step here, at the time the client     *)
(* handles the event. Receivers are not overtaken (ChatServer has that),   *)
(* and the snapshots of votes, which reach neither the list of messages    *)
(* nor the count, are left out (VoteThrottle has them).                    *)
(***************************************************************************)
EXTENDS Integers, Sequences, FiniteSets

CONSTANTS
    Client,        \* the connections; an id is never used again
    Name,          \* words, which a user may take as a nickname
    None,          \* no nickname, no vote, nothing behind a command
    N_OPTIONS,     \* options of the vote
    MAX_MESSAGES,  \* lines that a client keeps
    MaxEntered     \* bound: lines entered by all users together

ASSUME ClientAssumption == IsFiniteSet(Client)
ASSUME WindowAssumption ==
    N_OPTIONS \in Nat \ {0} /\ MAX_MESSAGES \in Nat \ {0} /\ MaxEntered \in Nat

VARIABLES
    clients,       \* Room.clients
    names,         \* ClientMeta.name of its entries
    log,           \* the events sent
    pc,            \* where the handler of each connection is
    peer_count,    \* the count that join returned
    inbox,         \* the lines its peer has sent and it has not read
    nick,          \* its local nickname
    current_vote,  \* and vote
    rx,            \* how many events its client has behind it
    client_count,  \* AppState.client_count
    messages,      \* AppState.messages
    my_vote,       \* AppState.my_vote
    welcomed,      \* the client has handled the welcome line
    entered,       \* lines entered so far
    alone,         \* history: nobody else was on the way in or out at the join
    chosen         \* history: the nickname its user chose last

roomVars == <<clients, names, log>>
handlerVars == <<inbox, nick, current_vote>>
viewVars == <<rx, client_count, messages, welcomed>>
userVars == <<my_vote, entered, chosen>>
vars == <<roomVars, pc, peer_count, handlerVars, viewVars, userVars, alone>>

Option == 0 .. N_OPTIONS - 1

\* A presence event, or a chat line with the nickname the handler put on it and
\* the one its writer had chosen.
Presence(c, b) ==
    [what |-> IF b THEN "joined" ELSE "left", id |-> c, nick |-> None, as |-> None]
ChatLine(c, n, as) == [what |-> "chat", id |-> c, nick |-> n, as |-> as]
Event == [what : {"joined", "left", "chat"}, id : Client,
          nick : Name \cup {None}, as : Name \cup {None}]

\* What a client sends; a chat line remembers the name chosen by its writer.
Msg(type, arg, as) == [type |-> type, arg |-> arg, as |-> as]
ClientMsg == [type : {"set_nick"}, arg : Name, as : Name \cup {None}]
             \cup [type : {"vote"}, arg : Option, as : Name \cup {None}]
             \cup [type : {"unvote", "chat"}, arg : {None}, as : Name \cup {None}]

ASSUME NoneAssumption == None \notin Name \cup Int \cup ClientMsg

\* What a user types, trimmed: a command and what is behind it. A line of blanks
\* is dropped before anything else.
Typed == [word : {"/nick", "/unvote"}, rest : Name \cup {None}]
         \cup [word : {"/vote"}, rest : Name \cup {None} \cup 0 .. N_OPTIONS + 1]

Init ==
    /\ clients = {} /\ log = <<>> /\ entered = 0
    /\ pc = [c \in Client |-> "none"]
    /\ names = [c \in Client |-> None] /\ nick = [c \in Client |-> None]
    /\ chosen = [c \in Client |-> None]
    /\ current_vote = [c \in Client |-> None] /\ my_vote = [c \in Client |-> None]
    /\ inbox = [c \in Client |-> <<>>] /\ messages = [c \in Client |-> <<>>]
    /\ rx = [c \in Client |-> 0]
    /\ peer_count = [c \in Client |-> 0] /\ client_count = [c \in Client |-> 0]
    /\ welcomed = [c \in Client |-> FALSE] /\ alone = [c \in Client |-> FALSE]

Goto(c, l) == pc' = [pc EXCEPT ![c] = l]
Send(e) == log' = Append(log, e)
At(l) == {c \in Client : pc[c] = l}
-----------------------------------------------------------------------------
(* The handler *)

Subscribe(c) ==
    /\ pc[c] = "none"
    /\ rx' = [rx EXCEPT ![c] = Len(log)]
    /\ Goto(c, "join")
    /\ UNCHANGED <<roomVars, peer_count, handlerVars, client_count, messages, welcomed,
                   userVars, alone>>

\* Slip: the count is taken before the insertion.
JoinCountsOthers(c) ==
    /\ pc[c] = "join"
    /\ clients' = clients \cup {c}
    /\ peer_count' = [peer_count EXCEPT ![c] = Cardinality(clients)]
    /\ alone' = [alone EXCEPT ![c] =
                    At("announce") \cup At("bye") = {} /\ rx[c] = Len(log)]
    /\ Goto(c, "announce")
    /\ UNCHANGED <<names, log, handlerVars, viewVars, userVars>>

\* Room::join under the write lock: insert and count.
JoinInsert(c) ==
    /\ pc[c] = "join"
    /\ clients' = clients \cup {c}
    /\ peer_count' = [peer_count EXCEPT ![c] = Cardinality(clients')]
    /\ alone' = [alone EXCEPT ![c] =
                    At("announce") \cup At("bye") = {} /\ rx[c] = Len(log)]
    /\ Goto(c, "announce")
    /\ UNCHANGED <<names, log, handlerVars, viewVars, userVars>>

\* The rest of join, with the lock released. The welcome line and the write
\* task follow, and with them the connection reads.
JoinAnnounce(c) ==
    /\ pc[c] = "announce"
    /\ Send(Presence(c, TRUE))
    /\ Goto(c, "read")
    /\ UNCHANGED <<clients, names, peer_count, handlerVars, viewVars, userVars, alone>>

\* The next line, of the given type.
Read(c, type) ==
    /\ pc[c] = "read"
    /\ inbox[c] # <<>> /\ Head(inbox[c]).type = type
    /\ inbox' = [inbox EXCEPT ![c] = Tail(@)]
    /\ UNCHANGED <<clients, pc, peer_count, viewVars, userVars, alone>>

\* Slip: the name reaches the table of the room only.
SetNickInRoomOnly(c) ==
    /\ Read(c, "set_nick")
    /\ names' = [names EXCEPT ![c] = Head(inbox[c]).arg]
    /\ UNCHANGED <<log, nick, current_vote>>

\* Room::set_nick and the handler's own copy.
SetNick(c) ==
    /\ Read(c, "set_nick")
    /\ names' = IF c \in clients THEN [names EXCEPT ![c] = Head(inbox[c]).arg] ELSE names
    /\ nick' = [nick EXCEPT ![c] = Head(inbox[c]).arg]
    /\ UNCHANGED <<log, current_vote>>

Chat(c) ==
    /\ Read(c, "chat")
    /\ Send(ChatLine(c, nick[c], Head(inbox[c]).as))
    /\ UNCHANGED <<names, nick, current_vote>>

\* The tally and its snapshot are in VoteBoard and VoteThrottle.
Vote(c) ==
    /\ Read(c, "vote")
    /\ current_vote' = [current_vote EXCEPT ![c] = Head(inbox[c]).arg]
    /\ UNCHANGED <<names, log, nick>>

Unvote(c) ==
    /\ Read(c, "unvote")
    /\ current_vote' = [current_vote EXCEPT ![c] = None]
    /\ UNCHANGED <<names, log, nick>>

\* The user quits; lines that the handler has not read may be lost with the
\* connection. Room::leave: the removal, then the event.
LeaveRemove(c) ==
    /\ pc[c] = "read"
    /\ clients' = clients \ {c}
    /\ names' = [names EXCEPT ![c] = None]
    /\ inbox' = [inbox EXCEPT ![c] = <<>>]
    /\ Goto(c, "bye")
    /\ UNCHANGED <<log, peer_count, nick, current_vote, viewVars, userVars, alone>>

LeaveAnnounce(c) ==
    /\ pc[c] = "bye"
    /\ Send(Presence(c, FALSE))
    /\ Goto(c, "done")
    /\ UNCHANGED <<clients, names, peer_count, handlerVars, viewVars, userVars, alone>>
-----------------------------------------------------------------------------
(* The user *)

\* The options are numbered from 1; 0 is taken for the first one too.
OptionOf(number) == IF number = 0 THEN 0 ELSE number - 1

\* parse_input. A command with nothing behind it, or /unvote with something
\* behind it, is a chat line; a vote that names no option is dropped.
ParseInput(typed, as) ==
    IF typed.word = "/nick" /\ typed.rest # None THEN Msg("set_nick", typed.rest, as)
    ELSE IF typed.word = "/unvote" /\ typed.rest = None THEN Msg("unvote", None, as)
    ELSE IF typed.word # "/vote" \/ typed.rest = None THEN Msg("chat", None, as)
    ELSE IF typed.rest \in Nat /\ OptionOf(typed.rest) \in Option
         THEN Msg("vote", OptionOf(typed.rest), as)
         ELSE None

\* Slip: the vote is marked before it is compared with the number of options.
MarkUnchecked(mine, typed) ==
    IF typed.word = "/unvote" /\ typed.rest = None THEN None
    ELSE IF typed.word = "/vote" /\ typed.rest \in Nat THEN OptionOf(typed.rest)
    ELSE mine

\* The vote that the client marks as its own after a line.
Mark(mine, typed) ==
    LET msg == ParseInput(typed, None)
    IN  IF msg # None /\ msg.type \in {"vote", "unvote"} THEN msg.arg ELSE mine

\* A line is parsed and sent. The connection may be used as soon as it is
\* accepted, whatever the receiving task has handled.
Enter(c, typed) ==
    /\ pc[c] \in {"join", "announce", "read"}
    /\ entered < MaxEntered /\ entered' = entered + 1
    /\ my_vote' = [my_vote EXCEPT ![c] = Mark(@, typed)]
    /\ LET msg == ParseInput(typed, chosen[c])
       IN  /\ inbox' = IF msg = None THEN inbox ELSE [inbox EXCEPT ![c] = Append(@, msg)]
           /\ chosen' = IF msg # None /\ msg.type = "set_nick"
                        THEN [chosen EXCEPT ![c] = msg.arg] ELSE chosen
    /\ UNCHANGED <<roomVars, pc, peer_count, nick, current_vote, viewVars, alone>>
-----------------------------------------------------------------------------
(* What the client receives *)

ViewWelcome(c) ==
    /\ pc[c] = "read"
    /\ ~welcomed[c]
    /\ welcomed' = [welcomed EXCEPT ![c] = TRUE]
    /\ client_count' = [client_count EXCEPT ![c] = peer_count[c]]
    /\ UNCHANGED <<roomVars, pc, peer_count, handlerVars, rx, messages, userVars, alone>>

\* Slip: the subtraction is not saturated.
FollowUnsaturated(n, e) ==
    IF e.what = "joined" THEN n + 1 ELSE IF e.what = "left" THEN n - 1 ELSE n

\* What an event does to the count (usize::saturating_sub).
Follow(n, e) ==
    IF e.what = "joined" THEN n + 1 ELSE IF e.what = "left" /\ n > 0 THEN n - 1 ELSE n

ShownLine == [what : {"joined", "left", "chat"}, who : Client \cup Name]
\* What is shown of an event: a writer by its nickname if it has one.
Shows(e) ==
    [what |-> e.what, who |-> IF e.what = "chat" /\ e.nick # None THEN e.nick ELSE e.id]

\* Slip: a full list gives up its newest line.
PushKeepsOldest(list, line) ==
    Append(IF Len(list) >= MAX_MESSAGES THEN SubSeq(list, 1, Len(list) - 1) ELSE list, line)

\* AppState::push_msg
PushMsg(list, line) ==
    Append(IF Len(list) >= MAX_MESSAGES THEN Tail(list) ELSE list, line)

\* Slip: a client does not count its own arrival.
ViewSkipsOwn(c) ==
    /\ pc[c] = "read"
    /\ welcomed[c]
    /\ rx[c] < Len(log)
    /\ LET e == log[rx[c] + 1]
       IN  /\ client_count' = [client_count EXCEPT ![c] = IF e.id = c THEN @ ELSE Follow(@, e)]
           /\ messages' = [messages EXCEPT ![c] = PushMsg(@, Shows(e))]
    /\ rx' = [rx EXCEPT ![c] = @ + 1]
    /\ UNCHANGED <<roomVars, pc, peer_count, handlerVars, welcomed, userVars, alone>>

ViewEvent(c) ==
    /\ pc[c] = "read"
    /\ welcomed[c]
    /\ rx[c] < Len(log)
    /\ LET e == log[rx[c] + 1]
       IN  /\ client_count' = [client_count EXCEPT ![c] = Follow(@, e)]
           /\ messages' = [messages EXCEPT ![c] = PushMsg(@, Shows(e))]
    /\ rx' = [rx EXCEPT ![c] = @ + 1]
    /\ UNCHANGED <<roomVars, pc, peer_count, handlerVars, welcomed, userVars, alone>>

Step(c) ==
    \/ Subscribe(c) \/ JoinInsert(c) \/ JoinAnnounce(c)
    \/ SetNick(c) \/ Chat(c) \/ Vote(c) \/ Unvote(c)
    \/ LeaveRemove(c) \/ LeaveAnnounce(c)
    \/ ViewWelcome(c) \/ ViewEvent(c)

Next == \E c \in Client : Step(c) \/ \E typed \in Typed : Enter(c, typed)

Spec == Init /\ [][Next]_vars
-----------------------------------------------------------------------------
TypeOK ==
    /\ clients \subseteq Client
    /\ log \in Seq(Event)
    /\ names \in [Client -> Name \cup {None}] /\ nick \in [Client -> Name \cup {None}]
    /\ chosen \in [Client -> Name \cup {None}]
    /\ pc \in [Client -> {"none", "join", "announce", "read", "bye", "done"}]
    /\ inbox \in [Client -> Seq(ClientMsg)]
    /\ current_vote \in [Client -> Option \cup {None}]
    /\ my_vote \in [Client -> Option \cup {None}]
    /\ rx \in [Client -> 0 .. Len(log)]
    /\ peer_count \in [Client -> Nat] /\ client_count \in [Client -> Nat]
    /\ messages \in [Client -> Seq(ShownLine)]
    /\ \A c \in Client : Len(messages[c]) <= MAX_MESSAGES
    /\ welcomed \in [Client -> BOOLEAN] /\ alone \in [Client -> BOOLEAN]
    /\ entered \in 0 .. MaxEntered

\* What the events ahead of c will still add to its count.
Ahead(c, what) == Cardinality({i \in (rx[c] + 1) .. Len(log) : log[i].what = what})
NetAhead(c) == Ahead(c, "joined") - Ahead(c, "left")

\* The members everybody has been told of.
Announced == Cardinality(clients) - Cardinality(At("announce")) + Cardinality(At("bye"))

\* What the title of the chat shows (tui.rs:266): the own arrival is counted
\* twice, by the welcome and by the presence event, and taken off once.
Shown(c) == client_count[c] - 1

Following(c) == pc[c] = "read" /\ welcomed[c]

\* A client whose join overlapped with nobody else's coming or going shows,
\* up to the events still on their way to it, the members announced, and so
\* for as long as it stays, whatever the others do (room.rs:53-71,
\* tui.rs:84-104 and 266).
CountRightIfAlone ==
    \A c \in Client : Following(c) /\ alone[c] =>
        /\ Shown(c) + NetAhead(c) = Announced
        /\ Shown(c) >= 0

\* How far c is off: what it will show once it has seen all events, and the members.
Error(c) == Shown(c) + NetAhead(c) - Announced

ErrorKept ==
    \A c \in Client : Following(c) /\ Following(c)' =>
        \/ Error(c)' = Error(c)
        \/ client_count[c] = 0 /\ rx'[c] # rx[c]

\* How far the count of c is off is settled by its join: no later step of
\* anybody makes it worse or better, except an event that finds the count at 0
\* (room.rs:53-71, tui.rs:96-104).
ErrorSettledAtJoin == [][ErrorKept]_vars

\* The vote that a client marks as its own is the one that the server will have
\* of it once it has read the lines on their way: the two never drift apart,
\* whatever is typed and in whatever order (tui.rs:189-220, client.rs:150-165).
VoteLines(c) == {i \in DOMAIN inbox[c] : inbox[c][i].type \in {"vote", "unvote"}}
OwnVoteMarked ==
    \A c \in Client : pc[c] \in {"join", "announce", "read"} =>
        \/ VoteLines(c) = {} /\ my_vote[c] = current_vote[c]
        \/ \E i \in VoteLines(c) : /\ \A j \in VoteLines(c) : j <= i
                                   /\ my_vote[c] = inbox[c][i].arg

\* A chat line goes out under the nickname that its writer had chosen when he
\* entered it, and the room knows its members by the names that their handlers
\* put on their lines (client.rs:131-148, room.rs:78-82).
LinesNamed ==
    /\ \A i \in DOMAIN log : log[i].nick = log[i].as
    /\ \A c \in clients : names[c] = nick[c]

\* A client shows the last MAX_MESSAGES events in the order of the channel, and
\* until its list is full it has missed none since its own arrival
\* (tui.rs:58-63 and 88-108).
ListIsLatest ==
    \A c \in Client :
        LET n == Len(messages[c])
        IN  /\ n <= rx[c]
            /\ \A k \in 0 .. n - 1 : messages[c][n - k] = Shows(log[rx[c] - k])
            /\ n < MAX_MESSAGES =>
                  \A i \in DOMAIN log : log[i] = Presence(c, TRUE) => i > rx[c] - n

\* The title says how many take part: once nobody is on the way in or out and
\* all events have arrived, every client shows the size of the room.
Settled ==
    \A c \in Client :
        /\ pc[c] \in {"none", "read", "done"}
        /\ pc[c] = "read" => welcomed[c] /\ rx[c] = Len(log)

SettledCountIsRight ==
    Settled => \A c \in At("read") : Shown(c) = Cardinality(clients)
=============================================================================
