-------------------------- MODULE ChatServerProofs --------------------------
(***************************************************************************)
(* Machine-checked proofs about ChatServer, for every limit on the         *)
(* connections, every channel capacity and every bound.                    *)
(***************************************************************************)
EXTENDS ChatServer, FiniteSetTheorems, TLAPS

\* Ids are handed out in order, so the id the next connection gets is unused.
IdsInOrder == \A c \in Conn : hpc[c] = "none" <=> c >= next_id

Inv == TypeOK /\ PermitsExact /\ NoHandlerForgotten /\ IdsInOrder

LEMMA WorkingFinite ==
  /\ Working \subseteq Conn /\ IsFiniteSet(Working) /\ Cardinality(Working) \in Nat
  /\ Conn \subseteq Nat /\ IsFiniteSet(Conn)
<1>1. Conn \subseteq Nat /\ IsFiniteSet(Conn)
  BY ServerAssumption, FS_Interval DEF Conn
<1>2. Working \subseteq Conn /\ IsFiniteSet(Working)
  BY <1>1, FS_Subset DEF Working
<1> QED
  BY <1>1, <1>2, FS_CardinalityType

LEMMA SendType ==
  ASSUME log \in Seq(Event), NEW e \in Event, Send(e)
  PROVE  log' \in Seq(Event) /\ Len(log') = Len(log) + 1
BY DEF Send

LEMMA EventTypes ==
  ASSUME NEW c \in Conn
  PROVE  Joined(c) \in Event /\ Left(c) \in Event /\ Line(c) \in Event /\ Shutdown \in Event
BY DEF Joined, Left, Line, Shutdown, Event

\* A handler that moves on without ending.
LEMMA HandlerMoves ==
  ASSUME Inv, NEW c \in Working, NEW l, l \notin {"none", "done"}, HGoto(c, l),
         UNCHANGED srvVars
  PROVE  PermitsExact' /\ NoHandlerForgotten' /\ IdsInOrder'
<1>1. c \in Conn /\ \A d \in Conn : hpc'[d] = IF d = c THEN l ELSE hpc[d]
  BY DEF HGoto, Inv, TypeOK, Working
<1>2. Working' = Working
  BY <1>1 DEF Working
<1>3. IdsInOrder'
  BY <1>1 DEF Working, Inv, IdsInOrder, srvVars
<1> QED
  BY <1>2, <1>3 DEF Inv, PermitsExact, NoHandlerForgotten, srvVars

\* A handler that ends.
LEMMA HandlerFinishes ==
  ASSUME Inv, NEW c \in Working, Finish(c), UNCHANGED <<srv, next_id, handles>>
  PROVE  PermitsExact' /\ NoHandlerForgotten' /\ IdsInOrder' /\ permits' \in 0 .. MAX_CONNECTIONS
<1>1. c \in Conn /\ \A d \in Conn : hpc'[d] = IF d = c THEN "done" ELSE hpc[d]
  BY DEF Finish, HGoto, Inv, TypeOK, Working
<1>2. Working' = Working \ {c}
  BY <1>1 DEF Working
<1>3. /\ Cardinality(Working') = Cardinality(Working) - 1
      /\ Cardinality(Working) \in Nat /\ Cardinality(Working') \in Nat
  BY <1>2, WorkingFinite, FS_RemoveElement, FS_CardinalityType
<1>4. permits' = permits + 1 /\ permits \in Nat /\ MAX_CONNECTIONS \in Nat
  BY ServerAssumption DEF Finish, Inv, TypeOK
<1>5. PermitsExact' /\ permits' \in 0 .. MAX_CONNECTIONS
  BY <1>3, <1>4 DEF Inv, PermitsExact
<1>6. NoHandlerForgotten'
  BY <1>2 DEF Inv, NoHandlerForgotten
<1>7. IdsInOrder'
  BY <1>1 DEF Working, Inv, IdsInOrder
<1> QED
  BY <1>5, <1>6, <1>7

\* Every other step leaves the semaphore and the handlers' progress alone.
LEMMA HandlersStay ==
  ASSUME Inv, UNCHANGED <<permits, next_id, handles, hpc>>,
         srv' = "stopped" => srv = "stopped" \/ Working = {}
  PROVE  PermitsExact' /\ NoHandlerForgotten' /\ IdsInOrder'
<1>1. Working' = Working
  BY DEF Working
<1> QED
  BY <1>1 DEF Inv, PermitsExact, NoHandlerForgotten, IdsInOrder

LEMMA AcceptKeepsInv == Inv /\ Accept => Inv'
<1> SUFFICES ASSUME Inv, Accept PROVE Inv'
    OBVIOUS
<1>1. /\ next_id \in Conn /\ hpc[next_id] = "none" /\ next_id' = next_id + 1
      /\ \A d \in Conn : hpc'[d] = IF d = next_id THEN "subscribe" ELSE hpc[d]
  BY WorkingFinite DEF Accept, HGoto, Inv, TypeOK, IdsInOrder
<1>2. Working' = Working \cup {next_id} /\ next_id \notin Working
  BY <1>1 DEF Working
<1>3. Cardinality(Working') = Cardinality(Working) + 1
  BY <1>2, WorkingFinite, FS_AddElement
<1>4. permits \in 0 .. MAX_CONNECTIONS /\ permits > 0 /\ permits' = permits - 1
  BY DEF Accept, Inv, TypeOK
<1>5. PermitsExact' /\ permits' \in 0 .. MAX_CONNECTIONS
  BY <1>3, <1>4, WorkingFinite, ServerAssumption DEF Inv, PermitsExact
<1>6. NoHandlerForgotten'
  <2>1. \A h \in Working : h \in handles /\ ~Finished(h)
    BY DEF Inv, NoHandlerForgotten, Working, Finished
  <2>2. ~Finished(next_id)
    BY <1>1 DEF Finished
  <2>3. handles' = {h \in handles \cup {next_id} : ~Finished(h)}
    BY DEF Accept
  <2>4. Working' \subseteq handles'
    BY <1>2, <2>1, <2>2, <2>3
  <2> QED
    BY <2>4 DEF Accept, NoHandlerForgotten
<1>7. IdsInOrder'
  BY <1>1, WorkingFinite DEF Inv, IdsInOrder
<1>8. TypeOK'
  <2>1. next_id' \in 1 .. (MaxConn + 1)
    BY <1>1, ServerAssumption DEF Conn
  <2>2. handles' \subseteq Conn
    BY <1>1 DEF Accept, Inv, TypeOK
  <2> QED
    BY <1>1, <1>5, <2>1, <2>2 DEF Accept, HGoto, Inv, TypeOK
<1> QED
  BY <1>5, <1>6, <1>7, <1>8 DEF Inv

LEMMA ServerKeepsInv == Inv /\ (Refuse \/ CtrlC \/ Stop) => Inv'
<1> SUFFICES ASSUME Inv, Refuse \/ CtrlC \/ Stop PROVE Inv'
    OBVIOUS
<1> USE DEF connVars
<1>1. CASE Refuse
  <2>1. TypeOK'
    BY <1>1, ServerAssumption DEF Refuse, Inv, TypeOK
  <2> QED
    BY <1>1, <2>1, HandlersStay DEF Refuse, Inv
<1>2. CASE CtrlC
  <2>1. log' \in Seq(Event) /\ Len(log') = Len(log) + 1
    BY <1>2, SendType DEF CtrlC, Inv, TypeOK, Event
  <2>2. TypeOK'
    BY <1>2, <2>1 DEF CtrlC, Inv, TypeOK
  <2> QED
    BY <1>2, <2>2, HandlersStay DEF CtrlC, Inv
<1>3. CASE Stop
  <2>1. Working = {}
    BY <1>3 DEF Stop, Inv, NoHandlerForgotten, Finished, Working
  <2>2. TypeOK'
    BY <1>3 DEF Stop, Inv, TypeOK
  <2> QED
    BY <1>3, <2>1, <2>2, HandlersStay DEF Stop, Inv
<1> QED
  BY <1>1, <1>2, <1>3

LEMMA HandlerKeepsInv ==
  ASSUME Inv, NEW c \in Conn, Progress(c) \/ ReadLine(c)
  PROVE  Inv'
<1> USE DEF srvVars
<1>1. c \in Working
  BY DEF Progress, ReadLine, Subscribe, JoinInsert, JoinAnnounce, Welcome, WelcomeFails,
         ReadEnds, WriterEnded, AbortWriter, LeaveRemove, LeaveAnnounce, Working
<1>2. CASE Subscribe(c)
  <2>1. TypeOK'
    BY <1>2 DEF Subscribe, Inv, TypeOK, HGoto
  <2> QED
    BY <1>1, <1>2, <2>1, HandlerMoves DEF Subscribe, Inv
<1>3. CASE JoinInsert(c) \/ LeaveRemove(c)
  <2>1. TypeOK'
    BY <1>3 DEF JoinInsert, LeaveRemove, Inv, TypeOK, HGoto
  <2> QED
    BY <1>1, <1>3, <2>1, HandlerMoves DEF JoinInsert, LeaveRemove, Inv
<1>4. CASE JoinAnnounce(c)
  <2>1. log' \in Seq(Event) /\ Len(log') = Len(log) + 1
    BY <1>4, SendType, EventTypes DEF JoinAnnounce, Inv, TypeOK
  <2>2. TypeOK'
    BY <1>4, <2>1 DEF JoinAnnounce, Inv, TypeOK, HGoto
  <2> QED
    BY <1>1, <1>4, <2>2, HandlerMoves DEF JoinAnnounce, Inv
<1>5. CASE Welcome(c) \/ AbortWriter(c)
  <2>1. TypeOK'
    BY <1>5 DEF Welcome, AbortWriter, Inv, TypeOK, HGoto, WGoto
  <2> QED
    BY <1>1, <1>5, <2>1, HandlerMoves DEF Welcome, AbortWriter, Inv
<1>6. CASE WelcomeFails(c)
  <2>1. PermitsExact' /\ NoHandlerForgotten' /\ IdsInOrder' /\ permits' \in 0 .. MAX_CONNECTIONS
    BY <1>1, <1>6, HandlerFinishes DEF WelcomeFails
  <2>2. TypeOK'
    BY <1>6, <2>1 DEF WelcomeFails, Inv, TypeOK, Finish, HGoto
  <2> QED
    BY <2>1, <2>2 DEF Inv
<1>7. CASE ReadLine(c)
  <2>1. log' \in Seq(Event) /\ Len(log') = Len(log) + 1
    BY <1>7, SendType, EventTypes DEF ReadLine, Inv, TypeOK
  <2>2. TypeOK'
    BY <1>7, <2>1 DEF ReadLine, Inv, TypeOK, connVars
  <2> QED
    BY <1>7, <2>2, HandlersStay DEF ReadLine, Inv, connVars
<1>8. CASE ReadEnds(c) \/ WriterEnded(c)
  <2>1. TypeOK'
    BY <1>8 DEF ReadEnds, WriterEnded, Inv, TypeOK, HGoto
  <2> QED
    BY <1>1, <1>8, <2>1, HandlerMoves DEF ReadEnds, WriterEnded, Inv
<1>9. CASE LeaveAnnounce(c)
  <2>1. PermitsExact' /\ NoHandlerForgotten' /\ IdsInOrder' /\ permits' \in 0 .. MAX_CONNECTIONS
    BY <1>1, <1>9, HandlerFinishes DEF LeaveAnnounce
  <2>2. log' \in Seq(Event) /\ Len(log') = Len(log) + 1
    BY <1>9, SendType, EventTypes DEF LeaveAnnounce, Inv, TypeOK
  <2>3. TypeOK'
    BY <1>9, <2>1, <2>2 DEF LeaveAnnounce, Inv, TypeOK, Finish, HGoto
  <2> QED
    BY <2>1, <2>3 DEF Inv
<1> QED
  BY <1>2, <1>3, <1>4, <1>5, <1>6, <1>7, <1>8, <1>9 DEF Progress

LEMMA WriterKeepsInv ==
  ASSUME Inv, NEW c \in Conn, Writer(c) \/ Stall(c) \/ Resume(c) \/ Close(c)
  PROVE  Inv'
<1> USE DEF srvVars
<1>1. UNCHANGED <<permits, next_id, handles, hpc, srv>>
  BY DEF Writer, Lagged, Recv, Written, WriteFails, Stall, Resume, Close, SetPeer
<1>2. CASE Lagged(c) \/ Recv(c)
  <2>1. rx' = [rx EXCEPT ![c] = rx'[c]] /\ rx'[c] \in Nat /\ rx'[c] <= Len(log) /\ log' = log
    BY <1>2, ServerAssumption DEF Lagged, Recv, Inv, TypeOK
  <2>2. \A d \in Conn : wpc'[d] \in {"none", "recv", "write", "ended"}
    BY <1>2 DEF Lagged, Recv, WGoto, Inv, TypeOK
  <2>3. wpc' = [wpc EXCEPT ![c] = wpc'[c]]
    BY <1>2 DEF Lagged, Recv, WGoto, Inv, TypeOK
  <2>4. TypeOK'
    BY <1>1, <1>2, <2>1, <2>2, <2>3 DEF Lagged, Recv, Inv, TypeOK
  <2> QED
    BY <1>1, <2>4, HandlersStay DEF Inv
<1>3. CASE Written(c) \/ WriteFails(c)
  <2>1. TypeOK'
    BY <1>3 DEF Written, WriteFails, WGoto, Inv, TypeOK
  <2> QED
    BY <1>1, <2>1, HandlersStay DEF Inv
<1>4. CASE Stall(c) \/ Resume(c) \/ Close(c)
  <2>1. TypeOK'
    BY <1>4 DEF Stall, Resume, Close, SetPeer, Inv, TypeOK
  <2> QED
    BY <1>1, <2>1, HandlersStay DEF Inv
<1> QED
  BY <1>2, <1>3, <1>4 DEF Writer

LEMMA InvStep == Inv /\ [Next]_vars => Inv'
<1> SUFFICES ASSUME Inv, [Next]_vars PROVE Inv'
    OBVIOUS
<1>1. CASE UNCHANGED vars
  <2>1. TypeOK'
    BY <1>1 DEF vars, srvVars, connVars, Inv, TypeOK
  <2> QED
    BY <1>1, <2>1, HandlersStay DEF vars, srvVars, connVars, Inv
<1> QED
  BY <1>1, AcceptKeepsInv, ServerKeepsInv, HandlerKeepsInv, WriterKeepsInv DEF Next

LEMMA InvInit == Init => Inv
<1> SUFFICES ASSUME Init PROVE Inv
    OBVIOUS
<1>1. Working = {} /\ Cardinality(Working) = 0
  BY FS_EmptySet DEF Init, Working
<1>2. TypeOK
  BY ServerAssumption DEF Init, TypeOK
<1>3. PermitsExact
  BY <1>1, ServerAssumption DEF Init, PermitsExact
<1>4. NoHandlerForgotten
  BY <1>1 DEF Init, NoHandlerForgotten
<1>5. IdsInOrder
  BY ServerAssumption DEF Init, IdsInOrder, Conn
<1> QED
  BY <1>2, <1>3, <1>4, <1>5 DEF Inv

LEMMA InvAlways == Spec => []Inv
BY InvInit, InvStep, PTL DEF Spec

(* The state keeps its types; in particular a receiver is never ahead of the
   channel (server.rs:29-99, client.rs:76-188). *)
THEOREM TypeCorrect == Spec => []TypeOK
<1>1. Inv => TypeOK
  BY DEF Inv
<1> QED
  BY <1>1, InvAlways, PTL

(* No exit path of a handler leaks its permit or returns it twice, so no more
   than MAX_CONNECTIONS handlers ever run (server.rs:48-62 and 70-75). *)
THEOREM PermitsExactCorrect == Spec => []PermitsExact
<1>1. Inv => PermitsExact
  BY DEF Inv
<1> QED
  BY <1>1, InvAlways, PTL

(* When run() returns, every handler has ended (server.rs:76-78 and 93-95). *)
THEOREM NoHandlerForgottenCorrect == Spec => []NoHandlerForgotten
<1>1. Inv => NoHandlerForgotten
  BY DEF Inv
<1> QED
  BY <1>1, InvAlways, PTL

(* What has been announced of a connection, and whether it is in the table, at
   each place of its handler. *)
Announcements ==
  \A c \in Conn :
    /\ hpc[c] \in {"none", "subscribe", "join"} =>
         c \notin clients /\ ~SentEvent(Joined(c)) /\ ~SentEvent(Left(c))
    /\ hpc[c] = "announce" => c \in clients /\ ~SentEvent(Joined(c)) /\ ~SentEvent(Left(c))
    /\ hpc[c] \in {"welcome", "read", "abort", "leave"} =>
         c \in clients /\ SentEvent(Joined(c)) /\ ~SentEvent(Left(c))
    /\ hpc[c] = "bye" => c \notin clients /\ SentEvent(Joined(c)) /\ ~SentEvent(Left(c))
    /\ hpc[c] = "done" => SentEvent(Joined(c)) /\ (c \in clients <=> ~SentEvent(Left(c)))

\* Announced once, and as joined before as left.
InOrder ==
  \A c \in Conn :
    /\ \A i, j \in DOMAIN log : log[i] = log[j] /\ log[i] \in {Joined(c), Left(c)} => i = j
    /\ \A i, j \in DOMAIN log : log[i] = Joined(c) /\ log[j] = Left(c) => i < j

PresenceInv == Inv /\ Announcements /\ InOrder

LEMMA EventsDiffer ==
  ASSUME NEW c \in Conn, NEW d \in Conn
  PROVE  /\ Joined(c) = Joined(d) => c = d
         /\ Left(c) = Left(d) => c = d
         /\ Joined(c) # Left(d)
         /\ Joined(c) # Line(d) /\ Left(c) # Line(d)
         /\ Joined(c) # Shutdown /\ Left(c) # Shutdown
BY DEF Joined, Left, Line, Shutdown

LEMMA SentGrows ==
  ASSUME Inv, NEW e \in Event, Send(e), NEW f
  PROVE  SentEvent(f)' <=> SentEvent(f) \/ f = e
<1>1. /\ DOMAIN log' = DOMAIN log \cup {Len(log) + 1}
      /\ \A i \in DOMAIN log' : log'[i] = IF i = Len(log) + 1 THEN e ELSE log[i]
      /\ \A i \in DOMAIN log : i # Len(log) + 1
  BY DEF Inv, TypeOK, Send
<1> QED
  BY <1>1 DEF SentEvent

LEMMA OrderGrows ==
  ASSUME Inv, InOrder, NEW e \in Event, Send(e),
         \A c \in Conn : /\ e = Joined(c) => ~SentEvent(Joined(c)) /\ ~SentEvent(Left(c))
                         /\ e = Left(c) => ~SentEvent(Left(c))
  PROVE  InOrder'
<1>1. /\ DOMAIN log' = DOMAIN log \cup {Len(log) + 1}
      /\ \A i \in DOMAIN log' : log'[i] = IF i = Len(log) + 1 THEN e ELSE log[i]
      /\ \A i \in DOMAIN log : i < Len(log) + 1
  BY DEF Inv, TypeOK, Send
<1> SUFFICES ASSUME NEW c \in Conn, NEW i \in DOMAIN log', NEW j \in DOMAIN log'
             PROVE  /\ log'[i] = log'[j] /\ log'[i] \in {Joined(c), Left(c)} => i = j
                    /\ log'[i] = Joined(c) /\ log'[j] = Left(c) => i < j
  BY DEF InOrder
<1>2. CASE i \in DOMAIN log /\ j \in DOMAIN log
  BY <1>1, <1>2 DEF InOrder
<1>3. CASE i = Len(log) + 1 /\ j = Len(log) + 1
  BY <1>1, <1>3, EventsDiffer
<1>4. CASE i = Len(log) + 1 /\ j \in DOMAIN log
  BY <1>1, <1>4 DEF SentEvent
<1>5. CASE i \in DOMAIN log /\ j = Len(log) + 1
  BY <1>1, <1>5 DEF SentEvent
<1> QED
  BY <1>1, <1>2, <1>3, <1>4, <1>5

\* A step that sends nothing and moves at most one handler.
LEMMA QuietStep ==
  ASSUME PresenceInv, log' = log
  PROVE  InOrder' /\ \A e : SentEvent(e)' <=> SentEvent(e)
BY DEF PresenceInv, InOrder, SentEvent

LEMMA OthersKeepPresence ==
  ASSUME PresenceInv,
         Accept \/ Refuse \/ CtrlC \/ Stop
           \/ \E c \in Conn : ReadLine(c) \/ Writer(c) \/ Stall(c) \/ Resume(c) \/ Close(c)
  PROVE  Announcements' /\ InOrder'
<1> USE DEF srvVars, connVars
<1>1. CASE Accept
  <2>1. InOrder' /\ \A e : SentEvent(e)' <=> SentEvent(e)
    BY <1>1, QuietStep DEF Accept
  <2>2. /\ next_id \in Conn /\ hpc[next_id] = "none" /\ clients' = clients
        /\ \A d \in Conn : hpc'[d] = IF d = next_id THEN "subscribe" ELSE hpc[d]
    BY <1>1, WorkingFinite DEF Accept, HGoto, PresenceInv, Inv, TypeOK, IdsInOrder
  <2> QED
    BY <2>1, <2>2 DEF PresenceInv, Announcements
<1>2. CASE CtrlC
  <2>1. \A c \in Conn : Shutdown # Joined(c) /\ Shutdown # Left(c)
    BY EventsDiffer
  <2>2. Shutdown \in Event /\ Send(Shutdown) /\ UNCHANGED <<clients, hpc>>
    BY <1>2 DEF CtrlC, Event
  <2>3. InOrder'
    BY <2>1, <2>2, OrderGrows DEF PresenceInv
  <2>4. \A f : SentEvent(f)' <=> SentEvent(f) \/ f = Shutdown
    BY <2>2, SentGrows DEF PresenceInv
  <2> QED
    BY <2>1, <2>2, <2>3, <2>4 DEF PresenceInv, Announcements
<1>3. CASE \E c \in Conn : ReadLine(c)
  <2> PICK c \in Conn : ReadLine(c)
    BY <1>3
  <2>1. \A d \in Conn : Line(c) # Joined(d) /\ Line(c) # Left(d)
    BY EventsDiffer
  <2>2. Line(c) \in Event /\ Send(Line(c)) /\ UNCHANGED <<clients, hpc>>
    BY EventTypes DEF ReadLine
  <2>3. InOrder'
    BY <2>1, <2>2, OrderGrows DEF PresenceInv
  <2>4. \A f : SentEvent(f)' <=> SentEvent(f) \/ f = Line(c)
    BY <2>2, SentGrows DEF PresenceInv
  <2> QED
    BY <2>1, <2>2, <2>3, <2>4 DEF PresenceInv, Announcements
<1>4. CASE Refuse \/ Stop \/ \E c \in Conn : Writer(c) \/ Stall(c) \/ Resume(c) \/ Close(c)
  <2>1. UNCHANGED <<log, clients, hpc>>
    BY <1>4 DEF Refuse, Stop, Writer, Lagged, Recv, Written, WriteFails, Stall, Resume, Close, SetPeer
  <2>2. InOrder' /\ \A e : SentEvent(e)' <=> SentEvent(e)
    BY <2>1, QuietStep
  <2> QED
    BY <2>1, <2>2 DEF PresenceInv, Announcements
<1> QED
  BY <1>1, <1>2, <1>3, <1>4

LEMMA HandlerKeepsPresence ==
  ASSUME PresenceInv, NEW c \in Conn, Progress(c)
  PROVE  Announcements' /\ InOrder'
<1> USE DEF srvVars, connVars
<1>0. /\ hpc \in [Conn -> {"none", "subscribe", "join", "announce", "welcome", "read",
                           "abort", "leave", "bye", "done"}]
      /\ Joined(c) \in Event /\ Left(c) \in Event
  BY EventTypes DEF PresenceInv, Inv, TypeOK
<1>1. CASE Subscribe(c) \/ Welcome(c) \/ ReadEnds(c) \/ WriterEnded(c) \/ AbortWriter(c)
  <2>1. InOrder' /\ \A e : SentEvent(e)' <=> SentEvent(e)
    BY <1>1, QuietStep DEF Subscribe, Welcome, ReadEnds, WriterEnded, AbortWriter
  <2>2. /\ clients' = clients
        /\ \A d \in Conn : d # c => hpc'[d] = hpc[d]
        /\ \/ hpc[c] = "subscribe" /\ hpc'[c] = "join"
           \/ hpc[c] \in {"welcome", "read", "abort"} /\ hpc'[c] \in {"read", "abort", "leave"}
    BY <1>0, <1>1 DEF Subscribe, Welcome, ReadEnds, WriterEnded, AbortWriter, HGoto
  <2> QED
    BY <2>1, <2>2 DEF PresenceInv, Announcements
<1>2. CASE WelcomeFails(c)
  <2>1. InOrder' /\ \A e : SentEvent(e)' <=> SentEvent(e)
    BY <1>2, QuietStep DEF WelcomeFails
  <2>2. /\ clients' = clients /\ hpc[c] = "welcome"
        /\ \A d \in Conn : hpc'[d] = IF d = c THEN "done" ELSE hpc[d]
    BY <1>0, <1>2 DEF WelcomeFails, Finish, HGoto
  <2> QED
    BY <2>1, <2>2 DEF PresenceInv, Announcements
<1>3. CASE JoinInsert(c)
  <2>1. InOrder' /\ \A e : SentEvent(e)' <=> SentEvent(e)
    BY <1>3, QuietStep DEF JoinInsert
  <2>2. /\ clients' = clients \cup {c} /\ hpc[c] = "join"
        /\ \A d \in Conn : hpc'[d] = IF d = c THEN "announce" ELSE hpc[d]
    BY <1>0, <1>3 DEF JoinInsert, HGoto
  <2> QED
    BY <2>1, <2>2 DEF PresenceInv, Announcements
<1>4. CASE LeaveRemove(c)
  <2>1. InOrder' /\ \A e : SentEvent(e)' <=> SentEvent(e)
    BY <1>4, QuietStep DEF LeaveRemove
  <2>2. /\ clients' = clients \ {c} /\ hpc[c] = "leave"
        /\ \A d \in Conn : hpc'[d] = IF d = c THEN "bye" ELSE hpc[d]
    BY <1>0, <1>4 DEF LeaveRemove, HGoto
  <2> QED
    BY <2>1, <2>2 DEF PresenceInv, Announcements
<1>5. CASE JoinAnnounce(c)
  <2>1. /\ clients' = clients /\ hpc[c] = "announce" /\ Send(Joined(c))
        /\ \A d \in Conn : hpc'[d] = IF d = c THEN "welcome" ELSE hpc[d]
    BY <1>0, <1>5 DEF JoinAnnounce, HGoto
  <2>2. ~SentEvent(Joined(c)) /\ ~SentEvent(Left(c)) /\ c \in clients
    BY <2>1 DEF PresenceInv, Announcements
  <2>3. InOrder'
    BY <1>0, <2>1, <2>2, OrderGrows, EventsDiffer DEF PresenceInv
  <2>4. \A f : SentEvent(f)' <=> SentEvent(f) \/ f = Joined(c)
    BY <1>0, <2>1, SentGrows DEF PresenceInv
  <2> QED
    BY <2>1, <2>2, <2>3, <2>4, EventsDiffer DEF PresenceInv, Announcements
<1>6. CASE LeaveAnnounce(c)
  <2>1. /\ clients' = clients /\ hpc[c] = "bye" /\ Send(Left(c))
        /\ \A d \in Conn : hpc'[d] = IF d = c THEN "done" ELSE hpc[d]
    BY <1>0, <1>6 DEF LeaveAnnounce, Finish, HGoto
  <2>2. SentEvent(Joined(c)) /\ ~SentEvent(Left(c)) /\ c \notin clients
    BY <2>1 DEF PresenceInv, Announcements
  <2>3. InOrder'
    BY <1>0, <2>1, <2>2, OrderGrows, EventsDiffer DEF PresenceInv
  <2>4. \A f : SentEvent(f)' <=> SentEvent(f) \/ f = Left(c)
    BY <1>0, <2>1, SentGrows DEF PresenceInv
  <2> QED
    BY <2>1, <2>2, <2>3, <2>4, EventsDiffer DEF PresenceInv, Announcements
<1> QED
  BY <1>1, <1>2, <1>3, <1>4, <1>5, <1>6 DEF Progress

LEMMA PresenceAlways == Spec => []PresenceInv
<1>1. Init => PresenceInv
  BY InvInit DEF PresenceInv, Announcements, InOrder, SentEvent, Init
<1>2. PresenceInv /\ [Next]_vars => PresenceInv'
  <2> SUFFICES ASSUME PresenceInv, [Next]_vars PROVE PresenceInv'
    OBVIOUS
  <2>1. Inv'
    BY InvStep DEF PresenceInv
  <2>2. CASE UNCHANGED vars
    <3>1. InOrder' /\ \A e : SentEvent(e)' <=> SentEvent(e)
      BY <2>2, QuietStep DEF vars
    <3> QED
      BY <2>1, <2>2, <3>1 DEF PresenceInv, Announcements, vars, connVars
  <2> QED
    BY <2>1, <2>2, OthersKeepPresence, HandlerKeepsPresence DEF PresenceInv, Next
<1> QED
  BY <1>1, <1>2, PTL DEF Spec

(* Whoever replays the presence events knows the table of the room, for any
   number of connections and in every interleaving (room.rs:53-71). *)
THEOREM PresenceMatchesMembersCorrect == Spec => []PresenceMatchesMembers
<1>1. PresenceInv => PresenceMatchesMembers
  <2> SUFFICES ASSUME PresenceInv, NEW c \in Conn,
                      hpc[c] \notin {"announce", "bye"}
               PROVE  c \in clients <=> SentEvent(Joined(c)) /\ ~SentEvent(Left(c))
    BY DEF PresenceInv, InOrder, PresenceMatchesMembers
  <2>1. hpc[c] \in {"none", "subscribe", "join", "welcome", "read", "abort", "leave", "done"}
    BY DEF PresenceInv, Inv, TypeOK
  <2> QED
    BY <2>1 DEF PresenceInv, Announcements
<1> QED
  BY <1>1, PresenceAlways, PTL

(* A write task starts with the read loop only; the one early return before it
   is that of a welcome line whose peer has gone. *)
EarlyReturnOf(c) ==
  /\ hpc[c] \in {"none", "subscribe", "join", "announce", "welcome"} => wpc[c] = "none"
  /\ hpc[c] = "done" /\ c \in clients => wpc[c] = "none" /\ peer[c] = "closed"
EarlyReturn == \A c \in Conn : EarlyReturnOf(c)

(* Only a welcome line that could not be written leaves its id in the table:
   every other exit takes it out, at any moment and for any reason
   (client.rs:88-92, 119-185). *)
THEOREM LeakedOnlyByFailedWelcomeCorrect == Spec => []LeakedOnlyByFailedWelcome
<1>1. Init => EarlyReturn
  BY DEF Init, EarlyReturn, EarlyReturnOf
<1>2. PresenceInv /\ EarlyReturn /\ [Next]_vars => EarlyReturn'
  <2> SUFFICES ASSUME PresenceInv, EarlyReturn, [Next]_vars, NEW d \in Conn
               PROVE  EarlyReturnOf(d)'
    BY DEF EarlyReturn
  <2> USE DEF srvVars, connVars, HGoto, WGoto, Finish, EarlyReturnOf
  <2>0. /\ hpc \in [Conn -> {"none", "subscribe", "join", "announce", "welcome", "read",
                             "abort", "leave", "bye", "done"}]
        /\ wpc \in [Conn -> {"none", "recv", "write", "ended"}]
        /\ peer \in [Conn -> {"open", "stalled", "closed"}]
        /\ hpc[d] = "bye" => d \notin clients
    BY DEF PresenceInv, Inv, TypeOK, Announcements
  <2>1. CASE Accept
    <3>1. next_id \in Conn /\ hpc[next_id] = "none"
      BY <2>1, WorkingFinite DEF Accept, PresenceInv, Inv, TypeOK, IdsInOrder
    <3> QED
      BY <2>0, <2>1, <3>1 DEF Accept, EarlyReturn
  <2>5. CASE Refuse \/ CtrlC \/ Stop \/ UNCHANGED vars
    BY <2>0, <2>5 DEF Refuse, CtrlC, Stop, vars, EarlyReturn
  <2>2. ASSUME NEW c \in Conn,
               Subscribe(c) \/ JoinInsert(c) \/ JoinAnnounce(c) \/ Welcome(c) \/ WelcomeFails(c)
        PROVE  EarlyReturnOf(d)'
    BY <2>0, <2>2 DEF Subscribe, JoinInsert, JoinAnnounce, Welcome, WelcomeFails, EarlyReturn
  <2>3. ASSUME NEW c \in Conn,
               ReadLine(c) \/ ReadEnds(c) \/ WriterEnded(c) \/ AbortWriter(c)
                 \/ LeaveRemove(c) \/ LeaveAnnounce(c)
        PROVE  EarlyReturnOf(d)'
    BY <2>0, <2>3 DEF ReadLine, ReadEnds, WriterEnded, AbortWriter, LeaveRemove, LeaveAnnounce,
                      EarlyReturn
  <2>4. ASSUME NEW c \in Conn, Writer(c) \/ Stall(c) \/ Resume(c) \/ Close(c)
        PROVE  EarlyReturnOf(d)'
    BY <2>0, <2>4 DEF Writer, Lagged, Recv, Written, WriteFails, Stall, Resume, Close, SetPeer,
                      EarlyReturn
  <2> QED
    BY <2>1, <2>2, <2>3, <2>4, <2>5 DEF Next, Progress
<1>3. PresenceInv /\ EarlyReturn => LeakedOnlyByFailedWelcome
  <2> SUFFICES ASSUME PresenceInv, EarlyReturn, NEW c \in clients \ Working
               PROVE  wpc[c] = "none" /\ peer[c] = "closed"
    BY DEF LeakedOnlyByFailedWelcome
  <2>1. c \in Conn /\ hpc[c] \in {"none", "done"}
    BY DEF PresenceInv, Inv, TypeOK, Working
  <2> QED
    BY <2>1 DEF PresenceInv, Announcements, EarlyReturn, EarlyReturnOf
<1> QED
  BY <1>1, <1>2, <1>3, PresenceAlways, PTL DEF Spec
=============================================================================
