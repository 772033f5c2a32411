------------------------ MODULE TerminalClientProofs ------------------------
(***************************************************************************)
(* Machine-checked proofs about TerminalClient, for every finite set of    *)
(* clients, every set of nicknames, number of options, length of the list  *)
(* of messages and number of lines entered.                                *)
(***************************************************************************)
EXTENDS TerminalClient, FiniteSetTheorems, TLAPS

Place == {"none", "join", "announce", "read", "bye", "done"}

LEMMA EventTypes ==
  ASSUME NEW c \in Client, NEW n \in Name \cup {None}, NEW a \in Name \cup {None}
  PROVE  /\ Presence(c, TRUE) \in Event /\ Presence(c, FALSE) \in Event
         /\ ChatLine(c, n, a) \in Event
BY DEF Presence, ChatLine, Event

LEMMA ParseTypes ==
  ASSUME NEW typed \in Typed, NEW a \in Name \cup {None}
  PROVE  ParseInput(typed, a) \in ClientMsg \cup {None}
<1>1. typed.word \in {"/nick", "/vote", "/unvote"}
  BY DEF Typed
<1>2. typed.word = "/nick" => typed.rest \in Name \cup {None}
  BY DEF Typed
<1> QED
  BY <1>1, <1>2 DEF ParseInput, Msg, ClientMsg

LEMMA MarkTypes ==
  ASSUME NEW typed \in Typed, NEW mine \in Option \cup {None}
  PROVE  Mark(mine, typed) \in Option \cup {None}
BY ParseTypes DEF Mark, ClientMsg

LEMMA ViewTypes ==
  ASSUME NEW e \in Event, NEW n \in Nat, NEW list \in Seq(ShownLine), Len(list) <= MAX_MESSAGES
  PROVE  /\ Follow(n, e) \in Nat
         /\ Shows(e) \in ShownLine
         /\ PushMsg(list, Shows(e)) \in Seq(ShownLine)
         /\ Len(PushMsg(list, Shows(e))) =
               IF Len(list) >= MAX_MESSAGES THEN MAX_MESSAGES ELSE Len(list) + 1
<1>1. Follow(n, e) \in Nat
  BY DEF Follow
<1>2. Shows(e) \in ShownLine
  BY DEF Shows, ShownLine, Event
<1> DEFINE line == Shows(e)
<1>3. line \in ShownLine
  BY <1>2
<1> HIDE DEF line
<1>4. CASE Len(list) >= MAX_MESSAGES
  <2>1. Len(list) = MAX_MESSAGES /\ MAX_MESSAGES \in Nat \ {0} /\ list # <<>>
    BY <1>4, WindowAssumption
  <2>2. Tail(list) \in Seq(ShownLine) /\ Len(Tail(list)) = MAX_MESSAGES - 1
    BY <2>1
  <2>3. PushMsg(list, line) = Append(Tail(list), line)
    BY <1>4 DEF PushMsg
  <2> QED
    BY <1>1, <1>3, <1>4, <2>1, <2>2, <2>3 DEF line
<1>5. CASE ~(Len(list) >= MAX_MESSAGES)
  <2>1. PushMsg(list, line) = Append(list, line)
    BY <1>5 DEF PushMsg
  <2> QED
    BY <1>1, <1>3, <1>5, <2>1 DEF line
<1> QED
  BY <1>4, <1>5

LEMMA TypeInit == Init => TypeOK
<1> SUFFICES ASSUME Init PROVE TypeOK
  OBVIOUS
<1>1. MAX_MESSAGES \in Nat /\ MaxEntered \in Nat
  BY WindowAssumption
<1> QED
  BY <1>1 DEF Init, TypeOK

\* The next line read and what stays in the inbox.
LEMMA ReadTypes ==
  ASSUME TypeOK, NEW c \in Client, NEW type, Read(c, type)
  PROVE  /\ Head(inbox[c]) \in ClientMsg /\ Head(inbox[c]).type = type
         /\ inbox' \in [Client -> Seq(ClientMsg)]
BY DEF Read, TypeOK

LEMMA SendTypes ==
  ASSUME log \in Seq(Event), rx \in [Client -> 0 .. Len(log)], NEW e \in Event, Send(e)
  PROVE  log' \in Seq(Event) /\ rx \in [Client -> 0 .. Len(log')]
<1>1. log' \in Seq(Event) /\ Len(log') = Len(log) + 1 /\ Len(log) \in Nat
  BY DEF Send
<1> QED
  BY <1>1

LEMMA HandlerTypes ==
  ASSUME TypeOK, NEW c \in Client,
         \/ Subscribe(c) \/ JoinInsert(c) \/ JoinAnnounce(c) \/ SetNick(c) \/ Chat(c)
         \/ Vote(c) \/ Unvote(c) \/ LeaveRemove(c) \/ LeaveAnnounce(c)
  PROVE  TypeOK'
<1> USE DEF roomVars, handlerVars, viewVars, userVars
<1>0. log \in Seq(Event) /\ rx \in [Client -> 0 .. Len(log)] /\ Len(log) \in Nat
  BY DEF TypeOK
<1>9. ASSUME NEW l \in Place, Goto(c, l) PROVE pc' \in [Client -> Place]
  BY <1>9 DEF TypeOK, Goto, Place
<1> USE DEF Place
<1>1. CASE Subscribe(c)
  <2>1. rx' \in [Client -> 0 .. Len(log)] /\ log' = log
    BY <1>0, <1>1 DEF Subscribe
  <2>2. pc' \in [Client -> Place]
    BY <1>1, <1>9 DEF Subscribe
  <2> QED
    BY <1>1, <2>1, <2>2 DEF Subscribe, TypeOK
<1>2. CASE JoinInsert(c)
  <2>1. IsFiniteSet(clients \cup {c})
    BY ClientAssumption, FS_Subset, FS_AddElement DEF TypeOK
  <2>2. Cardinality(clients \cup {c}) \in Nat
    BY <2>1, FS_CardinalityType
  <2>3. (At("announce") \cup At("bye") = {} /\ rx[c] = Len(log)) \in BOOLEAN
    OBVIOUS
  <2>4. alone' \in [Client -> BOOLEAN] /\ peer_count' \in [Client -> Nat]
    BY <1>2, <2>2, <2>3 DEF JoinInsert, TypeOK
  <2>5. pc' \in [Client -> Place]
    BY <1>2, <1>9 DEF JoinInsert
  <2> QED
    BY <1>2, <2>4, <2>5 DEF JoinInsert, TypeOK
<1>3. CASE JoinAnnounce(c) \/ LeaveAnnounce(c)
  <2>1. \E e \in Event : Send(e)
    BY <1>3, EventTypes DEF JoinAnnounce, LeaveAnnounce
  <2>2. log' \in Seq(Event) /\ rx \in [Client -> 0 .. Len(log')]
    BY <1>0, <2>1, SendTypes
  <2>3. pc' \in [Client -> Place]
    BY <1>3, <1>9 DEF JoinAnnounce, LeaveAnnounce
  <2> QED
    BY <1>3, <2>2, <2>3 DEF JoinAnnounce, LeaveAnnounce, TypeOK
<1>4. CASE SetNick(c)
  <2>1. Read(c, "set_nick")
    BY <1>4 DEF SetNick
  <2>2. Head(inbox[c]).arg \in Name /\ inbox' \in [Client -> Seq(ClientMsg)]
    BY <2>1, ReadTypes DEF ClientMsg
  <2> QED
    BY <1>4, <2>2 DEF SetNick, Read, TypeOK
<1>5. CASE Chat(c)
  <2>1. Read(c, "chat")
    BY <1>5 DEF Chat
  <2>2. Head(inbox[c]).as \in Name \cup {None} /\ inbox' \in [Client -> Seq(ClientMsg)]
    BY <2>1, ReadTypes DEF ClientMsg
  <2>3. ChatLine(c, nick[c], Head(inbox[c]).as) \in Event
    BY <2>2, EventTypes DEF TypeOK
  <2>4. log' \in Seq(Event) /\ rx \in [Client -> 0 .. Len(log')]
    BY <1>0, <1>5, <2>3, SendTypes DEF Chat
  <2> QED
    BY <1>5, <2>2, <2>4 DEF Chat, Read, TypeOK
<1>6. CASE Vote(c)
  <2>1. Read(c, "vote")
    BY <1>6 DEF Vote
  <2>2. Head(inbox[c]).arg \in Option /\ inbox' \in [Client -> Seq(ClientMsg)]
    BY <2>1, ReadTypes DEF ClientMsg
  <2> QED
    BY <1>6, <2>2 DEF Vote, Read, TypeOK
<1>7. CASE Unvote(c)
  <2>1. inbox' \in [Client -> Seq(ClientMsg)]
    BY <1>7, ReadTypes DEF Unvote
  <2> QED
    BY <1>7, <2>1 DEF Unvote, Read, TypeOK
<1>8. CASE LeaveRemove(c)
  <2>1. pc' \in [Client -> Place]
    BY <1>8, <1>9 DEF LeaveRemove
  <2>2. /\ inbox' \in [Client -> Seq(ClientMsg)]
        /\ names' \in [Client -> Name \cup {None}]
    BY <1>8 DEF LeaveRemove, TypeOK
  <2>3. clients' \subseteq Client
    BY <1>8 DEF LeaveRemove, TypeOK
  <2> QED
    BY <1>8, <2>1, <2>2, <2>3 DEF LeaveRemove, TypeOK
<1> QED
  BY <1>1, <1>2, <1>3, <1>4, <1>5, <1>6, <1>7, <1>8

LEMMA ViewStepTypes ==
  ASSUME TypeOK, NEW c \in Client, ViewWelcome(c) \/ ViewEvent(c)
  PROVE  TypeOK'
<1> USE DEF roomVars, handlerVars, viewVars, userVars
<1>1. CASE ViewWelcome(c)
  BY <1>1 DEF ViewWelcome, TypeOK
<1>2. CASE ViewEvent(c)
  <2> DEFINE e == log[rx[c] + 1]
  <2>1. e \in Event /\ rx[c] \in Nat /\ rx[c] < Len(log) /\ Len(log) \in Nat
    BY <1>2 DEF ViewEvent, TypeOK
  <2>2. /\ client_count[c] \in Nat /\ messages[c] \in Seq(ShownLine)
        /\ Len(messages[c]) <= MAX_MESSAGES /\ MAX_MESSAGES \in Nat /\ Len(messages[c]) \in Nat
    BY WindowAssumption DEF TypeOK
  <2>3. /\ client_count' = [client_count EXCEPT ![c] = Follow(client_count[c], e)]
        /\ messages' = [messages EXCEPT ![c] = PushMsg(messages[c], Shows(e))]
        /\ rx' = [rx EXCEPT ![c] = rx[c] + 1]
    BY <1>2 DEF ViewEvent, TypeOK
  <2> HIDE DEF e
  <2>7. /\ Follow(client_count[c], e) \in Nat
        /\ PushMsg(messages[c], Shows(e)) \in Seq(ShownLine)
        /\ Len(PushMsg(messages[c], Shows(e))) =
              IF Len(messages[c]) >= MAX_MESSAGES THEN MAX_MESSAGES ELSE Len(messages[c]) + 1
    BY <2>1, <2>2, ViewTypes
  <2>4. client_count' \in [Client -> Nat] /\ messages' \in [Client -> Seq(ShownLine)]
    BY <2>3, <2>7 DEF TypeOK
  <2>5. \A d \in Client : Len(messages'[d]) <= MAX_MESSAGES
    BY <2>2, <2>3, <2>7 DEF TypeOK
  <2>6. rx' \in [Client -> 0 .. Len(log)]
    BY <2>1, <2>3 DEF TypeOK
  <2> QED
    BY <1>2, <2>4, <2>5, <2>6 DEF ViewEvent, TypeOK
<1> QED
  BY <1>1, <1>2

LEMMA EnterTypes ==
  ASSUME TypeOK, NEW c \in Client, NEW typed \in Typed, Enter(c, typed)
  PROVE  TypeOK'
<1> USE DEF roomVars, handlerVars, viewVars, userVars
<1> DEFINE msg == ParseInput(typed, chosen[c])
<1>1. msg \in ClientMsg \cup {None}
  BY ParseTypes DEF TypeOK
<1>2. msg # None => msg \in ClientMsg
  BY <1>1
<1>3. /\ inbox' = IF msg = None THEN inbox ELSE [inbox EXCEPT ![c] = Append(inbox[c], msg)]
      /\ chosen' = IF msg # None /\ msg.type = "set_nick"
                   THEN [chosen EXCEPT ![c] = msg.arg] ELSE chosen
      /\ my_vote' = [my_vote EXCEPT ![c] = Mark(my_vote[c], typed)]
      /\ entered' = entered + 1 /\ entered < MaxEntered
  BY DEF Enter
<1> HIDE DEF msg
<1>4. inbox' \in [Client -> Seq(ClientMsg)]
  BY <1>2, <1>3 DEF TypeOK
<1>5. chosen' \in [Client -> Name \cup {None}]
  BY <1>2, <1>3 DEF TypeOK, ClientMsg
<1>6. my_vote' \in [Client -> Option \cup {None}]
  BY <1>3, MarkTypes DEF TypeOK
<1>7. entered' \in 0 .. MaxEntered
  BY <1>3, WindowAssumption DEF TypeOK
<1> QED
  BY <1>4, <1>5, <1>6, <1>7 DEF Enter, TypeOK

LEMMA TypeStep == TypeOK /\ [Next]_vars => TypeOK'
<1> SUFFICES ASSUME TypeOK, [Next]_vars PROVE TypeOK'
  OBVIOUS
<1>1. CASE UNCHANGED vars
  BY <1>1 DEF vars, roomVars, handlerVars, viewVars, userVars, TypeOK
<1>2. CASE Next
  BY <1>2, HandlerTypes, ViewStepTypes, EnterTypes DEF Next, Step
<1> QED
  BY <1>1, <1>2

LEMMA TypeAlways == Spec => []TypeOK
BY TypeInit, TypeStep, PTL DEF Spec

(* The state keeps its types: the list of messages within its limit, the count a
   natural number, votes among the options (tui.rs:58-63, 96-104, 189-220). *)
THEOREM TypeCorrect == Spec => []TypeOK
BY TypeAlways
-----------------------------------------------------------------------------
(* The members announced by the first k events of a channel, and what the events
   after them add. *)
SentBy(s, k, d, b) == \E i \in 1 .. k : s[i] = Presence(d, b)
RoomAt(s, k) == {d \in Client : SentBy(s, k, d, TRUE) /\ ~SentBy(s, k, d, FALSE)}
After(s, k, what) == {i \in (k + 1) .. Len(s) : s[i].what = what}
Net(s, k) == Cardinality(After(s, k, "joined")) - Cardinality(After(s, k, "left"))
Delta(e) == IF e.what = "joined" THEN 1 ELSE IF e.what = "left" THEN -1 ELSE 0

\* Everybody joins once and leaves once, in this order.
Sound(s) ==
  /\ s \in Seq(Event)
  /\ \A i \in DOMAIN s : s[i].what # "chat" => s[i] = Presence(s[i].id, s[i].what = "joined")
  /\ \A i, j \in DOMAIN s : s[i] = s[j] /\ s[i].what # "chat" => i = j
  /\ \A j \in DOMAIN s : s[j].what = "left" => SentBy(s, j - 1, s[j].id, TRUE)

LEMMA PresencesDiffer ==
  ASSUME NEW c \in Client, NEW d \in Client, NEW b \in BOOLEAN, NEW f \in BOOLEAN,
         Presence(c, b) = Presence(d, f)
  PROVE  c = d /\ b = f
BY DEF Presence

LEMMA PresenceFields ==
  ASSUME NEW c \in Client, NEW b \in BOOLEAN
  PROVE  /\ Presence(c, b).id = c
         /\ Presence(c, b).what = IF b THEN "joined" ELSE "left"
BY DEF Presence

LEMMA ClientFinite ==
  ASSUME NEW S, S \subseteq Client
  PROVE  IsFiniteSet(S) /\ Cardinality(S) \in Nat
BY ClientAssumption, FS_Subset, FS_CardinalityType

LEMMA DisjointUnion ==
  ASSUME NEW S, NEW T, IsFiniteSet(S), IsFiniteSet(T), S \cap T = {}, NEW U, U = S \cup T
  PROVE  Cardinality(U) = Cardinality(S) + Cardinality(T)
<1>1. Cardinality(S \cap T) = 0
  BY FS_EmptySet
<1>2. Cardinality(S) \in Nat /\ Cardinality(T) \in Nat
  BY FS_CardinalityType
<1>3. Cardinality(S \cup T) = Cardinality(S) + Cardinality(T) - Cardinality(S \cap T)
  BY FS_Union
<1> QED
  BY <1>1, <1>2, <1>3

LEMMA NothingCounted == Cardinality({}) = 0
BY FS_EmptySet

LEMMA OneMore ==
  ASSUME NEW S, IsFiniteSet(S), NEW T, NEW x, T = S \cup {x}, x \notin S
  PROVE  Cardinality(T) = Cardinality(S) + 1 /\ Cardinality(S) \in Nat
BY FS_AddElement, FS_CardinalityType

\* The next event brings its sender in or takes it out.
LEMMA RoomStep ==
  ASSUME NEW s, Sound(s), NEW k \in Nat, k < Len(s)
  PROVE  /\ Cardinality(RoomAt(s, k)) \in Nat
         /\ Cardinality(RoomAt(s, k + 1)) = Cardinality(RoomAt(s, k)) + Delta(s[k + 1])
         /\ s[k + 1].what = "left" => Cardinality(RoomAt(s, k)) > 0
<1> DEFINE e == s[k + 1]
<1>1. /\ IsFiniteSet(RoomAt(s, k)) /\ Cardinality(RoomAt(s, k)) \in Nat
      /\ IsFiniteSet(RoomAt(s, k + 1)) /\ Cardinality(RoomAt(s, k + 1)) \in Nat
  BY ClientFinite DEF RoomAt
<1>8. s \in Seq(Event) /\ Len(s) \in Nat /\ DOMAIN s = 1 .. Len(s)
  BY DEF Sound
<1>2. k + 1 \in DOMAIN s /\ e = s[k + 1] /\ e \in Event
  BY <1>8
<1> HIDE DEF e
<1>9. e.id \in Client
  BY <1>2 DEF Event
<1>10. \A i \in 1 .. k : s[i] = e => e.what = "chat"
  BY <1>2, <1>8 DEF Sound
<1>3. \A d, b : SentBy(s, k + 1, d, b) <=> SentBy(s, k, d, b) \/ e = Presence(d, b)
  <2>1. 1 .. k + 1 = (1 .. k) \cup {k + 1}
    OBVIOUS
  <2> QED
    BY <1>2, <2>1 DEF SentBy
<1>4. CASE e.what = "chat"
  <2>1. \A d \in Client, b \in BOOLEAN : e # Presence(d, b)
    BY <1>4, PresenceFields
  <2>2. RoomAt(s, k + 1) = RoomAt(s, k)
    BY <1>3, <2>1 DEF RoomAt
  <2> QED
    BY <1>1, <1>2, <1>4, <2>2 DEF Delta
<1>5. CASE e.what = "joined"
  <2>1. e = Presence(e.id, TRUE)
    BY <1>2, <1>5 DEF Sound
  <2>2. \A d \in Client : /\ e = Presence(d, TRUE) <=> d = e.id
                          /\ e # Presence(d, FALSE)
    BY <1>9, <2>1, PresencesDiffer
  <2>3. ~SentBy(s, k, e.id, TRUE)
    BY <1>5, <1>10, <2>1 DEF SentBy
  <2>4. ~SentBy(s, k, e.id, FALSE)
    <3> SUFFICES ASSUME NEW j \in 1 .. k, s[j] = Presence(e.id, FALSE) PROVE FALSE
      BY DEF SentBy
    <3>4. j \in DOMAIN s
      BY <1>8
    <3>1. j \in DOMAIN s /\ s[j].what = "left" /\ s[j].id = e.id
      BY <1>9, <3>4 DEF Presence
    <3>2. SentBy(s, j - 1, e.id, TRUE)
      BY <3>1 DEF Sound
    <3>3. 1 .. j - 1 \subseteq 1 .. k
      OBVIOUS
    <3> QED
      BY <2>3, <3>2, <3>3 DEF SentBy
  <2>5. RoomAt(s, k + 1) = RoomAt(s, k) \cup {e.id} /\ e.id \notin RoomAt(s, k)
    BY <1>3, <1>9, <2>2, <2>3, <2>4 DEF RoomAt
  <2>6. Cardinality(RoomAt(s, k + 1)) = Cardinality(RoomAt(s, k)) + 1
    BY <1>1, <2>5, OneMore
  <2> QED
    BY <1>1, <1>2, <1>5, <2>6 DEF Delta
<1>6. CASE e.what = "left"
  <2>1. e = Presence(e.id, FALSE)
    BY <1>2, <1>6 DEF Sound
  <2>2. \A d \in Client : /\ e = Presence(d, FALSE) <=> d = e.id
                          /\ e # Presence(d, TRUE)
    BY <1>9, <2>1, PresencesDiffer
  <2>3. SentBy(s, k, e.id, TRUE)
    <3>1. SentBy(s, (k + 1) - 1, e.id, TRUE)
      BY <1>2, <1>6 DEF Sound
    <3>2. (k + 1) - 1 = k
      OBVIOUS
    <3> QED
      BY <3>1, <3>2
  <2>4. ~SentBy(s, k, e.id, FALSE)
    BY <1>6, <1>10, <2>1 DEF SentBy
  <2>5. /\ RoomAt(s, k) = RoomAt(s, k + 1) \cup {e.id} /\ e.id \notin RoomAt(s, k + 1)
    BY <1>3, <1>9, <2>2, <2>3, <2>4 DEF RoomAt
  <2>6. Cardinality(RoomAt(s, k)) = Cardinality(RoomAt(s, k + 1)) + 1
    BY <1>1, <2>5, OneMore
  <2> QED
    BY <1>1, <1>2, <1>6, <2>6 DEF Delta
<1>7. e.what \in {"joined", "left", "chat"}
  BY <1>2 DEF Event
<1> QED
  BY <1>2, <1>4, <1>5, <1>6, <1>7

LEMMA AfterFinite ==
  ASSUME NEW s \in Seq(Event), NEW k \in Nat, NEW w
  PROVE  IsFiniteSet(After(s, k, w)) /\ Cardinality(After(s, k, w)) \in Nat
<1>1. Len(s) \in Nat /\ k + 1 \in Nat
  OBVIOUS
<1>2. IsFiniteSet((k + 1) .. Len(s))
  BY <1>1, FS_Interval
<1>3. After(s, k, w) \subseteq (k + 1) .. Len(s)
  BY DEF After
<1> QED
  BY <1>2, <1>3, FS_Subset, FS_CardinalityType

LEMMA NetStep ==
  ASSUME NEW s \in Seq(Event), NEW k \in Nat, k < Len(s)
  PROVE  Net(s, k) = Net(s, k + 1) + Delta(s[k + 1])
<1>1. \A w : /\ IsFiniteSet(After(s, k, w)) /\ Cardinality(After(s, k, w)) \in Nat
             /\ IsFiniteSet(After(s, k + 1, w)) /\ Cardinality(After(s, k + 1, w)) \in Nat
  BY AfterFinite
<1>2. \A w : s[k + 1].what = w =>
          Cardinality(After(s, k, w)) = Cardinality(After(s, k + 1, w)) + 1
  <2> SUFFICES ASSUME NEW w, s[k + 1].what = w
               PROVE  Cardinality(After(s, k, w)) = Cardinality(After(s, k + 1, w)) + 1
    OBVIOUS
  <2>1. After(s, k, w) = After(s, k + 1, w) \cup {k + 1} /\ k + 1 \notin After(s, k + 1, w)
    BY DEF After
  <2> QED
    BY <1>1, <2>1, OneMore
<1>3. \A w : s[k + 1].what # w => After(s, k, w) = After(s, k + 1, w)
  BY DEF After
<1>4. s[k + 1].what \in {"joined", "left", "chat"}
  <2>1. k + 1 \in DOMAIN s
    OBVIOUS
  <2>2. s[k + 1] \in Event
    BY <2>1
  <2> QED
    BY <2>2 DEF Event
<1>5. CASE s[k + 1].what = "joined"
  <2>1. After(s, k, "left") = After(s, k + 1, "left")
    BY <1>3, <1>5
  <2> QED
    BY <1>1, <1>2, <1>5, <2>1 DEF Net, Delta
<1>6. CASE s[k + 1].what = "left"
  <2>1. After(s, k, "joined") = After(s, k + 1, "joined")
    BY <1>3, <1>6
  <2> QED
    BY <1>1, <1>2, <1>6, <2>1 DEF Net, Delta
<1>7. CASE s[k + 1].what = "chat"
  BY <1>1, <1>3, <1>7 DEF Net, Delta
<1> QED
  BY <1>4, <1>5, <1>6, <1>7

LEMMA NetAppend ==
  ASSUME NEW s \in Seq(Event), NEW k \in 0 .. Len(s), NEW e \in Event
  PROVE  Net(Append(s, e), k) = Net(s, k) + Delta(e)
<1> DEFINE t == Append(s, e)
<1>1. /\ t \in Seq(Event) /\ Len(t) = Len(s) + 1 /\ Len(s) \in Nat /\ k \in Nat /\ k <= Len(s)
      /\ t[Len(s) + 1] = e /\ \A i \in 1 .. Len(s) : t[i] = s[i]
  OBVIOUS
<1> HIDE DEF t
<1>2. \A w : /\ IsFiniteSet(After(s, k, w)) /\ Cardinality(After(s, k, w)) \in Nat
             /\ IsFiniteSet(After(t, k, w)) /\ Cardinality(After(t, k, w)) \in Nat
  BY <1>1, AfterFinite
<1>3. (k + 1) .. Len(t) = ((k + 1) .. Len(s)) \cup {Len(s) + 1} /\ Len(s) + 1 \notin (k + 1) .. Len(s)
  BY <1>1
<1>4. \A i \in (k + 1) .. Len(s) : t[i] = s[i]
  BY <1>1
<1>5. \A w : e.what = w => Cardinality(After(t, k, w)) = Cardinality(After(s, k, w)) + 1
  <2> SUFFICES ASSUME NEW w, e.what = w
               PROVE  Cardinality(After(t, k, w)) = Cardinality(After(s, k, w)) + 1
    OBVIOUS
  <2>1. After(t, k, w) = After(s, k, w) \cup {Len(s) + 1} /\ Len(s) + 1 \notin After(s, k, w)
    BY <1>1, <1>3, <1>4 DEF After
  <2> QED
    BY <1>2, <2>1, OneMore
<1>6. \A w : e.what # w => After(t, k, w) = After(s, k, w)
  BY <1>1, <1>3, <1>4 DEF After
<1>7. e.what \in {"joined", "left", "chat"}
  BY DEF Event
<1>8. CASE e.what = "joined"
  BY <1>2, <1>5, <1>6, <1>8 DEF Net, Delta, t
<1>9. CASE e.what = "left"
  BY <1>2, <1>5, <1>6, <1>9 DEF Net, Delta, t
<1>10. CASE e.what = "chat"
  BY <1>2, <1>6, <1>10 DEF Net, Delta, t
<1> QED
  BY <1>7, <1>8, <1>9, <1>10

LEMMA RoomPrefix ==
  ASSUME NEW s \in Seq(Event), NEW k \in 0 .. Len(s), NEW e \in Event
  PROVE  /\ \A d, b : SentBy(Append(s, e), k, d, b) <=> SentBy(s, k, d, b)
         /\ RoomAt(Append(s, e), k) = RoomAt(s, k)
<1>1. \A i \in 1 .. k : Append(s, e)[i] = s[i]
  OBVIOUS
<1>2. \A d, b : SentBy(Append(s, e), k, d, b) <=> SentBy(s, k, d, b)
  BY <1>1 DEF SentBy
<1> QED
  BY <1>2 DEF RoomAt

\* An event that may be sent next.
Fits(s, e) ==
  \/ e.what = "chat"
  \/ \E d \in Client : /\ e = Presence(d, TRUE) /\ ~SentBy(s, Len(s), d, TRUE)
  \/ \E d \in Client : /\ e = Presence(d, FALSE) /\ ~SentBy(s, Len(s), d, FALSE)
                       /\ SentBy(s, Len(s), d, TRUE)

LEMMA SoundAppend ==
  ASSUME NEW s, Sound(s), NEW e \in Event, Fits(s, e)
  PROVE  /\ Sound(Append(s, e)) /\ Len(Append(s, e)) = Len(s) + 1 /\ Len(s) \in Nat
         /\ \A d, b : SentBy(Append(s, e), Len(s) + 1, d, b) <=>
                          SentBy(s, Len(s), d, b) \/ e = Presence(d, b)
<1> DEFINE t == Append(s, e)
           n == Len(s) + 1
<1>1. /\ s \in Seq(Event) /\ t \in Seq(Event) /\ Len(t) = n /\ Len(s) \in Nat /\ t[n] = e
      /\ \A i \in 1 .. Len(s) : t[i] = s[i]
      /\ DOMAIN t = (1 .. Len(s)) \cup {n} /\ DOMAIN s = 1 .. Len(s)
  BY DEF Sound
<1> HIDE DEF t
<1>2. \A d, b : SentBy(t, n, d, b) <=> SentBy(s, Len(s), d, b) \/ e = Presence(d, b)
  BY <1>1 DEF SentBy
<1>3. \A i \in DOMAIN t : t[i].what # "chat" => t[i] = Presence(t[i].id, t[i].what = "joined")
  <2>1. e.what # "chat" => e = Presence(e.id, e.what = "joined")
    BY PresenceFields DEF Fits
  <2> QED
    BY <1>1, <2>1 DEF Sound
<1>4. \A i \in 1 .. Len(s) : e.what # "chat" => s[i] # e
  BY DEF Fits, SentBy
<1>5. \A i, j \in DOMAIN t : t[i] = t[j] /\ t[i].what # "chat" => i = j
  BY <1>1, <1>4 DEF Sound
<1>6. \A j \in DOMAIN t : t[j].what = "left" => SentBy(t, j - 1, t[j].id, TRUE)
  <2> SUFFICES ASSUME NEW j \in DOMAIN t, t[j].what = "left"
               PROVE  SentBy(t, j - 1, t[j].id, TRUE)
    OBVIOUS
  <2>1. CASE j \in 1 .. Len(s)
    <3>1. SentBy(s, j - 1, s[j].id, TRUE) /\ t[j] = s[j]
      BY <1>1, <2>1 DEF Sound
    <3>2. \A i \in 1 .. j - 1 : t[i] = s[i]
      BY <1>1, <2>1
    <3> QED
      BY <3>1, <3>2 DEF SentBy
  <2>2. CASE j = n
    <3>1. t[j] = e /\ e.what = "left"
      BY <1>1, <2>2
    <3>2. SentBy(s, Len(s), e.id, TRUE)
      BY <3>1, PresenceFields DEF Fits
    <3>3. j - 1 = Len(s) /\ \A i \in 1 .. Len(s) : t[i] = s[i]
      BY <1>1, <2>2
    <3> QED
      BY <3>1, <3>2, <3>3 DEF SentBy
  <2> QED
    BY <1>1, <2>1, <2>2
<1> QED
  BY <1>1, <1>2, <1>3, <1>5, <1>6 DEF Sound, t
-----------------------------------------------------------------------------
(* Where a handler is, whether it is in the table and what has been sent of it. *)
Places ==
  \A c \in Client :
    /\ c \in clients <=> pc[c] \in {"announce", "read"}
    /\ SentBy(log, Len(log), c, TRUE) <=> pc[c] \in {"read", "bye", "done"}
    /\ SentBy(log, Len(log), c, FALSE) <=> pc[c] = "done"
    /\ welcomed[c] => pc[c] \in {"read", "bye", "done"}

\* What a client has seen and what is ahead of it make up all that was sent.
Balance ==
  \A c \in Client :
    Cardinality(RoomAt(log, rx[c])) + Net(log, rx[c]) = Cardinality(RoomAt(log, Len(log)))

\* The count of a client whose join overlapped with nobody's, from its join on:
\* the members announced by the events it has seen, and itself once more.
CountOf(c) == IF welcomed[c] THEN client_count[c] ELSE peer_count[c]
Counted ==
  \A c \in Client :
    alone[c] /\ pc[c] \in {"announce", "read"} =>
      CountOf(c) = Cardinality(RoomAt(log, rx[c])) + 1

RoomInv == TypeOK /\ Sound(log) /\ Places
CountInv == RoomInv /\ Balance /\ Counted

\* The members announced are those of the title.
LEMMA AnnouncedRoom == RoomInv => Announced = Cardinality(RoomAt(log, Len(log)))
<1> SUFFICES ASSUME RoomInv PROVE Announced = Cardinality(RoomAt(log, Len(log)))
  OBVIOUS
<1>1. \A l : IsFiniteSet(At(l)) /\ Cardinality(At(l)) \in Nat
  BY ClientFinite DEF At
<1>2. clients = At("announce") \cup At("read") /\ At("announce") \cap At("read") = {}
  BY DEF RoomInv, TypeOK, Places, At
<1>3. RoomAt(log, Len(log)) = At("bye") \cup At("read") /\ At("bye") \cap At("read") = {}
  BY DEF RoomInv, TypeOK, Places, At, RoomAt
<1>4. Cardinality(clients) = Cardinality(At("announce")) + Cardinality(At("read"))
  BY <1>1, <1>2, DisjointUnion
<1>5. Cardinality(RoomAt(log, Len(log))) = Cardinality(At("bye")) + Cardinality(At("read"))
  BY <1>1, <1>3, DisjointUnion
<1> QED
  BY <1>1, <1>4, <1>5 DEF Announced

\* Steps that send nothing.
LEMMA SilentStep ==
  ASSUME RoomInv, TypeOK', log' = log,
         \A c \in Client :
           /\ c \in clients' <=> pc'[c] \in {"announce", "read"}
           /\ pc'[c] \in {"read", "bye", "done"} <=> pc[c] \in {"read", "bye", "done"}
           /\ pc'[c] = "done" <=> pc[c] = "done"
           /\ welcomed'[c] => pc'[c] \in {"read", "bye", "done"}
  PROVE  RoomInv'
BY DEF RoomInv, Places

\* Steps that send an event.
LEMMA SendStep ==
  ASSUME CountInv, TypeOK', NEW e \in Event, Send(e), Fits(log, e),
         UNCHANGED <<rx, client_count, peer_count, welcomed, alone>>,
         \A c \in Client :
           /\ c \in clients' <=> pc'[c] \in {"announce", "read"}
           /\ pc'[c] \in {"announce", "read"} => pc[c] \in {"announce", "read"}
           /\ pc'[c] \in {"read", "bye", "done"} <=>
                pc[c] \in {"read", "bye", "done"} \/ e = Presence(c, TRUE)
           /\ pc'[c] = "done" <=> pc[c] = "done" \/ e = Presence(c, FALSE)
  PROVE  CountInv'
<1>1. Sound(log) /\ log \in Seq(Event) /\ rx \in [Client -> 0 .. Len(log)]
  BY DEF CountInv, RoomInv, TypeOK
<1>2. log' = Append(log, e)
  BY DEF Send
<1>3. /\ Sound(log') /\ Len(log') = Len(log) + 1 /\ Len(log) \in Nat
      /\ \A d, b : SentBy(log', Len(log'), d, b) <=>
                       SentBy(log, Len(log), d, b) \/ e = Presence(d, b)
  BY <1>1, <1>2, SoundAppend
<1>4. \A k \in 0 .. Len(log) : /\ RoomAt(log', k) = RoomAt(log, k)
                               /\ Net(log', k) = Net(log, k) + Delta(e)
  BY <1>1, <1>2, RoomPrefix, NetAppend
<1>5. Places'
  BY <1>3 DEF CountInv, RoomInv, Places
<1>6. Balance'
  <2>1. log'[Len(log) + 1] = e /\ Len(log) < Len(log')
    BY <1>1, <1>2, <1>3
  <2>2. Cardinality(RoomAt(log', Len(log'))) = Cardinality(RoomAt(log, Len(log))) + Delta(e)
    BY <1>3, <1>4, <2>1, RoomStep
  <2> SUFFICES ASSUME NEW c \in Client
               PROVE  Cardinality(RoomAt(log', rx[c])) + Net(log', rx[c]) =
                          Cardinality(RoomAt(log', Len(log')))
    BY DEF Balance
  <2>3. rx[c] \in 0 .. Len(log) /\ rx[c] \in Nat
    BY <1>1, <1>3
  <2>4. Cardinality(RoomAt(log, rx[c])) \in Nat /\ Net(log, rx[c]) \in Int /\ Delta(e) \in Int
    <3>1. Cardinality(RoomAt(log, rx[c])) \in Nat
      BY ClientFinite DEF RoomAt
    <3>2. Net(log, rx[c]) \in Int
      BY <1>1, <2>3, AfterFinite DEF Net
    <3> QED
      BY <3>1, <3>2 DEF Delta
  <2> QED
    BY <1>4, <2>2, <2>3, <2>4 DEF CountInv, Balance
<1>7. Counted'
  BY <1>1, <1>4 DEF CountInv, Counted, CountOf
<1> QED
  BY <1>3, <1>5, <1>6, <1>7 DEF CountInv, RoomInv

LEMMA CountParts ==
  CountInv =>
    /\ TypeOK /\ Sound(log) /\ Places /\ Balance /\ Counted
    /\ Len(log) \in Nat /\ log \in Seq(Event)
<1> SUFFICES ASSUME CountInv
             PROVE  /\ TypeOK /\ Sound(log) /\ Places /\ Balance /\ Counted
                    /\ Len(log) \in Nat /\ log \in Seq(Event)
  OBVIOUS
<1>1. TypeOK /\ Sound(log) /\ Places /\ Balance /\ Counted
  BY DEF CountInv, RoomInv
<1>2. log \in Seq(Event)
  BY <1>1 DEF TypeOK
<1> QED
  BY <1>1, <1>2

LEMMA QuietKeepsCount ==
  ASSUME CountInv, TypeOK',
         UNCHANGED <<clients, log, pc, rx, client_count, peer_count, welcomed, alone>>
  PROVE  CountInv'
BY DEF CountInv, RoomInv, Places, Balance, Counted, CountOf

LEMMA JoinKeepsCount ==
  ASSUME CountInv, TypeOK', NEW c \in Client, Subscribe(c) \/ JoinInsert(c) \/ LeaveRemove(c)
  PROVE  CountInv'
<1>0. /\ TypeOK /\ Sound(log) /\ Places /\ Balance /\ Counted
      /\ Len(log) \in Nat /\ log \in Seq(Event)
  BY CountParts
<1> USE DEF roomVars, handlerVars, viewVars, userVars, Goto
<1>1. CASE Subscribe(c)
  <2>1. RoomInv'
    BY <1>0, <1>1, SilentStep DEF Subscribe, TypeOK, Places, CountInv
  <2>2. Net(log, Len(log)) = 0
    <3>1. \A w : After(log, Len(log), w) = {}
      BY <1>0 DEF After
    <3>2. /\ Cardinality(After(log, Len(log), "joined")) = 0
          /\ Cardinality(After(log, Len(log), "left")) = 0
      BY <3>1, NothingCounted
    <3> QED
      BY <3>2 DEF Net
  <2>3. Cardinality(RoomAt(log, Len(log))) \in Nat
    BY ClientFinite DEF RoomAt
  <2>4. /\ \A d \in Client : rx'[d] = IF d = c THEN Len(log) ELSE rx[d]
        /\ \A d \in Client : pc'[d] = IF d = c THEN "join" ELSE pc[d]
        /\ UNCHANGED <<log, client_count, peer_count, welcomed, alone>>
    BY <1>0, <1>1 DEF Subscribe, TypeOK
  <2>5. Balance'
    BY <1>0, <2>2, <2>3, <2>4 DEF Balance
  <2>6. Counted'
    BY <1>0, <2>4 DEF Counted, CountOf
  <2> QED
    BY <2>1, <2>5, <2>6 DEF CountInv
<1>2. CASE JoinInsert(c)
  <2>1. RoomInv'
    BY <1>0, <1>2, SilentStep DEF JoinInsert, TypeOK, Places, CountInv
  <2>2. /\ \A d \in Client : d # c => alone'[d] = alone[d] /\ peer_count'[d] = peer_count[d]
        /\ \A d \in Client : pc'[d] = IF d = c THEN "announce" ELSE pc[d]
        /\ pc[c] = "join" /\ clients' = clients \cup {c}
        /\ peer_count'[c] = Cardinality(clients')
        /\ alone'[c] => At("announce") \cup At("bye") = {} /\ rx[c] = Len(log)
        /\ UNCHANGED <<log, rx, client_count, welcomed>>
    BY <1>0, <1>2 DEF JoinInsert, TypeOK
  <2>3. Balance'
    BY <1>0, <2>2 DEF Balance
  <2>4. ASSUME alone'[c] PROVE Cardinality(clients') = Cardinality(RoomAt(log, rx[c])) + 1
    <3>1. RoomAt(log, Len(log)) = clients
      BY <1>0, <2>2, <2>4 DEF Places, RoomAt, At, TypeOK
    <3>2. c \notin clients /\ IsFiniteSet(clients)
      BY <1>0, <2>2, ClientFinite DEF Places, TypeOK
    <3> QED
      BY <2>2, <2>4, <3>1, <3>2, OneMore
  <2>5. ~welcomed[c]
    BY <1>0, <2>2 DEF Places
  <2>6. Counted'
    BY <1>0, <2>2, <2>4, <2>5 DEF Counted, CountOf
  <2> QED
    BY <2>1, <2>3, <2>6 DEF CountInv
<1>3. CASE LeaveRemove(c)
  <2>1. RoomInv'
    BY <1>0, <1>3, SilentStep DEF LeaveRemove, TypeOK, Places, CountInv
  <2>2. /\ \A d \in Client : pc'[d] = IF d = c THEN "bye" ELSE pc[d]
        /\ UNCHANGED <<log, rx, client_count, peer_count, welcomed, alone>>
    BY <1>0, <1>3 DEF LeaveRemove, TypeOK
  <2> QED
    BY <1>0, <2>1, <2>2 DEF CountInv, Balance, Counted, CountOf
<1> QED
  BY <1>1, <1>2, <1>3

LEMMA SendKeepsCount ==
  ASSUME CountInv, TypeOK', NEW c \in Client, JoinAnnounce(c) \/ LeaveAnnounce(c) \/ Chat(c)
  PROVE  CountInv'
<1> USE DEF roomVars, handlerVars, viewVars, userVars, Goto
<1>0. TypeOK /\ Places /\ Sound(log)
  BY DEF CountInv, RoomInv
<1>1. CASE JoinAnnounce(c)
  <2>1. Send(Presence(c, TRUE)) /\ Presence(c, TRUE) \in Event /\ pc[c] = "announce"
    BY <1>1, EventTypes DEF JoinAnnounce
  <2>2. Fits(log, Presence(c, TRUE))
    BY <1>0, <2>1 DEF Fits, Places
  <2>3. \A d \in Client : /\ Presence(c, TRUE) = Presence(d, TRUE) <=> d = c
                          /\ Presence(c, TRUE) # Presence(d, FALSE)
    BY PresencesDiffer
  <2>4. \A d \in Client : pc'[d] = IF d = c THEN "read" ELSE pc[d]
    BY <1>0, <1>1 DEF JoinAnnounce, TypeOK
  <2>5. UNCHANGED <<clients, rx, client_count, peer_count, welcomed, alone>>
    BY <1>1 DEF JoinAnnounce
  <2> HIDE DEF Goto
  <2> QED
    BY <1>0, <2>1, <2>2, <2>3, <2>4, <2>5, SendStep DEF Places
<1>2. CASE LeaveAnnounce(c)
  <2>1. Send(Presence(c, FALSE)) /\ Presence(c, FALSE) \in Event /\ pc[c] = "bye"
    BY <1>2, EventTypes DEF LeaveAnnounce
  <2>2. Fits(log, Presence(c, FALSE))
    BY <1>0, <2>1 DEF Fits, Places
  <2>3. \A d \in Client : /\ Presence(c, FALSE) = Presence(d, FALSE) <=> d = c
                          /\ Presence(c, FALSE) # Presence(d, TRUE)
    BY PresencesDiffer
  <2>4. \A d \in Client : pc'[d] = IF d = c THEN "done" ELSE pc[d]
    BY <1>0, <1>2 DEF LeaveAnnounce, TypeOK
  <2>5. UNCHANGED <<clients, rx, client_count, peer_count, welcomed, alone>>
    BY <1>2 DEF LeaveAnnounce
  <2> QED
    BY <1>0, <2>1, <2>2, <2>3, <2>4, <2>5, SendStep DEF Places
<1>3. CASE Chat(c)
  <2>1. PICK e \in Event : Send(e) /\ e.what = "chat"
    <3>1. Head(inbox[c]).as \in Name \cup {None}
      BY <1>0, <1>3, ReadTypes DEF Chat, ClientMsg
    <3>2. ChatLine(c, nick[c], Head(inbox[c]).as) \in Event
      BY <1>0, <3>1, EventTypes DEF TypeOK
    <3> QED
      BY <1>3, <3>2 DEF Chat, ChatLine
  <2>2. Fits(log, e)
    BY <2>1 DEF Fits
  <2>3. \A d \in Client : e # Presence(d, TRUE) /\ e # Presence(d, FALSE)
    BY <2>1, PresenceFields
  <2>4. UNCHANGED <<clients, pc, rx, client_count, peer_count, welcomed, alone>>
    BY <1>3 DEF Chat, Read
  <2> QED
    BY <1>0, <2>1, <2>2, <2>3, <2>4, SendStep DEF Places
<1> QED
  BY <1>1, <1>2, <1>3

LEMMA ViewKeepsCount ==
  ASSUME CountInv, TypeOK', NEW c \in Client, ViewWelcome(c) \/ ViewEvent(c)
  PROVE  CountInv'
<1> USE DEF roomVars, handlerVars, viewVars, userVars
<1>0. /\ TypeOK /\ Sound(log) /\ Places /\ Balance /\ Counted
      /\ Len(log) \in Nat /\ log \in Seq(Event)
  BY CountParts
<1>1. CASE ViewWelcome(c)
  <2>1. RoomInv'
    BY <1>0, <1>1, SilentStep DEF ViewWelcome, TypeOK, Places, CountInv
  <2>2. /\ \A d \in Client : d # c => client_count'[d] = client_count[d] /\ welcomed'[d] = welcomed[d]
        /\ client_count'[c] = peer_count[c] /\ welcomed'[c] /\ ~welcomed[c]
        /\ UNCHANGED <<log, pc, rx, peer_count, alone>>
    BY <1>0, <1>1 DEF ViewWelcome, TypeOK
  <2>3. Counted'
    BY <1>0, <2>2 DEF Counted, CountOf
  <2> QED
    BY <1>0, <2>1, <2>2, <2>3 DEF CountInv, Balance
<1>2. CASE ViewEvent(c)
  <2> DEFINE e == log[rx[c] + 1]
             k == rx[c]
  <2>1. RoomInv'
    BY <1>0, <1>2, SilentStep DEF ViewEvent, TypeOK, Places, CountInv
  <2>2. /\ \A d \in Client : d # c => client_count'[d] = client_count[d] /\ rx'[d] = rx[d]
        /\ client_count'[c] = Follow(client_count[c], e) /\ rx'[c] = k + 1
        /\ UNCHANGED <<log, pc, welcomed, peer_count, alone>>
        /\ k \in Nat /\ k < Len(log) /\ client_count[c] \in Nat /\ welcomed[c]
    BY <1>0, <1>2 DEF ViewEvent, TypeOK
  <2>3. /\ Cardinality(RoomAt(log, k)) \in Nat
        /\ Cardinality(RoomAt(log, k + 1)) = Cardinality(RoomAt(log, k)) + Delta(e)
        /\ e.what = "left" => Cardinality(RoomAt(log, k)) > 0
    BY <1>0, <2>2, RoomStep
  <2>4. Net(log, k) = Net(log, k + 1) + Delta(e) /\ Net(log, k + 1) \in Int /\ Delta(e) \in Int
    BY <1>0, <2>2, NetStep, AfterFinite DEF Net, Delta
  <2>5. Balance'
    <3>1. Cardinality(RoomAt(log, k + 1)) + Net(log, k + 1) = Cardinality(RoomAt(log, Len(log)))
      BY <1>0, <2>3, <2>4 DEF Balance
    <3> QED
      BY <1>0, <2>2, <3>1 DEF Balance
  <2>6. client_count[c] = Cardinality(RoomAt(log, k)) + 1 =>
            Follow(client_count[c], e) = Cardinality(RoomAt(log, k + 1)) + 1
    BY <2>2, <2>3 DEF Follow, Delta
  <2>7. Counted'
    BY <1>0, <2>2, <2>6 DEF Counted, CountOf
  <2> QED
    BY <2>1, <2>5, <2>7 DEF CountInv
<1> QED
  BY <1>1, <1>2

LEMMA CountInit == Init => CountInv
<1> SUFFICES ASSUME Init PROVE CountInv
  OBVIOUS
<1>1. TypeOK /\ log = <<>> /\ Len(log) = 0 /\ \A c \in Client : rx[c] = 0
  BY TypeInit DEF Init
<1>2. \A d, b : ~SentBy(log, 0, d, b)
  BY DEF SentBy
<1>3. Sound(log)
  BY <1>1 DEF Sound, TypeOK
<1>7. Places
  BY <1>1, <1>2 DEF Places, Init
<1>4. \A w : After(log, 0, w) = {}
  <2>1. (0 + 1) .. 0 = {}
    OBVIOUS
  <2> QED
    BY <1>1, <2>1 DEF After
<1>8. RoomAt(log, 0) = {}
  BY <1>2 DEF RoomAt
<1>9. Net(log, 0) = 0
  BY <1>4, NothingCounted DEF Net
<1>5. Balance
  BY <1>1, <1>8, <1>9, NothingCounted DEF Balance
<1>6. Counted
  BY DEF Counted, Init
<1> QED
  BY <1>1, <1>3, <1>5, <1>6, <1>7 DEF CountInv, RoomInv

LEMMA CountStep == CountInv /\ [Next]_vars => CountInv'
<1> SUFFICES ASSUME CountInv, [Next]_vars PROVE CountInv'
  OBVIOUS
<1>1. TypeOK'
  BY TypeStep DEF CountInv, RoomInv
<1>2. CASE UNCHANGED vars
  BY <1>1, <1>2, QuietKeepsCount DEF vars, roomVars, viewVars
<1>3. ASSUME NEW c \in Client, SetNick(c) \/ Vote(c) \/ Unvote(c) PROVE CountInv'
  BY <1>1, <1>3, QuietKeepsCount DEF SetNick, Vote, Unvote, Read, viewVars
<1>4. ASSUME NEW c \in Client, NEW typed \in Typed, Enter(c, typed) PROVE CountInv'
  BY <1>1, <1>4, QuietKeepsCount DEF Enter, viewVars, roomVars
<1> QED
  BY <1>1, <1>2, <1>3, <1>4, JoinKeepsCount, SendKeepsCount, ViewKeepsCount DEF Next, Step

LEMMA CountAlways == Spec => []CountInv
BY CountInit, CountStep, PTL DEF Spec

\* What is ahead of a client, as the property says it.
LEMMA NetIsAhead == \A c \in Client : NetAhead(c) = Net(log, rx[c])
BY DEF NetAhead, Ahead, Net, After

(* A client whose join overlapped with nobody else's coming or going counts right
   for as long as it stays, whatever any number of others do (room.rs:53-71,
   tui.rs:84-104 and 266). *)
THEOREM CountRightIfAloneCorrect == Spec => []CountRightIfAlone
<1>1. CountInv => CountRightIfAlone
  <2> SUFFICES ASSUME CountInv, NEW c \in Client, Following(c), alone[c]
               PROVE  Shown(c) + NetAhead(c) = Announced /\ Shown(c) >= 0
    BY DEF CountRightIfAlone
  <2>1. client_count[c] = Cardinality(RoomAt(log, rx[c])) + 1
    BY DEF CountInv, Counted, CountOf, Following
  <2>2. Cardinality(RoomAt(log, rx[c])) \in Nat
    BY ClientFinite DEF RoomAt
  <2>3. Shown(c) = Cardinality(RoomAt(log, rx[c]))
    BY <2>1, <2>2 DEF Shown
  <2> QED
    BY <2>2, <2>3, NetIsAhead, AnnouncedRoom DEF CountInv, Balance
<1> QED
  BY <1>1, CountAlways, PTL

\* What a step does to the channel.
LEMMA LogGrows ==
  ASSUME TypeOK, [Next]_vars
  PROVE  \/ log' = log
         \/ \E e \in Event : log' = Append(log, e)
<1> USE DEF roomVars, handlerVars, viewVars, userVars, Send
<1>1. ASSUME NEW c \in Client, JoinAnnounce(c) \/ LeaveAnnounce(c)
      PROVE  \E e \in Event : log' = Append(log, e)
  BY <1>1, EventTypes DEF JoinAnnounce, LeaveAnnounce
<1>2. ASSUME NEW c \in Client, Chat(c) PROVE \E e \in Event : log' = Append(log, e)
  <2>1. Head(inbox[c]).as \in Name \cup {None}
    BY <1>2, ReadTypes DEF Chat, ClientMsg
  <2> QED
    BY <1>2, <2>1, EventTypes DEF Chat, TypeOK
<1>3. ASSUME NEW c \in Client,
             \/ Subscribe(c) \/ JoinInsert(c) \/ LeaveRemove(c) \/ ViewWelcome(c) \/ ViewEvent(c)
             \/ SetNick(c) \/ Vote(c) \/ Unvote(c) \/ \E typed \in Typed : Enter(c, typed)
      PROVE  log' = log
  BY <1>3 DEF Subscribe, JoinInsert, LeaveRemove, ViewWelcome, ViewEvent, SetNick, Vote, Unvote,
              Read, Enter
<1>4. CASE UNCHANGED vars
  BY <1>4 DEF vars
<1> QED
  BY <1>1, <1>2, <1>3, <1>4 DEF Next, Step

\* A member that follows the events: what it has seen and counted changes with the
\* events it handles only.
LEMMA FollowerStep ==
  ASSUME TypeOK, [Next]_vars, NEW c \in Client, Following(c)
  PROVE  \/ UNCHANGED <<client_count[c], rx[c]>>
         \/ /\ rx'[c] = rx[c] + 1 /\ rx[c] < Len(log)
            /\ client_count'[c] = Follow(client_count[c], log[rx[c] + 1])
            /\ log' = log
<1> USE DEF roomVars, handlerVars, viewVars, userVars
<1>1. ASSUME NEW d \in Client, ViewEvent(d)
      PROVE  \/ UNCHANGED <<client_count[c], rx[c]>>
             \/ /\ rx'[c] = rx[c] + 1 /\ rx[c] < Len(log)
                /\ client_count'[c] = Follow(client_count[c], log[rx[c] + 1])
                /\ log' = log
  BY <1>1 DEF ViewEvent, TypeOK
<1>2. ASSUME NEW d \in Client, Subscribe(d) \/ ViewWelcome(d)
      PROVE  UNCHANGED <<client_count[c], rx[c]>>
  BY <1>2 DEF Subscribe, ViewWelcome, TypeOK, Following
<1>3. ASSUME NEW d \in Client,
             \/ JoinInsert(d) \/ JoinAnnounce(d) \/ LeaveRemove(d) \/ LeaveAnnounce(d)
             \/ SetNick(d) \/ Chat(d) \/ Vote(d) \/ Unvote(d)
             \/ \E typed \in Typed : Enter(d, typed)
      PROVE  UNCHANGED <<client_count[c], rx[c]>>
  BY <1>3 DEF JoinInsert, JoinAnnounce, LeaveRemove, LeaveAnnounce, SetNick, Chat, Vote, Unvote,
              Read, Enter
<1>4. CASE UNCHANGED vars
  BY <1>4 DEF vars
<1> QED
  BY <1>1, <1>2, <1>3, <1>4 DEF Next, Step

\* How far a count is off, in terms of what its client has seen.
ErrorFromJoin ==
  \A c \in Client : Error(c) = client_count[c] - 1 - Cardinality(RoomAt(log, rx[c]))

LEMMA ErrorIs == CountInv => ErrorFromJoin
<1> SUFFICES ASSUME CountInv, NEW c \in Client
             PROVE  Error(c) = client_count[c] - 1 - Cardinality(RoomAt(log, rx[c]))
  BY DEF ErrorFromJoin
<1>1. Cardinality(RoomAt(log, rx[c])) \in Nat /\ Cardinality(RoomAt(log, Len(log))) \in Nat
  BY ClientFinite DEF RoomAt
<1>2. Cardinality(RoomAt(log, rx[c])) + Net(log, rx[c]) = Announced
  BY AnnouncedRoom DEF CountInv, Balance
<1>3. client_count[c] \in Nat /\ rx[c] \in Nat /\ log \in Seq(Event)
  BY DEF CountInv, RoomInv, TypeOK
<1>4. Net(log, rx[c]) \in Int
  BY <1>3, AfterFinite DEF Net
<1> QED
  BY <1>1, <1>2, <1>3, <1>4, NetIsAhead DEF Error, Shown

(* How far the count of a client is off is settled by its join; only an event that
   finds the count at 0 changes it (room.rs:53-71, tui.rs:96-104). *)
THEOREM ErrorSettledCorrect == Spec => ErrorSettledAtJoin
<1>1. CountInv /\ CountInv' /\ [Next]_vars => ErrorKept
  <2> SUFFICES ASSUME CountInv, CountInv', [Next]_vars, NEW c \in Client, Following(c),
                      ~(client_count[c] = 0 /\ rx'[c] # rx[c])
               PROVE  Error(c)' = Error(c)
    BY DEF ErrorKept
  <2> DEFINE k == rx[c]
  <2>1. /\ Error(c) = client_count[c] - 1 - Cardinality(RoomAt(log, k))
        /\ Cardinality(RoomAt(log, k)) \in Nat
    BY ErrorIs, ClientFinite DEF ErrorFromJoin, RoomAt
  <2>6. ErrorFromJoin'
    BY ErrorIs, PTL
  <2>7. Error(c)' = client_count'[c] - 1 - Cardinality(RoomAt(log', rx'[c]))
    BY <2>6 DEF ErrorFromJoin
  <2>2. /\ TypeOK /\ Sound(log) /\ log \in Seq(Event) /\ k \in 0 .. Len(log) /\ k \in Nat
        /\ client_count[c] \in Nat
    BY DEF CountInv, RoomInv, TypeOK
  <2>3. RoomAt(log', k) = RoomAt(log, k)
    BY <2>2, LogGrows, RoomPrefix
  <2>4. CASE UNCHANGED <<client_count[c], rx[c]>>
    BY <2>1, <2>3, <2>4, <2>7
  <2>5. CASE /\ rx'[c] = k + 1 /\ k < Len(log) /\ log' = log
             /\ client_count'[c] = Follow(client_count[c], log[k + 1])
    <3>1. Cardinality(RoomAt(log, k + 1)) = Cardinality(RoomAt(log, k)) + Delta(log[k + 1])
      BY <2>2, <2>5, RoomStep
    <3>2. client_count[c] # 0
      BY <2>2, <2>5
    <3>3. client_count'[c] = client_count[c] + Delta(log[k + 1]) /\ Delta(log[k + 1]) \in Int
      BY <2>2, <2>5, <3>2 DEF Follow, Delta
    <3> QED
      BY <2>1, <2>2, <2>5, <2>7, <3>1, <3>3
  <2> QED
    BY <2>2, <2>4, <2>5, FollowerStep
<1>2. CountInv /\ CountInv' /\ [Next]_vars => [ErrorKept]_vars
  BY <1>1
<1> QED
  BY <1>2, CountAlways, PTL DEF Spec, ErrorSettledAtJoin
-----------------------------------------------------------------------------
(* The lines that a client sends and shows: the vote that it marks as its own,
   the names on chat lines, and the list of messages on its screen. *)

(* The lines of some types among the first i of a queue, and the value that the
   last of them leaves, which was n before. *)
Of(q, i, T) == {j \in 1 .. i : q[j].type \in T}
Leaves(q, i, T, n, x) ==
  \/ Of(q, i, T) = {} /\ x = n
  \/ \E j \in Of(q, i, T) : (\A l \in Of(q, i, T) : l <= j) /\ x = q[j].arg

LEMMA LeavesPrefix ==
  ASSUME NEW q \in Seq(ClientMsg), NEW m \in ClientMsg, NEW i \in 0 .. Len(q),
         NEW T, NEW n, NEW x, Leaves(q, i, T, n, x)
  PROVE  Leaves(Append(q, m), i, T, n, x)
<1>1. \A j \in 1 .. i : Append(q, m)[j] = q[j]
  OBVIOUS
<1>2. Of(Append(q, m), i, T) = Of(q, i, T)
  BY <1>1 DEF Of
<1>3. \A j \in Of(q, i, T) : Append(q, m)[j] = q[j]
  BY <1>1 DEF Of
<1> QED
  BY <1>2, <1>3 DEF Leaves

LEMMA LeavesAppend ==
  ASSUME NEW q \in Seq(ClientMsg), NEW m \in ClientMsg, NEW T, NEW n, NEW x,
         Leaves(q, Len(q), T, n, x)
  PROVE  Leaves(Append(q, m), Len(q) + 1, T, n, IF m.type \in T THEN m.arg ELSE x)
<1> DEFINE t == Append(q, m)
           k == Len(q) + 1
<1>1. /\ Len(q) \in Nat /\ t[k] = m /\ 1 .. k = (1 .. Len(q)) \cup {k}
      /\ \A j \in 1 .. Len(q) : t[j] = q[j] /\ j <= k
  OBVIOUS
<1> HIDE DEF t
<1>2. CASE m.type \in T
  <2>1. k \in Of(t, k, T) /\ \A l \in Of(t, k, T) : l <= k
    BY <1>1, <1>2 DEF Of
  <2> QED
    BY <1>1, <1>2, <2>1 DEF Leaves, t
<1>3. CASE m.type \notin T
  <2>1. Of(t, k, T) = Of(q, Len(q), T) /\ \A j \in Of(q, Len(q), T) : t[j] = q[j]
    BY <1>1, <1>3 DEF Of
  <2> QED
    BY <1>3, <2>1 DEF Leaves, t
<1> QED
  BY <1>2, <1>3

LEMMA LeavesTail ==
  ASSUME NEW q \in Seq(ClientMsg), q # <<>>, NEW i \in 1 .. Len(q), NEW T, NEW n, NEW x,
         Leaves(q, i, T, n, x)
  PROVE  Leaves(Tail(q), i - 1, T, IF Head(q).type \in T THEN Head(q).arg ELSE n, x)
<1> DEFINE t == Tail(q)
<1>1. \A j \in 1 .. i - 1 : t[j] = q[j + 1]
  OBVIOUS
<1>2. \A j \in 2 .. i : j - 1 \in 1 .. i - 1 /\ q[j] = t[j - 1]
  OBVIOUS
<1>3. 1 .. i = {1} \cup 2 .. i /\ i \in Nat /\ Head(q) = q[1] /\ 1 \notin 2 .. i
  OBVIOUS
<1> HIDE DEF t
<1>4. \A j \in 2 .. i : j \in Of(q, i, T) <=> j - 1 \in Of(t, i - 1, T)
  BY <1>2, <1>3 DEF Of
<1>5. 1 \in Of(q, i, T) <=> q[1].type \in T
  BY <1>3 DEF Of
<1>6. \A l \in Of(t, i - 1, T) : l + 1 \in 2 .. i /\ l + 1 \in Of(q, i, T) /\ l \in Nat
  <2> SUFFICES ASSUME NEW l \in Of(t, i - 1, T)
               PROVE  l + 1 \in 2 .. i /\ l + 1 \in Of(q, i, T) /\ l \in Nat
    OBVIOUS
  <2>1. l \in 1 .. i - 1 /\ l + 1 \in 2 .. i /\ (l + 1) - 1 = l
    BY DEF Of
  <2> QED
    BY <1>4, <2>1
<1>7. CASE Of(q, i, T) = {} /\ x = n
  <2>1. Of(t, i - 1, T) = {} /\ Head(q).type \notin T
    BY <1>3, <1>5, <1>6, <1>7
  <2> QED
    BY <1>7, <2>1 DEF Leaves, t
<1>8. ASSUME NEW j \in Of(q, i, T), \A l \in Of(q, i, T) : l <= j, x = q[j].arg, j = 1
      PROVE  Leaves(t, i - 1, T, IF q[1].type \in T THEN q[1].arg ELSE n, x)
  <2>1. Of(t, i - 1, T) = {}
    <3> SUFFICES ASSUME NEW l \in Of(t, i - 1, T) PROVE FALSE
      OBVIOUS
    <3>1. l + 1 <= 1 /\ l + 1 \in 2 .. i
      BY <1>6, <1>8
    <3> QED
      BY <3>1, <1>3
  <2> QED
    BY <1>5, <1>8, <2>1 DEF Leaves
<1>9. ASSUME NEW j \in Of(q, i, T), \A l \in Of(q, i, T) : l <= j, x = q[j].arg, j # 1
      PROVE  Leaves(t, i - 1, T, IF q[1].type \in T THEN q[1].arg ELSE n, x)
  <2>1. j \in 2 .. i
    BY <1>3, <1>9 DEF Of
  <2>2. j - 1 \in Of(t, i - 1, T) /\ x = t[j - 1].arg
    BY <1>2, <1>4, <1>9, <2>1
  <2>3. \A l \in Of(t, i - 1, T) : l <= j - 1
    <3> SUFFICES ASSUME NEW l \in Of(t, i - 1, T) PROVE l <= j - 1
      OBVIOUS
    <3>1. l + 1 <= j /\ l \in Nat
      BY <1>6, <1>9
    <3> QED
      BY <2>1, <3>1
  <2> QED
    BY <2>2, <2>3 DEF Leaves
<1> QED
  BY <1>3, <1>7, <1>8, <1>9 DEF Leaves, t
-----------------------------------------------------------------------------
Open == {"none", "join", "announce", "read"}
VoteTypes == {"vote", "unvote"}
NickTypes == {"set_nick"}

\* What a line becomes does not depend on the name of its writer, which it carries.
LEMMA ParseKeepsName ==
  ASSUME NEW typed \in Typed, NEW a \in Name \cup {None}, NEW b \in Name \cup {None}
  PROVE  /\ ParseInput(typed, a) = None <=> ParseInput(typed, b) = None
         /\ ParseInput(typed, a) # None =>
              /\ ParseInput(typed, a).type = ParseInput(typed, b).type
              /\ ParseInput(typed, a).arg = ParseInput(typed, b).arg
              /\ ParseInput(typed, a).as = a
<1> DEFINE m(x) == ParseInput(typed, x)
<1>1. typed.word \in {"/nick", "/vote", "/unvote"}
      /\ (typed.word # "/vote" => typed.rest \in Name \cup {None})
  BY DEF Typed
<1>2. \A x \in Name \cup {None} : m(x) \in ClientMsg \cup {None}
  BY ParseTypes
<1>3. \A x \in Name \cup {None}, t \in {"set_nick"}, g \in Name : Msg(t, g, x) # None
  BY NoneAssumption DEF Msg, ClientMsg
<1>4. \A x \in Name \cup {None}, t \in {"unvote", "chat"} : Msg(t, None, x) # None
  BY NoneAssumption DEF Msg, ClientMsg
<1>5. \A x \in Name \cup {None}, g \in Option : Msg("vote", g, x) # None
  BY NoneAssumption DEF Msg, ClientMsg
<1>6. \A t, g, x : Msg(t, g, x).type = t /\ Msg(t, g, x).arg = g /\ Msg(t, g, x).as = x
  BY DEF Msg
<1> HIDE DEF m
<1>7. CASE typed.word = "/nick" /\ typed.rest # None
  <2>1. \A x : m(x) = Msg("set_nick", typed.rest, x)
    BY <1>7 DEF m, ParseInput
  <2> QED
    BY <1>1, <1>3, <1>6, <1>7, <2>1 DEF m
<1>8. CASE typed.word = "/unvote" /\ typed.rest = None
  <2>1. \A x : m(x) = Msg("unvote", None, x)
    BY <1>8 DEF m, ParseInput
  <2> QED
    BY <1>4, <1>6, <2>1 DEF m
<1>9. CASE typed.word = "/vote" /\ typed.rest # None
  <2>1. CASE typed.rest \in Nat /\ OptionOf(typed.rest) \in Option
    <3>1. \A x : m(x) = Msg("vote", OptionOf(typed.rest), x)
      BY <1>9, <2>1 DEF m, ParseInput
    <3> QED
      BY <1>5, <1>6, <2>1, <3>1 DEF m
  <2>2. CASE ~(typed.rest \in Nat /\ OptionOf(typed.rest) \in Option)
    <3>1. \A x : m(x) = None
      BY <1>9, <2>2 DEF m, ParseInput
    <3> QED
      BY <3>1 DEF m
  <2> QED
    BY <2>1, <2>2
<1>10. CASE \/ typed.word = "/nick" /\ typed.rest = None
            \/ typed.word = "/unvote" /\ typed.rest # None
            \/ typed.word = "/vote" /\ typed.rest = None
  <2>1. \A x : m(x) = Msg("chat", None, x)
    BY <1>10 DEF m, ParseInput
  <2> QED
    BY <1>4, <1>6, <2>1 DEF m
<1> QED
  BY <1>1, <1>7, <1>8, <1>9, <1>10

\* What entering a line does to the queue, the mark and the chosen name.
LEMMA EnterQueues ==
  ASSUME TypeOK, NEW c \in Client, NEW typed \in Typed, Enter(c, typed)
  PROVE  /\ pc' = pc /\ UNCHANGED <<nick, current_vote, names, log>>
         /\ \A d \in Client : d # c => UNCHANGED <<inbox[d], my_vote[d], chosen[d]>>
         /\ \/ UNCHANGED <<inbox[c], my_vote[c], chosen[c]>>
            \/ \E m \in ClientMsg :
                 /\ inbox'[c] = Append(inbox[c], m) /\ m.as = chosen[c]
                 /\ my_vote'[c] = IF m.type \in VoteTypes THEN m.arg ELSE my_vote[c]
                 /\ chosen'[c] = IF m.type \in NickTypes THEN m.arg ELSE chosen[c]
<1> DEFINE m == ParseInput(typed, chosen[c])
           n == ParseInput(typed, None)
<1>1. /\ m \in ClientMsg \cup {None} /\ chosen[c] \in Name \cup {None}
      /\ m = None <=> n = None
      /\ m # None => m.type = n.type /\ m.arg = n.arg /\ m.as = chosen[c]
  BY ParseTypes, ParseKeepsName DEF TypeOK
<1>2. /\ inbox' = IF m = None THEN inbox ELSE [inbox EXCEPT ![c] = Append(inbox[c], m)]
      /\ chosen' = IF m # None /\ m.type = "set_nick" THEN [chosen EXCEPT ![c] = m.arg] ELSE chosen
      /\ my_vote' = [my_vote EXCEPT ![c] =
                       IF n # None /\ n.type \in VoteTypes THEN n.arg ELSE my_vote[c]]
      /\ pc' = pc /\ UNCHANGED <<nick, current_vote, names, log>>
  BY DEF Enter, Mark, roomVars, VoteTypes
<1> HIDE DEF m, n
<1>3. CASE m = None
  BY <1>1, <1>2, <1>3 DEF TypeOK
<1>4. CASE m # None
  <2>1. /\ m \in ClientMsg /\ inbox'[c] = Append(inbox[c], m) /\ m.as = chosen[c]
        /\ my_vote'[c] = IF m.type \in VoteTypes THEN m.arg ELSE my_vote[c]
        /\ chosen'[c] = IF m.type \in NickTypes THEN m.arg ELSE chosen[c]
    BY <1>1, <1>2, <1>4 DEF TypeOK, NickTypes
  <2> QED
    BY <1>2, <1>4, <2>1 DEF TypeOK
<1> QED
  BY <1>3, <1>4

\* What handling a line does to the queue.
LEMMA ReadUnqueues ==
  ASSUME TypeOK, NEW c \in Client, NEW type, Read(c, type)
  PROVE  /\ inbox[c] \in Seq(ClientMsg) /\ inbox[c] # <<>>
         /\ Head(inbox[c]) \in ClientMsg /\ Head(inbox[c]).type = type
         /\ inbox[c][1] = Head(inbox[c])
         /\ inbox'[c] = Tail(inbox[c]) /\ Len(inbox'[c]) = Len(inbox[c]) - 1
         /\ Len(inbox[c]) \in 1 .. Len(inbox[c])
         /\ \A d \in Client : d # c => inbox'[d] = inbox[d]
         /\ UNCHANGED <<pc, my_vote, chosen, clients>>
BY DEF Read, TypeOK, userVars

\* Steps that neither queue nor handle a line; one that a client makes shuts it or
\* leaves it as open as it was.
LEMMA OtherSteps ==
  ASSUME TypeOK, NEW c \in Client,
         \/ Subscribe(c) \/ JoinInsert(c) \/ JoinAnnounce(c) \/ LeaveRemove(c)
         \/ LeaveAnnounce(c) \/ ViewWelcome(c) \/ ViewEvent(c)
  PROVE  /\ UNCHANGED <<nick, current_vote, my_vote, chosen>>
         /\ \A d \in Client : pc'[d] \in Open =>
                pc[d] \in Open /\ UNCHANGED <<inbox[d], names[d]>>
<1> USE DEF roomVars, handlerVars, viewVars, userVars, Goto, Open
<1>1. CASE Subscribe(c) \/ JoinInsert(c) \/ JoinAnnounce(c)
  BY <1>1 DEF Subscribe, JoinInsert, JoinAnnounce, TypeOK
<1>2. CASE LeaveRemove(c) \/ LeaveAnnounce(c)
  BY <1>2 DEF LeaveRemove, LeaveAnnounce, TypeOK
<1>3. CASE ViewWelcome(c) \/ ViewEvent(c)
  BY <1>3 DEF ViewWelcome, ViewEvent, TypeOK
<1> QED
  BY <1>1, <1>2, <1>3
-----------------------------------------------------------------------------
MarkInv ==
  \A c \in Client : pc[c] \in Open =>
    Leaves(inbox[c], Len(inbox[c]), VoteTypes, current_vote[c], my_vote[c])

LEMMA MarkInit == Init => MarkInv
BY DEF Init, MarkInv, Leaves, Of

LEMMA MarkStep == TypeOK /\ TypeOK' /\ MarkInv /\ [Next]_vars => MarkInv'
<1> SUFFICES ASSUME TypeOK, TypeOK', MarkInv, [Next]_vars, NEW d \in Client, pc'[d] \in Open
             PROVE  Leaves(inbox'[d], Len(inbox'[d]), VoteTypes, current_vote'[d], my_vote'[d])
  BY DEF MarkInv
<1> DEFINE Same == /\ pc[d] \in Open /\ inbox'[d] = inbox[d]
                   /\ current_vote'[d] = current_vote[d] /\ my_vote'[d] = my_vote[d]
<1>1. CASE Same
  BY <1>1 DEF MarkInv
<1>2. CASE UNCHANGED vars
  BY <1>1, <1>2 DEF vars, handlerVars, userVars
<1>3. ASSUME NEW c \in Client,
             \/ Subscribe(c) \/ JoinInsert(c) \/ JoinAnnounce(c) \/ LeaveRemove(c)
             \/ LeaveAnnounce(c) \/ ViewWelcome(c) \/ ViewEvent(c)
      PROVE  Same
  BY <1>3, OtherSteps
<1>4. ASSUME NEW c \in Client, NEW typed \in Typed, Enter(c, typed)
      PROVE  Leaves(inbox'[d], Len(inbox'[d]), VoteTypes, current_vote'[d], my_vote'[d])
  <2>1. CASE Same
    BY <1>1, <2>1
  <2>2. CASE ~Same
    <3>1. /\ d = c /\ pc[d] \in Open /\ current_vote'[d] = current_vote[d]
      BY <1>4, <2>2, EnterQueues
    <3>2. PICK m \in ClientMsg :
              /\ inbox'[d] = Append(inbox[d], m)
              /\ my_vote'[d] = IF m.type \in VoteTypes THEN m.arg ELSE my_vote[d]
      BY <1>4, <2>2, <3>1, EnterQueues
    <3>3. inbox[d] \in Seq(ClientMsg) /\ Len(inbox'[d]) = Len(inbox[d]) + 1
      BY <3>2 DEF TypeOK
    <3> QED
      BY <3>1, <3>2, <3>3, LeavesAppend DEF MarkInv
  <2> QED
    BY <2>1, <2>2
<1>5. ASSUME NEW c \in Client, NEW type \in {"set_nick", "chat", "vote", "unvote"}, Read(c, type),
             \A e \in Client : current_vote'[e] =
                IF e = c /\ type \in VoteTypes THEN Head(inbox[c]).arg ELSE current_vote[e]
      PROVE  Leaves(inbox'[d], Len(inbox'[d]), VoteTypes, current_vote'[d], my_vote'[d])
  <2>1. CASE d # c
    BY <1>1, <1>5, <2>1, ReadUnqueues
  <2>2. CASE d = c
    <3>1. Leaves(inbox[c], Len(inbox[c]), VoteTypes, current_vote[c], my_vote[c])
      BY <1>5, <2>2, ReadUnqueues DEF MarkInv
    <3> QED
      BY <1>5, <2>2, <3>1, ReadUnqueues, LeavesTail
  <2> QED
    BY <2>1, <2>2
<1>6. ASSUME NEW c \in Client, SetNick(c) \/ Chat(c) \/ Vote(c) \/ Unvote(c)
      PROVE  Leaves(inbox'[d], Len(inbox'[d]), VoteTypes, current_vote'[d], my_vote'[d])
  <2>1. CASE SetNick(c)
    BY <1>5, <2>1 DEF SetNick, VoteTypes, TypeOK
  <2>2. CASE Chat(c)
    BY <1>5, <2>2 DEF Chat, VoteTypes, TypeOK
  <2>3. CASE Vote(c)
    BY <1>5, <2>3 DEF Vote, VoteTypes, TypeOK
  <2>4. CASE Unvote(c)
    <3>1. Head(inbox[c]).arg = None
      BY <2>4, ReadTypes DEF Unvote, ClientMsg
    <3> QED
      BY <1>5, <2>4, <3>1 DEF Unvote, VoteTypes, TypeOK
  <2> QED
    BY <1>6, <2>1, <2>2, <2>3, <2>4
<1> QED
  BY <1>1, <1>2, <1>3, <1>4, <1>6 DEF Next, Step

(* The vote that a client marks as its own is the one the server will have of it
   once it has read the lines on their way (tui.rs:189-220, client.rs:150-165). *)
THEOREM OwnVoteMarkedCorrect == Spec => []OwnVoteMarked
<1>1. Spec => []MarkInv
  BY MarkInit, MarkStep, TypeAlways, PTL DEF Spec
<1>2. TypeOK /\ MarkInv => OwnVoteMarked
  <2> SUFFICES ASSUME TypeOK, MarkInv, NEW c \in Client, pc[c] \in {"join", "announce", "read"}
               PROVE  \/ VoteLines(c) = {} /\ my_vote[c] = current_vote[c]
                      \/ \E i \in VoteLines(c) : /\ \A j \in VoteLines(c) : j <= i
                                                 /\ my_vote[c] = inbox[c][i].arg
    BY DEF OwnVoteMarked
  <2>1. VoteLines(c) = Of(inbox[c], Len(inbox[c]), VoteTypes)
    BY DEF VoteLines, Of, VoteTypes, TypeOK
  <2>2. Leaves(inbox[c], Len(inbox[c]), VoteTypes, current_vote[c], my_vote[c])
    BY DEF MarkInv, Open
  <2> QED
    BY <2>1, <2>2 DEF Leaves
<1> QED
  BY <1>1, <1>2, TypeAlways, PTL
-----------------------------------------------------------------------------
\* A chat line in the queue carries the name that the lines before it leave, and
\* the name its writer has now is the one that all of them leave.
NamesOf(c) ==
  /\ Leaves(inbox[c], Len(inbox[c]), NickTypes, nick[c], chosen[c])
  /\ \A i \in 1 .. Len(inbox[c]) : inbox[c][i].type = "chat" =>
        Leaves(inbox[c], i, NickTypes, nick[c], inbox[c][i].as)
  /\ names[c] = nick[c]
NameInv == \A c \in Client : pc[c] \in Open => NamesOf(c)
LogNamed == \A i \in DOMAIN log : log[i].nick = log[i].as

LEMMA NameInit == Init => NameInv /\ LogNamed
BY DEF Init, NameInv, NamesOf, LogNamed, Leaves, Of

LEMMA EnterKeepsNames ==
  ASSUME TypeOK, NEW c \in Client, NamesOf(c), NEW typed \in Typed, Enter(c, typed)
  PROVE  NamesOf(c)'
<1>1. CASE UNCHANGED <<inbox[c], my_vote[c], chosen[c]>>
  BY <1>1, EnterQueues DEF NamesOf
<1>2. ASSUME NEW m \in ClientMsg, inbox'[c] = Append(inbox[c], m), m.as = chosen[c],
             chosen'[c] = IF m.type \in NickTypes THEN m.arg ELSE chosen[c]
      PROVE  NamesOf(c)'
  <2> DEFINE k == Len(inbox[c])
  <2>1. /\ inbox[c] \in Seq(ClientMsg) /\ Len(inbox'[c]) = k + 1 /\ k \in Nat
        /\ inbox'[c][k + 1] = m
        /\ \A i \in 1 .. k : inbox'[c][i] = inbox[c][i] /\ i \in 0 .. k
        /\ 1 .. k + 1 = (1 .. k) \cup {k + 1}
    BY <1>2 DEF TypeOK
  <2>2. UNCHANGED <<nick, names>>
    BY EnterQueues
  <2> HIDE DEF k
  <2>3. Leaves(inbox'[c], k + 1, NickTypes, nick'[c], chosen'[c])
    BY <1>2, <2>1, <2>2, LeavesAppend DEF NamesOf, k
  <2>4. \A i \in 1 .. k : inbox[c][i].type = "chat" =>
            Leaves(inbox'[c], i, NickTypes, nick'[c], inbox[c][i].as)
    BY <1>2, <2>1, <2>2, LeavesPrefix DEF NamesOf, k
  <2>5. m.type = "chat" => Leaves(inbox'[c], k + 1, NickTypes, nick'[c], m.as)
    BY <1>2, <2>3 DEF NickTypes
  <2> QED
    BY <2>1, <2>2, <2>3, <2>4, <2>5 DEF NamesOf
<1> QED
  BY <1>1, <1>2, EnterQueues

LEMMA ReadKeepsNames ==
  ASSUME TypeOK, NEW c \in Client, NamesOf(c), NEW type, Read(c, type), names'[c] = nick'[c],
         nick'[c] = IF type \in NickTypes THEN Head(inbox[c]).arg ELSE nick[c]
  PROVE  NamesOf(c)'
<1> DEFINE q == inbox[c]
<1>1. /\ q \in Seq(ClientMsg) /\ q # <<>> /\ Head(q).type = type /\ inbox'[c] = Tail(q)
      /\ Len(inbox'[c]) = Len(q) - 1 /\ Len(q) \in 1 .. Len(q) /\ chosen'[c] = chosen[c]
  BY ReadUnqueues
<1>2. Leaves(inbox'[c], Len(inbox'[c]), NickTypes, nick'[c], chosen'[c])
  BY <1>1, LeavesTail DEF NamesOf
<1>3. ASSUME NEW i \in 1 .. Len(inbox'[c]), inbox'[c][i].type = "chat"
      PROVE  Leaves(inbox'[c], i, NickTypes, nick'[c], inbox'[c][i].as)
  <2>1. i + 1 \in 1 .. Len(q) /\ inbox'[c][i] = q[i + 1] /\ (i + 1) - 1 = i
    BY <1>1, <1>3
  <2>2. Leaves(q, i + 1, NickTypes, nick[c], q[i + 1].as)
    BY <1>3, <2>1 DEF NamesOf
  <2>3. Leaves(Tail(q), (i + 1) - 1, NickTypes, nick'[c], q[i + 1].as)
    BY <1>1, <2>1, <2>2, LeavesTail
  <2> QED
    BY <1>1, <2>1, <2>3
<1> QED
  BY <1>2, <1>3 DEF NamesOf

LEMMA NameStep == TypeOK /\ Places /\ NameInv /\ [Next]_vars => NameInv'
<1> SUFFICES ASSUME TypeOK, Places, NameInv, [Next]_vars, NEW d \in Client, pc'[d] \in Open
             PROVE  NamesOf(d)'
  BY DEF NameInv
<1> DEFINE Same == pc[d] \in Open /\ UNCHANGED <<inbox[d], nick[d], chosen[d], names[d]>>
<1>1. CASE Same
  BY <1>1 DEF NameInv, NamesOf
<1>2. CASE UNCHANGED vars
  BY <1>1, <1>2 DEF vars, roomVars, handlerVars, userVars
<1>3. ASSUME NEW c \in Client,
             \/ Subscribe(c) \/ JoinInsert(c) \/ JoinAnnounce(c) \/ LeaveRemove(c)
             \/ LeaveAnnounce(c) \/ ViewWelcome(c) \/ ViewEvent(c)
      PROVE  Same
  BY <1>3, OtherSteps
<1>4. ASSUME NEW c \in Client, NEW typed \in Typed, Enter(c, typed) PROVE NamesOf(d)'
  <2>1. CASE d # c
    BY <1>1, <1>4, <2>1, EnterQueues
  <2>2. CASE d = c
    BY <1>4, <2>2, EnterQueues, EnterKeepsNames DEF NameInv
  <2> QED
    BY <2>1, <2>2
<1>5. ASSUME NEW c \in Client, SetNick(c) \/ Chat(c) \/ Vote(c) \/ Unvote(c)
      PROVE  NamesOf(d)'
  <2>1. PICK t \in {"set_nick", "chat", "vote", "unvote"} :
           /\ Read(c, t)
           /\ nick' = IF t = "set_nick" THEN [nick EXCEPT ![c] = Head(inbox[c]).arg] ELSE nick
           /\ names' = IF t = "set_nick" /\ c \in clients
                       THEN [names EXCEPT ![c] = Head(inbox[c]).arg] ELSE names
    BY <1>5 DEF SetNick, Chat, Vote, Unvote
  <2>2. c \in clients /\ pc[c] = "read" /\ pc'[c] = pc[c] /\ pc[c] \in Open
    BY <2>1 DEF Read, Places, Open
  <2>3. CASE d # c
    BY <1>1, <2>1, <2>3, ReadUnqueues DEF TypeOK
  <2>4. CASE d = c
    <3>1. NamesOf(c)
      BY <2>2 DEF NameInv
    <3>2. /\ names'[c] = nick'[c]
          /\ nick'[c] = IF t \in NickTypes THEN Head(inbox[c]).arg ELSE nick[c]
      BY <2>1, <2>2, <3>1 DEF TypeOK, NickTypes, NamesOf
    <3> QED
      BY <2>1, <2>4, <3>1, <3>2, ReadKeepsNames
  <2> QED
    BY <2>3, <2>4
<1> QED
  BY <1>1, <1>2, <1>3, <1>4, <1>5 DEF Next, Step

LEMMA LogNamedStep == TypeOK /\ NameInv /\ LogNamed /\ [Next]_vars => LogNamed'
<1> SUFFICES ASSUME TypeOK, NameInv, LogNamed, [Next]_vars PROVE LogNamed'
  OBVIOUS
<1>0. log \in Seq(Event)
  BY DEF TypeOK
<1>1. CASE log' = log
  BY <1>1 DEF LogNamed
<1>2. ASSUME NEW e \in Event, log' = Append(log, e), e.nick = e.as PROVE LogNamed'
  <2>1. DOMAIN log' = DOMAIN log \cup {Len(log) + 1} /\ log'[Len(log) + 1] = e
        /\ \A i \in DOMAIN log : log'[i] = log[i]
    BY <1>0, <1>2
  <2> QED
    BY <1>2, <2>1 DEF LogNamed
<1>3. ASSUME NEW c \in Client, JoinAnnounce(c) \/ LeaveAnnounce(c) PROVE LogNamed'
  <2>1. \A b \in BOOLEAN : Presence(c, b).nick = Presence(c, b).as
    BY DEF Presence
  <2> QED
    BY <1>2, <1>3, <2>1, EventTypes DEF JoinAnnounce, LeaveAnnounce, Send
<1>4. ASSUME NEW c \in Client, Chat(c) PROVE LogNamed'
  <2> DEFINE q == inbox[c]
  <2>1. Read(c, "chat") /\ log' = Append(log, ChatLine(c, nick[c], Head(q).as))
    BY <1>4 DEF Chat, Send
  <2>6. pc[c] \in Open
    BY <2>1 DEF Read, Open
  <2>7. Len(q) \in 1 .. Len(q) /\ q \in Seq(ClientMsg)
    BY <2>1, ReadUnqueues
  <2>8. q[1] = Head(q) /\ Head(q).type = "chat" /\ Head(q) \in ClientMsg
    BY <2>1, ReadUnqueues
  <2>2. /\ q[1] = Head(q) /\ q[1].type = "chat" /\ 1 \in 1 .. Len(q) /\ Head(q) \in ClientMsg
        /\ pc[c] \in Open
    BY <2>6, <2>7, <2>8
  <2>3. Leaves(q, 1, NickTypes, nick[c], Head(q).as)
    BY <2>2 DEF NameInv, NamesOf
  <2>4. Of(q, 1, NickTypes) = {}
    <3>1. \A j \in 1 .. 1 : j = 1
      OBVIOUS
    <3> QED
      BY <2>2, <3>1 DEF Of, NickTypes
  <2>5. Head(q).as = nick[c] /\ Head(q).as \in Name \cup {None}
    BY <2>2, <2>3, <2>4 DEF Leaves, ClientMsg
  <2> QED
    BY <1>2, <2>1, <2>5, EventTypes DEF ChatLine
<1>5. ASSUME NEW c \in Client,
             \/ Subscribe(c) \/ JoinInsert(c) \/ LeaveRemove(c) \/ ViewWelcome(c) \/ ViewEvent(c)
             \/ SetNick(c) \/ Vote(c) \/ Unvote(c) \/ \E typed \in Typed : Enter(c, typed)
      PROVE  log' = log
  BY <1>5 DEF Subscribe, JoinInsert, LeaveRemove, ViewWelcome, ViewEvent, SetNick, Vote, Unvote,
              Read, Enter, roomVars
<1>6. CASE UNCHANGED vars
  BY <1>1, <1>6 DEF vars, roomVars
<1> QED
  BY <1>1, <1>3, <1>4, <1>5, <1>6 DEF Next, Step

(* A chat line goes out under the name its writer had chosen when he entered it, and
   the table of the room agrees with the handlers (client.rs:131-148, room.rs:78-82). *)
THEOREM LinesNamedCorrect == Spec => []LinesNamed
<1>1. CountInv => TypeOK /\ Places
  BY DEF CountInv, RoomInv
<1>2. Spec => [](NameInv /\ LogNamed)
  BY <1>1, NameInit, NameStep, LogNamedStep, CountAlways, PTL DEF Spec
<1>3. TypeOK /\ Places /\ NameInv /\ LogNamed => LinesNamed
  BY DEF LinesNamed, LogNamed, NameInv, NamesOf, Places, Open, TypeOK
<1> QED
  BY <1>1, <1>2, <1>3, CountAlways, PTL
-----------------------------------------------------------------------------
ListInv ==
  /\ ListIsLatest
  /\ \A c \in Client : ~welcomed[c] => messages[c] = <<>>

LatestOf(c) ==
  /\ Len(messages[c]) <= rx[c]
  /\ \A k \in 0 .. Len(messages[c]) - 1 :
        messages[c][Len(messages[c]) - k] = Shows(log[rx[c] - k])
  /\ Len(messages[c]) < MAX_MESSAGES =>
        \A i \in DOMAIN log : log[i] = Presence(c, TRUE) => i > rx[c] - Len(messages[c])

LEMMA OneByOne ==
  /\ ListIsLatest <=> \A c \in Client : LatestOf(c)
  /\ ListIsLatest' <=> \A c \in Client : LatestOf(c)'
BY DEF ListIsLatest, LatestOf

LEMMA ListUntouched ==
  ASSUME NEW c \in Client, LatestOf(c), messages'[c] = messages[c], rx'[c] = rx[c], log' = log
  PROVE  LatestOf(c)'
BY DEF LatestOf

LEMMA ListInit == Init => ListInv
<1> SUFFICES ASSUME Init PROVE ListInv
  OBVIOUS
<1>1. log = <<>> /\ \A c \in Client : messages[c] = <<>> /\ rx[c] = 0
  BY DEF Init
<1>2. Len(<<>>) = 0 /\ 0 .. 0 - 1 = {}
  OBVIOUS
<1> QED
  BY <1>1, <1>2 DEF ListInv, ListIsLatest

\* The list after one more event.
LEMMA PushKeepsLatest ==
  ASSUME TypeOK, ListInv, NEW c \in Client, ViewEvent(c)
  PROVE  ListInv'
<1> DEFINE e == log[rx[c] + 1]
           n == Len(messages[c])
           m == Len(messages'[c])
<1>1. /\ e \in Event /\ rx[c] \in Nat /\ client_count[c] \in Nat /\ messages[c] \in Seq(ShownLine)
      /\ n <= MAX_MESSAGES /\ MAX_MESSAGES \in Nat \ {0} /\ n \in Nat
      /\ \A d \in Client : Len(messages[d]) \in Nat /\ rx[d] \in Nat
  BY WindowAssumption DEF TypeOK, ViewEvent
<1>2. /\ messages'[c] = PushMsg(messages[c], Shows(e)) /\ rx'[c] = rx[c] + 1
      /\ \A d \in Client : d # c => messages'[d] = messages[d] /\ rx'[d] = rx[d]
      /\ log' = log /\ welcomed' = welcomed /\ welcomed[c]
  BY DEF ViewEvent, TypeOK, roomVars
<1> HIDE DEF e
<1>3. m = IF n >= MAX_MESSAGES THEN MAX_MESSAGES ELSE n + 1
  BY <1>1, <1>2, ViewTypes
<1>4. Shows(e) \in ShownLine
  BY <1>1, ViewTypes
<1>5. messages'[c][m] = Shows(e) /\ \A k \in 1 .. m - 1 : messages'[c][m - k] = messages[c][n - (k - 1)]
  <2>1. CASE n >= MAX_MESSAGES
    <3>1. /\ n = MAX_MESSAGES /\ m = n /\ Tail(messages[c]) \in Seq(ShownLine)
          /\ Len(Tail(messages[c])) = n - 1
          /\ \A j \in 1 .. n - 1 : Tail(messages[c])[j] = messages[c][j + 1]
          /\ messages'[c] = Append(Tail(messages[c]), Shows(e))
      BY <1>1, <1>2, <1>3, <2>1 DEF PushMsg
    <3>2. messages'[c][n] = Shows(e) /\ \A j \in 1 .. n - 1 : messages'[c][j] = messages[c][j + 1]
      BY <1>1, <1>4, <3>1
    <3>3. \A k \in 1 .. n - 1 : n - k \in 1 .. n - 1 /\ (n - k) + 1 = n - (k - 1)
      BY <1>1
    <3> QED
      BY <3>1, <3>2, <3>3
  <2>2. CASE n < MAX_MESSAGES
    <3>1. m = n + 1 /\ messages'[c] = Append(messages[c], Shows(e))
      BY <1>1, <1>2, <1>3, <2>2 DEF PushMsg
    <3>2. messages'[c][n + 1] = Shows(e) /\ \A j \in 1 .. n : messages'[c][j] = messages[c][j]
      BY <1>1, <1>4, <3>1
    <3>3. \A k \in 1 .. n : (n + 1) - k \in 1 .. n /\ (n + 1) - k = n - (k - 1)
      BY <1>1
    <3> QED
      BY <1>1, <3>1, <3>2, <3>3
  <2> QED
    BY <1>1, <2>1, <2>2
<1> HIDE DEF n, m
<1>6. /\ n <= rx[c] /\ \A k \in 0 .. n - 1 : messages[c][n - k] = Shows(log[rx[c] - k])
      /\ n < MAX_MESSAGES => \A i \in DOMAIN log : log[i] = Presence(c, TRUE) => i > rx[c] - n
  BY DEF ListInv, ListIsLatest, n
<1>7. m <= rx'[c] /\ m - 1 <= n /\ m \in Nat
  BY <1>1, <1>2, <1>3, <1>6
<1>8. \A k \in 0 .. m - 1 : messages'[c][m - k] = Shows(log'[rx'[c] - k])
  <2> SUFFICES ASSUME NEW k \in 0 .. m - 1 PROVE messages'[c][m - k] = Shows(log[rx'[c] - k])
    BY <1>2
  <2>1. CASE k = 0
    <3>1. m - k = m /\ rx'[c] - k = rx[c] + 1
      BY <1>1, <1>2, <1>7, <2>1
    <3> QED
      BY <1>5, <3>1 DEF e
  <2>2. CASE k # 0
    <3>1. k \in 1 .. m - 1 /\ k - 1 \in 0 .. n - 1 /\ rx'[c] - k = rx[c] - (k - 1)
      <4>1. k \in Nat /\ k <= m - 1 /\ k >= 1
        BY <1>7, <2>2
      <4>2. n \in Nat /\ rx[c] \in Nat /\ rx'[c] = rx[c] + 1 /\ m - 1 <= n /\ m \in Nat
        BY <1>1, <1>2, <1>7
      <4> QED
        BY <4>1, <4>2
    <3> QED
      BY <1>5, <1>6, <3>1
  <2> QED
    BY <2>1, <2>2
<1>9. m < MAX_MESSAGES => \A i \in DOMAIN log' : log'[i] = Presence(c, TRUE) => i > rx'[c] - m
  <2>1. m < MAX_MESSAGES => rx'[c] - m = rx[c] - n /\ n < MAX_MESSAGES
    BY <1>1, <1>2, <1>3
  <2> QED
    BY <1>2, <1>6, <2>1
<1>10. ListIsLatest'
  <2>1. ASSUME NEW d \in Client, d # c PROVE LatestOf(d)'
    BY <1>2, <2>1, OneByOne, ListUntouched DEF ListInv
  <2>2. LatestOf(c)'
    BY <1>7, <1>8, <1>9 DEF LatestOf, m
  <2> QED
    BY <2>1, <2>2, OneByOne
<1> QED
  BY <1>2, <1>10 DEF ListInv

LEMMA ListStep == TypeOK /\ Places /\ ListInv /\ [Next]_vars => ListInv'
<1> SUFFICES ASSUME TypeOK, Places, ListInv, [Next]_vars PROVE ListInv'
  OBVIOUS
<1> USE DEF roomVars, handlerVars, viewVars, userVars
<1>0. log \in Seq(Event) /\ Len(log) \in Nat /\ DOMAIN log = 1 .. Len(log)
      /\ \A c \in Client : rx[c] \in 0 .. Len(log) /\ Len(messages[c]) \in Nat
  BY DEF TypeOK
<1>1. CASE UNCHANGED <<messages, rx, welcomed, log>>
  BY <1>1 DEF ListInv, ListIsLatest
<1>2. CASE UNCHANGED <<messages, rx, welcomed>> /\ \E e \in Event : log' = Append(log, e)
  <2>1. PICK e \in Event : log' = Append(log, e)
    BY <1>2
  <2>2. /\ DOMAIN log' = DOMAIN log \cup {Len(log) + 1}
        /\ \A i \in DOMAIN log : log'[i] = log[i]
    BY <1>0, <2>1
  <2>3. ASSUME NEW c \in Client
        PROVE  LET n == Len(messages[c])
               IN  /\ n <= rx[c]
                   /\ \A k \in 0 .. n - 1 : messages[c][n - k] = Shows(log'[rx[c] - k])
                   /\ n < MAX_MESSAGES =>
                         \A i \in DOMAIN log' : log'[i] = Presence(c, TRUE) => i > rx[c] - n
    <3> DEFINE n == Len(messages[c])
    <3>1. /\ n <= rx[c] /\ \A k \in 0 .. n - 1 : messages[c][n - k] = Shows(log[rx[c] - k])
          /\ n < MAX_MESSAGES => \A i \in DOMAIN log : log[i] = Presence(c, TRUE) => i > rx[c] - n
          /\ n \in Nat /\ rx[c] \in 0 .. Len(log)
      BY <1>0 DEF ListInv, ListIsLatest
    <3> HIDE DEF n
    <3>2. \A k \in 0 .. n - 1 : rx[c] - k \in DOMAIN log
      BY <1>0, <3>1
    <3>3. Len(log) + 1 > rx[c] - n
      BY <1>0, <3>1
    <3> QED
      BY <2>2, <3>1, <3>2, <3>3 DEF n
  <2>4. ListIsLatest'
    BY <1>2, <2>3 DEF ListIsLatest
  <2> QED
    BY <1>2, <2>4 DEF ListInv
<1>3. ASSUME NEW c \in Client, Subscribe(c) PROVE ListInv'
  <2>1. /\ messages[c] = <<>> /\ ~SentBy(log, Len(log), c, TRUE)
        /\ \A d \in Client : rx'[d] = IF d = c THEN Len(log) ELSE rx[d]
        /\ UNCHANGED <<messages, welcomed, log>>
    BY <1>3 DEF Subscribe, Places, ListInv, TypeOK
  <2>2. \A i \in DOMAIN log : log[i] # Presence(c, TRUE)
    BY <1>0, <2>1 DEF SentBy
  <2>3. Len(messages[c]) = 0 /\ 0 .. 0 - 1 = {}
    BY <2>1
  <2>4. ASSUME NEW d \in Client, d # c PROVE LatestOf(d)'
    BY <2>1, <2>4, OneByOne, ListUntouched DEF ListInv
  <2>5. LatestOf(c)'
    <3>1. /\ messages'[c] = <<>> /\ rx'[c] = Len(log) /\ log' = log /\ Len(messages'[c]) = 0
          /\ Len(log) \in Nat
      BY <1>0, <2>1, <2>3
    <3>2. 0 <= Len(log) /\ 0 .. 0 - 1 = {}
      BY <3>1
    <3> QED
      BY <2>2, <3>1, <3>2 DEF LatestOf
  <2>6. ListIsLatest'
    BY <2>4, <2>5, OneByOne
  <2> QED
    BY <2>1, <2>6 DEF ListInv
<1>4. ASSUME NEW c \in Client, ViewWelcome(c) PROVE ListInv'
  BY <1>4 DEF ViewWelcome, ListInv, ListIsLatest, TypeOK
<1>5. ASSUME NEW c \in Client,
             \/ JoinInsert(c) \/ JoinAnnounce(c) \/ LeaveRemove(c) \/ LeaveAnnounce(c)
             \/ SetNick(c) \/ Chat(c) \/ Vote(c) \/ Unvote(c)
             \/ \E typed \in Typed : Enter(c, typed)
      PROVE  UNCHANGED <<messages, rx, welcomed>>
  BY <1>5 DEF JoinInsert, JoinAnnounce, LeaveRemove, LeaveAnnounce, SetNick, Chat, Vote, Unvote,
              Read, Enter
<1>6. CASE UNCHANGED vars
  BY <1>1, <1>6 DEF vars
<1> QED
  BY <1>1, <1>2, <1>3, <1>4, <1>5, <1>6, LogGrows, PushKeepsLatest DEF Next, Step

(* A client shows the last events in the order of the channel, and misses none since
   its own arrival until its list is full (tui.rs:58-63 and 88-108). *)
THEOREM ListIsLatestCorrect == Spec => []ListIsLatest
<1>1. CountInv => TypeOK /\ Places
  BY DEF CountInv, RoomInv
<1>2. ListInv => ListIsLatest
  BY DEF ListInv
<1> QED
  BY <1>1, <1>2, ListInit, ListStep, CountAlways, PTL DEF Spec
=============================================================================
