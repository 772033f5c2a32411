-------------------------- MODULE LineReaderProofs --------------------------
(***************************************************************************)
(* Proofs about LineReader, for every limit and every stream.              *)
(*                                                                         *)
(* LinesFaithful speaks of the lines returned; the invariant adds what the *)
(* locals of the present call know of the line they are in: buf is its     *)
(* beginning, whole unless overflow is set, and overflow tells exactly     *)
(* whether it is already longer than the limit. A read that fails ends all *)
(* that, and the lines returned before stay as they are.                   *)
(***************************************************************************)
EXTENDS LineReader, SequenceTheorems, TLAPS

\* Where the present line begins, minus one.
Begin == EndOf(Len(out))

InLine ==
    /\ Begin <= pos
    /\ \A i \in (Begin + 1) .. pos : input[i] # NL
    /\ overflow <=> pos - Begin > max_len
    /\ ~overflow => buf = SubSeq(input, Begin + 1, pos)

\* The unfinished line at the end of the stream has been returned.
AllReturned ==
    /\ Begin = Len(input) + 1
    /\ pos = Len(input) /\ buf = <<>> /\ ~overflow

Inv ==
    /\ TypeOK
    /\ BufferBounded
    /\ LinesFaithful
    /\ InLine \/ AllReturned \/ failed
    /\ NothingLeftBehind
-----------------------------------------------------------------------------
\* Begin is a position of the stream.
LEMMA BeginType ==
    ASSUME TypeOK
    PROVE  Begin \in 0 .. (Len(input) + 1)
<1>1. Len(out) \in Nat /\ Len(input) \in Nat
  BY DEF TypeOK
<1>2. CASE Len(out) = 0
  BY <1>1, <1>2 DEF Begin, EndOf
<1>3. CASE Len(out) # 0
  <2> DEFINE Entry == [text : Seq(Byte), end : 1 .. (Len(input) + 1)]
  <2>1. out \in Seq(Entry) /\ Len(out) \in 1 .. Len(out)
    BY <1>1, <1>3 DEF TypeOK
  <2>2. out[Len(out)] \in Entry
    <3> HIDE DEF Entry
    <3> QED
      BY <2>1, ElementOfSeq
  <2> QED
    BY <1>1, <1>3, <2>2 DEF Begin, EndOf
<1> QED
  BY <1>2, <1>3

\* Cutting a stream anywhere gives a sequence of bytes of the length expected.
LEMMA CutType ==
    ASSUME NEW s \in Seq(Byte), NEW m \in 1 .. (Len(s) + 1), NEW n \in (m - 1) .. Len(s)
    PROVE  /\ SubSeq(s, m, n) \in Seq(Byte)
           /\ Len(SubSeq(s, m, n)) = n - m + 1
<1>1. \A i \in m .. n : s[i] \in Byte
  BY ElementOfSeq
<1> QED
  BY <1>1, SubSeqProperties

\* What Take keeps fits, and is the line up to there if nothing overflows.
LEMMA TakeKeeps ==
    ASSUME TypeOK, BufferBounded, InLine, ~overflow,
           NEW n \in Nat, pos + n <= Len(input)
    PROVE  /\ Take(n) \in Seq(Byte)
           /\ Len(Take(n)) <= max_len
           /\ Overflows(n) <=> pos + n - Begin > max_len
           /\ ~Overflows(n) => Take(n) = SubSeq(input, Begin + 1, pos + n)
<1> DEFINE k == Minimum(n, Avail)
<1>1. Begin \in 0 .. (Len(input) + 1) /\ pos \in Nat /\ pos <= Len(input)
       /\ input \in Seq(Byte) /\ Len(input) \in Nat /\ max_len \in Nat
  BY BeginType, LimitAssumption DEF TypeOK
<1>2. buf = SubSeq(input, Begin + 1, pos) /\ Begin <= pos
  BY DEF InLine
<1>3. buf \in Seq(Byte) /\ Len(buf) = pos - Begin
  BY <1>1, <1>2, CutType
<1>4. Avail = max_len - (pos - Begin) /\ Avail \in Nat
  BY <1>1, <1>2, <1>3 DEF Avail, BufferBounded
<1>5. k \in 0 .. n /\ k <= Avail
  BY <1>4 DEF Minimum
<1>6. /\ SubSeq(input, pos + 1, pos + k) \in Seq(Byte)
      /\ Len(SubSeq(input, pos + 1, pos + k)) = k
  BY <1>1, <1>5, CutType
<1>7. Take(n) = buf \o SubSeq(input, pos + 1, pos + k)
  BY DEF Take
<1>8. Take(n) \in Seq(Byte) /\ Len(Take(n)) = Len(buf) + k
  BY <1>3, <1>6, <1>7, ConcatProperties
<1>9. Overflows(n) <=> pos + n - Begin > max_len
  BY <1>1, <1>4 DEF Overflows
<1>10. ASSUME ~Overflows(n) PROVE Take(n) = SubSeq(input, Begin + 1, pos + n)
  <2>1. k = n
    BY <1>4, <1>10 DEF Overflows, Minimum
  <2>2. SubSeq(input, Begin + 1, pos) \o SubSeq(input, pos + 1, pos + n)
          = SubSeq(input, Begin + 1, pos + n)
    BY <1>1, <1>2, ConcatAdjacentSubSeq
  <2> QED
    BY <2>1, <2>2, <1>2, <1>7
<1> QED
  BY <1>1, <1>2, <1>3, <1>4, <1>5, <1>8, <1>9, <1>10

\* StripCR returns what the reference asks for.
LEMMA StripKeeps ==
    ASSUME NEW s \in Seq(Byte)
    PROVE  /\ StripCR(s) \in Seq(Byte)
           /\ Len(s) <= max_len => ReturnedAs(StripCR(s), s, TRUE)
<1>1. CASE s # <<>> /\ s[Len(s)] = CR
  <2>1. Len(s) \in Nat \ {0} /\ max_len \in Nat
    BY <1>1, LimitAssumption
  <2>2. SubSeq(s, 1, Len(s) - 1) \in Seq(Byte)
    BY <2>1, CutType
  <2>3. SubSeq(s, 1, Len(s)) = SubSeq(s, 1, Len(s) - 1) \o <<s[Len(s)]>>
    BY <2>1, SubSeqRecursiveSecond
  <2>4. s = Append(SubSeq(s, 1, Len(s) - 1), CR)
    BY <1>1, <2>2, <2>3, SubSeqFull, AppendIsConcat, BytesAssumption
  <2> QED
    BY <1>1, <2>1, <2>2, <2>4 DEF StripCR, ReturnedAs
<1>2. CASE ~(s # <<>> /\ s[Len(s)] = CR)
  BY <1>2, LimitAssumption DEF StripCR, ReturnedAs
<1> QED
  BY <1>1, <1>2
-----------------------------------------------------------------------------
\* One more line is returned, and it is the present line of the stream up to
\* index e: the lines returned are still those of the stream.
LEMMA ReturnKeepsLines ==
    ASSUME TypeOK, LinesFaithful, input' = input,
           NEW t \in Seq(Byte), NEW e \in 1 .. (Len(input) + 1),
           out' = Append(out, [text |-> t, end |-> e]),
           Begin < e,
           e <= Len(input) => input[e] = NL,
           \A i \in (Begin + 1) .. (e - 1) : input[i] # NL,
           ReturnedAs(t, SubSeq(input, Begin + 1, e - 1), e <= Len(input))
    PROVE  /\ out' \in Seq([text : Seq(Byte), end : 1 .. (Len(input) + 1)])
           /\ LinesFaithful'
           /\ Begin' = e
           /\ Len(out') = Len(out) + 1
<1> DEFINE Entry == [text : Seq(Byte), end : 1 .. (Len(input) + 1)]
<1>1. out \in Seq(Entry) /\ [text |-> t, end |-> e] \in Entry /\ Len(out) \in Nat
  BY DEF TypeOK
<1>2. /\ out' \in Seq(Entry)
      /\ Len(out') = Len(out) + 1
      /\ \A i \in 1 .. Len(out) : out'[i] = out[i]
      /\ out'[Len(out) + 1] = [text |-> t, end |-> e]
  BY <1>1, AppendProperties
<1>3. \A k \in 0 .. Len(out) : EndOf(k)' = EndOf(k)
  BY <1>1, <1>2 DEF EndOf
<1>4. Begin' = e
  BY <1>1, <1>2 DEF Begin, EndOf
<1>5. ASSUME NEW k \in DOMAIN out'
      PROVE  /\ EndOf(k - 1)' + 1 <= out'[k].end
             /\ out'[k].end <= Len(input) => input[out'[k].end] = NL
             /\ \A i \in (EndOf(k - 1)' + 1) .. (out'[k].end - 1) : input[i] # NL
             /\ ReturnedAs(out'[k].text,
                           SubSeq(input, EndOf(k - 1)' + 1, out'[k].end - 1),
                           out'[k].end <= Len(input))
  <2>1. k \in 1 .. (Len(out) + 1)
    BY <1>2
  <2>2. EndOf(k - 1)' = EndOf(k - 1)
    BY <1>1, <1>3, <2>1
  <2>3. CASE k \in 1 .. Len(out)
    <3>1. k \in DOMAIN out /\ out'[k] = out[k]
      BY <1>1, <1>2, <2>3
    <3> QED
      BY <2>2, <3>1 DEF LinesFaithful
  <2>4. CASE k = Len(out) + 1
    <3>1. EndOf(k - 1) = Begin
      BY <1>1, <2>4 DEF Begin
    <3>2. out'[k].end = e /\ out'[k].text = t
      BY <1>2, <2>4
    <3>3. Begin + 1 <= e
      BY BeginType
    <3> QED
      BY <2>2, <3>1, <3>2, <3>3
  <2>5. k \in 1 .. Len(out) \/ k = Len(out) + 1
    BY <1>1, <2>1
  <2> QED
    BY <2>3, <2>4, <2>5
<1>6. LinesFaithful'
  BY <1>5 DEF LinesFaithful, ReturnedAs
<1> QED
  BY <1>2, <1>4, <1>6

\* Nothing is consumed and no local changes: receiving bytes is invisible.
LEMMA ReceiveKeepsInv == Inv /\ Receive => Inv'
BY DEF Inv, Receive, locals, TypeOK, BufferBounded, LinesFaithful, InLine, AllReturned,
       NothingLeftBehind, Begin, EndOf

LEMMA EndOfLineKeepsInv == Inv /\ EndOfLine => Inv'
<1> SUFFICES ASSUME Inv, EndOfLine PROVE Inv'
  OBVIOUS
<1> USE DEF Inv
<1>1. PICK e \in (pos + 1) .. filled :
        /\ FirstNewline(e)
        /\ Return(StripCR(IF overflow THEN buf ELSE Take(e - pos - 1)),
                  overflow \/ Overflows(e - pos - 1), e)
        /\ pos' = e
  BY DEF EndOfLine
<1> DEFINE n == e - pos - 1
           tooLong == overflow \/ Overflows(n)
           kept == IF overflow THEN buf ELSE Take(n)
           line == SubSeq(input, Begin + 1, e - 1)
           t == IF tooLong THEN <<>> ELSE StripCR(kept)
<1>2. ~closed /\ ~failed /\ UNCHANGED <<input, filled, closed, failed>>
  BY DEF EndOfLine, Reading
<1>3. /\ input \in Seq(Byte) /\ Len(input) \in Nat /\ max_len \in Nat
      /\ filled \in 0 .. Len(input) /\ pos \in 0 .. filled
      /\ Begin \in 0 .. (Len(input) + 1)
      /\ e \in 1 .. Len(input) /\ n \in Nat /\ pos + n = e - 1
  BY BeginType, LimitAssumption DEF TypeOK
<1>4. InLine
  BY <1>2, <1>3 DEF AllReturned
<1>5. Begin <= pos
  BY <1>4 DEF InLine
<1>6. line \in Seq(Byte) /\ Len(line) = e - 1 - Begin
  BY <1>3, <1>5, CutType
<1>7. tooLong <=> Len(line) > max_len
  <2>1. CASE overflow
    BY <1>3, <1>4, <1>6, <2>1 DEF InLine
  <2>2. CASE ~overflow
    BY <1>3, <1>4, <1>6, <2>2, TakeKeeps
  <2> QED
    BY <2>1, <2>2
<1>8. ~tooLong => kept = line
  BY <1>3, <1>4, TakeKeeps
<1>9. t \in Seq(Byte) /\ ReturnedAs(t, line, TRUE)
  <2>1. CASE tooLong
    BY <1>7, <2>1, EmptySeq DEF ReturnedAs
  <2>2. CASE ~tooLong
    <3>1. t = StripCR(line)
      BY <1>8, <2>2
    <3>2. line \in Seq(Byte) /\ Len(line) <= max_len
      <4>1. ~(Len(line) > max_len)
        BY <1>7, <2>2
      <4> HIDE DEF line
      <4> QED
        BY <1>3, <1>6, <4>1
    <3> HIDE DEF line, t
    <3> QED
      BY <3>1, <3>2, StripKeeps
  <2> QED
    BY <2>1, <2>2
<1>10. out' = Append(out, [text |-> t, end |-> e]) /\ buf' = <<>> /\ overflow' = FALSE
  BY <1>1 DEF Return
<1>11. \A i \in (Begin + 1) .. (e - 1) : input[i] # NL
  BY <1>1, <1>3, <1>4 DEF InLine, FirstNewline
<1>12. input[e] = NL
  BY <1>1 DEF FirstNewline
<1>13. e <= Len(input)
  BY <1>3
<1>14. ReturnedAs(t, line, e <= Len(input))
  BY <1>9, <1>13 DEF ReturnedAs
<1>15. /\ out' \in Seq([text : Seq(Byte), end : 1 .. (Len(input) + 1)])
       /\ LinesFaithful' /\ Begin' = e
  <2>1. e \in 1 .. (Len(input) + 1) /\ Begin < e
    BY <1>3, <1>5
  <2> QED
    BY <1>2, <1>9, <1>10, <1>11, <1>12, <1>14, <2>1, ReturnKeepsLines
<1>16. TypeOK'
  <2>1. /\ input' = input /\ input \in Seq(Byte)
        /\ filled' \in 0 .. Len(input)' /\ pos' \in 0 .. filled'
    BY <1>1, <1>2, <1>3
  <2>2. /\ buf' \in Seq(Byte) /\ overflow' \in BOOLEAN
        /\ closed' \in BOOLEAN /\ failed' \in BOOLEAN
    BY <1>2, <1>10, EmptySeq DEF TypeOK
  <2> QED
    BY <1>15, <2>1, <2>2 DEF TypeOK
<1>17. BufferBounded'
  BY <1>3, <1>10 DEF BufferBounded
<1>18. InLine'
  <2>1. SubSeq(input, e + 1, e) = <<>>
    BY <1>3, SubSeqEmpty
  <2> QED
    BY <1>1, <1>2, <1>3, <1>10, <1>15, <2>1 DEF InLine
<1>19. NothingLeftBehind'
  BY <1>2 DEF NothingLeftBehind
<1> QED
  BY <1>15, <1>16, <1>17, <1>18, <1>19

LEMMA MoreOfLineKeepsInv == Inv /\ MoreOfLine => Inv'
<1> SUFFICES ASSUME Inv, MoreOfLine PROVE Inv'
  OBVIOUS
<1> USE DEF Inv
<1> DEFINE n == filled - pos
<1>1. /\ ~closed /\ ~failed /\ pos < filled /\ pos' = filled
      /\ UNCHANGED <<input, filled, out, closed, failed>>
      /\ overflow' = (overflow \/ Overflows(n))
      /\ buf' = IF overflow THEN buf ELSE Take(n)
  BY DEF MoreOfLine, Reading
<1>2. /\ input \in Seq(Byte) /\ Len(input) \in Nat /\ max_len \in Nat
      /\ filled \in 0 .. Len(input) /\ pos \in 0 .. filled
      /\ Begin \in 0 .. (Len(input) + 1)
      /\ n \in Nat /\ pos + n = filled
  BY BeginType, LimitAssumption DEF TypeOK
<1>3. InLine
  BY <1>1, <1>2 DEF AllReturned
<1>4. \A i \in (pos + 1) .. filled : input[i] # NL
  BY DEF MoreOfLine, HasNewline
<1>5. Begin' = Begin
  BY <1>1 DEF Begin, EndOf
<1>6. /\ buf' \in Seq(Byte) /\ Len(buf') <= max_len
      /\ overflow' \in BOOLEAN
      /\ overflow' <=> filled - Begin > max_len
      /\ ~overflow' => buf' = SubSeq(input, Begin + 1, filled)
  <2>1. CASE overflow
    <3>1. buf' = buf /\ overflow' = TRUE
      BY <1>1, <2>1
    <3>2. filled - Begin > max_len
      BY <1>2, <1>3, <2>1 DEF InLine
    <3> QED
      BY <3>1, <3>2 DEF TypeOK, BufferBounded
  <2>2. CASE ~overflow
    <3>1. buf' = Take(n) /\ overflow' = Overflows(n) /\ Overflows(n) \in BOOLEAN
      BY <1>1, <2>2 DEF Overflows
    <3> QED
      BY <1>2, <1>3, <2>2, <3>1, TakeKeeps
  <2> QED
    BY <2>1, <2>2
<1>7. TypeOK'
  BY <1>1, <1>2, <1>6 DEF TypeOK
<1>8. BufferBounded'
  BY <1>6 DEF BufferBounded
<1>9. LinesFaithful' /\ NothingLeftBehind'
  BY <1>1 DEF LinesFaithful, NothingLeftBehind, EndOf
<1>10. InLine'
  BY <1>1, <1>2, <1>3, <1>4, <1>5, <1>6 DEF InLine
<1> QED
  BY <1>7, <1>8, <1>9, <1>10

LEMMA EndOfStreamKeepsInv == Inv /\ EndOfStream => Inv'
<1> SUFFICES ASSUME Inv, EndOfStream PROVE Inv'
  OBVIOUS
<1> USE DEF Inv
<1>1. /\ ~closed /\ ~failed /\ pos = Len(input) /\ filled = Len(input)
      /\ UNCHANGED <<input, pos, filled, failed>>
  BY DEF EndOfStream, Reading
<1>2. /\ input \in Seq(Byte) /\ Len(input) \in Nat /\ max_len \in Nat
      /\ Begin \in 0 .. (Len(input) + 1)
  BY BeginType, LimitAssumption DEF TypeOK
<1>3. CASE buf = <<>> /\ ~overflow
  <2>1. closed' = TRUE /\ UNCHANGED <<buf, overflow, out>>
    BY <1>3 DEF EndOfStream, locals
  <2>2. Begin' = Begin /\ \A k : EndOf(k)' = EndOf(k)
    BY <2>1 DEF Begin, EndOf
  <2>3. Len(input) <= Begin
    <3>1. CASE InLine
      <4>1. buf = SubSeq(input, Begin + 1, pos) /\ Begin <= pos
        BY <1>3, <3>1 DEF InLine
      <4>2. Len(buf) = pos - Begin
        BY <1>1, <1>2, <4>1, CutType
      <4> QED
        BY <1>1, <1>2, <1>3, <4>2
    <3>2. CASE AllReturned
      BY <1>2, <3>2 DEF AllReturned
    <3> QED
      BY <1>1, <3>1, <3>2
  <2>4. NothingLeftBehind'
    BY <1>1, <1>2, <2>2, <2>3 DEF NothingLeftBehind, Begin
  <2> QED
    BY <1>1, <2>1, <2>2, <2>4
       DEF TypeOK, BufferBounded, LinesFaithful, InLine, AllReturned
<1>4. CASE ~(buf = <<>> /\ ~overflow)
  <2> DEFINE e == pos + 1
             t == IF overflow THEN <<>> ELSE buf
             line == SubSeq(input, Begin + 1, e - 1)
  <2>1. /\ out' = Append(out, [text |-> t, end |-> e])
        /\ buf' = <<>> /\ overflow' = FALSE /\ closed' = closed
    BY <1>4 DEF EndOfStream, Return
  <2>2. InLine
    BY <1>1, <1>4 DEF AllReturned
  <2>3. Begin <= pos /\ e - 1 = pos
    BY <1>1, <1>2, <2>2 DEF InLine
  <2>4. line \in Seq(Byte) /\ Len(line) = pos - Begin
    BY <1>1, <1>2, <2>3, CutType
  <2>5. t \in Seq(Byte) /\ ReturnedAs(t, line, FALSE)
    <3>1. CASE overflow
      <4>1. t = <<>> /\ Len(line) > max_len
        BY <2>2, <2>4, <3>1 DEF InLine
      <4> QED
        BY <4>1, EmptySeq DEF ReturnedAs
    <3>2. CASE ~overflow
      <4>1. t = line /\ ~(Len(line) > max_len)
        BY <1>1, <1>2, <2>2, <2>3, <2>4, <3>2 DEF InLine
      <4> QED
        BY <2>4, <4>1 DEF ReturnedAs
    <3> QED
      BY <3>1, <3>2
  <2>6. (e <= Len(input)) = FALSE /\ e \in 1 .. (Len(input) + 1) /\ Begin < e
    BY <1>1, <1>2, <2>3
  <2>7. ReturnedAs(t, line, e <= Len(input))
    BY <2>5, <2>6
  <2>8. \A i \in (Begin + 1) .. (e - 1) : input[i] # NL
    BY <2>2, <2>3 DEF InLine
  <2>9. /\ out' \in Seq([text : Seq(Byte), end : 1 .. (Len(input) + 1)])
        /\ LinesFaithful' /\ Begin' = e
    BY <1>1, <2>1, <2>5, <2>6, <2>7, <2>8, ReturnKeepsLines
  <2>10. TypeOK'
    BY <1>1, <1>2, <2>1, <2>9, EmptySeq DEF TypeOK
  <2>11. AllReturned'
    BY <1>1, <2>1, <2>9 DEF AllReturned
  <2>12. BufferBounded' /\ NothingLeftBehind'
    BY <1>1, <1>2, <2>1 DEF BufferBounded, NothingLeftBehind
  <2> QED
    BY <2>9, <2>10, <2>11, <2>12
<1> QED
  BY <1>3, <1>4

\* A read that fails forgets the line it is in; the lines returned stay.
LEMMA ReadFailsKeepsInv == Inv /\ ReadFails => Inv'
<1> SUFFICES ASSUME Inv, ReadFails PROVE Inv'
  OBVIOUS
<1> USE DEF Inv
<1>1. /\ failed' = TRUE /\ buf' = <<>> /\ overflow' = FALSE
      /\ UNCHANGED <<input, pos, filled, out, closed>>
  BY DEF ReadFails
<1>2. TypeOK'
  BY <1>1, EmptySeq DEF TypeOK
<1>3. BufferBounded'
  BY <1>1, LimitAssumption DEF BufferBounded
<1>4. LinesFaithful' /\ NothingLeftBehind'
  BY <1>1 DEF LinesFaithful, NothingLeftBehind, EndOf
<1> QED
  BY <1>1, <1>2, <1>3, <1>4

LEMMA InvInit == Init => Inv
<1> SUFFICES ASSUME Init PROVE Inv
  OBVIOUS
<1>1. input \in Seq(Byte) /\ Len(input) \in Nat
  <2>1. PICK n \in 0 .. MaxInput : input \in [1 .. n -> Byte]
    BY DEF Init
  <2>2. n \in Nat
    BY LimitAssumption
  <2> QED
    BY <2>1, <2>2, SeqDef
<1>2. /\ pos = 0 /\ filled = 0 /\ buf = <<>> /\ overflow = FALSE
      /\ out = <<>> /\ closed = FALSE /\ failed = FALSE
  BY DEF Init
<1>3. Begin = 0
  BY <1>2 DEF Begin, EndOf
<1>4. SubSeq(input, 1, 0) = <<>>
  BY SubSeqEmpty
<1>5. InLine
  BY <1>2, <1>3, <1>4, LimitAssumption DEF InLine
<1>6. TypeOK
  <2> DEFINE Entry == [text : Seq(Byte), end : 1 .. (Len(input) + 1)]
  <2>1. out \in Seq(Entry)
    <3> HIDE DEF Entry
    <3> QED
      BY <1>2, EmptySeq
  <2>2. buf \in Seq(Byte)
    BY <1>2, EmptySeq
  <2>3. filled \in 0 .. Len(input) /\ pos \in 0 .. filled
    BY <1>1, <1>2
  <2>4. overflow \in BOOLEAN /\ closed \in BOOLEAN /\ failed \in BOOLEAN
    BY <1>2
  <2> QED
    BY <1>1, <2>1, <2>2, <2>3, <2>4 DEF TypeOK
<1>7. BufferBounded /\ LinesFaithful /\ NothingLeftBehind
  BY <1>2, LimitAssumption DEF BufferBounded, LinesFaithful, NothingLeftBehind
<1> QED
  BY <1>5, <1>6, <1>7 DEF Inv

LEMMA InvStutter == Inv /\ UNCHANGED vars => Inv'
BY DEF Inv, vars, locals, TypeOK, BufferBounded, LinesFaithful, InLine, AllReturned,
       NothingLeftBehind, Begin, EndOf

\* The invariant holds in every state of every execution.
THEOREM InvAlways == Spec => []Inv
<1>1. Inv /\ [Next]_vars => Inv'
  BY ReceiveKeepsInv, EndOfLineKeepsInv, MoreOfLineKeepsInv, EndOfStreamKeepsInv,
     ReadFailsKeepsInv, InvStutter
     DEF Next
<1> QED
  BY <1>1, InvInit, PTL DEF Spec

\* The variables keep their types, for every limit and every stream.
THEOREM TypeCorrect == Spec => []TypeOK
BY InvAlways, PTL DEF Inv

\* No call holds more than the limit in memory (client.rs:37-44 and 55-62).
THEOREM BufferBoundedCorrect == Spec => []BufferBounded
BY InvAlways, PTL DEF Inv

\* The lines returned are the lines of the stream, whatever the chunks
\* (client.rs:36-65).
THEOREM LinesFaithfulCorrect == Spec => []LinesFaithful
BY InvAlways, PTL DEF Inv

\* None is returned only when every byte has had its line (client.rs:27-30).
THEOREM NothingLeftBehindCorrect == Spec => []NothingLeftBehind
BY InvAlways, PTL DEF Inv
-----------------------------------------------------------------------------
(* The reader implements LineSource. *)

\* A text the reader may return for a line is the one LineSource returns.
LEMMA ReturnedUnique ==
    ASSUME NEW text \in Seq(Byte), NEW s \in Seq(Byte), NEW terminated \in BOOLEAN,
           ReturnedAs(text, s, terminated)
    PROVE  text = Source!Returned(s, terminated)
<1>1. CASE Len(s) > max_len \/ ~(terminated /\ s # <<>> /\ s[Len(s)] = CR)
  BY <1>1 DEF ReturnedAs, Source!Returned
<1>2. CASE ~(Len(s) > max_len) /\ terminated /\ s # <<>> /\ s[Len(s)] = CR
  <2>1. s = Append(text, CR)
    BY <1>2 DEF ReturnedAs
  <2>2. Len(s) = Len(text) + 1 /\ \A i \in 1 .. Len(text) : s[i] = text[i]
    BY <2>1, BytesAssumption, AppendProperties
  <2>3. SubSeq(s, 1, Len(s) - 1) = text
    <3>1. Len(text) \in Nat /\ \A i \in 1 .. Len(text) : s[i] \in Byte
      BY <2>2, ElementOfSeq
    <3>2. /\ SubSeq(s, 1, Len(text)) \in Seq(Byte)
          /\ Len(SubSeq(s, 1, Len(text))) = Len(text)
          /\ \A i \in 1 .. Len(text) : SubSeq(s, 1, Len(text))[i] = s[i]
      BY <3>1, SubSeqProperties
    <3>3. SubSeq(s, 1, Len(text)) = text
      BY <2>2, <3>2, SeqEqual
    <3> QED
      BY <2>2, <3>1, <3>3
  <2> QED
    BY <1>2, <2>3 DEF Source!Returned
<1> QED
  BY <1>1, <1>2

\* A step that appends one line, and leaves the lines faithful, is a NextLine.
LEMMA AppendIsNextLine ==
    ASSUME TypeOK, TypeOK', LinesFaithful', Reading, UNCHANGED <<input, closed, failed>>,
           NEW t, NEW e, out' = Append(out, [text |-> t, end |-> e])
    PROVE  Source!NextLine
<1> DEFINE Entry == [text : Seq(Byte), end : 1 .. (Len(input) + 1)]
           from == EndOf(Len(out)) + 1
<1>1. out \in Seq(Entry) /\ out' \in Seq(Entry) /\ input \in Seq(Byte) /\ Len(out) \in Nat
  BY DEF TypeOK
<1>2. PICK n \in Nat : n = Len(out)
  BY <1>1
<1>3. /\ Len(out') = n + 1
      /\ \A i \in 1 .. n : out'[i] = out[i]
      /\ out'[n + 1] = [text |-> t, end |-> e]
  <2> DEFINE S == Entry \cup {[text |-> t, end |-> e]}
  <2>1. out \in Seq(S) /\ [text |-> t, end |-> e] \in S
    <3> HIDE DEF Entry
    <3> QED
      BY <1>1
  <2> HIDE DEF S
  <2> QED
    BY <1>2, <2>1, AppendProperties
<1>4. t \in Seq(Byte) /\ e \in 1 .. (Len(input) + 1)
  <2>1. n + 1 \in 1 .. Len(out')
    BY <1>3
  <2>2. [text |-> t, end |-> e] \in Entry
    <3> HIDE DEF Entry
    <3> QED
      BY <1>1, <1>3, <2>1, ElementOfSeq
  <2> QED
    BY <2>2
<1>5. EndOf(n)' = EndOf(n)
  BY <1>1, <1>2, <1>3 DEF EndOf
<1>6. n + 1 \in DOMAIN out' /\ out'[n + 1].end = e /\ out'[n + 1].text = t /\ input' = input
  BY <1>1, <1>3
<1>7. /\ from <= e
      /\ e <= Len(input) => input[e] = NL
      /\ \A i \in from .. (e - 1) : input[i] # NL
      /\ ReturnedAs(t, SubSeq(input, from, e - 1), e <= Len(input))
  <2>1. \A j \in DOMAIN out' :
          /\ EndOf(j - 1)' + 1 <= out'[j].end
          /\ out'[j].end <= Len(input') => input'[out'[j].end] = NL
          /\ \A i \in (EndOf(j - 1)' + 1) .. (out'[j].end - 1) : input'[i] # NL
          /\ ReturnedAs(out'[j].text, SubSeq(input', EndOf(j - 1)' + 1, out'[j].end - 1),
                        out'[j].end <= Len(input'))
    BY DEF LinesFaithful, ReturnedAs
  <2>2. EndOf((n + 1) - 1)' = EndOf(n)
    BY <1>5
  <2>3. from = EndOf(n) + 1
    BY <1>2
  <2> QED
    BY <1>6, <2>1, <2>2, <2>3
<1>8. SubSeq(input, from, e - 1) \in Seq(Byte)
  <2>1. from \in 1 .. (Len(input) + 2) /\ Len(input) \in Nat
    BY <1>1, BeginType DEF Begin
  <2>2. from \in 1 .. (Len(input) + 1) /\ e - 1 \in (from - 1) .. Len(input)
    BY <1>4, <1>7, <2>1
  <2> HIDE DEF from
  <2> QED
    BY <1>1, <2>2, CutType
<1>9. t = Source!Returned(SubSeq(input, from, e - 1), e <= Len(input))
  <2>1. (e <= Len(input)) \in BOOLEAN
    OBVIOUS
  <2> DEFINE line == SubSeq(input, from, e - 1)
             terminated == e <= Len(input)
  <2> HIDE DEF line, terminated
  <2>2. line \in Seq(Byte) /\ terminated \in BOOLEAN /\ ReturnedAs(t, line, terminated)
    BY <1>7, <1>8, <2>1 DEF line, terminated
  <2>3. t = Source!Returned(line, terminated)
    BY <1>4, <2>2, ReturnedUnique
  <2> QED
    BY <2>3 DEF line, terminated
<1>10. EndOf(Len(out)) = Source!EndOf(Len(out))
  BY DEF EndOf, Source!EndOf
<1> QED
  BY <1>4, <1>7, <1>9, <1>10 DEF Source!NextLine, Reading

\* Every step of the reader is a step of LineSource, or none.
LEMMA StepIsSourceStep ==
    ASSUME Inv, Inv', [Next]_vars
    PROVE  [Source!NextLine \/ Source!None \/ Source!Fail]_<<input, out, closed, failed>>
<1> USE DEF Inv
<1>1. CASE Receive \/ MoreOfLine \/ UNCHANGED vars
  BY <1>1 DEF Receive, MoreOfLine, vars, locals
<1>2. CASE EndOfLine
  <2>1. Reading /\ UNCHANGED <<input, closed, failed>>
    BY <1>2 DEF EndOfLine
  <2>2. PICK t, e : out' = Append(out, [text |-> t, end |-> e])
    BY <1>2 DEF EndOfLine, Return
  <2> QED
    BY <2>1, <2>2, AppendIsNextLine
<1>3. CASE EndOfStream
  <2>1. Reading /\ UNCHANGED <<input, failed>>
    BY <1>3 DEF EndOfStream
  <2>2. CASE buf = <<>> /\ ~overflow
    <3>1. closed' = TRUE /\ UNCHANGED out
      BY <1>3, <2>2 DEF EndOfStream
    <3>2. Len(input) <= EndOf(Len(out))
      <4>1. \A i \in 1 .. Len(input) : i <= EndOf(Len(out))
        BY <2>1, <3>1 DEF NothingLeftBehind, EndOf
      <4>2. Len(input) \in Nat /\ EndOf(Len(out)) \in 0 .. (Len(input) + 1)
        BY BeginType DEF Begin, TypeOK
      <4> QED
        BY <4>1, <4>2
    <3>3. EndOf(Len(out)) = Source!EndOf(Len(out))
      BY DEF EndOf, Source!EndOf
    <3> QED
      BY <2>1, <3>1, <3>2, <3>3 DEF Source!None, Reading
  <2>3. CASE ~(buf = <<>> /\ ~overflow)
    <3>1. UNCHANGED closed
      BY <1>3, <2>3 DEF EndOfStream
    <3>2. PICK t, e : out' = Append(out, [text |-> t, end |-> e])
      BY <1>3, <2>3 DEF EndOfStream, Return
    <3> QED
      BY <2>1, <3>1, <3>2, AppendIsNextLine
  <2> QED
    BY <2>2, <2>3
<1>4. CASE ReadFails
  BY <1>4 DEF ReadFails, Reading, Source!Fail
<1> QED
  BY <1>1, <1>2, <1>3, <1>4 DEF Next

\* read_line_bounded, chunk by chunk, implements the line by line source
\* (client.rs:19-67), for every limit and every stream.
THEOREM LineSourceImplemented == Spec => ImplementsLineSource
<1>1. Init => Source!Init
  <2>1. ASSUME Init PROVE TypeOK /\ out = <<>> /\ closed = FALSE /\ failed = FALSE
    BY <2>1, InvInit DEF Init, Inv
  <2> QED
    BY <2>1 DEF Source!Init, TypeOK
<1>2. Inv /\ Inv' /\ [Next]_vars => [Source!NextLine \/ Source!None \/ Source!Fail]_(Source!lineVars)
  BY StepIsSourceStep DEF Source!lineVars
<1> QED
  BY <1>1, <1>2, InvAlways, PTL DEF Spec, ImplementsLineSource, Source!Spec
=============================================================================
