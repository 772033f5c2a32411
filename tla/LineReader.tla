----------------------------- MODULE LineReader -----------------------------
(***************************************************************************)
(* read_line_bounded of src/src/client.rs, called again and again by the   *)
(* read loop: it cuts the byte stream of a peer into lines, whatever the   *)
(* chunks in which the socket delivers it, and returns an empty string for *)
(* a line that is longer than max_len.                                     *)
(*                                                                         *)
(* One step is one turn of its loop: a look at the chunk the BufReader     *)
(* holds, and what is consumed of it. Only newline and carriage return are *)
(* told apart from the other bytes; from_utf8_lossy, which turns a line    *)
(* into a string, is left out.                                             *)
(***************************************************************************)
EXTENDS Integers, Sequences, FiniteSets

CONSTANTS
    NL, CR,      \* the bytes that matter
    Byte,        \* all bytes
    max_len,     \* the limit, without the newline
    MaxInput     \* bound: length of the stream

ASSUME BytesAssumption == NL \in Byte /\ CR \in Byte /\ NL # CR
ASSUME LimitAssumption == max_len \in Nat /\ MaxInput \in Nat

VARIABLES
    input,      \* all the peer ever sends before it closes
    pos,        \* bytes consumed
    filled,     \* bytes received: the chunk is input[pos + 1 .. filled]
    buf,        \* the locals of the current call
    overflow,
    out,        \* what the calls returned: each line, and where its call ended
    closed,     \* a call returned None
    failed      \* a call returned an error

locals == <<buf, overflow>>
vars == <<input, pos, filled, locals, out, closed, failed>>

Init ==
    /\ input \in UNION {[1 .. n -> Byte] : n \in 0 .. MaxInput}
    /\ pos = 0
    /\ filled = 0
    /\ buf = <<>>
    /\ overflow = FALSE
    /\ out = <<>>
    /\ closed = FALSE
    /\ failed = FALSE

Minimum(a, b) == IF a <= b THEN a ELSE b
-----------------------------------------------------------------------------
\* The read loop calls again until there is nothing more to read.
Reading == ~closed /\ ~failed

HasNewline == \E i \in (pos + 1) .. filled : input[i] = NL

\* The first newline of the chunk is at index e of the stream.
FirstNewline(e) ==
    /\ input[e] = NL
    /\ \A i \in (pos + 1) .. (e - 1) : input[i] # NL

\* How many bytes still fit (saturating_sub).
Avail == IF Len(buf) <= max_len THEN max_len - Len(buf) ELSE 0

\* n more bytes do not fit behind those in buf.
Overflows(n) == n > Avail

\* Slip: everything is kept, whether it fits or not.
TakeAll(n) == buf \o SubSeq(input, pos + 1, pos + n)

\* n more bytes of the line: as many as fit are kept.
Take(n) == buf \o SubSeq(input, pos + 1, pos + Minimum(n, Avail))

\* A carriage return before the newline goes too.
StripCR(s) ==
    IF s # <<>> /\ s[Len(s)] = CR THEN SubSeq(s, 1, Len(s) - 1) ELSE s

\* The call ends: its locals are gone. An overflowing line is returned empty.
Return(line, tooLong, end) ==
    /\ out' = Append(out, [text |-> IF tooLong THEN <<>> ELSE line, end |-> end])
    /\ buf' = <<>>
    /\ overflow' = FALSE

\* fill_buf with nothing buffered: the socket delivers some more bytes.
Receive ==
    /\ Reading
    /\ pos = filled
    /\ filled' \in (filled + 1) .. Len(input)
    /\ UNCHANGED <<input, pos, locals, out, closed, failed>>

\* Slip: one byte too many is consumed with the newline.
EatsNextByte ==
    /\ Reading
    /\ \E e \in (pos + 1) .. filled :
          /\ FirstNewline(e)
          /\ Return(StripCR(IF overflow THEN buf ELSE Take(e - pos - 1)),
                    overflow \/ Overflows(e - pos - 1), e)
          /\ pos' = e + 1
    /\ UNCHANGED <<input, filled, closed, failed>>

\* The chunk has a newline: the line is complete.
EndOfLine ==
    /\ Reading
    /\ \E e \in (pos + 1) .. filled :
          /\ FirstNewline(e)
          /\ Return(StripCR(IF overflow THEN buf ELSE Take(e - pos - 1)),
                    overflow \/ Overflows(e - pos - 1), e)
          /\ pos' = e
    /\ UNCHANGED <<input, filled, closed, failed>>

\* Slip: an overflowing line is given up at once, without draining it.
GiveUpAtOnce ==
    /\ Reading
    /\ pos < filled
    /\ ~HasNewline
    /\ IF Overflows(filled - pos)
       THEN Return(<<>>, TRUE, filled)
       ELSE /\ buf' = Take(filled - pos)
            /\ UNCHANGED <<overflow, out>>
    /\ pos' = filled
    /\ UNCHANGED <<input, filled, closed, failed>>

\* The chunk is a piece of a line: it is kept as far as it fits, and consumed.
MoreOfLine ==
    /\ Reading
    /\ pos < filled
    /\ ~HasNewline
    /\ overflow' = (overflow \/ Overflows(filled - pos))
    /\ buf' = IF overflow THEN buf ELSE Take(filled - pos)
    /\ pos' = filled
    /\ UNCHANGED <<input, filled, out, closed, failed>>

\* Slip: the end of the stream drops an unfinished line.
EndOfStreamDropsRest ==
    /\ Reading
    /\ pos = filled /\ filled = Len(input)
    /\ closed' = TRUE
    /\ UNCHANGED <<input, pos, filled, locals, out, failed>>

\* End of the stream: an unfinished line is returned as it is, then None.
EndOfStream ==
    /\ Reading
    /\ pos = filled /\ filled = Len(input)
    /\ IF buf = <<>> /\ ~overflow
       THEN closed' = TRUE /\ UNCHANGED <<locals, out>>
       ELSE Return(buf, overflow, pos + 1) /\ UNCHANGED closed
    /\ UNCHANGED <<input, pos, filled, failed>>

\* Slip: what there is of a line is returned when the read fails.
ReadFailsReturnsRest ==
    /\ Reading
    /\ pos = filled
    /\ failed' = TRUE
    /\ IF buf = <<>> /\ ~overflow
       THEN UNCHANGED <<locals, out>>
       ELSE Return(buf, overflow, pos + 1)
    /\ UNCHANGED <<input, pos, filled, closed>>

\* fill_buf fails: the call returns the error and drops the line it is in. The
\* read loop ends (client.rs:168-171).
ReadFails ==
    /\ Reading
    /\ pos = filled
    /\ failed' = TRUE
    /\ buf' = <<>>
    /\ overflow' = FALSE
    /\ UNCHANGED <<input, pos, filled, out, closed>>

Next == Receive \/ EndOfLine \/ MoreOfLine \/ EndOfStream \/ ReadFails

Spec == Init /\ [][Next]_vars
-----------------------------------------------------------------------------
TypeOK ==
    /\ input \in Seq(Byte)
    /\ filled \in 0 .. Len(input)
    /\ pos \in 0 .. filled
    /\ buf \in Seq(Byte)
    /\ overflow \in BOOLEAN
    /\ out \in Seq([text : Seq(Byte), end : 1 .. (Len(input) + 1)])
    /\ closed \in BOOLEAN
    /\ failed \in BOOLEAN

\* Whatever a peer sends, a call never holds more than the limit in memory
\* (client.rs:37-44 and 55-62).
BufferBounded == Len(buf) <= max_len

\* The reference: what a line s of the stream is returned as.
ReturnedAs(text, s, terminated) ==
    IF Len(s) > max_len THEN text = <<>>
    ELSE IF terminated /\ s # <<>> /\ s[Len(s)] = CR THEN s = Append(text, CR)
    ELSE text = s

\* Where the line after the first k begins, minus one.
EndOf(k) == IF k = 0 THEN 0 ELSE out[k].end

\* The lines returned are the lines of the stream, one after the other, and
\* nothing else: however the bytes are cut into chunks, a line that is too long
\* is one empty line, none of its bytes come back as a line of their own, and it
\* takes no part of the next one with it (client.rs:36-65).
LinesFaithful ==
    \A k \in DOMAIN out :
        LET from == EndOf(k - 1) + 1
            end  == out[k].end
        IN /\ from <= end
           /\ end <= Len(input) => input[end] = NL
           /\ \A i \in from .. (end - 1) : input[i] # NL
           /\ ReturnedAs(out[k].text, SubSeq(input, from, end - 1), end <= Len(input))

\* None is returned only when no byte of the stream is left without its line
\* (client.rs:27-30).
NothingLeftBehind ==
    closed => \A i \in 1 .. Len(input) : i <= EndOf(Len(out))

\* All of it together, as the read loop sees it: what the calls return is what
\* LineSource allows, step by step. A read that fails in the middle of a line
\* gives out no piece of it (client.rs:19-67 and 121-173).
Source == INSTANCE LineSource
ImplementsLineSource == Source!Spec
=============================================================================
