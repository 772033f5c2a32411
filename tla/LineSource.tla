----------------------------- MODULE LineSource -----------------------------
(***************************************************************************)
(* What the read loop of a handler may expect of read_line_bounded         *)
(* (src/src/client.rs): each call returns the next line of the peer's      *)
(* stream, and a call returns None once there is none left, or fails once  *)
(* and for all. Chunks, buffers and the draining of long lines do not      *)
(* exist here.                                                             *)
(***************************************************************************)
EXTENDS Integers, Sequences

CONSTANTS NL, CR, Byte, max_len

VARIABLES
    input,   \* all the peer ever sends
    out,     \* the lines returned, each with the place in the stream it ends at
    closed,  \* a call returned None
    failed   \* a call returned an error

lineVars == <<input, out, closed, failed>>

Init == input \in Seq(Byte) /\ out = <<>> /\ closed = FALSE /\ failed = FALSE

EndOf(k) == IF k = 0 THEN 0 ELSE out[k].end

\* What a line s is returned as: empty when it is too long, without the
\* carriage return before its newline.
Returned(s, terminated) ==
    IF Len(s) > max_len THEN <<>>
    ELSE IF terminated /\ s # <<>> /\ s[Len(s)] = CR THEN SubSeq(s, 1, Len(s) - 1)
    ELSE s

\* The line from the end of the last one to the next newline, or to the end of
\* the stream.
NextLine ==
    /\ ~closed /\ ~failed
    /\ \E end \in 1 .. Len(input) + 1 :
          LET from == EndOf(Len(out)) + 1
              line == SubSeq(input, from, end - 1)
          IN  /\ from <= end
              /\ end <= Len(input) => input[end] = NL
              /\ \A i \in from .. (end - 1) : input[i] # NL
              /\ out' = Append(out, [text |-> Returned(line, end <= Len(input)), end |-> end])
    /\ UNCHANGED <<input, closed, failed>>

None ==
    /\ ~closed /\ ~failed
    /\ Len(input) <= EndOf(Len(out))
    /\ closed' = TRUE
    /\ UNCHANGED <<input, out, failed>>

\* The connection breaks: the rest of the stream is lost.
Fail ==
    /\ ~closed /\ ~failed
    /\ failed' = TRUE
    /\ UNCHANGED <<input, out, closed>>

Spec == Init /\ [][NextLine \/ None \/ Fail]_lineVars
=============================================================================
