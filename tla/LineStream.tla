----------------------------- MODULE LineStream -----------------------------
(***************************************************************************)
(* What the line reader of dateutils promises to the tools: the lines of   *)
(* the input come out in order, each exactly once, and the stream ends     *)
(* only when all of them are out.  Prchunk.tla is the detailed reader.     *)
(***************************************************************************)
EXTENDS Naturals, Sequences

VARIABLES
  input,    \* the lines of all readable files, in command line order
  output,   \* the lines handed to the tool so far
  closed    \* the tool has left its reading loop

vars == <<input, output, closed>>

Init ==
  /\ output = << >>
  /\ closed = FALSE

Deliver ==
  /\ ~closed
  /\ Len(output) < Len(input)
  /\ output' = Append(output, input[Len(output) + 1])
  /\ UNCHANGED <<input, closed>>

Close ==
  /\ ~closed
  /\ output = input
  /\ closed' = TRUE
  /\ UNCHANGED <<input, output>>

Next == Deliver \/ Close

Spec == Init /\ [][Next]_vars
=============================================================================
