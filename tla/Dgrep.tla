-------------------------------- MODULE Dgrep --------------------------------
(***************************************************************************)
(* dgrep, src/dgrep.c: an expression is parsed, brought to a normal form   *)
(* node by node, matched with the date-times of each line, and freed.      *)
(* Expressions are written as the parser reduces them, operands first;     *)
(* lines are the date-times the reader finds on them.                      *)
(***************************************************************************)
EXTENDS Dexpr

CONSTANTS
  Jobs          \* command lines with the lines they read

VARIABLES
  job,          \* the command line
  pc,
  heap,         \* the nodes of the expression
  root,
  stack,        \* of the parser nodes, then of what the recursions have left
  freed,        \* the nodes that were freed
  lno,          \* the line under way
  k,            \* and the date-time on it
  out,          \* history: what was printed
  rc

vars == <<job, pc, heap, root, stack, freed, lno, k, out, rc>>

Call(name, n) == [do |-> name, n |-> n]
Push(calls) == calls \o Tail(stack)

Init ==
  /\ job \in Jobs
  /\ pc = "parse" /\ heap = <<>> /\ root = 0 /\ stack = <<>> /\ freed = {}
  /\ lno = 1 /\ k = 1 /\ out = <<>> /\ rc = 0

-----------------------------------------------------------------------------
(* Parsing. *)

\* A reduction of the parser: a comparison, a junction of the last two, a
\* negation of the last.  A second one changes nothing.
Reduce ==
  /\ pc = "parse" /\ k <= Len(job.expr)
  /\ LET tok == job.expr[k]
         n == Len(heap) + 1
     IN CASE tok.tok = "exp" ->
               heap' = Append(heap, Val(tok.kv)) /\ stack' = <<n>> \o stack
          [] tok.tok = "not" ->
               heap' = [heap EXCEPT ![Head(stack)].nega = TRUE] /\ UNCHANGED stack
          [] OTHER ->
               /\ heap' = Append(heap, Junction(tok.tok, stack[2], stack[1]))
               /\ stack' = <<n>> \o SubSeq(stack, 3, Len(stack))
  /\ k' = k + 1
  /\ UNCHANGED <<job, pc, root, freed, lno, out, rc>>

\* An operator given as an option, of a single comparison only; and the zone,
\* without which the expression is just freed.
Options ==
  /\ pc = "parse" /\ k > Len(job.expr)
  /\ root' = Head(stack)
  /\ k' = 1
  /\ LET complex == job.opt # OP_UNK /\ heap[Head(stack)].type # "val"
         lost == job.zoned = "unknown"
     IN /\ rc' = One(complex \/ lost)
        /\ pc' = IF complex THEN "done" ELSE IF lost THEN "clear" ELSE "denega"
        /\ stack' = IF complex THEN <<>> ELSE <<Call(pc', root')>>
        /\ heap' = IF job.opt # OP_UNK /\ ~complex THEN [heap EXCEPT ![root'].kv.op = job.opt] ELSE heap
  /\ UNCHANGED <<job, freed, lno, out>>

-----------------------------------------------------------------------------
(* dexpr_simplify(), one call after the other. *)

Denega ==
  /\ pc = "denega" /\ stack # <<>>
  /\ LET n == Head(stack).n
     IN /\ heap' = DenegaNode(heap, n)
        /\ stack' = Push(IF heap[n].type = "val" THEN <<>>
                         ELSE <<Call("denega", heap[n].left), Call("denega", heap[n].right)>>)
  /\ UNCHANGED <<job, pc, root, freed, lno, k, out, rc>>

Denegated ==
  /\ pc = "denega" /\ stack = <<>>
  /\ pc' = "dnf" /\ stack' = <<Call("down", root)>>
  /\ UNCHANGED <<job, heap, root, freed, lno, k, out, rc>>

\* The sides of a node are looked up only when it is their turn.
Down(n) ==
  /\ heap' = Distribute(heap, n)
  /\ stack' = Push(IF heap[n].type = "val" THEN <<>> ELSE <<Call("down", heap'[n].left), Call("right", n)>>)

Right(n) ==
  /\ stack' = Push(<<Call("down", heap[n].right), Call("up", n)>>)
  /\ UNCHANGED heap

\* Mutant: a node is done again as long as there are disjunctions below it.
UpAgain(n) ==
  /\ heap' = Rotate(heap, n)
  /\ stack' = Push(IF heap[heap[n].right].type = "disj" THEN <<Call("down", n)>> ELSE <<>>)

Up(n) ==
  /\ heap' = Rotate(heap, n)
  /\ stack' = Tail(stack)

Dnf ==
  /\ pc = "dnf" /\ stack # <<>>
  /\ LET n == Head(stack).n
     IN CASE Head(stack).do = "down" -> Down(n)
          [] Head(stack).do = "right" -> Right(n)
          [] Head(stack).do = "up" -> Up(n)
  /\ UNCHANGED <<job, pc, root, freed, lno, k, out, rc>>

Simplified ==
  /\ pc = "dnf" /\ stack = <<>>
  /\ pc' = "grep"
  /\ UNCHANGED <<job, heap, root, stack, freed, lno, k, out, rc>>

-----------------------------------------------------------------------------
(* proc_line() *)

Line == job.lines[lno]
InZone(x) == IF job.zoned = "no" THEN x ELSE DtzEnrichz(x, job.zone)
Output(date) == out' = Append(out, [line |-> lno, date |-> date])
NextLine == lno' = lno + 1 /\ k' = 1

\* One date-time of a line: the first that matches decides.
Date ==
  /\ pc = "grep" /\ lno <= Len(job.lines) /\ k <= Len(Line)
  /\ IF DexprMatches(heap, root, InZone(Line[k]))
       THEN /\ IF job.invert THEN UNCHANGED out ELSE Output(IF job.only THEN k ELSE 0)
            /\ NextLine
     ELSE k' = k + 1 /\ UNCHANGED <<lno, out>>
  /\ UNCHANGED <<job, pc, heap, root, stack, freed, rc>>

\* Mutant: the first date-time is printed for the last.
EndOfLineAny ==
  /\ pc = "grep" /\ lno <= Len(job.lines) /\ k > Len(Line)
  /\ IF ~job.invert \/ (job.only /\ Line = <<>>) THEN UNCHANGED out
     ELSE Output(IF job.only THEN 1 ELSE 0)
  /\ NextLine
  /\ UNCHANGED <<job, pc, heap, root, stack, freed, rc>>

\* No more of them: the line is one that was not to match, or the last of its
\* date-times is if there is one.
EndOfLine ==
  /\ pc = "grep" /\ lno <= Len(job.lines) /\ k > Len(Line)
  /\ IF ~job.invert \/ (job.only /\ Line = <<>>) THEN UNCHANGED out
     ELSE Output(IF job.only THEN Len(Line) ELSE 0)
  /\ NextLine
  /\ UNCHANGED <<job, pc, heap, root, stack, freed, rc>>

EndOfInput ==
  /\ pc = "grep" /\ lno > Len(job.lines)
  /\ pc' = "clear" /\ stack' = <<Call("clear", root)>>
  /\ UNCHANGED <<job, heap, root, freed, lno, k, out, rc>>

-----------------------------------------------------------------------------
(* free_dexpr(): all but the root.  What is left in a node that was freed is *)
(* anybody's guess, and freeing it again makes the program abort or not; what *)
(* was printed and not written is lost if it does.                           *)

Clear ==
  /\ pc = "clear" /\ stack # <<>>
  /\ LET n == Head(stack).n
         l == heap[n].left
         r == heap[n].right
     IN IF Head(stack).do = "free"
          THEN /\ freed' = freed \union {n} /\ stack' = Tail(stack)
               /\ IF n \in freed THEN \/ pc' = "aborted" /\ out' = <<>>
                                      \/ UNCHANGED <<pc, out>>
                                 ELSE UNCHANGED <<pc, out>>
        ELSE /\ stack' = Push(IF heap[n].type = "val" \/ n \in freed THEN <<>>
                              ELSE <<Call("clear", l), Call("free", l), Call("clear", r), Call("free", r)>>)
             /\ UNCHANGED <<pc, freed, out>>
  /\ UNCHANGED <<job, heap, root, lno, k, rc>>

Cleared ==
  /\ pc = "clear" /\ stack = <<>>
  /\ pc' = "done"
  /\ UNCHANGED <<job, heap, root, stack, freed, lno, k, out, rc>>

Next ==
  \/ Reduce \/ Options \/ Denega \/ Denegated \/ Dnf \/ Simplified
  \/ Date \/ EndOfLine \/ EndOfInput \/ Clear \/ Cleared

Spec == Init /\ [][Next]_vars /\ WF_vars(Next)

-----------------------------------------------------------------------------
(* Properties. *)

Nodes == DOMAIN heap

\* No node is below itself, the recursions come to comparisons.
Grounded ==
  LET go[j \in 0 .. Len(heap)] ==
        IF j = 0 THEN {}
        ELSE LET so_far == go[j - 1]
             IN {n \in Nodes : heap[n].type = "val" \/ {heap[n].left, heap[n].right} \subseteq so_far}
  IN go[Len(heap)] = Nodes

TypeOK ==
  /\ Grounded
  /\ pc \in {"parse", "denega", "dnf", "grep", "clear", "done", "aborted"}
  /\ \A n \in Nodes :
       /\ heap[n].type \in {"val", "conj", "disj"} /\ heap[n].nega \in BOOLEAN
       /\ heap[n].type # "val" => heap[n].left \in Nodes /\ heap[n].right \in Nodes
       /\ heap[n].kv.op \in 0 .. 7
  /\ freed \subseteq Nodes /\ rc \in 0 .. 1

\* What an expression says of a date-time, from the words of dgrep.yuck: date-
\* times are older, equal or newer, specifiers less, equal or more.  yes is
\* that it holds, no that it does not, neither that the two do not compare.
Field(sp, n, d, w, yd) ==
  CASE sp = "year" -> d.y
    [] sp = "mon" -> d.m
    [] sp = "mday" -> d.d
    [] sp = "wday" -> w
    [] sp = "wcnt_mon" -> (d.d + 6) \div 7
    [] sp = "yday" -> yd
    [] sp = "C" -> (yd + 6) \div 7
    [] sp = "V" -> (DaisyGetYday(n - w + THURSDAY) + 6) \div 7
    [] sp = "W" -> (yd + 7 - w) \div 7
    [] sp = "U" -> (yd + 6 - (w % 7)) \div 7

Seconds(x) == SecsSinceMidnight(x.t)
Ahead(kv, x, day) ==
  IF kv.sp # "std" THEN Field(kv.sp, day, DaisyToYmd(day), DaisyGetWday(day), DaisyGetYday(day)) - kv.s
  ELSE (IF OnlyTP(kv.d) THEN 0 ELSE (day - ConvToDaisy(kv.d.d)) * SECS_PER_DAY)
       + (IF OnlyDP(kv.d) THEN 0 ELSE Seconds(x) - Seconds(kv.d))
Operator(op) == IF job.opt # OP_UNK THEN job.opt ELSE OrElse(op, OP_EQ)
Answer(comparable, holds) == [yes |-> comparable /\ holds, no |-> comparable /\ ~holds]
Says(kv, x) ==
  Answer(kv.sp # "std" \/ x.typ = kv.d.typ \/ OnlyTP(kv.d),
         Holds(Operator(kv.op), Sgn(Ahead(kv, x, ConvToDaisy(x.d)))))

\* The value of an expression, operands first.
Value(x, s, tok) ==
  CASE tok.tok = "exp" -> <<Says(tok.kv, x)>> \o s
    [] tok.tok = "not" -> <<[yes |-> s[1].no, no |-> s[1].yes]>> \o Tail(s)
    [] tok.tok = "conj" -> <<[yes |-> s[1].yes /\ s[2].yes, no |-> s[1].no \/ s[2].no]>> \o Tail(Tail(s))
    [] tok.tok = "disj" -> <<[yes |-> s[1].yes \/ s[2].yes, no |-> s[1].no /\ s[2].no]>> \o Tail(Tail(s))
Meaning(x) == FoldLeft(LAMBDA s, tok : Value(x, s, tok), <<>>, job.expr)[1].yes

\* What the matcher reads: disjunctions to the right, of conjunctions to the
\* right, of comparisons.
NormalForm ==
  \A t \in Members(heap, "disj", root) : \A f \in Members(heap, "conj", t) : heap[f].type = "val"

\* Up to two operators in any order, but for one conjunction after the other.
Junctions == {j \in DOMAIN job.expr : job.expr[j].tok \in {"conj", "disj"}}
InARow == \E j \in Junctions : job.expr[j].tok = "conj" /\ \E i \in Junctions : i < j /\ job.expr[i].tok = "conj"
Short == Cardinality(Junctions) <= 2 /\ ~InARow

\* dexpr_simplify(), "bring dexpr to normal form": a short expression comes out
\* in the form the matcher reads, and any expression in that form matches the
\* same date-times as the one that was written, though it shares what it was
\* made of.  Not so negated disjunctions, comparisons without an operator that
\* are negated, and specifiers that are less or more.
Kept(x) == DexprMatches(heap, root, x) <=> Meaning(x)
MeaningIsKept ==
  pc = "grep" =>
    /\ Short => NormalForm
    /\ NormalForm => \A j \in DOMAIN job.lines : \A i \in DOMAIN job.lines[j] : Kept(InZone(job.lines[j][i]))

\* dgrep.yuck: "If multiple date/times occur on the same line and any one of
\* them fulfills the criteria then the line is considered a match and will be
\* output", with -v the other lines are; with -o just the first that does, or
\* the last that does not.
Wanted(j, size, hits) ==
  IF hits = {} /\ job.invert /\ ~(job.only /\ size = 0) THEN <<[line |-> j, date |-> IF job.only THEN size ELSE 0]>>
  ELSE IF hits # {} /\ ~job.invert THEN <<[line |-> j, date |-> IF job.only THEN Min(hits) ELSE 0]>>
  ELSE <<>>
WantedOf(j) == Wanted(j, Len(job.lines[j]), {i \in DOMAIN job.lines[j] : Meaning(InZone(job.lines[j][i]))})
Printed(j) == FlattenSeq([i \in 1 .. j |-> WantedOf(i)])

LinesAreRight == pc = "grep" /\ k = 1 /\ NormalForm => out = Printed(lno - 1)

\* However often nodes are shared and rotated, the recursions end, and so does
\* the program.
Terminates == <>(pc \in {"done", "aborted"})

-----------------------------------------------------------------------------
(* What documents and comments say and the code does not do.  MCFour,       *)
(* MCNegated, MCThree, MCReversed, MCBare and MCShared are command lines    *)
(* that show it; the README tells the counterexamples.                      *)

\* dgrep.yuck: "EXPRESSION may be statements as described above concatenated
\* through `&&' (for conjunction) or `||' (disjunction)", however many.
AnyExpressionIsGrepped == pc = "grep" /\ k = 1 => out = Printed(lno - 1)

\* Every node is freed once.
FreedOnce == pc # "aborted"
=============================================================================
