--------------------------- MODULE PrchunkStream ----------------------------
(***************************************************************************)
(* The reader of Prchunk.tla implements the line stream of LineStream.tla: *)
(* the lines are those a reader of the whole file at once would find.      *)
(***************************************************************************)
EXTENDS Prchunk, FiniteSets

\* The bytes of f at which a line ends: the newlines, and the last byte.
Ends(f) == {p \in DOMAIN f : f[p] = NL \/ p = Len(f)}

\* Where the line that ends at p begins.
Begin(f, p) == CHOOSE q \in 1 .. p : (q = 1 \/ f[q - 1] = NL) /\ \A r \in q .. p - 1 : f[r] # NL

\* A terminated line loses one \r before its newline.
LineAt(f, p) ==
  LET q == Begin(f, p)
  IN IF f[p] # NL THEN SubSeq(f, q, p)
     ELSE IF p > q /\ f[p - 1] = CR THEN SubSeq(f, q, p - 2)
     ELSE SubSeq(f, q, p - 1)

\* The ends of all lines of a command line, and those up to byte p of file k.
LineEnds(a, k) == IF a[k].kind = "file" THEN {k} \X Ends(a[k].data) ELSE {}
AllEnds(a) == UNION {LineEnds(a, k) : k \in DOMAIN a}
Upto(a, k, p) == {e \in AllEnds(a) : e[1] < k \/ (e[1] = k /\ e[2] <= p)}

\* The n-th line is the one with n ends up to its own.
EndOf(a, n) == CHOOSE e \in AllEnds(a) : Cardinality(Upto(a, e[1], e[2])) = n
Lines(a) == [n \in 1 .. Cardinality(AllEnds(a)) |-> LineAt(a[EndOf(a, n)[1]].data, EndOf(a, n)[2])]

\* Evaluated once for each command line.
LinesOf == [a \in Argv |-> Lines(a)]

\* The command lines the reader gets right: the last line of every file is
\* terminated, but for a first file with no more lines than end a fill.
Ended(f) == f = << >> \/ f[Len(f)] = NL
OneFill(a) == Cardinality(LineEnds(a, 1)) <= MAX_NLINES
Handled == {a \in Argv : \A k \in DOMAIN a : Ended(a[k].data) \/ (k = 1 /\ OneFill(a))}

\* However read(2) cuts such files up, the tool is given exactly their lines,
\* in order and once each, and leaves its loop only behind the last one.
Stream == INSTANCE LineStream WITH
  input <- IF argv \in Handled THEN LinesOf[argv] ELSE << >>,
  output <- IF argv \in Handled THEN out ELSE << >>,
  closed <- pc = "done"

StreamSpec == Stream!Spec

\* The lines the tool has are always the first of the lines there are: none is
\* skipped, doubled, cut or made up, also in the middle of the run.
Faithful == Len(out) <= Len(LinesOf[argv]) /\ out = SubSeq(LinesOf[argv], 1, Len(out))

\* A tool that comes to its end has been given every line: "the second
\* condition is to allow unterminated last lines" (prchunk_haslinep()), and
\* "Sort contents of FILE chronologically" for each FILE (dsort).
Complete == pc = "done" => out = LinesOf[argv]
=============================================================================
