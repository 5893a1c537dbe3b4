---------------------------- MODULE MCDsortPipe -----------------------------
(* Lines are numbers, their date is the number's tens.  Two lines have none, *)
(* so sort's -u keeps one of them.                                          *)
EXTENDS DsortPipeProofs, SequencesExt

CONSTANT Unique

MCMissing == 0
MCLines == {1, 2, 11, 12, 21, 31}
MCInputs == {<<>>, <<21>>, <<MCMissing>>, <<31, 21, 11>>, <<31, MCMissing, 2>>, <<2, 1, 21>>, <<MCMissing, 21, 12, 11>>}

Date(l) == l \div 10

\* sort -t '\001' -k2, ties by the line itself, with -u the first of each date
MCSorted(lines) ==
  LET Keeps(i) == Unique => \A j \in 1 .. i - 1 : Date(lines[j]) # Date(lines[i])
      kept == {i \in DOMAIN lines : Keeps(i)}
      Before(i, j) == lines[i] < lines[j] \/ (lines[i] = lines[j] /\ i < j)
  IN [n \in 1 .. Cardinality(kept) |-> lines[SetToSortSeq(kept, Before)[n]]]

MCMishaps == {"spawn", "exec", "fail", "kill"} \X Child \cup {<<"kill", "dsort">>}

=============================================================================
