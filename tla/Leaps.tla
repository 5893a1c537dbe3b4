-------------------------------- MODULE Leaps --------------------------------
(***************************************************************************)
(* The tables of lib/leap-seconds.def and the search in them, lib/leaps.c. *)
(* A table has the last moment before every change of TAI - UTC, between a *)
(* sentinel below and one above everything; they count from 0 as the C     *)
(* arrays do.                                                              *)
(***************************************************************************)
EXTENDS Integers, Sequences, FiniteSets

SECS_PER_DAY == 86400
DAISY_UNIX_BASE == 134775
LEAST == -2147483647
GREATEST == 2147483647

\* The days at whose end TAI - UTC changed: 1971-12-31, when it became 10, and
\* then by a second each.
LeapDays ==
  <<135504, 135686, 135870, 136235, 136600, 136965, 137331, 137696, 138061, 138426,
    138973, 139338, 139703, 140434, 141348, 142079, 142444, 142991, 143356, 143721,
    144270, 144817, 145366, 147923, 149019, 150296, 151391, 151941>>

NLEAPS == Len(LeapDays) + 2

\* A table of moments, between its sentinels.
Table(moments) ==
  [i \in 0 .. NLEAPS - 1 |-> IF i = 0 THEN LEAST ELSE IF i = NLEAPS - 1 THEN GREATEST ELSE moments[i]]

LeapsD == Table(LeapDays)
LeapsS ==
  Table([i \in DOMAIN LeapDays |-> (LeapDays[i] - DAISY_UNIX_BASE) * SECS_PER_DAY + SECS_PER_DAY - 1])

LeapsCorr ==
  [i \in 0 .. NLEAPS - 1 |-> IF i = 0 THEN 10 ELSE IF i = NLEAPS - 1 THEN 37 ELSE 9 + i]

\* Mutant: moments a leap second ends in are counted behind it.
FindBeforeLate(v, key) ==
  CHOOSE i \in 0 .. NLEAPS - 2 : v[i] <= key /\ key < v[i + 1]

\* What find_before() holds: an entry, and the bounds it is looked for within.
Spots == [i : 0 .. NLEAPS - 2, min : 0 .. NLEAPS - 1, max : 0 .. NLEAPS - 1]

Enclosed(v, key, i) == v[i] < key /\ key <= v[i + 1]

Narrowed(v, key, s) ==
  IF key > v[s.i + 1] THEN [i |-> (s.i + s.max) \div 2, min |-> s.i + 1, max |-> s.max]
  ELSE [i |-> (s.i + s.min) \div 2, min |-> s.min, max |-> s.i - 1]

Met(s) == ~(s.max > s.min /\ s.i < NLEAPS)

\* find_before(): the search begins in the middle and ends when its bounds
\* meet, whether or not the key was found between this entry and the next.
FindBefore(v, key) ==
  LET go[s \in Spots] ==
        IF Enclosed(v, key, s.i) THEN s.i
        ELSE IF Met(Narrowed(v, key, s)) THEN Narrowed(v, key, s).i
        ELSE go[Narrowed(v, key, s)]
  IN go[[i |-> (NLEAPS - 1) \div 2, min |-> 0, max |-> NLEAPS - 1]]

\* How many changes there were before a day or a stamp.
ChangesBefore(v, key) == Cardinality({i \in 1 .. NLEAPS - 2 : v[i] < key})
=============================================================================
