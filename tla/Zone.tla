-------------------------------- MODULE Zone --------------------------------
(***************************************************************************)
(* The table of a time zone as zif_open() of lib/tzraw.c leaves it, the    *)
(* accessors everything else goes through, and what it means for an offset *)
(* to be the right one.  Stamps are seconds, offsets are added to UTC.     *)
(***************************************************************************)
EXTENDS Integers

CONSTANTS STAMP_MIN, STAMP_MAX    \* -2^47 and 2^47 - 1

ASSUME StampType == STAMP_MIN \in Int /\ STAMP_MAX \in Int /\ STAMP_MIN < STAMP_MAX

Stamp == STAMP_MIN + 1 .. STAMP_MAX - 1

\* ntr transitions in ascending order, each to one of nty offsets.  A file has
\* at least one offset, also where it has no transition.
IsZone(z) ==
  /\ z.ntr \in Nat
  /\ z.nty \in Nat \ {0}
  /\ z.trs \in [0 .. z.ntr - 1 -> Stamp]
  /\ z.tys \in [0 .. z.ntr - 1 -> 0 .. z.nty - 1]
  /\ z.ofs \in [0 .. z.nty - 1 -> Int]
  /\ \A i, j \in 0 .. z.ntr - 1 : i < j => z.trs[i] < z.trs[j]

ZifTrans(z, n) ==
  IF z.ntr = 0 \/ n < 0 THEN STAMP_MIN
  ELSE IF n >= z.ntr THEN z.trs[z.ntr - 1]
  ELSE z.trs[n]

ZifType(z, n) ==
  IF z.ntr = 0 \/ n < 0 THEN 0
  ELSE IF n >= z.ntr THEN z.tys[z.ntr - 1]
  ELSE z.tys[n]

ZifTrOffs(z, n) == z.ofs[ZifType(z, n)]

\* The n-th transition is the last one at or before t.  "Assume the first
\* offset has always been there", __find_zrng() says of the time before.
Rules(z, n, t) ==
  \/ n = 0 /\ (z.ntr = 0 \/ t < z.trs[0])
  \/ /\ n \in 0 .. z.ntr - 1
     /\ z.trs[n] <= t
     /\ n + 1 < z.ntr => t < z.trs[n + 1]

\* x is the offset in force at t.
Right(z, t, x) == \E n \in 0 .. z.ntr : Rules(z, n, t) /\ x = ZifTrOffs(z, n)
=============================================================================
