---------------------------- MODULE TzrawProofs -----------------------------
(***************************************************************************)
(* For every zone and every sequence of lookups: as long as the searches   *)
(* are ones the code provides for, what is remembered is true, the answers *)
(* are right and every turn of the search narrows it.                      *)
(***************************************************************************)
EXTENDS Tzraw, TLAPS

\* A range that __find_zrng() has found around a transition.
IsRange(r) ==
  \/ z.ntr = 0 /\ r = Zrange(STAMP_MIN, STAMP_MAX, ZifTrOffs(z, 0), 0)
  \/ \E n \in 0 .. z.ntr - 1 :
       r = Zrange(z.trs[n], IF n + 1 < z.ntr THEN z.trs[n + 1] ELSE STAMP_MAX, ZifTrOffs(z, n), n)

Remembered == handled => cache = Fresh \/ IsRange(cache)

\* The search is one the code provides for.
Asked ==
  handled /\ pc \in {"find", "probe", "zrng"} =>
    /\ t \in Stamp /\ z.ntr <= TRNO_MOD
    /\ z.ntr > 0 => t >= z.trs[0] /\ t # z.trs[z.ntr - 1]

\* min and max enclose the transition looked for.
Enclosed ==
  /\ handled /\ pc = "find" =>
       /\ z.ntr = 0 => max = 0
       /\ z.ntr > 0 => max \in 1 .. z.ntr /\ t >= ZifTrans(z, min) /\ (max < z.ntr => t < z.trs[max])
  /\ handled /\ pc = "probe" =>
       /\ z.ntr > 0 /\ max \in 1 .. z.ntr /\ min < max
       /\ t >= ZifTrans(z, min) /\ t < ZifTrans(z, max)
  /\ pc = "find" /\ op = "zrng" => min = 0 /\ max = z.ntr

Hit ==
  pc = "zrng" /\ (handled \/ op = "zrng") =>
    \/ trno = -1 /\ (z.ntr = 0 \/ (op = "zrng" /\ t < z.trs[0]))
    \/ trno \in 0 .. z.ntr - 1 /\ Rules(z, trno, t) /\ z.trs[trno] <= t

\* Where zif_utc_time() and zif_local_time() are.
Iterates ==
  /\ pc # "idle" => op \in {"local", "utc", "zrng"}
  /\ pc = "offs" => op # "zrng"
  /\ pc # "idle" /\ op \in {"local", "zrng"} => t = arg
  /\ pc # "idle" /\ op = "utc" =>
       /\ t = arg - xi
       /\ xi = 0 \/ xi = old
       /\ handled /\ xi = old => Right(z, arg, xi)

\* Between calls the locals are as zif_utc_time() sets them.
Rested == pc = "idle" => xi = 0 /\ old = -1

Answers == LocalRight /\ ZrngRight /\ UtcRight

IInv == TypeOK /\ Remembered /\ Asked /\ Enclosed /\ Hit /\ Iterates /\ Rested /\ Answers

-----------------------------------------------------------------------------
(* About the table. *)

\* What a zone file holds.
LEMMA ZoneFacts ==
  ASSUME NEW zz, IsZone(zz)
  PROVE  /\ zz.ntr \in Nat /\ zz.nty \in Nat \ {0}
         /\ \A a \in 0 .. zz.ntr - 1 : zz.trs[a] \in Stamp /\ zz.trs[a] \in Int
         /\ \A a \in 0 .. zz.ntr - 1 : zz.tys[a] \in 0 .. zz.nty - 1
         /\ \A a \in 0 .. zz.nty - 1 : zz.ofs[a] \in Int
         /\ \A a, b \in 0 .. zz.ntr - 1 : a <= b => zz.trs[a] <= zz.trs[b]
         /\ \A a, b \in 0 .. zz.ntr - 1 : a < b => zz.trs[a] < zz.trs[b]
  <1>1. zz.ntr \in Nat /\ zz.nty \in Nat \ {0}
    BY DEF IsZone
  <1>2. \A a \in 0 .. zz.ntr - 1 : zz.trs[a] \in Stamp
    BY DEF IsZone
  <1>3. \A s \in Stamp : s \in Int
    BY StampType DEF Stamp
  <1>4. \A a \in 0 .. zz.ntr - 1 : zz.tys[a] \in 0 .. zz.nty - 1
    BY DEF IsZone
  <1>5. \A a \in 0 .. zz.nty - 1 : zz.ofs[a] \in Int
    BY DEF IsZone
  <1>6. \A a, b \in 0 .. zz.ntr - 1 : a < b => zz.trs[a] < zz.trs[b]
    BY DEF IsZone
  <1>7. \A a, b \in 0 .. zz.ntr - 1 : a <= b => zz.trs[a] <= zz.trs[b]
    BY <1>1, <1>2, <1>3, <1>6
  <1> QED BY <1>1, <1>2, <1>3, <1>4, <1>5, <1>6, <1>7

\* The accessors return stamps and offsets of the table, also outside it.
LEMMA TableType ==
  ASSUME NEW zz, IsZone(zz), NEW n \in Int
  PROVE  /\ ZifTrans(zz, n) \in Int
         /\ \E k \in 0 .. zz.nty - 1 : ZifTrOffs(zz, n) = zz.ofs[k]
         /\ ZifTrOffs(zz, n) \in Int
  <1>1. ZifTrans(zz, n) \in Int
    <2>1. zz.ntr \in Nat /\ \A a \in 0 .. zz.ntr - 1 : zz.trs[a] \in Int
      BY ZoneFacts
    <2>2. CASE zz.ntr = 0 \/ n < 0
      BY <2>2, StampType DEF ZifTrans
    <2>3. CASE zz.ntr # 0 /\ n >= zz.ntr
      BY <2>1, <2>3 DEF ZifTrans
    <2>4. CASE zz.ntr # 0 /\ n \in 0 .. zz.ntr - 1
      BY <2>1, <2>4 DEF ZifTrans
    <2> QED BY <2>1, <2>2, <2>3, <2>4
  <1>2. ZifType(zz, n) \in 0 .. zz.nty - 1
    <2>1. zz.ntr \in Nat /\ zz.nty \in Nat \ {0}
      BY ZoneFacts
    <2>2. \A i \in 0 .. zz.ntr - 1 : zz.tys[i] \in 0 .. zz.nty - 1
      BY ZoneFacts
    <2>3. 0 \in 0 .. zz.nty - 1
      BY <2>1
    <2>4. CASE zz.ntr = 0 \/ n < 0
      BY <2>3, <2>4 DEF ZifType
    <2>5. CASE zz.ntr # 0 /\ n >= zz.ntr
      BY <2>1, <2>2, <2>5 DEF ZifType
    <2>6. CASE zz.ntr # 0 /\ n \in 0 .. zz.ntr - 1
      BY <2>1, <2>2, <2>6 DEF ZifType
    <2> QED BY <2>1, <2>4, <2>5, <2>6
  <1>3. \A k \in 0 .. zz.nty - 1 : zz.ofs[k] \in Int
    BY ZoneFacts
  <1> QED BY <1>1, <1>2, <1>3 DEF ZifTrOffs

\* Transitions ascend, and zif_trans() clamps both ends.
LEMMA TransMono ==
  ASSUME NEW zz, IsZone(zz), zz.ntr > 0, NEW i \in Nat, NEW j \in Nat, i <= j
  PROVE  ZifTrans(zz, i) <= ZifTrans(zz, j)
  <1>1. zz.ntr \in Nat /\ \A a \in 0 .. zz.ntr - 1 : zz.trs[a] \in Int
    BY ZoneFacts
  <1>2. \A a, b \in 0 .. zz.ntr - 1 : a <= b => zz.trs[a] <= zz.trs[b]
    BY ZoneFacts
  <1>3. CASE j < zz.ntr
    <2>1. ZifTrans(zz, i) = zz.trs[i] /\ ZifTrans(zz, j) = zz.trs[j]
      BY <1>1, <1>3 DEF ZifTrans
    <2>2. i \in 0 .. zz.ntr - 1 /\ j \in 0 .. zz.ntr - 1
      BY <1>1, <1>3
    <2> QED BY <1>2, <2>1, <2>2
  <1>4. CASE j >= zz.ntr /\ i < zz.ntr
    <2>1. ZifTrans(zz, i) = zz.trs[i] /\ ZifTrans(zz, j) = zz.trs[zz.ntr - 1]
      BY <1>1, <1>4 DEF ZifTrans
    <2>2. i \in 0 .. zz.ntr - 1 /\ zz.ntr - 1 \in 0 .. zz.ntr - 1 /\ i <= zz.ntr - 1
      BY <1>1, <1>4
    <2> QED BY <1>2, <2>1, <2>2
  <1>5. CASE i >= zz.ntr
    <2>1. ZifTrans(zz, i) = zz.trs[zz.ntr - 1] /\ ZifTrans(zz, j) = zz.trs[zz.ntr - 1]
      BY <1>1, <1>5 DEF ZifTrans
    <2>2. zz.ntr - 1 \in 0 .. zz.ntr - 1
      BY <1>1
    <2> QED BY <1>1, <2>1, <2>2
  <1> QED BY <1>1, <1>3, <1>4, <1>5

\* One transition rules a stamp.
LEMMA OneRules ==
  ASSUME NEW zz, IsZone(zz), NEW s \in Int, NEW m, NEW n, Rules(zz, m, s), Rules(zz, n, s)
  PROVE  m = n
  <1>1. zz.ntr \in Nat /\ \A a \in 0 .. zz.ntr - 1 : zz.trs[a] \in Int
    BY ZoneFacts
  <1>2. \A a, b \in 0 .. zz.ntr - 1 : a <= b => zz.trs[a] <= zz.trs[b]
    BY ZoneFacts
  <1>3. ASSUME NEW a, NEW b, Rules(zz, a, s), Rules(zz, b, s), a \in Int, b \in Int, a < b
        PROVE  FALSE
    <2>a. a \in Nat
      BY <1>1, <1>3 DEF Rules
    <2>b. b # 0
      BY <1>3, <2>a
    <2>1. a \in Nat /\ b \in 0 .. zz.ntr - 1 /\ zz.trs[b] <= s
      BY <1>3, <2>a, <2>b DEF Rules
    <2>2. CASE a = 0 /\ s < zz.trs[0]
      <3>1. zz.trs[0] <= zz.trs[b]
        BY <1>1, <1>2, <2>1
      <3>2. 0 \in 0 .. zz.ntr - 1
        BY <1>1, <2>1
      <3> QED BY <1>1, <2>1, <2>2, <3>1, <3>2
    <2>3. CASE s < zz.trs[a + 1]
      <3>1. a + 1 \in 0 .. zz.ntr - 1 /\ a + 1 <= b
        BY <1>1, <2>1, <1>3
      <3>2. zz.trs[a + 1] <= zz.trs[b] /\ zz.trs[a + 1] \in Int /\ zz.trs[b] \in Int
        BY <1>1, <1>2, <2>1, <3>1
      <3> QED BY <2>1, <2>3, <3>2
    <2>4. a + 1 < zz.ntr
      BY <1>1, <1>3, <2>1
    <2>5. (a = 0 /\ (zz.ntr = 0 \/ s < zz.trs[0])) \/ (a + 1 < zz.ntr => s < zz.trs[a + 1])
      BY <1>3 DEF Rules
    <2> QED BY <1>1, <2>2, <2>3, <2>4, <2>5
  <1>4. m \in Int /\ n \in Int
    BY <1>1 DEF Rules
  <1>5. m < n \/ n < m \/ m = n
    BY <1>4
  <1> QED BY <1>3, <1>4, <1>5

\* In a calm zone two stamps with a transition between those that rule them
\* are further apart than any two offsets reach together.
LEMMA Far ==
  ASSUME NEW zz, IsZone(zz), Calm(zz),
         NEW a, NEW b, NEW c, NEW s \in Int, NEW u \in Int,
         Rules(zz, a, s), Rules(zz, c, u), b \in Int, a < b, b < c,
         NEW i \in 0 .. zz.nty - 1, NEW j \in 0 .. zz.nty - 1
  PROVE  /\ u - s > zz.ofs[i] + zz.ofs[j] /\ u - s > zz.ofs[i] - zz.ofs[j]
         /\ u - s > zz.ofs[j] - zz.ofs[i] /\ u - s > -(zz.ofs[i] + zz.ofs[j])
  <1>1. zz.ntr \in Nat /\ zz.ofs[i] \in Int /\ zz.ofs[j] \in Int
    BY ZoneFacts
  <1>2. a \in Nat /\ c \in Nat
    BY <1>1 DEF Rules
  <1>3. c # 0
    BY <1>2
  <1>4. c \in 0 .. zz.ntr - 1 /\ zz.trs[c] <= u
    BY <1>3 DEF Rules
  <1>5. b \in 0 .. zz.ntr - 1 /\ a + 1 \in 0 .. zz.ntr - 1 /\ a + 1 <= b /\ 0 \in 0 .. zz.ntr - 1
    BY <1>1, <1>2, <1>4
  <1>6. /\ zz.trs[b] \in Int /\ zz.trs[c] \in Int /\ zz.trs[a + 1] \in Int /\ zz.trs[0] \in Int
        /\ zz.trs[a + 1] <= zz.trs[b] /\ zz.trs[0] <= zz.trs[b]
    <2>1. 0 <= b
      BY <1>5
    <2> QED BY <1>4, <1>5, <2>1, ZoneFacts
  <1>7. s < zz.trs[b]
    <2>1. CASE s < zz.trs[0]
      BY <2>1, <1>6
    <2>2. CASE s < zz.trs[a + 1]
      BY <2>2, <1>6
    <2>3. s < zz.trs[0] \/ s < zz.trs[a + 1]
      BY <1>1, <1>5 DEF Rules
    <2> QED BY <2>1, <2>2, <2>3
  <1>8. /\ zz.trs[c] - zz.trs[b] > 2 * zz.ofs[i] /\ zz.trs[c] - zz.trs[b] > -2 * zz.ofs[i]
        /\ zz.trs[c] - zz.trs[b] > 2 * zz.ofs[j] /\ zz.trs[c] - zz.trs[b] > -2 * zz.ofs[j]
    BY <1>4, <1>5 DEF Calm
  <1> QED BY <1>1, <1>4, <1>6, <1>7, <1>8

\* The estimate: x1 is the offset at arg, x the one at arg - x1.  Where a stamp
\* s has the local time asked for, one of its two neighbours is arg - x.
LEMMA SecondLook ==
  ASSUME NEW zz, IsZone(zz), Calm(zz), NEW a \in Int, NEW x1 \in Int, NEW x \in Int,
         Right(zz, a, x1), Right(zz, a - x1, x),
         NEW s \in Int, Right(zz, s, a - s)
  PROVE  Right(zz, a - x, x)
  <1>1. PICK n0 : Rules(zz, n0, a) /\ x1 = ZifTrOffs(zz, n0)
    BY DEF Right
  <1>2. PICK n1 : Rules(zz, n1, a - x1) /\ x = ZifTrOffs(zz, n1)
    BY DEF Right
  <1>3. PICK n2 : Rules(zz, n2, s) /\ a - s = ZifTrOffs(zz, n2)
    BY DEF Right
  <1>4. n0 \in Int /\ n1 \in Int /\ n2 \in Int
    <2>1. zz.ntr \in Nat
      BY ZoneFacts
    <2> QED BY <2>1, <1>1, <1>2, <1>3 DEF Rules
  <1>5. PICK i \in 0 .. zz.nty - 1 : x1 = zz.ofs[i]
    BY <1>1, <1>4, TableType
  <1>6. PICK j \in 0 .. zz.nty - 1 : a - s = zz.ofs[j]
    BY <1>3, <1>4, TableType
  <1>7. ASSUME NEW b \in Int, NEW c \in Int, NEW d \in Int, b < c, c < d,
               NEW u \in {a, a - x1, s}, NEW v \in {a, a - x1, s},
               Rules(zz, b, u), Rules(zz, d, v)
        PROVE  FALSE
    <2>1. u \in Int /\ v \in Int
      OBVIOUS
    <2>2. /\ v - u > x1 + (a - s) /\ v - u > x1 - (a - s)
          /\ v - u > (a - s) - x1 /\ v - u > -(x1 + (a - s))
      BY <1>5, <1>6, <1>7, <2>1, Far, ZenonT(40)
    <2> QED BY <2>2
  <1>8. ~(n0 < n1 /\ n1 < n2)
    BY <1>1, <1>3, <1>4, <1>7
  <1>9. ~(n0 < n2 /\ n2 < n1)
    BY <1>1, <1>2, <1>4, <1>7
  <1>10. ~(n1 < n0 /\ n0 < n2)
    BY <1>2, <1>3, <1>4, <1>7
  <1>11. ~(n1 < n2 /\ n2 < n0)
    BY <1>2, <1>1, <1>4, <1>7
  <1>12. ~(n2 < n0 /\ n0 < n1)
    BY <1>3, <1>2, <1>4, <1>7
  <1>13. ~(n2 < n1 /\ n1 < n0)
    BY <1>3, <1>1, <1>4, <1>7
  <1>14. n0 = n1 \/ n0 = n2 \/ n1 = n2
    BY <1>4, <1>8, <1>9, <1>10, <1>11, <1>12, <1>13
  <1>15. CASE n0 = n1
    \* the first estimate was right
    <2>1. x = x1
      BY <1>1, <1>2, <1>15
    <2> QED BY <2>1
  <1>16. CASE n1 = n2
    \* the second one is
    <2>1. x = a - s
      BY <1>2, <1>3, <1>16
    <2>2. a - x = s
      BY <2>1
    <2> QED BY <2>1, <2>2
  <1>17. CASE n0 = n2
    \* the first one was, and has been looked up again
    <2>1. x1 = a - s
      BY <1>1, <1>3, <1>17
    <2>2. a - x1 = s
      BY <2>1
    <2>3. n1 = n2
      BY <1>2, <1>3, <2>2, OneRules
    <2> QED BY <1>16, <2>3
  <1> QED BY <1>14, <1>15, <1>16, <1>17

-----------------------------------------------------------------------------
(* About the pieces of a lookup. *)

\* In a range that was found the offset is the one remembered.
LEMMA RangeRight ==
  ASSUME IsZone(z), NEW r, IsRange(r), NEW s \in Int, r.prev <= s, s < r.next
  PROVE  Right(z, s, r.offs)
  <1>1. z.ntr \in Nat
    BY ZoneFacts
  <1>2. CASE z.ntr = 0 /\ r = Zrange(STAMP_MIN, STAMP_MAX, ZifTrOffs(z, 0), 0)
    <2>1. Rules(z, 0, s) /\ 0 \in 0 .. z.ntr /\ r.offs = ZifTrOffs(z, 0)
      BY <1>2 DEF Rules, Zrange
    <2> QED BY <2>1 DEF Right
  <1>3. ASSUME NEW n \in 0 .. z.ntr - 1,
               r = Zrange(z.trs[n], IF n + 1 < z.ntr THEN z.trs[n + 1] ELSE STAMP_MAX, ZifTrOffs(z, n), n)
        PROVE  Right(z, s, r.offs)
    <2>1. r.prev = z.trs[n] /\ r.offs = ZifTrOffs(z, n)
      BY <1>3 DEF Zrange
    <2>2. n + 1 < z.ntr => r.next = z.trs[n + 1]
      BY <1>3 DEF Zrange
    <2>3. Rules(z, n, s)
      BY <2>1, <2>2 DEF Rules
    <2>4. n \in 0 .. z.ntr
      BY <1>1
    <2> QED BY <2>1, <2>3, <2>4 DEF Right
  <1> QED BY <1>2, <1>3 DEF IsRange

\* What __find_zrng() makes of the number found: a range around t.
LEMMA FoundRange ==
  ASSUME TypeOK, z.ntr <= TRNO_MOD, pc = "zrng", Hit, handled \/ op = "zrng"
  PROVE  /\ op # "zrng" => IsRange(Zrng(trno))
         /\ Right(z, t, Zrng(trno).offs)
  <1>1. z.ntr \in Nat /\ TRNO_MOD \in Nat \ {0} /\ IsZone(z)
    BY ZoneFacts, TrnoType DEF TypeOK
  <1>2. CASE trno = -1 /\ (z.ntr = 0 \/ (op = "zrng" /\ t < z.trs[0]))
    <2>1. Zrng(trno) = Zrange(STAMP_MIN, STAMP_MAX, ZifTrOffs(z, 0), 0)
      BY <1>2 DEF Zrng
    <2>2. Rules(z, 0, t) /\ 0 \in 0 .. z.ntr
      BY <1>1, <1>2 DEF Rules
    <2>3. Zrng(trno).offs = ZifTrOffs(z, 0)
      BY <2>1 DEF Zrange
    <2>4. op # "zrng" => z.ntr = 0
      BY <1>2
    <2> QED BY <2>1, <2>2, <2>3, <2>4 DEF Right, IsRange
  <1>3. CASE trno \in 0 .. z.ntr - 1 /\ Rules(z, trno, t) /\ z.trs[trno] <= t
    <2>1. trno % TRNO_MOD = trno
      BY <1>1, <1>3
    <2>2. ZifTrans(z, trno) = z.trs[trno] /\ (trno + 1 < z.ntr => ZifTrans(z, trno + 1) = z.trs[trno + 1])
      BY <1>1, <1>3 DEF ZifTrans
    <2>3. ~(trno < 0)
      BY <1>3
    <2>4. Zrng(trno) = Zrange(z.trs[trno], IF trno + 1 < z.ntr THEN z.trs[trno + 1] ELSE STAMP_MAX,
                              ZifTrOffs(z, trno), trno)
      BY <2>1, <2>2, <2>3 DEF Zrng
    <2>5. Zrng(trno).offs = ZifTrOffs(z, trno)
      BY <2>4 DEF Zrange
    <2>6. trno \in 0 .. z.ntr
      BY <1>1, <1>3
    <2> QED BY <1>3, <2>4, <2>5, <2>6 DEF Right, IsRange
  <1> QED BY <1>2, <1>3 DEF Hit

\* Coming back with the offset at t, the call is over with the right answer or
\* looks once more.
LEMMA ReturnStep ==
  ASSUME TypeOK, Iterates, NEW x \in Int, Return(x), pc \in {"offs", "zrng"}, op \in {"local", "utc"},
         handled => Right(z, t, x), UNCHANGED <<z, op, arg, handled>>
  PROVE  /\ pc' \in {"idle", "offs"}
         /\ t' \in Int /\ min' \in Nat /\ max' \in Nat /\ trno' \in Int
         /\ xi' \in Int /\ old' \in Int /\ ans' \in Int
         /\ Iterates' /\ Answers'
  <1>1. /\ IsZone(z) /\ arg \in Int /\ t \in Int /\ min \in Nat /\ max \in Nat /\ trno \in Int
        /\ xi \in Int /\ old \in Int /\ ans \in Int
    BY DEF TypeOK
  <1>2. CASE op = "utc" /\ x # xi /\ xi # old
    <2>1. /\ xi' = x /\ old' = x /\ t' = arg - x /\ pc' = "offs"
          /\ min' = min /\ max' = max /\ trno' = trno /\ ans' = ans
      BY <1>2 DEF Return
    <2>2. xi = 0 /\ t = arg
      BY <1>1, <1>2 DEF Iterates
    <2>3. handled' => Right(z', arg', xi')
      BY <2>1, <2>2
    <2>4. Iterates'
      BY <1>2, <2>1, <2>3 DEF Iterates
    <2>5. Answers'
      BY <2>1 DEF Answers, LocalRight, ZrngRight, UtcRight
    <2> QED BY <1>1, <2>1, <2>4, <2>5
  <1>3. CASE ~(op = "utc" /\ x # xi /\ xi # old)
    <2>1. /\ ans' = IF op = "local" THEN arg + x ELSE arg - x
          /\ pc' = "idle" /\ t' = 0 /\ min' = 0 /\ max' = 0 /\ trno' = -1 /\ xi' = 0 /\ old' = -1
      BY <1>3 DEF Return, Done
    <2>2. LocalRight'
      <3>1. CASE op = "local"
        <4>1. t = arg /\ ans' - arg' = x
          BY <1>1, <2>1, <3>1 DEF Iterates
        <4>2. handled' => Right(z', arg', ans' - arg')
          BY <4>1
        <4> QED BY <4>2 DEF LocalRight
      <3>2. CASE op # "local"
        BY <3>2 DEF LocalRight
      <3> QED BY <3>1, <3>2
    <2>3. ZrngRight'
      BY DEF ZrngRight
    <2>4. UtcRight'
      <3> SUFFICES ASSUME op = "utc", handled, Calm(z), NEW s \in Stamp, Right(z, s, arg - s)
                   PROVE  Right(z, ans', arg - ans')
        BY DEF UtcRight
      <3>1. ans' = arg - x /\ arg - ans' = x /\ t = arg - xi
        BY <1>1, <2>1 DEF Iterates
      <3>2. CASE x = xi
        BY <3>1, <3>2
      <3>3. CASE xi = old
        <4>1. Right(z, arg, xi) /\ Right(z, arg - xi, x)
          BY <3>1, <3>3 DEF Iterates
        <4>2. s \in Int
          BY StampType DEF Stamp
        <4>3. Right(z, arg - x, x)
          BY <1>1, <4>1, <4>2, SecondLook
        <4> QED BY <3>1, <4>3
      <3> QED BY <1>3, <3>2, <3>3
    <2>5. Iterates'
      BY <2>1 DEF Iterates
    <2>6. arg + x \in Int /\ arg - x \in Int
      BY <1>1
    <2> QED BY <2>1, <2>2, <2>3, <2>4, <2>5, <2>6 DEF Answers
  <1> QED BY <1>2, <1>3

-----------------------------------------------------------------------------
(* The inductive invariant. *)

\* The invariant holds at the start.
LEMMA InitOK == Init => IInv
  <1> SUFFICES ASSUME Init PROVE IInv
    OBVIOUS
  <1>1. TypeOK
    BY ZonesType, TrnoType DEF Init, TypeOK, Fresh, Zrange
  <1>2. Remembered /\ Asked /\ Enclosed /\ Hit /\ Iterates /\ Rested /\ Answers
    BY DEF Init, Remembered, Asked, Enclosed, Hit, Iterates, Rested, Answers, LocalRight, ZrngRight, UtcRight
  <1> QED BY <1>1, <1>2 DEF IInv

\* A call keeps the invariant.
LEMMA CallOK ==
  ASSUME IInv, NEW s \in Args, ZifLocalTime(s) \/ ZifUtcTime(s) \/ ZifFindZrng(s)
  PROVE  IInv'
  <1>1. TypeOK /\ Remembered /\ pc = "idle" /\ s \in Int
    BY ArgsType DEF IInv, ZifLocalTime, ZifUtcTime, ZifFindZrng
  <1>2. z' = z /\ cache' = cache /\ arg' = s /\ t' = s /\ trno' = trno /\ xi' = xi /\ old' = old /\ ans' = ans
    BY DEF ZifLocalTime, ZifUtcTime, ZifFindZrng, iter
  <1>3. CASE ZifLocalTime(s) \/ ZifUtcTime(s)
    <2>1. pc' = "offs" /\ op' \in {"local", "utc"} /\ min' = min /\ max' = max /\ handled' = handled
      BY <1>3 DEF ZifLocalTime, ZifUtcTime
    <2>2. TypeOK'
      BY <1>1, <1>2, <2>1 DEF TypeOK
    <2>3. Remembered'
      BY <1>1, <1>2, <2>1 DEF Remembered, IsRange
    <2>4. Iterates'
      <3>1. xi = 0 /\ old = -1
        BY <1>1 DEF IInv, Rested
      <3> QED BY <1>1, <1>2, <2>1, <3>1 DEF Iterates
    <2>5. Asked' /\ Enclosed' /\ Hit' /\ Answers'
      BY <2>1 DEF Asked, Enclosed, Hit, Answers, LocalRight, ZrngRight, UtcRight
    <2>6. Rested'
      BY <2>1 DEF Rested
    <2> QED BY <2>2, <2>3, <2>4, <2>5, <2>6 DEF IInv
  <1>4. CASE ZifFindZrng(s)
    <2>1. pc' = "find" /\ op' = "zrng" /\ min' = 0 /\ max' = z.ntr /\ handled' = (handled /\ Served(s, FALSE))
      BY <1>4 DEF ZifFindZrng
    <2>2. z.ntr \in Nat /\ IsZone(z)
      BY <1>1, ZoneFacts DEF TypeOK
    <2>3. handled' \in BOOLEAN
      BY <1>1, <2>1 DEF TypeOK
    <2>4. TypeOK'
      BY <1>1, <1>2, <2>1, <2>2, <2>3 DEF TypeOK
    <2>5. Remembered'
      BY <1>1, <1>2, <2>1 DEF Remembered, IsRange
    <2>6. Iterates'
      BY <1>1, <1>2, <2>1 DEF Iterates
    <2>7. Asked'
      BY <1>2, <2>1 DEF Asked, Served
    <2>8. Enclosed'
      <3>1. handled' /\ z.ntr > 0 => t' >= z.trs[0]
        BY <1>2, <2>1 DEF Served
      <3>2. z.ntr > 0 => ZifTrans(z, 0) = z.trs[0]
        BY <2>2 DEF ZifTrans
      <3>a. max' = z.ntr /\ min' = 0
        BY <2>1
      <3>3. /\ z.ntr = 0 => max' = 0
            /\ handled' /\ z.ntr > 0 =>
                 max' \in 1 .. z.ntr /\ t' >= ZifTrans(z, min') /\ ~(max' < z.ntr)
        BY <3>a, <2>2, <3>1, <3>2
      <3> QED BY <1>2, <2>1, <3>3 DEF Enclosed
    <2>9. Hit' /\ Answers' /\ Rested'
      BY <2>1 DEF Hit, Answers, LocalRight, ZrngRight, UtcRight, Rested
    <2> QED BY <2>4, <2>5, <2>6, <2>7, <2>8, <2>9 DEF IInv
  <1> QED BY <1>3, <1>4

\* OffsHit keeps the invariant.
LEMMA OffsHitOK == ASSUME IInv, OffsHit PROVE IInv'
  <1>1. /\ pc = "offs" /\ t >= cache.prev /\ t < cache.next /\ Return(cache.offs)
        /\ UNCHANGED <<z, cache, op, arg, handled>>
    BY DEF OffsHit
  <1>2. TypeOK /\ Remembered /\ Iterates
    BY DEF IInv
  <1>3. IsZone(z) /\ t \in Int /\ cache.offs \in Int /\ op \in {"local", "utc"}
    BY <1>1, <1>2 DEF TypeOK, Iterates
  <1>4. handled => Right(z, t, cache.offs)
    <2>1. cache # Fresh
      BY <1>1, <1>3 DEF Fresh, Zrange
    <2> QED BY <1>1, <1>2, <1>3, <2>1, RangeRight DEF Remembered
  <1>5. /\ pc' \in {"idle", "offs"}
        /\ t' \in Int /\ min' \in Nat /\ max' \in Nat /\ trno' \in Int
        /\ xi' \in Int /\ old' \in Int /\ ans' \in Int
        /\ Iterates' /\ Answers'
    BY <1>1, <1>2, <1>3, <1>4, ReturnStep
  <1>6. TypeOK'
    BY <1>1, <1>2, <1>5 DEF TypeOK
  <1>7. Remembered'
    BY <1>1, <1>2 DEF Remembered, IsRange
  <1>8. Asked' /\ Enclosed' /\ Hit'
    BY <1>5 DEF Asked, Enclosed, Hit
  <1>9. Rested'
    BY <1>1 DEF Return, Done, Rested
  <1> QED BY <1>5, <1>6, <1>7, <1>8, <1>9 DEF IInv

\* OffsFind keeps the invariant.
LEMMA OffsFindOK == ASSUME IInv, OffsLater \/ OffsEarlier PROVE IInv'
  <1>1. /\ pc = "offs" /\ pc' = "find" /\ handled' = (handled /\ Served(t, cache = Fresh))
        /\ UNCHANGED <<z, cache, op, arg, t, trno, xi, old, ans>>
    BY DEF OffsLater, OffsEarlier, iter
  <1>2. TypeOK /\ Remembered /\ Iterates
    BY DEF IInv
  <1>3. /\ IsZone(z) /\ t \in Int /\ cache.trno \in Nat /\ op \in {"local", "utc"} /\ handled \in BOOLEAN
        /\ cache.prev \in Int /\ cache.next \in Int
    BY <1>1, <1>2, TrnoType DEF TypeOK, Iterates
  <1>4. z.ntr \in Nat /\ STAMP_MAX \in Int
    BY <1>3, ZoneFacts, StampType
  <1>a. \/ t >= cache.next /\ min' = cache.trno + 1 /\ max' = z.ntr
        \/ t < cache.next /\ t < cache.prev /\ min' = 0 /\ max' = cache.trno
    BY DEF OffsLater, OffsEarlier
  <1>5. min' \in Nat /\ max' \in Nat
    BY <1>3, <1>4, <1>a
  <1>6. TypeOK'
    <2>1. handled' \in BOOLEAN
      BY <1>1, <1>3
    <2> QED BY <1>1, <1>2, <1>5, <2>1 DEF TypeOK
  <1>7. Remembered'
    BY <1>1, <1>2 DEF Remembered, IsRange
  <1>8. Asked'
    BY <1>1 DEF Asked, Served
  <1>9. Iterates'
    BY <1>1, <1>2 DEF Iterates
  <1>10. Hit' /\ Answers' /\ Rested'
    BY <1>1 DEF Hit, Answers, LocalRight, ZrngRight, UtcRight, Rested
  <1>11. Enclosed'
    <2> SUFFICES ASSUME handled'
                 PROVE  /\ z.ntr = 0 => max' = 0
                        /\ z.ntr > 0 => /\ max' \in 1 .. z.ntr /\ t >= ZifTrans(z, min')
                                        /\ max' < z.ntr => t < z.trs[max']
      BY <1>1, <1>3 DEF Enclosed
    <2>a. handled /\ Served(t, cache = Fresh)
      BY <1>1
    <2>b. /\ t \in Stamp /\ (z.ntr > 0 => t >= z.trs[0])
          /\ cache = Fresh => t >= 0 /\ t >= ZifTrans(z, 1)
      BY <2>a DEF Served
    <2>1. /\ handled /\ t \in Stamp /\ t < STAMP_MAX /\ (z.ntr > 0 => t >= z.trs[0])
          /\ cache = Fresh => t >= 0 /\ t >= ZifTrans(z, 1)
      BY <2>a, <2>b, StampType DEF Stamp
    <2>2. cache = Fresh \/ IsRange(cache)
      BY <1>2, <2>1 DEF Remembered
    <2>3. CASE cache = Fresh
      <3>1. cache.prev = 0 /\ cache.next = 0 /\ cache.trno = 0
        BY <2>3 DEF Fresh, Zrange
      <3>2. min' = 1 /\ max' = z.ntr
        BY <2>1, <2>3, <3>1, <1>3, <1>a
      <3> QED BY <1>4, <2>1, <2>3, <3>2
    <2>4. CASE z.ntr = 0 /\ cache = Zrange(STAMP_MIN, STAMP_MAX, ZifTrOffs(z, 0), 0)
      <3>1. cache.prev = STAMP_MIN /\ cache.next = STAMP_MAX /\ STAMP_MIN <= t
        BY <2>1, <2>4, StampType DEF Zrange, Stamp
      <3> QED BY <1>3, <1>4, <1>a, <2>1, <3>1
    <2>5. ASSUME NEW n \in 0 .. z.ntr - 1,
                 cache = Zrange(z.trs[n], IF n + 1 < z.ntr THEN z.trs[n + 1] ELSE STAMP_MAX,
                                ZifTrOffs(z, n), n)
          PROVE  /\ z.ntr = 0 => max' = 0
                 /\ z.ntr > 0 => /\ max' \in 1 .. z.ntr /\ t >= ZifTrans(z, min')
                                 /\ max' < z.ntr => t < z.trs[max']
      <3>1. /\ cache.prev = z.trs[n] /\ cache.trno = n
            /\ cache.next = IF n + 1 < z.ntr THEN z.trs[n + 1] ELSE STAMP_MAX
        BY <2>5 DEF Zrange
      <3>2. CASE OffsLater
        <4>1. t >= cache.next /\ min' = n + 1 /\ max' = z.ntr
          BY <3>1, <3>2 DEF OffsLater
        <4>2. n + 1 < z.ntr /\ t >= z.trs[n + 1]
          BY <1>3, <1>4, <2>1, <3>1, <4>1
        <4>3. ZifTrans(z, n + 1) = z.trs[n + 1]
          BY <1>4, <4>2 DEF ZifTrans
        <4> QED BY <1>4, <4>1, <4>2, <4>3
      <3>3. CASE OffsEarlier
        <4>1. t < z.trs[n] /\ min' = 0 /\ max' = n
          BY <3>1, <3>3 DEF OffsEarlier
        <4>2. z.ntr > 0 /\ ZifTrans(z, 0) = z.trs[0]
          BY <1>4 DEF ZifTrans
        <4>3. z.trs[0] \in Int /\ z.trs[n] \in Int
          BY <1>3, <1>4, ZoneFacts
        <4>4. n # 0
          BY <1>3, <2>1, <4>1, <4>2, <4>3
        <4> QED BY <1>4, <2>1, <4>1, <4>2, <4>4
      <3> QED BY <3>2, <3>3
    <2> QED BY <2>2, <2>3, <2>4, <2>5 DEF IsRange
  <1> QED BY <1>6, <1>7, <1>8, <1>9, <1>10, <1>11 DEF IInv

\* A step inside __find_trno() that leaves min and max alone.
LEMMA FoundStep ==
  ASSUME IInv, NEW n \in Int, Found(n), pc \in {"find", "probe"},
         handled \/ op = "zrng" =>
           \/ n = -1 /\ (z.ntr = 0 \/ (op = "zrng" /\ t < z.trs[0]))
           \/ n \in 0 .. z.ntr - 1 /\ Rules(z, n, t) /\ z.trs[n] <= t
  PROVE  IInv'
  <1>1. trno' = n /\ pc' = "zrng" /\ UNCHANGED <<z, cache, op, arg, t, min, max, xi, old, ans, handled>>
    BY DEF Found, iter
  <1>2. TypeOK /\ Remembered /\ Asked /\ Iterates
    BY DEF IInv
  <1>3. TypeOK'
    BY <1>1, <1>2 DEF TypeOK
  <1>4. Remembered'
    BY <1>1, <1>2 DEF Remembered, IsRange
  <1>5. Asked'
    BY <1>1, <1>2 DEF Asked
  <1>6. Enclosed' /\ Rested' /\ Answers'
    BY <1>1 DEF Enclosed, Rested, Answers, LocalRight, ZrngRight, UtcRight
  <1>7. Hit'
    BY <1>1 DEF Hit
  <1>8. Iterates'
    BY <1>1, <1>2 DEF Iterates
  <1> QED BY <1>3, <1>4, <1>5, <1>6, <1>7, <1>8 DEF IInv

\* FindEnd keeps the invariant.
LEMMA FindEndOK == ASSUME IInv, FindNone \/ FindLast PROVE IInv'
  <1>1. IsZone(z) /\ t \in Int /\ min \in Nat /\ max \in Nat /\ Enclosed
    BY DEF IInv, TypeOK
  <1>2. z.ntr \in Nat /\ (z.ntr > 0 => z.trs[0] \in Int /\ ZifTrans(z, 0) = z.trs[0])
    BY <1>1, ZoneFacts DEF ZifTrans
  <1>3. pc = "find" /\ (handled /\ pc = "find" => handled) /\ ZifTrans(z, min) \in Int
    BY <1>1, TableType DEF FindNone, FindLast
  <1>4. op = "zrng" => min = 0 /\ max = z.ntr
    BY <1>1, <1>3 DEF Enclosed
  <1>5. handled => /\ z.ntr = 0 => max = 0
                   /\ z.ntr > 0 => max \in 1 .. z.ntr /\ t >= ZifTrans(z, min) /\ (max < z.ntr => t < z.trs[max])
    BY <1>1, <1>3 DEF Enclosed
  <1>6. CASE FindNone
    <2>1. NoneBefore /\ Found(-1)
      BY <1>6 DEF FindNone
    <2>2. max = 0 \/ t < ZifTrans(z, min)
      BY <2>1 DEF NoneBefore
    <2>3. handled => z.ntr = 0
      BY <1>1, <1>2, <1>3, <1>5, <2>2
    <2>4. op = "zrng" => z.ntr = 0 \/ t < z.trs[0]
      BY <1>2, <1>4, <2>2
    <2> QED BY <1>3, <2>1, <2>3, <2>4, FoundStep
  <1>7. CASE FindLast
    <2>1. ~NoneBefore /\ t > ZifTrans(z, max) /\ Found(max - 1)
      BY <1>7 DEF FindLast
    <2>2. max # 0 /\ t >= ZifTrans(z, min)
      BY <1>1, <1>3, <2>1 DEF NoneBefore
    <2>3. handled \/ op = "zrng" => z.ntr > 0 /\ max \in 1 .. z.ntr
      BY <1>1, <1>2, <1>4, <1>5, <2>2
    <2>4. ASSUME handled \/ op = "zrng" PROVE max = z.ntr
      <3>1. CASE op = "zrng"
        BY <3>1, <1>4
      <3>2. CASE handled /\ max < z.ntr
        <4>1. ZifTrans(z, max) = z.trs[max] /\ z.trs[max] \in Int /\ t < z.trs[max]
          BY <1>1, <1>2, <1>5, <2>3, <2>4, <3>2, ZoneFacts DEF ZifTrans
        <4> QED BY <1>1, <2>1, <4>1
      <3> QED BY <1>1, <1>2, <2>3, <2>4, <3>1, <3>2
    <2>5. ASSUME handled \/ op = "zrng"
          PROVE  max - 1 \in 0 .. z.ntr - 1 /\ Rules(z, max - 1, t) /\ z.trs[max - 1] <= t
      <3>1. max = z.ntr /\ max - 1 \in 0 .. z.ntr - 1 /\ ZifTrans(z, max) = z.trs[max - 1]
        BY <1>1, <1>2, <2>3, <2>4, <2>5 DEF ZifTrans
      <3>2. z.trs[max - 1] \in Int
        BY <1>1, <3>1, ZoneFacts
      <3>3. z.trs[max - 1] <= t /\ ~(max - 1 + 1 < z.ntr)
        BY <1>1, <1>2, <2>1, <3>1, <3>2
      <3> QED BY <3>1, <3>3 DEF Rules
    <2> QED BY <1>1, <1>3, <2>1, <2>5, FoundStep
  <1> QED BY <1>6, <1>7

\* FindProbe keeps the invariant.
LEMMA FindProbeOK == ASSUME IInv, FindProbe PROVE IInv'
  <1>1. /\ pc = "find" /\ pc' = "probe" /\ ~NoneBefore /\ t <= ZifTrans(z, max)
        /\ UNCHANGED <<z, cache, op, arg, t, min, max, trno, xi, old, ans, handled>>
    BY DEF FindProbe, iter, search
  <1>2. TypeOK /\ Remembered /\ Asked /\ Enclosed /\ Iterates
    BY DEF IInv
  <1>3. IsZone(z) /\ t \in Int /\ min \in Nat /\ max \in Nat
    BY <1>2 DEF TypeOK
  <1>4. TypeOK'
    BY <1>1, <1>2 DEF TypeOK
  <1>5. Remembered'
    BY <1>1, <1>2 DEF Remembered, IsRange
  <1>6. Asked'
    BY <1>1, <1>2 DEF Asked
  <1>7. Hit' /\ Rested' /\ Answers'
    BY <1>1 DEF Hit, Rested, Answers, LocalRight, ZrngRight, UtcRight
  <1>8. Iterates'
    BY <1>1, <1>2 DEF Iterates
  <1>9. ASSUME handled
        PROVE  z.ntr > 0 /\ max \in 1 .. z.ntr /\ min < max /\ t >= ZifTrans(z, min) /\ t < ZifTrans(z, max)
    <2>1. z.ntr \in Nat /\ max # 0
      BY <1>1, <1>3, ZoneFacts DEF NoneBefore
    <2>2. z.ntr > 0 /\ max \in 1 .. z.ntr /\ t >= ZifTrans(z, min) /\ (max < z.ntr => t < z.trs[max])
      BY <1>1, <1>2, <1>9, <2>1 DEF Enclosed
    <2>3. t < ZifTrans(z, max)
      <3>1. CASE max < z.ntr
        BY <2>1, <2>2, <3>1 DEF ZifTrans
      <3>2. CASE max = z.ntr
        <4>1. ZifTrans(z, max) = z.trs[z.ntr - 1] /\ ZifTrans(z, max) \in Int
          BY <1>3, <2>1, <2>2, <3>2, TableType DEF ZifTrans
        <4>2. t # z.trs[z.ntr - 1]
          BY <1>1, <1>2, <1>9, <2>2 DEF Asked
        <4> QED BY <1>1, <1>3, <4>1, <4>2
      <3> QED BY <2>1, <2>2, <3>1, <3>2
    <2>4. min < max
      <3>1. SUFFICES ASSUME max <= min PROVE FALSE
        BY <1>3
      <3>2. ZifTrans(z, max) <= ZifTrans(z, min) /\ ZifTrans(z, max) \in Int /\ ZifTrans(z, min) \in Int
        BY <1>3, <2>2, <3>1, TransMono, TableType
      <3> QED BY <1>3, <2>2, <2>3, <3>2
    <2> QED BY <2>2, <2>3, <2>4
  <1>10. Enclosed'
    BY <1>1, <1>9 DEF Enclosed
  <1> QED BY <1>4, <1>5, <1>6, <1>7, <1>8, <1>10 DEF IInv

\* The zone that is asked.
LEMMA ThisFacts ==
  ASSUME TypeOK
  PROVE  This \in Nat /\ (min < max => min <= This /\ This < max)
  <1>1. min \in Nat /\ max \in Nat
    BY DEF TypeOK
  <1> QED BY <1>1 DEF This

\* ProbeFound keeps the invariant.
LEMMA ProbeFoundOK == ASSUME IInv, ProbeFound PROVE IInv'
  <1>1. pc = "probe" /\ t >= ZifTrans(z, This) /\ t < ZifTrans(z, This + 1) /\ Found(This)
    BY DEF ProbeFound
  <1>2. TypeOK /\ IsZone(z) /\ t \in Int /\ This \in Nat
    BY ThisFacts DEF IInv, TypeOK
  <1>3. z.ntr \in Nat /\ ZifTrans(z, This) \in Int
    BY <1>2, ZoneFacts, TableType
  <1>4. This + 1 < z.ntr
    <2>1. CASE z.ntr = 0
      <3>1. ZifTrans(z, This) = STAMP_MIN /\ ZifTrans(z, This + 1) = STAMP_MIN
        BY <2>1 DEF ZifTrans
      <3> QED BY <1>1, <1>2, <1>3, <3>1
    <2>2. CASE z.ntr # 0 /\ This + 1 >= z.ntr
      <3>1. ZifTrans(z, This) = z.trs[z.ntr - 1] /\ ZifTrans(z, This + 1) = z.trs[z.ntr - 1]
        <4>1. This = z.ntr - 1 \/ This >= z.ntr
          BY <1>2, <1>3, <2>2
        <4>2. CASE This = z.ntr - 1
          BY <1>2, <1>3, <2>2, <4>2 DEF ZifTrans
        <4>3. CASE This >= z.ntr
          BY <1>2, <1>3, <2>2, <4>3 DEF ZifTrans
        <4> QED BY <4>1, <4>2, <4>3
      <3> QED BY <1>1, <1>2, <1>3, <3>1
    <2> QED BY <1>2, <1>3, <2>1, <2>2
  <1>5. This \in 0 .. z.ntr - 1 /\ z.trs[This] <= t /\ t < z.trs[This + 1]
    <2>1. ZifTrans(z, This) = z.trs[This] /\ ZifTrans(z, This + 1) = z.trs[This + 1]
      BY <1>2, <1>3, <1>4 DEF ZifTrans
    <2>2. This \in 0 .. z.ntr - 1
      BY <1>2, <1>3, <1>4
    <2> QED BY <1>1, <1>2, <1>3, <2>1, <2>2
  <1>6. Rules(z, This, t)
    BY <1>5 DEF Rules
  <1> QED BY <1>1, <1>2, <1>5, <1>6, FoundStep

\* min and max still enclose what is looked for, and lie closer together.
LEMMA ProbeBounds ==
  ASSUME IInv, handled, ProbeUp \/ ProbeDown
  PROVE  /\ max' \in 1 .. z.ntr /\ min' < max'
         /\ t >= ZifTrans(z, min') /\ t < ZifTrans(z, max')
         /\ max' - min' < max - min
  <1>1. pc = "probe" /\ TypeOK /\ Enclosed
    BY DEF IInv, ProbeUp, ProbeDown
  <1>2. IsZone(z) /\ t \in Int /\ min \in Nat /\ max \in Nat
    BY <1>1 DEF TypeOK
  <1>3. z.ntr > 0 /\ max \in 1 .. z.ntr /\ min < max /\ t >= ZifTrans(z, min) /\ t < ZifTrans(z, max)
    BY <1>1 DEF Enclosed
  <1>4. This \in Nat /\ min <= This /\ This < max
    BY <1>1, <1>3, ThisFacts
  <1>5. /\ z.ntr \in Nat
        /\ \A n \in Nat : ZifTrans(z, n) \in Int
        /\ \A m, n \in Nat : m <= n => ZifTrans(z, m) <= ZifTrans(z, n)
    BY <1>2, <1>3, ZoneFacts, TableType, TransMono
  <1>6. CASE ProbeUp
    <2>1. t >= ZifTrans(z, This + 1) /\ min' = This /\ max' = max
      BY <1>6 DEF ProbeUp
    <2>2. ZifTrans(z, This) <= ZifTrans(z, This + 1) /\ ZifTrans(z, This) \in Int /\ ZifTrans(z, This + 1) \in Int
      BY <1>4, <1>5
    <2>3. This # min
      <3>1. SUFFICES ASSUME This = min PROVE FALSE
        OBVIOUS
      <3>2. This + 1 = max
        BY <1>2, <1>3, <3>1 DEF This
      <3> QED BY <1>2, <1>3, <2>1, <2>2, <3>2
    <2> QED BY <1>2, <1>3, <1>4, <2>1, <2>2, <2>3
  <1>7. CASE ProbeDown
    <2>1. t < ZifTrans(z, This) /\ max' = This /\ min' = min
      BY <1>7 DEF ProbeDown
    <2>2. This # min
      BY <1>2, <1>3, <1>5, <2>1
    <2>3. This \in 1 .. z.ntr /\ min < This
      BY <1>2, <1>3, <1>4, <1>5, <2>2
    <2> QED BY <1>2, <1>3, <1>4, <2>1, <2>3
  <1> QED BY <1>6, <1>7

\* Probe keeps the invariant.
LEMMA ProbeOK == ASSUME IInv, ProbeUp \/ ProbeDown PROVE IInv'
  <1>1. pc = "probe" /\ pc' = pc /\ UNCHANGED <<z, cache, op, arg, t, trno, xi, old, ans, handled>>
    BY DEF ProbeUp, ProbeDown, iter
  <1>2. TypeOK /\ Remembered /\ Asked /\ Enclosed /\ Iterates
    BY DEF IInv
  <1>3. min' \in Nat /\ max' \in Nat
    <2>1. min \in Nat /\ max \in Nat /\ This \in Nat
      BY <1>2, ThisFacts DEF TypeOK
    <2> QED BY <2>1 DEF ProbeUp, ProbeDown
  <1>4. TypeOK'
    BY <1>1, <1>2, <1>3 DEF TypeOK
  <1>5. Remembered'
    BY <1>1, <1>2 DEF Remembered, IsRange
  <1>6. Asked'
    BY <1>1, <1>2 DEF Asked
  <1>7. Hit' /\ Rested' /\ Answers'
    BY <1>1 DEF Hit, Rested, Answers, LocalRight, ZrngRight, UtcRight
  <1>8. Iterates'
    BY <1>1, <1>2 DEF Iterates
  <1>9. ASSUME handled
        PROVE  z.ntr > 0 /\ max' \in 1 .. z.ntr /\ min' < max' /\ t >= ZifTrans(z, min') /\ t < ZifTrans(z, max')
    <2>1. z.ntr > 0
      BY <1>1, <1>2, <1>9 DEF Enclosed
    <2> QED BY <1>9, <2>1, ProbeBounds
  <1>10. Enclosed'
    BY <1>1, <1>9 DEF Enclosed
  <1> QED BY <1>4, <1>5, <1>6, <1>7, <1>8, <1>10 DEF IInv

\* Ranges are of the right type.
LEMMA ZrngType == ASSUME TypeOK, z.ntr \in Nat
  PROVE  /\ Zrng(trno).offs \in Int /\ Zrng(trno).prev \in Int /\ Zrng(trno).next \in Int
         /\ Zrng(trno).trno \in 0 .. TRNO_MOD - 1
  <1>1. IsZone(z) /\ trno \in Int
    BY DEF TypeOK
  <1>2. /\ ZifTrans(z, trno) \in Int /\ ZifTrans(z, trno + 1) \in Int /\ ZifTrOffs(z, 0) \in Int
        /\ trno % TRNO_MOD \in 0 .. TRNO_MOD - 1
    BY <1>1, TableType, TrnoType
  <1>3. ZifTrOffs(z, trno % TRNO_MOD) \in Int
    <2>1. trno % TRNO_MOD \in Int
      BY <1>2, TrnoType
    <2> QED BY <1>1, <2>1, TableType
  <1> QED BY <1>2, <1>3, StampType, TrnoType DEF Zrng, Zrange

\* ZrngCached keeps the invariant.
LEMMA ZrngCachedOK == ASSUME IInv, ZrngCached PROVE IInv'
  <1>1. /\ pc = "zrng" /\ op # "zrng" /\ cache' = Zrng(trno) /\ Return(Zrng(trno).offs)
        /\ UNCHANGED <<z, op, arg, handled>>
    BY DEF ZrngCached
  <1>2. TypeOK /\ Asked /\ Hit /\ Iterates
    BY DEF IInv
  <1>3. z.ntr \in Nat /\ op \in {"local", "utc"}
    BY <1>1, <1>2, ZoneFacts DEF TypeOK, Iterates
  <1>4. /\ Zrng(trno).offs \in Int /\ Zrng(trno).prev \in Int /\ Zrng(trno).next \in Int
        /\ Zrng(trno).trno \in 0 .. TRNO_MOD - 1
    BY <1>2, <1>3, ZrngType
  <1>5. handled => IsRange(Zrng(trno)) /\ Right(z, t, Zrng(trno).offs)
    <2>1. handled => z.ntr <= TRNO_MOD
      BY <1>1, <1>2 DEF Asked
    <2> QED BY <1>1, <1>2, <2>1, FoundRange
  <1>6. /\ pc' \in {"idle", "offs"}
        /\ t' \in Int /\ min' \in Nat /\ max' \in Nat /\ trno' \in Int
        /\ xi' \in Int /\ old' \in Int /\ ans' \in Int
        /\ Iterates' /\ Answers'
    BY <1>1, <1>2, <1>3, <1>4, <1>5, ReturnStep
  <1>7. TypeOK'
    BY <1>1, <1>2, <1>4, <1>6 DEF TypeOK
  <1>8. Remembered'
    BY <1>1, <1>5 DEF Remembered, IsRange
  <1>9. Asked' /\ Enclosed' /\ Hit'
    BY <1>6 DEF Asked, Enclosed, Hit
  <1>10. Rested'
    BY <1>1 DEF Return, Done, Rested
  <1> QED BY <1>6, <1>7, <1>8, <1>9, <1>10 DEF IInv

\* ZrngAlone keeps the invariant.
LEMMA ZrngAloneOK == ASSUME IInv, ZrngAlone PROVE IInv'
  <1>1. /\ pc = "zrng" /\ op = "zrng" /\ pc' = "idle" /\ ans' = Zrng(trno).offs
        /\ t' = 0 /\ min' = 0 /\ max' = 0 /\ trno' = -1 /\ xi' = 0 /\ old' = -1
        /\ UNCHANGED <<z, cache, op, arg, handled>>
    BY DEF ZrngAlone, Done
  <1>2. TypeOK /\ Remembered /\ Hit /\ Iterates
    BY DEF IInv
  <1>3. z.ntr \in Nat
    BY <1>2, ZoneFacts DEF TypeOK
  <1>4. Zrng(trno).offs \in Int
    BY <1>2, <1>3, ZrngType
  <1>5. z.ntr <= TRNO_MOD => Right(z, arg, ans')
    <2>1. t = arg
      BY <1>1, <1>2 DEF Iterates
    <2> QED BY <1>1, <1>2, <2>1, FoundRange
  <1>6. TypeOK'
    BY <1>1, <1>2, <1>4 DEF TypeOK
  <1>7. Remembered'
    BY <1>1, <1>2 DEF Remembered, IsRange
  <1>8. Asked' /\ Enclosed' /\ Hit' /\ Iterates' /\ Rested'
    BY <1>1 DEF Asked, Enclosed, Hit, Iterates, Rested
  <1>9. Answers'
    BY <1>1, <1>5 DEF Answers, LocalRight, ZrngRight, UtcRight
  <1> QED BY <1>6, <1>7, <1>8, <1>9 DEF IInv

\* Stutter keeps the invariant.
LEMMA StutterOK == ASSUME IInv, UNCHANGED vars PROVE IInv'
  <1>1. UNCHANGED <<z, cache, pc, op, arg, t, min, max, trno, xi, old, ans, handled>>
    BY DEF vars, search, iter
  <1> QED BY <1>1 DEF IInv, TypeOK, Remembered, IsRange, Asked, Enclosed, Hit, Iterates, Rested,
                      Answers, LocalRight, ZrngRight, UtcRight

\* Every step keeps the invariant.
LEMMA StepOK == IInv /\ [Next]_vars => IInv'
  <1> SUFFICES ASSUME IInv, [Next]_vars PROVE IInv'
    OBVIOUS
  <1>1. CASE Call
    BY <1>1, CallOK DEF Call
  <1>2. CASE Offs
    BY <1>2, OffsHitOK, OffsFindOK DEF Offs
  <1>3. CASE FindTrno
    BY <1>3, FindEndOK, FindProbeOK, ProbeFoundOK, ProbeOK DEF FindTrno
  <1>4. CASE FindZrng
    BY <1>4, ZrngCachedOK, ZrngAloneOK DEF FindZrng
  <1>5. CASE UNCHANGED vars
    BY <1>5, StutterOK
  <1> QED BY <1>1, <1>2, <1>3, <1>4, <1>5 DEF Next, Work

\* The invariant holds always.
LEMMA Inductive == Spec => []IInv
  BY InitOK, StepOK, PTL DEF Spec

-----------------------------------------------------------------------------
(* The theorems. *)

\* The zone, what is remembered of it and the locals of the calls keep their
\* types; the number remembered fits its eight bits and indexes the table.
THEOREM TypeCorrect == Spec => []TypeOK
  <1>1. IInv => TypeOK
    BY DEF IInv
  <1> QED BY <1>1, Inductive, PTL

\* As long as __offs() has only been asked for stamps its search provides for,
\* the range it remembers is true of every stamp in it.
THEOREM CacheIsSound == Spec => []CacheSound
  <1>1. IInv => CacheSound
    <2> SUFFICES ASSUME IInv, handled, NEW s \in Stamp, cache.prev <= s, s < cache.next
                 PROVE  Right(z, s, cache.offs)
      BY DEF CacheSound, CacheTrue
    <2>1. IsZone(z) /\ s \in Int /\ Remembered
      BY StampType DEF IInv, TypeOK, Stamp
    <2>2. cache # Fresh
      BY <2>1 DEF Fresh, Zrange
    <2> QED BY <2>1, <2>2, RangeRight DEF Remembered
  <1> QED BY <1>1, Inductive, PTL

\* zif_local_time() adds the offset in force, whatever the calls before it
\* have left in the cache.
THEOREM LocalIsRight == Spec => []LocalRight
  <1>1. IInv => LocalRight
    BY DEF IInv, Answers
  <1> QED BY <1>1, Inductive, PTL

\* zif_find_zrng(), when it returns, has found the offset in force for every
\* stamp, before the first and behind the last transition as well.
THEOREM ZrngIsRight == Spec => []ZrngRight
  <1>1. IInv => ZrngRight
    BY DEF IInv, Answers
  <1> QED BY <1>1, Inductive, PTL

\* zif_utc_time() inverts zif_local_time() in every zone whose transitions are
\* further apart than twice its offsets: no more than one correction is needed.
THEOREM UtcIsRight == Spec => []UtcRight
  <1>1. IInv => UtcRight
    BY DEF IInv, Answers
  <1> QED BY <1>1, Inductive, PTL

\* Every turn of the loop in __find_trno() leaves less to search.
THEOREM SearchNarrows == Spec => Narrows
  <1>1. IInv /\ [Next]_vars => [pc = "probe" /\ pc' = "probe" /\ handled => max' - min' < max - min]_vars
    <2> SUFFICES ASSUME IInv, Next, pc = "probe", pc' = "probe", handled
                 PROVE  max' - min' < max - min
      OBVIOUS
    <2>1. ~Call /\ ~Offs /\ ~FindNone /\ ~FindLast /\ ~FindProbe /\ ~ProbeFound /\ ~FindZrng
      BY DEF Call, ZifLocalTime, ZifUtcTime, ZifFindZrng, Offs, OffsHit, OffsLater, OffsEarlier,
             FindNone, FindLast, FindProbe, ProbeFound, Found, FindZrng, ZrngCached, ZrngAlone
    <2>2. ProbeUp \/ ProbeDown
      BY <2>1 DEF Next, Work, FindTrno
    <2> QED BY <2>2, ProbeBounds
  <1> QED BY <1>1, Inductive, PTL DEF Spec, Narrows
=============================================================================
