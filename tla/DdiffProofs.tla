----------------------------- MODULE DdiffProofs -----------------------------
(***************************************************************************)
(* Proofs about Ddiff: that the exit code tells, that units are carried    *)
(* into each other and that they add up, whatever the references, the      *)
(* lines and the formats are.                                              *)
(***************************************************************************)
EXTENDS Ddiff, CalendarProofs

-----------------------------------------------------------------------------
(* The exit code. *)

\* What the exit code tells, inductively: lines are only ever counted up.
Told == out.bad \in Nat /\ ExitTells

\* The exit code is 2 if any line up to now, or the reference, was cropped or
\* could not be made sense of, unless that is to be quiet: main() of ddiff.c
\* never takes it back.
THEOREM ExitCodeTells == Spec => []ExitTells
<1>1. Init => Told
  <2> SUFFICES ASSUME Init PROVE Told
    OBVIOUS
  <2>1. PICK fixed \in BOOLEAN :
          /\ rc = (IF fixed /\ ~quiet THEN 2 ELSE 0)
          /\ out = [line |-> NotADate, kind |-> "none", printed |-> Nothing, bad |-> One(fixed)]
    BY DEF Init
  <2>2. out.bad = One(fixed)
    BY <2>1
  <2> QED BY <2>1, <2>2, SMT DEF Told, ExitTells, One
<1>2. Told /\ [Next]_vars => Told'
  <2> SUFFICES ASSUME Told, [Next]_vars PROVE Told'
    OBVIOUS
  <2>1. ASSUME NEW y \in Lines, NEW fixed \in BOOLEAN, Line(y, fixed)
        PROVE  Told'
    <3> DEFINE kind == IF y = NotADate THEN "none" ELSE DetermineDurtype(ref, y, fmt)
               bad == kind = "none" \/ fixed
    <3>1. bad \in BOOLEAN
      BY DEF NotADate
    <3>2. /\ rc' = (IF bad /\ ~quiet THEN 2 ELSE rc)
          /\ out'.bad = out.bad + One(bad)
          /\ quiet' = quiet
      BY <2>1, Zenon DEF Line
    <3> HIDE DEF bad
    <3>3. out.bad \in Nat /\ rc = (IF out.bad > 0 /\ ~quiet THEN 2 ELSE 0)
      BY DEF Told, ExitTells
    <3>4. out'.bad \in Nat /\ (out'.bad > 0) = (out.bad > 0 \/ bad)
      BY <3>1, <3>2, <3>3, SMT DEF One
    <3>5. rc' = (IF out'.bad > 0 /\ ~quiet' THEN 2 ELSE 0)
      BY <3>1, <3>2, <3>3, <3>4
    <3> QED BY <3>4, <3>5 DEF Told, ExitTells
  <2>2. CASE UNCHANGED vars
    BY <2>2 DEF vars, Told, ExitTells
  <2> QED BY <2>1, <2>2 DEF Next
<1>3. Told => ExitTells
  BY DEF Told
<1> QED BY <1>1, <1>2, <1>3, PTL DEF Spec

-----------------------------------------------------------------------------
(* Units. *)

\* What precalc() is given.
Durations == [neg : BOOLEAN, mon : Nat, days : Int, secs : Int, corr : {0}, ns : Int]
TotalSecs(dur) == Mag(dur.days * SECS_PER_DAY + dur.secs)
Unmonthed(p) == (7 * p.w + p.d) * SECS_PER_DAY + ClockSecs(p)

\* precalc() divides a number into units from the coarsest on: what is left of
\* one is less than it.
LEMMA RestsAre ==
  ASSUME NEW a \in Nat, NEW size \in Nat \ {0}, NEW has \in BOOLEAN
  PROVE  LET part == IF has THEN a \div size ELSE 0
             rest == IF has THEN a % size ELSE a
         IN /\ part \in Nat /\ rest \in Nat /\ a = size * part + rest
            /\ has => rest < size
            /\ ~has => part = 0 /\ rest = a
BY SMT

\* precalc(): weeks, days and the time of the day.
LEMMA SecsAreDivided ==
  ASSUME NEW f, NEW dur \in Durations
  PROVE  LET p == Precalc(f, dur)
         IN /\ p.w \in Nat /\ p.d \in Nat /\ p.H \in Nat /\ p.M \in Nat /\ p.S \in Nat
            /\ "w" \in f => p.d < 7
            /\ "d" \in f => p.H < 24
            /\ "H" \in f => p.M < 60
            /\ "M" \in f => p.S < 60
            /\ p.d * SECS_PER_DAY <= TotalSecs(dur)
            /\ "S" \in f => Unmonthed(p) = TotalSecs(dur)
            /\ "d" \in f /\ dur.secs = 0 => Unmonthed(p) = TotalSecs(dur)
<1> DEFINE a == TotalSecs(dur)
           D == SECS_PER_DAY
           w == IF "w" \in f THEN a \div (7 * D) ELSE 0
           d0 == IF "w" \in f THEN a % (7 * D) ELSE a
           d == IF "d" \in f THEN d0 \div D ELSE 0
           h0 == IF "d" \in f THEN d0 % D ELSE d0
           H == IF "H" \in f THEN h0 \div 3600 ELSE 0
           m0 == IF "H" \in f THEN h0 % 3600 ELSE h0
           M == IF "M" \in f THEN m0 \div 60 ELSE 0
           s0 == IF "M" \in f THEN m0 % 60 ELSE m0
           S == IF "S" \in f THEN s0 ELSE 0
           p == Precalc(f, dur)
<1>1. p.w = w /\ p.d = d /\ p.H = H /\ p.M = M
  <2>1. p.w = w
    BY Zenon DEF Precalc, TotalSecs
  <2>2. p.d = d
    BY Zenon DEF Precalc, TotalSecs
  <2>3. p.H = H
    BY Zenon DEF Precalc, TotalSecs
  <2>4. p.M = M
    BY Zenon DEF Precalc, TotalSecs
  <2> HIDE DEF p, w, d, H, M
  <2> QED BY <2>1, <2>2, <2>3, <2>4
<1>2. p.S = S
  <2>1. p.S = IF "S" \in f THEN s0 + (IF "r" \in f THEN 2 ELSE 1) * dur.corr ELSE 0
    BY Zenon DEF Precalc, TotalSecs
  <2>2. dur.corr = 0
    BY DEF Durations
  <2>3. s0 \in Int => s0 + (IF "r" \in f THEN 2 ELSE 1) * 0 = s0
    <3> HIDE DEF s0
    <3> QED BY SMT
  <2>4. s0 \in Int
    <3>1. a \in Int
      BY SMT DEF Durations, TotalSecs, Mag, SECS_PER_DAY
    <3> HIDE DEF a
    <3> QED BY <3>1, SMT DEF SECS_PER_DAY
  <2> HIDE DEF s0, p
  <2> QED BY <2>1, <2>2, <2>3, <2>4
<1>3. a \in Nat /\ D = 86400
  BY SMT DEF Durations, TotalSecs, Mag, SECS_PER_DAY
<1>4. a = dur.days * D \/ dur.secs # 0 \/ a = (-dur.days) * D
  BY SMT DEF Durations, TotalSecs, Mag, SECS_PER_DAY
<1>5. dur.secs = 0 => \E k \in Int : a = k * D
  <2>1. dur.days \in Int /\ -dur.days \in Int
    BY SMT DEF Durations
  <2> HIDE DEF a
  <2> QED BY <1>4, <2>1
<1> HIDE DEF a, D
<1>6. w \in Nat /\ d0 \in Nat /\ a = (7 * D) * w + d0 /\ ("w" \in f => d0 < 7 * D)
  BY <1>3, SMT
<1> HIDE DEF w, d0
<1>7. d \in Nat /\ h0 \in Nat /\ d0 = D * d + h0 /\ ("d" \in f => h0 < D)
  BY <1>3, <1>6, SMT
<1>8. "d" \in f /\ dur.secs = 0 => h0 = 0
  <2> HAVE "d" \in f /\ dur.secs = 0
  <2>1. PICK k \in Int : a = k * D
    BY <1>5
  <2>2. h0 = D * (k - (7 * w + d))
    BY <1>3, <1>6, <1>7, <2>1, SMT
  <2>3. h0 < D /\ h0 \in Nat
    BY <1>7
  <2> HIDE DEF h0, d
  <2>4. k - (7 * w + d) \in Int
    BY <1>6, <1>7, SMT
  <2> QED BY <1>3, <2>2, <2>3, <2>4, SMT
<1> HIDE DEF d, h0
<1>9. H \in Nat /\ m0 \in Nat /\ h0 = 3600 * H + m0 /\ ("H" \in f => m0 < 3600)
  BY <1>7, SMT
<1> HIDE DEF H, m0
<1>10. M \in Nat /\ s0 \in Nat /\ m0 = 60 * M + s0 /\ ("M" \in f => s0 < 60)
  BY <1>9, SMT
<1> HIDE DEF M, s0
<1>11. S \in Nat /\ S <= s0 /\ ("S" \in f => S = s0)
  BY <1>10, SMT
<1> HIDE DEF S, p
<1>12. Unmonthed(p) = (7 * w + d) * D + (3600 * H + 60 * M + S)
  BY <1>1, <1>2 DEF Unmonthed, ClockSecs, D
<1>13. a = (7 * w + d) * D + (3600 * H + 60 * M + s0)
  BY <1>3, <1>6, <1>7, <1>9, <1>10, SMT
<1>14. h0 = 0 => S = s0
  BY <1>9, <1>10, <1>11, SMT
<1>15. d * D <= a
  BY <1>3, <1>6, <1>7, SMT
<1>16. "w" \in f => d < 7
  BY <1>3, <1>6, <1>7, SMT
<1>17. "d" \in f => H < 24
  BY <1>3, <1>7, <1>9, SMT
<1>18. "H" \in f => M < 60
  BY <1>9, <1>10, SMT
<1>19. "M" \in f => S < 60
  BY <1>10, <1>11, SMT
<1>20. p.d * SECS_PER_DAY <= TotalSecs(dur)
  BY <1>1, <1>15 DEF a, D
<1>21. ("S" \in f \/ ("d" \in f /\ dur.secs = 0)) => Unmonthed(p) = TotalSecs(dur)
  BY <1>8, <1>11, <1>12, <1>13, <1>14 DEF a
<1>22. p.w \in Nat /\ p.d \in Nat /\ p.H \in Nat /\ p.M \in Nat /\ p.S \in Nat
  BY <1>1, <1>2, <1>6, <1>7, <1>9, <1>10, <1>11
<1>23. /\ "w" \in f => p.d < 7
       /\ "d" \in f => p.H < 24
       /\ "H" \in f => p.M < 60
       /\ "M" \in f => p.S < 60
  BY <1>1, <1>2, <1>16, <1>17, <1>18, <1>19
<1> QED
  BY <1>20, <1>21, <1>22, <1>23, Zenon DEF p

\* Whether no months are left out: there are months in the format, or they are
\* whole years.
Whole(f, mon) == "m" \in f \/ ("Y" \in f /\ mon % 12 = 0)

\* precalc(): years, quarters and months.
LEMMA MonthsAreDivided ==
  ASSUME NEW f, NEW dur \in Durations
  PROVE  LET p == Precalc(f, dur)
         IN /\ p.Y \in Nat /\ p.q \in Nat /\ p.m \in Nat
            /\ "Y" \in f => p.m < 12
            /\ "q" \in f => p.m < 3
            /\ Whole(f, dur.mon) => 12 * p.Y + 3 * p.q + p.m = dur.mon
            /\ dur.mon = 0 => p.Y = 0 /\ p.q = 0 /\ p.m = 0
<1> DEFINE k == dur.mon
           months == IF {"m", "q"} \intersect f = {} THEN 0 ELSE IF "Y" \in f THEN k % 12 ELSE k
           Y == IF "Y" \in f THEN k \div 12 ELSE 0
           q == IF "q" \in f THEN months \div 3 ELSE 0
           m == IF "q" \in f THEN months % 3 ELSE months
           p == Precalc(f, dur)
<1>1. p.Y = Y /\ p.q = q /\ p.m = m
  BY ZenonT(60) DEF Precalc
<1>2. k \in Nat
  BY DEF Durations
<1> HIDE DEF k, p
<1>3. /\ months \in Nat
      /\ "Y" \in f => months < 12
      /\ k = 0 => months = 0
  BY <1>2, SMT
<1>4. Y \in Nat /\ (k = 0 => Y = 0)
  BY <1>2, SMT
<1>5. Whole(f, k) => 12 * Y + months = k
  <2>1. "m" \in f => {"m", "q"} \intersect f # {}
    BY SMT
  <2>2. "m" \in f => 12 * Y + months = k
    BY <1>2, <2>1, SMT
  <2>3. "Y" \in f /\ k % 12 = 0 => 12 * Y + months = k
    BY <1>2, SMT
  <2> HIDE DEF months, Y
  <2> QED BY <2>2, <2>3 DEF Whole
<1> HIDE DEF months, Y
<1>6. q \in Nat /\ m \in Nat /\ 3 * q + m = months /\ m <= months /\ ("q" \in f => m < 3)
  BY <1>3, SMT
<1> HIDE DEF q, m
<1>7. /\ "Y" \in f => m < 12
      /\ Whole(f, k) => 12 * Y + 3 * q + m = k
      /\ k = 0 => Y = 0 /\ q = 0 /\ m = 0
  BY <1>3, <1>4, <1>5, <1>6, SMT
<1>8. k = dur.mon
  BY DEF k
<1> QED
  BY <1>1, <1>4, <1>6, <1>7, <1>8, Zenon DEF p

-----------------------------------------------------------------------------
(* What is read. *)

\* Times of the day, midnight and leap seconds at both ends included.
Times ==
  {t \in [h : 0 .. 24, m : 0 .. 59, s : 0 .. 60, ns : 0 .. NANOS_PER_SEC - 1] : SecsSinceMidnight(t) <= SECS_PER_DAY}

\* What can be read: a date there is, with a time or without, or a time.
Stamped(x) == Datable(x.d) /\ x.t \in Times /\ x \in {Sandwich(x.d, x.t), OnlyD(x.d)}
Timely(x) == x.t \in Times /\ x = OnlyT(x.t)
Readable(x) == Stamped(x) \/ Timely(x)

\* Seconds since midnight are within a day.
LEMMA TimesAre ==
  ASSUME NEW t \in Times
  PROVE  /\ SecsSinceMidnight(t) \in Int /\ 0 <= SecsSinceMidnight(t) /\ SecsSinceMidnight(t) <= SECS_PER_DAY
         /\ t.ns \in Int /\ 0 <= t.ns /\ t.ns < NANOS_PER_SEC
<1>1. t \in [h : 0 .. 24, m : 0 .. 59, s : 0 .. 60, ns : 0 .. NANOS_PER_SEC - 1] /\ SecsSinceMidnight(t) <= SECS_PER_DAY
  BY Zenon DEF Times
<1>2. t.h \in 0 .. 24 /\ t.m \in 0 .. 59 /\ t.s \in 0 .. 60 /\ t.ns \in 0 .. NANOS_PER_SEC - 1
  BY <1>1
<1>3. SecsSinceMidnight(t) = (60 * t.h + t.m) * 60 + t.s
  BY DEF SecsSinceMidnight
<1>4. \A h, m, s \in Int : 0 <= h /\ 0 <= m /\ 0 <= s => (60 * h + m) * 60 + s \in Int /\ 0 <= (60 * h + m) * 60 + s
  BY SMT
<1>5. t.h \in Int /\ t.m \in Int /\ t.s \in Int /\ 0 <= t.h /\ 0 <= t.m /\ 0 <= t.s
  BY <1>2, SMT
<1>6. SecsSinceMidnight(t) \in Int /\ 0 <= SecsSinceMidnight(t)
  BY <1>3, <1>4, <1>5
<1> QED
  BY <1>1, <1>2, <1>6, NanosAssumption, SMT

\* What is read is a date-time, a date or a time, and which of them it is.
LEMMA StampedIs ==
  ASSUME NEW x, Stamped(x)
  PROVE  /\ x.d \in CrispDates /\ x.t \in Times /\ x.typ = x.d.typ
         /\ ConvToDaisy(x.d) \in Int
         /\ x.typ \in {"ymd", "yd", "daisy"}
         /\ ~OnlyTP(x) /\ OnlyDP(x) = ~x.sw
         /\ x.sw \in BOOLEAN
<1>1. x.d \in CrispDates /\ x.t \in Times /\ x \in {Sandwich(x.d, x.t), OnlyD(x.d)} /\ ConvToDaisy(x.d) \in Int
  BY Zenon DEF Stamped, Datable
<1>2. x.d.typ \in {"ymd", "yd", "daisy"}
  BY <1>1, SMT DEF CrispDates, Ymds, Yds, YmdDates, YdDates, DaisyDates
<1>3. x.typ = x.d.typ /\ x.sw \in BOOLEAN
  <2> DEFINE d == x.d
             t == x.t
  <2>1. x = Sandwich(d, t) \/ x = OnlyD(d)
    BY <1>1
  <2> HIDE DEF d, t
  <2>2. x = Sandwich(d, t) => x.typ = d.typ /\ x.sw = TRUE
    BY SMT DEF Sandwich
  <2>3. x = OnlyD(d) => x.typ = d.typ /\ x.sw = FALSE
    BY SMT DEF Sandwich, OnlyD
  <2> QED BY <2>1, <2>2, <2>3 DEF d
<1> QED
  BY <1>1, <1>2, <1>3, Zenon DEF OnlyTP, OnlyDP

\* The fields of a time alone.
LEMMA TimelyIs ==
  ASSUME NEW x, Timely(x)
  PROVE  OnlyTP(x) /\ ~OnlyDP(x) /\ x.t \in Times /\ x.typ = "unk"
<1>1. x.t \in Times /\ x = OnlyT(x.t)
  BY Zenon DEF Timely
<1>2. x.sw = TRUE /\ x.typ = "unk"
  BY <1>1, SMT DEF OnlyT, Sandwich, NoDate
<1> QED BY <1>1, <1>2, SMT DEF OnlyTP, OnlyDP

\* Seconds between two times of the day.
LEMMA ClocksApart ==
  ASSUME NEW t \in Times, NEW u \in Times
  PROVE  /\ TDiffS(t, u) \in Int /\ TDiffS(t, u) = SecsSinceMidnight(u) - SecsSinceMidnight(t)
         /\ -SECS_PER_DAY <= TDiffS(t, u) /\ TDiffS(t, u) <= SECS_PER_DAY
<1>1. TDiffS(t, u) = SecsSinceMidnight(u) - SecsSinceMidnight(t)
  BY DEF TDiffS
<1>2. /\ SecsSinceMidnight(t) \in Int /\ 0 <= SecsSinceMidnight(t) /\ SecsSinceMidnight(t) <= SECS_PER_DAY
      /\ SecsSinceMidnight(u) \in Int /\ 0 <= SecsSinceMidnight(u) /\ SecsSinceMidnight(u) <= SECS_PER_DAY
  BY TimesAre, Zenon
<1>3. SECS_PER_DAY \in Int
  BY SMT DEF SECS_PER_DAY
<1> QED BY <1>1, <1>2, <1>3, SMT

\* How many seconds the times of two date-times are apart: not at all if one
\* has none.
Timeless(x, y) == OnlyDP(x) \/ OnlyDP(y)
Apart(x, y) == IF Timeless(x, y) THEN 0 ELSE TDiffS(x.t, y.t)

\* It is a day at most.
LEMMA ApartIs ==
  ASSUME NEW x, NEW y, Stamped(x), Stamped(y)
  PROVE  Apart(x, y) \in Int /\ -SECS_PER_DAY <= Apart(x, y) /\ Apart(x, y) <= SECS_PER_DAY
<1>1. x.t \in Times /\ y.t \in Times
  BY StampedIs, Zenon
<1>2. SECS_PER_DAY \in Int /\ 0 <= SECS_PER_DAY
  BY SMT DEF SECS_PER_DAY
<1>3. TDiffS(x.t, y.t) \in Int /\ -SECS_PER_DAY <= TDiffS(x.t, y.t) /\ TDiffS(x.t, y.t) <= SECS_PER_DAY
  BY <1>1, ClocksApart, Zenon
<1>4. 0 \in Int /\ -SECS_PER_DAY <= 0 /\ 0 <= SECS_PER_DAY
  BY <1>2, SMT
<1> QED BY <1>3, <1>4, Zenon DEF Apart

\* The kinds of durations between date-times, and between times.
LEMMA TypesAre ==
  ASSUME NEW x, NEW y, NEW f
  PROVE  /\ Stamped(x) /\ Stamped(y) =>
              DetermineDurtype(x, y, f) \in {"ymd", "ywd", "yd", "bd", "d", "rs", "ns", "s"}
         /\ Stamped(x) /\ Stamped(y) /\ Timeless(x, y) =>
              DetermineDurtype(x, y, f) \in {"ymd", "ywd", "yd", "bd", "d"}
         /\ Timely(x) /\ Timely(y) => DetermineDurtype(x, y, f) \in {"ns", "s"}
         /\ Readable(x) /\ Readable(y) /\ DetermineDurtype(x, y, f) # "none" =>
              (Stamped(x) /\ Stamped(y)) \/ (Timely(x) /\ Timely(y))
<1>1. /\ Stamped(x) => ~OnlyTP(x)
      /\ Stamped(y) => ~OnlyTP(y)
      /\ Timely(x) => OnlyTP(x)
      /\ Timely(y) => OnlyTP(y)
  BY StampedIs, TimelyIs, Zenon
<1>4. OnlyTP(x) \in BOOLEAN /\ OnlyTP(y) \in BOOLEAN
  BY SMT DEF OnlyTP
<1>2. ~OnlyTP(x) /\ ~OnlyTP(y) =>
        /\ DetermineDurtype(x, y, f) \in {"ymd", "ywd", "yd", "bd", "d", "rs", "ns", "s"}
        /\ Timeless(x, y) => DetermineDurtype(x, y, f) \in {"ymd", "ywd", "yd", "bd", "d"}
  <2> HAVE ~OnlyTP(x) /\ ~OnlyTP(y)
  <2> DEFINE A == f \intersect {"m", "q"} # {}
             B == {"w", "Y"} \subseteq f
             C == {"Y", "d"} \subseteq f
             D == {"d", "b"} \subseteq f
             E == "Y" \in f
             F == "r" \in f
             G == "N" \in f
             T == OnlyDP(x) \/ OnlyDP(y)
  <2>1. DetermineDurtype(x, y, f) =
          IF A THEN "ymd" ELSE IF B THEN "ywd" ELSE IF C THEN "yd" ELSE IF D THEN "bd" ELSE IF E THEN "ymd"
          ELSE IF T THEN "d" ELSE IF F THEN "rs" ELSE IF G THEN "ns" ELSE "s"
    <3>1. ~(OnlyTP(x) /\ OnlyTP(y)) /\ ~(OnlyTP(x) # OnlyTP(y))
      BY <1>4
    <3> QED BY <3>1, Zenon DEF DetermineDurtype
  <2>2. T = Timeless(x, y)
    BY DEF Timeless
  <2> HIDE DEF A, B, C, D, E, F, G, T
  <2> QED BY <2>1, <2>2, Zenon
<1>3. OnlyTP(x) /\ OnlyTP(y) => DetermineDurtype(x, y, f) \in {"ns", "s"}
  BY SMT DEF DetermineDurtype
<1>5. OnlyTP(x) # OnlyTP(y) => DetermineDurtype(x, y, f) = "none"
  BY <1>4, SMT DEF DetermineDurtype
<1> HIDE DEF Readable
<1> QED BY <1>1, <1>2, <1>3, <1>4, <1>5, SMT DEF Readable

-----------------------------------------------------------------------------
(* Durations. *)

\* A duration without leap seconds.
LEMMA DurationIs ==
  ASSUME NEW neg \in BOOLEAN, NEW mon \in Nat, NEW days \in Int, NEW secs \in Int, NEW ns \in Int
  PROVE  /\ Duration(neg, mon, days, secs, 0, ns) \in Durations
         /\ Duration(neg, mon, days, secs, 0, ns).neg = neg
         /\ Duration(neg, mon, days, secs, 0, ns).mon = mon
         /\ Duration(neg, mon, days, secs, 0, ns).days = days
         /\ Duration(neg, mon, days, secs, 0, ns).secs = secs
         /\ Duration(neg, mon, days, secs, 0, ns).ns = ns
BY SMT DEF Duration, Durations

\* __daisy_diff() and __get_nbdays() give numbers.
LEMMA DaysApartAre ==
  ASSUME NEW x, NEW y, Stamped(x), Stamped(y)
  PROVE  /\ ConvToDaisy(x.d) \in Int /\ ConvToDaisy(y.d) \in Int
         /\ DDiff("d", x.d, y.d) = ConvToDaisy(y.d) - ConvToDaisy(x.d)
         /\ DDiff("d", x.d, y.d) \in Int
         /\ DDiff("bd", x.d, y.d) \in Int
<1> DEFINE m == ConvToDaisy(x.d)
           n == ConvToDaisy(y.d)
<1>1. m \in Int /\ n \in Int
  BY StampedIs, Zenon
<1>2. DDiff("d", x.d, y.d) = n - m
  BY Zenon DEF DDiff, NumbersApart
<1>3. DDiff("bd", x.d, y.d) = GetNbdays(n - m, DaisyGetWday(n))
  BY SMT DEF DDiff, NumbersApart
<1> HIDE DEF m, n
<1>4. n - m \in Int /\ DaisyGetWday(n) \in Int
  BY <1>1, SMT DEF DaisyGetWday, OrElse, SUNDAY
<1>5. \A k, w \in Int : GetNbdays(k, w) \in Int
  <2>1. \A a \in Int : Quot(a, 7) \in Int /\ Rem(a, 7) \in Int
    BY SMT DEF Quot, Rem
  <2>2. \A k, w \in Int : GetNwedays(k, w) \in Int
    BY <2>1, SMT DEF GetNwedays, One
  <2> QED BY <2>2, SMT DEF GetNbdays
<1>6. GetNbdays(n - m, DaisyGetWday(n)) \in Int
  BY <1>4, <1>5
<1> QED BY <1>1, <1>2, <1>3, <1>4, <1>6 DEF m, n

\* dt_dtdiff() between date-times, in seconds.
LEMMA SecsApartAre ==
  ASSUME NEW x, NEW y, Stamped(x), Stamped(y)
  PROVE  /\ DtDiffSecs(x, y).dv = Apart(x, y) + (ConvToDaisy(y.d) - ConvToDaisy(x.d)) * SECS_PER_DAY
         /\ DtDiffSecs(x, y).dv \in Int
         /\ DtDiffSecs(x, y).neg = FALSE
<1>1. /\ ~OnlyTP(x) /\ ~OnlyTP(y) /\ x.typ \in {"ymd", "yd", "daisy"} /\ y.typ \in {"ymd", "yd", "daisy"}
  BY StampedIs, Zenon
<1>2. x.typ # "sexy" /\ y.typ # "sexy"
  BY <1>1
<1>3. DtDiffSecs(x, y).dv = Apart(x, y) + DDiff("d", x.d, y.d) * SECS_PER_DAY
  BY <1>1, <1>2, Zenon DEF DtDiffSecs, Apart, Timeless
<1>4. DtDiffSecs(x, y).neg = FALSE
  BY <1>1, Zenon DEF DtDiffSecs
<1>5. /\ ConvToDaisy(x.d) \in Int /\ ConvToDaisy(y.d) \in Int
      /\ DDiff("d", x.d, y.d) = ConvToDaisy(y.d) - ConvToDaisy(x.d)
  BY DaysApartAre, Zenon
<1>6. Apart(x, y) \in Int
  BY ApartIs, Zenon
<1>7. \A a, b, c \in Int : a + (b - c) * SECS_PER_DAY \in Int
  BY SMT DEF SECS_PER_DAY
<1> QED BY <1>3, <1>4, <1>5, <1>6, <1>7, Zenon

\* Differences in days or business days.
LEMMA DayDurations ==
  ASSUME NEW x, NEW y, Stamped(x), Stamped(y), NEW kind \in {"d", "bd"}
  PROVE  Diff(kind, x, y) = Duration(FALSE, 0, DDiff(kind, x.d, y.d), Apart(x, y), 0, 0)
<1>1. kind \notin {"rs", "ns"}
  OBVIOUS
<1> QED BY <1>1, Zenon DEF Diff, DurationOf, Apart, Timeless

\* ... in seconds; there are no fractions in differences of date-times.
LEMMA SecDurations ==
  ASSUME NEW x, NEW y, Stamped(x), Stamped(y)
  PROVE  Diff("s", x, y) = Duration(FALSE, 0, 0, DtDiffSecs(x, y).dv, 0, 0)
<1>1. DtDiffSecs(x, y).neg = FALSE
  BY SecsApartAre, Zenon
<1> QED BY <1>1, Zenon DEF Diff, DurationOf

NanosApart(x, y) == Apart(x, y) * NANOS_PER_SEC + y.t.ns - x.t.ns

\* ... and in nanoseconds, seconds with the fractions cut off.
LEMMA NanoDurations ==
  ASSUME NEW x, NEW y, Stamped(x), Stamped(y)
  PROVE  /\ Diff("ns", x, y) =
              Duration(FALSE, 0, 0, DtDiffSecs(x, y).dv - Apart(x, y) + Quot(NanosApart(x, y), NANOS_PER_SEC), 0, 0)
         /\ DtDiffSecs(x, y).dv - Apart(x, y) + Quot(NanosApart(x, y), NANOS_PER_SEC) \in Int
         /\ x.t.ns = 0 /\ y.t.ns = 0 =>
              DtDiffSecs(x, y).dv - Apart(x, y) + Quot(NanosApart(x, y), NANOS_PER_SEC) = DtDiffSecs(x, y).dv
<1> DEFINE r == DtDiffSecs(x, y)
           s == Apart(x, y)
           n == NanosApart(x, y)
           N == NANOS_PER_SEC
<1>1. ~OnlyTP(x)
  BY StampedIs, Zenon
<1>2. Diff("ns", x, y) = Duration(FALSE, 0, 0, r.dv - s + Quot(n, N), 0, 0)
  BY <1>1, Zenon DEF Diff, DurationOf, NanosApart, Apart, Timeless
<1>3. r.dv \in Int
  BY SecsApartAre, Zenon
<1>4. s \in Int
  BY ApartIs, Zenon
<1>5. N \in Int /\ N > 0
  BY NanosAssumption, SMT
<1>6. x.t.ns \in Int /\ y.t.ns \in Int
  <2>1. x.t \in Times /\ y.t \in Times
    BY StampedIs, Zenon
  <2> QED BY <2>1, TimesAre, Zenon
<1>7. n = s * N + y.t.ns - x.t.ns
  BY DEF NanosApart
<1> HIDE DEF r, s, n, N
<1>8. n \in Int
  BY <1>4, <1>5, <1>6, <1>7, SMT
<1>9. Quot(n, N) \in Int
  BY <1>5, <1>8, SMT DEF Quot
<1>10. x.t.ns = 0 /\ y.t.ns = 0 => Quot(n, N) = s
  <2> HAVE x.t.ns = 0 /\ y.t.ns = 0
  <2>1. n = s * N
    BY <1>4, <1>5, <1>7, SMT
  <2>2. s >= 0 => s * N >= 0 /\ (s * N) \div N = s
    BY <1>4, <1>5, SMT
  <2>3. s < 0 => s * N < 0 /\ -(s * N) = (-s) * N /\ ((-s) * N) \div N = -s
    BY <1>4, <1>5, SMT
  <2> QED BY <1>4, <1>5, <1>8, <2>1, <2>2, <2>3, SMT DEF Quot
<1>11. r.dv - s + Quot(n, N) \in Int
  BY <1>3, <1>4, <1>9, SMT
<1>12. Quot(n, N) = s => r.dv - s + Quot(n, N) = r.dv
  BY <1>3, <1>4, SMT
<1> QED BY <1>2, <1>10, <1>11, <1>12, Zenon DEF r, s, n, N

\* Differences of times.
LEMMA TimeDurations ==
  ASSUME NEW x, NEW y, Timely(x), Timely(y)
  PROVE  LET a == TDiffS(x.t, y.t)
             n == a * NANOS_PER_SEC + y.t.ns - x.t.ns
         IN /\ a \in Int /\ n \in Int
            /\ Diff("s", x, y) = Duration(a < 0, 0, 0, Mag(a), 0, 0)
            /\ Diff("ns", x, y) = Duration(n < 0, 0, 0, Mag(n) \div NANOS_PER_SEC, 0, Mag(n) % NANOS_PER_SEC)
<1> DEFINE a == TDiffS(x.t, y.t)
           n == a * NANOS_PER_SEC + y.t.ns - x.t.ns
           N == NANOS_PER_SEC
<1>1. OnlyTP(x) /\ OnlyTP(y) /\ ~OnlyDP(x) /\ ~OnlyDP(y) /\ x.t \in Times /\ y.t \in Times
  BY TimelyIs, Zenon
<1>2. a \in Int /\ x.t.ns \in Int /\ y.t.ns \in Int
  BY <1>1, ClocksApart, TimesAre, Zenon
<1>3. DtDiffSecs(x, y).dv = Mag(a) /\ DtDiffSecs(x, y).neg = (a < 0)
  <2>1. DtDiffSecs(x, y).dv = Mag(a)
    BY <1>1, Zenon DEF DtDiffSecs
  <2>2. DtDiffSecs(x, y).neg = (a < 0)
    <3> DEFINE b == IF OnlyDP(x) \/ OnlyDP(y) THEN 0 ELSE TDiffS(x.t, y.t)
    <3>1. DtDiffSecs(x, y).neg = (OnlyTP(x) /\ OnlyTP(y) /\ b < 0)
      BY Zenon DEF DtDiffSecs
    <3>2. b = a
      BY <1>1
    <3> HIDE DEF b
    <3>3. (OnlyTP(x) /\ OnlyTP(y) /\ b < 0) = (b < 0)
      BY <1>1
    <3> QED BY <3>1, <3>2, <3>3
  <2> QED BY <2>1, <2>2
<1>4. Diff("s", x, y) = Duration(DtDiffSecs(x, y).neg, 0, 0, DtDiffSecs(x, y).dv, 0, 0)
  BY Zenon DEF Diff, DurationOf
<1>5. Diff("ns", x, y) = Duration(n < 0, 0, 0, Mag(n) \div N, 0, Mag(n) % N)
  BY <1>1, Zenon DEF Diff, DurationOf
<1>6. N \in Int
  BY NanosAssumption, SMT
<1> HIDE DEF a, N
<1>7. n \in Int
  BY <1>2, <1>6, SMT DEF N
<1> HIDE DEF n
<1>8. Diff("s", x, y) = Duration(a < 0, 0, 0, Mag(a), 0, 0)
  BY <1>3, <1>4, Zenon
<1> QED BY <1>2, <1>5, <1>7, <1>8, Zenon DEF a, n, N

-----------------------------------------------------------------------------
(* Days given back for the times of the day. *)

\* The days between two dates, whether a day is given back for the times of the
\* day, and which date is left then.
Gap(x, y) == ConvToDaisy(y.d) - ConvToDaisy(x.d)
GivesBack(x, y) == Sgn(Apart(x, y)) = -Sgn(Gap(x, y))
Shift(x, y) == IF GivesBack(x, y) THEN Sgn(Apart(x, y)) ELSE 0
First(x) == DConv("ymd", x.d)
Second(x, y) == DAddD(First(y), Shift(x, y))

\* Whether the date that is left is before the first, and the seconds that are
\* left then.
Backward(x, y) == Gap(x, y) + Shift(x, y) < 0
Signed(x, y) == IF Backward(x, y) THEN -Apart(x, y) ELSE Apart(x, y)
SecsLeft(x, y) ==
  IF GivesBack(x, y) THEN Signed(x, y) - Sgn(Signed(x, y)) * SECS_PER_DAY ELSE Signed(x, y)

\* The first date in months is of the same day.
LEMMA FirstIs ==
  ASSUME NEW x, Stamped(x)
  PROVE  /\ First(x) \in Ymds /\ First(x) \in CrispDates /\ First(x).typ = "ymd"
         /\ Reading(First(x)) = ConvToDaisy(x.d) /\ ConvToDaisy(First(x)) = ConvToDaisy(x.d)
         /\ ConvToDaisy(x.d) \in Int /\ 1 <= ConvToDaisy(x.d) /\ ConvToDaisy(x.d) <= LastDay
         /\ ConvToDaisy(x.d) \in CivilDays
<1>1. Datable(x.d)
  BY DEF Stamped
<1>2. First(x) \in Ymds /\ Reading(First(x)) = ConvToDaisy(x.d)
  BY <1>1, YmdKeepsDay, Zenon DEF First
<1>3. First(x) \in CrispDates /\ First(x).typ = "ymd" /\ ConvToDaisy(First(x)) = Reading(First(x))
  BY <1>2, YmdsAre, Zenon
<1>4. ConvToDaisy(x.d) \in Int /\ 1 <= ConvToDaisy(x.d) /\ ConvToDaisy(x.d) <= LastDay
  BY <1>1, Zenon DEF Datable
<1>5. ConvToDaisy(x.d) \in CivilDays
  BY <1>4, YearsBeyond, SMT DEF CivilDays, LastDay
<1> QED BY <1>2, <1>3, <1>4, <1>5, Zenon

\* Signs of seconds and days.
LEMMA SignsAre ==
  ASSUME NEW x, NEW y, Stamped(x), Stamped(y)
  PROVE  /\ Gap(x, y) \in Int /\ Apart(x, y) \in Int
         /\ GivesBack(x, y) <=>
              \/ Apart(x, y) > 0 /\ Gap(x, y) < 0
              \/ Apart(x, y) < 0 /\ Gap(x, y) > 0
              \/ Apart(x, y) = 0 /\ Gap(x, y) = 0
         /\ Apart(x, y) > 0 /\ Gap(x, y) < 0 => Shift(x, y) = 1
         /\ Apart(x, y) < 0 /\ Gap(x, y) > 0 => Shift(x, y) = -1
         /\ ~(Apart(x, y) > 0 /\ Gap(x, y) < 0) /\ ~(Apart(x, y) < 0 /\ Gap(x, y) > 0) => Shift(x, y) = 0
         /\ Shift(x, y) \in Int
<1>1. Apart(x, y) \in Int
  BY ApartIs, Zenon
<1>2. Gap(x, y) \in Int
  <2>1. ConvToDaisy(x.d) \in Int /\ ConvToDaisy(y.d) \in Int
    BY StampedIs, Zenon
  <2> QED BY <2>1 DEF Gap
<1>3. \A c \in Int : Sgn(c) = IF c > 0 THEN 1 ELSE IF c < 0 THEN -1 ELSE 0
  BY SMT DEF Sgn, One
<1> QED BY <1>1, <1>2, <1>3, SMT DEF GivesBack, Shift

\* dt_ddiff(): the date that is left is of the day the times of the day leave.
LEMMA SecondIs ==
  ASSUME NEW x, NEW y, Stamped(x), Stamped(y)
  PROVE  /\ Second(x, y) \in Ymds
         /\ Reading(Second(x, y)) = ConvToDaisy(y.d) + Shift(x, y)
         /\ Reading(Second(x, y)) \in Int
<1> DEFINE m == ConvToDaisy(x.d)
           n == ConvToDaisy(y.d)
           k == Shift(x, y)
           b == First(y)
<1>1. /\ m \in Int /\ 1 <= m /\ m <= LastDay
      /\ n \in Int /\ 1 <= n /\ n <= LastDay
      /\ b \in Ymds /\ b \in CrispDates /\ b.typ = "ymd" /\ Reading(b) = n /\ ConvToDaisy(b) = n
      /\ n \in CivilDays
  BY FirstIs, Zenon
<1>2. /\ Gap(x, y) \in Int /\ k \in Int
      /\ k = 0 \/ (k = 1 /\ Gap(x, y) < 0) \/ (k = -1 /\ Gap(x, y) > 0)
  BY SignsAre, SMT
<1>3. Gap(x, y) = n - m
  BY DEF Gap
<1>4. LastDay \in Int
  BY SMT DEF LastDay
<1> HIDE DEF m, n, k, b
<1>5. n + k \in Int /\ 1 <= n + k /\ n + k <= LastDay
  BY <1>1, <1>2, <1>3, <1>4, SMT
<1>6. n + k \in CivilDays
  BY <1>5, YearsBeyond, SMT DEF CivilDays, LastDay
<1>7. /\ DAddD(b, k) \in CrispDates
      /\ DAddD(b, k).typ = "ymd"
      /\ ConvToDaisy(DAddD(b, k)) = n + k
  BY <1>1, <1>2, <1>6, DaysAreAdded, Zenon
<1>8. \A d \in CrispDates : d.typ = "ymd" => d \in Ymds
  BY SMT DEF CrispDates, Yds, YdDates, DaisyDates
<1>9. DAddD(b, k) \in Ymds
  BY <1>7, <1>8
<1>10. Reading(DAddD(b, k)) = n + k
  BY <1>7, <1>9, YmdsAre, Zenon
<1> QED BY <1>5, <1>9, <1>10 DEF Second, b, n, k

\* The months and days that are left.
Parts(x, y) ==
  IF Backward(x, y) THEN YmdApart(TRUE, Second(x, y), First(x)) ELSE YmdApart(FALSE, First(x), Second(x, y))

\* __ymd_diff() gives months and days, and says which date is the earlier one.
LEMMA PartsAre ==
  ASSUME NEW x, NEW y, Stamped(x), Stamped(y)
  PROVE  /\ Backward(x, y) <=> Reading(Second(x, y)) < Reading(First(x))
         /\ Backward(x, y) \in BOOLEAN
         /\ Parts(x, y).m \in Nat
         /\ Parts(x, y).d \in Int /\ 0 <= Parts(x, y).d /\ Parts(x, y).d <= 30
         /\ Parts(x, y).neg = Backward(x, y)
         /\ Gap(x, y) + Shift(x, y) = 0 => Parts(x, y).m = 0 /\ Parts(x, y).d = 0
<1> DEFINE a == First(x)
           e == Second(x, y)
           k == Shift(x, y)
           m == ConvToDaisy(x.d)
           n == ConvToDaisy(y.d)
<1>1. a \in Ymds /\ Reading(a) = m /\ m \in Int /\ n \in Int
  BY FirstIs, Zenon
<1>2. e \in Ymds /\ Reading(e) = n + k
  BY SecondIs, Zenon
<1>3. k \in Int
  BY SignsAre, Zenon
<1>4. Gap(x, y) = n - m
  BY DEF Gap
<1>5. Backward(x, y) <=> Gap(x, y) + k < 0
  BY DEF Backward
<1>6. Parts(x, y) = IF Backward(x, y) THEN YmdApart(TRUE, e, a) ELSE YmdApart(FALSE, a, e)
  BY DEF Parts
<1> HIDE DEF a, e, k, m, n
<1>7. /\ Backward(x, y) <=> Reading(e) < Reading(a)
      /\ Reading(e) \in Int /\ Reading(a) \in Int
      /\ Gap(x, y) + k = 0 => Reading(a) = Reading(e)
  BY <1>1, <1>2, <1>3, <1>4, <1>5, SMT
<1>10. Backward(x, y) \in BOOLEAN
  BY DEF Backward
<1>8. CASE Backward(x, y)
  <2>1. Reading(e) <= Reading(a)
    BY <1>7, <1>8
  <2>2. /\ YmdApart(TRUE, e, a).m \in Nat
        /\ YmdApart(TRUE, e, a).d \in Int /\ 0 <= YmdApart(TRUE, e, a).d /\ YmdApart(TRUE, e, a).d <= 30
        /\ YmdApart(TRUE, e, a).neg = TRUE
        /\ Reading(e) = Reading(a) => YmdApart(TRUE, e, a).m = 0 /\ YmdApart(TRUE, e, a).d = 0
    BY <1>1, <1>2, <2>1, YmdApartIs, Zenon
  <2>3. Parts(x, y) = YmdApart(TRUE, e, a)
    BY <1>6, <1>8
  <2>4. Backward(x, y) = TRUE
    BY <1>8, <1>10, Zenon
  <2> QED BY <1>7, <1>10, <2>2, <2>3, <2>4 DEF a, e, k
<1>9. CASE ~Backward(x, y)
  <2>1. Reading(a) <= Reading(e)
    BY <1>7, <1>9
  <2>2. /\ YmdApart(FALSE, a, e).m \in Nat
        /\ YmdApart(FALSE, a, e).d \in Int /\ 0 <= YmdApart(FALSE, a, e).d /\ YmdApart(FALSE, a, e).d <= 30
        /\ YmdApart(FALSE, a, e).neg = FALSE
        /\ Reading(a) = Reading(e) => YmdApart(FALSE, a, e).m = 0 /\ YmdApart(FALSE, a, e).d = 0
    BY <1>1, <1>2, <2>1, YmdApartIs, Zenon
  <2>3. Parts(x, y) = YmdApart(FALSE, a, e)
    BY <1>6, <1>9
  <2>4. Backward(x, y) = FALSE
    BY <1>9, <1>10, Zenon
  <2> QED BY <1>7, <1>10, <2>2, <2>3, <2>4 DEF a, e, k
<1> QED BY <1>8, <1>9

\* The two dates in months or in years, the second one as the times of the day
\* leave it.
Side(kind, x) == DConv(kind, x.d)
SideLeft(kind, x, y) == DAddD(Side(kind, y), Shift(x, y))

\* dt_dtdiff(): the parts are those of the dates that are left, and the seconds
\* what is left of them.
LEMMA PartsAreLeft ==
  ASSUME NEW x, NEW y, Stamped(x), Stamped(y), NEW kind \in {"ymd", "yd"},
         \/ Side(kind, x) \in Ymds /\ Side(kind, y) \in Ymds
         \/ Side(kind, x) \in Yds /\ Side(kind, y) \in Yds,
         Reading(Side(kind, x)) = ConvToDaisy(x.d), Reading(Side(kind, y)) = ConvToDaisy(y.d),
         PartsApart(kind, Side(kind, x), SideLeft(kind, x, y)).neg = Backward(x, y)
  PROVE  /\ DtDiffParts(kind, x, y).diff = PartsApart(kind, Side(kind, x), SideLeft(kind, x, y))
         /\ DtDiffParts(kind, x, y).secs = SecsLeft(x, y)
<1> DEFINE a == Side(kind, x)
           b == Side(kind, y)
           c == Apart(x, y)
           e == SideLeft(kind, x, y)
           fix == GivesBack(x, y)
           r == DDiffParts(kind, x.d, y.d, c)
           p == DtDiffParts(kind, x, y)
           q == PartsApart(kind, a, e)
<1>1. ConvToDaisy(x.d) \in Int /\ ConvToDaisy(y.d) \in Int
  BY StampedIs, Zenon
<1>2. Fixed(kind, a, b, c) = fix
  <2>1. Fixed(kind, a, b, c) = (Sgn(c) = -DCmp(b, a))
    BY SMT DEF Fixed
  <2>2. DCmp(b, a) = Sgn(Reading(b) - Reading(a))
    BY DCmpIsOrder, Zenon
  <2>3. DCmp(b, a) = Sgn(Gap(x, y))
    BY <2>2 DEF Gap
  <2> QED BY <2>1, <2>3 DEF GivesBack
<1>3. fix => e = DAddD(b, Sgn(c))
  BY Zenon DEF SideLeft, Shift
<1>4. ~fix => e = b
  <2> HAVE ~fix
  <2>1. e = DAddD(b, 0)
    BY Zenon DEF SideLeft, Shift
  <2> QED BY <2>1, Zenon DEF DAddD
<1>5. r.fix = fix /\ r.diff = q
  <2>1. r = PartsCarried(kind, a, b, c)
    BY Zenon DEF DDiffParts, Side
  <2>2. fix \in BOOLEAN
    BY DEF GivesBack
  <2>3. fix => r = [fix |-> TRUE, diff |-> q]
    BY <1>2, <1>3, <2>1, Zenon DEF PartsCarried
  <2>4. ~fix => r = [fix |-> FALSE, diff |-> q]
    BY <1>2, <1>4, <2>1, Zenon DEF PartsCarried
  <2> HIDE DEF r, q, fix
  <2>5. fix => r.fix = fix /\ r.diff = q
    <3> HAVE fix
    <3>1. r.fix = TRUE /\ r.diff = q
      BY <2>3
    <3>2. fix = TRUE
      BY <2>2, Zenon
    <3> QED BY <3>1, <3>2, Zenon
  <2>6. ~fix => r.fix = fix /\ r.diff = q
    <3> HAVE ~fix
    <3>1. r.fix = FALSE /\ r.diff = q
      BY <2>4
    <3>2. fix = FALSE
      BY <2>2, Zenon
    <3> QED BY <3>1, <3>2, Zenon
  <2> QED BY <2>5, <2>6, Zenon
<1>6. p = WithTime(r, c)
  BY Zenon DEF DtDiffParts, Apart, Timeless
<1>7. r.diff.neg = Backward(x, y)
  BY <1>5
<1> DEFINE s == IF r.diff.neg THEN -c ELSE c
<1>8. p.diff = r.diff /\ p.secs = IF r.fix THEN s - Sgn(s) * SECS_PER_DAY ELSE s
  <2> HIDE DEF p, r, c
  <2>1. p.diff = r.diff
    BY <1>6, Zenon DEF WithTime
  <2>2. p.secs = IF r.fix THEN s - Sgn(s) * SECS_PER_DAY ELSE s
    BY <1>6, Zenon DEF WithTime
  <2> QED BY <2>1, <2>2, Zenon
<1>9. s = Signed(x, y)
  BY <1>7, Zenon DEF Signed
<1> HIDE DEF s
<1>10. p.secs = SecsLeft(x, y)
  BY <1>5, <1>8, <1>9, Zenon DEF SecsLeft
<1> QED BY <1>5, <1>8, <1>10

\* Months, days and what is left of the seconds.
LEMMA YmdDurations ==
  ASSUME NEW x, NEW y, Stamped(x), Stamped(y)
  PROVE  Diff("ymd", x, y) = Duration(Backward(x, y), Parts(x, y).m, Parts(x, y).d, SecsLeft(x, y), 0, 0)
<1> DEFINE a == First(x)
           e == Second(x, y)
           p == DtDiffParts("ymd", x, y)
<1>1. /\ a \in Ymds /\ First(y) \in Ymds
      /\ Reading(a) = ConvToDaisy(x.d) /\ Reading(First(y)) = ConvToDaisy(y.d)
  BY FirstIs, Zenon
<1>2. e \in Ymds /\ Reading(e) \in Int
  BY SecondIs, Zenon
<1>3. Side("ymd", x) = a /\ Side("ymd", y) = First(y) /\ SideLeft("ymd", x, y) = e
  BY Zenon DEF Side, SideLeft, First, Second
<1>4. YmdDiff(a, e) = Parts(x, y)
  <2>1. DCmp(a, e) = Sgn(Reading(a) - Reading(e))
    BY <1>1, <1>2, DCmpIsOrder, Zenon
  <2>2. Backward(x, y) <=> Reading(e) < Reading(a)
    BY PartsAre, Zenon
  <2>3. YmdDiff(a, e) = IF DCmp(a, e) > 0 THEN YmdApart(TRUE, e, a) ELSE YmdApart(FALSE, a, e)
    BY DEF YmdDiff
  <2>4. Sgn(Reading(a) - Reading(e)) > 0 <=> Reading(e) < Reading(a)
    <3>1. Reading(a) \in Int
      BY <1>1, StampedIs, Zenon
    <3> QED BY <1>2, <3>1, SMT DEF Sgn, One
  <2> QED BY <2>1, <2>2, <2>3, <2>4, Zenon DEF Parts
<1>5. Parts(x, y).neg = Backward(x, y)
  BY PartsAre, Zenon
<1>6. PartsApart("ymd", a, e) = Parts(x, y)
  <2>1. PartsApart("ymd", a, e) = YmdDiff(a, e)
    BY SMT DEF PartsApart
  <2> QED BY <1>4, <2>1
<1>7. p.diff = Parts(x, y) /\ p.secs = SecsLeft(x, y)
  <2> DEFINE kind == "ymd"
  <2>1. kind \in {"ymd", "yd"}
    OBVIOUS
  <2>2. /\ Side(kind, x) = a /\ Side(kind, y) = First(y) /\ SideLeft(kind, x, y) = e
        /\ PartsApart(kind, a, e) = Parts(x, y) /\ p = DtDiffParts(kind, x, y)
    BY <1>3, <1>6
  <2> HIDE DEF kind, a, e, p
  <2>3. /\ \/ Side(kind, x) \in Ymds /\ Side(kind, y) \in Ymds
           \/ Side(kind, x) \in Yds /\ Side(kind, y) \in Yds
        /\ Reading(Side(kind, x)) = ConvToDaisy(x.d) /\ Reading(Side(kind, y)) = ConvToDaisy(y.d)
        /\ PartsApart(kind, Side(kind, x), SideLeft(kind, x, y)).neg = Backward(x, y)
    BY <1>1, <1>5, <2>2, Zenon
  <2>4. /\ DtDiffParts(kind, x, y).diff = PartsApart(kind, Side(kind, x), SideLeft(kind, x, y))
        /\ DtDiffParts(kind, x, y).secs = SecsLeft(x, y)
    BY <2>1, <2>3, PartsAreLeft, Zenon
  <2> QED BY <2>2, <2>4, Zenon
<1>8. Diff("ymd", x, y) = Duration(p.diff.neg, p.diff.m, p.diff.d, p.secs, 0, 0)
  BY Zenon DEF Diff, DurationOf
<1> QED BY <1>5, <1>7, <1>8, Zenon

-----------------------------------------------------------------------------
(* Years and days that are left. *)

\* The two dates in years and days.
YdFirst(x) == DConv("yd", x.d)
YdSecond(x, y) == DAddD(YdFirst(y), Shift(x, y))

\* They are of the same days as those in months.
LEMMA YdSidesAre ==
  ASSUME NEW x, NEW y, Stamped(x), Stamped(y)
  PROVE  /\ YdFirst(x) \in Yds /\ Reading(YdFirst(x)) = ConvToDaisy(x.d)
         /\ YdFirst(y) \in Yds /\ Reading(YdFirst(y)) = ConvToDaisy(y.d)
         /\ YdSecond(x, y) \in Yds /\ Reading(YdSecond(x, y)) = ConvToDaisy(y.d) + Shift(x, y)
         /\ ConvToDaisy(x.d) \in CivilDays /\ ConvToDaisy(y.d) \in CivilDays
         /\ ConvToDaisy(y.d) + Shift(x, y) \in CivilDays
         /\ ConvToDaisy(x.d) \in Int /\ ConvToDaisy(y.d) \in Int /\ ConvToDaisy(y.d) + Shift(x, y) \in Int
<1> DEFINE m == ConvToDaisy(x.d)
           n == ConvToDaisy(y.d)
           k == Shift(x, y)
           b == YdFirst(y)
<1>1. Datable(x.d) /\ Datable(y.d)
  BY DEF Stamped
<1>2. YdFirst(x) \in Yds /\ Reading(YdFirst(x)) = m /\ b \in Yds /\ Reading(b) = n
  BY <1>1, YdKeepsDay, Zenon DEF YdFirst
<1>3. /\ m \in Int /\ 1 <= m /\ m <= LastDay /\ m \in CivilDays
      /\ n \in Int /\ 1 <= n /\ n <= LastDay /\ n \in CivilDays
  BY FirstIs, Zenon
<1>4. /\ Gap(x, y) \in Int /\ k \in Int
      /\ k = 0 \/ (k = 1 /\ Gap(x, y) < 0) \/ (k = -1 /\ Gap(x, y) > 0)
  BY SignsAre, SMT
<1>5. Gap(x, y) = n - m
  BY DEF Gap
<1>6. LastDay \in Int
  BY SMT DEF LastDay
<1> HIDE DEF m, n, k, b
<1>7. n + k \in Int /\ 1 <= n + k /\ n + k <= LastDay
  BY <1>3, <1>4, <1>5, <1>6, SMT
<1>8. n + k \in CivilDays
  BY <1>7, YearsBeyond, SMT DEF CivilDays, LastDay
<1>9. DAddD(b, k) \in Yds /\ Reading(DAddD(b, k)) = n + k
  BY <1>2, <1>4, <1>8, DayIsThere
<1> QED BY <1>2, <1>3, <1>7, <1>8, <1>9 DEF YdSecond, m, n, k, b

\* The years and days that are left.
YdParts(x, y) ==
  IF Backward(x, y) THEN YdApart(TRUE, YdSecond(x, y), YdFirst(x)) ELSE YdApart(FALSE, YdFirst(x), YdSecond(x, y))

\* __yd_diff() gives years and days, and says which date is the earlier one.
LEMMA YdPartsAre ==
  ASSUME NEW x, NEW y, Stamped(x), Stamped(y)
  PROVE  /\ Backward(x, y) <=> Reading(YdSecond(x, y)) < Reading(YdFirst(x))
         /\ YdParts(x, y).y \in Nat
         /\ YdParts(x, y).d \in Int /\ 0 <= YdParts(x, y).d
         /\ YdParts(x, y).neg = Backward(x, y)
         /\ Gap(x, y) + Shift(x, y) = 0 => YdParts(x, y).y = 0 /\ YdParts(x, y).d = 0
<1> DEFINE a == YdFirst(x)
           e == YdSecond(x, y)
           k == Shift(x, y)
           m == ConvToDaisy(x.d)
           n == ConvToDaisy(y.d)
<1>1. a \in Yds /\ Reading(a) = m /\ e \in Yds /\ Reading(e) = n + k /\ m \in Int /\ n \in Int
  BY YdSidesAre, Zenon
<1>2. k \in Int
  BY SignsAre, Zenon
<1>3. Gap(x, y) = n - m
  BY DEF Gap
<1>4. Backward(x, y) <=> Gap(x, y) + k < 0
  BY DEF Backward
<1>5. Backward(x, y) \in BOOLEAN
  BY DEF Backward
<1>6. YdParts(x, y) = IF Backward(x, y) THEN YdApart(TRUE, e, a) ELSE YdApart(FALSE, a, e)
  BY DEF YdParts
<1> HIDE DEF a, e, k, m, n
<1>7. /\ Backward(x, y) <=> Reading(e) < Reading(a)
      /\ Reading(e) \in Int /\ Reading(a) \in Int
      /\ Gap(x, y) + k = 0 => Reading(a) = Reading(e)
  BY <1>1, <1>2, <1>3, <1>4, SMT
<1>8. CASE Backward(x, y)
  <2>1. Reading(e) <= Reading(a)
    BY <1>7, <1>8
  <2>2. /\ YdApart(TRUE, e, a).y \in Nat
        /\ YdApart(TRUE, e, a).d \in Int /\ 0 <= YdApart(TRUE, e, a).d
        /\ YdApart(TRUE, e, a).neg = TRUE
        /\ Reading(e) = Reading(a) => YdApart(TRUE, e, a).y = 0 /\ YdApart(TRUE, e, a).d = 0
    BY <1>1, <2>1, YdApartIsNone, Zenon
  <2>3. YdParts(x, y) = YdApart(TRUE, e, a)
    BY <1>6, <1>8
  <2>4. Backward(x, y) = TRUE
    BY <1>5, <1>8, Zenon
  <2> QED BY <1>7, <2>2, <2>3, <2>4 DEF a, e, k
<1>9. CASE ~Backward(x, y)
  <2>1. Reading(a) <= Reading(e)
    BY <1>7, <1>9
  <2>2. /\ YdApart(FALSE, a, e).y \in Nat
        /\ YdApart(FALSE, a, e).d \in Int /\ 0 <= YdApart(FALSE, a, e).d
        /\ YdApart(FALSE, a, e).neg = FALSE
        /\ Reading(a) = Reading(e) => YdApart(FALSE, a, e).y = 0 /\ YdApart(FALSE, a, e).d = 0
    BY <1>1, <2>1, YdApartIsNone, Zenon
  <2>3. YdParts(x, y) = YdApart(FALSE, a, e)
    BY <1>6, <1>9
  <2>4. Backward(x, y) = FALSE
    BY <1>5, <1>9, Zenon
  <2> QED BY <1>7, <2>2, <2>3, <2>4 DEF a, e, k
<1> QED BY <1>8, <1>9

\* Years, days and what is left of the seconds.
LEMMA YdDurations ==
  ASSUME NEW x, NEW y, Stamped(x), Stamped(y)
  PROVE  Diff("yd", x, y) = Duration(Backward(x, y), 12 * YdParts(x, y).y, YdParts(x, y).d, SecsLeft(x, y), 0, 0)
<1> DEFINE a == YdFirst(x)
           e == YdSecond(x, y)
           p == DtDiffParts("yd", x, y)
<1>1. /\ a \in Yds /\ YdFirst(y) \in Yds /\ e \in Yds
      /\ Reading(a) = ConvToDaisy(x.d) /\ Reading(YdFirst(y)) = ConvToDaisy(y.d)
      /\ Reading(a) \in Int /\ Reading(e) \in Int
  BY YdSidesAre, Zenon
<1>2. Side("yd", x) = a /\ Side("yd", y) = YdFirst(y) /\ SideLeft("yd", x, y) = e
  BY Zenon DEF Side, SideLeft, YdFirst, YdSecond
<1>3. YdDiff(a, e) = YdParts(x, y)
  <2>1. DCmp(a, e) = Sgn(Reading(a) - Reading(e))
    BY <1>1, DCmpIsOrder, Zenon
  <2>2. Backward(x, y) <=> Reading(e) < Reading(a)
    BY YdPartsAre, Zenon
  <2>3. YdDiff(a, e) = IF DCmp(a, e) > 0 THEN YdApart(TRUE, e, a) ELSE YdApart(FALSE, a, e)
    BY DEF YdDiff
  <2>4. Sgn(Reading(a) - Reading(e)) > 0 <=> Reading(e) < Reading(a)
    BY <1>1, SMT DEF Sgn, One
  <2> QED BY <2>1, <2>2, <2>3, <2>4, Zenon DEF YdParts
<1>4. YdParts(x, y).neg = Backward(x, y)
  BY YdPartsAre, Zenon
<1>5. PartsApart("yd", a, e) = YdParts(x, y)
  <2>1. PartsApart("yd", a, e) = YdDiff(a, e)
    BY SMT DEF PartsApart
  <2> QED BY <1>3, <2>1
<1>6. p.diff = YdParts(x, y) /\ p.secs = SecsLeft(x, y)
  <2> DEFINE kind == "yd"
  <2>1. kind \in {"ymd", "yd"}
    OBVIOUS
  <2>2. /\ Side(kind, x) = a /\ Side(kind, y) = YdFirst(y) /\ SideLeft(kind, x, y) = e
        /\ PartsApart(kind, a, e) = YdParts(x, y) /\ p = DtDiffParts(kind, x, y)
    BY <1>2, <1>5
  <2> HIDE DEF kind, a, e, p
  <2>3. /\ \/ Side(kind, x) \in Ymds /\ Side(kind, y) \in Ymds
           \/ Side(kind, x) \in Yds /\ Side(kind, y) \in Yds
        /\ Reading(Side(kind, x)) = ConvToDaisy(x.d) /\ Reading(Side(kind, y)) = ConvToDaisy(y.d)
        /\ PartsApart(kind, Side(kind, x), SideLeft(kind, x, y)).neg = Backward(x, y)
    BY <1>1, <1>4, <2>2, Zenon
  <2>4. /\ DtDiffParts(kind, x, y).diff = PartsApart(kind, Side(kind, x), SideLeft(kind, x, y))
        /\ DtDiffParts(kind, x, y).secs = SecsLeft(x, y)
    BY <2>1, <2>3, PartsAreLeft, Zenon
  <2> QED BY <2>2, <2>4, Zenon
<1>7. Diff("yd", x, y) = Duration(p.diff.neg, 12 * p.diff.y, p.diff.d, p.secs, 0, 0)
  BY Zenon DEF Diff, DurationOf
<1> QED BY <1>4, <1>6, <1>7, Zenon

-----------------------------------------------------------------------------
(* Months or years, and days: what is left in either. *)

\* The months, a dozen for a year, and the days.
MonthsLeft(kind, x, y) == IF kind = "yd" THEN 12 * YdParts(x, y).y ELSE Parts(x, y).m
DaysLeft(kind, x, y) == IF kind = "yd" THEN YdParts(x, y).d ELSE Parts(x, y).d

\* None is negative, and none is left between a day and itself; years are whole.
LEMMA LeftAre ==
  ASSUME NEW x, NEW y, Stamped(x), Stamped(y), NEW kind \in {"ymd", "yd"}
  PROVE  /\ Backward(x, y) <=> Reading(Second(x, y)) < Reading(First(x))
         /\ Backward(x, y) \in BOOLEAN
         /\ MonthsLeft(kind, x, y) \in Nat
         /\ DaysLeft(kind, x, y) \in Int /\ 0 <= DaysLeft(kind, x, y)
         /\ Gap(x, y) + Shift(x, y) = 0 => MonthsLeft(kind, x, y) = 0 /\ DaysLeft(kind, x, y) = 0
         /\ kind = "yd" => MonthsLeft(kind, x, y) % 12 = 0
<1>1. /\ Backward(x, y) <=> Reading(Second(x, y)) < Reading(First(x))
      /\ Backward(x, y) \in BOOLEAN
      /\ Parts(x, y).m \in Nat
      /\ Parts(x, y).d \in Int /\ 0 <= Parts(x, y).d
      /\ Gap(x, y) + Shift(x, y) = 0 => Parts(x, y).m = 0 /\ Parts(x, y).d = 0
  BY PartsAre, Zenon
<1>2. /\ YdParts(x, y).y \in Nat
      /\ YdParts(x, y).d \in Int /\ 0 <= YdParts(x, y).d
      /\ Gap(x, y) + Shift(x, y) = 0 => YdParts(x, y).y = 0 /\ YdParts(x, y).d = 0
  BY YdPartsAre, Zenon
<1>3. CASE kind = "yd"
  <2> DEFINE n == YdParts(x, y).y
  <2>1. MonthsLeft(kind, x, y) = 12 * n /\ DaysLeft(kind, x, y) = YdParts(x, y).d
    BY <1>3 DEF MonthsLeft, DaysLeft
  <2>2. 12 * n \in Nat /\ (n = 0 => 12 * n = 0) /\ (12 * n) % 12 = 0
    <3>1. n \in Nat
      BY <1>2
    <3> HIDE DEF n
    <3> QED BY <3>1, SMT
  <2> QED BY <1>1, <1>2, <2>1, <2>2
<1>4. CASE kind = "ymd"
  <2>1. MonthsLeft(kind, x, y) = Parts(x, y).m /\ DaysLeft(kind, x, y) = Parts(x, y).d /\ kind # "yd"
    BY <1>4 DEF MonthsLeft, DaysLeft
  <2> QED BY <1>1, <2>1
<1> QED BY <1>3, <1>4

\* dt_dtdiff(): they make the duration.
LEMMA LeftDurations ==
  ASSUME NEW x, NEW y, Stamped(x), Stamped(y), NEW kind \in {"ymd", "yd"}
  PROVE  Diff(kind, x, y)
           = Duration(Backward(x, y), MonthsLeft(kind, x, y), DaysLeft(kind, x, y), SecsLeft(x, y), 0, 0)
<1>1. CASE kind = "yd"
  <2>1. MonthsLeft(kind, x, y) = 12 * YdParts(x, y).y /\ DaysLeft(kind, x, y) = YdParts(x, y).d
    BY <1>1 DEF MonthsLeft, DaysLeft
  <2>2. Diff("yd", x, y) = Duration(Backward(x, y), 12 * YdParts(x, y).y, YdParts(x, y).d, SecsLeft(x, y), 0, 0)
    BY YdDurations, Zenon
  <2> QED BY <1>1, <2>1, <2>2
<1>2. CASE kind = "ymd"
  <2>1. MonthsLeft(kind, x, y) = Parts(x, y).m /\ DaysLeft(kind, x, y) = Parts(x, y).d
    BY <1>2 DEF MonthsLeft, DaysLeft
  <2>2. Diff("ymd", x, y) = Duration(Backward(x, y), Parts(x, y).m, Parts(x, y).d, SecsLeft(x, y), 0, 0)
    BY YmdDurations, Zenon
  <2> QED BY <1>2, <2>1, <2>2
<1> QED BY <1>1, <1>2

-----------------------------------------------------------------------------
(* What durations there are. *)

\* The seconds that are left are less than a day, or a day.
LEMMA SecsLeftAre ==
  ASSUME NEW x, NEW y, Stamped(x), Stamped(y)
  PROVE  /\ SecsLeft(x, y) \in Int
         /\ -SECS_PER_DAY <= SecsLeft(x, y) /\ SecsLeft(x, y) <= SECS_PER_DAY
<1>1. Apart(x, y) \in Int /\ -SECS_PER_DAY <= Apart(x, y) /\ Apart(x, y) <= SECS_PER_DAY
  BY ApartIs, Zenon
<1>2. SECS_PER_DAY \in Int /\ SECS_PER_DAY > 0
  BY SMT DEF SECS_PER_DAY
<1> DEFINE s == Signed(x, y)
<1>3. s \in Int /\ -SECS_PER_DAY <= s /\ s <= SECS_PER_DAY
  BY <1>1, <1>2, SMT DEF Signed
<1>4. \/ Sgn(s) = 1 /\ s > 0
      \/ Sgn(s) = -1 /\ s < 0
      \/ Sgn(s) = 0 /\ s = 0
  BY <1>3, SMT DEF Sgn, One
<1>5. SecsLeft(x, y) = s - Sgn(s) * SECS_PER_DAY \/ SecsLeft(x, y) = s
  BY Zenon DEF SecsLeft
<1> HIDE DEF s
<1>6. s > 0 => s - 1 * SECS_PER_DAY \in Int /\ -SECS_PER_DAY <= s - 1 * SECS_PER_DAY /\ s - 1 * SECS_PER_DAY <= SECS_PER_DAY
  BY <1>2, <1>3, SMT
<1>7. s < 0 => s - (-1) * SECS_PER_DAY \in Int /\ -SECS_PER_DAY <= s - (-1) * SECS_PER_DAY
               /\ s - (-1) * SECS_PER_DAY <= SECS_PER_DAY
  BY <1>2, <1>3, SMT
<1>8. s = 0 => s - 0 * SECS_PER_DAY = s
  BY <1>2, <1>3, SMT
<1> QED BY <1>3, <1>4, <1>5, <1>6, <1>7, <1>8

\* ... so that no month is left but for thirty-one days.
LEMMA YmdDurationsAre ==
  ASSUME NEW x, NEW y, Stamped(x), Stamped(y)
  PROVE  /\ Diff("ymd", x, y) \in Durations
         /\ TotalSecs(Diff("ymd", x, y)) <= 31 * SECS_PER_DAY
<1> DEFINE q == Parts(x, y)
           s == SecsLeft(x, y)
           u == Duration(Backward(x, y), q.m, q.d, s, 0, 0)
<1>1. Diff("ymd", x, y) = u
  BY YmdDurations, Zenon
<1>2. Backward(x, y) \in BOOLEAN /\ q.m \in Nat /\ q.d \in Int /\ 0 <= q.d /\ q.d <= 30
  BY PartsAre, Zenon
<1>3. s \in Int /\ -SECS_PER_DAY <= s /\ s <= SECS_PER_DAY
  BY SecsLeftAre, Zenon
<1>4. 0 \in Int
  OBVIOUS
<1>5. u \in Durations /\ u.days = q.d /\ u.secs = s
  <2>1. /\ u \in Durations
        /\ u.neg = Backward(x, y) /\ u.mon = q.m /\ u.days = q.d /\ u.secs = s /\ u.ns = 0
    <3> DEFINE g == Backward(x, y)
               m == q.m
               d == q.d
    <3>1. g \in BOOLEAN /\ m \in Nat /\ d \in Int /\ s \in Int /\ 0 \in Int
      BY <1>2, <1>3
    <3> HIDE DEF g, m, d, s
    <3>2. /\ Duration(g, m, d, s, 0, 0) \in Durations
          /\ Duration(g, m, d, s, 0, 0).neg = g
          /\ Duration(g, m, d, s, 0, 0).mon = m
          /\ Duration(g, m, d, s, 0, 0).days = d
          /\ Duration(g, m, d, s, 0, 0).secs = s
          /\ Duration(g, m, d, s, 0, 0).ns = 0
      BY <3>1, DurationIs, SMT
    <3> QED BY <3>2 DEF g, m, d
  <2> QED BY <2>1, Zenon
<1>6. TotalSecs(u) = Mag(q.d * SECS_PER_DAY + s)
  BY <1>5, Zenon DEF TotalSecs
<1> HIDE DEF q, s, u
<1>7. Mag(q.d * SECS_PER_DAY + s) <= 31 * SECS_PER_DAY
  <2> DEFINE d == q.d
  <2>1. d \in Int /\ 0 <= d /\ d <= 30
    BY <1>2
  <2> HIDE DEF d
  <2>2. Mag(d * SECS_PER_DAY + s) <= 31 * SECS_PER_DAY
    BY <1>3, <2>1, SMT DEF Mag, SECS_PER_DAY
  <2> QED BY <2>2 DEF d
<1> QED BY <1>1, <1>5, <1>6, <1>7, Zenon

\* dt_dtdiff(): months or years, and days, make a duration.
LEMMA LeftDurationsAre ==
  ASSUME NEW x, NEW y, Stamped(x), Stamped(y), NEW kind \in {"ymd", "yd"}
  PROVE  LET dur == Diff(kind, x, y)
         IN /\ dur \in Durations
            /\ dur.neg = Backward(x, y)
            /\ dur.mon = MonthsLeft(kind, x, y) /\ dur.days = DaysLeft(kind, x, y) /\ dur.secs = SecsLeft(x, y)
<1> DEFINE g == Backward(x, y)
           m == MonthsLeft(kind, x, y)
           d == DaysLeft(kind, x, y)
           s == SecsLeft(x, y)
           dur == Diff(kind, x, y)
<1>1. dur = Duration(g, m, d, s, 0, 0)
  BY LeftDurations, Zenon
<1>2. g \in BOOLEAN /\ m \in Nat /\ d \in Int
  BY LeftAre, Zenon
<1>3. s \in Int
  BY SecsLeftAre, Zenon
<1>0. 0 \in Int
  OBVIOUS
<1> HIDE DEF g, m, d, s, dur
<1>4. /\ Duration(g, m, d, s, 0, 0) \in Durations
      /\ Duration(g, m, d, s, 0, 0).neg = g
      /\ Duration(g, m, d, s, 0, 0).mon = m
      /\ Duration(g, m, d, s, 0, 0).days = d
      /\ Duration(g, m, d, s, 0, 0).secs = s
      /\ Duration(g, m, d, s, 0, 0).ns = 0
  BY <1>0, <1>2, <1>3, DurationIs, SMT
<1> QED BY <1>1, <1>4 DEF g, m, d, s, dur

\* Differences in days and seconds.
LEMMA PlainDurations ==
  ASSUME NEW days \in Int, NEW secs \in Int
  PROVE  /\ Duration(FALSE, 0, days, secs, 0, 0) \in Durations
         /\ Duration(FALSE, 0, days, secs, 0, 0).neg = FALSE
         /\ Duration(FALSE, 0, days, secs, 0, 0).mon = 0
         /\ Duration(FALSE, 0, days, secs, 0, 0).days = days
         /\ Duration(FALSE, 0, days, secs, 0, 0).secs = secs
<1> DEFINE g == FALSE
           k == 0
<1>1. g \in BOOLEAN /\ k \in Nat /\ k \in Int
  OBVIOUS
<1> HIDE DEF g, k
<1>2. /\ Duration(g, k, days, secs, 0, k) \in Durations
      /\ Duration(g, k, days, secs, 0, k).neg = g
      /\ Duration(g, k, days, secs, 0, k).mon = k
      /\ Duration(g, k, days, secs, 0, k).days = days
      /\ Duration(g, k, days, secs, 0, k).secs = secs
      /\ Duration(g, k, days, secs, 0, k).ns = k
  BY <1>1, DurationIs, SMT
<1> QED BY <1>2, Zenon DEF g, k

\* Whatever is asked for but ISO weeks and real seconds makes a duration.
LEMMA DurationsAre ==
  ASSUME NEW x, NEW y, NEW f, Readable(x), Readable(y),
         DetermineDurtype(x, y, f) \notin {"none", "rs", "ywd"}
  PROVE  /\ Diff(DetermineDurtype(x, y, f), x, y) \in Durations
         /\ DetermineDurtype(x, y, f) = "ymd" => TotalSecs(Diff(DetermineDurtype(x, y, f), x, y)) <= 31 * SECS_PER_DAY
<1> DEFINE kind == DetermineDurtype(x, y, f)
<1>0. FALSE \in BOOLEAN /\ 0 \in Nat /\ 0 \in Int
  OBVIOUS
<1>1. (Stamped(x) /\ Stamped(y)) \/ (Timely(x) /\ Timely(y))
  BY TypesAre, SMT
<1>2. CASE Stamped(x) /\ Stamped(y)
  <2>1. kind \in {"ymd", "ywd", "yd", "bd", "d", "rs", "ns", "s"}
    BY <1>2, TypesAre, SMT
  <2> HIDE DEF kind
  <2>2. CASE kind = "ymd"
    BY <1>2, <2>2, YmdDurationsAre, Zenon DEF kind
  <2>3. CASE kind = "yd"
    <3> DEFINE k == "yd"
    <3>1. k \in {"ymd", "yd"}
      OBVIOUS
    <3> HIDE DEF k
    <3>2. Diff(k, x, y) \in Durations
      BY <1>2, <3>1, LeftDurationsAre, Zenon
    <3> QED BY <2>3, <3>2 DEF kind, k
  <2>4. CASE kind \in {"d", "bd"}
    <3> DEFINE n == DDiff(kind, x.d, y.d)
               c == Apart(x, y)
    <3>1. Diff(kind, x, y) = Duration(FALSE, 0, n, c, 0, 0)
      BY <1>2, <2>4, DayDurations, Zenon
    <3>2. n \in Int
      BY <1>2, <2>4, DaysApartAre, SMT
    <3>3. c \in Int
      BY <1>2, ApartIs, Zenon
    <3> HIDE DEF n, c
    <3>4. Duration(FALSE, 0, n, c, 0, 0) \in Durations
      BY <3>2, <3>3, PlainDurations, Zenon
    <3> QED BY <2>4, <3>1, <3>4 DEF kind
  <2>5. CASE kind = "s"
    <3> DEFINE n == DtDiffSecs(x, y).dv
    <3>1. Diff("s", x, y) = Duration(FALSE, 0, 0, n, 0, 0)
      BY <1>2, SecDurations, Zenon
    <3>2. n \in Int
      BY <1>2, SecsApartAre, Zenon
    <3> HIDE DEF n
    <3>3. Duration(FALSE, 0, 0, n, 0, 0) \in Durations
      BY <1>0, <3>2, PlainDurations, Zenon
    <3> QED BY <2>5, <3>1, <3>3 DEF kind
  <2>6. CASE kind = "ns"
    <3> DEFINE n == DtDiffSecs(x, y).dv - Apart(x, y) + Quot(NanosApart(x, y), NANOS_PER_SEC)
    <3>1. Diff("ns", x, y) = Duration(FALSE, 0, 0, n, 0, 0) /\ n \in Int
      BY <1>2, NanoDurations, Zenon
    <3> HIDE DEF n
    <3>2. Duration(FALSE, 0, 0, n, 0, 0) \in Durations
      BY <1>0, <3>1, PlainDurations, Zenon
    <3> QED BY <2>6, <3>1, <3>2 DEF kind
  <2>7. kind \notin {"rs", "ywd"}
    BY DEF kind
  <2> QED BY <2>1, <2>2, <2>3, <2>4, <2>5, <2>6, <2>7 DEF kind
<1>3. CASE Timely(x) /\ Timely(y)
  <2> DEFINE a == TDiffS(x.t, y.t)
             n == a * NANOS_PER_SEC + y.t.ns - x.t.ns
             N == NANOS_PER_SEC
  <2>1. kind \in {"ns", "s"}
    BY <1>3, TypesAre, SMT
  <2>2. /\ a \in Int /\ n \in Int
        /\ Diff("s", x, y) = Duration(a < 0, 0, 0, Mag(a), 0, 0)
        /\ Diff("ns", x, y) = Duration(n < 0, 0, 0, Mag(n) \div N, 0, Mag(n) % N)
    BY <1>3, TimeDurations, Zenon
  <2>3. N \in Int /\ N > 0
    BY NanosAssumption, SMT
  <2> HIDE DEF a, n, N, kind
  <2>4. /\ (a < 0) \in BOOLEAN /\ (n < 0) \in BOOLEAN /\ Mag(a) \in Int
        /\ Mag(n) \div N \in Int /\ Mag(n) % N \in Int
    BY <2>2, <2>3, SMT DEF Mag
  <2> DEFINE g == a < 0
             h == n < 0
             i == Mag(a)
             j == Mag(n) \div N
             k == Mag(n) % N
  <2>5. g \in BOOLEAN /\ h \in BOOLEAN /\ i \in Int /\ j \in Int /\ k \in Int
    BY <2>4
  <2> HIDE DEF g, h, i, j, k
  <2>6. Duration(g, 0, 0, i, 0, 0) \in Durations
    BY <1>0, <2>5, DurationIs, SMT
  <2>7. Duration(h, 0, 0, j, 0, k) \in Durations
    BY <1>0, <2>5, DurationIs, SMT
  <2>8. Diff(kind, x, y) \in Durations
    BY <2>1, <2>2, <2>6, <2>7 DEF g, h, i, j, k
  <2> QED BY <2>1, <2>8 DEF kind
<1> QED BY <1>1, <1>2, <1>3

-----------------------------------------------------------------------------
(* Units that are carried into each other. *)

\* What is printed is for the reference and the last line.
Computed ==
  /\ ref \in Refs /\ fmt \in Fmts
  /\ out.kind # "none" =>
       /\ out.line \in Lines \ {NotADate}
       /\ out.kind = DetermineDurtype(ref, out.line, fmt)
       /\ out.printed = Shown(fmt, ref, out.line)

\* main() of ddiff.c keeps it so.
LEMMA ComputedIsKept == Spec => []Computed
<1>1. Init => Computed
  <2> SUFFICES ASSUME Init PROVE Computed
    OBVIOUS
  <2>1. PICK fixed \in BOOLEAN :
          out = [line |-> NotADate, kind |-> "none", printed |-> Nothing, bad |-> One(fixed)]
    BY Zenon DEF Init
  <2>2. out.kind = "none"
    BY <2>1, Zenon
  <2> QED BY <2>2, Zenon DEF Init, Computed
<1>2. Computed /\ [Next]_vars => Computed'
  <2> SUFFICES ASSUME Computed, [Next]_vars PROVE Computed'
    OBVIOUS
  <2>1. ASSUME NEW y \in Lines, NEW fixed \in BOOLEAN, Line(y, fixed)
        PROVE  Computed'
    <3> DEFINE kind == IF y = NotADate THEN "none" ELSE DetermineDurtype(ref, y, fmt)
    <3>1. /\ ref' = ref /\ fmt' = fmt
          /\ out'.line = y /\ out'.kind = kind
          /\ out'.printed = IF kind = "none" THEN Nothing ELSE Shown(fmt, ref, y)
      <4>1. ref' = ref /\ fmt' = fmt
        BY <2>1, Zenon DEF Line
      <4>2. out' = [line |-> y, kind |-> kind, printed |-> IF kind = "none" THEN Nothing ELSE Shown(fmt, ref, y),
                    bad |-> out.bad + One(kind = "none" \/ fixed)]
        BY <2>1, Zenon DEF Line
      <4> QED BY <4>1, <4>2, Zenon
    <3>2. kind # "none" => y # NotADate /\ kind = DetermineDurtype(ref, y, fmt)
      BY Zenon
    <3> HIDE DEF kind
    <3> QED BY <3>1, <3>2, Zenon DEF Computed
  <2>2. CASE UNCHANGED vars
    BY <2>2 DEF vars, Computed
  <2> QED BY <2>1, <2>2 DEF Next
<1> QED BY <1>1, <1>2, PTL DEF Spec

\* What UnitsAreCarried says of a line.
CarriedOver(kind, p) ==
  LET Below(u, coarser, size) == coarser \in p.units => p[u] < size
  IN /\ Below("m", "Y", 12) /\ Below("m", "q", 3)
     /\ Below("d", "w", 7)
     /\ Below("H", "d", 24) /\ Below("M", "H", 60) /\ Below("S", "M", 60)
     /\ kind = "ymd" => p.d <= 31
     /\ \A u \in {"Y", "q", "m", "w", "d", "H", "M", "S"} : p[u] >= 0

\* precalc(): it holds for any duration.
LEMMA PrecalcCarries ==
  ASSUME NEW f, NEW kind, NEW dur \in Durations,
         kind = "ymd" => TotalSecs(dur) <= 31 * SECS_PER_DAY
  PROVE  CarriedOver(kind, Precalc(f, dur))
<1> DEFINE p == Precalc(f, dur)
<1>1. p.units = f
  BY Zenon DEF Precalc
<1>2. /\ p.w \in Nat /\ p.d \in Nat /\ p.H \in Nat /\ p.M \in Nat /\ p.S \in Nat
      /\ "w" \in f => p.d < 7
      /\ "d" \in f => p.H < 24
      /\ "H" \in f => p.M < 60
      /\ "M" \in f => p.S < 60
      /\ p.d * SECS_PER_DAY <= TotalSecs(dur)
      /\ "S" \in f => Unmonthed(p) = TotalSecs(dur)
      /\ "d" \in f /\ dur.secs = 0 => Unmonthed(p) = TotalSecs(dur)
  BY SecsAreDivided, Zenon
<1>3. /\ p.Y \in Nat /\ p.q \in Nat /\ p.m \in Nat
      /\ "Y" \in f => p.m < 12
      /\ "q" \in f => p.m < 3
      /\ Whole(f, dur.mon) => 12 * p.Y + 3 * p.q + p.m = dur.mon
      /\ dur.mon = 0 => p.Y = 0 /\ p.q = 0 /\ p.m = 0
  BY MonthsAreDivided, Zenon
<1>4. kind = "ymd" => p.d <= 31
  <2> HAVE kind = "ymd"
  <2> DEFINE d == p.d
             t == TotalSecs(dur)
  <2>1. d \in Nat /\ d * SECS_PER_DAY <= t /\ t <= 31 * SECS_PER_DAY
    BY <1>2
  <2>2. t \in Int
    BY SMT DEF TotalSecs, Durations, Mag, SECS_PER_DAY
  <2> HIDE DEF d, t
  <2>3. d <= 31
    BY <2>1, <2>2, SMT DEF SECS_PER_DAY
  <2> QED BY <2>3 DEF d
<1> HIDE DEF p
<1>5. \A n \in Nat : n >= 0
  BY SMT
<1>6. \A u \in {"Y", "q", "m", "w", "d", "H", "M", "S"} : p[u] >= 0
  BY <1>2, <1>3, <1>5, SMT
<1> QED BY <1>1, <1>2, <1>3, <1>4, <1>6, Zenon DEF CarriedOver, p

\* What is assumed: the references and the lines are dates, times or date-times
\* that can be read; no format asks for weeks of years.
AllReadable == \A x \in Refs \union (Lines \ {NotADate}) : Readable(x)
NoWeekDates == \A f \in Fmts : {"w", "Y"} \subseteq f => f \intersect {"m", "q"} # {}

\* Formats without weeks of years have no differences in ISO weeks.
LEMMA NoneInWeeks ==
  ASSUME NEW x, NEW y, NEW f, {"w", "Y"} \subseteq f => f \intersect {"m", "q"} # {}
  PROVE  DetermineDurtype(x, y, f) # "ywd"
<1> DEFINE A == f \intersect {"m", "q"} # {}
           B == {"w", "Y"} \subseteq f
           C == {"Y", "d"} \subseteq f
           D == {"d", "b"} \subseteq f
           E == "Y" \in f
           F == "r" \in f
           G == "N" \in f
           T == OnlyDP(x) \/ OnlyDP(y)
           P == OnlyTP(x) /\ OnlyTP(y)
           Q == OnlyTP(x) # OnlyTP(y)
           k == DetermineDurtype(x, y, f)
<1>1. /\ P => k = IF G THEN "ns" ELSE "s"
      /\ Q => k = "none"
      /\ ~P /\ ~Q => k = IF A THEN "ymd" ELSE IF B THEN "ywd" ELSE IF C THEN "yd" ELSE IF D THEN "bd"
                         ELSE IF E THEN "ymd" ELSE IF T THEN "d" ELSE IF F THEN "rs" ELSE IF G THEN "ns" ELSE "s"
  <2>1. OnlyTP(x) \in BOOLEAN /\ OnlyTP(y) \in BOOLEAN
    BY DEF OnlyTP
  <2>2. ~(P /\ Q)
    BY <2>1
  <2>3. P => k = IF G THEN "ns" ELSE "s"
    BY <2>2, Zenon DEF DetermineDurtype
  <2>4. Q => k = "none"
    BY <2>2, Zenon DEF DetermineDurtype
  <2>5. ~P /\ ~Q => k = IF A THEN "ymd" ELSE IF B THEN "ywd" ELSE IF C THEN "yd" ELSE IF D THEN "bd"
                        ELSE IF E THEN "ymd" ELSE IF T THEN "d" ELSE IF F THEN "rs" ELSE IF G THEN "ns" ELSE "s"
    BY Zenon DEF DetermineDurtype
  <2> HIDE DEF A, B, C, D, E, F, G, T, P, Q, k
  <2> QED BY <2>3, <2>4, <2>5, Zenon
<1>2. B => A
  OBVIOUS
<1> HIDE DEF A, B, C, D, E, F, G, T, P, Q, k
<1>3. k # "ywd"
  BY <1>1, <1>2, SMT
<1> QED BY <1>3 DEF k

\* precalc() leaves nothing for a unit that a coarser one could take, and no
\* more than 31 days in differences of months, if no format asks for the weeks
\* of years.
THEOREM UnitsStayCarried ==
  ASSUME AllReadable, NoWeekDates
  PROVE  Spec => []UnitsAreCarried
<1>1. Computed => UnitsAreCarried
  <2> SUFFICES ASSUME Computed, out.kind \notin {"none", "rs"}
               PROVE  CarriedOver(out.kind, out.printed)
    BY Zenon DEF UnitsAreCarried, CarriedOver
  <2> DEFINE y == out.line
             kind == out.kind
             f == IF fmt # {} THEN fmt ELSE IF kind = "s" THEN {"S"} ELSE {"d"}
  <2>1. /\ ref \in Refs /\ fmt \in Fmts /\ y \in Lines \ {NotADate}
        /\ kind = DetermineDurtype(ref, y, fmt) /\ out.printed = Shown(fmt, ref, y)
        /\ kind # "none" /\ kind # "rs"
    BY Zenon DEF Computed
  <2>2. Readable(ref) /\ Readable(y)
    BY <2>1, Zenon DEF AllReadable
  <2>3. {"w", "Y"} \subseteq fmt => fmt \intersect {"m", "q"} # {}
    BY <2>1, Zenon DEF NoWeekDates
  <2>4. kind # "ywd"
    BY <2>1, <2>3, NoneInWeeks, Zenon
  <2>5. DetermineDurtype(ref, y, fmt) \notin {"none", "rs", "ywd"}
    BY <2>1, <2>4
  <2>6. /\ Diff(kind, ref, y) \in Durations
        /\ kind = "ymd" => TotalSecs(Diff(kind, ref, y)) <= 31 * SECS_PER_DAY
    BY <2>1, <2>2, <2>5, DurationsAre, Zenon
  <2>7. out.printed = Precalc(f, Diff(kind, ref, y))
    BY <2>1, Zenon DEF Shown
  <2> HIDE DEF y, kind, f
  <2>8. CarriedOver(kind, Precalc(f, Diff(kind, ref, y)))
    BY <2>6, PrecalcCarries, Zenon
  <2> QED BY <2>7, <2>8 DEF kind
<1> QED BY <1>1, ComputedIsKept, PTL

-----------------------------------------------------------------------------
(* Units that add up. *)

\* precalc(): what is printed, altogether.
LEMMA PrecalcIs ==
  ASSUME NEW f, NEW dur \in Durations
  PROVE  LET p == Precalc(f, dur)
         IN /\ p.units = f
            /\ p.neg <=> dur.neg \/ dur.days * SECS_PER_DAY + dur.secs < 0
            /\ p.neg \in BOOLEAN
            /\ p.Y \in Nat /\ p.q \in Nat /\ p.m \in Nat
            /\ p.w \in Nat /\ p.d \in Nat /\ p.H \in Nat /\ p.M \in Nat /\ p.S \in Nat
            /\ Whole(f, dur.mon) \/ dur.mon = 0 => 12 * p.Y + 3 * p.q + p.m = dur.mon
            /\ "S" \in f \/ ("d" \in f /\ dur.secs = 0) => Unmonthed(p) = TotalSecs(dur)
            /\ Unmonthed(p) \in Int
            /\ TotalSecs(dur) = Mag(dur.days * SECS_PER_DAY + dur.secs)
<1> DEFINE p == Precalc(f, dur)
<1>1. p.units = f
  BY Zenon DEF Precalc
<1>2. p.neg = (dur.neg \/ dur.days * SECS_PER_DAY + dur.secs < 0)
  BY Zenon DEF Precalc
<1>3. dur.neg \in BOOLEAN
  BY DEF Durations
<1>4. /\ p.w \in Nat /\ p.d \in Nat /\ p.H \in Nat /\ p.M \in Nat /\ p.S \in Nat
      /\ "w" \in f => p.d < 7
      /\ "d" \in f => p.H < 24
      /\ "H" \in f => p.M < 60
      /\ "M" \in f => p.S < 60
      /\ p.d * SECS_PER_DAY <= TotalSecs(dur)
      /\ "S" \in f => Unmonthed(p) = TotalSecs(dur)
      /\ "d" \in f /\ dur.secs = 0 => Unmonthed(p) = TotalSecs(dur)
  BY SecsAreDivided, Zenon
<1>5. /\ p.Y \in Nat /\ p.q \in Nat /\ p.m \in Nat
      /\ "Y" \in f => p.m < 12
      /\ "q" \in f => p.m < 3
      /\ Whole(f, dur.mon) => 12 * p.Y + 3 * p.q + p.m = dur.mon
      /\ dur.mon = 0 => p.Y = 0 /\ p.q = 0 /\ p.m = 0
  BY MonthsAreDivided, Zenon
<1> HIDE DEF p
<1>6. Unmonthed(p) \in Int
  BY <1>4, SMT DEF Unmonthed, ClockSecs, SECS_PER_DAY
<1>7. dur.mon = 0 => 12 * p.Y + 3 * p.q + p.m = dur.mon
  BY <1>5
<1>8. /\ p.neg <=> dur.neg \/ dur.days * SECS_PER_DAY + dur.secs < 0
      /\ p.neg \in BOOLEAN
  BY <1>2, Zenon
<1>9. TotalSecs(dur) = Mag(dur.days * SECS_PER_DAY + dur.secs)
  BY DEF TotalSecs
<1>10. p.w \in Nat /\ p.d \in Nat /\ p.H \in Nat /\ p.M \in Nat /\ p.S \in Nat /\ p.Y \in Nat /\ p.q \in Nat /\ p.m \in Nat
  BY <1>4, <1>5
<1>11. Whole(f, dur.mon) \/ dur.mon = 0 => 12 * p.Y + 3 * p.q + p.m = dur.mon
  BY <1>5, <1>7
<1>12. "S" \in f \/ ("d" \in f /\ dur.secs = 0) => Unmonthed(p) = TotalSecs(dur)
  BY <1>4
<1> QED
  BY <1>1, <1>6, <1>8, <1>9, <1>10, <1>11, <1>12, Zenon DEF p

\* A date and a time, so many seconds later.
LEMMA LaterIs ==
  ASSUME NEW d, NEW t, NEW kind, NEW p, kind # "ywd",
         p.Y \in Nat, p.q \in Nat, p.m \in Nat,
         p.w \in Nat, p.d \in Nat, p.H \in Nat, p.M \in Nat, p.S \in Nat,
         SecsSinceMidnight(t) \in Int,
         ConvToDaisy(DAddM(d, 12 * p.Y + 3 * p.q + p.m)) \in Int
  PROVE  Later(d, t, kind, p) =
           StampOn(ConvToDaisy(DAddM(d, 12 * p.Y + 3 * p.q + p.m)), t) + Unmonthed(p)
<1> DEFINE n == ConvToDaisy(DAddM(d, 12 * p.Y + 3 * p.q + p.m))
           u == SecsSinceMidnight(t)
           k == ClockSecs(p)
           w == p.w
           e == p.d
<1>1. MonthsLater(d, kind, p) = DAddM(d, 12 * p.Y + 3 * p.q + p.m)
  BY Zenon DEF MonthsLater
<1>2. Later(d, t, kind, p) = (((n + 7 * w + e) - DAISY_UNIX_BASE) * SECS_PER_DAY + u) + k
  <2>1. Later(d, t, kind, p) = StampOn(n + 7 * w + e, t) + k
    BY <1>1, Zenon DEF Later
  <2>2. StampOn(n + 7 * w + e, t) = ((n + 7 * w + e) - DAISY_UNIX_BASE) * SECS_PER_DAY + u
    BY Zenon DEF StampOn
  <2> QED BY <2>1, <2>2, Zenon
<1>3. k \in Int /\ w \in Int /\ e \in Int /\ n \in Int /\ u \in Int
  BY SMT DEF ClockSecs
<1>4. StampOn(n, t) = (n - DAISY_UNIX_BASE) * SECS_PER_DAY + u
  BY Zenon DEF StampOn
<1>5. Unmonthed(p) = (7 * w + e) * SECS_PER_DAY + k
  BY Zenon DEF Unmonthed
<1> HIDE DEF n, u, k, w, e
<1>6. (((n + 7 * w + e) - DAISY_UNIX_BASE) * SECS_PER_DAY + u) + k
        = ((n - DAISY_UNIX_BASE) * SECS_PER_DAY + u) + ((7 * w + e) * SECS_PER_DAY + k)
  BY <1>3, SMT DEF DAISY_UNIX_BASE, SECS_PER_DAY
<1> QED BY <1>2, <1>4, <1>5, <1>6 DEF n

\* Where a date-time begins when it is told apart from another one, and the
\* seconds of its day.
Begin(x, y, z) == IF Timeless(x, y) THEN OnlyD(z.d) ELSE z
Moment(x, y, z) == ToUnixEpoch(Begin(x, y, z))
Since(x, y, z) == IF Timeless(x, y) THEN 0 ELSE SecsSinceMidnight(z.t)

\* The moment it begins at is its second of its day.
LEMMA BeginIs ==
  ASSUME NEW x, NEW y, NEW z \in {x, y}, Stamped(x), Stamped(y)
  PROVE  /\ SecsSinceMidnight(Begin(x, y, z).t) = Since(x, y, z)
         /\ Since(x, y, z) \in Int /\ ConvToDaisy(z.d) \in Int
         /\ Moment(x, y, z) = StampOn(ConvToDaisy(z.d), Begin(x, y, z).t)
         /\ Moment(x, y, z) = (ConvToDaisy(z.d) - DAISY_UNIX_BASE) * SECS_PER_DAY + Since(x, y, z)
<1> DEFINE b == Begin(x, y, z)
<1>1. Stamped(z)
  OBVIOUS
<1>2. /\ z.t \in Times /\ z.typ = z.d.typ /\ z.typ \in {"ymd", "yd", "daisy"} /\ ~OnlyTP(z)
      /\ ConvToDaisy(z.d) \in Int
  BY <1>1, StampedIs, Zenon
<1>3. CASE Timeless(x, y)
  <2>1. b = OnlyD(z.d)
    BY <1>3 DEF Begin
  <2>2. b.typ = z.d.typ /\ b.d = z.d /\ b.t = Midnight /\ b.sw = FALSE
    <3> DEFINE d == z.d
    <3>1. b = OnlyD(d)
      BY <2>1
    <3> HIDE DEF b, d
    <3>2. b.typ = d.typ /\ b.d = d /\ b.t = Midnight /\ b.sw = FALSE
      BY <3>1, SMT DEF OnlyD, Sandwich
    <3> QED BY <3>2 DEF d
  <2>3. SecsSinceMidnight(Midnight) = 0
    BY SMT DEF SecsSinceMidnight, Midnight
  <2>4. Since(x, y, z) = 0 /\ 0 \in Int
    BY <1>3 DEF Since
  <2>5. b.typ # "sexy" /\ ~OnlyTP(b)
    BY <1>2, <2>2, SMT DEF OnlyTP
  <2>6. Moment(x, y, z) = StampOn(ConvToDaisy(z.d), b.t)
    BY <2>2, <2>5, Zenon DEF Moment, ToUnixEpoch
  <2>7. StampOn(ConvToDaisy(z.d), b.t) = (ConvToDaisy(z.d) - DAISY_UNIX_BASE) * SECS_PER_DAY + Since(x, y, z)
    BY <2>2, <2>3, <2>4, Zenon DEF StampOn
  <2> QED BY <1>2, <2>2, <2>3, <2>4, <2>6, <2>7, Zenon
<1>4. CASE ~Timeless(x, y)
  <2>1. b = z
    BY <1>4 DEF Begin
  <2>2. Since(x, y, z) = SecsSinceMidnight(z.t)
    BY <1>4 DEF Since
  <2>3. SecsSinceMidnight(z.t) \in Int
    BY <1>2, TimesAre, Zenon
  <2>4. Moment(x, y, z) = StampOn(ConvToDaisy(z.d), b.t)
    <3>1. z.typ # "sexy"
      BY <1>2
    <3> QED BY <1>2, <2>1, <3>1, Zenon DEF Moment, ToUnixEpoch
  <2>5. StampOn(ConvToDaisy(z.d), b.t) = (ConvToDaisy(z.d) - DAISY_UNIX_BASE) * SECS_PER_DAY + Since(x, y, z)
    BY <2>1, <2>2, Zenon DEF StampOn
  <2> QED BY <1>2, <2>1, <2>2, <2>3, <2>4, <2>5, Zenon
<1> QED BY <1>3, <1>4

\* How far two date-times are apart.
Between(x, y) == Gap(x, y) * SECS_PER_DAY + Apart(x, y)

\* That is how far their moments are apart.
LEMMA MomentsApart ==
  ASSUME NEW x, NEW y, Stamped(x), Stamped(y)
  PROVE  /\ Moment(x, y, x) \in Int /\ Moment(x, y, y) \in Int /\ Between(x, y) \in Int
         /\ Moment(x, y, y) = Moment(x, y, x) + Between(x, y)
         /\ Apart(x, y) = Since(x, y, y) - Since(x, y, x)
<1> DEFINE m == ConvToDaisy(x.d)
           n == ConvToDaisy(y.d)
           u == Since(x, y, x)
           v == Since(x, y, y)
<1>1. /\ u \in Int /\ m \in Int
      /\ Moment(x, y, x) = (m - DAISY_UNIX_BASE) * SECS_PER_DAY + u
  BY BeginIs, SMT
<1>2. /\ v \in Int /\ n \in Int
      /\ Moment(x, y, y) = (n - DAISY_UNIX_BASE) * SECS_PER_DAY + v
  BY BeginIs, SMT
<1>3. Apart(x, y) = v - u
  <2>1. x.t \in Times /\ y.t \in Times
    BY StampedIs, Zenon
  <2>2. TDiffS(x.t, y.t) = SecsSinceMidnight(y.t) - SecsSinceMidnight(x.t)
    BY <2>1, ClocksApart, Zenon
  <2>3. 0 - 0 = 0
    BY SMT
  <2> QED BY <2>2, <2>3, Zenon DEF Apart, Since
<1>4. Gap(x, y) = n - m
  BY DEF Gap
<1>5. Between(x, y) = (n - m) * SECS_PER_DAY + (v - u)
  BY <1>3, <1>4, Zenon DEF Between
<1> DEFINE i == Moment(x, y, x)
           j == Moment(x, y, y)
           k == Between(x, y)
<1> HIDE DEF m, n, u, v, i, j, k
<1>6. i \in Int /\ j \in Int /\ k \in Int /\ j = i + k
  BY <1>1, <1>2, <1>5, SMT DEF SECS_PER_DAY, DAISY_UNIX_BASE, i, j, k
<1> QED BY <1>3, <1>6 DEF i, j, k, u, v

\* What UnitsAddUp says of a line that is a date-time.
Early(x, y, p) == IF p.neg THEN y ELSE x
Late(x, y, p) == IF p.neg THEN x ELSE y
InParts(kind) == kind \in {"ymd", "yd", "ywd"}
DayAfter(x, y, kind, p) == One(InParts(kind) /\ p.neg /\ ~Timeless(x, y) /\ TDiffS(x.t, y.t) > 0)
Departure(x, y, kind, p) == DAddD(In(kind, Early(x, y, p)), DayAfter(x, y, kind, p))
AddsUp(x, y, kind, p) ==
  /\ p.neg = (Moment(x, y, y) < Moment(x, y, x))
  /\ ~InParts(kind) \/ (/\ Ordinary(Departure(x, y, kind, p))
                         /\ ~LosesLeapDay(kind, Departure(x, y, kind, p), In(kind, Late(x, y, p)))) =>
       Later(Departure(x, y, kind, p), Begin(x, y, Early(x, y, p)).t, kind, p)
         = Moment(x, y, Late(x, y, p)) + DayAfter(x, y, kind, p) * SECS_PER_DAY

\* The fields of what is printed.
Printed(p) ==
  /\ p.neg \in BOOLEAN
  /\ p.Y \in Nat /\ p.q \in Nat /\ p.m \in Nat
  /\ p.w \in Nat /\ p.d \in Nat /\ p.H \in Nat /\ p.M \in Nat /\ p.S \in Nat
  /\ Unmonthed(p) \in Int

\* One of two date-times; and the months of p leading from a date to so many
\* days behind a date-time.
OneOf(x, y, z) == Stamped(x) /\ Stamped(y) /\ z \in {x, y}
MonthsTo(d, p, z, n) ==
  n \in Int /\ ConvToDaisy(DAddM(d, 12 * p.Y + 3 * p.q + p.m)) = ConvToDaisy(z.d) + n

\* From a date so many days before or after one that is read, weeks, days and
\* the time of the day on.
LEMMA SoMuchLater ==
  ASSUME NEW x, NEW y, NEW z, OneOf(x, y, z), NEW kind, kind # "ywd", NEW p, Printed(p),
         NEW d, NEW n, MonthsTo(d, p, z, n)
  PROVE  Later(d, Begin(x, y, z).t, kind, p) = Moment(x, y, z) + n * SECS_PER_DAY + Unmonthed(p)
<1> DEFINE t == Begin(x, y, z).t
           u == Since(x, y, z)
           m == ConvToDaisy(z.d)
           k == ConvToDaisy(DAddM(d, 12 * p.Y + 3 * p.q + p.m))
           w == Unmonthed(p)
<1>0. /\ Stamped(x) /\ Stamped(y) /\ z \in {x, y}
      /\ n \in Int /\ ConvToDaisy(DAddM(d, 12 * p.Y + 3 * p.q + p.m)) = ConvToDaisy(z.d) + n
  BY DEF OneOf, MonthsTo
<1>1. /\ SecsSinceMidnight(t) = u
      /\ u \in Int /\ m \in Int
      /\ Moment(x, y, z) = StampOn(m, t)
      /\ Moment(x, y, z) = (m - DAISY_UNIX_BASE) * SECS_PER_DAY + u
  BY <1>0, BeginIs, Zenon
<1>2. k = m + n /\ w \in Int
  BY <1>0 DEF Printed
<1>3. k \in Int /\ SecsSinceMidnight(t) \in Int
  <2> HIDE DEF k, m, t, u
  <2> QED BY <1>0, <1>1, <1>2
<1>4. Later(d, t, kind, p) = StampOn(k, t) + w
  <2>1. /\ p.Y \in Nat /\ p.q \in Nat /\ p.m \in Nat
        /\ p.w \in Nat /\ p.d \in Nat /\ p.H \in Nat /\ p.M \in Nat /\ p.S \in Nat
    BY Zenon DEF Printed
  <2> QED BY <1>3, <2>1, LaterIs, Zenon
<1>5. StampOn(k, t) = (k - DAISY_UNIX_BASE) * SECS_PER_DAY + u
  BY <1>1, Zenon DEF StampOn
<1> DEFINE v == Moment(x, y, z)
           r == Later(d, t, kind, p)
<1>6. /\ r = ((k - DAISY_UNIX_BASE) * SECS_PER_DAY + u) + w
      /\ v = (m - DAISY_UNIX_BASE) * SECS_PER_DAY + u
  BY <1>1, <1>4, <1>5
<1> HIDE DEF t, u, m, k, w, v, r
<1>7. r = v + n * SECS_PER_DAY + w
  BY <1>0, <1>1, <1>2, <1>6, SMT DEF SECS_PER_DAY, DAISY_UNIX_BASE
<1> QED BY <1>7 DEF r, v, t, w

\* ... and without months, from the date that is read.
LEMMA SoManySeconds ==
  ASSUME NEW x, NEW y, NEW z, OneOf(x, y, z), NEW kind, kind # "ywd", NEW p, Printed(p),
         12 * p.Y + 3 * p.q + p.m = 0
  PROVE  Later(First(z), Begin(x, y, z).t, kind, p) = Moment(x, y, z) + Unmonthed(p)
<1>0. Stamped(x) /\ Stamped(y) /\ Stamped(z) /\ z \in {x, y}
  BY DEF OneOf
<1>1. DAddM(First(z), 12 * p.Y + 3 * p.q + p.m) = First(z)
  BY Zenon DEF DAddM
<1>2. ConvToDaisy(First(z)) = ConvToDaisy(z.d) /\ ConvToDaisy(z.d) \in Int
  BY <1>0, FirstIs, SMT
<1> DEFINE t == Begin(x, y, z).t
<1>3. SecsSinceMidnight(t) \in Int /\ Moment(x, y, z) = StampOn(ConvToDaisy(z.d), t)
  <2>1. /\ SecsSinceMidnight(t) = Since(x, y, z)
        /\ Since(x, y, z) \in Int /\ ConvToDaisy(z.d) \in Int
        /\ Moment(x, y, z) = StampOn(ConvToDaisy(z.d), t)
        /\ Moment(x, y, z) = (ConvToDaisy(z.d) - DAISY_UNIX_BASE) * SECS_PER_DAY + Since(x, y, z)
    BY <1>0, BeginIs, Zenon
  <2> QED BY <2>1, Zenon
<1>4. ConvToDaisy(DAddM(First(z), 12 * p.Y + 3 * p.q + p.m)) \in Int
  BY <1>1, <1>2
<1>5. /\ p.Y \in Nat /\ p.q \in Nat /\ p.m \in Nat
      /\ p.w \in Nat /\ p.d \in Nat /\ p.H \in Nat /\ p.M \in Nat /\ p.S \in Nat
  BY Zenon DEF Printed
<1>6. Later(First(z), t, kind, p)
        = StampOn(ConvToDaisy(DAddM(First(z), 12 * p.Y + 3 * p.q + p.m)), t) + Unmonthed(p)
  BY <1>3, <1>4, <1>5, LaterIs, Zenon
<1> QED BY <1>1, <1>2, <1>3, <1>6, Zenon

-----------------------------------------------------------------------------
(* Units that add up, kind by kind. *)

\* Differences without months, years or weeks of years add up.
LEMMA SecsAddUp ==
  ASSUME NEW x, NEW y, Stamped(x), Stamped(y), NEW kind, ~InParts(kind),
         NEW p, Printed(p), 12 * p.Y + 3 * p.q + p.m = 0,
         p.neg <=> Between(x, y) < 0, Unmonthed(p) = Mag(Between(x, y))
  PROVE  AddsUp(x, y, kind, p)
<1> DEFINE i == Moment(x, y, x)
           j == Moment(x, y, y)
           k == Between(x, y)
           w == Unmonthed(p)
           a == DayAfter(x, y, kind, p)
           z == Early(x, y, p)
<1>1. i \in Int /\ j \in Int /\ k \in Int /\ j = i + k
  BY MomentsApart, Zenon
<1>2. a = 0
  BY SMT DEF DayAfter, One
<1>3. p.neg \in BOOLEAN
  BY DEF Printed
<1>4. p.neg = (j < i)
  <2>1. p.neg <=> j < i
    <3> HIDE DEF i, j, k
    <3> QED BY <1>1, SMT DEF k
  <2> DEFINE q == j < i
  <2>2. q \in BOOLEAN /\ (p.neg <=> q)
    BY <2>1
  <2> HIDE DEF q
  <2>3. p.neg = q
    BY <1>3, <2>2, Zenon
  <2> QED BY <2>3 DEF q
<1>5. kind # "ywd"
  BY DEF InParts
<1>6. In(kind, z) = First(z)
  BY <1>5, Zenon DEF In, First
<1>7. Departure(x, y, kind, p) = First(z)
  BY <1>2, <1>6, Zenon DEF Departure, DAddD
<1>8. OneOf(x, y, z)
  BY Zenon DEF OneOf, Early
<1>9. Later(First(z), Begin(x, y, z).t, kind, p) = Moment(x, y, z) + w
  <2> HIDE DEF z
  <2> QED BY <1>5, <1>8, SoManySeconds, Zenon
<1>10. Moment(x, y, z) + w = Moment(x, y, Late(x, y, p)) + a * SECS_PER_DAY
  <2>1. CASE p.neg
    <3>1. Moment(x, y, z) = j /\ Moment(x, y, Late(x, y, p)) = i
      BY <2>1 DEF Early, Late
    <3>2. w = -k
      <4> HIDE DEF k, w
      <4> QED BY <1>1, <2>1, SMT DEF Mag, k, w
    <3> DEFINE u == Moment(x, y, z)
               v == Moment(x, y, Late(x, y, p))
    <3>3. u = j /\ v = i
      BY <3>1
    <3> HIDE DEF i, j, k, w, a, u, v
    <3>4. u + w = v + a * SECS_PER_DAY
      BY <1>1, <1>2, <3>2, <3>3, SMT DEF SECS_PER_DAY
    <3> QED BY <3>4 DEF u, v
  <2>2. CASE ~p.neg
    <3>1. Moment(x, y, z) = i /\ Moment(x, y, Late(x, y, p)) = j
      BY <2>2 DEF Early, Late
    <3>2. w = k
      <4> HIDE DEF k, w
      <4> QED BY <1>1, <2>2, SMT DEF Mag, k, w
    <3> DEFINE u == Moment(x, y, z)
               v == Moment(x, y, Late(x, y, p))
    <3>3. u = i /\ v = j
      BY <3>1
    <3> HIDE DEF i, j, k, w, a, u, v
    <3>4. u + w = v + a * SECS_PER_DAY
      BY <1>1, <1>2, <3>2, <3>3, SMT DEF SECS_PER_DAY
    <3> QED BY <3>4 DEF u, v
  <2> QED BY <2>1, <2>2
<1> HIDE DEF z, w, a, i, j, k
<1>11. Later(Departure(x, y, kind, p), Begin(x, y, z).t, kind, p) = Moment(x, y, Late(x, y, p)) + a * SECS_PER_DAY
  BY <1>7, <1>9, <1>10
<1> QED BY <1>4, <1>11 DEF AddsUp, z, a, i, j

\* What UnitsAddUp says of a line that is a time.
TimesUp(x, y, kind, p) ==
  LET Nanos(z) == SecsSinceMidnight(z.t) * NANOS_PER_SEC + (IF kind = "ns" THEN z.t.ns ELSE 0)
      secs == (7 * p.w + p.d) * SECS_PER_DAY + ClockSecs(p)
  IN Nanos(Late(x, y, p)) - Nanos(Early(x, y, p)) = secs * NANOS_PER_SEC + p.N

\* Division with a rest.
LEMMA DivisionIs ==
  ASSUME NEW a \in Nat, NEW n \in Nat \ {0}
  PROVE  a = n * (a \div n) + (a % n) /\ a \div n \in Nat /\ a % n \in Nat
<1> DEFINE b == TRUE
           part == IF b THEN a \div n ELSE 0
           rest == IF b THEN a % n ELSE a
<1>1. part \in Nat /\ rest \in Nat /\ a = n * part + rest
  <2>1. b \in BOOLEAN
    OBVIOUS
  <2> HIDE DEF b
  <2> QED BY <2>1, RestsAre, SMT
<1>2. part = a \div n /\ rest = a % n
  BY Zenon
<1> DEFINE Holds(q, r) == a = n * q + r /\ q \in Nat /\ r \in Nat
<1>3. Holds(part, rest)
  BY <1>1, Zenon
<1> HIDE DEF part, rest, Holds
<1>4. Holds(a \div n, a % n)
  BY <1>2, <1>3, Zenon
<1> QED BY <1>4, Zenon DEF Holds

\* Differences of times add up.
LEMMA TimesAddUp ==
  ASSUME NEW x, NEW y, Timely(x), Timely(y), NEW f, NEW kind \in {"s", "ns"},
         "S" \in f, kind = "ns" => "N" \in f
  PROVE  TimesUp(x, y, kind, Precalc(f, Diff(kind, x, y)))
<1> DEFINE u == SecsSinceMidnight(x.t)
           v == SecsSinceMidnight(y.t)
           s == x.t.ns
           t == y.t.ns
           c == TDiffS(x.t, y.t)
           N == NANOS_PER_SEC
           n == c * NANOS_PER_SEC + y.t.ns - x.t.ns
           dur == Diff(kind, x, y)
           p == Precalc(f, dur)
<1>1. x.t \in Times /\ y.t \in Times
  BY TimelyIs, Zenon
<1>2. u \in Int /\ v \in Int /\ s \in Int /\ t \in Int /\ c = v - u /\ c \in Int
  <2>1. u \in Int /\ v \in Int /\ s \in Int /\ t \in Int
    BY <1>1, TimesAre, Zenon
  <2>2. c = v - u /\ c \in Int
    BY <1>1, ClocksApart, Zenon
  <2> QED BY <2>1, <2>2
<1>3. /\ c \in Int /\ n \in Int
      /\ Diff("s", x, y) = Duration(c < 0, 0, 0, Mag(c), 0, 0)
      /\ Diff("ns", x, y) = Duration(n < 0, 0, 0, Mag(n) \div N, 0, Mag(n) % N)
  BY TimeDurations, Zenon
<1>4. N \in Int /\ N > 0
  BY NanosAssumption, SMT
<1> DEFINE W == IF kind = "ns" THEN n ELSE c * N
           g == IF kind = "ns" THEN n < 0 ELSE c < 0
           i == IF kind = "ns" THEN Mag(n) \div N ELSE Mag(c)
           k == IF kind = "ns" THEN Mag(n) % N ELSE 0
<1>5. dur = Duration(g, 0, 0, i, 0, k)
  BY <1>3, Zenon
<1>6. n = c * N + (t - s)
  <2> HIDE DEF c, s, t, N
  <2> QED BY <1>2, <1>4, SMT DEF s, t, N
<1> HIDE DEF u, v, s, t, c, N, n, dur, p
<1>7. /\ g \in BOOLEAN /\ i \in Nat /\ k \in Nat
      /\ Mag(W) = i * N + k
      /\ g <=> W < 0
      /\ W \in Int
  <2>1. CASE kind = "ns"
    <3>1. W = n /\ g = (n < 0) /\ i = Mag(n) \div N /\ k = Mag(n) % N
      BY <2>1
    <3> DEFINE a == Mag(n)
    <3>2. a \in Nat
      BY <1>3, SMT DEF Mag
    <3> HIDE DEF W, g, i, k, a
    <3>3. a = N * (a \div N) + (a % N) /\ a \div N \in Nat /\ a % N \in Nat
      <4>1. N \in Nat \ {0}
        BY <1>4
      <4> QED BY <3>2, <4>1, DivisionIs, Zenon
    <3>4. i = a \div N /\ k = a % N
      BY <3>1 DEF a
    <3>5. a = N * i + k /\ i \in Nat /\ k \in Nat
      <4> DEFINE Holds(q, r) == a = N * q + r /\ q \in Nat /\ r \in Nat
      <4>1. Holds(a \div N, a % N)
        BY <3>3, Zenon
      <4> HIDE DEF i, k, Holds
      <4>2. Holds(i, k)
        BY <3>4, <4>1, Zenon
      <4> QED BY <4>2, Zenon DEF Holds
    <3>6. N * i = i * N
      BY <1>4, <3>5
    <3>7. Mag(W) = i * N + k
      BY <3>1, <3>5, <3>6 DEF a
    <3>8. (n < 0) \in BOOLEAN
      OBVIOUS
    <3>9. g \in BOOLEAN /\ (g <=> n < 0)
      BY <3>1, <3>8, Zenon
    <3> QED BY <1>3, <3>1, <3>5, <3>7, <3>9
  <2>2. CASE kind # "ns"
    <3>1. W = c * N /\ g = (c < 0) /\ i = Mag(c) /\ k = 0
      BY <2>2
    <3> HIDE DEF W, g, i, k
    <3>2. W \in Int /\ (c < 0 <=> c * N < 0) /\ Mag(c * N) = Mag(c) * N + 0 /\ Mag(c) \in Nat
      <4>1. c >= 0 => c * N >= 0 /\ c * N \in Int
        BY <1>2, <1>4, SMT
      <4>2. c < 0 => c * N < 0 /\ c * N \in Int /\ (-c) * N = -(c * N)
        BY <1>2, <1>4, SMT
      <4> QED BY <1>2, <1>4, <3>1, <4>1, <4>2, SMT DEF Mag
    <3>3. (c < 0) \in BOOLEAN
      OBVIOUS
    <3>4. g \in BOOLEAN /\ (g <=> c < 0)
      BY <3>1, <3>3, Zenon
    <3>5. Mag(W) = i * N + k /\ i \in Nat /\ k \in Nat
      BY <3>1, <3>2
    <3> QED BY <3>1, <3>2, <3>4, <3>5
  <2> QED BY <2>1, <2>2
<1> HIDE DEF g, i, k
<1>8. /\ dur \in Durations /\ dur.neg = g /\ dur.mon = 0 /\ dur.days = 0 /\ dur.secs = i /\ dur.ns = k
  <2> DEFINE o == 0
  <2>1. o \in Nat /\ o \in Int /\ i \in Int /\ k \in Int /\ g \in BOOLEAN
    BY <1>7
  <2>2. dur = Duration(g, o, o, i, 0, k)
    BY <1>5
  <2> HIDE DEF o
  <2>3. /\ dur \in Durations /\ dur.neg = g /\ dur.mon = o /\ dur.days = o /\ dur.secs = i /\ dur.ns = k
    BY <2>1, <2>2, DurationIs, SMT
  <2> QED BY <2>3 DEF o
<1>9. /\ p.neg <=> dur.neg \/ dur.days * SECS_PER_DAY + dur.secs < 0
      /\ p.neg \in BOOLEAN
      /\ Unmonthed(p) = Mag(dur.days * SECS_PER_DAY + dur.secs)
  <2>1. /\ p.units = f
        /\ p.neg <=> dur.neg \/ dur.days * SECS_PER_DAY + dur.secs < 0
        /\ p.neg \in BOOLEAN
        /\ p.Y \in Nat /\ p.q \in Nat /\ p.m \in Nat
        /\ p.w \in Nat /\ p.d \in Nat /\ p.H \in Nat /\ p.M \in Nat /\ p.S \in Nat
        /\ Whole(f, dur.mon) \/ dur.mon = 0 => 12 * p.Y + 3 * p.q + p.m = dur.mon
        /\ "S" \in f \/ ("d" \in f /\ dur.secs = 0) => Unmonthed(p) = TotalSecs(dur)
        /\ Unmonthed(p) \in Int
        /\ TotalSecs(dur) = Mag(dur.days * SECS_PER_DAY + dur.secs)
    BY <1>8, PrecalcIs, Zenon DEF p
  <2> QED BY <2>1, Zenon
<1>10. 0 * SECS_PER_DAY + i = i /\ Mag(i) = i /\ ~(i < 0)
  BY <1>7, SMT DEF SECS_PER_DAY, Mag
<1>11. Unmonthed(p) = i
  BY <1>8, <1>9, <1>10
<1>12. p.neg <=> W < 0
  BY <1>7, <1>8, <1>9, <1>10
<1>13. p.N = k
  <2>1. p.N = IF "N" \in f THEN dur.ns ELSE 0
    BY Zenon DEF Precalc, p
  <2>2. "N" \notin f => k = 0
    BY DEF k
  <2> QED BY <1>8, <2>1, <2>2
<1> DEFINE fx == IF kind = "ns" THEN s ELSE 0
           fy == IF kind = "ns" THEN t ELSE 0
<1>14. W = (v * N + fy) - (u * N + fx) /\ fx \in Int /\ fy \in Int
  <2>1. CASE kind = "ns"
    <3>1. W = n /\ fx = s /\ fy = t
      BY <2>1
    <3> QED BY <1>2, <1>4, <1>6, <2>1, <3>1, SMT
  <2>2. CASE kind # "ns"
    <3>1. W = c * N /\ fx = 0 /\ fy = 0
      BY <2>2
    <3> QED BY <1>2, <1>4, <2>2, <3>1, SMT
  <2> QED BY <2>1, <2>2
<1> DEFINE ex == u * N + fx
           ey == v * N + fy
<1>15. ex \in Int /\ ey \in Int /\ W = ey - ex
  <2>1. u * N \in Int /\ v * N \in Int
    BY <1>2, <1>4, SMT
  <2> HIDE DEF W, fx, fy
  <2> QED BY <1>14, <2>1
<1> DEFINE Nanos(z) == SecsSinceMidnight(z.t) * NANOS_PER_SEC + (IF kind = "ns" THEN z.t.ns ELSE 0)
<1>16. Nanos(x) = ex /\ Nanos(y) = ey
  BY Zenon DEF u, v, s, t, N
<1> HIDE DEF W, fx, fy, ex, ey
<1>17. Nanos(Late(x, y, p)) - Nanos(Early(x, y, p)) = Mag(W)
  <2>1. CASE p.neg
    <3>1. Nanos(Late(x, y, p)) = ex /\ Nanos(Early(x, y, p)) = ey
      BY <1>16, <2>1 DEF Late, Early
    <3>2. ex - ey = Mag(W)
      BY <1>12, <1>15, <2>1, SMT DEF Mag
    <3> HIDE DEF Nanos
    <3> QED BY <3>1, <3>2
  <2>2. CASE ~p.neg
    <3>1. Nanos(Late(x, y, p)) = ey /\ Nanos(Early(x, y, p)) = ex
      BY <1>16, <2>2 DEF Late, Early
    <3>2. ey - ex = Mag(W)
      BY <1>12, <1>15, <2>2, SMT DEF Mag
    <3> HIDE DEF Nanos
    <3> QED BY <3>1, <3>2
  <2> QED BY <2>1, <2>2
<1>18. Nanos(Late(x, y, p)) - Nanos(Early(x, y, p)) = Unmonthed(p) * N + p.N
  <2> HIDE DEF Nanos
  <2> QED BY <1>7, <1>11, <1>13, <1>17
<1> QED BY <1>18, Zenon DEF TimesUp, Unmonthed, p, dur, N

\* dt_dtdiff(): what is left of the seconds makes up for the day that is given
\* back.
LEMMA LeftMakesUp ==
  ASSUME NEW x, NEW y, Stamped(x), Stamped(y)
  PROVE  /\ SecsLeft(x, y) \in Int /\ Gap(x, y) \in Int /\ Shift(x, y) \in Int /\ Apart(x, y) \in Int
         /\ Backward(x, y) =>
              /\ Shift(x, y) = One(Apart(x, y) > 0)
              /\ SecsLeft(x, y) = Shift(x, y) * SECS_PER_DAY - Apart(x, y)
              /\ SecsLeft(x, y) >= 0
              /\ Between(x, y) < 0
         /\ ~Backward(x, y) =>
              SecsLeft(x, y) = Apart(x, y) - Shift(x, y) * SECS_PER_DAY
         /\ ~Backward(x, y) /\ SecsLeft(x, y) < 0 =>
              /\ Gap(x, y) + Shift(x, y) = 0
              /\ Shift(x, y) = One(Apart(x, y) > 0)
              /\ Between(x, y) < 0
         /\ ~Backward(x, y) /\ SecsLeft(x, y) >= 0 => Between(x, y) >= 0
<1> DEFINE g == Gap(x, y)
           c == Apart(x, y)
           k == Shift(x, y)
           L == SecsLeft(x, y)
           s == Signed(x, y)
           w == Between(x, y)
           back == Backward(x, y)
           gives == GivesBack(x, y)
           o == One(c > 0)
           D == SECS_PER_DAY
<1>1. /\ g \in Int /\ c \in Int
      /\ gives <=> (c > 0 /\ g < 0) \/ (c < 0 /\ g > 0) \/ (c = 0 /\ g = 0)
      /\ c > 0 /\ g < 0 => k = 1
      /\ c < 0 /\ g > 0 => k = -1
      /\ ~(c > 0 /\ g < 0) /\ ~(c < 0 /\ g > 0) => k = 0
      /\ k \in Int
  BY SignsAre, SMT
<1>2. -D <= c /\ c <= D
  BY ApartIs, Zenon
<1>3. D \in Int /\ D > 0
  BY SMT DEF SECS_PER_DAY
<1>4. back <=> g + k < 0
  BY DEF Backward
<1>5. (back => s = -c) /\ (~back => s = c)
  BY DEF Signed
<1>6. (gives => L = s - Sgn(s) * D) /\ (~gives => L = s)
  BY DEF SecsLeft
<1>7. w = g * D + c
  BY Zenon DEF Between
<1>8. (c > 0 => o = 1) /\ (~(c > 0) => o = 0)
  BY SMT DEF One
<1>9. (s > 0 => Sgn(s) = 1) /\ (s < 0 => Sgn(s) = -1) /\ (s = 0 => Sgn(s) = 0)
  <2>1. s \in Int
    <3> HIDE DEF c, s
    <3> QED BY <1>1, <1>5
  <2> HIDE DEF s
  <2> QED BY <2>1, SMT DEF Sgn, One
<1> DEFINE e == Sgn(s) * D
<1>10. gives => L = s - e
  BY <1>6
<1>11. (s > 0 => e = D) /\ (s < 0 => e = -D) /\ (s = 0 => e = 0)
  <2> DEFINE v == Sgn(s)
  <2>1. (s > 0 => v = 1) /\ (s < 0 => v = -1) /\ (s = 0 => v = 0)
    BY <1>9
  <2> HIDE DEF v, D, s
  <2>2. (s > 0 => v * D = D) /\ (s < 0 => v * D = -D) /\ (s = 0 => v * D = 0)
    BY <1>3, <2>1, SMT
  <2> QED BY <2>2 DEF v
<1> DEFINE i == k * D
           j == g * D
<1>12. /\ i \in Int /\ j \in Int
       /\ k = 1 => i = D
       /\ k = -1 => i = -D
       /\ k = 0 => i = 0
       /\ g <= -2 => j <= -(D + D)
       /\ g = -1 => j = -D
       /\ g = 0 => j = 0
       /\ g >= 1 => j >= D
       /\ g < 0 => j <= -D
  <2> HIDE DEF g, k
  <2>1. D = 86400
    BY SMT DEF SECS_PER_DAY
  <2> HIDE DEF D
  <2> QED BY <1>1, <2>1, SMT DEF i, j
<1>13. w = j + c
  BY <1>7
<1> HIDE DEF g, c, k, L, s, w, back, gives, o, D, e, i, j
<1>14. back => /\ k = o
               /\ L = i - c
               /\ L >= 0
               /\ w < 0
  <2> HAVE back
  <2>1. CASE c > 0
    <3>1. g <= -2 /\ k = 1 /\ gives
      BY <1>1, <1>4, <2>1, SMT
    <3> QED BY <1>1, <1>2, <1>3, <1>5, <1>8, <1>10, <1>11, <1>12, <1>13, <2>1, <3>1, SMT
  <2>2. CASE ~(c > 0)
    <3>1. g < 0 /\ k = 0 /\ ~gives
      BY <1>1, <1>4, <2>2, SMT
    <3> QED BY <1>1, <1>2, <1>3, <1>5, <1>6, <1>8, <1>12, <1>13, <2>2, <3>1, SMT
  <2> QED BY <2>1, <2>2
<1>15. ~back => L = c - i
  <2> HAVE ~back
  <2>1. CASE gives
    BY <1>1, <1>3, <1>5, <1>10, <1>11, <1>12, <2>1, SMT
  <2>2. CASE ~gives
    BY <1>1, <1>5, <1>6, <1>12, <2>2, SMT
  <2> QED BY <2>1, <2>2
<1>16. ~back /\ L < 0 => g + k = 0 /\ k = o /\ w < 0
  <2> HAVE ~back /\ L < 0
  <2>1. CASE c > 0
    <3>1. g = -1 /\ k = 1
      BY <1>1, <1>3, <1>4, <1>12, <1>15, <2>1, SMT
    <3> QED BY <1>1, <1>3, <1>8, <1>12, <1>13, <1>15, <2>1, <3>1, SMT
  <2>2. CASE ~(c > 0)
    <3>1. g = 0 /\ k = 0
      BY <1>1, <1>2, <1>3, <1>4, <1>12, <1>15, <2>2, SMT
    <3> QED BY <1>1, <1>3, <1>8, <1>12, <1>13, <1>15, <2>2, <3>1, SMT
  <2> QED BY <2>1, <2>2
<1>17. ~back /\ L >= 0 => w >= 0
  <2> HAVE ~back /\ L >= 0
  <2>1. CASE c > 0 /\ g < 0
    BY <1>1, <1>2, <1>3, <1>4, <1>12, <1>13, <1>15, <2>1, SMT
  <2>2. CASE ~(c > 0 /\ g < 0)
    BY <1>1, <1>2, <1>3, <1>4, <1>12, <1>13, <1>15, <2>2, SMT
  <2> QED BY <2>1, <2>2
<1>18. L \in Int
  BY SecsLeftAre, Zenon DEF L
<1> QED BY <1>1, <1>14, <1>15, <1>16, <1>17, <1>18 DEF g, c, k, L, w, back, o, i, D

\* Adding the years between two dates as months, and the days, leads from one
\* to the other.
LEMMA DozensLeadOn ==
  ASSUME NEW neg, NEW a \in Ymds, a.d <= 28, Reading(a) \in CivilDays,
         NEW u \in Yds, Reading(u) = Reading(a), NEW v \in Yds, Reading(v) \in CivilDays,
         Reading(a) <= Reading(v), ~(a.m <= 2 /\ v.d < u.d /\ Leapp(v.y - 1))
  PROVE  /\ ConvToDaisy(DAddM(a, 12 * YdApart(neg, u, v).y)) \in Int
         /\ ConvToDaisy(DAddM(a, 12 * YdApart(neg, u, v).y)) + YdApart(neg, u, v).d = Reading(v)
<1> DEFINE r == YdApart(neg, u, v)
           n == r.y
           c == YearsOn(a, n)
<1>1. n \in Nat
  <2>1. Reading(u) <= Reading(v)
    OBVIOUS
  <2> QED BY <2>1, YdApartIsNone, Zenon
<1>2. c \in Ymds /\ r.d \in Int /\ Reading(c) + r.d = Reading(v)
  BY YearsLeadOn, Zenon
<1> HIDE DEF n
<1>3. DAddM(a, 12 * n) = c
  BY <1>1, YearsAreMonths, Zenon
<1>4. ConvToDaisy(c) = Reading(c) /\ Reading(c) \in Int
  BY <1>2, YmdsAre, Zenon
<1> QED BY <1>2, <1>3, <1>4, Zenon DEF n

\* On from the reference what is left leads to the line, as far as the times of
\* the day let it ...
LEMMA LeftLeadsForth ==
  ASSUME NEW x, NEW y, Stamped(x), Stamped(y), NEW kind \in {"ymd", "yd"}, ~Backward(x, y),
         First(x).d <= 28, ~LosesLeapDay(kind, First(x), First(y))
  PROVE  /\ ConvToDaisy(DAddM(First(x), MonthsLeft(kind, x, y))) \in Int
         /\ ConvToDaisy(DAddM(First(x), MonthsLeft(kind, x, y))) + DaysLeft(kind, x, y)
              = ConvToDaisy(y.d) + Shift(x, y)
<1> DEFINE a == First(x)
           to == First(y)
           m == ConvToDaisy(x.d)
           n == ConvToDaisy(y.d)
           k == Shift(x, y)
<1>1. a \in Ymds /\ Reading(a) = m /\ to \in Ymds /\ Reading(to) = n
  BY FirstIs, Zenon
<1>2. m \in Int /\ n \in Int /\ n + k \in Int /\ m \in CivilDays /\ n \in CivilDays /\ n + k \in CivilDays
  BY YdSidesAre, Zenon
<1>3. ~(n + k < m)
  <2>1. ~((n - m) + k < 0)
    BY DEF Backward, Gap
  <2>2. k \in Int
    BY SignsAre, Zenon
  <2> HIDE DEF m, n, k
  <2> QED BY <1>2, <2>1, <2>2
<1>4. CASE kind = "ymd"
  <2> DEFINE e == Second(x, y)
             neg == FALSE
  <2>1. e \in Ymds /\ Reading(e) = n + k
    BY SecondIs, Zenon
  <2>2. MonthsLeft(kind, x, y) = YmdApart(neg, a, e).m /\ DaysLeft(kind, x, y) = YmdApart(neg, a, e).d
    BY <1>4 DEF MonthsLeft, DaysLeft, Parts
  <2> HIDE DEF neg, e, m, n, k
  <2>3. Reading(a) <= Reading(e)
    BY <1>1, <1>2, <1>3, <2>1
  <2>4. /\ ConvToDaisy(DAddM(a, YmdApart(neg, a, e).m)) \in Int
        /\ ConvToDaisy(DAddM(a, YmdApart(neg, a, e).m)) + YmdApart(neg, a, e).d = Reading(e)
    BY <1>1, <2>1, <2>3, MonthsLeadOn, Zenon
  <2> QED BY <2>1, <2>2, <2>4 DEF n, k
<1>5. CASE kind = "yd"
  <2> DEFINE u == YdFirst(x)
             b == YdFirst(y)
             v == YdSecond(x, y)
             neg == FALSE
  <2>1. /\ u \in Yds /\ Reading(u) = m /\ b \in Yds /\ Reading(b) = n
        /\ v \in Yds /\ Reading(v) = n + k
    BY YdSidesAre, Zenon
  <2>2. MonthsLeft(kind, x, y) = 12 * YdApart(neg, u, v).y /\ DaysLeft(kind, x, y) = YdApart(neg, u, v).d
    BY <1>5 DEF MonthsLeft, DaysLeft, YdParts
  <2>3. v = b \/ Reading(v) = Reading(a) \/ Reading(v) = Reading(b) - 1
    <3>1. /\ k \in Int
          /\ k = 0 \/ (k = 1 /\ Gap(x, y) < 0) \/ k = -1
          /\ Gap(x, y) \in Int
      BY SignsAre, SMT
    <3>2. Gap(x, y) = n - m
      BY DEF Gap
    <3>3. k = 0 => v = b
      <4>1. v = DAddD(b, k)
        BY DEF YdSecond
      <4> HIDE DEF v, b, k
      <4> QED BY <4>1, Zenon DEF DAddD
    <3> HIDE DEF a, b, v, m, n, k
    <3>4. k = 1 => n + k = m
      BY <1>2, <1>3, <3>1, <3>2
    <3>5. k = -1 => n + k = n - 1
      BY <1>2
    <3> QED BY <1>1, <2>1, <3>1, <3>3, <3>4, <3>5
  <2>4. ~(32 * to.m + to.d <= 32 * a.m + a.d /\ Leapp(to.y - 1)) \/ ~(a.m <= 2)
    BY <1>5 DEF LosesLeapDay
  <2>5. ~(a.m <= 2 /\ v.d < u.d /\ Leapp(v.y - 1))
    <3> SUFFICES ASSUME a.m <= 2, v.d < u.d, Leapp(v.y - 1)
                 PROVE  32 * to.m + to.d <= 32 * a.m + a.d /\ Leapp(to.y - 1)
      BY <2>4
    <3>0. a.d <= 28
      OBVIOUS
    <3> HIDE DEF a, to, u, b, v, m, n, k
    <3>1. /\ Reading(a) \in CivilDays /\ Reading(u) = Reading(a) /\ Reading(b) \in CivilDays
          /\ Reading(to) = Reading(b)
      BY <1>1, <1>2, <2>1
    <3> QED BY <1>1, <2>1, <2>3, <3>0, <3>1, LossIsTold
  <2>6. a.d <= 28
    OBVIOUS
  <2> HIDE DEF neg, a, u, v, b, to, m, n, k
  <2>7. Reading(a) <= Reading(v) /\ Reading(a) \in CivilDays /\ Reading(u) = Reading(a) /\ Reading(v) \in CivilDays
    BY <1>1, <1>2, <1>3, <2>1
  <2>8. /\ ConvToDaisy(DAddM(a, 12 * YdApart(neg, u, v).y)) \in Int
        /\ ConvToDaisy(DAddM(a, 12 * YdApart(neg, u, v).y)) + YdApart(neg, u, v).d = Reading(v)
    BY <1>1, <2>1, <2>5, <2>6, <2>7, DozensLeadOn
  <2> QED BY <2>1, <2>2, <2>8 DEF a, n, k
<1> QED BY <1>4, <1>5

\* ... and back from the line, as far as the times of the day let it, to the
\* reference.
LEMMA LeftLeadsBack ==
  ASSUME NEW x, NEW y, Stamped(x), Stamped(y), NEW kind \in {"ymd", "yd"}, Backward(x, y),
         Second(x, y).d <= 28, ~LosesLeapDay(kind, Second(x, y), First(x))
  PROVE  /\ ConvToDaisy(DAddM(Second(x, y), MonthsLeft(kind, x, y))) \in Int
         /\ ConvToDaisy(DAddM(Second(x, y), MonthsLeft(kind, x, y))) + DaysLeft(kind, x, y) = ConvToDaisy(x.d)
<1> DEFINE a == Second(x, y)
           to == First(x)
           m == ConvToDaisy(x.d)
           n == ConvToDaisy(y.d)
           k == Shift(x, y)
<1>1. a \in Ymds /\ Reading(a) = n + k /\ to \in Ymds /\ Reading(to) = m
  BY FirstIs, SecondIs, Zenon
<1>2. m \in Int /\ n \in Int /\ n + k \in Int /\ m \in CivilDays /\ n + k \in CivilDays
  BY YdSidesAre, Zenon
<1>3. n + k < m
  <2>1. (n - m) + k < 0
    BY DEF Backward, Gap
  <2>2. k \in Int
    BY SignsAre, Zenon
  <2> HIDE DEF m, n, k
  <2> QED BY <1>2, <2>1, <2>2
<1>4. CASE kind = "ymd"
  <2> DEFINE neg == TRUE
  <2>1. MonthsLeft(kind, x, y) = YmdApart(neg, a, to).m /\ DaysLeft(kind, x, y) = YmdApart(neg, a, to).d
    BY <1>4 DEF MonthsLeft, DaysLeft, Parts
  <2>2. a.d <= 28
    OBVIOUS
  <2> HIDE DEF neg, a, to, m, n, k
  <2>3. Reading(a) <= Reading(to)
    BY <1>1, <1>2, <1>3
  <2>4. /\ ConvToDaisy(DAddM(a, YmdApart(neg, a, to).m)) \in Int
        /\ ConvToDaisy(DAddM(a, YmdApart(neg, a, to).m)) + YmdApart(neg, a, to).d = Reading(to)
    BY <1>1, <2>2, <2>3, MonthsLeadOn, Zenon
  <2> QED BY <1>1, <2>1, <2>4 DEF a, m
<1>5. CASE kind = "yd"
  <2> DEFINE u == YdSecond(x, y)
             v == YdFirst(x)
             neg == TRUE
  <2>1. u \in Yds /\ Reading(u) = n + k /\ v \in Yds /\ Reading(v) = m
    BY YdSidesAre, Zenon
  <2>2. MonthsLeft(kind, x, y) = 12 * YdApart(neg, u, v).y /\ DaysLeft(kind, x, y) = YdApart(neg, u, v).d
    BY <1>5 DEF MonthsLeft, DaysLeft, YdParts
  <2>3. ~(32 * to.m + to.d <= 32 * a.m + a.d /\ Leapp(to.y - 1)) \/ ~(a.m <= 2)
    BY <1>5 DEF LosesLeapDay
  <2>4. ~(a.m <= 2 /\ v.d < u.d /\ Leapp(v.y - 1))
    <3> SUFFICES ASSUME a.m <= 2, v.d < u.d, Leapp(v.y - 1)
                 PROVE  32 * to.m + to.d <= 32 * a.m + a.d /\ Leapp(to.y - 1)
      BY <2>3
    <3>0. a.d <= 28
      OBVIOUS
    <3> HIDE DEF a, to, u, v, m, n, k
    <3>1. /\ Reading(a) \in CivilDays /\ Reading(u) = Reading(a) /\ Reading(v) \in CivilDays
          /\ Reading(to) = Reading(v) /\ v = v
      BY <1>1, <1>2, <2>1
    <3> QED BY <1>1, <2>1, <3>0, <3>1, LossIsTold
  <2>5. a.d <= 28
    OBVIOUS
  <2> HIDE DEF neg, a, u, v, to, m, n, k
  <2>6. Reading(a) <= Reading(v) /\ Reading(a) \in CivilDays /\ Reading(u) = Reading(a) /\ Reading(v) \in CivilDays
    BY <1>1, <1>2, <1>3, <2>1
  <2>7. /\ ConvToDaisy(DAddM(a, 12 * YdApart(neg, u, v).y)) \in Int
        /\ ConvToDaisy(DAddM(a, 12 * YdApart(neg, u, v).y)) + YdApart(neg, u, v).d = Reading(v)
    BY <1>1, <2>1, <2>4, <2>5, <2>6, DozensLeadOn
  <2> QED BY <2>1, <2>2, <2>7 DEF a, m
<1> QED BY <1>4, <1>5

\* What is printed for the months, the days and the seconds between two
\* date-times.
SecsPrinted(kind, x, y) == DaysLeft(kind, x, y) * SECS_PER_DAY + SecsLeft(x, y)
MonthsPrinted(kind, x, y, p) ==
  /\ kind \in {"ymd", "yd"} /\ Stamped(x) /\ Stamped(y)
  /\ Printed(p)
  /\ p.neg <=> Backward(x, y) \/ SecsPrinted(kind, x, y) < 0
  /\ 12 * p.Y + 3 * p.q + p.m = MonthsLeft(kind, x, y)
  /\ Unmonthed(p) = Mag(SecsPrinted(kind, x, y))

\* dt_dtdiff(), precalc(): on from the reference months, days and seconds lead
\* to the line.
LEMMA MonthsLeadForth ==
  ASSUME NEW x, NEW y, NEW kind, NEW p, MonthsPrinted(kind, x, y, p), ~p.neg, First(x).d <= 28,
         ~LosesLeapDay(kind, First(x), First(y))
  PROVE  Later(First(x), Begin(x, y, x).t, kind, p) = Moment(x, y, y)
<1> DEFINE a == First(x)
           d == DaysLeft(kind, x, y)
           g == Gap(x, y)
           k == Shift(x, y)
           c == Apart(x, y)
           L == SecsLeft(x, y)
           D == SECS_PER_DAY
           m == ConvToDaisy(x.d)
           n == ConvToDaisy(y.d)
           w == Unmonthed(p)
           h == (g + k) - d
<1>1. kind \in {"ymd", "yd"} /\ Stamped(x) /\ Stamped(y) /\ Printed(p)
  BY Zenon DEF MonthsPrinted
<1>2. a \in Ymds /\ Reading(a) = m /\ m \in Int /\ n \in Int
  <2>1. n \in Int
    BY <1>1, FirstIs, Zenon
  <2> QED BY <1>1, <2>1, FirstIs, Zenon
<1>4. /\ L \in Int /\ g \in Int /\ k \in Int /\ c \in Int
      /\ ~Backward(x, y) => L = c - k * D
  BY <1>1, LeftMakesUp, Zenon
<1>5. d \in Int /\ 0 <= d
  BY <1>1, LeftAre, Zenon
<1>6. ~Backward(x, y) /\ ~(SecsPrinted(kind, x, y) < 0)
  BY Zenon DEF MonthsPrinted
<1> DEFINE z == ConvToDaisy(DAddM(a, MonthsLeft(kind, x, y)))
<1>9. z \in Int /\ z + d = n + k
  BY <1>1, <1>6, LeftLeadsForth, Zenon
<1>10. g = n - m
  BY DEF Gap
<1>11. h \in Int /\ z = m + h
  <2> HIDE DEF a, d, g, k, c, L, D, m, n, w, z
  <2> QED BY <1>2, <1>4, <1>5, <1>9, <1>10
<1>12. MonthsTo(a, p, x, h)
  <2>1. ConvToDaisy(DAddM(a, 12 * p.Y + 3 * p.q + p.m)) = z
    BY Zenon DEF MonthsPrinted
  <2> HIDE DEF h, z
  <2> QED BY <1>11, <2>1 DEF MonthsTo
<1>13. OneOf(x, y, x)
  BY <1>1 DEF OneOf
<1> DEFINE r == Later(a, Begin(x, y, x).t, kind, p)
           v == Moment(x, y, x)
           u == Moment(x, y, y)
           s == SecsPrinted(kind, x, y)
<1>14. r = v + h * SECS_PER_DAY + w
  <2>1. Printed(p)
    BY <1>1
  <2>2. kind # "ywd"
    BY <1>1
  <2> HIDE DEF h, a
  <2>3. Later(a, Begin(x, y, x).t, kind, p) = v + h * SECS_PER_DAY + w
    BY <1>12, <1>13, <2>1, <2>2, SoMuchLater, SMTT(30)
  <2> QED BY <2>3
<1>15. /\ v \in Int /\ u \in Int /\ Between(x, y) \in Int
       /\ u = v + Between(x, y)
  BY <1>1, MomentsApart, Zenon
<1>16. Between(x, y) = g * D + c
  BY Zenon DEF Between
<1>17. s = d * D + L /\ w = Mag(s) /\ ~(s < 0)
  BY <1>6, Zenon DEF SecsPrinted, MonthsPrinted
<1>18. D = 86400 /\ SECS_PER_DAY = 86400
  BY SMT DEF SECS_PER_DAY
<1>19. L = c - k * D
  BY <1>4, <1>6
<1> HIDE DEF a, d, g, k, c, L, D, m, n, w, z, r, v, u, s
<1>20. w = d * D + L
  <2>1. s \in Int
    BY <1>4, <1>5, <1>17, <1>18, SMT
  <2> QED BY <1>17, <2>1, SMT DEF Mag
<1>21. r = u
  BY <1>4, <1>5, <1>14, <1>15, <1>16, <1>18, <1>19, <1>20, SMT
<1> QED BY <1>21 DEF r, u, a

\* ... and back from the line, or from the day after it, to the reference.
LEMMA MonthsLeadBack ==
  ASSUME NEW x, NEW y, NEW kind, NEW p, MonthsPrinted(kind, x, y, p), p.neg
  PROVE  /\ Shift(x, y) = One(Apart(x, y) > 0)
         /\ Second(x, y).d <= 28 /\ ~LosesLeapDay(kind, Second(x, y), First(x)) =>
              Later(Second(x, y), Begin(x, y, y).t, kind, p)
                = Moment(x, y, x) + Shift(x, y) * SECS_PER_DAY
<1> DEFINE a == First(x)
           e == Second(x, y)
           d == DaysLeft(kind, x, y)
           g == Gap(x, y)
           k == Shift(x, y)
           c == Apart(x, y)
           L == SecsLeft(x, y)
           D == SECS_PER_DAY
           m == ConvToDaisy(x.d)
           n == ConvToDaisy(y.d)
           w == Unmonthed(p)
           s == SecsPrinted(kind, x, y)
           h == (-g) - d
           back == Backward(x, y)
           o == One(c > 0)
<1>1. kind \in {"ymd", "yd"} /\ Stamped(x) /\ Stamped(y) /\ Printed(p)
  BY Zenon DEF MonthsPrinted
<1>2. a \in Ymds /\ Reading(a) = m /\ m \in Int /\ n \in Int
  <2>1. n \in Int
    BY <1>1, FirstIs, Zenon
  <2> QED BY <1>1, <2>1, FirstIs, Zenon
<1>3. e \in Ymds /\ Reading(e) = n + k /\ Reading(e) \in Int
  BY <1>1, SecondIs, Zenon
<1>4. /\ L \in Int /\ g \in Int /\ k \in Int /\ c \in Int
      /\ back => k = o /\ L = k * D - c /\ L >= 0
      /\ ~back => L = c - k * D
      /\ ~back /\ L < 0 => g + k = 0 /\ k = o
  BY <1>1, LeftMakesUp, Zenon
<1>5. /\ d \in Int /\ 0 <= d
      /\ g + k = 0 => MonthsLeft(kind, x, y) = 0 /\ d = 0
  BY <1>1, LeftAre, Zenon
<1>6. /\ back \/ s < 0
      /\ s = d * D + L /\ w = Mag(s)
      /\ 12 * p.Y + 3 * p.q + p.m = MonthsLeft(kind, x, y)
  BY Zenon DEF MonthsPrinted, SecsPrinted
<1>7. D \in Int /\ D > 0 /\ d * D \in Int /\ d * D >= 0 /\ k * D \in Int /\ g * D \in Int /\ s \in Int
      /\ (h * D = -(g * D) - d * D) /\ h \in Int
  <2>1. D = 86400
    BY SMT DEF SECS_PER_DAY
  <2> HIDE DEF d, g, k, c, L, D, s
  <2> QED BY <1>4, <1>5, <1>6, <2>1, SMT
<1>8. ~back => L < 0
  <2> HIDE DEF d, g, k, c, L, D, s, back
  <2> QED BY <1>4, <1>6, <1>7, SMT
<1>9. k = o
  BY <1>4, <1>8
<1> SUFFICES ASSUME e.d <= 28, ~LosesLeapDay(kind, e, a)
             PROVE  Later(e, Begin(x, y, y).t, kind, p) = Moment(x, y, x) + k * D
  BY <1>9
<1> DEFINE z == ConvToDaisy(DAddM(e, MonthsLeft(kind, x, y)))
<1>10. z = n + h
  <2>0. g = n - m
    BY DEF Gap
  <2>1. CASE back
    <3>1. z \in Int /\ z + d = m
      BY <1>1, <2>1, LeftLeadsBack, Zenon
    <3> HIDE DEF z, d, m, n, g
    <3> QED BY <1>2, <1>4, <1>5, <2>0, <3>1
  <2>2. CASE ~back
    <3>1. g + k = 0 /\ MonthsLeft(kind, x, y) = 0 /\ d = 0
      BY <1>4, <1>5, <1>8, <2>2
    <3>2. DAddM(e, 0) = e
      BY Zenon DEF DAddM
    <3>3. z = n + k
      <4>1. ConvToDaisy(e) = Reading(e)
        BY <1>3, YmdsAre, Zenon
      <4> QED BY <1>3, <3>1, <3>2, <4>1
    <3> HIDE DEF z, d, k, n, g
    <3> QED BY <1>2, <1>4, <1>5, <3>1, <3>3
  <2> QED BY <2>1, <2>2
<1>12. MonthsTo(e, p, y, h)
  <2>1. ConvToDaisy(DAddM(e, 12 * p.Y + 3 * p.q + p.m)) = z
    BY <1>6
  <2> HIDE DEF h, z
  <2> QED BY <1>7, <1>10, <2>1 DEF MonthsTo
<1>13. OneOf(x, y, y)
  BY <1>1 DEF OneOf
<1> DEFINE r == Later(e, Begin(x, y, y).t, kind, p)
           v == Moment(x, y, x)
           u == Moment(x, y, y)
<1>14. r = u + h * D + w
  <2>1. Printed(p)
    BY <1>1
  <2>2. kind # "ywd"
    BY <1>1
  <2> HIDE DEF h, e
  <2>3. Later(e, Begin(x, y, y).t, kind, p) = u + h * SECS_PER_DAY + w
    BY <1>12, <1>13, <2>1, <2>2, SoMuchLater, SMTT(30)
  <2> QED BY <2>3
<1>15. /\ v \in Int /\ u \in Int /\ Between(x, y) \in Int
       /\ u = v + Between(x, y)
  BY <1>1, MomentsApart, Zenon
<1>16. Between(x, y) = g * D + c
  BY Zenon DEF Between
<1> DEFINE A == d * D
           B == k * D
           C == g * D
           H == h * D
<1>17. A \in Int /\ B \in Int /\ C \in Int /\ H = (-C) - A /\ s = A + L /\ A >= 0
  BY <1>6, <1>7
<1>18. /\ back => L = B - c /\ L >= 0
       /\ ~back => L = c - B
       /\ ~back => L < 0 /\ A = 0 /\ C + B = 0
  <2>1. ~back => d = 0 /\ g + k = 0
    BY <1>4, <1>5, <1>8
  <2>2. D = 86400
    BY SMT DEF SECS_PER_DAY
  <2>3. d = 0 => A = 0
    <3> HIDE DEF d, D
    <3> QED BY <2>2, SMT
  <2>4. g + k = 0 => C + B = 0
    <3> HIDE DEF g, k, D
    <3> QED BY <1>4, <2>2, SMT
  <2> QED BY <1>4, <1>8, <2>1, <2>3, <2>4
<1> HIDE DEF a, d, g, k, c, L, D, m, n, w, z, r, v, u, s, h, back, o, A, B, C, H
<1>19. w = IF back THEN A + L ELSE -L
  <2>1. CASE back
    BY <1>4, <1>6, <1>17, <1>18, <2>1, SMT DEF Mag
  <2>2. CASE ~back
    BY <1>4, <1>6, <1>17, <1>18, <2>2, SMT DEF Mag
  <2> QED BY <2>1, <2>2
<1>20. r = u + H + w /\ Between(x, y) = C + c
  BY <1>14, <1>16 DEF H, C
<1>21. r = v + B
  <2>1. CASE back
    BY <1>4, <1>15, <1>17, <1>18, <1>19, <1>20, <2>1, SMT
  <2>2. CASE ~back
    BY <1>4, <1>15, <1>17, <1>18, <1>19, <1>20, <2>2, SMT
  <2> QED BY <2>1, <2>2
<1> QED BY <1>21 DEF r, v, B, k, e, D

\* Differences in months or years add up if no unit is left out.
LEMMA PartsAddUp ==
  ASSUME NEW x, NEW y, Stamped(x), Stamped(y), NEW kind \in {"ymd", "yd"},
         NEW f, "m" \in f \/ (kind = "yd" /\ "Y" \in f),
         "S" \in f \/ ("d" \in f /\ Apart(x, y) = 0)
  PROVE  AddsUp(x, y, kind, Precalc(f, Diff(kind, x, y)))
<1> DEFINE mon == MonthsLeft(kind, x, y)
           days == DaysLeft(kind, x, y)
           L == SecsLeft(x, y)
           dur == Diff(kind, x, y)
           p == Precalc(f, dur)
           s == SecsPrinted(kind, x, y)
           D == SECS_PER_DAY
<1>0. ASSUME NEW z PROVE In(kind, z) = First(z)
  BY SMT DEF In, First
<1>2. /\ Backward(x, y) \in BOOLEAN /\ days \in Int /\ 0 <= days
      /\ Gap(x, y) + Shift(x, y) = 0 => days = 0
      /\ kind = "yd" => mon % 12 = 0
  BY LeftAre, Zenon
<1>4. /\ dur \in Durations
      /\ dur.neg = Backward(x, y) /\ dur.mon = mon /\ dur.days = days /\ dur.secs = L
  BY LeftDurationsAre, Zenon
<1>3. Whole(f, dur.mon)
  BY <1>2, <1>4 DEF Whole
<1>5. "S" \in f \/ ("d" \in f /\ L = 0)
  <2> SUFFICES ASSUME Apart(x, y) = 0 PROVE L = 0
    OBVIOUS
  <2>1. /\ Backward(x, y) => /\ Shift(x, y) = One(Apart(x, y) > 0)
                             /\ L = Shift(x, y) * SECS_PER_DAY - Apart(x, y)
        /\ ~Backward(x, y) => L = Apart(x, y) - Shift(x, y) * SECS_PER_DAY
    BY LeftMakesUp, Zenon
  <2>2. Shift(x, y) = 0
    BY SignsAre, SMT
  <2>3. 0 * SECS_PER_DAY = 0
    BY SMT DEF SECS_PER_DAY
  <2> HIDE DEF L
  <2>4. CASE Backward(x, y)
    <3>1. L = 0 * SECS_PER_DAY - 0
      BY <2>1, <2>2, <2>4
    <3> QED BY <2>3, <3>1
  <2>5. CASE ~Backward(x, y)
    <3>1. L = 0 - 0 * SECS_PER_DAY
      BY <2>1, <2>2, <2>5
    <3> QED BY <2>3, <3>1
  <2> QED BY <2>4, <2>5
<1> HIDE DEF dur
<1>6. /\ p.neg <=> dur.neg \/ dur.days * SECS_PER_DAY + dur.secs < 0
      /\ p.neg \in BOOLEAN
      /\ p.Y \in Nat /\ p.q \in Nat /\ p.m \in Nat
      /\ p.w \in Nat /\ p.d \in Nat /\ p.H \in Nat /\ p.M \in Nat /\ p.S \in Nat
      /\ 12 * p.Y + 3 * p.q + p.m = dur.mon
      /\ Unmonthed(p) = TotalSecs(dur)
      /\ Unmonthed(p) \in Int
      /\ TotalSecs(dur) = Mag(dur.days * SECS_PER_DAY + dur.secs)
  <2>1. /\ p.units = f
        /\ p.neg <=> dur.neg \/ dur.days * SECS_PER_DAY + dur.secs < 0
        /\ p.neg \in BOOLEAN
        /\ p.Y \in Nat /\ p.q \in Nat /\ p.m \in Nat
        /\ p.w \in Nat /\ p.d \in Nat /\ p.H \in Nat /\ p.M \in Nat /\ p.S \in Nat
        /\ Whole(f, dur.mon) \/ dur.mon = 0 => 12 * p.Y + 3 * p.q + p.m = dur.mon
        /\ "S" \in f \/ ("d" \in f /\ dur.secs = 0) => Unmonthed(p) = TotalSecs(dur)
        /\ Unmonthed(p) \in Int
        /\ TotalSecs(dur) = Mag(dur.days * SECS_PER_DAY + dur.secs)
    BY <1>4, PrecalcIs, Zenon
  <2>2. "S" \in f \/ ("d" \in f /\ dur.secs = 0)
    BY <1>4, <1>5
  <2> HIDE DEF p
  <2> QED BY <1>3, <2>1, <2>2, Zenon
<1> HIDE DEF p
<1>7. MonthsPrinted(kind, x, y, p)
  <2>1. dur.days * SECS_PER_DAY + dur.secs = s
    BY <1>4, Zenon DEF SecsPrinted
  <2>2. Printed(p)
    BY <1>6, Zenon DEF Printed
  <2>3. p.neg <=> Backward(x, y) \/ s < 0
    BY <1>4, <1>6, <2>1, Zenon
  <2>4. Unmonthed(p) = Mag(s)
    BY <1>6, <2>1, Zenon
  <2>5. 12 * p.Y + 3 * p.q + p.m = mon
    BY <1>4, <1>6, Zenon
  <2>6. kind \in {"ymd", "yd"} /\ Stamped(x) /\ Stamped(y)
    OBVIOUS
  <2> HIDE DEF s, mon
  <2> QED BY <2>2, <2>3, <2>4, <2>5, <2>6, Zenon DEF MonthsPrinted, s, mon
<1>8. /\ L \in Int
      /\ Backward(x, y) => Between(x, y) < 0
      /\ ~Backward(x, y) /\ L < 0 => Gap(x, y) + Shift(x, y) = 0 /\ Between(x, y) < 0
      /\ ~Backward(x, y) /\ L >= 0 => Between(x, y) >= 0
  BY LeftMakesUp, Zenon
<1>10. Moment(x, y, x) \in Int /\ Moment(x, y, y) \in Int /\ Between(x, y) \in Int
       /\ Moment(x, y, y) = Moment(x, y, x) + Between(x, y)
  BY MomentsApart, Zenon
<1>11. p.neg <=> Between(x, y) < 0
  <2>1. p.neg <=> Backward(x, y) \/ s < 0
    BY <1>7, Zenon DEF MonthsPrinted
  <2> DEFINE d == days
             w == Between(x, y)
  <2>2. s = d * D + L
    BY Zenon DEF SecsPrinted
  <2>3. d * D \in Int /\ d * D >= 0 /\ (d = 0 => d * D = 0)
    <3>1. D = 86400
      BY SMT DEF SECS_PER_DAY
    <3>2. d \in Int /\ 0 <= d
      BY <1>2
    <3> HIDE DEF d, D
    <3> QED BY <3>1, <3>2, SMT
  <2> DEFINE e == d * D
  <2>4. e \in Int /\ e >= 0 /\ s = e + L /\ (Gap(x, y) + Shift(x, y) = 0 => e = 0) /\ w \in Int
    BY <1>2, <1>10, <2>2, <2>3
  <2> HIDE DEF e, L, s, w
  <2>5. ~Backward(x, y) => (s < 0 <=> w < 0)
    <3> HAVE ~Backward(x, y)
    <3>1. CASE L < 0
      <4>1. e = 0 /\ w < 0
        BY <1>8, <2>4, <3>1 DEF w
      <4> QED BY <1>8, <2>4, <3>1, <4>1
    <3>2. CASE L >= 0
      <4>1. w >= 0
        BY <1>8, <3>2 DEF w
      <4> QED BY <1>8, <2>4, <3>2, <4>1
    <3> QED BY <1>8, <3>1, <3>2
  <2> QED BY <1>8, <2>1, <2>5 DEF w
<1>12. p.neg = (Moment(x, y, y) < Moment(x, y, x))
  <2> DEFINE i == Moment(x, y, x)
             j == Moment(x, y, y)
             k == Between(x, y)
  <2>1. p.neg <=> j < i
    <3> HIDE DEF i, j, k
    <3> QED BY <1>10, <1>11, SMT DEF i, j, k
  <2> DEFINE z == j < i
  <2>2. z \in BOOLEAN /\ (p.neg <=> z)
    BY <2>1
  <2> HIDE DEF z
  <2>3. p.neg = z
    BY <1>6, <2>2, Zenon
  <2> QED BY <2>3 DEF z
<1> DEFINE a == DayAfter(x, y, kind, p)
           from == Departure(x, y, kind, p)
<1>13. a = One(p.neg /\ Apart(x, y) > 0)
  <2>1. (p.neg /\ ~Timeless(x, y) /\ TDiffS(x.t, y.t) > 0) <=> (p.neg /\ Apart(x, y) > 0)
    <3>1. ~(0 > 0)
      OBVIOUS
    <3> QED BY <3>1, Zenon DEF Apart
  <2>2. InParts(kind)
    BY DEF InParts
  <2> QED BY <2>1, <2>2, SMT DEF DayAfter, One
<1>14. from = DAddD(First(Early(x, y, p)), a)
  <2>1. In(kind, Early(x, y, p)) = First(Early(x, y, p))
    BY <1>0
  <2> QED BY <2>1, Zenon DEF Departure
<1> DEFINE u == Later(from, Begin(x, y, Early(x, y, p)).t, kind, p)
           v == Moment(x, y, Late(x, y, p)) + a * SECS_PER_DAY
           lead == Ordinary(from) /\ ~LosesLeapDay(kind, from, In(kind, Late(x, y, p))) => u = v
<1>15. ASSUME p.neg PROVE lead
  <2>1. Shift(x, y) = One(Apart(x, y) > 0)
    BY <1>7, <1>15, MonthsLeadBack, Zenon
  <2>2. a = Shift(x, y)
    BY <1>13, <1>15, <2>1
  <2>3. Early(x, y, p) = y /\ Late(x, y, p) = x
    BY <1>15 DEF Early, Late
  <2>4. from = Second(x, y)
    <3> HIDE DEF from, a
    <3> QED BY <1>14, <2>2, <2>3, Zenon DEF Second
  <2>5. from.typ = "ymd"
    <3>1. Second(x, y) \in Ymds
      BY SecondIs, Zenon
    <3>2. Second(x, y).typ = "ymd"
      BY <3>1, YmdsAre, Zenon
    <3> QED BY <2>4, <3>2
  <2> HIDE DEF from, a
  <2>6. Ordinary(from) => Second(x, y).d <= 28
    BY <2>4, <2>5, SMT DEF Ordinary
  <2>7. Second(x, y).d <= 28 /\ ~LosesLeapDay(kind, Second(x, y), First(x)) =>
          Later(Second(x, y), Begin(x, y, y).t, kind, p) = Moment(x, y, x) + Shift(x, y) * SECS_PER_DAY
    BY <1>7, <1>15, MonthsLeadBack, Zenon
  <2>8. In(kind, Late(x, y, p)) = First(x)
    BY <1>0, <2>3
  <2> QED BY <2>2, <2>3, <2>4, <2>6, <2>7, <2>8, Zenon
<1>16. ASSUME ~p.neg PROVE lead
  <2>1. a = 0
    BY <1>13, <1>16, SMT DEF One
  <2>2. Early(x, y, p) = x /\ Late(x, y, p) = y
    BY <1>16 DEF Early, Late
  <2>3. from = First(x)
    <3> HIDE DEF from, a
    <3>1. from = DAddD(First(x), 0)
      BY <1>14, <2>1, <2>2, Zenon
    <3> QED BY <3>1, Zenon DEF DAddD
  <2>4. from.typ = "ymd"
    <3>1. First(x).typ = "ymd"
      BY FirstIs, Zenon
    <3> QED BY <2>3, <3>1
  <2>5. v = Moment(x, y, y)
    <3> HIDE DEF a
    <3>1. Moment(x, y, y) + 0 * SECS_PER_DAY = Moment(x, y, y)
      <4> DEFINE j == Moment(x, y, y)
      <4>1. j \in Int
        BY <1>10
      <4> HIDE DEF j
      <4>2. j + 0 * SECS_PER_DAY = j
        BY <4>1, SMT DEF SECS_PER_DAY
      <4> QED BY <4>2 DEF j
    <3> QED BY <2>1, <2>2, <3>1, Zenon
  <2> HIDE DEF from, a, v
  <2>6. Ordinary(from) => First(x).d <= 28
    BY <2>3, <2>4, SMT DEF Ordinary
  <2>7. First(x).d <= 28 /\ ~LosesLeapDay(kind, First(x), First(y)) =>
          Later(First(x), Begin(x, y, x).t, kind, p) = Moment(x, y, y)
    BY <1>7, <1>16, MonthsLeadForth, Zenon
  <2>8. In(kind, Late(x, y, p)) = First(y)
    BY <1>0, <2>2
  <2> QED BY <2>2, <2>3, <2>5, <2>6, <2>7, <2>8, Zenon
<1>17. lead
  BY <1>15, <1>16
<1>18. InParts(kind)
  BY DEF InParts
<1> HIDE DEF lead
<1>19. AddsUp(x, y, kind, p)
  BY <1>12, <1>17, <1>18, Zenon DEF AddsUp, lead
<1> QED BY <1>19 DEF p, dur

\* Differences in days and seconds add up.
LEMMA PlainAddsUp ==
  ASSUME NEW x, NEW y, Stamped(x), Stamped(y), NEW kind \in {"d", "s", "ns"},
         NEW f, NEW days \in Int, NEW secs \in Int, days * SECS_PER_DAY + secs = Between(x, y),
         "S" \in f \/ ("d" \in f /\ secs = 0)
  PROVE  AddsUp(x, y, kind, Precalc(f, Duration(FALSE, 0, days, secs, 0, 0)))
<1> DEFINE dur == Duration(FALSE, 0, days, secs, 0, 0)
           p == Precalc(f, dur)
<1>1. dur \in Durations /\ dur.neg = FALSE /\ dur.mon = 0 /\ dur.days = days /\ dur.secs = secs
  BY PlainDurations, Zenon
<1> HIDE DEF dur
<1>2. /\ p.units = f
      /\ p.neg <=> dur.neg \/ dur.days * SECS_PER_DAY + dur.secs < 0
      /\ p.neg \in BOOLEAN
      /\ p.Y \in Nat /\ p.q \in Nat /\ p.m \in Nat
      /\ p.w \in Nat /\ p.d \in Nat /\ p.H \in Nat /\ p.M \in Nat /\ p.S \in Nat
      /\ Whole(f, dur.mon) \/ dur.mon = 0 => 12 * p.Y + 3 * p.q + p.m = dur.mon
      /\ "S" \in f \/ ("d" \in f /\ dur.secs = 0) => Unmonthed(p) = TotalSecs(dur)
      /\ Unmonthed(p) \in Int
      /\ TotalSecs(dur) = Mag(dur.days * SECS_PER_DAY + dur.secs)
  BY <1>1, PrecalcIs, Zenon
<1> HIDE DEF p
<1>3. "S" \in f \/ ("d" \in f /\ dur.secs = 0)
  BY <1>1
<1>4. Printed(p)
  BY <1>2, Zenon DEF Printed
<1>5. 12 * p.Y + 3 * p.q + p.m = 0
  BY <1>1, <1>2, Zenon
<1>6. p.neg <=> Between(x, y) < 0
  BY <1>1, <1>2, Zenon
<1>7. Unmonthed(p) = Mag(Between(x, y))
  BY <1>1, <1>2, <1>3, Zenon
<1>8. ~InParts(kind)
  BY DEF InParts
<1>9. AddsUp(x, y, kind, p)
  BY <1>4, <1>5, <1>6, <1>7, <1>8, SecsAddUp, Zenon
<1> QED BY <1>9 DEF p, dur

\* Days are counted where one of the two has no time.
LEMMA DaysAreTimeless ==
  ASSUME NEW x, NEW y, NEW f, Stamped(x), Stamped(y), DetermineDurtype(x, y, f) = "d"
  PROVE  Timeless(x, y)
<1> DEFINE A == f \intersect {"m", "q"} # {}
           B == {"w", "Y"} \subseteq f
           C == {"Y", "d"} \subseteq f
           D == {"d", "b"} \subseteq f
           E == "Y" \in f
           F == "r" \in f
           G == "N" \in f
           T == OnlyDP(x) \/ OnlyDP(y)
           k == DetermineDurtype(x, y, f)
<1>1. ~OnlyTP(x) /\ ~OnlyTP(y)
  BY StampedIs, Zenon
<1>2. OnlyTP(x) \in BOOLEAN /\ OnlyTP(y) \in BOOLEAN
  BY SMT DEF OnlyTP
<1>3. k = IF A THEN "ymd" ELSE IF B THEN "ywd" ELSE IF C THEN "yd" ELSE IF D THEN "bd" ELSE IF E THEN "ymd"
          ELSE IF T THEN "d" ELSE IF F THEN "rs" ELSE IF G THEN "ns" ELSE "s"
  <2>1. ~(OnlyTP(x) /\ OnlyTP(y)) /\ ~(OnlyTP(x) # OnlyTP(y))
    BY <1>1, <1>2
  <2> QED BY <2>1, Zenon DEF DetermineDurtype
<1>4. T = Timeless(x, y)
  BY DEF Timeless
<1>5. k = "d"
  OBVIOUS
<1> HIDE DEF A, B, C, D, E, F, G, T, k
<1>6. T
  BY <1>3, <1>5, SMT
<1> QED BY <1>4, <1>6

\* Years and days are left where a format asks for years.
LEMMA YearsAreAsked ==
  ASSUME NEW x, NEW y, NEW f, DetermineDurtype(x, y, f) = "yd"
  PROVE  "Y" \in f
<1> DEFINE A == f \intersect {"m", "q"} # {}
           B == {"w", "Y"} \subseteq f
           C == {"Y", "d"} \subseteq f
           D == {"d", "b"} \subseteq f
           E == "Y" \in f
           F == "r" \in f
           G == "N" \in f
           T == OnlyDP(x) \/ OnlyDP(y)
           P == OnlyTP(x) /\ OnlyTP(y)
           Q == OnlyTP(x) # OnlyTP(y)
           k == DetermineDurtype(x, y, f)
<1>1. k = IF P THEN (IF G THEN "ns" ELSE "s") ELSE IF Q THEN "none"
          ELSE IF A THEN "ymd" ELSE IF B THEN "ywd" ELSE IF C THEN "yd" ELSE IF D THEN "bd"
          ELSE IF E THEN "ymd" ELSE IF T THEN "d" ELSE IF F THEN "rs" ELSE IF G THEN "ns" ELSE "s"
  <2>1. OnlyTP(x) \in BOOLEAN /\ OnlyTP(y) \in BOOLEAN
    BY DEF OnlyTP
  <2>2. ~(P /\ Q)
    BY <2>1
  <2> HIDE DEF A, B, C, D, E, F, G, T
  <2>3. P => k = IF G THEN "ns" ELSE "s"
    BY <2>2, Zenon DEF DetermineDurtype, A, B, C, D, E, F, G, T
  <2>4. Q => k = "none"
    BY <2>2, Zenon DEF DetermineDurtype, A, B, C, D, E, F, G, T
  <2>5. ~P /\ ~Q => k = IF A THEN "ymd" ELSE IF B THEN "ywd" ELSE IF C THEN "yd" ELSE IF D THEN "bd"
                        ELSE IF E THEN "ymd" ELSE IF T THEN "d" ELSE IF F THEN "rs" ELSE IF G THEN "ns" ELSE "s"
    BY Zenon DEF DetermineDurtype, A, B, C, D, E, F, G, T
  <2> HIDE DEF P, Q, k
  <2> QED BY <2>3, <2>4, <2>5, Zenon
<1>2. k = "yd"
  OBVIOUS
<1>3. C => E
  OBVIOUS
<1> HIDE DEF A, B, C, D, E, F, G, T, P, Q, k
<1>4. C
  BY <1>1, <1>2, SMT
<1> QED BY <1>3, <1>4 DEF E

\* Whatever is printed of the difference of two date-times adds up.
LEMMA StampsAddUp ==
  ASSUME NEW x, NEW y, Stamped(x), Stamped(y), NEW f, NEW g,
         DetermineDurtype(x, y, f) # "ywd", DetermineDurtype(x, y, f) = "yd" => "Y" \in g,
         Complete(g, DetermineDurtype(x, y, f), x, y)
  PROVE  AddsUp(x, y, DetermineDurtype(x, y, f), Precalc(g, Diff(DetermineDurtype(x, y, f), x, y)))
<1> DEFINE kind == DetermineDurtype(x, y, f)
<1>1. kind \in {"ymd", "ywd", "yd", "bd", "d", "rs", "ns", "s"}
  BY TypesAre, SMT
<1>2. kind \in {"ymd", "yd", "d", "s", "ns"}
  BY <1>1, SMT DEF Complete
<1>3. kind = "d" => Timeless(x, y)
  BY DaysAreTimeless, Zenon
<1>4. ~OnlyTP(x)
  BY StampedIs, Zenon
<1>5. Complete(g, kind, x, y)
  OBVIOUS
<1> HIDE DEF kind
<1>6. Gap(x, y) = ConvToDaisy(y.d) - ConvToDaisy(x.d)
  BY DEF Gap
<1>7. Gap(x, y) \in Int /\ Apart(x, y) \in Int
  BY SignsAre, Zenon
<1>8. Timeless(x, y) => Apart(x, y) = 0
  BY Zenon DEF Apart
<1>9. DtDiffSecs(x, y).dv = Apart(x, y) + Gap(x, y) * SECS_PER_DAY /\ DtDiffSecs(x, y).dv \in Int
  BY <1>6, SecsApartAre, Zenon
<1>10. 0 * SECS_PER_DAY + DtDiffSecs(x, y).dv = Between(x, y)
  <2> DEFINE g0 == Gap(x, y)
             c == Apart(x, y)
             n == DtDiffSecs(x, y).dv
  <2>1. g0 \in Int /\ c \in Int /\ n = c + g0 * SECS_PER_DAY
    BY <1>7, <1>9
  <2> HIDE DEF g0, c, n
  <2>2. 0 * SECS_PER_DAY + n = g0 * SECS_PER_DAY + c
    BY <2>1, SMT DEF SECS_PER_DAY
  <2> QED BY <2>2 DEF g0, c, n, Between
<1>11. CASE kind \in {"ymd", "yd"}
  <2>1. "S" \in g \/ ("d" \in g /\ Apart(x, y) = 0)
    BY <1>5, <1>11, SMT DEF Complete, Apart, Timeless
  <2>2. "m" \in g \/ (kind = "yd" /\ "Y" \in g)
    <3>1. kind = "ymd" => "m" \in g
      BY <1>5, Zenon DEF Complete
    <3>2. kind = "yd" => "Y" \in g
      BY DEF kind
    <3> QED BY <1>11, <3>1, <3>2
  <2>3. AddsUp(x, y, kind, Precalc(g, Diff(kind, x, y)))
    BY <1>11, <2>1, <2>2, PartsAddUp, Zenon
  <2> QED BY <2>3 DEF kind
<1>12. CASE kind = "d"
  <2>1. "S" \in g \/ ("d" \in g /\ Apart(x, y) = 0)
    BY <1>3, <1>5, <1>8, <1>12, SMT DEF Complete
  <2>2. Diff("d", x, y) = Duration(FALSE, 0, Gap(x, y), Apart(x, y), 0, 0)
    <3>1. DDiff("d", x.d, y.d) = Gap(x, y)
      BY <1>6, DaysApartAre, Zenon
    <3>2. "d" \in {"d", "bd"}
      OBVIOUS
    <3>3. Diff("d", x, y) = Duration(FALSE, 0, DDiff("d", x.d, y.d), Apart(x, y), 0, 0)
      BY <3>2, DayDurations, Zenon
    <3> QED BY <3>1, <3>3
  <2>3. Gap(x, y) * SECS_PER_DAY + Apart(x, y) = Between(x, y)
    BY Zenon DEF Between
  <2>4. AddsUp(x, y, kind, Precalc(g, Duration(FALSE, 0, Gap(x, y), Apart(x, y), 0, 0)))
    <3>1. kind \in {"d", "s", "ns"}
      BY <1>12
    <3> QED BY <1>7, <2>1, <2>3, <3>1, PlainAddsUp, Zenon
  <2> QED BY <1>12, <2>2, <2>4 DEF kind
<1>13. CASE kind \in {"s", "ns"}
  <2>1. "S" \in g
    BY <1>5, <1>13, SMT DEF Complete
  <2> DEFINE n == DtDiffSecs(x, y).dv
  <2>2. Diff(kind, x, y) = Duration(FALSE, 0, 0, n, 0, 0)
    <3>1. CASE kind = "s"
      <4>1. Diff("s", x, y) = Duration(FALSE, 0, 0, n, 0, 0)
        BY SecDurations, Zenon
      <4> QED BY <3>1, <4>1
    <3>2. CASE kind = "ns"
      <4>1. x.t.ns = 0 /\ y.t.ns = 0
        BY <1>4, <1>5, <3>2, Zenon DEF Complete
      <4>2. /\ Diff("ns", x, y) = Duration(FALSE, 0, 0, n - Apart(x, y) + Quot(NanosApart(x, y), NANOS_PER_SEC), 0, 0)
            /\ x.t.ns = 0 /\ y.t.ns = 0 => n - Apart(x, y) + Quot(NanosApart(x, y), NANOS_PER_SEC) = n
        BY NanoDurations, Zenon
      <4> QED BY <3>2, <4>1, <4>2, Zenon
    <3> QED BY <1>13, <3>1, <3>2
  <2>3. 0 \in Int /\ n \in Int /\ 0 * SECS_PER_DAY + n = Between(x, y)
    BY <1>9, <1>10
  <2>4. AddsUp(x, y, kind, Precalc(g, Duration(FALSE, 0, 0, n, 0, 0)))
    <3>1. kind \in {"d", "s", "ns"}
      BY <1>13
    <3> HIDE DEF n
    <3> QED BY <2>1, <2>3, <3>1, PlainAddsUp, Zenon
  <2> QED BY <2>2, <2>4 DEF kind
<1> QED BY <1>2, <1>11, <1>12, <1>13

\* What is printed leads from the earlier date-time to the later one, and the
\* sign tells which of the two that is, if no format asks for the weeks of
\* years: main(), dt_dtdiff() and precalc().
THEOREM UnitsMakeTheDifference ==
  ASSUME AllReadable, NoWeekDates
  PROVE  Spec => []UnitsAddUp
<1>1. Computed => UnitsAddUp
  <2> DEFINE y == out.line
             kind == out.kind
             p == out.printed
             f == IF fmt # {} THEN fmt ELSE IF kind = "s" THEN {"S"} ELSE {"d"}
  <2> SUFFICES ASSUME Computed, kind # "none", Complete(p.units, kind, ref, y)
               PROVE  /\ ~OnlyTP(ref) => AddsUp(ref, y, kind, p)
                      /\ OnlyTP(ref) => TimesUp(ref, y, kind, p)
    BY Zenon DEF UnitsAddUp, AddsUp, TimesUp, Timeless, Begin, Moment, Early, Late, InParts, DayAfter, Departure
  <2>1. /\ ref \in Refs /\ fmt \in Fmts /\ y \in Lines \ {NotADate}
        /\ kind = DetermineDurtype(ref, y, fmt) /\ p = Shown(fmt, ref, y)
    BY Zenon DEF Computed
  <2>2. Readable(ref) /\ Readable(y)
    BY <2>1, Zenon DEF AllReadable
  <2>3. {"w", "Y"} \subseteq fmt => fmt \intersect {"m", "q"} # {}
    BY <2>1, Zenon DEF NoWeekDates
  <2>4. kind # "ywd"
    BY <2>1, <2>3, NoneInWeeks, Zenon
  <2>10. kind = "yd" => "Y" \in f
    <3> HAVE kind = "yd"
    <3>1. "Y" \in fmt
      BY <2>1, YearsAreAsked, Zenon
    <3> QED BY <3>1
  <2>5. p = Precalc(f, Diff(kind, ref, y))
    BY <2>1, Zenon DEF Shown
  <2>6. p.units = f
    <3> DEFINE dur == Diff(kind, ref, y)
    <3>1. p = Precalc(f, dur)
      BY <2>5
    <3> HIDE DEF f, dur
    <3>2. Precalc(f, dur).units = f
      BY Zenon DEF Precalc
    <3> HIDE DEF p
    <3> QED BY <3>1, <3>2
  <2>7. (Stamped(ref) /\ Stamped(y)) \/ (Timely(ref) /\ Timely(y))
    <3>1. DetermineDurtype(ref, y, fmt) # "none"
      BY <2>1
    <3> HIDE DEF y
    <3> QED BY <2>2, <3>1, TypesAre, Zenon
  <2> HIDE DEF y, kind, p, f
  <2>8. CASE Stamped(ref) /\ Stamped(y)
    <3>1. ~OnlyTP(ref)
      BY <2>8, StampedIs, Zenon
    <3>2. /\ DetermineDurtype(ref, y, fmt) # "ywd"
          /\ DetermineDurtype(ref, y, fmt) = "yd" => "Y" \in f
          /\ Complete(f, DetermineDurtype(ref, y, fmt), ref, y)
      BY <2>1, <2>4, <2>6, <2>10
    <3>3. AddsUp(ref, y, kind, Precalc(f, Diff(kind, ref, y)))
      BY <2>1, <2>8, <3>2, StampsAddUp, Zenon
    <3> QED BY <2>5, <3>1, <3>3
  <2>9. CASE Timely(ref) /\ Timely(y)
    <3>1. OnlyTP(ref)
      BY <2>9, TimelyIs, Zenon
    <3>2. kind \in {"s", "ns"}
      BY <2>1, <2>9, TypesAre, SMT
    <3>3. "S" \in f /\ (kind = "ns" => "N" \in f)
      <4>1. Complete(f, kind, ref, y)
        BY <2>6
      <4> QED BY <3>2, <4>1, SMT DEF Complete
    <3>4. TimesUp(ref, y, kind, Precalc(f, Diff(kind, ref, y)))
      BY <2>9, <3>2, <3>3, TimesAddUp, Zenon
    <3> QED BY <2>5, <3>1, <3>4
  <2> QED BY <2>7, <2>8, <2>9
<1> QED BY <1>1, ComputedIsKept, PTL
=============================================================================
