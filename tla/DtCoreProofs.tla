---------------------------- MODULE DtCoreProofs -----------------------------
(***************************************************************************)
(* What DtCore says of moments, proved for every duration, every zone and  *)
(* every sequence of calls on dates that are years, months and days or day *)
(* numbers, times and epochs.                                              *)
(***************************************************************************)
EXTENDS DtCore, CalendarProofs, FiniteSetTheorems

-----------------------------------------------------------------------------
(* Leap seconds. *)

\* The tables have 28 changes and two sentinels.
LEMMA LeapsAre == NLEAPS = 30 /\ Len(LeapDays) = 28
<1>1. Len(LeapDays) = 28
  BY DEF LeapDays
<1> QED
  BY <1>1, SMT DEF NLEAPS

\* The turns of the search.
Searches(go, v, key) ==
  go = [s \in Spots |-> IF Enclosed(v, key, s.i) THEN s.i
                        ELSE IF Met(Narrowed(v, key, s)) THEN Narrowed(v, key, s).i
                        ELSE go[Narrowed(v, key, s)]]

\* A turn of the search stays in the table, and its middle in its bounds.
LEMMA NarrowedIs ==
  ASSUME NEW v, NEW key, NEW s \in Spots
  PROVE  /\ Narrowed(v, key, s).i \in 0 .. NLEAPS - 2
         /\ ~Met(Narrowed(v, key, s)) =>
              /\ Narrowed(v, key, s) \in Spots
              /\ s.min <= s.i /\ s.i <= s.max =>
                   /\ Narrowed(v, key, s).min <= Narrowed(v, key, s).i
                   /\ Narrowed(v, key, s).i <= Narrowed(v, key, s).max
                   /\ Narrowed(v, key, s).max - Narrowed(v, key, s).min < s.max - s.min
<1> DEFINE a == (s.i + s.max) \div 2
           b == (s.i + s.min) \div 2
           r == Narrowed(v, key, s)
<1>1. s.i \in 0 .. 28 /\ s.min \in 0 .. 29 /\ s.max \in 0 .. 29
  BY LeapsAre, SMT DEF Spots
<1>2. \/ r = [i |-> a, min |-> s.i + 1, max |-> s.max]
      \/ r = [i |-> b, min |-> s.min, max |-> s.i - 1]
  BY Zenon DEF Narrowed
<1>3. a \in 0 .. 28 /\ b \in 0 .. 28
  BY <1>1, SMT
<1>4. s.min <= s.i /\ s.i <= s.max =>
        /\ s.max > s.i + 1 => s.i + 1 <= a /\ a <= s.max
        /\ s.i - 1 > s.min => s.min <= b /\ b <= s.i - 1
  BY <1>1, SMT
<1> HIDE DEF a, b, r
<1>5. r.i \in 0 .. 28
  BY <1>2, <1>3
<1>6. CASE r = [i |-> a, min |-> s.i + 1, max |-> s.max]
  <2>1. r.i = a /\ r.min = s.i + 1 /\ r.max = s.max
    BY <1>6
  <2>2. s.i + 1 \in 0 .. 29
    BY <1>1
  <2>3. r \in Spots
    BY <1>1, <1>3, <1>6, <2>2, LeapsAre, SMT DEF Spots
  <2> QED BY <1>1, <1>4, <1>5, <2>1, <2>3, LeapsAre, SMT DEF Met, r
<1>7. CASE r = [i |-> b, min |-> s.min, max |-> s.i - 1]
  <2>1. r.i = b /\ r.min = s.min /\ r.max = s.i - 1
    BY <1>7
  <2>2. s.i - 1 > s.min => s.i - 1 \in 0 .. 29
    BY <1>1
  <2>3. s.i - 1 > s.min => r \in Spots
    BY <1>1, <1>3, <1>7, <2>2, LeapsAre, SMT DEF Spots
  <2> QED BY <1>1, <1>4, <1>5, <2>1, <2>3, LeapsAre, SMT DEF Met, r
<1> QED
  BY <1>2, <1>6, <1>7

\* The search is a loop like those that carry days over.
LEMMA FindBeforeLoops ==
  ASSUME NEW v, NEW key
  PROVE  \E go : Searches(go, v, key) /\ FindBefore(v, key) = go[[i |-> (NLEAPS - 1) \div 2, min |-> 0, max |-> NLEAPS - 1]]
<1> DEFINE D == Spots
           Stop == {s \in D : Enclosed(v, key, s.i) \/ Met(Narrowed(v, key, s))}
           val == [s \in D |-> IF Enclosed(v, key, s.i) THEN s.i ELSE Narrowed(v, key, s).i]
           next == [s \in D |-> IF s \in Stop THEN s ELSE Narrowed(v, key, s)]
           Body(go) == [s \in D |-> IF Enclosed(v, key, s.i) THEN s.i
                                    ELSE IF Met(Narrowed(v, key, s)) THEN Narrowed(v, key, s).i
                                    ELSE go[Narrowed(v, key, s)]]
<1>1. next \in [D -> D]
  BY NarrowedIs, Zenon
<1>2. PICK f : Loops(f, D, Stop, next, val)
  <2> HIDE DEF D, Stop, next, val
  <2> QED BY <1>1, LoopExists, Zenon
<1>3. f = Body(f)
  <2>1. f = [s \in D |-> IF s \in Stop THEN val[s] ELSE f[next[s]]]
    BY <1>2 DEF Loops
  <2>2. ASSUME NEW s \in D
        PROVE  (IF s \in Stop THEN val[s] ELSE f[next[s]])
                 = IF Enclosed(v, key, s.i) THEN s.i
                   ELSE IF Met(Narrowed(v, key, s)) THEN Narrowed(v, key, s).i
                   ELSE f[Narrowed(v, key, s)]
    BY Zenon
  <2> QED BY <2>1, <2>2, Zenon
<1> DEFINE go == CHOOSE g : g = Body(g)
<1>4. go = Body(go)
  <2> HIDE DEF Body
  <2> QED BY <1>3, Zenon
<1>5. FindBefore(v, key) = go[[i |-> (NLEAPS - 1) \div 2, min |-> 0, max |-> NLEAPS - 1]]
  BY DEF FindBefore
<1> QED
  BY <1>4, <1>5, Zenon DEF Searches

\* find_before(): whatever a table holds, the search ends at one of its entries,
\* and there is another one behind it.
LEMMA FindBeforeIs ==
  ASSUME NEW v, NEW key
  PROVE  FindBefore(v, key) \in 0 .. NLEAPS - 2
<1> DEFINE start == [i |-> (NLEAPS - 1) \div 2, min |-> 0, max |-> NLEAPS - 1]
           Entries == 0 .. NLEAPS - 2
           Good == {s \in Spots : s.min <= s.i /\ s.i <= s.max}
<1>1. PICK go : Searches(go, v, key) /\ FindBefore(v, key) = go[start]
  BY FindBeforeLoops, Zenon
<1> DEFINE S == {n \in Nat : \A s \in Good : s.max - s.min <= n => go[s] \in Entries}
<1>2. ASSUME NEW s \in Good
      PROVE  /\ s \in Spots /\ s.i \in Entries /\ s.max - s.min \in Nat
             /\ go[s] = IF Enclosed(v, key, s.i) THEN s.i
                        ELSE IF Met(Narrowed(v, key, s)) THEN Narrowed(v, key, s).i
                        ELSE go[Narrowed(v, key, s)]
  <2>1. s \in Spots /\ s.i \in Entries
    BY DEF Spots
  <2>2. s.max - s.min \in Nat
    BY LeapsAre, SMT DEF Spots
  <2>3. go[s] = IF Enclosed(v, key, s.i) THEN s.i
                ELSE IF Met(Narrowed(v, key, s)) THEN Narrowed(v, key, s).i
                ELSE go[Narrowed(v, key, s)]
    BY <1>1, <2>1, Zenon DEF Searches
  <2> QED BY <2>1, <2>2, <2>3
<1>3. ASSUME NEW s \in Good, ~Enclosed(v, key, s.i), ~Met(Narrowed(v, key, s))
      PROVE  /\ Narrowed(v, key, s) \in Good
             /\ Narrowed(v, key, s).max - Narrowed(v, key, s).min < s.max - s.min
  BY <1>3, NarrowedIs
<1>4. ASSUME NEW s \in Good, ~Enclosed(v, key, s.i), ~Met(Narrowed(v, key, s)),
             go[Narrowed(v, key, s)] \in Entries
      PROVE  go[s] \in Entries
  BY <1>2, <1>4, Zenon
<1>5. ASSUME NEW s \in Good, Enclosed(v, key, s.i) \/ Met(Narrowed(v, key, s))
      PROVE  go[s] \in Entries
  BY <1>2, <1>5, NarrowedIs, Zenon
<1> HIDE DEF Good, Entries
<1>6. 0 \in S
  <2> SUFFICES ASSUME NEW s \in Good, s.max - s.min <= 0
               PROVE  go[s] \in Entries
    OBVIOUS
  <2>1. CASE ~Enclosed(v, key, s.i) /\ ~Met(Narrowed(v, key, s))
    <3> DEFINE r == Narrowed(v, key, s)
    <3>1. r \in Good /\ r.max - r.min < s.max - s.min
      BY <1>3, <2>1
    <3>2. r.max - r.min \in Nat /\ s.max - s.min \in Nat
      BY <1>2, <3>1
    <3> HIDE DEF r
    <3> QED BY <3>1, <3>2, SMT
  <2> QED BY <1>5, <2>1
<1>7. ASSUME NEW n \in Nat, n \in S
      PROVE  n + 1 \in S
  <2> SUFFICES ASSUME NEW s \in Good, s.max - s.min <= n + 1
               PROVE  go[s] \in Entries
    OBVIOUS
  <2>1. CASE ~Enclosed(v, key, s.i) /\ ~Met(Narrowed(v, key, s))
    <3> DEFINE r == Narrowed(v, key, s)
    <3>1. r \in Good /\ r.max - r.min < s.max - s.min
      BY <1>3, <2>1
    <3>2. r.max - r.min \in Nat /\ s.max - s.min \in Nat
      BY <1>2, <3>1
    <3> HIDE DEF r
    <3>3. r.max - r.min <= n
      BY <3>1, <3>2, SMT
    <3>4. go[r] \in Entries
      BY <1>7, <3>1, <3>3
    <3> QED BY <1>4, <2>1, <3>4 DEF r
  <2> QED BY <1>5, <2>1
<1>8. Nat \subseteq S
  <2> HIDE DEF S
  <2> QED BY <1>6, <1>7, AllNats, Zenon
<1>9. start \in Good /\ start.max - start.min \in Nat
  BY LeapsAre, SMT DEF Good, Spots
<1>10. go[start] \in Entries
  <2> HIDE DEF start
  <2> QED BY <1>8, <1>9
<1> QED
  BY <1>1, <1>10 DEF Entries

\* TAI - UTC at the entries of the tables: 10 seconds before and after the
\* first change, and then one more with each.
LEMMA LeapsCorrIs ==
  ASSUME NEW i \in 0 .. NLEAPS - 2
  PROVE  /\ i \in Int /\ 0 <= i /\ i <= 28
         /\ LeapsCorr[i] = IF i = 0 THEN 10 ELSE 9 + i
         /\ LeapsCorr[i] \in 10 .. 37
<1>1. i \in Int /\ 0 <= i /\ i <= 28 /\ i \in 0 .. NLEAPS - 1 /\ i # NLEAPS - 1
  BY LeapsAre, SMT
<1>2. LeapsCorr[i] = IF i = 0 THEN 10 ELSE 9 + i
  BY <1>1, Zenon DEF LeapsCorr
<1> QED
  BY <1>1, <1>2, SMT

-----------------------------------------------------------------------------
(* Times. *)

\* What the fields of a time can hold; seconds have 8 bits.
Clocks == [h : 0 .. 24, m : 0 .. 59, s : 0 .. 255, ns : 0 .. NANOS_PER_SEC - 1]

\* The fields of a time, and its second of the day.
LEMMA ClocksAre ==
  ASSUME NEW t \in Clocks
  PROVE  /\ t.h \in Int /\ 0 <= t.h /\ t.h <= 24 /\ t.m \in Int /\ 0 <= t.m /\ t.m < 60
         /\ t.s \in Int /\ 0 <= t.s /\ t.s <= 255
         /\ t.ns \in 0 .. NANOS_PER_SEC - 1 /\ t.ns \in Int /\ NANOS_PER_SEC \in Int /\ NANOS_PER_SEC > 0
         /\ SecsSinceMidnight(t) \in Int
         /\ SecsSinceMidnight(t) = 3600 * t.h + 60 * t.m + t.s
<1>1. /\ t.h \in 0 .. 24 /\ t.m \in 0 .. 59 /\ t.s \in 0 .. 255
      /\ t.ns \in 0 .. NANOS_PER_SEC - 1
  BY DEF Clocks
<1>2. NANOS_PER_SEC \in Int /\ NANOS_PER_SEC > 0
  BY NanosAssumption
<1>3. /\ t.h \in Int /\ 0 <= t.h /\ t.h <= 24 /\ t.m \in Int /\ 0 <= t.m /\ t.m < 60
      /\ t.s \in Int /\ 0 <= t.s /\ t.s <= 255 /\ t.ns \in Int
  BY <1>1, <1>2
<1>4. SecsSinceMidnight(t) = (60 * t.h + t.m) * 60 + t.s
  BY DEF SecsSinceMidnight
<1>5. \A h, m, s \in Int : (60 * h + m) * 60 + s = 3600 * h + 60 * m + s /\ 3600 * h + 60 * m + s \in Int
  BY SMT
<1>6. SecsSinceMidnight(t) = 3600 * t.h + 60 * t.m + t.s /\ SecsSinceMidnight(t) \in Int
  BY <1>3, <1>4, <1>5
<1> QED
  BY <1>1, <1>2, <1>3, <1>6

\* ... without the numbers.
LEMMA SecsAre ==
  ASSUME NEW t \in Clocks
  PROVE  SecsSinceMidnight(t) \in Int /\ t.ns \in 0 .. NANOS_PER_SEC - 1 /\ t.ns \in Int
BY ClocksAre

\* A second of the day is shown as the time it is.
LEMMA HMSIs ==
  ASSUME NEW r \in Int, 0 <= r, r < 86400, NEW ns \in 0 .. NANOS_PER_SEC - 1
  PROVE  /\ HMS(r, ns) \in Clocks /\ HMS(r, ns).ns = ns
         /\ SecsSinceMidnight(HMS(r, ns)) = r
         /\ HMS(r, ns).h < 24 /\ HMS(r, ns).s < 60
<1> DEFINE h == r \div 3600
           m == (r \div 60) % 60
           s == r % 60
<1>1. h \in 0 .. 23 /\ m \in 0 .. 59 /\ s \in 0 .. 59
  BY SMT
<1>2. (60 * h + m) * 60 + s = r
  BY SMT
<1>3. HMS(r, ns) = [h |-> h, m |-> m, s |-> s, ns |-> ns]
  BY DEF HMS
<1> HIDE DEF h, m, s
<1>4. h \in 0 .. 24 /\ s \in 0 .. 255 /\ h < 24 /\ s < 60
  BY <1>1
<1>5. HMS(r, ns) \in Clocks
  BY <1>1, <1>3, <1>4 DEF Clocks
<1> QED
  BY <1>2, <1>3, <1>4, <1>5 DEF SecsSinceMidnight

\* dt_tadd_s() splits days off a number of seconds.
LEMMA TAddSIs ==
  ASSUME NEW t \in Clocks, NEW durs \in Int
  PROVE  /\ TAddS(t, durs, 0).carry = (SecsSinceMidnight(t) + durs) \div SECS_PER_DAY
         /\ TAddS(t, durs, 0).t = HMS((SecsSinceMidnight(t) + durs) % SECS_PER_DAY, t.ns)
         /\ TAddS(t, durs, 0).t \in Clocks
         /\ TAddS(t, durs, 0).carry \in Int
<1> DEFINE n == SecsSinceMidnight(t) + durs
           c == n \div 86400
           r == n % 86400
<1>1. n \in Int /\ t.ns \in 0 .. NANOS_PER_SEC - 1
  BY ClocksAre
<1>2. 86400 + 0 = 86400
  OBVIOUS
<1> HIDE DEF n
<1>3. c \in Int /\ r \in Int /\ 0 <= r /\ r < 86400
  BY <1>1, SMT
<1>4. TAddS(t, durs, 0) =
        [carry |-> c, t |-> IF r < 86400 THEN HMS(r, t.ns) ELSE [h |-> 23, m |-> 59, s |-> 59 + 0, ns |-> t.ns]]
  <2>1. TAddS(t, durs, 0) =
          [carry |-> n \div (86400 + 0),
           t |-> IF n % (86400 + 0) < 86400 THEN HMS(n % (86400 + 0), t.ns)
                 ELSE [h |-> 23, m |-> 59, s |-> 59 + 0, ns |-> t.ns]]
    BY DEF TAddS, SECS_PER_DAY, n
  <2> QED BY <1>2, <2>1
<1>5. HMS(r, t.ns) \in Clocks
  BY <1>1, <1>3, HMSIs
<1> HIDE DEF c, r
<1>6. TAddS(t, durs, 0) = [carry |-> c, t |-> HMS(r, t.ns)]
  BY <1>3, <1>4
<1> QED
  BY <1>3, <1>5, <1>6 DEF c, r, n, SECS_PER_DAY

\* Days that are split off first and days that are carried are all of them.
LEMMA DaysAreSplit ==
  ASSUME NEW s \in Int, NEW dv \in Int
  PROVE  /\ Rem(dv, SECS_PER_DAY) \in Int /\ Quot(dv, SECS_PER_DAY) \in Int
         /\ (s + Rem(dv, SECS_PER_DAY)) % SECS_PER_DAY = (s + dv) % SECS_PER_DAY
         /\ Quot(dv, SECS_PER_DAY) + ((s + Rem(dv, SECS_PER_DAY)) \div SECS_PER_DAY)
              = (s + dv) \div SECS_PER_DAY
<1> DEFINE q == Quot(dv, 86400)
           r == Rem(dv, 86400)
<1>1. q \in Int /\ r \in Int /\ dv = 86400 * q + r
  BY SMT DEF Quot, Rem
<1> HIDE DEF q, r
<1>2. s + dv = (s + r) + 86400 * q
  BY <1>1
<1> DEFINE a == s + r
           b == a % 86400
           e == a \div 86400
<1>3. a \in Int
  BY <1>1
<1>4. b \in Int /\ e \in Int /\ a = 86400 * e + b /\ 0 <= b /\ b < 86400
  BY <1>3, SMT
<1> HIDE DEF a, b, e
<1>5. s + dv = 86400 * (e + q) + b /\ s + dv \in Int
  BY <1>1, <1>2, <1>4 DEF a
<1>6. (s + dv) % 86400 = b /\ (s + dv) \div 86400 = e + q
  BY <1>1, <1>4, <1>5, SMT
<1> QED
  BY <1>1, <1>4, <1>6 DEF a, b, e, q, r, SECS_PER_DAY

-----------------------------------------------------------------------------
(* Date-times. *)

\* Dates of the two calendars, none, and what is returned for a day that there
\* is no year for.
Dates == YmdDates \union DaisyDates
Slots == Dates \union {NoDate, Naught("ymd")}

\* What a tool holds.
Moments ==
  {x \in [typ : {"ymd", "daisy", "unk", "sexy"}, sw : BOOLEAN, d : Slots, t : Clocks,
          sx : Int, znfxd : BOOLEAN, neg : BOOLEAN, zdiff : Int] :
     IF x.typ = "sexy" THEN x.sw = FALSE /\ x.d = NoDate
       ELSE x.typ = x.d.typ /\ (x.typ = "unk" => x.sw = TRUE)}

\* What can be added to.
Workable(x) == x.d \in Dates \union {NoDate}

\* What is in the slots of a date-time.
LEMMA SlotsAre ==
  /\ \A d \in Dates : d \in Slots /\ d \in DayDates /\ d.typ \in {"ymd", "daisy"}
  /\ \A d \in YmdDates : d.typ = "ymd" /\ d \in Dates
  /\ \A d \in DaisyDates : d.typ = "daisy" /\ d.n \in Int /\ d \in Dates
  /\ NoDate.typ = "unk" /\ NoDate \in Slots /\ NoDate # Naught("unk")
  /\ Naught("ymd").typ = "ymd" /\ Naught("ymd") \in Slots
  /\ \A d \in Slots : /\ d.typ \in {"ymd", "daisy", "unk"}
                      /\ d.typ = "daisy" => d \in DaisyDates
                      /\ d.typ = "ymd" /\ d # Naught("ymd") => d \in YmdDates
                      /\ d.typ = "unk" => d = NoDate
<1>1. \A d \in YmdDates : d.typ = "ymd"
  BY SMT DEF YmdDates
<1>2. \A d \in DaisyDates : d.typ = "daisy" /\ d.n \in Int
  BY SMT DEF DaisyDates
<1>3. NoDate.typ = "unk"
  BY DEF NoDate
<1>4. Naught("ymd").typ = "ymd"
  BY SMT DEF Naught, Ymd
<1>5. NoDate # Naught("unk")
  <2>1. Naught("unk").typ = "unk" /\ Naught("unk").n = 0 /\ Naught("unk") = [typ |-> "unk", n |-> 0]
    BY DEF Naught
  <2>2. "n" \in DOMAIN Naught("unk") /\ "n" \notin DOMAIN NoDate
    BY <2>1 DEF NoDate
  <2> QED BY <2>2
<1>6. \A d \in Dates : d \in Slots /\ d \in DayDates /\ d.typ \in {"ymd", "daisy"}
  BY <1>1, <1>2, Zenon DEF Dates, Slots, DayDates
<1>7. "ymd" # "daisy" /\ "ymd" # "unk" /\ "daisy" # "unk"
  OBVIOUS
<1>8. \A d \in Slots : /\ d.typ \in {"ymd", "daisy", "unk"}
                       /\ d.typ = "daisy" => d \in DaisyDates
                       /\ d.typ = "ymd" /\ d # Naught("ymd") => d \in YmdDates
                       /\ d.typ = "unk" => d = NoDate
  BY <1>1, <1>2, <1>3, <1>4, <1>7, Zenon DEF Slots, Dates
<1> QED
  BY <1>1, <1>2, <1>3, <1>4, <1>5, <1>6, <1>8, Zenon DEF Slots, Dates

\* The fields of a date-time.
LEMMA MomentsAre ==
  ASSUME NEW x \in Moments
  PROVE  /\ x.typ \in {"ymd", "daisy", "unk", "sexy"} /\ x.sw \in BOOLEAN /\ x.d \in Slots
         /\ x.t \in Clocks /\ x.sx \in Int /\ x.znfxd \in BOOLEAN /\ x.neg \in BOOLEAN /\ x.zdiff \in Int
         /\ x.typ = "sexy" => x.sw = FALSE /\ x.d = NoDate
         /\ x.typ # "sexy" => x.typ = x.d.typ
         /\ x.typ = "unk" => x.sw = TRUE
<1>1. x \in [typ : {"ymd", "daisy", "unk", "sexy"}, sw : BOOLEAN, d : Slots, t : Clocks,
             sx : Int, znfxd : BOOLEAN, neg : BOOLEAN, zdiff : Int]
  BY Zenon DEF Moments
<1>2. IF x.typ = "sexy" THEN x.sw = FALSE /\ x.d = NoDate
       ELSE x.typ = x.d.typ /\ (x.typ = "unk" => x.sw = TRUE)
  BY Zenon DEF Moments
<1> QED
  BY <1>1, <1>2, Zenon

\* Other times and dates of the calendar in their slots.
With(x, t, d) == [x EXCEPT !.t = t, !.d = d]

\* A date-time with another time and date is one.
LEMMA WithIs ==
  ASSUME NEW x \in Moments, NEW t \in Clocks, NEW d \in Slots, d.typ = x.d.typ
  PROVE  /\ With(x, t, d) \in Moments
         /\ With(x, t, d).t = t /\ With(x, t, d).d = d
         /\ With(x, t, d).typ = x.typ /\ With(x, t, d).sw = x.sw /\ With(x, t, d).sx = x.sx
         /\ With(x, t, d).znfxd = x.znfxd /\ With(x, t, d).neg = x.neg
         /\ With(x, t, d).zdiff = x.zdiff
<1> DEFINE y == With(x, t, d)
           R == [typ : {"ymd", "daisy", "unk", "sexy"}, sw : BOOLEAN, d : Slots, t : Clocks,
                 sx : Int, znfxd : BOOLEAN, neg : BOOLEAN, zdiff : Int]
<1>0. y = [x EXCEPT !.t = t, !.d = d]
  BY Zenon DEF With
<1> HIDE DEF y
<1>1. x \in R
  BY Zenon DEF Moments
<1>9. IF x.typ = "sexy" THEN x.sw = FALSE /\ x.d = NoDate
      ELSE x.typ = x.d.typ /\ (x.typ = "unk" => x.sw = TRUE)
  BY Zenon DEF Moments
<1>2. /\ y \in R
      /\ y.t = t /\ y.d = d
      /\ y.typ = x.typ /\ y.sw = x.sw /\ y.sx = x.sx
      /\ y.znfxd = x.znfxd /\ y.neg = x.neg /\ y.zdiff = x.zdiff
  <2> HIDE DEF R
  <2>1. x = [typ |-> x.typ, sw |-> x.sw, d |-> x.d, t |-> x.t, sx |-> x.sx,
             znfxd |-> x.znfxd, neg |-> x.neg, zdiff |-> x.zdiff]
    BY <1>1, Zenon DEF R
  <2>2. y = [typ |-> x.typ, sw |-> x.sw, d |-> d, t |-> t, sx |-> x.sx,
             znfxd |-> x.znfxd, neg |-> x.neg, zdiff |-> x.zdiff]
    BY <1>0, <2>1, Zenon
  <2> QED BY <1>1, <2>2, Zenon DEF R
<1>3. x.typ = "sexy" => d = NoDate
  <2> SUFFICES ASSUME x.typ = "sexy" PROVE d = NoDate
    OBVIOUS
  <2>1. d.typ = "unk"
    BY <1>9, SlotsAre
  <2> QED BY <2>1, SlotsAre
<1>4. IF y.typ = "sexy" THEN y.sw = FALSE /\ y.d = NoDate
      ELSE y.typ = y.d.typ /\ (y.typ = "unk" => y.sw = TRUE)
  BY <1>2, <1>3, <1>9, Zenon
<1> QED
  BY <1>2, <1>4, Zenon DEF Moments, y

-----------------------------------------------------------------------------
(* Seconds are added. *)

\* Days are added to dates of either calendar.
LEMMA SlotsAreAddedTo ==
  ASSUME NEW d \in Dates, NEW num \in Int
  PROVE  DAddD(d, num) \in Dates /\ DAddD(d, num).typ = d.typ /\ DAddD(d, num) \in Slots
<1>1. d.typ = "ymd" \/ d.typ = "daisy"
  BY SlotsAre
<1>2. d \in Dates
  BY <1>1, SlotsAre
<1>3. DAddD(d, num) \in DayDates /\ DAddD(d, num).typ = d.typ
  BY <1>2, SlotsAre, DAddDKeeps
<1>4. DAddD(d, num) \in YmdDates \/ DAddD(d, num) \in DaisyDates
  BY <1>1, <1>3, KindsAre
<1> QED
  BY <1>2, <1>3, <1>4, SlotsAre, Zenon DEF Dates

\* A time that is reached, with days for the date.
LEMMA RolledIs ==
  ASSUME NEW x \in Moments, Workable(x), NEW r, r.t \in Clocks, NEW days \in Int, r.carry \in Int
  PROVE  /\ Rolled(x, r, days) \in Moments
         /\ Rolled(x, r, days).t = r.t
         /\ x.d.typ = "unk" => Rolled(x, r, days).d = x.d
         /\ x.d.typ # "unk" => Rolled(x, r, days).d = DAddD(x.d, days + r.carry)
         /\ Rolled(x, r, days).d.typ = x.d.typ
         /\ Rolled(x, r, days).typ = x.typ /\ Rolled(x, r, days).sw = x.sw
         /\ Rolled(x, r, days).sx = x.sx /\ Rolled(x, r, days).znfxd = x.znfxd
         /\ Rolled(x, r, days).neg = x.neg
<1> DEFINE d == IF x.d.typ = "unk" THEN x.d ELSE DAddD(x.d, days + r.carry)
           t == r.t
           n == days + r.carry
<1>1. x.d \in Slots /\ (x.d.typ # "unk" => x.d \in Dates) /\ n \in Int
  <2>1. x.d \in Slots /\ (x.d.typ # "unk" => x.d \in Dates)
    BY MomentsAre, SlotsAre, Zenon DEF Workable
  <2>2. n \in Int
    OBVIOUS
  <2> QED BY <2>1, <2>2
<1>2. d \in Slots /\ d.typ = x.d.typ
  <2>1. CASE x.d.typ = "unk"
    BY <1>1, <2>1
  <2>2. CASE x.d.typ # "unk"
    BY <1>1, <2>2, SlotsAreAddedTo
  <2> QED BY <2>1, <2>2
<1>3. Rolled(x, r, days) = [x EXCEPT !.t = t, !.d = d]
  <2>1. x \in [typ : {"ymd", "daisy", "unk", "sexy"}, sw : BOOLEAN, d : Slots, t : Clocks,
               sx : Int, znfxd : BOOLEAN, neg : BOOLEAN, zdiff : Int]
    BY Zenon DEF Moments
  <2>2. [x EXCEPT !.t = r.t].d = x.d
    BY <2>1
  <2> QED BY <2>2, Zenon DEF Rolled
<1>4. t \in Clocks
  OBVIOUS
<1> DEFINE y == With(x, t, d)
<1>5. Rolled(x, r, days) = y
  BY <1>3, Zenon DEF With
<1>6. /\ x.d.typ = "unk" => d = x.d
      /\ x.d.typ # "unk" => d = DAddD(x.d, days + r.carry)
      /\ t = r.t
  OBVIOUS
<1> HIDE DEF d, t
<1>7. /\ y \in Moments
      /\ y.t = t /\ y.d = d
      /\ y.typ = x.typ /\ y.sw = x.sw /\ y.sx = x.sx
      /\ y.znfxd = x.znfxd /\ y.neg = x.neg
  BY <1>2, <1>4, WithIs, ZenonT(60)
<1> HIDE DEF y
<1> QED
  BY <1>2, <1>5, <1>6, <1>7, Zenon

\* __dt_add_s(): seconds of the day go round, days are added to the date.
LEMMA AddSecsIs ==
  ASSUME NEW x \in Moments, Workable(x), NEW dv \in Int
  PROVE  /\ AddSecs(x, dv) \in Moments
         /\ AddSecs(x, dv).d.typ = x.d.typ
         /\ AddSecs(x, dv).typ = x.typ /\ AddSecs(x, dv).sw = x.sw
         /\ AddSecs(x, dv).sx = x.sx /\ AddSecs(x, dv).znfxd = x.znfxd
         /\ AddSecs(x, dv).neg = x.neg
         /\ ~x.sw => AddSecs(x, dv) = x
         /\ x.sw => /\ AddSecs(x, dv).t = HMS((SecsSinceMidnight(x.t) + dv) % SECS_PER_DAY, x.t.ns)
                    /\ x.d.typ = "unk" => AddSecs(x, dv).d = x.d
                    /\ x.d.typ # "unk" =>
                         AddSecs(x, dv).d = DAddD(x.d, (SecsSinceMidnight(x.t) + dv) \div SECS_PER_DAY)
<1>1. CASE ~x.sw
  BY <1>1 DEF AddSecs
<1>2. CASE x.sw
  <2> DEFINE q == Quot(dv, SECS_PER_DAY)
             p == Rem(dv, SECS_PER_DAY)
             s == SecsSinceMidnight(x.t)
             r == TAddS(x.t, p, 0)
  <2>1. x.t \in Clocks /\ s \in Int
    <3>1. x.t \in Clocks
      BY MomentsAre, Zenon
    <3> QED BY <3>1, SecsAre, Zenon
  <2>2. p \in Int /\ q \in Int /\ (s + p) % SECS_PER_DAY = (s + dv) % SECS_PER_DAY
        /\ q + ((s + p) \div SECS_PER_DAY) = (s + dv) \div SECS_PER_DAY
    <3> HIDE DEF s
    <3> QED BY <2>1, DaysAreSplit, Zenon
  <2>3. AddSecs(x, dv) = Rolled(x, r, q)
    BY <1>2, Zenon DEF AddSecs
  <2> HIDE DEF p, q
  <2>4. /\ r.carry = (s + p) \div SECS_PER_DAY /\ r.t = HMS((s + p) % SECS_PER_DAY, x.t.ns)
        /\ r.t \in Clocks /\ r.carry \in Int
    BY <2>1, <2>2, TAddSIs
  <2>5. q + r.carry = (s + dv) \div SECS_PER_DAY /\ r.t = HMS((s + dv) % SECS_PER_DAY, x.t.ns)
    BY <2>2, <2>4
  <2> HIDE DEF r
  <2> DEFINE y == Rolled(x, r, q)
  <2>6. /\ y \in Moments
        /\ y.t = r.t
        /\ x.d.typ = "unk" => y.d = x.d
        /\ x.d.typ # "unk" => y.d = DAddD(x.d, q + r.carry)
        /\ y.d.typ = x.d.typ
        /\ y.typ = x.typ /\ y.sw = x.sw
        /\ y.sx = x.sx /\ y.znfxd = x.znfxd
        /\ y.neg = x.neg
    BY <2>2, <2>4, RolledIs, ZenonT(60)
  <2> HIDE DEF y
  <2>7. AddSecs(x, dv) = y
    BY <2>3 DEF y
  <2> QED BY <1>2, <2>5, <2>6, <2>7, Zenon DEF s
<1> QED
  BY <1>1, <1>2

\* A date-time made of its slots.
Made(typ, sw, d, t, sx, znfxd, neg, zdiff) ==
  [typ |-> typ, sw |-> sw, d |-> d, t |-> t, sx |-> sx, znfxd |-> znfxd, neg |-> neg, zdiff |-> zdiff]

\* What fits into the slots.
Fitting(typ, sw, d, t, sx, znfxd, neg, zdiff) ==
  /\ typ \in {"ymd", "daisy", "unk", "sexy"} /\ sw \in BOOLEAN /\ d \in Slots /\ t \in Clocks
  /\ sx \in Int /\ znfxd \in BOOLEAN /\ neg \in BOOLEAN /\ zdiff \in Int
  /\ typ = "sexy" => sw = FALSE /\ d = NoDate
  /\ typ # "sexy" => typ = d.typ
  /\ typ = "unk" => sw = TRUE

\* What is made of fitting slots is something a tool can hold.
LEMMA MadeIs ==
  ASSUME NEW typ, NEW sw, NEW d, NEW t, NEW sx, NEW znfxd, NEW neg, NEW zdiff,
         Fitting(typ, sw, d, t, sx, znfxd, neg, zdiff)
  PROVE  Made(typ, sw, d, t, sx, znfxd, neg, zdiff) \in Moments
<1> DEFINE x == Made(typ, sw, d, t, sx, znfxd, neg, zdiff)
<1>1. x \in [typ : {"ymd", "daisy", "unk", "sexy"}, sw : BOOLEAN, d : Slots, t : Clocks,
             sx : Int, znfxd : BOOLEAN, neg : BOOLEAN, zdiff : Int]
  BY Zenon DEF Made, Fitting
<1>2. x.typ = typ /\ x.sw = sw /\ x.d = d
  BY Zenon DEF Made, Fitting
<1>3. IF x.typ = "sexy" THEN x.sw = FALSE /\ x.d = NoDate
       ELSE x.typ = x.d.typ /\ (x.typ = "unk" => x.sw = TRUE)
  BY <1>2, Zenon DEF Fitting
<1> HIDE DEF x
<1>4. x \in Moments
  BY <1>1, <1>3, Zenon DEF Moments
<1> QED
  BY <1>4 DEF x

\* A date-time is made of its fields.
LEMMA MomentIsMade ==
  ASSUME NEW x \in Moments
  PROVE  x = Made(x.typ, x.sw, x.d, x.t, x.sx, x.znfxd, x.neg, x.zdiff)
<1>1. x \in [typ : {"ymd", "daisy", "unk", "sexy"}, sw : BOOLEAN, d : Slots, t : Clocks,
             sx : Int, znfxd : BOOLEAN, neg : BOOLEAN, zdiff : Int]
  BY Zenon DEF Moments
<1> QED
  BY <1>1 DEF Made

\* Slots are overwritten one at a time.
LEMMA OverwrittenIs ==
  ASSUME NEW x \in Moments
  PROVE  /\ \A n \in Int : [x EXCEPT !.sx = n] = Made(x.typ, x.sw, x.d, x.t, n, x.znfxd, x.neg, x.zdiff)
         /\ \A c : [x EXCEPT !.t.ns = c]
                     = Made(x.typ, x.sw, x.d, [x.t EXCEPT !.ns = c], x.sx, x.znfxd, x.neg, x.zdiff)
         /\ \A c : [x EXCEPT !.t.s = c]
                     = Made(x.typ, x.sw, x.d, [x.t EXCEPT !.s = c], x.sx, x.znfxd, x.neg, x.zdiff)
         /\ \A d : [x EXCEPT !.d = d] = Made(x.typ, x.sw, d, x.t, x.sx, x.znfxd, x.neg, x.zdiff)
         /\ \A b : [x EXCEPT !.znfxd = b] = Made(x.typ, x.sw, x.d, x.t, x.sx, b, x.neg, x.zdiff)
<1> DEFINE typ == x.typ
           sw == x.sw
           d == x.d
           t == x.t
           sx == x.sx
           fx == x.znfxd
           neg == x.neg
           z == x.zdiff
<1>1. x = [typ |-> typ, sw |-> sw, d |-> d, t |-> t, sx |-> sx, znfxd |-> fx, neg |-> neg, zdiff |-> z]
  BY MomentIsMade, Zenon DEF Made
<1> HIDE DEF typ, sw, d, t, sx, fx, neg, z
<1>2. ASSUME NEW n \in Int
      PROVE  [x EXCEPT !.sx = n] = Made(typ, sw, d, t, n, fx, neg, z)
  BY <1>1 DEF Made
<1>3. ASSUME NEW e
      PROVE  [x EXCEPT !.d = e] = Made(typ, sw, e, t, sx, fx, neg, z)
  BY <1>1 DEF Made
<1>4. ASSUME NEW b
      PROVE  [x EXCEPT !.znfxd = b] = Made(typ, sw, d, t, sx, b, neg, z)
  BY <1>1 DEF Made
<1>7. ASSUME NEW c
      PROVE  [x EXCEPT !.t.ns = c] = Made(typ, sw, d, [t EXCEPT !.ns = c], sx, fx, neg, z)
  BY <1>1 DEF Made
<1>8. ASSUME NEW c
      PROVE  [x EXCEPT !.t.s = c] = Made(typ, sw, d, [t EXCEPT !.s = c], sx, fx, neg, z)
  BY <1>1 DEF Made
<1> QED
  BY <1>2, <1>3, <1>4, <1>7, <1>8, Zenon DEF typ, sw, d, t, sx, fx, neg, z

-----------------------------------------------------------------------------
(* What a tool holds stays what it can hold. *)

\* The slots that nothing else depends on are overwritten.
LEMMA SlotsStay ==
  ASSUME NEW x \in Moments
  PROVE  /\ \A n \in Int : [x EXCEPT !.sx = n] \in Moments
         /\ \A t \in Clocks : Made(x.typ, x.sw, x.d, t, x.sx, x.znfxd, x.neg, x.zdiff) \in Moments
         /\ \A b \in BOOLEAN : [x EXCEPT !.znfxd = b] \in Moments
         /\ \A b \in BOOLEAN, z \in Int : Made(x.typ, x.sw, x.d, x.t, x.sx, x.znfxd, b, z) \in Moments
         /\ \A d \in Slots : d.typ = x.d.typ => [x EXCEPT !.d = d] \in Moments
<1>1. /\ x.typ \in {"ymd", "daisy", "unk", "sexy"} /\ x.sw \in BOOLEAN /\ x.d \in Slots
      /\ x.t \in Clocks /\ x.sx \in Int /\ x.znfxd \in BOOLEAN /\ x.neg \in BOOLEAN /\ x.zdiff \in Int
      /\ x.typ = "sexy" => x.sw = FALSE /\ x.d = NoDate
      /\ x.typ # "sexy" => x.typ = x.d.typ
      /\ x.typ = "unk" => x.sw = TRUE
  BY MomentsAre, Zenon
<1>2. ASSUME NEW n \in Int PROVE [x EXCEPT !.sx = n] \in Moments
  <2>1. Made(x.typ, x.sw, x.d, x.t, n, x.znfxd, x.neg, x.zdiff) \in Moments
    BY <1>1, MadeIs, Zenon DEF Fitting
  <2> QED BY <2>1, OverwrittenIs, Zenon
<1>3. ASSUME NEW t \in Clocks
      PROVE  Made(x.typ, x.sw, x.d, t, x.sx, x.znfxd, x.neg, x.zdiff) \in Moments
  BY <1>1, MadeIs, Zenon DEF Fitting
<1>4. ASSUME NEW b \in BOOLEAN PROVE [x EXCEPT !.znfxd = b] \in Moments
  <2>1. Made(x.typ, x.sw, x.d, x.t, x.sx, b, x.neg, x.zdiff) \in Moments
    BY <1>1, MadeIs, Zenon DEF Fitting
  <2> QED BY <2>1, OverwrittenIs, Zenon
<1>5. ASSUME NEW b \in BOOLEAN, NEW z \in Int
      PROVE  Made(x.typ, x.sw, x.d, x.t, x.sx, x.znfxd, b, z) \in Moments
  BY <1>1, MadeIs, Zenon DEF Fitting
<1>6. ASSUME NEW d \in Slots, d.typ = x.d.typ PROVE [x EXCEPT !.d = d] \in Moments
  <2>1. x.typ = "sexy" => d = NoDate
    <3>1. x.typ = "sexy" => d.typ = "unk"
      BY <1>1, <1>6, SlotsAre, Zenon
    <3> QED BY <3>1, SlotsAre, Zenon
  <2>2. Made(x.typ, x.sw, d, x.t, x.sx, x.znfxd, x.neg, x.zdiff) \in Moments
    BY <1>1, <1>6, <2>1, MadeIs, ZenonT(60) DEF Fitting
  <2> QED BY <2>2, OverwrittenIs, Zenon
<1> QED
  BY <1>2, <1>3, <1>4, <1>5, <1>6, Zenon

\* What is not nothing can be worked with, also after seconds were added.
LEMMA WorkableIs ==
  ASSUME NEW x \in Moments
  PROVE  /\ x.d # Naught(x.d.typ) => Workable(x)
         /\ Workable(x) => \A dv \in Int : Workable(AddSecs(x, dv)) /\ AddSecs(x, dv) \in Moments
<1>1. x.d \in Slots
  BY MomentsAre, Zenon
<1>2. x.d # Naught(x.d.typ) => Workable(x)
  <2>1. Naught("ymd").typ = "ymd"
    BY SlotsAre, Zenon
  <2> QED BY <1>1, <2>1, Zenon DEF Slots, Workable
<1>3. ASSUME Workable(x), NEW dv \in Int
      PROVE  Workable(AddSecs(x, dv)) /\ AddSecs(x, dv) \in Moments
  <2> DEFINE y == AddSecs(x, dv)
             n == (SecsSinceMidnight(x.t) + dv) \div SECS_PER_DAY
  <2>1. y \in Moments /\ y.d.typ = x.d.typ /\ (~x.sw => y = x)
        /\ (x.sw /\ x.d.typ = "unk" => y.d = x.d)
        /\ (x.sw /\ x.d.typ # "unk" => y.d = DAddD(x.d, n))
    BY <1>3, AddSecsIs, Zenon
  <2>2. n \in Int
    <3>1. SecsSinceMidnight(x.t) \in Int
      BY MomentsAre, SecsAre, Zenon
    <3> QED BY <3>1, SMT DEF SECS_PER_DAY
  <2> HIDE DEF y, n
  <2>3. x.d \in Dates \/ x.d = NoDate
    BY <1>3 DEF Workable
  <2>4. y.d \in Dates \/ y.d = NoDate
    <3>1. CASE ~x.sw
      BY <2>1, <2>3, <3>1, Zenon
    <3>2. CASE x.sw /\ x.d = NoDate
      <4>1. x.d.typ = "unk"
        BY <3>2, SlotsAre, Zenon
      <4> QED BY <2>1, <3>2, <4>1, Zenon
    <3>3. CASE x.sw /\ x.d \in Dates
      <4>1. x.d.typ # "unk"
        BY <3>3, SlotsAre
      <4>2. DAddD(x.d, n) \in Dates
        BY <2>2, <3>3, SlotsAreAddedTo
      <4> QED BY <2>1, <3>3, <4>1, <4>2, Zenon
    <3> QED BY <2>3, <3>1, <3>2, <3>3, Zenon
  <2> QED BY <2>1, <2>4, Zenon DEF Workable, y
<1> QED
  BY <1>2, <1>3, Zenon

\* dt_dtadd(): adding seconds gives a date-time.
LEMMA DtAddSecsKeeps ==
  ASSUME NEW x \in Moments, Workable(x), NEW n \in Int
  PROVE  DtAddSecs(x, n) \in Moments
<1>1. CASE x.typ = "sexy"
  <2>0. x.sx \in Int
    BY MomentsAre, Zenon
  <2>1. x.sx + n \in Int
    BY <2>0
  <2> DEFINE k == x.sx + n
  <2>2. DtAddSecs(x, n) = [x EXCEPT !.sx = k]
    BY <1>1, MomentIsMade, SMT DEF DtAddSecs, Made
  <2>3. k \in Int
    BY <2>1
  <2> HIDE DEF k
  <2>4. [x EXCEPT !.sx = k] \in Moments
    BY <2>3, SlotsStay, Zenon
  <2> QED BY <2>2, <2>4
<1>2. CASE x.typ # "sexy"
  BY <1>2, WorkableIs, Zenon DEF DtAddSecs
<1> QED
  BY <1>1, <1>2

\* Durations the code knows.
ClockUnits == {"h", "m", "s", "ns"}
Durations == [unit : ClockUnits \union Units, dv : Int, tai : BOOLEAN]

\* Durations of the clock have a number of seconds.
LEMMA InSecsIs ==
  ASSUME NEW dur \in Durations
  PROVE  /\ InSecs(dur) \in Int /\ dur.dv \in Int
         /\ dur.unit \in {"s", "ns"} => InSecs(dur) = dur.dv
<1>1. dur.dv \in Int
  BY DEF Durations
<1> QED
  BY <1>1, SMT DEF InSecs

\* __dt_add_ns(): nanoseconds carry over into seconds.
LEMMA AddNanosIs ==
  ASSUME NEW x \in Moments, Workable(x), NEW dv \in Int
  PROVE  LET n == x.t.ns + dv
             y == Made(x.typ, x.sw, x.d, [x.t EXCEPT !.ns = n % NANOS_PER_SEC], x.sx, x.znfxd, x.neg, x.zdiff)
         IN /\ n \in Int /\ n \div NANOS_PER_SEC \in Int /\ n % NANOS_PER_SEC \in 0 .. NANOS_PER_SEC - 1
            /\ [x.t EXCEPT !.ns = n % NANOS_PER_SEC] \in Clocks
            /\ y \in Moments /\ Workable(y)
            /\ x.sw => AddNanos(x, dv) = AddSecs(y, n \div NANOS_PER_SEC)
            /\ ~x.sw => AddNanos(x, dv) = x
<1> DEFINE n == x.t.ns + dv
           c == n % NANOS_PER_SEC
           t == [x.t EXCEPT !.ns = c]
           y == Made(x.typ, x.sw, x.d, t, x.sx, x.znfxd, x.neg, x.zdiff)
<1>1. x.t \in Clocks
  BY MomentsAre, Zenon
<1>2. n \in Int
  BY <1>1, SecsAre
<1>3. c \in 0 .. NANOS_PER_SEC - 1 /\ n \div NANOS_PER_SEC \in Int
  <2>1. NANOS_PER_SEC \in Int /\ NANOS_PER_SEC > 0
    BY NanosAssumption
  <2> HIDE DEF n
  <2> QED BY <1>2, <2>1, SMT
<1> HIDE DEF c
<1>4. t \in Clocks
  BY <1>1, <1>3 DEF Clocks
<1>5. x.sw => AddNanos(x, dv) = AddSecs(y, n \div NANOS_PER_SEC)
  <2>1. [x EXCEPT !.t.ns = c] = y
    BY OverwrittenIs, Zenon
  <2> HIDE DEF y
  <2> QED BY <2>1 DEF AddNanos, c
<1>6. ~x.sw => AddNanos(x, dv) = x
  BY Zenon DEF AddNanos, AddSecs
<1> HIDE DEF t
<1>7. y \in Moments
  BY <1>4, SlotsStay, Zenon
<1>8. Workable(y)
  BY DEF Workable, Made
<1> QED
  BY <1>2, <1>3, <1>4, <1>5, <1>6, <1>7, <1>8, Zenon DEF c, t

\* dt_dtadd(): so does adding nanoseconds, and it can be worked with.
LEMMA AddNanosKeeps ==
  ASSUME NEW x \in Moments, Workable(x), NEW dv \in Int
  PROVE  AddNanos(x, dv) \in Moments /\ Workable(AddNanos(x, dv))
<1> DEFINE n == x.t.ns + dv
           q == n \div NANOS_PER_SEC
           y == Made(x.typ, x.sw, x.d, [x.t EXCEPT !.ns = n % NANOS_PER_SEC], x.sx, x.znfxd, x.neg, x.zdiff)
<1>1. /\ q \in Int
      /\ y \in Moments /\ Workable(y)
      /\ x.sw => AddNanos(x, dv) = AddSecs(y, q)
      /\ ~x.sw => AddNanos(x, dv) = x
  BY AddNanosIs, Zenon
<1> HIDE DEF q, y
<1>2. AddSecs(y, q) \in Moments /\ Workable(AddSecs(y, q))
  BY <1>1, WorkableIs, Zenon
<1> QED
  BY <1>1, <1>2, Zenon

-----------------------------------------------------------------------------

\* leaps_before() finds an entry of the tables.
LEMMA LeapsBeforeIs ==
  ASSUME NEW x
  PROVE  LeapsBefore(x) \in 0 .. NLEAPS - 1 /\ LeapsCorr[LeapsBefore(x)] \in Int
<1>1. ASSUME NEW v, NEW key PROVE LeapsUpto(x, v, key) \in 0 .. NLEAPS - 1
  <2> DEFINE f == FindBefore(v, key)
             b == One(SandwichP(x) /\ f + 1 < NLEAPS /\ v[f + 1] = key
                        /\ TimeCmp(x.t, [h |-> 23, m |-> 59, s |-> 60, ns |-> x.t.ns]) = 1)
  <2>1. LeapsUpto(x, v, key) = f + b
    BY DEF LeapsUpto, Passed
  <2>2. f \in 0 .. NLEAPS - 2 /\ NLEAPS = 30
    BY FindBeforeIs, LeapsAre
  <2>3. b = 0 \/ b = 1
    BY DEF One
  <2> HIDE DEF f, b
  <2> QED BY <2>1, <2>2, <2>3
<1>2. 0 \in 0 .. NLEAPS - 1
  BY LeapsAre
<1>3. LeapsBefore(x) \in 0 .. NLEAPS - 1
  <2>1. CASE x.typ = "sexy"
    BY <1>1, <2>1, Zenon DEF LeapsBefore
  <2>2. CASE x.typ \in {"ymd", "daisy"}
    <3>1. LeapsBefore(x) = LeapsUpto(x, LeapsD, ConvToDaisy(x.d))
      BY <2>2 DEF LeapsBefore
    <3> QED BY <1>1, <3>1, Zenon
  <2>3. CASE x.typ \notin {"sexy", "ymd", "daisy"}
    <3>1. LeapsBefore(x) = 0
      BY <2>3 DEF LeapsBefore
    <3> QED BY <1>2, <3>1
  <2> QED BY <2>1, <2>2, <2>3
<1>4. LeapsCorr[LeapsBefore(x)] \in Int
  <2> DEFINE i == LeapsBefore(x)
  <2> HIDE DEF i
  <2>1. i \in 0 .. NLEAPS - 1 => LeapsCorr[i] \in Int
    BY LeapsAre, SMT DEF LeapsCorr
  <2> QED BY <1>3, <2>1 DEF i
<1> QED
  BY <1>3, <1>4

\* Seconds that leap seconds push a time by.
LEMMA InsertKeeps ==
  ASSUME NEW x \in Moments, NEW y \in Moments, Workable(y)
  PROVE  InsertLeaps(x, y) \in Moments
<1> DEFINE i == LeapsBefore(y)
           from == LeapsBefore(x)
           nltr == LeapsCorr[from] - LeapsCorr[i]
           z == IF nltr = 0 THEN y ELSE Rolled(y, TAddS(y.t, nltr, 0), 0)
           j == LeapsBefore(z)
<1>1. nltr \in Int /\ i \in Int /\ j \in Int
  BY LeapsBeforeIs, SMT
<1>2. InsertLeaps(x, y) = IF i = from THEN y ELSE Pushed(y, z, i, j, nltr)
  BY Zenon DEF InsertLeaps, InsertBetween, InsertSecs, PushedTo
<1> HIDE DEF i, from, nltr, j
<1>3. z \in Moments
  <2>1. CASE nltr = 0
    BY <2>1
  <2>2. CASE nltr # 0
    <3>1. y.t \in Clocks
      BY MomentsAre, Zenon
    <3>2. TAddS(y.t, nltr, 0).t \in Clocks /\ TAddS(y.t, nltr, 0).carry \in Int
      BY <1>1, <3>1, TAddSIs, Zenon
    <3>3. 0 \in Int
      OBVIOUS
    <3>4. Rolled(y, TAddS(y.t, nltr, 0), 0) \in Moments
      BY <3>2, <3>3, RolledIs, Zenon
    <3> QED BY <2>2, <3>4
  <2> QED BY <2>1, <2>2
<1> HIDE DEF z
<1>4. ASSUME NEW u \in Moments, NEW n \in Int
      PROVE  [u EXCEPT !.t.s = n % 256] \in Moments
  <2> DEFINE c == n % 256
             t == [u.t EXCEPT !.s = c]
  <2>1. u.t \in Clocks
    BY MomentsAre, Zenon
  <2>2. c \in 0 .. 255
    BY <1>4, SMT
  <2> HIDE DEF c
  <2>3. t \in Clocks
    BY <2>1, <2>2 DEF Clocks
  <2>4. Made(u.typ, u.sw, u.d, t, u.sx, u.znfxd, u.neg, u.zdiff) \in Moments
    BY <2>3, SlotsStay, Zenon
  <2>5. [u EXCEPT !.t.s = c] = Made(u.typ, u.sw, u.d, t, u.sx, u.znfxd, u.neg, u.zdiff)
    BY OverwrittenIs, Zenon
  <2> QED BY <2>4, <2>5 DEF c
<1>5. z.t.s \in Int /\ y.t.s \in Int
  <2>1. z.t \in Clocks /\ y.t \in Clocks
    BY <1>3, MomentsAre, Zenon
  <2> QED BY <2>1, ClocksAre, SMT
<1>6. Pushed(y, z, i, j, nltr) \in Moments
  <2>1. z.t.s - nltr \in Int /\ y.t.s + nltr \in Int
    BY <1>1, <1>5
  <2>2. [z EXCEPT !.t.s = (z.t.s - nltr) % 256] \in Moments
    BY <1>3, <1>4, <2>1, Zenon
  <2>3. [y EXCEPT !.t.s = (y.t.s + nltr) % 256] \in Moments
    BY <1>4, <2>1, Zenon
  <2> QED BY <1>3, <2>2, <2>3, Zenon DEF Pushed
<1> QED
  BY <1>2, <1>6

\* dt_dtadd(): whatever is added to what can be added to.
LEMMA DtAddKeeps ==
  ASSUME NEW x \in Moments, Workable(x), NEW dur \in Durations
  PROVE  DtAdd(x, dur) \in Moments
<1>1. dur.dv \in Int /\ InSecs(dur) \in Int /\ dur.unit \in ClockUnits \union Units /\ dur.tai \in BOOLEAN
  BY InSecsIs DEF Durations
<1>2. CASE x.typ = "sexy"
  <2>0. x.sx \in Int
    BY MomentsAre, Zenon
  <2> DEFINE q == Quot(dur.dv, NANOS_PER_SEC)
             k == SexyAdd(x.sx, dur)
  <2>1. q \in Int
    BY <1>1, NanosAssumption, SMT DEF Quot
  <2>2. dur.dv * SECS_PER_DAY \in Int /\ dur.dv * 65536 \in Int
    BY <1>1 DEF SECS_PER_DAY
  <2>3. k \in Int
    <3> HIDE DEF q
    <3>1. /\ x.sx + InSecs(dur) \in Int /\ x.sx + q \in Int
          /\ x.sx + dur.dv * SECS_PER_DAY \in Int /\ x.sx + dur.dv * 65536 \in Int
      BY <1>1, <2>0, <2>1, <2>2
    <3>2. CASE dur.unit \in {"h", "m", "s"}
      BY <3>1, <3>2 DEF SexyAdd
    <3>3. CASE dur.unit = "ns"
      <4>1. k = x.sx + q
        BY <3>3 DEF SexyAdd, q
      <4> QED BY <3>1, <4>1
    <3>4. CASE dur.unit \in {"d", "b"}
      <4>1. k = x.sx + dur.dv * SECS_PER_DAY
        BY <3>4 DEF SexyAdd
      <4> QED BY <3>1, <4>1
    <3>5. CASE dur.unit \notin {"h", "m", "s", "ns", "d", "b"}
      <4>1. k = x.sx + dur.dv * 65536
        BY <3>5 DEF SexyAdd
      <4> QED BY <3>1, <4>1
    <3> QED BY <3>2, <3>3, <3>4, <3>5
  <2>4. DtAdd(x, dur) = [x EXCEPT !.sx = k]
    BY <1>2, MomentIsMade, SMT DEF DtAdd, Made
  <2> HIDE DEF k
  <2> QED BY <2>3, <2>4, SlotsStay, Zenon
<1>3. CASE x.typ # "sexy"
  <2> DEFINE y == PlainAdd(x, dur)
  <2>1. y \in Moments /\ Workable(y)
    <3>1. CASE dur.unit \in {"h", "m", "s"}
      <4>1. y = AddSecs(x, InSecs(dur))
        BY <3>1 DEF PlainAdd
      <4> QED BY <1>1, <4>1, WorkableIs, Zenon
    <3>2. CASE dur.unit = "ns"
      <4>1. y = AddNanos(x, dur.dv)
        BY <3>2 DEF PlainAdd
      <4>2. AddNanos(x, dur.dv) \in Moments /\ Workable(AddNanos(x, dur.dv))
        BY <1>1, AddNanosKeeps, Zenon
      <4> QED BY <4>1, <4>2
    <3>3. CASE dur.unit \notin ClockUnits
      <4>0. dur.unit \in Units
        BY <1>1, <3>3, Zenon
      <4> DEFINE d == DAdd(x.d, dur.unit, dur.dv)
      <4>1. y = [x EXCEPT !.d = d]
        <5>1. y = [x EXCEPT !.d = DAdd(@, dur.unit, dur.dv)]
          BY <3>3 DEF PlainAdd, ClockUnits
        <5>2. x = Made(x.typ, x.sw, x.d, x.t, x.sx, x.znfxd, x.neg, x.zdiff)
          BY MomentIsMade, Zenon
        <5> QED BY <5>1, <5>2 DEF Made
      <4>2. d.typ = x.d.typ /\ (d \in Dates \/ d = NoDate)
        <5>1. CASE x.d = NoDate
          <6>1. x.d.typ = "unk"
            BY <5>1, SlotsAre, Zenon
          <6>2. d = NoDate
            BY <5>1, <6>1, Zenon DEF DAdd
          <6> QED BY <5>1, <6>2
        <5>2. CASE x.d \in Dates
          <6>1. x.d \in DayDates /\ x.d.typ \in {"ymd", "daisy"}
            BY <5>2, SlotsAre, Zenon
          <6>2. d \in DayDates /\ d.typ = x.d.typ
            BY <1>1, <4>0, <6>1, DAddKeeps, Zenon
          <6>3. d \in Dates
            BY <6>1, <6>2, KindsAre, Zenon DEF Dates
          <6> QED BY <6>2, <6>3
        <5> QED BY <5>1, <5>2 DEF Workable
      <4> HIDE DEF d, y
      <4>3. d \in Slots
        BY <4>2, Zenon DEF Slots
      <4>4. y \in Moments
        BY <4>1, <4>2, <4>3, SlotsStay, Zenon
      <4>5. y.d = d
        <5>1. y = Made(x.typ, x.sw, d, x.t, x.sx, x.znfxd, x.neg, x.zdiff)
          BY <4>1, OverwrittenIs, Zenon
        <5> QED BY <5>1, Zenon DEF Made
      <4> QED BY <4>2, <4>4, <4>5, Zenon DEF Workable, y
    <3> QED BY <3>1, <3>2, <3>3 DEF ClockUnits
  <2> HIDE DEF y
  <2>2. InsertLeaps(x, y) \in Moments
    BY <2>1, InsertKeeps, Zenon
  <2> QED BY <1>3, <2>1, <2>2, Zenon DEF DtAdd, RealAdd, y
<1> QED
  BY <1>2, <1>3

-----------------------------------------------------------------------------
(* Conversions, zones and cropping. *)

\* Dates have a day, and can be cropped and converted.
LEMMA DatesAre ==
  ASSUME NEW d \in Dates
  PROVE  /\ ConvToDaisy(d) \in Int
         /\ DFixup(d) \in Dates /\ DFixup(d).typ = d.typ
         /\ \A typ \in {"ymd", "daisy"} : DConv(typ, d) \in Slots /\ DConv(typ, d).typ = typ
<1>1. \A e \in Dates : e \in YmdDates \/ e \in DaisyDates
  BY Zenon DEF Dates
<1>2. \A e \in YmdDates : ConvToDaisy(e) \in Int /\ e.typ = "ymd" /\ e \in Dates
  BY ConvToDaisyIs, ReadingIs, SlotsAre, Zenon
<1>3. ASSUME NEW e \in DaisyDates
      PROVE  /\ ConvToDaisy(e) = DayNumber(e) /\ DayNumber(e) \in Int /\ DayNumber(e) >= 0
             /\ e.typ = "daisy" /\ e \in Dates /\ DFixup(e) = e
  <2>1. e.typ = "daisy" /\ e.n \in Int /\ e \in Dates
    BY SlotsAre
  <2>2. DFixup(e) = e
    BY <2>1 DEF DFixup
  <2>3. ConvToDaisy(e) = DayNumber(e)
    BY <2>1 DEF ConvToDaisy, Numbers
  <2>4. DayNumber(e) \in Int /\ DayNumber(e) >= 0
    BY <2>1 DEF DayNumber
  <2> QED BY <2>1, <2>2, <2>3, <2>4
<1>4. ConvToDaisy(d) \in Int
  BY <1>1, <1>2, <1>3, Zenon
<1>5. DFixup(d) \in Dates /\ DFixup(d).typ = d.typ
  <2>1. CASE d \in YmdDates
    <3>1. DFixup(d) \in YmdDates
      BY <2>1, FixupIsCrisp, FixupIsDate
    <3> QED BY <1>2, <2>1, <3>1
  <2>2. CASE d \in DaisyDates
    BY <1>3, <2>2, Zenon
  <2> QED BY <1>1, <2>1, <2>2, Zenon
<1> DEFINE f == DFixup(d)
<1> HIDE DEF f
<1>6. f \in Dates
  BY <1>5 DEF f
<1>7. ConvToYmd(f) \in Slots /\ ConvToYmd(f).typ = "ymd"
  <2>1. CASE f \in YmdDates
    <3>1. ConvToYmd(f) = f
      BY <1>2, <2>1 DEF ConvToYmd, Numbers
    <3> QED BY <1>2, <1>6, <2>1, <3>1, SlotsAre
  <2>2. CASE f \in DaisyDates
    <3> DEFINE n == DayNumber(f)
    <3>1. n \in Int /\ n >= 0 /\ f.typ = "daisy"
      BY <1>3, <2>2
    <3>2. ConvToYmd(f) = DaisyToYmd(n)
      BY <3>1 DEF ConvToYmd, Numbers
    <3> HIDE DEF n
    <3>3. CASE n = 0 \/ n > 910674
      <4>1. DaisyToYmd(n) = Naught("ymd")
        BY <3>3 DEF DaisyToYmd
      <4> QED BY <3>2, <4>1, SlotsAre, Zenon
    <3>4. CASE ~(n = 0 \/ n > 910674)
      <4>1. DaisyToYmd(n) \in YmdDates
        BY <3>1, <3>4, DaisyToYmdIsDate
      <4> QED BY <3>2, <4>1, SlotsAre, Zenon
    <3> QED BY <3>3, <3>4
  <2> QED BY <1>1, <1>6, <2>1, <2>2, Zenon
<1>8. ASSUME NEW typ \in {"ymd", "daisy"}
      PROVE  DConv(typ, d) \in Slots /\ DConv(typ, d).typ = typ
  <2>1. CASE typ = "ymd"
    <3>1. DConv(typ, d) = ConvToYmd(f)
      BY <2>1 DEF DConv, ConvTo, Numbers, f
    <3> QED BY <1>7, <2>1, <3>1
  <2>2. CASE typ = "daisy"
    <3> DEFINE n == ConvToDaisy(f) + Epoch("daisy")
    <3>1. DConv(typ, d) = [typ |-> "daisy", n |-> n]
      BY <2>2 DEF DConv, ConvTo, Numbers, f
    <3>2. n \in Int
      <4>1. ConvToDaisy(f) \in Int
        BY <1>1, <1>2, <1>3, <1>6, Zenon
      <4>2. Epoch("daisy") = 0
        BY DEF Epoch
      <4> HIDE DEF f
      <4> QED BY <4>1, <4>2
    <3> HIDE DEF n
    <3>3. [typ |-> "daisy", n |-> n] \in DaisyDates
      BY <3>2 DEF DaisyDates
    <3> QED BY <2>2, <3>1, <3>3, SlotsAre
  <2> QED BY <2>1, <2>2
<1> QED
  BY <1>4, <1>5, <1>8

\* What the constants of the code and of these tools are.
Known ==
  /\ Base \in Int
  /\ Typs \subseteq {"ymd", "daisy"}
  /\ Firsts \subseteq Int
  /\ Times \subseteq Clocks
  /\ Epochs \subseteq Int
  /\ Durs \subseteq Durations
  /\ \A z \in Zones, n \in Int : Offs(z, n) \in Int

\* What can be worked with is a moment, even if there is no day.
LEMMA EpochsAre ==
  ASSUME NEW x \in Moments, Workable(x), Base \in Int
  PROVE  ToUnixEpoch(x) \in Int
<1>1. /\ x.sx \in Int /\ x.t \in Clocks /\ x.typ \in {"ymd", "daisy", "unk", "sexy"}
      /\ x.typ # "sexy" => x.typ = x.d.typ
      /\ x.typ = "unk" => x.sw = TRUE
  BY MomentsAre, Zenon
<1>2. \A n \in Int : StampOn(n, x.t) \in Int
  <2>1. SecsSinceMidnight(x.t) \in Int
    BY <1>1, SecsAre, Zenon
  <2> QED BY <2>1, SMT DEF StampOn, DAISY_UNIX_BASE, SECS_PER_DAY
<1>3. CASE x.typ = "sexy"
  BY <1>1, <1>3, Zenon DEF ToUnixEpoch
<1>4. CASE x.typ = "unk"
  BY <1>1, <1>2, <1>4, Zenon DEF ToUnixEpoch, OnlyTP
<1>5. CASE x.typ \notin {"unk", "sexy"}
  <2>1. x.d \in Dates
    BY <1>1, <1>5, SlotsAre, Zenon DEF Workable
  <2>2. ConvToDaisy(x.d) \in Int
    BY <2>1, DatesAre, Zenon
  <2>3. ToUnixEpoch(x) = StampOn(ConvToDaisy(x.d), x.t)
    BY <1>5, Zenon DEF ToUnixEpoch, OnlyTP
  <2> QED BY <1>2, <2>2, <2>3, Zenon
<1> QED
  BY <1>3, <1>4, <1>5, Zenon

\* Conversions.
LEMMA DtConvKeeps ==
  ASSUME NEW x \in Moments, Workable(x), NEW typ \in {"ymd", "daisy", "sexy"}, Base \in Int
  PROVE  DtConv(typ, x) \in Moments
<1>0. /\ x.sx \in Int /\ x.t \in Clocks /\ x.typ \in {"ymd", "daisy", "unk", "sexy"}
      /\ x.typ # "sexy" => x.typ = x.d.typ
      /\ x.sw \in BOOLEAN /\ x.znfxd \in BOOLEAN /\ x.neg \in BOOLEAN /\ x.zdiff \in Int
  BY MomentsAre, Zenon
<1>1. CASE x.typ = "unk"
  BY <1>1, Zenon DEF DtConv
<1>2. CASE x.typ # "unk" /\ typ = "sexy"
  <2>0. DtConv(typ, x) = ConvToSexy(x)
    BY <1>2 DEF DtConv
  <2>1. CASE x.typ = "sexy"
    BY <2>0, <2>1, Zenon DEF ConvToSexy
  <2>2. CASE x.typ # "sexy"
    <3> DEFINE n == IF OnlyTP(x) THEN SecsSinceMidnight(x.t) ELSE ToUnixEpoch(x)
    <3>1. n \in Int
      BY <1>0, EpochsAre, SecsAre, Zenon
    <3>2. Midnight \in Clocks
      BY NanosAssumption DEF Midnight, Clocks
    <3>3. ConvToSexy(x) = [x EXCEPT !.typ = "sexy", !.sw = FALSE, !.d = NoDate, !.t = Midnight, !.sx = n]
      BY <2>2, Zenon DEF ConvToSexy
    <3> HIDE DEF n
    <3>4. ConvToSexy(x) = Made("sexy", FALSE, NoDate, Midnight, n, x.znfxd, x.neg, x.zdiff)
      <4> DEFINE y == [x EXCEPT !.typ = "sexy", !.sw = FALSE, !.d = NoDate, !.t = Midnight, !.sx = n]
                 t == Midnight
                 d == NoDate
      <4>1. y = [x EXCEPT !.typ = "sexy", !.sw = FALSE, !.d = d, !.t = t, !.sx = n]
        OBVIOUS
      <4>2. x = [typ |-> x.typ, sw |-> x.sw, d |-> x.d, t |-> x.t, sx |-> x.sx,
                 znfxd |-> x.znfxd, neg |-> x.neg, zdiff |-> x.zdiff]
        BY MomentIsMade, Zenon DEF Made
      <4> HIDE DEF y, t, d
      <4>3. y = [typ |-> "sexy", sw |-> FALSE, d |-> d, t |-> t, sx |-> n,
                 znfxd |-> x.znfxd, neg |-> x.neg, zdiff |-> x.zdiff]
        BY <4>1, <4>2, Zenon
      <4> QED BY <3>3, <4>3, Zenon DEF Made, y, t, d
    <3>5. NoDate \in Slots
      BY SlotsAre, Zenon
    <3>6. Fitting("sexy", FALSE, NoDate, Midnight, n, x.znfxd, x.neg, x.zdiff)
      <4>1. "sexy" \in {"ymd", "daisy", "unk", "sexy"} /\ FALSE \in BOOLEAN /\ "sexy" # "unk"
        OBVIOUS
      <4> QED BY <1>0, <3>1, <3>2, <3>5, <4>1, Zenon DEF Fitting
    <3> QED BY <2>0, <3>4, <3>6, MadeIs, Zenon
  <2> QED BY <2>1, <2>2
<1>3. CASE x.typ # "unk" /\ typ # "sexy"
  <2> DEFINE y == IF x.typ = "sexy" THEN SexyToDaisy(x.sx) ELSE x
             d == DConv(typ, y.d)
  <2>1. DtConv(typ, x) = [Sandwich(d, y.t) EXCEPT !.sw = y.sw]
    BY <1>3 DEF DtConv
  <2>2. y.d \in Dates /\ y.t \in Clocks /\ y.sw \in BOOLEAN
    <3>1. CASE x.typ = "sexy"
      <4> DEFINE n == (x.sx \div SECS_PER_DAY) + DAISY_UNIX_BASE
                 r == x.sx % SECS_PER_DAY
                 t == HMS(r, 0)
      <4>1. y = Sandwich(Daisy(n), t)
        BY <3>1, Zenon DEF SexyToDaisy
      <4>2. n \in Int /\ r \in Int /\ 0 <= r /\ r < 86400
        BY <1>0, SMT DEF SECS_PER_DAY, DAISY_UNIX_BASE
      <4>3. 0 \in 0 .. NANOS_PER_SEC - 1
        BY NanosAssumption
      <4> HIDE DEF n, r
      <4>4. t \in Clocks
        BY <4>2, <4>3, HMSIs
      <4>5. Daisy(n) \in DaisyDates
        BY <4>2 DEF Daisy, DaisyDates
      <4>6. Daisy(n) \in Dates
        BY <4>5, SlotsAre, Zenon
      <4> HIDE DEF t, y
      <4>7. y.d = Daisy(n) /\ y.t = t /\ y.sw = TRUE
        BY <4>1, Zenon DEF Sandwich
      <4> QED BY <4>4, <4>6, <4>7
    <3>2. CASE x.typ # "sexy"
      <4>1. x.d \in Dates
        BY <1>0, <1>3, <3>2, SlotsAre, Zenon DEF Workable
      <4> QED BY <1>0, <3>2, <4>1, Zenon
    <3> QED BY <3>1, <3>2
  <2> HIDE DEF y
  <2>3. typ \in {"ymd", "daisy"}
    BY <1>3
  <2>4. d \in Slots /\ d.typ = typ
    BY <2>2, <2>3, DatesAre
  <2> HIDE DEF d
  <2> DEFINE t == y.t
             sw == y.sw
  <2>5. DtConv(typ, x) = Made(typ, sw, d, t, 0, FALSE, FALSE, 0)
    <3> HIDE DEF t, sw
    <3>1. [Sandwich(d, t) EXCEPT !.sw = sw] = Made(d.typ, sw, d, t, 0, FALSE, FALSE, 0)
      <4> DEFINE u == Sandwich(d, t)
                 k == d.typ
      <4>1. u = [typ |-> k, sw |-> TRUE, d |-> d, t |-> t, sx |-> 0, znfxd |-> FALSE, neg |-> FALSE, zdiff |-> 0]
        BY Zenon DEF Sandwich
      <4> DEFINE v == [u EXCEPT !.sw = sw]
      <4>3. v = [u EXCEPT !.sw = sw]
        OBVIOUS
      <4> HIDE DEF u, k, v
      <4>2. v = [typ |-> k, sw |-> sw, d |-> d, t |-> t, sx |-> 0, znfxd |-> FALSE, neg |-> FALSE, zdiff |-> 0]
        BY <4>1, <4>3, Zenon
      <4> QED BY <4>2, Zenon DEF Made, u, k, v
    <3> QED BY <2>1, <2>4, <3>1, Zenon DEF t, sw
  <2>6. Fitting(typ, sw, d, t, 0, FALSE, FALSE, 0)
    <3>1. typ # "unk" /\ typ # "sexy" /\ typ \in {"ymd", "daisy", "unk", "sexy"} /\ 0 \in Int /\ FALSE \in BOOLEAN
      BY <2>3
    <3> QED BY <2>2, <2>4, <3>1, Zenon DEF Fitting
  <2> QED BY <2>5, <2>6, MadeIs, Zenon
<1> QED
  BY <1>1, <1>2, <1>3

\* What is told of a zone: whole quarters of an hour, and whether they are
\* behind.
LEMMA ZoneBitsKeep ==
  ASSUME NEW x \in Moments, NEW zdiff \in Int, NEW minus \in BOOLEAN
  PROVE  /\ ZoneBits(x, zdiff, minus) \in Moments
         /\ ZoneBits(x, zdiff, minus)
              = Made(x.typ, x.sw, x.d, x.t, x.sx, x.znfxd, x.neg \/ minus, (Mag(zdiff) \div ZDIFF_RES) % 64)
<1> DEFINE z == (Mag(zdiff) \div ZDIFF_RES) % 64
           b == x.neg \/ minus
<1>1. z \in Int
  BY SMT DEF Mag, ZDIFF_RES
<1>2. x.neg \in BOOLEAN
  BY MomentsAre, Zenon
<1>3. b \in BOOLEAN
  BY <1>2, Zenon
<1>4. ZoneBits(x, zdiff, minus) = [x EXCEPT !.neg = b, !.zdiff = z]
  <2> DEFINE y == [x EXCEPT !.neg = @ \/ minus, !.zdiff = z]
             v == [x EXCEPT !.neg = b, !.zdiff = z]
  <2>1. y = [x EXCEPT !.neg = @ \/ minus, !.zdiff = z] /\ v = [x EXCEPT !.neg = b, !.zdiff = z]
    OBVIOUS
  <2>2. x = [typ |-> x.typ, sw |-> x.sw, d |-> x.d, t |-> x.t, sx |-> x.sx,
             znfxd |-> x.znfxd, neg |-> x.neg, zdiff |-> x.zdiff]
    BY MomentIsMade, Zenon DEF Made
  <2>3. ZoneBits(x, zdiff, minus) = y
    BY Zenon DEF ZoneBits
  <2> HIDE DEF y, v, z
  <2>4. y = v
    BY <2>1, Zenon
  <2> QED BY <2>3, <2>4 DEF v
<1> HIDE DEF b, z
<1>5. [x EXCEPT !.neg = b, !.zdiff = z] = Made(x.typ, x.sw, x.d, x.t, x.sx, x.znfxd, b, z)
  <2> DEFINE y == [x EXCEPT !.neg = b, !.zdiff = z]
  <2>1. y = [x EXCEPT !.neg = b, !.zdiff = z]
    OBVIOUS
  <2> HIDE DEF y
  <2>2. x = [typ |-> x.typ, sw |-> x.sw, d |-> x.d, t |-> x.t, sx |-> x.sx,
             znfxd |-> x.znfxd, neg |-> x.neg, zdiff |-> x.zdiff]
    BY MomentIsMade, Zenon DEF Made
  <2>3. y = [typ |-> x.typ, sw |-> x.sw, d |-> x.d, t |-> x.t, sx |-> x.sx,
             znfxd |-> x.znfxd, neg |-> b, zdiff |-> z]
    BY <2>1, <2>2, Zenon
  <2> QED BY <2>1, <2>3, Zenon DEF Made
<1>6. Made(x.typ, x.sw, x.d, x.t, x.sx, x.znfxd, b, z) \in Moments
  BY <1>1, <1>3, SlotsStay, Zenon
<1> QED
  BY <1>4, <1>5, <1>6, Zenon DEF b, z

\* Undoing a zone.
LEMMA ForgetKeeps ==
  ASSUME NEW x \in Moments, Workable(x), Base \in Int, NEW z, \A n \in Int : Offs(z, n) \in Int
  PROVE  LET zdiff == ZifUtcTime(z, ToUnixEpoch(x)) - ToUnixEpoch(x)
             w == [DtAddSecs(x, zdiff) EXCEPT !.znfxd = TRUE]
         IN /\ DtzForgetz(x, z) \in Moments
            /\ zdiff \in Int /\ w \in Moments
            /\ DtzForgetz(x, z) = IF OnlyDP(x) \/ x.znfxd THEN x
                                  ELSE IF zdiff = 0 THEN x ELSE ZoneBits(w, zdiff, zdiff > 0)
<1> DEFINE locl == ToUnixEpoch(x)
           zdiff == ZifUtcTime(z, locl) - locl
           y == DtAddSecs(x, zdiff)
           w == [y EXCEPT !.znfxd = TRUE]
<1>1. locl \in Int
  BY EpochsAre, Zenon
<1>2. zdiff \in Int
  <2> HIDE DEF locl
  <2>1. Offs(z, locl) \in Int
    BY <1>1
  <2>2. Offs(z, locl - Offs(z, locl)) \in Int
    BY <1>1, <2>1
  <2> QED BY <1>1, <2>1, <2>2 DEF ZifUtcTime
<1>3. DtzForgetz(x, z) = IF OnlyDP(x) \/ x.znfxd THEN x
                         ELSE IF zdiff = 0 THEN x ELSE ZoneBits(w, zdiff, zdiff > 0)
  BY Zenon DEF DtzForgetz
<1> HIDE DEF zdiff
<1>4. y \in Moments
  BY <1>2, DtAddSecsKeeps, Zenon
<1> HIDE DEF y
<1>5. w \in Moments
  BY <1>4, SlotsStay, Zenon
<1> HIDE DEF w
<1>6. (zdiff > 0) \in BOOLEAN
  OBVIOUS
<1>7. ZoneBits(w, zdiff, zdiff > 0) \in Moments
  BY <1>2, <1>5, <1>6, ZoneBitsKeep, Zenon
<1>8. DtzForgetz(x, z) \in Moments
  BY <1>3, <1>7, Zenon
<1> QED
  BY <1>2, <1>3, <1>5, <1>8, Zenon DEF w, y, zdiff

\* Taking one on.
LEMMA EnrichKeeps ==
  ASSUME NEW x \in Moments, Workable(x), Base \in Int, NEW z, \A n \in Int : Offs(z, n) \in Int
  PROVE  /\ DtzEnrichz(x, z) \in Moments
         /\ ToUnixEpoch(x) \in Int
         /\ ~OnlyDP(x) /\ Offs(z, ToUnixEpoch(x)) = 0 =>
              DtzEnrichz(x, z) = Made(x.typ, x.sw, x.d, x.t, x.sx, x.znfxd, FALSE, 0)
         /\ ~OnlyDP(x) /\ Offs(z, ToUnixEpoch(x)) # 0 =>
              DtzEnrichz(x, z) = ZoneBits(DtAddSecs(x, Offs(z, ToUnixEpoch(x))), Offs(z, ToUnixEpoch(x)),
                                          Offs(z, ToUnixEpoch(x)) < 0)
<1> DEFINE unix == ToUnixEpoch(x)
           zdiff == ZifLocalTime(z, unix) - unix
           o == Offs(z, unix)
<1>1. unix \in Int
  BY EpochsAre, Zenon
<1>2. zdiff \in Int /\ zdiff = o
  <2> HIDE DEF unix
  <2>1. Offs(z, unix) \in Int
    BY <1>1
  <2> QED BY <1>1, <2>1 DEF ZifLocalTime
<1>3. DtzEnrichz(x, z) = IF OnlyDP(x) THEN x
                         ELSE IF zdiff = 0 THEN [x EXCEPT !.zdiff = 0, !.neg = FALSE]
                         ELSE ZoneBits(DtAddSecs(x, zdiff), zdiff, zdiff < 0)
  BY Zenon DEF DtzEnrichz
<1> HIDE DEF zdiff
<1> DEFINE y == DtAddSecs(x, o)
<1>4. y \in Moments
  BY <1>2, DtAddSecsKeeps, Zenon
<1>5. (o < 0) \in BOOLEAN /\ FALSE \in BOOLEAN
  OBVIOUS
<1> HIDE DEF y
<1>6. ZoneBits(y, o, o < 0) \in Moments
  BY <1>2, <1>4, <1>5, ZoneBitsKeep, Zenon
<1>7. [x EXCEPT !.zdiff = 0, !.neg = FALSE] = Made(x.typ, x.sw, x.d, x.t, x.sx, x.znfxd, FALSE, 0)
  <2> DEFINE u == [x EXCEPT !.zdiff = 0, !.neg = FALSE]
  <2>1. u = [x EXCEPT !.zdiff = 0, !.neg = FALSE]
    OBVIOUS
  <2> HIDE DEF u
  <2>2. x = [typ |-> x.typ, sw |-> x.sw, d |-> x.d, t |-> x.t, sx |-> x.sx,
             znfxd |-> x.znfxd, neg |-> x.neg, zdiff |-> x.zdiff]
    BY MomentIsMade, Zenon DEF Made
  <2>3. u = [typ |-> x.typ, sw |-> x.sw, d |-> x.d, t |-> x.t, sx |-> x.sx,
             znfxd |-> x.znfxd, neg |-> FALSE, zdiff |-> 0]
    BY <2>1, <2>2, Zenon
  <2> QED BY <2>1, <2>3, Zenon DEF Made
<1>8. Made(x.typ, x.sw, x.d, x.t, x.sx, x.znfxd, FALSE, 0) \in Moments
  <2>1. 0 \in Int
    OBVIOUS
  <2> QED BY <1>5, <2>1, SlotsStay, Zenon
<1> QED
  BY <1>1, <1>2, <1>3, <1>6, <1>7, <1>8, Zenon DEF y

\* Cropping.
LEMMA FixupKeeps ==
  ASSUME NEW x \in Moments, Workable(x)
  PROVE  /\ DtFixup(x) \in Moments
         /\ x = DtFixup(x) /\ x.typ \notin {"unk", "sexy"} => x.d = DFixup(x.d)
<1>1. CASE OnlyDP(x) \/ SandwichP(x)
  <2> DEFINE d == DFixup(x.d)
  <2>0. /\ x.typ \notin {"unk", "sexy"} => x.d \in Dates
        /\ x.typ \notin {"unk", "sexy"} => d \in Dates /\ d.typ = x.d.typ /\ d \in Slots
    <3>1. x.typ \notin {"unk", "sexy"} => x.d.typ # "unk"
      <4>1. x.typ # "sexy" => x.typ = x.d.typ
        BY MomentsAre, Zenon
      <4> QED BY <4>1, Zenon
    <3>2. x.d.typ # "unk" => x.d \in Dates
      BY SlotsAre, Zenon DEF Workable
    <3> QED BY <3>1, <3>2, DatesAre, SlotsAre, Zenon
  <2>1. x.typ # "unk" /\ (x.sw => x.typ # "sexy")
    <3>1. x.typ = "sexy" => x.sw = FALSE
      BY MomentsAre, Zenon
    <3> QED BY <1>1, <3>1, Zenon DEF OnlyDP, SandwichP
  <2>2. x.typ # "sexy"
    BY <1>1, <2>1, Zenon DEF OnlyDP, SandwichP
  <2>3. DtFixup(x) = [x EXCEPT !.d = d]
    <3>1. DtFixup(x) = [x EXCEPT !.d = DFixup(@)]
      BY <1>1, Zenon DEF DtFixup
    <3>2. x = Made(x.typ, x.sw, x.d, x.t, x.sx, x.znfxd, x.neg, x.zdiff)
      BY MomentIsMade, Zenon
    <3> QED BY <3>1, <3>2 DEF Made
  <2>4. [x EXCEPT !.d = d].d = d
    BY OverwrittenIs, Zenon DEF Made
  <2> HIDE DEF d
  <2>5. d \in Slots /\ d.typ = x.d.typ
    BY <2>0, <2>1, <2>2
  <2> QED BY <2>3, <2>4, <2>5, SlotsStay, Zenon DEF d
<1>2. CASE ~(OnlyDP(x) \/ SandwichP(x))
  <2>1. DtFixup(x) = x
    BY <1>2, Zenon DEF DtFixup
  <2>2. x.typ \in {"unk", "sexy"}
    BY <1>2, Zenon DEF OnlyDP, SandwichP
  <2> QED BY <2>1, <2>2
<1> QED
  BY <1>1, <1>2

\* 24:00 becomes the next day.
LEMMA MilfupKeeps ==
  ASSUME NEW x \in Moments, Workable(x)
  PROVE  DtMilfup(x) \in Moments
<1>1. 0 \in Int
  OBVIOUS
<1>2. DtAddSecs(x, 0) \in Moments
  BY <1>1, DtAddSecsKeeps, Zenon
<1> QED
  BY <1>2, Zenon DEF DtMilfup

-----------------------------------------------------------------------------
(* The invariant: what the tool holds, and how it follows from what was    *)
(* asked last.                                                             *)

AskedIs ==
  /\ asked.from \in Moments
  /\ asked.kind = "add" => /\ Workable(asked.from) /\ asked.arg \in Durations
                           /\ dt = DtAdd(asked.from, asked.arg)
  /\ asked.kind = "enrich" => /\ Workable(asked.from) /\ asked.arg \in Zones
                              /\ dt = DtzEnrichz(asked.from, asked.arg)
  /\ asked.kind = "forget" => /\ Workable(asked.from) /\ asked.arg \in Zones
                              /\ dt = DtzForgetz(asked.from, asked.arg)

IInv == dt \in Moments /\ AskedIs

\* What is read.
LEMMA ReadIs ==
  ASSUME NEW d \in Slots, NEW t \in Clocks
  PROVE  /\ d.typ # "unk" => OnlyD(d) \in Moments
         /\ \A b \in BOOLEAN : [Sandwich(d, t) EXCEPT !.znfxd = b] \in Moments
         /\ d.typ = "unk" => OnlyT(t) \in Moments /\ \A n \in Int : Sexy(n) \in Moments
<1> DEFINE k == d.typ
<1>1. k \in {"ymd", "daisy", "unk"} /\ d \in Slots /\ (k = "unk" => d = NoDate)
  BY SlotsAre, Zenon
<1>2. 0 \in Int /\ TRUE \in BOOLEAN /\ FALSE \in BOOLEAN /\ Midnight \in Clocks
  BY NanosAssumption DEF Midnight, Clocks
<1>3. k \in {"ymd", "daisy", "unk", "sexy"} /\ k # "sexy"
  BY <1>1
<1> HIDE DEF k
<1>4. ASSUME NEW e \in Slots, e.typ = k, NEW u \in Clocks, NEW sw \in BOOLEAN, k = "unk" => sw = TRUE, NEW b \in BOOLEAN
      PROVE  Made(k, sw, e, u, 0, b, FALSE, 0) \in Moments
  BY <1>2, <1>3, <1>4, MadeIs, Zenon DEF Fitting
<1>5. ASSUME NEW u, NEW b
      PROVE  /\ Sandwich(d, u) = Made(k, TRUE, d, u, 0, FALSE, FALSE, 0)
             /\ OnlyD(d) = Made(k, FALSE, d, Midnight, 0, FALSE, FALSE, 0)
             /\ [Sandwich(d, u) EXCEPT !.znfxd = b] = Made(k, TRUE, d, u, 0, b, FALSE, 0)
  <2> DEFINE s == Sandwich(d, u)
             v == [s EXCEPT !.znfxd = b]
             m == Midnight
             o == Sandwich(d, m)
             p == [o EXCEPT !.sw = FALSE]
  <2>1. s = [typ |-> k, sw |-> TRUE, d |-> d, t |-> u, sx |-> 0, znfxd |-> FALSE, neg |-> FALSE, zdiff |-> 0]
    BY Zenon DEF Sandwich, k
  <2>2. o = [typ |-> k, sw |-> TRUE, d |-> d, t |-> m, sx |-> 0, znfxd |-> FALSE, neg |-> FALSE, zdiff |-> 0]
    BY Zenon DEF Sandwich, k
  <2>3. v = [s EXCEPT !.znfxd = b] /\ p = [o EXCEPT !.sw = FALSE] /\ OnlyD(d) = p
    BY Zenon DEF OnlyD
  <2> HIDE DEF s, v, o, p, m
  <2>4. v = [typ |-> k, sw |-> TRUE, d |-> d, t |-> u, sx |-> 0, znfxd |-> b, neg |-> FALSE, zdiff |-> 0]
    BY <2>1, <2>3, Zenon
  <2>5. p = [typ |-> k, sw |-> FALSE, d |-> d, t |-> m, sx |-> 0, znfxd |-> FALSE, neg |-> FALSE, zdiff |-> 0]
    BY <2>2, <2>3, Zenon
  <2> QED BY <2>1, <2>3, <2>4, <2>5, Zenon DEF Made, s, v, m
<1>6. k # "unk" => OnlyD(d) \in Moments
  <2> SUFFICES ASSUME k # "unk" PROVE OnlyD(d) \in Moments
    OBVIOUS
  <2>1. Made(k, FALSE, d, Midnight, 0, FALSE, FALSE, 0) \in Moments
    BY <1>2, <1>4, Zenon DEF k
  <2> QED BY <1>5, <2>1, Zenon
<1>7. ASSUME NEW b \in BOOLEAN PROVE [Sandwich(d, t) EXCEPT !.znfxd = b] \in Moments
  <2>1. Made(k, TRUE, d, t, 0, b, FALSE, 0) \in Moments
    BY <1>2, <1>4, Zenon DEF k
  <2> QED BY <1>5, <2>1, Zenon
<1>8. ASSUME k = "unk" PROVE OnlyT(t) \in Moments /\ \A n \in Int : Sexy(n) \in Moments
  <2>0. d = NoDate
    BY <1>1, <1>8 DEF k
  <2>1. OnlyT(t) \in Moments
    <3>1. Made(k, TRUE, d, t, 0, FALSE, FALSE, 0) \in Moments
      BY <1>2, <1>4, Zenon DEF k
    <3> QED BY <1>5, <2>0, <3>1, Zenon DEF OnlyT
  <2>2. ASSUME NEW n \in Int PROVE Sexy(n) \in Moments
    <3> DEFINE o == OnlyD(d)
               p == [o EXCEPT !.typ = "sexy", !.sx = n]
               m == Midnight
    <3>1. o = [typ |-> k, sw |-> FALSE, d |-> d, t |-> m, sx |-> 0, znfxd |-> FALSE, neg |-> FALSE, zdiff |-> 0]
      BY <1>5, Zenon DEF Made
    <3>2. p = [o EXCEPT !.typ = "sexy", !.sx = n] /\ Sexy(n) = p
      BY <2>0, Zenon DEF Sexy
    <3> HIDE DEF o, p, m
    <3>3. p = [typ |-> "sexy", sw |-> FALSE, d |-> d, t |-> m, sx |-> n, znfxd |-> FALSE, neg |-> FALSE, zdiff |-> 0]
      BY <3>1, <3>2, Zenon
    <3>4. Sexy(n) = Made("sexy", FALSE, d, Midnight, n, FALSE, FALSE, 0)
      BY <3>2, <3>3, Zenon DEF Made, m
    <3>5. "sexy" \in {"ymd", "daisy", "unk", "sexy"} /\ "sexy" # "unk"
      OBVIOUS
    <3>6. Fitting("sexy", FALSE, d, Midnight, n, FALSE, FALSE, 0)
      BY <1>2, <2>0, <3>5, Zenon DEF Fitting
    <3> QED BY <3>4, <3>6, MadeIs, Zenon
  <2> QED BY <2>1, <2>2
<1> QED
  BY <1>6, <1>7, <1>8, Zenon DEF k

\* The invariant holds for any date-time that was read.
LEMMA InitIsGood == Known /\ Init => IInv
<1> SUFFICES ASSUME Known, Init PROVE IInv
  OBVIOUS
<1>1. ASSUME NEW typ \in Typs, NEW num \in Firsts
      PROVE  /\ DConv(typ, Daisy(num)) \in Slots /\ DConv(typ, Daisy(num)).typ # "unk"
  <2>1. typ \in {"ymd", "daisy"} /\ num \in Int
    BY Zenon DEF Known
  <2>2. Daisy(num) \in DaisyDates
    BY <2>1, Zenon DEF Daisy, DaisyDates
  <2>3. Daisy(num) \in Dates
    BY <2>2, SlotsAre, Zenon
  <2>4. DConv(typ, Daisy(num)) \in Slots /\ DConv(typ, Daisy(num)).typ = typ
    BY <2>1, <2>3, DatesAre
  <2> QED BY <2>1, <2>4
<1>2. \A t \in Times : t \in Clocks
  BY Zenon DEF Known
<1>3. Midnight \in Clocks /\ NoDate \in Slots /\ NoDate.typ = "unk"
  BY NanosAssumption, SlotsAre DEF Midnight, Clocks
<1>4. dt \in Moments
  <2>1. ASSUME NEW typ \in Typs, NEW num \in Firsts, NEW t \in Times, NEW fixed \in BOOLEAN,
               dt = [Sandwich(DConv(typ, Daisy(num)), t) EXCEPT !.znfxd = fixed]
        PROVE  dt \in Moments
    BY <1>1, <1>2, <2>1, ReadIs, Zenon
  <2>2. ASSUME NEW typ \in Typs, NEW num \in Firsts, dt = OnlyD(DConv(typ, Daisy(num)))
        PROVE  dt \in Moments
    BY <1>1, <1>3, <2>2, ReadIs, Zenon
  <2>3. ASSUME NEW t \in Times, dt = OnlyT(t) PROVE dt \in Moments
    BY <1>2, <1>3, <2>3, ReadIs, Zenon
  <2>4. ASSUME NEW n \in Epochs, dt = Sexy(n) PROVE dt \in Moments
    <3>1. n \in Int
      BY Zenon DEF Known
    <3> QED BY <1>3, <2>4, <3>1, ReadIs, Zenon
  <2> QED BY <2>1, <2>2, <2>3, <2>4, Zenon DEF Init
<1>5. asked.from = dt /\ asked.kind = "read"
  BY Zenon DEF Init
<1> QED
  BY <1>4, <1>5, Zenon DEF IInv, AskedIs

\* Every call keeps the invariant.
LEMMA StepIsGood == Known /\ IInv /\ [Next]_vars => IInv'
<1> SUFFICES ASSUME Known, IInv, [Next]_vars PROVE IInv'
  OBVIOUS
<1>1. dt \in Moments /\ Base \in Int /\ \A z \in Zones, n \in Int : Offs(z, n) \in Int
  BY Zenon DEF IInv, Known
<1>2. ASSUME NEW kind, NEW arg, Ask(kind, arg)
      PROVE  Workable(dt) /\ asked'.kind = kind /\ asked'.arg = arg /\ asked'.from = dt
  <2>1. Workable(dt)
    BY <1>1, <1>2, WorkableIs, Zenon DEF Ask
  <2> QED BY <1>2, <2>1, Zenon DEF Ask
<1>3. CASE \E dur \in Durs : Add(dur)
  <2>1. PICK dur \in Durs : Add(dur)
    BY <1>3
  <2>2. dur \in Durations
    BY Zenon DEF Known
  <2>3. Workable(dt) /\ asked'.kind = "add" /\ asked'.arg = dur /\ asked'.from = dt /\ dt' = DtAdd(dt, dur)
    BY <1>2, <2>1, Zenon DEF Add
  <2>4. dt' \in Moments
    BY <1>1, <2>2, <2>3, DtAddKeeps, Zenon
  <2>5. "add" # "enrich" /\ "add" # "forget"
    OBVIOUS
  <2> QED BY <1>1, <2>2, <2>3, <2>4, <2>5, Zenon DEF IInv, AskedIs
<1>4. ASSUME NEW kind, NEW arg, Ask(kind, arg), kind # "add", kind # "enrich", kind # "forget", dt' \in Moments
      PROVE  IInv'
  BY <1>1, <1>2, <1>4, Zenon DEF IInv, AskedIs
<1>5. CASE \E typ \in Typs \union {"sexy"} : Convert(typ)
  <2>1. PICK typ \in Typs \union {"sexy"} : Convert(typ)
    BY <1>5
  <2>2. typ \in {"ymd", "daisy", "sexy"}
    BY DEF Known
  <2>3. Ask("conv", typ) /\ dt' = DtConv(typ, dt)
    BY <2>1, Zenon DEF Convert
  <2>4. Workable(dt)
    BY <1>2, <2>3, Zenon
  <2>5. DtConv(typ, dt) \in Moments
    BY <1>1, <2>2, <2>4, DtConvKeeps
  <2>6. "conv" # "add" /\ "conv" # "enrich" /\ "conv" # "forget"
    OBVIOUS
  <2> QED BY <1>4, <2>3, <2>5, <2>6, Zenon
<1>6. CASE \E z \in Zones : Forget(z) \/ Enrich(z)
  <2>1. PICK z \in Zones : Forget(z) \/ Enrich(z)
    BY <1>6
  <2>2. CASE Forget(z)
    <3>1. Workable(dt) /\ asked'.kind = "forget" /\ asked'.arg = z /\ asked'.from = dt /\ dt' = DtzForgetz(dt, z)
      BY <1>2, <2>2, Zenon DEF Forget
    <3>2. dt' \in Moments
      BY <1>1, <3>1, ForgetKeeps, Zenon
    <3>3. "add" # "forget" /\ "enrich" # "forget"
      OBVIOUS
    <3> QED BY <1>1, <3>1, <3>2, <3>3, Zenon DEF IInv, AskedIs
  <2>3. CASE Enrich(z)
    <3>1. Workable(dt) /\ asked'.kind = "enrich" /\ asked'.arg = z /\ asked'.from = dt /\ dt' = DtzEnrichz(dt, z)
      BY <1>2, <2>3, Zenon DEF Enrich
    <3>2. dt' \in Moments
      BY <1>1, <3>1, EnrichKeeps, Zenon
    <3>3. "add" # "enrich" /\ "enrich" # "forget"
      OBVIOUS
    <3> QED BY <1>1, <3>1, <3>2, <3>3, Zenon DEF IInv, AskedIs
  <2> QED BY <2>1, <2>2, <2>3
<1>7. CASE Fixup
  <2>1. Ask("fixup", "none") /\ dt' = DtFixup(dt)
    BY <1>7, Zenon DEF Fixup
  <2>2. dt' \in Moments
    BY <1>1, <1>2, <2>1, FixupKeeps, Zenon
  <2>3. "fixup" # "add" /\ "fixup" # "enrich" /\ "fixup" # "forget"
    OBVIOUS
  <2> QED BY <1>4, <2>1, <2>2, <2>3, Zenon
<1>8. CASE Milfup
  <2>1. Ask("milfup", "none") /\ dt' = DtMilfup(dt)
    BY <1>8, Zenon DEF Milfup
  <2>2. dt' \in Moments
    BY <1>1, <1>2, <2>1, MilfupKeeps, Zenon
  <2>3. "milfup" # "add" /\ "milfup" # "enrich" /\ "milfup" # "forget"
    OBVIOUS
  <2> QED BY <1>4, <2>1, <2>2, <2>3, Zenon
<1>9. CASE UNCHANGED vars
  BY <1>9, Zenon DEF IInv, AskedIs, vars
<1> QED
  BY <1>3, <1>5, <1>6, <1>7, <1>8, <1>9, Zenon DEF Next

\* The invariant holds throughout.
LEMMA Kept == ASSUME Known PROVE Spec => []IInv
<1>1. Init => IInv
  BY InitIsGood, Zenon
<1>2. IInv /\ [Next]_vars => IInv'
  BY StepIsGood, Zenon
<1> QED
  BY <1>1, <1>2, PTL DEF Spec

-----------------------------------------------------------------------------
(* Seconds that are added lead that much later. *)

\* The seconds of a day that is reached.
LEMMA StampsAre ==
  ASSUME NEW num \in Int, NEW s \in Int, NEW n \in Int, NEW r \in Int,
         r = (s + n) % SECS_PER_DAY
  PROVE  LET q == (s + n) \div SECS_PER_DAY
             was == (num - DAISY_UNIX_BASE) * SECS_PER_DAY + s
         IN /\ q \in Int
            /\ was \in Int
            /\ (was + n) \div SECS_PER_DAY + DAISY_UNIX_BASE = num + q
            /\ ((num + q) - DAISY_UNIX_BASE) * SECS_PER_DAY + r = was + n
<1> DEFINE a == s + n
           q == a \div 86400
           c == num - 134775
           e == c * 86400
<1>1. a \in Int /\ c \in Int
  OBVIOUS
<1>2. q \in Int /\ a = 86400 * q + (a % 86400) /\ (a % 86400) \in Int /\ 0 <= a % 86400 /\ a % 86400 < 86400
  <2> HIDE DEF a
  <2> QED BY <1>1, SMT
<1>3. r = a % 86400
  BY DEF SECS_PER_DAY
<1> HIDE DEF q
<1>4. e + a = 86400 * (c + q) + r /\ c + q \in Int /\ e \in Int /\ 0 <= r /\ r < 86400
  <2> HIDE DEF a
  <2> QED BY <1>1, <1>2, <1>3, SMT
<1>5. (e + a) \div 86400 = c + q
  <2> HIDE DEF a, c, e
  <2> QED BY <1>4, SMT
<1>6. (e + s) + n = e + a
  BY <1>4
<1>7. /\ ((e + s) + n) \div 86400 + 134775 = num + q
      /\ ((num + q) - 134775) * 86400 + r = (e + s) + n
      /\ e + s \in Int
  BY <1>2, <1>4, <1>5, <1>6, SMT
<1> QED
  BY <1>2, <1>7 DEF q, SECS_PER_DAY, DAISY_UNIX_BASE

\* Midnights are gone round, and days are added for them.
LEMMA SecsAreAdded ==
  ASSUME NEW x \in Moments, Workable(x), x.sw = TRUE, x.typ # "sexy", NEW n \in Int
  PROVE  /\ AddSecs(x, n).t.ns = x.t.ns
         /\ AddSecs(x, n).typ = x.typ /\ AddSecs(x, n).sw = TRUE /\ AddSecs(x, n).neg = x.neg
         /\ x.typ = "unk" => SecsSinceMidnight(AddSecs(x, n).t) = (SecsSinceMidnight(x.t) + n) % SECS_PER_DAY
         /\ x.typ # "unk" /\ x.d \in CrispDates /\ ConvToDaisy(x.d) \in CivilDays /\ CivilStamp(ToUnixEpoch(x) + n)
              => ToUnixEpoch(AddSecs(x, n)) = ToUnixEpoch(x) + n
<1> DEFINE y == AddSecs(x, n)
           s == SecsSinceMidnight(x.t)
           r == (s + n) % SECS_PER_DAY
           q == (s + n) \div SECS_PER_DAY
<1>1. /\ y \in Moments
      /\ y.d.typ = x.d.typ
      /\ y.typ = x.typ /\ y.sw = TRUE /\ y.neg = x.neg
      /\ y.t = HMS(r, x.t.ns)
      /\ x.d.typ # "unk" => y.d = DAddD(x.d, q)
  BY AddSecsIs, Zenon
<1>2. x.t \in Clocks /\ s \in Int /\ x.t.ns \in 0 .. NANOS_PER_SEC - 1 /\ x.typ = x.d.typ
  BY MomentsAre, SecsAre, Zenon
<1> HIDE DEF s
<1>3. r \in Int /\ 0 <= r /\ r < 86400 /\ q \in Int
  BY <1>2, SMT DEF SECS_PER_DAY
<1> HIDE DEF y
<1>4. y.t.ns = x.t.ns /\ SecsSinceMidnight(y.t) = r
  <2> HIDE DEF r
  <2>1. HMS(r, x.t.ns).ns = x.t.ns /\ SecsSinceMidnight(HMS(r, x.t.ns)) = r
    BY <1>2, <1>3, HMSIs
  <2> QED BY <1>1, <2>1
<1>5. ASSUME x.typ # "unk", x.d \in CrispDates, ConvToDaisy(x.d) \in CivilDays, CivilStamp(ToUnixEpoch(x) + n)
      PROVE  ToUnixEpoch(y) = ToUnixEpoch(x) + n
  <2> DEFINE num == ConvToDaisy(x.d)
             was == (num - DAISY_UNIX_BASE) * SECS_PER_DAY + s
  <2>1. num \in Int
    BY <1>5 DEF CivilDays
  <2>2. ToUnixEpoch(x) = was
    BY <1>5, Zenon DEF ToUnixEpoch, OnlyTP, StampOn, s
  <2>3. /\ was \in Int
        /\ (was + n) \div SECS_PER_DAY + DAISY_UNIX_BASE = num + q
        /\ ((num + q) - DAISY_UNIX_BASE) * SECS_PER_DAY + r = was + n
    <3> HIDE DEF num
    <3> QED BY <1>2, <1>3, <2>1, StampsAre
  <2> HIDE DEF num, was
  <2>4. num + q \in CivilDays
    BY <1>5, <2>2, <2>3 DEF CivilStamp
  <2> HIDE DEF q
  <2>5. ConvToDaisy(DAddD(x.d, q)) = num + q
    BY <1>3, <1>5, <2>4, DaysAreAdded DEF num
  <2>6. ToUnixEpoch(y) = StampOn(ConvToDaisy(y.d), y.t)
    BY <1>1, <1>5, Zenon DEF ToUnixEpoch, OnlyTP
  <2>7. y.d = DAddD(x.d, q)
    BY <1>1, <1>2, <1>5 DEF q
  <2>8. ToUnixEpoch(y) = ((num + q) - DAISY_UNIX_BASE) * SECS_PER_DAY + r
    BY <1>4, <2>5, <2>6, <2>7, Zenon DEF StampOn
  <2> QED BY <2>2, <2>3, <2>8
<1> QED
  BY <1>1, <1>4, <1>5, Zenon DEF y, r, s

\* A date that cropping leaves alone is a day.
LEMMA CrispIs ==
  ASSUME NEW x \in Moments, Workable(x), x = DtFixup(x), CivilDate(x), x.typ \notin {"unk", "sexy"}
  PROVE  x.d \in CrispDates /\ ConvToDaisy(x.d) \in CivilDays
<1>1. x.d = DFixup(x.d)
  BY FixupKeeps, Zenon
<1>2. x.d \in Dates
  <2>1. x.typ = x.d.typ
    BY MomentsAre, Zenon
  <2> QED BY <2>1, SlotsAre, Zenon DEF Workable
<1>3. x.d \in YmdDates => x.d \in Ymds
  <2> DEFINE d == x.d
  <2> HIDE DEF d
  <2>1. d \in YmdDates => DFixup(d) \in Ymds
    BY FixupIsCrisp, Zenon
  <2> QED BY <1>1, <2>1, Zenon DEF d
<1>4. x.d \in CrispDates
  BY <1>2, <1>3, Zenon DEF CrispDates, Dates
<1>5. ConvToDaisy(x.d) \in CivilDays
  BY Zenon DEF CivilDate
<1> QED
  BY <1>4, <1>5

\* What is asked of an addition, without a word about states.
ExactSecs(x, dur) ==
  LET nano == dur.unit = "ns" /\ x.typ # "sexy"
      total == x.t.ns + (IF nano THEN dur.dv ELSE 0)
  IN IF dur.unit # "ns" THEN InSecs(dur)
     ELSE IF nano THEN total \div NANOS_PER_SEC ELSE Quot(dur.dv, NANOS_PER_SEC)
ExactTotal(x, dur) == x.t.ns + (IF dur.unit = "ns" /\ x.typ # "sexy" THEN dur.dv ELSE 0)
Exact(x, dur, y) ==
  /\ y.t.ns = ExactTotal(x, dur) % NANOS_PER_SEC
  /\ IF OnlyTP(y) THEN SecsSinceMidnight(y.t) = (SecsSinceMidnight(x.t) + ExactSecs(x, dur)) % SECS_PER_DAY
     ELSE y.typ = "sexy" \/ CivilStamp(ToUnixEpoch(x) + ExactSecs(x, dur)) =>
            ToUnixEpoch(y) = ToUnixEpoch(x) + ExactSecs(x, dur)

\* Stamps.
LEMMA SexyIsExact ==
  ASSUME NEW x \in Moments, x.typ = "sexy", NEW dur \in Durations, dur.unit \in ClockUnits
  PROVE  Exact(x, dur, DtAdd(x, dur))
<1> DEFINE k == SexyAdd(x.sx, dur)
           y == DtAdd(x, dur)
<1>1. /\ x.sx \in Int /\ x.t \in Clocks /\ x.sw = FALSE
  BY MomentsAre, Zenon
<1>2. x.t.ns \in 0 .. NANOS_PER_SEC - 1 /\ NANOS_PER_SEC \in Nat \ {0}
  BY <1>1, SecsAre, NanosAssumption
<1>3. y = Made(x.typ, x.sw, x.d, x.t, k, x.znfxd, x.neg, x.zdiff)
  BY MomentIsMade, SMT DEF DtAdd, Made
<1>4. k = x.sx + ExactSecs(x, dur)
  <2>1. CASE dur.unit = "ns"
    BY <2>1 DEF SexyAdd, ExactSecs
  <2>2. CASE dur.unit \in {"h", "m", "s"}
    BY <2>2 DEF SexyAdd, ExactSecs
  <2> QED BY <2>1, <2>2 DEF ClockUnits
<1>5. ExactTotal(x, dur) = x.t.ns + 0
  BY DEF ExactTotal
<1>6. (x.t.ns + 0) % NANOS_PER_SEC = x.t.ns
  BY <1>2
<1> HIDE DEF y, k
<1>7. y.typ = "sexy" /\ y.sw = FALSE /\ y.t = x.t /\ y.sx = k
  BY <1>1, <1>3, Zenon DEF Made
<1>8. ToUnixEpoch(y) = k /\ ToUnixEpoch(x) = x.sx /\ ~OnlyTP(y)
  BY <1>7, Zenon DEF ToUnixEpoch, OnlyTP
<1>9. y.t.ns = ExactTotal(x, dur) % NANOS_PER_SEC
  BY <1>5, <1>6, <1>7
<1> QED
  BY <1>4, <1>8, <1>9, Zenon DEF Exact, y

\* Date-times and times.
LEMMA AddIsExactly ==
  ASSUME NEW x \in Moments, Workable(x), x = DtFixup(x), CivilDate(x), NEW dur \in Durations,
         dur.unit \in ClockUnits, ~dur.tai, Clocked(DtAdd(x, dur))
  PROVE  Exact(x, dur, DtAdd(x, dur))
<1>1. CASE x.typ = "sexy"
  BY <1>1, SexyIsExact, Zenon
<1>2. CASE x.typ # "sexy"
  <2> DEFINE n == x.t.ns + dur.dv
             c == n % NANOS_PER_SEC
             nano == dur.unit = "ns"
             t == [x.t EXCEPT !.ns = c]
             z == IF nano THEN Made(x.typ, x.sw, x.d, t, x.sx, x.znfxd, x.neg, x.zdiff)
                  ELSE x
             secs == IF nano THEN n \div NANOS_PER_SEC ELSE InSecs(dur)
             y == AddSecs(z, secs)
  <2>0. /\ x.t \in Clocks /\ SecsSinceMidnight(x.t) \in Int /\ x.t.ns \in 0 .. NANOS_PER_SEC - 1
        /\ x.sw \in BOOLEAN
    BY MomentsAre, SecsAre, Zenon
  <2>1. /\ n \in Int /\ n \div NANOS_PER_SEC \in Int /\ c \in 0 .. NANOS_PER_SEC - 1
        /\ t \in Clocks
        /\ Made(x.typ, x.sw, x.d, t, x.sx, x.znfxd, x.neg, x.zdiff) \in Moments
        /\ Workable(Made(x.typ, x.sw, x.d, t, x.sx, x.znfxd, x.neg, x.zdiff))
        /\ x.sw => AddNanos(x, dur.dv) = AddSecs(Made(x.typ, x.sw, x.d, t, x.sx, x.znfxd, x.neg, x.zdiff), n \div NANOS_PER_SEC)
        /\ ~x.sw => AddNanos(x, dur.dv) = x
    BY InSecsIs, AddNanosIs, Zenon
  <2>2. InSecs(dur) \in Int
    BY InSecsIs, Zenon
  <2>3. DtAdd(x, dur) = PlainAdd(x, dur)
    BY <1>2, Zenon DEF DtAdd, RealAdd
  <2>4. x.sw = TRUE
    <3>1. SUFFICES ASSUME x.sw = FALSE PROVE FALSE
      BY <2>0
    <3>2. PlainAdd(x, dur) = x
      <4>1. CASE nano
        BY <2>1, <3>1, <4>1 DEF PlainAdd
      <4>2. CASE ~nano
        <5>1. PlainAdd(x, dur) = AddSecs(x, InSecs(dur))
          BY <4>2 DEF PlainAdd, ClockUnits
        <5> QED BY <3>1, <5>1, Zenon DEF AddSecs
      <4> QED BY <4>1, <4>2
    <3> QED BY <1>2, <2>3, <3>1, <3>2, Zenon DEF Clocked
  <2>5. DtAdd(x, dur) = y
    <3>1. CASE nano
      <4>1. PlainAdd(x, dur) = AddNanos(x, dur.dv)
        BY <3>1 DEF PlainAdd
      <4> QED BY <2>1, <2>3, <2>4, <3>1, <4>1, Zenon
    <3>2. CASE ~nano
      <4>1. PlainAdd(x, dur) = AddSecs(x, InSecs(dur))
        BY <3>2 DEF PlainAdd, ClockUnits
      <4> QED BY <2>3, <3>2, <4>1, Zenon
    <3> QED BY <3>1, <3>2
  <2> HIDE DEF n, c
  <2>6. /\ SecsSinceMidnight(t) = SecsSinceMidnight(x.t) /\ t.ns = c
    BY <2>0, SMT DEF SecsSinceMidnight, Clocks
  <2> HIDE DEF t
  <2>7. /\ z \in Moments /\ Workable(z) /\ z.typ = x.typ /\ z.sw = TRUE /\ z.d = x.d
        /\ SecsSinceMidnight(z.t) = SecsSinceMidnight(x.t)
        /\ z.t.ns = IF nano THEN c ELSE x.t.ns
    <3>1. CASE nano
      BY <2>1, <2>4, <2>6, <3>1, Zenon DEF Made
    <3>2. CASE ~nano
      BY <2>4, <3>2, Zenon
    <3> QED BY <3>1, <3>2
  <2>8. secs \in Int
    BY <2>1, <2>2
  <2>9. secs = ExactSecs(x, dur)
    BY <1>2, Zenon DEF ExactSecs, n
  <2>10. z.t.ns = ExactTotal(x, dur) % NANOS_PER_SEC
    <3>1. CASE nano
      <4>1. ExactTotal(x, dur) = n
        BY <1>2, <3>1, Zenon DEF ExactTotal, n
      <4> QED BY <2>7, <3>1, <4>1, Zenon DEF c
    <3>2. CASE ~nano
      <4>1. ExactTotal(x, dur) = x.t.ns + 0
        BY <3>2, Zenon DEF ExactTotal
      <4>2. (x.t.ns + 0) % NANOS_PER_SEC = x.t.ns
        BY <2>0, NanosAssumption
      <4> QED BY <2>7, <3>2, <4>1, <4>2, Zenon
    <3> QED BY <3>1, <3>2
  <2> HIDE DEF z, secs
  <2>11. /\ y.t.ns = z.t.ns
         /\ y.typ = z.typ /\ y.sw = TRUE
         /\ z.typ = "unk" => SecsSinceMidnight(y.t) = (SecsSinceMidnight(z.t) + secs) % SECS_PER_DAY
         /\ z.typ # "unk" /\ z.d \in CrispDates /\ ConvToDaisy(z.d) \in CivilDays /\ CivilStamp(ToUnixEpoch(z) + secs)
              => ToUnixEpoch(y) = ToUnixEpoch(z) + secs
    <3>1. z.typ # "sexy"
      BY <1>2, <2>7
    <3> QED BY <2>7, <2>8, <3>1, SecsAreAdded, Zenon
  <2>12. ToUnixEpoch(z) = ToUnixEpoch(x)
    BY <1>2, <2>4, <2>7, Zenon DEF ToUnixEpoch, OnlyTP, StampOn
  <2> HIDE DEF y
  <2>13. x.typ # "unk" => x.d \in CrispDates /\ ConvToDaisy(x.d) \in CivilDays
    <3>1. x.typ # "unk" => x.typ \notin {"unk", "sexy"}
      BY <1>2
    <3> QED BY <3>1, CrispIs, Zenon
  <2>14. CASE x.typ = "unk"
    BY <2>4, <2>5, <2>7, <2>9, <2>10, <2>11, <2>14, Zenon DEF Exact, OnlyTP
  <2>15. CASE x.typ # "unk"
    <3>1. ~OnlyTP(y) /\ y.typ # "sexy"
      BY <1>2, <2>7, <2>11, <2>15, Zenon DEF OnlyTP
    <3>2. CivilStamp(ToUnixEpoch(x) + secs) => ToUnixEpoch(y) = ToUnixEpoch(x) + secs
      BY <2>7, <2>11, <2>12, <2>13, <2>15, Zenon
    <3> QED BY <2>5, <2>9, <2>10, <2>11, <3>1, <3>2, Zenon DEF Exact
  <2> QED BY <2>14, <2>15
<1> QED
  BY <1>1, <1>2

\* What clock time is added to stays of its calendar.
LEMMA AddKeepsTyp ==
  ASSUME NEW x \in Moments, Workable(x), NEW dur \in Durations, dur.unit \in ClockUnits, ~dur.tai
  PROVE  DtAdd(x, dur).typ = x.typ
<1>1. InSecs(dur) \in Int /\ dur.dv \in Int
  BY InSecsIs, Zenon
<1>2. CASE x.typ = "sexy"
  <2> DEFINE k == SexyAdd(x.sx, dur)
  <2>1. DtAdd(x, dur) = Made(x.typ, x.sw, x.d, x.t, k, x.znfxd, x.neg, x.zdiff)
    BY <1>2, MomentIsMade, SMT DEF DtAdd, Made
  <2> HIDE DEF k
  <2> DEFINE y == DtAdd(x, dur)
  <2> HIDE DEF y
  <2>2. y = Made(x.typ, x.sw, x.d, x.t, k, x.znfxd, x.neg, x.zdiff)
    BY <2>1 DEF y
  <2>3. y.typ = x.typ
    BY <2>2, Zenon DEF Made
  <2> QED BY <2>3 DEF y
<1>3. CASE x.typ # "sexy"
  <2>1. DtAdd(x, dur) = PlainAdd(x, dur)
    BY <1>3, Zenon DEF DtAdd, RealAdd
  <2>2. CASE dur.unit = "ns"
    <3> DEFINE y == Made(x.typ, x.sw, x.d, [x.t EXCEPT !.ns = (x.t.ns + dur.dv) % NANOS_PER_SEC],
                         x.sx, x.znfxd, x.neg, x.zdiff)
               n == (x.t.ns + dur.dv) \div NANOS_PER_SEC
    <3>1. PlainAdd(x, dur) = AddNanos(x, dur.dv)
      BY <2>2 DEF PlainAdd
    <3>2. /\ n \in Int /\ y \in Moments /\ Workable(y)
          /\ x.sw => AddNanos(x, dur.dv) = AddSecs(y, n)
          /\ ~x.sw => AddNanos(x, dur.dv) = x
      BY <1>1, AddNanosIs, Zenon
    <3>3. y.typ = x.typ
      BY Zenon DEF Made
    <3> HIDE DEF y, n
    <3>4. AddSecs(y, n).typ = y.typ
      BY <3>2, AddSecsIs, Zenon
    <3> QED BY <2>1, <3>1, <3>2, <3>3, <3>4, Zenon
  <2>3. CASE dur.unit # "ns"
    <3>1. PlainAdd(x, dur) = AddSecs(x, InSecs(dur))
      BY <2>3 DEF PlainAdd, ClockUnits
    <3>2. AddSecs(x, InSecs(dur)).typ = x.typ
      BY <1>1, AddSecsIs, Zenon
    <3> QED BY <2>1, <3>1, <3>2
  <2> QED BY <2>2, <2>3
<1> QED
  BY <1>2, <1>3

\* dt_dtadd(): hours, minutes, seconds and nanoseconds lead exactly that much
\* later, from any date-time, time or stamp and over however many midnights,
\* months and leap days.
THEOREM ClockTimeIsAddedExactly == ASSUME Known PROVE Spec => []AddIsExact
<1>1. IInv => AddIsExact
  <2> SUFFICES ASSUME IInv,
                      asked.kind = "add" /\ asked.arg.unit \in {"h", "m", "s", "ns"} /\ ~asked.arg.tai
                        /\ asked.from = DtFixup(asked.from) /\ CivilDate(asked.from) /\ Clocked(dt)
               PROVE  AddIsExact
    BY Zenon DEF AddIsExact
  <2> DEFINE x == asked.from
             dur == asked.arg
  <2>1. /\ x \in Moments /\ Workable(x) /\ dur \in Durations /\ dt = DtAdd(x, dur)
    BY Zenon DEF IInv, AskedIs
  <2>2. dur.unit \in ClockUnits /\ ~dur.tai /\ x = DtFixup(x) /\ CivilDate(x) /\ Clocked(DtAdd(x, dur))
    BY <2>1, Zenon DEF ClockUnits
  <2>3. Exact(x, dur, dt)
    BY <2>1, <2>2, AddIsExactly, Zenon
  <2>4. dt.typ = x.typ
    BY <2>1, <2>2, AddKeepsTyp, Zenon
  <2> QED BY <2>3, <2>4, Zenon DEF AddIsExact, Exact, ExactTotal, ExactSecs
<1> QED
  BY <1>1, Kept, PTL

\* Seconds added to what has a time.
LEMMA SecsOnIs ==
  ASSUME NEW x \in Moments, Workable(x), Base \in Int, x.typ # "unk", Clocked(x), x = DtFixup(x), CivilDate(x), NEW n \in Int
  PROVE  /\ DtAddSecs(x, n) \in Moments
         /\ DtAddSecs(x, n).typ = x.typ /\ DtAddSecs(x, n).sw = x.sw /\ DtAddSecs(x, n).neg = x.neg
         /\ x.typ = "sexy" \/ CivilStamp(ToUnixEpoch(x) + n)
              => ToUnixEpoch(DtAddSecs(x, n)) = ToUnixEpoch(x) + n
<1>0. DtAddSecs(x, n) \in Moments
  BY DtAddSecsKeeps, Zenon
<1>1. CASE x.typ = "sexy"
  <2> DEFINE k == x.sx + n
             y == DtAddSecs(x, n)
  <2>1. y = Made(x.typ, x.sw, x.d, x.t, k, x.znfxd, x.neg, x.zdiff)
    BY <1>1, MomentIsMade, SMT DEF DtAddSecs, Made
  <2> HIDE DEF y
  <2>2. y.typ = x.typ /\ y.sw = x.sw /\ y.neg = x.neg /\ y.sx = k
    BY <2>1, Zenon DEF Made
  <2>3. ToUnixEpoch(y) = k /\ ToUnixEpoch(x) = x.sx
    BY <1>1, <2>2, Zenon DEF ToUnixEpoch
  <2> QED BY <1>0, <2>2, <2>3, Zenon DEF y
<1>2. CASE x.typ # "sexy"
  <2>1. x.sw = TRUE
    <3>1. x.sw \in BOOLEAN
      BY MomentsAre, Zenon
    <3> QED BY <1>2, <3>1, Zenon DEF Clocked
  <2>2. DtAddSecs(x, n) = AddSecs(x, n)
    BY <1>2, Zenon DEF DtAddSecs
  <2> DEFINE y == AddSecs(x, n)
  <2>3. /\ y.typ = x.typ /\ y.sw = TRUE /\ y.neg = x.neg
        /\ x.typ # "unk" /\ x.d \in CrispDates /\ ConvToDaisy(x.d) \in CivilDays /\ CivilStamp(ToUnixEpoch(x) + n)
             => ToUnixEpoch(y) = ToUnixEpoch(x) + n
    BY <1>2, <2>1, SecsAreAdded, Zenon
  <2> HIDE DEF y
  <2>4. x.d \in CrispDates /\ ConvToDaisy(x.d) \in CivilDays
    <3>1. x.typ \notin {"unk", "sexy"}
      BY <1>2
    <3> QED BY <3>1, CrispIs, Zenon
  <2> QED BY <1>0, <1>2, <2>1, <2>2, <2>3, <2>4, Zenon DEF y
<1> QED
  BY <1>1, <1>2

\* ... and to anything else leave it what it is.
LEMMA AddSecsKeep ==
  ASSUME NEW x \in Moments, Workable(x), NEW n \in Int
  PROVE  DtAddSecs(x, n).typ = x.typ /\ DtAddSecs(x, n).sw = x.sw
<1>1. CASE x.typ = "sexy"
  <2> DEFINE k == x.sx + n
             y == DtAddSecs(x, n)
  <2>1. y = Made(x.typ, x.sw, x.d, x.t, k, x.znfxd, x.neg, x.zdiff)
    BY <1>1, MomentIsMade, SMT DEF DtAddSecs, Made
  <2> HIDE DEF y
  <2>2. y.typ = x.typ /\ y.sw = x.sw
    BY <2>1, Zenon DEF Made
  <2> QED BY <2>2 DEF y
<1>2. CASE x.typ # "sexy"
  BY <1>2, AddSecsIs, Zenon DEF DtAddSecs
<1> QED
  BY <1>1, <1>2

\* The quarters of an hour that 6 bits have room for.
LEMMA QuartersAre ==
  ASSUME NEW o \in Int, Mag(o) < 64 * ZDIFF_RES
  PROVE  LET z == (Mag(o) \div ZDIFF_RES) % 64
         IN /\ o < 0 => Mag(o - (-1) * z * ZDIFF_RES) < ZDIFF_RES
            /\ ~(o < 0) => Mag(o - 1 * z * ZDIFF_RES) < ZDIFF_RES
<1> DEFINE m == Mag(o)
           z == m \div 900
<1>1. m \in Int /\ m >= 0 /\ m < 57600 /\ (o < 0 => o = -m) /\ (~(o < 0) => o = m)
  BY SMT DEF Mag, ZDIFF_RES
<1> HIDE DEF m
<1>2. z \in Int /\ 0 <= z /\ z < 64 /\ 900 * z <= m /\ m < 900 * z + 900
  BY <1>1, SMT
<1>3. z % 64 = z
  BY <1>2
<1> HIDE DEF z
<1>4. o < 0 => Mag(o - (-1) * z * 900) < 900
  BY <1>1, <1>2, SMT DEF Mag
<1>5. ~(o < 0) => Mag(o - 1 * z * 900) < 900
  BY <1>1, <1>2, SMT DEF Mag
<1> QED
  BY <1>3, <1>4, <1>5 DEF z, m, ZDIFF_RES

\* dtz_enrichz(): whatever zone is taken on, what is shown is the local time of
\* the moment, and how far it is from UTC to a quarter of an hour.
THEOREM LocalTimeIsRight == ASSUME Known PROVE Spec => []LocalTimeIsShown
<1>1. IInv => LocalTimeIsShown
  <2> SUFFICES ASSUME IInv,
                      asked.kind = "enrich" /\ Clocked(dt) /\ ~OnlyTP(dt) /\ Plain(asked.from) /\ CivilDate(asked.from)
               PROVE  LocalTimeIsShown
    BY Zenon DEF LocalTimeIsShown
  <2> DEFINE x == asked.from
             z == asked.arg
             was == ToUnixEpoch(x)
             o == Offs(z, was)
             y == DtAddSecs(x, o)
             Shown(v) == /\ v.typ = "sexy" \/ CivilStamp(was + o) => ToUnixEpoch(v) = was + o
                         /\ ~x.neg /\ Mag(o) < 64 * ZDIFF_RES => Mag(o - ZdiffSec(v)) < ZDIFF_RES
  <2>0. SUFFICES Shown(dt)
    BY Zenon DEF LocalTimeIsShown
  <2>1. /\ x \in Moments /\ Workable(x) /\ z \in Zones /\ dt = DtzEnrichz(x, z) /\ dt \in Moments
        /\ Base \in Int /\ \A n \in Int : Offs(z, n) \in Int
    BY Zenon DEF IInv, AskedIs, Known
  <2>2. x = DtFixup(x) /\ CivilDate(x)
    BY Zenon DEF Plain
  <2>3. was \in Int
    BY <2>1, EpochsAre, Zenon
  <2>4. o \in Int
    <3> HIDE DEF was
    <3> QED BY <2>1, <2>3
  <2>5. /\ ~OnlyDP(x) /\ o = 0 => dt = Made(x.typ, x.sw, x.d, x.t, x.sx, x.znfxd, FALSE, 0)
        /\ ~OnlyDP(x) /\ o # 0 => dt = ZoneBits(y, o, o < 0)
        /\ OnlyDP(x) => dt = x
    <3>1. OnlyDP(x) => dt = x
      BY <2>1, Zenon DEF DtzEnrichz
    <3> QED BY <2>1, <3>1, EnrichKeeps, Zenon
  <2>6. ~OnlyDP(x)
    BY <2>5, Zenon DEF OnlyDP, Clocked
  <2>7. /\ x.sw \in BOOLEAN /\ x.neg \in BOOLEAN
        /\ x.typ = "unk" => x.sw = TRUE
    BY <2>1, MomentsAre, Zenon
  <2> HIDE DEF x, z
  <2>8. CASE o = 0
    <3> DEFINE v == Made(x.typ, x.sw, x.d, x.t, x.sx, x.znfxd, FALSE, 0)
    <3>1. dt = v
      BY <2>5, <2>6, <2>8, Zenon
    <3>2. v.typ = x.typ /\ v.sw = x.sw /\ v.d = x.d /\ v.t = x.t /\ v.sx = x.sx /\ v.zdiff = 0 /\ v.neg = FALSE
      BY Zenon DEF Made
    <3> HIDE DEF v
    <3>3. ToUnixEpoch(v) = was
      BY <3>2, Zenon DEF ToUnixEpoch, OnlyTP
    <3>4. ZdiffSec(v) = 0
      BY <3>2 DEF ZdiffSec, ZDIFF_RES
    <3>5. Mag(o - 0) < ZDIFF_RES
      BY <2>8 DEF Mag, ZDIFF_RES
    <3>6. was + o = was
      BY <2>3, <2>8
    <3> QED BY <3>1, <3>3, <3>4, <3>5, <3>6
  <2>9. CASE o # 0
    <3> DEFINE zd == (Mag(o) \div ZDIFF_RES) % 64
               v == Made(y.typ, y.sw, y.d, y.t, y.sx, y.znfxd, y.neg \/ (o < 0), zd)
    <3>0. y \in Moments
      BY <2>1, <2>4, DtAddSecsKeeps, Zenon
    <3>1. dt = v
      <4>1. (o < 0) \in BOOLEAN
        OBVIOUS
      <4>2. ZoneBits(y, o, o < 0) = v
        BY <2>4, <3>0, <4>1, ZoneBitsKeep, Zenon
      <4> QED BY <2>5, <2>6, <2>9, <4>2, Zenon
    <3>2. v.typ = y.typ /\ v.sw = y.sw /\ v.d = y.d /\ v.t = y.t /\ v.sx = y.sx /\ v.zdiff = zd
          /\ v.neg = (y.neg \/ (o < 0))
      BY Zenon DEF Made
    <3> HIDE DEF v, y, o, zd
    <3>3. ToUnixEpoch(v) = ToUnixEpoch(y)
      BY <3>2, Zenon DEF ToUnixEpoch, OnlyTP
    <3>4. y.typ = x.typ /\ y.sw = x.sw /\ y.neg = x.neg
          /\ (x.typ = "sexy" \/ CivilStamp(was + o) => ToUnixEpoch(y) = was + o)
      <4>1. y.typ = x.typ /\ y.sw = x.sw
        BY <2>1, <2>4, AddSecsKeep, Zenon DEF y
      <4>2. x.typ # "unk" /\ Clocked(x)
        BY <2>7, <3>1, <3>2, <4>1, Zenon DEF OnlyTP, Clocked
      <4> QED BY <2>1, <2>2, <2>4, <4>2, SecsOnIs, Zenon DEF y
    <3>5. v.typ = "sexy" \/ CivilStamp(was + o) => ToUnixEpoch(v) = was + o
      BY <3>2, <3>3, <3>4, Zenon
    <3>6. ASSUME ~x.neg, Mag(o) < 64 * ZDIFF_RES PROVE Mag(o - ZdiffSec(v)) < ZDIFF_RES
      <4>1. v.neg = (o < 0)
        <5>1. y.neg = FALSE
          BY <2>7, <3>4, <3>6, Zenon
        <5>2. (FALSE \/ (o < 0)) = (o < 0)
          OBVIOUS
        <5>3. v.neg = (FALSE \/ (o < 0))
          BY <3>2, <5>1, Zenon
        <5> QED BY <5>2, <5>3, Zenon
      <4>2. /\ o < 0 => Mag(o - (-1) * zd * ZDIFF_RES) < ZDIFF_RES
            /\ ~(o < 0) => Mag(o - 1 * zd * ZDIFF_RES) < ZDIFF_RES
        BY <2>4, <3>6, QuartersAre, Zenon DEF zd
      <4>3. ZdiffSec(v) = (IF o < 0 THEN -1 ELSE 1) * zd * ZDIFF_RES
        BY <3>2, <4>1, Zenon DEF ZdiffSec
      <4>4. CASE o < 0
        BY <4>2, <4>3, <4>4
      <4>5. CASE ~(o < 0)
        BY <4>2, <4>3, <4>5
      <4> QED BY <4>4, <4>5
    <3> QED BY <3>1, <3>5, <3>6, Zenon
  <2> QED BY <2>8, <2>9
<1> QED
  BY <1>1, Kept, PTL

-----------------------------------------------------------------------------
(* Zones are undone. *)

\* A zone with a table: an offset on either side of every transition, and two
\* transitions further apart than twice any offset, as UtcRight of Tzraw has it.
Tabled(z) ==
  /\ z.cz \notin {"tai", "gps"}
  /\ z.trs \in Seq(Int) /\ z.ofs \in Seq(Int) /\ Len(z.ofs) = Len(z.trs) + 1
  /\ \A i, j \in DOMAIN z.trs, k \in DOMAIN z.ofs :
       i < j => z.trs[j] - z.trs[i] > 2 * Mag(z.ofs[k])

\* The offset is one of the table.
LEMMA OffsIs ==
  ASSUME NEW z, Tabled(z), NEW n
  PROVE  Offs(z, n) \in Int /\ \E k \in DOMAIN z.ofs : Offs(z, n) = z.ofs[k]
<1> DEFINE S == {i \in DOMAIN z.trs : z.trs[i] <= n}
<1>1. Offs(z, n) = z.ofs[Cardinality(S) + 1]
  BY DEF Offs, Tabled
<1>2. Len(z.trs) \in Nat /\ DOMAIN z.trs = 1 .. Len(z.trs)
  BY DEF Tabled
<1>3. IsFiniteSet(1 .. Len(z.trs)) /\ Cardinality(1 .. Len(z.trs)) = Len(z.trs)
  <2>1. Cardinality(1 .. Len(z.trs)) = IF 1 > Len(z.trs) THEN 0 ELSE Len(z.trs) - 1 + 1
    BY <1>2, FS_Interval
  <2>2. IsFiniteSet(1 .. Len(z.trs))
    BY <1>2, FS_Interval
  <2> QED BY <1>2, <2>1, <2>2
<1>4. S \subseteq 1 .. Len(z.trs)
  BY <1>2
<1> HIDE DEF S
<1>5. Cardinality(S) \in Nat /\ Cardinality(S) <= Len(z.trs)
  <2>1. IsFiniteSet(S) /\ Cardinality(S) <= Cardinality(1 .. Len(z.trs))
    BY <1>3, <1>4, FS_Subset, Zenon
  <2>2. Cardinality(S) \in Nat
    BY <2>1, FS_CardinalityType, Zenon
  <2> QED BY <1>3, <2>1, <2>2
<1>6. Cardinality(S) + 1 \in DOMAIN z.ofs
  BY <1>2, <1>5 DEF Tabled
<1>7. z.ofs[Cardinality(S) + 1] \in Int
  BY <1>6 DEF Tabled
<1> QED BY <1>1, <1>6, <1>7 DEF S

\* Where the offset is another one the clocks were changed in between.
LEMMA ClocksChange ==
  ASSUME NEW z, Tabled(z), NEW p \in Int, NEW q \in Int, p < q, Offs(z, p) # Offs(z, q)
  PROVE  \E i \in DOMAIN z.trs : z.trs[i] \in Int /\ p < z.trs[i] /\ z.trs[i] <= q
<1> SUFFICES ASSUME \A i \in DOMAIN z.trs : ~(p < z.trs[i] /\ z.trs[i] <= q)
             PROVE  FALSE
  BY DEF Tabled
<1>1. {i \in DOMAIN z.trs : z.trs[i] <= p} = {i \in DOMAIN z.trs : z.trs[i] <= q}
  <2>1. \A i \in DOMAIN z.trs : z.trs[i] \in Int
    BY DEF Tabled
  <2>2. \A i \in DOMAIN z.trs : z.trs[i] <= p <=> z.trs[i] <= q
    BY <2>1
  <2> QED BY <2>2
<1>2. Offs(z, p) = Offs(z, q)
  BY <1>1, Zenon DEF Offs, Tabled
<1> QED BY <1>2

\* Two changes are further apart than any two offsets.
LEMMA ChangesAreApart ==
  ASSUME NEW z, Tabled(z), NEW p \in Int, NEW q \in Int, NEW s \in Int, p < q, q < s,
         Offs(z, p) # Offs(z, q), Offs(z, q) # Offs(z, s), NEW u \in Int, NEW v \in Int
  PROVE  s - p > Mag(Offs(z, u)) + Mag(Offs(z, v))
<1>1. PICK i \in DOMAIN z.trs : z.trs[i] \in Int /\ p < z.trs[i] /\ z.trs[i] <= q
  BY ClocksChange
<1>2. PICK j \in DOMAIN z.trs : z.trs[j] \in Int /\ q < z.trs[j] /\ z.trs[j] <= s
  BY ClocksChange
<1>3. PICK k \in DOMAIN z.ofs : Offs(z, u) = z.ofs[k]
  BY OffsIs
<1>4. PICK l \in DOMAIN z.ofs : Offs(z, v) = z.ofs[l]
  BY OffsIs
<1>5. Mag(Offs(z, u)) \in Int /\ Mag(Offs(z, v)) \in Int
  <2>1. Offs(z, u) \in Int /\ Offs(z, v) \in Int
    BY OffsIs, Zenon
  <2> QED BY <2>1 DEF Mag
<1>6. i \in Int /\ j \in Int /\ i # j
  <2>1. DOMAIN z.trs \subseteq Int
    BY DEF Tabled
  <2>2. z.trs[i] # z.trs[j]
    BY <1>1, <1>2
  <2> QED BY <2>1, <2>2
<1>7. i < j
  <2> SUFFICES ASSUME j < i PROVE FALSE
    BY <1>6
  <2>1. z.trs[i] - z.trs[j] > 2 * Mag(z.ofs[k])
    BY DEF Tabled
  <2>2. Mag(z.ofs[k]) >= 0
    <3>1. z.ofs[k] \in Int
      BY <1>3, OffsIs, Zenon
    <3> QED BY <3>1 DEF Mag
  <2> QED BY <1>1, <1>2, <1>3, <1>5, <2>1, <2>2
<1>8. z.trs[j] - z.trs[i] > 2 * Mag(z.ofs[k]) /\ z.trs[j] - z.trs[i] > 2 * Mag(z.ofs[l])
  BY <1>7 DEF Tabled
<1> QED BY <1>1, <1>2, <1>3, <1>4, <1>5, <1>8

\* zif_utc_time(): the offset at the local time leads to where the right one is
\* seen.
LEMMA SecondLookIsRight ==
  ASSUME NEW z, Tabled(z), NEW a \in Int, NEW n \in Int, n + Offs(z, n) = a
  PROVE  LET is == ZifUtcTime(z, a) IN is \in Int /\ is + Offs(z, is) = a
<1> DEFINE o1 == Offs(z, a)
           o2 == Offs(z, a - o1)
           o3 == Offs(z, n)
<1>1. o1 \in Int /\ o2 \in Int /\ o3 \in Int /\ a - o1 \in Int
  <2>1. o1 \in Int /\ o2 \in Int /\ o3 \in Int
    BY OffsIs, Zenon
  <2> QED BY <2>1
<1>2. CASE o1 = 0
  BY <1>1, <1>2 DEF ZifUtcTime
<1>3. CASE o1 # 0
  <2>1. ZifUtcTime(z, a) = a - o2
    BY <1>3 DEF ZifUtcTime
  <2>2. CASE o2 = o1
    <3>1. a - o2 = a - o1
      BY <2>2
    <3>2. Offs(z, a - o2) = o2
      BY <3>1
    <3> QED BY <1>1, <2>1, <3>2
  <2>3. CASE o2 = o3
    <3>1. a - o2 = n
      BY <1>1, <2>3
    <3> QED BY <1>1, <2>1, <3>1
  <2>4. CASE o1 = o3
    <3>1. a - o1 = n
      BY <1>1, <2>4
    <3>2. o2 = o3
      BY <3>1
    <3> QED BY <2>3, <3>2
  <2>5. CASE o1 # o2 /\ o2 # o3 /\ o1 # o3
    <3> DEFINE b == a - o1
    <3>1. a \in Int /\ b \in Int /\ n \in Int /\ o1 = Offs(z, a) /\ o2 = Offs(z, b) /\ o3 = Offs(z, n)
          /\ b = a - o1 /\ n = a - o3
      BY <1>1
    <3>2. Mag(o1) >= o1 /\ Mag(o1) >= -o1 /\ Mag(o3) >= o3 /\ Mag(o3) >= -o3 /\ Mag(o1) \in Int /\ Mag(o3) \in Int
      BY <1>1 DEF Mag
    <3> HIDE DEF b, o1, o2, o3
    <3>3. \A p, q, s \in {a, b, n} :
            p < q /\ q < s /\ Offs(z, p) # Offs(z, q) /\ Offs(z, q) # Offs(z, s) => s - p > Mag(o1) + Mag(o3)
      BY <3>1, ChangesAreApart
    <3>4. Offs(z, a) # Offs(z, b) /\ Offs(z, b) # Offs(z, n) /\ Offs(z, a) # Offs(z, n) /\ a # b /\ b # n /\ a # n
      BY <2>5, <3>1
    <3>5. \A p, q, s \in {a, b, n} : ~(p < q /\ q < s)
      <4> SUFFICES ASSUME NEW p \in {a, b, n}, NEW q \in {a, b, n}, NEW s \in {a, b, n}, p < q, q < s
                   PROVE  FALSE
        OBVIOUS
      <4>1. s - p > Mag(o1) + Mag(o3)
        <5>1. p # q /\ q # s
          BY <3>1
        <5>2. Offs(z, p) # Offs(z, q) /\ Offs(z, q) # Offs(z, s)
          BY <3>4, <5>1
        <5> QED BY <3>3, <5>2
      <4>2. s - p \in {0, o1, -o1, o3, -o3, o1 - o3, o3 - o1}
        BY <1>1, <3>1
      <4> QED BY <1>1, <3>1, <3>2, <4>1, <4>2
    <3> QED BY <3>1, <3>4, <3>5
  <2> QED BY <2>2, <2>3, <2>4, <2>5
<1> QED BY <1>2, <1>3

\* A local time that some moment has is led to one.
LEMMA LocalTimeIsUndone ==
  ASSUME NEW x \in Moments, Workable(x), Base \in Int, NEW z, Tabled(z), x.znfxd = FALSE, x = DtFixup(x), CivilDate(x),
         NEW n \in Int, n + Offs(z, n) = ToUnixEpoch(x),
         NEW u, u = DtzForgetz(x, z), Clocked(u), ~OnlyTP(u),
         u.typ = "sexy" \/ CivilStamp(ZifUtcTime(z, ToUnixEpoch(x)))
  PROVE  ToUnixEpoch(u) + Offs(z, ToUnixEpoch(u)) = ToUnixEpoch(x)
<1> DEFINE was == ToUnixEpoch(x)
           utc == ZifUtcTime(z, was)
           zd == utc - was
           y == DtAddSecs(x, zd)
           w == [y EXCEPT !.znfxd = TRUE]
<1>1. was \in Int
  BY EpochsAre, Zenon
<1>2. \A m \in Int : Offs(z, m) \in Int
  BY OffsIs, Zenon
<1>3. utc \in Int /\ utc + Offs(z, utc) = was
  <2> HIDE DEF was
  <2> QED BY <1>1, SecondLookIsRight, Zenon DEF was
<1>4. /\ zd \in Int /\ w \in Moments
      /\ u = IF OnlyDP(x) \/ x.znfxd THEN x ELSE IF zd = 0 THEN x ELSE ZoneBits(w, zd, zd > 0)
  BY <1>2, ForgetKeeps, Zenon
<1>5. ~OnlyDP(x)
  BY <1>4, Zenon DEF OnlyDP, Clocked
<1>6. x.sw \in BOOLEAN /\ (x.typ = "unk" => x.sw = TRUE)
  BY MomentsAre, Zenon
<1> SUFFICES ToUnixEpoch(u) = utc
  BY <1>3, Zenon
<1>7. CASE zd = 0
  <2>1. u = x
    BY <1>4, <1>5, <1>7, Zenon
  <2>2. was = utc
    <3> HIDE DEF was, utc
    <3> QED BY <1>1, <1>3, <1>7
  <2> QED BY <2>1, <2>2
<1>8. CASE zd # 0
  <2> DEFINE q == (Mag(zd) \div ZDIFF_RES) % 64
             v == Made(w.typ, w.sw, w.d, w.t, w.sx, w.znfxd, w.neg \/ (zd > 0), q)
  <2>1. u = v
    <3>1. (zd > 0) \in BOOLEAN
      OBVIOUS
    <3>2. ZoneBits(w, zd, zd > 0) = v
      <4> HIDE DEF zd, w
      <4> QED BY <1>4, <3>1, ZoneBitsKeep, Zenon
    <3> HIDE DEF v, w, zd
    <3> QED BY <1>4, <1>5, <1>8, <3>2, Zenon
  <2>2. y \in Moments
    BY <1>4, DtAddSecsKeeps, Zenon
  <2>3. w = Made(y.typ, y.sw, y.d, y.t, y.sx, TRUE, y.neg, y.zdiff)
    <3> HIDE DEF y
    <3> QED BY <2>2, OverwrittenIs, Zenon
  <2> HIDE DEF w, y
  <2>4. w.typ = y.typ /\ w.sw = y.sw /\ w.d = y.d /\ w.t = y.t /\ w.sx = y.sx
    BY <2>3, Zenon DEF Made
  <2>5. u.typ = y.typ /\ u.sw = y.sw /\ u.d = y.d /\ u.t = y.t /\ u.sx = y.sx
    <3> HIDE DEF zd, q
    <3>1. v.typ = w.typ /\ v.sw = w.sw /\ v.d = w.d /\ v.t = w.t /\ v.sx = w.sx
      BY Zenon DEF Made
    <3> QED BY <2>1, <2>4, <3>1, Zenon
  <2>6. ToUnixEpoch(u) = ToUnixEpoch(y)
    BY <2>5, Zenon DEF ToUnixEpoch, OnlyTP
  <2>7. y.typ = x.typ /\ y.sw = x.sw
    <3> HIDE DEF zd
    <3> QED BY <1>4, AddSecsKeep, Zenon DEF y
  <2>8. x.typ # "unk" /\ Clocked(x)
    BY <1>6, <2>5, <2>7, Zenon DEF OnlyTP, Clocked
  <2>9. x.typ = "sexy" \/ CivilStamp(was + zd) => ToUnixEpoch(y) = was + zd
    <3> HIDE DEF zd
    <3> QED BY <1>4, <2>8, SecsOnIs, Zenon DEF y
  <2>10. was + zd = utc
    <3> HIDE DEF was, utc
    <3> QED BY <1>1, <1>3
  <2> QED BY <2>5, <2>6, <2>7, <2>9, <2>10, Zenon
<1> QED BY <1>7, <1>8

\* The zones have tables like that.
AllTabled == \A z \in Zones : Tabled(z)

\* dtz_forgetz(): whatever zone is undone, its clock changes far enough apart,
\* a local time that some moment has leads to such a moment, in the hours around
\* a change too, of which some have two moments and some none.
THEOREM ZonesAreLeft == ASSUME Known, AllTabled PROVE Spec => []ZonesAreUndone
<1>1. IInv => ZonesAreUndone
  <2> SUFFICES ASSUME IInv,
                      asked.kind = "forget" /\ ~asked.from.znfxd /\ Clocked(dt) /\ ~OnlyTP(dt) /\ Plain(asked.from)
                        /\ CivilDate(asked.from)
                        /\ (dt.typ = "sexy" \/ CivilStamp(ZifUtcTime(asked.arg, ToUnixEpoch(asked.from))))
               PROVE  ZonesAreUndone
    BY DEF ZonesAreUndone
  <2> DEFINE x == asked.from
             z == asked.arg
             was == ToUnixEpoch(x)
             near == {was - Offs(z, was + k * 43200) : k \in -2 .. 2}
  <2>1. /\ x \in Moments /\ Workable(x) /\ z \in Zones /\ dt = DtzForgetz(x, z)
        /\ Base \in Int /\ \A m \in Int : Offs(z, m) \in Int
    BY Zenon DEF IInv, AskedIs, Known
  <2>2. x = DtFixup(x) /\ CivilDate(x) /\ Tabled(z)
    BY <2>1, Zenon DEF Plain, AllTabled
  <2>3. x.znfxd = FALSE
    <3>1. x.znfxd \in BOOLEAN
      BY <2>1, MomentsAre, Zenon
    <3> QED BY <3>1, Zenon
  <2>4. was \in Int
    BY <2>1, <2>2, EpochsAre, Zenon
  <2>5. Clocked(dt) /\ ~OnlyTP(dt) /\ (dt.typ = "sexy" \/ CivilStamp(ZifUtcTime(z, was)))
    BY Zenon
  <2>6. ASSUME NEW n \in Int, n + Offs(z, n) = was
        PROVE  ToUnixEpoch(dt) + Offs(z, ToUnixEpoch(dt)) = was
    BY <2>1, <2>2, <2>3, <2>5, <2>6, LocalTimeIsUndone, Zenon
  <2>7. \A n \in near : n \in Int
    <3> HIDE DEF x, z, was
    <3>1. ASSUME NEW k \in -2 .. 2 PROVE was - Offs(z, was + k * 43200) \in Int
      <4>1. was + k * 43200 \in Int
        BY <2>4
      <4> QED BY <2>1, <2>4, <4>1
    <3> QED BY <3>1
  <2>8. (\E n \in near : n + Offs(z, n) = was) => ToUnixEpoch(dt) + Offs(z, ToUnixEpoch(dt)) = was
    <3> HIDE DEF x, z, was, near
    <3> QED BY <2>6, <2>7
  <2> QED BY <2>8 DEF ZonesAreUndone
<1> QED
  BY <1>1, Kept, PTL

-----------------------------------------------------------------------------
(* The order of moments. *)

\* Of sequences of four numbers the first that differ tell.
LEMMA LexicalOf4 ==
  ASSUME NEW s \in [1 .. 4 -> Int], NEW t \in [1 .. 4 -> Int]
  PROVE  /\ s[1] # t[1] => Lexical(s, t) = Sgn(s[1] - t[1])
         /\ s[1] = t[1] /\ s[2] # t[2] => Lexical(s, t) = Sgn(s[2] - t[2])
         /\ s[1] = t[1] /\ s[2] = t[2] /\ s[3] # t[3] => Lexical(s, t) = Sgn(s[3] - t[3])
         /\ s[1] = t[1] /\ s[2] = t[2] /\ s[3] = t[3] => Lexical(s, t) = Sgn(s[4] - t[4])
<1>1. \A i \in 1 .. 4 : s[i] # t[i] /\ (\A k \in 1 .. i - 1 : s[k] = t[k]) => Lexical(s, t) = Sgn(s[i] - t[i])
  BY LexicalAt
<1>2. CASE s[1] = t[1] /\ s[2] = t[2] /\ s[3] = t[3] /\ s[4] = t[4]
  <2>1. s = t
    BY <1>2
  <2>2. Sgn(s[4] - t[4]) = 0
    BY <1>2, SMT DEF Sgn, One
  <2> QED BY <1>2, <2>1, <2>2, LexicalSame
<1>3. CASE s[1] # t[1]
  BY <1>1, <1>3
<1>4. CASE s[1] = t[1] /\ s[2] # t[2]
  BY <1>1, <1>4
<1>5. CASE s[1] = t[1] /\ s[2] = t[2] /\ s[3] # t[3]
  BY <1>1, <1>5
<1>6. CASE s[1] = t[1] /\ s[2] = t[2] /\ s[3] = t[3] /\ s[4] # t[4]
  BY <1>1, <1>6
<1> QED
  BY <1>2, <1>3, <1>4, <1>5, <1>6

\* Times of the day are in the order of their seconds and fractions.
LEMMA TimeCmpIs ==
  ASSUME NEW a \in Clocks, NEW b \in Clocks, a.s < 60, b.s < 60
  PROVE  /\ SecsSinceMidnight(a) # SecsSinceMidnight(b)
              => TimeCmp(a, b) = Sgn(SecsSinceMidnight(a) - SecsSinceMidnight(b))
         /\ SecsSinceMidnight(a) = SecsSinceMidnight(b) => TimeCmp(a, b) = Sgn(a.ns - b.ns)
<1>1. /\ a.h \in Int /\ a.m \in Int /\ 0 <= a.m /\ a.m < 60 /\ a.s \in Int /\ 0 <= a.s /\ a.ns \in Int
      /\ b.h \in Int /\ b.m \in Int /\ 0 <= b.m /\ b.m < 60 /\ b.s \in Int /\ 0 <= b.s /\ b.ns \in Int
      /\ SecsSinceMidnight(a) = 3600 * a.h + 60 * a.m + a.s
      /\ SecsSinceMidnight(b) = 3600 * b.h + 60 * b.m + b.s
  BY ClocksAre
<1>9. a.h \in Int /\ a.m \in Int /\ a.s \in Int /\ b.h \in Int /\ b.m \in Int /\ b.s \in Int
  BY ClocksAre
<1> DEFINE s == <<a.h, a.m, a.s, a.ns>>
           t == <<b.h, b.m, b.s, b.ns>>
           x == SecsSinceMidnight(a)
           y == SecsSinceMidnight(b)
<1>2. /\ s \in [1 .. 4 -> Int] /\ s[1] = a.h /\ s[2] = a.m /\ s[3] = a.s /\ s[4] = a.ns
      /\ t \in [1 .. 4 -> Int] /\ t[1] = b.h /\ t[2] = b.m /\ t[3] = b.s /\ t[4] = b.ns
  BY <1>1
<1>3. TimeCmp(a, b) = Lexical(s, t)
  BY DEF TimeCmp
<1> HIDE DEF s, t
<1>4. /\ a.h # b.h => TimeCmp(a, b) = Sgn(a.h - b.h)
      /\ a.h = b.h /\ a.m # b.m => TimeCmp(a, b) = Sgn(a.m - b.m)
      /\ a.h = b.h /\ a.m = b.m /\ a.s # b.s => TimeCmp(a, b) = Sgn(a.s - b.s)
      /\ a.h = b.h /\ a.m = b.m /\ a.s = b.s => TimeCmp(a, b) = Sgn(a.ns - b.ns)
  BY <1>2, <1>3, LexicalOf4, Zenon
<1> DEFINE less == a.h < b.h \/ (a.h = b.h /\ (a.m < b.m \/ (a.m = b.m /\ a.s < b.s)))
           more == a.h > b.h \/ (a.h = b.h /\ (a.m > b.m \/ (a.m = b.m /\ a.s > b.s)))
           same == a.h = b.h /\ a.m = b.m /\ a.s = b.s
<1>5. /\ x \in Int /\ y \in Int
      /\ less \/ more \/ same
      /\ less => x < y
      /\ more => y < x
      /\ same => x = y
  <2>1. ASSUME NEW h \in Int, NEW m \in Int, NEW c \in Int, NEW i \in Int, NEW n \in Int, NEW e \in Int,
               0 <= m, m < 60, 0 <= c, c < 60, 0 <= n, n < 60, 0 <= e, e < 60
        PROVE  /\ 3600 * h + 60 * m + c \in Int /\ 3600 * i + 60 * n + e \in Int
               /\ h < i \/ (h = i /\ (m < n \/ (m = n /\ c < e)))
                    => 3600 * h + 60 * m + c < 3600 * i + 60 * n + e
    BY <2>1, SMT
  <2>2. x = 3600 * a.h + 60 * a.m + a.s /\ y = 3600 * b.h + 60 * b.m + b.s
    BY <1>1
  <2> HIDE DEF x, y
  <2>3. x \in Int /\ y \in Int /\ (less => x < y)
    BY <1>1, <2>1, <2>2
  <2>4. more => y < x
    BY <1>1, <2>1, <2>2
  <2>5. same => x = y
    BY <2>2
  <2>6. less \/ more \/ same
    <3>1. a.h < b.h \/ a.h > b.h \/ a.h = b.h
      BY <1>9
    <3>2. a.m < b.m \/ a.m > b.m \/ a.m = b.m
      BY <1>9
    <3>3. a.s < b.s \/ a.s > b.s \/ a.s = b.s
      BY <1>9
    <3> QED BY <3>1, <3>2, <3>3, Zenon
  <2> QED BY <2>3, <2>4, <2>5, <2>6
<1> HIDE DEF x, y
<1>6. CASE less
  <2>1. TimeCmp(a, b) = -1
    <3>1. \A p, q \in Int : p < q => p # q /\ Sgn(p - q) = -1
      BY SgnIs
    <3>2. a.h < b.h => a.h # b.h /\ Sgn(a.h - b.h) = -1
      BY <1>9, <3>1, Zenon
    <3>3. a.m < b.m => a.m # b.m /\ Sgn(a.m - b.m) = -1
      BY <1>9, <3>1, Zenon
    <3>4. a.s < b.s => a.s # b.s /\ Sgn(a.s - b.s) = -1
      BY <1>9, <3>1, Zenon
    <3> QED BY <1>4, <1>6, <3>2, <3>3, <3>4, Zenon
  <2>2. x < y /\ Sgn(x - y) = -1
    BY <1>5, <1>6, SgnIs
  <2> QED BY <1>5, <2>1, <2>2 DEF x, y
<1>7. CASE more
  <2>1. TimeCmp(a, b) = 1
    <3>1. \A p, q \in Int : p > q => p # q /\ Sgn(p - q) = 1
      BY SgnIs
    <3>2. a.h > b.h => a.h # b.h /\ Sgn(a.h - b.h) = 1
      BY <1>9, <3>1, Zenon
    <3>3. a.m > b.m => a.m # b.m /\ Sgn(a.m - b.m) = 1
      BY <1>9, <3>1, Zenon
    <3>4. a.s > b.s => a.s # b.s /\ Sgn(a.s - b.s) = 1
      BY <1>9, <3>1, Zenon
    <3> QED BY <1>4, <1>7, <3>2, <3>3, <3>4, Zenon
  <2>2. y < x /\ Sgn(x - y) = 1
    BY <1>5, <1>7, SgnIs
  <2> QED BY <1>5, <2>1, <2>2 DEF x, y
<1>8. CASE same
  BY <1>4, <1>5, <1>8 DEF x, y
<1> QED
  BY <1>5, <1>6, <1>7, <1>8

\* The year there is none of has no days.
LEMMA NaughtIsNoDay == ConvToDaisy(Naught("ymd")) \notin CivilDays
<1> DEFINE d == Naught("ymd")
<1>1. d.typ = "ymd" /\ d.y = 0 /\ d.m = 0 /\ d.d = 0
  BY DEF Naught, Ymd, Y12
<1>2. ConvToDaisy(d) = YmdToDaisy(d)
  BY <1>1, SMT DEF ConvToDaisy, Numbers
<1> HIDE DEF d
<1>3. YmdToDaisy(d) < 0 /\ YmdToDaisy(d) \in Int
  BY <1>1, SMT DEF YmdToDaisy, One
<1> QED
  BY <1>2, <1>3 DEF CivilDays, d

\* Dates are in the order of their days.
LEMMA DatesAreOrdered ==
  ASSUME NEW a \in CrispDates, NEW b \in CrispDates, a.typ \in {"ymd", "daisy"}, b.typ = a.typ,
         ConvToDaisy(a) \in CivilDays, ConvToDaisy(b) \in CivilDays
  PROVE  DCmp(a, b) = Sgn(ConvToDaisy(a) - ConvToDaisy(b))
<1>1. CASE a.typ = "ymd"
  <2>1. a \in Ymds /\ b \in Ymds
    BY <1>1, KindsAre
  <2>2. a \in YmdDates /\ b \in YmdDates
    BY <2>1 DEF Ymds
  <2> QED BY <2>1, <2>2, DCmpIsOrder, ConvToDaisyIs
<1>2. CASE a.typ = "daisy"
  <2>1. a \in DaisyDates /\ b \in DaisyDates
    BY <1>2, KindsAre
  <2>2. a.n \in Int /\ b.n \in Int
    BY <2>1, KindsAre
  <2>3. ConvToDaisy(a) = DayNumber(a) /\ ConvToDaisy(b) = DayNumber(b)
    BY <1>2 DEF ConvToDaisy, Numbers
  <2>4. DayNumber(a) # 0 /\ DayNumber(b) # 0
    BY <2>3 DEF CivilDays
  <2>5. DayNumber(a) = a.n /\ DayNumber(b) = b.n
    BY <1>2, <2>2, <2>4, SMT DEF DayNumber
  <2>6. DCmp(a, b) = Sgn(a.n - b.n)
    BY <1>2 DEF DCmp
  <2> QED BY <2>3, <2>5, <2>6
<1> QED
  BY <1>1, <1>2

\* The seconds of a day.
SecsOfDay == {s \in Int : 0 <= s /\ s < SECS_PER_DAY}

\* Days come before seconds.
StampsApart(i, s, j, t) ==
  ((i - DAISY_UNIX_BASE) * SECS_PER_DAY + s) - ((j - DAISY_UNIX_BASE) * SECS_PER_DAY + t)

\* Seconds of the day do not reach into the next day.
LEMMA StampsAreOrdered ==
  ASSUME NEW i \in Int, NEW j \in Int, NEW s \in SecsOfDay, NEW t \in SecsOfDay
  PROVE  /\ StampsApart(i, s, j, t) \in Int
         /\ i < j => StampsApart(i, s, j, t) < 0
         /\ i > j => StampsApart(i, s, j, t) > 0
         /\ i = j => StampsApart(i, s, j, t) = s - t
BY SMT DEF StampsApart, SecsOfDay, DAISY_UNIX_BASE, SECS_PER_DAY

\* What a date-time that is left alone by cropping is.
LEMMA PlainIs ==
  ASSUME NEW x \in Moments, x.typ \notin {"unk", "sexy"}, Plain(x), CivilDate(x), x.t.s < 60
  PROVE  /\ x.d \in CrispDates /\ ConvToDaisy(x.d) \in CivilDays /\ ConvToDaisy(x.d) \in Int
         /\ x.d.typ = x.typ /\ x.t \in Clocks /\ x.typ \in {"ymd", "daisy"}
         /\ SecsSinceMidnight(x.t) \in SecsOfDay /\ x.t.ns \in Int
<1>1. x.d \in Slots /\ x.typ = x.d.typ /\ x.t \in Clocks
  BY MomentsAre, Zenon
<1>2. ConvToDaisy(x.d) \in CivilDays
  BY Zenon DEF CivilDate
<1>3. Workable(x)
  <2>1. x.d # Naught("ymd")
    BY <1>2, NaughtIsNoDay, Zenon
  <2>2. x.d # NoDate
    BY <1>1, SlotsAre, Zenon
  <2> QED BY <1>1, <2>1, <2>2, Zenon DEF Slots, Workable
<1>4. x.d \in CrispDates
  BY <1>3, CrispIs, Zenon DEF Plain
<1>5. SecsSinceMidnight(x.t) \in SecsOfDay /\ x.t.ns \in Int
  <2> DEFINE t == x.t
  <2>1. t \in Clocks /\ t.s < 60 /\ t.h < 24
    BY <1>1 DEF Plain
  <2> HIDE DEF t
  <2>2. /\ t.h \in Int /\ 0 <= t.h /\ t.m \in Int /\ 0 <= t.m /\ t.m < 60 /\ t.s \in Int /\ 0 <= t.s
        /\ t.ns \in Int /\ SecsSinceMidnight(t) = 3600 * t.h + 60 * t.m + t.s
    BY <2>1, ClocksAre
  <2>3. \A h, m, s \in Int : 0 <= h /\ h < 24 /\ 0 <= m /\ m < 60 /\ 0 <= s /\ s < 60
          => 3600 * h + 60 * m + s \in SecsOfDay
    BY SMT DEF SecsOfDay, SECS_PER_DAY
  <2>4. SecsSinceMidnight(t) \in SecsOfDay
    BY <2>1, <2>2, <2>3
  <2> QED BY <2>2, <2>4 DEF t
<1>6. ConvToDaisy(x.d) \in Int
  BY <1>2 DEF CivilDays
<1>7. x.typ \in {"ymd", "daisy"}
  BY MomentsAre
<1> QED
  BY <1>1, <1>2, <1>4, <1>5, <1>6, <1>7, Zenon

\* dt_dtcmp() says of two date-times which moment is the earlier one.
LEMMA MomentsInOrder ==
  ASSUME NEW x \in Moments, NEW y \in Moments, x.typ = y.typ, x.typ \notin {"unk", "sexy"},
         Plain(x), Plain(y), CivilDate(x), CivilDate(y), x.t.s < 60, y.t.s < 60
  PROVE  LET before == StampOn(ConvToDaisy(x.d), x.t) - StampOn(ConvToDaisy(y.d), y.t)
         IN /\ before # 0 => DtCmp(x, y) = Sgn(before)
            /\ before = 0 => DtCmp(x, y) = Sgn(x.t.ns - y.t.ns)
<1> DEFINE i == ConvToDaisy(x.d)
           j == ConvToDaisy(y.d)
           s == SecsSinceMidnight(x.t)
           t == SecsSinceMidnight(y.t)
           before == StampOn(i, x.t) - StampOn(j, y.t)
           c == DCmp(x.d, y.d)
           k == TimeCmp(x.t, y.t)
<1>1. /\ x.d \in CrispDates /\ i \in CivilDays /\ i \in Int
      /\ x.d.typ = x.typ /\ x.t \in Clocks /\ x.typ \in {"ymd", "daisy"}
      /\ s \in SecsOfDay /\ x.t.ns \in Int
  BY PlainIs, Zenon
<1>2. /\ y.d \in CrispDates /\ j \in CivilDays /\ j \in Int
      /\ y.d.typ = y.typ /\ y.t \in Clocks
      /\ t \in SecsOfDay /\ y.t.ns \in Int
  <2>1. y.typ \notin {"unk", "sexy"}
    BY Zenon
  <2> QED BY <2>1, PlainIs, Zenon
<1>3. DtCmp(x, y) = OrElse(c, k)
  BY <1>1 DEF DtCmp
<1>4. c = Sgn(i - j)
  <2>1. x.d.typ \in {"ymd", "daisy"} /\ y.d.typ = x.d.typ
    BY <1>1, <1>2
  <2> QED BY <1>1, <1>2, <2>1, DatesAreOrdered
<1>5. /\ s # t => k = Sgn(s - t)
      /\ s = t => k = Sgn(x.t.ns - y.t.ns)
  BY <1>1, <1>2, TimeCmpIs
<1>6. /\ before \in Int
      /\ i < j => before < 0
      /\ i > j => before > 0
      /\ i = j => before = s - t
  <2>1. before = StampsApart(i, s, j, t)
    BY DEF StampOn, StampsApart
  <2> HIDE DEF i, j, s, t, before
  <2> QED BY <1>1, <1>2, <2>1, StampsAreOrdered, Zenon
<1> HIDE DEF i, j, s, t, before, c, k
<1>7. \A p \in Int : (p < 0 => Sgn(p) = -1) /\ (p > 0 => Sgn(p) = 1) /\ (p = 0 => Sgn(p) = 0)
  BY SMT DEF Sgn, One
<1>8. CASE i < j
  <2>1. c = -1
    BY <1>1, <1>2, <1>4, <1>8, SgnIs
  <2>2. before # 0 /\ Sgn(before) = -1
    BY <1>6, <1>7, <1>8
  <2> QED BY <1>3, <2>1, <2>2 DEF OrElse, before, i, j
<1>9. CASE i > j
  <2>1. c = 1
    BY <1>1, <1>2, <1>4, <1>9, SgnIs
  <2>2. before # 0 /\ Sgn(before) = 1
    BY <1>6, <1>7, <1>9
  <2> QED BY <1>3, <2>1, <2>2 DEF OrElse, before, i, j
<1>10. CASE i = j
  <2>1. c = 0 /\ before = s - t
    BY <1>1, <1>2, <1>4, <1>6, <1>10, SgnIs
  <2>2. DtCmp(x, y) = k
    BY <1>3, <2>1 DEF OrElse
  <2>3. (before # 0 <=> s # t) /\ s \in Int /\ t \in Int
    BY <1>1, <1>2, <2>1 DEF SecsOfDay
  <2> QED BY <1>5, <2>1, <2>2, <2>3, Zenon DEF before, i, j
<1>11. i < j \/ i > j \/ i = j
  BY <1>1, <1>2
<1> QED
  BY <1>8, <1>9, <1>10, <1>11

\* dt_dtcmp(): of any two date-times of one calendar the earlier moment comes
\* first.
THEOREM OrderIsOfMoments == ASSUME Known PROVE Spec => []MomentsAreOrdered
<1>1. IInv => MomentsAreOrdered
  <2> SUFFICES ASSUME IInv,
                      SandwichP(dt) /\ dt.typ = asked.from.typ /\ Plain(dt) /\ Plain(asked.from)
                        /\ dt.t.s < 60 /\ asked.from.t.s < 60 /\ CivilDate(dt) /\ CivilDate(asked.from)
               PROVE  MomentsAreOrdered
    BY Zenon DEF MomentsAreOrdered
  <2> DEFINE x == asked.from
  <2>1. x \in Moments /\ dt \in Moments
    BY Zenon DEF IInv, AskedIs
  <2>2. dt.typ \notin {"unk", "sexy"}
    <3>1. dt.typ = "sexy" => dt.sw = FALSE
      BY <2>1, MomentsAre, Zenon
    <3>2. dt.sw /\ dt.typ # "unk"
      BY Zenon DEF SandwichP
    <3> QED BY <3>1, <3>2
  <2>3. LET before == StampOn(ConvToDaisy(x.d), x.t) - StampOn(ConvToDaisy(dt.d), dt.t)
        IN /\ before # 0 => DtCmp(x, dt) = Sgn(before)
           /\ before = 0 => DtCmp(x, dt) = Sgn(x.t.ns - dt.t.ns)
    <3>1. x.typ \notin {"unk", "sexy"}
      BY <2>2
    <3> HIDE DEF x
    <3>2. x.typ = dt.typ /\ Plain(x) /\ CivilDate(x) /\ x.t.s < 60
      BY Zenon DEF x
    <3> QED BY <2>1, <3>1, <3>2, MomentsInOrder, Zenon
  <2> QED BY <2>3, Zenon DEF MomentsAreOrdered
<1> QED
  BY <1>1, Kept, PTL

-----------------------------------------------------------------------------
(* The table of leap seconds and the search in it. *)

\* The changes follow one another.
LEMMA LeapsFollow ==
  /\ LeapsD[0] = LEAST /\ LeapsD[29] = GREATEST
  /\ \A i \in 1 .. 28 : LeapsD[i] \in Int
  /\ \A i \in 1 .. 27 : LeapsD[i] < LeapsD[i + 1]
<1>1. \A i \in 1 .. 28 : LeapsD[i] = LeapDays[i]
  BY LeapsAre, SMT DEF LeapsD, Table
<1>2. LeapsD[0] = LEAST /\ LeapsD[29] = GREATEST
  BY LeapsAre, SMT DEF LeapsD, Table
<1>3. \A i \in 1 .. 28 : LeapDays[i] \in Int
  BY DEF LeapDays
<1>4. \A i \in 1 .. 27 : LeapDays[i] < LeapDays[i + 1]
  <2>1. \A i \in 1 .. 9 : LeapDays[i] < LeapDays[i + 1]
    BY SMTT(60) DEF LeapDays
  <2>2. \A i \in 10 .. 18 : LeapDays[i] < LeapDays[i + 1]
    BY SMTT(60) DEF LeapDays
  <2>3. \A i \in 19 .. 27 : LeapDays[i] < LeapDays[i + 1]
    BY SMTT(60) DEF LeapDays
  <2>4. \A i \in 1 .. 27 : i \in 1 .. 9 \/ i \in 10 .. 18 \/ i \in 19 .. 27
    BY SMT
  <2> QED BY <2>1, <2>2, <2>3, <2>4
<1>5. \A i \in 1 .. 27 : i \in 1 .. 28 /\ i + 1 \in 1 .. 28
  BY SMT
<1> QED
  BY <1>1, <1>2, <1>3, <1>4, <1>5

\* The changes before a day are the first ones.
LEMMA ChangesAre ==
  ASSUME NEW key \in Int
  PROVE  /\ ChangesBefore(LeapsD, key) \in 0 .. 28
         /\ \A i \in 1 .. 28 : LeapsD[i] < key <=> i <= ChangesBefore(LeapsD, key)
<1> DEFINE v == LeapsD
           P == {n \in Nat : n >= 1 /\ (n <= 28 => ~(v[n] < key))}
<1>1. 29 \in P
  OBVIOUS
<1>2. PICK k \in P : \A n \in P : k <= n
  <2> HIDE DEF P
  <2>1. P \subseteq Nat
    BY DEF P
  <2> QED BY <1>1, <2>1, LeastNat
<1>3. k \in Nat /\ k >= 1 /\ k <= 29 /\ (k <= 28 => ~(v[k] < key))
  BY <1>1, <1>2
<1>4. \A i \in 1 .. 28 : i < k => v[i] < key
  <2> SUFFICES ASSUME NEW i \in 1 .. 28, i < k, ~(v[i] < key) PROVE FALSE
    OBVIOUS
  <2>1. i \in P
    OBVIOUS
  <2> QED BY <1>2, <1>3, <2>1
<1>5. \A i \in 1 .. 28 : k <= i => ~(v[i] < key)
  <2> DEFINE Q == {n \in Nat : k + n <= 28 => ~(v[k + n] < key)}
  <2>1. 0 \in Q
    BY <1>3
  <2>2. ASSUME NEW n \in Q PROVE n + 1 \in Q
    <3>1. SUFFICES ASSUME k + (n + 1) <= 28 PROVE ~(v[k + (n + 1)] < key)
      OBVIOUS
    <3>2. k + n \in 1 .. 27 /\ k + (n + 1) = (k + n) + 1 /\ k + n <= 28 /\ k + n \in 1 .. 28 /\ (k + n) + 1 \in 1 .. 28
      BY <1>3, <3>1
    <3>3. v[k + n] < v[(k + n) + 1] /\ v[k + n] \in Int /\ v[(k + n) + 1] \in Int
      BY <3>2, LeapsFollow
    <3>4. ~(v[k + n] < key)
      BY <3>2
    <3> QED BY <3>2, <3>3, <3>4
  <2>3. \A n \in Nat : n \in Q
    <3> HIDE DEF Q
    <3> QED BY <2>1, <2>2, AllNats
  <2> SUFFICES ASSUME NEW i \in 1 .. 28, k <= i PROVE ~(v[i] < key)
    OBVIOUS
  <2>4. i - k \in Nat /\ k + (i - k) = i /\ i <= 28
    BY <1>3
  <2>5. i - k \in Q
    BY <2>3, <2>4
  <2> QED BY <2>4, <2>5
<1> DEFINE S == {i \in 1 .. NLEAPS - 2 : v[i] < key}
<1>6. S = 1 .. k - 1
  <2>1. NLEAPS - 2 = 28
    BY LeapsAre
  <2>2. S = {i \in 1 .. 28 : v[i] < key}
    BY <2>1
  <2> HIDE DEF S, v
  <2>3. \A i : i \in S <=> i \in 1 .. k - 1
    BY <1>3, <1>4, <1>5, <2>2
  <2> QED BY <2>3
<1>7. Cardinality(S) = k - 1
  <2>1. 1 \in Int /\ k - 1 \in Int
    BY <1>3
  <2>2. Cardinality(1 .. k - 1) = IF 1 > k - 1 THEN 0 ELSE (k - 1) - 1 + 1
    BY <2>1, FS_Interval
  <2>3. (IF 1 > k - 1 THEN 0 ELSE (k - 1) - 1 + 1) = k - 1
    BY <1>3
  <2> HIDE DEF S
  <2> QED BY <1>6, <2>2, <2>3, Zenon
<1>8. ChangesBefore(v, key) = k - 1
  BY <1>7 DEF ChangesBefore
<1> HIDE DEF v
<1>9. k - 1 \in 0 .. 28 /\ \A i \in 1 .. 28 : v[i] < key <=> i <= k - 1
  BY <1>3, <1>4, <1>5
<1> QED
  BY <1>8, <1>9 DEF v

\* The search only asks what changes there are before a day.
LEMMA SearchesAlike ==
  ASSUME NEW a \in CivilDays, NEW b \in CivilDays, ChangesBefore(LeapsD, a) = ChangesBefore(LeapsD, b)
  PROVE  FindBefore(LeapsD, a) = FindBefore(LeapsD, b)
<1>1. a \in Int /\ b \in Int /\ LEAST < a /\ LEAST < b /\ a <= GREATEST /\ b <= GREATEST
  <2>1. Jan00Daisy(4096) < 1000000 /\ Jan00Daisy(4096) \in Int
    BY YearsBeyond
  <2> QED BY <2>1, SMT DEF CivilDays, LEAST, GREATEST
<1>2. \A i \in 0 .. 29 : LeapsD[i] < a <=> LeapsD[i] < b
  <2>1. \A i \in 1 .. 28 : LeapsD[i] < a <=> LeapsD[i] < b
    BY <1>1, ChangesAre
  <2>2. \A i \in 0 .. 29 : i = 0 \/ i = 29 \/ i \in 1 .. 28
    BY SMT
  <2>3. LeapsD[0] < a /\ LeapsD[0] < b /\ ~(LeapsD[29] < a) /\ ~(LeapsD[29] < b)
    BY <1>1, LeapsFollow, SMT DEF LEAST, GREATEST
  <2> QED BY <2>1, <2>2, <2>3, Zenon
<1>3. \A i \in 0 .. 29 : LeapsD[i] \in Int
  <2>1. \A i \in 0 .. 29 : i = 0 \/ i = 29 \/ i \in 1 .. 28
    BY SMT
  <2>2. LeapsD[0] \in Int /\ LeapsD[29] \in Int
    BY LeapsFollow, SMT DEF LEAST, GREATEST
  <2> QED BY <2>1, <2>2, LeapsFollow, Zenon
<1>4. ASSUME NEW s \in Spots
      PROVE  /\ Enclosed(LeapsD, a, s.i) <=> Enclosed(LeapsD, b, s.i)
             /\ Narrowed(LeapsD, a, s) = Narrowed(LeapsD, b, s)
  <2>1. s.i \in 0 .. 29 /\ s.i + 1 \in 0 .. 29
    BY LeapsAre, SMT DEF Spots
  <2>2. /\ LeapsD[s.i] < a <=> LeapsD[s.i] < b
        /\ a <= LeapsD[s.i + 1] <=> ~(LeapsD[s.i + 1] < a)
        /\ b <= LeapsD[s.i + 1] <=> ~(LeapsD[s.i + 1] < b)
        /\ a > LeapsD[s.i + 1] <=> LeapsD[s.i + 1] < a
        /\ b > LeapsD[s.i + 1] <=> LeapsD[s.i + 1] < b
        /\ LeapsD[s.i + 1] < a <=> LeapsD[s.i + 1] < b
    <3>1. LeapsD[s.i] \in Int /\ LeapsD[s.i + 1] \in Int
      BY <1>3, <2>1
    <3>2. /\ LeapsD[s.i] < a <=> LeapsD[s.i] < b
          /\ LeapsD[s.i + 1] < a <=> LeapsD[s.i + 1] < b
      BY <1>2, <2>1
    <3> QED BY <1>1, <3>1, <3>2
  <2> QED BY <2>2, Zenon DEF Enclosed, Narrowed
<1> DEFINE start == [i |-> (NLEAPS - 1) \div 2, min |-> 0, max |-> NLEAPS - 1]
           Body(key, go) == [s \in Spots |-> IF Enclosed(LeapsD, key, s.i) THEN s.i
                                             ELSE IF Met(Narrowed(LeapsD, key, s)) THEN Narrowed(LeapsD, key, s).i
                                             ELSE go[Narrowed(LeapsD, key, s)]]
<1>5. \A go : Body(a, go) = Body(b, go)
  BY <1>4, Zenon
<1>6. \A key : FindBefore(LeapsD, key) = (CHOOSE go : go = Body(key, go))[start]
  BY DEF FindBefore
<1> HIDE DEF Body, start
<1>7. (CHOOSE go : go = Body(a, go)) = (CHOOSE go : go = Body(b, go))
  BY <1>5, Zenon
<1> QED
  BY <1>6, <1>7

-----------------------------------------------------------------------------
(* Real seconds go over leap seconds. *)

\* A date-time on a day there is a year for.
OnDay(x) ==
  /\ x \in Moments /\ Workable(x) /\ x.typ \in {"ymd", "daisy"} /\ x.sw = TRUE
  /\ x.d \in CrispDates /\ ConvToDaisy(x.d) \in CivilDays

\* The day of a date-time that is reached, and that its time is one of the day.
LEMMA DayIsReached ==
  ASSUME NEW x, OnDay(x), NEW n \in Int, CivilStamp(ToUnixEpoch(x) + n)
  PROVE  /\ OnDay(AddSecs(x, n)) /\ AddSecs(x, n).typ = x.typ
         /\ AddSecs(x, n).t.h < 24 /\ AddSecs(x, n).t.s < 60
         /\ ToUnixEpoch(x) \in Int /\ ToUnixEpoch(AddSecs(x, n)) = ToUnixEpoch(x) + n
         /\ ConvToDaisy(AddSecs(x, n).d) = ((ToUnixEpoch(x) + n) \div SECS_PER_DAY) + DAISY_UNIX_BASE
<1> DEFINE y == AddSecs(x, n)
           s == SecsSinceMidnight(x.t)
           r == (s + n) % SECS_PER_DAY
           q == (s + n) \div SECS_PER_DAY
           num == ConvToDaisy(x.d)
           was == (num - DAISY_UNIX_BASE) * SECS_PER_DAY + s
<1>1. /\ x \in Moments /\ Workable(x) /\ x.typ # "unk" /\ x.typ # "sexy" /\ x.sw = TRUE
      /\ x.d \in CrispDates /\ num \in CivilDays /\ x.typ \in {"ymd", "daisy"}
  BY Zenon DEF OnDay
<1>2. x.t \in Clocks /\ s \in Int /\ x.t.ns \in 0 .. NANOS_PER_SEC - 1 /\ x.typ = x.d.typ
  BY <1>1, MomentsAre, SecsAre, Zenon
<1>3. /\ y \in Moments
      /\ y.d.typ = x.d.typ
      /\ y.typ = x.typ /\ y.sw = x.sw
      /\ y.t = HMS(r, x.t.ns)
      /\ y.d = DAddD(x.d, q)
  BY <1>1, <1>2, AddSecsIs, Zenon
<1>4. Workable(y)
  BY <1>1, WorkableIs, Zenon
<1>5. ToUnixEpoch(x) = was
  BY <1>1, Zenon DEF ToUnixEpoch, OnlyTP, StampOn
<1>6. num \in Int
  BY <1>1 DEF CivilDays
<1>7. ToUnixEpoch(y) = ToUnixEpoch(x) + n
  BY <1>1, SecsAreAdded, Zenon
<1> HIDE DEF s, y
<1>8. r \in Int /\ 0 <= r /\ r < 86400 /\ q \in Int
  BY <1>2, SMT DEF SECS_PER_DAY
<1>9. /\ was \in Int
      /\ ((was + n) \div SECS_PER_DAY) + DAISY_UNIX_BASE = num + q
  <2> HIDE DEF num
  <2> QED BY <1>2, <1>6, <1>8, StampsAre
<1> HIDE DEF was
<1>10. num + q \in CivilDays
  BY <1>5, <1>9 DEF CivilStamp
<1> HIDE DEF q
<1>11. y.d \in CrispDates /\ ConvToDaisy(y.d) = num + q
  BY <1>1, <1>3, <1>8, <1>10, DaysAreAdded
<1>12. y.t.h < 24 /\ y.t.s < 60
  <2> DEFINE ns == x.t.ns
  <2>1. ns \in 0 .. NANOS_PER_SEC - 1
    BY <1>2
  <2>2. y.t = HMS(r, ns)
    BY <1>3
  <2> HIDE DEF r, ns
  <2>3. HMS(r, ns).h < 24 /\ HMS(r, ns).s < 60
    BY <1>8, <2>1, HMSIs
  <2> QED BY <2>2, <2>3
<1>13. OnDay(y)
  BY <1>1, <1>3, <1>4, <1>10, <1>11, Zenon DEF OnDay
<1> QED
  BY <1>3, <1>5, <1>7, <1>9, <1>11, <1>12, <1>13, Zenon DEF y

\* What the search found is right where nothing passed after it.
LEMMA FoundIs ==
  ASSUME NEW x, OnDay(x), Found(x)
  PROVE  FindBefore(LeapsD, ConvToDaisy(x.d)) = ChangesBefore(LeapsD, ConvToDaisy(x.d))
<1> DEFINE num == ConvToDaisy(x.d)
           c == ChangesBefore(LeapsD, num)
           res == FindBefore(LeapsD, num)
           t60 == [h |-> 23, m |-> 59, s |-> 60, ns |-> x.t.ns]
           b == SandwichP(x) /\ res + 1 < NLEAPS /\ LeapsD[res + 1] = num /\ TimeCmp(x.t, t60) = 1
<1>1. num \in Int /\ x.typ \in {"ymd", "daisy"}
  BY DEF OnDay, CivilDays
<1>2. c \in 0 .. 28 /\ \A i \in 1 .. 28 : LeapsD[i] < num <=> i <= c
  <2> HIDE DEF num
  <2> QED BY <1>1, ChangesAre
<1>3. res \in 0 .. 28
  <2> HIDE DEF num
  <2> QED BY LeapsAre, FindBeforeIs
<1>4. LeapsBefore(x) = res + One(b)
  BY <1>1, SMT DEF LeapsBefore, LeapsUpto, Passed
<1>5. LeapsBefore(x) = c
  BY Zenon DEF Found
<1>6. b => LeapsD[res + 1] = num
  OBVIOUS
<1>7. One(b) \in {0, 1} /\ (One(b) = 1 => b)
  BY DEF One
<1> HIDE DEF b, res, c, num
<1>8. ASSUME One(b) = 1 PROVE FALSE
  <2>1. c = res + 1 /\ c \in 1 .. 28
    BY <1>2, <1>3, <1>4, <1>5, <1>8
  <2>2. LeapsD[c] = num
    BY <1>6, <1>7, <1>8, <2>1
  <2>3. LeapsD[c] < num
    BY <1>2, <2>1
  <2> QED BY <1>1, <2>2, <2>3
<1>9. res = c
  BY <1>3, <1>4, <1>5, <1>7, <1>8
<1> QED
  BY <1>9 DEF res, c, num

\* Nothing passes before midnight.
LEMMA NothingPasses ==
  ASSUME NEW x, OnDay(x), x.t.h < 24, x.t.s < 60
  PROVE  LeapsBefore(x) = FindBefore(LeapsD, ConvToDaisy(x.d))
<1> DEFINE num == ConvToDaisy(x.d)
           res == FindBefore(LeapsD, num)
           t60 == [h |-> 23, m |-> 59, s |-> 60, ns |-> x.t.ns]
           p == <<x.t.h, x.t.m, x.t.s, x.t.ns>>
           q == <<23, 59, 60, x.t.ns>>
<1>1. x.typ \in {"ymd", "daisy"} /\ x.t \in Clocks
  BY MomentsAre DEF OnDay
<1>2. /\ x.t.h \in Int /\ 0 <= x.t.h /\ x.t.h <= 23 /\ x.t.m \in Int /\ 0 <= x.t.m /\ x.t.m <= 59
      /\ x.t.s \in Int /\ x.t.s < 60 /\ x.t.ns \in Int
  BY <1>1, ClocksAre
<1>3. TimeCmp(x.t, t60) = Lexical(p, q)
  BY DEF TimeCmp
<1>4. p \in [1 .. 4 -> Int] /\ p[1] = x.t.h /\ p[2] = x.t.m /\ p[3] = x.t.s /\ p[4] = x.t.ns
  BY <1>2
<1>5. q \in [1 .. 4 -> Int] /\ q[1] = 23 /\ q[2] = 59 /\ q[3] = 60 /\ q[4] = x.t.ns
  BY <1>2
<1> HIDE DEF p, q
<1>6. /\ p[1] # q[1] => Lexical(p, q) = Sgn(p[1] - q[1])
      /\ p[1] = q[1] /\ p[2] # q[2] => Lexical(p, q) = Sgn(p[2] - q[2])
      /\ p[1] = q[1] /\ p[2] = q[2] /\ p[3] # q[3] => Lexical(p, q) = Sgn(p[3] - q[3])
  BY <1>4, <1>5, LexicalOf4, Zenon
<1>7. \A i, j \in Int : i < j => Sgn(i - j) = -1
  BY SgnIs
<1>8. Lexical(p, q) = -1
  <2>1. p[1] # q[1] => p[1] < q[1]
    BY <1>2, <1>4, <1>5
  <2>2. p[2] # q[2] => p[2] < q[2]
    BY <1>2, <1>4, <1>5
  <2>3. p[3] < q[3] /\ p[3] # q[3]
    BY <1>2, <1>4, <1>5
  <2>4. p[1] \in Int /\ q[1] \in Int /\ p[2] \in Int /\ q[2] \in Int /\ p[3] \in Int /\ q[3] \in Int
    BY <1>4, <1>5
  <2> QED BY <1>6, <1>7, <2>1, <2>2, <2>3, <2>4, Zenon
<1>9. TimeCmp(x.t, t60) # 1
  BY <1>3, <1>8
<1>10. res \in 0 .. 28
  <2> HIDE DEF num
  <2> QED BY LeapsAre, FindBeforeIs
<1>11. LeapsBefore(x) = res + 0
  BY <1>1, <1>9, SMT DEF LeapsBefore, LeapsUpto, Passed, One
<1> HIDE DEF res
<1>12. LeapsBefore(x) = res
  BY <1>10, <1>11
<1> QED
  BY <1>12 DEF res, num

\* From a day to the next there is at most one change.
LEMMA ChangesFollow ==
  ASSUME NEW a \in Int
  PROVE  /\ ChangesBefore(LeapsD, a + 1) \in Int
         /\ ChangesBefore(LeapsD, a) <= ChangesBefore(LeapsD, a + 1)
         /\ ChangesBefore(LeapsD, a + 1) <= ChangesBefore(LeapsD, a) + 1
<1> DEFINE c == ChangesBefore(LeapsD, a)
           e == ChangesBefore(LeapsD, a + 1)
<1>1. c \in 0 .. 28 /\ \A i \in 1 .. 28 : LeapsD[i] < a <=> i <= c
  BY ChangesAre
<1>2. e \in 0 .. 28 /\ \A i \in 1 .. 28 : LeapsD[i] < a + 1 <=> i <= e
  <2>1. a + 1 \in Int
    OBVIOUS
  <2> DEFINE b == a + 1
  <2> HIDE DEF b
  <2>2. ChangesBefore(LeapsD, b) \in 0 .. 28 /\ \A i \in 1 .. 28 : LeapsD[i] < b <=> i <= ChangesBefore(LeapsD, b)
    BY <2>1, ChangesAre DEF b
  <2> QED BY <2>2 DEF b
<1> HIDE DEF c, e
<1>3. c <= e
  <2>1. SUFFICES ASSUME e < c PROVE FALSE
    BY <1>1, <1>2
  <2>2. c \in 1 .. 28 /\ ~(c <= e)
    BY <1>1, <1>2, <2>1
  <2>3. LeapsD[c] < a /\ ~(LeapsD[c] < a + 1) /\ LeapsD[c] \in Int
    BY <1>1, <1>2, <2>2, LeapsFollow
  <2> QED BY <2>3
<1>4. e <= c + 1
  <2>1. SUFFICES ASSUME c + 2 <= e PROVE FALSE
    BY <1>1, <1>2
  <2>2. e \in 1 .. 28 /\ e - 1 \in 1 .. 27 /\ e - 1 \in 1 .. 28 /\ (e - 1) + 1 = e /\ ~(e - 1 <= c)
    BY <1>1, <1>2, <2>1
  <2>3. LeapsD[e - 1] \in Int /\ LeapsD[e] \in Int /\ LeapsD[e - 1] < LeapsD[e]
    BY <2>2, LeapsFollow
  <2>4. LeapsD[e] < a + 1 /\ ~(LeapsD[e - 1] < a)
    BY <1>1, <1>2, <2>2
  <2> QED BY <2>3, <2>4
<1> QED
  BY <1>1, <1>2, <1>3, <1>4 DEF c, e

\* The day before or after, or the same.
LEMMA DaysMeet ==
  ASSUME NEW u \in Int, NEW k \in {-1, 1}
  PROVE  (u + k) \div SECS_PER_DAY \in {u \div SECS_PER_DAY, (u \div SECS_PER_DAY) + k}
BY SMT DEF SECS_PER_DAY

\* The day a stamp is on.
LEMMA DayOfStamp ==
  ASSUME NEW y, OnDay(y), y.t.h < 24, y.t.s < 60
  PROVE  /\ ToUnixEpoch(y) \in Int
         /\ (ToUnixEpoch(y) \div SECS_PER_DAY) + DAISY_UNIX_BASE = ConvToDaisy(y.d)
<1> DEFINE num == ConvToDaisy(y.d)
           s == SecsSinceMidnight(y.t)
           c == num - 134775
<1>1. num \in Int
  BY DEF OnDay, CivilDays
<1>2. y.t \in Clocks
  BY MomentsAre DEF OnDay
<1>3. s \in Int /\ 0 <= s /\ s < 86400
  <2>1. s = 3600 * y.t.h + 60 * y.t.m + y.t.s
    BY <1>2, ClocksAre
  <2>2. /\ y.t.h \in Int /\ 0 <= y.t.h /\ y.t.h < 24 /\ y.t.m \in Int /\ 0 <= y.t.m /\ y.t.m < 60
        /\ y.t.s \in Int /\ 0 <= y.t.s /\ y.t.s < 60
    BY <1>2, ClocksAre
  <2> HIDE DEF s
  <2> QED BY <2>1, <2>2
<1>4. ToUnixEpoch(y) = c * 86400 + s
  <2>1. y.typ # "sexy" /\ y.typ # "unk"
    BY DEF OnDay
  <2>2. ToUnixEpoch(y) = StampOn(num, y.t)
    BY <2>1, Zenon DEF ToUnixEpoch, OnlyTP
  <2>3. StampOn(num, y.t) = (num - DAISY_UNIX_BASE) * SECS_PER_DAY + s
    BY Zenon DEF StampOn
  <2> QED BY <2>2, <2>3 DEF DAISY_UNIX_BASE, SECS_PER_DAY
<1> HIDE DEF num, s
<1>5. c \in Int
  BY <1>1
<1>6. c * 86400 + s \in Int /\ (c * 86400 + s) \div 86400 = c
  <2> HIDE DEF c
  <2> QED BY <1>3, <1>5, SMT
<1>7. c + 134775 = num
  BY <1>1
<1> QED
  BY <1>4, <1>6, <1>7 DEF num, SECS_PER_DAY, DAISY_UNIX_BASE

\* A date-time a second on is found by the search where the changes before it
\* are those before a day that is.
LEMMA SecondIsFound ==
  ASSUME NEW x, OnDay(x), Found(x), NEW y, OnDay(y), Found(y), y.t.h < 24, y.t.s < 60,
         NEW k \in {-1, 1}, CivilStamp(ToUnixEpoch(y) + k), LeapsBefore(x) = LeapsBefore(y) + k
  PROVE  LET z == AddSecs(y, k)
         IN /\ OnDay(z) /\ z.t.s < 60 /\ z.typ = y.typ /\ ToUnixEpoch(z) = ToUnixEpoch(y) + k
            /\ LeapsBefore(z) = ChangesBefore(LeapsD, ConvToDaisy(z.d))
            /\ LeapsBefore(z) \in {LeapsBefore(x), LeapsBefore(y)}
<1> DEFINE z == AddSecs(y, k)
           N == ConvToDaisy(y.d)
           M == ConvToDaisy(x.d)
           L == ConvToDaisy(z.d)
           u == ToUnixEpoch(y)
<1>1. k \in Int
  OBVIOUS
<1>2. /\ OnDay(z) /\ z.typ = y.typ /\ z.t.h < 24 /\ z.t.s < 60
      /\ u \in Int /\ ToUnixEpoch(z) = u + k
      /\ L = ((u + k) \div SECS_PER_DAY) + DAISY_UNIX_BASE
  BY <1>1, DayIsReached, Zenon
<1>3. N = (u \div SECS_PER_DAY) + DAISY_UNIX_BASE
  BY DayOfStamp
<1>4. N \in CivilDays /\ M \in CivilDays /\ L \in CivilDays
  BY <1>2, Zenon DEF OnDay
<1>5. N \in Int /\ L \in Int /\ M \in Int
  BY <1>4 DEF CivilDays
<1>6. LeapsBefore(x) = ChangesBefore(LeapsD, M) /\ LeapsBefore(y) = ChangesBefore(LeapsD, N)
  BY Zenon DEF Found
<1>7. LeapsBefore(z) = FindBefore(LeapsD, L)
  BY <1>2, NothingPasses, Zenon
<1>8. /\ FindBefore(LeapsD, M) = ChangesBefore(LeapsD, M)
      /\ FindBefore(LeapsD, N) = ChangesBefore(LeapsD, N)
  BY FoundIs, Zenon
<1> HIDE DEF z, M
<1>9. L = N \/ L = N + k
  <2>1. (u + k) \div SECS_PER_DAY \in {u \div SECS_PER_DAY, (u \div SECS_PER_DAY) + k}
    BY <1>2, DaysMeet
  <2>2. u \div SECS_PER_DAY \in Int
    BY <1>2 DEF SECS_PER_DAY
  <2> HIDE DEF L, N, u
  <2>3. CASE (u + k) \div SECS_PER_DAY = u \div SECS_PER_DAY
    BY <1>2, <1>3, <2>3, Zenon
  <2>4. CASE (u + k) \div SECS_PER_DAY = (u \div SECS_PER_DAY) + k
    <3> DEFINE q == u \div SECS_PER_DAY
               p == (u + k) \div SECS_PER_DAY
    <3>1. p = q + k /\ q \in Int /\ L = p + DAISY_UNIX_BASE /\ N = q + DAISY_UNIX_BASE
      BY <1>2, <1>3, <2>2, <2>4
    <3> HIDE DEF p, q
    <3> QED BY <1>1, <3>1 DEF DAISY_UNIX_BASE
  <2> QED BY <2>1, <2>3, <2>4
<1> HIDE DEF L, N, u
<1>10. /\ ChangesBefore(LeapsD, M) \in Int /\ ChangesBefore(LeapsD, N) \in Int
       /\ ChangesBefore(LeapsD, L) \in Int
  <2>1. \A a \in Int : ChangesBefore(LeapsD, a) \in 0 .. 28
    BY ChangesAre
  <2>2. \A a \in Int : ChangesBefore(LeapsD, a) \in Int
    BY <2>1
  <2> QED BY <1>5, <2>2
<1>11. ChangesBefore(LeapsD, L) \in {ChangesBefore(LeapsD, M), ChangesBefore(LeapsD, N)}
  <2>1. CASE L = N
    BY <2>1
  <2>2. CASE L = N + k /\ k = 1
    <3>1. /\ ChangesBefore(LeapsD, N) <= ChangesBefore(LeapsD, L)
          /\ ChangesBefore(LeapsD, L) <= ChangesBefore(LeapsD, N) + 1
      BY <1>5, <2>2, ChangesFollow
    <3>2. ChangesBefore(LeapsD, M) = ChangesBefore(LeapsD, N) + 1
      BY <1>6, <2>2
    <3> QED BY <1>10, <3>1, <3>2
  <2>3. CASE L = N + k /\ k = -1
    <3>1. L + 1 = N
      BY <1>5, <2>3
    <3>2. /\ ChangesBefore(LeapsD, L) <= ChangesBefore(LeapsD, N)
          /\ ChangesBefore(LeapsD, N) <= ChangesBefore(LeapsD, L) + 1
      BY <1>5, <3>1, ChangesFollow
    <3>3. ChangesBefore(LeapsD, M) = ChangesBefore(LeapsD, N) + (-1)
      BY <1>6, <2>3
    <3> QED BY <1>10, <3>2, <3>3
  <2> QED BY <1>9, <2>1, <2>2, <2>3
<1>12. FindBefore(LeapsD, L) = ChangesBefore(LeapsD, L)
  <2>1. CASE ChangesBefore(LeapsD, L) = ChangesBefore(LeapsD, M)
    BY <1>4, <1>8, <2>1, SearchesAlike, Zenon
  <2>2. CASE ChangesBefore(LeapsD, L) = ChangesBefore(LeapsD, N)
    BY <1>4, <1>8, <2>2, SearchesAlike, Zenon
  <2> QED BY <1>11, <2>1, <2>2
<1> QED
  BY <1>2, <1>6, <1>7, <1>11, <1>12 DEF z, L, u

\* What atomic clocks show, from the stamp.
LEMMA AtomicIs ==
  ASSUME NEW x, OnDay(x)
  PROVE  Atomic(x) = ToUnixEpoch(x) + LeapsCorr[ChangesBefore(LeapsD, ConvToDaisy(x.d))]
<1>1. x.typ # "sexy" /\ x.typ # "unk"
  BY DEF OnDay
<1> QED
  BY <1>1, Zenon DEF Atomic, ToUnixEpoch, OnlyTP

\* The 60th second of a minute.
LEMMA SixtiethIs ==
  ASSUME NEW x, OnDay(x), x.t.s < 60, NEW w, w = [x EXCEPT !.t.s = (x.t.s + 1) % 256]
  PROVE  Atomic(w) = Atomic(x) + 1
<1> DEFINE num == ConvToDaisy(x.d)
           c == (x.t.s + 1) % 256
           t == [x.t EXCEPT !.s = c]
           corr == LeapsCorr[ChangesBefore(LeapsD, num)]
<1>1. x \in Moments /\ x.t \in Clocks /\ num \in Int
  <2>1. x \in Moments /\ num \in CivilDays
    BY Zenon DEF OnDay
  <2>2. x.t \in Clocks
    BY <2>1, MomentsAre, Zenon
  <2> QED BY <2>1, <2>2 DEF CivilDays
<1>2. /\ x.t.h \in Int /\ x.t.m \in Int /\ x.t.s \in Int /\ 0 <= x.t.s
      /\ SecsSinceMidnight(x.t) = 3600 * x.t.h + 60 * x.t.m + x.t.s
  BY <1>1, ClocksAre
<1>3. c = x.t.s + 1
  <2> DEFINE p == x.t.s
  <2> HIDE DEF p
  <2>1. p \in Int /\ 0 <= p /\ p < 60
    BY <1>2 DEF p
  <2>2. (p + 1) % 256 = p + 1
    BY <2>1, SMT
  <2> QED BY <2>2 DEF p
<1>4. w = Made(x.typ, x.sw, x.d, t, x.sx, x.znfxd, x.neg, x.zdiff)
  <2> HIDE DEF c
  <2> QED BY <1>1, OverwrittenIs, Zenon DEF c
<1>5. w.d = x.d /\ w.t = t
  <2> HIDE DEF t
  <2> QED BY <1>4 DEF Made
<1>6. t.h = x.t.h /\ t.m = x.t.m /\ t.s = c
  <2>1. x.t = [h |-> x.t.h, m |-> x.t.m, s |-> x.t.s, ns |-> x.t.ns]
    BY <1>1 DEF Clocks
  <2> HIDE DEF c
  <2> QED BY <2>1
<1>7. SecsSinceMidnight(t) = SecsSinceMidnight(x.t) + 1
  <2>1. SecsSinceMidnight(t) = (60 * x.t.h + x.t.m) * 60 + (x.t.s + 1)
    BY <1>3, <1>6, Zenon DEF SecsSinceMidnight
  <2> HIDE DEF t, c
  <2> QED BY <1>2, <2>1
<1>8. StampOn(num, t) = StampOn(num, x.t) + 1 /\ StampOn(num, x.t) \in Int
  <2>1. SecsSinceMidnight(x.t) \in Int
    BY <1>1, SecsAre
  <2> HIDE DEF num, t
  <2> QED BY <1>1, <1>7, <2>1 DEF StampOn, DAISY_UNIX_BASE, SECS_PER_DAY
<1>9. corr \in Int
  <2>1. ChangesBefore(LeapsD, num) \in 0 .. 28
    <3> HIDE DEF num
    <3> QED BY <1>1, ChangesAre
  <2>2. \A i \in 0 .. 28 : LeapsCorr[i] \in 10 .. 37
    BY LeapsCorrIs, LeapsAre
  <2> QED BY <2>1, <2>2
<1>10. Atomic(w) = StampOn(num, t) + corr /\ Atomic(x) = StampOn(num, x.t) + corr
  BY <1>5, Zenon DEF Atomic
<1> HIDE DEF corr, num, t
<1> QED
  BY <1>8, <1>9, <1>10

\* Leap seconds are inserted and left out so that atomic clocks go on evenly.
LEMMA LeapsAreInserted ==
  ASSUME NEW x, OnDay(x), Found(x), NEW y, OnDay(y), Found(y), y.t.h < 24, y.t.s < 60,
         Mag(LeapsBefore(y) - LeapsBefore(x)) <= 1, \A corr \in {-1, 1} : CivilStamp(ToUnixEpoch(y) + corr)
  PROVE  Atomic(InsertLeaps(x, y)) = ToUnixEpoch(y) + LeapsCorr[LeapsBefore(x)]
<1> DEFINE f == LeapsBefore(x)
           i == LeapsBefore(y)
           nltr == LeapsCorr[f] - LeapsCorr[i]
           u == ToUnixEpoch(y)
<1>1. f = ChangesBefore(LeapsD, ConvToDaisy(x.d)) /\ i = ChangesBefore(LeapsD, ConvToDaisy(y.d))
  BY Zenon DEF Found
<1>2. f \in 0 .. 28 /\ i \in 0 .. 28
  <2>1. ConvToDaisy(x.d) \in Int /\ ConvToDaisy(y.d) \in Int
    BY DEF OnDay, CivilDays
  <2>2. \A a \in Int : ChangesBefore(LeapsD, a) \in 0 .. 28
    BY ChangesAre
  <2> QED BY <1>1, <2>1, <2>2, Zenon
<1>3. /\ LeapsCorr[f] = IF f = 0 THEN 10 ELSE 9 + f
      /\ LeapsCorr[i] = IF i = 0 THEN 10 ELSE 9 + i
  <2>1. \A j \in 0 .. 28 : LeapsCorr[j] = IF j = 0 THEN 10 ELSE 9 + j
    BY LeapsCorrIs, LeapsAre
  <2> QED BY <1>2, <2>1
<1>4. u \in Int
  BY DayOfStamp
<1>5. Atomic(y) = u + LeapsCorr[i]
  BY <1>1, AtomicIs, Zenon
<1>6. i - f \in {-1, 0, 1}
  <2> HIDE DEF f, i
  <2>1. Mag(i - f) <= 1
    BY DEF f, i
  <2> QED BY <1>2, <2>1 DEF Mag
<1>7. CASE f = i
  <2>1. InsertLeaps(x, y) = y
    BY <1>7, Zenon DEF InsertLeaps, InsertBetween
  <2> QED BY <1>5, <1>7, <2>1, Zenon
<1>8. CASE f # i /\ nltr = 0
  <2>1. InsertLeaps(x, y) = Pushed(y, y, i, i, nltr)
    BY <1>8, Zenon DEF InsertLeaps, InsertBetween, InsertSecs, PushedTo
  <2>2. Pushed(y, y, i, i, nltr) = y
    <3> HIDE DEF i, nltr
    <3> QED BY <1>2 DEF Pushed
  <2>3. LeapsCorr[f] = LeapsCorr[i]
    <3> HIDE DEF f, i
    <3> QED BY <1>2, <1>3, <1>8
  <2> QED BY <1>5, <2>1, <2>2, <2>3, Zenon
<1>9. CASE f # i /\ nltr # 0
  <2> DEFINE z == AddSecs(y, nltr)
             j == LeapsBefore(z)
  <2>1. nltr \in {-1, 1} /\ f = i + nltr
    <3> HIDE DEF f, i
    <3> QED BY <1>2, <1>3, <1>6, <1>9
  <2>2. InsertLeaps(x, y) = Pushed(y, z, i, j, nltr)
    <3>1. \A k \in {-1, 1} : Rem(k, SECS_PER_DAY) = k /\ Quot(k, SECS_PER_DAY) = 0
      BY SMT DEF Rem, Quot, SECS_PER_DAY
    <3>2. Rem(nltr, SECS_PER_DAY) = nltr /\ Quot(nltr, SECS_PER_DAY) = 0
      <4> HIDE DEF nltr
      <4> QED BY <2>1, <3>1
    <3> HIDE DEF nltr
    <3>3. z = Rolled(y, TAddS(y.t, nltr, 0), 0)
      BY <3>2, Zenon DEF AddSecs, OnDay
    <3> HIDE DEF z
    <3> QED BY <1>9, <3>3, Zenon DEF InsertLeaps, InsertBetween, InsertSecs, PushedTo, nltr
  <2> HIDE DEF nltr
  <2>3. CivilStamp(u + nltr)
    BY <2>1
  <2>4. f = i + nltr
    BY <2>1
  <2>5. /\ OnDay(z) /\ z.t.s < 60 /\ z.typ = y.typ /\ ToUnixEpoch(z) = u + nltr
        /\ j = ChangesBefore(LeapsD, ConvToDaisy(z.d))
        /\ j \in {f, i}
    BY <2>1, <2>3, SecondIsFound, Zenon
  <2>6. Atomic(z) = (u + nltr) + LeapsCorr[j]
    BY <2>5, AtomicIs, Zenon
  <2> HIDE DEF z, j, u, f, i
  <2>7. LeapsCorr[f] = LeapsCorr[i] + nltr /\ LeapsCorr[i] \in Int /\ LeapsCorr[f] \in Int
    <3>1. LeapsCorr[i] \in Int /\ LeapsCorr[f] \in Int
      BY <1>2, <1>3
    <3> QED BY <3>1 DEF nltr
  <2>8. j = i => Atomic(InsertLeaps(x, y)) = u + LeapsCorr[f]
    <3>0. HAVE j = i
    <3>1. InsertLeaps(x, y) = z
      BY <1>2, <2>2, <3>0 DEF Pushed
    <3> QED BY <1>4, <2>1, <2>6, <2>7, <3>0, <3>1
  <2>9. j = f /\ nltr = -1 => Atomic(InsertLeaps(x, y)) = u + LeapsCorr[f]
    <3>0. HAVE j = f /\ nltr = -1
    <3>1. j < i
      BY <1>2, <2>1, <3>0
    <3>2. InsertLeaps(x, y) = [z EXCEPT !.t.s = (z.t.s - nltr) % 256]
      BY <2>2, <3>1 DEF Pushed
    <3>3. z.t.s - nltr = z.t.s + 1
      <4>1. z.t.s \in Int
        <5>1. z \in Moments
          BY <2>5, Zenon DEF OnDay
        <5>2. z.t \in Clocks
          BY <5>1, MomentsAre, Zenon
        <5> QED BY <5>2, ClocksAre
      <4> QED BY <3>0, <4>1
    <3>4. InsertLeaps(x, y) = [z EXCEPT !.t.s = (z.t.s + 1) % 256]
      BY <3>2, <3>3, Zenon
    <3>5. Atomic(InsertLeaps(x, y)) = Atomic(z) + 1
      BY <2>5, <3>4, SixtiethIs, Zenon
    <3> QED BY <1>4, <2>6, <2>7, <3>0, <3>5
  <2>10. j = f /\ nltr = 1 => Atomic(InsertLeaps(x, y)) = u + LeapsCorr[f]
    <3>0. HAVE j = f /\ nltr = 1
    <3>1. j > i /\ ~(j < i)
      BY <1>2, <2>1, <3>0
    <3>2. InsertLeaps(x, y) = [y EXCEPT !.t.s = (y.t.s + nltr) % 256]
      BY <2>2, <3>1 DEF Pushed
    <3>3. InsertLeaps(x, y) = [y EXCEPT !.t.s = (y.t.s + 1) % 256]
      BY <3>0, <3>2, Zenon
    <3>4. Atomic(InsertLeaps(x, y)) = Atomic(y) + 1
      BY <3>3, SixtiethIs, Zenon
    <3> QED BY <1>4, <1>5, <2>7, <3>0, <3>4
  <2> QED BY <2>1, <2>5, <2>8, <2>9, <2>10, Zenon DEF u, f
<1> QED
  BY <1>7, <1>8, <1>9

\* What real seconds are added to is a day and a time.
LEMMA RealSecondsOn ==
  ASSUME NEW x \in Moments, Workable(x), NEW dur \in Durations, dur.unit = "s", dur.tai = TRUE,
         SandwichP(DtAdd(x, dur)), DtAdd(x, dur).typ \in {"ymd", "daisy"}
  PROVE  /\ x.typ \in {"ymd", "daisy"} /\ x.sw = TRUE
         /\ DtAdd(x, dur) = InsertLeaps(x, AddSecs(x, dur.dv))
<1> DEFINE y == AddSecs(x, dur.dv)
<1>1. dur.dv \in Int /\ InSecs(dur) = dur.dv
  BY InSecsIs, Zenon
<1>2. x.typ # "sexy"
  <2>1. SUFFICES ASSUME x.typ = "sexy" PROVE FALSE
    OBVIOUS
  <2> DEFINE n == SexyAdd(x.sx, dur)
  <2>2. DtAdd(x, dur) = [x EXCEPT !.sx = n]
    BY <2>1 DEF DtAdd
  <2> HIDE DEF n
  <2>3. x = [typ |-> x.typ, sw |-> x.sw, d |-> x.d, t |-> x.t, sx |-> x.sx,
             znfxd |-> x.znfxd, neg |-> x.neg, zdiff |-> x.zdiff]
    BY MomentIsMade, Zenon DEF Made
  <2>4. DtAdd(x, dur).typ = "sexy"
    BY <2>1, <2>2, <2>3
  <2> QED BY <2>4
<1>3. PlainAdd(x, dur) = y
  BY <1>1, SMT DEF PlainAdd
<1>4. DtAdd(x, dur) = IF ~OnlyDP(x) THEN InsertLeaps(x, y) ELSE y
  BY <1>2, <1>3, Zenon DEF DtAdd, RealAdd
<1>5. y.typ = x.typ /\ y.sw = x.sw
  BY <1>1, AddSecsIs, Zenon
<1>6. x.typ \in {"ymd", "daisy", "unk", "sexy"} /\ x.sw \in BOOLEAN
  BY MomentsAre, Zenon
<1>7. ~OnlyDP(x)
  <2>1. SUFFICES ASSUME OnlyDP(x) PROVE FALSE
    OBVIOUS
  <2>2. DtAdd(x, dur) = y
    BY <1>4, <2>1, Zenon
  <2> HIDE DEF y
  <2> QED BY <1>5, <2>1, <2>2, Zenon DEF OnlyDP, SandwichP
<1>8. x.typ # "unk"
  <2>1. SUFFICES ASSUME x.typ = "unk" PROVE FALSE
    OBVIOUS
  <2> HIDE DEF y
  <2>2. LeapsBefore(x) = 0 /\ LeapsBefore(y) = 0
    BY <1>5, <2>1, SMT DEF LeapsBefore
  <2>3. InsertLeaps(x, y) = y
    BY <2>2, Zenon DEF InsertLeaps, InsertBetween
  <2>4. DtAdd(x, dur).typ = "unk"
    BY <1>4, <1>5, <1>7, <2>1, <2>3, Zenon
  <2> QED BY <2>4
<1> HIDE DEF y
<1>9. x.sw = TRUE
  BY <1>2, <1>6, <1>7, <1>8, Zenon DEF OnlyDP
<1> QED
  BY <1>2, <1>4, <1>6, <1>7, <1>8, <1>9, Zenon DEF y

\* Real seconds are added so that atomic clocks go on by that much, as far as
\* one leap second is crossed and the table was searched rightly.
THEOREM RealSecondsCount == ASSUME Known PROVE Spec => []RealSecondsAreAdded
<1>1. IInv => RealSecondsAreAdded
  <2>1. SUFFICES ASSUME IInv, RealSecondsAsked,
                        Mag(LeapsBefore(AddSecs(asked.from, asked.arg.dv)) - LeapsBefore(asked.from)) <= 1
                 PROVE  Atomic(dt) = Atomic(asked.from) + asked.arg.dv
    BY Zenon DEF RealSecondsAreAdded
  <2> DEFINE x == asked.from
             dur == asked.arg
             n == dur.dv
             y == AddSecs(x, n)
  <2>2. /\ dt \in Moments /\ x \in Moments /\ Workable(x) /\ dur \in Durations /\ dt = DtAdd(x, dur)
        /\ dur.tai = TRUE /\ dur.unit = "s" /\ SandwichP(dt) /\ dt.typ \in {"ymd", "daisy"}
        /\ Plain(x) /\ CivilDate(x) /\ Found(x) /\ Found(y)
        /\ \A corr \in {-1, 1} : CivilStamp(ToUnixEpoch(x) + n + corr)
        /\ Mag(LeapsBefore(y) - LeapsBefore(x)) <= 1
    <3>1. /\ dt \in Moments /\ x \in Moments /\ Workable(x) /\ dur \in Durations /\ dt = DtAdd(x, dur)
          /\ dur.tai /\ dur.unit = "s" /\ SandwichP(dt) /\ dt.typ \in {"ymd", "daisy"}
          /\ Plain(x) /\ CivilDate(x) /\ Found(x) /\ Found(y)
          /\ \A corr \in {-1, 1} : CivilStamp(ToUnixEpoch(x) + n + corr)
          /\ Mag(LeapsBefore(y) - LeapsBefore(x)) <= 1
      BY <2>1, Zenon DEF IInv, AskedIs, RealSecondsAsked
    <3>2. dur.tai \in BOOLEAN
      BY <3>1, Zenon DEF Durations
    <3> QED BY <3>1, <3>2, Zenon
  <2> HIDE DEF dur, x
  <2>3. n \in Int
    BY <2>2, InSecsIs, Zenon
  <2>4. x.typ \in {"ymd", "daisy"} /\ x.sw = TRUE /\ dt = InsertLeaps(x, y)
    <3>1. SandwichP(DtAdd(x, dur)) /\ DtAdd(x, dur).typ \in {"ymd", "daisy"}
      BY <2>2, Zenon
    <3>2. x.typ \in {"ymd", "daisy"} /\ x.sw = TRUE /\ DtAdd(x, dur) = InsertLeaps(x, y)
      BY <2>2, <3>1, RealSecondsOn, Zenon
    <3> QED BY <2>2, <3>2, Zenon
  <2> HIDE DEF n, y
  <2>5. OnDay(x)
    <3>1. x = DtFixup(x)
      BY <2>2, Zenon DEF Plain
    <3>2. x.d \in CrispDates /\ ConvToDaisy(x.d) \in CivilDays
      <4>1. x.typ \notin {"unk", "sexy"}
        BY <2>4
      <4> QED BY <2>2, <3>1, <4>1, CrispIs, Zenon
    <3> QED BY <2>2, <2>4, <3>2, Zenon DEF OnDay
  <2>6. ToUnixEpoch(x) \in Int
    <3>1. x.t.h < 24
      BY <2>2, Zenon DEF Plain
    <3> DEFINE num == ConvToDaisy(x.d)
    <3>2. num \in Int /\ x.t \in Clocks
      <4>1. x.t \in Clocks /\ num \in CivilDays
        BY <2>2, <2>5, MomentsAre, Zenon DEF OnDay
      <4> QED BY <4>1, SMT DEF CivilDays
    <3>3. ToUnixEpoch(x) = StampOn(num, x.t)
      BY <2>4, SMT DEF ToUnixEpoch, OnlyTP
    <3>4. SecsSinceMidnight(x.t) \in Int
      BY <3>2, SecsAre, Zenon
    <3> HIDE DEF num
    <3> QED BY <3>2, <3>3, <3>4, SMT DEF StampOn, DAISY_UNIX_BASE, SECS_PER_DAY
  <2> DEFINE u == ToUnixEpoch(x)
  <2>7. CivilStamp(u + n)
    <3> HIDE DEF u
    <3>1. u \in Int /\ CivilStamp((u + n) + (-1)) /\ CivilStamp((u + n) + 1)
      BY <2>2, <2>6 DEF u
    <3> DEFINE v == u + n
    <3>2. v \in Int
      BY <2>3, <3>1
    <3>3. CivilStamp(v + (-1)) /\ CivilStamp(v + 1)
      BY <3>1
    <3> HIDE DEF v
    <3>4. Jan00Daisy(4096) \in Int
      <4>1. 4096 \in Int
        OBVIOUS
      <4> QED BY <4>1, YearsBeyond, SMT
    <3> DEFINE a == (v + (-1)) \div SECS_PER_DAY
               b == v \div SECS_PER_DAY
               c == (v + 1) \div SECS_PER_DAY
    <3>5. a \in Int /\ b \in Int /\ c \in Int /\ a <= b /\ b <= c
      BY <3>2, SMT DEF SECS_PER_DAY
    <3>6. a + DAISY_UNIX_BASE \in CivilDays /\ c + DAISY_UNIX_BASE \in CivilDays
      BY <3>3, Zenon DEF CivilStamp
    <3> HIDE DEF a, b, c
    <3>7. b + DAISY_UNIX_BASE \in CivilDays
      BY <3>4, <3>5, <3>6, SMT DEF CivilDays, DAISY_UNIX_BASE
    <3>8. CivilStamp(v)
      BY <3>7, Zenon DEF CivilStamp, b
    <3> QED BY <3>8, Zenon DEF v
  <2>8. OnDay(y) /\ y.t.h < 24 /\ y.t.s < 60 /\ ToUnixEpoch(y) = u + n
    BY <2>3, <2>5, <2>7, DayIsReached, Zenon DEF y
  <2>9. \A corr \in {-1, 1} : CivilStamp(ToUnixEpoch(y) + corr)
    BY <2>2, <2>8, Zenon
  <2>10. Atomic(dt) = ToUnixEpoch(y) + LeapsCorr[LeapsBefore(x)]
    BY <2>2, <2>4, <2>5, <2>8, <2>9, LeapsAreInserted, Zenon
  <2>11. Atomic(x) = u + LeapsCorr[LeapsBefore(x)]
    BY <2>2, <2>5, AtomicIs, Zenon DEF Found
  <2>12. LeapsCorr[LeapsBefore(x)] \in Int
    BY LeapsBeforeIs, Zenon
  <2> DEFINE k == LeapsCorr[LeapsBefore(x)]
  <2> HIDE DEF u, k
  <2>13. Atomic(dt) = Atomic(x) + n
    <3>1. Atomic(dt) = (u + n) + k /\ Atomic(x) = u + k /\ u \in Int /\ k \in Int
      BY <2>6, <2>8, <2>10, <2>11, <2>12, Zenon DEF u, k
    <3> QED BY <2>3, <3>1
  <2> QED BY <2>13, Zenon DEF x, n, dur
<1>2. Spec => []IInv
  BY Kept, Zenon
<1> QED
  BY <1>1, <1>2, PTL

-----------------------------------------------------------------------------
(* Differences lead back. *)

\* dt_dconv(): a date there is a year, a month and a day for stays of its day.
LEMMA DatedIs ==
  ASSUME NEW d \in CrispDates, d \in Dates, ConvToDaisy(d) \in CivilDays, DConv("ymd", d) # Naught("ymd"),
         NEW kind \in {"ymd", "yd"}
  PROVE  /\ kind = "ymd" => DConv(kind, d) \in Ymds
         /\ kind = "yd" => DConv(kind, d) \in Yds
         /\ Reading(DConv(kind, d)) = ConvToDaisy(d)
<1>1. CASE d \in YmdDates
  <2>1. d.typ = "ymd"
    BY <1>1, KindsAre
  <2>2. d \in Ymds
    BY <2>1, KindsAre
  <2>3. DFixup(d) = d /\ ConvToDaisy(d) = Reading(d)
    BY <1>1, <2>2, FixupIsCrisp, ConvToDaisyIs
  <2>4. /\ DConv(kind, d) \in Ymds \union Yds
        /\ DConv(kind, d).typ = kind
        /\ Reading(DConv(kind, d)) = Reading(d)
    BY <1>1, <2>3, ConvertKeepsDay
  <2>5. (\A e \in Ymds : e.typ = "ymd") /\ (\A e \in Yds : e.typ = "yd")
    BY SMT DEF Ymds, Yds, YmdDates, YdDates
  <2> HIDE DEF Ymds, Yds
  <2> QED BY <2>3, <2>4, <2>5
<1>2. CASE d \in DaisyDates
  <2> DEFINE n == ConvToDaisy(d)
  <2>1. d.typ = "daisy" /\ DFixup(d) = d /\ n = DayNumber(d)
    BY <1>2, SMT DEF DaisyDates, DFixup, ConvToDaisy, Numbers
  <2>2. /\ DConv("ymd", d) = DaisyToYmd(n)
        /\ DConv("yd", d) = DaisyToYd(n)
    BY <2>1, SMT DEF DConv, ConvTo, ConvToYmd, ConvToYd, Numbers
  <2>3. n \in Int /\ 1 <= n
    BY DEF CivilDays
  <2> HIDE DEF n
  <2>4. n <= 910674
    <3> SUFFICES ASSUME ~(n <= 910674) PROVE FALSE
      OBVIOUS
    <3>1. n > 910674
      BY <2>3
    <3>2. DaisyToYmd(n) = Naught("ymd")
      BY <3>1 DEF DaisyToYmd
    <3> QED BY <2>2, <3>2
  <2>5. DaisyToYmd(n) \in Ymds /\ Reading(DaisyToYmd(n)) = n
    BY <2>3, <2>4, DaisyToYmdIsDay
  <2>6. DaisyToYd(n) \in Yds /\ Reading(DaisyToYd(n)) = n
    <3>1. /\ DaisyToYd(n) \in YdDates
          /\ DaisyToYd(n).d <= GetYdays(DaisyToYd(n).y)
          /\ Jan00Daisy(DaisyToYd(n).y) + DaisyToYd(n).d = n
      BY <2>3, <2>4, DaisyToYdIsDate
    <3> QED BY <3>1, ReadingIs DEF Yds
  <2> QED BY <2>2, <2>5, <2>6 DEF n
<1> QED BY <1>1, <1>2 DEF Dates

\* The date that is left when a day was given back for the times of the day, and
\* what there is between two dates in order.
Nearer(kind, a, b, c) == IF Fixed(kind, a, b, c) THEN DAddD(b, Sgn(c)) ELSE b
Forth(kind, a, b) == IF kind = "ymd" THEN YmdApart(FALSE, a, b) ELSE YdApart(FALSE, a, b)

\* Which of both it is.
OfKind(kind, d) == (kind = "ymd" /\ d \in Ymds) \/ (kind = "yd" /\ d \in Yds)

\* Dates between others.
LEMMA CivilDaysAre ==
  ASSUME NEW i \in CivilDays, NEW j \in CivilDays, NEW n \in Int, i <= n, n <= j
  PROVE  n \in CivilDays
<1>1. Jan00Daisy(4096) \in Int
  BY YearStep
<1> QED BY <1>1 DEF CivilDays

\* Days and seconds that times of the day differ by, together not negative.
Onwards(n, c) == -172800 < c /\ c < 172800 /\ n * 86400 + c >= 0

\* Seconds that a day is given back for.
LEMMA GivenBackIs ==
  ASSUME NEW i \in Int, NEW j \in Int, NEW c \in Int, Onwards(j - i, c)
  PROVE  /\ Sgn(c) \in Int
         /\ Sgn(c) = -Sgn(j - i) => /\ i <= j + Sgn(c)
                                    /\ j + Sgn(c) = i \/ j + Sgn(c) = j - 1
                                    /\ c - Sgn(c) * 86400 = (j - (j + Sgn(c))) * 86400 + c
         /\ Sgn(c) # -Sgn(j - i) => i <= j
<1>1. /\ c < 0 => Sgn(c) = -1
      /\ c = 0 => Sgn(c) = 0
      /\ c > 0 => Sgn(c) = 1
  BY SMT DEF Sgn, One
<1>2. /\ j < i => Sgn(j - i) = -1
      /\ j = i => Sgn(j - i) = 0
      /\ j > i => Sgn(j - i) = 1
  BY SgnIs
<1> DEFINE n == j - i
           k == Sgn(c)
           l == Sgn(n)
<1>3. n \in Int /\ n >= -1 /\ (n < 0 => c > 0)
  <2>1. n \in Int /\ Onwards(n, c)
    BY SMT
  <2> HIDE DEF n
  <2> QED BY <2>1, SMT DEF Onwards
<1>4. /\ n < 0 => l = -1
      /\ n = 0 => l = 0
      /\ n > 0 => l = 1
  <2>1. /\ j < i => l = -1
        /\ j = i => l = 0
        /\ j > i => l = 1
    BY <1>2
  <2> HIDE DEF l
  <2> QED BY <2>1, SMT
<1>5. j = i + n
  BY SMT
<1> HIDE DEF n, k, l
<1>6. /\ c < 0 => k = -1
      /\ c = 0 => k = 0
      /\ c > 0 => k = 1
  BY <1>1 DEF k
<1>7. k \in Int /\ l \in Int
  BY <1>3, <1>4, <1>6, SMT
<1>8. k = -l => n + k >= 0 /\ (n + k = 0 \/ k = -1 \/ n + k = n - 1)
  BY <1>3, <1>4, <1>6, SMT
<1>9. k # -l => n >= 0
  BY <1>3, <1>4, <1>6, SMT
<1>10. k = -l => /\ i <= j + k
                 /\ j + k = i \/ j + k = j - 1
                 /\ c - k * 86400 = (j - (j + k)) * 86400 + c
  BY <1>3, <1>4, <1>5, <1>6, <1>8, SMT
<1>11. k # -l => i <= j
  BY <1>3, <1>5, <1>9, SMT
<1> QED BY <1>7, <1>10, <1>11 DEF k, l, n

\* A difference of the dates that are left and seconds that make up for the rest.
MadeUp(kind, a, b, c, e, r) ==
  /\ OfKind(kind, e) /\ Reading(e) \in CivilDays /\ Reading(a) <= Reading(e)
  /\ r.diff = Forth(kind, a, e)
  /\ r.secs = (Reading(b) - Reading(e)) * 86400 + c
  /\ e = b \/ Reading(e) = Reading(a) \/ Reading(e) = Reading(b) - 1

\* dt_ddiff() and dt_dtdiff() give a day back so that this is what is left.
LEMMA NearerIs ==
  ASSUME NEW kind \in {"ymd", "yd"}, NEW a, NEW b, OfKind(kind, a), OfKind(kind, b),
         Reading(a) \in CivilDays, Reading(b) \in CivilDays,
         NEW c \in Int, Onwards(Reading(b) - Reading(a), c)
  PROVE  MadeUp(kind, a, b, c, Nearer(kind, a, b, c), WithTime(PartsCarried(kind, a, b, c), c))
<1> DEFINE i == Reading(a)
           j == Reading(b)
           k == Sgn(c)
           e == Nearer(kind, a, b, c)
           p == PartsCarried(kind, a, b, c)
           r == WithTime(p, c)
<1>1. i \in Int /\ j \in Int
  BY DEF CivilDays
<1>2. Fixed(kind, a, b, c) <=> k = -Sgn(j - i)
  <2>1. kind # "ymcw"
    OBVIOUS
  <2>2. DCmp(b, a) = Sgn(j - i)
    BY DCmpIsOrder DEF OfKind
  <2> QED BY <2>1, <2>2 DEF Fixed
<1>3. /\ k \in Int
      /\ k = -Sgn(j - i) => /\ i <= j + k
                            /\ j + k = i \/ j + k = j - 1
                            /\ c - k * 86400 = (j - (j + k)) * 86400 + c
      /\ k # -Sgn(j - i) => i <= j
  <2> HIDE DEF i, j
  <2> QED BY <1>1, GivenBackIs DEF i, j
<1>4. OfKind(kind, e) /\ Reading(e) \in CivilDays /\ i <= Reading(e)
      /\ (e = b \/ Reading(e) = i \/ Reading(e) = j - 1)
      /\ (Fixed(kind, a, b, c) => Reading(e) = j + k)
      /\ (~Fixed(kind, a, b, c) => e = b)
  <2>1. CASE ~Fixed(kind, a, b, c)
    BY <1>2, <1>3, <2>1 DEF Nearer
  <2>2. CASE Fixed(kind, a, b, c)
    <3>1. e = DAddD(b, k)
      BY <2>2 DEF Nearer
    <3>2. j + k \in CivilDays /\ i <= j + k /\ (j + k = i \/ j + k = j - 1)
      <4>1. i <= j + k /\ j + k \in Int /\ (j + k = i \/ j + k = j - 1)
        BY <1>1, <1>2, <1>3, <2>2
      <4> HIDE DEF i, j, k
      <4>2. CASE j + k = i
        BY <4>1, <4>2 DEF i
      <4>3. CASE j + k = j - 1
        <5>1. j + k <= j
          BY <1>1, <4>1, <4>3
        <5>2. i \in CivilDays /\ j \in CivilDays
          BY DEF i, j
        <5> QED BY <4>1, <5>1, <5>2, CivilDaysAre
      <4> QED BY <4>1, <4>2, <4>3
    <3> HIDE DEF k, e
    <3>3. OfKind(kind, e) /\ Reading(e) = j + k
      BY <1>3, <3>1, <3>2, DayIsThere DEF OfKind
    <3> QED BY <2>2, <3>2, <3>3
  <2> QED BY <2>1, <2>2
<1>5. p.diff = PartsApart(kind, a, e) /\ (p.fix <=> Fixed(kind, a, b, c))
  <2>1. CASE Fixed(kind, a, b, c)
    BY <2>1, Zenon DEF PartsCarried, Nearer
  <2>2. CASE ~Fixed(kind, a, b, c)
    BY <2>2, Zenon DEF PartsCarried, Nearer
  <2> QED BY <2>1, <2>2, Zenon
<1>6. PartsApart(kind, a, e) = Forth(kind, a, e)
  <2> HIDE DEF e
  <2>1. DCmp(a, e) = Sgn(Reading(a) - Reading(e))
    BY <1>4, DCmpIsOrder DEF OfKind
  <2>2. Reading(e) \in Int
    BY <1>4 DEF CivilDays
  <2>3. ~(DCmp(a, e) > 0)
    <3>1. Reading(a) < Reading(e) \/ Reading(a) = Reading(e)
      BY <1>1, <1>4, <2>2
    <3>2. DCmp(a, e) = -1 \/ DCmp(a, e) = 0
      BY <1>1, <2>1, <2>2, <3>1, SgnIs, Zenon
    <3> QED BY <3>2
  <2> QED BY <2>3 DEF PartsApart, YmdDiff, YdDiff, Forth
<1>7. Forth(kind, a, e).neg = FALSE
  <2>1. \A u, v : YdApart(FALSE, u, v).neg = FALSE
    BY Zenon DEF YdApart
  <2> QED BY <2>1, NegIs, Zenon DEF Forth
<1> HIDE DEF e
<1>8. p.diff = Forth(kind, a, e) /\ (p.fix <=> Fixed(kind, a, b, c))
  BY <1>5, <1>6
<1> HIDE DEF p
<1>9. r.diff = p.diff /\ r.secs = IF p.fix THEN c - k * SECS_PER_DAY ELSE c
  <2>1. ~p.diff.neg
    BY <1>7, <1>8
  <2> QED BY <2>1, Zenon DEF WithTime
<1>10. r.secs = (j - Reading(e)) * 86400 + c
  <2>1. CASE Fixed(kind, a, b, c)
    <3>1. r.secs = c - k * 86400
      BY <1>8, <1>9, <2>1 DEF SECS_PER_DAY
    <3>2. Reading(e) = j + k
      BY <1>4, <2>1
    <3> QED BY <1>2, <1>3, <2>1, <3>1, <3>2
  <2>2. CASE ~Fixed(kind, a, b, c)
    BY <1>1, <1>4, <1>8, <1>9, <2>2
  <2> QED BY <2>1, <2>2
<1>11. r.diff = Forth(kind, a, e)
  BY <1>8, <1>9
<1> HIDE DEF r
<1>12. MadeUp(kind, a, b, c, e, r)
  BY <1>4, <1>10, <1>11 DEF MadeUp
<1> QED BY <1>12, Zenon DEF e, r, p

\* Times of the day, with a second a leap second may have left.
LEMMA ClockIs ==
  ASSUME NEW s \in Clocks, NEW t \in Clocks, s.h < 24, t.h < 24
  PROVE  TDiffS(s, t) \in Int /\ -172800 < TDiffS(s, t) /\ TDiffS(s, t) < 172800
<1>1. /\ SecsSinceMidnight(s) \in Int /\ 0 <= SecsSinceMidnight(s) /\ SecsSinceMidnight(s) < 172800
      /\ SecsSinceMidnight(t) \in Int /\ 0 <= SecsSinceMidnight(t) /\ SecsSinceMidnight(t) < 172800
  <2>1. /\ s.h \in Int /\ 0 <= s.h /\ s.m \in Int /\ 0 <= s.m /\ s.m < 60 /\ s.s \in Int /\ 0 <= s.s /\ s.s <= 255
        /\ SecsSinceMidnight(s) = 3600 * s.h + 60 * s.m + s.s
        /\ t.h \in Int /\ 0 <= t.h /\ t.m \in Int /\ 0 <= t.m /\ t.m < 60 /\ t.s \in Int /\ 0 <= t.s /\ t.s <= 255
        /\ SecsSinceMidnight(t) = 3600 * t.h + 60 * t.m + t.s
    BY ClocksAre
  <2> QED BY <2>1
<1> QED BY <1>1 DEF TDiffS

\* A date-time on a day of a month that cropping leaves alone.
OnDate(x) ==
  /\ x \in Moments /\ Workable(x) /\ x.typ \in {"ymd", "daisy"} /\ x.sw = TRUE
  /\ x.d \in CrispDates /\ x.d \in Dates /\ ConvToDaisy(x.d) \in CivilDays /\ DConv("ymd", x.d) # Naught("ymd")
  /\ x.t \in Clocks /\ x.t.h < 24

\* What is told apart is on such a day, and its moment is that of its day and time.
LEMMA OnDateIs ==
  ASSUME NEW x \in Moments, SandwichP(x), Plain(x), Dated(x)
  PROVE  OnDate(x) /\ ToUnixEpoch(x) = StampOn(ConvToDaisy(x.d), x.t)
<1>1. x.typ # "unk" /\ x.typ # "sexy" /\ x.sw = TRUE /\ x.typ \in {"ymd", "daisy"}
  <2>1. /\ x.typ \in {"ymd", "daisy", "unk", "sexy"} /\ x.sw \in BOOLEAN
        /\ x.typ = "sexy" => x.sw = FALSE
    BY MomentsAre, Zenon
  <2> QED BY <2>1 DEF SandwichP
<1>2. x.d \in Slots /\ x.typ = x.d.typ /\ x.t \in Clocks
  BY <1>1, MomentsAre, Zenon
<1>3. ConvToDaisy(x.d) \in CivilDays /\ DConv("ymd", x.d) # Naught("ymd")
  BY <1>1 DEF Dated, CivilDate
<1>4. x.d \in Dates
  <2>1. x.d # Naught("ymd")
    BY <1>3, NaughtIsNoDay, Zenon
  <2>2. x.d # NoDate
    BY <1>1, <1>2, SlotsAre, Zenon
  <2> QED BY <1>2, <2>1, <2>2, Zenon DEF Slots
<1>5. Workable(x)
  BY <1>4, Zenon DEF Workable
<1>6. x.d \in CrispDates /\ x.t.h < 24
  <2>1. CivilDate(x) /\ x = DtFixup(x) /\ x.t.h < 24 /\ x.typ \notin {"unk", "sexy"}
    BY <1>1 DEF Plain, Dated
  <2> QED BY <1>5, <2>1, CrispIs, Zenon
<1>7. ToUnixEpoch(x) = StampOn(ConvToDaisy(x.d), x.t)
  BY <1>1, Zenon DEF ToUnixEpoch, OnlyTP
<1> QED BY <1>1, <1>2, <1>3, <1>4, <1>5, <1>6, <1>7, Zenon DEF OnDate

\* dt_dtconv() to years, months and days leaves the day and the time.
LEMMA ShownAsYmd ==
  ASSUME NEW x, OnDate(x), Base \in Int
  PROVE  LET z == DtConv("ymd", x)
         IN /\ z \in Moments /\ z.typ = "ymd" /\ z.sw = TRUE /\ z.t = x.t
            /\ z.d = DConv("ymd", x.d) /\ z.d \in Ymds /\ Reading(z.d) = ConvToDaisy(x.d)
<1> DEFINE z == DtConv("ymd", x)
           d == DConv("ymd", x.d)
<1>1. x \in Moments /\ Workable(x) /\ x.typ # "unk" /\ x.typ # "sexy" /\ x.sw = TRUE
  BY DEF OnDate
<1>2. z \in Moments
  BY <1>1, DtConvKeeps
<1>3. d \in Ymds /\ Reading(d) = ConvToDaisy(x.d)
  BY DatedIs DEF OnDate
<1>4. z = [Sandwich(d, x.t) EXCEPT !.sw = TRUE]
  BY <1>1, Zenon DEF DtConv
<1> HIDE DEF d, z
<1>5. z.typ = d.typ /\ z.sw = TRUE /\ z.t = x.t /\ z.d = d
  BY <1>4 DEF Sandwich
<1>6. d.typ = "ymd"
  BY <1>3, YmdsAre
<1> QED BY <1>2, <1>3, <1>5, <1>6 DEF d, z

\* From another day on seconds lead that much later.
LEMMA BackReaches ==
  ASSUME NEW z \in Moments, z.typ = "ymd", z.sw = TRUE,
         NEW d \in Ymds, Reading(d) \in CivilDays, NEW n \in Int, CivilStamp(StampOn(Reading(d), z.t) + n)
  PROVE  ToUnixEpoch(DtAddSecs([z EXCEPT !.d = d], n)) = StampOn(Reading(d), z.t) + n
<1> DEFINE w == [z EXCEPT !.d = d]
<1>1. /\ d \in YmdDates /\ d \in CrispDates /\ d.typ = "ymd" /\ ConvToDaisy(d) = Reading(d)
  BY YmdsAre
<1>2. d \in Dates /\ d \in Slots
  BY <1>1, Zenon DEF Dates, Slots
<1>3. z.d.typ = "ymd"
  BY MomentsAre, Zenon
<1>4. w \in Moments
  BY <1>1, <1>2, <1>3, SlotsStay, Zenon
<1>5. w = Made(z.typ, z.sw, d, z.t, z.sx, z.znfxd, z.neg, z.zdiff)
  BY OverwrittenIs, Zenon
<1> HIDE DEF w
<1>6. w.typ = "ymd" /\ w.sw = TRUE /\ w.d = d /\ w.t = z.t
  BY <1>5 DEF Made
<1>7. Workable(w)
  BY <1>2, <1>6, Zenon DEF Workable
<1>8. ToUnixEpoch(w) = StampOn(Reading(d), z.t)
  BY <1>1, <1>6 DEF ToUnixEpoch, OnlyTP
<1>9. w.typ # "sexy" /\ w.typ # "unk"
  BY <1>6
<1>10. ToUnixEpoch(AddSecs(w, n)) = ToUnixEpoch(w) + n
  BY <1>1, <1>4, <1>6, <1>7, <1>8, <1>9, SecsAreAdded, Zenon
<1>11. DtAddSecs(w, n) = AddSecs(w, n)
  BY <1>9 DEF DtAddSecs
<1> QED BY <1>8, <1>10, <1>11 DEF w

\* What is added to the day of a date-time for a difference.
DayBack(kind, a, r) == DAddD(IF kind = "ymd" THEN DAddM(a, r.diff.m) ELSE YearsOn(a, r.diff.y), r.diff.d)

\* Months and days, or years and days, lead to the day that is left.
LEMMA DaysLeadBack ==
  ASSUME NEW kind \in {"ymd", "yd"}, NEW a \in Ymds, a.d <= 28, Reading(a) \in CivilDays,
         NEW u, OfKind(kind, u), kind = "ymd" => u = a, Reading(u) = Reading(a),
         NEW b, OfKind(kind, b), Reading(b) \in CivilDays, NEW to \in Ymds, Reading(to) = Reading(b),
         NEW e, OfKind(kind, e), Reading(e) \in CivilDays, Reading(a) <= Reading(e),
         e = b \/ Reading(e) = Reading(a) \/ Reading(e) = Reading(b) - 1,
         ~LosesLeapDay(kind, a, to), NEW r, r.diff = Forth(kind, u, e)
  PROVE  DayBack(kind, a, r) \in Ymds /\ Reading(DayBack(kind, a, r)) = Reading(e)
<1>1. Reading(e) \in Int /\ Reading(a) \in Int
  BY DEF CivilDays
<1>2. CASE kind = "ymd"
  <2>1. e \in Ymds /\ u = a
    BY <1>2 DEF OfKind
  <2> DEFINE m == YmdApart(FALSE, a, e).m
             d == YmdApart(FALSE, a, e).d
             g == DAddM(a, m)
  <2>2. m \in Nat /\ d \in Int
    BY <2>1, YmdApartIs, Zenon
  <2>3. ConvToDaisy(g) \in Int /\ ConvToDaisy(g) + d = Reading(e)
    BY <2>1, MonthsLeadOn, Zenon
  <2>4. r.diff.m = m /\ r.diff.d = d
    BY <1>2, <2>1 DEF Forth
  <2>5. DayBack(kind, a, r) = DAddD(g, d)
    BY <1>2, <2>4, Zenon DEF DayBack
  <2> HIDE DEF m, d
  <2>6. g \in Ymds
    BY <2>2, MonthsAreThere, Zenon
  <2> HIDE DEF g
  <2>7. Reading(g) = ConvToDaisy(g)
    BY <2>6, YmdsAre, Zenon
  <2>8. Reading(g) + d = Reading(e) /\ Reading(g) + d \in CivilDays /\ g \in Ymds \union Yds
    BY <2>3, <2>6, <2>7
  <2>9. DAddD(g, d) \in Ymds /\ Reading(DAddD(g, d)) = Reading(g) + d
    BY <2>2, <2>6, <2>8, DayIsThere, Zenon
  <2> QED BY <2>5, <2>8, <2>9
<1>3. CASE kind = "yd"
  <2>1. e \in Yds /\ u \in Yds /\ b \in Yds
    BY <1>3 DEF OfKind
  <2> DEFINE n == YdApart(FALSE, u, e).y
             d == YdApart(FALSE, u, e).d
             g == YearsOn(a, n)
  <2>2. ~(a.m <= 2 /\ e.d < u.d /\ Leapp(e.y - 1))
    <3>1. ~(a.m <= 2 /\ 32 * to.m + to.d <= 32 * a.m + a.d /\ Leapp(to.y - 1))
      BY <1>3, Zenon DEF LosesLeapDay
    <3>2. a.m <= 2 /\ e.d < u.d /\ Leapp(e.y - 1) => 32 * to.m + to.d <= 32 * a.m + a.d /\ Leapp(to.y - 1)
      BY <2>1, LossIsTold, Zenon
    <3> QED BY <3>1, <3>2, Zenon
  <2>3. g \in Ymds /\ d \in Int /\ Reading(g) + d = Reading(e)
    BY <2>1, <2>2, YearsLeadOn, Zenon
  <2>4. r.diff.y = n /\ r.diff.d = d
    BY <1>3, Zenon DEF Forth
  <2>5. DayBack(kind, a, r) = DAddD(g, d)
    BY <1>3, <2>4, Zenon DEF DayBack
  <2> HIDE DEF n, d, g
  <2>6. Reading(g) + d \in CivilDays /\ g \in Ymds \union Yds
    BY <2>3
  <2>7. DAddD(g, d) \in Ymds /\ Reading(DAddD(g, d)) = Reading(g) + d
    BY <2>3, <2>6, DayIsThere, Zenon
  <2> QED BY <2>3, <2>5, <2>7
<1> QED BY <1>2, <1>3

\* What lies between the stamps of two days and times.
LeadOn(i, j, s, t) ==
  /\ TDiffS(s, t) \in Int
  /\ StampOn(i, s) <= StampOn(j, t) => Onwards(j - i, TDiffS(s, t))
  /\ StampOn(i, s) + ((j - i) * 86400 + TDiffS(s, t)) = StampOn(j, t)
  /\ StampOn(j, t) - StampOn(i, s) = TDiffS(s, t) + (j - i) * SECS_PER_DAY

\* The stamps of two date-times are days and seconds apart.
LEMMA StampsLeadOn ==
  ASSUME NEW i \in Int, NEW j \in Int, NEW s \in Clocks, NEW t \in Clocks, s.h < 24, t.h < 24
  PROVE  LeadOn(i, j, s, t)
<1> DEFINE p == SecsSinceMidnight(s)
           q == SecsSinceMidnight(t)
           c == TDiffS(s, t)
<1>1. p \in Int /\ q \in Int /\ c = q - p
  BY SecsAre DEF TDiffS
<1>2. c \in Int /\ -172800 < c /\ c < 172800
  BY ClockIs
<1>3. /\ StampOn(i, s) = (i - 134775) * 86400 + p
      /\ StampOn(j, t) = (j - 134775) * 86400 + q
  BY SMT DEF StampOn, DAISY_UNIX_BASE, SECS_PER_DAY
<1> HIDE DEF p, q, c
<1> DEFINE m == i - 134775
           n == j - 134775
<1>4. m \in Int /\ n \in Int /\ j - i = n - m
  BY SMT
<1> DEFINE a == StampOn(i, s)
           b == StampOn(j, t)
<1>5. a = m * 86400 + p /\ b = n * 86400 + q
  BY <1>3
<1> HIDE DEF m, n, a, b
<1>6. b - a = (n - m) * 86400 + c /\ b = a + ((n - m) * 86400 + c)
  BY <1>1, <1>4, <1>5, SMT
<1>7. b - a = c + (n - m) * 86400
  BY <1>2, <1>4, <1>6, SMT
<1>8. a <= b => (n - m) * 86400 + c >= 0
  BY <1>1, <1>4, <1>5, <1>6, SMT
<1> QED BY <1>2, <1>4, <1>6, <1>7, <1>8, SMT DEF LeadOn, Onwards, c, a, b, SECS_PER_DAY

\* dt_dtdiff() in months or years, days and seconds adds back.
LEMMA PartsAddBack ==
  ASSUME NEW x, OnDate(x), NEW y, OnDate(y), Base \in Int, NEW kind \in {"ymd", "yd"},
         CivilStamp(StampOn(ConvToDaisy(y.d), y.t)), ToUnixEpoch(y) = StampOn(ConvToDaisy(y.d), y.t),
         StampOn(ConvToDaisy(x.d), x.t) <= StampOn(ConvToDaisy(y.d), y.t)
  PROVE  AddsBack(kind, DtConv("ymd", x), x, y)
<1> DEFINE i == ConvToDaisy(x.d)
           j == ConvToDaisy(y.d)
           c == TDiffS(x.t, y.t)
           z == DtConv("ymd", x)
           a == z.d
           u == DConv(kind, x.d)
           b == DConv(kind, y.d)
           to == DConv("ymd", y.d)
           e == Nearer(kind, u, b, c)
           r == DtDiffParts(kind, x, y)
           d == DayBack(kind, a, r)
           now == StampOn(j, y.t)
<1>1. /\ i \in CivilDays /\ j \in CivilDays /\ x.t \in Clocks /\ x.t.h < 24 /\ y.t \in Clocks /\ y.t.h < 24
      /\ x.sw = TRUE /\ y.sw = TRUE
      /\ x.d \in CrispDates /\ x.d \in Dates /\ DConv("ymd", x.d) # Naught("ymd")
      /\ y.d \in CrispDates /\ y.d \in Dates /\ DConv("ymd", y.d) # Naught("ymd")
  BY Zenon DEF OnDate
<1>2. i \in Int /\ j \in Int
  BY <1>1 DEF CivilDays
<1>3. /\ z \in Moments /\ z.typ = "ymd" /\ z.sw = TRUE /\ z.t = x.t
      /\ a = DConv("ymd", x.d) /\ a \in Ymds /\ Reading(a) = i
  BY ShownAsYmd, Zenon
<1>4. /\ OfKind(kind, u) /\ Reading(u) = i
      /\ OfKind(kind, b) /\ Reading(b) = j
      /\ to \in Ymds /\ Reading(to) = j
  BY <1>1, DatedIs, Zenon DEF OfKind
<1>5. kind = "ymd" => u = a
  BY <1>3, Zenon
<1>6. r = WithTime(PartsCarried(kind, u, b, c), c)
  BY <1>1, Zenon DEF DtDiffParts, OnlyDP, DDiffParts
<1>7. kind # "ywd"
  OBVIOUS
<1>8. Back(kind, z, r) = DtAddSecs([z EXCEPT !.d = d], r.secs)
  <2> HIDE DEF r, z
  <2> QED BY <1>7, Zenon DEF Back, DayBack
<1>9. AddsBack(kind, z, x, y)
        <=> (a.d <= 28 /\ ~LosesLeapDay(kind, a, to) => ToUnixEpoch(Back(kind, z, r)) = ToUnixEpoch(y))
  <2> HIDE DEF z
  <2> QED BY <1>7, Zenon DEF AddsBack, r
<1>10. StampOn(i, x.t) <= StampOn(j, y.t)
  OBVIOUS
<1> HIDE DEF i, j, u, b, to, z, a, r
<1>13. c \in Int /\ Onwards(j - i, c)
  <2>1. LeadOn(i, j, x.t, y.t)
    BY <1>1, <1>2, StampsLeadOn, Zenon
  <2> QED BY <1>10, <2>1, SMT DEF LeadOn
<1> HIDE DEF c
<1>14. Reading(u) \in CivilDays /\ Reading(b) \in CivilDays /\ Onwards(Reading(b) - Reading(u), c)
  BY <1>1, <1>4, <1>13, Zenon
<1>15. MadeUp(kind, u, b, c, e, r)
  BY <1>4, <1>6, <1>13, <1>14, NearerIs, Zenon
<1> HIDE DEF e
<1>11. /\ OfKind(kind, e) /\ Reading(e) \in CivilDays /\ Reading(u) <= Reading(e)
       /\ r.diff = Forth(kind, u, e)
       /\ r.secs = (Reading(b) - Reading(e)) * 86400 + c
       /\ e = b \/ Reading(e) = Reading(u) \/ Reading(e) = Reading(b) - 1
  BY <1>15, SMT DEF MadeUp
<1>12. ASSUME a.d <= 28, ~LosesLeapDay(kind, a, to)
       PROVE  ToUnixEpoch(Back(kind, z, r)) = ToUnixEpoch(y)
  <2>1. d \in Ymds /\ Reading(d) = Reading(e)
    <3>1. /\ Reading(a) \in CivilDays /\ Reading(u) = Reading(a) /\ Reading(to) = Reading(b)
          /\ Reading(a) <= Reading(e)
          /\ e = b \/ Reading(e) = Reading(a) \/ Reading(e) = Reading(b) - 1
          /\ OfKind(kind, e) /\ Reading(e) \in CivilDays /\ r.diff = Forth(kind, u, e)
      BY <1>1, <1>3, <1>4, <1>11
    <3>2. /\ a \in Ymds /\ a.d <= 28 /\ ~LosesLeapDay(kind, a, to) /\ to \in Ymds
          /\ OfKind(kind, u) /\ (kind = "ymd" => u = a)
          /\ OfKind(kind, b) /\ Reading(b) \in CivilDays
      BY <1>3, <1>4, <1>5, <1>12, <1>14, Zenon
    <3>3. \/ e = b
          \/ Reading(e) = Reading(a)
          \/ Reading(e) = Reading(b) - 1
      BY <3>1
    <3> HIDE DEF d
    <3>4. DayBack(kind, a, r) \in Ymds /\ Reading(DayBack(kind, a, r)) = Reading(e)
      BY <3>1, <3>2, <3>3, DaysLeadBack
    <3> QED BY <3>4 DEF d
  <2>2. Reading(e) \in Int
    BY <1>11 DEF CivilDays
  <2> HIDE DEF d
  <2> DEFINE n == r.secs
             f == (j - Reading(e)) * 86400 + c
  <2>3. StampOn(Reading(e), x.t) + f = now /\ f \in Int
    <3>1. LeadOn(Reading(e), j, x.t, y.t)
      BY <1>1, <1>2, <2>2, StampsLeadOn, Zenon
    <3>2. StampOn(Reading(e), x.t) + ((j - Reading(e)) * 86400 + TDiffS(x.t, y.t)) = StampOn(j, y.t)
      BY <3>1, SMT DEF LeadOn
    <3>3. f \in Int
      BY <1>2, <1>13, <2>2, SMT
    <3> QED BY <3>2, <3>3, SMT DEF c
  <2>4. n = f
    BY <1>4, <1>11, SMT
  <2>5. CivilStamp(now) /\ ToUnixEpoch(y) = now
    BY SMT DEF j
  <2>6. Reading(d) \in CivilDays
    BY <1>11, <2>1, SMT
  <2> HIDE DEF f, n, now
  <2>7. StampOn(Reading(d), z.t) + n = now /\ n \in Int
    BY <1>3, <2>1, <2>3, <2>4, Zenon
  <2>8. ToUnixEpoch(DtAddSecs([z EXCEPT !.d = d], n)) = StampOn(Reading(d), z.t) + n
    BY <1>3, <2>1, <2>5, <2>6, <2>7, BackReaches, Zenon
  <2> QED BY <1>8, <2>5, <2>7, <2>8, Zenon DEF n
<1> QED BY <1>9, <1>12, Zenon DEF z

\* A date that there is, or that there is no year for, has a number.
LEMMA NumberIsInt ==
  ASSUME NEW d \in Slots, d # NoDate
  PROVE  ConvToDaisy(d) \in Int
<1>1. CASE d \in Dates
  BY <1>1, DatesAre, Zenon
<1>2. CASE d = Naught("ymd")
  <2>1. d.typ = "ymd" /\ d.y = 0 /\ d.m = 0 /\ d.d = 0
    BY <1>2 DEF Naught, Ymd, Y12
  <2>2. ConvToDaisy(d) = YmdToDaisy(d)
    BY <2>1, SMT DEF ConvToDaisy, Numbers
  <2>3. YmdToDaisy(d) \in Int
    BY <2>1, SMT DEF YmdToDaisy, One
  <2> QED BY <2>2, <2>3
<1> QED BY <1>1, <1>2 DEF Slots

\* dt_dtdiff() in seconds is what lies between two date-times.
LEMMA SecsApartAre ==
  ASSUME NEW x \in Moments, NEW y \in Moments, SandwichP(x), SandwichP(y), Plain(x), Plain(y)
  PROVE  DtDiffSecs(x, y).dv = ToUnixEpoch(y) - ToUnixEpoch(x)
<1> DEFINE i == ConvToDaisy(x.d)
           j == ConvToDaisy(y.d)
<1>1. ASSUME NEW w \in Moments, SandwichP(w), Plain(w)
      PROVE  /\ w.typ # "unk" /\ w.typ # "sexy" /\ w.sw = TRUE /\ w.t \in Clocks /\ w.t.h < 24
             /\ ConvToDaisy(w.d) \in Int /\ ToUnixEpoch(w) = StampOn(ConvToDaisy(w.d), w.t)
  <2>1. /\ w.sw \in BOOLEAN /\ w.d \in Slots /\ w.t \in Clocks
        /\ w.typ = "sexy" => w.sw = FALSE
        /\ w.typ # "sexy" => w.typ = w.d.typ
    BY <1>1, MomentsAre, Zenon
  <2>2. w.typ # "unk" /\ w.typ # "sexy" /\ w.sw = TRUE /\ w.t.h < 24
    BY <1>1, <2>1 DEF SandwichP, Plain
  <2>3. w.d # NoDate
    BY <2>1, <2>2, SlotsAre, Zenon
  <2>4. ToUnixEpoch(w) = StampOn(ConvToDaisy(w.d), w.t)
    BY <2>2, Zenon DEF ToUnixEpoch, OnlyTP
  <2> QED BY <2>1, <2>2, <2>3, <2>4, NumberIsInt, Zenon
<1>2. /\ x.typ # "unk" /\ x.typ # "sexy" /\ x.sw = TRUE /\ x.t \in Clocks /\ x.t.h < 24
      /\ i \in Int /\ ToUnixEpoch(x) = StampOn(i, x.t)
  BY <1>1, Zenon
<1>3. /\ y.typ # "unk" /\ y.typ # "sexy" /\ y.sw = TRUE /\ y.t \in Clocks /\ y.t.h < 24
      /\ j \in Int /\ ToUnixEpoch(y) = StampOn(j, y.t)
  BY <1>1, Zenon
<1>4. DtDiffSecs(x, y).dv = TDiffS(x.t, y.t) + DDiff("d", x.d, y.d) * SECS_PER_DAY
  BY <1>2, <1>3 DEF DtDiffSecs, OnlyTP, OnlyDP
<1>5. DDiff("d", x.d, y.d) = j - i
  BY Zenon DEF DDiff, NumbersApart
<1> HIDE DEF i, j
<1>6. StampOn(j, y.t) - StampOn(i, x.t) = TDiffS(x.t, y.t) + (j - i) * SECS_PER_DAY
  <2>1. LeadOn(i, j, x.t, y.t)
    BY <1>2, <1>3, StampsLeadOn, Zenon
  <2> QED BY <2>1, SMT DEF LeadOn
<1> QED BY <1>2, <1>3, <1>4, <1>5, <1>6, Zenon

\* Differences of date-times in seconds are what lies between them, and in
\* months and days or in years and days, and seconds, they lead from the first
\* one to the second one, for every two date-times.
THEOREM DifferencesLeadBack == ASSUME Known PROVE Spec => []DifferencesAddBack
<1>1. IInv => DifferencesAddBack
  <2> SUFFICES ASSUME IInv, Differ PROVE DifferencesAddBack
    BY DEF DifferencesAddBack
  <2> DEFINE x == asked.from
  <2>1. x \in Moments /\ dt \in Moments /\ Base \in Int
    BY DEF IInv, AskedIs, Known
  <2>2. SandwichP(dt) /\ SandwichP(x) /\ Plain(dt) /\ Plain(x)
    BY DEF Differ
  <2>3. /\ DtDiffSecs(x, dt).dv = ToUnixEpoch(dt) - ToUnixEpoch(x)
        /\ DtDiffSecs(dt, x).dv = ToUnixEpoch(x) - ToUnixEpoch(dt)
    BY <2>1, <2>2, SecsApartAre, Zenon
  <2>4. ASSUME DatedApart, NEW kind \in {"ymd", "yd"}
        PROVE  AddsBack(kind, DtConv("ymd", x), x, dt)
    <3>1. Dated(x) /\ Dated(dt) /\ CivilStamp(ToUnixEpoch(dt)) /\ ToUnixEpoch(x) <= ToUnixEpoch(dt)
      BY <2>4 DEF DatedApart
    <3>2. OnDate(x) /\ ToUnixEpoch(x) = StampOn(ConvToDaisy(x.d), x.t)
      BY <2>1, <2>2, <3>1, OnDateIs, Zenon
    <3>3. OnDate(dt) /\ ToUnixEpoch(dt) = StampOn(ConvToDaisy(dt.d), dt.t)
      BY <2>1, <2>2, <3>1, OnDateIs, Zenon
    <3> HIDE DEF x
    <3> QED BY <2>1, <3>1, <3>2, <3>3, PartsAddBack, Zenon
  <2> QED BY <2>3, <2>4, Zenon DEF DifferencesAddBack
<1>2. Spec => []IInv
  BY Kept, Zenon
<1> QED
  BY <1>1, <1>2, PTL
=============================================================================
