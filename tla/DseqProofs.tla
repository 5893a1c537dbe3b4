----------------------------- MODULE DseqProofs -----------------------------
(***************************************************************************)
(* Proofs about dseq: no date before the first or after the last one is    *)
(* printed, and none on a weekday to be skipped, for dates of any of the   *)
(* calendars that count days in months or years or at all, and stacks of   *)
(* increments of any length; and where the increment is of days or weeks,  *)
(* none that was asked for is left out.                                    *)
(***************************************************************************)
EXTENDS Dseq, CalendarProofs

-----------------------------------------------------------------------------
(* Stacks of durations are added one after the other. *)

\* f is what comes of x when the durations at a set of places are added, the
\* one at the last place last.
Folds(f, x, durs, P) ==
  f = [s \in SUBSET P |-> IF s = {} THEN x ELSE DateAddOne(f[s \ {Max(s)}], durs[Max(s)])]

\* Of places up to one the last is that one, and the others are before it.
LEMMA LastOfPlaces ==
  ASSUME NEW n \in Nat, NEW s \in SUBSET (1 .. n + 1), n + 1 \in s
  PROVE  Max(s) = n + 1 /\ s \ {Max(s)} \in SUBSET (1 .. n)
<1>1. \A m \in s : m <= n + 1 /\ m \in Int
  OBVIOUS
<1>2. Max(s) = n + 1
  <2> DEFINE AtEnd(m) == m \in s /\ \A y \in s : m >= y
  <2>1. AtEnd(n + 1)
    BY <1>1
  <2>2. \A m : AtEnd(m) => m = n + 1
    <3> SUFFICES ASSUME NEW m, AtEnd(m) PROVE m = n + 1
      OBVIOUS
    <3>1. m >= n + 1 /\ m <= n + 1 /\ m \in Int
      BY <1>1
    <3> QED BY <3>1
  <2>3. Max(s) = CHOOSE m \in s : \A y \in s : m >= y
    BY Zenon DEF Max
  <2>4. AtEnd(Max(s))
    BY <2>1, <2>3, Zenon
  <2> HIDE DEF AtEnd
  <2> QED BY <2>2, <2>4, Zenon
<1>3. s \ {n + 1} \subseteq 1 .. n
  BY SMT
<1> QED BY <1>2, <1>3

\* FoldLeft is by CHOOSE: there is such a function for stacks of any length.
LEMMA FoldExists ==
  ASSUME NEW x, NEW durs
  PROVE  \A n \in Nat : \E f : Folds(f, x, durs, 1 .. n)
<1> DEFINE S == {n \in Nat : \E f : Folds(f, x, durs, 1 .. n)}
           Val(f, s) == IF s = {} THEN x ELSE DateAddOne(f[s \ {Max(s)}], durs[Max(s)])
<1>1. 0 \in S
  <2> DEFINE f == [s \in SUBSET {} |-> x]
  <2>1. \A s \in SUBSET {} : Val(f, s) = x
    OBVIOUS
  <2>2. f = [s \in SUBSET {} |-> Val(f, s)]
    BY <2>1
  <2>3. 1 .. 0 = {}
    BY SMT
  <2>4. Folds(f, x, durs, 1 .. 0)
    BY <2>2, <2>3, Zenon DEF Folds
  <2> QED BY <2>4
<1>2. ASSUME NEW n \in Nat, n \in S PROVE n + 1 \in S
  <2>1. PICK f : Folds(f, x, durs, 1 .. n)
    BY <1>2
  <2>0. \A s \in SUBSET (1 .. n) : f[s] = Val(f, s)
    BY <2>1, Zenon DEF Folds
  <2> DEFINE g == [s \in SUBSET (1 .. n + 1) |->
                     IF n + 1 \in s THEN DateAddOne(f[s \ {n + 1}], durs[n + 1]) ELSE f[s]]
  <2>2. ASSUME NEW s \in SUBSET (1 .. n) PROVE g[s] = f[s]
    <3>1. s \in SUBSET (1 .. n + 1) /\ n + 1 \notin s
      BY SMT
    <3> QED BY <3>1
  <2>3. ASSUME NEW s \in SUBSET (1 .. n + 1) PROVE g[s] = Val(g, s)
    <3>1. CASE n + 1 \in s
      <4>1. Max(s) = n + 1 /\ s \ {Max(s)} \in SUBSET (1 .. n)
        BY <3>1, LastOfPlaces
      <4>2. g[s] = DateAddOne(f[s \ {n + 1}], durs[n + 1])
        BY <3>1
      <4>3. g[s \ {n + 1}] = f[s \ {n + 1}]
        BY <2>2, <4>1
      <4> HIDE DEF g
      <4> QED BY <3>1, <4>1, <4>2, <4>3
    <3>2. CASE n + 1 \notin s /\ s # {}
      <4>1. s \in SUBSET (1 .. n)
        BY <3>2, SMT
      <4>2. s \ {Max(s)} \in SUBSET (1 .. n)
        BY <4>1
      <4>3. g[s] = f[s] /\ g[s \ {Max(s)}] = f[s \ {Max(s)}]
        BY <2>2, <4>1, <4>2, Zenon
      <4> HIDE DEF g
      <4> QED BY <2>0, <3>2, <4>1, <4>3, Zenon
    <3>3. CASE s = {}
      <4>1. {} \in SUBSET (1 .. n)
        OBVIOUS
      <4>2. g[{}] = f[{}]
        BY <2>2, <4>1, Zenon
      <4> HIDE DEF g
      <4> QED BY <2>0, <3>3, <4>1, <4>2, Zenon
    <3> QED BY <3>1, <3>2, <3>3
  <2>4. g = [s \in SUBSET (1 .. n + 1) |-> g[s]]
    OBVIOUS
  <2> HIDE DEF g
  <2>5. Folds(g, x, durs, 1 .. n + 1)
    BY <2>3, <2>4, Zenon DEF Folds
  <2> QED BY <2>5
<1> HIDE DEF S
<1>3. Nat \subseteq S
  BY <1>1, <1>2, AllNats, Zenon
<1> QED BY <1>3 DEF S

\* What every single addition keeps, a stack of them keeps.
LEMMA StackKeeps ==
  ASSUME NEW T, NEW D, \A y \in T : \A dur \in D : DateAddOne(y, dur) \in T,
         NEW x \in T, NEW durs \in Seq(D)
  PROVE  DateAdd(x, durs) \in T
<1> DEFINE P == DOMAIN durs
           f == CHOOSE h : Folds(h, x, durs, P)
<1>1. P = 1 .. Len(durs) /\ Len(durs) \in Nat
  BY SMT
<1>2. Folds(f, x, durs, P)
  BY <1>1, FoldExists, Zenon
<1>3. DateAdd(x, durs) = f[P]
  BY Zenon DEF DateAdd, FoldLeft, MapThenFoldSet, Folds
<1>4. \A s \in SUBSET P : f[s] = IF s = {} THEN x ELSE DateAddOne(f[s \ {Max(s)}], durs[Max(s)])
  BY <1>2, Zenon DEF Folds
<1> HIDE DEF f, P
<1> DEFINE S == {n \in Nat : \A s \in SUBSET P : s \subseteq 1 .. n => f[s] \in T}
<1>5. 0 \in S
  <2>1. 1 .. 0 = {}
    BY SMT
  <2>2. ASSUME NEW s \in SUBSET P, s \subseteq 1 .. 0 PROVE f[s] \in T
    <3>1. s = {}
      BY <2>1, <2>2
    <3> QED BY <1>4, <3>1
  <2> QED BY <2>2
<1>6. ASSUME NEW n \in Nat, n \in S PROVE n + 1 \in S
  <2>1. ASSUME NEW s \in SUBSET P, s \subseteq 1 .. n + 1 PROVE f[s] \in T
    <3>1. CASE n + 1 \in s
      <4>1. Max(s) = n + 1 /\ s \ {Max(s)} \in SUBSET (1 .. n)
        BY <2>1, <3>1, LastOfPlaces
      <4>2. s \ {Max(s)} \in SUBSET P /\ Max(s) \in P
        BY <3>1, <4>1
      <4>3. f[s \ {Max(s)}] \in T
        BY <1>6, <4>1, <4>2
      <4>4. durs[Max(s)] \in D
        BY <4>2 DEF P
      <4>5. s # {}
        BY <3>1
      <4> QED BY <1>4, <4>3, <4>4, <4>5, Zenon
    <3>2. CASE n + 1 \notin s
      <4>1. s \subseteq 1 .. n
        BY <2>1, <3>2, SMT
      <4> QED BY <1>6, <4>1
    <3> QED BY <3>1, <3>2
  <2>2. n + 1 \in Nat
    OBVIOUS
  <2> QED BY <2>1, <2>2
<1> HIDE DEF S
<1>7. Nat \subseteq S
  BY <1>5, <1>6, AllNats, Zenon
<1>8. Len(durs) \in S
  BY <1>1, <1>7
<1> QED BY <1>1, <1>3, <1>8 DEF S

-----------------------------------------------------------------------------
(* Dates without a time, and what is added to them. *)

\* Dates of days, and those under way.
DaysOnly == {OnlyD(d) : d \in DayDates}

\* Durations: a unit, and how many of it.
ClockUnits == {"h", "m", "s", "ns"}
Durs == [unit : Units \union ClockUnits, dv : Int, tai : BOOLEAN]

\* A date of a day is on its own, with neither a time nor in the place of one.
LEMMA OnlyDIs ==
  ASSUME NEW d \in DayDates
  PROVE  /\ OnlyD(d).typ = d.typ /\ OnlyD(d).d = d /\ OnlyD(d).t = Midnight /\ ~OnlyD(d).sw
         /\ OnlyDP(OnlyD(d)) /\ ~OnlyTP(OnlyD(d)) /\ ~SandwichP(OnlyD(d))
         /\ d.typ \in {"ymd", "yd", "daisy"}
<1>1. d.typ \in {"ymd", "yd", "daisy"}
  BY KindsAre, Zenon DEF DayDates
<1>2. OnlyD(d).typ = d.typ /\ OnlyD(d).d = d /\ OnlyD(d).t = Midnight /\ ~OnlyD(d).sw
  BY SMT DEF OnlyD, Sandwich
<1> QED BY <1>1, <1>2 DEF OnlyDP, OnlyTP, SandwichP

\* Another date in the place of a date makes that one on its own.
LEMMA OnlyDWith ==
  ASSUME NEW d \in DayDates, NEW e \in DayDates, e.typ = d.typ
  PROVE  [OnlyD(d) EXCEPT !.d = e] = OnlyD(e)
<1>1. ASSUME NEW f, f.typ = d.typ
      PROVE  OnlyD(f) = [typ |-> d.typ, sw |-> FALSE, d |-> f, t |-> Midnight, sx |-> 0, znfxd |-> FALSE,
                         neg |-> FALSE, zdiff |-> 0]
  <2> DEFINE k == d.typ
             m == Midnight
             o == Sandwich(f, m)
             q == [o EXCEPT !.sw = FALSE]
  <2>1. o = [typ |-> k, sw |-> TRUE, d |-> f, t |-> m, sx |-> 0, znfxd |-> FALSE, neg |-> FALSE, zdiff |-> 0]
    BY <1>1, Zenon DEF Sandwich, k
  <2>2. q = [o EXCEPT !.sw = FALSE] /\ OnlyD(f) = q
    BY Zenon DEF OnlyD
  <2> HIDE DEF k, m, o, q
  <2>3. q = [typ |-> k, sw |-> FALSE, d |-> f, t |-> m, sx |-> 0, znfxd |-> FALSE, neg |-> FALSE, zdiff |-> 0]
    BY <2>1, <2>2, Zenon
  <2> QED BY <2>2, <2>3, Zenon DEF k, m
<1> DEFINE x == OnlyD(d)
           y == [x EXCEPT !.d = e]
           k == d.typ
           m == Midnight
<1>2. x = [typ |-> k, sw |-> FALSE, d |-> d, t |-> m, sx |-> 0, znfxd |-> FALSE, neg |-> FALSE, zdiff |-> 0]
  BY <1>1, Zenon
<1>3. OnlyD(e) = [typ |-> k, sw |-> FALSE, d |-> e, t |-> m, sx |-> 0, znfxd |-> FALSE, neg |-> FALSE, zdiff |-> 0]
  BY <1>1, Zenon
<1>4. y = [x EXCEPT !.d = e]
  OBVIOUS
<1> HIDE DEF x, y, k, m
<1>5. y = [typ |-> k, sw |-> FALSE, d |-> e, t |-> m, sx |-> 0, znfxd |-> FALSE, neg |-> FALSE, zdiff |-> 0]
  BY <1>2, <1>4, Zenon
<1> QED BY <1>3, <1>5, Zenon DEF x, y

\* date_add() of a single duration: days, months and years make another date, and
\* hours, minutes and seconds none.
LEMMA AddOneKeeps ==
  ASSUME NEW d \in DayDates, NEW dur \in Durs
  PROVE  \E e \in DayDates : e.typ = d.typ /\ DateAddOne(OnlyD(d), dur) = OnlyD(e)
<1> DEFINE x == OnlyD(d)
<1>1. /\ x.typ = d.typ /\ x.d = d /\ ~x.sw /\ OnlyDP(x) /\ ~OnlyTP(x)
      /\ d.typ \in {"ymd", "yd", "daisy"}
  BY OnlyDIs
<1>2. dur.unit \in Units \union ClockUnits /\ dur.dv \in Int
  BY DEF Durs
<1> HIDE DEF x
<1>3. ASSUME NEW e \in DayDates, DtAdd(x, dur) = OnlyD(e) PROVE DateAddOne(x, dur) = OnlyD(e)
  <2>1. ~OnlyTP(OnlyD(e))
    BY OnlyDIs
  <2> QED BY <1>3, <2>1, Zenon DEF DateAddOne, CountOn
<1>4. x.typ # "sexy"
  BY <1>1
<1>5. DtAdd(x, dur) = PlainAdd(x, dur)
  BY <1>1, <1>4, Zenon DEF DtAdd, RealAdd
<1>6. CASE dur.unit \in Units
  <2> DEFINE e == DAdd(d, dur.unit, dur.dv)
  <2>1. dur.unit \notin {"h", "m", "s"} /\ dur.unit # "ns"
    BY <1>6 DEF Units
  <2>2. PlainAdd(x, dur) = [x EXCEPT !.d = DAdd(x.d, dur.unit, dur.dv)]
    BY <2>1, SMT DEF PlainAdd
  <2>3. e \in DayDates /\ e.typ = d.typ
    BY <1>2, <1>6, DAddKeeps
  <2>4. [x EXCEPT !.d = e] = OnlyD(e)
    BY <2>3, OnlyDWith DEF x
  <2>5. DtAdd(x, dur) = OnlyD(e)
    BY <1>1, <1>5, <2>2, <2>4
  <2> HIDE DEF e
  <2> QED BY <1>3, <2>3, <2>5 DEF x
<1>7. CASE dur.unit \in {"h", "m", "s"}
  <2>1. PlainAdd(x, dur) = AddSecs(x, InSecs(dur))
    BY <1>7, SMT DEF PlainAdd
  <2>2. PlainAdd(x, dur) = x
    BY <1>1, <2>1 DEF AddSecs
  <2> QED BY <1>3, <1>5, <2>2, Zenon DEF x
<1>8. CASE dur.unit = "ns"
  <2>1. PlainAdd(x, dur) = AddNanos(x, dur.dv)
    BY <1>8, SMT DEF PlainAdd
  <2>2. PlainAdd(x, dur) = x
    BY <1>1, <2>1 DEF AddNanos, AddSecs
  <2> QED BY <1>3, <1>5, <2>2, Zenon DEF x
<1> QED BY <1>2, <1>6, <1>7, <1>8 DEF ClockUnits

\* date_add(): whatever is added, a date stays one of its calendar.
LEMMA AddKeeps ==
  ASSUME NEW x \in DaysOnly, NEW durs \in Seq(Durs)
  PROVE  DateAdd(x, durs) \in DaysOnly /\ DateAdd(x, durs).typ = x.typ
<1> DEFINE T == {y \in DaysOnly : y.typ = x.typ}
<1>1. ASSUME NEW y \in T, NEW dur \in Durs PROVE DateAddOne(y, dur) \in T
  <2>1. PICK d \in DayDates : y = OnlyD(d)
    BY DEF DaysOnly
  <2>2. PICK e \in DayDates : e.typ = d.typ /\ DateAddOne(OnlyD(d), dur) = OnlyD(e)
    BY AddOneKeeps
  <2>3. OnlyD(e).typ = x.typ
    BY <2>1, <2>2, OnlyDIs
  <2> QED BY <2>1, <2>2, <2>3 DEF DaysOnly
<1>2. x \in T
  OBVIOUS
<1> HIDE DEF T
<1>3. DateAdd(x, durs) \in T
  BY <1>1, <1>2, StackKeeps, Zenon
<1> QED BY <1>3 DEF T

\* date_neg_dur(): durations turned around are durations.
LEMMA NegKeeps ==
  ASSUME NEW durs \in Seq(Durs)
  PROVE  Neg(durs) \in Seq(Durs)
<1>1. DOMAIN durs = 1 .. Len(durs) /\ Len(durs) \in Nat
  OBVIOUS
<1>2. \A i \in DOMAIN durs : durs[i] \in Durs
  OBVIOUS
<1>3. \A i \in DOMAIN durs : [durs[i] EXCEPT !.dv = -@] \in Durs
  BY <1>2, SMT DEF Durs
<1>4. Neg(durs) \in [1 .. Len(durs) -> Durs]
  BY <1>1, <1>3, Zenon DEF Neg
<1> QED BY <1>1, <1>4, SMT

\* ... of the same units.
LEMMA NegFeasible ==
  ASSUME NEW durs \in Seq(Durs)
  PROVE  /\ Len(Neg(durs)) = Len(durs)
         /\ Len(durs) = 1 => Neg(durs)[1].unit = durs[1].unit
         /\ FeasibleP(Neg(durs)) <=> FeasibleP(durs)
<1>1. DOMAIN Neg(durs) = DOMAIN durs
  BY DEF Neg
<1>2. Len(Neg(durs)) = Len(durs)
  BY <1>1, NegKeeps, SMT
<1>3. ASSUME Len(durs) = 1 PROVE Neg(durs)[1].unit = durs[1].unit
  <2>1. 1 \in DOMAIN durs /\ durs[1] \in Durs
    BY <1>3
  <2>2. Neg(durs)[1] = [durs[1] EXCEPT !.dv = -durs[1].dv]
    BY <2>1, Zenon DEF Neg
  <2> QED BY <2>1, <2>2 DEF Durs
<1> QED BY <1>2, <1>3 DEF FeasibleP

-----------------------------------------------------------------------------
(* The order of dates, and the moments they are. *)

\* dt_fixup(): a date is cropped to a day.
LEMMA FixupIs ==
  ASSUME NEW d \in DayDates
  PROVE  DtFixup(OnlyD(d)) = OnlyD(DFixup(d)) /\ DFixup(d) \in CrispDates /\ DFixup(d).typ = d.typ
<1>1. DFixup(d) \in CrispDates /\ DFixup(d).typ = d.typ
  <2>1. CASE d \in YmdDates
    BY <2>1, FixupIsCrisp, KindsAre, Zenon DEF CrispDates, Ymds
  <2>2. CASE d \in YdDates
    BY <2>2, FixupIsCrisp, KindsAre, Zenon DEF CrispDates, Yds
  <2>3. CASE d \in DaisyDates
    <3>1. d.typ = "daisy"
      BY <2>3, KindsAre
    <3>2. DFixup(d) = d
      BY <3>1 DEF DFixup
    <3> QED BY <2>3, <3>2 DEF CrispDates
  <2> QED BY <2>1, <2>2, <2>3 DEF DayDates
<1>2. DtFixup(OnlyD(d)) = [OnlyD(d) EXCEPT !.d = DFixup(d)]
  BY OnlyDIs, Zenon DEF DtFixup
<1>3. DFixup(d) \in DayDates
  BY <1>1, KindsAre
<1> QED BY <1>1, <1>2, <1>3, OnlyDWith

\* Comparing tells one of three.
LEMMA CmpIsSign ==
  ASSUME NEW a \in DayDates, NEW b \in DayDates, a.typ = b.typ
  PROVE  /\ DCmp(a, b) \in {-1, 0, 1}
         /\ DtCmp(OnlyD(a), OnlyD(b)) = DCmp(a, b)
<1>0. \A n \in Int : Sgn(n) \in {-1, 0, 1}
  BY SMT DEF Sgn, One
<1>1. DCmp(a, b) \in {-1, 0, 1}
  <2>1. CASE a \in YmdDates
    <3>1. /\ a.typ = "ymd" /\ b.typ = "ymd"
          /\ a.y \in Int /\ a.m \in Int /\ a.d \in Int /\ b.y \in Int /\ b.m \in Int /\ b.d \in Int
      BY <2>1, KindsAre, SMT DEF YmdDates, Years12
    <3> DEFINE s == <<a.y, a.m, a.d>>
               t == <<b.y, b.m, b.d>>
    <3>2. s \in [1 .. 3 -> Int] /\ t \in [1 .. 3 -> Int]
      BY <3>1
    <3>3. DCmp(a, b) = Lexical(s, t)
      BY <3>1, Zenon DEF DCmp
    <3> HIDE DEF s, t
    <3>4. s[1] - t[1] \in Int /\ s[2] - t[2] \in Int /\ s[3] - t[3] \in Int
      BY <3>2
    <3> QED BY <1>0, <3>2, <3>3, <3>4, LexicalOf3, Zenon
  <2>2. CASE a \in YdDates
    <3>1. /\ a.typ = "yd" /\ b.typ = "yd"
          /\ a.y \in Int /\ a.d \in Int /\ b.y \in Int /\ b.d \in Int
      BY <2>2, KindsAre, SMT DEF YdDates, Years16
    <3> DEFINE s == <<a.y, a.d>>
               t == <<b.y, b.d>>
    <3>2. s \in [1 .. 2 -> Int] /\ t \in [1 .. 2 -> Int]
      BY <3>1
    <3>3. DCmp(a, b) = Lexical(s, t)
      BY <3>1, Zenon DEF DCmp
    <3> HIDE DEF s, t
    <3>4. s[1] - t[1] \in Int /\ s[2] - t[2] \in Int
      BY <3>2
    <3> QED BY <1>0, <3>2, <3>3, <3>4, LexicalOf2, Zenon
  <2>3. CASE a \in DaisyDates
    <3>1. a.typ = "daisy" /\ b.typ = "daisy" /\ a.n \in Int /\ b.n \in Int
      BY <2>3, KindsAre
    <3>2. DCmp(a, b) = Sgn(a.n - b.n)
      BY <3>1 DEF DCmp
    <3> QED BY <1>0, <3>1, <3>2
  <2> QED BY <2>1, <2>2, <2>3 DEF DayDates
<1>2. TimeCmp(Midnight, Midnight) = 0
  BY LexicalSame DEF TimeCmp
<1>3. DtCmp(OnlyD(a), OnlyD(b)) = OrElse(DCmp(a, b), 0)
  <2>1. /\ OnlyD(a).typ = a.typ /\ OnlyD(a).d = a /\ OnlyD(a).t = Midnight
        /\ OnlyD(b).typ = a.typ /\ OnlyD(b).d = b /\ OnlyD(b).t = Midnight
        /\ a.typ \in {"ymd", "yd", "daisy"}
    BY OnlyDIs
  <2>2. a.typ \notin {"unk", "sexy", "ldn", "mdn"}
    BY <2>1
  <2> QED BY <1>2, <2>1, <2>2, Zenon DEF DtCmp
<1> QED BY <1>1, <1>3 DEF OrElse

\* What the days that a sequence may be of are.
LEMMA DatableMore ==
  ASSUME NEW a, Datable(a)
  PROVE  /\ a \in DayDates /\ DFixup(a) = a
         /\ ConvToDaisy(a) \in Int /\ 1 <= ConvToDaisy(a)
         /\ a \in Ymds \union Yds => Reading(a) = ConvToDaisy(a)
         /\ a \in DaisyDates => a.n = ConvToDaisy(a)
<1>1. a \in CrispDates /\ ConvToDaisy(a) \in Int /\ 1 <= ConvToDaisy(a)
  BY DEF Datable
<1>2. a \in DayDates
  BY <1>1, KindsAre
<1>3. CASE a \in Ymds \union Yds
  <2>1. Reading(DFixup(a)) = ConvToDaisy(a) /\ DFixup(a) = a
    BY <1>3, DatableIs, FixupIsCrisp, Zenon
  <2>2. a \notin DaisyDates
    BY <1>3, KindsAre DEF Ymds, Yds
  <2> QED BY <1>1, <1>2, <2>1, <2>2
<1>4. CASE a \in DaisyDates
  <2>1. a.typ = "daisy" /\ a.n \in Int
    BY <1>4, KindsAre
  <2>2. DFixup(a) = a
    BY <2>1 DEF DFixup
  <2>3. ConvToDaisy(a) = DayNumber(a)
    BY <2>1 DEF ConvToDaisy, Numbers
  <2>4. a.n = ConvToDaisy(a)
    BY <1>1, <2>1, <2>3, SMT DEF DayNumber
  <2>5. a \notin Ymds \union Yds
    BY <2>1, KindsAre DEF Ymds, Yds
  <2> QED BY <1>1, <1>2, <2>2, <2>4, <2>5
<1> QED BY <1>1, <1>3, <1>4 DEF CrispDates

\* A day that comes after a day of a year from 1601 on is of such a year.
LEMMA DayAfter ==
  ASSUME NEW f \in CrispDates, NEW a, Datable(a), f.typ = a.typ, DCmp(f, a) >= 0
  PROVE  ConvToDaisy(f) \in Int /\ ConvToDaisy(a) <= ConvToDaisy(f)
<1>1. /\ a \in CrispDates /\ ConvToDaisy(a) \in Int /\ 1 <= ConvToDaisy(a)
      /\ a \in Ymds \union Yds => Reading(a) = ConvToDaisy(a)
      /\ a \in DaisyDates => a.n = ConvToDaisy(a)
  BY DatableMore DEF Datable
<1>2. CASE f \in Ymds \union Yds
  <2>1. (f \in Ymds /\ a \in Ymds) \/ (f \in Yds /\ a \in Yds)
    BY <1>1, <1>2, KindsAre, Zenon DEF Ymds, Yds
  <2>2. Reading(f) \in Int
    BY <2>1, ReadingIs, Zenon DEF Ymds, Yds
  <2>3. DCmp(f, a) = Sgn(Reading(f) - Reading(a)) /\ Reading(a) = ConvToDaisy(a)
    BY <1>1, <2>1, DCmpIsOrder
  <2>4. Reading(f) >= Reading(a)
    BY <1>1, <2>2, <2>3, SMT DEF Sgn, One
  <2>5. f.y >= 1601 \/ f \in Ymds
    BY <1>1, <2>1, <2>2, <2>3, <2>4, LateYears
  <2>6. ConvToDaisy(f) = Reading(f)
    <3>1. CASE f \in Ymds
      BY <3>1, ConvToDaisyIs DEF Ymds
    <3>2. CASE f \in Yds
      <4>1. f \notin Ymds
        BY <3>2, KindsAre DEF Ymds, Yds
      <4> QED BY <2>5, <3>2, <4>1, ConvToDaisyIs DEF Yds
    <3> QED BY <1>2, <3>1, <3>2
  <2> QED BY <2>2, <2>3, <2>4, <2>6
<1>3. CASE f \in DaisyDates
  <2>1. f.typ = "daisy" /\ f.n \in Int
    BY <1>3, KindsAre
  <2>2. a \in DaisyDates
    BY <1>1, <2>1, KindsAre
  <2>3. DCmp(f, a) = Sgn(f.n - a.n) /\ a.n = ConvToDaisy(a)
    BY <1>1, <2>1, <2>2 DEF DCmp
  <2>4. f.n >= a.n
    BY <1>1, <2>1, <2>3, SMT DEF Sgn, One
  <2>5. ConvToDaisy(f) = DayNumber(f)
    BY <2>1 DEF ConvToDaisy, Numbers
  <2>6. ConvToDaisy(f) = f.n
    BY <1>1, <2>1, <2>3, <2>4, <2>5, SMT DEF DayNumber
  <2> QED BY <1>1, <2>1, <2>3, <2>4, <2>6
<1> QED BY <1>2, <1>3 DEF CrispDates

\* ... and one before another day is before it in days.
LEMMA DayBefore ==
  ASSUME NEW f \in CrispDates, NEW b, Datable(b), f.typ = b.typ, DCmp(f, b) <= 0,
         ConvToDaisy(f) \in Int, 1 <= ConvToDaisy(f)
  PROVE  ConvToDaisy(f) <= ConvToDaisy(b)
<1>1. /\ b \in CrispDates /\ ConvToDaisy(b) \in Int
      /\ b \in Ymds \union Yds => Reading(b) = ConvToDaisy(b)
      /\ b \in DaisyDates => b.n = ConvToDaisy(b)
  BY DatableMore DEF Datable
<1>2. CASE f \in Ymds \union Yds
  <2>1. (f \in Ymds /\ b \in Ymds) \/ (f \in Yds /\ b \in Yds)
    BY <1>1, <1>2, KindsAre, Zenon DEF Ymds, Yds
  <2>2. Reading(f) \in Int
    BY <2>1, ReadingIs, Zenon DEF Ymds, Yds
  <2>3. DCmp(f, b) = Sgn(Reading(f) - Reading(b)) /\ Reading(b) = ConvToDaisy(b)
    BY <1>1, <2>1, DCmpIsOrder
  <2>4. Reading(f) <= Reading(b)
    BY <1>1, <2>2, <2>3, SMT DEF Sgn, One
  <2>5. ConvToDaisy(f) = Reading(f)
    <3>1. CASE f \in Ymds
      BY <3>1, ConvToDaisyIs DEF Ymds
    <3>2. CASE f \in Yds
      <4>1. f \in YdDates /\ f.typ = "yd" /\ f.y \in Int
        BY <3>2, KindsAre, SMT DEF Yds, YdDates, Years16
      <4>2. ConvToDaisy(f) = YdToDaisy(f)
        BY <4>1 DEF ConvToDaisy, Numbers
      <4>3. f.y >= 1601
        BY <4>1, <4>2, SMT DEF YdToDaisy, MIN_YEAR
      <4> QED BY <4>1, <4>3, ConvToDaisyIs
    <3> QED BY <1>2, <3>1, <3>2
  <2> QED BY <2>3, <2>4, <2>5
<1>3. CASE f \in DaisyDates
  <2>1. f.typ = "daisy" /\ f.n \in Int
    BY <1>3, KindsAre
  <2>2. b \in DaisyDates
    BY <1>1, <2>1, KindsAre
  <2>3. DCmp(f, b) = Sgn(f.n - b.n) /\ b.n = ConvToDaisy(b)
    BY <1>1, <2>1, <2>2 DEF DCmp
  <2>4. f.n <= b.n
    BY <1>1, <2>1, <2>3, SMT DEF Sgn, One
  <2>5. ConvToDaisy(f) = DayNumber(f)
    BY <2>1 DEF ConvToDaisy, Numbers
  <2>6. ConvToDaisy(f) = f.n
    BY <2>1, <2>5, SMT DEF DayNumber
  <2> QED BY <2>3, <2>4, <2>6
<1> QED BY <1>2, <1>3 DEF CrispDates

\* The moment a date is the midnight of.
MidnightOf(n) == (n - DAISY_UNIX_BASE) * SECS_PER_DAY

\* dt_to_unix_epoch() of a date: the midnight of the day it is cropped to.
LEMMA MomentIs ==
  ASSUME NEW d \in DayDates, ConvToDaisy(DFixup(d)) \in Int
  PROVE  Moment(OnlyD(d)) = MidnightOf(ConvToDaisy(DFixup(d)))
<1> DEFINE f == DFixup(d)
<1>1. DtFixup(OnlyD(d)) = OnlyD(f) /\ f \in DayDates
  BY FixupIs, KindsAre
<1> HIDE DEF f
<1>2. /\ OnlyD(f).typ \in {"ymd", "yd", "daisy"} /\ OnlyD(f).d = f /\ OnlyD(f).t = Midnight
      /\ ~OnlyTP(OnlyD(f)) /\ ~OnlyTP(OnlyD(d))
  BY <1>1, OnlyDIs
<1>3. OnlyD(f).typ # "sexy"
  BY <1>2
<1>4. Moment(OnlyD(d)) = StampOn(ConvToDaisy(f), Midnight)
  BY <1>1, <1>2, <1>3, Zenon DEF Moment, ToUnixEpoch
<1>5. SecsSinceMidnight(Midnight) = 0
  BY DEF SecsSinceMidnight, Midnight
<1>6. ConvToDaisy(f) \in Int
  BY DEF f
<1> QED BY <1>4, <1>5, <1>6 DEF StampOn, MidnightOf, f, DAISY_UNIX_BASE, SECS_PER_DAY

\* Midnights are in the order of their days.
LEMMA MidnightsInOrder ==
  ASSUME NEW m \in Int, NEW n \in Int
  PROVE  /\ MidnightOf(m) \in Int
         /\ m <= n => MidnightOf(m) <= MidnightOf(n)
BY SMT DEF MidnightOf, DAISY_UNIX_BASE, SECS_PER_DAY

\* dt_get_wday(): the weekday of a day is found, but for days of the year.
LEMMA WdayOfDate ==
  ASSUME NEW f \in CrispDates, f.typ # "yd", ConvToDaisy(f) \in Int, 1 <= ConvToDaisy(f)
  PROVE  GetWday(f) = DaisyGetWday(ConvToDaisy(f))
<1>1. CASE f \in Ymds
  <2>1. f \in YmdDates /\ f.typ = "ymd"
    BY <1>1, KindsAre DEF Ymds
  <2>2. GetWday(f) = YmdGetWday(f)
    BY <2>1 DEF GetWday
  <2> QED BY <2>1, <2>2, WdayIsOfDay, ConvToDaisyIs
<1>2. CASE f \in Yds
  BY <1>2, KindsAre DEF Yds
<1>3. CASE f \in DaisyDates
  <2>1. f.typ = "daisy" /\ f.n \in Int
    BY <1>3, KindsAre
  <2>2. GetWday(f) = DaisyGetWday(f.n)
    BY <2>1 DEF GetWday
  <2>3. ConvToDaisy(f) = DayNumber(f)
    BY <2>1 DEF ConvToDaisy, Numbers
  <2>4. ConvToDaisy(f) = f.n
    BY <2>1, <2>3, SMT DEF DayNumber
  <2> QED BY <2>2, <2>4
<1> QED BY <1>1, <1>2, <1>3 DEF CrispDates

\* dt_dconv(): a date of another calendar is of the same day.
LEMMA ConvIsDatable ==
  ASSUME NEW e, Datable(e), NEW typ \in {"ymd", "yd", "daisy"}
  PROVE  /\ Datable(DConv(typ, e)) /\ DConv(typ, e).typ = typ
         /\ ConvToDaisy(DConv(typ, e)) = ConvToDaisy(e)
<1> DEFINE n == ConvToDaisy(e)
           c == DConv(typ, e)
<1>1. e \in CrispDates /\ n \in Int /\ 1 <= n /\ n <= LastDay
  BY DEF Datable
<1>2. DFixup(e) = e
  BY DatableMore
<1>3. c = ConvTo(typ, e)
  BY <1>2 DEF DConv
<1>4. CASE typ = "ymd"
  <2>1. c \in Ymds /\ Reading(c) = n
    BY <1>4, YmdKeepsDay
  <2>2. c \in YmdDates /\ c.typ = "ymd" /\ c \in CrispDates
    BY <2>1, KindsAre DEF Ymds, CrispDates
  <2>3. ConvToDaisy(c) = n
    BY <2>1, <2>2, ConvToDaisyIs
  <2> HIDE DEF c
  <2> QED BY <1>1, <1>4, <2>2, <2>3 DEF Datable, c
<1>5. CASE typ = "yd"
  <2>1. c \in Yds /\ Reading(c) = n /\ c.typ = "yd"
    <3>1. CASE e \in Ymds \union Yds
      <4>1. e \in YmdDates \union YdDates /\ Reading(DFixup(e)) = n /\ n \in CivilDays
        BY <3>1, DatableIs
      <4>2. c \in Ymds \union Yds /\ c.typ = "yd" /\ Reading(c) = n
        BY <1>5, <4>1, ConvertKeepsDay
      <4>3. c \notin Ymds
        BY <4>2, KindsAre DEF Ymds
      <4> QED BY <4>2, <4>3
    <3>2. CASE e \in DaisyDates
      <4>1. e.typ = "daisy" /\ e.n \in Int
        BY <3>2, KindsAre
      <4>2. n = DayNumber(e)
        BY <4>1 DEF ConvToDaisy, Numbers
      <4>3. c = DaisyToYd(n)
        BY <1>3, <1>5, <4>1, <4>2, SMT DEF ConvTo, ConvToYd, Numbers
      <4>4. /\ DaisyToYd(n) \in YdDates /\ DaisyToYd(n).d <= GetYdays(DaisyToYd(n).y)
            /\ Jan00Daisy(DaisyToYd(n).y) + DaisyToYd(n).d = n
        BY <1>1, DaisyToYdIsDate DEF LastDay
      <4> HIDE DEF n, c
      <4>5. c \in Yds
        BY <4>3, <4>4 DEF Yds
      <4>6. Reading(c) = n
        BY <4>3, <4>4, ReadingIs
      <4> QED BY <4>3, <4>4, <4>5, <4>6, KindsAre
    <3> QED BY <1>1, <3>1, <3>2 DEF CrispDates
  <2> HIDE DEF c, n
  <2>2. c \in YdDates /\ c.y >= 1601
    BY <1>1, <2>1, LateYears DEF Yds
  <2>3. ConvToDaisy(c) = n
    BY <2>1, <2>2, ConvToDaisyIs
  <2>4. c \in CrispDates
    BY <2>1 DEF CrispDates
  <2> QED BY <1>1, <1>5, <2>1, <2>3, <2>4 DEF Datable, c, n
<1>6. CASE typ = "daisy"
  <2>1. c = [typ |-> "daisy", n |-> n + Epoch("daisy")]
    BY <1>3, <1>6, Zenon DEF ConvTo, Numbers
  <2>2. Epoch("daisy") = 0
    BY DEF Epoch
  <2>3. c \in DaisyDates /\ c.typ = "daisy" /\ c.n = n
    BY <1>1, <2>1, <2>2 DEF DaisyDates
  <2> HIDE DEF c
  <2>4. ConvToDaisy(c) = DayNumber(c)
    BY <2>3 DEF ConvToDaisy, Numbers
  <2>5. DayNumber(c) = n
    BY <1>1, <2>3, SMT DEF DayNumber
  <2>6. c \in CrispDates
    BY <2>3 DEF CrispDates
  <2> QED BY <1>1, <1>6, <2>3, <2>4, <2>5, <2>6 DEF Datable, c
<1> QED BY <1>4, <1>5, <1>6

-----------------------------------------------------------------------------
(* The invariant. *)

\* Command lines: for dates of days and for times, with any increments.
CivilLines ==
  \A a \in Args :
    \/ \E t : a.fst = OnlyT(t)
    \/ /\ \E d : Datable(d) /\ a.fst = OnlyD(d)
       /\ (\E t : a.lst = OnlyT(t)) \/ (\E d : Datable(d) /\ a.lst = OnlyD(d))
       /\ a.ite \in Seq(Durs) /\ a.alt \in Seq(Durs)

\* Dates that are on their way.
Ready(x) == x \in DaysOnly /\ x.typ = clo.fst.typ

\* The ends of the sequence are of days of one calendar.
EndsAreDays ==
  \E a, b : Datable(a) /\ Datable(b) /\ a.typ = b.typ /\ clo.fst = OnlyD(a) /\ clo.lst = OnlyD(b)

\* They are numbers of days where that is feasible.
Countable == FeasibleP(clo.ite) => clo.fst.typ # "ymd"

\* What sequences of dates keep: dates of the calendar of their ends, and when
\* one is to be printed it is none to be left out or not in range.
IDates ==
  /\ EndsAreDays
  /\ Countable
  /\ clo.ite \in Seq(Durs) /\ clo.alt \in Seq(Durs)
  /\ clo.dir \in {-1, 0, 1}
  /\ pc # "failed" => Ready(now)
  /\ pc = "back" \/ ret = "back" => Ready(old)
  /\ pc = "print" => ~Skipp(now) \/ ~InRangeP(now)
  /\ OnlyWhatWasAsked

\* The parts of what was made of the command line.
Parts == {"fst", "lst", "ite", "alt", "ss", "dir"}

\* Nothing is asked of times; command lines that are an error print nothing.
IInv ==
  /\ DOMAIN clo = Parts
  /\ OnlyTP(clo.fst) \/ (pc = "failed" /\ shown = Nothing) \/ IDates

\* The last one is made a date of the first one's calendar, both are numbers of
\* days where that is feasible.
LEMMA EndsOfDates ==
  ASSUME NEW a, NEW d, NEW e, Datable(d), Datable(e), a.fst = OnlyD(d), a.lst = OnlyD(e)
  PROVE  /\ Ends(a).fst = OnlyD(d)
         /\ \E f : Datable(f) /\ f.typ = d.typ /\ Ends(a).lst = OnlyD(f)
<1>1. /\ d \in DayDates /\ e \in DayDates
      /\ OnlyD(d).typ = d.typ /\ OnlyDP(OnlyD(d)) /\ ~OnlyTP(OnlyD(d)) /\ ~SandwichP(OnlyD(d))
      /\ OnlyD(e).typ = e.typ /\ OnlyD(e).d = e /\ OnlyD(e).t = Midnight /\ ~OnlyD(e).sw
      /\ OnlyDP(OnlyD(e)) /\ ~OnlyTP(OnlyD(e)) /\ ~SandwichP(OnlyD(e))
      /\ d.typ \in {"ymd", "yd", "daisy"} /\ e.typ \in {"ymd", "yd", "daisy"}
  BY DatableMore, OnlyDIs
<1>2. Counted(OnlyD(d)) = OnlyD(d)
  BY <1>1 DEF Counted
<1>3. PICK f : Datable(f) /\ f.typ = d.typ /\
               OnlyD(f) = IF a.fst.typ = a.lst.typ THEN a.lst ELSE DtConv(a.fst.typ, a.lst)
  <2>1. CASE d.typ = e.typ
    BY <1>1, <2>1
  <2>2. CASE d.typ # e.typ
    <3> DEFINE f == DConv(d.typ, e)
    <3>1. Datable(f) /\ f.typ = d.typ
      BY <1>1, ConvIsDatable
    <3>2. OnlyD(e).typ # "sexy" /\ OnlyD(e).typ # "unk" /\ d.typ # "unk" /\ d.typ # "sexy" /\ OnlyD(e).sw = FALSE
      BY <1>1 DEF OnlyDP
    <3>3. DtConv(d.typ, OnlyD(e)) = [Sandwich(f, Midnight) EXCEPT !.sw = OnlyD(e).sw]
      BY <1>1, <3>2, Zenon DEF DtConv
    <3>4. DtConv(d.typ, OnlyD(e)) = OnlyD(f)
      BY <3>2, <3>3, Zenon DEF OnlyD
    <3> HIDE DEF f
    <3> QED BY <1>1, <2>2, <3>1, <3>4, Zenon
  <2> QED BY <2>1, <2>2
<1>4. ~SandwichP(OnlyD(f))
  BY <1>3, DatableMore, OnlyDIs
<1>5. Ends(a) = Alike(OnlyD(d), OnlyD(f))
  BY <1>2, <1>3, Zenon DEF Ends
<1>6. Alike(OnlyD(d), OnlyD(f)) = [fst |-> OnlyD(d), lst |-> OnlyD(f)]
  BY <1>1, <1>4, Zenon DEF Alike
<1> QED BY <1>3, <1>5, <1>6

\* Numbers of days or not, the ends are of days of one calendar.
LEMMA NumberedIs ==
  ASSUME NEW e, NEW d, NEW f, NEW ite, Datable(d), Datable(f), f.typ = d.typ,
         e.fst = OnlyD(d), e.lst = OnlyD(f)
  PROVE  \E g, h : /\ Datable(g) /\ Datable(h) /\ g.typ = h.typ
                   /\ Numbered(e, ite).fst = OnlyD(g) /\ Numbered(e, ite).lst = OnlyD(h)
                   /\ FeasibleP(ite) => g.typ # "ymd"
                   /\ g.typ \in {d.typ, "daisy"}
<1> DEFINE g == DConv("daisy", d)
           h == DConv("daisy", f)
<1>1. Datable(g) /\ Datable(h) /\ g.typ = "daisy" /\ h.typ = "daisy"
  BY ConvIsDatable
<1>2. ASSUME NEW x, Datable(x) PROVE DtConv("daisy", OnlyD(x)) = OnlyD(DConv("daisy", x))
  <2>1. /\ OnlyD(x).typ \in {"ymd", "yd", "daisy"} /\ OnlyD(x).d = x
        /\ OnlyD(x).t = Midnight /\ ~OnlyD(x).sw /\ OnlyDP(OnlyD(x))
    BY <1>2, DatableMore, OnlyDIs
  <2>2. OnlyD(x).typ # "sexy" /\ OnlyD(x).typ # "unk" /\ OnlyD(x).sw = FALSE
    BY <2>1 DEF OnlyDP
  <2>3. DtConv("daisy", OnlyD(x)) = [Sandwich(DConv("daisy", x), Midnight) EXCEPT !.sw = OnlyD(x).sw]
    BY <2>1, <2>2, Zenon DEF DtConv
  <2> QED BY <2>2, <2>3, Zenon DEF OnlyD
<1> HIDE DEF g, h
<1>3. CASE OnlyDP(e.fst) /\ FeasibleP(ite) /\ Civil(e.fst) /\ Civil(e.lst)
  <2>1. Numbered(e, ite) = [fst |-> DtConv("daisy", e.fst), lst |-> DtConv("daisy", e.lst)]
    BY <1>3, Zenon DEF Numbered
  <2>2. DtConv("daisy", e.fst) = OnlyD(g) /\ DtConv("daisy", e.lst) = OnlyD(h)
    BY <1>2 DEF g, h
  <2> QED BY <1>1, <2>1, <2>2
<1>4. CASE ~(OnlyDP(e.fst) /\ FeasibleP(ite) /\ Civil(e.fst) /\ Civil(e.lst))
  <2>1. Numbered(e, ite) = e
    BY <1>4, Zenon DEF Numbered
  <2>2. ASSUME d.typ = "ymd" PROVE OnlyDP(e.fst) /\ Civil(e.fst) /\ Civil(e.lst)
    <3>1. d \in DayDates /\ f \in DayDates /\ f.typ = "ymd"
      BY <2>2, DatableMore
    <3>2. d \in YmdDates /\ f \in YmdDates
      BY <2>2, <3>1, KindsAre
    <3>3. d.m # 0 /\ d.d # 0 /\ f.m # 0 /\ f.d # 0
      BY <3>2, SMT DEF YmdDates
    <3> QED BY <2>2, <3>1, <3>3, OnlyDIs DEF Civil
  <2> QED BY <1>4, <2>1, <2>2
<1> QED BY <1>3, <1>4

\* The increment between dates is a stack of durations.
LEMMA IncrementIs ==
  ASSUME NEW e, ~OnlyTP(e.fst), NEW ite \in Seq(Durs)
  PROVE  Increment(e, ite) \in Seq(Durs)
<1>1. \A u \in {"y", "mo", "d"} : Of(u, 1) \in Durs
  BY DEF Of, Durs, Units
<1>2. \A u \in {"y", "mo", "d"} : <<Of(u, 1)>> \in Seq(Durs)
  BY <1>1
<1> QED BY <1>2, Zenon DEF Increment

\* What main() makes of a command line, part by part.
LEMMA SetupIs ==
  ASSUME NEW a, NEW e, NEW ite, ite = Increment(e, a.ite)
  PROVE  /\ Setup(a, e).fst = Numbered(e, ite).fst /\ Setup(a, e).lst = Numbered(e, ite).lst
         /\ Setup(a, e).ite = ite /\ Setup(a, e).alt = a.alt
         /\ Setup(a, e).dir = IF OnlyTP(Numbered(e, ite).fst) THEN Sgn(ite[1].dv) ELSE 0
         /\ DOMAIN Setup(a, e) = Parts
<1> DEFINE n == Numbered(e, ite)
           dir == IF OnlyTP(n.fst) THEN Sgn(ite[1].dv) ELSE 0
<1>1. Setup(a, e) = Between(n, a, ite)
  BY Zenon DEF Setup
<1>2. Between(n, a, ite)
        = [fst |-> n.fst, lst |-> n.lst, ite |-> ite, alt |-> a.alt, ss |-> SetSkip(a.skip), dir |-> dir]
  BY Zenon DEF Between
<1>3. Setup(a, e).dir = dir
  <2> HIDE DEF n, dir
  <2> QED BY <1>1, <1>2
<1>4. Setup(a, e).fst = n.fst /\ Setup(a, e).lst = n.lst /\ Setup(a, e).ite = ite /\ Setup(a, e).alt = a.alt
  <2> HIDE DEF n, dir
  <2> QED BY <1>1, <1>2
<1>5. DOMAIN Setup(a, e) = Parts
  <2> HIDE DEF n, dir
  <2> QED BY <1>1, <1>2 DEF Parts
<1> QED BY <1>3, <1>4, <1>5

\* A time to begin with stays one.
LEMMA TimesBegin ==
  ASSUME NEW a, NEW t, a.fst = OnlyT(t)
  PROVE  OnlyTP(Setup(a, Ends(a)).fst)
<1> DEFINE x == OnlyT(t)
           u == [typ |-> "unk", u |-> 0, carry |-> 0]
           c == [x EXCEPT !.d = u]
           l == IF a.fst.typ = a.lst.typ THEN a.lst ELSE DtConv(a.fst.typ, a.lst)
           e == Ends(a)
           ite == Increment(e, a.ite)
<1>1. x = [typ |-> NoDate.typ, sw |-> TRUE, d |-> NoDate, t |-> t, sx |-> 0, znfxd |-> FALSE, neg |-> FALSE, zdiff |-> 0]
  BY DEF OnlyT, Sandwich
<1>2. NoDate.typ = "unk"
  BY DEF NoDate
<1>3. OnlyTP(x)
  BY <1>1, <1>2 DEF OnlyTP
<1> HIDE DEF u
<1>4. c.typ = "unk" /\ c.sw = TRUE
  BY <1>1, <1>2
<1>5. Counted(x) = c
  BY <1>3, Zenon DEF Counted, u
<1> HIDE DEF c, l, x
<1>6. e = Alike(c, l)
  BY <1>5, Zenon DEF Ends, l, x
<1>7. OnlyTP(c) /\ ~OnlyDP(c) /\ ~SandwichP(c)
  BY <1>4 DEF OnlyTP, OnlyDP, SandwichP
<1>8. e.fst = c
  <2>1. Alike(c, l) = [fst |-> c, lst |-> l]
    BY <1>7, Zenon DEF Alike
  <2> QED BY <1>6, <2>1
<1> HIDE DEF e, ite
<1>9. Numbered(e, ite) = e
  BY <1>7, <1>8, Zenon DEF Numbered
<1>10. Setup(a, e).fst = Numbered(e, ite).fst
  BY SetupIs, Zenon DEF ite
<1> QED BY <1>7, <1>8, <1>9, <1>10 DEF e

\* A date to begin with and a time to end with are an error.
LEMMA MixedIs ==
  ASSUME NEW a, NEW d, NEW t, Datable(d), a.fst = OnlyD(d), a.lst = OnlyT(t)
  PROVE  Mixed(Setup(a, Ends(a)))
<1> DEFINE x == OnlyD(d)
           y == OnlyT(t)
           e == Ends(a)
           ite == Increment(e, a.ite)
<1>1. y = [typ |-> NoDate.typ, sw |-> TRUE, d |-> NoDate, t |-> t, sx |-> 0, znfxd |-> FALSE, neg |-> FALSE, zdiff |-> 0]
  BY DEF OnlyT, Sandwich
<1>2. NoDate.typ = "unk"
  BY DEF NoDate
<1>3. y.typ = "unk" /\ OnlyTP(y) /\ ~SandwichP(y)
  BY <1>1, <1>2 DEF OnlyTP, SandwichP
<1>4. x.typ = d.typ /\ OnlyDP(x) /\ ~OnlyTP(x) /\ ~SandwichP(x) /\ d.typ \in {"ymd", "yd", "daisy"}
  BY DatableMore, OnlyDIs
<1>5. x.typ # y.typ
  BY <1>3, <1>4
<1> HIDE DEF x, y
<1>6. DtConv(x.typ, y) = y
  BY <1>3, Zenon DEF DtConv
<1>7. e = Alike(x, y)
  BY <1>4, <1>5, <1>6, Zenon DEF Ends, Counted, x, y
<1>8. e.fst = x /\ e.lst = y
  <2>1. Alike(x, y) = [fst |-> x, lst |-> y]
    BY <1>3, <1>4, Zenon DEF Alike
  <2> QED BY <1>7, <2>1
<1> HIDE DEF e, ite
<1>9. Numbered(e, ite) = e
  BY <1>3, <1>8, Zenon DEF Numbered, Civil
<1>0. ite = Increment(e, a.ite)
  BY DEF ite
<1>10. Setup(a, e).fst = Numbered(e, ite).fst /\ Setup(a, e).lst = Numbered(e, ite).lst
  BY <1>0, SetupIs, SMT
<1>11. Mixed(Setup(a, e))
  BY <1>3, <1>4, <1>8, <1>9, <1>10 DEF Mixed
<1> QED BY <1>11 DEF e

\* A sequence begins between dates of one calendar.
LEMMA InitIsGood ==
  ASSUME CivilLines, Init
  PROVE  IInv
<1>1. args \in Args /\ clo = Setup(args, Ends(args)) /\ shown = Nothing /\ ret = "dir"
  BY DEF Init
<1>5. DOMAIN clo = Parts
  <2> DEFINE e == Ends(args)
             ite == Increment(e, args.ite)
  <2>1. ite = Increment(e, args.ite)
    OBVIOUS
  <2> HIDE DEF e, ite
  <2>2. DOMAIN Setup(args, e) = Parts
    BY <2>1, SetupIs, Zenon
  <2> QED BY <1>1, <2>2 DEF e
<1>2. CASE \E t : args.fst = OnlyT(t)
  BY <1>1, <1>2, <1>5, TimesBegin DEF IInv
<1>3. CASE (\E d : Datable(d) /\ args.fst = OnlyD(d)) /\ (\E t : args.lst = OnlyT(t))
  <2>1. Mixed(clo)
    BY <1>1, <1>3, MixedIs
  <2>2. pc = "failed"
    BY <2>1 DEF Init
  <2> QED BY <1>1, <1>5, <2>2 DEF IInv
<1>4. CASE /\ \E d : Datable(d) /\ args.fst = OnlyD(d)
           /\ \E d : Datable(d) /\ args.lst = OnlyD(d)
           /\ args.ite \in Seq(Durs) /\ args.alt \in Seq(Durs)
  <2> DEFINE e == Ends(args)
             ite == Increment(e, args.ite)
  <2>1. PICK d : Datable(d) /\ args.fst = OnlyD(d)
    BY <1>4
  <2>2. e.fst = OnlyD(d) /\ \E f : Datable(f) /\ f.typ = d.typ /\ e.lst = OnlyD(f)
    BY <1>4, <2>1, EndsOfDates
  <2>3. PICK f : Datable(f) /\ f.typ = d.typ /\ e.lst = OnlyD(f)
    BY <2>2
  <2> HIDE DEF e
  <2>4. ~OnlyTP(e.fst)
    BY <2>1, <2>2, DatableMore, OnlyDIs
  <2>5. ite \in Seq(Durs)
    BY <1>4, <2>4, IncrementIs
  <2> HIDE DEF ite
  <2>6. PICK g, h : /\ Datable(g) /\ Datable(h) /\ g.typ = h.typ
                    /\ Numbered(e, ite).fst = OnlyD(g) /\ Numbered(e, ite).lst = OnlyD(h)
                    /\ FeasibleP(ite) => g.typ # "ymd"
    BY <2>1, <2>2, <2>3, NumberedIs
  <2>7. /\ clo.fst = OnlyD(g) /\ clo.lst = OnlyD(h) /\ clo.ite = ite /\ clo.alt = args.alt
        /\ clo.dir = IF OnlyTP(OnlyD(g)) THEN Sgn(ite[1].dv) ELSE 0
    <3>1. clo = Setup(args, e) /\ ite = Increment(e, args.ite)
      BY <1>1 DEF e, ite
    <3>2. /\ Setup(args, e).fst = Numbered(e, ite).fst /\ Setup(args, e).lst = Numbered(e, ite).lst
          /\ Setup(args, e).ite = ite /\ Setup(args, e).alt = args.alt
      BY <3>1, SetupIs, SMT
    <3>3. Setup(args, e).dir = IF OnlyTP(Numbered(e, ite).fst) THEN Sgn(ite[1].dv) ELSE 0
      BY <3>1, SetupIs, Zenon
    <3> QED BY <2>6, <3>1, <3>2, <3>3, Zenon
  <2>8. g \in DayDates /\ ~OnlyTP(OnlyD(g)) /\ OnlyD(g) \in DaysOnly
    BY <2>6, DatableMore, OnlyDIs DEF DaysOnly
  <2>9. EndsAreDays /\ clo.dir = 0
    BY <2>6, <2>7, <2>8 DEF EndsAreDays
  <2>13. Countable
    BY <2>6, <2>7, <2>8, OnlyDIs DEF Countable
  <2>10. pc = "failed" \/ (pc = "this" /\ now = DateAdd(clo.fst, clo.ite))
    BY <2>7, <2>8 DEF Init
  <2>11. pc = "this" => Ready(now)
    BY <2>5, <2>7, <2>8, <2>10, AddKeeps DEF Ready
  <2>12. OnlyWhatWasAsked
    BY <1>1 DEF OnlyWhatWasAsked
  <2> QED BY <1>1, <1>4, <1>5, <2>5, <2>7, <2>9, <2>10, <2>11, <2>12, <2>13 DEF IInv, IDates
<1> QED BY <1>1, <1>2, <1>3, <1>4 DEF CivilLines

\* __in_range_p() of a date.
LEMMA RangeOfDate ==
  ASSUME NEW x, ~OnlyTP(x), clo.dir \in {-1, 0, 1}
  PROVE  InRangeP(x) <=> \/ clo.dir = 1 /\ DtInRange(x, clo.fst, clo.lst) = 1
                         \/ clo.dir = -1 /\ DtInRange(x, clo.lst, clo.fst) = 1
<1> DEFINE k == OnlyTP(x)
           t == TimeInRangeP(x)
           u == DtInRange(x, clo.fst, clo.lst)
           v == DtInRange(x, clo.lst, clo.fst)
           dir == clo.dir
<1>1. InRangeP(x) = CASE dir = 0 -> FALSE
                      [] dir # 0 /\ k -> t
                      [] dir > 0 /\ ~k -> u = 1
                      [] dir < 0 /\ ~k -> v = 1
  BY Zenon DEF InRangeP
<1>2. ~k
  OBVIOUS
<1> HIDE DEF k, t, u, v, dir
<1>3. CASE dir = 0
  <2>1. ~(dir > 0) /\ ~(dir < 0) /\ dir # 1 /\ dir # -1
    BY <1>3
  <2> QED BY <1>1, <1>2, <1>3, <2>1, Zenon DEF dir
<1>4. CASE dir = 1
  <2>1. dir > 0 /\ ~(dir < 0) /\ dir # 0 /\ dir # -1
    BY <1>4
  <2>2. InRangeP(x) = (u = 1)
    BY <1>1, <1>2, <2>1, Zenon
  <2> QED BY <1>4, <2>1, <2>2, Zenon DEF dir, u
<1>5. CASE dir = -1
  <2>1. dir < 0 /\ ~(dir > 0) /\ dir # 0 /\ dir # 1
    BY <1>5
  <2>2. InRangeP(x) = (v = 1)
    BY <1>1, <1>2, <2>1, Zenon
  <2> QED BY <1>5, <2>1, <2>2, Zenon DEF dir, v
<1> QED BY <1>3, <1>4, <1>5, Zenon DEF dir

\* __in_range_p(): between the ends, whichever way the sequence leads.
LEMMA RangeIs ==
  ASSUME EndsAreDays, clo.dir \in {-1, 0, 1}, NEW f \in CrispDates, f.typ = clo.fst.typ,
         InRangeP(OnlyD(f))
  PROVE  /\ ConvToDaisy(f) \in Int /\ 1 <= ConvToDaisy(f)
         /\ MidnightOf(ConvToDaisy(f)) >= Moment(Least)
         /\ MidnightOf(ConvToDaisy(f)) <= Moment(Greatest)
<1>1. PICK a, b : Datable(a) /\ Datable(b) /\ a.typ = b.typ /\ clo.fst = OnlyD(a) /\ clo.lst = OnlyD(b)
  BY DEF EndsAreDays
<1>2. /\ a \in DayDates /\ b \in DayDates /\ f \in DayDates
      /\ DFixup(a) = a /\ DFixup(b) = b
      /\ ConvToDaisy(a) \in Int /\ ConvToDaisy(b) \in Int /\ 1 <= ConvToDaisy(a) /\ 1 <= ConvToDaisy(b)
  BY <1>1, DatableMore, KindsAre
<1>3. f.typ = a.typ /\ f.typ = b.typ /\ ~OnlyTP(OnlyD(f))
  BY <1>1, <1>2, OnlyDIs
<1>4. Moment(clo.fst) = MidnightOf(ConvToDaisy(a)) /\ Moment(clo.lst) = MidnightOf(ConvToDaisy(b))
  BY <1>1, <1>2, MomentIs
<1>5. ASSUME NEW p, NEW q, Datable(p), Datable(q), f.typ = p.typ, f.typ = q.typ,
             DtInRange(OnlyD(f), OnlyD(p), OnlyD(q)) = 1
      PROVE  /\ ConvToDaisy(f) \in Int
             /\ ConvToDaisy(p) <= ConvToDaisy(f) /\ ConvToDaisy(f) <= ConvToDaisy(q)
  <2>1. p \in DayDates /\ q \in DayDates /\ ConvToDaisy(p) \in Int /\ 1 <= ConvToDaisy(p)
    BY <1>5, DatableMore
  <2>2. /\ DCmp(f, p) \in {-1, 0, 1} /\ DtCmp(OnlyD(f), OnlyD(p)) = DCmp(f, p)
        /\ DCmp(f, q) \in {-1, 0, 1} /\ DtCmp(OnlyD(f), OnlyD(q)) = DCmp(f, q)
    BY <1>2, <1>5, <2>1, CmpIsSign
  <2>3. InRange(DCmp(f, p), DCmp(f, q)) = 1
    BY <1>5, <2>2 DEF DtInRange
  <2>4. DCmp(f, p) >= 0 /\ DCmp(f, q) <= 0
    BY <2>2, <2>3, SMT DEF InRange, One
  <2>5. ConvToDaisy(f) \in Int /\ ConvToDaisy(p) <= ConvToDaisy(f)
    BY <1>5, <2>4, DayAfter
  <2>6. 1 <= ConvToDaisy(f)
    BY <2>1, <2>5
  <2> QED BY <1>5, <2>4, <2>5, <2>6, DayBefore
<1>6. CASE clo.dir = 1
  <2>1. DtInRange(OnlyD(f), clo.fst, clo.lst) = 1
    BY <1>3, <1>6, RangeOfDate
  <2>2. /\ ConvToDaisy(f) \in Int
        /\ ConvToDaisy(a) <= ConvToDaisy(f) /\ ConvToDaisy(f) <= ConvToDaisy(b)
    BY <1>1, <1>3, <1>5, <2>1
  <2>3. /\ MidnightOf(ConvToDaisy(a)) <= MidnightOf(ConvToDaisy(f))
        /\ MidnightOf(ConvToDaisy(f)) <= MidnightOf(ConvToDaisy(b))
        /\ MidnightOf(ConvToDaisy(a)) \in Int /\ MidnightOf(ConvToDaisy(b)) \in Int
        /\ MidnightOf(ConvToDaisy(f)) \in Int
    BY <1>2, <2>2, MidnightsInOrder
  <2> QED BY <1>2, <1>4, <2>2, <2>3 DEF Least, Greatest
<1>7. CASE clo.dir = -1
  <2>1. DtInRange(OnlyD(f), clo.lst, clo.fst) = 1
    BY <1>3, <1>7, RangeOfDate
  <2>2. /\ ConvToDaisy(f) \in Int
        /\ ConvToDaisy(b) <= ConvToDaisy(f) /\ ConvToDaisy(f) <= ConvToDaisy(a)
    BY <1>1, <1>3, <1>5, <2>1
  <2>3. /\ MidnightOf(ConvToDaisy(b)) <= MidnightOf(ConvToDaisy(f))
        /\ MidnightOf(ConvToDaisy(f)) <= MidnightOf(ConvToDaisy(a))
        /\ MidnightOf(ConvToDaisy(a)) \in Int /\ MidnightOf(ConvToDaisy(b)) \in Int
        /\ MidnightOf(ConvToDaisy(f)) \in Int
    BY <1>2, <2>2, MidnightsInOrder
  <2> QED BY <1>2, <1>4, <2>2, <2>3 DEF Least, Greatest
<1>8. clo.dir # 0
  BY <1>3, RangeOfDate
<1> QED BY <1>6, <1>7, <1>8

-----------------------------------------------------------------------------
(* Every step keeps it. *)

\* What a date to be printed is.
LEMMA WrittenIs ==
  ASSUME IDates, NEW d \in DayDates, now = OnlyD(d), pc = "print", InRangeP(DtFixup(now))
  PROVE  /\ Moment(now) >= Moment(Least) /\ Moment(now) <= Moment(Greatest)
         /\ now.typ # "yd" /\ now = DtFixup(now) => DaisyGetWday(ConvToDaisy(now.d)) \notin clo.ss
<1> DEFINE f == DFixup(d)
<1>1. DtFixup(now) = OnlyD(f) /\ f \in CrispDates /\ f.typ = d.typ /\ f \in DayDates
  BY FixupIs, KindsAre
<1>2. now.typ = d.typ /\ now.d = d /\ clo.fst.typ = d.typ
  BY OnlyDIs DEF IDates, Ready
<1>3. /\ ConvToDaisy(f) \in Int /\ 1 <= ConvToDaisy(f)
      /\ MidnightOf(ConvToDaisy(f)) >= Moment(Least)
      /\ MidnightOf(ConvToDaisy(f)) <= Moment(Greatest)
  BY <1>1, <1>2, RangeIs DEF IDates
<1>4. Moment(now) = MidnightOf(ConvToDaisy(f))
  BY <1>3, MomentIs
<1>5. ASSUME now.typ # "yd", now = DtFixup(now)
      PROVE  DaisyGetWday(ConvToDaisy(now.d)) \notin clo.ss
  <2>1. d = f
    <3>1. OnlyD(f).d = f
      BY <1>1, OnlyDIs
    <3> QED BY <1>1, <1>2, <1>5, <3>1
  <2>2. ~Skipp(now)
    BY <1>5 DEF IDates
  <2>3. GetWday(d) \notin clo.ss
    BY <1>2, <2>2 DEF Skipp
  <2>4. GetWday(d) = DaisyGetWday(ConvToDaisy(d))
    BY <1>1, <1>2, <1>3, <1>5, <2>1, WdayOfDate
  <2> QED BY <1>2, <2>3, <2>4
<1> QED BY <1>3, <1>4, <1>5

\* The ends stay, and so does what was printed.
LEMMA EndsStay ==
  ASSUME DOMAIN clo = Parts, [Next]_vars
  PROVE  /\ DOMAIN clo' = Parts
         /\ clo'.fst = clo.fst /\ clo'.lst = clo.lst /\ clo'.ss = clo.ss /\ clo'.alt = clo.alt
         /\ clo'.ite \in {clo.ite, Neg(clo.ite)}
         /\ shown' = shown \/ Write
<1>1. ASSUME NEW i \in {clo.ite, Neg(clo.ite)}, NEW k, clo' = [clo EXCEPT !.dir = k, !.ite = i] \/ clo' = [clo EXCEPT !.dir = k]
               \/ clo' = [clo EXCEPT !.ite = i] \/ clo' = clo
      PROVE  /\ DOMAIN clo' = Parts
             /\ clo'.fst = clo.fst /\ clo'.lst = clo.lst /\ clo'.ss = clo.ss /\ clo'.alt = clo.alt
             /\ clo'.ite \in {clo.ite, Neg(clo.ite)}
  BY <1>1 DEF Parts
<1>2. CASE Dir
  BY <1>1, <1>2 DEF Dir, Printed
<1>3. CASE Back
  BY <1>1, <1>3 DEF Back, Printed
<1>4. CASE Turn
  BY <1>1, <1>4 DEF Turn, Printed
<1>5. CASE This
  BY <1>1, <1>5 DEF This, Printed
<1>6. CASE StepOff
  BY <1>1, <1>6 DEF StepOff, Printed
<1>7. CASE Write
  BY <1>1, <1>7 DEF Write
<1>8. CASE UNCHANGED vars
  BY <1>1, <1>8 DEF vars
<1> QED BY <1>2, <1>3, <1>4, <1>5, <1>6, <1>7, <1>8 DEF Next

\* None of the loops makes anything else of it.
LEMMA DatesStep ==
  ASSUME DOMAIN clo = Parts, IDates, [Next]_vars
  PROVE  IDates'
<1>1. /\ DOMAIN clo' = Parts
      /\ clo'.fst = clo.fst /\ clo'.lst = clo.lst /\ clo'.ss = clo.ss /\ clo'.alt = clo.alt
      /\ clo'.ite \in {clo.ite, Neg(clo.ite)}
      /\ shown' = shown \/ Write
  BY EndsStay
<1>2. PICK a, b : Datable(a) /\ Datable(b) /\ a.typ = b.typ /\ clo.fst = OnlyD(a) /\ clo.lst = OnlyD(b)
  BY DEF IDates, EndsAreDays
<1>3. /\ a \in DayDates /\ b \in DayDates /\ ~OnlyTP(clo.fst)
      /\ Ready(clo.fst) /\ Ready(clo.lst) /\ clo.fst.typ = a.typ
  BY <1>2, DatableMore, OnlyDIs DEF Ready, DaysOnly
<1>4. EndsAreDays' /\ Countable'
  <2>1. FeasibleP(clo.ite)' => FeasibleP(clo.ite)
    BY <1>1, NegFeasible DEF IDates
  <2> QED BY <1>1, <1>2, <2>1 DEF EndsAreDays, Countable, IDates
<1>5. \A x : Ready(x) => DateAdd(x, clo.ite) \in DaysOnly /\ DateAdd(x, clo.ite).typ = clo.fst.typ
                         /\ DateAdd(x, clo.alt) \in DaysOnly /\ DateAdd(x, clo.alt).typ = clo.fst.typ
  BY AddKeeps DEF Ready, IDates
<1>6. Neg(clo.ite) \in Seq(Durs)
  BY NegKeeps DEF IDates
<1>7. clo'.alt \in Seq(Durs)
  BY <1>1 DEF IDates
<1>8. OnlyWhatWasAsked'
  <2>1. CASE shown' = shown
    BY <1>1, <2>1 DEF IDates, OnlyWhatWasAsked, Least, Greatest, Dated
  <2>2. CASE shown' # shown
    <3>1. /\ pc = "print" /\ InRangeP(DtFixup(now)) /\ shown' = now
      BY <1>1, <2>2 DEF Write
    <3>2. PICK d \in DayDates : now = OnlyD(d)
      BY <3>1 DEF IDates, Ready, DaysOnly
    <3>3. /\ Moment(now) >= Moment(Least) /\ Moment(now) <= Moment(Greatest)
          /\ now.typ # "yd" /\ now = DtFixup(now) => DaisyGetWday(ConvToDaisy(now.d)) \notin clo.ss
      BY <3>1, <3>2, WrittenIs
    <3> QED BY <1>1, <3>1, <3>3 DEF OnlyWhatWasAsked, Least, Greatest
  <2> QED BY <2>1, <2>2
<1>9. CASE Dir
  <2> DEFINE dir == DtCmp(now, clo.fst)
  <2>1. dir \in {-1, 0, 1}
    <3>1. PICK d \in DayDates : now = OnlyD(d)
      BY <1>9 DEF Dir, IDates, Ready, DaysOnly
    <3>2. d.typ = a.typ
      BY <1>3, <1>9, <3>1, OnlyDIs DEF Dir, IDates, Ready
    <3> QED BY <1>2, <1>3, <3>1, <3>2, CmpIsSign
  <2> HIDE DEF dir
  <2>2. \/ clo' = clo /\ now' = now /\ old' = old /\ pc' = "failed" /\ ret' = ret
        \/ clo' = [clo EXCEPT !.dir = dir, !.ite = Neg(clo.ite)] /\ now' = clo.lst /\ old' = clo.lst /\ pc' = "back" /\ ret' = ret
        \/ clo' = [clo EXCEPT !.dir = dir] /\ now' = clo.fst /\ pc' = "this" /\ ret' = "print" /\ old' = old
    BY <1>3, <1>9, Zenon DEF Dir, Goto, ThisThen, dir
  <2>3. CASE clo' = clo /\ now' = now /\ old' = old /\ pc' = "failed" /\ ret' = ret
    BY <1>4, <1>8, <2>3 DEF IDates, Ready
  <2>4. CASE clo' = [clo EXCEPT !.dir = dir, !.ite = Neg(clo.ite)] /\ now' = clo.lst /\ old' = clo.lst /\ pc' = "back" /\ ret' = ret
    <3>1. clo'.dir = dir /\ clo'.ite = Neg(clo.ite)
      BY <2>4 DEF Parts
    <3> QED BY <1>1, <1>3, <1>4, <1>6, <1>7, <1>8, <2>1, <2>4, <3>1 DEF IDates, Ready
  <2>5. CASE clo' = [clo EXCEPT !.dir = dir] /\ now' = clo.fst /\ pc' = "this" /\ ret' = "print" /\ old' = old
    <3>1. clo'.dir = dir /\ clo'.ite = clo.ite
      BY <2>5 DEF Parts
    <3> QED BY <1>1, <1>3, <1>4, <1>7, <1>8, <2>1, <2>5, <3>1 DEF IDates, Ready
  <2> QED BY <2>2, <2>3, <2>4, <2>5
<1>10. CASE Back
  <2>1. Ready(now) /\ Ready(old) /\ clo' = clo
    BY <1>10 DEF Back, IDates
  <2>2. \/ old' = now /\ now' = DateAdd(now, clo.ite) /\ pc' = "this" /\ ret' = "back"
        \/ now' = old /\ old' = old /\ pc' = "this" /\ ret' = "turn"
    BY <1>10, Zenon DEF Back, ThisThen
  <2> QED BY <1>4, <1>5, <1>8, <2>1, <2>2 DEF IDates, Ready
<1>11. CASE Turn
  <2>1. /\ clo' = [clo EXCEPT !.ite = Neg(clo.ite)] /\ now' = now /\ old' = old
        /\ pc = "turn" /\ pc' = "this" /\ ret' = "print"
    BY <1>11, Zenon DEF Turn, ThisThen
  <2>2. clo'.ite = Neg(clo.ite) /\ clo'.dir = clo.dir
    BY <2>1 DEF Parts
  <2> QED BY <1>1, <1>4, <1>6, <1>7, <1>8, <2>1, <2>2 DEF IDates, Ready
<1>12. CASE This
  <2>1. /\ clo' = clo /\ old' = old /\ ret' = ret /\ pc = "this"
        /\ \/ now' = now /\ pc' = ret /\ ~Skipp(now)
           \/ now' = DateAdd(now, clo.alt) /\ pc' = "alt"
           \/ now' = now /\ pc' = "ite"
    BY <1>12, Zenon DEF This, Goto
  <2>2. Ready(now)
    BY <2>1 DEF IDates
  <2>3. now' = now => Skipp(now)' = Skipp(now)
    BY <2>1 DEF Skipp
  <2> QED BY <1>4, <1>5, <1>8, <2>1, <2>2, <2>3 DEF IDates, Ready
<1>13. CASE StepOff
  <2>1. /\ clo' = clo /\ old' = old /\ ret' = ret /\ pc \in {"alt", "ite"}
        /\ \/ pc' = pc /\ now' = DateAdd(now, clo.alt)
           \/ pc' = pc /\ now' = DateAdd(now, clo.ite)
           \/ pc' = ret /\ now' = now /\ ~(Skipp(now) /\ InRangeP(now))
    BY <1>13, Zenon DEF StepOff, Goto
  <2>2. Ready(now)
    BY <2>1 DEF IDates
  <2>3. now' = now => Skipp(now)' = Skipp(now) /\ InRangeP(now)' = InRangeP(now)
    BY <2>1, Zenon DEF Skipp, InRangeP, TimeInRangeP
  <2> QED BY <1>4, <1>5, <1>8, <2>1, <2>2, <2>3 DEF IDates, Ready
<1>14. CASE Write
  <2>1. /\ clo' = clo /\ old' = old /\ pc = "print"
        /\ \/ pc' = "this" /\ ret' = "print" /\ now' = DateAdd(now, clo.ite)
           \/ pc' = "done" /\ ret' = ret /\ now' = now
    BY <1>14, Zenon DEF Write, Goto, ThisThen
  <2>2. Ready(now)
    BY <2>1 DEF IDates
  <2> QED BY <1>4, <1>5, <1>8, <2>1, <2>2 DEF IDates, Ready
<1>15. CASE UNCHANGED vars
  <2>1. clo' = clo /\ now' = now /\ old' = old /\ pc' = pc /\ ret' = ret
    BY <1>15 DEF vars
  <2>2. Skipp(now)' = Skipp(now) /\ InRangeP(now)' = InRangeP(now)
    BY <2>1, Zenon DEF Skipp, InRangeP, TimeInRangeP
  <2> QED BY <1>4, <1>8, <2>1, <2>2 DEF IDates, Ready
<1> QED BY <1>9, <1>10, <1>11, <1>12, <1>13, <1>14, <1>15 DEF Next

\* Every step of every sequence keeps it.
LEMMA StepIsGood ==
  ASSUME IInv, [Next]_vars
  PROVE  IInv'
<1>1. DOMAIN clo' = Parts /\ clo'.fst = clo.fst
  BY EndsStay DEF IInv
<1>2. CASE OnlyTP(clo.fst)
  <2>1. OnlyTP(clo.fst)'
    BY <1>1, <1>2
  <2> QED BY <1>1, <2>1 DEF IInv
<1>3. CASE pc = "failed" /\ shown = Nothing
  <2>1. UNCHANGED vars
    BY <1>3 DEF Next, Dir, Back, Turn, This, StepOff, Write
  <2>2. pc' = "failed" /\ shown' = Nothing
    BY <1>3, <2>1 DEF vars
  <2> QED BY <1>1, <2>2 DEF IInv, Nothing
<1>4. CASE IDates
  <2>1. IDates'
    BY <1>4, DatesStep DEF IInv
  <2> QED BY <1>1, <2>1 DEF IInv
<1> QED BY <1>2, <1>3, <1>4 DEF IInv

\* "The values of FIRST and LAST are always inclusive and no date/times before
\* FIRST and no date/times after LAST will be printed", nor any on a weekday to
\* be skipped: main() of dseq.c, for dates of any of the calendars that count
\* days in months or years or at all, any increments and any weekdays.
THEOREM NothingElseIsPrinted == ASSUME CivilLines PROVE Spec => []OnlyWhatWasAsked
<1>1. Init => IInv
  BY InitIsGood
<1>2. IInv /\ [Next]_vars => IInv'
  BY StepIsGood
<1>3. IInv => OnlyWhatWasAsked
  BY DEF IInv, OnlyWhatWasAsked, Dated, IDates
<1> QED BY <1>1, <1>2, <1>3, PTL DEF Spec

-----------------------------------------------------------------------------
(* Sequences of days that are numbers, every so many of them. *)

\* Dates that are numbers, and the ends of a sequence of them.
Num(x) == x.d.n
IsNumber(x) == Num(x) \in Int /\ x = OnlyD(Daisy(Num(x)))
Fst == Num(clo.fst)
Lst == Num(clo.lst)

\* A single increment of days or weeks, in days, and how far it leads.
Single(durs) == durs \in Seq(Durs) /\ Len(durs) = 1 /\ durs[1].unit \in {"d", "w"} /\ durs[1].dv # 0
StrideOf(durs) == durs[1].dv * (IF durs[1].unit = "w" THEN 7 ELSE 1)
StepOf(durs) == Mag(durs[1].dv) * (IF durs[1].unit = "w" THEN 7 ELSE 1)
Stride == StrideOf(clo.ite)
Step == StepOf(clo.ite)

\* The order a sequence is in, the days between its ends, and every so many days.
Sooner(dir, k, l) == IF dir > 0 THEN k < l ELSE l < k
InOrder(dir, first, last) == IF dir > 0 THEN first .. last ELSE last .. first
Grid(from, step) == {k \in Int : (k - from) % step = 0}

\* The days the sequence may step on, and those of them between its ends that
\* are not to be left out.
From == IF args.last THEN Lst ELSE Fst
Steps == Grid(From, Step)
Wanted == {k \in InOrder(clo.dir, Fst, Lst) : k \in Steps /\ DaisyGetWday(k) \notin clo.ss}

\* Every so many days there is one, and there is none between two of them.
LEMMA GridIs ==
  ASSUME NEW from \in Int, NEW step \in Nat \ {0}
  PROVE  /\ (from - from) % step = 0
         /\ \A k \in Int : (k - from) % step = 0 =>
              ((k + step) - from) % step = 0 /\ ((k - step) - from) % step = 0
         /\ \A k, l \in Int : (k - from) % step = 0 /\ (l - from) % step = 0 /\ k < l => k + step <= l
<1>1. \A k \in Int : k % step = 0 => \E q \in Int : k = step * q
  <2> SUFFICES ASSUME NEW k \in Int, k % step = 0 PROVE k = step * (k \div step) /\ k \div step \in Int
    OBVIOUS
  <2> QED BY SMT
<1>2. \A q \in Int : (step * q) % step = 0
  BY SMT
<1>3. ASSUME NEW k \in Int, (k - from) % step = 0
      PROVE  ((k + step) - from) % step = 0 /\ ((k - step) - from) % step = 0
  <2>0. k - from \in Int
    OBVIOUS
  <2>1. PICK q \in Int : k - from = step * q
    BY <1>1, <1>3, <2>0
  <2>2. (k + step) - from = step * (q + 1) /\ (k - step) - from = step * (q - 1)
    BY <2>1, SMT
  <2> QED BY <1>2, <2>2
<1>4. ASSUME NEW k \in Int, NEW l \in Int, (k - from) % step = 0, (l - from) % step = 0, k < l
      PROVE  k + step <= l
  <2>0. k - from \in Int /\ l - from \in Int
    OBVIOUS
  <2>1. PICK q \in Int : k - from = step * q
    BY <1>1, <1>4, <2>0
  <2>2. PICK r \in Int : l - from = step * r
    BY <1>1, <1>4, <2>0
  <2>3. l - k = step * (r - q)
    BY <2>1, <2>2, SMT
  <2>4. r - q >= 1
    BY <1>4, <2>3, SMT
  <2>5. step * (r - q) >= step
    BY <2>4, SMT
  <2> QED BY <2>3, <2>5, SMT
<1>5. (from - from) % step = 0
  BY SMT
<1> QED BY <1>3, <1>4, <1>5

\* date_neg_dur(): turned around, a stride leads as far the other way.
LEMMA StrideIs ==
  ASSUME NEW durs, Single(durs)
  PROVE  /\ StepOf(durs) \in Nat \ {0} /\ StrideOf(durs) \in Int
         /\ StrideOf(durs) > 0 => StrideOf(durs) = StepOf(durs)
         /\ StrideOf(durs) <= 0 => StrideOf(durs) = -StepOf(durs)
         /\ Single(Neg(durs)) /\ StepOf(Neg(durs)) = StepOf(durs) /\ StrideOf(Neg(durs)) = -StrideOf(durs)
<1> DEFINE v == durs[1].dv
           f == IF durs[1].unit = "w" THEN 7 ELSE 1
           g == Neg(durs)
<1>1. durs[1] \in Durs /\ DOMAIN durs = 1 .. 1
  BY SMT DEF Single
<1>2. v \in Int /\ v # 0 /\ f \in {1, 7}
  BY <1>1 DEF Durs, Single
<1>3. g[1] = [durs[1] EXCEPT !.dv = -v] /\ DOMAIN g = 1 .. 1
  BY <1>1 DEF Neg
<1>4. g[1].dv = -v /\ g[1].unit = durs[1].unit
  BY <1>1, <1>3 DEF Durs
<1>5. g \in Seq(Durs)
  BY NegKeeps DEF Single
<1>6. Len(g) = 1
  BY <1>3, <1>5, SMT
<1>7. StepOf(durs) = Mag(v) * f /\ StrideOf(durs) = v * f /\ StepOf(g) = Mag(-v) * f /\ StrideOf(g) = (-v) * f
  BY <1>4 DEF StepOf, StrideOf
<1>8. Single(g)
  <2> HIDE DEF g
  <2> QED BY <1>2, <1>4, <1>5, <1>6 DEF Single
<1> HIDE DEF v, f, g
<1>9. Mag(v) \in Nat \ {0} /\ Mag(-v) = Mag(v) /\ (v > 0 => Mag(v) = v) /\ (v <= 0 => Mag(v) = -v)
  BY <1>2 DEF Mag
<1>10. CASE f = 1
  BY <1>2, <1>7, <1>8, <1>9, <1>10 DEF g
<1>11. CASE f = 7
  BY <1>2, <1>7, <1>8, <1>9, <1>11 DEF g
<1> QED BY <1>2, <1>10, <1>11

\* A number of days is a date of its own, that is never cropped.
LEMMA NumberIs ==
  ASSUME NEW n \in Int
  PROVE  /\ Daisy(n) \in DaisyDates /\ Daisy(n) \in DayDates /\ Daisy(n).typ = "daisy" /\ Daisy(n).n = n
         /\ Num(OnlyD(Daisy(n))) = n /\ IsNumber(OnlyD(Daisy(n))) /\ OnlyD(Daisy(n)).d = Daisy(n)
         /\ DtFixup(OnlyD(Daisy(n))) = OnlyD(Daisy(n))
<1>1. Daisy(n) \in DaisyDates /\ Daisy(n).typ = "daisy" /\ Daisy(n).n = n
  BY DEF Daisy, DaisyDates
<1>2. Daisy(n) \in DayDates
  BY <1>1, KindsAre
<1>3. DFixup(Daisy(n)) = Daisy(n)
  BY <1>1 DEF DFixup
<1> QED BY <1>1, <1>2, <1>3, OnlyDIs, FixupIs DEF Num, IsNumber

\* A stack of one is that one.
LEMMA OneIsAdded ==
  ASSUME NEW x, NEW durs \in Seq(Durs), Len(durs) = 1
  PROVE  DateAdd(x, durs) = DateAddOne(x, durs[1])
<1> DEFINE P == DOMAIN durs
           f == CHOOSE h : Folds(h, x, durs, P)
<1>1. P = 1 .. 1
  BY SMT
<1>2. Folds(f, x, durs, P)
  BY <1>1, FoldExists, Zenon
<1>3. DateAdd(x, durs) = f[P]
  BY Zenon DEF DateAdd, FoldLeft, MapThenFoldSet, Folds
<1>4. \A s \in SUBSET P : f[s] = IF s = {} THEN x ELSE DateAddOne(f[s \ {Max(s)}], durs[Max(s)])
  BY <1>2, Zenon DEF Folds
<1> HIDE DEF f
<1>5. 1 .. 0 = {} /\ P \in SUBSET (1 .. 0 + 1) /\ 0 + 1 \in P /\ 0 + 1 = 1
  BY <1>1
<1>6. Max(P) = 1 /\ P \ {Max(P)} = {}
  BY <1>5, LastOfPlaces
<1>7. f[{}] = x
  BY <1>4
<1>8. P # {} /\ P \in SUBSET P
  BY <1>5
<1> HIDE DEF P
<1>9. f[P] = DateAddOne(f[P \ {Max(P)}], durs[Max(P)])
  BY <1>4, <1>8, Zenon
<1> QED BY <1>3, <1>6, <1>7, <1>9, Zenon

\* The only one of a stack is a duration.
LEMMA FirstOne ==
  ASSUME NEW durs \in Seq(Durs), Len(durs) = 1
  PROVE  durs[1] \in Durs /\ durs[1].dv \in Int
<1>1. durs[1] \in Durs
  OBVIOUS
<1> QED BY <1>1 DEF Durs

\* __daisy_add(): days, weeks and business days are added to numbers of days.
LEMMA CountedOn ==
  ASSUME NEW n \in Int, NEW durs \in Seq(Durs), FeasibleP(durs), durs[1].dv # 0,
         NEW s \in Int, s = DaysIn(Daisy(n), durs[1].unit, durs[1].dv)
  PROVE  DateAdd(OnlyD(Daisy(n)), durs) = OnlyD(Daisy(DayNumber(Daisy(n)) + s))
<1> DEFINE d == Daisy(n)
           x == OnlyD(d)
           dur == durs[1]
           m == DayNumber(d) + s
<1>1. d \in DayDates /\ d.typ = "daisy" /\ d.n = n
  BY NumberIs
<1>2. x.typ = "daisy" /\ x.d = d /\ OnlyDP(x) /\ ~OnlyTP(x)
  BY <1>1, OnlyDIs
<1>3. dur \in Durs /\ dur.unit \in {"d", "w", "b"} /\ dur.dv \in Int /\ dur.dv # 0
  BY FirstOne DEF FeasibleP
<1>4. DateAdd(x, durs) = DateAddOne(x, dur)
  BY OneIsAdded DEF FeasibleP
<1>5. s = DaysIn(d, dur.unit, dur.dv)
  OBVIOUS
<1>13. m \in Int
  BY <1>1, SMT DEF DayNumber
<1> HIDE DEF d, dur, m
<1>6. DAdd(d, dur.unit, dur.dv) = NumberOn(d, s)
  <2>1. d.typ # "unk" /\ d.typ \in Numbers /\ ~(dur.unit = "b" /\ d.typ = "ywd")
    BY <1>1 DEF Numbers
  <2>2. DAddDays(d, dur.unit, dur.dv) = NumberOn(d, s)
    BY <1>3, <1>5, <2>1, Zenon DEF DAddDays
  <2>3. dur.unit \notin {"mo", "q"} /\ dur.unit # "y"
    BY <1>3
  <2>4. DAdd(d, dur.unit, dur.dv) = DAddDays(d, dur.unit, dur.dv)
    BY <1>3, <2>1, <2>3, Zenon DEF DAdd
  <2> QED BY <2>2, <2>4
<1>7. NumberOn(d, s) = Daisy(m)
  <2>1. DayNumber(d) \in Int
    BY <1>1, SMT DEF DayNumber
  <2>2. d = [typ |-> "daisy", n |-> n]
    BY DEF d, Daisy
  <2>3. NumberOn(d, s) = [d EXCEPT !.n = DayNumber(d) + s + 0]
    BY <1>1, SMT DEF NumberOn
  <2>4. DayNumber(d) + s + 0 = m
    BY <2>1 DEF m
  <2> HIDE DEF d
  <2> QED BY <2>2, <2>3, <2>4 DEF Daisy
<1>8. PlainAdd(x, dur) = [x EXCEPT !.d = DAdd(d, dur.unit, dur.dv)]
  <2>1. dur.unit \notin {"h", "m", "s"} /\ dur.unit # "ns"
    BY <1>3
  <2> HIDE DEF x
  <2> QED BY <1>2, <2>1, Zenon DEF PlainAdd
<1>9. Daisy(m) \in DayDates /\ Daisy(m).typ = "daisy"
  BY <1>13, NumberIs
<1>10. DtAdd(x, dur) = OnlyD(Daisy(m))
  <2>1. PlainAdd(x, dur) = OnlyD(Daisy(m))
    BY <1>1, <1>6, <1>7, <1>8, <1>9, OnlyDWith
  <2>2. x.typ # "sexy"
    BY <1>2
  <2> HIDE DEF x
  <2> QED BY <1>2, <2>1, <2>2, Zenon DEF DtAdd, RealAdd
<1>11. ~OnlyTP(OnlyD(Daisy(m)))
  BY <1>9, OnlyDIs
<1>12. DateAddOne(x, dur) = OnlyD(Daisy(m))
  BY <1>10, <1>11, Zenon DEF DateAddOne, CountOn
<1> QED BY <1>4, <1>12 DEF d, m

\* ... by as many days, where they are days or weeks.
LEMMA NumberOnIs ==
  ASSUME NEW n \in Int, 1 <= n, NEW durs, Single(durs)
  PROVE  DateAdd(OnlyD(Daisy(n)), durs) = OnlyD(Daisy(n + StrideOf(durs)))
<1> DEFINE s == StrideOf(durs)
           dur == durs[1]
<1>1. durs \in Seq(Durs) /\ FeasibleP(durs) /\ dur.dv # 0 /\ dur.unit \in {"d", "w"}
  BY DEF Single, FeasibleP
<1>2. dur.dv \in Int
  BY FirstOne DEF Single
<1>3. s \in Int
  BY StrideIs
<1>4. s = DaysIn(Daisy(n), dur.unit, dur.dv)
  <2>1. CASE dur.unit = "d"
    BY <1>2, <1>3, <2>1 DEF StrideOf, DaysIn
  <2>2. CASE dur.unit = "w"
    BY <1>2, <1>3, <2>2 DEF StrideOf, DaysIn
  <2> QED BY <1>1, <2>1, <2>2
<1>5. DayNumber(Daisy(n)) = n
  <2>1. Daisy(n).typ = "daisy" /\ Daisy(n).n = n
    BY NumberIs
  <2> QED BY <2>1, SMT DEF DayNumber
<1> HIDE DEF s
<1>6. DateAdd(OnlyD(Daisy(n)), durs) = OnlyD(Daisy(DayNumber(Daisy(n)) + s))
  BY <1>1, <1>3, <1>4, CountedOn
<1> QED BY <1>5, <1>6 DEF s

\* One day is sooner than another one, or it is that one.
LEMMA SoonerIs ==
  ASSUME NEW dir \in {-1, 1}
  PROVE  /\ \A k, l \in Int : Sooner(dir, k, l) \/ Sooner(dir, l, k) \/ k = l
         /\ \A k, l \in Int : Sooner(dir, k, l) => ~Sooner(dir, l, k) /\ k # l
         /\ \A k, l, m \in Int : Sooner(dir, k, l) /\ Sooner(dir, l, m) => Sooner(dir, k, m)
<1>1. dir = 1 \/ dir = -1
  OBVIOUS
<1>2. CASE dir = 1
  BY <1>2, SMT DEF Sooner
<1>3. CASE dir = -1
  BY <1>3, SMT DEF Sooner
<1> QED BY <1>1, <1>2, <1>3

\* The days in order are neither sooner than the first nor later than the last.
LEMMA InOrderIs ==
  ASSUME NEW dir \in {-1, 1}, NEW first \in Int, NEW last \in Int
  PROVE  /\ InOrder(dir, first, last) \subseteq Int
         /\ \A k \in Int : k \in InOrder(dir, first, last)
                             <=> ~Sooner(dir, k, first) /\ ~Sooner(dir, last, k)
<1>1. dir = 1 \/ dir = -1
  OBVIOUS
<1>2. CASE dir = 1
  BY <1>2, SMT DEF Sooner, InOrder
<1>3. CASE dir = -1
  BY <1>3, SMT DEF Sooner, InOrder
<1> QED BY <1>1, <1>2, <1>3

\* Sequences that step s days on step on none in between.
NoneBetween(dir, from, step, s, k) ==
  \A l \in Grid(from, step) :
    /\ dir = Sgn(s) => (Sooner(dir, l, k + s) <=> Sooner(dir, l, k) \/ l = k)
    /\ dir = -Sgn(s) => (Sooner(dir, k + s, l) <=> Sooner(dir, k, l) \/ l = k)

\* From one day to the next one there is none to step on.
LEMMA LeadsOn ==
  ASSUME NEW dir \in {-1, 1}, NEW from \in Int, NEW step \in Nat \ {0}, NEW s \in {step, -step},
         NEW k \in Grid(from, step)
  PROVE  k \in Int /\ k + s \in Grid(from, step) /\ NoneBetween(dir, from, step, s, k)
<1>1. k \in Int /\ (k - from) % step = 0
  BY DEF Grid
<1>2. ((k + step) - from) % step = 0 /\ ((k - step) - from) % step = 0
  BY <1>1, GridIs
<1>3. k + s \in Grid(from, step)
  <2>1. k + step \in Grid(from, step) /\ k - step \in Grid(from, step)
    BY <1>1, <1>2 DEF Grid
  <2>2. k + s = k + step \/ k + s = k - step
    BY <1>1
  <2> QED BY <2>1, <2>2
<1>4. ASSUME NEW l \in Grid(from, step)
      PROVE  /\ l \in Int
             /\ l < k + step <=> l < k \/ l = k
             /\ k - step < l <=> k < l \/ l = k
  <2>1. l \in Int /\ (l - from) % step = 0
    BY DEF Grid
  <2>2. (k < l => k + step <= l) /\ (l < k => l + step <= k)
    BY <1>1, <2>1, GridIs
  <2> QED BY <1>1, <2>1, <2>2
<1>5. /\ s = step => Sgn(s) = 1
      /\ s = -step => Sgn(s) = -1
  BY DEF Sgn, One
<1>6. CASE dir = Sgn(s)
  <2>1. (dir = 1 /\ s = step) \/ (dir = -1 /\ s = -step)
    BY <1>5, <1>6
  <2>2. ASSUME NEW l \in Grid(from, step) PROVE Sooner(dir, l, k + s) <=> Sooner(dir, l, k) \/ l = k
    <3>1. CASE dir = 1 /\ s = step
      BY <1>4, <3>1 DEF Sooner
    <3>2. CASE dir = -1 /\ s = -step
      <4>1. k + s = k - step
        BY <1>1, <3>2
      <4> QED BY <1>4, <3>2, <4>1 DEF Sooner
    <3> QED BY <2>1, <3>1, <3>2
  <2>3. dir # -Sgn(s)
    BY <1>5, <1>6
  <2> QED BY <1>1, <1>3, <1>6, <2>2, <2>3 DEF NoneBetween
<1>7. CASE dir = -Sgn(s)
  <2>1. (dir = -1 /\ s = step) \/ (dir = 1 /\ s = -step)
    BY <1>5, <1>7
  <2>2. ASSUME NEW l \in Grid(from, step) PROVE Sooner(dir, k + s, l) <=> Sooner(dir, k, l) \/ l = k
    <3>1. CASE dir = -1 /\ s = step
      BY <1>4, <3>1 DEF Sooner
    <3>2. CASE dir = 1 /\ s = -step
      <4>1. k + s = k - step
        BY <1>1, <3>2
      <4> QED BY <1>4, <3>2, <4>1 DEF Sooner
    <3> QED BY <2>1, <3>1, <3>2
  <2>3. dir # Sgn(s)
    BY <1>5, <1>7
  <2> QED BY <1>1, <1>3, <1>7, <2>2, <2>3 DEF NoneBetween
<1>8. dir = Sgn(s) \/ dir = -Sgn(s)
  BY <1>5
<1> QED BY <1>1, <1>3, <1>6, <1>7, <1>8

-----------------------------------------------------------------------------
(* What a sequence by days or weeks keeps. *)

During(label) == pc = label \/ (pc \in {"this", "ite"} /\ ret = label)

\* All of it is numbers of days.
Counting ==
  /\ IsNumber(clo.fst) /\ Fst >= 1
  /\ IsNumber(clo.lst) /\ Lst >= 1
  /\ IsNumber(now)
  /\ Single(clo.ite) /\ clo.alt = <<>>
  /\ pc \in {"dir", "back", "turn", "this", "ite", "print", "done"}
  /\ ret \in {"dir", "back", "turn", "print"}

\* A first addition tells the direction.
Finding == clo.dir = 0 /\ seen = {} /\ Num(now) = Fst + Stride

\* On the way back from the last one the one held is the next that is wanted.
Backing ==
  /\ seen = {} /\ args.last /\ clo.dir \in {-1, 1} /\ clo.dir = -Sgn(Stride)
  /\ Num(now) \in Steps /\ Num(old) \in Steps /\ IsNumber(old)
  /\ ~Sooner(clo.dir, Lst, Num(now))
  /\ \A k \in Wanted : Sooner(clo.dir, Num(now), k) => ~Sooner(clo.dir, k, Num(old))
  /\ Num(old) \in Wanted \/ \A k \in Wanted : ~Sooner(clo.dir, Num(now), k)
  /\ pc = "back" => ~Skipp(now) \/ ~InRangeP(now) \/ Num(now) = Lst

\* ... which at last is the first.
Turning ==
  /\ seen = {} /\ clo.dir \in {-1, 1} /\ clo.dir = -Sgn(Stride)
  /\ Num(now) \in Steps
  /\ \A k \in Wanted : ~Sooner(clo.dir, k, Num(now))
  /\ Num(now) \in Wanted \/ Wanted = {}

\* All that is wanted was printed up to now.
Printing ==
  /\ clo.dir \in {-1, 1} /\ clo.dir = Sgn(Stride)
  /\ Num(now) \in Steps
  /\ seen = {MidnightOf(k) : k \in {l \in Wanted : Sooner(clo.dir, l, Num(now))}}
  /\ ~Sooner(clo.dir, Num(now), Fst) \/ Wanted = {}
  /\ pc = "done" => Num(now) \notin InOrder(clo.dir, Fst, Lst)

Phases ==
  /\ During("dir") => Finding
  /\ During("back") => Backing
  /\ During("turn") => Turning
  /\ During("print") \/ pc = "done" => Printing

\* What sequences by days or weeks keep.
INum == ~Regular \/ pc = "failed" \/ (Counting /\ Phases)

\* A number of days is compared by it.
LEMMA NumbersCompare ==
  ASSUME NEW x, IsNumber(x), NEW y, IsNumber(y)
  PROVE  DtCmp(x, y) = Sgn(Num(x) - Num(y))
<1> DEFINE k == Num(x)
           n == Num(y)
<1>1. k \in Int /\ n \in Int /\ x = OnlyD(Daisy(k)) /\ y = OnlyD(Daisy(n))
  BY DEF IsNumber
<1> HIDE DEF k, n
<1>2. /\ Daisy(k) \in DayDates /\ Daisy(n) \in DayDates
      /\ Daisy(k).typ = "daisy" /\ Daisy(n).typ = "daisy" /\ Daisy(k).n = k /\ Daisy(n).n = n
  BY <1>1, NumberIs
<1>3. DtCmp(x, y) = DCmp(Daisy(k), Daisy(n))
  BY <1>1, <1>2, CmpIsSign
<1>4. DCmp(Daisy(k), Daisy(n)) = Sgn(k - n)
  BY <1>2 DEF DCmp
<1> QED BY <1>3, <1>4 DEF k, n

\* A day that is a number is one.
LEMMA DaisyIsNumber ==
  ASSUME NEW e, Datable(e), e.typ = "daisy"
  PROVE  IsNumber(OnlyD(e)) /\ Num(OnlyD(e)) >= 1
<1>1. e \in DaisyDates /\ e.n \in Int /\ e.n >= 1
  BY DatableMore, KindsAre
<1>2. e = Daisy(e.n)
  BY <1>1 DEF DaisyDates, Daisy
<1> DEFINE n == e.n
<1>3. n \in Int /\ n >= 1 /\ e = Daisy(n)
  BY <1>1, <1>2
<1> HIDE DEF n
<1> QED BY <1>3, NumberIs

\* A number is in range that is in order, and left out on some weekdays.
LEMMA TestsAre ==
  ASSUME IsNumber(clo.fst), IsNumber(clo.lst), clo.dir \in {-1, 0, 1}, NEW x, IsNumber(x)
  PROVE  /\ InRangeP(x) <=> clo.dir # 0 /\ Num(x) \in InOrder(clo.dir, Fst, Lst)
         /\ Skipp(x) <=> DaisyGetWday(Num(x)) \in clo.ss
<1> DEFINE k == Num(x)
<1>1. k \in Int /\ Fst \in Int /\ Lst \in Int
  BY DEF IsNumber, Fst, Lst
<1>2. x = OnlyD(Daisy(k)) /\ clo.fst = OnlyD(Daisy(Fst)) /\ clo.lst = OnlyD(Daisy(Lst))
  BY Zenon DEF IsNumber, Fst, Lst
<1> HIDE DEF k, Fst, Lst
<1>3. ~OnlyTP(x) /\ x.d = Daisy(k)
  BY <1>1, <1>2, NumberIs, OnlyDIs
<1>4. ASSUME NEW n \in Int PROVE DtCmp(x, OnlyD(Daisy(n))) = Sgn(k - n)
  <2>1. IsNumber(OnlyD(Daisy(n))) /\ Num(OnlyD(Daisy(n))) = n
    BY NumberIs
  <2> QED BY <2>1, NumbersCompare DEF k
<1>5. \A m, n \in Int : InRange(Sgn(k - m), Sgn(k - n)) = 1 <=> m <= k /\ k <= n
  BY <1>1, SMT DEF InRange, Sgn, One
<1>6. InRangeP(x) <=> \/ clo.dir = 1 /\ DtInRange(x, clo.fst, clo.lst) = 1
                      \/ clo.dir = -1 /\ DtInRange(x, clo.lst, clo.fst) = 1
  BY <1>3, RangeOfDate
<1>7. /\ DtInRange(x, clo.fst, clo.lst) = 1 <=> Fst <= k /\ k <= Lst
      /\ DtInRange(x, clo.lst, clo.fst) = 1 <=> Lst <= k /\ k <= Fst
  BY <1>1, <1>2, <1>4, <1>5 DEF DtInRange
<1>8. InRangeP(x) <=> clo.dir # 0 /\ k \in InOrder(clo.dir, Fst, Lst)
  BY <1>1, <1>6, <1>7 DEF InOrder
<1>9. GetWday(x.d) = DaisyGetWday(k)
  BY <1>1, <1>3, NumberIs DEF GetWday
<1>10. Skipp(x) <=> DaisyGetWday(k) \in clo.ss
  BY <1>9 DEF Skipp
<1> QED BY <1>8, <1>10 DEF k, Fst, Lst

\* What is known of the numbers a sequence is of.
LEMMA NumbersAre ==
  ASSUME IDates, Counting
  PROVE  /\ Fst \in Int /\ Lst \in Int /\ From \in Int /\ Num(now) \in Int
         /\ Step \in Nat \ {0} /\ Stride \in {Step, -Step} /\ Stride \in Int
         /\ Wanted \subseteq Steps /\ Wanted \subseteq InOrder(clo.dir, Fst, Lst)
         /\ Steps = Grid(From, Step) /\ Steps \subseteq Int
         /\ InRangeP(now) <=> clo.dir # 0 /\ Num(now) \in InOrder(clo.dir, Fst, Lst)
         /\ InRangeP(now) /\ ~Skipp(now) /\ Num(now) \in Steps => Num(now) \in Wanted
         /\ Num(now) \in Wanted => ~Skipp(now)
         /\ InRangeP(now) => /\ 1 <= Num(now)
                             /\ DateAdd(now, clo.ite) = OnlyD(Daisy(Num(now) + Stride))
<1>1. Fst \in Int /\ Lst \in Int /\ Num(now) \in Int
  BY DEF Counting, IsNumber, Fst, Lst
<1>2. From \in Int
  BY <1>1 DEF From
<1>3. Single(clo.ite)
  BY DEF Counting
<1>4. Step \in Nat \ {0} /\ Stride \in Int /\ (Stride > 0 => Stride = Step) /\ (Stride <= 0 => Stride = -Step)
  BY <1>3, StrideIs DEF Step, Stride
<1>5. Stride \in {Step, -Step}
  BY <1>4
<1>6. /\ InRangeP(now) <=> clo.dir # 0 /\ Num(now) \in InOrder(clo.dir, Fst, Lst)
      /\ Skipp(now) <=> DaisyGetWday(Num(now)) \in clo.ss
  BY TestsAre DEF IDates, Counting
<1>7. InRangeP(now) => 1 <= Num(now)
  <2>1. Fst >= 1 /\ Lst >= 1
    BY DEF Counting
  <2> HIDE DEF Fst, Lst
  <2> QED BY <1>1, <1>6, <2>1, SMT DEF InOrder
<1>8. now = OnlyD(Daisy(Num(now)))
  BY DEF Counting, IsNumber
<1>9. ASSUME InRangeP(now) PROVE DateAdd(now, clo.ite) = OnlyD(Daisy(Num(now) + Stride))
  <2> DEFINE n == Num(now)
  <2>1. n \in Int /\ 1 <= n /\ now = OnlyD(Daisy(n))
    BY <1>1, <1>7, <1>8, <1>9
  <2> HIDE DEF n
  <2>2. DateAdd(OnlyD(Daisy(n)), clo.ite) = OnlyD(Daisy(n + Stride))
    BY <1>3, <2>1, NumberOnIs DEF Stride
  <2> QED BY <2>1, <2>2 DEF n
<1>10. Wanted \subseteq Steps /\ Wanted \subseteq InOrder(clo.dir, Fst, Lst) /\ Steps \subseteq Int
  BY DEF Wanted, Steps, Grid
<1>11. InRangeP(now) /\ ~Skipp(now) /\ Num(now) \in Steps => Num(now) \in Wanted
  BY <1>6 DEF Wanted
<1>12. Num(now) \in Wanted => ~Skipp(now)
  BY <1>6 DEF Wanted
<1> QED BY <1>1, <1>2, <1>4, <1>5, <1>6, <1>7, <1>9, <1>10, <1>11, <1>12 DEF Steps

\* On the way back, off a day that is not wanted, or from one that is.
LEMMA BackOn ==
  ASSUME IDates, Counting, Backing, InRangeP(now), NEW m, m = Num(now) + Stride
  PROVE  /\ m \in Steps /\ ~Sooner(clo.dir, Lst, m)
         /\ Num(now) \notin Wanted =>
              /\ \A k \in Wanted : Sooner(clo.dir, m, k) => ~Sooner(clo.dir, k, Num(old))
              /\ Num(old) \in Wanted \/ \A k \in Wanted : ~Sooner(clo.dir, m, k)
         /\ \A k \in Wanted : Sooner(clo.dir, m, k) => ~Sooner(clo.dir, k, Num(now))
         /\ Num(now) = Lst => Num(now) \in Wanted \/ \A k \in Wanted : ~Sooner(clo.dir, m, k)
<1> DEFINE n == Num(now)
           o == Num(old)
           d == clo.dir
           W == Wanted
           S == Steps
           i == InOrder(d, Fst, Lst)
           l == Lst
<1>1. /\ d \in {-1, 1} /\ d = -Sgn(Stride) /\ n \in S /\ o \in S /\ ~Sooner(d, l, n)
      /\ \A k \in W : Sooner(d, n, k) => ~Sooner(d, k, o)
      /\ o \in W \/ \A k \in W : ~Sooner(d, n, k)
  BY DEF Backing
<1>2. Fst \in Int /\ l \in Int /\ n \in Int /\ W \subseteq S /\ W \subseteq i /\ S \subseteq Int
  BY NumbersAre
<1>3. m \in S /\ \A k \in S : Sooner(d, m, k) <=> Sooner(d, n, k) \/ k = n
  <2>1. From \in Int /\ Step \in Nat \ {0} /\ Stride \in {Step, -Step} /\ S = Grid(From, Step)
    BY NumbersAre
  <2>2. m = n + Stride
    OBVIOUS
  <2> HIDE DEF d, S, n
  <2>3. n \in Grid(From, Step)
    BY <1>1, <2>1
  <2>4. n + Stride \in Grid(From, Step) /\ NoneBetween(d, From, Step, Stride, n)
    BY <1>1, <2>1, <2>3, LeadsOn, Zenon
  <2> QED BY <1>1, <2>1, <2>2, <2>4 DEF NoneBetween
<1>4. \A k \in W : ~Sooner(d, l, k)
  BY <1>1, <1>2, InOrderIs DEF i
<1> HIDE DEF n, o, d, W, S, i, l
<1>5. m \in Int
  BY <1>2, <1>3
<1>6. ~Sooner(d, l, m)
  <2>1. Sooner(d, m, n)
    BY <1>1, <1>3
  <2> QED BY <1>1, <1>2, <1>5, <2>1, SoonerIs, Zenon
<1>7. ASSUME n \notin W
      PROVE  /\ \A k \in W : Sooner(d, m, k) => ~Sooner(d, k, o)
             /\ o \in W \/ \A k \in W : ~Sooner(d, m, k)
  BY <1>1, <1>2, <1>3, <1>7
<1>8. \A k \in W : Sooner(d, m, k) => ~Sooner(d, k, n)
  BY <1>1, <1>2, <1>3, SoonerIs, Zenon
<1>9. ASSUME n = l PROVE n \in W \/ \A k \in W : ~Sooner(d, m, k)
  BY <1>2, <1>3, <1>4, <1>9
<1> QED BY <1>3, <1>6, <1>7, <1>8, <1>9 DEF n, o, d, W, S, l

\* Back before the first one, the one held is the first that is wanted.
LEMMA BackIsDone ==
  ASSUME IDates, Counting, Backing, ~InRangeP(now)
  PROVE  /\ \A k \in Wanted : ~Sooner(clo.dir, k, Num(old))
         /\ Num(old) \in Wanted \/ Wanted = {}
<1> DEFINE n == Num(now)
           o == Num(old)
           d == clo.dir
           W == Wanted
           i == InOrder(d, Fst, Lst)
           f == Fst
           l == Lst
<1>1. /\ d \in {-1, 1} /\ ~Sooner(d, l, n)
      /\ \A k \in W : Sooner(d, n, k) => ~Sooner(d, k, o)
      /\ o \in W \/ \A k \in W : ~Sooner(d, n, k)
  BY DEF Backing
<1>2. f \in Int /\ l \in Int /\ n \in Int /\ W \subseteq Int /\ W \subseteq i /\ n \notin i
  BY <1>1, NumbersAre
<1>3. Sooner(d, n, f)
  BY <1>1, <1>2, InOrderIs DEF i
<1>4. \A k \in W : ~Sooner(d, k, f)
  BY <1>1, <1>2, InOrderIs DEF i
<1> HIDE DEF n, o, d, W, i, f, l
<1>5. \A k \in W : Sooner(d, n, k)
  <2> SUFFICES ASSUME NEW k \in W PROVE Sooner(d, n, k)
    OBVIOUS
  <2>1. k \in Int /\ (Sooner(d, f, k) \/ k = f)
    BY <1>1, <1>2, <1>4, SoonerIs, Zenon
  <2> QED BY <1>1, <1>2, <1>3, <2>1, SoonerIs, Zenon
<1> QED BY <1>1, <1>5 DEF o, d, W

\* On from a day: it is the only one that is now before.
LEMMA PrintOn ==
  ASSUME IDates, Counting, Printing, InRangeP(now), NEW m, m = Num(now) + Stride
  PROVE  /\ m \in Steps
         /\ ~Sooner(clo.dir, m, Fst)
         /\ \A k \in Wanted : Sooner(clo.dir, k, m) <=> Sooner(clo.dir, k, Num(now)) \/ k = Num(now)
<1> DEFINE n == Num(now)
           d == clo.dir
           W == Wanted
           S == Steps
           f == Fst
<1>1. /\ d \in {-1, 1} /\ d = Sgn(Stride) /\ n \in S
  BY DEF Printing
<1>2. f \in Int /\ n \in Int /\ W \subseteq S /\ S \subseteq Int /\ ~Sooner(d, n, f)
  BY <1>1, NumbersAre, InOrderIs
<1>3. m \in S /\ \A k \in S : Sooner(d, k, m) <=> Sooner(d, k, n) \/ k = n
  <2>1. From \in Int /\ Step \in Nat \ {0} /\ Stride \in {Step, -Step} /\ S = Grid(From, Step)
    BY NumbersAre
  <2>2. m = n + Stride
    OBVIOUS
  <2> HIDE DEF d, S, n
  <2>3. n \in Grid(From, Step)
    BY <1>1, <2>1
  <2>4. n + Stride \in Grid(From, Step) /\ NoneBetween(d, From, Step, Stride, n)
    BY <1>1, <2>1, <2>3, LeadsOn, Zenon
  <2> QED BY <1>1, <2>1, <2>2, <2>4 DEF NoneBetween
<1> HIDE DEF n, d, W, S, f
<1>4. ~Sooner(d, m, f)
  <2>1. Sooner(d, n, m) /\ m \in Int
    BY <1>1, <1>2, <1>3
  <2> QED BY <1>1, <1>2, <2>1, SoonerIs, Zenon
<1> QED BY <1>2, <1>3, <1>4 DEF n, d, W, S, f

\* When it is over, all that was wanted was before.
LEMMA PrintIsDone ==
  ASSUME IDates, Counting, Printing, ~InRangeP(now)
  PROVE  \A k \in Wanted : Sooner(clo.dir, k, Num(now))
<1> DEFINE n == Num(now)
           d == clo.dir
           W == Wanted
           i == InOrder(d, Fst, Lst)
           f == Fst
           l == Lst
<1>1. d \in {-1, 1} /\ (~Sooner(d, n, f) \/ W = {})
  BY DEF Printing
<1>2. f \in Int /\ l \in Int /\ n \in Int /\ W \subseteq Int /\ W \subseteq i /\ n \notin i
  BY <1>1, NumbersAre
<1>3. \A k \in Int : k \in i <=> ~Sooner(d, k, f) /\ ~Sooner(d, l, k)
  BY <1>1, <1>2, InOrderIs DEF i
<1> HIDE DEF n, d, W, i, f, l
<1>4. ASSUME NEW k \in W PROVE Sooner(d, k, n)
  <2>1. Sooner(d, l, n) /\ k \in Int /\ ~Sooner(d, l, k)
    BY <1>1, <1>2, <1>3, <1>4
  <2>2. Sooner(d, k, l) \/ k = l
    BY <1>1, <1>2, <2>1, SoonerIs, Zenon
  <2> QED BY <1>1, <1>2, <2>1, <2>2, SoonerIs, Zenon
<1> QED BY <1>4 DEF n, d, W

\* A sequence by days or weeks begins as one of numbers.
LEMMA InitCounts ==
  ASSUME CivilLines, Init
  PROVE  INum
<1> SUFFICES ASSUME Regular, pc # "failed" PROVE Counting /\ Phases
  BY DEF INum
<1>1. IDates /\ ~OnlyTP(clo.fst)
  BY InitIsGood DEF IInv, Regular, Dated
<1>2. /\ ~Mixed(clo) /\ ~NaughtP(clo.ite) /\ pc = "this" /\ now = DateAdd(clo.fst, clo.ite)
      /\ ret = "dir" /\ seen = {} /\ clo = Setup(args, Ends(args))
  BY <1>1 DEF Init
<1>3. PICK a, b : Datable(a) /\ Datable(b) /\ a.typ = b.typ /\ clo.fst = OnlyD(a) /\ clo.lst = OnlyD(b)
  BY <1>1 DEF IDates, EndsAreDays
<1>4. clo.ite \in Seq(Durs) /\ Len(clo.ite) = 1 /\ clo.ite[1].unit \in {"d", "w"} /\ clo.alt = <<>>
  BY <1>1 DEF IDates, Regular
<1>5. a.typ = "daisy"
  <2>1. FeasibleP(clo.ite)
    BY <1>4 DEF FeasibleP
  <2>2. clo.fst.typ # "ymd" /\ clo.fst.typ # "yd"
    BY <1>1, <2>1 DEF IDates, Countable, Regular
  <2> QED BY <1>3, <2>2, DatableMore, OnlyDIs
<1>7. IsNumber(clo.fst) /\ Fst >= 1 /\ IsNumber(clo.lst) /\ Lst >= 1
  BY <1>3, <1>5, DaisyIsNumber DEF Fst, Lst
<1>8. Single(clo.ite)
  <2>1. DOMAIN clo.ite = {1}
    BY <1>4, SMT
  <2>2. clo.ite[1].dv # 0
    BY <1>2, <2>1 DEF NaughtP
  <2> QED BY <1>4, <2>2 DEF Single
<1>9. now = OnlyD(Daisy(Fst + Stride)) /\ Fst + Stride \in Int
  <2>1. Fst \in Int /\ clo.fst = OnlyD(Daisy(Fst)) /\ Stride \in Int
    BY <1>7, <1>8, StrideIs DEF IsNumber, Fst, Stride
  <2> HIDE DEF Fst
  <2>2. DateAdd(OnlyD(Daisy(Fst)), clo.ite) = OnlyD(Daisy(Fst + Stride))
    BY <1>7, <1>8, <2>1, NumberOnIs DEF Stride
  <2> QED BY <1>2, <2>1, <2>2
<1>10. IsNumber(now) /\ Num(now) = Fst + Stride
  BY <1>9, NumberIs
<1>11. clo.dir = 0
  <2> DEFINE e == Ends(args)
             ite == Increment(e, args.ite)
  <2>1. ite = Increment(e, args.ite) /\ clo = Setup(args, e)
    BY <1>2
  <2> HIDE DEF e, ite
  <2>2. Setup(args, e).fst = Numbered(e, ite).fst
    BY <2>1, SetupIs, SMT
  <2>3. Setup(args, e).dir = IF OnlyTP(Numbered(e, ite).fst) THEN Sgn(ite[1].dv) ELSE 0
    BY <2>1, SetupIs, Zenon
  <2> QED BY <1>1, <2>1, <2>2, <2>3
<1>12. Counting
  BY <1>2, <1>4, <1>7, <1>8, <1>10 DEF Counting
<1> QED BY <1>2, <1>10, <1>11, <1>12 DEF Phases, During, Finding

\* What is asked of a sequence does not change.
LEMMA AskedTheSame ==
  ASSUME clo' = clo, args' = args
  PROVE  /\ Fst' = Fst /\ Lst' = Lst /\ Steps' = Steps /\ Wanted' = Wanted /\ Stride' = Stride
         /\ now' = now => Skipp(now)' = Skipp(now) /\ InRangeP(now)' = InRangeP(now)
<1>1. Fst' = Fst /\ Lst' = Lst /\ Stride' = Stride /\ Step' = Step
  BY DEF Fst, Lst, Stride, Step
<1>2. Steps' = Steps
  BY <1>1 DEF Steps, From
<1>3. Wanted' = Wanted
  BY <1>1, <1>2 DEF Wanted
<1>4. ASSUME now' = now PROVE Skipp(now)' = Skipp(now) /\ InRangeP(now)' = InRangeP(now)
  BY <1>4, Zenon DEF Skipp, InRangeP, TimeInRangeP
<1> QED BY <1>1, <1>2, <1>3, <1>4

\* Where the date stays the same, the phase does.
LEMMA NowStays ==
  ASSUME Counting, Phases, pc \in {"this", "ite"}, pc' \in {ret, "ite"}, ret' = ret,
         now' = now, old' = old, clo' = clo, args' = args, seen' = seen,
         pc' = "back" => ~Skipp(now) \/ ~InRangeP(now)
  PROVE  Counting' /\ Phases'
<1>1. /\ Fst' = Fst /\ Lst' = Lst /\ Steps' = Steps /\ Wanted' = Wanted /\ Stride' = Stride
      /\ Skipp(now)' = Skipp(now) /\ InRangeP(now)' = InRangeP(now)
  BY AskedTheSame
<1>2. ret \in {"dir", "back", "turn", "print"}
  BY DEF Counting
<1>3. Counting'
  BY <1>1, <1>2 DEF Counting
<1>4. During("dir")' => Finding'
  BY <1>1, <1>2 DEF Phases, During, Finding
<1>5. During("back")' => Backing'
  <2> SUFFICES ASSUME During("back")' PROVE Backing'
    OBVIOUS
  <2>1. Backing
    BY <1>2 DEF Phases, During
  <2> QED BY <1>1, <2>1 DEF Backing
<1>6. During("turn")' => Turning'
  BY <1>1, <1>2 DEF Phases, During, Turning
<1>7. During("print")' \/ pc' = "done" => Printing'
  <2> SUFFICES ASSUME During("print")' PROVE Printing'
    BY <1>2 
  <2>1. Printing
    BY <1>2 DEF Phases, During
  <2> QED BY <1>1, <1>2, <2>1 DEF Printing
<1> QED BY <1>3, <1>4, <1>5, <1>6, <1>7 DEF Phases

\* __get_dir(): a sequence starts from its first one, or back from its last one.
LEMMA DirCounts ==
  ASSUME DOMAIN clo = Parts, IDates, Counting, Phases, Dir
  PROVE  INum'
<1> DEFINE dir == DtCmp(now, clo.fst)
<1>1. pc = "dir" /\ args' = args /\ seen' = seen
  BY DEF Dir, Printed
<1>2. clo.dir = 0 /\ seen = {} /\ Num(now) = Fst + Stride
  BY <1>1 DEF Phases, During, Finding
<1>3. /\ Fst \in Int /\ Lst \in Int /\ From \in Int /\ Num(now) \in Int
      /\ Step \in Nat \ {0} /\ Stride \in {Step, -Step} /\ Stride \in Int
  BY NumbersAre
<1>4. clo.fst = OnlyD(Daisy(Fst)) /\ now = OnlyD(Daisy(Fst + Stride))
  BY <1>2 DEF Counting, IsNumber, Fst
<1>5. ~OnlyTP(clo.fst) /\ dir = Sgn(Stride)
  <2> HIDE DEF Fst
  <2>1. Fst + Stride \in Int
    BY <1>3
  <2>2. /\ Daisy(Fst) \in DayDates /\ Daisy(Fst + Stride) \in DayDates
        /\ Daisy(Fst).typ = "daisy" /\ Daisy(Fst + Stride).typ = "daisy"
        /\ Daisy(Fst).n = Fst /\ Daisy(Fst + Stride).n = Fst + Stride
    BY <1>3, <2>1, NumberIs
  <2>3. dir = DCmp(Daisy(Fst + Stride), Daisy(Fst))
    BY <1>4, <2>2, CmpIsSign
  <2>4. DCmp(Daisy(Fst + Stride), Daisy(Fst)) = Sgn((Fst + Stride) - Fst)
    BY <2>2 DEF DCmp
  <2>5. (Fst + Stride) - Fst = Stride
    BY <1>3
  <2> QED BY <1>4, <2>2, <2>3, <2>4, <2>5, OnlyDIs
<1>6. Sgn(Stride) \in {-1, 1} /\ Sgn(-Stride) = -Sgn(Stride)
  BY <1>3, SMT DEF Sgn, One
<1>7. dir # 0 /\ dir \in {-1, 1}
  BY <1>5, <1>6
<1> HIDE DEF dir
<1>8. \/ args.last /\ clo' = [clo EXCEPT !.dir = dir, !.ite = Neg(clo.ite)] /\ now' = clo.lst /\ old' = clo.lst /\ pc' = "back" /\ ret' = ret
      \/ ~args.last /\ clo' = [clo EXCEPT !.dir = dir] /\ now' = clo.fst /\ pc' = "this" /\ ret' = "print"
  BY <1>5, <1>7, Zenon DEF Dir, Goto, ThisThen, dir
<1>9. clo'.fst = clo.fst /\ clo'.lst = clo.lst /\ clo'.ss = clo.ss /\ clo'.alt = clo.alt /\ clo'.dir = dir
  BY <1>8 DEF Parts
<1>10. Fst' = Fst /\ Lst' = Lst
  BY <1>9 DEF Fst, Lst
<1>11. ret' \in {"dir", "back", "turn", "print"}
  BY <1>8 DEF Counting
<1>12. IsNumber(clo.fst) /\ IsNumber(clo.lst) /\ Num(clo.fst) = Fst /\ Num(clo.lst) = Lst
  BY DEF Counting, Fst, Lst
<1>13. \A k \in Wanted' : k \in Int /\ ~Sooner(dir, k, Fst) /\ ~Sooner(dir, Lst, k)
  <2>1. \A k \in Wanted' : k \in InOrder(dir, Fst, Lst)
    BY <1>9, <1>10 DEF Wanted
  <2> HIDE DEF Fst, Lst
  <2> QED BY <1>3, <1>7, <2>1, InOrderIs
<1>14. Single(clo.ite)
  BY DEF Counting
<1>15. CASE args.last /\ clo' = [clo EXCEPT !.dir = dir, !.ite = Neg(clo.ite)] /\ now' = clo.lst /\ old' = clo.lst /\ pc' = "back" /\ ret' = ret
  <2>1. clo'.ite = Neg(clo.ite)
    BY <1>15 DEF Parts
  <2>2. Single(clo'.ite) /\ Stride' = -Stride /\ Step' = Step
    BY <1>14, <2>1, StrideIs DEF Stride, Step
  <2>3. Steps' = Grid(Lst, Step)
    BY <1>1, <1>10, <1>15, <2>2 DEF Steps, From
  <2>4. Lst \in Grid(Lst, Step)
    BY <1>3, GridIs DEF Grid
  <2>5. Counting'
    BY <1>9, <1>10, <1>11, <1>12, <1>15, <2>2 DEF Counting
  <2>6. ~Sooner(dir, Lst, Lst)
    BY <1>3, <1>7, SoonerIs
  <2>7. dir = -Sgn(Stride')
    BY <1>3, <1>5, <1>6, <2>2
  <2>8. Backing'
    <3> HIDE DEF Fst, Lst
    <3>1. Num(now') = Lst /\ Num(old') = Lst /\ IsNumber(old')
      BY <1>12, <1>15
    <3> QED BY <1>1, <1>2, <1>7, <1>9, <1>10, <1>13, <1>15, <2>3, <2>4, <2>6, <2>7, <3>1 DEF Backing
  <2> QED BY <1>15, <2>5, <2>8 DEF INum, Phases, During
<1>16. CASE ~args.last /\ clo' = [clo EXCEPT !.dir = dir] /\ now' = clo.fst /\ pc' = "this" /\ ret' = "print"
  <2>1. clo'.ite = clo.ite
    BY <1>16 DEF Parts
  <2>2. Single(clo'.ite) /\ Stride' = Stride /\ Step' = Step
    BY <1>14, <2>1 DEF Stride, Step
  <2>3. Steps' = Grid(Fst, Step)
    BY <1>1, <1>10, <1>16, <2>2 DEF Steps, From
  <2>4. Fst \in Grid(Fst, Step)
    BY <1>3, GridIs DEF Grid
  <2>5. Counting'
    BY <1>9, <1>10, <1>11, <1>12, <1>16, <2>2 DEF Counting
  <2>6. ~Sooner(dir, Fst, Fst)
    BY <1>3, <1>7, SoonerIs
  <2>7. Printing'
    <3> HIDE DEF Fst, Lst
    <3>1. Num(now') = Fst
      BY <1>12, <1>16
    <3>2. {l \in Wanted' : Sooner(dir, l, Fst)} = {}
      BY <1>13
    <3>3. seen' = {MidnightOf(k) : k \in {l \in Wanted' : Sooner(dir, l, Fst)}}
      BY <1>1, <1>2, <3>2
    <3> QED BY <1>5, <1>7, <1>9, <1>10, <1>16, <2>2, <2>3, <2>4, <2>6, <3>1, <3>3 DEF Printing
  <2> QED BY <1>16, <2>5, <2>7 DEF INum, Phases, During
<1> QED BY <1>8, <1>15, <1>16

\* __fixup_fst(): back from the last one.
LEMMA BackCounts ==
  ASSUME DOMAIN clo = Parts, IDates, Counting, Phases, Back
  PROVE  INum'
<1>1. pc = "back" /\ clo' = clo /\ args' = args /\ seen' = seen /\ pc' = "this"
  BY DEF Back, Printed, ThisThen
<1>2. Backing
  BY <1>1 DEF Phases, During
<1>3. Fst' = Fst /\ Lst' = Lst /\ Steps' = Steps /\ Wanted' = Wanted /\ Stride' = Stride
  BY <1>1, AskedTheSame
<1>4. CASE InRangeP(now)
  <2>1. old' = now /\ now' = DateAdd(now, clo.ite) /\ ret' = "back"
    BY <1>4, Zenon DEF Back, ThisThen
  <2> DEFINE m == Num(now) + Stride
  <2>2. m \in Int /\ now' = OnlyD(Daisy(m))
    BY <1>4, <2>1, NumbersAre
  <2>3. m = Num(now) + Stride
    OBVIOUS
  <2> HIDE DEF m
  <2>4. IsNumber(now') /\ Num(now') = m
    BY <2>2, NumberIs
  <2>5. /\ m \in Steps /\ ~Sooner(clo.dir, Lst, m)
        /\ \A k \in Wanted : Sooner(clo.dir, m, k) => ~Sooner(clo.dir, k, Num(now))
        /\ Num(now) = Lst => Num(now) \in Wanted \/ \A k \in Wanted : ~Sooner(clo.dir, m, k)
    BY <1>2, <1>4, <2>3, BackOn
  <2>6. Num(now) \in Wanted \/ Num(now) = Lst
    BY <1>1, <1>2, <1>4, NumbersAre DEF Backing
  <2>7. Counting'
    BY <1>1, <1>3, <2>1, <2>4 DEF Counting
  <2>8. Num(now) \in Steps /\ IsNumber(now)
    BY <1>2 DEF Backing, Counting
  <2>9. Backing'
    BY <1>1, <1>2, <1>3, <2>1, <2>4, <2>5, <2>6, <2>8 DEF Backing
  <2> QED BY <1>1, <2>1, <2>7, <2>9 DEF INum, Phases, During
<1>5. CASE ~InRangeP(now)
  <2>1. now' = old /\ ret' = "turn"
    BY <1>5, Zenon DEF Back, ThisThen
  <2>2. /\ \A k \in Wanted : ~Sooner(clo.dir, k, Num(old))
        /\ Num(old) \in Wanted \/ Wanted = {}
    BY <1>2, <1>5, BackIsDone
  <2>3. Turning'
    BY <1>1, <1>2, <1>3, <2>1, <2>2 DEF Backing, Turning
  <2>4. Counting'
    BY <1>1, <1>2, <1>3, <2>1 DEF Counting, Backing
  <2> QED BY <1>1, <2>1, <2>3, <2>4 DEF INum, Phases, During
<1> QED BY <1>4, <1>5

\* ... from where it leads on to the last one.
LEMMA TurnCounts ==
  ASSUME DOMAIN clo = Parts, IDates, Counting, Phases, Turn
  PROVE  INum'
<1>1. /\ pc = "turn" /\ clo' = [clo EXCEPT !.ite = Neg(clo.ite)] /\ args' = args /\ seen' = seen
      /\ pc' = "this" /\ ret' = "print" /\ now' = now
  BY DEF Turn, Printed, ThisThen
<1>2. Turning
  BY <1>1 DEF Phases, During
<1>3. /\ clo'.fst = clo.fst /\ clo'.lst = clo.lst /\ clo'.ss = clo.ss /\ clo'.alt = clo.alt
      /\ clo'.dir = clo.dir /\ clo'.ite = Neg(clo.ite)
  BY <1>1 DEF Parts
<1>4. Fst' = Fst /\ Lst' = Lst
  BY <1>3 DEF Fst, Lst
<1>5. Single(clo'.ite) /\ Stride' = -Stride /\ Step' = Step
  BY <1>3, StrideIs DEF Stride, Step, Counting
<1>6. Steps' = Steps
  BY <1>1, <1>4, <1>5 DEF Steps, From
<1>7. Wanted' = Wanted
  BY <1>3, <1>4, <1>6 DEF Wanted
<1>8. Counting'
  BY <1>1, <1>3, <1>4, <1>5 DEF Counting
<1>9. clo.dir \in {-1, 1} /\ clo.dir = Sgn(-Stride)
  <2>1. Stride \in Int /\ clo.dir \in {-1, 1} /\ clo.dir = -Sgn(Stride)
    BY <1>2, NumbersAre DEF Turning
  <2> QED BY <2>1, SMT DEF Sgn, One
<1>10. {l \in Wanted : Sooner(clo.dir, l, Num(now))} = {}
  BY <1>2 DEF Turning
<1>11. seen' = {MidnightOf(k) : k \in {l \in Wanted : Sooner(clo.dir, l, Num(now))}}
  BY <1>1, <1>2, <1>10 DEF Turning
<1>12. ~Sooner(clo.dir, Num(now), Fst) \/ Wanted = {}
  <2>1. CASE Num(now) \in Wanted
    <3>1. Num(now) \in InOrder(clo.dir, Fst, Lst) /\ Fst \in Int /\ Lst \in Int /\ Num(now) \in Int
      BY <2>1, NumbersAre
    <3> HIDE DEF Fst, Lst
    <3> QED BY <1>9, <3>1, InOrderIs
  <2> QED BY <1>2, <2>1 DEF Turning
<1>13. Printing'
  BY <1>1, <1>2, <1>3, <1>4, <1>5, <1>6, <1>7, <1>9, <1>11, <1>12 DEF Turning, Printing
<1> QED BY <1>1, <1>8, <1>13 DEF INum, Phases, During

\* __seq_this(): where there is no alternative increment, on to the loop.
LEMMA ThisCounts ==
  ASSUME IDates, Counting, Phases, This
  PROVE  INum'
<1>1. pc = "this" /\ clo' = clo /\ old' = old /\ args' = args /\ seen' = seen /\ ret' = ret
  BY DEF This, Printed, Goto
<1>2. clo.alt = <<>>
  BY DEF Counting
<1>3. now' = now /\ ((pc' = ret /\ ~Skipp(now)) \/ pc' = "ite")
  BY <1>2, Zenon DEF This, Goto
<1>4. Counting' /\ Phases'
  BY <1>1, <1>3, NowStays
<1> QED BY <1>4 DEF INum

\* ... of steps off days that are left out.
LEMMA StepOffCounts ==
  ASSUME IDates, Counting, Phases, StepOff
  PROVE  INum'
<1>1. pc = "ite" /\ clo' = clo /\ old' = old /\ args' = args /\ seen' = seen /\ ret' = ret
  BY DEF StepOff, Printed, Goto, Counting
<1>2. CASE ~(Skipp(now) /\ InRangeP(now))
  <2>1. now' = now /\ pc' = ret
    BY <1>2, Zenon DEF StepOff, Goto
  <2>2. Counting' /\ Phases'
    BY <1>1, <1>2, <2>1, NowStays
  <2> QED BY <2>2 DEF INum
<1>3. CASE Skipp(now) /\ InRangeP(now)
  <2> DEFINE m == Num(now) + Stride
  <2>1. now' = DateAdd(now, clo.ite) /\ pc' = pc
    BY <1>1, <1>3, Zenon DEF StepOff, Goto
  <2>2. m \in Int /\ now' = OnlyD(Daisy(m)) /\ clo.dir # 0 /\ Num(now) \notin Wanted
    BY <1>3, <2>1, NumbersAre
  <2>3. m = Num(now) + Stride
    OBVIOUS
  <2> HIDE DEF m
  <2>4. IsNumber(now') /\ Num(now') = m
    BY <2>2, NumberIs
  <2>5. Fst' = Fst /\ Lst' = Lst /\ Steps' = Steps /\ Wanted' = Wanted /\ Stride' = Stride
    BY <1>1, AskedTheSame
  <2>6. Counting'
    BY <1>1, <2>1, <2>4, <2>5 DEF Counting
  <2>7. CASE ret = "dir"
    BY <1>1, <2>2, <2>7 DEF Phases, During, Finding
  <2>8. CASE ret = "back"
    <3>1. Backing
      BY <1>1, <2>8 DEF Phases, During
    <3>2. /\ m \in Steps /\ ~Sooner(clo.dir, Lst, m)
          /\ \A k \in Wanted : Sooner(clo.dir, m, k) => ~Sooner(clo.dir, k, Num(old))
          /\ Num(old) \in Wanted \/ \A k \in Wanted : ~Sooner(clo.dir, m, k)
      BY <1>3, <2>2, <2>3, <3>1, BackOn
    <3>3. Backing'
      BY <1>1, <2>1, <2>4, <2>5, <3>1, <3>2 DEF Backing
    <3> QED BY <1>1, <2>1, <2>6, <2>8, <3>3 DEF INum, Phases, During
  <2>9. CASE ret = "turn"
    <3>1. Turning
      BY <1>1, <2>9 DEF Phases, During
    <3>2. Wanted = {}
      BY <2>2, <3>1 DEF Turning
    <3>3. m \in Steps
      <4>1. /\ From \in Int /\ Step \in Nat \ {0} /\ Stride \in {Step, -Step} /\ Steps = Grid(From, Step)
            /\ clo.dir \in {-1, 1} /\ Num(now) \in Grid(From, Step)
        BY <3>1, NumbersAre DEF Turning
      <4>2. Num(now) + Stride \in Grid(From, Step)
        BY <4>1, LeadsOn, Zenon
      <4> QED BY <2>3, <4>1, <4>2
    <3>4. Turning'
      BY <1>1, <2>4, <2>5, <3>1, <3>2, <3>3 DEF Turning
    <3> QED BY <1>1, <2>1, <2>6, <2>9, <3>4 DEF INum, Phases, During
  <2>10. CASE ret = "print"
    <3>1. Printing
      BY <1>1, <2>10 DEF Phases, During
    <3>2. /\ m \in Steps /\ ~Sooner(clo.dir, m, Fst)
          /\ \A k \in Wanted : Sooner(clo.dir, k, m) <=> Sooner(clo.dir, k, Num(now)) \/ k = Num(now)
      BY <1>3, <2>3, <3>1, PrintOn
    <3>3. {l \in Wanted : Sooner(clo.dir, l, m)} = {l \in Wanted : Sooner(clo.dir, l, Num(now))}
      BY <2>2, <3>2
    <3>4. Printing'
      BY <1>1, <2>1, <2>4, <2>5, <3>1, <3>2, <3>3 DEF Printing
    <3> QED BY <1>1, <2>1, <2>6, <2>10, <3>4 DEF INum, Phases, During
  <2> QED BY <2>7, <2>8, <2>9, <2>10 DEF Counting
<1> QED BY <1>2, <1>3

\* The moment a number is the midnight of.
LEMMA NumberMoment ==
  ASSUME NEW n \in Int, 1 <= n
  PROVE  Moment(OnlyD(Daisy(n))) = MidnightOf(n)
<1>1. Daisy(n) \in DayDates /\ Daisy(n).typ = "daisy" /\ Daisy(n).n = n
  BY NumberIs
<1>2. DFixup(Daisy(n)) = Daisy(n)
  BY <1>1 DEF DFixup
<1>3. ConvToDaisy(Daisy(n)) = DayNumber(Daisy(n))
  BY <1>1 DEF ConvToDaisy, Numbers
<1>4. DayNumber(Daisy(n)) = n
  BY <1>1, SMT DEF DayNumber
<1> QED BY <1>1, <1>2, <1>3, <1>4, MomentIs

\* The loop of main(): what it prints is the next that is wanted.
LEMMA WriteCounts ==
  ASSUME IDates, Counting, Phases, Write
  PROVE  INum'
<1>1. pc = "print" /\ clo' = clo /\ args' = args
  BY DEF Write
<1>2. Printing
  BY <1>1 DEF Phases, During
<1>3. Fst' = Fst /\ Lst' = Lst /\ Steps' = Steps /\ Wanted' = Wanted /\ Stride' = Stride
  BY <1>1, AskedTheSame
<1> DEFINE n == Num(now)
<1>4. n \in Int /\ now = OnlyD(Daisy(n))
  BY NumbersAre DEF Counting, IsNumber
<1> HIDE DEF n
<1>5. DtFixup(now) = now
  BY <1>4, NumberIs
<1>6. CASE ~InRangeP(now)
  <2>1. pc' = "done" /\ ret' = ret /\ now' = now /\ seen' = seen
    BY <1>5, <1>6, Zenon DEF Write, Goto
  <2>2. Num(now) \notin InOrder(clo.dir, Fst, Lst)
    BY <1>2, <1>6, NumbersAre DEF Printing
  <2>3. Counting'
    BY <1>1, <1>3, <2>1 DEF Counting
  <2>4. Printing'
    BY <1>1, <1>2, <1>3, <2>1, <2>2 DEF Printing
  <2> QED BY <2>1, <2>3, <2>4 DEF INum, Phases, During
<1>7. CASE InRangeP(now)
  <2>1. /\ pc' = "this" /\ ret' = "print" /\ now' = DateAdd(now, clo.ite)
        /\ seen' = seen \union {Moment(now)}
    BY <1>5, <1>7, Zenon DEF Write, ThisThen
  <2> DEFINE m == Num(now) + Stride
  <2>2. m \in Int /\ now' = OnlyD(Daisy(m)) /\ 1 <= n
    BY <1>7, <2>1, NumbersAre DEF n
  <2>3. m = Num(now) + Stride
    OBVIOUS
  <2> HIDE DEF m
  <2>4. IsNumber(now') /\ Num(now') = m
    BY <2>2, NumberIs
  <2>5. Num(now) \in Wanted
    <3>1. ~Skipp(now)
      BY <1>1, <1>7 DEF IDates
    <3> QED BY <1>2, <1>7, <3>1, NumbersAre DEF Printing
  <2>6. Moment(now) = MidnightOf(Num(now))
    BY <1>4, <2>2, NumberMoment DEF n
  <2>7. Counting'
    BY <1>1, <1>3, <2>1, <2>4 DEF Counting
  <2>8. /\ m \in Steps /\ ~Sooner(clo.dir, m, Fst)
        /\ \A k \in Wanted : Sooner(clo.dir, k, m) <=> Sooner(clo.dir, k, Num(now)) \/ k = Num(now)
    BY <1>2, <1>7, <2>3, PrintOn
  <2>9. seen' = {MidnightOf(k) : k \in {l \in Wanted : Sooner(clo.dir, l, m)}}
    <3>1. seen = {MidnightOf(k) : k \in {l \in Wanted : Sooner(clo.dir, l, Num(now))}}
      BY <1>2 DEF Printing
    <3>2. {l \in Wanted : Sooner(clo.dir, l, m)} = {l \in Wanted : Sooner(clo.dir, l, Num(now))} \union {Num(now)}
      BY <2>5, <2>8
    <3> QED BY <2>1, <2>6, <3>1, <3>2
  <2>10. Printing'
    BY <1>1, <1>2, <1>3, <2>1, <2>4, <2>8, <2>9 DEF Printing
  <2> QED BY <2>1, <2>7, <2>10 DEF INum, Phases, During
<1> QED BY <1>6, <1>7

\* Sequences are by days or weeks from the first, if ever.
LEMMA RegularBefore ==
  ASSUME DOMAIN clo = Parts, IDates, [Next]_vars, Regular'
  PROVE  Regular
<1>1. /\ clo'.fst = clo.fst /\ clo'.alt = clo.alt /\ clo'.ite \in {clo.ite, Neg(clo.ite)}
      /\ clo.ite \in Seq(Durs)
  BY EndsStay DEF IDates
<1>2. Len(clo'.ite) = 1 /\ clo'.ite[1].unit \in {"d", "w"}
  BY DEF Regular
<1>3. Len(clo.ite) = 1 /\ clo.ite[1].unit = clo'.ite[1].unit
  BY <1>1, <1>2, NegFeasible
<1> QED BY <1>1, <1>2, <1>3 DEF Regular, Dated

\* Every step keeps what sequences by days or weeks keep.
LEMMA StepCounts ==
  ASSUME IInv, INum, [Next]_vars
  PROVE  INum'
<1>1. DOMAIN clo = Parts /\ (OnlyTP(clo.fst) \/ pc = "failed" \/ IDates)
  BY DEF IInv
<1>2. CASE OnlyTP(clo.fst)
  <2>1. OnlyTP(clo.fst)'
    BY <1>1, <1>2, EndsStay
  <2> QED BY <2>1 DEF INum, Regular, Dated
<1>3. CASE pc = "failed"
  <2>1. pc' = "failed"
    BY <1>3 DEF Next, Dir, Back, Turn, This, StepOff, Write, vars
  <2> QED BY <2>1 DEF INum
<1>4. CASE IDates /\ ~Regular
  BY <1>1, <1>4, RegularBefore DEF INum
<1>5. CASE IDates /\ Counting /\ Phases
  <2>1. CASE Dir
    BY <1>1, <1>5, <2>1, DirCounts
  <2>2. CASE Back
    BY <1>1, <1>5, <2>2, BackCounts
  <2>3. CASE Turn
    BY <1>1, <1>5, <2>3, TurnCounts
  <2>4. CASE This
    BY <1>5, <2>4, ThisCounts
  <2>5. CASE StepOff
    BY <1>5, <2>5, StepOffCounts
  <2>6. CASE Write
    BY <1>5, <2>6, WriteCounts
  <2>7. CASE UNCHANGED vars
    <3>1. clo' = clo /\ now' = now /\ old' = old /\ pc' = pc /\ ret' = ret /\ args' = args /\ seen' = seen
      BY <2>7 DEF vars
    <3>2. /\ Fst' = Fst /\ Lst' = Lst /\ Steps' = Steps /\ Wanted' = Wanted /\ Stride' = Stride
          /\ Skipp(now)' = Skipp(now) /\ InRangeP(now)' = InRangeP(now)
      BY <3>1, AskedTheSame
    <3>3. Counting'
      BY <1>5, <3>1, <3>2 DEF Counting
    <3>4. Phases'
      BY <1>5, <3>1, <3>2 DEF Phases, During, Finding, Backing, Turning, Printing
    <3> QED BY <3>3, <3>4 DEF INum
  <2> QED BY <2>1, <2>2, <2>3, <2>4, <2>5, <2>6, <2>7 DEF Next
<1> QED BY <1>1, <1>2, <1>3, <1>4, <1>5 DEF INum

\* When a sequence by days or weeks is over, all that was asked for was printed.
LEMMA AllIsPrinted ==
  ASSUME IInv, INum
  PROVE  NothingIsMissed
<1> SUFFICES ASSUME pc = "done", Regular PROVE NothingIsMissed
  BY DEF NothingIsMissed
<1>1. IDates /\ Counting /\ Printing
  BY DEF IInv, INum, Phases, Regular, Dated
<1>2. /\ Fst \in Int /\ Lst \in Int /\ From \in Int /\ Num(now) \in Int /\ Step \in Nat \ {0}
      /\ 1 <= Fst /\ 1 <= Lst /\ Wanted \subseteq Int /\ clo.dir \in {-1, 1}
  BY <1>1, NumbersAre DEF Counting, Printing
<1>3. ~InRangeP(now)
  BY <1>1, NumbersAre DEF Printing
<1>4. seen = {MidnightOf(k) : k \in Wanted}
  <2>1. {l \in Wanted : Sooner(clo.dir, l, Num(now))} = Wanted
    BY <1>1, <1>3, PrintIsDone
  <2> QED BY <1>1, <2>1 DEF Printing
<1>5. Moment(clo.fst) = MidnightOf(Fst) /\ Moment(clo.lst) = MidnightOf(Lst)
  <2>1. clo.fst = OnlyD(Daisy(Fst)) /\ clo.lst = OnlyD(Daisy(Lst))
    BY <1>1 DEF Counting, IsNumber, Fst, Lst
  <2> HIDE DEF Fst, Lst
  <2> QED BY <1>2, <2>1, NumberMoment
<1> HIDE DEF Fst, Lst
<1> DEFINE B == DAISY_UNIX_BASE
           lo == Days(Least)
           hi == Days(Greatest)
           from == Days(IF args.last THEN clo.lst ELSE clo.fst)
           way == clo.dir * (Days(clo.lst) - Days(clo.fst)) >= 0
           K == {k \in lo .. hi : way /\ (k - from) % Step = 0 /\ DaisyGetWday(k + B) \notin clo.ss}
<1>6. B \in Int /\ \A n \in Int : MidnightOf(n) \div SECS_PER_DAY = n - B
  <2>1. B \in Int
    BY DEF DAISY_UNIX_BASE
  <2>2. ASSUME NEW n \in Int PROVE (n * SECS_PER_DAY) \div SECS_PER_DAY = n
    BY SMT DEF SECS_PER_DAY
  <2>3. ASSUME NEW n \in Int PROVE MidnightOf(n) \div SECS_PER_DAY = n - B
    <3>1. n - B \in Int
      BY <2>1
    <3> QED BY <2>2, <3>1, Zenon DEF MidnightOf
  <2> QED BY <2>1, <2>3
<1>7. Days(clo.fst) = Fst - B /\ Days(clo.lst) = Lst - B
  BY <1>2, <1>5, <1>6, Zenon DEF Days
<1>8. from = From - B
  BY <1>7 DEF From
<1>9. /\ Fst < Lst => lo = Fst - B /\ hi = Lst - B
      /\ ~(Fst < Lst) => lo = Lst - B /\ hi = Fst - B
  <2>1. Moment(clo.fst) < Moment(clo.lst) <=> Fst < Lst
    BY <1>2, <1>5, SMT DEF MidnightOf, DAISY_UNIX_BASE, SECS_PER_DAY
  <2> QED BY <1>7, <2>1, Zenon DEF Least, Greatest
<1>10. way <=> IF clo.dir > 0 THEN Fst <= Lst ELSE Lst <= Fst
  <2> DEFINE p == Days(clo.lst) - Days(clo.fst)
  <2>1. p = Lst - Fst
    BY <1>2, <1>6, <1>7
  <2> HIDE DEF p
  <2>2. p \in Int
    BY <1>2, <2>1
  <2>3. way <=> clo.dir * p >= 0
    BY DEF p
  <2> HIDE DEF way
  <2>4. CASE clo.dir = 1
    BY <1>2, <2>1, <2>2, <2>3, <2>4
  <2>5. CASE clo.dir = -1
    BY <1>2, <2>1, <2>2, <2>3, <2>5
  <2> QED BY <1>2, <2>4, <2>5
<1> HIDE DEF B, lo, hi, from, way
<1>11. ASSUME NEW k \in Int
       PROVE  k \in InOrder(clo.dir, Fst, Lst) <=> way /\ k - B \in lo .. hi
  <2>1. k - B \in Int
    BY <1>6
  <2>2. CASE clo.dir = 1
    BY <1>2, <1>6, <1>9, <1>10, <2>1, <2>2 DEF InOrder
  <2>3. CASE clo.dir = -1
    BY <1>2, <1>6, <1>9, <1>10, <2>1, <2>3 DEF InOrder
  <2> QED BY <1>2, <2>2, <2>3
<1>12. ASSUME NEW k \in Int PROVE k \in Wanted <=> k - B \in K
  <2>1. (k - B) - from = k - From /\ (k - B) + B = k /\ k - B \in Int
    BY <1>2, <1>6, <1>8
  <2>2. k \in Steps <=> (k - From) % Step = 0
    BY DEF Steps, Grid
  <2> QED BY <1>11, <2>1, <2>2 DEF Wanted
<1>13. seen = {n * SECS_PER_DAY : n \in K}
  <2>1. \A k \in Int : MidnightOf(k) = (k - B) * SECS_PER_DAY
    BY DEF MidnightOf, B
  <2>2. K \subseteq Int
    BY <1>2, <1>6, <1>9 DEF lo, hi
  <2> HIDE DEF K
  <2>3. ASSUME NEW n \in K PROVE \E k \in Wanted : n * SECS_PER_DAY = MidnightOf(k)
    <3>1. n + B \in Int /\ (n + B) - B = n
      BY <1>6, <2>2
    <3>2. n + B \in Wanted
      BY <1>12, <2>3, <3>1
    <3> QED BY <2>1, <3>1, <3>2
  <2>4. ASSUME NEW k \in Wanted PROVE \E n \in K : MidnightOf(k) = n * SECS_PER_DAY
    <3>1. k \in Int /\ k - B \in K
      BY <1>2, <1>12
    <3> QED BY <2>1, <3>1
  <2> QED BY <1>4, <2>3, <2>4
<1>14. Step = Mag(clo.ite[1].dv) * (IF clo.ite[1].unit = "w" THEN 7 ELSE 1)
  BY DEF Step, StepOf
<1> QED BY <1>13, <1>14, Zenon DEF NothingIsMissed, B, lo, hi, from, way

\* "Generate a sequence of date/times from FIRST to LAST": when a sequence by
\* days or weeks without an alternative increment comes to its end, every day
\* from the first to the last one that the increment steps on, from the last one
\* backwards where that is fixed, was printed, but for those on weekdays to be
\* skipped, and nothing else was: main(), __seq_this() and __fixup_fst() of
\* dseq.c, whichever increment of days or weeks and whichever weekdays.
THEOREM NothingIsLeftOut == ASSUME CivilLines PROVE Spec => []NothingIsMissed
<1>1. Init => IInv /\ INum
  BY InitIsGood, InitCounts
<1>2. (IInv /\ INum) /\ [Next]_vars => (IInv /\ INum)'
  BY StepIsGood, StepCounts
<1>3. IInv /\ INum => NothingIsMissed
  BY AllIsPrinted
<1> QED BY <1>1, <1>2, <1>3, PTL DEF Spec

-----------------------------------------------------------------------------
(* Sequences lead on. *)

SignOf(durs) == Sgn(durs[1].dv)

\* __get_d_equiv(): workdays lead the way they are counted.
LEMMA WorkdaysLead ==
  ASSUME NEW dow \in 1 .. 7, NEW num \in Int, num # 0
  PROVE  DEquiv(dow, num) \in Int /\ Sgn(DEquiv(dow, num)) = Sgn(num)
<1> DEFINE weekend == dow >= SATURDAY
           moved == IF ~weekend THEN 0 ELSE IF num >= 0 THEN 8 - dow ELSE 5 - dow
           from == IF ~weekend THEN dow ELSE IF num >= 0 THEN MONDAY ELSE FRIDAY
           rest == IF ~weekend \/ num = 0 THEN num ELSE IF num > 0 THEN num - 1 ELSE num + 1
           days == Quot(rest, 5) * 7 + Rem(rest, 5)
           u5 == UMod(from + 384 + rest, 5)
           u7 == UMod(from + 384 + days, 7)
           e == DEquiv(dow, num)
<1>1. e = moved + days + u5 - u7 + (IF days >= 0 /\ u5 < u7 THEN 7 ELSE 0)
  BY DEF DEquiv
<1>2. /\ rest \in Int /\ from \in 1 .. 5 /\ moved \in Int
      /\ num > 0 => (moved = 0 /\ rest > 0) \/ (moved > 0 /\ rest >= 0)
      /\ num < 0 => (moved = 0 /\ rest < 0) \/ (moved < 0 /\ rest <= 0)
  BY SMT DEF SATURDAY, MONDAY, FRIDAY
<1> HIDE DEF moved, from, rest, e
<1>3. \A x \in Int : UMod(x, 5) \in 0 .. 4 /\ UMod(x, 7) \in 0 .. 6
  BY SMT DEF UMod
<1>4. days \in Int
  BY <1>2, SMT DEF Quot, Rem
<1>5. u5 \in 0 .. 4 /\ u7 \in 0 .. 6
  <2>1. from + 384 + rest \in Int /\ from + 384 + days \in Int
    <3> HIDE DEF days
    <3> QED BY <1>2, <1>4
  <2> QED BY <1>3, <2>1
<1>6. CASE num > 0
  <2>1. (moved = 0 /\ days > 0) \/ (moved > 0 /\ days >= 0)
    BY <1>2, <1>6, SMT DEF Quot, Rem
  <2> HIDE DEF days, u5, u7
  <2>2. e \in Int /\ e > 0
    BY <1>1, <1>2, <1>4, <1>5, <2>1, SMT
  <2> QED BY <1>6, <2>2 DEF Sgn, One, e
<1>7. CASE num < 0 /\ rest = 0
  <2>1. days = 0 /\ moved < 0
    BY <1>2, <1>7, SMT DEF Quot, Rem
  <2>2. u5 - u7 + (IF u5 < u7 THEN 7 ELSE 0) = 0 \/ ~(from = 5)
    BY <1>7, <2>1, SMT DEF UMod
  <2>3. from = 5
    BY <1>7, SMT DEF from, rest, FRIDAY, SATURDAY
  <2> HIDE DEF days, u5, u7
  <2>4. e \in Int /\ e < 0
    BY <1>1, <1>2, <1>4, <1>5, <2>1, <2>2, <2>3, SMT
  <2> QED BY <1>7, <2>4 DEF Sgn, One, e
<1>8. CASE num < 0 /\ rest < 0 /\ rest > -5
  <2>1. days = rest /\ moved <= 0
    BY <1>2, <1>8, SMT DEF Quot, Rem
  <2>2. rest + u5 - u7 < 0
    <3>1. rest \in {-4, -3, -2, -1} /\ from \in {1, 2, 3, 4, 5}
      BY <1>2, <1>8, SMT
    <3> HIDE DEF days
    <3> QED BY <2>1, <3>1, SMT DEF UMod
  <2> HIDE DEF days, u5, u7
  <2>4. e \in Int /\ e < 0
    BY <1>1, <1>2, <1>4, <1>5, <1>8, <2>1, <2>2, SMT
  <2> QED BY <1>8, <2>4 DEF Sgn, One, e
<1>9. CASE num < 0 /\ rest <= -5
  <2>1. days <= -7 /\ moved <= 0
    BY <1>2, <1>9, SMT DEF Quot, Rem
  <2> HIDE DEF days, u5, u7
  <2>4. e \in Int /\ e < 0
    BY <1>1, <1>2, <1>4, <1>5, <1>9, <2>1, SMT
  <2> QED BY <1>9, <2>4 DEF Sgn, One, e
<1> QED BY <1>2, <1>6, <1>7, <1>8, <1>9

\* Days, weeks and business days lead the way they are counted.
LEMMA DaysInLead ==
  ASSUME NEW n \in Int, NEW durs \in Seq(Durs), FeasibleP(durs), durs[1].dv # 0
  PROVE  /\ DaysIn(Daisy(n), durs[1].unit, durs[1].dv) \in Int
         /\ Sgn(DaysIn(Daisy(n), durs[1].unit, durs[1].dv)) = SignOf(durs)
<1> DEFINE u == durs[1].unit
           v == durs[1].dv
<1>1. v \in Int /\ v # 0 /\ u \in {"d", "w", "b"}
  BY FirstOne DEF FeasibleP
<1>2. SignOf(durs) = Sgn(v)
  BY DEF SignOf
<1> HIDE DEF u, v
<1> DEFINE Leads == DaysIn(Daisy(n), u, v) \in Int /\ Sgn(DaysIn(Daisy(n), u, v)) = Sgn(v)
<1>3. ASSUME u = "d" PROVE Leads
  BY <1>1, <1>3 DEF DaysIn
<1>4. ASSUME u = "w" PROVE Leads
  BY <1>1, <1>4, SMT DEF DaysIn, Sgn, One
<1>5. ASSUME u = "b" PROVE Leads
  <2> DEFINE dow == DaisyGetWday(DayNumber(Daisy(n)))
  <2>1. DayNumber(Daisy(n)) \in Int
    BY NumberIs, SMT DEF DayNumber
  <2>2. dow \in 1 .. 7
    BY <2>1, SMT DEF DaisyGetWday, OrElse, SUNDAY
  <2> HIDE DEF dow
  <2>3. DEquiv(dow, v) \in Int /\ Sgn(DEquiv(dow, v)) = Sgn(v)
    BY <1>1, <2>2, WorkdaysLead
  <2>4. DaysIn(Daisy(n), u, v) = DEquiv(dow, v)
    BY <1>5 DEF DaysIn, dow
  <2> QED BY <2>3, <2>4
<1> QED BY <1>1, <1>2, <1>3, <1>4, <1>5 DEF u, v

\* What is added leads on from a number of days, from those before the first day
\* of all as from that day.
LEMMA FeasibleLeads ==
  ASSUME NEW n \in Int, NEW durs \in Seq(Durs), FeasibleP(durs), durs[1].dv # 0
  PROVE  \E s \in Int : /\ Sgn(s) = SignOf(durs)
                        /\ DateAdd(OnlyD(Daisy(n)), durs) = OnlyD(Daisy((IF n > 0 THEN n ELSE 0) + s))
<1> DEFINE s == DaysIn(Daisy(n), durs[1].unit, durs[1].dv)
<1>1. s \in Int /\ Sgn(s) = SignOf(durs)
  BY DaysInLead
<1>2. DateAdd(OnlyD(Daisy(n)), durs) = OnlyD(Daisy(DayNumber(Daisy(n)) + s))
  BY <1>1, CountedOn
<1>3. DayNumber(Daisy(n)) = IF n > 0 THEN n ELSE 0
  BY NumberIs, SMT DEF DayNumber
<1> QED BY <1>1, <1>2, <1>3

\* Later than a number is later than what that is added to.
LEMMA LaterOn ==
  ASSUME NEW x, IsNumber(x), NEW durs \in Seq(Durs), FeasibleP(durs), durs[1].dv # 0,
         NEW k \in Int, 1 <= k, k = Num(x) \/ Sooner(SignOf(durs), k, Num(x))
  PROVE  Sooner(SignOf(durs), k, Num(DateAdd(x, durs)))
<1> DEFINE n == Num(x)
           p == IF n > 0 THEN n ELSE 0
           g == SignOf(durs)
<1>1. n \in Int /\ x = OnlyD(Daisy(n)) /\ p \in Int
  BY DEF IsNumber
<1>2. g \in {-1, 1}
  BY FirstOne DEF SignOf, Sgn, One, FeasibleP
<1> HIDE DEF n, g
<1>3. PICK s \in Int : Sgn(s) = g /\ DateAdd(OnlyD(Daisy(n)), durs) = OnlyD(Daisy(p + s))
  BY <1>1, FeasibleLeads, Zenon DEF g
<1>4. Num(DateAdd(x, durs)) = p + s
  <2>1. p + s \in Int
    BY <1>1
  <2> HIDE DEF p
  <2> QED BY <1>1, <1>3, <2>1, NumberIs
<1>5. Sooner(g, k, p + s)
  <2>1. k = n \/ Sooner(g, k, n)
    BY DEF n, g
  <2>2. CASE g = 1
    BY <1>1, <1>3, <2>1, <2>2, SMT DEF Sooner, Sgn, One
  <2>3. CASE g = -1
    BY <1>1, <1>3, <2>1, <2>3, SMT DEF Sooner, Sgn, One
  <2> QED BY <1>2, <2>2, <2>3
<1> QED BY <1>4, <1>5 DEF g

\* Naught leads nowhere.
LEMMA NaughtStays ==
  ASSUME NEW n \in Int, NEW durs \in Seq(Durs), FeasibleP(durs), durs[1].dv = 0
  PROVE  DateAdd(OnlyD(Daisy(n)), durs) = OnlyD(Daisy(n))
<1> DEFINE d == Daisy(n)
           x == OnlyD(d)
           dur == durs[1]
<1>1. d \in DayDates /\ d.typ = "daisy"
  BY NumberIs
<1>2. x.typ = "daisy" /\ x.d = d /\ OnlyDP(x) /\ ~OnlyTP(x)
  BY <1>1, OnlyDIs
<1>3. dur.unit \in {"d", "w", "b"} /\ dur.dv = 0
  BY DEF FeasibleP
<1>4. DateAdd(x, durs) = DateAddOne(x, dur)
  BY OneIsAdded DEF FeasibleP
<1> HIDE DEF d, dur
<1>5. DAdd(d, dur.unit, dur.dv) = d
  BY <1>3, Zenon DEF DAdd
<1>6. PlainAdd(x, dur) = [x EXCEPT !.d = DAdd(d, dur.unit, dur.dv)]
  <2>1. dur.unit \notin {"h", "m", "s"} /\ dur.unit # "ns"
    BY <1>3
  <2> HIDE DEF x
  <2> QED BY <1>2, <2>1, Zenon DEF PlainAdd
<1>7. PlainAdd(x, dur) = x
  BY <1>1, <1>5, <1>6, OnlyDWith
<1>8. x.typ # "sexy"
  BY <1>2
<1> HIDE DEF x
<1>9. DtAdd(x, dur) = x
  BY <1>2, <1>7, <1>8, Zenon DEF DtAdd, RealAdd
<1>10. DateAddOne(x, dur) = x
  BY <1>2, <1>9, Zenon DEF DateAddOne, CountOn
<1> QED BY <1>4, <1>10 DEF x, d

\* What is added leads the way its sign says.
LEMMA WayIs ==
  ASSUME NEW n \in Int, 1 <= n, NEW durs \in Seq(Durs), FeasibleP(durs)
  PROVE  Sgn(Moment(DateAdd(OnlyD(Daisy(n)), durs)) - Moment(OnlyD(Daisy(n)))) = SignOf(durs)
<1> DEFINE x == OnlyD(Daisy(n))
<1>1. Moment(x) = MidnightOf(n) /\ MidnightOf(n) \in Int
  BY NumberMoment, MidnightsInOrder
<1>2. CASE durs[1].dv = 0
  <2>1. DateAdd(x, durs) = x
    BY <1>2, NaughtStays
  <2> HIDE DEF x
  <2>2. Sgn(MidnightOf(n) - MidnightOf(n)) = Sgn(0)
    BY <1>1
  <2> QED BY <1>1, <1>2, <2>1, <2>2 DEF SignOf, x
<1>3. CASE durs[1].dv # 0
  <2>1. PICK s \in Int : Sgn(s) = SignOf(durs) /\ DateAdd(x, durs) = OnlyD(Daisy(n + s))
    BY <1>3, FeasibleLeads
  <2> DEFINE m == n + s
             q == IF m > 0 THEN m ELSE 0
  <2>2. m \in Int /\ q \in Int
    OBVIOUS
  <2>3. Sgn(q - n) = Sgn(s)
    BY SMT DEF Sgn, One
  <2> HIDE DEF m
  <2>4. Moment(OnlyD(Daisy(m))) = MidnightOf(q)
    <3>1. Daisy(m) \in DayDates /\ Daisy(m).typ = "daisy" /\ Daisy(m).n = m
      BY <2>2, NumberIs
    <3>2. DFixup(Daisy(m)) = Daisy(m)
      BY <3>1 DEF DFixup
    <3>3. ConvToDaisy(Daisy(m)) = DayNumber(Daisy(m))
      BY <3>1 DEF ConvToDaisy, Numbers
    <3>4. DayNumber(Daisy(m)) = q
      BY <2>2, <3>1, SMT DEF DayNumber
    <3> HIDE DEF q
    <3> QED BY <2>2, <3>1, <3>2, <3>3, <3>4, MomentIs
  <2> HIDE DEF q
  <2>5. Sgn(MidnightOf(q) - MidnightOf(n)) = Sgn(q - n)
    BY <2>2, SMT DEF MidnightOf, DAISY_UNIX_BASE, SECS_PER_DAY, Sgn, One
  <2> HIDE DEF x
  <2> QED BY <1>1, <2>1, <2>3, <2>4, <2>5 DEF m, x
<1> QED BY <1>2, <1>3

\* Command lines where what is added, by the increment and the alternative, is
\* some days, weeks or business days; not for ISO ordinal dates.
LinesByDays ==
  \A a \in Args :
    \/ \E t : a.fst = OnlyT(t)
    \/ /\ a.fst.typ # "yd"
       /\ a.ite = <<>> \/ FeasibleP(a.ite)
       /\ a.alt = <<>> \/ FeasibleP(a.alt)

Within(label) == pc = label \/ (pc \in {"this", "alt", "ite"} /\ ret = label)

\* All that is added is days, to numbers of them.
Led ==
  /\ clo.fst.typ = "daisy"
  /\ FeasibleP(clo.ite) /\ clo.ite[1].dv # 0
  /\ clo.alt = args.alt /\ (clo.alt = <<>> \/ FeasibleP(clo.alt))
  /\ pc = "alt" => clo.alt # <<>>
  /\ pc # "failed" => ret \in {"dir", "back", "turn", "print"}
  /\ Within("back") \/ Within("turn") => args.last

\* The alternative leads the way of the increment, all the time.
Leading == clo.alt = <<>> \/ (~args.last /\ SignOf(clo.alt) = SignOf(clo.ite))

\* The first addition leads the way of the sequence, back from the last one is
\* the other way, and a date to be printed is ahead of what was printed.
FirstLeads == clo.dir = 0 /\ shown = Nothing /\ Sooner(SignOf(clo.ite), Fst, Num(now))
BackLeads == clo.dir = -SignOf(clo.ite) /\ shown = Nothing
PrintLeads ==
  /\ clo.dir = SignOf(clo.ite)
  /\ shown = Nothing \/ (IsNumber(shown) /\ 1 <= Num(shown) /\ Sooner(clo.dir, Num(shown), Num(now)))

Ahead ==
  /\ Within("dir") => FirstLeads
  /\ Within("back") \/ Within("turn") => BackLeads
  /\ Within("print") => PrintLeads

ILead == OnlyTP(clo.fst) \/ pc = "failed" \/ (Led /\ (Leading => Ahead))

\* What is known of a sequence that is led by days.
LEMMA LedNumbers ==
  ASSUME IDates, Led
  PROVE  /\ IsNumber(clo.fst) /\ Fst >= 1 /\ Fst \in Int
         /\ IsNumber(clo.lst) /\ Lst >= 1 /\ Lst \in Int
         /\ pc # "failed" => IsNumber(now)
         /\ clo.ite \in Seq(Durs) /\ clo.alt \in Seq(Durs)
         /\ SignOf(clo.ite) \in {-1, 1}
<1>1. PICK a, b : Datable(a) /\ Datable(b) /\ a.typ = b.typ /\ clo.fst = OnlyD(a) /\ clo.lst = OnlyD(b)
  BY DEF IDates, EndsAreDays
<1>2. a.typ = "daisy"
  BY <1>1, DatableMore, OnlyDIs DEF Led
<1>3. IsNumber(clo.fst) /\ Fst >= 1 /\ IsNumber(clo.lst) /\ Lst >= 1
  BY <1>1, <1>2, DaisyIsNumber DEF Fst, Lst
<1>4. Fst \in Int /\ Lst \in Int
  BY <1>3 DEF IsNumber, Fst, Lst
<1>5. ASSUME pc # "failed" PROVE IsNumber(now)
  <2>1. now \in DaysOnly /\ now.typ = "daisy"
    BY <1>5 DEF IDates, Ready, Led
  <2>2. PICK d \in DayDates : now = OnlyD(d)
    BY <2>1 DEF DaysOnly
  <2>3. d.typ = "daisy"
    BY <2>1, <2>2, OnlyDIs
  <2>4. d \in DaisyDates
    BY <2>3, KindsAre
  <2>5. d.n \in Int /\ d = Daisy(d.n)
    BY <2>4 DEF DaisyDates, Daisy
  <2> DEFINE n == d.n
  <2>6. n \in Int /\ now = OnlyD(Daisy(n))
    BY <2>2, <2>5
  <2> HIDE DEF n
  <2> QED BY <2>6, NumberIs
<1>6. clo.ite \in Seq(Durs) /\ clo.alt \in Seq(Durs)
  BY DEF IDates
<1>7. SignOf(clo.ite) \in {-1, 1}
  BY <1>6, FirstOne DEF Led, FeasibleP, SignOf, Sgn, One
<1> QED BY <1>3, <1>4, <1>5, <1>6, <1>7

\* date_neg_dur(): turned around, it leads the other way.
LEMMA NegLeads ==
  ASSUME NEW durs \in Seq(Durs), FeasibleP(durs)
  PROVE  FeasibleP(Neg(durs)) /\ Neg(durs)[1].dv = -durs[1].dv /\ SignOf(Neg(durs)) = -SignOf(durs)
<1>1. durs[1] \in Durs /\ durs[1].dv \in Int /\ 1 \in DOMAIN durs
  BY FirstOne DEF FeasibleP
<1>2. Neg(durs)[1] = [durs[1] EXCEPT !.dv = -durs[1].dv]
  BY <1>1, Zenon DEF Neg
<1>3. Neg(durs)[1].dv = -durs[1].dv
  BY <1>1, <1>2 DEF Durs
<1>4. FeasibleP(Neg(durs))
  BY NegFeasible
<1>5. \A v \in Int : Sgn(-v) = -Sgn(v)
  BY SMT DEF Sgn, One
<1> QED BY <1>1, <1>3, <1>4, <1>5 DEF SignOf

\* A sequence is led by what it begins with.
LEMMA InitLeads ==
  ASSUME CivilLines, LinesByDays, Init
  PROVE  ILead
<1> SUFFICES ASSUME ~OnlyTP(clo.fst), pc # "failed" PROVE Led /\ Ahead
  BY DEF ILead
<1>1. /\ args \in Args /\ clo = Setup(args, Ends(args)) /\ shown = Nothing /\ ret = "dir"
      /\ ~Mixed(clo) /\ ~NaughtP(clo.ite) /\ pc = "this" /\ now = DateAdd(clo.fst, clo.ite)
  BY DEF Init
<1>2. ~\E t : args.fst = OnlyT(t)
  BY <1>1, TimesBegin
<1>3. /\ args.fst.typ # "yd"
      /\ args.ite = <<>> \/ FeasibleP(args.ite)
      /\ args.alt = <<>> \/ FeasibleP(args.alt)
  BY <1>1, <1>2 DEF LinesByDays
<1>4. /\ \E d : Datable(d) /\ args.fst = OnlyD(d)
      /\ (\E t : args.lst = OnlyT(t)) \/ (\E d : Datable(d) /\ args.lst = OnlyD(d))
  BY <1>1, <1>2 DEF CivilLines
<1>5. \E d : Datable(d) /\ args.lst = OnlyD(d)
  BY <1>1, <1>4, MixedIs
<1>6. IDates
  BY <1>1, InitIsGood DEF IInv
<1> DEFINE e == Ends(args)
           ite == Increment(e, args.ite)
<1>7. PICK d : Datable(d) /\ args.fst = OnlyD(d)
  BY <1>4
<1>8. e.fst = OnlyD(d) /\ \E f : Datable(f) /\ f.typ = d.typ /\ e.lst = OnlyD(f)
  BY <1>5, <1>7, EndsOfDates
<1>9. PICK f : Datable(f) /\ f.typ = d.typ /\ e.lst = OnlyD(f)
  BY <1>8
<1> HIDE DEF e
<1>10. FeasibleP(ite)
  <2>1. ~OnlyTP(e.fst) /\ (e.fst.typ = "ymd" => e.fst.d.m # 0 /\ e.fst.d.d # 0)
    <3>1. ~OnlyTP(e.fst) /\ e.fst.typ = d.typ /\ e.fst.d = d /\ d \in DayDates
      BY <1>7, <1>8, DatableMore, OnlyDIs
    <3>2. ASSUME d.typ = "ymd" PROVE d.m # 0 /\ d.d # 0
      <4>1. d \in YmdDates
        BY <3>1, <3>2, KindsAre
      <4> QED BY <4>1, SMT DEF YmdDates
    <3> QED BY <3>1, <3>2
  <2>2. ite = IF args.ite = <<>> THEN <<Of("d", 1)>> ELSE args.ite
    BY <2>1, Zenon DEF Increment
  <2>3. FeasibleP(<<Of("d", 1)>>)
    BY DEF FeasibleP, Of
  <2> QED BY <1>3, <2>2, <2>3
<1> HIDE DEF ite
<1>11. PICK g, h : /\ Datable(g) /\ Datable(h) /\ g.typ = h.typ
                   /\ Numbered(e, ite).fst = OnlyD(g) /\ Numbered(e, ite).lst = OnlyD(h)
                   /\ FeasibleP(ite) => g.typ # "ymd"
                   /\ g.typ \in {d.typ, "daisy"}
  BY <1>7, <1>8, <1>9, NumberedIs
<1>12. clo.fst = OnlyD(g) /\ clo.ite = ite /\ clo.alt = args.alt
  <2>1. clo = Setup(args, e) /\ ite = Increment(e, args.ite)
    BY <1>1 DEF e, ite
  <2>2. Setup(args, e).fst = Numbered(e, ite).fst /\ Setup(args, e).ite = ite /\ Setup(args, e).alt = args.alt
    BY <2>1, SetupIs, SMT
  <2> QED BY <1>11, <2>1, <2>2, Zenon
<1>13. g.typ = "daisy"
  <2>1. d.typ = args.fst.typ /\ d.typ \in {"ymd", "yd", "daisy"}
    BY <1>7, DatableMore, OnlyDIs
  <2> QED BY <1>3, <1>10, <1>11, <2>1
<1>14. clo.fst.typ = "daisy"
  BY <1>11, <1>12, <1>13, DatableMore, OnlyDIs
<1>15. FeasibleP(clo.ite) /\ clo.ite[1].dv # 0
  <2>1. Len(clo.ite) = 1 /\ clo.ite \in Seq(Durs)
    BY <1>6, <1>10, <1>12 DEF FeasibleP, IDates
  <2>2. DOMAIN clo.ite = {1}
    BY <2>1, SMT
  <2> QED BY <1>1, <1>10, <1>12, <2>2 DEF NaughtP
<1>16. Led
  BY <1>1, <1>3, <1>12, <1>14, <1>15 DEF Led, Within
<1>17. clo.dir = 0
  <2>1. ite = Increment(e, args.ite) /\ clo = Setup(args, e)
    BY <1>1 DEF e, ite
  <2>2. Setup(args, e).fst = Numbered(e, ite).fst
    BY <2>1, SetupIs, SMT
  <2>3. Setup(args, e).dir = IF OnlyTP(Numbered(e, ite).fst) THEN Sgn(ite[1].dv) ELSE 0
    BY <2>1, SetupIs, Zenon
  <2> QED BY <2>1, <2>2, <2>3
<1>18. Sooner(SignOf(clo.ite), Fst, Num(now))
  <2>1. IsNumber(clo.fst) /\ Fst >= 1 /\ Fst \in Int /\ clo.ite \in Seq(Durs) /\ Fst = Num(clo.fst)
    BY <1>6, <1>16, LedNumbers DEF Fst
  <2> HIDE DEF Fst
  <2>2. Sooner(SignOf(clo.ite), Fst, Num(DateAdd(clo.fst, clo.ite)))
    BY <1>15, <2>1, LaterOn
  <2> QED BY <1>1, <2>2
<1> QED BY <1>1, <1>16, <1>17, <1>18 DEF Ahead, Within, FirstLeads

\* __seq_this(): stepping off dates that are left out leads on, by either.
LEMMA SteppingLeads ==
  ASSUME IDates, Led, Leading => Ahead, pc \in {"this", "alt", "ite"}, pc' \in {ret, "alt", "ite"},
         pc' = "alt" => clo.alt # <<>>, clo' = clo, ret' = ret, args' = args, shown' = shown,
         \/ now' = now
         \/ now' = DateAdd(now, clo.ite)
         \/ clo.alt # <<>> /\ now' = DateAdd(now, clo.alt)
  PROVE  Led' /\ (Leading' => Ahead')
<1>1. ret \in {"dir", "back", "turn", "print"} /\ IsNumber(now)
  BY LedNumbers DEF Led
<1>2. \A l \in {"dir", "back", "turn", "print"} : (pc' = l \/ (pc' \in {"this", "alt", "ite"} /\ ret' = l)) => Within(l)
  BY <1>1 DEF Within
<1>3. /\ Within("dir")' => Within("dir")
      /\ Within("back")' => Within("back")
      /\ Within("turn")' => Within("turn")
      /\ Within("print")' => Within("print")
  BY <1>2 DEF Within
<1>4. Led'
  BY <1>1, <1>3 DEF Led
<1>5. Leading' <=> Leading
  BY DEF Leading
<1>6. ASSUME Leading PROVE Ahead'
  <2>1. SignOf(clo.ite) \in {-1, 1} /\ clo.ite \in Seq(Durs) /\ clo.alt \in Seq(Durs) /\ Fst \in Int /\ Fst >= 1
    BY LedNumbers
  <2>2. ASSUME NEW k \in Int, 1 <= k, Sooner(SignOf(clo.ite), k, Num(now))
        PROVE  Sooner(SignOf(clo.ite), k, Num(now'))
    <3>1. CASE now' = now
      BY <2>2, <3>1
    <3>2. CASE now' = DateAdd(now, clo.ite)
      BY <1>1, <2>1, <2>2, <3>2, LaterOn DEF Led
    <3>3. CASE clo.alt # <<>> /\ now' = DateAdd(now, clo.alt)
      <4>1. FeasibleP(clo.alt) /\ SignOf(clo.alt) = SignOf(clo.ite)
        BY <1>6, <3>3 DEF Led, Leading
      <4>2. clo.alt[1].dv # 0
        <5>1. Sgn(0) = 0
          BY DEF Sgn, One
        <5>2. SignOf(clo.alt) # 0
          BY <2>1, <4>1
        <5> QED BY <5>1, <5>2 DEF SignOf
      <4> QED BY <1>1, <2>1, <2>2, <3>3, <4>1, <4>2, LaterOn
    <3> QED BY <3>1, <3>2, <3>3
  <2>3. Fst' = Fst /\ SignOf(clo.ite)' = SignOf(clo.ite)
    BY DEF Fst, SignOf
  <2>4. Within("dir") /\ FirstLeads => FirstLeads'
    <3> SUFFICES ASSUME FirstLeads PROVE FirstLeads'
      OBVIOUS
    <3>1. clo.dir = 0 /\ shown = Nothing /\ Sooner(SignOf(clo.ite), Fst, Num(now))
      BY DEF FirstLeads
    <3>2. Sooner(SignOf(clo.ite), Fst, Num(now'))
      BY <2>1, <2>2, <3>1
    <3> QED BY <2>3, <3>1, <3>2 DEF FirstLeads, Nothing
  <2>5. BackLeads => BackLeads'
    BY <2>3 DEF BackLeads, Nothing
  <2>6. PrintLeads => PrintLeads'
    <3> SUFFICES ASSUME PrintLeads PROVE PrintLeads'
      OBVIOUS
    <3>1. /\ clo.dir = SignOf(clo.ite)
          /\ shown = Nothing \/ (IsNumber(shown) /\ 1 <= Num(shown) /\ Sooner(clo.dir, Num(shown), Num(now)))
      BY DEF PrintLeads
    <3>2. CASE shown = Nothing
      BY <2>3, <3>1, <3>2 DEF PrintLeads, Nothing
    <3>3. CASE IsNumber(shown) /\ 1 <= Num(shown) /\ Sooner(clo.dir, Num(shown), Num(now))
      <4>1. Num(shown) \in Int
        BY <3>3 DEF IsNumber
      <4>2. Sooner(clo.dir, Num(shown), Num(now'))
        BY <2>2, <3>1, <3>3, <4>1
      <4>3. IsNumber(shown') /\ 1 <= Num(shown') /\ Sooner(clo'.dir, Num(shown'), Num(now'))
        BY <3>3, <4>2
      <4> QED BY <2>3, <3>1, <4>3 DEF PrintLeads
    <3> QED BY <3>1, <3>2, <3>3
  <2> QED BY <1>3, <1>6, <2>4, <2>5, <2>6 DEF Ahead
<1> QED BY <1>4, <1>5, <1>6

\* __get_dir(): the direction is that of the increment.
LEMMA DirLeads ==
  ASSUME DOMAIN clo = Parts, ~OnlyTP(clo.fst), IDates, Led, Leading => Ahead, Dir
  PROVE  ILead'
<1> DEFINE dir == DtCmp(now, clo.fst)
<1>1. pc = "dir" /\ shown' = shown /\ args' = args
  BY DEF Dir, Printed
<1>2. /\ IsNumber(clo.fst) /\ Fst \in Int /\ IsNumber(now) /\ clo.ite \in Seq(Durs)
      /\ SignOf(clo.ite) \in {-1, 1}
  BY <1>1, LedNumbers
<1>3. ASSUME Leading PROVE dir = SignOf(clo.ite) /\ shown = Nothing
  <2>1. FirstLeads
    BY <1>1, <1>3 DEF Ahead, Within
  <2>2. dir = Sgn(Num(now) - Num(clo.fst)) /\ Num(now) \in Int /\ Num(clo.fst) \in Int
    BY <1>2, NumbersCompare DEF IsNumber
  <2>3. Sooner(SignOf(clo.ite), Num(clo.fst), Num(now)) /\ shown = Nothing
    BY <2>1 DEF FirstLeads, Fst
  <2> HIDE DEF dir
  <2>4. CASE SignOf(clo.ite) = 1
    BY <2>2, <2>3, <2>4, SMT DEF Sooner, Sgn, One
  <2>5. CASE SignOf(clo.ite) = -1
    BY <2>2, <2>3, <2>5, SMT DEF Sooner, Sgn, One
  <2> QED BY <1>2, <2>4, <2>5
<1> HIDE DEF dir
<1>4. \/ pc' = "failed"
      \/ /\ args.last /\ pc' = "back" /\ ret' = ret
         /\ clo' = [clo EXCEPT !.dir = dir, !.ite = Neg(clo.ite)]
      \/ /\ ~args.last /\ pc' = "this" /\ ret' = "print" /\ clo' = [clo EXCEPT !.dir = dir]
  BY Zenon DEF Dir, Goto, ThisThen, dir
<1>5. CASE pc' = "failed"
  BY <1>5 DEF ILead
<1>6. CASE /\ args.last /\ pc' = "back" /\ ret' = ret
           /\ clo' = [clo EXCEPT !.dir = dir, !.ite = Neg(clo.ite)]
  <2>1. clo'.dir = dir /\ clo'.ite = Neg(clo.ite) /\ clo'.fst = clo.fst /\ clo'.alt = clo.alt
    BY <1>6 DEF Parts
  <2>2. FeasibleP(clo'.ite) /\ clo'.ite[1].dv = -clo.ite[1].dv /\ SignOf(clo'.ite) = -SignOf(clo.ite)
    BY <1>2, <2>1, NegLeads DEF Led
  <2>3. clo.ite[1].dv \in Int /\ clo.ite[1].dv # 0
    BY <1>2, FirstOne DEF Led, FeasibleP
  <2>4. clo'.ite[1].dv # 0
    BY <2>2, <2>3
  <2>5. Led'
    BY <1>1, <1>6, <2>1, <2>2, <2>4 DEF Led, Within
  <2>6. ASSUME Leading' PROVE Ahead'
    <3>1. Leading
      BY <1>1, <1>6, <2>1, <2>6 DEF Leading
    <3>2. clo'.dir = -SignOf(clo'.ite) /\ shown' = Nothing
      BY <1>1, <1>2, <1>3, <2>1, <2>2, <3>1
    <3>3. BackLeads'
      BY <3>2 DEF BackLeads, SignOf, Nothing
    <3> QED BY <1>6, <3>3 DEF Ahead, Within
  <2> QED BY <2>5, <2>6 DEF ILead
<1>7. CASE ~args.last /\ pc' = "this" /\ ret' = "print" /\ clo' = [clo EXCEPT !.dir = dir]
  <2>1. clo'.dir = dir /\ clo'.ite = clo.ite /\ clo'.fst = clo.fst /\ clo'.alt = clo.alt
    BY <1>7 DEF Parts
  <2>2. Led'
    BY <1>1, <1>7, <2>1 DEF Led, Within
  <2>3. ASSUME Leading' PROVE Ahead'
    <3>1. Leading
      BY <1>1, <2>1, <2>3 DEF Leading, SignOf
    <3>2. clo'.dir = SignOf(clo'.ite) /\ shown' = Nothing
      BY <1>1, <1>3, <2>1, <3>1
    <3>3. PrintLeads'
      BY <3>2 DEF PrintLeads, SignOf, Nothing
    <3> QED BY <1>7, <3>3 DEF Ahead, Within
  <2> QED BY <2>2, <2>3 DEF ILead
<1> QED BY <1>4, <1>5, <1>6, <1>7

\* __fixup_fst(): nothing is printed on the way back.
LEMMA BackTurnLeads ==
  ASSUME DOMAIN clo = Parts, ~OnlyTP(clo.fst), IDates, Led, Leading => Ahead, Back \/ Turn
  PROVE  ILead'
<1>1. shown' = shown /\ args' = args /\ args.last
  BY DEF Back, Turn, Printed, Led, Within
<1>2. CASE Back
  <2>1. pc = "back" /\ clo' = clo /\ pc' = "this" /\ ret' \in {"back", "turn"}
    BY <1>2, Zenon DEF Back, ThisThen
  <2>2. Led'
    BY <1>1, <2>1 DEF Led, Within
  <2>3. ASSUME Leading' PROVE Ahead'
    <3>1. Leading
      BY <1>1, <2>1, <2>3 DEF Leading
    <3>2. BackLeads
      BY <2>1, <3>1 DEF Ahead, Within
    <3>3. BackLeads'
      BY <1>1, <2>1, <3>2 DEF BackLeads, SignOf, Nothing
    <3> QED BY <2>1, <3>3 DEF Ahead, Within
  <2> QED BY <2>2, <2>3 DEF ILead
<1>3. CASE Turn
  <2>1. pc = "turn" /\ clo' = [clo EXCEPT !.ite = Neg(clo.ite)] /\ pc' = "this" /\ ret' = "print"
    BY <1>3, Zenon DEF Turn, ThisThen
  <2>2. clo'.dir = clo.dir /\ clo'.ite = Neg(clo.ite) /\ clo'.fst = clo.fst /\ clo'.alt = clo.alt
    BY <2>1 DEF Parts
  <2>3. clo.ite \in Seq(Durs) /\ SignOf(clo.ite) \in {-1, 1}
    BY LedNumbers
  <2>4. FeasibleP(clo'.ite) /\ clo'.ite[1].dv = -clo.ite[1].dv /\ SignOf(clo'.ite) = -SignOf(clo.ite)
    BY <2>2, <2>3, NegLeads DEF Led
  <2>5. clo.ite[1].dv \in Int /\ clo.ite[1].dv # 0
    BY <2>3, FirstOne DEF Led, FeasibleP
  <2>6. clo'.ite[1].dv # 0
    BY <2>4, <2>5
  <2>7. Led'
    BY <1>1, <2>1, <2>2, <2>4, <2>6 DEF Led, Within
  <2>8. ASSUME Leading' PROVE Ahead'
    <3>1. Leading
      BY <1>1, <2>2, <2>8 DEF Leading
    <3>2. BackLeads
      BY <2>1, <3>1 DEF Ahead, Within
    <3>3. clo'.dir = SignOf(clo'.ite) /\ shown' = Nothing
      BY <1>1, <2>2, <2>4, <3>2 DEF BackLeads
    <3>4. PrintLeads'
      BY <3>3 DEF PrintLeads, SignOf, Nothing
    <3> QED BY <2>1, <3>4 DEF Ahead, Within
  <2> QED BY <2>7, <2>8 DEF ILead
<1> QED BY <1>2, <1>3

\* A number in range is one of a day.
LEMMA InRangeNumber ==
  ASSUME IDates, Led, IsNumber(now), InRangeP(now)
  PROVE  1 <= Num(now) /\ Num(now) \in Int
<1>1. /\ IsNumber(clo.fst) /\ Fst >= 1 /\ Fst \in Int /\ IsNumber(clo.lst) /\ Lst >= 1 /\ Lst \in Int
      /\ clo.dir \in {-1, 0, 1}
  BY LedNumbers DEF IDates
<1>2. Num(now) \in InOrder(clo.dir, Fst, Lst)
  BY <1>1, TestsAre
<1> HIDE DEF Fst, Lst
<1>3. Num(now) \in Int
  BY DEF IsNumber
<1> QED BY <1>1, <1>2, <1>3, SMT DEF InOrder

\* The loop of main(): the next date is ahead of the one that is printed.
LEMMA WriteLeads ==
  ASSUME IDates, Led, Leading => Ahead, Write
  PROVE  ILead'
<1>1. pc = "print" /\ clo' = clo /\ args' = args
  BY DEF Write
<1>2. /\ IsNumber(clo.fst) /\ Fst >= 1 /\ Fst \in Int /\ IsNumber(clo.lst) /\ Lst >= 1 /\ Lst \in Int
      /\ IsNumber(now) /\ clo.ite \in Seq(Durs)
  BY <1>1, LedNumbers
<1>3. DtFixup(now) = now
  <2> DEFINE n == Num(now)
  <2>1. n \in Int /\ now = OnlyD(Daisy(n))
    BY <1>2 DEF IsNumber
  <2> HIDE DEF n
  <2> QED BY <2>1, NumberIs
<1>4. CASE ~InRangeP(now)
  <2>1. pc' = "done" /\ ret' = ret
    BY <1>3, <1>4, Zenon DEF Write, Goto
  <2> QED BY <1>1, <2>1 DEF ILead, Led, Ahead, Within
<1>5. CASE InRangeP(now)
  <2>1. pc' = "this" /\ ret' = "print" /\ now' = DateAdd(now, clo.ite) /\ shown' = now
    BY <1>3, <1>5, Zenon DEF Write, ThisThen
  <2>2. Led'
    BY <1>1, <2>1 DEF Led, Within
  <2>3. ASSUME Leading' PROVE Ahead'
    <3>1. Leading
      BY <1>1, <2>3 DEF Leading
    <3>2. PrintLeads
      BY <1>1, <3>1 DEF Ahead, Within
    <3>3. clo.dir = SignOf(clo.ite)
      BY <3>2 DEF PrintLeads
    <3>4. 1 <= Num(now) /\ Num(now) \in Int
      BY <1>2, <1>5, InRangeNumber
    <3>5. Sooner(clo.dir, Num(now), Num(now'))
      BY <1>2, <2>1, <3>3, <3>4, LaterOn DEF Led
    <3>6. PrintLeads'
      BY <1>1, <1>2, <2>1, <3>3, <3>4, <3>5 DEF PrintLeads, SignOf
    <3> QED BY <2>1, <3>6 DEF Ahead, Within
  <2> QED BY <2>2, <2>3 DEF ILead
<1> QED BY <1>4, <1>5

\* Every step of a sequence led by days keeps what that is.
LEMMA StepLeads ==
  ASSUME IInv, ILead, [Next]_vars
  PROVE  ILead'
<1>1. DOMAIN clo = Parts /\ clo'.fst = clo.fst
  BY EndsStay DEF IInv
<1>2. CASE OnlyTP(clo.fst)
  <2>1. OnlyTP(clo.fst)'
    BY <1>1, <1>2
  <2> QED BY <2>1 DEF ILead
<1>3. CASE pc = "failed"
  <2>1. pc' = "failed"
    BY <1>3 DEF Next, Dir, Back, Turn, This, StepOff, Write, vars
  <2> QED BY <2>1 DEF ILead
<1>4. CASE ~OnlyTP(clo.fst) /\ pc # "failed"
  <2>1. IDates /\ Led /\ (Leading => Ahead)
    BY <1>4 DEF IInv, ILead
  <2>2. CASE Dir
    BY <1>1, <1>4, <2>1, <2>2, DirLeads
  <2>3. CASE Back \/ Turn
    BY <1>1, <1>4, <2>1, <2>3, BackTurnLeads
  <2>4. CASE This
    <3>1. pc = "this" /\ clo' = clo /\ ret' = ret /\ args' = args /\ shown' = shown
      BY <2>4 DEF This, Printed, Goto
    <3>2. \/ now' = now /\ pc' \in {ret, "ite"}
          \/ clo.alt # <<>> /\ now' = DateAdd(now, clo.alt) /\ pc' = "alt"
      BY <2>4, Zenon DEF This, Goto
    <3>3. ret \in {"dir", "back", "turn", "print"}
      BY <1>4, <2>1 DEF Led
    <3>4. Led' /\ (Leading' => Ahead')
      BY <2>1, <3>1, <3>2, <3>3, SteppingLeads
    <3> QED BY <3>4 DEF ILead
  <2>5. CASE StepOff
    <3>1. pc \in {"alt", "ite"} /\ clo' = clo /\ ret' = ret /\ args' = args /\ shown' = shown
      BY <2>5 DEF StepOff, Printed, Goto
    <3>2. \/ now' = now /\ pc' = ret
          \/ pc = "alt" /\ now' = DateAdd(now, clo.alt) /\ pc' = pc
          \/ pc = "ite" /\ now' = DateAdd(now, clo.ite) /\ pc' = pc
      BY <2>5, Zenon DEF StepOff, Goto
    <3>3. ret \in {"dir", "back", "turn", "print"} /\ (pc = "alt" => clo.alt # <<>>)
      BY <1>4, <2>1 DEF Led
    <3>4. Led' /\ (Leading' => Ahead')
      BY <2>1, <3>1, <3>2, <3>3, SteppingLeads
    <3> QED BY <3>4 DEF ILead
  <2>6. CASE Write
    BY <2>1, <2>6, WriteLeads
  <2>7. CASE UNCHANGED vars
    <3>1. clo' = clo /\ now' = now /\ pc' = pc /\ ret' = ret /\ args' = args /\ shown' = shown
      BY <2>7 DEF vars
    <3>2. Led' /\ (Leading' <=> Leading)
      BY <2>1, <3>1 DEF Led, Leading, Within, SignOf
    <3>3. Ahead => Ahead'
      BY <3>1 DEF Ahead, Within, FirstLeads, BackLeads, PrintLeads, SignOf, Fst, Nothing
    <3> QED BY <2>1, <3>2, <3>3 DEF ILead
  <2> QED BY <2>2, <2>3, <2>4, <2>5, <2>6, <2>7 DEF Next
<1> QED BY <1>2, <1>3, <1>4

\* Alternatives that lead on from the first one lead on from everywhere.
LEMMA AlwaysLeading ==
  ASSUME IDates, Led, AltLeadsOn
  PROVE  Leading
<1>1. CASE args.alt = <<>>
  BY <1>1 DEF Led, Leading
<1>2. CASE args.alt # <<>>
  <2>1. ~args.last /\ Way(clo.alt) = Way(clo.ite)
    BY <1>2 DEF AltLeadsOn
  <2>2. /\ Fst \in Int /\ Fst >= 1 /\ clo.fst = OnlyD(Daisy(Fst))
        /\ clo.ite \in Seq(Durs) /\ clo.alt \in Seq(Durs)
    BY LedNumbers DEF IsNumber, Fst
  <2>3. FeasibleP(clo.ite) /\ FeasibleP(clo.alt)
    BY <1>2 DEF Led
  <2> HIDE DEF Fst
  <2>4. Way(clo.alt) = SignOf(clo.alt)
    BY <2>2, <2>3, WayIs DEF Way
  <2>5. Way(clo.ite) = SignOf(clo.ite)
    BY <2>2, <2>3, WayIs DEF Way
  <2> QED BY <2>1, <2>4, <2>5 DEF Leading
<1> QED BY <1>1, <1>2

\* The next date that is printed is ahead of the last one.
LEMMA NextIsAhead ==
  ASSUME IInv, ILead, [Next]_vars, shown' # shown, shown # Nothing, Dated, AltLeadsOn
  PROVE  Sgn(Moment(shown') - Moment(shown)) = clo.dir
<1>1. Write
  BY EndsStay DEF IInv
<1>2. pc = "print"
  BY <1>1 DEF Write
<1>3. IDates /\ Led /\ (Leading => Ahead)
  BY <1>2 DEF IInv, ILead, Dated
<1>4. PrintLeads
  BY <1>2, <1>3, AlwaysLeading DEF Ahead, Within
<1>5. /\ clo.dir \in {-1, 1} /\ IsNumber(shown) /\ 1 <= Num(shown)
      /\ Sooner(clo.dir, Num(shown), Num(now)) /\ IsNumber(now)
  BY <1>2, <1>3, <1>4, LedNumbers DEF PrintLeads
<1>6. shown' = now /\ InRangeP(now)
  <2> DEFINE n == Num(now)
  <2>1. n \in Int /\ now = OnlyD(Daisy(n))
    BY <1>5 DEF IsNumber
  <2> HIDE DEF n
  <2>2. DtFixup(now) = now
    BY <2>1, NumberIs
  <2> QED BY <1>1, <2>2 DEF Write
<1>7. 1 <= Num(now)
  BY <1>3, <1>5, <1>6, InRangeNumber
<1> DEFINE k == Num(shown)
           n == Num(now)
<1>8. k \in Int /\ n \in Int /\ shown = OnlyD(Daisy(k)) /\ now = OnlyD(Daisy(n)) /\ 1 <= k /\ 1 <= n
  BY <1>5, <1>7 DEF IsNumber
<1>9. Sooner(clo.dir, k, n)
  BY <1>5
<1> HIDE DEF k, n
<1>10. Moment(shown) = MidnightOf(k) /\ Moment(now) = MidnightOf(n)
  BY <1>8, NumberMoment
<1>11. Sgn(MidnightOf(n) - MidnightOf(k)) = Sgn(n - k)
  BY <1>8, SMT DEF MidnightOf, DAISY_UNIX_BASE, SECS_PER_DAY, Sgn, One
<1>12. Sgn(n - k) = clo.dir
  <2>1. CASE clo.dir = 1
    BY <1>8, <1>9, <2>1, SMT DEF Sooner, Sgn, One
  <2>2. CASE clo.dir = -1
    BY <1>8, <1>9, <2>2, SMT DEF Sooner, Sgn, One
  <2> QED BY <1>5, <2>1, <2>2
<1>13. Moment(shown') = MidnightOf(n)
  BY <1>6, <1>10
<1> QED BY <1>10, <1>11, <1>12, <1>13

\* Every date that is printed is ahead of the one before in the direction of the
\* sequence, so that none is printed twice: main(), __seq_this() and
\* __fixup_fst() of dseq.c, whichever increment of days, weeks or business days,
\* whichever alternative one that leads the same way, and whichever weekdays.
THEOREM DaysLeadOn == ASSUME CivilLines, LinesByDays PROVE Spec => SequenceLeadsOn
<1>1. Init => IInv /\ ILead
  BY InitIsGood, InitLeads
<1>2. (IInv /\ ILead) /\ [Next]_vars => (IInv /\ ILead)'
  BY StepIsGood, StepLeads
<1>3. (IInv /\ ILead) /\ [Next]_vars
        => [shown' # shown /\ shown # Nothing /\ Dated /\ AltLeadsOn
              => Sgn(Moment(shown') - Moment(shown)) = clo.dir]_vars
  BY NextIsAhead
<1> QED BY <1>1, <1>2, <1>3, PTL DEF Spec, SequenceLeadsOn
=============================================================================
