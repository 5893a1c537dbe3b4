------------------------------- MODULE DateOps -------------------------------
(***************************************************************************)
(* What is done with one or two dates, for the tools and for the module    *)
(* that looks at additions turn by turn, DateCore: what adding days, weeks *)
(* or business days begins with and ends in, months and years, the order   *)
(* of dates and their differences, lib/date-core.c and the aspects ADD,    *)
(* CMP and DIFF of the calendars.                                          *)
(***************************************************************************)
EXTENDS Calendar

-----------------------------------------------------------------------------
(* The loops: dates under way and the field that is carried over. *)

\* A date with its smallest field taken for x.
Unfold(d, x) ==
  CASE d.typ = "ymd" -> [typ |-> "ymd", y |-> d.y, m |-> d.m, x |-> x]
    [] d.typ = "ymcw" -> [typ |-> "ymcw", y |-> d.y, m |-> d.m, x |-> x, w |-> d.w]
    [] d.typ = "ywd" -> [typ |-> "ywd", y |-> d.y, x |-> x, w |-> d.w, hang |-> d.hang]
    [] d.typ = "yd" -> [typ |-> "yd", y |-> d.y, x |-> x]
    [] d.typ = "bizda" -> [typ |-> "bizda", y |-> d.y, m |-> d.m, x |-> x]

\* ... and given back.
Fold(k) ==
  CASE k.typ = "ymd" -> Ymd(k.y, k.m, k.x)
    [] k.typ = "ymcw" -> Ymcw(k.y, k.m, k.x, k.w)
    [] k.typ = "ywd" -> Ywd(k.y, k.x, k.w, k.hang)
    [] k.typ = "yd" -> Yd(k.y, k.x)
    [] k.typ = "bizda" -> Bizda(k.y, k.m, k.x)

\* How much x can be.
Span(k) ==
  CASE k.typ = "ymd" -> GetMdays(k.y, k.m)
    [] k.typ = "ymcw" -> GetMcnt(k.y, k.m, k.w)
    [] k.typ = "ywd" -> GetIsowk(k.y)
    [] k.typ = "yd" -> GetYdays(k.y)
    [] k.typ = "bizda" -> GetBdays(k.y, k.m)

MonthBefore(k) ==
  IF k.m = 1 THEN [k EXCEPT !.y = @ - 1, !.m = 12] ELSE [k EXCEPT !.m = @ - 1]
MonthAfter(k) ==
  IF k.m = 12 THEN [k EXCEPT !.y = @ + 1, !.m = 1] ELSE [k EXCEPT !.m = @ + 1]

\* Mutant: a leap year shifts the next one's weeks like any other.
YearAfterCommon(k) ==
  IF k.typ = "yd" THEN [k EXCEPT !.y = @ + 1]
  ELSE LET h == k.hang - 1
       IN [k EXCEPT !.y = @ + 1, !.hang = IF h < -3 THEN h + 7 ELSE h]

YearBefore(k) ==
  IF k.typ = "yd" THEN [k EXCEPT !.y = @ - 1]
  ELSE LET h == k.hang + Leap(k.y - 1) + 1
       IN [k EXCEPT !.y = @ - 1, !.hang = IF h > 3 THEN h - 7 ELSE h]
YearAfter(k) ==
  IF k.typ = "yd" THEN [k EXCEPT !.y = @ + 1]
  ELSE LET h == k.hang - Leap(k.y) - 1
       IN [k EXCEPT !.y = @ + 1, !.hang = IF h < -3 THEN h + 7 ELSE h]

Before(k) == IF k.typ \in {"ymd", "ymcw", "bizda"} THEN MonthBefore(k) ELSE YearBefore(k)
After(k) == IF k.typ \in {"ymd", "ymcw", "bizda"} THEN MonthAfter(k) ELSE YearAfter(k)

-----------------------------------------------------------------------------
(* What is added to the smallest field. *)

\* From a weekday, how many days on: the weekday reached and whole weeks, with
\* weeks of k weekdays.
WeekdayOn(w, k, num) ==
  LET Week(ad, aw) == IF ad > k THEN [w |-> ad - k, c |-> aw + 1]
                      ELSE IF ad <= 0 THEN [w |-> ad + k, c |-> aw - 1]
                      ELSE [w |-> ad, c |-> aw]
  IN Week(Rem(num, k) + w, Quot(num, k))

\* Mutant: the count of the new weekday is taken for the one of the old.
YmcwOnAsIs(d, k, num) ==
  LET on == WeekdayOn(d.w, k, num)
  IN Unfold([d EXCEPT !.w = on.w], d.c + on.c)

\* Counts begin with the weekday of the first of the month.
CountFix(w, on, m01) ==
  IF w < m01 /\ on >= m01 THEN 1 ELSE IF w >= m01 /\ on < m01 THEN -1 ELSE 0

YmcwOn(d, k, num) ==
  LET on == WeekdayOn(d.w, k, num)
  IN Unfold([d EXCEPT !.w = on.w], d.c + on.c + CountFix(d.w, on.w, M01Wday(d.y, d.m)))

YwdOn(d, num) ==
  LET on == WeekdayOn(d.w, 7, num)
  IN Unfold([d EXCEPT !.w = on.w], d.c + on.c)

\* The dates under way that adding days leads to.
DaysOn(d, num) ==
  CASE d.typ = "ymd" ->
         LET f == YmdFixup(d) IN Unfold(f, f.d + num + One(num < 0 /\ f.d = 0))
    [] d.typ = "yd" -> Unfold(d, d.d + num + One(num < 0 /\ d.d = 0))
    [] d.typ = "ymcw" -> YmcwOn(d, 7, num)
    [] d.typ = "ywd" -> YwdOn(d, num)
    [] d.typ = "bizda" -> Unfold(d, d.bd + BEquiv(BizdaGetWday(d), num))

WeeksOn(d, num) ==
  CASE d.typ = "ymcw" -> Unfold(d, d.c + num)
    [] d.typ = "ywd" -> Unfold(d, d.c + num)
    [] OTHER -> DaysOn(d, 7 * num)

BizdaysOn(d, num) ==
  CASE d.typ = "ymd" ->
         LET f == YmdFixup(d)
             g == IF num < 0 /\ f.d = 0 THEN [f EXCEPT !.d = 1] ELSE f
         IN Unfold(g, g.d + DEquiv(YmdGetWday(g), num))
    [] d.typ = "yd" ->
         LET g == IF num < 0 /\ d.d = 0 THEN [d EXCEPT !.d = 1] ELSE d
         IN Unfold(g, g.d + DEquiv(YdGetWday(g), num))
    [] d.typ = "ymcw" -> YmcwOn(d, 5, num)
    [] d.typ = "bizda" -> Unfold(d, d.bd + num)

\* Numbers of other epochs pass through day numbers of this one.
NumberOn(d, num) ==
  [d EXCEPT !.n = DayNumber(d) + num + (CASE d.typ = "ldn" -> LDN_BASE
                                          [] d.typ = "mdn" -> MDN_BASE
                                          [] d.typ = "daisy" -> 0)]

MonthsOn(d, num) ==
  LET m == d.m + num
  IN [d EXCEPT !.y = Y12(@ + (m - 1) \div 12),
               !.m = ((m - 1) % 12) + 1 + One(d.typ = "ymd" /\ num < 0 /\ d.m = 0)]

\* An ISO year is told how it begins, the others are only counted up.
YearsOn(d, num) ==
  CASE d.typ = "ywd" ->
         LET y == Y12(d.y + num) IN [d EXCEPT !.y = y, !.hang = Jan01Hang(Jan01Wday(y))]
    [] d.typ = "yd" -> [d EXCEPT !.y = Y16(@ + num)]
    [] d.typ \in Numbers -> d
    [] OTHER -> [d EXCEPT !.y = Y12(@ + num)]

-----------------------------------------------------------------------------
(* All of an addition at once, dt_dadd().  DateCore looks at the turns of   *)
(* the loops one by one.                                                    *)

Works ==
  [typ : {"ymd", "bizda"}, y : Int, m : 1 .. 12, x : Int] \union [typ : {"yd"}, y : Int, x : Int]
    \union [typ : {"ymcw"}, y : Int, m : 1 .. 12, x : Int, w : Int]
    \union [typ : {"ywd"}, y : Int, x : Int, w : Int, hang : Int]

\* What the span of a month or a year is borrowed from, and what is beyond it.
Borrow(k) == [k EXCEPT !.x = @ + Span(k)]
Over(k) == k.x - Span(k)

Carried[k \in Works] ==
  IF k.x < 1 THEN Carried[Borrow(Before(k))]
  ELSE IF Over(k) > 0 THEN Carried[[After(k) EXCEPT !.x = Over(k)]]
  ELSE Fold(k)

DAddD(d, num) ==
  IF num = 0 THEN d ELSE IF d.typ \in Numbers THEN NumberOn(d, num) ELSE Carried[DaysOn(d, num)]

\* ... as days, weeks or business days; ISO dates take no business days.
DaysIn(d, unit, num) ==
  CASE unit = "d" -> num
    [] unit = "w" -> 7 * num
    [] unit = "b" -> DEquiv(DaisyGetWday(DayNumber(d)), num)

WorkOn(d, unit, num) ==
  CASE unit = "d" -> DaysOn(d, num)
    [] unit = "w" -> WeeksOn(d, num)
    [] unit = "b" -> BizdaysOn(d, num)

DAddDays(d, unit, num) ==
  IF num = 0 \/ (unit = "b" /\ d.typ = "ywd") THEN d
  ELSE IF d.typ \in Numbers THEN NumberOn(d, DaysIn(d, unit, num))
  ELSE Carried[WorkOn(d, unit, num)]

DAddM(d, num) == IF num # 0 /\ d.typ \in {"ymd", "ymcw", "bizda"} THEN MonthsOn(d, num) ELSE d

\* A duration, of num units; there may be no date to add it to.
DAdd(d, unit, num) ==
  IF d.typ = "unk" \/ num = 0 THEN d
  ELSE CASE unit \in {"d", "w", "b"} -> DAddDays(d, unit, num)
         [] unit \in {"mo", "q"} -> DAddM(d, IF unit = "q" THEN 3 * num ELSE num)
         [] unit = "y" -> YearsOn(d, num)

-----------------------------------------------------------------------------
(* Comparing and subtracting, dt_dcmp() and dt_ddiff(). *)

Sgn(x) == One(x > 0) - One(x < 0)

\* The order of two tuples of numbers of one length.
Lexical(s, t) ==
  IF s = t THEN 0
  ELSE LET i == CHOOSE j \in DOMAIN s : s[j] # t[j] /\ \A k \in 1 .. j - 1 : s[k] = t[k]
       IN Sgn(s[i] - t[i])

\* Mutant: counts of weekdays are told apart by the weekday alone.
YmcwCmpByWeekday(d1, d2) ==
  Lexical(<<d1.y, d1.m, d1.c, d1.w>>, <<d2.y, d2.m, d2.c, d2.w>>)

YmcwCmp(d1, d2) ==
  LET Off(d) == (d.w - M01Wday(d1.y, d1.m)) % 7
  IN Lexical(<<d1.y, d1.m, d1.c, Off(d1)>>, <<d2.y, d2.m, d2.c, Off(d2)>>)

\* -2 for dates that have no order.
DCmp(d1, d2) ==
  IF d1.typ # d2.typ THEN -2
  ELSE CASE d1.typ = "ymd" -> Lexical(<<d1.y, d1.m, d1.d>>, <<d2.y, d2.m, d2.d>>)
         [] d1.typ = "bizda" -> Lexical(<<d1.y, d1.m, d1.bd>>, <<d2.y, d2.m, d2.bd>>)
         [] d1.typ = "ywd" -> Lexical(<<d1.y, d1.c, d1.w>>, <<d2.y, d2.c, d2.w>>)
         [] d1.typ = "yd" -> Lexical(<<d1.y, d1.d>>, <<d2.y, d2.d>>)
         [] d1.typ = "daisy" -> Sgn(d1.n - d2.n)
         [] d1.typ = "ymcw" -> YmcwCmp(d1, d2)
         [] OTHER -> -2

\* Mutant: weekends are counted back from the first date.
NumbersApartFromFirst(kind, from, to) ==
  IF kind = "d" THEN to - from ELSE GetNbdays(to - from, DaisyGetWday(from))

\* Days and business days from one date to another.
NumbersApart(kind, from, to) ==
  IF kind = "d" THEN to - from ELSE GetNbdays(to - from, DaisyGetWday(to))

DDiff(kind, d1, d2) == NumbersApart(kind, ConvToDaisy(d1), ConvToDaisy(d2))

MonthsApart(a, b) == 12 * (b.y - a.y) + b.m - a.m

\* The days of the month before.
MdaysBefore(k) == LET m1 == MonthBefore(k) IN GetMdays(m1.y, m1.m)

\* Mutant: days are borrowed from the month of the later date.
YmdApartThisMonth(neg, a, b) ==
  LET m == MonthsApart(a, b)
      d == b.d - a.d
  IN IF d >= 0 \/ m = 0 THEN [neg |-> neg, m |-> m, d |-> d]
     ELSE [neg |-> neg, m |-> m - 1, d |-> d + GetMdays(b.y, b.m)]

\* Years, months and days from one date to a later one.  Days are borrowed from
\* the months before the later date, from two of them around February.
YmdApart(neg, a, b) ==
  LET m == MonthsApart(a, b)
      d == b.d - a.d
      k == [y |-> b.y, m |-> b.m]
      d1m == d + MdaysBefore(k)
  IN IF d >= 0 \/ m = 0 THEN [neg |-> neg, m |-> m, d |-> d]
     ELSE IF d1m >= 0 THEN [neg |-> neg, m |-> m - 1, d |-> d1m]
     ELSE [neg |-> neg, m |-> m - 2, d |-> d1m + MdaysBefore(MonthBefore(k))]

YmdDiff(d1, d2) == IF DCmp(d1, d2) > 0 THEN YmdApart(TRUE, d2, d1) ELSE YmdApart(FALSE, d1, d2)

\* Mutant: no week is borrowed for the days.
YwdApartUnborrowed(neg, a, b) ==
  LET w == OrElse(b.w, 7) - OrElse(a.w, 7)
      c == b.c - a.c
      y == b.y - a.y - One(c < 0)
  IN [neg |-> neg, y |-> Y12(y), w |-> w % 7,
      c |-> (IF c < 0 THEN c + GetIsowk(a.y + y) ELSE c) % 128]

\* Years, weeks and days, weeks having 7 bits.
YwdApart(neg, a, b) ==
  LET w == OrElse(b.w, 7) - OrElse(a.w, 7)
      c == b.c - a.c - One(w < 0)
      y == b.y - a.y - One(c < 0)
  IN [neg |-> neg, y |-> Y12(y), w |-> w % 7,
      c |-> (IF c < 0 THEN c + GetIsowk(a.y + y) ELSE c) % 128]

YwdDiff(d1, d2) == IF DCmp(d1, d2) > 0 THEN YwdApart(TRUE, d2, d1) ELSE YwdApart(FALSE, d1, d2)

\* Years and days, as if no year had a 29th of February.
YdApart(neg, a, b) ==
  LET late(d) == Leapp(d.y) /\ d.d >= 60
      d == b.d - a.d + One(Leapp(a.y) /\ a.d > 60 /\ ~late(b)) - One(~Leapp(a.y) /\ a.d >= 60 /\ late(b))
  IN IF d < 0 THEN [neg |-> neg, y |-> b.y - a.y - 1, d |-> d + 365 + One(late(b))]
     ELSE [neg |-> neg, y |-> b.y - a.y, d |-> d]

YdDiff(d1, d2) == IF DCmp(d1, d2) > 0 THEN YdApart(TRUE, d2, d1) ELSE YdApart(FALSE, d1, d2)

\* Months, weeks and days, from counts of weekdays.
YmcwApart(neg, a, b) ==
  LET Off(d) == (d.w - M01Wday(d.y, d.m)) % 7
      m == MonthsApart(a, b)
      d == Off(b) - Off(a) + 7 * (b.c - a.c)
  IN IF d < 7 /\ m > 0
       THEN [neg |-> neg, m |-> m - 1, d |-> d + MdaysBefore([y |-> b.y, m |-> b.m])]
     ELSE [neg |-> neg, m |-> m, d |-> d]

YmcwDiff(d1, d2) ==
  IF YmcwCmp(d1, d2) > 0 THEN YmcwApart(TRUE, d2, d1) ELSE YmcwApart(FALSE, d1, d2)

PartsApart(kind, a, b) ==
  CASE kind = "ymd" -> YmdDiff(a, b)
    [] kind = "ymcw" -> YmcwDiff(a, b)
    [] kind = "yd" -> YdDiff(a, b)
    [] kind = "ywd" -> YwdDiff(a, b)

\* Whether the times of the day take a day off, or in ymcw put one on.
Fixed(kind, a, b, carry) ==
  IF kind = "ymcw" THEN carry # 0 /\ Sgn(carry) = -YmcwCmp(a, b) ELSE Sgn(carry) = -DCmp(b, a)

\* Mutant: a day is never given back for the time of the day.
PartsUncarried(kind, a, b, carry) == [fix |-> FALSE, diff |-> PartsApart(kind, a, b)]

PartsCarried(kind, a, b, carry) ==
  IF Fixed(kind, a, b, carry)
    THEN [fix |-> TRUE, diff |-> PartsApart(kind, a, DAddD(b, Sgn(carry)))]
  ELSE [fix |-> FALSE, diff |-> PartsApart(kind, a, b)]

\* dt_ddiff(): the second date a day nearer to the first one if the times of
\* the day say so; farther off, in ymcw.
DDiffParts(kind, d1, d2, carry) == PartsCarried(kind, DConv(kind, d1), DConv(kind, d2), carry)

\* dt_d_in_range_p(), dt_dt_in_range_p(): 1 inside, 0 outside, -1 without an
\* order, from what comparing with the lower and with the upper end says.
InRange(lower, upper) ==
  IF lower = -2 \/ upper = -2 THEN -1
  ELSE One(lower >= 0 /\ upper <= 0)

-----------------------------------------------------------------------------
(* What a date means: the number of its day, by counting from the new year *)
(* or from the first of the month however large the smallest field is.     *)

\* Workdays counted, and back.
BizIndex(num) == 5 * (num \div 7) + MinOf(num % 7, 5)
BizDay(b) == 7 * ((b - 1) \div 5) + ((b - 1) % 5) + 1

Lin(k) ==
  LET jan00 == Jan00Daisy(k.y)
      ultimo == jan00 + MdGetYday(k.y, k.m, 0)
  IN CASE k.typ = "yd" -> jan00 + k.x
       [] k.typ = "ywd" -> jan00 + 7 * (k.x - 1) + k.w + k.hang
       [] k.typ = "ymd" -> ultimo + k.x
       [] k.typ = "ymcw" -> ultimo + ((k.w + 7 - M01Wday(k.y, k.m)) % 7) + 1 + 7 * (k.x - 1)
       [] k.typ = "bizda" -> BizDay(BizIndex(ultimo) + k.x)

Reading(d) ==
  CASE d.typ \in Numbers -> DayNumber(d)
    [] d.typ = "ymd" -> Lin(Unfold(d, d.d))
    [] d.typ = "yd" -> Lin(Unfold(d, d.d))
    [] d.typ = "ymcw" -> Lin(Unfold(d, d.c))
    [] d.typ = "ywd" -> Lin(Unfold(d, d.c))
    [] d.typ = "bizda" -> Lin(Unfold(d, d.bd))

\* The days there are years for, 1601 to 4095.
CivilDays == 1 .. Jan00Daisy(4096)

\* The day a date to add to is meant to be: ymds are cropped, others are not.
Meant(d) == Reading(IF d.typ = "ymd" THEN YmdFixup(d) ELSE d)
=============================================================================
