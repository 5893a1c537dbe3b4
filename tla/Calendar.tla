------------------------------ MODULE Calendar ------------------------------
(***************************************************************************)
(* The calendars of lib/date-core.c and the conversions between them.  A   *)
(* date is a record with the fields of its C type:                         *)
(*   ymd    year, month, day                                               *)
(*   ymcw   year, month, count of the weekday, weekday                     *)
(*   ywd    ISO year, week, weekday, and how the year begins               *)
(*   yd     year, day of the year                                          *)
(*   bizda  year, month, business day                                      *)
(*   daisy, ldn, mdn   days since 1601-01-00, 1582-10-15 and 0000-01-00    *)
(* Naught of a type is its all-zero word, what a conversion that does not  *)
(* exist returns.                                                          *)
(***************************************************************************)
EXTENDS Gregorian

\* Years have 12 bits, in yds 16.
Y12(y) == y % 4096
Y16(y) == y % 65536

Ymd(y, m, d) == [typ |-> "ymd", y |-> Y12(y), m |-> m, d |-> d]
Ymcw(y, m, c, w) == [typ |-> "ymcw", y |-> Y12(y), m |-> m, c |-> c, w |-> w]
Ywd(y, c, w, hang) == [typ |-> "ywd", y |-> Y12(y), c |-> c, w |-> w, hang |-> hang]
Yd(y, d) == [typ |-> "yd", y |-> Y16(y), d |-> d]
Bizda(y, m, bd) == [typ |-> "bizda", y |-> Y12(y), m |-> m, bd |-> bd]
Daisy(n) == [typ |-> "daisy", n |-> n]

LDN_BASE == 6652
MDN_BASE == 584754

Naught(typ) ==
  CASE typ = "ymd" -> Ymd(0, 0, 0)
    [] typ = "ymcw" -> Ymcw(0, 0, 0, 0)
    [] typ = "ywd" -> Ywd(0, 0, 0, 0)
    [] typ = "yd" -> Yd(0, 0)
    [] typ = "bizda" -> Bizda(0, 0, 0)
    [] OTHER -> [typ |-> typ, n |-> 0]

MinOf(a, b) == IF a <= b THEN a ELSE b

-----------------------------------------------------------------------------
(* Cropping: days, counts and weeks beyond the last one become the last.   *)

YmdFixup(d) == IF d.d > 28 /\ d.m \in 1 .. 12 THEN [d EXCEPT !.d = MinOf(d.d, GetMdays(d.y, d.m))] ELSE d

YmcwFixup(d) ==
  IF d.c > 4 /\ d.m # 0 /\ d.w # MIRACLEDAY THEN [d EXCEPT !.c = MinOf(d.c, GetMcnt(d.y, d.m, d.w))] ELSE d

YwdFixup(d) == [d EXCEPT !.c = MinOf(d.c, IF d.c <= 52 THEN d.c ELSE GetIsowk(d.y))]

YdFixup(d) == IF d.d > 365 THEN [d EXCEPT !.d = MinOf(d.d, GetYdays(d.y))] ELSE d

BizdaFixup(d) ==
  IF d.bd > 20 /\ d.m \in 1 .. 12 THEN [d EXCEPT !.bd = MinOf(d.bd, GetBdays(d.y, d.m))] ELSE d

DFixup(d) ==
  CASE d.typ = "ymd" -> YmdFixup(d)
    [] d.typ = "ymcw" -> YmcwFixup(d)
    [] d.typ = "ywd" -> YwdFixup(d)
    [] d.typ = "yd" -> YdFixup(d)
    [] d.typ = "bizda" -> BizdaFixup(d)
    [] OTHER -> d

-----------------------------------------------------------------------------
(* Making ISO weeks. *)

\* canon_yc(): week 0 is the last one of the year before, the week behind the
\* last one the first of the next year.
CanonYc(y, c, w, hang) ==
  IF c < 1
    THEN LET h == hang + Leap(y - 1) + 1
         IN Ywd(y - 1, c + GetIsowk(y - 1), w, IF h > 3 THEN h - 7 ELSE h)
  ELSE IF c > 52 /\ c > GetIsowk(y)
    THEN LET h == hang - Leap(y) - 1
         IN Ywd(y + 1, c - GetIsowk(y), w, IF h < -3 THEN h + 7 ELSE h)
  ELSE Ywd(y, c, w, hang)

\* The ISO week of the c-th w of a year that begins with a j01.
WeekOfCount(c, w, j01, hang) ==
  LET u == OrElse(w, THURSDAY)
      same == \/ hang = 1 /\ u < SUNDAY
              \/ hang > 0 /\ u < SUNDAY /\ u < j01
              \/ hang <= 0 /\ (u >= j01 \/ u = SUNDAY)
  IN IF same THEN c ELSE IF hang > 0 THEN c - 1 ELSE c + 1

CanonCount(y, c, w, j01, hang) == CanonYc(y, WeekOfCount(c, w, j01, hang), w, hang)

\* YWD_ABSWK_CNT
MakeYwdC(y, c, w) == CanonCount(y, c, w, Jan01Wday(y), Jan01Hang(Jan01Wday(y)))

\* From a day of the year and its weekday.
MakeYwdYdDow(y, yd, dow) ==
  LET hang == Jan01Hang(Jan01YdayDow(yd, dow)) IN CanonYc(y, (yd + 6 - hang) \div 7, dow, hang)

\* From a business day of the year.
MakeYwdYbd(y, ybd) ==
  LET w == Jan01Wday(y) + ((ybd + 4) % 5)
      c == (ybd + 4) \div 5
  IN CanonYc(y, IF w > 5 THEN c + 1 ELSE c, IF w > 5 THEN w - 5 ELSE w, Jan01Hang(Jan01Wday(y)))

-----------------------------------------------------------------------------
(* What the fields of a date say. *)

DaisyGetWday(n) == OrElse(n % 7, SUNDAY)

DaisyGetYear(n) ==
  LET est == MIN_YEAR + n \div 365
      Before(y) == IF Jan00Daisy(y) >= n THEN y - 1 ELSE y
  IN IF n = 0 \/ est > MAX_YEAR THEN 0
     ELSE IF Jan00Daisy(est) >= n THEN Before(est - 1) ELSE est

DaisyGetYday(n) == IF n = 0 THEN 0 ELSE n - Jan00Daisy(DaisyGetYear(n))

YdGetWday(d) == IF d.d = 0 THEN MIRACLEDAY ELSE OrElse((d.d - 1 + Jan01Wday(d.y)) % 7, SUNDAY)
YdGetWcntAbs(d) == (d.d + 6) \div 7

\* The ISO week of a day of a year that begins with a f01.
GetIsowkWd(yd, f01) == (7 + yd - <<1, 0, -1, -2, 4, 3, 2>>[f01]) \div 7

\* Mutant: there are 53 weeks in any year.
YdGetWcntIsoOpen(d) ==
  LET j01 == Jan01Wday(d.y)
      wk == GetIsowkWd(d.d, j01)
      before == (d.y - 1)
      j00 == OrElse((j01 + 7 - (1 + Leap(before))) % 7, SUNDAY)
  IN IF wk < 1 THEN GetIsowkWd(d.d + GetYdays(before), j00) ELSE wk

YdGetWcntIso(d) ==
  LET j01 == Jan01Wday(d.y)
      wk == GetIsowkWd(d.d, j01)
      before == (d.y - 1)
      j00 == OrElse((j01 + 7 - (1 + Leap(before))) % 7, SUNDAY)
      Last(y, f01, w) ==
        IF w = 53 /\ f01 + 1 + Leap(y) \notin {FRIDAY, SATURDAY} THEN 1 ELSE w
  IN IF wk < 1 THEN Last(before, j00, GetIsowkWd(d.d + GetYdays(before), j00))
               ELSE Last(d.y, j01, wk)

\* The weeks that begin with a Monday or with a Sunday.
YdGetWcnt(d, first) ==
  LET wk == 8 - Jan01Wday(d.y) + first
  IN (d.d - (IF wk > 7 THEN wk - 7 ELSE wk) + 7) \div 7

YmdGetYday(d) == IF d.y = 0 \/ d.m \notin 1 .. 12 THEN 0 ELSE MdGetYday(d.y, d.m, d.d)
YmdGetWday(d) == DomWday(d.y, d.m, d.d)
YmdGetCount(d) == (d.d - 1) \div 7 + 1
YmdGetBday(d) ==
  LET Upto(w) == IF w >= SATURDAY THEN -1 ELSE GetNbdays(d.d, w) IN Upto(YmdGetWday(d))
YmdGetWcntAbs(d) == Quot(YmdGetYday(d) - 1, 7) + 1

YmcwGetMday(d) ==
  LET first == ((d.w + 7 - M01Wday(d.y, d.m)) % 7) + 1
      Within(res) == IF res > GetMdays(d.y, d.m) THEN res - 7 ELSE res
  IN Within(first + 7 * (d.c - 1))

YmcwGetBday(d) == IF d.w >= SATURDAY THEN -1 ELSE d.w - M01Wday(d.y, d.m) + 5 * d.c + 1

\* The W-days before each month in a year that begins with a W, on the day
\* before, and so on; the last row for leap years.
Ycum ==
  <<<<0, 5, 9, 13, 18, 22, 26, 31, 35, 39, 44, 48>>,
    <<0, 5, 9, 13, 17, 22, 26, 31, 35, 39, 44, 48>>,
    <<0, 5, 9, 13, 17, 22, 26, 30, 35, 39, 44, 48>>,
    <<0, 4, 8, 13, 17, 22, 26, 30, 35, 39, 43, 48>>,
    <<0, 4, 8, 13, 17, 21, 26, 30, 35, 39, 43, 48>>,
    <<0, 4, 8, 13, 17, 21, 26, 30, 34, 39, 43, 47>>,
    <<0, 4, 8, 12, 17, 21, 25, 30, 34, 39, 43, 47>>,
    <<0, 5, 9, 13, 18, 22, 26, 31, 35, 40, 44, 48>>>>

\* The count of the weekday in the year, not the day of the year.
YmcwGetYday(d) ==
  LET Off(diff) ==
        IF ~Leapp(d.y) THEN Ycum[diff + 1][d.m]
        ELSE IF diff = 3 THEN IF d.m < 2 THEN 0 ELSE Ycum[8][d.m - 1] + 4
        ELSE Ycum[IF diff = 0 THEN 8 ELSE diff][d.m]
  IN d.c + Off((OrElse(d.w, THURSDAY) + 7 - Jan01Wday(d.y)) % 7)

YwdGetYday(d) == 7 * (d.c - 1) + OrElse(d.w, THURSDAY) + d.hang

YwdGetJan01Wday(d) == IF 1 - d.hang <= 0 THEN 8 - d.hang ELSE 1 - d.hang

\* Mutant: a leap year ends as it begins.
YwdGetDec31WdayCommon(d) == YwdGetJan01Wday(d)

YwdGetDec31Wday(d) == IF Leapp(d.y) THEN (YwdGetJan01Wday(d) % 7) + 1 ELSE YwdGetJan01Wday(d)

\* The true Gregorian year.
YwdGetYear(d) ==
  LET u == OrElse(d.w, THURSDAY)
      z31 == YwdGetDec31Wday(d)
  IN IF d.c = 1 THEN d.y - One(d.hang <= 0 /\ u < YwdGetJan01Wday(d))
     ELSE IF d.c >= Z31wk(d.y) THEN d.y + One(z31 < SUNDAY /\ u > z31)
     ELSE d.y

\* Months 0 and 13 are the years around.
Around(md) ==
  IF md.m = 0 THEN [m |-> 12, d |-> md.d - 1]
  ELSE IF md.m = 13 THEN [md EXCEPT !.m = 1]
  ELSE md

YwdGetMd(d) == Around(YdayGetMd(d.y, YwdGetYday(d)))

BizdaGetMday(d) ==
  LET Mday(j, wd01) ==
        LET b == d.bd + wd01 - 2
        IN (b \div 5) * 7 + (b % 5) - wd01 + (IF j = SATURDAY THEN 4 ELSE IF j = SUNDAY THEN 3 ELSE 2)
      From(j) == Mday(j, IF j >= SATURDAY THEN MONDAY ELSE j)
      Within(res) == IF res > GetMdays(d.y, d.m) THEN 0 ELSE res
  IN Within(From(M01Wday(d.y, d.m)))

BizdaGetWday(d) ==
  ((d.bd - 1 + MinOf(M01Wday(d.y, d.m), 6) - 1) % 5) + MONDAY

BizdaGetCount(d) == IF d.bd + 5 > GetBdays(d.y, d.m) THEN 5 ELSE (d.bd - 1) \div 5 + 1

YwdGetWcntYear(d, conv) ==
  LET j01 == YwdGetJan01Wday(d)
  IN d.c + (CASE conv = "iso" -> 0
              [] conv = "abs" -> IF d.w < j01 THEN -1 ELSE One(d.hang < 0)
              [] conv = "mon" -> -One(j01 >= 2 /\ j01 < SUNDAY)
              [] conv = "sun" -> -One(j01 < SUNDAY))

\* Business days beyond 20 in each month, for years beginning with a Monday,
\* a Tuesday and so on; behind them those of February and March of leap years.
BdaysByWday ==
  <<<<3, 0, 2, 1, 3, 1, 2, 3, 0, 3, 2, 1, 1, 1>>,
    <<3, 0, 1, 2, 3, 0, 3, 2, 1, 3, 1, 2, 1, 1>>,
    <<3, 0, 1, 2, 2, 1, 3, 1, 2, 3, 0, 3, 0, 2>>,
    <<2, 0, 2, 2, 1, 2, 3, 1, 2, 2, 1, 3, 0, 3>>,
    <<1, 0, 3, 2, 1, 2, 2, 2, 2, 1, 2, 3, 1, 3>>,
    <<1, 0, 3, 1, 2, 2, 1, 3, 2, 1, 2, 2, 1, 3>>,
    <<2, 0, 3, 0, 3, 2, 1, 3, 1, 2, 2, 1, 1, 2>>>>

\* The business day of the year: leap years turn to the page of the next
\* weekday from April on.
BizdaGetYday(d) ==
  LET Extra(j01, m) ==
        IF ~Leapp(d.y) \/ m = 1 THEN BdaysByWday[j01][m]
        ELSE IF m \in {2, 3} THEN BdaysByWday[j01][m + 11]
        ELSE BdaysByWday[(j01 % 7) + 1][m]
      accum[m \in 1 .. 12] == IF m = 1 THEN 0 ELSE accum[m - 1] + Extra(Jan01Wday(d.y), m - 1)
  IN 20 * (d.m - 1) + accum[d.m] + d.bd

-----------------------------------------------------------------------------
(* The conversions. *)

\* A year of the days before March, 82 cycles of 400 years added throughout.
YmdToDaisy(d) ==
  LET J == One(d.m <= 2)
      Y == d.y + 400 * 82 - J
      M == IF J = 1 THEN d.m + 12 ELSE d.m
      C == Y \div 100
  IN (1461 * Y) \div 4 - C + C \div 4 + (979 * M - 2919) \div 32 + d.d - 1 - (584693 + 146097 * 82)

\* The code divides by 1461 by multiplying with 2939745 and keeping the upper
\* word, which is the same for the numbers that occur.
DaisyToYmd(n) ==
  IF n = 0 \/ n > 910674 THEN Naught("ymd")
  ELSE LET N1 == 4 * (n + 584693 + 146097 * 82) + 3
           C == N1 \div 146097
           N2 == 4 * ((N1 % 146097) \div 4) + 3
           NY == (N2 % 1461) \div 4
           N3 == 2141 * NY + 197913
           J == One(NY >= 306)
       IN Ymd(100 * C + N2 \div 1461 - 400 * 82 + J, N3 \div 65536 - 12 * J, (N3 % 65536) \div 2141 + 1)

YmdToYmcw(d) == Ymcw(d.y, d.m, YmdGetCount(d), YmdGetWday(d))
YmdToYwd(d) == MakeYwdC(d.y, YmdGetWcntAbs(d), YmdGetWday(d))
YmdToYd(d) == Yd(d.y, YmdGetYday(d))

YmcwToYmd(d) == Ymd(d.y, d.m, YmcwGetMday(d))
YmcwToYwd(d) == MakeYwdC(d.y, YmcwGetYday(d), d.w)
YmcwToDaisy(d) == IF d.y < MIN_YEAR THEN 0 ELSE Jan00Daisy(d.y) + MdGetYday(d.y, d.m, YmcwGetMday(d))
YmcwToYd(d) == Yd(d.y, MdGetYday(d.y, d.m, YmcwGetMday(d)))

\* The m-th month's d-th day of a year.
OfMd(y, md) == Ymd(y, md.m, md.d)
WdayOfMd(y, md, w) == Ymcw(y, md.m, (md.d - 1) \div 7 + 1, w)

YwdToYmd(d) == OfMd(YwdGetYear(d), YwdGetMd(d))
YwdToYmcw(d) == WdayOfMd(YwdGetYear(d), YwdGetMd(d), d.w)
YwdToDaisy(d) == Jan00Daisy(d.y) + YwdGetYday(d)
YwdToYd(d) ==
  LET Within(x) == IF x <= 0 THEN x + GetYdays(d.y - 1)
                   ELSE IF x > GetYdays(d.y) THEN x - GetYdays(d.y) ELSE x
  IN Yd(YwdGetYear(d), Within(YwdGetYday(d)))

YdToYmd(d) == OfMd(d.y, YdayGetMd(d.y, d.d))
YdToDaisy(d) == IF d.y < MIN_YEAR THEN 0 ELSE Jan00Daisy(d.y) + d.d
YdToYmcw(d) == WdayOfMd(d.y, YdayGetMd(d.y, d.d), YdGetWday(d))
YdToYwd(d) == MakeYwdC(d.y, YdGetWcntAbs(d), YdGetWday(d))

BizdaToYmd(d) == Ymd(d.y, d.m, BizdaGetMday(d))
BizdaToYwd(d) == MakeYwdYbd(d.y, BizdaGetYday(d))
BizdaToYmcw(d) == Ymcw(d.y, d.m, BizdaGetCount(d), BizdaGetWday(d))
BizdaToDaisy(d) ==
  Jan00Daisy(d.y) + DEquiv(DaisyGetWday(Jan00Daisy(d.y)), BizdaGetYday(d))

DaisyToYmcw(n) ==
  LET Counted(ymd) == Ymcw(ymd.y, ymd.m, YmdGetCount(ymd), DaisyGetWday(n))
  IN IF n = 0 THEN Naught("ymcw") ELSE Counted(DaisyToYmd(n))
DaisyToYwd(n) ==
  MakeYwdYdDow(DaisyGetYear(n), DaisyGetYday(n), ((n + 6) % 7) + 1)
DaisyToYd(n) == Yd(DaisyGetYear(n), DaisyGetYday(n))

\* Numbers of other epochs are day numbers of this one, or 0 before it.
DayNumber(d) ==
  LET n == CASE d.typ = "ldn" -> d.n - LDN_BASE
             [] d.typ = "mdn" -> d.n - MDN_BASE
             [] OTHER -> d.n
  IN IF n > 0 THEN n ELSE 0

Numbers == {"daisy", "ldn", "mdn"}

ConvToDaisy(d) ==
  CASE d.typ \in Numbers -> DayNumber(d)
    [] d.typ = "ymd" -> YmdToDaisy(d)
    [] d.typ = "ymcw" -> YmcwToDaisy(d)
    [] d.typ = "ywd" -> YwdToDaisy(d)
    [] d.typ = "bizda" -> BizdaToDaisy(d)
    [] d.typ = "yd" -> YdToDaisy(d)

ConvToYmd(d) ==
  CASE d.typ \in Numbers -> DaisyToYmd(DayNumber(d))
    [] d.typ = "ymd" -> d
    [] d.typ = "ymcw" -> YmcwToYmd(d)
    [] d.typ = "ywd" -> YwdToYmd(d)
    [] d.typ = "bizda" -> BizdaToYmd(d)
    [] d.typ = "yd" -> YdToYmd(d)

ConvToYmcw(d) ==
  CASE d.typ \in Numbers -> DaisyToYmcw(DayNumber(d))
    [] d.typ = "ymd" -> YmdToYmcw(d)
    [] d.typ = "ymcw" -> d
    [] d.typ = "ywd" -> YwdToYmcw(d)
    [] d.typ = "bizda" -> BizdaToYmcw(d)
    [] d.typ = "yd" -> YdToYmcw(d)

ConvToYwd(d) ==
  CASE d.typ \in Numbers -> DaisyToYwd(DayNumber(d))
    [] d.typ = "ymd" -> YmdToYwd(d)
    [] d.typ = "ymcw" -> YmcwToYwd(d)
    [] d.typ = "ywd" -> d
    [] d.typ = "bizda" -> BizdaToYwd(d)
    [] d.typ = "yd" -> YdToYwd(d)

\* There is no way from a bizda.
ConvToYd(d) ==
  CASE d.typ \in Numbers -> DaisyToYd(DayNumber(d))
    [] d.typ = "ymd" -> YmdToYd(d)
    [] d.typ = "ymcw" -> YmcwToYd(d)
    [] d.typ = "ywd" -> YwdToYd(d)
    [] d.typ = "bizda" -> Naught("yd")
    [] d.typ = "yd" -> d

\* dt_get_wcnt_year(): the week of the year, by the convention asked for.
GetWcntYear(d, conv) ==
  LET Week(yd) == CASE conv = "abs" -> YdGetWcntAbs(yd)
                    [] conv = "iso" -> YdGetWcntIso(yd)
                    [] conv = "mon" -> YdGetWcnt(yd, MONDAY)
                    [] conv = "sun" -> YdGetWcnt(yd, SUNDAY)
  IN
  CASE d.typ \in {"ymd", "daisy", "yd"} -> Week(ConvToYd(d))
    [] d.typ = "ymcw" -> YmcwGetYday(d)
    [] d.typ = "ywd" -> YwdGetWcntYear(d, conv)
    [] OTHER -> 0

\* dt_get_bday(): the business day of the month.
GetBday(d) ==
  CASE d.typ = "bizda" -> d.bd
    [] d.typ \in {"daisy", "ymd"} -> YmdGetBday(IF d.typ = "daisy" THEN DaisyToYmd(d.n) ELSE d)
    [] d.typ = "ymcw" -> YmcwGetBday(d)
    [] OTHER -> 0

\* "the problem with this conversion is that not all dates can be mapped"
ConvToBizda(d) == IF d.typ = "bizda" THEN d ELSE Naught("bizda")

\* The day number of another epoch that a daisy is.
Epoch(typ) == CASE typ = "daisy" -> 0 [] typ = "ldn" -> LDN_BASE [] typ = "mdn" -> MDN_BASE

ConvTo(typ, d) ==
  CASE typ = "ymd" -> ConvToYmd(d)
    [] typ = "ymcw" -> ConvToYmcw(d)
    [] typ = "ywd" -> ConvToYwd(d)
    [] typ = "yd" -> ConvToYd(d)
    [] typ = "bizda" -> ConvToBizda(d)
    [] typ \in Numbers -> [typ |-> typ, n |-> ConvToDaisy(d) + Epoch(typ)]

\* dt_dconv(): the date is cropped first.
DConv(typ, date) == ConvTo(typ, DFixup(date))
=============================================================================
