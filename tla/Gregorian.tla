----------------------------- MODULE Gregorian ------------------------------
(***************************************************************************)
(* What the calendars of lib/ share: leap years, lengths of months and     *)
(* years, weekdays, ISO weeks and business days, as the helpers of yd.c,   *)
(* ymd.c, ymcw.c, ywd.c, bizda.c and daisy.c compute them.  Weekdays are   *)
(* 1 (Monday) to 7 (Sunday), days count from 1601-01-00, a Sunday.         *)
(***************************************************************************)
EXTENDS Integers, Sequences

MIRACLEDAY == 0
MONDAY == 1
THURSDAY == 4
FRIDAY == 5
SATURDAY == 6
SUNDAY == 7

MIN_YEAR == 1601
MAX_YEAR == 4095

\* C's division and remainder of signed numbers.
Quot(a, b) == IF a >= 0 THEN a \div b ELSE -((-a) \div b)
Rem(a, b) == a - b * Quot(a, b)

\* a weekday is an unsigned number of 32 bits, and so is what is added to it
UMod(x, k) == IF x >= 0 THEN x % k ELSE (x + (IF k = 5 THEN 1 ELSE 4)) % k

\* x ?: y
OrElse(x, y) == IF x # 0 THEN x ELSE y

-----------------------------------------------------------------------------
(* Years. *)

Leapp(y) == y % 4 = 0 /\ (y % 100 # 0 \/ y % 400 = 0)

Leap(y) == IF Leapp(y) THEN 1 ELSE 0

GetYdays(y) == IF Leapp(y) THEN 366 ELSE 365

Jan00Daisy(y) ==
  LET by == y - MIN_YEAR
  IN by * 365 + by \div 4 - by \div 100 + by \div 400

Jan01Table28 ==
  <<5, 7, 1, 2, 3, 5, 6, 7, 1, 3, 4, 5, 6, 1, 2, 3, 4, 6, 7, 1, 2, 4, 5, 6, 7, 2, 3, 4>>

Year28Equiv(year) ==
  LET y == year % 400
  IN IF y > 300 THEN y + 1600
     ELSE IF y > 200 THEN y + 1724
     ELSE IF y > 100 THEN y + 1820
     ELSE y + 2000

Jan01Wday(y) ==
  Jan01Table28[((IF y > 2100 \/ y < 1901 THEN Year28Equiv(y) ELSE y) % 28) + 1]

\* The weekday of jan01 where the yd-th is a w.
Jan01YdayDow(yd, w) == SUNDAY - ((yd + 6 - w) % 7)

-----------------------------------------------------------------------------
(* Months. *)

MonYday == <<0, 31, 59, 90, 120, 151, 181, 212, 243, 273, 304, 334, 365>>

MdGetYday(y, m, dom) == MonYday[m] + dom + (IF Leapp(y) /\ m >= 3 THEN 1 ELSE 0)

\* The remainders of MonYday + 19 in units of 32 days, from month 0 on.
Rem32 == <<19, 19, 18, 14, 13, 11, 10, 8, 7, 6, 4, 3, 1, 0>>

\* Freundt's 32-adic algorithm: month and day of the doy-th of the year, month
\* 0 and 13 for the days an ISO year has beyond its Gregorian one.
YdayGetMd(y, doy) ==
  LET m == (doy + 19) \div 32
      d == (doy + 19) % 32
      leapt == Leapp(y) /\ Rem32[m + 2] < 16
      beef == Rem32[m + 1] + (IF leapt /\ Rem32[m + 1] < 16 THEN 1 ELSE 0)
      cake == Rem32[m + 2] + (IF leapt THEN 1 ELSE 0)
  IN IF d <= cake THEN [m |-> m, d |-> doy - ((m - 1) * 32 - 19 + beef)]
                  ELSE [m |-> m + 1, d |-> doy - (m * 32 - 19 + cake)]

GetMdays(y, m) ==
  IF m \in 1 .. 12 THEN MdGetYday(y, m + 1, 0) - MdGetYday(y, m, 0) ELSE 0

M01Wday(y, m) ==
  IF m \in 1 .. 12 THEN OrElse((Jan01Wday(y) + MdGetYday(y, m, 0)) % 7, SUNDAY)
                   ELSE MIRACLEDAY

DomWday(y, m, dom) ==
  LET yd == MdGetYday(y, m, dom)
  IN IF yd > 0 THEN OrElse((yd - 1 + Jan01Wday(y)) % 7, SUNDAY) ELSE MIRACLEDAY

\* How many W-days a month has that begins with a wd01.
WdaysFrom(wd01, mdays, w) ==
  LET last == mdays - 1
      upto == wd01 + (last % 7)
  IN IF (w >= wd01 /\ w <= upto) \/ w + 7 <= upto THEN last \div 7 + 1
                                                  ELSE last \div 7

GetMcnt(y, m, w) == WdaysFrom(M01Wday(y, m), GetMdays(y, m), w)

-----------------------------------------------------------------------------
(* ISO weeks. *)

LongYears ==
  {4, 9, 15, 20, 26, 32, 37, 43, 48, 54, 60, 65, 71, 76, 82, 88, 93, 99, 105, 111, 116, 122,
   128, 133, 139, 144, 150, 156, 161, 167, 172, 178, 184, 189, 195, 201, 207, 212, 218, 224,
   229, 235, 240, 246, 252, 257, 263, 268, 274, 280, 285, 291, 296, 303, 308, 314, 320, 325,
   331, 336, 342, 348, 353, 359, 364, 370, 376, 381, 387, 392, 398}

GetIsowk(y) == IF y % 400 \in LongYears THEN 53 ELSE 52

\* The years at whose end no week hangs over.
EvenEnds ==
  {0, 5, 6, 10, 11, 16, 17, 21, 22, 23, 27, 28, 33, 34, 38, 39, 44, 45, 49, 50, 51, 55, 56,
   61, 62, 66, 67, 72, 73, 77, 78, 79, 83, 84, 89, 90, 94, 95, 100, 101, 102, 106, 107, 112,
   113, 117, 118, 119, 123, 124, 129, 130, 134, 135, 140, 141, 145, 146, 147, 151, 152, 157,
   158, 162, 163, 168, 169, 173, 174, 175, 179, 180, 185, 186, 190, 191, 196, 197, 202, 203,
   208, 209, 213, 214, 215, 219, 220, 225, 226, 230, 231, 236, 237, 241, 242, 243, 247, 248,
   253, 254, 258, 259, 264, 265, 269, 270, 271, 275, 276, 281, 282, 286, 287, 292, 293, 297,
   298, 299, 304, 305, 309, 310, 311, 315, 316, 321, 322, 326, 327, 332, 333, 337, 338, 339,
   343, 344, 349, 350, 354, 355, 360, 361, 365, 366, 367, 371, 372, 377, 378, 382, 383, 388,
   389, 393, 394, 395, 399}

Z31wk(y) == IF y % 400 \in EvenEnds THEN 52 ELSE 53

\* How many days the first ISO week begins behind jan01, -3 to 3.
Jan01Hang(j01) == IF 1 - j01 < -3 THEN 8 - j01 ELSE 1 - j01

-----------------------------------------------------------------------------
(* Business days. *)

\* With rd days behind the 28th, which is an m28wd.
BdaysWith(rd, m28wd) ==
  IF rd = 0 THEN 20
  ELSE CASE m28wd \in {SUNDAY, 1, 2} -> 20 + rd
         [] m28wd = 3 -> 20 + rd - (IF rd = 3 THEN 1 ELSE 0)
         [] m28wd = 4 -> 21
         [] m28wd = 5 -> 20 + (IF rd = 3 THEN 1 ELSE 0)
         [] m28wd = 6 -> 20 + rd - 1

GetBdays(y, m) == BdaysWith(GetMdays(y, m) - 28, OrElse(M01Wday(y, m) - 1, SUNDAY))

\* The days that b business days from a dow are.
DEquiv(dow, n) ==
  LET weekend == dow >= SATURDAY
      moved == IF ~weekend THEN 0 ELSE IF n >= 0 THEN 8 - dow ELSE 5 - dow
      from == IF ~weekend THEN dow ELSE IF n >= 0 THEN MONDAY ELSE FRIDAY
      left == IF ~weekend \/ n = 0 THEN n ELSE IF n > 0 THEN n - 1 ELSE n + 1
      days == Quot(left, 5) * 7 + Rem(left, 5)
      Sum(u5, u7) == moved + days + u5 - u7 + (IF days >= 0 /\ u5 < u7 THEN 7 ELSE 0)
  IN Sum(UMod(from + 384 + left, 5), UMod(from + 384 + days, 7))

\* The business days that d days from a dow are.
BEquiv(dow, d) ==
  LET weekend == dow >= SATURDAY
      n == IF weekend THEN d - 1 ELSE d
      back == IF dow = SATURDAY THEN -2 ELSE IF dow = SUNDAY THEN -1 ELSE 0
      from == IF weekend THEN MONDAY ELSE dow
      \* of the days that do not make a week, reaching at
      Rest(r, at) ==
        (IF weekend /\ r < 0 THEN 1 ELSE 0)
        + (IF at \in -6 .. -1 THEN r + 2
           ELSE IF at = 0 THEN r + 1
           ELSE IF at \in 1 .. 5 THEN r
           ELSE IF at = 6 THEN r - 1
           ELSE IF at \in 7 .. 12 THEN r - 2
           ELSE r - 3)
  IN back + 5 * Quot(n, 7) + Rest(Rem(n, 7), from + Rem(n, 7))

One(b) == IF b THEN 1 ELSE 0

\* The weekend days among dur days that end on a wd.
GetNwedays(dur, wd) ==
  LET Rest(mod, xwd) ==
        One(mod > xwd) + One(mod + 1 > xwd) - One(mod + 7 < xwd) - One(mod + 6 < xwd)
  IN 2 * Quot(dur, 7) + One(wd = SATURDAY) + Rest(Rem(dur, 7), (wd % 7) + 1)

GetNbdays(dur, wd) == IF dur = 0 THEN 0 ELSE dur - GetNwedays(dur, wd)
=============================================================================
