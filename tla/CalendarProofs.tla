---------------------------- MODULE CalendarProofs ----------------------------
(***************************************************************************)
(* Facts about years, months and days and about years and days: how long   *)
(* months and years are, that loops keep the day, which days dates are.    *)
(***************************************************************************)
EXTENDS DateOps, WellFoundedInduction, TLAPS

\* The dates a tool can hold, lazy ones too, and those under way.
Years12 == {y \in Int : 0 <= y /\ y <= 4095}
YmdDates == [typ : {"ymd"}, y : Years12, m : 1 .. 12, d : 1 .. 31]
Years16 == {y \in Int : 0 <= y /\ y <= 65535}
YdDates == [typ : {"yd"}, y : Years16, d : 1 .. 366]
Naughts == {[typ |-> "ymd", y |-> 0, m |-> 0, d |-> 0], [typ |-> "yd", y |-> 0, d |-> 0]}
Held == YmdDates \union YdDates \union Naughts

YmdWorks == [typ : {"ymd"}, y : Int, m : 1 .. 12, x : Int]
YdWorks == [typ : {"yd"}, y : Int, x : Int]

\* The years of CivilDays.
CivilYears == {y \in Int : 1601 <= y /\ y <= 4095}

-----------------------------------------------------------------------------
(* The lengths of months and years. *)

\* mon_yday[] of ymd.c, written out.
LEMMA MonYdayIs ==
  /\ MonYday[1] = 0 /\ MonYday[2] = 31 /\ MonYday[3] = 59 /\ MonYday[4] = 90
  /\ MonYday[5] = 120 /\ MonYday[6] = 151 /\ MonYday[7] = 181 /\ MonYday[8] = 212
  /\ MonYday[9] = 243 /\ MonYday[10] = 273 /\ MonYday[11] = 304 /\ MonYday[12] = 334
  /\ MonYday[13] = 365
BY DEF MonYday

\* __get_ydays() is how far apart two new years are.
LEMMA YearStep ==
  ASSUME NEW y \in Int
  PROVE  /\ Jan00Daisy(y) \in Int
         /\ GetYdays(y) \in 365 .. 366
         /\ Jan00Daisy(y + 1) = Jan00Daisy(y) + GetYdays(y)
<1> DEFINE b == y - 1601
<1>1. Jan00Daisy(y) = b * 365 + b \div 4 - b \div 100 + b \div 400
  BY DEF Jan00Daisy, MIN_YEAR
<1>2. Jan00Daisy(y + 1) = (b + 1) * 365 + (b + 1) \div 4 - (b + 1) \div 100 + (b + 1) \div 400
  BY SMT DEF Jan00Daisy, MIN_YEAR
<1>3. (b + 1) \div 4 = b \div 4 + (IF y % 4 = 0 THEN 1 ELSE 0)
  BY SMT
<1>4. (b + 1) \div 100 = b \div 100 + (IF y % 100 = 0 THEN 1 ELSE 0)
  BY SMT
<1>5. (b + 1) \div 400 = b \div 400 + (IF y % 400 = 0 THEN 1 ELSE 0)
  BY SMT
<1>6. y % 100 = 0 => y % 4 = 0
  BY SMT
<1>7. y % 400 = 0 => y % 100 = 0
  BY SMT
<1> QED
  BY <1>1, <1>2, <1>3, <1>4, <1>5, <1>6, <1>7, SMT DEF GetYdays, Leapp

\* Years before 1601 end before it, years from 4096 on begin after its new year.
LEMMA YearsBeyond ==
  ASSUME NEW y \in Int
  PROVE  /\ y < 1601 => Jan00Daisy(y + 1) <= 0
         /\ y >= 4096 => Jan00Daisy(y) >= 911280
         /\ Jan00Daisy(4096) = 911280
<1>1. CASE y < 1601
  BY <1>1, SMT DEF Jan00Daisy, MIN_YEAR
<1>2. CASE y >= 4096
  BY <1>2, SMT DEF Jan00Daisy, MIN_YEAR
<1>3. Jan00Daisy(4096) = 911280
  BY SMT DEF Jan00Daisy, MIN_YEAR
<1> QED
  BY <1>1, <1>2, <1>3

\* A day between 1601 and 4095 is in a year between 1601 and 4095.
LEMMA YearFits ==
  ASSUME NEW y \in Int, NEW n \in CivilDays,
         Jan00Daisy(y) < n, n <= Jan00Daisy(y + 1)
  PROVE  y \in CivilYears
BY YearStep, YearsBeyond DEF CivilDays, CivilYears

\* __md_get_yday() of the ultimos, with __get_mdays() what lies between them.
LEMMA MonthStep ==
  ASSUME NEW y \in Int, NEW m \in 1 .. 12
  PROVE  /\ MdGetYday(y, m, 0) \in 0 .. 335
         /\ GetMdays(y, m) \in 28 .. 31
         /\ MdGetYday(y, m, 0) + GetMdays(y, m)
              = IF m = 12 THEN GetYdays(y) ELSE MdGetYday(y, m + 1, 0)
         /\ MdGetYday(y, 1, 0) = 0
BY MonYdayIs, SMT DEF MdGetYday, GetMdays, GetYdays

\* Years are at least 365 days apart.
LEMMA YearsApart ==
  ASSUME NEW y \in Int, NEW z \in Int, y <= z
  PROVE  Jan00Daisy(z) - Jan00Daisy(y) >= 365 * (z - y)
<1> DEFINE b == y - 1601
           c == z - 1601
           F(n) == n \div 4 - n \div 100 + n \div 400
<1>1. b \in Int /\ c \in Int /\ b <= c /\ c - b = z - y
  OBVIOUS
<1>2. /\ Jan00Daisy(y) = b * 365 + b \div 4 - b \div 100 + b \div 400
      /\ Jan00Daisy(z) = c * 365 + c \div 4 - c \div 100 + c \div 400
  BY DEF Jan00Daisy, MIN_YEAR
<1> HIDE DEF b, c
<1>3. \A n \in Int : n \div 4 = 25 * (n \div 100) + (n % 100) \div 4 /\ (n % 100) \div 4 \in 0 .. 24
  BY SMT
<1>4. b \div 100 <= c \div 100 /\ b \div 400 <= c \div 400
  BY <1>1, SMT
<1>5. b \div 100 = c \div 100 => (b % 100) \div 4 <= (c % 100) \div 4
  BY <1>1, SMT
<1> DEFINE u == (b % 100) \div 4
           v == (c % 100) \div 4
           r == b \div 100
           s == c \div 100
<1>6. /\ b \div 4 = 25 * r + u /\ u \in 0 .. 24 /\ c \div 4 = 25 * s + v /\ v \in 0 .. 24
      /\ r <= s /\ r \in Int /\ s \in Int /\ (r = s => u <= v)
  BY <1>1, <1>3, <1>4, <1>5
<1> DEFINE g == b \div 400
           h == c \div 400
<1>7. g \in Int /\ h \in Int /\ g <= h /\ b \div 4 \in Int /\ c \div 4 \in Int
  BY <1>1, <1>4, SMT
<1>8. Jan00Daisy(y) = b * 365 + b \div 4 - r + g /\ Jan00Daisy(z) = c * 365 + c \div 4 - s + h
  BY <1>2
<1> HIDE DEF u, v, r, s, g, h
<1> QED
  BY <1>1, <1>6, <1>7, <1>8, SMT

\* Months follow each other.
LEMMA MonthsFollow ==
  ASSUME NEW y \in Int, NEW m \in 1 .. 12, NEW n \in 1 .. 12, m < n
  PROVE  MdGetYday(y, m, 0) + GetMdays(y, m) <= MdGetYday(y, n, 0)
BY MonYdayIs, SMT DEF MdGetYday, GetMdays

\* The days up to a day of the month.
LEMMA YdayIs ==
  ASSUME NEW y \in Int, NEW m \in 1 .. 12, NEW d \in Int
  PROVE  MdGetYday(y, m, d) = MdGetYday(y, m, 0) + d
BY MonYdayIs, SMT DEF MdGetYday

-----------------------------------------------------------------------------
(* The order of dates. *)

\* The order of tuples is that of the first numbers they differ in.
LEMMA LexicalAt ==
  ASSUME NEW n \in Nat, NEW s \in [1 .. n -> Int], NEW t \in [1 .. n -> Int],
         NEW i \in 1 .. n, s[i] # t[i], \A k \in 1 .. i - 1 : s[k] = t[k]
  PROVE  Lexical(s, t) = Sgn(s[i] - t[i])
<1> DEFINE P(j) == s[j] # t[j] /\ \A k \in 1 .. j - 1 : s[k] = t[k]
           c == CHOOSE j \in DOMAIN s : P(j)
<1>1. s # t /\ DOMAIN s = 1 .. n
  OBVIOUS
<1>2. c \in DOMAIN s /\ P(c)
  <2>1. i \in DOMAIN s /\ P(i)
    BY <1>1
  <2> HIDE DEF P
  <2> QED BY <2>1
<1>3. Lexical(s, t) = Sgn(s[c] - t[c])
  BY <1>1, Zenon DEF Lexical
<1> HIDE DEF c
<1>4. c = i
  <2>1. c \in 1 .. n /\ c \in Int /\ i \in Int
    BY <1>1, <1>2
  <2>2. ~ c < i /\ ~ i < c
    BY <1>1, <1>2, <2>1
  <2> QED BY <2>1, <2>2
<1> QED BY <1>3, <1>4

\* Equal sequences compare as equal.
LEMMA LexicalSame ==
  ASSUME NEW s
  PROVE  Lexical(s, s) = 0
BY DEF Lexical

\* Of sequences of three numbers the first that differ tell.
LEMMA LexicalOf3 ==
  ASSUME NEW s \in [1 .. 3 -> Int], NEW t \in [1 .. 3 -> Int]
  PROVE  /\ s[1] # t[1] => Lexical(s, t) = Sgn(s[1] - t[1])
         /\ s[1] = t[1] /\ s[2] # t[2] => Lexical(s, t) = Sgn(s[2] - t[2])
         /\ s[1] = t[1] /\ s[2] = t[2] => Lexical(s, t) = Sgn(s[3] - t[3])
<1>1. \A i \in 1 .. 3 : s[i] # t[i] /\ (\A k \in 1 .. i - 1 : s[k] = t[k]) => Lexical(s, t) = Sgn(s[i] - t[i])
  BY LexicalAt
<1>2. CASE s[1] = t[1] /\ s[2] = t[2] /\ s[3] = t[3]
  <2>1. s = t
    BY <1>2
  <2>2. Sgn(s[3] - t[3]) = 0
    BY <1>2, SMT DEF Sgn, One
  <2> QED BY <1>2, <2>1, <2>2, LexicalSame
<1>3. CASE s[1] # t[1]
  BY <1>1, <1>3
<1>4. CASE s[1] = t[1] /\ s[2] # t[2]
  BY <1>1, <1>4
<1>5. CASE s[1] = t[1] /\ s[2] = t[2] /\ s[3] # t[3]
  BY <1>1, <1>5
<1> QED
  BY <1>2, <1>3, <1>4, <1>5

\* ... and of two.
LEMMA LexicalOf2 ==
  ASSUME NEW s \in [1 .. 2 -> Int], NEW t \in [1 .. 2 -> Int]
  PROVE  /\ s[1] # t[1] => Lexical(s, t) = Sgn(s[1] - t[1])
         /\ s[1] = t[1] => Lexical(s, t) = Sgn(s[2] - t[2])
<1>1. \A i \in 1 .. 2 : s[i] # t[i] /\ (\A k \in 1 .. i - 1 : s[k] = t[k]) => Lexical(s, t) = Sgn(s[i] - t[i])
  BY LexicalAt
<1>2. CASE s[1] = t[1] /\ s[2] = t[2]
  <2>1. s = t
    BY <1>2
  <2>2. Sgn(s[2] - t[2]) = 0
    BY <1>2, SMT DEF Sgn, One
  <2> QED BY <1>2, <2>1, <2>2, LexicalSame
<1>3. CASE s[1] # t[1]
  BY <1>1, <1>3
<1>4. CASE s[1] = t[1] /\ s[2] # t[2]
  BY <1>1, <1>4
<1> QED
  BY <1>2, <1>3, <1>4

-----------------------------------------------------------------------------
(* Conversions give dates. *)

\* The divisions of __daisy_to_ymd(): a day N of a year beginning in March is a
\* day of one of the months from 3 to 14.
LEMMA DaisyToYmdIsDate ==
  ASSUME NEW n \in Int, 1 <= n, n <= 910674
  PROVE  DaisyToYmd(n) \in YmdDates
<1> DEFINE N1 == 4 * (n + 584693 + 146097 * 82) + 3
           C == N1 \div 146097
           N2 == 4 * ((N1 % 146097) \div 4) + 3
           NY == (N2 % 1461) \div 4
           N3 == 2141 * NY + 197913
           J == One(NY >= 306)
           y == 100 * C + N2 \div 1461 - 400 * 82 + J
           m == N3 \div 65536 - 12 * J
           d == (N3 % 65536) \div 2141 + 1
<1>1. DaisyToYmd(n) = Ymd(y, m, d)
  BY SMT DEF DaisyToYmd
<1>2. N2 \in Int /\ NY \in 0 .. 365 /\ C \in Int
  BY SMT
<1>3. J = (IF NY >= 306 THEN 1 ELSE 0)
  BY SMT DEF One
<1>4. m \in 1 .. 12
  <2> HIDE DEF NY
  <2> QED BY <1>2, <1>3, SMT
<1>5. d \in 1 .. 31
  <2>1. N3 \in Int
    BY <1>2, SMT
  <2> HIDE DEF N3
  <2>2. N3 % 65536 \in Int /\ 0 <= N3 % 65536 /\ N3 % 65536 < 65536
    BY <2>1, SMT
  <2>3. \A r \in Int : 0 <= r /\ r < 65536 => r \div 2141 + 1 \in 1 .. 31
    BY SMT
  <2> QED BY <2>2, <2>3, SMT
<1>6. y \in Int
  BY <1>2, <1>3, SMT
<1> HIDE DEF y, m, d
<1>7. y % 4096 \in Years12
  BY <1>6, SMT DEF Years12
<1> QED
  BY <1>1, <1>4, <1>5, <1>7, SMT DEF Ymd, Y12, YmdDates

\* __daisy_get_year() is at most two years off at first.
LEMMA DaisyToYdIsDate ==
  ASSUME NEW n \in Int, 1 <= n, n <= 910674
  PROVE  /\ DaisyToYd(n) \in YdDates
         /\ DaisyToYd(n).d <= GetYdays(DaisyToYd(n).y)
         /\ Jan00Daisy(DaisyToYd(n).y) + DaisyToYd(n).d = n
<1> DEFINE est == 1601 + n \div 365
<1>1. est \in 1601 .. 4095
  BY SMT
<1>2. Jan00Daisy(est) >= n - 364
  BY SMT DEF Jan00Daisy, MIN_YEAR
<1>3. Jan00Daisy(est - 2) < n
  BY SMT DEF Jan00Daisy, MIN_YEAR
<1>4. est \in Int /\ est - 1 \in Int /\ est - 2 \in Int /\ (est - 1) + 1 = est /\ (est - 2) + 1 = est - 1
  BY <1>1, SMT
<1> DEFINE y == IF Jan00Daisy(est) < n THEN est
                ELSE IF Jan00Daisy(est - 1) < n THEN est - 1 ELSE est - 2
<1>5. /\ Jan00Daisy(est) \in Int
      /\ Jan00Daisy(est - 1) \in Int /\ Jan00Daisy(est - 2) \in Int
      /\ Jan00Daisy(est) = Jan00Daisy(est - 1) + GetYdays(est - 1)
      /\ Jan00Daisy(est - 1) = Jan00Daisy(est - 2) + GetYdays(est - 2)
      /\ GetYdays(est - 1) \in 365 .. 366 /\ GetYdays(est - 2) \in 365 .. 366
  <2> HIDE DEF est
  <2> QED BY <1>4, YearStep, SMT
<1>6. DaisyGetYear(n) = y
  <2>1. n # 0 /\ ~ est > 4095
    BY <1>1, SMT
  <2>2. (est - 1) - 1 = est - 2
    BY <1>1, SMT
  <2>3. MIN_YEAR + n \div 365 = est
    BY DEF MIN_YEAR
  <2> HIDE DEF est
  <2> QED BY <1>4, <1>5, <2>1, <2>2, <2>3, SMT DEF DaisyGetYear, MAX_YEAR
<1>7. n - Jan00Daisy(y) \in 1 .. 366 /\ y \in Years16 /\ n - Jan00Daisy(y) <= GetYdays(y)
  <2>1. est \in Int /\ 1601 <= est /\ est <= 4095
    BY <1>1, SMT
  <2> HIDE DEF est
  <2>2. y \in Int /\ 0 <= y /\ y <= 65535
    BY <2>1, SMT
  <2>3. n - Jan00Daisy(y) \in 1 .. 366
    BY <1>2, <1>3, <1>5, SMT
  <2>4. n - Jan00Daisy(y) <= GetYdays(y)
    <3>1. GetYdays(est) \in 365 .. 366
      BY <2>1, YearStep
    <3> HIDE DEF est
    <3>2. CASE Jan00Daisy(est) < n
      BY <1>2, <1>5, <3>1, <3>2
    <3>3. CASE ~(Jan00Daisy(est) < n) /\ Jan00Daisy(est - 1) < n
      BY <1>5, <3>3
    <3>4. CASE ~(Jan00Daisy(est) < n) /\ ~(Jan00Daisy(est - 1) < n)
      BY <1>5, <3>4
    <3> QED BY <3>2, <3>3, <3>4
  <2> HIDE DEF y
  <2> QED BY <2>2, <2>3, <2>4, SMT DEF Years16
<1>8. DaisyToYd(n) = Yd(y, n - Jan00Daisy(y))
  BY <1>6, SMT DEF DaisyToYd, DaisyGetYday
<1> HIDE DEF y
<1>9. Y16(y) = y
  BY <1>7, SMT DEF Y16, Years16
<1>10. DaisyToYd(n).y = y /\ DaisyToYd(n).d = n - Jan00Daisy(y)
  BY <1>8, <1>9, SMT DEF Yd
<1>11. Jan00Daisy(y) \in Int
  BY <1>7, YearStep, SMT DEF Years16
<1>12. DaisyToYd(n) \in YdDates
  BY <1>7, <1>8, <1>9, SMT DEF Yd, YdDates
<1> QED
  BY <1>7, <1>10, <1>11, <1>12, SMT

\* rem[] of yd.c, written out.
LEMMA Rem32Is ==
  /\ Rem32[1] = 19 /\ Rem32[2] = 19 /\ Rem32[3] = 18 /\ Rem32[4] = 14 /\ Rem32[5] = 13
  /\ Rem32[6] = 11 /\ Rem32[7] = 10 /\ Rem32[8] = 8 /\ Rem32[9] = 7 /\ Rem32[10] = 6
  /\ Rem32[11] = 4 /\ Rem32[12] = 3 /\ Rem32[13] = 1 /\ Rem32[14] = 0
BY DEF Rem32

\* __yday_get_md(): the days of a year are days of its twelve months.
LEMMA YdayGetMdIsDate ==
  ASSUME NEW y \in Int, NEW doy \in 1 .. GetYdays(y)
  PROVE  YdayGetMd(y, doy).m \in 1 .. 12 /\ YdayGetMd(y, doy).d \in 1 .. 31
<1> DEFINE m == (doy + 19) \div 32
           e == (doy + 19) % 32
           leapt == Leapp(y) /\ Rem32[m + 2] < 16
           beef == Rem32[m + 1] + (IF leapt /\ Rem32[m + 1] < 16 THEN 1 ELSE 0)
           cake == Rem32[m + 2] + (IF leapt THEN 1 ELSE 0)
<1>1. /\ doy \in 1 .. 366
      /\ doy = 366 => Leapp(y)
  BY YearStep DEF GetYdays
<1>2. /\ m \in 0 .. 12
      /\ e \in 0 .. 31
      /\ doy = 32 * m + e - 19
      /\ m = 0 => e >= 20
      /\ m = 12 => e < 2
      /\ m = 12 /\ e = 1 => Leapp(y)
  BY <1>1, SMT
<1>3. YdayGetMd(y, doy)
        = IF e <= cake THEN [m |-> m, d |-> doy - ((m - 1) * 32 - 19 + beef)]
          ELSE [m |-> m + 1, d |-> doy - (m * 32 - 19 + cake)]
  BY DEF YdayGetMd
<1> HIDE DEF m, e
<1>4. CASE e <= cake
  BY <1>2, <1>3, <1>4, Rem32Is, SMT
<1>5. CASE ~ e <= cake
  BY <1>2, <1>3, <1>5, Rem32Is, SMT
<1> QED
  BY <1>4, <1>5

\* Years are cut to the bits they have.
LEMMA YearBits ==
  ASSUME NEW y \in Int
  PROVE  Y12(y) \in Years12 /\ Y16(y) \in Years16
<1>1. Y12(y) \in Years12
  BY SMT DEF Y12, Years12
<1>2. y % 65536 \in Int /\ 0 <= y % 65536 /\ y % 65536 <= 65535
  BY SMT
<1> QED
  BY <1>1, <1>2, SMT DEF Y16, Years16

\* __ymd_fixup() and __yd_fixup(): days crop to what their month or year has.
LEMMA FixupIsDate ==
  /\ \A d \in YmdDates : /\ YmdFixup(d) \in YmdDates
                         /\ YmdFixup(d).d <= GetMdays(YmdFixup(d).y, YmdFixup(d).m)
  /\ \A d \in YdDates : /\ YdFixup(d) \in YdDates
                        /\ YdFixup(d).d <= GetYdays(YdFixup(d).y)
<1>1. ASSUME NEW d \in YmdDates
      PROVE  YmdFixup(d) \in YmdDates /\ YmdFixup(d).d <= GetMdays(YmdFixup(d).y, YmdFixup(d).m)
  <2>1. d.y \in Int /\ d.m \in 1 .. 12 /\ d.d \in 1 .. 31 /\ GetMdays(d.y, d.m) \in 28 .. 31
    BY MonthStep DEF YmdDates, Years12
  <2>2. CASE d.d > 28
    <3> DEFINE c == MinOf(d.d, GetMdays(d.y, d.m))
    <3>1. YmdFixup(d) = [d EXCEPT !.d = c]
      BY <2>1, <2>2 DEF YmdFixup
    <3>2. c \in 1 .. 31 /\ c <= GetMdays(d.y, d.m)
      BY <2>1, SMT DEF MinOf
    <3> HIDE DEF c
    <3> QED BY <3>1, <3>2 DEF YmdDates, Years12
  <2>3. CASE ~ d.d > 28
    BY <2>1, <2>3 DEF YmdFixup
  <2> QED BY <2>2, <2>3
<1>2. ASSUME NEW d \in YdDates
      PROVE  YdFixup(d) \in YdDates /\ YdFixup(d).d <= GetYdays(YdFixup(d).y)
  <2>1. d.y \in Int /\ d.d \in 1 .. 366 /\ GetYdays(d.y) \in 365 .. 366
    BY YearStep, SMT DEF YdDates, Years16
  <2>2. CASE d.d > 365
    <3> DEFINE c == MinOf(d.d, GetYdays(d.y))
    <3>1. YdFixup(d) = [d EXCEPT !.d = c]
      BY <2>1, <2>2, SMT DEF YdFixup
    <3>2. c \in 1 .. 366 /\ c <= GetYdays(d.y)
      BY <2>1, SMT DEF MinOf
    <3> HIDE DEF c
    <3> QED BY <3>1, <3>2, SMT DEF YdDates
  <2>3. CASE ~ d.d > 365
    BY <2>1, <2>3, SMT DEF YdFixup
  <2> QED BY <2>2, <2>3, SMT
<1> QED
  BY <1>1, <1>2, SMT

\* dt_dconv() between the two: years before 1 give nothing.
LEMMA ConvertIsHeld ==
  ASSUME NEW d \in YmdDates \union YdDates, NEW typ \in {"ymd", "yd"}
  PROVE  DConv(typ, d) \in Held
<1>1. CASE d \in YmdDates
  <2> DEFINE f == YmdFixup(d)
  <2>1. /\ f \in YmdDates
        /\ f.y \in Int /\ f.m \in 1 .. 12 /\ f.d \in 1 .. 31
        /\ f.d <= GetMdays(f.y, f.m)
    BY <1>1, FixupIsDate DEF YmdDates, Years12
  <2>2. DConv(typ, d) = IF typ = "ymd" THEN f ELSE YmdToYd(f)
    <3>1. d.typ = "ymd" /\ f.typ = "ymd"
      BY <1>1, <2>1 DEF YmdDates, Years12
    <3> HIDE DEF f
    <3>2. DFixup(d) = f
      BY <3>1 DEF DFixup, f
    <3> QED BY <3>1, <3>2 DEF DConv, ConvTo, ConvToYmd, ConvToYd, Numbers
  <2>3. CASE f.y = 0
    <3>1. YmdToYd(f) = Yd(0, 0)
      BY <2>3 DEF YmdToYd, YmdGetYday
    <3>2. Y16(0) = 0
      BY SMT DEF Y16
    <3> QED BY <2>1, <2>2, <3>1, <3>2, SMT DEF Yd, Held, Naughts
  <2>4. CASE f.y # 0
    <3> DEFINE yday == MdGetYday(f.y, f.m, f.d)
    <3>1. YmdGetYday(f) = yday
      BY <2>1, <2>4 DEF YmdGetYday
    <3>2. yday \in 1 .. 366
      <4>1. yday = MdGetYday(f.y, f.m, 0) + f.d
        BY <2>1, MonYdayIs, SMT DEF MdGetYday
      <4>2. MdGetYday(f.y, f.m, 0) + GetMdays(f.y, f.m) <= 366
        BY <2>1, MonYdayIs, SMT DEF MdGetYday, GetMdays
      <4>3. MdGetYday(f.y, f.m, 0) \in 0 .. 335 /\ GetMdays(f.y, f.m) \in 28 .. 31
        BY <2>1, MonthStep
      <4> HIDE DEF yday, f
      <4> QED BY <2>1, <4>1, <4>2, <4>3, SMTT(40)
    <3> HIDE DEF yday, f
    <3>3. YmdToYd(f) = Yd(f.y, yday)
      BY <3>1 DEF YmdToYd
    <3>4. Yd(f.y, yday) \in YdDates
      BY <2>1, <3>2, YearBits, SMT DEF Yd, YdDates
    <3> QED BY <2>1, <2>2, <3>3, <3>4, SMT DEF Held
  <2> QED BY <2>3, <2>4
<1>2. CASE d \in YdDates
  <2> DEFINE f == YdFixup(d)
  <2>1. /\ f \in YdDates
        /\ f.y \in Int /\ f.d \in 1 .. 366
        /\ f.d <= GetYdays(f.y)
    BY <1>2, FixupIsDate, SMT DEF YdDates, Years16
  <2>2. DConv(typ, d) = IF typ = "ymd" THEN YdToYmd(f) ELSE f
    <3>1. d.typ = "yd" /\ f.typ = "yd"
      BY <1>2, <2>1, SMT DEF YdDates
    <3> HIDE DEF f
    <3>2. DFixup(d) = f
      BY <3>1, SMT DEF DFixup, f
    <3> QED BY <3>1, <3>2, SMT DEF DConv, ConvTo, ConvToYmd, ConvToYd, Numbers
  <2> HIDE DEF f
  <2>3. f.d \in 1 .. GetYdays(f.y)
    <3>1. GetYdays(f.y) \in 365 .. 366
      BY <2>1, YearStep
    <3> QED BY <2>1, <3>1, SMT
  <2>4. YdToYmd(f) \in YmdDates
    <3>1. Y12(f.y) \in Years12
      BY <2>1, YearBits
    <3>2. YdayGetMd(f.y, f.d).m \in 1 .. 12 /\ YdayGetMd(f.y, f.d).d \in 1 .. 31
      BY <2>1, <2>3, YdayGetMdIsDate
    <3> QED BY <3>1, <3>2, SMT DEF YdToYmd, OfMd, Ymd, YmdDates
  <2> QED BY <2>1, <2>2, <2>4, SMT DEF Held
<1> QED
  BY <1>1, <1>2, SMT

\* Months and years are counted up within the fields of a date.
LEMMA CountedUpIsDate ==
  ASSUME NEW num \in Int
  PROVE  /\ \A d \in YmdDates : MonthsOn(d, num) \in YmdDates /\ YearsOn(d, num) \in YmdDates
         /\ \A d \in YdDates : YearsOn(d, num) \in YdDates
<1>1. ASSUME NEW d \in YmdDates PROVE MonthsOn(d, num) \in YmdDates
  <2>1. d.y \in Int /\ d.m \in 1 .. 12
    BY DEF YmdDates, Years12
  <2> DEFINE y == d.y + ((d.m + num) - 1) \div 12
             m == (((d.m + num) - 1) % 12) + 1
  <2>2. y \in Int /\ m \in 1 .. 12
    BY <2>1, SMTT(40)
  <2>3. One(d.typ = "ymd" /\ num < 0 /\ d.m = 0) = 0
    BY <2>1, SMT DEF One
  <2>4. MonthsOn(d, num) = [d EXCEPT !.y = Y12(y), !.m = m + 0]
    BY <2>3, Zenon DEF MonthsOn
  <2> DEFINE e == [d EXCEPT !.y = Y12(y)]
             x == m + 0
  <2>5. Y12(y) \in Years12 /\ x \in 1 .. 12
    BY <2>2, YearBits
  <2> HIDE DEF y
  <2>6. e \in YmdDates
    <3> DEFINE z == Y12(y)
    <3>1. z \in Years12
      BY <2>5
    <3> HIDE DEF z
    <3>2. [d EXCEPT !.y = z] \in YmdDates
      BY <3>1, SMT DEF YmdDates
    <3> QED BY <3>2 DEF z
  <2>7. MonthsOn(d, num) = [e EXCEPT !.m = x]
    BY <2>4, Zenon
  <2> HIDE DEF e, x
  <2> QED BY <2>5, <2>6, <2>7, SMT DEF YmdDates
<1>2. ASSUME NEW d \in YmdDates PROVE YearsOn(d, num) \in YmdDates
  <2>1. d.y + num \in Int /\ YearsOn(d, num) = [d EXCEPT !.y = Y12(d.y + num)]
    BY SMT DEF YmdDates, Years12, YearsOn, Numbers
  <2> QED BY <2>1, YearBits, SMT DEF YmdDates, Years12
<1>3. ASSUME NEW d \in YdDates PROVE YearsOn(d, num) \in YdDates
  <2>1. d.y + num \in Int /\ YearsOn(d, num) = [d EXCEPT !.y = Y16(d.y + num)]
    BY SMT DEF YdDates, YearsOn, Numbers, Years16
  <2> QED BY <2>1, YearBits, SMT DEF YdDates
<1> QED
  BY <1>1, <1>2, <1>3, SMT

-----------------------------------------------------------------------------
(* Loops keep the day. *)

\* Fields of a date under way that are replaced.
LEMMA RefitX ==
  ASSUME NEW k \in YmdWorks, NEW x \in Int
  PROVE  /\ [k EXCEPT !.x = x] \in YmdWorks
         /\ [k EXCEPT !.x = x].y = k.y
         /\ [k EXCEPT !.x = x].m = k.m
         /\ [k EXCEPT !.x = x].x = x
BY SMT DEF YmdWorks

\* The same for the month under way.
LEMMA RefitM ==
  ASSUME NEW k \in YmdWorks, NEW m \in 1 .. 12
  PROVE  /\ [k EXCEPT !.m = m] \in YmdWorks
         /\ [k EXCEPT !.m = m].y = k.y
         /\ [k EXCEPT !.m = m].m = m
         /\ [k EXCEPT !.m = m].x = k.x
BY SMT DEF YmdWorks

\* ... and for the year.
LEMMA RefitY ==
  ASSUME NEW k \in YmdWorks, NEW y \in Int
  PROVE  /\ [k EXCEPT !.y = y] \in YmdWorks
         /\ [k EXCEPT !.y = y].y = y
         /\ [k EXCEPT !.y = y].m = k.m
         /\ [k EXCEPT !.y = y].x = k.x
BY SMT DEF YmdWorks

\* What a date under way of either kind stands for, and its span.
LEMMA LinIs ==
  /\ \A k \in YmdWorks : /\ k.typ = "ymd" /\ k.y \in Int /\ k.m \in 1 .. 12 /\ k.x \in Int
                         /\ Lin(k) = (Jan00Daisy(k.y) + MdGetYday(k.y, k.m, 0)) + k.x
                         /\ Span(k) = GetMdays(k.y, k.m)
                         /\ Before(k) = MonthBefore(k) /\ After(k) = MonthAfter(k)
  /\ \A k \in YdWorks : /\ k.typ = "yd" /\ k.y \in Int /\ k.x \in Int
                        /\ Lin(k) = Jan00Daisy(k.y) + k.x
                        /\ Span(k) = GetYdays(k.y)
                        /\ Before(k) = YearBefore(k) /\ After(k) = YearAfter(k)
<1>1. ASSUME NEW k \in YmdWorks
      PROVE  /\ k.typ = "ymd" /\ k.y \in Int /\ k.m \in 1 .. 12 /\ k.x \in Int
             /\ Lin(k) = (Jan00Daisy(k.y) + MdGetYday(k.y, k.m, 0)) + k.x
             /\ Span(k) = GetMdays(k.y, k.m)
             /\ Before(k) = MonthBefore(k) /\ After(k) = MonthAfter(k)
  <2>1. k.typ = "ymd" /\ k.y \in Int /\ k.m \in 1 .. 12 /\ k.x \in Int
    BY SMT DEF YmdWorks
  <2> QED BY <2>1, SMT DEF Lin, Span, Before, After
<1>2. ASSUME NEW k \in YdWorks
      PROVE  /\ k.typ = "yd" /\ k.y \in Int /\ k.x \in Int
             /\ Lin(k) = Jan00Daisy(k.y) + k.x
             /\ Span(k) = GetYdays(k.y)
             /\ Before(k) = YearBefore(k) /\ After(k) = YearAfter(k)
  <2>1. k.typ = "yd" /\ k.y \in Int /\ k.x \in Int
    BY SMT DEF YdWorks
  <2> QED BY <2>1, SMT DEF Lin, Span, Before, After
<1> QED
  BY <1>1, <1>2, Zenon

\* A month back or forth in the loop of __ymd_fixup_d().
LEMMA MonthTurn ==
  ASSUME NEW k \in YmdWorks
  PROVE  /\ [Before(k) EXCEPT !.x = @ + Span(Before(k))] \in YmdWorks
         /\ Lin([Before(k) EXCEPT !.x = @ + Span(Before(k))]) = Lin(k)
         /\ [After(k) EXCEPT !.x = @ - Span(k)] \in YmdWorks
         /\ Lin([After(k) EXCEPT !.x = @ - Span(k)]) = Lin(k)
<1>1. k.y \in Int /\ k.m \in 1 .. 12 /\ k.x \in Int /\ Before(k) = MonthBefore(k) /\ After(k) = MonthAfter(k)
  BY LinIs
<1>2. ASSUME NEW b \in YmdWorks, b.x = k.x,
             b.y = IF k.m = 1 THEN k.y - 1 ELSE k.y,
             b.m = IF k.m = 1 THEN 12 ELSE k.m - 1
      PROVE  /\ [b EXCEPT !.x = @ + Span(b)] \in YmdWorks
             /\ Lin([b EXCEPT !.x = @ + Span(b)]) = Lin(k)
  <2>1. b.y \in Int /\ b.m \in 1 .. 12 /\ Span(b) = GetMdays(b.y, b.m)
    BY LinIs
  <2>2. GetMdays(b.y, b.m) \in 28 .. 31 /\ MdGetYday(b.y, b.m, 0) \in 0 .. 335
    BY <2>1, MonthStep
  <2>3. Jan00Daisy(b.y) + MdGetYday(b.y, b.m, 0) + GetMdays(b.y, b.m)
          = Jan00Daisy(k.y) + MdGetYday(k.y, k.m, 0)
    <3>1. CASE k.m = 1
      <4>1. Jan00Daisy((k.y - 1) + 1) = Jan00Daisy(k.y - 1) + GetYdays(k.y - 1)
            /\ Jan00Daisy(k.y - 1) \in Int
        BY <1>1, YearStep
      <4>2. MdGetYday(k.y - 1, 12, 0) + GetMdays(k.y - 1, 12) = GetYdays(k.y - 1) /\ MdGetYday(k.y, 1, 0) = 0
        BY <1>1, MonthStep
      <4>3. (k.y - 1) + 1 = k.y /\ GetYdays(k.y - 1) \in Int
        BY <1>1, YearStep
      <4> QED BY <1>1, <1>2, <2>2, <3>1, <4>1, <4>2, <4>3, SMT
    <3>2. CASE k.m # 1
      <4>1. b.m # 12 /\ b.m + 1 = k.m
        BY <1>1, <1>2, <3>2
      <4>2. MdGetYday(b.y, b.m, 0) + GetMdays(b.y, b.m) = MdGetYday(b.y, b.m + 1, 0)
        BY <2>1, <4>1, MonthStep
      <4>3. Jan00Daisy(b.y) \in Int
        BY <2>1, YearStep
      <4> QED BY <1>2, <2>2, <3>2, <4>1, <4>2, <4>3, SMT
    <3> QED BY <3>1, <3>2
  <2> DEFINE x == b.x + Span(b)
             c == [b EXCEPT !.x = x]
  <2>4. x \in Int /\ x = k.x + GetMdays(b.y, b.m)
    BY <1>1, <1>2, <2>1, <2>2
  <2> HIDE DEF x
  <2>5. c \in YmdWorks /\ c.y = b.y /\ c.m = b.m /\ c.x = x
    BY <2>4, RefitX, Zenon
  <2> HIDE DEF c
  <2>6. Lin(c) = (Jan00Daisy(b.y) + MdGetYday(b.y, b.m, 0)) + x
    BY <2>5, LinIs
  <2>7. Lin(k) = (Jan00Daisy(k.y) + MdGetYday(k.y, k.m, 0)) + k.x
    BY LinIs
  <2>8. Jan00Daisy(b.y) \in Int /\ Jan00Daisy(k.y) \in Int /\ MdGetYday(k.y, k.m, 0) \in Int
    <3>1. MdGetYday(k.y, k.m, 0) \in 0 .. 335
      BY <1>1, MonthStep
    <3>2. Jan00Daisy(b.y) \in Int
      BY <2>1, YearStep
    <3>3. Jan00Daisy(k.y) \in Int
      BY <1>1, YearStep
    <3> QED BY <3>1, <3>2, <3>3
  <2>9. Lin(c) = Lin(k)
    BY <1>1, <2>2, <2>3, <2>4, <2>6, <2>7, <2>8, SMTT(40)
  <2> QED BY <2>5, <2>9 DEF c, x
<1>3. ASSUME NEW a \in YmdWorks, a.x = k.x,
             a.y = IF k.m = 12 THEN k.y + 1 ELSE k.y,
             a.m = IF k.m = 12 THEN 1 ELSE k.m + 1
      PROVE  /\ [a EXCEPT !.x = @ - Span(k)] \in YmdWorks
             /\ Lin([a EXCEPT !.x = @ - Span(k)]) = Lin(k)
  <2>1. a.y \in Int /\ a.m \in 1 .. 12 /\ Span(k) = GetMdays(k.y, k.m)
    BY LinIs
  <2>2. GetMdays(k.y, k.m) \in 28 .. 31 /\ MdGetYday(k.y, k.m, 0) \in 0 .. 335 /\ MdGetYday(a.y, a.m, 0) \in 0 .. 335
    BY <1>1, <2>1, MonthStep, ZenonT(40)
  <2>3. Jan00Daisy(k.y) + MdGetYday(k.y, k.m, 0) + GetMdays(k.y, k.m)
          = Jan00Daisy(a.y) + MdGetYday(a.y, a.m, 0)
    <3>1. CASE k.m = 12
      <4>1. Jan00Daisy(k.y + 1) = Jan00Daisy(k.y) + GetYdays(k.y) /\ Jan00Daisy(k.y) \in Int /\ GetYdays(k.y) \in Int
        BY <1>1, YearStep
      <4>2. MdGetYday(k.y, k.m, 0) + GetMdays(k.y, k.m) = GetYdays(k.y)
        BY <1>1, <3>1, MonthStep
      <4>3. MdGetYday(k.y + 1, 1, 0) = 0
        BY <1>1, MonthStep
      <4> QED BY <1>1, <1>3, <2>2, <3>1, <4>1, <4>2, <4>3, SMT
    <3>2. CASE k.m # 12
      <4>1. MdGetYday(k.y, k.m, 0) + GetMdays(k.y, k.m) = MdGetYday(k.y, k.m + 1, 0)
        BY <1>1, <3>2, MonthStep
      <4>2. Jan00Daisy(k.y) \in Int
        BY <1>1, YearStep
      <4> QED BY <1>3, <2>2, <3>2, <4>1, <4>2, SMT
    <3> QED BY <3>1, <3>2
  <2> DEFINE x == a.x - Span(k)
             c == [a EXCEPT !.x = x]
  <2>4. x \in Int /\ x = k.x - GetMdays(k.y, k.m)
    BY <1>1, <1>3, <2>1, <2>2
  <2> HIDE DEF x
  <2>5. c \in YmdWorks /\ c.y = a.y /\ c.m = a.m /\ c.x = x
    BY <2>4, RefitX, Zenon
  <2> HIDE DEF c
  <2>6. Lin(c) = (Jan00Daisy(a.y) + MdGetYday(a.y, a.m, 0)) + x
    BY <2>5, LinIs
  <2>7. Lin(k) = (Jan00Daisy(k.y) + MdGetYday(k.y, k.m, 0)) + k.x
    BY LinIs
  <2>8. Jan00Daisy(a.y) \in Int /\ Jan00Daisy(k.y) \in Int
    BY <1>1, <2>1, YearStep
  <2>9. Lin(c) = Lin(k)
    <3>1. k.x \in Int
      BY <1>1
    <3> QED BY <2>2, <2>3, <2>4, <2>6, <2>7, <2>8, <3>1, SMTT(40)
  <2> QED BY <2>5, <2>9 DEF c, x
<1>4. /\ MonthBefore(k) \in YmdWorks
      /\ MonthBefore(k).x = k.x
      /\ MonthBefore(k).y = IF k.m = 1 THEN k.y - 1 ELSE k.y
      /\ MonthBefore(k).m = IF k.m = 1 THEN 12 ELSE k.m - 1
  <2>1. CASE k.m = 1
    <3> DEFINE z == k.y - 1
               l == 12
               e == [k EXCEPT !.y = z]
               r == [e EXCEPT !.m = l]
    <3>1. MonthBefore(k) = r
      BY <2>1, Zenon DEF MonthBefore
    <3>2. z \in Int /\ l \in 1 .. 12
      BY <1>1
    <3> HIDE DEF z, l
    <3>4. e \in YmdWorks /\ e.y = z /\ e.x = k.x
      BY <3>2, RefitY, Zenon
    <3> HIDE DEF e
    <3>3. /\ r \in YmdWorks /\ r.x = k.x
          /\ r.y = z /\ r.m = l
      BY <3>2, <3>4, RefitM, Zenon
    <3> HIDE DEF r
    <3> QED BY <2>1, <3>1, <3>3 DEF z, l
  <2>2. CASE k.m # 1
    <3> DEFINE r == [k EXCEPT !.m = k.m - 1]
    <3>1. MonthBefore(k) = r
      BY <2>2, Zenon DEF MonthBefore
    <3>2. k.m - 1 \in 1 .. 12
      BY <1>1, <2>2
    <3>3. /\ r \in YmdWorks /\ r.x = k.x
          /\ r.y = k.y /\ r.m = k.m - 1
      BY <3>2, RefitM, Zenon
    <3> HIDE DEF r
    <3> QED BY <2>2, <3>1, <3>3
  <2> QED BY <2>1, <2>2
<1>5. /\ MonthAfter(k) \in YmdWorks
      /\ MonthAfter(k).x = k.x
      /\ MonthAfter(k).y = IF k.m = 12 THEN k.y + 1 ELSE k.y
      /\ MonthAfter(k).m = IF k.m = 12 THEN 1 ELSE k.m + 1
  <2>1. CASE k.m = 12
    <3> DEFINE z == k.y + 1
               l == 1
               e == [k EXCEPT !.y = z]
               r == [e EXCEPT !.m = l]
    <3>1. MonthAfter(k) = r
      BY <2>1, Zenon DEF MonthAfter
    <3>2. z \in Int /\ l \in 1 .. 12
      BY <1>1
    <3> HIDE DEF z, l
    <3>4. e \in YmdWorks /\ e.y = z /\ e.x = k.x
      BY <3>2, RefitY, Zenon
    <3> HIDE DEF e
    <3>3. /\ r \in YmdWorks /\ r.x = k.x
          /\ r.y = z /\ r.m = l
      BY <3>2, <3>4, RefitM, Zenon
    <3> HIDE DEF r
    <3> QED BY <2>1, <3>1, <3>3 DEF z, l
  <2>2. CASE k.m # 12
    <3> DEFINE r == [k EXCEPT !.m = k.m + 1]
    <3>1. MonthAfter(k) = r
      BY <2>2, Zenon DEF MonthAfter
    <3>2. k.m + 1 \in 1 .. 12
      BY <1>1, <2>2
    <3>3. /\ r \in YmdWorks /\ r.x = k.x
          /\ r.y = k.y /\ r.m = k.m + 1
      BY <3>2, RefitM, Zenon
    <3> HIDE DEF r
    <3> QED BY <2>2, <3>1, <3>3
  <2> QED BY <2>1, <2>2
<1> QED
  BY <1>1, <1>2, <1>3, <1>4, <1>5, Zenon

\* A year back or forth in the loop of __yd_fixup_d().
LEMMA YearTurn ==
  ASSUME NEW k \in YdWorks
  PROVE  /\ [Before(k) EXCEPT !.x = @ + Span(Before(k))] \in YdWorks
         /\ Lin([Before(k) EXCEPT !.x = @ + Span(Before(k))]) = Lin(k)
         /\ [After(k) EXCEPT !.x = @ - Span(k)] \in YdWorks
         /\ Lin([After(k) EXCEPT !.x = @ - Span(k)]) = Lin(k)
<1>1. /\ k.typ = "yd" /\ k.y \in Int /\ k.x \in Int
      /\ Before(k) = YearBefore(k) /\ After(k) = YearAfter(k)
      /\ Span(k) = GetYdays(k.y) /\ Lin(k) = Jan00Daisy(k.y) + k.x
  BY LinIs, Zenon
<1>2. ASSUME NEW e \in YdWorks, NEW x \in Int
      PROVE  [e EXCEPT !.x = x] \in YdWorks /\ Lin([e EXCEPT !.x = x]) = Jan00Daisy(e.y) + x
  <2> DEFINE c == [e EXCEPT !.x = x]
  <2>1. c \in YdWorks /\ c.y = e.y /\ c.x = x
    BY SMT DEF YdWorks
  <2> HIDE DEF c
  <2>2. Lin(c) = Jan00Daisy(e.y) + x
    BY <2>1, LinIs, Zenon
  <2> QED BY <2>1, <2>2 DEF c
<1>3. ASSUME NEW y \in Int
      PROVE  [k EXCEPT !.y = y] \in YdWorks /\ [k EXCEPT !.y = y].y = y /\ [k EXCEPT !.y = y].x = k.x
  BY SMT DEF YdWorks
<1>4. /\ [Before(k) EXCEPT !.x = @ + Span(Before(k))] \in YdWorks
      /\ Lin([Before(k) EXCEPT !.x = @ + Span(Before(k))]) = Lin(k)
  <2> DEFINE z == k.y - 1
             b == [k EXCEPT !.y = z]
             x == b.x + Span(b)
             c == [b EXCEPT !.x = x]
  <2>1. Before(k) = b
    BY <1>1, Zenon DEF YearBefore
  <2>2. z \in Int /\ z + 1 = k.y
    BY <1>1
  <2> HIDE DEF z
  <2>3. b \in YdWorks /\ b.y = z /\ b.x = k.x
    BY <1>3, <2>2, Zenon
  <2> HIDE DEF b
  <2>4. Span(b) = GetYdays(z)
    BY <2>3, LinIs, Zenon
  <2>5. GetYdays(z) \in 365 .. 366 /\ Jan00Daisy(z) \in Int /\ Jan00Daisy(z + 1) = Jan00Daisy(z) + GetYdays(z)
    BY <2>2, YearStep
  <2>6. x \in Int /\ x = k.x + GetYdays(z)
    BY <1>1, <2>3, <2>4, <2>5
  <2> HIDE DEF x
  <2>7. c \in YdWorks /\ Lin(c) = Jan00Daisy(z) + x
    BY <1>2, <2>3, <2>6, Zenon
  <2> HIDE DEF c
  <2>8. Lin(c) = Lin(k)
    BY <1>1, <2>2, <2>5, <2>6, <2>7
  <2> QED BY <2>1, <2>7, <2>8, Zenon DEF c, x
<1>5. /\ [After(k) EXCEPT !.x = @ - Span(k)] \in YdWorks
      /\ Lin([After(k) EXCEPT !.x = @ - Span(k)]) = Lin(k)
  <2> DEFINE z == k.y + 1
             a == [k EXCEPT !.y = z]
             x == a.x - Span(k)
             c == [a EXCEPT !.x = x]
  <2>1. After(k) = a
    BY <1>1, Zenon DEF YearAfter
  <2>2. z \in Int /\ z = k.y + 1
    BY <1>1
  <2> HIDE DEF z
  <2>3. a \in YdWorks /\ a.y = z /\ a.x = k.x
    BY <1>3, <2>2, Zenon
  <2> HIDE DEF a
  <2>4. GetYdays(k.y) \in 365 .. 366 /\ Jan00Daisy(k.y) \in Int /\ Jan00Daisy(k.y + 1) = Jan00Daisy(k.y) + GetYdays(k.y)
    BY <1>1, YearStep
  <2>5. x \in Int /\ x = k.x - GetYdays(k.y)
    BY <1>1, <2>3, <2>4
  <2> HIDE DEF x
  <2>6. c \in YdWorks /\ Lin(c) = Jan00Daisy(z) + x
    BY <1>2, <2>3, <2>5, Zenon
  <2> HIDE DEF c
  <2>7. Lin(c) = Lin(k)
    BY <1>1, <2>2, <2>4, <2>5, <2>6
  <2> QED BY <2>1, <2>6, <2>7, Zenon DEF c, x
<1> QED
  BY <1>4, <1>5

-----------------------------------------------------------------------------
(* Adding to a date. *)

\* A date with its smallest field replaced is one under way.
LEMMA UnfoldIs ==
  ASSUME NEW x \in Int
  PROVE  /\ \A d \in YmdDates :
              /\ d.typ = "ymd" /\ d.y \in Int /\ d.m \in 1 .. 12 /\ d.d \in 1 .. 31
              /\ Unfold(d, x) \in YmdWorks
              /\ Lin(Unfold(d, x)) = (Jan00Daisy(d.y) + MdGetYday(d.y, d.m, 0)) + x
         /\ \A d \in YdDates :
              /\ d.typ = "yd" /\ d.y \in Int /\ d.d \in 1 .. 366
              /\ Unfold(d, x) \in YdWorks
              /\ Lin(Unfold(d, x)) = Jan00Daisy(d.y) + x
<1>1. ASSUME NEW d \in YmdDates
      PROVE  /\ d.typ = "ymd" /\ d.y \in Int /\ d.m \in 1 .. 12 /\ d.d \in 1 .. 31
             /\ Unfold(d, x) \in YmdWorks
             /\ Lin(Unfold(d, x)) = (Jan00Daisy(d.y) + MdGetYday(d.y, d.m, 0)) + x
  <2>1. d.typ = "ymd" /\ d.y \in Int /\ d.m \in 1 .. 12 /\ d.d \in 1 .. 31
    BY SMT DEF YmdDates, Years12
  <2> DEFINE k == [typ |-> "ymd", y |-> d.y, m |-> d.m, x |-> x]
  <2>2. Unfold(d, x) = k
    BY <2>1, Zenon DEF Unfold
  <2>3. k \in YmdWorks /\ k.y = d.y /\ k.m = d.m /\ k.x = x
    BY <2>1, SMT DEF YmdWorks
  <2> HIDE DEF k
  <2>4. Lin(k) = (Jan00Daisy(d.y) + MdGetYday(d.y, d.m, 0)) + x
    BY <2>3, LinIs, Zenon
  <2> QED BY <2>1, <2>2, <2>3, <2>4
<1>2. ASSUME NEW d \in YdDates
      PROVE  /\ d.typ = "yd" /\ d.y \in Int /\ d.d \in 1 .. 366
             /\ Unfold(d, x) \in YdWorks
             /\ Lin(Unfold(d, x)) = Jan00Daisy(d.y) + x
  <2>1. d.typ = "yd" /\ d.y \in Int /\ d.d \in 1 .. 366
    BY SMT DEF YdDates, Years16
  <2> DEFINE k == [typ |-> "yd", y |-> d.y, x |-> x]
  <2>2. Unfold(d, x) = k
    BY <2>1, SMT DEF Unfold
  <2>3. k \in YdWorks /\ k.y = d.y /\ k.x = x
    BY <2>1, SMT DEF YdWorks
  <2> HIDE DEF k
  <2>4. Lin(k) = Jan00Daisy(d.y) + x
    BY <2>3, LinIs, Zenon
  <2> QED BY <2>1, <2>2, <2>3, <2>4
<1> QED
  BY <1>1, <1>2, Zenon

\* Adding days, before anything is carried over.
LEMMA DaysOnIsMeant ==
  ASSUME NEW d \in YmdDates \union YdDates, NEW num \in Int
  PROVE  /\ DaysOn(d, num) \in YmdWorks \union YdWorks
         /\ Lin(DaysOn(d, num)) = Meant(d) + num
         /\ Meant(d) \in Int
<1>1. CASE d \in YmdDates
  <2> DEFINE f == YmdFixup(d)
             x == (f.d + num) + One(num < 0 /\ f.d = 0)
  <2>1. f \in YmdDates /\ d.typ = "ymd"
    BY <1>1, FixupIsDate, SMT DEF YmdDates
  <2>2. DaysOn(d, num) = Unfold(f, x)
    BY <2>1, Zenon DEF DaysOn
  <2> HIDE DEF f
  <2>3. f.typ = "ymd" /\ f.y \in Int /\ f.m \in 1 .. 12 /\ f.d \in 1 .. 31
    BY <2>1, SMT DEF YmdDates, Years12
  <2>4. x \in Int /\ x = f.d + num
    BY <2>3, SMT DEF One
  <2>5. Meant(d) = Lin(Unfold(f, f.d))
    BY <2>1, <2>3, SMT DEF Meant, Reading, Numbers, f
  <2> HIDE DEF x
  <2>6. Unfold(f, x) \in YmdWorks /\ Lin(Unfold(f, x)) = (Jan00Daisy(f.y) + MdGetYday(f.y, f.m, 0)) + x
    BY <2>1, <2>4, UnfoldIs, ZenonT(40)
  <2>7. f.d \in Int
    BY <2>3
  <2>8. Lin(Unfold(f, f.d)) = (Jan00Daisy(f.y) + MdGetYday(f.y, f.m, 0)) + f.d
    BY <2>1, <2>7, UnfoldIs, ZenonT(40)
  <2>9. Jan00Daisy(f.y) \in Int
    BY <2>3, YearStep
  <2>10. MdGetYday(f.y, f.m, 0) \in 0 .. 335
    BY <2>3, MonthStep
  <2> QED BY <2>2, <2>4, <2>5, <2>6, <2>7, <2>8, <2>9, <2>10
<1>2. CASE d \in YdDates
  <2> DEFINE x == (d.d + num) + One(num < 0 /\ d.d = 0)
  <2>1. d.typ = "yd" /\ d.y \in Int /\ d.d \in 1 .. 366
    BY <1>2, SMT DEF YdDates, Years16
  <2>2. DaysOn(d, num) = Unfold(d, x)
    BY <2>1, SMT DEF DaysOn
  <2>3. x \in Int /\ x = d.d + num /\ d.d \in Int
    BY <2>1, SMT DEF One
  <2>4. Meant(d) = Lin(Unfold(d, d.d))
    BY <2>1, SMT DEF Meant, Reading, Numbers
  <2> HIDE DEF x
  <2>5. Unfold(d, x) \in YdWorks /\ Lin(Unfold(d, x)) = Jan00Daisy(d.y) + x
    BY <1>2, <2>3, UnfoldIs, ZenonT(40)
  <2>6. Lin(Unfold(d, d.d)) = Jan00Daisy(d.y) + d.d
    BY <1>2, <2>3, UnfoldIs, Zenon
  <2>7. Jan00Daisy(d.y) \in Int
    BY <2>1, YearStep
  <2> QED BY <2>2, <2>3, <2>4, <2>5, <2>6, <2>7
<1> QED
  BY <1>1, <1>2

\* Business days are added as some number of days.
LEMMA DEquivIsInt ==
  ASSUME NEW dow \in Int, NEW num \in Int
  PROVE  DEquiv(dow, num) \in Int
<1>1. \A n \in Int : Quot(n, 5) \in Int /\ Rem(n, 5) \in Int
  BY SMT DEF Quot, Rem
<1>2. \A n \in Int : UMod(n, 5) \in Int /\ UMod(n, 7) \in Int
  BY SMT DEF UMod
<1> DEFINE weekend == dow >= SATURDAY
           moved == IF ~weekend THEN 0 ELSE IF num >= 0 THEN 8 - dow ELSE 5 - dow
           from == IF ~weekend THEN dow ELSE IF num >= 0 THEN MONDAY ELSE FRIDAY
           rest == IF ~weekend \/ num = 0 THEN num ELSE IF num > 0 THEN num - 1 ELSE num + 1
           days == Quot(rest, 5) * 7 + Rem(rest, 5)
           u5 == UMod(from + 384 + rest, 5)
           u7 == UMod(from + 384 + days, 7)
<1>3. moved \in Int /\ from \in Int /\ rest \in Int
  BY SMT DEF SATURDAY, MONDAY, FRIDAY
<1>4. DEquiv(dow, num) = moved + days + u5 - u7 + (IF days >= 0 /\ u5 < u7 THEN 7 ELSE 0)
  BY DEF DEquiv
<1> HIDE DEF moved, from, rest
<1>5. days \in Int
  BY <1>1, <1>3
<1> HIDE DEF days
<1>6. u5 \in Int /\ u7 \in Int
  BY <1>2, <1>3, <1>5
<1> HIDE DEF u5, u7
<1> QED
  BY <1>3, <1>4, <1>5, <1>6

\* Days of the week are numbers.
LEMMA WdaysAreInts ==
  ASSUME NEW y \in Int, NEW x \in Int
  PROVE  /\ Jan01Wday(y) \in Int
         /\ OrElse((x - 1 + Jan01Wday(y)) % 7, SUNDAY) \in Int
<1> DEFINE z == IF y > 2100 \/ y < 1901 THEN Year28Equiv(y) ELSE y
           i == (z % 28) + 1
<1>1. z \in Int
  BY SMT DEF Year28Equiv
<1> HIDE DEF z
<1>2. i \in 1 .. 28
  BY <1>1, SMT
<1> HIDE DEF i
<1>3. Jan01Wday(y) = Jan01Table28[i]
  BY DEF Jan01Wday, i, z
<1>4. \A j \in 1 .. 28 : Jan01Table28[j] \in Int
  BY SMT DEF Jan01Table28
<1>5. Jan01Wday(y) \in Int
  BY <1>2, <1>3, <1>4
<1> QED
  BY <1>5 DEF OrElse, SUNDAY

\* Adding business days begins with work for the loops.
LEMMA BizdaysOnIsWork ==
  ASSUME NEW d \in YmdDates \union YdDates, NEW num \in Int
  PROVE  BizdaysOn(d, num) \in YmdWorks \union YdWorks
<1>1. CASE d \in YmdDates
  <2> DEFINE f == YmdFixup(d)
             g == IF num < 0 /\ f.d = 0 THEN [f EXCEPT !.d = 1] ELSE f
             n == DEquiv(YmdGetWday(f), num)
  <2>1. f \in YmdDates /\ d.typ = "ymd"
    BY <1>1, FixupIsDate, SMT DEF YmdDates
  <2> HIDE DEF f
  <2>2. f.typ = "ymd" /\ f.y \in Int /\ f.m \in 1 .. 12 /\ f.d \in 1 .. 31
    BY <2>1, SMT DEF YmdDates, Years12
  <2>3. g = f
    BY <2>2
  <2>4. BizdaysOn(d, num) = Unfold(f, f.d + n)
    BY <2>1, <2>3, Zenon DEF BizdaysOn, f
  <2>5. YmdGetWday(f) \in Int
    <3>1. MdGetYday(f.y, f.m, f.d) \in Int
      BY <2>2, MonYdayIs, SMT DEF MdGetYday
    <3> QED BY <2>2, <3>1, WdaysAreInts DEF YmdGetWday, DomWday, MIRACLEDAY
  <2>6. f.d + n \in Int
    <3>1. n \in Int
      BY <2>5, DEquivIsInt, Zenon
    <3> QED BY <2>2, <3>1
  <2> HIDE DEF n
  <2>7. Unfold(f, f.d + n) \in YmdWorks
    BY <2>1, <2>6, UnfoldIs
  <2> QED BY <2>4, <2>7, Zenon
<1>2. CASE d \in YdDates
  <2> DEFINE g == IF num < 0 /\ d.d = 0 THEN [d EXCEPT !.d = 1] ELSE d
             n == DEquiv(YdGetWday(d), num)
  <2>1. d.typ = "yd" /\ d.y \in Int /\ d.d \in 1 .. 366
    BY <1>2, SMT DEF YdDates, Years16
  <2>2. g = d
    BY <2>1
  <2>3. BizdaysOn(d, num) = Unfold(d, d.d + n)
    <3>1. BizdaysOn(d, num) = Unfold(g, g.d + DEquiv(YdGetWday(g), num))
      BY <2>1, SMT DEF BizdaysOn
    <3> HIDE DEF g
    <3> QED BY <2>2, <3>1
  <2>4. YdGetWday(d) \in Int
    <3>1. d.d \in Int
      BY <2>1
    <3>2. OrElse((d.d - 1 + Jan01Wday(d.y)) % 7, SUNDAY) \in Int
      BY <2>1, <3>1, WdaysAreInts, Zenon
    <3> QED BY <3>2 DEF YdGetWday, MIRACLEDAY
  <2>5. d.d + n \in Int
    <3>1. n \in Int
      BY <2>4, DEquivIsInt, Zenon
    <3> QED BY <2>1, <3>1
  <2> HIDE DEF n
  <2>6. Unfold(d, d.d + n) \in YdWorks
    BY <1>2, <2>5, UnfoldIs
  <2> QED BY <2>3, <2>6, Zenon
<1> QED
  BY <1>1, <1>2

\* A loop ends with a date, which is the same day if it is between 1601 and
\* 4095.
LEMMA FoldIsDate ==
  ASSUME NEW k \in YmdWorks \union YdWorks, k.x \in 1 .. Span(k)
  PROVE  /\ Fold(k) \in YmdDates \union YdDates
         /\ Fold(k).typ = k.typ /\ Fold(k).d = k.x
         /\ k \in YmdWorks => Fold(k).m = k.m
         /\ Lin(k) \in CivilDays => Reading(Fold(k)) = Lin(k) /\ Fold(k).y = k.y
<1>1. CASE k \in YmdWorks
  <2>1. /\ k.typ = "ymd" /\ k.y \in Int /\ k.m \in 1 .. 12 /\ k.x \in Int
        /\ Lin(k) = (Jan00Daisy(k.y) + MdGetYday(k.y, k.m, 0)) + k.x
        /\ Span(k) = GetMdays(k.y, k.m)
    BY <1>1, LinIs, Zenon
  <2> DEFINE z == Y12(k.y)
             d == [typ |-> "ymd", y |-> z, m |-> k.m, d |-> k.x]
  <2>2. Fold(k) = d
    BY <2>1, Zenon DEF Fold, Ymd
  <2>3. GetMdays(k.y, k.m) \in 28 .. 31
    BY <2>1, MonthStep
  <2>4. k.x \in 1 .. 31 /\ k.x <= GetMdays(k.y, k.m)
    BY <2>1, <2>3
  <2>5. z \in Years12
    BY <2>1, YearBits, Zenon
  <2> HIDE DEF z
  <2>6. d \in YmdDates /\ d.y = z /\ d.m = k.m /\ d.d = k.x /\ d.typ = "ymd"
    BY <2>1, <2>4, <2>5, SMT DEF YmdDates
  <2> HIDE DEF d
  <2>7. ASSUME Lin(k) \in CivilDays PROVE Reading(d) = Lin(k) /\ d.y = k.y
    <3>1. Jan00Daisy(k.y) \in Int /\ GetYdays(k.y) \in Int /\ Jan00Daisy(k.y + 1) = Jan00Daisy(k.y) + GetYdays(k.y)
      BY <2>1, YearStep
    <3>2. MdGetYday(k.y, k.m, 0) \in 0 .. 335 /\ MdGetYday(k.y, k.m, 0) + GetMdays(k.y, k.m) <= GetYdays(k.y)
      <4>1. MdGetYday(k.y, k.m, 0) \in 0 .. 335
        BY <2>1, MonthStep
      <4>2. MdGetYday(k.y, k.m, 0) + GetMdays(k.y, k.m) <= GetYdays(k.y)
        BY <2>1, MonYdayIs, SMT DEF MdGetYday, GetMdays, GetYdays
      <4> QED BY <4>1, <4>2
    <3>3. Jan00Daisy(k.y) < Lin(k) /\ Lin(k) <= Jan00Daisy(k.y + 1)
      <4>1. k.x \in Int
        BY <2>1
      <4> DEFINE j == Jan00Daisy(k.y)
                 t == MdGetYday(k.y, k.m, 0)
                 g == GetMdays(k.y, k.m)
      <4>2. /\ Lin(k) = (j + t) + k.x /\ j \in Int /\ t \in 0 .. 335 /\ g \in 28 .. 31
            /\ 1 <= k.x /\ k.x <= g /\ t + g <= GetYdays(k.y)
            /\ Jan00Daisy(k.y + 1) = j + GetYdays(k.y) /\ GetYdays(k.y) \in Int
        BY <2>1, <2>3, <2>4, <3>1, <3>2
      <4> HIDE DEF j, t, g
      <4>3. j < Lin(k) /\ Lin(k) <= j + GetYdays(k.y)
        BY <4>1, <4>2
      <4> QED BY <4>2, <4>3 DEF j
    <3>4. k.y \in CivilYears
      BY <2>1, <2>7, <3>3, YearFits, Zenon
    <3>5. z = k.y
      BY <2>1, <3>4, SMT DEF Y12, z, CivilYears
    <3>6. Reading(d) = Lin(Unfold(d, d.d))
      BY <2>6, SMT DEF Reading, Numbers
    <3>7. Lin(Unfold(d, d.d)) = (Jan00Daisy(d.y) + MdGetYday(d.y, d.m, 0)) + d.d
      BY <2>1, <2>6, UnfoldIs, Zenon
    <3> QED BY <2>1, <2>6, <3>5, <3>6, <3>7, Zenon
  <2> QED BY <2>1, <2>2, <2>6, <2>7, Zenon
<1>2. CASE k \in YdWorks
  <2>1. /\ k.typ = "yd" /\ k.y \in Int /\ k.x \in Int
        /\ Lin(k) = Jan00Daisy(k.y) + k.x
        /\ Span(k) = GetYdays(k.y)
    BY <1>2, LinIs, Zenon
  <2> DEFINE z == Y16(k.y)
             d == [typ |-> "yd", y |-> z, d |-> k.x]
  <2>2. Fold(k) = d
    BY <2>1, SMT DEF Fold, Yd
  <2>3. GetYdays(k.y) \in 365 .. 366
    BY <2>1, YearStep
  <2>4. k.x \in 1 .. 366 /\ k.x <= GetYdays(k.y)
    BY <2>1, <2>3
  <2>5. z \in Years16
    BY <2>1, YearBits, Zenon
  <2> HIDE DEF z
  <2>6. d \in YdDates /\ d.y = z /\ d.d = k.x /\ d.typ = "yd"
    BY <2>1, <2>4, <2>5, SMT DEF YdDates
  <2> HIDE DEF d
  <2>7. ASSUME Lin(k) \in CivilDays PROVE Reading(d) = Lin(k) /\ d.y = k.y
    <3>1. Jan00Daisy(k.y) \in Int /\ Jan00Daisy(k.y + 1) = Jan00Daisy(k.y) + GetYdays(k.y)
      BY <2>1, YearStep
    <3>2. Jan00Daisy(k.y) < Lin(k) /\ Lin(k) <= Jan00Daisy(k.y + 1)
      BY <2>1, <2>3, <2>4, <3>1
    <3>3. k.y \in CivilYears
      BY <2>1, <2>7, <3>2, YearFits, Zenon
    <3>4. z = k.y
      <4>1. k.y \in Int /\ 0 <= k.y /\ k.y < 65536
        BY <3>3, SMT DEF CivilYears
      <4> QED BY <4>1, SMT DEF Y16, z
    <3>5. Reading(d) = Lin(Unfold(d, d.d))
      BY <2>6, SMT DEF Reading, Numbers
    <3>6. Lin(Unfold(d, d.d)) = Jan00Daisy(d.y) + d.d
      BY <2>1, <2>6, UnfoldIs, Zenon
    <3> QED BY <2>1, <2>6, <3>4, <3>5, <3>6, Zenon
  <2>8. k \notin YmdWorks
    BY <1>2, SMT DEF YmdWorks, YdWorks
  <2> QED BY <2>1, <2>2, <2>6, <2>7, <2>8, Zenon
<1> QED
  BY <1>1, <1>2

-----------------------------------------------------------------------------
(* Which days dates are. *)

\* __ymd_to_daisy(): days are counted from March on.
LEMMA YmdToDaisyIs ==
  ASSUME NEW d, d.y \in Int, d.m \in 1 .. 12, d.d \in Int
  PROVE  YmdToDaisy(d) = Jan00Daisy(d.y) + MdGetYday(d.y, d.m, 0) + d.d
<1> DEFINE y == d.y
           m == d.m
           J == One(d.m <= 2)
           Y == d.y + 400 * 82 - J
           M == IF J = 1 THEN d.m + 12 ELSE d.m
           C == Y \div 100
           A == (1461 * Y) \div 4 - C + C \div 4
           B == (979 * M - 2919) \div 32
<1>1. YmdToDaisy(d) = A + B + d.d - 1 - (584693 + 146097 * 82)
  BY DEF YmdToDaisy
<1>2. y \in Int /\ m \in 1 .. 12 /\ d.d \in Int
  OBVIOUS
<1>3. Jan00Daisy(y) \in Int /\ Jan00Daisy(y + 1) = Jan00Daisy(y) + GetYdays(y)
  BY YearStep
<1>4. CASE m <= 2
  <2>1. J = 1
    BY <1>4 DEF One
  <2>2. Y = y + 32799 /\ M = m + 12
    BY <2>1
  <2>3. A = Jan00Daisy(y) + 12564342
    <3> DEFINE Z == y + 32799
               w == y - 1601
    <3>1. A = (1461 * Z) \div 4 - Z \div 100 + (Z \div 100) \div 4
      BY <2>1
    <3>2. Z \in Int /\ w = Z - 34400
      BY <1>2
    <3>3. Jan00Daisy(y) = w * 365 + w \div 4 - w \div 100 + w \div 400
      BY DEF Jan00Daisy, MIN_YEAR
    <3> HIDE DEF A, Z, w
    <3>4. (1461 * Z) \div 4 = 365 * Z + Z \div 4 /\ (Z \div 100) \div 4 = Z \div 400
      BY <3>2, SMT
    <3>5. w \div 4 = Z \div 4 - 8600 /\ w \div 100 = Z \div 100 - 344 /\ w \div 400 = Z \div 400 - 86
      BY <3>2, SMT
    <3> QED BY <3>1, <3>2, <3>3, <3>4, <3>5, SMT
  <2>4. B = IF m = 1 THEN 306 ELSE 337
    BY <2>2, <1>4, SMT
  <2>5. MdGetYday(y, m, 0) = IF m = 1 THEN 0 ELSE 31
    BY <1>4, MonYdayIs, SMT DEF MdGetYday
  <2> HIDE DEF A, B
  <2> QED BY <1>1, <1>2, <1>3, <1>4, <2>3, <2>4, <2>5, SMT
<1>5. CASE m >= 3
  <2>1. J = 0
    BY <1>5 DEF One
  <2>2. Y = y + 32800 /\ M = m
    BY <2>1
  <2>3. A = Jan00Daisy(y + 1) + 12564342
    <3> DEFINE Z == y + 32800
               w == (y + 1) - 1601
    <3>1. A = (1461 * Z) \div 4 - Z \div 100 + (Z \div 100) \div 4
      BY <2>1
    <3>2. Z \in Int /\ w = Z - 34400
      BY <1>2
    <3>3. Jan00Daisy(y + 1) = w * 365 + w \div 4 - w \div 100 + w \div 400
      BY DEF Jan00Daisy, MIN_YEAR
    <3> HIDE DEF A, Z, w
    <3>4. (1461 * Z) \div 4 = 365 * Z + Z \div 4 /\ (Z \div 100) \div 4 = Z \div 400
      BY <3>2, SMT
    <3>5. w \div 4 = Z \div 4 - 8600 /\ w \div 100 = Z \div 100 - 344 /\ w \div 400 = Z \div 400 - 86
      BY <3>2, SMT
    <3> QED BY <3>1, <3>2, <3>3, <3>4, <3>5, SMT
  <2>4. B = MonYday[m] - 59
    BY <2>2, <1>5, MonYdayIs, SMT
  <2>5. MdGetYday(y, m, 0) = MonYday[m] + GetYdays(y) - 365 /\ GetYdays(y) \in Int
    BY <1>5, MonYdayIs, SMT DEF MdGetYday, GetYdays
  <2>6. MonYday[m] \in Int
    BY MonYdayIs, SMT
  <2> HIDE DEF A, B
  <2> QED BY <1>1, <1>2, <1>3, <2>3, <2>4, <2>5, <2>6, SMT
<1> QED BY <1>4, <1>5

\* Dates that need no cropping.
Ymds == {d \in YmdDates : d.d <= GetMdays(d.y, d.m)}
Yds == {d \in YdDates : d.d <= GetYdays(d.y)}

\* What dates mean, spelt out: days behind the new year.
LEMMA ReadingIs ==
  /\ \A d \in YmdDates : Reading(d) = (Jan00Daisy(d.y) + MdGetYday(d.y, d.m, 0)) + d.d /\ Reading(d) \in Int
  /\ \A d \in YdDates : Reading(d) = Jan00Daisy(d.y) + d.d /\ Reading(d) \in Int
<1>1. ASSUME NEW d \in YmdDates
      PROVE  Reading(d) = (Jan00Daisy(d.y) + MdGetYday(d.y, d.m, 0)) + d.d /\ Reading(d) \in Int
  <2>1. d.typ = "ymd" /\ d.y \in Int /\ d.m \in 1 .. 12 /\ d.d \in 1 .. 31
    BY SMT DEF YmdDates, Years12
  <2>2. d.d \in Int
    BY <2>1
  <2>3. Reading(d) = Lin(Unfold(d, d.d))
    BY <2>1, SMT DEF Reading, Numbers
  <2>4. Lin(Unfold(d, d.d)) = (Jan00Daisy(d.y) + MdGetYday(d.y, d.m, 0)) + d.d
    BY <2>2, UnfoldIs, Zenon
  <2>5. Jan00Daisy(d.y) \in Int
    BY <2>1, YearStep
  <2>6. MdGetYday(d.y, d.m, 0) \in Int
    <3>1. MdGetYday(d.y, d.m, 0) \in 0 .. 335
      BY <2>1, MonthStep
    <3> QED BY <3>1
  <2> QED BY <2>2, <2>3, <2>4, <2>5, <2>6
<1>2. ASSUME NEW d \in YdDates
      PROVE  Reading(d) = Jan00Daisy(d.y) + d.d /\ Reading(d) \in Int
  <2>1. d.typ = "yd" /\ d.y \in Int /\ d.d \in Int
    BY SMT DEF YdDates, Years16
  <2>2. Reading(d) = Lin(Unfold(d, d.d))
    BY <2>1, SMT DEF Reading, Numbers
  <2>3. Lin(Unfold(d, d.d)) = Jan00Daisy(d.y) + d.d
    BY <2>1, UnfoldIs, Zenon
  <2>4. Jan00Daisy(d.y) \in Int
    BY <2>1, YearStep
  <2> QED BY <2>1, <2>2, <2>3, <2>4
<1> QED
  BY <1>1, <1>2, Zenon

\* Days of an earlier month or year are earlier.
LEMMA MonthsInOrder ==
  ASSUME NEW y \in Int, NEW m \in 1 .. 12, NEW z \in Int, NEW n \in 1 .. 12,
         y < z \/ (y = z /\ m < n)
  PROVE  Jan00Daisy(y) + MdGetYday(y, m, 0) + GetMdays(y, m) <= Jan00Daisy(z) + MdGetYday(z, n, 0)
<1>1. /\ Jan00Daisy(y) \in Int /\ Jan00Daisy(z) \in Int /\ GetYdays(y) \in 365 .. 366
      /\ Jan00Daisy(y + 1) = Jan00Daisy(y) + GetYdays(y)
  BY YearStep
<1>2. MdGetYday(y, m, 0) \in 0 .. 335 /\ MdGetYday(z, n, 0) \in 0 .. 335 /\ GetMdays(y, m) \in 28 .. 31
  BY MonthStep
<1>3. CASE y < z
  <2>1. Jan00Daisy(z) - Jan00Daisy(y + 1) >= 365 * (z - (y + 1))
    BY <1>3, YearsApart
  <2>2. MdGetYday(y, m, 0) + GetMdays(y, m) <= GetYdays(y)
    BY MonYdayIs, SMT DEF MdGetYday, GetMdays, GetYdays
  <2> DEFINE a == MdGetYday(y, m, 0)
             b == MdGetYday(z, n, 0)
             g == GetMdays(y, m)
             j == Jan00Daisy(y)
             k == Jan00Daisy(z)
             l == GetYdays(y)
  <2>3. a \in 0 .. 335 /\ b \in 0 .. 335 /\ g \in 28 .. 31 /\ j \in Int /\ k \in Int /\ l \in Int
        /\ a + g <= l /\ k - (j + l) >= 0
    <3>1. 365 * (z - (y + 1)) >= 0
      BY <1>3
    <3> QED BY <1>1, <1>2, <2>1, <2>2, <3>1
  <2> HIDE DEF a, b, g, j, k, l
  <2>4. j + a + g <= k + b
    BY <2>3
  <2> QED BY <2>4 DEF a, b, g, j, k, l
<1>4. CASE y = z /\ m < n
  <2>1. MdGetYday(y, m, 0) + GetMdays(y, m) <= MdGetYday(y, n, 0)
    BY <1>4, MonthsFollow
  <2>2. Jan00Daisy(y) + (MdGetYday(y, m, 0) + GetMdays(y, m)) <= Jan00Daisy(y) + MdGetYday(y, n, 0)
    <3> DEFINE a == MdGetYday(y, m, 0) + GetMdays(y, m)
               b == MdGetYday(y, n, 0)
    <3>1. a \in Int /\ b \in Int /\ a <= b
      BY <1>2, <1>4, <2>1
    <3> HIDE DEF a, b
    <3>2. Jan00Daisy(y) + a <= Jan00Daisy(y) + b
      BY <1>1, <3>1
    <3> QED BY <3>2 DEF a, b
  <2> QED BY <1>1, <1>2, <1>4, <2>2
<1> QED BY <1>3, <1>4

\* The sign of a difference is the order.
LEMMA SgnIs ==
  \A p, q \in Int : /\ p < q => Sgn(p - q) = -1
                    /\ p > q => Sgn(p - q) = 1
                    /\ p = q => Sgn(p - q) = 0
BY SMT DEF Sgn, One

\* dt_dcmp(): dates are in the order of their days.
LEMMA DCmpIsOrder ==
  ASSUME NEW a, NEW b, (a \in Ymds /\ b \in Ymds) \/ (a \in Yds /\ b \in Yds)
  PROVE  DCmp(a, b) = Sgn(Reading(a) - Reading(b))
<1>1. CASE a \in Ymds /\ b \in Ymds
  <2>1. /\ a \in YmdDates /\ b \in YmdDates
        /\ a.typ = "ymd" /\ a.y \in Int /\ a.m \in 1 .. 12 /\ a.d \in Int /\ 1 <= a.d /\ a.d <= GetMdays(a.y, a.m)
        /\ b.typ = "ymd" /\ b.y \in Int /\ b.m \in 1 .. 12 /\ b.d \in Int /\ 1 <= b.d /\ b.d <= GetMdays(b.y, b.m)
    BY <1>1, SMT DEF Ymds, YmdDates, Years12
  <2> DEFINE u == Jan00Daisy(a.y) + MdGetYday(a.y, a.m, 0)
             v == Jan00Daisy(b.y) + MdGetYday(b.y, b.m, 0)
             g == GetMdays(a.y, a.m)
             h == GetMdays(b.y, b.m)
  <2>2. DCmp(a, b) = Lexical(<<a.y, a.m, a.d>>, <<b.y, b.m, b.d>>)
    BY <2>1, Zenon DEF DCmp
  <2>3. /\ a.y # b.y => DCmp(a, b) = Sgn(a.y - b.y)
        /\ a.y = b.y /\ a.m # b.m => DCmp(a, b) = Sgn(a.m - b.m)
        /\ a.y = b.y /\ a.m = b.m => DCmp(a, b) = Sgn(a.d - b.d)
    <3>1. a.y \in Int /\ a.m \in Int /\ a.d \in Int /\ b.y \in Int /\ b.m \in Int /\ b.d \in Int
      BY <2>1
    <3> DEFINE s == <<a.y, a.m, a.d>>
               t == <<b.y, b.m, b.d>>
    <3>2. /\ s \in [1 .. 3 -> Int] /\ s[1] = a.y /\ s[2] = a.m /\ s[3] = a.d
          /\ t \in [1 .. 3 -> Int] /\ t[1] = b.y /\ t[2] = b.m /\ t[3] = b.d
      BY <3>1
    <3>3. DCmp(a, b) = Lexical(s, t)
      BY <2>2
    <3> HIDE DEF s, t
    <3> QED BY <3>2, <3>3, LexicalOf3, Zenon
  <2>4. Reading(a) = u + a.d /\ Reading(b) = v + b.d
    BY <2>1, ReadingIs, Zenon
  <2>5. u \in Int /\ v \in Int /\ g \in Int /\ h \in Int
    <3>1. Jan00Daisy(a.y) \in Int /\ Jan00Daisy(b.y) \in Int
      BY <2>1, YearStep
    <3>2. /\ MdGetYday(a.y, a.m, 0) \in 0 .. 335 /\ MdGetYday(b.y, b.m, 0) \in 0 .. 335
          /\ g \in 28 .. 31 /\ h \in 28 .. 31
      BY <2>1, MonthStep, ZenonT(40)
    <3> QED BY <3>1, <3>2
  <2>6. (a.y < b.y \/ (a.y = b.y /\ a.m < b.m)) => u + g <= v
    BY <2>1, MonthsInOrder
  <2>7. (b.y < a.y \/ (b.y = a.y /\ b.m < a.m)) => v + h <= u
    BY <2>1, MonthsInOrder
  <2>8. a.y = b.y /\ a.m = b.m => u = v
    OBVIOUS
  <2>9. a.m \in Int /\ b.m \in Int /\ a.d <= g /\ b.d <= h
    BY <2>1
  <2> HIDE DEF u, v, g, h
  <2>10. \A p, q \in Int : (p < q => Sgn(p - q) = -1) /\ (p > q => Sgn(p - q) = 1)
    BY SMT DEF Sgn, One
  <2>11. u + a.d \in Int /\ v + b.d \in Int
    BY <2>1, <2>5
  <2>12. CASE a.y < b.y \/ (a.y = b.y /\ a.m < b.m)
    <3>1. u + a.d < v + b.d
      BY <2>1, <2>5, <2>6, <2>9, <2>12
    <3>2. Sgn((u + a.d) - (v + b.d)) = -1
      BY <2>10, <2>11, <3>1
    <3>3. (a.y < b.y => Sgn(a.y - b.y) = -1) /\ (a.m < b.m => Sgn(a.m - b.m) = -1)
      BY <2>1, <2>9, <2>10
    <3> QED BY <2>1, <2>3, <2>4, <2>9, <2>12, <3>2, <3>3
  <2>13. CASE b.y < a.y \/ (b.y = a.y /\ b.m < a.m)
    <3>1. v + b.d < u + a.d
      BY <2>1, <2>5, <2>7, <2>9, <2>13
    <3>2. Sgn((u + a.d) - (v + b.d)) = 1
      BY <2>10, <2>11, <3>1
    <3>3. (b.y < a.y => Sgn(a.y - b.y) = 1) /\ (b.m < a.m => Sgn(a.m - b.m) = 1)
      BY <2>1, <2>9, <2>10
    <3> QED BY <2>1, <2>3, <2>4, <2>9, <2>13, <3>2, <3>3
  <2>14. CASE a.y = b.y /\ a.m = b.m
    <3>1. (u + a.d) - (v + b.d) = a.d - b.d
      BY <2>1, <2>5, <2>8, <2>14
    <3> QED BY <2>3, <2>4, <2>14, <3>1, Zenon
  <2> QED BY <2>1, <2>9, <2>12, <2>13, <2>14
<1>2. CASE a \in Yds /\ b \in Yds
  <2>1. /\ a \in YdDates /\ b \in YdDates
        /\ a.typ = "yd" /\ a.y \in Int /\ a.d \in Int /\ 1 <= a.d /\ a.d <= GetYdays(a.y)
        /\ b.typ = "yd" /\ b.y \in Int /\ b.d \in Int /\ 1 <= b.d /\ b.d <= GetYdays(b.y)
    BY <1>2, SMT DEF Yds, YdDates, Years16
  <2>2. DCmp(a, b) = Lexical(<<a.y, a.d>>, <<b.y, b.d>>)
    BY <2>1, SMT DEF DCmp
  <2>3. /\ a.y # b.y => DCmp(a, b) = Sgn(a.y - b.y)
        /\ a.y = b.y => DCmp(a, b) = Sgn(a.d - b.d)
    <3> DEFINE s == <<a.y, a.d>>
               t == <<b.y, b.d>>
    <3>1. /\ s \in [1 .. 2 -> Int] /\ s[1] = a.y /\ s[2] = a.d
          /\ t \in [1 .. 2 -> Int] /\ t[1] = b.y /\ t[2] = b.d
      BY <2>1
    <3>2. DCmp(a, b) = Lexical(s, t)
      BY <2>2
    <3> HIDE DEF s, t
    <3> QED BY <3>1, <3>2, LexicalOf2, Zenon
  <2>4. Reading(a) = Jan00Daisy(a.y) + a.d /\ Reading(b) = Jan00Daisy(b.y) + b.d
    BY <2>1, ReadingIs, Zenon
  <2>5. ASSUME NEW y \in Int, NEW z \in Int, y < z
        PROVE  Jan00Daisy(y) + GetYdays(y) <= Jan00Daisy(z)
    <3>1. Jan00Daisy(y + 1) = Jan00Daisy(y) + GetYdays(y) /\ Jan00Daisy(y) \in Int /\ GetYdays(y) \in 365 .. 366
      BY YearStep
    <3>2. Jan00Daisy(z) - Jan00Daisy(y + 1) >= 365 * (z - (y + 1))
      BY <2>5, YearsApart
    <3>3. Jan00Daisy(z) \in Int
      BY YearStep
    <3>4. 365 * (z - (y + 1)) >= 0
      BY <2>5
    <3> QED BY <3>1, <3>2, <3>3, <3>4
  <2>6. /\ a.y < b.y => Jan00Daisy(a.y) + GetYdays(a.y) <= Jan00Daisy(b.y)
        /\ b.y < a.y => Jan00Daisy(b.y) + GetYdays(b.y) <= Jan00Daisy(a.y)
    BY <2>1, <2>5
  <2>7. Jan00Daisy(a.y) \in Int /\ Jan00Daisy(b.y) \in Int /\ GetYdays(a.y) \in 365 .. 366 /\ GetYdays(b.y) \in 365 .. 366
    BY <2>1, YearStep
  <2> QED BY <2>1, <2>3, <2>4, <2>6, <2>7, SMT DEF Sgn, One
<1> QED BY <1>1, <1>2

-----------------------------------------------------------------------------
(* Weekdays and business days. *)

\* The weekday of a day number goes on from one to the next.
LEMMA WdayOfSum ==
  ASSUME NEW n \in Int, NEW x \in Int
  PROVE  /\ DaisyGetWday(n) \in 1 .. 7
         /\ DaisyGetWday(n) % 7 = n % 7
         /\ x % 7 = n % 7 => OrElse(x % 7, SUNDAY) = DaisyGetWday(n)
         /\ DaisyGetWday(n + x) = OrElse((DaisyGetWday(n) + x) % 7, SUNDAY)
BY SMT DEF DaisyGetWday, OrElse, SUNDAY

\* The calendar of 1901 to 2100 comes again every 28 years.
LEMMA TableIsRight ==
  ASSUME NEW y \in Int, 1901 <= y, y <= 2100
  PROVE  Jan01Table28[(y % 28) + 1] = DaisyGetWday(Jan00Daisy(y) + 1)
<1> DEFINE p == y \div 28
           i == y % 28
<1>1. p \in Int /\ i \in 0 .. 27 /\ y = 28 * p + i
  BY SMT
<1>2. Jan00Daisy(y) = (y - 1601) * 365 + (y - 1601) \div 4 - 3
  BY SMT DEF Jan00Daisy, MIN_YEAR
<1> HIDE DEF p, i
<1>3. (y - 1601) \div 4 = 7 * p + (i - 1601) \div 4
  BY <1>1, SMT
<1>4. (Jan00Daisy(y) + 1) % 7 = (365 * (i - 1601) + (i - 1601) \div 4 - 2) % 7
  <2> DEFINE e == (i - 1601) \div 4
  <2>1. e \in Int
    BY <1>1, SMT
  <2>2. Jan00Daisy(y) + 1 = 7 * (1460 * p + p) + (365 * (i - 1601) + e - 2)
    <3> HIDE DEF e
    <3> QED BY <1>1, <1>2, <1>3, <2>1, SMT DEF e
  <2> DEFINE f == 365 * (i - 1601) + e - 2
             g == 1460 * p + p
  <2>3. f \in Int /\ g \in Int
    BY <1>1, <2>1
  <2> HIDE DEF f, g
  <2>4. (7 * g + f) % 7 = f % 7
    BY <2>3, SMT
  <2> QED BY <2>2, <2>4 DEF f, g
<1>5. Jan01Table28[i + 1] = OrElse((365 * (i - 1601) + (i - 1601) \div 4 - 2) % 7, SUNDAY)
  BY <1>1, SMT DEF Jan01Table28, OrElse, SUNDAY
<1> QED
  BY <1>4, <1>5 DEF DaisyGetWday, i

\* ... and any other year begins like one of these.
LEMMA Year28IsAlike ==
  ASSUME NEW y \in Int
  PROVE  /\ Year28Equiv(y) \in Int /\ 1901 <= Year28Equiv(y) /\ Year28Equiv(y) <= 2100
         /\ (Jan00Daisy(Year28Equiv(y)) + 1) % 7 = (Jan00Daisy(y) + 1) % 7
<1> DEFINE q == y \div 400
           r == y % 400
           z == Year28Equiv(y)
<1>1. q \in Int /\ r \in Int /\ 0 <= r /\ r < 400 /\ y = 400 * q + r
  BY SMT
<1>2. z = IF r > 300 THEN r + 1600 ELSE IF r > 200 THEN r + 1724
          ELSE IF r > 100 THEN r + 1820 ELSE r + 2000
  BY DEF Year28Equiv
<1> HIDE DEF q, r, z
<1>3. z \in Int /\ 1901 <= z /\ z <= 2100
  BY <1>1, <1>2
<1>4. Jan00Daisy(z) = (z - 1601) * 365 + (z - 1601) \div 4 - 3
  BY <1>3, SMT DEF Jan00Daisy, MIN_YEAR
<1> DEFINE s == r + 399
<1>5. s \in Int /\ 399 <= s /\ s <= 798 /\ r = s - 399
  BY <1>1
<1>6. Jan00Daisy(y) = 146097 * (q - 5) + 365 * s + s \div 4 - s \div 100 + s \div 400
  <2> DEFINE b == y - 1601
  <2>1. b = 400 * (q - 5) + s
    BY <1>1
  <2>2. Jan00Daisy(y) = b * 365 + b \div 4 - b \div 100 + b \div 400
    BY DEF Jan00Daisy, MIN_YEAR
  <2> HIDE DEF b, s
  <2>3. b \div 4 = 100 * (q - 5) + s \div 4 /\ b \div 100 = 4 * (q - 5) + s \div 100 /\ b \div 400 = (q - 5) + s \div 400
    BY <1>1, <1>5, <2>1, SMT
  <2> QED BY <1>1, <1>5, <2>1, <2>2, <2>3, SMT
<1> HIDE DEF s
<1>7. \E k \in Int : Jan00Daisy(y) - Jan00Daisy(z) = 7 * k
  <2> DEFINE c == s \div 4
  <2>0. c \in Int
    BY <1>5, SMT
  <2>1. CASE r > 300
    <3>1. (z - 1601) \div 4 = c - 100 /\ s \div 100 = 7 /\ s \div 400 = 1
      BY <1>2, <1>5, <2>1, SMT
    <3> HIDE DEF c
    <3>2. Jan00Daisy(y) - Jan00Daisy(z) = 7 * (20871 * (q - 5) + 20871)
      BY <1>1, <1>2, <1>4, <1>5, <1>6, <2>0, <2>1, <3>1, SMT DEF c
    <3> DEFINE k == 20871 * (q - 5) + 20871
    <3>3. k \in Int /\ Jan00Daisy(y) - Jan00Daisy(z) = 7 * k
      BY <1>1, <3>2
    <3> HIDE DEF k
    <3> QED BY <3>3
  <2>2. CASE r > 200 /\ r <= 300
    <3>1. (z - 1601) \div 4 = c - 69 /\ s \div 100 = 6 /\ s \div 400 = 1
      BY <1>2, <1>5, <2>2, SMT
    <3> HIDE DEF c
    <3>2. Jan00Daisy(y) - Jan00Daisy(z) = 7 * (20871 * (q - 5) + 14401)
      BY <1>1, <1>2, <1>4, <1>5, <1>6, <2>0, <2>2, <3>1, SMT DEF c
    <3> DEFINE k == 20871 * (q - 5) + 14401
    <3>3. k \in Int /\ Jan00Daisy(y) - Jan00Daisy(z) = 7 * k
      BY <1>1, <3>2
    <3> HIDE DEF k
    <3> QED BY <3>3
  <2>3. CASE r > 100 /\ r <= 200
    <3>1. (z - 1601) \div 4 = c - 45 /\ s \div 100 = 5 /\ s \div 400 = 1
      BY <1>2, <1>5, <2>3, SMT
    <3> HIDE DEF c
    <3>2. Jan00Daisy(y) - Jan00Daisy(z) = 7 * (20871 * (q - 5) + 9392)
      BY <1>1, <1>2, <1>4, <1>5, <1>6, <2>0, <2>3, <3>1, SMT DEF c
    <3> DEFINE k == 20871 * (q - 5) + 9392
    <3>3. k \in Int /\ Jan00Daisy(y) - Jan00Daisy(z) = 7 * k
      BY <1>1, <3>2
    <3> HIDE DEF k
    <3> QED BY <3>3
  <2>4. CASE r <= 100
    <3>1. (z - 1601) \div 4 = c /\ s \div 400 - s \div 100 = -3
      BY <1>1, <1>2, <1>5, <2>4, SMT
    <3>2. s \div 400 \in Int /\ s \div 100 \in Int
      BY <1>5, SMT
    <3> HIDE DEF c
    <3>3. Jan00Daisy(y) - Jan00Daisy(z) = 7 * (20871 * (q - 5))
      BY <1>1, <1>2, <1>4, <1>5, <1>6, <2>0, <2>4, <3>1, <3>2, SMT DEF c
    <3> DEFINE k == 20871 * (q - 5)
    <3>4. k \in Int /\ Jan00Daisy(y) - Jan00Daisy(z) = 7 * k
      BY <1>1, <3>3
    <3> HIDE DEF k
    <3> QED BY <3>4
  <2> QED BY <1>1, <2>1, <2>2, <2>3, <2>4
<1>8. (Jan00Daisy(z) + 1) % 7 = (Jan00Daisy(y) + 1) % 7
  <2>1. PICK k \in Int : Jan00Daisy(y) - Jan00Daisy(z) = 7 * k
    BY <1>7
  <2>2. Jan00Daisy(y) \in Int /\ Jan00Daisy(z) \in Int
    BY <1>3, YearStep
  <2> QED BY <2>1, <2>2, SMT
<1> QED
  BY <1>3, <1>8 DEF z

\* __get_jan01_wday().
LEMMA Jan01WdayIs ==
  ASSUME NEW y \in Int
  PROVE  Jan01Wday(y) = DaisyGetWday(Jan00Daisy(y) + 1)
<1>1. CASE y > 2100 \/ y < 1901
  <2> DEFINE z == Year28Equiv(y)
  <2>1. z \in Int /\ 1901 <= z /\ z <= 2100 /\ (Jan00Daisy(z) + 1) % 7 = (Jan00Daisy(y) + 1) % 7
    BY Year28IsAlike
  <2>2. Jan01Wday(y) = Jan01Table28[(z % 28) + 1]
    BY <1>1 DEF Jan01Wday
  <2> HIDE DEF z
  <2>3. Jan01Wday(y) = DaisyGetWday(Jan00Daisy(z) + 1)
    BY <2>1, <2>2, TableIsRight
  <2> QED BY <2>1, <2>3 DEF DaisyGetWday
<1>2. CASE ~ (y > 2100 \/ y < 1901)
  <2>1. Jan01Wday(y) = Jan01Table28[(y % 28) + 1] /\ 1901 <= y /\ y <= 2100
    BY <1>2 DEF Jan01Wday
  <2> QED BY <2>1, TableIsRight
<1> QED
  BY <1>1, <1>2

\* The weekdays of dates and of the firsts of months are those of their days.
LEMMA WdayIsOfDay ==
  /\ \A d \in YmdDates : YmdGetWday(d) = DaisyGetWday(Reading(d))
  /\ \A d \in YdDates : YdGetWday(d) = DaisyGetWday(Reading(d))
<1>1. ASSUME NEW y \in Int, NEW x \in Int
      PROVE  OrElse((x - 1 + Jan01Wday(y)) % 7, SUNDAY) = DaisyGetWday(Jan00Daisy(y) + x)
  <2> DEFINE n == Jan00Daisy(y) + 1
             z == x - 1
  <2>1. n \in Int /\ z \in Int /\ n + z = Jan00Daisy(y) + x
    BY YearStep
  <2>2. Jan01Wday(y) = DaisyGetWday(n)
    BY Jan01WdayIs
  <2> HIDE DEF n, z
  <2>3. DaisyGetWday(n) \in 1 .. 7 /\ DaisyGetWday(n + z) = OrElse((DaisyGetWday(n) + z) % 7, SUNDAY)
    BY <2>1, WdayOfSum
  <2>4. DaisyGetWday(n) + z = z + DaisyGetWday(n)
    BY <2>1, <2>3
  <2> QED BY <2>1, <2>2, <2>3, <2>4, Zenon DEF z
<1>2. ASSUME NEW d \in YmdDates
      PROVE  YmdGetWday(d) = DaisyGetWday(Reading(d))
  <2>1. d.y \in Int /\ d.m \in 1 .. 12 /\ d.d \in 1 .. 31
    BY SMT DEF YmdDates, Years12
  <2> DEFINE x == MdGetYday(d.y, d.m, d.d)
  <2>2. x = MdGetYday(d.y, d.m, 0) + d.d /\ x \in Int /\ x > 0
    <3>1. MdGetYday(d.y, d.m, 0) \in 0 .. 335
      BY <2>1, MonthStep
    <3>2. x = MdGetYday(d.y, d.m, 0) + d.d
      <4>1. d.y \in Int /\ d.m \in 1 .. 12 /\ d.d \in Int
        BY <2>1
      <4> QED BY <4>1, YdayIs, Zenon
    <3> DEFINE k == MdGetYday(d.y, d.m, 0)
    <3>3. k \in Int /\ 0 <= k /\ d.d \in Int /\ 1 <= d.d /\ x = k + d.d
      BY <2>1, <3>1, <3>2
    <3> HIDE DEF x, k
    <3>4. x \in Int /\ x > 0
      BY <3>3, SMT
    <3> QED BY <3>2, <3>4
  <2>3. Reading(d) = Jan00Daisy(d.y) + x
    <3>1. Reading(d) = (Jan00Daisy(d.y) + MdGetYday(d.y, d.m, 0)) + d.d
      BY ReadingIs
    <3>2. Jan00Daisy(d.y) \in Int
      BY <2>1, YearStep
    <3>3. MdGetYday(d.y, d.m, 0) \in 0 .. 335
      BY <2>1, MonthStep
    <3> DEFINE j == Jan00Daisy(d.y)
               k == MdGetYday(d.y, d.m, 0)
    <3>4. Reading(d) = (j + k) + d.d /\ x = k + d.d /\ j \in Int /\ k \in Int /\ d.d \in Int
      BY <2>1, <2>2, <3>1, <3>2, <3>3
    <3> HIDE DEF x, j, k
    <3>5. Reading(d) = j + x
      BY <3>4
    <3> QED BY <3>5 DEF j
  <2>4. YmdGetWday(d) = OrElse((x - 1 + Jan01Wday(d.y)) % 7, SUNDAY)
    BY <2>2 DEF YmdGetWday, DomWday
  <2> HIDE DEF x
  <2> QED BY <1>1, <2>1, <2>2, <2>3, <2>4, Zenon
<1>3. ASSUME NEW d \in YdDates
      PROVE  YdGetWday(d) = DaisyGetWday(Reading(d))
  <2>1. d.y \in Int /\ d.d \in Int /\ d.d # 0
    BY SMT DEF YdDates, Years16
  <2>2. YdGetWday(d) = OrElse((d.d - 1 + Jan01Wday(d.y)) % 7, SUNDAY)
    BY <2>1 DEF YdGetWday
  <2>3. Reading(d) = Jan00Daisy(d.y) + d.d
    BY ReadingIs
  <2> QED BY <1>1, <2>1, <2>2, <2>3, Zenon
<1> QED
  BY <1>2, <1>3

\* __get_d_equiv(): so many workdays after a day or before it, as many as fit
\* the additions there.
LEMMA DEquivIs ==
  ASSUME NEW n \in Int, NEW num \in Int, num # 0, num >= -275
  PROVE  n + DEquiv(DaisyGetWday(n), num)
           = BizDay(BizIndex(n) + num + One(DaisyGetWday(n) >= SATURDAY /\ num < 0))
<1> DEFINE q == n \div 7
           w == n % 7
           dow == DaisyGetWday(n)
           weekend == dow >= SATURDAY
           moved == IF ~weekend THEN 0 ELSE IF num >= 0 THEN 8 - dow ELSE 5 - dow
           from == IF ~weekend THEN dow ELSE IF num >= 0 THEN MONDAY ELSE FRIDAY
           rest == IF ~weekend \/ num = 0 THEN num ELSE IF num > 0 THEN num - 1 ELSE num + 1
           days == Quot(rest, 5) * 7 + Rem(rest, 5)
           u5 == UMod(from + 384 + rest, 5)
           u7 == UMod(from + 384 + days, 7)
<1>1. q \in Int /\ w \in 0 .. 6 /\ n = 7 * q + w
  BY SMT
<1>2. dow = IF w = 0 THEN 7 ELSE w
  BY SMT DEF DaisyGetWday, OrElse, SUNDAY
<1>3. DEquiv(dow, num) = moved + days + u5 - u7 + (IF days >= 0 /\ u5 < u7 THEN 7 ELSE 0)
  BY DEF DEquiv
<1> HIDE DEF dow, q, w
<1>4. /\ rest \in Int /\ rest >= -275 /\ from \in 1 .. 5 /\ moved \in Int
      /\ weekend <=> w \in {0, 6}
      /\ w \in 1 .. 5 => moved = 0 /\ from = w /\ rest = num
      /\ w = 0 /\ num > 0 => moved = 1 /\ from = 1 /\ rest = num - 1
      /\ w = 6 /\ num > 0 => moved = 2 /\ from = 1 /\ rest = num - 1
      /\ w = 0 /\ num < 0 => moved = -2 /\ from = 5 /\ rest = num + 1
      /\ w = 6 /\ num < 0 => moved = -1 /\ from = 5 /\ rest = num + 1
  BY <1>1, <1>2, SMT DEF SATURDAY, MONDAY, FRIDAY
<1> HIDE DEF moved, from, rest
\* from a workday, the number of days and of workdays from a Monday on
<1>5. days + u5 - u7 + (IF days >= 0 /\ u5 < u7 THEN 7 ELSE 0)
        = 7 * ((from - 1 + rest) \div 5) + ((from - 1 + rest) % 5) - (from - 1)
  <2>1. PICK p \in Int, e \in Int : /\ rest = 5 * p + e /\ days = 7 * p + e
                                    /\ \/ p >= 0 /\ e \in 0 .. 4
                                       \/ p <= 0 /\ e \in -4 .. 0 /\ p >= -55
    <3> DEFINE p == Quot(rest, 5)
               e == Rem(rest, 5)
    <3>1. p \in Int /\ e \in Int /\ rest = 5 * p + e /\ days = 7 * p + e
      BY <1>4, SMT DEF Quot, Rem
    <3>2. (p >= 0 /\ e \in 0 .. 4) \/ (p <= 0 /\ e \in -4 .. 0 /\ p >= -55)
      BY <1>4, SMT DEF Quot, Rem
    <3> HIDE DEF p, e
    <3> QED BY <3>1, <3>2
  <2> HIDE DEF days
  <2>2. days \in Int /\ from + 384 + rest >= 0 /\ from + 384 + days >= 0 /\ (days >= 0 <=> rest >= 0)
    BY <1>4, <2>1
  <2>3. u5 = (from - 1 + e) % 5 /\ u7 = (from - 1 + e) % 7
    <3>1. u5 = (from + 384 + rest) % 5 /\ u7 = (from + 384 + days) % 7
      BY <1>4, <2>2 DEF UMod
    <3>2. from + 384 + rest = 5 * (p + 77) + (from - 1 + e) /\ from + 384 + days = 7 * (p + 55) + (from - 1 + e)
      BY <1>4, <2>1
    <3> QED BY <1>4, <2>1, <3>1, <3>2, SMT
  <2> HIDE DEF u5, u7
  <2> DEFINE f == from - 1 + e
  <2>4. (from - 1 + rest) \div 5 = p + (from - 1 + e) \div 5 /\ (from - 1 + rest) % 5 = (from - 1 + e) % 5
    BY <1>4, <2>1, SMT
  <2>5. f \in Int /\ f >= -4 /\ f <= 8 /\ e = f - (from - 1) /\ from \in Int
    BY <1>4, <2>1
  <2>6. /\ f > 4 => days >= 0
        /\ f < 0 => days < 0
    BY <1>4, <2>1
  <2>7. u5 = f % 5 /\ u7 = f % 7
    BY <2>3
  <2> HIDE DEF f
  <2>8. f - u7 + (IF days >= 0 /\ u5 < u7 THEN 7 ELSE 0) = 7 * (f \div 5)
    BY <2>2, <2>5, <2>6, <2>7, SMT
  <2> DEFINE seven == IF days >= 0 /\ u5 < u7 THEN 7 ELSE 0
  <2>9. seven \in Int /\ u5 \in Int /\ u7 \in Int /\ f \div 5 \in Int
    BY <2>5, <2>7, SMT
  <2>10. f - u7 + seven = 7 * (f \div 5)
    BY <2>8
  <2>11. (from - 1 + rest) \div 5 = p + f \div 5 /\ (from - 1 + rest) % 5 = u5
    BY <2>4, <2>7 DEF f
  <2> HIDE DEF seven
  <2>12. days + u5 - u7 + seven = 7 * ((from - 1 + rest) \div 5) + ((from - 1 + rest) % 5) - (from - 1)
    <3> DEFINE g == f \div 5
               i == (from - 1 + rest) \div 5
               j == (from - 1 + rest) % 5
    <3>1. days = 7 * p + e /\ e = f - (from - 1) /\ g \in Int /\ f - u7 + seven = 7 * g /\ i = p + g /\ j = u5
      BY <2>1, <2>5, <2>9, <2>10, <2>11
    <3> HIDE DEF g, i, j
    <3>2. days + u5 - u7 + seven = 7 * i + j - (from - 1)
      BY <2>5, <2>9, <3>1
    <3> QED BY <3>2 DEF i, j
  <2> QED BY <2>12 DEF seven
<1> DEFINE b == BizIndex(n) + num + One(weekend /\ num < 0)
<1>6. BizDay(b) = 7 * ((b - 1) \div 5) + ((b - 1) % 5) + 1
  BY DEF BizDay
<1>7. BizIndex(n) = 5 * q + (IF w = 6 THEN 5 ELSE w)
  BY <1>1, SMT DEF BizIndex, MinOf, q, w
<1>8. /\ b \in Int
      /\ w \in 1 .. 5 => b - 1 = 5 * q + (from - 1 + rest)
      /\ w = 0 /\ num > 0 => b - 1 = 5 * q + (from - 1 + rest)
      /\ w = 6 /\ num > 0 => b - 1 = 5 * (q + 1) + (from - 1 + rest)
      /\ w = 0 /\ num < 0 => b - 1 = 5 * (q - 1) + (from - 1 + rest)
      /\ w = 6 /\ num < 0 => b - 1 = 5 * q + (from - 1 + rest)
  BY <1>1, <1>4, <1>7 DEF One
<1> HIDE DEF b, days, u5, u7
<1>9. ASSUME NEW k \in Int, NEW x \in Int
      PROVE  (5 * k + x) \div 5 = k + x \div 5 /\ (5 * k + x) % 5 = x % 5
  BY SMT
<1> DEFINE x == from - 1 + rest
<1>10. x \in Int /\ x \div 5 \in Int /\ x % 5 \in Int
  BY <1>4, SMT
<1>11. n + DEquiv(dow, num) = n + moved + (7 * (x \div 5) + (x % 5) - (from - 1))
  <2> DEFINE s == days + u5 - u7 + (IF days >= 0 /\ u5 < u7 THEN 7 ELSE 0)
  <2>1. days \in Int /\ u5 \in Int /\ u7 \in Int
    BY <1>4, SMT DEF days, u5, u7, Quot, Rem, UMod
  <2>2. DEquiv(dow, num) = moved + s
    BY <1>3, <1>4, <2>1
  <2>3. s = 7 * (x \div 5) + (x % 5) - (from - 1)
    BY <1>5
  <2> HIDE DEF s, x
  <2> QED BY <1>1, <1>4, <1>10, <2>2, <2>3
<1> HIDE DEF x
<1> DEFINE y == x \div 5
           z == x % 5
<1>12. BizDay(b) = n + moved + (7 * y + z - (from - 1))
  <2>1. CASE w \in 1 .. 5 \/ (w = 0 /\ num > 0) \/ (w = 6 /\ num < 0)
    <3>1. b - 1 = 5 * q + x
      BY <1>8, <2>1 DEF x
    <3>2. (b - 1) \div 5 = q + x \div 5 /\ (b - 1) % 5 = x % 5
      BY <1>1, <1>9, <1>10, <3>1
    <3>3. /\ q \in Int /\ w \in Int /\ n = 7 * q + w /\ moved \in Int /\ from \in Int
          /\ y \in Int /\ z \in Int
      BY <1>1, <1>4, <1>10
    <3>4. moved - from = -w
      BY <1>1, <1>4, <2>1
    <3>5. BizDay(b) = 7 * (q + y) + z + 1
      BY <1>6, <3>2
    <3> HIDE DEF y, z
    <3> QED BY <3>3, <3>4, <3>5
  <2>2. CASE w = 6 /\ num > 0
    <3>1. b - 1 = 5 * (q + 1) + x
      BY <1>8, <2>2 DEF x
    <3>2. (b - 1) \div 5 = (q + 1) + x \div 5 /\ (b - 1) % 5 = x % 5
      BY <1>1, <1>9, <1>10, <3>1
    <3>3. /\ q \in Int /\ w \in Int /\ n = 7 * q + w /\ moved \in Int /\ from \in Int
          /\ y \in Int /\ z \in Int
      BY <1>1, <1>4, <1>10
    <3>4. w = 6 /\ moved = 2 /\ from = 1
      BY <1>1, <1>4, <2>2
    <3>5. BizDay(b) = 7 * ((q + 1) + y) + z + 1
      BY <1>6, <3>2
    <3> HIDE DEF y, z
    <3> QED BY <3>3, <3>4, <3>5
  <2>3. CASE w = 0 /\ num < 0
    <3>1. b - 1 = 5 * (q - 1) + x
      BY <1>8, <2>3 DEF x
    <3>2. (b - 1) \div 5 = (q - 1) + x \div 5 /\ (b - 1) % 5 = x % 5
      BY <1>1, <1>9, <1>10, <3>1
    <3>3. /\ q \in Int /\ w \in Int /\ n = 7 * q + w /\ moved \in Int /\ from \in Int
          /\ y \in Int /\ z \in Int
      BY <1>1, <1>4, <1>10
    <3>4. w = 0 /\ moved = -2 /\ from = 5
      BY <1>1, <1>4, <2>3
    <3>5. BizDay(b) = 7 * ((q - 1) + y) + z + 1
      BY <1>6, <3>2
    <3> HIDE DEF y, z
    <3> QED BY <3>3, <3>4, <3>5
  <2> QED BY <1>1, <2>1, <2>2, <2>3
<1> QED
  BY <1>11, <1>12, Zenon DEF b, dow

\* __get_nbdays(): the workdays behind one day up to a later one.
LEMMA NbdaysIs ==
  ASSUME NEW from \in Int, NEW to \in Int, from <= to
  PROVE  GetNbdays(to - from, DaisyGetWday(to)) = BizIndex(to) - BizIndex(from)
<1> DEFINE q == to \div 7
           w == to % 7
           dur == to - from
           p == dur \div 7
           r == dur % 7
           wd == DaisyGetWday(to)
           x == (wd % 7) + 1
<1>1. /\ q \in Int /\ w \in 0 .. 6 /\ to = 7 * q + w
      /\ p \in Int /\ r \in 0 .. 6 /\ dur = 7 * p + r /\ dur >= 0
  BY SMT
<1>2. wd = (IF w = 0 THEN 7 ELSE w) /\ x = w + 1
  BY SMT DEF DaisyGetWday, OrElse, SUNDAY
<1>3. Quot(dur, 7) = p /\ Rem(dur, 7) = r
  BY <1>1, SMT DEF Quot, Rem
<1>4. GetNwedays(dur, wd)
        = 2 * p + One(wd = 6) + (One(r > x) + One(r + 1 > x) - One(r + 7 < x) - One(r + 6 < x))
  BY <1>3 DEF GetNwedays, SATURDAY
<1>5. BizIndex(to) = 5 * q + (IF w = 6 THEN 5 ELSE w)
  BY <1>1, SMT DEF BizIndex, MinOf
<1> DEFINE v == IF w >= r THEN w - r ELSE w - r + 7
           o == IF w >= r THEN q - p ELSE q - p - 1
<1>6. /\ from = 7 * o + v /\ v \in 0 .. 6 /\ o \in Int
  BY <1>1
<1>7. BizIndex(from) = 5 * o + (IF v = 6 THEN 5 ELSE v)
  <2> HIDE DEF o, v
  <2>1. from \div 7 = o /\ from % 7 = v
    BY <1>6, SMT
  <2> QED BY <1>6, <2>1, SMT DEF BizIndex, MinOf
<1>8. GetNbdays(dur, wd) = IF dur = 0 THEN 0 ELSE dur - GetNwedays(dur, wd)
  BY DEF GetNbdays
<1> HIDE DEF q, w, dur, p, r, wd, x
<1>9. GetNwedays(dur, wd)
        = 2 * p + (IF w = 6 /\ r > 0 THEN 1 ELSE 0) + (IF r > w + 1 THEN 1 ELSE 0) + (IF r > w THEN 1 ELSE 0)
  BY <1>1, <1>2, <1>4, SMT DEF One
<1>10. dur = 0 => p = 0 /\ r = 0
  BY <1>1
<1>11. GetNbdays(dur, wd) = 5 * p + r - (IF w = 6 /\ r > 0 THEN 1 ELSE 0) - (IF r > w + 1 THEN 1 ELSE 0) - (IF r > w THEN 1 ELSE 0)
  <2>1. CASE dur = 0
    BY <1>1, <1>8, <1>10, <2>1, SMT
  <2>2. CASE dur # 0 /\ r > 0
    BY <1>1, <1>8, <1>9, <2>2, SMT
  <2>3. CASE dur # 0 /\ r = 0
    BY <1>1, <1>8, <1>9, <2>3, SMT
  <2> QED BY <1>1, <2>1, <2>2, <2>3
<1> QED
  BY <1>1, <1>5, <1>7, <1>11, SMT DEF dur, wd

\* What need not be cropped stays as it is.
LEMMA FixupIsCrisp ==
  /\ \A d \in YmdDates : DFixup(d) = YmdFixup(d) /\ DFixup(d) \in Ymds
  /\ \A d \in YdDates : DFixup(d) = YdFixup(d) /\ DFixup(d) \in Yds
  /\ \A d \in Ymds \union Yds : DFixup(d) = d
<1>1. ASSUME NEW d \in YmdDates
      PROVE  DFixup(d) = YmdFixup(d) /\ DFixup(d) \in Ymds
  <2>1. DFixup(d) = YmdFixup(d)
    BY SMT DEF DFixup, YmdDates
  <2> QED BY <2>1, FixupIsDate DEF Ymds
<1>2. ASSUME NEW d \in YdDates
      PROVE  DFixup(d) = YdFixup(d) /\ DFixup(d) \in Yds
  <2>1. DFixup(d) = YdFixup(d)
    BY SMT DEF DFixup, YdDates
  <2> QED BY <2>1, FixupIsDate, Zenon DEF Yds
<1>3. ASSUME NEW d \in Ymds PROVE DFixup(d) = d
  <2>1. d \in YmdDates /\ d.typ = "ymd" /\ d.y \in Int /\ d.m \in 1 .. 12 /\ d.d \in 1 .. 31 /\ d.d <= GetMdays(d.y, d.m)
    BY SMT DEF Ymds, YmdDates, Years12
  <2>2. MinOf(d.d, GetMdays(d.y, d.m)) = d.d
    BY <2>1 DEF MinOf
  <2>3. [d EXCEPT !.d = d.d] = d
    BY <2>1, SMT DEF YmdDates
  <2>4. YmdFixup(d) = d
    BY <2>2, <2>3, Zenon DEF YmdFixup
  <2> QED BY <1>1, <2>1, <2>4, Zenon
<1>4. ASSUME NEW d \in Yds PROVE DFixup(d) = d
  <2>1. d \in YdDates /\ d.typ = "yd" /\ d.d \in Int /\ d.d <= GetYdays(d.y)
    BY SMT DEF Yds, YdDates
  <2>2. MinOf(d.d, GetYdays(d.y)) = d.d
    BY <2>1 DEF MinOf
  <2>3. [d EXCEPT !.d = d.d] = d
    BY <2>1, SMT DEF YdDates
  <2>4. YdFixup(d) = d
    BY <2>2, <2>3, SMT DEF YdFixup
  <2> QED BY <1>2, <2>1, <2>4, Zenon
<1> QED
  BY <1>1, <1>2, <1>3, <1>4

\* Years before 1601 have days before 1601 only.
LEMMA LateYears ==
  /\ \A d \in Ymds : /\ Reading(d) > 0 => d.y >= 1601
                     /\ Reading(d) \in CivilDays => d.y \in CivilYears
  /\ \A d \in Yds : /\ Reading(d) > 0 => d.y >= 1601
                    /\ Reading(d) \in CivilDays => d.y \in CivilYears
<1>1. ASSUME NEW d \in Ymds
      PROVE  d.y \in Int /\ Jan00Daisy(d.y) < Reading(d) /\ Reading(d) <= Jan00Daisy(d.y + 1)
  <2>1. d \in YmdDates /\ d.y \in Int /\ d.m \in 1 .. 12 /\ d.d \in Int /\ 1 <= d.d /\ d.d <= GetMdays(d.y, d.m)
    BY SMT DEF Ymds, YmdDates, Years12
  <2> DEFINE a == MdGetYday(d.y, d.m, 0)
             g == GetMdays(d.y, d.m)
             j == Jan00Daisy(d.y)
             l == GetYdays(d.y)
  <2>2. a \in 0 .. 335 /\ g \in 28 .. 31
    BY <2>1, MonthStep
  <2>3. j \in Int /\ l \in 365 .. 366 /\ Jan00Daisy(d.y + 1) = j + l
    BY <2>1, YearStep
  <2>4. a + g <= l
    BY <2>1, MonYdayIs, SMT DEF MdGetYday, GetMdays, GetYdays
  <2>5. Reading(d) = (j + a) + d.d
    BY <2>1, ReadingIs
  <2> HIDE DEF a, g, j, l
  <2>6. j < Reading(d) /\ Reading(d) <= j + l
    <3>1. d.d <= g
      BY <2>1 DEF g
    <3> QED BY <2>1, <2>2, <2>3, <2>4, <2>5, <3>1
  <2> QED BY <2>1, <2>3, <2>6 DEF j
<1>2. ASSUME NEW d \in Yds
      PROVE  d.y \in Int /\ Jan00Daisy(d.y) < Reading(d) /\ Reading(d) <= Jan00Daisy(d.y + 1)
  <2>1. d \in YdDates /\ d.y \in Int /\ d.d \in Int /\ 1 <= d.d /\ d.d <= GetYdays(d.y)
    BY SMT DEF Yds, YdDates, Years16
  <2>2. Jan00Daisy(d.y) \in Int /\ GetYdays(d.y) \in 365 .. 366 /\ Jan00Daisy(d.y + 1) = Jan00Daisy(d.y) + GetYdays(d.y)
    BY <2>1, YearStep
  <2>3. Reading(d) = Jan00Daisy(d.y) + d.d
    BY <2>1, ReadingIs
  <2> QED BY <2>1, <2>2, <2>3
<1>3. ASSUME NEW y \in Int, NEW n, Jan00Daisy(y) < n, n <= Jan00Daisy(y + 1)
      PROVE  /\ n \in Int /\ n > 0 => y >= 1601
             /\ n \in CivilDays => y \in CivilYears
  <2>1. y < 1601 => Jan00Daisy(y + 1) <= 0
    BY YearsBeyond
  <2>2. Jan00Daisy(y + 1) \in Int
    BY YearStep
  <2>3. ASSUME n \in Int, n > 0 PROVE y >= 1601
    BY <1>3, <2>1, <2>2, <2>3
  <2>4. n \in CivilDays => y \in CivilYears
    BY <1>3, YearFits
  <2> QED BY <2>3, <2>4
<1>4. \A d \in Ymds \union Yds : Reading(d) \in Int
  BY ReadingIs, Zenon DEF Ymds, Yds
<1> QED
  BY <1>1, <1>2, <1>3, <1>4

\* dt_conv_to_daisy(): the day of a date is found.
LEMMA ConvToDaisyIs ==
  /\ \A d \in YmdDates : ConvToDaisy(d) = Reading(d)
  /\ \A d \in YdDates : d.y >= 1601 => ConvToDaisy(d) = Reading(d)
<1>1. ASSUME NEW d \in YmdDates PROVE ConvToDaisy(d) = Reading(d)
  <2>1. d.typ = "ymd" /\ d.y \in Int /\ d.m \in 1 .. 12 /\ d.d \in Int
    BY SMT DEF YmdDates, Years12
  <2>2. ConvToDaisy(d) = YmdToDaisy(d)
    BY <2>1, SMT DEF ConvToDaisy, Numbers
  <2>3. YmdToDaisy(d) = (Jan00Daisy(d.y) + MdGetYday(d.y, d.m, 0)) + d.d
    BY <2>1, YmdToDaisyIs, Zenon
  <2> QED BY <2>2, <2>3, ReadingIs
<1>2. ASSUME NEW d \in YdDates, d.y >= 1601 PROVE ConvToDaisy(d) = Reading(d)
  <2>1. d.typ = "yd" /\ d.y \in Int
    BY SMT DEF YdDates, Years16
  <2>2. ConvToDaisy(d) = Jan00Daisy(d.y) + d.d
    BY <1>2, <2>1, SMT DEF ConvToDaisy, Numbers, YdToDaisy, MIN_YEAR
  <2> QED BY <2>2, ReadingIs
<1> QED
  BY <1>1, <1>2

\* Business days, before anything is carried over.
LEMMA BizdaysOnIsMeant ==
  ASSUME NEW d \in YmdDates \union YdDates, NEW num \in Int
  PROVE  Lin(BizdaysOn(d, num)) = Meant(d) + DEquiv(DaisyGetWday(Meant(d)), num)
<1>1. CASE d \in YmdDates
  <2> DEFINE f == YmdFixup(d)
             g == IF num < 0 /\ f.d = 0 THEN [f EXCEPT !.d = 1] ELSE f
             n == DEquiv(YmdGetWday(f), num)
  <2>1. f \in YmdDates /\ d.typ = "ymd"
    BY <1>1, FixupIsDate, SMT DEF YmdDates
  <2>2. Meant(d) = Reading(f)
    BY <2>1 DEF Meant
  <2> HIDE DEF f
  <2>3. f.y \in Int /\ f.m \in 1 .. 12 /\ f.d \in 1 .. 31
    BY <2>1, SMT DEF YmdDates, Years12
  <2>4. g = f
    BY <2>3
  <2>5. BizdaysOn(d, num) = Unfold(f, f.d + n)
    BY <2>1, <2>4, Zenon DEF BizdaysOn, f
  <2>6. YmdGetWday(f) = DaisyGetWday(Reading(f))
    BY <2>1, WdayIsOfDay
  <2>7. Reading(f) = (Jan00Daisy(f.y) + MdGetYday(f.y, f.m, 0)) + f.d /\ Reading(f) \in Int
    BY <2>1, ReadingIs
  <2>8. n \in Int
    <3>1. DaisyGetWday(Reading(f)) \in Int
      <4>1. DaisyGetWday(Reading(f)) \in 1 .. 7
        BY <2>7, WdayOfSum
      <4> QED BY <4>1
    <3> QED BY <2>6, <3>1, DEquivIsInt, Zenon
  <2> HIDE DEF n
  <2>9. Lin(Unfold(f, f.d + n)) = (Jan00Daisy(f.y) + MdGetYday(f.y, f.m, 0)) + (f.d + n)
    <3>1. f.d + n \in Int
      BY <2>3, <2>8
    <3> QED BY <2>1, <3>1, UnfoldIs
  <2>10. Jan00Daisy(f.y) + MdGetYday(f.y, f.m, 0) \in Int
    <3>1. Jan00Daisy(f.y) \in Int
      BY <2>3, YearStep
    <3>2. MdGetYday(f.y, f.m, 0) \in 0 .. 335
      BY <2>3, MonthStep
    <3> QED BY <3>1, <3>2
  <2>11. Lin(Unfold(f, f.d + n)) = Reading(f) + n
    <3> DEFINE u == Jan00Daisy(f.y) + MdGetYday(f.y, f.m, 0)
    <3>1. u \in Int /\ f.d \in Int /\ Lin(Unfold(f, f.d + n)) = u + (f.d + n) /\ Reading(f) = u + f.d
      BY <2>3, <2>7, <2>9, <2>10
    <3> HIDE DEF u
    <3> QED BY <2>8, <3>1
  <2> QED BY <2>2, <2>5, <2>6, <2>11 DEF n
<1>2. CASE d \in YdDates
  <2> DEFINE g == IF num < 0 /\ d.d = 0 THEN [d EXCEPT !.d = 1] ELSE d
             n == DEquiv(YdGetWday(d), num)
  <2>1. d.typ = "yd" /\ d.y \in Int /\ d.d \in 1 .. 366
    BY <1>2, SMT DEF YdDates, Years16
  <2>2. Meant(d) = Reading(d)
    BY <2>1, SMT DEF Meant
  <2>3. g = d
    BY <2>1
  <2>4. BizdaysOn(d, num) = Unfold(d, d.d + n)
    <3>1. BizdaysOn(d, num) = Unfold(g, g.d + DEquiv(YdGetWday(g), num))
      BY <2>1, SMT DEF BizdaysOn
    <3> HIDE DEF g
    <3> QED BY <2>3, <3>1
  <2>5. YdGetWday(d) = DaisyGetWday(Reading(d))
    BY <1>2, WdayIsOfDay
  <2>6. Reading(d) = Jan00Daisy(d.y) + d.d /\ Reading(d) \in Int
    BY <1>2, ReadingIs
  <2>7. n \in Int
    <3>1. DaisyGetWday(Reading(d)) \in Int
      <4>1. DaisyGetWday(Reading(d)) \in 1 .. 7
        BY <2>6, WdayOfSum
      <4> QED BY <4>1
    <3> QED BY <2>5, <3>1, DEquivIsInt, Zenon
  <2> HIDE DEF n
  <2>8. Lin(Unfold(d, d.d + n)) = Jan00Daisy(d.y) + (d.d + n)
    <3>1. d.d + n \in Int
      BY <2>1, <2>7
    <3> QED BY <1>2, <3>1, UnfoldIs
  <2>9. Lin(Unfold(d, d.d + n)) = Reading(d) + n
    <3>1. Jan00Daisy(d.y) \in Int
      BY <2>1, YearStep
    <3> QED BY <2>1, <2>6, <2>7, <2>8, <3>1
  <2> QED BY <2>2, <2>4, <2>5, <2>9 DEF n
<1> QED
  BY <1>1, <1>2

\* The loops let out dates that are in their month or year.
LEMMA FoldIsCrisp ==
  ASSUME NEW k \in YmdWorks \union YdWorks, k.x \in 1 .. Span(k), Lin(k) \in CivilDays
  PROVE  Fold(k) \in Ymds \union Yds
<1> DEFINE d == Fold(k)
<1>1. /\ d \in YmdDates \union YdDates
      /\ d.typ = k.typ /\ d.d = k.x
      /\ d.y = k.y
      /\ k \in YmdWorks => d.m = k.m
  <2>1. Fold(k) \in YmdDates \union YdDates
    BY FoldIsDate
  <2>2. Fold(k).typ = k.typ
    BY FoldIsDate
  <2>3. Fold(k).d = k.x
    BY FoldIsDate
  <2>4. Fold(k).y = k.y
    BY FoldIsDate
  <2>5. k \in YmdWorks => Fold(k).m = k.m
    BY FoldIsDate
  <2> QED BY <2>1, <2>2, <2>3, <2>4, <2>5, Zenon
<1> HIDE DEF d
<1>2. CASE k \in YmdWorks
  <2>1. k.typ = "ymd" /\ Span(k) = GetMdays(k.y, k.m) /\ k.y \in Int /\ k.m \in 1 .. 12
    BY <1>2, LinIs
  <2>2. d \in YmdDates
    BY <1>1, <2>1, SMT DEF YdDates
  <2>3. GetMdays(k.y, k.m) \in Int
    <3>1. GetMdays(k.y, k.m) \in 28 .. 31
      BY <2>1, MonthStep
    <3> QED BY <3>1
  <2>4. k.x <= GetMdays(k.y, k.m)
    BY <2>1, <2>3
  <2>5. d.d <= GetMdays(d.y, d.m)
    BY <1>1, <1>2, <2>4, Zenon
  <2> QED BY <2>2, <2>5, Zenon DEF Ymds, d
<1>3. CASE k \in YdWorks
  <2>1. k.typ = "yd" /\ Span(k) = GetYdays(k.y) /\ k.y \in Int
    BY <1>3, LinIs
  <2>2. d \in YdDates
    BY <1>1, <2>1, SMT DEF YmdDates
  <2>3. GetYdays(k.y) \in Int
    <3>1. GetYdays(k.y) \in 365 .. 366
      BY <2>1, YearStep
    <3> QED BY <3>1
  <2>4. k.x <= GetYdays(k.y)
    BY <2>1, <2>3
  <2>5. d.d <= GetYdays(d.y)
    BY <1>1, <2>4, Zenon
  <2> QED BY <2>2, <2>5, Zenon DEF Yds, d
<1> QED BY <1>2, <1>3

\* __yday_get_md(): month and day, found with units of 32 days, are those of
\* the day of the year.
LEMMA YdayGetMdIs ==
  ASSUME NEW y \in Int, NEW doy \in 1 .. GetYdays(y)
  PROVE  LET md == YdayGetMd(y, doy)
         IN /\ md.m \in 1 .. 12 /\ md.d \in 1 .. GetMdays(y, md.m)
            /\ MdGetYday(y, md.m, 0) + md.d = doy
<1> DEFINE m == (doy + 19) \div 32
           e == (doy + 19) % 32
           l == IF Leapp(y) THEN 1 ELSE 0
           leapt == Leapp(y) /\ Rem32[m + 2] < 16
           beef == Rem32[m + 1] + (IF leapt /\ Rem32[m + 1] < 16 THEN 1 ELSE 0)
           cake == Rem32[m + 2] + (IF leapt THEN 1 ELSE 0)
           mm == IF e <= cake THEN m ELSE m + 1
           dd == IF e <= cake THEN doy - ((m - 1) * 32 - 19 + beef) ELSE doy - (m * 32 - 19 + cake)
<1>1. /\ doy \in 1 .. 366
      /\ doy = 366 => Leapp(y)
  BY YearStep DEF GetYdays
<1>2. /\ m \in 0 .. 12
      /\ e \in 0 .. 31
      /\ doy = 32 * m + e - 19
      /\ m = 0 => e >= 20
      /\ m = 12 => e < 2
      /\ m = 12 /\ e = 1 => Leapp(y)
  BY <1>1, SMT
<1>3. YdayGetMd(y, doy) = [m |-> mm, d |-> dd]
  BY DEF YdayGetMd
<1>4. \A n \in 1 .. 12 : /\ MdGetYday(y, n, 0) = MonYday[n] + (IF n >= 3 THEN l ELSE 0)
                         /\ GetMdays(y, n) = MonYday[n + 1] - MonYday[n] + (IF n = 2 THEN l ELSE 0)
  BY MonYdayIs, SMT DEF MdGetYday, GetMdays
<1>5. leapt <=> l = 1 /\ Rem32[m + 2] < 16
  OBVIOUS
<1>6. l \in {0, 1} /\ (l = 1 <=> Leapp(y))
  OBVIOUS
<1> HIDE DEF m, e, l, leapt
<1>7. mm \in 1 .. 12 /\ dd \in Int
  BY <1>1, <1>2, <1>5, <1>6, Rem32Is, SMT
<1>8. dd \in 1 .. (MonYday[mm + 1] - MonYday[mm] + (IF mm = 2 THEN l ELSE 0))
      /\ MonYday[mm] + (IF mm >= 3 THEN l ELSE 0) + dd = doy
  <2>1. CASE e <= cake
    BY <1>1, <1>2, <1>5, <1>6, <2>1, Rem32Is, MonYdayIs, SMTT(60)
  <2>2. CASE ~ (e <= cake)
    BY <1>1, <1>2, <1>5, <1>6, <2>2, Rem32Is, MonYdayIs, SMTT(60)
  <2> QED BY <2>1, <2>2
<1> HIDE DEF mm, dd
<1>9. dd \in 1 .. GetMdays(y, mm) /\ MdGetYday(y, mm, 0) + dd = doy
  BY <1>4, <1>7, <1>8
<1> QED BY <1>3, <1>7, <1>9

\* A month ends by the end of its year.
LEMMA MonthInYear ==
  ASSUME NEW y \in Int, NEW m \in 1 .. 12
  PROVE  MdGetYday(y, m, 0) + GetMdays(y, m) <= GetYdays(y)
BY MonYdayIs, SMT DEF MdGetYday, GetMdays, GetYdays

\* dt_dconv() between these two: the day stays what it is, wherever there is a
\* year for it.
LEMMA ConvertKeepsDay ==
  ASSUME NEW d \in YmdDates \union YdDates, NEW typ \in {"ymd", "yd"},
         Reading(DFixup(d)) \in CivilDays
  PROVE  /\ DConv(typ, d) \in Ymds \union Yds
         /\ DConv(typ, d).typ = typ
         /\ Reading(DConv(typ, d)) = Reading(DFixup(d))
<1> DEFINE f == DFixup(d)
<1>1. f \in Ymds \union Yds
  BY FixupIsCrisp
<1>2. DConv(typ, d) = ConvTo(typ, f)
  BY DEF DConv
<1>3. f.y \in CivilYears
  BY <1>1, LateYears
<1> HIDE DEF f
<1>4. f.y \in Int /\ 1601 <= f.y /\ f.y <= 4095
  BY <1>3 DEF CivilYears
<1>5. CASE f \in Ymds
  <2>1. f \in YmdDates /\ f.typ = "ymd" /\ f.m \in 1 .. 12 /\ f.d \in 1 .. 31 /\ f.d <= GetMdays(f.y, f.m)
    BY <1>5, SMT DEF Ymds, YmdDates
  <2>2. CASE typ = "ymd"
    <3>1. ConvTo(typ, f) = f
      BY <2>1, <2>2, SMT DEF ConvTo, ConvToYmd, Numbers
    <3> QED BY <1>1, <1>2, <2>1, <2>2, <3>1 DEF f
  <2>3. CASE typ = "yd"
    <3> DEFINE u == MdGetYday(f.y, f.m, 0)
               g == GetMdays(f.y, f.m)
               l == GetYdays(f.y)
               x == u + f.d
    <3>1. ConvTo(typ, f) = Yd(f.y, YmdGetYday(f))
      BY <2>1, <2>3, SMT DEF ConvTo, ConvToYd, Numbers, YmdToYd
    <3>2. YmdGetYday(f) = x
      <4>1. YmdGetYday(f) = MdGetYday(f.y, f.m, f.d)
        BY <1>4, <2>1 DEF YmdGetYday
      <4>2. MdGetYday(f.y, f.m, f.d) = x
        BY <1>4, <2>1, YdayIs, SMTT(30)
      <4> QED BY <4>1, <4>2
    <3>3. u \in 0 .. 335 /\ g \in 28 .. 31 /\ u + g <= l /\ l \in 365 .. 366
      <4>0. f.y \in Int /\ f.m \in 1 .. 12
        BY <1>4, <2>1
      <4>1. u \in 0 .. 335
        BY <4>0, MonthStep
      <4>2. g \in 28 .. 31
        BY <4>0, MonthStep
      <4>3. u + g <= l
        BY <1>4, <2>1, MonthInYear
      <4>4. l \in 365 .. 366
        BY <1>4, YearStep
      <4> QED BY <4>1, <4>2, <4>3, <4>4
    <3>4. f.d <= g
      BY <2>1
    <3> HIDE DEF u, g, l
    <3>5. x \in 1 .. 366 /\ x <= l
      <4>1. f.d \in Int /\ 1 <= f.d /\ u \in Int /\ g \in Int /\ l \in Int
        BY <2>1, <3>3
      <4>2. 0 <= u /\ l <= 366 /\ u + g <= l
        BY <3>3, <4>1
      <4>3. x \in Int /\ 1 <= x /\ x <= l
        BY <3>4, <4>1, <4>2
      <4> HIDE DEF x
      <4> QED BY <4>1, <4>2, <4>3
    <3>6. Y16(f.y) = f.y /\ f.y \in Years16
      BY <1>4, SMT DEF Y16, Years16
    <3> HIDE DEF x
    <3> DEFINE r == [typ |-> "yd", y |-> f.y, d |-> x]
    <3>7. ConvTo(typ, f) = r
      BY <3>1, <3>2, <3>6, Zenon DEF Yd
    <3>8. r \in YdDates /\ r.y = f.y /\ r.d = x /\ r.typ = "yd"
      BY <3>5, <3>6, SMT DEF YdDates
    <3> HIDE DEF r
    <3>9. r \in Yds
      BY <3>5, <3>8, Zenon DEF Yds, l
    <3>10. Reading(r) = Reading(f)
      <4>1. Reading(r) = Jan00Daisy(f.y) + x
        BY <3>8, ReadingIs, Zenon
      <4>2. Reading(f) = (Jan00Daisy(f.y) + u) + f.d
        BY <2>1, ReadingIs, Zenon DEF u
      <4>3. Jan00Daisy(f.y) \in Int
        BY <1>4, YearStep
      <4> QED BY <2>1, <3>3, <4>1, <4>2, <4>3 DEF x
    <3> QED BY <1>2, <2>3, <3>7, <3>8, <3>9, <3>10, Zenon DEF f
  <2> QED BY <2>2, <2>3
<1>6. CASE f \in Yds
  <2>1. f \in YdDates /\ f.typ = "yd" /\ f.d \in 1 .. 366 /\ f.d <= GetYdays(f.y)
    BY <1>6, SMT DEF Yds, YdDates
  <2>2. CASE typ = "yd"
    <3>1. ConvTo(typ, f) = f
      BY <2>1, <2>2, SMT DEF ConvTo, ConvToYd, Numbers
    <3> QED BY <1>1, <1>2, <2>1, <2>2, <3>1 DEF f
  <2>3. CASE typ = "ymd"
    <3> DEFINE md == YdayGetMd(f.y, f.d)
               m == md.m
               x == md.d
    <3>1. ConvTo(typ, f) = Ymd(f.y, m, x)
      BY <2>1, <2>3, SMT DEF ConvTo, ConvToYmd, Numbers, YdToYmd, OfMd
    <3>2. f.d \in 1 .. GetYdays(f.y)
      <4>1. GetYdays(f.y) \in 365 .. 366
        BY <1>4, YearStep
      <4> QED BY <2>1, <4>1
    <3>3. m \in 1 .. 12 /\ x \in 1 .. GetMdays(f.y, m) /\ MdGetYday(f.y, m, 0) + x = f.d
      BY <1>4, <3>2, YdayGetMdIs
    <3> HIDE DEF m, x
    <3>4. GetMdays(f.y, m) \in 28 .. 31 /\ MdGetYday(f.y, m, 0) \in 0 .. 335
      <4>0. f.y \in Int /\ m \in 1 .. 12
        BY <1>4, <3>3
      <4>1. GetMdays(f.y, m) \in 28 .. 31
        BY <4>0, MonthStep
      <4>2. MdGetYday(f.y, m, 0) \in 0 .. 335
        BY <4>0, MonthStep
      <4> QED BY <4>1, <4>2
    <3>5. Y12(f.y) = f.y /\ f.y \in Years12
      BY <1>4, SMT DEF Y12, Years12
    <3> DEFINE r == [typ |-> "ymd", y |-> f.y, m |-> m, d |-> x]
    <3>6. ConvTo(typ, f) = r
      BY <3>1, <3>5, Zenon DEF Ymd
    <3>7. x \in 1 .. 31 /\ x <= GetMdays(f.y, m)
      BY <3>3, <3>4
    <3>8. r \in YmdDates /\ r.y = f.y /\ r.m = m /\ r.d = x /\ r.typ = "ymd"
      BY <3>3, <3>5, <3>7, SMT DEF YmdDates
    <3> HIDE DEF r
    <3>9. r \in Ymds
      BY <3>7, <3>8, Zenon DEF Ymds
    <3>10. Reading(r) = Reading(f)
      <4>1. Reading(r) = (Jan00Daisy(f.y) + MdGetYday(f.y, m, 0)) + x
        BY <3>8, ReadingIs, Zenon
      <4>2. Reading(f) = Jan00Daisy(f.y) + f.d
        BY <2>1, ReadingIs, Zenon
      <4>3. Jan00Daisy(f.y) \in Int
        BY <1>4, YearStep
      <4> QED BY <3>3, <3>4, <3>7, <4>1, <4>2, <4>3
    <3> QED BY <1>2, <2>3, <3>6, <3>8, <3>9, <3>10, Zenon DEF f
  <2> QED BY <2>2, <2>3
<1> QED
  BY <1>1, <1>5, <1>6, Zenon

\* A number of months in years and months is unique.
LEMMA MonthsCounted ==
  ASSUME NEW y \in Int, NEW m \in 1 .. 12, NEW z \in Int, NEW n \in 1 .. 12, NEW k \in Int,
         12 * y + m + k = 12 * z + n
  PROVE  (((m + k) - 1) % 12) + 1 = n /\ y + (((m + k) - 1) \div 12) = z
<1>1. (m + k) - 1 = 12 * (z - y) + (n - 1)
  OBVIOUS
<1> DEFINE x == (m + k) - 1
           q == z - y
           e == n - 1
<1>2. x = 12 * q + e /\ q \in Int /\ e \in 0 .. 11 /\ x \in Int
  BY <1>1
<1> HIDE DEF x, q, e
<1>3. x % 12 = e /\ x \div 12 = q
  BY <1>2
<1> QED BY <1>3 DEF x, q, e

\* Months counted up from one month are so many months on.
LEMMA MonthsOnIs ==
  ASSUME NEW a \in YmdDates, NEW z \in Years12, NEW n \in 1 .. 12, NEW k \in Nat,
         12 * a.y + a.m + k = 12 * z + n
  PROVE  /\ MonthsOn(a, k) \in YmdDates
         /\ MonthsOn(a, k).y = z /\ MonthsOn(a, k).m = n /\ MonthsOn(a, k).d = a.d
<1>1. a.typ = "ymd" /\ a.y \in Int /\ a.m \in 1 .. 12 /\ a.d \in 1 .. 31
  BY SMT DEF YmdDates, Years12
<1>0. a.m \in Int /\ k \in Int /\ n \in Int
  BY <1>1
<1>2. z \in Int /\ 0 <= z /\ z <= 4095
  BY DEF Years12
<1> DEFINE m == a.m + k
<1>3. ((m - 1) % 12) + 1 = n /\ a.y + ((m - 1) \div 12) = z
  <2>1. a.y \in Int /\ a.m \in 1 .. 12 /\ z \in Int /\ k \in Int /\ 12 * a.y + a.m + k = 12 * z + n
    BY <1>0, <1>1, <1>2
  <2> DEFINE y == a.y
             j == a.m
  <2>2. y \in Int /\ j \in 1 .. 12 /\ z \in Int /\ k \in Int /\ 12 * y + j + k = 12 * z + n
    BY <2>1
  <2> HIDE DEF y, j
  <2>3. (((j + k) - 1) % 12) + 1 = n
    BY <2>2, MonthsCounted
  <2>4. y + (((j + k) - 1) \div 12) = z
    BY <2>2, MonthsCounted
  <2> QED BY <2>3, <2>4 DEF y, j
<1>4. Y12(a.y + ((m - 1) \div 12)) = z
  <2> HIDE DEF m
  <2> QED BY <1>2, <1>3, SMT DEF Y12
<1>5. ((m - 1) % 12) + 1 + One(a.typ = "ymd" /\ k < 0 /\ a.m = 0) = n
  <2>1. One(a.typ = "ymd" /\ k < 0 /\ a.m = 0) = 0
    BY SMT DEF One
  <2> HIDE DEF m
  <2> QED BY <1>3, <2>1
<1>6. MonthsOn(a, k) = [a EXCEPT !.y = Y12(a.y + ((m - 1) \div 12)),
                                !.m = ((m - 1) % 12) + 1 + One(a.typ = "ymd" /\ k < 0 /\ a.m = 0)]
  BY DEF MonthsOn
<1>7. MonthsOn(a, k) = [a EXCEPT !.y = z, !.m = n]
  BY <1>4, <1>5, <1>6
<1>8. MonthsOn(a, k) = [typ |-> "ymd", y |-> z, m |-> n, d |-> a.d]
  <2> DEFINE r == [a EXCEPT !.y = z]
             e == [r EXCEPT !.m = n]
  <2>1. r = [typ |-> "ymd", y |-> z, m |-> a.m, d |-> a.d]
    BY SMT DEF YmdDates
  <2> HIDE DEF r
  <2>2. e = [typ |-> "ymd", y |-> z, m |-> n, d |-> a.d]
    BY <2>1, SMT
  <2> QED BY <1>7, <2>2 DEF r
<1> QED BY <1>1, <1>8, SMT DEF YmdDates

\* A difference keeps the sign it is given.
LEMMA NegIs ==
  ASSUME NEW neg, NEW a, NEW b
  PROVE  YmdApart(neg, a, b).neg = neg
BY Zenon DEF YmdApart

\* __ymd_diff(): the months and days from a date to a later one lead there.
LEMMA ApartAddsBack ==
  ASSUME NEW neg, NEW a \in Ymds, NEW b \in Ymds, Reading(a) <= Reading(b), a.d <= 28
  PROVE  Reading(MonthsOn(a, YmdApart(neg, a, b).m)) + YmdApart(neg, a, b).d = Reading(b)
<1>1. /\ a \in YmdDates /\ a.y \in Int /\ a.m \in 1 .. 12 /\ a.d \in 1 .. 31
      /\ a.d <= GetMdays(a.y, a.m) /\ a.y \in Years12
  BY SMT DEF Ymds, YmdDates, Years12
<1>2. /\ b \in YmdDates /\ b.y \in Int /\ b.m \in 1 .. 12 /\ b.d \in 1 .. 31
      /\ b.d <= GetMdays(b.y, b.m) /\ b.y \in Years12
  BY SMT DEF Ymds, YmdDates, Years12
<1>0. a.m \in Int /\ b.m \in Int /\ a.d \in Int /\ b.d \in Int
  BY <1>1, <1>2
<1> DEFINE m == MonthsApart(a, b)
           d == b.d - a.d
           k == [y |-> b.y, m |-> b.m]
           p == MonthBefore(k)
           g == GetMdays(p.y, p.m)
           fa == Jan00Daisy(a.y) + MdGetYday(a.y, a.m, 0)
           fb == Jan00Daisy(b.y) + MdGetYday(b.y, b.m, 0)
           fp == Jan00Daisy(p.y) + MdGetYday(p.y, p.m, 0)
<1>3. p.y \in Int /\ p.m \in 1 .. 12 /\ p.m \in Int /\ 12 * p.y + p.m + 1 = 12 * b.y + b.m
  BY <1>2, SMT DEF MonthBefore
<1>4. g \in 28 .. 31 /\ fp + g = fb
  <2>1. g \in 28 .. 31
    BY <1>3, MonthStep
  <2>2. \/ b.m = 1 /\ p.y = b.y - 1 /\ p.m = 12
        \/ b.m > 1 /\ p.y = b.y /\ p.m = b.m - 1
    BY <1>2, SMT DEF MonthBefore
  <2> HIDE DEF p
  <2>3. MdGetYday(p.y, p.m, 0) + g = IF p.m = 12 THEN GetYdays(p.y) ELSE MdGetYday(p.y, p.m + 1, 0)
    BY <1>3, MonthStep
  <2>4. Jan00Daisy(p.y) \in Int /\ Jan00Daisy(p.y + 1) = Jan00Daisy(p.y) + GetYdays(p.y)
        /\ GetYdays(p.y) \in 365 .. 366
    BY <1>3, YearStep
  <2>5. MdGetYday(p.y, p.m, 0) \in 0 .. 335
    BY <1>3, MonthStep
  <2>8. MdGetYday(b.y, b.m, 0) \in 0 .. 335
    BY <1>2, MonthStep
  <2>9. MdGetYday(b.y, 1, 0) = 0
    BY <1>2, MonthStep
  <2> HIDE DEF g
  <2>6. CASE b.m = 1
    <3>1. p.y + 1 = b.y /\ p.m = 12
      BY <1>2, <2>2, <2>6
    <3>2. MdGetYday(p.y, p.m, 0) + g = GetYdays(p.y) /\ MdGetYday(b.y, b.m, 0) = 0
          /\ Jan00Daisy(b.y) = Jan00Daisy(p.y) + GetYdays(p.y)
      BY <2>3, <2>4, <2>6, <2>9, <3>1
    <3> QED BY <2>1, <2>4, <2>5, <2>8, <3>2
  <2>7. CASE b.m > 1
    <3>1. p.y = b.y /\ p.m + 1 = b.m /\ p.m # 12
      BY <1>2, <2>2, <2>7
    <3>2. MdGetYday(p.y, p.m, 0) + g = MdGetYday(b.y, b.m, 0)
      BY <2>3, <3>1
    <3> QED BY <2>1, <2>4, <2>5, <2>8, <3>1, <3>2
  <2> QED BY <1>2, <2>6, <2>7
<1>5. /\ Reading(a) = fa + a.d /\ Reading(b) = fb + b.d
      /\ fa \in Int /\ fb \in Int /\ fp \in Int
  <2>1. Reading(a) = fa + a.d /\ Reading(b) = fb + b.d
    BY <1>1, <1>2, ReadingIs, Zenon
  <2>2. \A y \in Int, n \in 1 .. 12 : Jan00Daisy(y) + MdGetYday(y, n, 0) \in Int
    <3> SUFFICES ASSUME NEW y \in Int, NEW n \in 1 .. 12
                 PROVE  Jan00Daisy(y) + MdGetYday(y, n, 0) \in Int
      OBVIOUS
    <3>1. Jan00Daisy(y) \in Int
      BY YearStep
    <3>2. MdGetYday(y, n, 0) \in 0 .. 335
      BY MonthStep
    <3> QED BY <3>1, <3>2
  <2> HIDE DEF p
  <2> QED BY <1>1, <1>2, <1>3, <2>1, <2>2
<1>6. m = 12 * b.y + b.m - (12 * a.y + a.m) /\ m \in Int
  BY <1>1, <1>2, SMT DEF MonthsApart
<1>7. m >= 0
  <2>1. ASSUME m < 0 PROVE FALSE
    <3>1. b.y < a.y \/ (b.y = a.y /\ b.m < a.m)
      <4> HIDE DEF m
      <4> QED BY <1>0, <1>1, <1>2, <1>6, <2>1, SMT
    <3>2. Jan00Daisy(b.y) + MdGetYday(b.y, b.m, 0) + GetMdays(b.y, b.m) <= fa
      BY <1>1, <1>2, <3>1, MonthsInOrder
    <3>3. GetMdays(b.y, b.m) \in 28 .. 31
      BY <1>2, MonthStep
    <3> HIDE DEF fa, fb
    <3> QED BY <1>1, <1>2, <1>5, <3>2, <3>3 DEF fb
  <2> HIDE DEF m
  <2> QED BY <1>6, <2>1
<1>8. \A z \in Years12, n \in 1 .. 12, i \in Nat :
        12 * a.y + a.m + i = 12 * z + n
          => Reading(MonthsOn(a, i)) = (Jan00Daisy(z) + MdGetYday(z, n, 0)) + a.d
  <2> SUFFICES ASSUME NEW z \in Years12, NEW n \in 1 .. 12, NEW i \in Nat,
                      12 * a.y + a.m + i = 12 * z + n
               PROVE  Reading(MonthsOn(a, i)) = (Jan00Daisy(z) + MdGetYday(z, n, 0)) + a.d
    OBVIOUS
  <2>1. /\ MonthsOn(a, i) \in YmdDates
        /\ MonthsOn(a, i).y = z /\ MonthsOn(a, i).m = n /\ MonthsOn(a, i).d = a.d
    BY <1>1, MonthsOnIs
  <2> QED BY <2>1, ReadingIs, Zenon
<1>9. YmdApart(neg, a, b)
        = IF d >= 0 \/ m = 0 THEN [neg |-> neg, m |-> m, d |-> d]
          ELSE IF d + g >= 0 THEN [neg |-> neg, m |-> m - 1, d |-> d + g]
          ELSE [neg |-> neg, m |-> m - 2, d |-> (d + g) + MdaysBefore(MonthBefore(k))]
  BY Zenon DEF YmdApart, MdaysBefore
<1>10. d \in Int /\ d + g >= 0
  <2> HIDE DEF g, fp, fb
  <2> QED BY <1>1, <1>2, <1>4
<1> HIDE DEF m, d, g, p, k
<1>11. CASE d >= 0 \/ m = 0
  <2>1. YmdApart(neg, a, b) = [neg |-> neg, m |-> m, d |-> d]
    BY <1>9, <1>11
  <2>2. Reading(MonthsOn(a, m)) = fb + a.d
    <3>1. m \in Nat /\ 12 * a.y + a.m + m = 12 * b.y + b.m
      BY <1>0, <1>1, <1>2, <1>6, <1>7
    <3> QED BY <1>2, <1>8, <3>1
  <2> QED
    <3> HIDE DEF fa, fb, fp
    <3> QED BY <1>1, <1>2, <1>5, <2>1, <2>2 DEF d
<1>12. CASE ~ (d >= 0 \/ m = 0)
  <2>1. YmdApart(neg, a, b) = [neg |-> neg, m |-> m - 1, d |-> d + g]
    BY <1>9, <1>10, <1>12
  <2>2. m - 1 \in Nat /\ 12 * a.y + a.m + (m - 1) = 12 * p.y + p.m
    BY <1>0, <1>1, <1>2, <1>3, <1>6, <1>7, <1>12
  <2>3. p.y \in Years12
    <3>1. 0 <= p.y /\ p.y <= 4095
      <4>1. 0 <= a.y /\ b.y <= 4095
        BY <1>1, <1>2 DEF Years12
      <4> QED BY <1>0, <1>1, <1>2, <1>3, <2>2, <4>1
    <3> QED BY <1>3, <3>1 DEF Years12
  <2>4. Reading(MonthsOn(a, m - 1)) = fp + a.d
    BY <1>3, <1>8, <2>2, <2>3
  <2> DEFINE r == Reading(MonthsOn(a, m - 1))
             q == YmdApart(neg, a, b)
  <2>5. r = fp + a.d /\ q.m = m - 1 /\ q.d = d + g /\ fp + g = fb /\ Reading(b) = fb + b.d
    BY <1>4, <1>5, <2>1, <2>4
  <2>6. fp \in Int /\ fb \in Int /\ g \in Int /\ d \in Int /\ d = b.d - a.d
    BY <1>4, <1>5, <1>10 DEF d
  <2> HIDE DEF fa, fb, fp, r, q
  <2>7. \A f1, f2, h, i, j \in Int : f1 + h = f2 => (f1 + i) + ((j - i) + h) = f2 + j
    BY SMT
  <2>9. fp + g = fb /\ a.d \in Int /\ b.d \in Int
    BY <1>0, <2>5
  <2>10. (fp + a.d) + ((b.d - a.d) + g) = fb + b.d
    BY <2>6, <2>7, <2>9
  <2>8. r + (d + g) = Reading(b)
    BY <2>5, <2>6, <2>10
  <2> QED BY <2>5, <2>8, Zenon DEF r, q
<1> QED BY <1>11, <1>12

\* What is added to a date is added in its calendar.
LEMMA WorksKeepTyp ==
  ASSUME NEW d \in YmdDates \union YdDates, NEW num \in Int
  PROVE  DaysOn(d, num).typ = d.typ /\ BizdaysOn(d, num).typ = d.typ
<1>1. CASE d \in YmdDates
  <2> DEFINE f == YmdFixup(d)
             g == IF num < 0 /\ f.d = 0 THEN [f EXCEPT !.d = 1] ELSE f
  <2>1. d.typ = "ymd" /\ f.typ = "ymd"
    BY <1>1, FixupIsDate, SMT DEF YmdDates
  <2>2. g.typ = "ymd"
    BY <1>1, FixupIsDate, SMT DEF YmdDates
  <2>3. \A e, x : e.typ = "ymd" => Unfold(e, x).typ = "ymd"
    BY Zenon DEF Unfold
  <2>4. DaysOn(d, num) = Unfold(f, f.d + num + One(num < 0 /\ f.d = 0))
    BY <2>1, Zenon DEF DaysOn
  <2>5. BizdaysOn(d, num) = Unfold(g, g.d + DEquiv(YmdGetWday(g), num))
    BY <2>1, Zenon DEF BizdaysOn
  <2> HIDE DEF f, g
  <2> QED BY <2>1, <2>2, <2>3, <2>4, <2>5, Zenon
<1>2. CASE d \in YdDates
  <2> DEFINE g == IF num < 0 /\ d.d = 0 THEN [d EXCEPT !.d = 1] ELSE d
  <2>1. d.typ = "yd" /\ g.typ = "yd"
    BY <1>2, SMT DEF YdDates
  <2>2. \A e, x : e.typ = "yd" => Unfold(e, x).typ = "yd"
    BY SMT DEF Unfold
  <2>3. DaysOn(d, num) = Unfold(d, d.d + num + One(num < 0 /\ d.d = 0))
    BY <2>1, SMT DEF DaysOn
  <2>4. BizdaysOn(d, num) = Unfold(g, g.d + DEquiv(YdGetWday(g), num))
    BY <2>1, SMT DEF BizdaysOn
  <2> HIDE DEF g
  <2> QED BY <2>1, <2>2, <2>3, <2>4, Zenon
<1> QED BY <1>1, <1>2

\* A conversion leads to the calendar that is asked for.
LEMMA ConvertIsTyp ==
  ASSUME NEW d \in YmdDates \union YdDates, NEW typ \in {"ymd", "yd"}
  PROVE  DConv(typ, d).typ = typ
<1> DEFINE f == DFixup(d)
<1>1. (f.typ = "ymd" \/ f.typ = "yd")
  <2>1. f \in Ymds \union Yds
    BY FixupIsCrisp
  <2> HIDE DEF f
  <2> QED BY <2>1, SMT DEF Ymds, Yds, YmdDates, YdDates
<1>2. DConv(typ, d) = ConvTo(typ, f)
  BY DEF DConv
<1> HIDE DEF f
<1>3. CASE typ = "ymd"
  <2>1. ConvTo(typ, f) = ConvToYmd(f)
    BY <1>3, SMT DEF ConvTo, Numbers
  <2>2. ConvToYmd(f) = IF f.typ = "ymd" THEN f ELSE YdToYmd(f)
    BY <1>1, SMT DEF ConvToYmd, Numbers
  <2> QED BY <1>1, <1>2, <1>3, <2>1, <2>2, SMT DEF YdToYmd, OfMd, Ymd
<1>4. CASE typ = "yd"
  <2>1. ConvTo(typ, f) = ConvToYd(f)
    BY <1>4, SMT DEF ConvTo, Numbers
  <2>2. ConvToYd(f) = IF f.typ = "yd" THEN f ELSE YmdToYd(f)
    BY <1>1, SMT DEF ConvToYd, Numbers
  <2> QED BY <1>1, <1>2, <1>4, <2>1, <2>2, SMT DEF YmdToYd, Yd
<1> QED BY <1>3, <1>4

-----------------------------------------------------------------------------
(* Loops. *)

\* A set of numbers has a least one.
LEMMA LeastNat ==
  ASSUME NEW T, T \subseteq Nat, T # {}
  PROVE  \E x \in T : \A y \in T : x <= y
<1>1. IsWellFoundedOn(OpToRel(<, Nat), Nat)
  BY NatLessThanWellFounded
<1>2. \E x \in T : \A y \in T : ~(<<y, x>> \in OpToRel(<, Nat))
  BY <1>1, WFMin, Zenon
<1>3. PICK x \in T : \A y \in T : ~(<<y, x>> \in OpToRel(<, Nat))
  BY <1>2
<1>4. \A y \in T : ~(y < x)
  BY <1>3 DEF OpToRel
<1> QED
  BY <1>4, SMT

\* A set that has 0, and the successor of each number it has, has them all.
LEMMA AllNats ==
  ASSUME NEW S, 0 \in S, \A n \in Nat : n \in S => n + 1 \in S
  PROVE  Nat \subseteq S
<1> DEFINE T == Nat \ S
<1> SUFFICES ASSUME T # {} PROVE FALSE
  OBVIOUS
<1>1. PICK x \in T : \A y \in T : x <= y
  BY LeastNat, Zenon
<1>2. x # 0 /\ x \in Nat
  OBVIOUS
<1>3. x - 1 \in Nat /\ x - 1 \notin T
  BY <1>1, <1>2, SMT
<1>4. (x - 1) + 1 \in S
  BY <1>3
<1>5. (x - 1) + 1 = x
  BY <1>2, SMT
<1> QED
  BY <1>4, <1>5

\* f is val where a loop may stop, and goes on with the next argument elsewhere.
Loops(f, D, Stop, next, val) == f = [k \in D |-> IF k \in Stop THEN val[k] ELSE f[next[k]]]

\* A function that goes on with the next argument until it may stop, as the
\* loops of the code do, exists whether they end or not.
LEMMA LoopExists ==
  ASSUME NEW D, NEW Stop, NEW next \in [D -> D], NEW val
  PROVE  \E f : Loops(f, D, Stop, next, val)
<1> DEFINE Goes(n, p) == \A i \in 0 .. n - 1 : p[i] \notin Stop /\ p[i + 1] = next[p[i]]
           Ends(k) == {s \in D \intersect Stop :
                         \E n \in Nat : \E p \in [0 .. n -> D] : p[0] = k /\ p[n] = s /\ Goes(n, p)}
           Pick(T) == CHOOSE s : s \in T
           f == [k \in D |-> val[Pick(Ends(k))]]
<1>1. ASSUME NEW k \in D, k \in Stop
      PROVE  Ends(k) = {k}
  <2>1. ASSUME NEW s \in Ends(k) PROVE s = k
    <3>0. PICK n \in Nat : \E p \in [0 .. n -> D] : p[0] = k /\ p[n] = s /\ Goes(n, p)
      BY <2>1
    <3>1. PICK p \in [0 .. n -> D] : p[0] = k /\ p[n] = s /\ Goes(n, p)
      BY <3>0
    <3>2. n = 0
      <4> SUFFICES ASSUME n # 0 PROVE FALSE
        OBVIOUS
      <4>1. 0 \in 0 .. n - 1
        BY SMT
      <4> QED BY <1>1, <3>1, <4>1
    <3> QED BY <3>1, <3>2
  <2>2. k \in Ends(k)
    <3> DEFINE p == [i \in 0 .. 0 |-> k]
    <3>1. p \in [0 .. 0 -> D] /\ p[0] = k
      OBVIOUS
    <3>2. Goes(0, p)
      BY SMT
    <3> HIDE DEF p
    <3>3. 0 \in Nat /\ k \in D \intersect Stop
      BY <1>1
    <3> QED BY <3>1, <3>2, <3>3
  <2> QED BY <2>1, <2>2
<1>2. ASSUME NEW k \in D, k \notin Stop
      PROVE  Ends(k) = Ends(next[k])
  <2>1. ASSUME NEW s \in Ends(k) PROVE s \in Ends(next[k])
    <3>0. PICK n \in Nat : \E p \in [0 .. n -> D] : p[0] = k /\ p[n] = s /\ Goes(n, p)
      BY <2>1
    <3>1. PICK p \in [0 .. n -> D] : p[0] = k /\ p[n] = s /\ Goes(n, p)
      BY <3>0
    <3>2. s \in D \intersect Stop
      BY <2>1
    <3>3. n # 0
      BY <1>2, <3>1, <3>2
    <3> DEFINE m == n - 1
               q == [i \in 0 .. m |-> p[i + 1]]
    <3>4. m \in Nat /\ m + 1 = n
      BY <3>3, SMT
    <3> HIDE DEF m
    <3>5. \A i \in 0 .. m : i \in Int /\ i + 1 \in 0 .. n
      BY <3>4, SMT
    <3>6. q \in [0 .. m -> D]
      BY <3>1, <3>5
    <3>7. q[0] = next[k] /\ q[m] = s
      <4>1. 0 \in 0 .. m /\ m \in 0 .. m /\ 0 + 1 = 1
        BY <3>4, SMT
      <4>2. q[0] = p[1] /\ q[m] = p[n]
        BY <3>4, <4>1
      <4>3. 0 \in 0 .. n - 1
        BY <3>4, SMT
      <4>4. p[0 + 1] = next[p[0]]
        BY <3>1, <4>3
      <4> QED BY <3>1, <4>1, <4>2, <4>4
    <3>8. Goes(m, q)
      <4> SUFFICES ASSUME NEW i \in 0 .. m - 1 PROVE q[i] \notin Stop /\ q[i + 1] = next[q[i]]
        OBVIOUS
      <4>1. i \in 0 .. m /\ i + 1 \in 0 .. m /\ i + 1 \in 0 .. n - 1
        BY <3>4, SMT
      <4>2. q[i] = p[i + 1] /\ q[i + 1] = p[(i + 1) + 1]
        BY <4>1
      <4> QED BY <3>1, <4>1, <4>2
    <3> HIDE DEF q
    <3>9. \E n_ \in Nat : \E p_ \in [0 .. n_ -> D] : p_[0] = next[k] /\ p_[n_] = s /\ Goes(n_, p_)
      <4> HIDE DEF Goes
      <4> QED BY <3>4, <3>6, <3>7, <3>8, Zenon
    <3> QED BY <3>2, <3>9, Zenon
  <2>2. ASSUME NEW s \in Ends(next[k]) PROVE s \in Ends(k)
    <3>0. PICK n \in Nat : \E p \in [0 .. n -> D] : p[0] = next[k] /\ p[n] = s /\ Goes(n, p)
      BY <2>2
    <3>1. PICK p \in [0 .. n -> D] : p[0] = next[k] /\ p[n] = s /\ Goes(n, p)
      BY <3>0
    <3>2. s \in D \intersect Stop
      BY <2>2
    <3> DEFINE m == n + 1
               q == [i \in 0 .. m |-> IF i = 0 THEN k ELSE p[i - 1]]
    <3>4. m \in Nat /\ m - 1 = n /\ m # 0
      BY SMT
    <3> HIDE DEF m
    <3>5. \A i \in 0 .. m : i = 0 \/ i - 1 \in 0 .. n
      BY <3>4, SMT
    <3>6. q \in [0 .. m -> D]
      BY <3>1, <3>5
    <3>7. q[0] = k /\ q[m] = s
      <4>1. 0 \in 0 .. m /\ m \in 0 .. m
        BY <3>4, SMT
      <4> QED BY <3>1, <3>4, <4>1
    <3>8. Goes(m, q)
      <4> SUFFICES ASSUME NEW i \in 0 .. m - 1 PROVE q[i] \notin Stop /\ q[i + 1] = next[q[i]]
        OBVIOUS
      <4>1. i \in 0 .. m /\ i + 1 \in 0 .. m /\ i + 1 # 0 /\ (i + 1) - 1 = i
        BY <3>4, SMT
      <4>2. q[i + 1] = p[i]
        BY <4>1
      <4>3. CASE i = 0
        BY <1>2, <3>1, <3>7, <4>2, <4>3
      <4>4. CASE i # 0
        <5>1. i - 1 \in 0 .. n - 1 /\ (i - 1) + 1 = i
          BY <3>4, <4>1, <4>4, SMT
        <5>2. q[i] = p[i - 1]
          BY <4>1, <4>4
        <5>3. p[i - 1] \notin Stop /\ p[(i - 1) + 1] = next[p[i - 1]]
          BY <3>1, <5>1
        <5> QED BY <4>2, <5>1, <5>2, <5>3
      <4> QED BY <4>3, <4>4
    <3> HIDE DEF q
    <3>9. \E n_ \in Nat : \E p_ \in [0 .. n_ -> D] : p_[0] = k /\ p_[n_] = s /\ Goes(n_, p_)
      <4> HIDE DEF Goes
      <4> QED BY <3>4, <3>6, <3>7, <3>8, Zenon
    <3> QED BY <3>2, <3>9, Zenon
  <2> QED BY <2>1, <2>2
<1> HIDE DEF Ends
<1>3. ASSUME NEW k \in D
      PROVE  f[k] = IF k \in Stop THEN val[k] ELSE f[next[k]]
  <2>1. CASE k \in Stop
    <3>1. Pick({k}) = k
      OBVIOUS
    <3> QED BY <1>1, <2>1, <3>1
  <2>2. CASE k \notin Stop
    <3>1. next[k] \in D
      OBVIOUS
    <3>2. Ends(k) = Ends(next[k])
      BY <1>2, <2>2
    <3> HIDE DEF Pick
    <3> QED BY <2>2, <3>1, <3>2
  <2> QED BY <2>1, <2>2
<1>4. f = [k \in D |-> IF k \in Stop THEN val[k] ELSE f[next[k]]]
  <2>1. f = [k \in D |-> f[k]]
    OBVIOUS
  <2> HIDE DEF f
  <2> QED BY <1>3, <2>1
<1> HIDE DEF f
<1> QED
  BY <1>4 DEF Loops

\* Dates under way stay of their kind, whatever they are carried over to, and
\* know how much their smallest field can be.
LEMMA WorksStay ==
  ASSUME NEW k \in Works, NEW x \in Int
  PROVE  /\ k.x \in Int /\ Span(k) \in Int
         /\ Before(k) \in Works /\ After(k) \in Works
         /\ [k EXCEPT !.x = x] \in Works
<1> DEFINE Ms == [typ : {"ymd", "bizda"}, y : Int, m : 1 .. 12, x : Int]
           Ds == [typ : {"yd"}, y : Int, x : Int]
           Cs == [typ : {"ymcw"}, y : Int, m : 1 .. 12, x : Int, w : Int]
           Ws == [typ : {"ywd"}, y : Int, x : Int, w : Int, hang : Int]
<1>1. ASSUME NEW y \in Int, NEW m \in 1 .. 12
      PROVE  GetMdays(y, m) \in 28 .. 31 /\ M01Wday(y, m) \in 1 .. 7
  <2>1. GetMdays(y, m) \in 28 .. 31
    BY MonthStep
  <2>5. MdGetYday(y, m, 0) \in 0 .. 335
    BY MonthStep
  <2>2. Jan01Wday(y) \in Int
    BY WdaysAreInts
  <2>3. (Jan01Wday(y) + MdGetYday(y, m, 0)) % 7 \in 0 .. 6
    BY <2>5, <2>2, SMT
  <2>4. M01Wday(y, m) = OrElse((Jan01Wday(y) + MdGetYday(y, m, 0)) % 7, SUNDAY)
    BY DEF M01Wday
  <2> QED BY <2>1, <2>3, <2>4, SMT DEF OrElse, SUNDAY
<1>2. CASE k \in Ms
  <2>1. k.typ \in {"ymd", "bizda"} /\ k.y \in Int /\ k.m \in 1 .. 12 /\ k.x \in Int
    BY <1>2
  <2>2. Span(k) \in Int
    <3>1. GetMdays(k.y, k.m) \in 28 .. 31 /\ M01Wday(k.y, k.m) \in 1 .. 7
      BY <1>1, <2>1
    <3>2. GetBdays(k.y, k.m) \in Int
      BY <3>1, SMT DEF GetBdays, BdaysWith, OrElse, SUNDAY
    <3> QED BY <2>1, <3>1, <3>2, SMT DEF Span
  <2>3. MonthBefore(k) \in Ms /\ MonthAfter(k) \in Ms
    <3> DEFINE p == k.y - 1
               q == k.y + 1
               i == k.m - 1
               j == k.m + 1
    <3>1. p \in Int /\ q \in Int
      BY <2>1, SMT
    <3>2. (k.m # 1 => i \in 1 .. 12) /\ (k.m # 12 => j \in 1 .. 12)
      BY <2>1, SMT
    <3>3. MonthBefore(k) = IF k.m = 1 THEN [[k EXCEPT !.y = p] EXCEPT !.m = 12] ELSE [k EXCEPT !.m = i]
      BY DEF MonthBefore
    <3>4. MonthAfter(k) = IF k.m = 12 THEN [[k EXCEPT !.y = q] EXCEPT !.m = 1] ELSE [k EXCEPT !.m = j]
      BY DEF MonthAfter
    <3>5. 1 \in 1 .. 12 /\ 12 \in 1 .. 12
      BY SMT
    <3> HIDE DEF p, q, i, j
    <3>6. [k EXCEPT !.y = p] \in Ms /\ [k EXCEPT !.y = q] \in Ms
      BY <1>2, <3>1
    <3>7. [[k EXCEPT !.y = p] EXCEPT !.m = 12] \in Ms /\ [[k EXCEPT !.y = q] EXCEPT !.m = 1] \in Ms
      BY <3>5, <3>6
    <3>8. (k.m # 1 => [k EXCEPT !.m = i] \in Ms) /\ (k.m # 12 => [k EXCEPT !.m = j] \in Ms)
      BY <1>2, <3>2
    <3> QED BY <3>3, <3>4, <3>7, <3>8, Zenon
  <2>4. Before(k) = MonthBefore(k) /\ After(k) = MonthAfter(k)
    BY <2>1, SMT DEF Before, After
  <2>5. [k EXCEPT !.x = x] \in Ms
    BY <1>2
  <2> QED BY <2>1, <2>2, <2>3, <2>4, <2>5, Zenon DEF Works
<1>3. CASE k \in Ds
  <2>1. k.typ = "yd" /\ k.y \in Int /\ k.x \in Int
    BY <1>3
  <2>2. Span(k) \in Int
    BY <2>1, YearStep, SMT DEF Span
  <2>3. YearBefore(k) \in Ds /\ YearAfter(k) \in Ds
    BY <1>3, <2>1, SMT DEF YearBefore, YearAfter
  <2>4. Before(k) = YearBefore(k) /\ After(k) = YearAfter(k)
    BY <2>1, SMT DEF Before, After
  <2>5. [k EXCEPT !.x = x] \in Ds
    BY <1>3
  <2> QED BY <2>1, <2>2, <2>3, <2>4, <2>5, Zenon DEF Works
<1>4. CASE k \in Cs
  <2>1. k.typ = "ymcw" /\ k.y \in Int /\ k.m \in 1 .. 12 /\ k.x \in Int /\ k.w \in Int
    BY <1>4
  <2>2. Span(k) \in Int
    <3>1. GetMdays(k.y, k.m) \in 28 .. 31 /\ M01Wday(k.y, k.m) \in 1 .. 7
      BY <1>1, <2>1
    <3>2. GetMcnt(k.y, k.m, k.w) \in Int
      BY <3>1, <2>1, SMT DEF GetMcnt, WdaysFrom
    <3> QED BY <2>1, <3>2, SMT DEF Span
  <2>3. MonthBefore(k) \in Cs /\ MonthAfter(k) \in Cs
    <3> DEFINE p == k.y - 1
               q == k.y + 1
               i == k.m - 1
               j == k.m + 1
    <3>1. p \in Int /\ q \in Int
      BY <2>1, SMT
    <3>2. (k.m # 1 => i \in 1 .. 12) /\ (k.m # 12 => j \in 1 .. 12)
      BY <2>1, SMT
    <3>3. MonthBefore(k) = IF k.m = 1 THEN [[k EXCEPT !.y = p] EXCEPT !.m = 12] ELSE [k EXCEPT !.m = i]
      BY DEF MonthBefore
    <3>4. MonthAfter(k) = IF k.m = 12 THEN [[k EXCEPT !.y = q] EXCEPT !.m = 1] ELSE [k EXCEPT !.m = j]
      BY DEF MonthAfter
    <3>5. 1 \in 1 .. 12 /\ 12 \in 1 .. 12
      BY SMT
    <3> HIDE DEF p, q, i, j
    <3>6. [k EXCEPT !.y = p] \in Cs /\ [k EXCEPT !.y = q] \in Cs
      BY <1>4, <3>1
    <3>7. [[k EXCEPT !.y = p] EXCEPT !.m = 12] \in Cs /\ [[k EXCEPT !.y = q] EXCEPT !.m = 1] \in Cs
      BY <3>5, <3>6
    <3>8. (k.m # 1 => [k EXCEPT !.m = i] \in Cs) /\ (k.m # 12 => [k EXCEPT !.m = j] \in Cs)
      BY <1>4, <3>2
    <3> QED BY <3>3, <3>4, <3>7, <3>8, Zenon
  <2>4. Before(k) = MonthBefore(k) /\ After(k) = MonthAfter(k)
    BY <2>1, SMT DEF Before, After
  <2>5. [k EXCEPT !.x = x] \in Cs
    BY <1>4
  <2> QED BY <2>1, <2>2, <2>3, <2>4, <2>5, Zenon DEF Works
<1>5. CASE k \in Ws
  <2>1. k.typ = "ywd" /\ k.y \in Int /\ k.x \in Int /\ k.hang \in Int /\ k.w \in Int
    BY <1>5
  <2>2. Span(k) \in Int
    BY <2>1, SMT DEF Span, GetIsowk
  <2>3. YearBefore(k) \in Ws /\ YearAfter(k) \in Ws
    <3>1. \A y \in Int : Leap(y) \in Int
      BY SMT DEF Leap
    <3> DEFINE b == k.hang + Leap(k.y - 1) + 1
               a == k.hang - Leap(k.y) - 1
    <3>2. b \in Int /\ a \in Int /\ b - 7 \in Int /\ a + 7 \in Int
      BY <2>1, <3>1, SMT
    <3>3. YearBefore(k) = [k EXCEPT !.y = k.y - 1, !.hang = IF b > 3 THEN b - 7 ELSE b]
      BY <2>1, SMT DEF YearBefore
    <3>4. YearAfter(k) = [k EXCEPT !.y = k.y + 1, !.hang = IF a < -3 THEN a + 7 ELSE a]
      BY <2>1, SMT DEF YearAfter
    <3> HIDE DEF a, b
    <3>5. (IF b > 3 THEN b - 7 ELSE b) \in Int /\ (IF a < -3 THEN a + 7 ELSE a) \in Int
      BY <3>2, Zenon
    <3> DEFINE h == IF b > 3 THEN b - 7 ELSE b
               g == IF a < -3 THEN a + 7 ELSE a
               p == k.y - 1
               q == k.y + 1
    <3>6. p \in Int /\ q \in Int /\ h \in Int /\ g \in Int
      BY <2>1, <3>5
    <3>7. YearBefore(k) = [[k EXCEPT !.y = p] EXCEPT !.hang = h]
      BY <3>3
    <3>8. YearAfter(k) = [[k EXCEPT !.y = q] EXCEPT !.hang = g]
      BY <3>4
    <3> HIDE DEF p, q, h, g
    <3>9. [k EXCEPT !.y = p] \in Ws /\ [k EXCEPT !.y = q] \in Ws
      BY <1>5, <3>6
    <3>10. [[k EXCEPT !.y = p] EXCEPT !.hang = h] \in Ws /\ [[k EXCEPT !.y = q] EXCEPT !.hang = g] \in Ws
      BY <3>6, <3>9
    <3> QED BY <3>7, <3>8, <3>10, Zenon
  <2>4. Before(k) = YearBefore(k) /\ After(k) = YearAfter(k)
    BY <2>1, SMT DEF Before, After
  <2>5. [k EXCEPT !.x = x] \in Ws
    BY <1>5
  <2> QED BY <2>1, <2>2, <2>3, <2>4, <2>5, Zenon DEF Works
<1> QED
  BY <1>2, <1>3, <1>4, <1>5, Zenon DEF Works

\* The turns of a loop: a day, a week or a count that is too small is borrowed
\* for, one that is too large is taken to the next month or year.
LEMMA CarriedIs ==
  ASSUME NEW k \in Works
  PROVE  Carried[k] = IF k.x < 1 THEN Carried[Borrow(Before(k))]
                      ELSE IF Over(k) > 0 THEN Carried[[After(k) EXCEPT !.x = Over(k)]]
                      ELSE Fold(k)
<1> DEFINE Turned(j) == IF j.x < 1 THEN Borrow(Before(j))
                        ELSE IF Over(j) > 0 THEN [After(j) EXCEPT !.x = Over(j)] ELSE j
           next == [j \in Works |-> Turned(j)]
           val == [j \in Works |-> Fold(j)]
           Stop == {j \in Works : ~(j.x < 1) /\ ~(Over(j) > 0)}
           Body(f) == [j \in Works |-> IF j.x < 1 THEN f[Borrow(Before(j))]
                                       ELSE IF Over(j) > 0 THEN f[[After(j) EXCEPT !.x = Over(j)]]
                                       ELSE Fold(j)]
<1>1. ASSUME NEW j \in Works PROVE Turned(j) \in Works
  <2>7. /\ Before(j) \in Works /\ After(j) \in Works
        /\ j.x \in Int /\ Span(j) \in Int
    <3>1. 0 \in Int
      OBVIOUS
    <3> QED BY <3>1, WorksStay, Zenon
  <2>1. Before(j) \in Works /\ After(j) \in Works /\ Over(j) \in Int
    BY <2>7 DEF Over
  <2>2. Before(j).x \in Int /\ Span(Before(j)) \in Int
    BY <2>1, WorksStay
  <2>3. [After(j) EXCEPT !.x = Over(j)] \in Works
    BY <2>1, WorksStay
  <2>4. Before(j).x + Span(Before(j)) \in Int
    BY <2>2
  <2>5. [Before(j) EXCEPT !.x = Before(j).x + Span(Before(j))] \in Works
    BY <2>1, <2>4, WorksStay
  <2>6. Borrow(Before(j)) \in Works
    BY <2>5 DEF Borrow
  <2> QED BY <2>3, <2>6, Zenon
<1> HIDE DEF Turned
<1>2. next \in [Works -> Works]
  BY <1>1, Zenon
<1>3. PICK f : f = [j \in Works |-> IF j \in Stop THEN val[j] ELSE f[next[j]]]
  <2> HIDE DEF next, val, Stop
  <2>1. \E f : Loops(f, Works, Stop, next, val)
    BY <1>2, LoopExists, Zenon
  <2> QED BY <2>1, Zenon DEF Loops
<1>4. f = Body(f)
  <2>1. ASSUME NEW j \in Works
        PROVE  (IF j \in Stop THEN val[j] ELSE f[next[j]])
                 = IF j.x < 1 THEN f[Borrow(Before(j))]
                   ELSE IF Over(j) > 0 THEN f[[After(j) EXCEPT !.x = Over(j)]]
                   ELSE Fold(j)
    <3>1. next[j] = Turned(j) /\ val[j] = Fold(j)
      OBVIOUS
    <3>2. j \in Stop <=> ~(j.x < 1) /\ ~(Over(j) > 0)
      OBVIOUS
    <3> HIDE DEF next, val, Stop
    <3>3. CASE j.x < 1
      <4>1. Turned(j) = Borrow(Before(j))
        BY <3>3, Zenon DEF Turned
      <4> QED BY <3>1, <3>2, <3>3, <4>1, Zenon
    <3>4. CASE ~(j.x < 1) /\ Over(j) > 0
      <4>1. Turned(j) = [After(j) EXCEPT !.x = Over(j)]
        BY <3>4, Zenon DEF Turned
      <4> QED BY <3>1, <3>2, <3>4, <4>1, Zenon
    <3>5. CASE ~(j.x < 1) /\ ~(Over(j) > 0)
      BY <3>1, <3>2, <3>5, Zenon
    <3> QED BY <3>3, <3>4, <3>5, Zenon
  <2> QED BY <1>3, <2>1, Zenon
<1>5. Carried = CHOOSE g : g = Body(g)
  BY DEF Carried
<1> HIDE DEF Body
<1>6. Carried = Body(Carried)
  BY <1>4, <1>5, Zenon
<1> QED
  BY <1>6, Zenon DEF Body

\* The dates before and after keep the smallest field; a month or a year is as
\* long whatever that is.
LEMMA NextKeepsX ==
  ASSUME NEW k \in YmdWorks \union YdWorks
  PROVE  /\ Before(k) \in YmdWorks \union YdWorks /\ Before(k).typ = k.typ /\ Before(k).x = k.x
         /\ After(k) \in YmdWorks \union YdWorks /\ After(k).typ = k.typ /\ After(k).x = k.x
<1>1. CASE k \in YmdWorks
  <2>1. k.typ = "ymd" /\ k.y \in Int /\ k.m \in 1 .. 12 /\ k.x \in Int
    BY <1>1, LinIs
  <2>2. Before(k) = MonthBefore(k) /\ After(k) = MonthAfter(k)
    BY <1>1, LinIs
  <2> DEFINE p == k.y - 1
             q == k.y + 1
             i == k.m - 1
             j == k.m + 1
  <2>3. p \in Int /\ q \in Int /\ (k.m # 1 => i \in 1 .. 12) /\ (k.m # 12 => j \in 1 .. 12)
    BY <2>1, SMT
  <2>4. MonthBefore(k) = IF k.m = 1 THEN [[k EXCEPT !.y = p] EXCEPT !.m = 12] ELSE [k EXCEPT !.m = i]
    BY DEF MonthBefore
  <2>5. MonthAfter(k) = IF k.m = 12 THEN [[k EXCEPT !.y = q] EXCEPT !.m = 1] ELSE [k EXCEPT !.m = j]
    BY DEF MonthAfter
  <2>6. 1 \in 1 .. 12 /\ 12 \in 1 .. 12
    BY SMT
  <2> HIDE DEF p, q, i, j
  <2>7. /\ [k EXCEPT !.y = p] \in YmdWorks /\ [k EXCEPT !.y = p].x = k.x
        /\ [k EXCEPT !.y = q] \in YmdWorks /\ [k EXCEPT !.y = q].x = k.x
    BY <1>1, <2>3, RefitY
  <2>8. /\ [[k EXCEPT !.y = p] EXCEPT !.m = 12] \in YmdWorks /\ [[k EXCEPT !.y = p] EXCEPT !.m = 12].x = k.x
        /\ [[k EXCEPT !.y = q] EXCEPT !.m = 1] \in YmdWorks /\ [[k EXCEPT !.y = q] EXCEPT !.m = 1].x = k.x
    BY <2>6, <2>7, RefitM
  <2>9. /\ k.m # 1 => [k EXCEPT !.m = i] \in YmdWorks /\ [k EXCEPT !.m = i].x = k.x
        /\ k.m # 12 => [k EXCEPT !.m = j] \in YmdWorks /\ [k EXCEPT !.m = j].x = k.x
    BY <1>1, <2>3, RefitM
  <2>10. Before(k) \in YmdWorks /\ Before(k).x = k.x /\ After(k) \in YmdWorks /\ After(k).x = k.x
    BY <2>2, <2>4, <2>5, <2>8, <2>9, Zenon
  <2>11. Before(k).typ = "ymd" /\ After(k).typ = "ymd"
    BY <2>10, LinIs
  <2> QED BY <2>1, <2>10, <2>11
<1>2. CASE k \in YdWorks
  <2>1. k.typ = "yd" /\ k.y \in Int /\ k.x \in Int /\ Before(k) = YearBefore(k) /\ After(k) = YearAfter(k)
    BY <1>2, LinIs
  <2>2. YearBefore(k) = [k EXCEPT !.y = @ - 1] /\ YearAfter(k) = [k EXCEPT !.y = @ + 1]
    BY <2>1 DEF YearBefore, YearAfter
  <2>3. [k EXCEPT !.y = @ - 1] \in YdWorks /\ [k EXCEPT !.y = @ - 1].x = k.x
    BY <1>2, <2>1, SMT DEF YdWorks
  <2>4. [k EXCEPT !.y = @ + 1] \in YdWorks /\ [k EXCEPT !.y = @ + 1].x = k.x
    BY <1>2, <2>1, SMT DEF YdWorks
  <2>5. Before(k).typ = "yd" /\ After(k).typ = "yd"
    BY <2>1, <2>2, <2>3, <2>4, LinIs
  <2> QED BY <2>1, <2>2, <2>3, <2>4, <2>5
<1> QED
  BY <1>1, <1>2

\* How long the month or the year under way is does not depend on the day.
LEMMA SpanIs ==
  ASSUME NEW k \in YmdWorks \union YdWorks, NEW x \in Int
  PROVE  /\ k.x \in Int
         /\ Span(k) \in Int /\ 28 <= Span(k)
         /\ [k EXCEPT !.x = x] \in YmdWorks \union YdWorks
         /\ [k EXCEPT !.x = x].typ = k.typ
         /\ [k EXCEPT !.x = x].x = x
         /\ Span([k EXCEPT !.x = x]) = Span(k)
<1>1. CASE k \in YmdWorks
  <2> DEFINE c == [k EXCEPT !.x = x]
  <2>1. c \in YmdWorks /\ c.y = k.y /\ c.m = k.m /\ c.x = x
    BY <1>1, RefitX, Zenon
  <2>2. k.x \in Int /\ k.y \in Int /\ k.m \in 1 .. 12 /\ k.typ = "ymd" /\ Span(k) = GetMdays(k.y, k.m)
    BY <1>1, LinIs
  <2> HIDE DEF c
  <2>3. c.typ = "ymd" /\ Span(c) = GetMdays(k.y, k.m)
    BY <2>1, LinIs
  <2>4. GetMdays(k.y, k.m) \in 28 .. 31
    BY <2>2, MonthStep
  <2>5. GetMdays(k.y, k.m) \in Int /\ 28 <= GetMdays(k.y, k.m)
    BY <2>4, SMT
  <2> QED BY <2>1, <2>2, <2>3, <2>5 DEF c
<1>2. CASE k \in YdWorks
  <2> DEFINE c == [k EXCEPT !.x = x]
  <2>1. c \in YdWorks /\ c.y = k.y /\ c.x = x
    BY <1>2, SMT DEF YdWorks
  <2>2. k.x \in Int /\ k.y \in Int /\ k.typ = "yd" /\ Span(k) = GetYdays(k.y)
    BY <1>2, LinIs
  <2> HIDE DEF c
  <2>3. c.typ = "yd" /\ Span(c) = GetYdays(k.y)
    BY <2>1, LinIs
  <2>4. GetYdays(k.y) \in 365 .. 366
    BY <2>2, YearStep
  <2>5. GetYdays(k.y) \in Int /\ 28 <= GetYdays(k.y)
    BY <2>4, SMT
  <2> QED BY <2>1, <2>2, <2>3, <2>5 DEF c
<1> QED
  BY <1>1, <1>2

\* A turn either way: the day meant stays, the smallest field comes nearer.
LEMMA TurnsAre ==
  ASSUME NEW k \in YmdWorks \union YdWorks
  PROVE  /\ Borrow(Before(k)) \in YmdWorks \union YdWorks
         /\ Borrow(Before(k)).typ = k.typ
         /\ Lin(Borrow(Before(k))) = Lin(k)
         /\ Borrow(Before(k)).x = k.x + Span(Borrow(Before(k)))
         /\ [After(k) EXCEPT !.x = Over(k)] \in YmdWorks \union YdWorks
         /\ [After(k) EXCEPT !.x = Over(k)].typ = k.typ
         /\ Lin([After(k) EXCEPT !.x = Over(k)]) = Lin(k)
         /\ [After(k) EXCEPT !.x = Over(k)].x = k.x - Span(k)
<1> DEFINE b == Before(k)
           a == After(k)
           n == b.x + Span(b)
           m == k.x - Span(k)
<1>1. b \in YmdWorks \union YdWorks /\ b.typ = k.typ /\ b.x = k.x
  BY NextKeepsX
<1>2. a \in YmdWorks \union YdWorks /\ a.typ = k.typ /\ a.x = k.x
  BY NextKeepsX
<1>3. Borrow(b) = [b EXCEPT !.x = @ + Span(b)] /\ Borrow(b) = [b EXCEPT !.x = n]
  BY DEF Borrow
<1>4. [a EXCEPT !.x = Over(k)] = [a EXCEPT !.x = m] /\ [a EXCEPT !.x = m] = [a EXCEPT !.x = @ - Span(k)]
  BY <1>2 DEF Over
<1>5. /\ Lin([b EXCEPT !.x = @ + Span(b)]) = Lin(k)
      /\ Lin([a EXCEPT !.x = @ - Span(k)]) = Lin(k)
  BY MonthTurn, YearTurn, Zenon
<1>6. n \in Int /\ m \in Int
  <2>1. 0 \in Int
    OBVIOUS
  <2>2. b.x \in Int /\ Span(b) \in Int /\ k.x \in Int /\ Span(k) \in Int
    BY <1>1, <2>1, SpanIs, Zenon
  <2> QED BY <2>2
<1> HIDE DEF a, b
<1>7. n = k.x + Span(b) /\ m = k.x - Span(k)
  BY <1>1
<1> HIDE DEF n, m
<1>8. [b EXCEPT !.x = n] \in YmdWorks \union YdWorks /\ [b EXCEPT !.x = n].typ = b.typ
      /\ [b EXCEPT !.x = n].x = n /\ Span([b EXCEPT !.x = n]) = Span(b)
  BY <1>1, <1>6, SpanIs
<1>9. [a EXCEPT !.x = m] \in YmdWorks \union YdWorks /\ [a EXCEPT !.x = m].typ = a.typ
      /\ [a EXCEPT !.x = m].x = m
  BY <1>2, <1>6, SpanIs
<1> QED
  BY <1>1, <1>2, <1>3, <1>4, <1>5, <1>7, <1>8, <1>9, Zenon DEF a, b

\* The loops end in a date of the day that was under way.
LEMMA CarriedEnds ==
  ASSUME NEW k \in YmdWorks \union YdWorks
  PROVE  \E f \in YmdWorks \union YdWorks :
           f.typ = k.typ /\ f.x \in 1 .. Span(f) /\ Lin(f) = Lin(k) /\ Carried[k] = Fold(f)
<1> DEFINE W == YmdWorks \union YdWorks
           Ends(j) == \E f \in W : f.typ = j.typ /\ f.x \in 1 .. Span(f) /\ Lin(f) = Lin(j) /\ Carried[j] = Fold(f)
           S == {n \in Nat : \A j \in W : 1 - n <= j.x /\ j.x <= n => Ends(j)}
<1>1. \A j \in W : j \in Works
  BY SMT DEF YmdWorks, YdWorks, Works
<1>2. ASSUME NEW j \in W
      PROVE  j.x \in Int /\ Span(j) \in Int /\ 28 <= Span(j)
  <2>1. 0 \in Int
    OBVIOUS
  <2> QED BY <2>1, SpanIs, Zenon
<1>3. ASSUME NEW j \in W, j.x \in 1 .. Span(j)
      PROVE  Ends(j)
  <2>1. ~(j.x < 1) /\ ~(Over(j) > 0)
    BY <1>2, <1>3, SMT DEF Over
  <2>2. Carried[j] = Fold(j)
    BY <1>1, <2>1, CarriedIs, Zenon
  <2> QED BY <1>3, <2>2
<1>4. ASSUME NEW j \in W, j.x < 1, Ends(Borrow(Before(j)))
      PROVE  Ends(j)
  <2>1. Carried[j] = Carried[Borrow(Before(j))]
    BY <1>1, <1>4, CarriedIs, Zenon
  <2>2. Borrow(Before(j)).typ = j.typ /\ Lin(Borrow(Before(j))) = Lin(j)
    BY TurnsAre
  <2> QED BY <1>4, <2>1, <2>2, Zenon
<1>5. ASSUME NEW j \in W, ~(j.x < 1), Over(j) > 0, Ends([After(j) EXCEPT !.x = Over(j)])
      PROVE  Ends(j)
  <2>1. Carried[j] = Carried[[After(j) EXCEPT !.x = Over(j)]]
    BY <1>1, <1>5, CarriedIs, Zenon
  <2>2. [After(j) EXCEPT !.x = Over(j)].typ = j.typ /\ Lin([After(j) EXCEPT !.x = Over(j)]) = Lin(j)
    BY TurnsAre
  <2> QED BY <1>5, <2>1, <2>2, Zenon
<1> HIDE DEF Ends, W
<1>6. 0 \in S
  <2>1. ASSUME NEW j \in W PROVE ~(1 - 0 <= j.x /\ j.x <= 0)
    BY <1>2, SMT
  <2> QED BY <2>1
<1>7. ASSUME NEW n \in Nat, n \in S
      PROVE  n + 1 \in S
  <2> SUFFICES ASSUME NEW j \in W, 1 - (n + 1) <= j.x, j.x <= n + 1
               PROVE  Ends(j)
    OBVIOUS
  <2>1. j.x \in Int /\ Span(j) \in Int /\ 28 <= Span(j)
    BY <1>2
  <2>2. ASSUME NEW i \in W, 1 - n <= i.x, i.x <= n
        PROVE  Ends(i)
    BY <1>7, <2>2
  <2>3. CASE j.x < 1
    <3> DEFINE b == Borrow(Before(j))
    <3>1. b \in W /\ b.x = j.x + Span(b)
      BY TurnsAre DEF W
    <3> HIDE DEF b
    <3>2. b.x \in Int /\ Span(b) \in Int /\ 28 <= Span(b)
      BY <1>2, <3>1
    <3>3. Ends(b)
      <4>1. CASE b.x < 1
        <5>1. 1 - n <= b.x /\ b.x <= n
          BY <2>1, <3>1, <3>2, <4>1, SMT
        <5> QED BY <2>2, <3>1, <5>1
      <4>2. CASE ~(b.x < 1)
        <5>1. b.x \in 1 .. Span(b)
          BY <2>1, <2>3, <3>1, <3>2, <4>2, SMT
        <5> QED BY <1>3, <3>1, <5>1
      <4> QED BY <4>1, <4>2
    <3> QED BY <1>4, <2>3, <3>3 DEF b
  <2>4. CASE ~(j.x < 1) /\ Over(j) > 0
    <3> DEFINE a == [After(j) EXCEPT !.x = Over(j)]
    <3>1. a \in W /\ a.x = j.x - Span(j) /\ Over(j) = j.x - Span(j)
      BY TurnsAre DEF W, Over
    <3> HIDE DEF a
    <3>2. 1 - n <= a.x /\ a.x <= n
      BY <2>1, <2>4, <3>1, SMT
    <3>3. Ends(a)
      BY <2>2, <3>1, <3>2
    <3> QED BY <1>5, <2>4, <3>3 DEF a
  <2>5. CASE ~(j.x < 1) /\ ~(Over(j) > 0)
    <3>1. j.x \in 1 .. Span(j)
      BY <2>1, <2>5, SMT DEF Over
    <3> QED BY <1>3, <3>1
  <2> QED BY <2>3, <2>4, <2>5
<1>8. Nat \subseteq S
  <2> HIDE DEF S
  <2> QED BY <1>6, <1>7, AllNats, Zenon
<1>9. k \in W
  BY DEF W
<1>10. \E n \in Nat : 1 - n <= k.x /\ k.x <= n
  <2>1. k.x \in Int
    BY <1>2, <1>9
  <2>2. CASE k.x >= 1
    BY <2>1, <2>2, SMT
  <2>3. CASE ~(k.x >= 1)
    <3> DEFINE n == 1 - k.x
    <3>1. n \in Nat /\ 1 - n <= k.x /\ k.x <= n
      BY <2>1, <2>3, SMT
    <3> HIDE DEF n
    <3> QED BY <3>1
  <2> QED BY <2>2, <2>3
<1>11. Ends(k)
  BY <1>8, <1>9, <1>10
<1> QED
  BY <1>11 DEF Ends, W

-----------------------------------------------------------------------------
(* All of an addition of days at once. *)

DaisyDates == [typ : {"daisy"}, n : Int]

\* Dates that days can be added to, and those of them that are a day.
DayDates == YmdDates \union YdDates \union DaisyDates
CrispDates == Ymds \union Yds \union DaisyDates

\* The calendar tells what the fields of a date are.
LEMMA KindsAre ==
  /\ \A d \in YmdDates : d.typ = "ymd" /\ d \in DayDates
  /\ \A d \in YdDates : d.typ = "yd" /\ d \in DayDates
  /\ \A d \in DaisyDates : d.typ = "daisy" /\ d.n \in Int /\ d \in DayDates
  /\ \A d \in CrispDates : d \in DayDates
  /\ \A d \in DayDates : /\ d.typ = "ymd" => d \in YmdDates
                         /\ d.typ = "yd" => d \in YdDates
                         /\ d.typ = "daisy" => d \in DaisyDates
  /\ \A d \in CrispDates : /\ d.typ = "ymd" => d \in Ymds
                           /\ d.typ = "yd" => d \in Yds
<1>1. \A d \in YmdDates : d.typ = "ymd"
  BY SMT DEF YmdDates
<1>2. \A d \in YdDates : d.typ = "yd"
  BY SMT DEF YdDates
<1>3. \A d \in DaisyDates : d.typ = "daisy" /\ d.n \in Int
  BY SMT DEF DaisyDates
<1>4. (\A d \in Ymds : d \in YmdDates) /\ (\A d \in Yds : d \in YdDates)
  BY DEF Ymds, Yds
<1>5. \A d \in CrispDates : d \in DayDates
  BY <1>4 DEF CrispDates, DayDates
<1>6. "ymd" # "yd" /\ "ymd" # "daisy" /\ "yd" # "daisy"
  OBVIOUS
<1>7. \A d \in DayDates : /\ d.typ = "ymd" => d \in YmdDates
                          /\ d.typ = "yd" => d \in YdDates
                          /\ d.typ = "daisy" => d \in DaisyDates
  BY <1>1, <1>2, <1>3, <1>6, Zenon DEF DayDates
<1>8. \A d \in CrispDates : /\ d.typ = "ymd" => d \in Ymds
                            /\ d.typ = "yd" => d \in Yds
  BY <1>1, <1>2, <1>3, <1>4, <1>6, Zenon DEF CrispDates
<1> QED
  BY <1>1, <1>2, <1>3, <1>5, <1>7, <1>8, Zenon DEF DayDates

\* dt_dadd_d(): dates stay dates of their calendar, and the day is the one that
\* was to be reached if there is a year for it.
LEMMA DAddDIs ==
  ASSUME NEW d \in YmdDates \union YdDates, NEW num \in Int, num # 0
  PROVE  /\ DAddD(d, num) \in YmdDates \union YdDates
         /\ DAddD(d, num).typ = d.typ
         /\ Meant(d) + num \in CivilDays =>
              DAddD(d, num) \in Ymds \union Yds /\ Reading(DAddD(d, num)) = Meant(d) + num
<1>1. d.typ \in {"ymd", "yd"}
  BY KindsAre
<1>2. DAddD(d, num) = Carried[DaysOn(d, num)]
  BY <1>1, SMT DEF DAddD, Numbers
<1>3. /\ DaysOn(d, num) \in YmdWorks \union YdWorks
      /\ Lin(DaysOn(d, num)) = Meant(d) + num
  BY DaysOnIsMeant
<1>4. DaysOn(d, num).typ = d.typ
  BY WorksKeepTyp
<1>5. PICK f \in YmdWorks \union YdWorks :
        f.typ = d.typ /\ f.x \in 1 .. Span(f) /\ Lin(f) = Meant(d) + num /\ DAddD(d, num) = Fold(f)
  BY <1>2, <1>3, <1>4, CarriedEnds, Zenon
<1>6. /\ Fold(f) \in YmdDates \union YdDates
      /\ Fold(f).typ = f.typ
      /\ Lin(f) \in CivilDays => Reading(Fold(f)) = Lin(f)
  BY <1>5, FoldIsDate, Zenon
<1>7. Lin(f) \in CivilDays => Fold(f) \in Ymds \union Yds
  BY <1>5, FoldIsCrisp
<1> QED
  BY <1>5, <1>6, <1>7, Zenon

\* __daisy_add_d(), __ymd_add_d(), __yd_add_d(): the calendar stays.
LEMMA DAddDKeeps ==
  ASSUME NEW d \in DayDates, NEW num \in Int
  PROVE  DAddD(d, num) \in DayDates /\ DAddD(d, num).typ = d.typ
<1>1. CASE num = 0
  BY <1>1 DEF DAddD
<1>2. CASE num # 0 /\ d \in DaisyDates
  <2>1. d.typ = "daisy" /\ d.n \in Int
    BY <1>2, KindsAre
  <2>2. DayNumber(d) \in Int
    BY <2>1, SMT DEF DayNumber
  <2> DEFINE n == DayNumber(d) + num + 0
  <2>3. n \in Int
    BY <2>2
  <2>4. DAddD(d, num) = [d EXCEPT !.n = n]
    BY <1>2, <2>1, SMT DEF DAddD, NumberOn, Numbers
  <2> HIDE DEF n
  <2>5. [d EXCEPT !.n = n] \in DaisyDates
    BY <1>2, <2>3 DEF DaisyDates
  <2> QED BY <2>1, <2>4, <2>5, KindsAre
<1>3. CASE num # 0 /\ d \in YmdDates \union YdDates
  BY <1>3, DAddDIs DEF DayDates
<1> QED
  BY <1>1, <1>2, <1>3, Zenon DEF DayDates

\* ... for a date of any of them.
LEMMA DaysAreAdded ==
  ASSUME NEW d \in CrispDates, NEW num \in Int,
         ConvToDaisy(d) \in CivilDays, ConvToDaisy(d) + num \in CivilDays
  PROVE  /\ DAddD(d, num) \in CrispDates
         /\ DAddD(d, num).typ = d.typ
         /\ ConvToDaisy(DAddD(d, num)) = ConvToDaisy(d) + num
<1>0. \A n \in CivilDays : n \in Int /\ n > 0
  BY SMT DEF CivilDays
<1>1. CASE num = 0
  BY <1>0, <1>1 DEF DAddD
<1>2. CASE num # 0 /\ d \in DaisyDates
  <2>1. d.typ = "daisy" /\ d.n \in Int
    BY <1>2, KindsAre
  <2>2. ConvToDaisy(d) = DayNumber(d)
    BY <2>1, SMT DEF ConvToDaisy, Numbers
  <2> DEFINE n == DayNumber(d) + num
  <2>3. n \in Int /\ n > 0
    BY <1>0, <2>2
  <2>4. DAddD(d, num) = [d EXCEPT !.n = n]
    BY <1>0, <1>2, <2>1, <2>2, SMT DEF DAddD, NumberOn, Numbers
  <2> HIDE DEF n
  <2>5. [d EXCEPT !.n = n] \in DaisyDates /\ [d EXCEPT !.n = n].n = n /\ [d EXCEPT !.n = n].typ = "daisy"
    BY <1>2, <2>3, SMT DEF DaisyDates
  <2>6. ConvToDaisy(DAddD(d, num)) = n
    BY <2>3, <2>4, <2>5, SMT DEF ConvToDaisy, Numbers, DayNumber
  <2> QED BY <2>1, <2>2, <2>4, <2>5, <2>6 DEF CrispDates, n
<1>3. CASE num # 0 /\ d \in Ymds \union Yds
  <2>1. d \in YmdDates \union YdDates
    BY <1>3 DEF Ymds, Yds
  <2>2. /\ Reading(d) = ConvToDaisy(d)
        /\ Meant(d) = Reading(d)
    <3>1. CASE d \in Ymds
      <4>1. d \in YmdDates /\ d.typ = "ymd" /\ DFixup(d) = d /\ DFixup(d) = YmdFixup(d)
        BY <3>1, FixupIsCrisp, KindsAre DEF Ymds
      <4> QED BY <4>1, ConvToDaisyIs DEF Meant
    <3>2. CASE d \in Yds
      <4>1. d \in YdDates /\ d.typ = "yd"
        BY <3>2, KindsAre DEF Yds
      <4>2. d.y >= 1601
        <5> SUFFICES ASSUME ~(d.y >= 1601) PROVE FALSE
          OBVIOUS
        <5>1. d.y \in Int
          BY <4>1, SMT DEF YdDates, Years16
        <5>2. ConvToDaisy(d) = 0
          BY <4>1, <5>1, SMT DEF ConvToDaisy, YdToDaisy, Numbers, MIN_YEAR
        <5> QED BY <1>0, <5>2
      <4> QED BY <4>1, <4>2, ConvToDaisyIs DEF Meant
    <3> QED BY <1>3, <3>1, <3>2
  <2>3. /\ DAddD(d, num).typ = d.typ
        /\ DAddD(d, num) \in Ymds \union Yds /\ Reading(DAddD(d, num)) = ConvToDaisy(d) + num
    BY <1>3, <2>1, <2>2, DAddDIs
  <2> DEFINE e == DAddD(d, num)
  <2>4. e \in Ymds \union Yds /\ Reading(e) = ConvToDaisy(d) + num
    BY <2>3
  <2> HIDE DEF e
  <2>5. ConvToDaisy(e) = Reading(e)
    <3>1. CASE e \in Ymds
      <4>1. e \in YmdDates
        BY <3>1 DEF Ymds
      <4> QED BY <4>1, ConvToDaisyIs
    <3>2. CASE e \in Yds
      <4>1. e \in YdDates
        BY <3>2 DEF Yds
      <4>2. e.y >= 1601
        BY <1>0, <2>4, <3>2, LateYears
      <4> QED BY <4>1, <4>2, ConvToDaisyIs
    <3> QED BY <2>4, <3>1, <3>2
  <2> QED BY <2>3, <2>4, <2>5, Zenon DEF CrispDates, e
<1> QED
  BY <1>1, <1>2, <1>3, Zenon DEF CrispDates

\* A loop ends in a date of its calendar.
LEMMA CarriedIsDate ==
  ASSUME NEW k \in YmdWorks \union YdWorks
  PROVE  Carried[k] \in YmdDates \union YdDates /\ Carried[k].typ = k.typ
<1>1. PICK f \in YmdWorks \union YdWorks :
        f.typ = k.typ /\ f.x \in 1 .. Span(f) /\ Lin(f) = Lin(k) /\ Carried[k] = Fold(f)
  BY CarriedEnds
<1>2. Fold(f) \in YmdDates \union YdDates /\ Fold(f).typ = f.typ
  BY <1>1, FoldIsDate, Zenon
<1> QED
  BY <1>1, <1>2, Zenon

Units == {"d", "w", "b", "mo", "q", "y"}

\* dt_dadd(): whatever is added, a date stays one of its calendar.
LEMMA DAddKeeps ==
  ASSUME NEW d \in DayDates, NEW unit \in Units, NEW num \in Int
  PROVE  DAdd(d, unit, num) \in DayDates /\ DAdd(d, unit, num).typ = d.typ
<1>1. CASE d \in DaisyDates
  <2>1. d.typ = "daisy" /\ d.n \in Int
    BY <1>1, KindsAre
  <2>2. ASSUME NEW k \in Int
        PROVE  NumberOn(d, k) \in DaisyDates
    <3> DEFINE n == DayNumber(d) + k + 0
    <3>1. n \in Int
      BY <2>1, SMT DEF DayNumber
    <3>2. NumberOn(d, k) = [d EXCEPT !.n = n]
      BY <2>1, SMT DEF NumberOn
    <3> HIDE DEF n
    <3> QED BY <1>1, <3>1, <3>2 DEF DaisyDates
  <2>3. /\ DaysIn(d, "d", num) \in Int /\ DaysIn(d, "w", num) \in Int
        /\ DaysIn(d, "b", num) \in Int
    <3>1. DaisyGetWday(DayNumber(d)) \in Int
      BY <2>1, SMT DEF DaisyGetWday, DayNumber, OrElse, SUNDAY
    <3>2. DEquiv(DaisyGetWday(DayNumber(d)), num) \in Int
      BY <3>1, DEquivIsInt
    <3> HIDE DEF DEquiv
    <3> QED BY <3>2 DEF DaysIn
  <2>4. unit \in {"d", "w", "b"} => DaysIn(d, unit, num) \in Int
    BY <2>3
  <2>5. DAdd(d, unit, num) \in {d, NumberOn(d, DaysIn(d, unit, num))}
        /\ (unit \notin {"d", "w", "b"} => DAdd(d, unit, num) = d)
    BY <2>1, SMT DEF DAdd, DAddDays, DAddM, YearsOn, Numbers, Units
  <2>6. DAdd(d, unit, num) \in DaisyDates
    BY <1>1, <2>2, <2>4, <2>5
  <2> QED BY <2>1, <2>6, KindsAre
<1>2. CASE d \in YmdDates \union YdDates
  <2>1. d.typ \in {"ymd", "yd"}
    BY <1>2, KindsAre
  <2>2. \A k \in Int : /\ Carried[DaysOn(d, k)] \in YmdDates \union YdDates
                       /\ Carried[DaysOn(d, k)].typ = d.typ
    BY <1>2, DaysOnIsMeant, WorksKeepTyp, CarriedIsDate
  <2>3. \A k \in Int : /\ Carried[BizdaysOn(d, k)] \in YmdDates \union YdDates
                       /\ Carried[BizdaysOn(d, k)].typ = d.typ
    BY <1>2, BizdaysOnIsWork, WorksKeepTyp, CarriedIsDate
  <2>4. \A k \in Int : /\ YearsOn(d, k) \in YmdDates \union YdDates
                       /\ YearsOn(d, k).typ = d.typ
    BY <1>2, CountedUpIsDate, KindsAre
  <2>5. \A k \in Int : /\ DAddM(d, k) \in YmdDates \union YdDates
                       /\ DAddM(d, k).typ = d.typ
    BY <1>2, <2>1, CountedUpIsDate, KindsAre DEF DAddM
  <2>6. CASE num = 0
    BY <1>2, <2>6, KindsAre DEF DAdd, DayDates
  <2>7. CASE num # 0 /\ unit \in {"d", "w", "b"}
    <3>1. DAdd(d, unit, num) = Carried[WorkOn(d, unit, num)]
      BY <2>1, <2>7 DEF DAdd, DAddDays, Numbers
    <3>2. \/ unit = "d" /\ WorkOn(d, unit, num) = DaysOn(d, num)
          \/ unit = "w" /\ WorkOn(d, unit, num) = DaysOn(d, 7 * num)
          \/ unit = "b" /\ WorkOn(d, unit, num) = BizdaysOn(d, num)
      BY <2>1, <2>7 DEF WorkOn, WeeksOn
    <3>3. 7 * num \in Int
      OBVIOUS
    <3> QED BY <2>2, <2>3, <3>1, <3>2, <3>3 DEF DayDates
  <2>8. CASE num # 0 /\ unit \in {"mo", "q"}
    <3>1. \/ DAdd(d, unit, num) = DAddM(d, num)
          \/ DAdd(d, unit, num) = DAddM(d, 3 * num)
      BY <2>1, <2>8 DEF DAdd
    <3>2. 3 * num \in Int
      OBVIOUS
    <3> QED BY <2>5, <3>1, <3>2 DEF DayDates
  <2>9. CASE num # 0 /\ unit = "y"
    <3>1. DAdd(d, unit, num) = YearsOn(d, num)
      BY <2>1, <2>9 DEF DAdd
    <3> QED BY <2>4, <3>1 DEF DayDates
  <2> QED BY <2>6, <2>7, <2>8, <2>9 DEF Units
<1> QED
  BY <1>1, <1>2 DEF DayDates

-----------------------------------------------------------------------------
(* Dates from day numbers. *)

\* __daisy_to_ymd() in the steps it takes: centuries, years and months that
\* begin in March.
DaySince(n) == n + (584693 + 146097 * 82)
Century(n) == (4 * DaySince(n) + 3) \div 146097
InCentury(n) == ((4 * DaySince(n) + 3) % 146097) \div 4
MarchYear(n) == (4 * InCentury(n) + 3) \div 1461
InMarchYear(n) == ((4 * InCentury(n) + 3) % 1461) \div 4

\* A century's days and the years' in it, all from March on.
LEMMA CenturiesAre ==
  ASSUME NEW n \in Int
  PROVE  /\ Century(n) \in Int /\ InCentury(n) \in Int /\ 0 <= InCentury(n) /\ InCentury(n) <= 36524
         /\ DaySince(n) = (146097 * Century(n)) \div 4 + InCentury(n)
         /\ InCentury(n) = 36524 => Century(n) % 4 = 3
<1> DEFINE a == DaySince(n)
           C == (4 * a + 3) \div 146097
           R == (4 * a + 3) % 146097
           q == R \div 4
<1>1. a \in Int
  BY SMT DEF DaySince
<1>2. Century(n) = C /\ InCentury(n) = q /\ DaySince(n) = a
  BY SMT DEF Century, InCentury
<1> HIDE DEF a
<1>3. C \in Int /\ R \in Int /\ 0 <= R /\ R <= 146096 /\ 4 * a + 3 = 146097 * C + R
  BY <1>1, SMT
<1> HIDE DEF C, R
<1>4. q \in Int /\ 4 * q <= R /\ R <= 4 * q + 3
  BY <1>3, SMT
<1> HIDE DEF q
<1>5. q \in Int /\ 0 <= q /\ q <= 36524
  BY <1>3, <1>4, SMT
<1>6. a = (146097 * C) \div 4 + q
  BY <1>1, <1>3, <1>4, SMT
<1>7. q = 36524 => C % 4 = 3
  BY <1>1, <1>3, <1>4, SMT
<1> QED BY <1>2, <1>3, <1>5, <1>6, <1>7, SMT

\* A year's days in its century.
LEMMA MarchYearsAre ==
  ASSUME NEW n \in Int
  PROVE  /\ MarchYear(n) \in 0 .. 99 /\ InMarchYear(n) \in 0 .. 365
         /\ InCentury(n) = (1461 * MarchYear(n)) \div 4 + InMarchYear(n)
         /\ InMarchYear(n) = 365 => /\ MarchYear(n) % 4 = 3
                                    /\ MarchYear(n) = 99 => InCentury(n) = 36524
<1> DEFINE r == InCentury(n)
           Z == (4 * r + 3) \div 1461
           R == (4 * r + 3) % 1461
           q == R \div 4
<1>1. /\ Century(n) \in Int /\ InCentury(n) \in Int /\ 0 <= InCentury(n) /\ InCentury(n) <= 36524
      /\ DaySince(n) = (146097 * Century(n)) \div 4 + InCentury(n)
      /\ InCentury(n) = 36524 => Century(n) % 4 = 3
  BY CenturiesAre, SMT
<1>2. r \in Int /\ 0 <= r /\ r <= 36524
  BY <1>1, SMT
<1>3. MarchYear(n) = Z /\ InMarchYear(n) = q
  BY SMT DEF MarchYear, InMarchYear
<1> HIDE DEF r
<1>4. Z \in Int /\ R \in Int /\ 0 <= R /\ R <= 1460 /\ 4 * r + 3 = 1461 * Z + R
  BY <1>2, SMT
<1> HIDE DEF Z, R
<1>5. q \in Int /\ 4 * q <= R /\ R <= 4 * q + 3
  BY <1>4, SMT
<1> HIDE DEF q
<1>6. Z \in 0 .. 99 /\ q \in 0 .. 365
  BY <1>2, <1>4, <1>5, SMT
<1>7. r = (1461 * Z) \div 4 + q
  BY <1>2, <1>4, <1>5, SMT
<1>8. q = 365 => Z % 4 = 3
  BY <1>2, <1>4, <1>5, SMT
<1>9. q = 365 /\ Z = 99 => r = 36524
  BY <1>2, <1>4, <1>5, SMT
<1>10. InCentury(n) = r
  BY DEF r
<1> QED BY <1>3, <1>6, <1>7, <1>8, <1>9, <1>10, SMT

\* The months from March on: the days before each, and where each ends.
LEMMA MarchMonthsAre ==
  ASSUME NEW q \in 0 .. 365
  PROVE  LET N3 == 2141 * q + 197913
             M == N3 \div 65536
             d == (N3 % 65536) \div 2141 + 1
         IN /\ M \in 3 .. 14 /\ d \in Int /\ 1 <= d
            /\ (979 * M - 2919) \div 32 + d - 1 = q
            /\ (q >= 306) = (M >= 13)
            /\ d <= (IF M = 14 THEN 29 ELSE IF M \in {4, 6, 9, 11} THEN 30 ELSE 31)
            /\ M = 14 /\ d = 29 => q = 365
<1> DEFINE N3 == 2141 * q + 197913
           M == N3 \div 65536
           d == (N3 % 65536) \div 2141 + 1
<1>1. M \in 3 .. 14 /\ N3 % 65536 = N3 - 65536 * M
  BY SMT
<1>2. ASSUME NEW k \in 3 .. 14, M = k
      PROVE /\ (979 * k - 2919) \div 32 + d - 1 = q /\ d \in Int /\ 1 <= d
            /\ (q >= 306) = (k >= 13)
            /\ d <= (IF k = 14 THEN 29 ELSE IF k \in {4, 6, 9, 11} THEN 30 ELSE 31)
            /\ k = 14 /\ d = 29 => q = 365
  <2>1. d = (N3 - 65536 * k) \div 2141 + 1
    BY <1>1, <1>2, SMT
  <2>2. 65536 * k <= N3 /\ N3 < 65536 * k + 65536
    BY <1>2, SMT
  <2> HIDE DEF d, M
  <2>3. CASE k = 3
    BY <2>1, <2>2, <2>3, SMT
  <2>4. CASE k = 4
    BY <2>1, <2>2, <2>4, SMT
  <2>5. CASE k = 5
    BY <2>1, <2>2, <2>5, SMT
  <2>6. CASE k = 6
    BY <2>1, <2>2, <2>6, SMT
  <2>7. CASE k = 7
    BY <2>1, <2>2, <2>7, SMT
  <2>8. CASE k = 8
    BY <2>1, <2>2, <2>8, SMT
  <2>9. CASE k = 9
    BY <2>1, <2>2, <2>9, SMT
  <2>10. CASE k = 10
    BY <2>1, <2>2, <2>10, SMT
  <2>11. CASE k = 11
    BY <2>1, <2>2, <2>11, SMT
  <2>12. CASE k = 12
    BY <2>1, <2>2, <2>12, SMT
  <2>13. CASE k = 13
    BY <2>1, <2>2, <2>13, SMT
  <2>14. CASE k = 14
    BY <2>1, <2>2, <2>14, SMT
  <2> QED
    BY <2>3, <2>4, <2>5, <2>6, <2>7, <2>8, <2>9, <2>10, <2>11, <2>12, <2>13, <2>14, SMT
<1> HIDE DEF M, d
<1> QED BY <1>1, <1>2, SMT DEF M, d, N3

\* How long the months are.
LEMMA MdaysAre ==
  ASSUME NEW y \in Int, NEW m \in 1 .. 12
  PROVE  /\ m \in {4, 6, 9, 11} => GetMdays(y, m) = 30
         /\ m \notin {2, 4, 6, 9, 11} => GetMdays(y, m) = 31
         /\ m = 2 /\ Leapp(y) => GetMdays(y, m) = 29
         /\ m = 2 => GetMdays(y, m) >= 28
<1>1. m + 1 \in 2 .. 13 /\ m \in Int
  BY SMT
<1> QED BY <1>1, MonYdayIs, SMT DEF GetMdays, MdGetYday, Leapp

\* dt_conv_to_ymd(): the date a day number is turned into is of that day, as
\* long as there are dates.
LEMMA DaisyToYmdIsDay ==
  ASSUME NEW n \in Int, 1 <= n, n <= 910674
  PROVE  DaisyToYmd(n) \in Ymds /\ Reading(DaisyToYmd(n)) = n
<1> DEFINE C == Century(n)
           Z == MarchYear(n)
           q == InMarchYear(n)
           r == InCentury(n)
           D == DaySince(n)
           N3 == 2141 * q + 197913
           M == N3 \div 65536
           J == One(q >= 306)
           y == 100 * C + Z - 400 * 82 + J
           m == M - 12 * J
           d == (N3 % 65536) \div 2141 + 1
<1>1. DaisyToYmd(n) = Ymd(y, m, d)
  BY SMT DEF DaisyToYmd, Century, MarchYear, InMarchYear, InCentury, DaySince
<1>2. /\ C \in Int /\ r \in Int /\ 0 <= r /\ r <= 36524
      /\ D = (146097 * C) \div 4 + r
      /\ r = 36524 => C % 4 = 3
  BY CenturiesAre, SMT
<1>3. /\ Z \in 0 .. 99 /\ q \in 0 .. 365
      /\ r = (1461 * Z) \div 4 + q
      /\ q = 365 => /\ Z % 4 = 3
                    /\ Z = 99 => r = 36524
  BY MarchYearsAre, SMT
<1>4. D = n + (584693 + 146097 * 82)
  BY SMT DEF DaySince
<1> HIDE DEF C, Z, q, r, D
<1>5. /\ M \in 3 .. 14 /\ d \in Int /\ 1 <= d
      /\ (979 * M - 2919) \div 32 + d - 1 = q
      /\ (q >= 306) = (M >= 13)
      /\ d <= (IF M = 14 THEN 29 ELSE IF M \in {4, 6, 9, 11} THEN 30 ELSE 31)
      /\ M = 14 /\ d = 29 => q = 365
  BY <1>3, MarchMonthsAre, SMT
<1> HIDE DEF M, d
<1>6. J \in 0 .. 1 /\ (J = 1) = (q >= 306)
  BY <1>3, SMT DEF One
<1> HIDE DEF J
<1>7. m \in 1 .. 12 /\ (J = 1) = (m <= 2) /\ M = m + 12 * J
  BY <1>5, <1>6, SMT
<1>8. y \in Int /\ 1601 <= y /\ y <= 4095
  BY <1>2, <1>3, <1>4, <1>6, SMT
<1> HIDE DEF m
<1>9. d <= GetMdays(y, m)
  <2>1. m = 2 /\ d = 29 => Leapp(y)
    <3>1. m = 2 /\ d = 29 => q = 365 /\ J = 1
      BY <1>5, <1>6, <1>7, SMT
    <3>2. J = 1 /\ Z % 4 = 3 => y % 4 = 0
      BY <1>2, <1>3, SMT
    <3>3. J = 1 /\ Z # 99 => y % 100 # 0
      BY <1>2, <1>3, SMT
    <3>4. J = 1 /\ Z = 99 /\ C % 4 = 3 => y % 400 = 0
      BY <1>2, <1>3, SMT
    <3> HIDE DEF y
    <3> QED BY <1>2, <1>3, <3>1, <3>2, <3>3, <3>4, SMT DEF Leapp
  <2> HIDE DEF y
  <2>2. M \in {4, 6, 9, 11} => m \in {4, 6, 9, 11}
    BY <1>5, <1>6, <1>7, SMT
  <2>3. /\ m \in {4, 6, 9, 11} => GetMdays(y, m) = 30
        /\ m \notin {2, 4, 6, 9, 11} => GetMdays(y, m) = 31
        /\ m = 2 /\ Leapp(y) => GetMdays(y, m) = 29
        /\ m = 2 => GetMdays(y, m) >= 28
    BY <1>7, <1>8, MdaysAre, SMT
  <2>4. GetMdays(y, m) \in 28 .. 31
    BY <1>7, <1>8, MonthStep, SMT
  <2> QED BY <1>5, <1>6, <1>7, <2>1, <2>2, <2>3, <2>4, SMT
<1>10. n = (1461 * (100 * C + Z)) \div 4 - C + C \div 4 + (979 * M - 2919) \div 32 + d - 1 - (584693 + 146097 * 82)
  <2>1. (1461 * (100 * C + Z)) \div 4 - C + C \div 4 = (146097 * C) \div 4 + (1461 * Z) \div 4
    BY <1>2, <1>3, SMT
  <2> QED BY <1>2, <1>3, <1>4, <1>5, <2>1, SMT
<1>11. Y12(y) = y
  BY <1>8, SMT DEF Y12
<1> DEFINE x == DaisyToYmd(n)
<1>12. x = [typ |-> "ymd", y |-> y, m |-> m, d |-> d]
  BY <1>1, <1>11, SMT DEF Ymd
<1>13. YmdToDaisy(x) = n
  <2>1. One(m <= 2) = J
    BY <1>6, <1>7, SMT DEF One
  <2>2. x.y + 400 * 82 - J = 100 * C + Z /\ (100 * C + Z) \div 100 = C
    BY <1>2, <1>3, <1>6, <1>12, SMT
  <2>3. x.m = m /\ x.d = d
    BY <1>12, SMT
  <2>4. (IF J = 1 THEN m + 12 ELSE m) = M
    BY <1>6, <1>7, SMT
  <2> HIDE DEF x
  <2> QED BY <1>10, <2>1, <2>2, <2>3, <2>4, SMT DEF YmdToDaisy
<1> HIDE DEF y
<1>14. y \in Years12 /\ d \in 1 .. 31
  BY <1>5, <1>8, SMT DEF Years12
<1>15. x \in YmdDates
  BY <1>7, <1>12, <1>14, SMT DEF YmdDates
<1>16. x.y = y /\ x.m = m /\ x.d = d
  BY <1>12, SMT
<1> HIDE DEF x
<1>17. x \in Ymds
  BY <1>9, <1>15, <1>16, SMT DEF Ymds
<1>18. x.y \in Int /\ x.m \in 1 .. 12 /\ x.d \in Int
  BY <1>5, <1>7, <1>8, <1>16, SMT
<1>19. YmdToDaisy(x) = (Jan00Daisy(x.y) + MdGetYday(x.y, x.m, 0)) + x.d
  BY <1>18, YmdToDaisyIs, SMT
<1>20. Reading(x) = (Jan00Daisy(x.y) + MdGetYday(x.y, x.m, 0)) + x.d
  BY <1>15, ReadingIs, SMT
<1> QED
  BY <1>13, <1>17, <1>19, <1>20, SMT DEF x

\* The last day a day number is turned into a date for, and the dates up to it.
LastDay == 910674
Datable(d) == d \in CrispDates /\ ConvToDaisy(d) \in Int /\ 1 <= ConvToDaisy(d) /\ ConvToDaisy(d) <= LastDay

\* What a date of a month or a year is cropped to is of its day.
LEMMA DatableIs ==
  ASSUME NEW d, Datable(d), d \in Ymds \union Yds
  PROVE  /\ d \in YmdDates \union YdDates
         /\ Reading(DFixup(d)) = ConvToDaisy(d)
         /\ Reading(DFixup(d)) \in CivilDays
<1> DEFINE n == ConvToDaisy(d)
<1>1. n \in Int /\ 1 <= n /\ n <= 910674
  BY SMT DEF Datable, LastDay
<1>2. n \in CivilDays
  BY <1>1, YearsBeyond, SMT DEF CivilDays
<1>3. DFixup(d) = d
  BY FixupIsCrisp, SMT
<1>4. d \in YmdDates \union YdDates
  BY SMT DEF Ymds, Yds
<1>5. Reading(d) = n
  <2>1. CASE d \in Ymds
    BY <2>1, ConvToDaisyIs, SMT DEF Ymds
  <2>2. CASE d \in Yds /\ d.y >= 1601
    BY <2>2, ConvToDaisyIs, SMT DEF Yds
  <2>3. CASE d \in Yds /\ d.y < 1601
    <3>1. d.typ = "yd"
      BY <2>3, SMT DEF Yds, YdDates
    <3>2. n = 0
      BY <2>3, <3>1, SMT DEF ConvToDaisy, YdToDaisy, MIN_YEAR, Numbers
    <3> QED BY <1>1, <3>2, SMT
  <2>4. d \in Yds => d.y \in Int
    BY SMT DEF Yds, YdDates, Years16
  <2> QED BY <2>1, <2>2, <2>3, <2>4, SMT
<1> QED BY <1>2, <1>3, <1>4, <1>5, SMT

\* dt_dconv(): the year, month and day of any date are of its day.
LEMMA YmdKeepsDay ==
  ASSUME NEW d, Datable(d)
  PROVE  /\ DConv("ymd", d) \in Ymds
         /\ Reading(DConv("ymd", d)) = ConvToDaisy(d)
<1> DEFINE n == ConvToDaisy(d)
<1>1. d \in CrispDates /\ n \in Int /\ 1 <= n /\ n <= 910674
  BY SMT DEF Datable, LastDay
<1>2. CASE d \in Ymds \union Yds
  <2>1. /\ DConv("ymd", d) \in Ymds \union Yds
        /\ DConv("ymd", d).typ = "ymd"
        /\ Reading(DConv("ymd", d)) = n
    BY <1>2, DatableIs, ConvertKeepsDay, SMT
  <2>2. \A e \in Yds : e.typ = "yd"
    BY SMT DEF Yds, YdDates
  <2> QED BY <2>1, <2>2, SMT
<1>3. CASE d \in DaisyDates
  <2>1. d.typ = "daisy" /\ d.n \in Int
    BY <1>3, SMT DEF DaisyDates
  <2>2. DFixup(d) = d
    BY <2>1, SMT DEF DFixup
  <2>3. ConvToDaisy(d) = DayNumber(d)
    BY <2>1, SMT DEF ConvToDaisy, Numbers
  <2>4. DConv("ymd", d) = DaisyToYmd(DayNumber(d))
    BY <2>1, <2>2, SMT DEF DConv, ConvTo, ConvToYmd, Numbers
  <2> QED BY <1>1, <2>3, <2>4, DaisyToYmdIsDay, SMT
<1> QED BY <1>1, <1>2, <1>3, SMT DEF CrispDates

-----------------------------------------------------------------------------
(* Differences, and adding them. *)

\* A year-month-day date as far as it matters here.
LEMMA YmdsAre ==
  ASSUME NEW a \in Ymds
  PROVE  /\ a \in YmdDates /\ a \in CrispDates /\ a.typ = "ymd" /\ a.y \in Int /\ a.y \in Years12
         /\ a.m \in 1 .. 12 /\ a.m \in Int /\ 1 <= a.m /\ a.m <= 12
         /\ a.d \in Int /\ 1 <= a.d /\ a.d <= GetMdays(a.y, a.m) /\ a.d <= 31
         /\ GetMdays(a.y, a.m) \in Int
         /\ Reading(a) = (Jan00Daisy(a.y) + MdGetYday(a.y, a.m, 0)) + a.d
         /\ Jan00Daisy(a.y) + MdGetYday(a.y, a.m, 0) \in Int
         /\ ConvToDaisy(a) = Reading(a) /\ Reading(a) \in Int
<1>1. /\ a \in YmdDates /\ a.y \in Int /\ a.y \in Years12 /\ a.typ = "ymd"
      /\ a.m \in 1 .. 12 /\ a.m \in Int /\ 1 <= a.m /\ a.m <= 12
      /\ a.d \in Int /\ 1 <= a.d /\ a.d <= GetMdays(a.y, a.m)
  BY SMT DEF Ymds, YmdDates, Years12
<1>2. a \in CrispDates
  BY DEF CrispDates
<1>3. GetMdays(a.y, a.m) \in 28 .. 31 /\ MdGetYday(a.y, a.m, 0) \in 0 .. 335
  BY <1>1, MonthStep
<1>4. Jan00Daisy(a.y) \in Int
  BY <1>1, YearStep
<1>5. Reading(a) = (Jan00Daisy(a.y) + MdGetYday(a.y, a.m, 0)) + a.d
  BY <1>1, ReadingIs, Zenon
<1>6. ConvToDaisy(a) = Reading(a)
  BY <1>1, ConvToDaisyIs
<1>7. Jan00Daisy(a.y) + MdGetYday(a.y, a.m, 0) \in Int
  BY <1>3, <1>4
<1>8. a.d <= 31 /\ GetMdays(a.y, a.m) \in Int
  BY <1>1, <1>3
<1> DEFINE f == Jan00Daisy(a.y) + MdGetYday(a.y, a.m, 0)
<1>9. Reading(a) \in Int
  <2>1. Reading(a) = f + a.d /\ f \in Int /\ a.d \in Int
    BY <1>1, <1>5, <1>7
  <2> HIDE DEF f
  <2> QED BY <2>1
<1> QED BY <1>1, <1>2, <1>5, <1>6, <1>7, <1>8, <1>9, Zenon

\* The months from a date to a later one.
LEMMA MonthsApartAre ==
  ASSUME NEW a \in Ymds, NEW b \in Ymds, Reading(a) <= Reading(b)
  PROVE  /\ MonthsApart(a, b) \in Nat
         /\ MonthsApart(a, b) = 0 => a.y = b.y /\ a.m = b.m /\ b.d - a.d = Reading(b) - Reading(a)
         /\ MonthsApart(a, b) = 1 => MdaysBefore([y |-> b.y, m |-> b.m]) = GetMdays(a.y, a.m)
<1> DEFINE m == MonthsApart(a, b)
           fa == Jan00Daisy(a.y) + MdGetYday(a.y, a.m, 0)
           fb == Jan00Daisy(b.y) + MdGetYday(b.y, b.m, 0)
<1>1. /\ a.y \in Int /\ a.m \in 1 .. 12 /\ a.m \in Int /\ 1 <= a.m /\ a.m <= 12
      /\ a.d \in Int /\ 1 <= a.d /\ a.d <= GetMdays(a.y, a.m) /\ Reading(a) = fa + a.d /\ fa \in Int
      /\ GetMdays(a.y, a.m) \in Int
  BY YmdsAre, Zenon
<1>2. /\ b.y \in Int /\ b.m \in 1 .. 12 /\ b.m \in Int /\ 1 <= b.m /\ b.m <= 12
      /\ b.d \in Int /\ 1 <= b.d /\ b.d <= GetMdays(b.y, b.m) /\ Reading(b) = fb + b.d /\ fb \in Int
      /\ GetMdays(b.y, b.m) \in Int
  BY YmdsAre, Zenon
<1>3. m = 12 * (b.y - a.y) + (b.m - a.m) /\ m \in Int
  BY <1>1, <1>2, SMT DEF MonthsApart
<1>4. m >= 0
  <2>1. ASSUME m < 0 PROVE FALSE
    <3>1. b.y < a.y \/ (b.y = a.y /\ b.m < a.m)
      <4> HIDE DEF m
      <4> QED BY <1>1, <1>2, <1>3, <2>1, SMT
    <3>2. Jan00Daisy(b.y) + MdGetYday(b.y, b.m, 0) + GetMdays(b.y, b.m) <= fa
      BY <1>1, <1>2, <3>1, MonthsInOrder
    <3>3. fb + GetMdays(b.y, b.m) <= fa
      BY <3>2 DEF fb
    <3> DEFINE g == GetMdays(b.y, b.m)
    <3>4. g \in Int /\ b.d <= g /\ fb + g <= fa
      BY <1>2, <3>3
    <3> HIDE DEF fa, fb, g
    <3> QED BY <1>1, <1>2, <3>4
  <2> HIDE DEF m
  <2> QED BY <1>3, <2>1
<1>5. m = 0 => b.d - a.d = Reading(b) - Reading(a) /\ a.y = b.y /\ a.m = b.m
  <2> HAVE m = 0
  <2>1. a.y = b.y /\ a.m = b.m
    <3>2. 12 * (b.y - a.y) + (b.m - a.m) = 0
      BY <1>3
    <3> DEFINE y == a.y
               z == b.y
               i == a.m
               j == b.m
    <3>3. y \in Int /\ z \in Int /\ i \in Int /\ j \in Int /\ 12 * (z - y) + (j - i) = 0
          /\ 1 <= i /\ i <= 12 /\ 1 <= j /\ j <= 12
      BY <1>1, <1>2, <3>2
    <3> HIDE DEF y, z, i, j
    <3>4. y = z /\ i = j
      BY <3>3, SMT
    <3> QED BY <3>4 DEF y, z, i, j
  <2>2. fa = fb
    BY <2>1
  <2> HIDE DEF fa, fb
  <2> QED BY <1>1, <1>2, <2>1, <2>2
<1>6. m = 1 => MdaysBefore([y |-> b.y, m |-> b.m]) = GetMdays(a.y, a.m)
  <2> HAVE m = 1
  <2> DEFINE p == MonthBefore([y |-> b.y, m |-> b.m])
  <2>1. p.y \in Int /\ p.m \in 1 .. 12 /\ 12 * p.y + p.m + 1 = 12 * b.y + b.m
    BY <1>2, SMT DEF MonthBefore
  <2>2. p.y = a.y /\ p.m = a.m
    <3> HIDE DEF p, m
    <3>1. p.m \in Int /\ 1 <= p.m /\ p.m <= 12
      BY <2>1
    <3>2. 12 * (b.y - a.y) + (b.m - a.m) = 1
      BY <1>3
    <3> DEFINE y == a.y
               z == b.y
               i == a.m
               j == b.m
               u == p.y
               v == p.m
    <3>3. y \in Int /\ z \in Int /\ i \in Int /\ j \in Int /\ 12 * (z - y) + (j - i) = 1
          /\ 1 <= i /\ i <= 12 /\ u \in Int /\ v \in Int /\ 1 <= v /\ v <= 12 /\ 12 * u + v + 1 = 12 * z + j
      BY <1>1, <1>2, <2>1, <3>1, <3>2
    <3> HIDE DEF y, z, i, j, u, v
    <3>4. u = y /\ v = i
      BY <3>3, SMT
    <3> QED BY <3>4 DEF y, i, u, v
  <2>3. MdaysBefore([y |-> b.y, m |-> b.m]) = GetMdays(p.y, p.m)
    BY Zenon DEF MdaysBefore
  <2> HIDE DEF p
  <2> QED BY <2>2, <2>3
<1>7. m \in Nat
  BY <1>3, <1>4
<1> QED BY <1>5, <1>6, <1>7, Zenon

\* __ymd_diff(): of two dates in order, months and at most thirty days.
LEMMA YmdApartIs ==
  ASSUME NEW neg, NEW a \in Ymds, NEW b \in Ymds, Reading(a) <= Reading(b)
  PROVE  /\ YmdApart(neg, a, b).m \in Nat
         /\ YmdApart(neg, a, b).d \in Int /\ 0 <= YmdApart(neg, a, b).d /\ YmdApart(neg, a, b).d <= 30
         /\ YmdApart(neg, a, b).neg = neg
         /\ Reading(a) = Reading(b) => YmdApart(neg, a, b).m = 0 /\ YmdApart(neg, a, b).d = 0
<1> DEFINE m == MonthsApart(a, b)
           d == b.d - a.d
           k == [y |-> b.y, m |-> b.m]
           g == MdaysBefore(k)
           e == YmdApart(neg, a, b)
<1>1. /\ m \in Nat
      /\ m = 0 => a.y = b.y /\ a.m = b.m /\ d = Reading(b) - Reading(a)
      /\ m = 1 => g = GetMdays(a.y, a.m)
  BY MonthsApartAre, Zenon
<1>2. /\ a.d \in Int /\ 1 <= a.d /\ a.d <= GetMdays(a.y, a.m) /\ a.d <= 31 /\ GetMdays(a.y, a.m) \in Int
      /\ b.d \in Int /\ 1 <= b.d /\ b.d <= 31 /\ b.m \in 1 .. 12 /\ b.y \in Int
      /\ Reading(a) \in Int /\ Reading(b) \in Int
  BY YmdsAre, Zenon
<1> DEFINE Months == [y : Int, m : 1 .. 12]
<1>3. ASSUME NEW r \in Months PROVE MonthBefore(r) \in Months
  <2> DEFINE u == [r EXCEPT !.y = r.y - 1]
  <2>1. r.m = 1 => MonthBefore(r) = [u EXCEPT !.m = 12]
    BY Zenon DEF MonthBefore
  <2>2. r.m # 1 => MonthBefore(r) = [r EXCEPT !.m = r.m - 1]
    BY Zenon DEF MonthBefore
  <2>3. u \in Months
    BY SMT
  <2>4. r.m # 1 => [r EXCEPT !.m = r.m - 1] \in Months
    BY SMT
  <2> HIDE DEF u
  <2>5. [u EXCEPT !.m = 12] \in Months
    BY <2>3, SMT
  <2> QED BY <2>1, <2>2, <2>4, <2>5
<1>4. \A r \in Months : MdaysBefore(r) \in 28 .. 31
  <2> SUFFICES ASSUME NEW r \in Months PROVE MdaysBefore(r) \in 28 .. 31
    OBVIOUS
  <2> DEFINE q == MonthBefore(r)
  <2>1. q \in Months
    BY <1>3
  <2>2. MdaysBefore(r) = GetMdays(q.y, q.m)
    BY Zenon DEF MdaysBefore
  <2> HIDE DEF q
  <2>3. q.y \in Int /\ q.m \in 1 .. 12
    BY <2>1
  <2> QED BY <2>2, <2>3, MonthStep
<1> DEFINE h == MdaysBefore(MonthBefore(k))
<1>5. g \in 28 .. 31 /\ h \in 28 .. 31
  <2>1. k \in Months
    BY <1>2
  <2>2. MonthBefore(k) \in Months
    BY <1>3, <2>1
  <2> HIDE DEF Months
  <2> QED BY <1>4, <2>1, <2>2
<1>6. e = IF d >= 0 \/ m = 0 THEN [neg |-> neg, m |-> m, d |-> d]
          ELSE IF d + g >= 0 THEN [neg |-> neg, m |-> m - 1, d |-> d + g]
          ELSE [neg |-> neg, m |-> m - 2, d |-> (d + g) + h]
  BY Zenon DEF YmdApart
<1>7. d \in Int /\ -30 <= d /\ d <= 30
  BY <1>2
<1>8. m = 1 => d + g >= 0
  BY <1>1, <1>2
<1>9. m = 0 => d >= 0
  <2> HAVE m = 0
  <2> HIDE DEF m, d
  <2> QED BY <1>1, <1>2
<1>10. Reading(a) = Reading(b) => a = b
  <2> HAVE Reading(a) = Reading(b)
  <2>1. MonthsApart(b, a) \in Nat
    <3>1. Reading(b) <= Reading(a)
      BY <1>2
    <3> QED BY <3>1, MonthsApartAre, Zenon
  <2>2. m = 0
    <3>1. a.y \in Int /\ b.y \in Int /\ a.m \in Int /\ b.m \in Int
      BY YmdsAre, Zenon
    <3>2. MonthsApart(b, a) = -m
      BY <3>1, SMT DEF MonthsApart
    <3> HIDE DEF m
    <3> QED BY <1>1, <2>1, <3>2
  <2>3. a.y = b.y /\ a.m = b.m /\ d = 0
    <3> HIDE DEF m, d
    <3> QED BY <1>1, <1>2, <2>2
  <2>4. a.d = b.d
    BY <1>2, <2>3
  <2> QED BY <2>3, <2>4, SMT DEF Ymds, YmdDates
<1>11. a = b => d = 0 /\ m = 0
  <2> HAVE a = b
  <2>1. d = 0
    BY <1>2
  <2>2. a.y \in Int /\ a.m \in Int
    BY YmdsAre, Zenon
  <2>3. m = 0
    BY <2>2, SMT DEF MonthsApart
  <2> QED BY <2>1, <2>3
<1> HIDE DEF m, d, k, g, h, e
<1>12. CASE d >= 0 \/ m = 0
  <2>1. e = [neg |-> neg, m |-> m, d |-> d]
    BY <1>6, <1>12
  <2>2. e.m = m /\ e.d = d /\ e.neg = neg
    BY <2>1
  <2> QED BY <1>1, <1>7, <1>9, <1>10, <1>11, <1>12, <2>2 DEF e
<1>13. CASE ~(d >= 0 \/ m = 0) /\ d + g >= 0
  <2>1. e = [neg |-> neg, m |-> m - 1, d |-> d + g]
    BY <1>6, <1>13
  <2>2. e.m = m - 1 /\ e.d = d + g /\ e.neg = neg
    BY <2>1
  <2> QED BY <1>1, <1>5, <1>7, <1>10, <1>11, <1>13, <2>2 DEF e
<1>14. CASE ~(d >= 0 \/ m = 0) /\ ~(d + g >= 0)
  <2>1. e = [neg |-> neg, m |-> m - 2, d |-> (d + g) + h]
    BY <1>6, <1>14
  <2>2. e.m = m - 2 /\ e.d = (d + g) + h /\ e.neg = neg
    BY <2>1
  <2> QED BY <1>1, <1>5, <1>7, <1>8, <1>10, <1>11, <1>14, <2>2 DEF e
<1> QED BY <1>12, <1>13, <1>14

\* Adding the months between two dates, and the days, leads from one to the other.
LEMMA MonthsLeadOn ==
  ASSUME NEW neg, NEW a \in Ymds, NEW b \in Ymds, Reading(a) <= Reading(b), a.d <= 28
  PROVE  /\ ConvToDaisy(DAddM(a, YmdApart(neg, a, b).m)) \in Int
         /\ ConvToDaisy(DAddM(a, YmdApart(neg, a, b).m)) + YmdApart(neg, a, b).d = Reading(b)
<1> DEFINE m == YmdApart(neg, a, b).m
           d == YmdApart(neg, a, b).d
           c == MonthsOn(a, m)
<1>1. Reading(c) + d = Reading(b)
  BY ApartAddsBack, Zenon
<1>2. m \in Nat /\ d \in Int
  BY YmdApartIs, Zenon
<1>3. a \in YmdDates /\ a.typ = "ymd" /\ a.y \in Years12 /\ a.y \in Int /\ a.m \in 1 .. 12 /\ a.m \in Int /\ a.d \in Int
      /\ ConvToDaisy(a) = Reading(a)
  BY YmdsAre, Zenon
<1>4. \A z \in YmdDates : Reading(z) \in Int /\ ConvToDaisy(z) = Reading(z)
  <2> SUFFICES ASSUME NEW z \in YmdDates PROVE Reading(z) \in Int /\ ConvToDaisy(z) = Reading(z)
    OBVIOUS
  <2>1. z.y \in Int /\ z.m \in 1 .. 12 /\ z.d \in Int
    BY SMT DEF YmdDates, Years12
  <2>2. Jan00Daisy(z.y) \in Int
    BY <2>1, YearStep
  <2>3. MdGetYday(z.y, z.m, 0) \in 0 .. 335
    BY <2>1, MonthStep
  <2>4. Reading(z) = (Jan00Daisy(z.y) + MdGetYday(z.y, z.m, 0)) + z.d
    BY ReadingIs, Zenon
  <2>5. (Jan00Daisy(z.y) + MdGetYday(z.y, z.m, 0)) + z.d \in Int
    <3> DEFINE i == Jan00Daisy(z.y)
               j == MdGetYday(z.y, z.m, 0)
               k == z.d
    <3>1. i \in Int /\ j \in Int /\ k \in Int
      BY <2>1, <2>2, <2>3
    <3> HIDE DEF i, j, k
    <3>2. (i + j) + k \in Int
      BY <3>1
    <3> QED BY <3>2 DEF i, j, k
  <2> QED BY <2>4, <2>5, ConvToDaisyIs, Zenon
<1>5. c \in YmdDates
  <2>1. m \in Int
    BY <1>2
  <2> HIDE DEF m
  <2> QED BY <1>3, <2>1, CountedUpIsDate
<1>6. m = 0 => Reading(c) = Reading(a)
  <2> HAVE m = 0
  <2>1. 0 \in Nat /\ 12 * a.y + a.m + 0 = 12 * a.y + a.m
    BY <1>3
  <2>2. /\ MonthsOn(a, 0) \in YmdDates
        /\ MonthsOn(a, 0).y = a.y /\ MonthsOn(a, 0).m = a.m /\ MonthsOn(a, 0).d = a.d
    BY <1>3, <2>1, MonthsOnIs, SMT
  <2>3. c.y = a.y /\ c.m = a.m /\ c.d = a.d
    BY <2>2
  <2> HIDE DEF c
  <2>4. Reading(c) = (Jan00Daisy(c.y) + MdGetYday(c.y, c.m, 0)) + c.d
    BY <1>5, ReadingIs, Zenon
  <2>5. Reading(a) = (Jan00Daisy(a.y) + MdGetYday(a.y, a.m, 0)) + a.d
    BY <1>3, ReadingIs, Zenon
  <2> QED BY <2>3, <2>4, <2>5
<1>7. m = 0 => DAddM(a, m) = a
  BY Zenon DEF DAddM
<1>8. m # 0 => DAddM(a, m) = c
  BY <1>3, SMT DEF DAddM
<1> HIDE DEF m, d, c
<1>9. ConvToDaisy(DAddM(a, m)) = Reading(c)
  BY <1>3, <1>4, <1>5, <1>6, <1>7, <1>8
<1> QED BY <1>1, <1>4, <1>5, <1>9 DEF m, d, c

\* __yd_diff(): of two dates in order, years that are not negative.
LEMMA YdApartIs ==
  ASSUME NEW neg, NEW a \in YdDates, NEW b \in YdDates,
         a.y < b.y \/ (a.y = b.y /\ a.d <= b.d)
  PROVE  /\ YdApart(neg, a, b).y \in Nat /\ YdApart(neg, a, b).d \in Int
         /\ YdApart(neg, a, b).neg = neg
<1>1. a.y \in Int /\ a.d \in Int /\ b.y \in Int /\ b.d \in Int
  BY SMT DEF YdDates, Years16
<1> DEFINE lateA == Leapp(a.y) /\ a.d >= 60
           lateB == Leapp(b.y) /\ b.d >= 60
           g == One(Leapp(a.y) /\ a.d > 60 /\ ~lateB)
           h == One(~Leapp(a.y) /\ a.d >= 60 /\ lateB)
           d == b.d - a.d + g - h
           e == YdApart(neg, a, b)
<1>2. g \in 0 .. 1 /\ h \in 0 .. 1 /\ One(lateB) \in 0 .. 1
  BY SMT DEF One
<1>3. d \in Int
  <2> HIDE DEF g, h
  <2> QED BY <1>1, <1>2
<1>4. a.y = b.y => d >= 0
  <2> HAVE a.y = b.y
  <2>1. a.d <= b.d
    BY <1>1
  <2>2. h = 0
    BY SMT DEF One
  <2> HIDE DEF g, h
  <2> QED BY <1>1, <1>2, <2>1, <2>2
<1>5. e = IF d < 0 THEN [neg |-> neg, y |-> b.y - a.y - 1, d |-> d + 365 + One(lateB)]
          ELSE [neg |-> neg, y |-> b.y - a.y, d |-> d]
  BY Zenon DEF YdApart
<1> DEFINE o == One(lateB)
<1> HIDE DEF d, e, o
<1>6. CASE d < 0
  <2>1. e.neg = neg /\ e.y = b.y - a.y - 1 /\ e.d = d + 365 + o
    BY <1>5, <1>6 DEF o
  <2>2. a.y < b.y
    BY <1>1, <1>3, <1>4, <1>6
  <2> QED BY <1>1, <1>2, <1>3, <2>1, <2>2 DEF e, o
<1>7. CASE ~(d < 0)
  <2>1. e.neg = neg /\ e.y = b.y - a.y /\ e.d = d
    BY <1>5, <1>7
  <2> QED BY <1>1, <1>3, <2>1 DEF e
<1> QED BY <1>6, <1>7

\* dt_dcmp(): dates in years and days are in the order of these.
LEMMA YdOrder ==
  ASSUME NEW a \in YdDates, NEW b \in YdDates
  PROVE  /\ DCmp(a, b) > 0 => b.y < a.y \/ (b.y = a.y /\ b.d <= a.d)
         /\ ~(DCmp(a, b) > 0) => a.y < b.y \/ (a.y = b.y /\ a.d <= b.d)
<1>1. a.y \in Int /\ a.d \in Int /\ b.y \in Int /\ b.d \in Int /\ a.typ = "yd" /\ b.typ = "yd"
  BY SMT DEF YdDates, Years16
<1> DEFINE s == <<a.y, a.d>>
           t == <<b.y, b.d>>
<1>2. DCmp(a, b) = Lexical(s, t)
  BY <1>1, Zenon DEF DCmp
<1>3. s \in [1 .. 2 -> Int] /\ t \in [1 .. 2 -> Int] /\ s[1] = a.y /\ s[2] = a.d /\ t[1] = b.y /\ t[2] = b.d
  BY <1>1, SMT
<1> HIDE DEF s, t
<1>4. /\ s[1] # t[1] => Lexical(s, t) = Sgn(s[1] - t[1])
      /\ s[1] = t[1] => Lexical(s, t) = Sgn(s[2] - t[2])
  BY <1>3, LexicalOf2, Zenon
<1>5. /\ a.y # b.y => DCmp(a, b) = Sgn(a.y - b.y)
      /\ a.y = b.y => DCmp(a, b) = Sgn(a.d - b.d)
  BY <1>2, <1>3, <1>4
<1>6. \A p, q \in Int : Sgn(p - q) > 0 <=> p > q
  BY SMT DEF Sgn, One
<1>7. /\ Sgn(a.y - b.y) > 0 <=> a.y > b.y
      /\ Sgn(a.d - b.d) > 0 <=> a.d > b.d
  BY <1>1, <1>6, Zenon
<1> DEFINE c == DCmp(a, b)
           i == Sgn(a.y - b.y)
           j == Sgn(a.d - b.d)
<1>8. /\ a.y # b.y => c = i
      /\ a.y = b.y => c = j
      /\ i > 0 <=> a.y > b.y
      /\ j > 0 <=> a.d > b.d
  BY <1>5, <1>7
<1> HIDE DEF c, i, j
<1> QED BY <1>1, <1>8, SMT DEF c

\* Days of the year: up to February they are the same in every year, from March
\* on a leap year is a day ahead.
LEMMA YdaysAre ==
  ASSUME NEW m \in 1 .. 12
  PROVE  \E b \in 0 .. 334 :
           /\ m <= 2 => b <= 31
           /\ m > 2 => b >= 59
           /\ \A y \in Int : MdGetYday(y, m, 0) = b + One(Leapp(y) /\ m > 2)
<1> DEFINE b == MonYday[m]
<1>1. b \in 0 .. 334 /\ (m <= 2 => b <= 31) /\ (m > 2 => b >= 59)
  BY MonYdayIs, SMT
<1>2. \A y \in Int : MdGetYday(y, m, 0) = b + One(Leapp(y) /\ m > 2)
  BY <1>1, SMT DEF MdGetYday, One
<1> QED BY <1>1, <1>2

\* Dates in years and days are in the order of these.
LEMMA YdsInOrder ==
  ASSUME NEW u \in Yds, NEW v \in Yds, Reading(u) <= Reading(v)
  PROVE  u.y < v.y \/ (u.y = v.y /\ u.d <= v.d)
<1>1. u \in YdDates /\ v \in YdDates
  BY DEF Yds
<1>2. Reading(u) \in Int /\ Reading(v) \in Int
  BY <1>1, ReadingIs
<1>3. DCmp(u, v) = Sgn(Reading(u) - Reading(v))
  BY DCmpIsOrder
<1>4. ~(DCmp(u, v) > 0)
  <2>0. Reading(u) < Reading(v) \/ Reading(u) = Reading(v)
    BY <1>2
  <2>1. DCmp(u, v) = -1 \/ DCmp(u, v) = 0
    BY <1>2, <1>3, <2>0, SgnIs, Zenon
  <2> QED BY <2>1
<1> QED BY <1>1, <1>4, YdOrder

\* Dates of one day, the one in months and the other in days of the year.
LEMMA YdOfYmd ==
  ASSUME NEW a \in Ymds, Reading(a) \in CivilDays, NEW u \in Yds, Reading(u) = Reading(a)
  PROVE  a.y \in CivilYears /\ u.y = a.y /\ u.d = MdGetYday(a.y, a.m, 0) + a.d
<1>1. /\ a \in YmdDates /\ a.y \in Int /\ a.m \in 1 .. 12 /\ a.d \in Int /\ a.typ = "ymd"
      /\ Reading(a) = (Jan00Daisy(a.y) + MdGetYday(a.y, a.m, 0)) + a.d
  BY YmdsAre, Zenon
<1>2. a.y \in CivilYears
  BY LateYears
<1>3. DFixup(a) = a
  BY FixupIsCrisp
<1> DEFINE w == DConv("yd", a)
<1>4. w \in Yds /\ Reading(w) = Reading(a)
  <2>1. /\ DConv("yd", a) \in Ymds \union Yds
        /\ DConv("yd", a).typ = "yd"
        /\ Reading(DConv("yd", a)) = Reading(a)
    BY <1>1, <1>3, ConvertKeepsDay
  <2>2. \A e \in Ymds : e.typ = "ymd"
    BY SMT DEF Ymds, YmdDates
  <2> QED BY <2>1, <2>2
<1>5. w = Yd(a.y, MdGetYday(a.y, a.m, 0) + a.d)
  <2>1. w = ConvTo("yd", a)
    BY <1>3 DEF DConv
  <2>2. w = YmdToYd(a)
    BY <1>1, <2>1, SMT DEF ConvTo, ConvToYd, Numbers
  <2>3. YmdGetYday(a) = MdGetYday(a.y, a.m, a.d)
    <3>1. a.y # 0
      BY <1>2 DEF CivilYears
    <3> QED BY <1>1, <3>1 DEF YmdGetYday
  <2>4. MdGetYday(a.y, a.m, a.d) = MdGetYday(a.y, a.m, 0) + a.d
    BY <1>1, YdayIs
  <2> QED BY <2>2, <2>3, <2>4 DEF YmdToYd
<1>6. w.y = a.y /\ w.d = MdGetYday(a.y, a.m, 0) + a.d
  <2>1. Y16(a.y) = a.y
    BY <1>2, SMT DEF CivilYears, Y16
  <2> QED BY <1>5, <2>1 DEF Yd
<1> HIDE DEF w
<1>7. u.y \in Int /\ u.d \in Int /\ w.y \in Int /\ w.d \in Int
  BY <1>4, SMT DEF Yds, YdDates, Years16
<1>8. Reading(u) \in Int
  <2>1. u \in YdDates
    BY DEF Yds
  <2> QED BY <2>1, ReadingIs
<1>9. /\ u.y < w.y \/ (u.y = w.y /\ u.d <= w.d)
      /\ w.y < u.y \/ (w.y = u.y /\ w.d <= u.d)
  <2>1. Reading(u) <= Reading(w) /\ Reading(w) <= Reading(u)
    BY <1>4, <1>8
  <2> QED BY <1>4, <2>1, YdsInOrder
<1>10. u.y = w.y /\ u.d = w.d
  BY <1>7, <1>9
<1> QED BY <1>2, <1>6, <1>10

\* Whether the 29th of February is over.
AfterFeb(d) == Leapp(d.y) /\ d.d >= 60

\* __yd_diff(): the years and days from a date to a later one lead there, by way
\* of the day of the month that the first one is, unless they lose the 29th of
\* February of the year before.
LEMMA YdApartLeads ==
  ASSUME NEW neg, NEW u \in Yds, NEW v \in Yds, Reading(u) <= Reading(v),
         NEW m \in 1 .. 12, NEW d \in 1 .. 28, u.d = MdGetYday(u.y, m, 0) + d,
         ~(m <= 2 /\ v.d < u.d /\ Leapp(v.y - 1))
  PROVE  /\ YdApart(neg, u, v).y \in Nat /\ YdApart(neg, u, v).d \in Int
         /\ u.y + YdApart(neg, u, v).y <= v.y
         /\ LET y == u.y + YdApart(neg, u, v).y
            IN ((Jan00Daisy(y) + MdGetYday(y, m, 0)) + d) + YdApart(neg, u, v).d = Reading(v)
<1> DEFINE r == YdApart(neg, u, v)
           g == One(Leapp(u.y) /\ u.d > 60 /\ ~AfterFeb(v))
           h == One(~Leapp(u.y) /\ u.d >= 60 /\ AfterFeb(v))
           k == v.d - u.d + g - h
           l == One(AfterFeb(v))
           T(y) == ((Jan00Daisy(y) + MdGetYday(y, m, 0)) + d)
<1>1. /\ u \in YdDates /\ u.y \in Int /\ u.d \in Int /\ u.d >= 1
      /\ v \in YdDates /\ v.y \in Int /\ v.d \in Int /\ v.d >= 1
  BY SMT DEF Yds, YdDates, Years16
<1>2. u.y < v.y \/ (u.y = v.y /\ u.d <= v.d)
  BY YdsInOrder
<1>3. r.y \in Nat /\ r.d \in Int
  BY <1>1, <1>2, YdApartIs
<1>4. Reading(v) = Jan00Daisy(v.y) + v.d
  BY <1>1, ReadingIs
<1>5. r = IF k < 0 THEN [neg |-> neg, y |-> v.y - u.y - 1, d |-> k + 365 + l]
          ELSE [neg |-> neg, y |-> v.y - u.y, d |-> k]
  BY Zenon DEF YdApart, AfterFeb
<1>6. PICK b \in 0 .. 334 :
        /\ m <= 2 => b <= 31
        /\ m > 2 => b >= 59
        /\ \A y \in Int : MdGetYday(y, m, 0) = b + One(Leapp(y) /\ m > 2)
  BY YdaysAre, Zenon
<1>7. \A y \in Int : MdGetYday(y, m, 0) = b + (IF Leapp(y) /\ m > 2 THEN 1 ELSE 0)
  BY <1>6, Zenon DEF One
<1>8. /\ u.d = b + (IF Leapp(u.y) /\ m > 2 THEN 1 ELSE 0) + d
      /\ b \in Int /\ m \in Int /\ d \in Int /\ 1 <= d /\ d <= 28 /\ 0 <= b
  BY <1>1, <1>6, <1>7
<1>9. m <= 2 => k = v.d - u.d /\ (k < 0 => l = 0)
  <2> HAVE m <= 2
  <2>1. u.d < 60
    BY <1>6, <1>8
  <2>2. g = 0 /\ h = 0
    BY <1>1, <2>1 DEF One
  <2>3. v.d < u.d => l = 0
    BY <1>1, <2>1 DEF One, AfterFeb
  <2> QED BY <1>1, <2>2, <2>3
<1>10. m > 2 => k = (v.d - (b + d)) - l /\ (k >= 0 => l = (IF Leapp(v.y) THEN 1 ELSE 0))
  <2> HAVE m > 2
  <2>1. b + d >= 60
    BY <1>6, <1>8
  <2>2. k = (v.d - (b + d)) - l
    <3>1. CASE Leapp(u.y)
      <4>1. u.d = b + d + 1 /\ u.d > 60
        BY <1>8, <2>1, <3>1
      <4>2. h = 0 /\ g = 1 - l
        BY <3>1, <4>1 DEF One
      <4> HIDE DEF g, h, l
      <4>3. l \in Int
        BY DEF l, One
      <4> QED BY <1>1, <1>8, <4>1, <4>2, <4>3
    <3>2. CASE ~Leapp(u.y)
      <4>1. u.d = b + d /\ u.d >= 60
        BY <1>8, <2>1, <3>2
      <4>2. g = 0 /\ h = l
        BY <1>1, <3>2, <4>1 DEF One
      <4> HIDE DEF g, h, l
      <4>3. l \in Int
        BY DEF l, One
      <4> QED BY <1>1, <1>8, <4>1, <4>2, <4>3
    <3> QED BY <3>1, <3>2
  <2>3. k >= 0 => l = (IF Leapp(v.y) THEN 1 ELSE 0)
    <3> HAVE k >= 0
    <3>1. l \in 0 .. 1
      BY DEF One
    <3> HIDE DEF k, l
    <3>2. v.d >= 60
      BY <1>1, <1>8, <2>1, <2>2, <3>1
    <3> QED BY <1>1, <3>2 DEF l, One, AfterFeb
  <2> QED BY <2>2, <2>3
<1>11. k \in Int /\ l \in 0 .. 1
  BY <1>1, SMT DEF One
<1>12. ASSUME NEW y \in Int PROVE T(y) = Jan00Daisy(y) + b + (IF Leapp(y) /\ m > 2 THEN 1 ELSE 0) + d /\ Jan00Daisy(y) \in Int
  BY <1>7, <1>8, YearStep
<1> HIDE DEF k, l, T
<1>13. CASE k < 0
  <2>1. r.y = v.y - u.y - 1 /\ r.d = k + 365 + l
    BY <1>5, <1>13
  <2> DEFINE y == v.y - 1
  <2>2. y \in Int /\ y = u.y + r.y /\ u.y + r.y <= v.y
    BY <1>1, <2>1
  <2>3. /\ Jan00Daisy(v.y) = Jan00Daisy(y) + (IF Leapp(y) THEN 366 ELSE 365)
        /\ Jan00Daisy(y) \in Int
    <3>1. y + 1 = v.y
      BY <1>1
    <3> HIDE DEF y
    <3>2. Jan00Daisy(y + 1) = Jan00Daisy(y) + GetYdays(y) /\ Jan00Daisy(y) \in Int
      BY <2>2, YearStep
    <3> QED BY <3>1, <3>2 DEF GetYdays
  <2>4. T(y) = Jan00Daisy(y) + b + (IF Leapp(y) /\ m > 2 THEN 1 ELSE 0) + d
    BY <1>12, <2>2
  <2>5. m <= 2 => ~Leapp(y)
    <3> HAVE m <= 2
    <3>1. v.d < u.d
      BY <1>1, <1>9, <1>13
    <3> QED BY <3>1
  <2>6. T(y) + r.d = Reading(v)
    <3> HIDE DEF y
    <3> QED BY <1>1, <1>4, <1>8, <1>9, <1>10, <1>11, <1>13, <2>1, <2>3, <2>4, <2>5
  <2> QED BY <1>3, <2>2, <2>6 DEF T
<1>14. CASE ~(k < 0)
  <2>1. r.y = v.y - u.y /\ r.d = k
    BY <1>5, <1>14
  <2>2. v.y = u.y + r.y
    BY <1>1, <2>1
  <2>3. T(v.y) = Jan00Daisy(v.y) + b + (IF Leapp(v.y) /\ m > 2 THEN 1 ELSE 0) + d /\ Jan00Daisy(v.y) \in Int
    BY <1>1, <1>12
  <2>4. T(v.y) + r.d = Reading(v)
    BY <1>1, <1>4, <1>8, <1>9, <1>10, <1>11, <1>14, <2>1, <2>3
  <2> QED BY <1>1, <1>3, <2>2, <2>4 DEF T
<1> QED BY <1>13, <1>14

\* A day that there is a year for is reached from a day that there is.
LEMMA DayIsThere ==
  ASSUME NEW d \in Ymds \union Yds, NEW num \in Int, Reading(d) + num \in CivilDays
  PROVE  /\ d \in Ymds => DAddD(d, num) \in Ymds
         /\ d \in Yds => DAddD(d, num) \in Yds
         /\ Reading(DAddD(d, num)) = Reading(d) + num
<1>1. d \in YmdDates \union YdDates /\ Reading(d) \in Int
  BY ReadingIs, Zenon DEF Ymds, Yds
<1>2. Meant(d) = Reading(d)
  <2>1. DFixup(d) = d /\ (d \in YmdDates => DFixup(d) = YmdFixup(d))
    BY FixupIsCrisp
  <2>2. d \in YmdDates => d.typ = "ymd"
    BY KindsAre, Zenon
  <2>3. d \in YdDates => d.typ # "ymd"
    BY KindsAre
  <2> QED BY <1>1, <2>1, <2>2, <2>3, Zenon DEF Meant
<1>3. CASE num = 0
  BY <1>1, <1>3 DEF DAddD
<1>4. CASE num # 0
  <2>1. /\ DAddD(d, num).typ = d.typ
        /\ DAddD(d, num) \in Ymds \union Yds /\ Reading(DAddD(d, num)) = Reading(d) + num
    BY <1>1, <1>2, <1>4, DAddDIs
  <2>2. (\A e \in Ymds : e.typ = "ymd") /\ (\A e \in Yds : e.typ = "yd")
    BY SMT DEF Ymds, Yds, YmdDates, YdDates
  <2> HIDE DEF Ymds, Yds
  <2> QED BY <2>1, <2>2
<1> QED BY <1>3, <1>4

\* A year later or earlier it is the same day of the month, if every year has it.
LEMMA YearsOnIs ==
  ASSUME NEW a \in Ymds, a.d <= 28, NEW n \in Int, a.y + n \in Years12
  PROVE  /\ YearsOn(a, n) \in Ymds
         /\ Reading(YearsOn(a, n)) = (Jan00Daisy(a.y + n) + MdGetYday(a.y + n, a.m, 0)) + a.d
<1>1. /\ a \in YmdDates /\ a.typ = "ymd" /\ a.y \in Int /\ a.m \in 1 .. 12 /\ a.d \in 1 .. 31
  BY SMT DEF Ymds, YmdDates, Years12
<1> DEFINE z == a.y + n
           c == YearsOn(a, n)
<1>2. z \in Years12 /\ z \in Int /\ Y12(z) = z
  BY SMT DEF Years12, Y12
<1>3. c = [a EXCEPT !.y = Y12(z)]
  BY <1>1, SMT DEF YearsOn, Numbers
<1> HIDE DEF z
<1>4. c = [typ |-> "ymd", y |-> z, m |-> a.m, d |-> a.d]
  BY <1>1, <1>2, <1>3, SMT DEF YmdDates
<1>5. c \in YmdDates /\ c.y = z /\ c.m = a.m /\ c.d = a.d
  BY <1>1, <1>2, <1>4, SMT DEF YmdDates
<1> HIDE DEF c
<1>6. GetMdays(z, a.m) \in 28 .. 31
  BY <1>1, <1>2, MonthStep
<1>7. c \in Ymds
  BY <1>1, <1>5, <1>6 DEF Ymds
<1> QED BY <1>5, <1>7, ReadingIs, Zenon DEF c, z

\* Adding the years between two dates, and the days, leads from one to the other.
LEMMA YearsLeadOn ==
  ASSUME NEW neg, NEW a \in Ymds, a.d <= 28, Reading(a) \in CivilDays,
         NEW u \in Yds, Reading(u) = Reading(a), NEW v \in Yds, Reading(v) \in CivilDays,
         Reading(a) <= Reading(v), ~(a.m <= 2 /\ v.d < u.d /\ Leapp(v.y - 1))
  PROVE  /\ YearsOn(a, YdApart(neg, u, v).y) \in Ymds
         /\ YdApart(neg, u, v).d \in Int
         /\ Reading(YearsOn(a, YdApart(neg, u, v).y)) + YdApart(neg, u, v).d = Reading(v)
<1> DEFINE r == YdApart(neg, u, v)
<1>1. a.y \in CivilYears /\ u.y = a.y /\ u.d = MdGetYday(a.y, a.m, 0) + a.d
  BY YdOfYmd
<1>2. v.y \in CivilYears
  BY LateYears
<1>3. a.m \in 1 .. 12 /\ a.d \in 1 .. 28
  BY SMT DEF Ymds, YmdDates
<1>4. /\ r.y \in Nat /\ r.d \in Int /\ a.y + r.y <= v.y
      /\ LET y == a.y + r.y IN ((Jan00Daisy(y) + MdGetYday(y, a.m, 0)) + a.d) + r.d = Reading(v)
  <2> HIDE DEF r
  <2>1. Reading(u) <= Reading(v) /\ u.d = MdGetYday(u.y, a.m, 0) + a.d
    BY <1>1
  <2> QED BY <1>1, <1>3, <2>1, YdApartLeads DEF r
<1> HIDE DEF r
<1>5. a.y + r.y \in Years12 /\ r.y \in Int
  BY <1>1, <1>2, <1>4 DEF CivilYears, Years12
<1>6. /\ YearsOn(a, r.y) \in Ymds
      /\ Reading(YearsOn(a, r.y)) = (Jan00Daisy(a.y + r.y) + MdGetYday(a.y + r.y, a.m, 0)) + a.d
  BY <1>5, YearsOnIs
<1> QED BY <1>4, <1>6 DEF r

\* ... and the months.
LEMMA MonthsAreThere ==
  ASSUME NEW a \in Ymds, a.d <= 28, NEW n \in Nat
  PROVE  DAddM(a, n) \in Ymds
<1>1. /\ a \in YmdDates /\ a.typ = "ymd" /\ a.y \in Int /\ a.m \in 1 .. 12 /\ a.d \in 1 .. 31
  BY SMT DEF Ymds, YmdDates, Years12
<1>2. CASE n = 0
  BY <1>2 DEF DAddM
<1>3. CASE n # 0
  <2> DEFINE c == MonthsOn(a, n)
  <2>1. DAddM(a, n) = c
    BY <1>1, <1>3, SMT DEF DAddM
  <2>2. c \in YmdDates
    BY <1>1, CountedUpIsDate
  <2>3. c.d = a.d
    BY <1>1, SMT DEF MonthsOn, YmdDates
  <2> HIDE DEF c
  <2>4. c.y \in Int /\ c.m \in 1 .. 12
    BY <2>2, SMT DEF YmdDates, Years12
  <2>5. GetMdays(c.y, c.m) \in 28 .. 31
    BY <2>4, MonthStep
  <2> QED BY <1>1, <2>1, <2>2, <2>3, <2>5 DEF Ymds
<1> QED BY <1>2, <1>3

\* The days before the first two months.
LEMMA FirstMonths ==
  ASSUME NEW y \in Int
  PROVE  MdGetYday(y, 1, 0) = 0 /\ MdGetYday(y, 2, 0) = 31
<1>1. MonYday[1] = 0 /\ MonYday[2] = 31
  BY DEF MonYday
<1> QED BY <1>1, SMT DEF MdGetYday, One

\* A day nearer is the day before in the same year, early in it.
LEMMA YearStays ==
  ASSUME NEW e \in Yds, NEW b \in Yds, Reading(e) = Reading(b) - 1, e.d < 60
  PROVE  e.y = b.y /\ b.d = e.d + 1
<1> DEFINE j == Jan00Daisy(e.y)
           k == Jan00Daisy(b.y)
<1>1. /\ e.y \in Int /\ e.d \in Int /\ 1 <= e.d /\ b.y \in Int /\ b.d \in Int /\ 1 <= b.d /\ b.d <= GetYdays(b.y)
      /\ e \in YdDates /\ b \in YdDates
  BY SMT DEF Yds, YdDates, Years16
<1>2. Reading(e) = j + e.d /\ Reading(b) = k + b.d
  BY <1>1, ReadingIs
<1>3. j \in Int /\ k \in Int /\ GetYdays(b.y) \in 365 .. 366
  BY <1>1, YearStep
<1>4. /\ e.y <= b.y => k - j >= 365 * (b.y - e.y)
      /\ b.y <= e.y => j - k >= 365 * (e.y - b.y)
  BY <1>1, YearsApart
<1> HIDE DEF j, k
<1>5. e.y = b.y
  BY <1>1, <1>2, <1>3, <1>4
<1>6. j = k
  BY <1>5 DEF j, k
<1> QED BY <1>1, <1>2, <1>3, <1>5, <1>6

\* Where the years lose a 29th of February the dates in months and days tell.
LEMMA LossIsTold ==
  ASSUME NEW a \in Ymds, a.d <= 28, Reading(a) \in CivilDays, NEW u \in Yds, Reading(u) = Reading(a),
         NEW b \in Yds, Reading(b) \in CivilDays, NEW to \in Ymds, Reading(to) = Reading(b),
         NEW e \in Yds, e = b \/ Reading(e) = Reading(a) \/ Reading(e) = Reading(b) - 1,
         a.m <= 2, e.d < u.d, Leapp(e.y - 1)
  PROVE  32 * to.m + to.d <= 32 * a.m + a.d /\ Leapp(to.y - 1)
<1>1. /\ a.y \in Int /\ a.m \in Int /\ 1 <= a.m /\ a.m \in 1 .. 12 /\ a.d \in Int /\ 1 <= a.d
      /\ to.y \in Int /\ to.m \in Int /\ 1 <= to.m /\ to.m \in 1 .. 12 /\ to.d \in Int /\ 1 <= to.d /\ to.d <= 31
  BY YmdsAre
<1>2. u.y = a.y /\ u.d = MdGetYday(a.y, a.m, 0) + a.d
  BY YdOfYmd
<1>3. b.y = to.y /\ b.d = MdGetYday(to.y, to.m, 0) + to.d
  <2>1. Reading(to) \in CivilDays
    OBVIOUS
  <2> QED BY <2>1, YdOfYmd
<1>4. /\ MdGetYday(a.y, 1, 0) = 0 /\ MdGetYday(a.y, 2, 0) = 31
      /\ MdGetYday(to.y, 1, 0) = 0 /\ MdGetYday(to.y, 2, 0) = 31
  BY <1>1, FirstMonths
<1>5. to.m > 2 => MdGetYday(to.y, to.m, 0) \in Int /\ MdGetYday(to.y, to.m, 0) >= 59
  <2>0. HAVE to.m > 2
  <2>4. to.m \in 1 .. 12
    BY <1>1
  <2>1. PICK k \in 0 .. 334 :
          /\ to.m > 2 => k >= 59
          /\ \A y \in Int : MdGetYday(y, to.m, 0) = k + One(Leapp(y) /\ to.m > 2)
    BY <2>4, YdaysAre, Zenon
  <2>2. MdGetYday(to.y, to.m, 0) = k + One(Leapp(to.y) /\ to.m > 2)
    BY <1>1, <2>1, Zenon
  <2>3. One(Leapp(to.y) /\ to.m > 2) \in 0 .. 1
    BY SMT DEF One
  <2> QED BY <2>0, <2>1, <2>2, <2>3
<1>6. a.m = 1 \/ a.m = 2
  BY <1>1
<1>7. u.d <= 59 /\ (a.m = 1 => u.d = a.d) /\ (a.m = 2 => u.d = 31 + a.d)
  BY <1>1, <1>2, <1>4, <1>6
<1>8. e.y = b.y /\ b.d <= u.d
  <2>1. e.d \in Int /\ u.d \in Int /\ b.d \in Int
    BY SMT DEF Yds, YdDates, Years16
  <2>2. CASE e = b
    BY <2>1, <2>2
  <2>3. CASE Reading(e) = Reading(a)
    <3>1. e.d = u.d
      BY <1>2, <2>3, YdOfYmd
    <3> QED BY <2>1, <3>1
  <2>4. CASE Reading(e) = Reading(b) - 1
    <3>1. e.d < 60
      BY <1>7, <2>1
    <3> QED BY <2>1, <2>4, <3>1, YearStays
  <2> QED BY <2>2, <2>3, <2>4
<1>9. 32 * to.m + to.d <= 32 * a.m + a.d
  <2>1. to.m <= 2
    BY <1>1, <1>3, <1>5, <1>7, <1>8
  <2>2. to.m = 1 \/ to.m = 2
    BY <1>1, <2>1
  <2>3. (to.m = 1 => b.d = to.d) /\ (to.m = 2 => b.d = 31 + to.d)
    BY <1>1, <1>3, <1>4, <2>2
  <2> QED BY <1>1, <1>6, <1>7, <1>8, <2>2, <2>3
<1>10. Leapp(to.y - 1)
  BY <1>3, <1>8
<1> QED BY <1>9, <1>10

\* dt_dconv(): a date there is keeps its day in years and days.
LEMMA YdKeepsDay ==
  ASSUME NEW d, Datable(d)
  PROVE  DConv("yd", d) \in Yds /\ Reading(DConv("yd", d)) = ConvToDaisy(d)
<1> DEFINE n == ConvToDaisy(d)
<1>1. d \in CrispDates /\ n \in Int /\ 1 <= n /\ n <= 910674
  BY SMT DEF Datable, LastDay
<1>2. CASE d \in Ymds \union Yds
  <2>0. d \in YmdDates \union YdDates /\ Reading(DFixup(d)) = n /\ Reading(DFixup(d)) \in CivilDays
    BY <1>2, DatableIs, Zenon
  <2>1. Reading(d) = n /\ Reading(d) \in CivilDays
    <3>1. DFixup(d) = d
      BY <1>2, FixupIsCrisp, Zenon
    <3> QED BY <2>0, <3>1, Zenon
  <2>2. /\ DConv("yd", d) \in Ymds \union Yds /\ DConv("yd", d).typ = "yd"
        /\ Reading(DConv("yd", d)) = Reading(d)
    BY <1>2, <2>0, <2>1, ConvertKeepsDay, SMT
  <2>3. \A e \in Ymds : e.typ = "ymd"
    BY SMT DEF Ymds, YmdDates
  <2> QED BY <2>1, <2>2, <2>3
<1>3. CASE d \in DaisyDates
  <2>1. d.typ = "daisy" /\ d.n \in Int
    BY <1>3, SMT DEF DaisyDates
  <2>2. DFixup(d) = d
    BY <2>1, SMT DEF DFixup
  <2>3. n = DayNumber(d)
    BY <2>1, SMT DEF ConvToDaisy, Numbers
  <2>4. DConv("yd", d) = DaisyToYd(n)
    BY <2>1, <2>2, <2>3, SMT DEF DConv, ConvTo, ConvToYd, Numbers
  <2> HIDE DEF n
  <2>5. /\ DaisyToYd(n) \in YdDates
        /\ DaisyToYd(n).d <= GetYdays(DaisyToYd(n).y)
        /\ Jan00Daisy(DaisyToYd(n).y) + DaisyToYd(n).d = n
    BY <1>1, DaisyToYdIsDate
  <2>6. DaisyToYd(n) \in Yds /\ Reading(DaisyToYd(n)) = n
    BY <2>5, ReadingIs DEF Yds
  <2> QED BY <2>4, <2>6 DEF n
<1> QED BY <1>1, <1>2, <1>3, SMT DEF CrispDates

\* Years and days of two days in order; none between a day and itself.
LEMMA YdApartIsNone ==
  ASSUME NEW neg, NEW u \in Yds, NEW v \in Yds, Reading(u) <= Reading(v)
  PROVE  /\ YdApart(neg, u, v).y \in Nat
         /\ YdApart(neg, u, v).d \in Int /\ 0 <= YdApart(neg, u, v).d
         /\ YdApart(neg, u, v).neg = neg
         /\ Reading(u) = Reading(v) => YdApart(neg, u, v).y = 0 /\ YdApart(neg, u, v).d = 0
<1> DEFINE j == Jan00Daisy(u.y)
           k == Jan00Daisy(v.y)
<1>1. /\ u.y \in Int /\ u.d \in Int /\ 1 <= u.d /\ u.d <= GetYdays(u.y) /\ u \in YdDates
      /\ v.y \in Int /\ v.d \in Int /\ 1 <= v.d /\ v.d <= GetYdays(v.y) /\ v \in YdDates
  BY SMT DEF Yds, YdDates, Years16
<1>2. Reading(u) = j + u.d /\ Reading(v) = k + v.d
  BY <1>1, ReadingIs
<1>3. /\ GetYdays(u.y) = 365 + One(Leapp(u.y)) /\ GetYdays(v.y) = 365 + One(Leapp(v.y))
      /\ One(Leapp(u.y)) \in 0 .. 1 /\ One(Leapp(v.y)) \in 0 .. 1
  BY SMT DEF GetYdays, One
<1>4. j \in Int /\ k \in Int
      /\ (u.y < v.y => k - j >= GetYdays(u.y))
      /\ (v.y < u.y => j - k >= GetYdays(v.y))
  <2>1. /\ Jan00Daisy(u.y + 1) = j + GetYdays(u.y) /\ Jan00Daisy(v.y + 1) = k + GetYdays(v.y)
        /\ j \in Int /\ k \in Int
    BY <1>1, YearStep
  <2>0. ASSUME NEW y \in Int, NEW z \in Int, y < z PROVE Jan00Daisy(z) - Jan00Daisy(y + 1) >= 365 * (z - (y + 1))
    <3>1. y + 1 \in Int /\ y + 1 <= z
      BY <2>0
    <3> DEFINE i == y + 1
    <3> HIDE DEF i
    <3>2. Jan00Daisy(z) - Jan00Daisy(i) >= 365 * (z - i)
      BY <3>1, YearsApart DEF i
    <3> QED BY <3>2 DEF i
  <2>2. u.y < v.y => k - Jan00Daisy(u.y + 1) >= 365 * (v.y - (u.y + 1))
    BY <1>1, <2>0
  <2>3. v.y < u.y => j - Jan00Daisy(v.y + 1) >= 365 * (u.y - (v.y + 1))
    BY <1>1, <2>0
  <2> HIDE DEF j, k
  <2>4. GetYdays(u.y) \in Int /\ GetYdays(v.y) \in Int
    BY <1>3
  <2> QED BY <1>1, <2>1, <2>2, <2>3, <2>4
<1> HIDE DEF j, k
<1>5. u.y < v.y \/ (u.y = v.y /\ u.d <= v.d)
  <2>1. GetYdays(u.y) \in Int /\ GetYdays(v.y) \in Int
    BY <1>3
  <2>2. CASE u.y = v.y
    <3>1. j = k
      BY <2>2 DEF j, k
    <3> QED BY <1>1, <1>2, <1>4, <2>2, <3>1
  <2>3. CASE v.y < u.y
    BY <1>1, <1>2, <1>4, <2>1, <2>3
  <2> QED BY <1>1, <2>2, <2>3
<1>6. /\ YdApart(neg, u, v).y \in Nat /\ YdApart(neg, u, v).d \in Int
      /\ YdApart(neg, u, v).neg = neg
  BY <1>1, <1>5, YdApartIs, Zenon
<1> DEFINE late == Leapp(v.y) /\ v.d >= 60
           g == One(Leapp(u.y) /\ u.d > 60 /\ ~late)
           h == One(~Leapp(u.y) /\ u.d >= 60 /\ late)
           d == v.d - u.d + g - h
           l == One(late)
           r == YdApart(neg, u, v)
<1>7. r = IF d < 0 THEN [neg |-> neg, y |-> v.y - u.y - 1, d |-> d + 365 + l]
          ELSE [neg |-> neg, y |-> v.y - u.y, d |-> d]
  BY Zenon DEF YdApart
<1>8. d \in Int /\ d + 365 + l >= 0
  <2>1. g \in 0 .. 1 /\ h \in 0 .. 1 /\ l \in 0 .. 1
    BY SMT DEF One
  <2>2. /\ l = 0 => h = 0
        /\ l = 0 /\ Leapp(u.y) /\ u.d > 60 => g = 1
    BY SMT DEF One
  <2>3. u.d <= 365 \/ (Leapp(u.y) /\ u.d <= 366)
    BY <1>1, <1>3, SMT DEF One
  <2> HIDE DEF g, h, l
  <2> QED BY <1>1, <2>1, <2>2, <2>3
<1>9. 0 <= r.d
  <2> HIDE DEF d, l, r
  <2>1. CASE d < 0
    BY <1>7, <1>8, <2>1
  <2>2. CASE ~(d < 0)
    BY <1>7, <1>8, <2>2
  <2> QED BY <2>1, <2>2
<1>10. ASSUME Reading(u) = Reading(v) PROVE r.y = 0 /\ r.d = 0
  <2>1. u.y = v.y
    BY <1>1, <1>2, <1>3, <1>4, <1>5, <1>10
  <2>2. u.d = v.d
    <3>1. j = k
      BY <2>1 DEF j, k
    <3> QED BY <1>1, <1>2, <1>4, <1>10, <3>1
  <2>3. g = 0 /\ h = 0
    <3>1. ~(Leapp(u.y) /\ u.d > 60 /\ ~late)
      <4>1. u.d > 60 => v.d >= 60
        BY <1>1, <2>2
      <4> QED BY <2>1, <4>1
    <3>2. ~(~Leapp(u.y) /\ u.d >= 60 /\ late)
      BY <2>1
    <3> QED BY <3>1, <3>2, Zenon DEF One
  <2>4. d = 0
    <3> HIDE DEF g, h
    <3> QED BY <1>1, <2>2, <2>3
  <2>5. v.y - u.y = 0
    BY <1>1, <2>1
  <2> HIDE DEF d, l, r
  <2> QED BY <1>7, <2>4, <2>5
<1> QED BY <1>6, <1>9, <1>10 DEF r

\* Years of months are years.
LEMMA YearsAreMonths ==
  ASSUME NEW a \in Ymds, NEW n \in Nat
  PROVE  DAddM(a, 12 * n) = YearsOn(a, n)
<1>1. a \in YmdDates /\ a.typ = "ymd" /\ a.y \in Years12 /\ a.y \in Int /\ a.m \in 1 .. 12 /\ a.d \in Int
  BY YmdsAre
<1>2. YearsOn(a, n) = [a EXCEPT !.y = Y12(a.y + n)]
  BY <1>1, SMT DEF YearsOn, Numbers
<1>3. CASE n = 0
  <2>1. Y12(a.y + n) = a.y
    BY <1>1, <1>3, SMT DEF Y12, Years12
  <2>2. [a EXCEPT !.y = a.y] = a
    BY <1>1, SMT DEF YmdDates
  <2>3. 12 * n = 0
    BY <1>3
  <2> QED BY <1>2, <2>1, <2>2, <2>3 DEF DAddM
<1>4. CASE n # 0
  <2> DEFINE k == 12 * n
             m == a.m + k
             y == a.y + (m - 1) \div 12
  <2>1. k # 0 /\ k \in Int /\ ~(k < 0) /\ (m - 1) \div 12 = n /\ (m - 1) % 12 = a.m - 1
    BY <1>1, <1>4, SMT
  <2> HIDE DEF k
  <2>2. DAddM(a, k) = MonthsOn(a, k)
    BY <1>1, <2>1 DEF DAddM
  <2>3. MonthsOn(a, k) = [a EXCEPT !.y = Y12(y), !.m = ((m - 1) % 12) + 1 + One(a.typ = "ymd" /\ k < 0 /\ a.m = 0)]
    BY Zenon DEF MonthsOn
  <2>4. One(a.typ = "ymd" /\ k < 0 /\ a.m = 0) = 0
    BY <2>1, SMT DEF One
  <2>5. ((m - 1) % 12) + 1 + One(a.typ = "ymd" /\ k < 0 /\ a.m = 0) = a.m
    BY <1>1, <2>1, <2>4
  <2>6. y = a.y + n
    BY <2>1
  <2> HIDE DEF y, m
  <2>7. MonthsOn(a, k) = [a EXCEPT !.y = Y12(y), !.m = a.m]
    BY <2>3, <2>5, Zenon
  <2>8. [a EXCEPT !.y = Y12(y), !.m = a.m] = [a EXCEPT !.y = Y12(y)]
    <3> DEFINE z == Y12(y)
               n0 == a.m
               r == [a EXCEPT !.y = z]
               e == [r EXCEPT !.m = n0]
    <3> HIDE DEF z
    <3>1. r = [typ |-> "ymd", y |-> z, m |-> a.m, d |-> a.d]
      BY <1>1, SMT DEF YmdDates
    <3> HIDE DEF r
    <3>2. e = [typ |-> "ymd", y |-> z, m |-> a.m, d |-> a.d]
      BY <3>1, SMT
    <3> HIDE DEF e
    <3>3. [a EXCEPT !.y = z, !.m = n0] = e
      BY Zenon DEF e, r
    <3> QED BY <3>1, <3>2, <3>3, Zenon DEF r, z
  <2> QED BY <1>2, <2>2, <2>6, <2>7, <2>8 DEF k
<1> QED BY <1>3, <1>4
=============================================================================
