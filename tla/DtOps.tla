-------------------------------- MODULE DtOps --------------------------------
(***************************************************************************)
(* What is done with dates that may have a time, lib/dt-core.c,            *)
(* time-core.c and dt-core-tz-glue.c: durations are added, with or without *)
(* leap seconds, time zones forgotten and taken on, date-times converted,  *)
(* cropped, compared and subtracted.  A date is added to all at once here, *)
(* DateCore looks at that turn by turn.                                    *)
(***************************************************************************)
EXTENDS DateOps, Leaps

CONSTANTS
  Base,             \* the day times without a date are taken to be on
  NANOS_PER_SEC

ASSUME NanosAssumption == NANOS_PER_SEC \in Nat \ {0}

ZDIFF_RES == 900

-----------------------------------------------------------------------------
(* What is held.  sw says there is a time, the sandwich bit; a date alone   *)
(* has a midnight that does not show, a time alone the calendar "unk".      *)

NoDate == [typ |-> "unk"]
Midnight == [h |-> 0, m |-> 0, s |-> 0, ns |-> 0]

\* With the zone bits cleared.
Sandwich(d, t) ==
  [typ |-> d.typ, sw |-> TRUE, d |-> d, t |-> t, sx |-> 0, znfxd |-> FALSE, neg |-> FALSE, zdiff |-> 0]
OnlyD(d) == [Sandwich(d, Midnight) EXCEPT !.sw = FALSE]
OnlyT(t) == Sandwich(NoDate, t)
Sexy(n) == [OnlyD(NoDate) EXCEPT !.typ = "sexy", !.sx = n]

SandwichP(x) == x.sw /\ x.typ # "unk"
OnlyDP(x) == ~x.sw /\ x.typ \notin {"unk", "sexy"}
OnlyTP(x) == x.sw /\ x.typ = "unk"

\* The last of its month may have been read from a later day.
Croppable(x) == x.typ = "ymd" /\ x.d.d = GetMdays(x.d.y, x.d.m)

SecsSinceMidnight(t) == (60 * t.h + t.m) * 60 + t.s

\* Mutant: fractions do not count.
TimeCmpByHours(t1, t2) == Lexical(<<t1.h, t1.m, t1.s>>, <<t2.h, t2.m, t2.s>>)

\* Times are compared as one number made of their fields.
TimeCmp(t1, t2) == Lexical(<<t1.h, t1.m, t1.s, t1.ns>>, <<t2.h, t2.m, t2.s, t2.ns>>)

StampOn(n, t) == (n - DAISY_UNIX_BASE) * SECS_PER_DAY + SecsSinceMidnight(t)

ToUnixEpoch(x) ==
  IF x.typ = "sexy" THEN x.sx
  ELSE IF OnlyTP(x) THEN StampOn(Base, x.t)
  ELSE StampOn(ConvToDaisy(x.d), x.t)

ConvToSexy(x) ==
  IF x.typ = "sexy" THEN x
  ELSE [x EXCEPT !.typ = "sexy", !.sw = FALSE, !.d = NoDate, !.t = Midnight,
                 !.sx = IF OnlyTP(x) THEN SecsSinceMidnight(x.t) ELSE ToUnixEpoch(x)]

HMS(secs, ns) == [h |-> secs \div 3600, m |-> (secs \div 60) % 60, s |-> secs % 60, ns |-> ns]

SexyToDaisy(n) ==
  Sandwich(Daisy(n \div SECS_PER_DAY + DAISY_UNIX_BASE), HMS(n % SECS_PER_DAY, 0))

\* dt_dtconv(): dates are made anew, which clears the zone bits.
DtConv(typ, x) ==
  LET y == IF x.typ = "sexy" THEN SexyToDaisy(x.sx) ELSE x
  IN IF x.typ = "unk" THEN x
     ELSE IF typ = "unk" THEN OnlyD(NoDate)
     ELSE IF typ = "sexy" THEN ConvToSexy(x)
     ELSE [Sandwich(DConv(typ, y.d), y.t) EXCEPT !.sw = y.sw]

-----------------------------------------------------------------------------
(* Adding. *)

\* dt_tadd_s(): days of corr seconds more end with them.
TAddS(t, durs, corr) ==
  LET Split(sec, day) ==
        [carry |-> sec \div day,
         t |-> IF sec % day < SECS_PER_DAY THEN HMS(sec % day, t.ns)
               ELSE [h |-> 23, m |-> 59, s |-> 59 + corr, ns |-> t.ns]]
  IN Split(SecsSinceMidnight(t) + durs, SECS_PER_DAY + corr)

\* Hours and minutes are multiplied up to seconds.
InSecs(dur) == dur.dv * (CASE dur.unit = "h" -> 3600 [] dur.unit = "m" -> 60 [] OTHER -> 1)

\* Of other units it is the 48 bits of a duration in seconds that are added, of
\* which the upper 32 hold the count.
SexyAdd(n, dur) ==
  CASE dur.unit \in {"h", "m", "s"} -> n + InSecs(dur)
    [] dur.unit = "ns" -> n + Quot(dur.dv, NANOS_PER_SEC)
    [] dur.unit \in {"d", "b"} -> n + dur.dv * SECS_PER_DAY
    [] OTHER -> n + dur.dv * 65536

\* A time past midnights rolls over into its date.
Rolled(x, r, days) ==
  [x EXCEPT !.t = r.t, !.d = IF @.typ = "unk" THEN @ ELSE DAddD(@, days + r.carry)]

\* Whole days are split off so as not to blow the carry slot of a time.
AddSecs(x, dv) ==
  IF ~x.sw THEN x ELSE Rolled(x, TAddS(x.t, Rem(dv, SECS_PER_DAY), 0), Quot(dv, SECS_PER_DAY))

\* Mutant: a negative rest of nanoseconds stays.
AddNanosCut(x, dv) ==
  LET ns == x.t.ns + dv
      y == IF x.sw THEN [x EXCEPT !.t.ns = ns % NANOS_PER_SEC] ELSE x
  IN AddSecs(y, Quot(ns, NANOS_PER_SEC))

AddNanos(x, dv) ==
  LET ns == x.t.ns + dv
      y == IF x.sw THEN [x EXCEPT !.t.ns = ns % NANOS_PER_SEC] ELSE x
  IN AddSecs(y, ns \div NANOS_PER_SEC)

\* A day a leap second ends does not count before that second is over.
Passed(x, v, key, res) ==
  LET t60 == [h |-> 23, m |-> 59, s |-> 60, ns |-> x.t.ns]
  IN res + One(SandwichP(x) /\ res + 1 < NLEAPS /\ v[res + 1] = key /\ TimeCmp(x.t, t60) = 1)

LeapsUpto(x, v, key) == Passed(x, v, key, FindBefore(v, key))

\* leaps_before(): changes of TAI - UTC before a date and time.  The table for
\* ymcws holds no words that are, the other calendars have none.
LeapsBefore(x) ==
  CASE x.typ = "sexy" -> LeapsUpto(x, LeapsS, x.sx)
    [] x.typ \in {"ymd", "daisy"} -> LeapsUpto(x, LeapsD, ConvToDaisy(x.d))
    [] OTHER -> 0

\* Mutant: a leap second that the insertion itself crosses is not seen.
PushedOnce(x, y, i, j, nltr) == y

\* x with i changes before it was pushed by nltr seconds to y with j of them:
\* the 60th second of its minute where that leads back before the leap.
Pushed(x, y, i, j, nltr) ==
  IF j < i THEN [y EXCEPT !.t.s = (@ - nltr) % 256]
  ELSE IF j > i THEN [x EXCEPT !.t.s = (@ + nltr) % 256]
  ELSE y

\* Leap seconds between two date-times are inserted into the second one.
PushedTo(x, y, i, nltr) == Pushed(x, y, i, LeapsBefore(y), nltr)

InsertSecs(x, i, nltr) ==
  PushedTo(x, IF nltr = 0 THEN x ELSE Rolled(x, TAddS(x.t, nltr, 0), 0), i, nltr)

InsertBetween(x, from, i) == IF from = i THEN x ELSE InsertSecs(x, i, LeapsCorr[from] - LeapsCorr[i])

InsertLeaps(from, x) == InsertBetween(x, LeapsBefore(from), LeapsBefore(x))

\* dt_dtadd(): a time on its own wraps around, a date on its own has nothing
\* seconds could be added to.
PlainAdd(x, dur) ==
  CASE dur.unit \in {"h", "m", "s"} -> AddSecs(x, InSecs(dur))
    [] dur.unit = "ns" -> AddNanos(x, dur.dv)
    [] OTHER -> [x EXCEPT !.d = DAdd(@, dur.unit, dur.dv)]

RealAdd(x, y, dur) == IF dur.tai /\ ~OnlyDP(x) THEN InsertLeaps(x, y) ELSE y

DtAdd(x, dur) ==
  IF x.typ = "sexy" THEN [x EXCEPT !.sx = SexyAdd(@, dur)]
  ELSE RealAdd(x, PlainAdd(x, dur), dur)

\* ... of n seconds.
DtAddSecs(x, n) == IF x.typ = "sexy" THEN [x EXCEPT !.sx = @ + n] ELSE AddSecs(x, n)

\* dt_fixup() and dt_milfup(): days are cropped, 24:00 becomes the next day.
DtFixup(x) == IF OnlyDP(x) \/ SandwichP(x) THEN [x EXCEPT !.d = DFixup(@)] ELSE x
DtMilfup(x) == IF SandwichP(x) /\ x.t.h = 24 THEN DtAddSecs(x, 0) ELSE x

-----------------------------------------------------------------------------
(* Time zones: cz tells the ones without a table, trs the stamps of the     *)
(* changes and ofs the offsets around them.  Tzraw shows that the right     *)
(* offset is found.                                                         *)

GPS_EPOCH == 315964800

Offs(z, n) ==
  CASE z.cz = "tai" -> LeapsCorr[FindBefore(LeapsS, n)]
    [] z.cz = "gps" -> IF n < GPS_EPOCH THEN 0 ELSE LeapsCorr[FindBefore(LeapsS, n)] - 19
    [] OTHER -> z.ofs[Cardinality({i \in DOMAIN z.trs : z.trs[i] <= n}) + 1]

\* Mutant: the offset of the local time is good enough.
ZifUtcTimeOnce(z, n) == n - Offs(z, n)

\* zif_utc_time(): the offset at the local time, and the one there instead.
ZifUtcTime(z, n) == IF Offs(z, n) = 0 THEN n ELSE n - Offs(z, n - Offs(z, n))
ZifLocalTime(z, n) == n + Offs(z, n)

Mag(n) == IF n < 0 THEN -n ELSE n

\* Mutant: times behind UTC are told like those ahead of it.
ZoneBitsAhead(x, zdiff, minus) == [x EXCEPT !.zdiff = (Mag(zdiff) \div ZDIFF_RES) % 64]

\* What is left of a difference: whole quarters of an hour in 6 bits, and a
\* sign that is only ever set.
ZoneBits(x, zdiff, minus) ==
  [x EXCEPT !.neg = @ \/ minus, !.zdiff = (Mag(zdiff) \div ZDIFF_RES) % 64]

DtzForgetz(x, z) ==
  LET Forgotten(zdiff) ==
        IF zdiff = 0 THEN x
        ELSE ZoneBits([DtAddSecs(x, zdiff) EXCEPT !.znfxd = TRUE], zdiff, zdiff > 0)
      At(locl) == Forgotten(ZifUtcTime(z, locl) - locl)
  IN IF OnlyDP(x) \/ x.znfxd THEN x ELSE At(ToUnixEpoch(x))

DtzEnrichz(x, z) ==
  LET Shown(zdiff) == IF zdiff = 0 THEN [x EXCEPT !.zdiff = 0, !.neg = FALSE]
                      ELSE ZoneBits(DtAddSecs(x, zdiff), zdiff, zdiff < 0)
      At(unix) == Shown(ZifLocalTime(z, unix) - unix)
  IN IF OnlyDP(x) THEN x ELSE At(ToUnixEpoch(x))

\* zdiff_sec(): the difference to UTC %Z prints.
ZdiffSec(x) == (IF x.neg THEN -1 ELSE 1) * x.zdiff * ZDIFF_RES

-----------------------------------------------------------------------------
(* Comparing and subtracting. *)

\* dt_dtcmp(): the seconds of epochs are in neither slot it looks at.
DtCmp(x, y) ==
  IF x.typ # y.typ THEN -2
  ELSE OrElse(IF x.typ \in {"unk", "sexy", "ldn", "mdn"} THEN 0 ELSE DCmp(x.d, y.d), TimeCmp(x.t, y.t))

TDiffS(t1, t2) == SecsSinceMidnight(t2) - SecsSinceMidnight(t1)

\* dt_dtdiff() in seconds, with the leap seconds to be added in corr.
DtDiffSecs(x, y) ==
  LET dt0 == IF OnlyDP(x) \/ OnlyDP(y) THEN 0 ELSE TDiffS(x.t, y.t)
      \* the seconds of x as an epoch, which a time on its own is not made
      Sx(z) == IF OnlyTP(z) THEN z.sx ELSE ToUnixEpoch(z)
  IN [dv |-> IF OnlyTP(x) /\ OnlyTP(y) THEN Mag(dt0)
             ELSE IF x.typ # "sexy" /\ y.typ # "sexy" THEN dt0 + DDiff("d", x.d, y.d) * SECS_PER_DAY
             ELSE Sx(y) - Sx(x),
      neg |-> OnlyTP(x) /\ OnlyTP(y) /\ dt0 < 0,
      corr |-> LeapsCorr[LeapsBefore(y)] - LeapsCorr[LeapsBefore(x)]]

\* Mutant: a day given back is not taken off the time.
WithTimeLong(r, secs) == [diff |-> r.diff, secs |-> IF r.diff.neg THEN -secs ELSE secs]

\* What the days and the times of the day differ by; a day that was given back
\* is taken off the time.
WithTime(r, secs) ==
  LET s == IF r.diff.neg THEN -secs ELSE secs
  IN [diff |-> r.diff, secs |-> IF r.fix THEN s - Sgn(s) * SECS_PER_DAY ELSE s]

\* dt_dtdiff() in the units of a calendar and seconds.
DtDiffParts(kind, x, y) ==
  LET secs == IF OnlyDP(x) \/ OnlyDP(y) THEN 0 ELSE TDiffS(x.t, y.t)
  IN WithTime(DDiffParts(kind, x.d, y.d, secs), secs)

\* Where __yd_diff() takes 365 days for a year that began before a 29th of
\* February and ends in the year after it; the dates are in months and days.
LosesLeapDay(kind, from, to) ==
  kind = "yd" /\ from.m <= 2 /\ 32 * to.m + to.d <= 32 * from.m + from.d /\ Leapp(to.y - 1)

\* dt_dt_in_range_p().
DtInRange(x, lower, upper) == InRange(DtCmp(x, lower), DtCmp(x, upper))
=============================================================================
