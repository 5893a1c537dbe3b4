------------------------------- MODULE DtCore --------------------------------
(***************************************************************************)
(* A tool that holds a date, a time, both, or seconds since the epoch, and *)
(* calls the library on it one way after the other: adds durations,        *)
(* forgets the time zone it was read in, takes on the one it is shown in,  *)
(* converts, crops.                                                        *)
(***************************************************************************)
EXTENDS DtOps

CONSTANTS
  Typs,             \* the calendars of the dates that are read
  Firsts,           \* the days that are read
  Times,            \* the times that are read
  Epochs,           \* the stamps that are read
  Durs,             \* the durations that are added
  Zones,            \* the time zones there are
  Calls             \* how many calls a tool makes

VARIABLES
  dt,               \* what the tool holds
  left,             \* how many calls are left
  asked             \* history: the last call and what it was made for

vars == <<dt, left, asked>>

-----------------------------------------------------------------------------
(* The calls of a tool. *)

\* Date-times, also ones the zone of which was told and undone; dates, times,
\* epochs.
Init ==
  /\ \/ \E typ \in Typs, num \in Firsts, t \in Times, fixed \in BOOLEAN :
          dt = [Sandwich(DConv(typ, Daisy(num)), t) EXCEPT !.znfxd = fixed]
     \/ \E typ \in Typs, num \in Firsts : dt = OnlyD(DConv(typ, Daisy(num)))
     \/ \E t \in Times : dt = OnlyT(t)
     \/ \E n \in Epochs : dt = Sexy(n)
  /\ left = Calls
  /\ asked = [kind |-> "read", arg |-> "none", from |-> dt]

\* What a conversion that does not exist returns is not worked with.
Ask(kind, arg) ==
  /\ left > 0
  /\ dt.d # Naught(dt.d.typ)
  /\ left' = left - 1
  /\ asked' = [kind |-> kind, arg |-> arg, from |-> dt]

Add(dur) == Ask("add", dur) /\ dt' = DtAdd(dt, dur)
Convert(typ) == Ask("conv", typ) /\ dt' = DtConv(typ, dt)
Forget(z) == Ask("forget", z) /\ dt' = DtzForgetz(dt, z)
Enrich(z) == Ask("enrich", z) /\ dt' = DtzEnrichz(dt, z)
Fixup == Ask("fixup", "none") /\ dt' = DtFixup(dt)
Milfup == Ask("milfup", "none") /\ dt' = DtMilfup(dt)

Next ==
  \/ \E dur \in Durs : Add(dur)
  \/ \E typ \in Typs \union {"sexy"} : Convert(typ)
  \/ \E z \in Zones : Forget(z) \/ Enrich(z)
  \/ Fixup
  \/ Milfup

Spec == Init /\ [][Next]_vars

-----------------------------------------------------------------------------
(* Properties. *)

\* What every tool reads off: a calendar of its own or an epoch, a time whose
\* fields are in range, but for a second leap second that is crossed at once, a
\* difference to UTC of at most 6 bits.
TypeOK ==
  /\ left \in 0 .. Calls
  /\ dt.typ = IF dt.typ = "sexy" THEN "sexy" ELSE dt.d.typ
  /\ dt.typ \in {"unk", "sexy"} \union Typs
  /\ dt.t \in [h : 0 .. 24, m : 0 .. 59, s : 0 .. 61, ns : 0 .. NANOS_PER_SEC - 1]
  /\ dt.zdiff \in 0 .. 63
  /\ dt.sx \in Int

\* Neither were months or years added and the date not cropped yet, nor is it
\* later than the last second of the day.
Plain(x) == x = DtFixup(x) /\ x.t.h < 24

Clocked(x) == x.sw \/ x.typ = "sexy"

\* Whether there is a year for a date, and for the day of a stamp.
CivilDate(x) == x.typ \in {"unk", "sexy"} \/ ConvToDaisy(x.d) \in CivilDays
CivilStamp(n) == n \div SECS_PER_DAY + DAISY_UNIX_BASE \in CivilDays

\* dt_dtadd(): hours, minutes, seconds and nanoseconds lead to exactly the
\* moment that much later if there is a year for it, over midnight, over leap
\* days and from 24:00 too, and a time on its own to that time of the day.
AddIsExact ==
  asked.kind = "add" /\ asked.arg.unit \in {"h", "m", "s", "ns"} /\ ~asked.arg.tai
  /\ asked.from = DtFixup(asked.from) /\ CivilDate(asked.from) /\ Clocked(dt) =>
    LET nano == asked.arg.unit = "ns" /\ dt.typ # "sexy"
        total == asked.from.t.ns + (IF nano THEN asked.arg.dv ELSE 0)
        secs == IF asked.arg.unit # "ns" THEN InSecs(asked.arg)
                ELSE IF nano THEN total \div NANOS_PER_SEC
                ELSE Quot(asked.arg.dv, NANOS_PER_SEC)
    IN /\ dt.t.ns = total % NANOS_PER_SEC
       /\ IF OnlyTP(dt) THEN SecsSinceMidnight(dt.t) = (SecsSinceMidnight(asked.from.t) + secs) % SECS_PER_DAY
          ELSE dt.typ = "sexy" \/ CivilStamp(ToUnixEpoch(asked.from) + secs) =>
                 ToUnixEpoch(dt) = ToUnixEpoch(asked.from) + secs

\* What atomic clocks show.  A leap second belongs to the day at whose end it
\* is.
Atomic(x) ==
  LET num == ConvToDaisy(x.d)
  IN StampOn(num, x.t) + LeapsCorr[ChangesBefore(LeapsD, num)]

\* The search counts the changes before this day.
Found(x) == LeapsBefore(x) = ChangesBefore(LeapsD, ConvToDaisy(x.d))

RealSecondsAsked ==
  /\ asked.kind = "add" /\ asked.arg.tai /\ asked.arg.unit = "s"
  /\ SandwichP(dt) /\ dt.typ \in {"ymd", "daisy"}
  /\ Plain(asked.from) /\ CivilDate(asked.from)
  /\ \A corr \in {-1, 1} : CivilStamp(ToUnixEpoch(asked.from) + asked.arg.dv + corr)
  /\ \A x \in {asked.from, AddSecs(asked.from, asked.arg.dv)} : Found(x)

\* dt_dtadd() in real seconds: atomic clocks go on by that much, to the leap
\* second itself, off it and over it, both ways.  As far as one leap second is
\* crossed and the table was searched rightly.
RealSecondsAreAdded ==
  RealSecondsAsked /\ Mag(LeapsBefore(AddSecs(asked.from, asked.arg.dv)) - LeapsBefore(asked.from)) <= 1
    => Atomic(dt) = Atomic(asked.from) + asked.arg.dv

\* dtz_forgetz(): if some moment is shown as this local time in the zone then
\* such a moment is found, if there is a year for it.
ZonesAreUndone ==
  asked.kind = "forget" /\ ~asked.from.znfxd /\ Clocked(dt) /\ ~OnlyTP(dt) /\ Plain(asked.from) /\ CivilDate(asked.from)
  /\ (dt.typ = "sexy" \/ CivilStamp(ZifUtcTime(asked.arg, ToUnixEpoch(asked.from)))) =>
    LET was == ToUnixEpoch(asked.from)
        is == ToUnixEpoch(dt)
        near == {was - Offs(asked.arg, was + k * 43200) : k \in -2 .. 2}
    IN (\E n \in near : n + Offs(asked.arg, n) = was) => is + Offs(asked.arg, is) = was

\* dtz_enrichz() shows the local time of a moment, if there is a year for it,
\* and how far it is from UTC to a quarter of an hour, if 6 bits have room for
\* that and no zone was forgotten before that was behind.
LocalTimeIsShown ==
  asked.kind = "enrich" /\ Clocked(dt) /\ ~OnlyTP(dt) /\ Plain(asked.from) /\ CivilDate(asked.from) =>
    LET was == ToUnixEpoch(asked.from)
        offs == Offs(asked.arg, was)
    IN /\ dt.typ = "sexy" \/ CivilStamp(was + offs) => ToUnixEpoch(dt) = was + offs
       /\ ~asked.from.neg /\ Mag(offs) < 64 * ZDIFF_RES => Mag(offs - ZdiffSec(dt)) < ZDIFF_RES

\* A difference in a calendar and seconds added to a date-time.
Back(kind, x, r) ==
  LET y == IF kind = "ymd" THEN DAddM(x.d, r.diff.m) ELSE YearsOn(x.d, r.diff.y)
      z == IF kind = "ywd" THEN DAddDays(y, "w", r.diff.c) ELSE y
      d == DAddD(z, IF kind = "ywd" THEN r.diff.w ELSE r.diff.d)
  IN DtAddSecs([x EXCEPT !.d = d], r.secs)

\* ... is a moment, unless there is no such day.
AddsBack(kind, x, from, to) ==
  (IF kind = "ywd" THEN x.d.c < 53 ELSE x.d.d <= 28) /\ ~LosesLeapDay(kind, x.d, DConv("ymd", to.d))
    => ToUnixEpoch(Back(kind, x, DtDiffParts(kind, from, to))) = ToUnixEpoch(to)

\* Two date-times that are told apart.
Differ == SandwichP(dt) /\ SandwichP(asked.from) /\ Plain(dt) /\ Plain(asked.from)

\* Whether there are a year, a month and a day for a date.
Dated(x) == CivilDate(x) /\ DConv("ymd", x.d) # Naught("ymd")

\* ... for those of both, in order.
DatedApart ==
  /\ Dated(asked.from) /\ Dated(dt) /\ CivilStamp(ToUnixEpoch(dt))
  /\ ToUnixEpoch(asked.from) <= ToUnixEpoch(dt)

\* dt_dtdiff() in a calendar of months or years and seconds, added to the first
\* date-time where it is the earlier one, is the second one, unless its day is
\* one not every month or year has; years are years of months even in yd, where
\* a year may lose its 29th of February.  In seconds it is what lies between
\* them.
DifferencesAddBack ==
  Differ =>
    /\ DtDiffSecs(asked.from, dt).dv = ToUnixEpoch(dt) - ToUnixEpoch(asked.from)
    /\ DtDiffSecs(dt, asked.from).dv = ToUnixEpoch(asked.from) - ToUnixEpoch(dt)
    /\ DatedApart => \A kind \in {"ymd", "yd"} : AddsBack(kind, DtConv("ymd", asked.from), asked.from, dt)

\* dt_dtdiff() in ISO years, weeks and days adds back too, unless the week is
\* one not every year has.
WeeksAddBack == Differ /\ DatedApart => AddsBack("ywd", DtConv("ywd", asked.from), asked.from, dt)

\* dt_dtcmp(): date-times of one calendar that there are years for are in the
\* order of their moments.
MomentsAreOrdered ==
  SandwichP(dt) /\ dt.typ = asked.from.typ /\ Plain(dt) /\ Plain(asked.from) /\ dt.t.s < 60 /\ asked.from.t.s < 60
    /\ CivilDate(dt) /\ CivilDate(asked.from)
    => LET before == StampOn(ConvToDaisy(asked.from.d), asked.from.t) - StampOn(ConvToDaisy(dt.d), dt.t)
       IN DtCmp(asked.from, dt) = IF before # 0 THEN Sgn(before) ELSE Sgn(asked.from.t.ns - dt.t.ns)

-----------------------------------------------------------------------------
(* What comments and manuals say and the code does not do; the README tells *)
(* the counterexamples.                                                     *)

\* leaps.c: "Given key K find the index of the transition before".
LeapsAreCounted ==
  SandwichP(dt) /\ dt.typ \in {"ymd", "daisy"} /\ Plain(dt) /\ dt.t.s <= 60 => Found(dt)

\* units.texi: "rs real-life seconds, as in including leap second transitions".
AllRealSecondsAreAdded ==
  RealSecondsAsked => Atomic(dt) = Atomic(asked.from) + asked.arg.dv

\* dt-core.h: "Compare two dates, yielding 0 if they are equal, -1 if D1 is
\* older".
EpochsAreOrdered ==
  dt.typ = "sexy" /\ asked.from.typ = "sexy" => DtCmp(asked.from, dt) = Sgn(asked.from.sx - dt.sx)

\* %Z is "The offset from UTC".
OffsetIsShown ==
  asked.kind = "enrich" /\ Clocked(dt) /\ ~OnlyTP(dt)
    => Mag(ToUnixEpoch(dt) - ToUnixEpoch(asked.from) - ZdiffSec(dt)) < ZDIFF_RES
=============================================================================
