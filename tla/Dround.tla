------------------------------- MODULE Dround --------------------------------
(***************************************************************************)
(* dround, src/dround.c: dates, times and date-times are rounded to the    *)
(* next or the previous occurrence of a unit's value, or, co-class         *)
(* rounding, to a multiple of a unit.  The rounding specs are read one by  *)
(* one into durations, each of which is a turn of dround().                *)
(***************************************************************************)
EXTENDS DtOps

CONSTANTS
  Jobs,         \* command lines with the lines they read
  UINT_RANGE    \* what an unsigned int wraps at, 2 ^ 32

ASSUME UintAssumption == UINT_RANGE \in Nat /\ UINT_RANGE > SECS_PER_DAY

VARIABLES
  job,          \* the command line
  pc,
  i,            \* the argument, or the duration, under way
  slash,        \* whether a slash was seen, the flags of the duration reader
  durs,         \* the durations that were read
  left,         \* the lines left
  d,            \* the date-time under way
  carry,        \* the midnights a time has gone past, in its carry slot
  rc,           \* what the exit code will be
  turn,         \* history: the last rounding
  in,           \* history: the date-time as it was read
  out           \* history: what was printed for the last lines

vars == <<job, pc, i, slash, durs, left, d, carry, rc, turn, in, out>>

\* A line that is not a date-time.
NotADate == [typ |-> "none"]

-----------------------------------------------------------------------------
(* Durations.  Numbers carry their sign, names of weekdays ("wday") and     *)
(* months ("mon") have one beside them.                                     *)

Named == {"wday", "mon"}
Down(dur) == dur.dv < 0 \/ dur.neg
Back(dur) == IF dur.unit \in Named THEN dur.neg ELSE dur.dv < 0

\* What main() accepts: classes are divisions of the next coarser unit, months
\* and more of a millennium; occurrences are within it.
Divides(n, whole) == n # 0 /\ whole % Mag(n) = 0
Acceptable(dur) ==
  CASE dur.unit = "h" -> IF dur.cocl THEN Divides(dur.dv, 24) ELSE Mag(dur.dv) < 24
    [] dur.unit \in {"m", "s"} -> IF dur.cocl THEN Divides(dur.dv, 60) ELSE Mag(dur.dv) < 60
    [] dur.unit \in {"d", "b"} -> ~dur.cocl \/ Mag(dur.dv) = 1
    [] dur.unit = "mo" -> IF dur.cocl THEN Divides(dur.dv, 12000) ELSE Mag(dur.dv) \in 1 .. 12
    [] dur.unit = "q" -> IF dur.cocl THEN Divides(dur.dv, 4000) ELSE Mag(dur.dv) \in 1 .. 4
    [] dur.unit = "y" -> dur.cocl /\ Divides(dur.dv, 1000)
    [] OTHER -> TRUE

-----------------------------------------------------------------------------
(* Times. *)

\* Mutant: on the whole unit there is nothing to do, whatever is asked for.
ToClassLazy(n, diff, dur, next) ==
  IF diff = 0 THEN n
  ELSE IF Down(dur) THEN n - diff ELSE n + Mag(InSecs(dur)) - diff

\* Up or down to a multiple from diff past one.
ToClass(n, diff, dur, next) ==
  IF diff = 0 /\ ~next THEN n
  ELSE IF ~Down(dur) THEN n + Mag(InSecs(dur)) - diff
  ELSE IF diff = 0 THEN n - Mag(InSecs(dur))
  ELSE n - diff

\* Only classes that divide a day.
Classes(dur) == dur.unit \in {"h", "m", "s"} /\ dur.dv # 0 /\ SECS_PER_DAY % Mag(InSecs(dur)) = 0

\* Mutant: the day that ends is not told of.
TRoundCoclOpen(t, dur, next) ==
  IF ~Classes(dur) THEN [carry |-> 0, t |-> t]
  ELSE [carry |-> 0, t |-> HMS(ToClass(SecsSinceMidnight(t), SecsSinceMidnight(t) % Mag(InSecs(dur)), dur, next) % SECS_PER_DAY, 0)]

\* tround_tdur_cocl(): what is on a multiple stays as it is, military midnights
\* and leap seconds too.
TRoundCocl(t, dur, next) ==
  LET unp == SecsSinceMidnight(t)
      diff == unp % Mag(InSecs(dur))
      n == ToClass(unp, diff, dur, next)
  IN IF ~Classes(dur) \/ (diff = 0 /\ ~next) THEN [carry |-> 0, t |-> t]
     ELSE [carry |-> n \div SECS_PER_DAY, t |-> HMS(n % SECS_PER_DAY, 0)]

\* sxround_dur_cocl(): a remainder takes the sign of the epoch, and is then put
\* into an unsigned int.
SxRoundCocl(n, dur, next) ==
  IF Classes(dur) THEN ToClass(n, Rem(n, Mag(InSecs(dur))) % UINT_RANGE, dur, next) ELSE n

\* An hour or a minute on, the way a rounding goes.
HourOn(t, down) ==
  IF ~down THEN IF t.h + 1 >= 24 THEN [carry |-> 1, t |-> [t EXCEPT !.h = 0]]
                                 ELSE [carry |-> 0, t |-> [t EXCEPT !.h = @ + 1]]
  ELSE IF t.h = 0 THEN [carry |-> -1, t |-> [t EXCEPT !.h = 23]]
  ELSE [carry |-> 0, t |-> [t EXCEPT !.h = @ - 1]]

MinuteOn(t, down) ==
  IF ~down THEN IF t.m + 1 >= 60 THEN HourOn([t EXCEPT !.m = 0], down)
                                 ELSE [carry |-> 0, t |-> [t EXCEPT !.m = @ + 1]]
  ELSE IF t.m = 0 THEN HourOn([t EXCEPT !.m = 59], down)
  ELSE [carry |-> 0, t |-> [t EXCEPT !.m = @ - 1]]

\* Whether a value is still to come, or is what there is already.
StaysWithin(val, tgt, down, next) ==
  (~down /\ val < tgt) \/ (down /\ val > tgt) \/ (val = tgt /\ ~next)

\* tround_tdur()
TRound(t, dur, next) ==
  LET v == Mag(dur.dv)
      u == CASE dur.unit = "h" -> [t EXCEPT !.h = v] [] dur.unit = "m" -> [t EXCEPT !.m = v] [] dur.unit = "s" -> [t EXCEPT !.s = v]
      val == CASE dur.unit = "h" -> t.h [] dur.unit = "m" -> t.m [] dur.unit = "s" -> t.s
  IN IF dur.unit = "ns" THEN [carry |-> 0, t |-> t]
     ELSE IF StaysWithin(val, v, Down(dur), next) THEN [carry |-> 0, t |-> u]
     ELSE CASE dur.unit = "h" -> [carry |-> IF Down(dur) THEN -1 ELSE 1, t |-> u]
            [] dur.unit = "m" -> HourOn(u, Down(dur))
            [] dur.unit = "s" -> MinuteOn(u, Down(dur))

-----------------------------------------------------------------------------
(* Dates. *)

\* dround_ddur_cocl(): the next or the previous weekday, or first of a month;
\* months of ymds and ymcws only.  Of ymcws just the count is set.
OnFirst(date) == IF date.typ = "ymd" THEN date.d = 1 ELSE date.c = 1 /\ date.w = MONDAY
DRoundCocl(date, dur) ==
  LET n == ConvToDaisy(date)
      wday == DaisyGetWday(n)
      size == dur.dv * (CASE dur.unit = "y" -> 12 [] dur.unit = "q" -> 3 [] OTHER -> 1)
      unp == date.y * 12 + date.m - 1
      of == unp % Mag(size)
      ym == unp - of + (IF size > 0 /\ (of # 0 \/ ~OnFirst(date)) THEN size ELSE 0)
      e == [date EXCEPT !.y = Y12(ym \div 12), !.m = (ym % 12) + 1]
  IN CASE dur.unit = "b" ->
            DConv(date.typ, Daisy(n + (IF wday < SATURDAY THEN 0 ELSE IF Down(dur) THEN FRIDAY - wday ELSE 7 + MONDAY - wday)))
       [] dur.unit \in {"mo", "q", "y"} -> IF date.typ = "ymd" THEN [e EXCEPT !.d = 1] ELSE [e EXCEPT !.c = 1]
       [] OTHER -> date

\* Mutant: the last of a month is not looked for.
DayOfUncropped(date, tgt, down, next) ==
  LET e == IF StaysWithin(date.d, tgt, down, next) THEN date ELSE IF down THEN MonthBefore(date) ELSE MonthAfter(date)
  IN [e EXCEPT !.d = tgt]

\* dround_ddur(), value by value: a day of the month, a business day of the
\* month, a month of the year, a week of the year; in another month or year
\* they are the last one there is.
DayOf(date, tgt, down, next) ==
  LET e == IF StaysWithin(date.d, tgt, down, next) THEN date ELSE IF down THEN MonthBefore(date) ELSE MonthAfter(date)
  IN [e EXCEPT !.d = MinOf(tgt, GetMdays(e.y, e.m))]

BdayOf(date, tgt, down, next) ==
  LET e == IF StaysWithin(date.bd, tgt, down, next) THEN date ELSE IF down THEN MonthBefore(date) ELSE MonthAfter(date)
  IN [e EXCEPT !.bd = MinOf(tgt, GetBdays(e.y, e.m))]

\* The target is not made positive, and is then cut to the bits of a month.
MonthOf(date, tgt, down, next) ==
  LET y == IF tgt >= 0 /\ StaysWithin(date.m, tgt, down, next) THEN date.y ELSE Y12(date.y + (IF down THEN -1 ELSE 1))
      m == tgt % 16
  IN [date EXCEPT !.y = y, !.m = m, !.d = MinOf(@, GetMdays(y, m))]

WeekOf(date, tgt, down, next) ==
  LET y == IF StaysWithin(date.c, tgt, down, next) THEN date.y ELSE Y12(date.y + (IF down THEN -1 ELSE 1))
  IN [date EXCEPT !.y = y, !.c = MinOf(tgt, GetIsowk(y))]

WeekdayOf(date, tgt, down, next) ==
  LET n == ConvToDaisy(date)
      wday == DaisyGetWday(n)
      wrap == IF StaysWithin(wday, tgt, down, next) THEN 0 ELSE IF down THEN -7 ELSE 7
  IN DConv(date.typ, Daisy(n + tgt - wday + wrap))

DRound(date, dur, next) ==
  LET v == Mag(dur.dv)
      down == Back(dur)
  IN CASE dur.unit = "d" /\ date.typ = "ymd" /\ v # 0 -> DayOf(date, v, down, next)
       [] dur.unit = "b" /\ date.typ = "bizda" /\ v # 0 -> BdayOf(date, v, down, next)
       [] dur.unit = "q" /\ date.typ = "ymd" -> MonthOf(date, 3 * dur.dv - 2 * Sgn(dur.dv), down, next)
       [] dur.unit \in {"mo", "mon"} /\ date.typ = "ymd" -> MonthOf(date, dur.dv, down, next)
       [] dur.unit = "wday" -> WeekdayOf(date, dur.dv, down, next)
       [] dur.unit = "w" /\ date.typ = "ywd" /\ v # 0 -> WeekOf(date, v, down, next)
       [] OTHER -> date

\* dt_round(), the time: classes of days set it to midnight; units that are none
\* of a time leave what the carry slot holds.
Midnightly(dur) == dur.cocl /\ dur.unit \in {"d", "b", "mo", "q", "y"}

RoundTime(x, left_over, dur, next) ==
  LET midnight == x.t.h = 0 /\ x.t.m = 0 /\ x.t.s = 0
  IN IF dur.unit \in {"h", "m", "s", "ns"} /\ ~OnlyDP(x)
       THEN IF dur.cocl THEN TRoundCocl(x.t, dur, next) ELSE TRound(x.t, dur, next)
     ELSE IF Midnightly(dur)
       THEN [carry |-> One(dur.dv > 0 /\ (next \/ ~midnight)) - One(dur.dv < 0 /\ next /\ midnight), t |-> Midnight]
     ELSE [carry |-> left_over, t |-> x.t]

\* Weekdays and business days go through dt_dconv(), which makes the date anew
\* and clears the zone bits.
Anew(dur) == dur.unit = IF dur.cocl THEN "b" ELSE "wday"
Cleared(x, dur) == IF Anew(dur) THEN [x EXCEPT !.znfxd = FALSE, !.neg = FALSE, !.zdiff = 0] ELSE x

\* dt_round(): the time first, the days it carries, then the date.
DtRound(x, left_over, dur, next) ==
  LET rnd == RoundTime(x, left_over, dur, next)
      date == DAdd(x.d, "d", rnd.carry)
  IN IF x.typ = "sexy" THEN IF dur.cocl THEN [x EXCEPT !.sx = SxRoundCocl(@, dur, next)] ELSE x
     ELSE [Cleared(x, dur) EXCEPT
             !.t = rnd.t,
             !.d = IF date.typ = "unk" THEN date
                   ELSE IF dur.cocl THEN DRoundCocl(date, dur) ELSE DRound(date, dur, next)]

-----------------------------------------------------------------------------
(* main(). *)

NoTurn == [dur |-> [unit |-> "none"]]

Init ==
  /\ job \in Jobs
  /\ pc = "args" /\ i = 1 /\ slash = FALSE /\ durs = <<>>
  /\ left = job.lines
  /\ d = NotADate /\ carry = 0 /\ rc = 0
  /\ turn = NoTurn /\ in = NotADate /\ out = <<>>

\* dt_io_strpdtdur(): a number is of a class with a slash, and with the flag one
\* before has left.
StrpDtDur(spec, flag) == [spec EXCEPT !.cocl = @ \/ flag]

\* dt_io_strpdtrnd(): numbers and names, whose slash is their own.  A spec that
\* is not accepted ends it all.
Arg ==
  /\ pc = "args" /\ i <= Len(job.specs)
  /\ LET spec == job.specs[i]
         dur == IF spec.unit \in Named THEN spec ELSE StrpDtDur(spec, slash)
     IN /\ slash' = (slash \/ (spec.cocl /\ spec.unit \notin Named))
        /\ IF Acceptable(dur) THEN durs' = Append(durs, dur) /\ UNCHANGED <<pc, rc>>
                              ELSE pc' = "done" /\ rc' = 1 /\ UNCHANGED durs
  /\ i' = i + 1
  /\ UNCHANGED <<job, left, d, carry, turn, in, out>>

\* What dt_tadd_s() leaves in the carry slot.
CarryOf(x, secs) == IF x.sw /\ secs # 0 THEN TAddS(x.t, Rem(secs, SECS_PER_DAY), 0).carry ELSE 0

\* A date and time may be told with its difference to UTC, and is moved there.
Told(x) == SandwichP(x) /\ job.off.given
Parsed(x) ==
  IF ~Told(x) THEN x
  ELSE [(IF job.off.secs = 0 THEN x ELSE DtAddSecs(x, -job.off.secs)) EXCEPT !.znfxd = TRUE]
ParsedCarry(x) == IF Told(x) THEN CarryOf(x, -job.off.secs) ELSE 0

\* dtz_forgetz(), and what it leaves in the carry slot.
Forgotten(x, undo) == IF undo THEN DtzForgetz(x, job.zone) ELSE x
ForgottenCarry(x, left_over, undo) ==
  IF Forgotten(x, undo) = x THEN left_over
  ELSE CarryOf(x, ZifUtcTime(job.zone, ToUnixEpoch(x)) - ToUnixEpoch(x))

\* A date-time of the command line is taken from its zone after the rounding,
\* one that was read before it.  Of lines that are none nothing is said in the
\* modes that let them through, -S and -E.
Read(fixed) ==
  LET x == Head(left)
      told == job.mode # "empty" /\ ~job.quiet
  IN /\ pc \in {"args", "read"} /\ (pc = "args" => i > Len(job.specs)) /\ left # <<>>
     /\ fixed => Croppable(x)
     /\ IF x = NotADate
          THEN /\ rc' = CASE job.mode = "arg" -> 1 [] job.mode = "plain" /\ ~job.quiet -> 2 [] OTHER -> rc
               /\ pc' = "read"
               /\ UNCHANGED <<i, d, carry, in>>
        ELSE /\ d' = Forgotten(Parsed(x), job.zoned /\ job.mode # "arg")
             /\ carry' = ForgottenCarry(Parsed(x), ParsedCarry(x), job.zoned /\ job.mode # "arg")
             /\ in' = Parsed(x)
             /\ pc' = "round" /\ i' = 1
             /\ rc' = IF fixed /\ told THEN 2 ELSE rc
     /\ left' = Tail(left)
     /\ UNCHANGED <<job, slash, durs, turn, out>>

\* A turn of dround(), after which no carry is left.
Round ==
  /\ pc = "round" /\ i <= Len(durs)
  /\ d' = DtRound(d, carry, durs[i], job.next)
  /\ carry' = 0
  /\ turn' = [dur |-> durs[i], from |-> d, carry |-> carry]
  /\ i' = i + 1
  /\ UNCHANGED <<job, pc, slash, durs, left, rc, in, out>>

Write ==
  /\ pc = "round" /\ i > Len(durs)
  /\ d' = Forgotten(d, job.zoned)
  /\ carry' = ForgottenCarry(d, carry, job.zoned)
  /\ out' = Append(out, [from |-> in, to |-> d'])
  /\ pc' = "read"
  /\ turn' = NoTurn
  /\ UNCHANGED <<job, i, slash, durs, left, rc, in>>

End == pc = "read" /\ left = <<>> /\ pc' = "done" /\ UNCHANGED <<job, i, slash, durs, left, d, carry, rc, turn, in, out>>

Next == Arg \/ (\E fixed \in BOOLEAN : Read(fixed)) \/ Round \/ Write \/ End

Spec == Init /\ [][Next]_vars
-----------------------------------------------------------------------------
(* Properties. *)

Moment(x) == IF OnlyDP(x) THEN StampOn(ConvToDaisy(x.d), Midnight) ELSE ToUnixEpoch(x)

TypeOK ==
  /\ pc \in {"args", "read", "round", "done"} /\ slash \in BOOLEAN /\ rc \in 0 .. 2
  /\ i \in 1 .. 9
  /\ \A k \in DOMAIN durs : Acceptable(durs[k])
  /\ d # NotADate => /\ d.t.h \in 0 .. 24 /\ d.t.m \in 0 .. 59 /\ d.t.s \in 0 .. 60
                     /\ d.typ = in.typ /\ d.sw = in.sw /\ d.d.typ = in.d.typ

\* A unit's value set in the periods around a date-time, everything smaller
\* kept: hours in the days, days in the months, and so on; of a day the month
\* does not have, or a week, the last one.
Period(x, dur, k) ==
  LET v == Mag(dur.dv)
      Month(date) == DAddM([date EXCEPT !.d = 1], k)
      n == ConvToDaisy(x.d)
  IN CASE dur.unit = "h" -> DtAddSecs([x EXCEPT !.t.h = v], k * SECS_PER_DAY)
       [] dur.unit = "m" -> DtAddSecs([x EXCEPT !.t.m = v], k * 3600)
       [] dur.unit = "s" -> DtAddSecs([x EXCEPT !.t.s = v], k * 60)
       [] dur.unit = "d" -> LET f == Month(x.d) IN [x EXCEPT !.d = [f EXCEPT !.d = MinOf(v, GetMdays(f.y, f.m))]]
       [] dur.unit = "b" -> LET f == DAddM(x.d, k) IN [x EXCEPT !.d = [f EXCEPT !.bd = MinOf(v, GetBdays(f.y, f.m))]]
       [] dur.unit \in {"mo", "mon", "q"} ->
            LET m == IF dur.unit = "q" THEN 3 * v - 2 ELSE v
            IN [x EXCEPT !.d = [@ EXCEPT !.y = @ + k, !.m = m, !.d = MinOf(@, GetMdays(x.d.y + k, m))]]
       [] dur.unit = "wday" -> [x EXCEPT !.d = DConv(x.d.typ, Daisy(n - DaisyGetWday(n) + v + 7 * k))]
       [] dur.unit = "w" -> LET f == YearsOn(x.d, k) IN [x EXCEPT !.d = [f EXCEPT !.c = MinOf(v, GetIsowk(f.y))]]

\* y is x rounded: an occurrence of the value that was asked for, everything
\* smaller as it was, and no other one nearer that way.  Not for negative months
\* and quarters, and with --next not for the last of a month or a year that
\* stands for one it does not have, nor downwards; and with weeks not into
\* another year.
Nearest(x, y, dur, next) ==
  LET At(z) == IF OnlyTP(x) THEN SecsSinceMidnight(z.t) % SECS_PER_DAY ELSE Moment(z)
      Ahead(z) == IF Down(dur) THEN At(x) - At(z) ELSE At(z) - At(x)
      around == {Period(x, dur, k) : k \in -2 .. 2}
      ends == (next \/ Down(dur)) /\ \E z \in around : At(z) = At(x) /\ dur.unit \in {"d", "b", "w"}
              /\ Mag(dur.dv) # (CASE dur.unit = "d" -> z.d.d [] dur.unit = "b" -> z.d.bd [] OTHER -> z.d.c)
      works == CASE dur.unit \in {"h", "m", "s"} -> ~OnlyDP(x)
                 [] dur.unit \in {"d", "mon"} -> x.typ = "ymd" /\ dur.dv # 0
                 [] dur.unit \in {"mo", "q"} -> x.typ = "ymd" /\ dur.dv > 0
                 [] dur.unit = "b" -> x.typ = "bizda" /\ dur.dv # 0
                 [] dur.unit = "w" -> x.typ = "ywd" /\ dur.dv # 0 /\ y.d.y = x.d.y
                 [] dur.unit = "wday" -> x.typ # "unk"
                 [] OTHER -> FALSE
  IN works /\ ~ends =>
       /\ At(y) \in {At(z) : z \in around}
       /\ Ahead(y) >= One(next) \/ OnlyTP(x)
       /\ \A z \in around : Ahead(z) < One(next) \/ Ahead(y) <= Ahead(z) \/ OnlyTP(x)

Rounded == pc = "round" /\ turn # NoTurn

\* The carry of the date-time that was read is taken for one of the rounding.
SetsCarry(dur) == dur.unit \in {"h", "m", "s", "ns"} \/ Midnightly(dur)
StaleCarry == turn.carry # 0 /\ ~SetsCarry(turn.dur)

\* dt_round(): the nearest occurrence there is, of what specs before, zones and
\* offsets have left, but for a carry that was left there with it.
RoundsToNearest ==
  Rounded /\ ~turn.dur.cocl /\ turn.from.typ # "sexy" /\ ~StaleCarry => Nearest(turn.from, d, turn.dur, job.next)

\* Co-class rounding: multiples of a unit, from midnight, from the epoch or
\* from the year 0.
Multiple(x, dur) ==
  LET months == Mag(dur.dv) * (CASE dur.unit = "y" -> 12 [] dur.unit = "q" -> 3 [] OTHER -> 1)
      n == Moment(x) \div SECS_PER_DAY + DAISY_UNIX_BASE
      date == DaisyToYmd(n)
  IN CASE dur.unit \in {"h", "m", "s"} -> Moment(x) % Mag(InSecs(dur)) = 0
       [] dur.unit = "d" -> Moment(x) % SECS_PER_DAY = 0
       [] dur.unit = "b" -> Moment(x) % SECS_PER_DAY = 0 /\ DaisyGetWday(n) < SATURDAY
       [] OTHER -> Moment(x) % SECS_PER_DAY = 0 /\ date.d = 1 /\ (date.y * 12 + date.m - 1) % months = 0

\* y is x rounded to a multiple of what was asked for, and none is nearer that
\* way.  Of ymcws nothing is said, the first Wednesday is not the first of a
\* month.
NearestMultiple(x, y, dur, next) ==
  LET unit == CASE dur.unit \in {"h", "m", "s"} -> Mag(InSecs(dur)) [] OTHER -> SECS_PER_DAY
      sgn == IF Down(dur) THEN -1 ELSE 1
      steps == (Moment(y) - Moment(x)) * sgn
      works == ~OnlyTP(x) /\ (CASE dur.unit \in {"h", "m", "s"} -> ~OnlyDP(x)
                                [] dur.unit \in {"mo", "q", "y"} -> x.typ = "ymd"
                                [] dur.unit \in {"d", "b"} -> x.typ \in {"ymd", "daisy"}
                                [] OTHER -> FALSE)
      first == IF Down(dur) THEN Moment(y) \div unit + 1 ELSE Moment(x) \div unit + One(next \/ Moment(x) % unit # 0)
      last == IF Down(dur) THEN (Moment(x) - One(next)) \div unit ELSE Moment(y) \div unit - 1
  IN works => /\ Multiple(y, dur)
              /\ steps >= One(next)
              /\ \A k \in first .. last : ~Multiple(Sexy(k * unit), dur)

\* Epochs that are further from a multiple than an unsigned int can tell.
Wraps(x, dur) == x.typ = "sexy" /\ x.sx < 0 /\ x.sx % Mag(InSecs(dur)) # 0

\* dt_round(): the nearest multiple there is, from 1970 on for epochs or from a
\* multiple.
RoundsToMultiple ==
  Rounded /\ turn.dur.cocl /\ ~Wraps(turn.from, turn.dur) => NearestMultiple(turn.from, d, turn.dur, job.next)

\* dround(): one date-time after the other, rounded to multiples, or dates to
\* weekdays, they keep their order; epochs from 1970 on.
OrderIsKept ==
  Len(out) >= 2 /\ ~job.zoned
  /\ (\A k \in DOMAIN durs : (durs[k].cocl /\ SetsCarry(durs[k])) \/ (durs[k].unit = "wday" /\ OnlyDP(d))) =>
    LET a == out[Len(out) - 1]
        b == out[Len(out)]
        Late(o) == o.from.typ = "sexy" => o.from.sx >= 0 /\ o.to.sx >= 0
    IN /\ a.from.typ = b.from.typ /\ a.from.sw = b.from.sw /\ a.from.typ \notin {"ymcw", "unk"}
       /\ Late(a) /\ Late(b) /\ Moment(a.from) <= Moment(b.from)
       => Moment(a.to) <= Moment(b.to)

-----------------------------------------------------------------------------
(* What is said and not done; the README tells the counterexamples. *)

\* A rounding ends on the nearest occurrence, whatever the carry slot holds;
\* dround.yuck: "Round DATE/TIME to the next occurrence of RNDSPEC."
OccurrenceIsNext ==
  Rounded /\ ~turn.dur.cocl /\ turn.from.typ # "sexy" => Nearest(turn.from, d, turn.dur, job.next)

\* A rounding ends on the nearest multiple, before 1970 too; dround.yuck: "The
\* time axis is partitioned by multiples of the named element, and the oldest
\* date or datetime is returned that is greater (younger)".
TimeIsPartitioned ==
  Rounded /\ turn.dur.cocl => NearestMultiple(turn.from, d, turn.dur, job.next)

\* dround.yuck: "Suffixed RNDSPECs may additionally be prefixed with a slash
\* (`/`) to indicate that rounding to a multiple of RNDSPEC is desired."
SlashesAreOwn == \A k \in DOMAIN durs : durs[k] = job.specs[k]

\* dround.yuck: "Always round to a different date or time."
NextIsDifferent == Rounded /\ job.next => d # turn.from

\* dround.yuck: "numerals suffixed with y, q, mo, d, bd, h, m, or s, possibly
\* prefixed with a dash (`-`)"
ResultsAreDates == d # NotADate /\ d.typ = "ymd" => d.d.m \in 1 .. 12 /\ d.d.d \in 1 .. GetMdays(d.d.y, d.d.m)

\* An ISO date carries along how its own year begins.
WeeksAreOfTheirYear == d # NotADate /\ d.typ = "ywd" => d.d.hang = Jan01Hang(Jan01Wday(d.d.y))

\* dround.c: "we define the conversion to take place on the rounded date"
ZonesComeLast ==
  out # <<>> /\ job.zoned =>
    LET o == out[Len(out)]
        go[k \in 0 .. Len(durs)] == IF k = 0 THEN o.from ELSE DtRound(go[k - 1], 0, durs[k], job.next)
    IN o.to = DtzForgetz(go[Len(durs)], job.zone)
=============================================================================
