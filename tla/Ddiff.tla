-------------------------------- MODULE Ddiff --------------------------------
(***************************************************************************)
(* ddiff, src/ddiff.c: how far the dates, times or date-times of its lines *)
(* are from a reference, in the units its format asks for.  A duration is  *)
(* computed in the calendar that fits these units, and then divided into   *)
(* them from the coarsest to the finest.                                   *)
(***************************************************************************)
EXTENDS DtOps

CONSTANTS
  Refs,         \* the references
  Lines,        \* what is read: date-times, and things that are none
  Fmts,         \* the formats, as the units they have
  LineCount     \* how many lines there are

VARIABLES
  ref, fmt, quiet,
  left,         \* lines left
  rc,           \* what the exit code will be
  out           \* history: the last line and what was printed for it

vars == <<ref, fmt, quiet, left, rc, out>>

\* A line that is not a date-time; and no output.
NotADate == [typ |-> "none"]
Nothing == [units |-> {}]

-----------------------------------------------------------------------------
(* Formats: Y years, q quarters, m months, w weeks, d days, H hours, M      *)
(* minutes, S seconds, N nanoseconds; b says that days are business days    *)
(* and r that seconds are real ones.                                        *)

Clock == {"H", "M", "S"}

\* The formats with a name.
Special(typ) ==
  Clock \union (CASE typ = "ymd" -> {"Y", "m", "d"}
                  [] typ = "ymcw" -> {"Y", "m", "w", "d"}
                  [] typ = "bizda" -> {"Y", "m", "d", "b"}
                  [] typ = "daisy" -> {"d"}
                  [] typ = "ywd" -> {"Y", "w", "d"}
                  [] typ = "yd" -> {"Y", "d"})

\* determine_durtype(): the first of these that fits.
DetermineDurtype(x, y, f) ==
  CASE OnlyTP(x) /\ OnlyTP(y) -> IF "N" \in f THEN "ns" ELSE "s"
    [] OnlyTP(x) # OnlyTP(y) -> "none"
    [] OTHER ->
         IF f \intersect {"m", "q"} # {} THEN "ymd"
         ELSE IF {"w", "Y"} \subseteq f THEN "ywd"
         ELSE IF {"Y", "d"} \subseteq f THEN "yd"
         ELSE IF {"d", "b"} \subseteq f THEN "bd"
         ELSE IF "Y" \in f THEN "ymd"
         ELSE IF OnlyDP(x) \/ OnlyDP(y) THEN "d"
         ELSE IF "r" \in f THEN "rs"
         ELSE IF "N" \in f THEN "ns"
         ELSE "s"

\* Months, days and seconds, leap seconds to be put in, and nanoseconds.
Duration(neg, mon, days, secs, corr, ns) ==
  [neg |-> neg, mon |-> mon, days |-> days, secs |-> secs, corr |-> corr, ns |-> ns]

\* A duration, from the seconds r or the parts p between two date-times: months
\* and days with the seconds that are left, or seconds.  Fractions are cut off
\* the seconds between date-times.
DurationOf(kind, x, y, r, p) ==
  LET secs == IF OnlyDP(x) \/ OnlyDP(y) THEN 0 ELSE TDiffS(x.t, y.t)
      nanos == secs * NANOS_PER_SEC + y.t.ns - x.t.ns
  IN CASE kind = "rs" -> Duration(FALSE, 0, 0, r.dv - r.corr, r.corr, 0)
       [] kind = "ns" /\ OnlyTP(x) ->
            Duration(nanos < 0, 0, 0, Mag(nanos) \div NANOS_PER_SEC, 0, Mag(nanos) % NANOS_PER_SEC)
       [] kind = "ns" /\ ~OnlyTP(x) ->
            Duration(FALSE, 0, 0, r.dv - secs + Quot(nanos, NANOS_PER_SEC), 0, 0)
       [] kind \in {"d", "bd"} -> Duration(FALSE, 0, DDiff(kind, x.d, y.d), secs, 0, 0)
       [] kind = "ymd" -> Duration(p.diff.neg, p.diff.m, p.diff.d, p.secs, 0, 0)
       [] kind = "yd" -> Duration(p.diff.neg, 12 * p.diff.y, p.diff.d, p.secs, 0, 0)
       [] kind = "ywd" -> Duration(p.diff.neg, 12 * p.diff.y, p.diff.w + 7 * p.diff.c, p.secs, 0, 0)
       [] OTHER -> Duration(r.neg, 0, 0, r.dv, 0, 0)

Diff(kind, x, y) == DurationOf(kind, x, y, DtDiffSecs(x, y), DtDiffParts(kind, x, y))

\* Mutant: the sign is the one of the date alone.
PrecalcByDate(f, dur) ==
  LET us == Mag(dur.days * SECS_PER_DAY + dur.secs)
  IN [units |-> f, neg |-> dur.neg \/ dur.days < 0, Y |-> dur.mon \div 12, q |-> 0, m |-> dur.mon % 12,
      w |-> 0, d |-> us \div SECS_PER_DAY, H |-> 0, M |-> 0, S |-> us % SECS_PER_DAY, N |-> 0]

\* Mutant: what is in whole quarters is printed as months as well.
PrecalcQuarters(f, dur) ==
  [units |-> f, neg |-> FALSE, Y |-> dur.mon \div 12, q |-> (dur.mon % 12) \div 3, m |-> dur.mon % 12,
   w |-> 0, d |-> 0, H |-> 0, M |-> 0, S |-> 0, N |-> 0]

\* precalc(): what is left of every unit goes to the next finer one there is.
Precalc(f, dur) ==
  LET has(u) == u \in f
      months == IF {"m", "q"} \intersect f = {} THEN 0 ELSE IF has("Y") THEN dur.mon % 12 ELSE dur.mon
      us == dur.days * SECS_PER_DAY + dur.secs
      Part(u, left_, size) == IF has(u) THEN left_ \div size ELSE 0
      Rest(u, left_, size) == IF has(u) THEN left_ % size ELSE left_
      d == Rest("w", Mag(us), 7 * SECS_PER_DAY)
      h == Rest("d", d, SECS_PER_DAY)
      m == Rest("H", h, 3600)
      s == Rest("M", m, 60)
  IN [units |-> f,
      neg |-> dur.neg \/ us < 0,
      Y |-> IF has("Y") THEN dur.mon \div 12 ELSE 0,
      q |-> IF has("q") THEN months \div 3 ELSE 0,
      m |-> IF has("q") THEN months % 3 ELSE months,
      w |-> Part("w", Mag(us), 7 * SECS_PER_DAY),
      d |-> Part("d", d, SECS_PER_DAY),
      H |-> Part("H", h, 3600),
      M |-> Part("M", m, 60),
      S |-> IF has("S") THEN s + (IF has("r") THEN 2 ELSE 1) * dur.corr ELSE 0,
      N |-> IF has("N") THEN dur.ns ELSE 0]

\* Without a format seconds or days are printed.
Shown(f, x, y) ==
  LET kind == DetermineDurtype(x, y, f)
      g == IF f # {} THEN f ELSE IF kind = "s" THEN {"S"} ELSE {"d"}
  IN Precalc(g, Diff(kind, x, y))

-----------------------------------------------------------------------------
(* main(). *)

Init ==
  /\ ref \in Refs
  /\ fmt \in Fmts
  /\ quiet \in BOOLEAN
  /\ left = LineCount
  /\ \E fixed \in BOOLEAN :
       /\ fixed => Croppable(ref)
       /\ rc = IF fixed /\ ~quiet THEN 2 ELSE 0
       /\ out = [line |-> NotADate, kind |-> "none", printed |-> Nothing, bad |-> One(fixed)]

\* Mutant: only the last line tells.
LineLast(y, fixed) ==
  LET bad == y = NotADate \/ fixed
  IN /\ left > 0
     /\ fixed => Croppable(y)
     /\ left' = left - 1
     /\ rc' = IF bad /\ ~quiet THEN 2 ELSE 0
     /\ out' = [line |-> y, kind |-> "none", printed |-> Nothing, bad |-> out.bad + One(bad)]
     /\ UNCHANGED <<ref, fmt, quiet>>

\* A line that is none, or whose difference is not defined, is warned of; one
\* that was read with its day cropped goes through.
Line(y, fixed) ==
  LET kind == IF y = NotADate THEN "none" ELSE DetermineDurtype(ref, y, fmt)
      bad == kind = "none" \/ fixed
  IN /\ left > 0
     /\ fixed => Croppable(y)
     /\ left' = left - 1
     /\ rc' = IF bad /\ ~quiet THEN 2 ELSE rc
     /\ out' = [line |-> y, kind |-> kind, printed |-> IF kind = "none" THEN Nothing ELSE Shown(fmt, ref, y),
                bad |-> out.bad + One(bad)]
     /\ UNCHANGED <<ref, fmt, quiet>>

Next == \E y \in Lines, fixed \in BOOLEAN : Line(y, fixed)

Spec == Init /\ [][Next]_vars

-----------------------------------------------------------------------------
(* Properties. *)

\* Whether nothing smaller than the units of a format was left out, and there
\* are no fractions that are cut off.
Complete(f, kind, x, y) ==
  /\ kind = "ymd" => "m" \in f
  /\ kind \in {"ymd", "ywd", "yd", "d"} =>
       {"S"} \subseteq f \/ ({"d"} \subseteq f /\ (OnlyDP(x) \/ OnlyDP(y) \/ TDiffS(x.t, y.t) = 0))
  /\ kind \in {"s", "ns"} => "S" \in f
  /\ kind = "ns" => "N" \in f /\ (OnlyTP(x) \/ (x.t.ns = 0 /\ y.t.ns = 0))
  /\ kind \notin {"bd", "rs", "none"}

\* What was printed, added to a date-time: years, months, weeks and days in the
\* calendar the difference was taken in, and then the time of the day.
ClockSecs(p) == 3600 * p.H + 60 * p.M + p.S
MonthsLater(d, kind, p) ==
  IF kind = "ywd" THEN YearsOn(d, p.Y) ELSE DAddM(d, 12 * p.Y + 3 * p.q + p.m)
In(kind, x) == DConv(IF kind = "ywd" THEN "ywd" ELSE "ymd", x.d)
Later(d, t, kind, p) ==
  StampOn(ConvToDaisy(MonthsLater(d, kind, p)) + 7 * p.w + p.d, t) + ClockSecs(p)
Ordinary(d) == IF d.typ = "ywd" THEN d.c < 53 ELSE d.d <= 28

\* determine_durtype(), dt_dtdiff() and precalc(): whatever units a format has,
\* if none of the smallest is left out then they add up: what is printed leads
\* from the earlier date-time to the later one, and there is a minus sign if
\* the reference is the later one.  Not from days that some months or years
\* do not have, nor in years and days over a 29th of February of the year
\* before the last.  Back to a later time of the day, months and years lead to
\* the day after the line.
UnitsAddUp ==
  LET p == out.printed
      dates == ~OnlyTP(ref)
      timeless == OnlyDP(ref) \/ OnlyDP(out.line)
      Start(x) == IF timeless THEN OnlyD(x.d) ELSE x
      At(x) == ToUnixEpoch(Start(x))
      early == IF p.neg THEN out.line ELSE ref
      late == IF p.neg THEN ref ELSE out.line
      parts == out.kind \in {"ymd", "yd", "ywd"}
      after == One(parts /\ p.neg /\ ~timeless /\ TDiffS(ref.t, out.line.t) > 0)
      from == DAddD(In(out.kind, early), after)
  IN out.kind # "none" /\ Complete(p.units, out.kind, ref, out.line) =>
       IF dates
         THEN /\ p.neg = (At(out.line) < At(ref))
              /\ ~parts \/ (Ordinary(from) /\ ~LosesLeapDay(out.kind, from, In(out.kind, late))) =>
                   Later(from, Start(early).t, out.kind, p) = At(late) + after * SECS_PER_DAY
       ELSE LET Nanos(x) == SecsSinceMidnight(x.t) * NANOS_PER_SEC + (IF out.kind = "ns" THEN x.t.ns ELSE 0)
                secs == (7 * p.w + p.d) * SECS_PER_DAY + ClockSecs(p)
            IN Nanos(late) - Nanos(early) = secs * NANOS_PER_SEC + p.N

\* No unit is as large as the next coarser one that is printed.
UnitsAreCarried ==
  LET p == out.printed
      Below(u, coarser, size) == coarser \in p.units => p[u] < size
  IN out.kind \notin {"none", "rs"} =>
       /\ Below("m", "Y", 12) /\ Below("m", "q", 3)
       /\ Below("d", "w", 7)
       /\ Below("H", "d", 24) /\ Below("M", "H", 60) /\ Below("S", "M", 60)
       /\ out.kind = "ymd" => p.d <= 31
       /\ \A u \in {"Y", "q", "m", "w", "d", "H", "M", "S"} : p[u] >= 0

\* The exit code tells of any line that could not be made sense of.
ExitTells == rc = IF out.bad > 0 /\ ~quiet THEN 2 ELSE 0

-----------------------------------------------------------------------------
(* What the manual says and the code does not do; the README tells the      *)
(* counterexamples.                                                         *)

\* format-ddiff.texi: "%rS Duration in real-life seconds, as in including leap
\* seconds".
RealSecondsAreCounted ==
  LET p == out.printed
      Atomic(x) == StampOn(ConvToDaisy(x.d), x.t) + ChangesBefore(LeapsD, ConvToDaisy(x.d))
  IN out.kind = "rs" => (IF p.neg THEN -p.S ELSE p.S) = Atomic(out.line) - Atomic(ref)
=============================================================================
