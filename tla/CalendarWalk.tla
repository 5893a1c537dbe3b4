---------------------------- MODULE CalendarWalk -----------------------------
(***************************************************************************)
(* The calendars of lib/ against a calendar that knows no formula: a clock *)
(* that turns one day at a time and carries months, years, ISO weeks and   *)
(* counts over as the rules of each calendar say.  Whatever date the clock *)
(* shows, every calendar must show the same one and every conversion must  *)
(* lead from one to the other.                                             *)
(***************************************************************************)
EXTENDS Calendar

CONSTANTS
  Walks   \* years to walk through, a set of triples <<number of the first of
          \* January, its year, the last year>>, that day being a Monday

VARIABLES
  n,            \* the number of the day
  date          \* what the clock shows

vars == <<n, date>>

LeapYear(y) == y % 4 = 0 /\ (y % 100 = 0 => y % 400 = 0)
YearLength(y) == IF LeapYear(y) THEN 366 ELSE 365
MonthLength(y, m) ==
  IF m = 2 THEN (IF LeapYear(y) THEN 29 ELSE 28)
           ELSE IF m \in {4, 6, 9, 11} THEN 30 ELSE 31

Init ==
  \E walk \in Walks :
    /\ n = walk[1]
    /\ date = [y |-> walk[2], m |-> 1, d |-> 1, w |-> MONDAY, c |-> 1, yd |-> 1, bd |-> 1,
               iy |-> walk[2], iw |-> 1, hang |-> 0, first |-> MONDAY, abs |-> 1, mon |-> 1, sun |-> 0]

-----------------------------------------------------------------------------
(* One day on. *)

NewYear == date.yd = YearLength(date.y)
NewMonth == date.d = MonthLength(date.y, date.m)

Tomorrow ==
  LET y == IF NewYear THEN date.y + 1 ELSE date.y
      yd == IF NewYear THEN 1 ELSE date.yd + 1
      d == IF NewMonth THEN 1 ELSE date.d + 1
      w == IF date.w = SUNDAY THEN MONDAY ELSE date.w + 1
      \* a week belongs to the year that its Thursday is in
      early == yd + 3 > YearLength(y)
      iy == IF w # MONDAY THEN date.iy ELSE IF early THEN y + 1 ELSE y
      Count(c, inc) == (IF NewYear THEN 0 ELSE c) + One(inc)
  IN [y |-> y, yd |-> yd, w |-> w, d |-> d, iy |-> iy,
      m |-> IF NewYear THEN 1 ELSE date.m + One(NewMonth),
      c |-> IF NewMonth THEN 1 ELSE date.c + One(d \in {8, 15, 22, 29}),
      bd |-> (IF NewMonth THEN 0 ELSE date.bd) + One(w < SATURDAY),
      iw |-> IF iy # date.iy THEN 1 ELSE date.iw + One(w = MONDAY),
      hang |-> IF iy = date.iy THEN date.hang ELSE yd - 1 - (IF early THEN YearLength(y) ELSE 0),
      abs |-> Count(date.abs, w = (IF NewYear THEN w ELSE date.first)),
      mon |-> Count(date.mon, w = MONDAY),
      sun |-> Count(date.sun, w = SUNDAY),
      first |-> IF NewYear THEN w ELSE date.first]

Next ==
  /\ \E walk \in Walks : walk[2] <= date.y /\ date.y <= walk[3] /\ ~(NewYear /\ date.y = walk[3])
  /\ n' = n + 1
  /\ date' = Tomorrow

Spec == Init /\ [][Next]_vars

-----------------------------------------------------------------------------
(* What the code should say of the day. *)

Workday == date.w < SATURDAY

\* The day in each calendar; only workdays have a business day.
Shown(typ) ==
  CASE typ = "ymd" -> Ymd(date.y, date.m, date.d)
    [] typ = "ymcw" -> Ymcw(date.y, date.m, date.c, date.w)
    [] typ = "ywd" -> Ywd(date.iy, date.iw, date.w, date.hang)
    [] typ = "yd" -> Yd(date.y, date.yd)
    [] typ = "bizda" -> Bizda(date.y, date.m, date.bd)
    [] typ = "daisy" -> Daisy(n)
    [] typ = "ldn" -> [typ |-> "ldn", n |-> n + LDN_BASE]

Calendars == {"ymd", "ymcw", "ywd", "yd", "daisy", "ldn"}

Sources == IF Workday THEN Calendars \union {"bizda"} ELSE Calendars

\* dt_dconv() leads from every calendar to every other one and back to the
\* same day.  There is no way into bizda, none from there to yd, and the one to
\* ywd is MakeYwdYbd's below.
ConversionsAgree ==
  \A from \in Sources, to \in Calendars :
    ~(from = "bizda" /\ to \in {"yd", "ywd"}) => DFixup(DConv(to, Shown(from))) = Shown(to)

\* %C, %V, %W and %U of dates in ymd, yd and daisy count the weeks as the
\* clock does.
WeeksAreCounted ==
  \A typ \in {"ymd", "yd", "daisy"} :
    /\ GetWcntYear(Shown(typ), "abs") = date.abs
    /\ GetWcntYear(Shown(typ), "iso") = date.iw
    /\ GetWcntYear(Shown(typ), "mon") = date.mon
    /\ GetWcntYear(Shown(typ), "sun") = date.sun

\* dt_get_bday(): a workday is the so many-th of its month.
BusinessDaysAreCounted ==
  \A typ \in {"ymd", "daisy"} : Workday => GetBday(Shown(typ)) = date.bd

\* What dt_get_wcnt_year() and dt_get_bday() count is what has passed by.
CountsAreRight == WeeksAreCounted /\ BusinessDaysAreCounted

-----------------------------------------------------------------------------
(* What documents and comments say and the code does not do.  MCDecade and   *)
(* MCLast are walks that show it; the README tells the counterexamples.      *)

\* format.texi: %W is "The week count, first day of week is Mon", of a date
\* in ISO weeks as well.
IsoDatesCountMondays ==
  date.iy = date.y => GetWcntYear(Shown("ywd"), "mon") = date.mon

\* date-core.h: "# define DT_MAX_YEAR (4095)", the year up to which day numbers
\* are dates.
DesignRangeHasDates == DConv("ymd", Shown("daisy")) = Shown("ymd")

\* __make_ywd_ybd(): "build a 8601 compliant ywd object from year Y and
\* year-business-day YD".
BusinessDaysHaveWeeks == Workday => DConv("ywd", Shown("bizda")) = Shown("ywd")

\* dt_get_bday(): "get N where N is the N-th business day after ultimo".
YmcwBusinessDays == Workday => GetBday(Shown("ymcw")) = date.bd
=============================================================================
