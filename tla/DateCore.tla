------------------------------ MODULE DateCore -------------------------------
(***************************************************************************)
(* Adding durations to dates, dt_dadd() and what it calls in lib/*.c.  A   *)
(* tool holds one date and adds one duration after the other to it,        *)
(* converts it, or crops it for printing.  Days, weeks and business days   *)
(* are first added to the smallest field of the date, which then is        *)
(* carried over month by month or year by year until it fits; the turns of *)
(* these loops are steps here.  Months and years are only counted up: the  *)
(* date may then have a day its month does not, and stays that lazy until  *)
(* it is converted, printed or, in some calendars, added to.               *)
(***************************************************************************)
EXTENDS DateOps

CONSTANTS
  Typs,         \* the calendars dates are read in
  Firsts,       \* the day numbers of the dates that are read
  Days, Weeks, Bizdays, Months, Years,   \* what is added of each kind
  Calls         \* how many calls a tool makes

VARIABLES
  date,         \* the date the tool holds
  pc,           \* "idle" or "carry"
  work,         \* the date under way, its smallest field x unbounded
  left,         \* how many calls are left
  asked         \* history: the last call and the date it was made for

vars == <<date, pc, work, left, asked>>

ASSUME CallsAssumption == Calls \in Nat

-----------------------------------------------------------------------------
(* The calls. *)

\* No date is under way.
Idle == [typ |-> "none"]

\* A date is read: any day in any calendar, business days from Mondays to
\* Fridays only.
Read(typ, num) ==
  LET d == DaisyToYmd(num)
  IN IF typ = "bizda"
     THEN Bizda(d.y, d.m, BizIndex(num) - BizIndex(num - d.d))
     ELSE DConv(typ, Daisy(num))

Init ==
  /\ \E typ \in Typs, num \in Firsts :
       /\ typ = "bizda" => DaisyGetWday(num) < SATURDAY
       /\ date = Read(typ, num)
  /\ pc = "idle"
  /\ work = Idle
  /\ left = Calls
  /\ asked = [kind |-> "read", num |-> 0, from |-> date]

Ask(kind, num) ==
  /\ pc = "idle"
  /\ left > 0
  /\ left' = left - 1
  /\ asked' = [kind |-> kind, num |-> num, from |-> date]

Hold(d) == date' = d /\ UNCHANGED <<pc, work>>

Carry(k) == pc' = "carry" /\ work' = k /\ UNCHANGED date

AddD(num) ==
  /\ Ask("d", num)
  /\ IF num = 0 THEN Hold(date)
     ELSE IF date.typ \in Numbers THEN Hold(NumberOn(date, num))
     ELSE Carry(DaysOn(date, num))

AddW(num) ==
  /\ Ask("w", num)
  /\ IF num = 0 THEN Hold(date)
     ELSE IF date.typ \in Numbers THEN Hold(NumberOn(date, 7 * num))
     ELSE Carry(WeeksOn(date, num))

\* ISO dates stay as they are.
AddB(num) ==
  /\ Ask("b", num)
  /\ IF num = 0 \/ date.typ = "ywd" THEN Hold(date)
     ELSE IF date.typ \in Numbers
       THEN Hold(NumberOn(date, DEquiv(DaisyGetWday(DayNumber(date)), num)))
     ELSE Carry(BizdaysOn(date, num))

AddM(num) ==
  /\ Ask("m", num)
  /\ Hold(IF num # 0 /\ date.typ \in {"ymd", "ymcw", "bizda"} THEN MonthsOn(date, num) ELSE date)

AddY(num) == Ask("y", num) /\ Hold(YearsOn(date, num))

\* What a conversion that does not exist returns is not worked with.
Convert(typ) ==
  /\ date # Naught(date.typ)
  /\ Ask(typ, 0)
  /\ Hold(DConv(typ, date))

Fixup == Ask("fixup", 0) /\ Hold(DFixup(date))

\* A turn of the loop, and its end.
Turn ==
  /\ pc = "carry"
  /\ \/ /\ work.x < 1
        /\ work' = [Before(work) EXCEPT !.x = @ + Span(Before(work))]
     \/ /\ work.x > Span(work)
        /\ work' = [After(work) EXCEPT !.x = @ - Span(work)]
  /\ UNCHANGED <<date, pc, left, asked>>

\* Mutant: only what every month has is let out.
StoreShort ==
  /\ pc = "carry"
  /\ work.x \in 1 .. 28
  /\ date' = Fold(work)
  /\ pc' = "idle"
  /\ work' = Idle
  /\ UNCHANGED <<left, asked>>

Store ==
  /\ pc = "carry"
  /\ work.x \in 1 .. Span(work)
  /\ date' = Fold(work)
  /\ pc' = "idle"
  /\ work' = Idle
  /\ UNCHANGED <<left, asked>>

Call ==
  /\ date # Naught(date.typ)
  /\ \/ \E num \in Days : AddD(num)
     \/ \E num \in Weeks : AddW(num)
     \/ \E num \in Bizdays : AddB(num)
     \/ \E num \in Months : AddM(num)
     \/ \E num \in Years : AddY(num)
     \/ \E typ \in Typs : Convert(typ)
     \/ Fixup

Next == Call \/ Turn \/ Store

Spec == Init /\ [][Next]_vars

\* One thread runs the loops.
FairSpec == Spec /\ WF_vars(Turn \/ Store)

-----------------------------------------------------------------------------
(* What the calls should lead to. *)

Weekend(num) == DaisyGetWday(num) >= SATURDAY

\* Going on, a business date that meets a weekend is the Friday before; going
\* back, the Monday after.
WorkdayAt(num, dir) ==
  IF ~Weekend(num) THEN num
  ELSE IF dir > 0 THEN num - (DaisyGetWday(num) - FRIDAY)
  ELSE num + (8 - DaisyGetWday(num))

DaysFrom(d, num) ==
  IF d.typ = "bizda" THEN WorkdayAt(Meant(d) + num, num) ELSE Meant(d) + num

\* The num-th workday after a day, or before it.
BizdaysFrom(d, num) ==
  BizDay(BizIndex(Meant(d)) + num + One(Weekend(Meant(d)) /\ num < 0))

\* The day the last call should lead to.
Goal ==
  CASE asked.kind = "d" -> DaysFrom(asked.from, asked.num)
    [] asked.kind = "w" -> DaysFrom(asked.from, 7 * asked.num)
    [] asked.kind = "b" -> BizdaysFrom(asked.from, asked.num)
    [] asked.kind \in {"m", "y", "read"} -> Reading(date)
    [] OTHER -> Reading(DFixup(asked.from))

\* ... and the day it is, as printed where nothing was added.
Now ==
  IF pc = "carry" THEN Lin(work)
  ELSE Reading(IF asked.kind \in Typs \union {"fixup"} THEN DFixup(date) ELSE date)

\* Business days are added rightly except to ISO dates, to weekends in ymcw,
\* and except very many of them at once.
BizdaysSupported(d, num) ==
  CASE d.typ = "ywd" -> FALSE
    [] d.typ = "ymcw" -> d.w < SATURDAY
    [] d.typ = "bizda" -> TRUE
    [] OTHER -> num >= -275

\* Not what a conversion that does not exist left behind.
Dated == date # Naught(date.typ)
Settled == pc = "idle" /\ Dated
AddedDays == asked.kind \in {"d", "w", "b"} /\ asked.num # 0

\* The fields of a date, those of lazy ones too.
YearOK(d, last) == d.y \in Nat /\ d.y <= last
DateOK(d) ==
  CASE d.typ = "ymd" -> YearOK(d, 4095) /\ d.m \in 1 .. 12 /\ d.d \in 1 .. 31
    [] d.typ = "ymcw" -> YearOK(d, 4095) /\ d.m \in 1 .. 12 /\ d.c \in 1 .. 5 /\ d.w \in 1 .. 7
    [] d.typ = "ywd" -> YearOK(d, 4095) /\ d.c \in 1 .. 53 /\ d.w \in 1 .. 7 /\ d.hang \in -3 .. 3
    [] d.typ = "yd" -> YearOK(d, 65535) /\ d.d \in 1 .. 366
    [] d.typ = "bizda" -> YearOK(d, 4095) /\ d.m \in 1 .. 12 /\ d.bd \in 1 .. 23
    [] OTHER -> d.n \in Int

\* Every call leaves a date whose fields are in range, or the naught.
TypeOK ==
  /\ pc \in {"idle", "carry"}
  /\ left \in 0 .. Calls
  /\ date.typ \in Typs
  /\ Dated => DateOK(date)
  /\ IF pc = "idle" THEN work = Idle ELSE work.typ = date.typ /\ work.x \in Int

\* dt_dadd_d(), dt_dadd_w() and dt_dadd_b() in any calendar, in every turn of
\* their loops: the date is the day that many days or workdays away.
\* Converting and cropping keep the day a date is printed as, but for the way
\* from bizda to ywd.  All this where the day has a year of 1601 to 4095.
GoalIsKept ==
  /\ Dated /\ Goal \in CivilDays
  /\ asked.kind \in {"d", "w", "b"} => asked.num # 0
  /\ asked.kind = "b" => BizdaysSupported(asked.from, asked.num)
  /\ ~(asked.kind = "ywd" /\ asked.from.typ = "bizda")
  => Now = Goal

\* ISO dates know how their year begins, whether that was counted along year
\* by year, found anew or came out of a conversion.
HangIsRight ==
  /\ date.typ = "ywd" => date.hang = Jan01Hang(Jan01Wday(date.y))
  /\ pc = "carry" /\ work.typ = "ywd" => work.hang = Jan01Hang(Jan01Wday(work.y))

\* After days were added, and not very many business days at once, the date is
\* one its calendar has, and cropping or converting it would not move it.
ResultsAreDates ==
  /\ Settled /\ AddedDays /\ date.typ # "ywd"
  /\ asked.kind = "b" => asked.num >= -275
  /\ Goal \in CivilDays
  => DFixup(date) = date /\ ConvToDaisy(date) = Reading(date)

\* What the next call builds on is sound: fields in range and of their calendar,
\* and an ISO date's hang over of its own year.
DatesAreSound == TypeOK /\ ResultsAreDates /\ HangIsRight

\* dt_dcmp() puts what was added to and what came out in the order of their
\* days.
OrderAgrees ==
  Settled /\ date.typ = asked.from.typ /\ date.typ \notin {"ldn", "mdn"}
    => DCmp(DFixup(asked.from), DFixup(date))
         = Sgn(Reading(DFixup(asked.from)) - Reading(DFixup(date)))

\* dt_ddiff(): the difference in business days is how many workdays lie behind
\* the first date up to the second one.  Days are counted from 1601 on.
DiffCountsWorkdays ==
  /\ Settled
  /\ 1 <= Reading(DFixup(asked.from)) /\ Reading(DFixup(asked.from)) <= Reading(DFixup(date))
  => DDiff("bd", DFixup(asked.from), DFixup(date))
         = BizIndex(Reading(DFixup(date))) - BizIndex(Reading(DFixup(asked.from)))

\* The difference in months and days, added to the earlier date, is the later
\* one, unless its day is one not every month has.
DiffAddsBack ==
  Settled /\ asked.from.typ = "ymd" /\ date.typ = "ymd" =>
    LET a == DFixup(asked.from)
        b == DFixup(date)
        diff == YmdDiff(a, b)
        early == IF diff.neg THEN b ELSE a
        late == IF diff.neg THEN a ELSE b
    IN early.d <= 28 => Reading(MonthsOn(early, diff.m)) + diff.d = Reading(late)

\* The loops end.
CallsReturn == pc = "carry" ~> pc = "idle"

-----------------------------------------------------------------------------
(* What comments say and the code does not do; the README tells the          *)
(* counterexamples.                                                          *)

\* ywd.c: "add N business days to D".
IsoDatesAddBizdays ==
  pc = "idle" /\ asked.kind = "b" /\ asked.num # 0 /\ asked.from.typ = "ywd" => Now = Goal

\* ymcw.c: "add N business days to D".
YmcwAddsBizdays == asked.kind = "b" /\ asked.num # 0 /\ asked.from.typ = "ymcw" => Now = Goal

\* __get_d_equiv(): "return the number of gregorian days B business days away
\* from now, where the first day is on a DOW".
ManyBizdays == asked.kind = "b" /\ asked.num # 0 /\ asked.from.typ = "ymd" => Now = Goal

\* __ywd_diff(): "compute d2 - d1", in years and the weeks of less than one.
IsoDiffHasWeeks ==
  Settled /\ asked.from.typ = "ywd" /\ date.typ = "ywd"
    => YwdDiff(DFixup(asked.from), DFixup(date)).c < 53
=============================================================================
