--------------------------- MODULE DateCoreProofs ----------------------------
(***************************************************************************)
(* What DateCore says of dates that are years, months and days or years    *)
(* and days, proved for every date, every number that is added and every   *)
(* sequence of calls: days, weeks and business days lead where they        *)
(* should, conversions and crops keep the day, what is left behind is a    *)
(* date, and comparing and subtracting agree with the days.  The loops     *)
(* that carry days over keep the day a date under way stands for, because  *)
(* a month and a year are exactly as long as the code says (MonthTurn and  *)
(* YearTurn of CalendarProofs).  One that ends between 1601 and 4095 has a *)
(* year that fits the 12 bits of a date (YearFits).                        *)
(***************************************************************************)
EXTENDS DateCore, CalendarProofs

-----------------------------------------------------------------------------
(* The invariant. *)

\* The days a year of four digits up to 4095 can be found for.
Daisies == {n \in Int : 1 <= n /\ n <= 910674}

CivilAssumption ==
  /\ Typs \subseteq {"ymd", "yd"}
  /\ Firsts \subseteq Daisies
  /\ Days \subseteq Int /\ Weeks \subseteq Int /\ Bizdays \subseteq Int
  /\ Months \subseteq Int /\ Years \subseteq Int

\* Calls that know which day they should lead to.
Counted == AddedDays /\ (asked.kind = "b" => asked.num >= -275)
Aiming == Counted \/ asked.kind \in {"ymd", "yd"}

\* The calls of the program.
Kinds == {"d", "w", "b", "m", "y", "read", "fixup", "ymd", "yd"}

\* What every state keeps: fields in range and of a calendar that is asked for,
IFields ==
  /\ date \in Held /\ date.typ \in Typs
  /\ asked.from \in YmdDates \union YdDates
  /\ asked.kind \in Kinds
  /\ left \in 0 .. Calls
  /\ pc \in {"idle", "carry"}
  /\ pc = "idle" => work = Idle
  /\ pc = "carry" => AddedDays /\ work \in YmdWorks \union YdWorks /\ work.typ = date.typ

\* and the day that is to be reached, by the loop under way or, if there is a
\* year for it, by the date.
IGoal ==
  /\ pc = "carry" /\ Counted => Lin(work) = Goal
  /\ pc = "idle" /\ Aiming /\ Goal \in CivilDays => date \in Ymds \union Yds /\ Reading(date) = Goal
  /\ asked.kind = "fixup" => date = DFixup(asked.from)

IInv == IFields /\ IGoal

\* The invariant holds for any date that was read.
LEMMA InitKeeps ==
  ASSUME CivilAssumption, Init
  PROVE  IInv
<1>1. PICK typ \in Typs, num \in Firsts : date = Read(typ, num)
  BY DEF Init
<1>2. typ \in {"ymd", "yd"} /\ num \in Int /\ 1 <= num /\ num <= 910674
  <2>1. typ \in {"ymd", "yd"} /\ num \in Daisies
    BY Zenon DEF CivilAssumption
  <2> QED BY <2>1, SMT DEF Daisies
<1>3. /\ pc = "idle" /\ work = Idle /\ left = Calls
      /\ asked.kind = "read" /\ asked.from = date
  BY DEF Init
<1>4. ~ Aiming
  BY <1>3 DEF Aiming, Counted, AddedDays
<1>5. date \in YmdDates \union YdDates /\ date.typ = typ
  <2>1. DayNumber(Daisy(num)) = num
    BY <1>2, SMT DEF DayNumber, Daisy
  <2>2. DFixup(Daisy(num)) = Daisy(num) /\ Daisy(num).typ = "daisy"
    BY SMT DEF DFixup, Daisy
  <2>3. Read(typ, num) = DConv(typ, Daisy(num))
    BY <1>2, SMT DEF Read
  <2>4. CASE typ = "ymd"
    <3>1. DConv(typ, Daisy(num)) = DaisyToYmd(num)
      BY <2>1, <2>2, <2>4, SMT DEF DConv, ConvTo, ConvToYmd, Numbers
    <3>2. date \in YmdDates
      BY <1>1, <1>2, <2>3, <3>1, DaisyToYmdIsDate
    <3> QED BY <2>4, <3>2, SMT DEF YmdDates
  <2>5. CASE typ = "yd"
    <3>1. DConv(typ, Daisy(num)) = DaisyToYd(num)
      BY <2>1, <2>2, <2>5, SMT DEF DConv, ConvTo, ConvToYd, Numbers
    <3>2. date \in YdDates
      BY <1>1, <1>2, <2>3, <3>1, DaisyToYdIsDate
    <3> QED BY <2>5, <3>2, SMT DEF YdDates
  <2> QED BY <1>2, <2>4, <2>5
<1>6. left \in 0 .. Calls
  BY <1>3, CallsAssumption
<1> QED
  BY <1>3, <1>4, <1>5, <1>6, Zenon DEF IInv, IFields, IGoal, Held, Kinds

\* A date that is called for has fields in range.
LEMMA DatesAreFit ==
  ASSUME date \in Held, date # Naught(date.typ)
  PROVE  /\ date \in YmdDates \union YdDates
         /\ date.typ \in {"ymd", "yd"}
         /\ date \in YmdDates <=> date.typ = "ymd"
<1>1. Y12(0) = 0 /\ Y16(0) = 0
  BY SMT DEF Y12, Y16
<1>2. Naught("ymd") = [typ |-> "ymd", y |-> 0, m |-> 0, d |-> 0]
  BY <1>1, Zenon DEF Naught, Ymd
<1>3. Naught("yd") = [typ |-> "yd", y |-> 0, d |-> 0]
  BY <1>1, SMT DEF Naught, Yd
<1>4. date \notin Naughts
  BY <1>2, <1>3, SMT DEF Naughts
<1>5. /\ \A d \in YmdDates : d.typ = "ymd"
      /\ \A d \in YdDates : d.typ = "yd"
  BY SMT DEF YmdDates, YdDates
<1> QED
  BY <1>4, <1>5, SMT DEF Held

-----------------------------------------------------------------------------
(* The loops. *)

\* Turns and the end of a loop go on with what was asked.
LEMMA GoalStays ==
  ASSUME UNCHANGED asked, AddedDays
  PROVE  AddedDays' /\ Counted' = Counted /\ Goal' = Goal
BY DEF AddedDays, Counted, Goal

\* A turn of the loop of an addition keeps what is to be added.
LEMMA TurnKeeps ==
  ASSUME IInv, Turn
  PROVE  IInv'
<1>1. /\ pc = "carry" /\ UNCHANGED <<date, pc, left, asked>>
      /\ work \in YmdWorks \union YdWorks /\ work.typ = date.typ /\ AddedDays
  BY DEF IInv, IFields, Turn
<1>2. /\ work' \in YmdWorks \union YdWorks /\ Lin(work') = Lin(work)
      /\ work'.typ = work.typ
  <2>1. \/ work' = [Before(work) EXCEPT !.x = @ + Span(Before(work))]
        \/ work' = [After(work) EXCEPT !.x = @ - Span(work)]
    BY Zenon DEF Turn
  <2>2. /\ \A k \in YmdWorks : k.typ = "ymd"
        /\ \A k \in YdWorks : k.typ = "yd"
    BY SMT DEF YmdWorks, YdWorks
  <2>3. CASE work \in YmdWorks
    <3>1. work' \in YmdWorks /\ Lin(work') = Lin(work)
      BY <2>1, <2>3, MonthTurn, Zenon
    <3> QED BY <2>2, <2>3, <3>1
  <2>4. CASE work \in YdWorks
    <3>1. work' \in YdWorks /\ Lin(work') = Lin(work)
      BY <2>1, <2>4, YearTurn, Zenon
    <3> QED BY <2>2, <2>4, <3>1
  <2> QED BY <1>1, <2>3, <2>4
<1>3. AddedDays' /\ Counted' = Counted /\ Goal' = Goal
  BY <1>1, GoalStays, Zenon
<1>4. IFields'
  BY <1>1, <1>2, <1>3, Zenon DEF IInv, IFields
<1>5. Counted => Lin(work) = Goal
  BY <1>1 DEF IInv, IGoal
<1>6. pc' # "idle" /\ asked'.kind # "fixup"
  BY <1>1 DEF AddedDays
<1> QED
  BY <1>2, <1>3, <1>4, <1>5, <1>6, Zenon DEF IInv, IGoal

\* The end of the loop stores the date that was to be found.
LEMMA StoreKeeps ==
  ASSUME IInv, Store
  PROVE  IInv'
<1>1. /\ pc = "carry" /\ pc' = "idle" /\ work' = Idle /\ UNCHANGED <<left, asked>>
      /\ work \in YmdWorks \union YdWorks /\ work.typ = date.typ /\ AddedDays
      /\ work.x \in 1 .. Span(work) /\ date' = Fold(work)
  BY DEF IInv, IFields, Store
<1>2. Fold(work) \in YmdDates \union YdDates /\ Fold(work).typ = work.typ
  BY <1>1, FoldIsDate, Zenon
<1>3. Lin(work) \in CivilDays => Reading(Fold(work)) = Lin(work) /\ Fold(work) \in Ymds \union Yds
  BY <1>1, FoldIsDate, FoldIsCrisp, Zenon
<1>4. AddedDays' /\ Counted' = Counted /\ Goal' = Goal
  BY <1>1, GoalStays, Zenon
<1>5. asked'.kind \notin {"ymd", "yd", "fixup"}
  BY <1>1 DEF AddedDays
<1>6. Counted => Lin(work) = Goal
  BY <1>1 DEF IInv, IGoal
<1>7. Aiming' => Counted
  BY <1>4, <1>5 DEF Aiming
<1>8. Aiming' /\ Goal' \in CivilDays => date' \in Ymds \union Yds /\ Reading(date') = Goal'
  BY <1>1, <1>3, <1>4, <1>6, <1>7, Zenon
<1>9. date' \in Held /\ date'.typ \in Typs
  BY <1>1, <1>2, Zenon DEF Held, IInv, IFields
<1>10. IFields'
  BY <1>1, <1>9, Zenon DEF IInv, IFields
<1>11. pc' # "carry" /\ asked'.kind # "fixup"
  BY <1>1, <1>5
<1> QED
  BY <1>1, <1>8, <1>10, <1>11 DEF IInv, IGoal, CivilDays

-----------------------------------------------------------------------------
(* The calls. *)

\* A call is made for a date, and is asked.
LEMMA AskIs ==
  ASSUME CivilAssumption, IInv, date # Naught(date.typ), NEW kind \in Kinds, NEW num, Ask(kind, num)
  PROVE  /\ date \in YmdDates \union YdDates /\ date.typ \in Typs
         /\ date.typ \in {"ymd", "yd"} /\ (date \in YmdDates <=> date.typ = "ymd")
         /\ pc = "idle" /\ work = Idle /\ left' \in 0 .. Calls
         /\ asked'.kind = kind /\ asked'.num = num /\ asked'.from = date
<1>1. date \in Held /\ date.typ \in Typs
  BY DEF IInv, IFields
<1>2. pc = "idle" /\ left > 0 /\ left' = left - 1 /\ asked' = [kind |-> kind, num |-> num, from |-> date]
  BY DEF Ask
<1>3. left' \in 0 .. Calls
  BY <1>2, CallsAssumption DEF IInv, IFields
<1>4. work = Idle
  BY <1>2 DEF IInv, IFields
<1> QED
  BY <1>1, <1>2, <1>3, <1>4, DatesAreFit, Zenon

\* A call that holds a date at once and aims at no day.
LEMMA HoldKeeps ==
  ASSUME CivilAssumption, IInv, date # Naught(date.typ), NEW kind \in Kinds, NEW num, Ask(kind, num),
         NEW d \in YmdDates \union YdDates, d.typ \in Typs, Hold(d),
         kind \in {"m", "y"} \/ (kind \in {"d", "w", "b"} /\ num = 0)
  PROVE  IInv'
<1>1. /\ date \in YmdDates \union YdDates
      /\ pc = "idle" /\ work = Idle /\ left' \in 0 .. Calls
      /\ asked'.kind = kind /\ asked'.num = num /\ asked'.from = date
  BY AskIs, Zenon
<1>2. date' = d /\ UNCHANGED <<pc, work>>
  BY DEF Hold
<1>3. ~ AddedDays'
  BY <1>1 DEF AddedDays
<1>4. ~ Aiming' /\ asked'.kind # "fixup"
  BY <1>1, <1>3 DEF Aiming, Counted
<1>5. pc' = "idle" /\ work' = Idle /\ asked'.kind \in Kinds
  BY <1>1, <1>2
<1> QED
  BY <1>1, <1>2, <1>4, <1>5, Zenon DEF IInv, IFields, IGoal, Held

\* A call that begins a loop with the day that is meant.
LEMMA CarryKeeps ==
  ASSUME CivilAssumption, IInv, date # Naught(date.typ), NEW kind \in {"d", "w", "b"}, NEW num, num # 0,
         Ask(kind, num), NEW k \in YmdWorks \union YdWorks, k.typ = date.typ, Carry(k),
         Counted' => Lin(k) = Goal'
  PROVE  IInv'
<1>1. /\ date \in YmdDates \union YdDates /\ date.typ \in Typs
      /\ left' \in 0 .. Calls
      /\ asked'.kind = kind /\ asked'.num = num /\ asked'.from = date
  BY AskIs, Zenon DEF Kinds
<1>2. pc' = "carry" /\ work' = k /\ date' = date
  BY DEF Carry
<1>3. AddedDays' /\ asked'.kind \in Kinds /\ asked'.kind # "fixup" /\ pc' # "idle"
  BY <1>1, <1>2 DEF AddedDays, Kinds
<1>4. IFields'
  <2>1. date' \in Held /\ date'.typ \in Typs /\ work'.typ = date'.typ
    BY <1>1, <1>2, Zenon DEF Held
  <2> QED BY <1>1, <1>2, <1>3, <2>1, Zenon DEF IFields
<1>5. pc' = "carry" /\ Counted' => Lin(work)' = Goal'
  BY <1>2
<1> QED
  BY <1>3, <1>4, <1>5, Zenon DEF IInv, IGoal

\* Days are added.
LEMMA AddDKeeps ==
  ASSUME CivilAssumption, IInv, date # Naught(date.typ), NEW num \in Days, AddD(num)
  PROVE  IInv'
<1>1. num \in Int /\ Ask("d", num) /\ "d" \in Kinds
  BY Zenon DEF AddD, CivilAssumption, Kinds
<1>2. /\ date \in YmdDates \union YdDates /\ date.typ \in Typs /\ date.typ \in {"ymd", "yd"}
      /\ asked'.kind = "d" /\ asked'.num = num /\ asked'.from = date
  BY <1>1, AskIs, Zenon
<1>3. CASE num = 0
  <2>1. Hold(date)
    BY <1>3 DEF AddD
  <2> QED BY <1>1, <1>2, <1>3, <2>1, HoldKeeps, Zenon
<1>4. CASE num # 0
  <2>1. Carry(DaysOn(date, num))
    BY <1>2, <1>4, SMT DEF AddD, Numbers
  <2>2. /\ DaysOn(date, num) \in YmdWorks \union YdWorks /\ DaysOn(date, num).typ = date.typ
        /\ Lin(DaysOn(date, num)) = Meant(date) + num
    BY <1>1, <1>2, DaysOnIsMeant, WorksKeepTyp, Zenon
  <2>3. Goal' = Meant(date) + num
    <3>1. Goal' = DaysFrom(date, num)
      BY <1>2, Zenon DEF Goal
    <3> QED BY <1>2, <3>1, SMT DEF DaysFrom
  <2> QED BY <1>1, <1>4, <2>1, <2>2, <2>3, CarryKeeps, Zenon
<1> QED
  BY <1>3, <1>4

\* Weeks are added.
LEMMA AddWKeeps ==
  ASSUME CivilAssumption, IInv, date # Naught(date.typ), NEW num \in Weeks, AddW(num)
  PROVE  IInv'
<1>1. num \in Int /\ Ask("w", num) /\ "w" \in Kinds
  BY Zenon DEF AddW, CivilAssumption, Kinds
<1>2. /\ date \in YmdDates \union YdDates /\ date.typ \in Typs /\ date.typ \in {"ymd", "yd"}
      /\ asked'.kind = "w" /\ asked'.num = num /\ asked'.from = date
  BY <1>1, AskIs, Zenon
<1>3. CASE num = 0
  <2>1. Hold(date)
    BY <1>3 DEF AddW
  <2> QED BY <1>1, <1>2, <1>3, <2>1, HoldKeeps, Zenon
<1>4. CASE num # 0
  <2> DEFINE n == 7 * num
  <2>1. n \in Int
    BY <1>1
  <2>2. Goal' = DaysFrom(date, n)
    BY <1>2, SMT DEF Goal
  <2>3. Carry(DaysOn(date, n))
    BY <1>2, <1>4, SMT DEF AddW, Numbers, WeeksOn
  <2> HIDE DEF n
  <2>4. /\ DaysOn(date, n) \in YmdWorks \union YdWorks /\ DaysOn(date, n).typ = date.typ
        /\ Lin(DaysOn(date, n)) = Meant(date) + n
    BY <1>2, <2>1, DaysOnIsMeant, WorksKeepTyp, Zenon
  <2>5. Goal' = Meant(date) + n
    BY <1>2, <2>2, SMT DEF DaysFrom
  <2> QED BY <1>1, <1>4, <2>3, <2>4, <2>5, CarryKeeps, Zenon
<1> QED
  BY <1>3, <1>4

\* Business days are added.
LEMMA AddBKeeps ==
  ASSUME CivilAssumption, IInv, date # Naught(date.typ), NEW num \in Bizdays, AddB(num)
  PROVE  IInv'
<1>1. num \in Int /\ Ask("b", num) /\ "b" \in Kinds
  BY Zenon DEF AddB, CivilAssumption, Kinds
<1>2. /\ date \in YmdDates \union YdDates /\ date.typ \in Typs /\ date.typ \in {"ymd", "yd"}
      /\ asked'.kind = "b" /\ asked'.num = num /\ asked'.from = date
  BY <1>1, AskIs, Zenon
<1>3. CASE num = 0
  <2>1. Hold(date)
    BY <1>3 DEF AddB
  <2> QED BY <1>1, <1>2, <1>3, <2>1, HoldKeeps, Zenon
<1>4. CASE num # 0
  <2>1. Carry(BizdaysOn(date, num))
    BY <1>2, <1>4, SMT DEF AddB, Numbers
  <2>2. /\ BizdaysOn(date, num) \in YmdWorks \union YdWorks /\ BizdaysOn(date, num).typ = date.typ
        /\ Lin(BizdaysOn(date, num)) = Meant(date) + DEquiv(DaisyGetWday(Meant(date)), num)
    BY <1>1, <1>2, BizdaysOnIsWork, BizdaysOnIsMeant, WorksKeepTyp, Zenon
  <2>3. Goal' = BizdaysFrom(date, num)
    BY <1>2, SMT DEF Goal
  <2>4. Meant(date) \in Int
    BY <1>1, <1>2, DaysOnIsMeant, Zenon
  <2>5. ASSUME num >= -275 PROVE Lin(BizdaysOn(date, num)) = BizdaysFrom(date, num)
    <3>1. Meant(date) + DEquiv(DaisyGetWday(Meant(date)), num)
            = BizDay(BizIndex(Meant(date)) + num + One(DaisyGetWday(Meant(date)) >= SATURDAY /\ num < 0))
      BY <1>1, <1>4, <2>4, <2>5, DEquivIs
    <3> QED BY <2>2, <3>1, Zenon DEF BizdaysFrom, Weekend
  <2>6. Counted' => num >= -275
    BY <1>2, Zenon DEF Counted
  <2> QED BY <1>1, <1>4, <2>1, <2>2, <2>3, <2>5, <2>6, CarryKeeps, Zenon
<1> QED
  BY <1>3, <1>4

\* Counting up aims at no day.
LEMMA AddMKeeps ==
  ASSUME CivilAssumption, IInv, date # Naught(date.typ), NEW num \in Months, AddM(num)
  PROVE  IInv'
<1>1. num \in Int /\ Ask("m", num) /\ "m" \in Kinds
  BY Zenon DEF AddM, CivilAssumption, Kinds
<1>2. /\ date \in YmdDates \union YdDates /\ date.typ \in Typs
      /\ date.typ \in {"ymd", "yd"} /\ (date \in YmdDates <=> date.typ = "ymd")
  BY <1>1, AskIs, Zenon
<1>3. CASE num # 0 /\ date.typ = "ymd"
  <2>1. Hold(MonthsOn(date, num))
    BY <1>3, SMT DEF AddM
  <2>2. MonthsOn(date, num) \in YmdDates
    BY <1>1, <1>2, <1>3, CountedUpIsDate, Zenon
  <2>3. MonthsOn(date, num).typ = "ymd"
    BY <2>2, SMT DEF YmdDates
  <2> QED BY <1>1, <1>2, <1>3, <2>1, <2>2, <2>3, HoldKeeps, Zenon
<1>4. CASE ~ (num # 0 /\ date.typ = "ymd")
  <2>1. Hold(date)
    BY <1>2, <1>4, SMT DEF AddM
  <2> QED BY <1>1, <1>2, <2>1, HoldKeeps, Zenon
<1> QED
  BY <1>3, <1>4

\* Years are added.
LEMMA AddYKeeps ==
  ASSUME CivilAssumption, IInv, date # Naught(date.typ), NEW num \in Years, AddY(num)
  PROVE  IInv'
<1>1. num \in Int /\ Ask("y", num) /\ "y" \in Kinds /\ Hold(YearsOn(date, num))
  BY Zenon DEF AddY, CivilAssumption, Kinds
<1>2. /\ date \in YmdDates \union YdDates /\ date.typ \in Typs
      /\ date.typ \in {"ymd", "yd"} /\ (date \in YmdDates <=> date.typ = "ymd")
  BY <1>1, AskIs, Zenon
<1>3. YearsOn(date, num) \in YmdDates \union YdDates /\ YearsOn(date, num).typ = date.typ
  <2>1. CASE date.typ = "ymd"
    <3>1. YearsOn(date, num) \in YmdDates
      BY <1>1, <1>2, <2>1, CountedUpIsDate, Zenon
    <3> QED BY <2>1, <3>1, SMT DEF YmdDates
  <2>2. CASE date.typ = "yd"
    <3>1. YearsOn(date, num) \in YdDates
      BY <1>1, <1>2, <2>2, CountedUpIsDate, Zenon
    <3> QED BY <2>2, <3>1, SMT DEF YdDates
  <2> QED BY <1>2, <2>1, <2>2
<1> QED
  BY <1>1, <1>2, <1>3, HoldKeeps, Zenon

\* A conversion aims at the day the date is printed as.
LEMMA ConvertKeeps ==
  ASSUME CivilAssumption, IInv, NEW typ \in Typs, Convert(typ)
  PROVE  IInv'
<1>1. /\ typ \in {"ymd", "yd"} /\ typ \in Kinds /\ date # Naught(date.typ)
      /\ Ask(typ, 0) /\ Hold(DConv(typ, date))
  BY Zenon DEF Convert, CivilAssumption, Kinds
<1>2. /\ date \in YmdDates \union YdDates
      /\ pc = "idle" /\ work = Idle /\ left' \in 0 .. Calls
      /\ asked'.kind = typ /\ asked'.num = 0 /\ asked'.from = date
  BY <1>1, AskIs, Zenon
<1>3. date' = DConv(typ, date) /\ pc' = "idle" /\ work' = Idle
  BY <1>1, <1>2 DEF Hold
<1>4. date' \in Held /\ date'.typ = typ
  BY <1>1, <1>2, <1>3, ConvertIsHeld, ConvertIsTyp, Zenon
<1>5. Goal' = Reading(DFixup(date))
  BY <1>1, <1>2, SMT DEF Goal
<1>6. Goal' \in CivilDays => date' \in Ymds \union Yds /\ Reading(date') = Goal'
  BY <1>1, <1>2, <1>3, <1>5, ConvertKeepsDay, Zenon
<1>7. pc' # "carry" /\ asked'.kind # "fixup" /\ asked'.kind \in Kinds
  BY <1>1, <1>2, <1>3
<1>8. IFields'
  BY <1>2, <1>3, <1>4, <1>7, Zenon DEF IFields
<1> QED
  BY <1>6, <1>7, <1>8 DEF IInv, IGoal, CivilDays

\* A date is cropped to its month or year.
LEMMA FixupKeeps ==
  ASSUME CivilAssumption, IInv, date # Naught(date.typ), Fixup
  PROVE  IInv'
<1>1. Ask("fixup", 0) /\ Hold(DFixup(date)) /\ "fixup" \in Kinds
  BY DEF Fixup, Kinds
<1>2. /\ date \in YmdDates \union YdDates /\ date.typ \in Typs
      /\ pc = "idle" /\ work = Idle /\ left' \in 0 .. Calls
      /\ asked'.kind = "fixup" /\ asked'.num = 0 /\ asked'.from = date
  BY <1>1, AskIs, Zenon
<1>3. date' = DFixup(date) /\ pc' = "idle" /\ work' = Idle
  BY <1>1, <1>2 DEF Hold
<1>4. DFixup(date) \in Ymds \union Yds /\ DFixup(date).typ = date.typ
  BY <1>2, FixupIsCrisp, SMT DEF Ymds, Yds, YmdDates, YdDates
<1>5. date' \in Held /\ date'.typ \in Typs
  BY <1>2, <1>3, <1>4, Zenon DEF Held, Ymds, Yds
<1>6. ~ Aiming' /\ pc' # "carry"
  BY <1>2, <1>3 DEF Aiming, Counted, AddedDays
<1>7. asked'.kind \in Kinds /\ date' = DFixup(asked.from)'
  BY <1>1, <1>2, <1>3
<1>8. IFields'
  BY <1>2, <1>3, <1>5, <1>7, Zenon DEF IFields
<1> QED
  BY <1>6, <1>7, <1>8, Zenon DEF IInv, IGoal

\* Every step keeps the invariant.
LEMMA NextKeeps ==
  ASSUME CivilAssumption, IInv, [Next]_vars
  PROVE  IInv'
<1>1. CASE Call
  <2>1. date # Naught(date.typ)
    BY <1>1 DEF Call
  <2>2. ASSUME NEW num \in Days, AddD(num) PROVE IInv'
    BY <2>1, <2>2, AddDKeeps
  <2>3. ASSUME NEW num \in Weeks, AddW(num) PROVE IInv'
    BY <2>1, <2>3, AddWKeeps
  <2>4. ASSUME NEW num \in Bizdays, AddB(num) PROVE IInv'
    BY <2>1, <2>4, AddBKeeps
  <2>5. ASSUME NEW num \in Months, AddM(num) PROVE IInv'
    BY <2>1, <2>5, AddMKeeps
  <2>6. ASSUME NEW num \in Years, AddY(num) PROVE IInv'
    BY <2>1, <2>6, AddYKeeps
  <2>7. ASSUME NEW typ \in Typs, Convert(typ) PROVE IInv'
    BY <2>7, ConvertKeeps
  <2>8. ASSUME Fixup PROVE IInv'
    BY <2>1, <2>8, FixupKeeps
  <2> QED BY <1>1, <2>2, <2>3, <2>4, <2>5, <2>6, <2>7, <2>8, Zenon DEF Call
<1>2. CASE Turn
  BY <1>2, TurnKeeps
<1>3. CASE Store
  BY <1>3, StoreKeeps
<1>4. CASE UNCHANGED vars
  <2>1. UNCHANGED <<date, pc, work, left, asked>>
    BY <1>4 DEF vars
  <2>2. Goal' = Goal
    BY <2>1, Zenon DEF Goal
  <2>3. AddedDays' = AddedDays /\ Counted' = Counted /\ Aiming' = Aiming
    BY <2>1, Zenon DEF AddedDays, Counted, Aiming
  <2>4. IFields'
    BY <2>1, <2>3, Zenon DEF IInv, IFields
  <2> QED BY <2>1, <2>2, <2>3, <2>4, Zenon DEF IInv, IGoal
<1> QED
  BY <1>1, <1>2, <1>3, <1>4 DEF Next

\* The invariant holds throughout.
LEMMA IInvHolds ==
  ASSUME CivilAssumption
  PROVE  Spec => []IInv
<1>1. Init => IInv
  BY InitKeeps
<1>2. IInv /\ [Next]_vars => IInv'
  BY NextKeeps
<1> QED
  BY <1>1, <1>2, PTL DEF Spec

-----------------------------------------------------------------------------
(* The theorems. *)

\* What the invariant says of a state where a date is held.
LEMMA SettledIs ==
  ASSUME CivilAssumption, IInv
  PROVE  /\ asked.from \in YmdDates \union YdDates /\ asked.from.typ \in {"ymd", "yd"}
         /\ asked.from.typ = "ymd" <=> asked.from \in YmdDates
         /\ Dated => date \in YmdDates \union YdDates
         /\ Dated /\ date.typ = "ymd" => date \in YmdDates
         /\ Dated /\ date.typ = "yd" => date \in YdDates
<1>1. date \in Held /\ asked.from \in YmdDates \union YdDates
  BY DEF IInv, IFields
<1>2. /\ \A d \in YmdDates : d.typ = "ymd"
      /\ \A d \in YdDates : d.typ = "yd"
  BY SMT DEF YmdDates, YdDates
<1>3. Dated => date \in YmdDates \union YdDates
  BY <1>1, DatesAreFit, Zenon DEF Dated
<1> QED
  BY <1>1, <1>2, <1>3

\* dt_dadd_d(), dt_dadd_w() and dt_dadd_b() lead to the day that many days,
\* weeks or workdays away: in every turn of the loop and where it ends.
\* Conversions between the two calendars and crops keep the day a date is
\* printed as.  Whatever was called before, wherever the day has a year of 1601
\* to 4095.
THEOREM DaysAreAddedExactly ==
  ASSUME CivilAssumption
  PROVE  Spec => []GoalIsKept
<1>1. IInv => GoalIsKept
  <2> SUFFICES ASSUME IInv, Dated, Goal \in CivilDays,
                      asked.kind \in {"d", "w", "b"} => asked.num # 0,
                      asked.kind = "b" => BizdaysSupported(asked.from, asked.num)
               PROVE  Now = Goal
    BY Zenon DEF GoalIsKept
  <2>1. asked.kind \in Kinds /\ asked.from.typ \in {"ymd", "yd"} /\ pc \in {"idle", "carry"}
    BY SettledIs DEF IInv, IFields
  <2>2. CASE asked.kind \in {"d", "w", "b"}
    <3>1. Counted
      <4>1. asked.kind = "b" => asked.num >= -275
        BY <2>1, SMT DEF BizdaysSupported
      <4> QED BY <2>2, <4>1 DEF Counted, AddedDays
    <3>2. asked.kind \notin Typs \union {"fixup"}
      BY <2>2, SMT DEF CivilAssumption
    <3>3. Now = IF pc = "carry" THEN Lin(work) ELSE Reading(date)
      BY <3>2 DEF Now
    <3> QED BY <2>1, <3>1, <3>3 DEF IInv, IGoal, Aiming, CivilDays
  <2>3. CASE asked.kind \in {"m", "y", "read"}
    <3>1. pc = "idle"
      BY <2>1, <2>3 DEF IInv, IFields, AddedDays
    <3>2. Goal = Reading(date)
      BY <2>3, SMT DEF Goal
    <3>3. asked.kind \notin Typs \union {"fixup"}
      BY <2>3, SMT DEF CivilAssumption
    <3> QED BY <3>1, <3>2, <3>3 DEF Now
  <2>4. CASE asked.kind \in {"fixup", "ymd", "yd"}
    <3>1. pc = "idle"
      BY <2>1, <2>4 DEF IInv, IFields, AddedDays
    <3>2. Goal = Reading(DFixup(asked.from))
      BY <2>4, SMT DEF Goal
    <3>3. DFixup(date) = date /\ Reading(date) = Goal
      <4>1. CASE asked.kind = "fixup"
        <5>1. date = DFixup(asked.from)
          BY <4>1 DEF IInv, IGoal
        <5>2. date \in Ymds \union Yds
          BY <5>1, SettledIs, FixupIsCrisp, Zenon
        <5> QED BY <3>2, <5>1, <5>2, FixupIsCrisp, Zenon
      <4>2. CASE asked.kind # "fixup"
        <5>1. date \in Ymds \union Yds /\ Reading(date) = Goal
          BY <2>4, <3>1, <4>2 DEF IInv, IGoal, Aiming, CivilDays
        <5> QED BY <5>1, FixupIsCrisp, Zenon
      <4> QED BY <4>1, <4>2
    <3>4. Now = Reading(DFixup(date)) \/ Now = Reading(date)
      BY <3>1 DEF Now
    <3> QED BY <3>3, <3>4
  <2> QED BY <2>1, <2>2, <2>3, <2>4 DEF Kinds
<1> QED
  BY <1>1, IInvHolds, PTL

\* Every call leaves a date whose fields are in range and of its calendar, or
\* the naught; and after days were added one that cropping and converting, in
\* dt_conv_to_daisy(), would not move.
THEOREM DatesStaySound ==
  ASSUME CivilAssumption
  PROVE  Spec => []DatesAreSound
<1>1. IInv => DatesAreSound
  <2> SUFFICES ASSUME IInv PROVE DatesAreSound
    OBVIOUS
  <2>1. TypeOK
    <3>1. /\ pc \in {"idle", "carry"} /\ left \in 0 .. Calls /\ date.typ \in Typs
          /\ pc = "idle" => work = Idle
          /\ pc = "carry" => work.typ = date.typ /\ work \in YmdWorks \union YdWorks
      BY DEF IInv, IFields
    <3>2. \A k \in YmdWorks \union YdWorks : k.x \in Int
      BY SMT DEF YmdWorks, YdWorks
    <3>3. Dated => DateOK(date)
      <4>1. \A d \in YmdDates : DateOK(d)
        <5> SUFFICES ASSUME NEW d \in YmdDates PROVE DateOK(d)
          OBVIOUS
        <5>1. d.typ = "ymd" /\ YearOK(d, 4095) /\ d.m \in 1 .. 12 /\ d.d \in 1 .. 31
          BY SMT DEF YmdDates, Years12, YearOK
        <5> QED BY <5>1, SMT DEF DateOK
      <4>2. \A d \in YdDates : DateOK(d)
        <5> SUFFICES ASSUME NEW d \in YdDates PROVE DateOK(d)
          OBVIOUS
        <5>1. d.typ = "yd" /\ YearOK(d, 65535) /\ d.d \in 1 .. 366
          BY SMT DEF YdDates, Years16, YearOK
        <5> QED BY <5>1, SMT DEF DateOK
      <4> QED BY <4>1, <4>2, SettledIs, Zenon
    <3> QED BY <3>1, <3>2, <3>3, Zenon DEF TypeOK
  <2>2. ResultsAreDates
    <3> SUFFICES ASSUME Settled, AddedDays, asked.kind = "b" => asked.num >= -275, Goal \in CivilDays
                 PROVE  DFixup(date) = date /\ ConvToDaisy(date) = Reading(date)
      BY Zenon DEF ResultsAreDates
    <3>1. date \in Ymds \union Yds /\ Reading(date) = Goal
      BY DEF IInv, IGoal, Aiming, Counted, CivilDays, Settled
    <3>2. DFixup(date) = date
      BY <3>1, FixupIsCrisp, Zenon
    <3>3. CASE date \in Ymds
      BY <3>2, <3>3, ConvToDaisyIs, Zenon DEF Ymds
    <3>4. CASE date \in Yds
      <4>1. date.y \in CivilYears
        BY <3>1, <3>4, LateYears
      <4>2. date \in YdDates /\ date.y >= 1601
        BY <3>4, <4>1, SMT DEF CivilYears, Yds
      <4> QED BY <3>2, <4>2, ConvToDaisyIs
    <3> QED BY <3>1, <3>3, <3>4
  <2>3. HangIsRight
    <3>1. date.typ \in {"ymd", "yd"} /\ (pc = "carry" => work.typ \in {"ymd", "yd"})
      BY DEF IInv, IFields, CivilAssumption
    <3> QED BY <3>1, SMT DEF HangIsRight
  <2> QED BY <2>1, <2>2, <2>3 DEF DatesAreSound
<1> QED
  BY <1>1, IInvHolds, PTL

\* dt_dcmp() orders a date and what came of it as their days are ordered.
THEOREM OrderIsOfDays ==
  ASSUME CivilAssumption
  PROVE  Spec => []OrderAgrees
<1>1. IInv => OrderAgrees
  <2> SUFFICES ASSUME IInv, Settled, date.typ = asked.from.typ
               PROVE  DCmp(DFixup(asked.from), DFixup(date))
                        = Sgn(Reading(DFixup(asked.from)) - Reading(DFixup(date)))
    BY Zenon DEF OrderAgrees
  <2>1. Dated
    BY DEF Settled
  <2>2. \/ asked.from \in YmdDates /\ date \in YmdDates
        \/ asked.from \in YdDates /\ date \in YdDates
    BY <2>1, SettledIs
  <2>3. \/ DFixup(asked.from) \in Ymds /\ DFixup(date) \in Ymds
        \/ DFixup(asked.from) \in Yds /\ DFixup(date) \in Yds
    BY <2>2, FixupIsCrisp, Zenon
  <2> QED BY <2>3, DCmpIsOrder, Zenon
<1> QED
  BY <1>1, IInvHolds, PTL

\* dt_ddiff(): the difference in business days of a date and what came of it is
\* the number of workdays behind the first up to the second.
THEOREM WorkdaysAreCounted ==
  ASSUME CivilAssumption
  PROVE  Spec => []DiffCountsWorkdays
<1>1. IInv => DiffCountsWorkdays
  <2> DEFINE a == DFixup(asked.from)
             b == DFixup(date)
  <2> SUFFICES ASSUME IInv, Settled, 1 <= Reading(a), Reading(a) <= Reading(b)
               PROVE  DDiff("bd", a, b) = BizIndex(Reading(b)) - BizIndex(Reading(a))
    BY Zenon DEF DiffCountsWorkdays
  <2>1. Dated
    BY DEF Settled
  <2>2. a \in Ymds \union Yds /\ b \in Ymds \union Yds
    BY <2>1, SettledIs, FixupIsCrisp, Zenon
  <2> HIDE DEF a, b
  <2>3. \A d \in Ymds \union Yds : Reading(d) > 0 => ConvToDaisy(d) = Reading(d)
    <3> SUFFICES ASSUME NEW d \in Ymds \union Yds, Reading(d) > 0
                 PROVE  ConvToDaisy(d) = Reading(d)
      OBVIOUS
    <3>1. d.y >= 1601
      BY LateYears
    <3>2. CASE d \in Ymds
      BY <3>2, ConvToDaisyIs, Zenon DEF Ymds
    <3>3. CASE d \in Yds
      <4>1. d \in YdDates
        BY <3>3 DEF Yds
      <4> QED BY <3>1, <4>1, ConvToDaisyIs
    <3> QED BY <3>2, <3>3
  <2>4. Reading(a) \in Int /\ Reading(b) \in Int
    BY <2>2, ReadingIs, Zenon DEF Ymds, Yds
  <2>5. ConvToDaisy(a) = Reading(a) /\ ConvToDaisy(b) = Reading(b)
    <3>1. Reading(a) > 0 /\ Reading(b) > 0
      BY <2>4
    <3> QED BY <2>2, <2>3, <3>1, Zenon
  <2>6. GetNbdays(Reading(b) - Reading(a), DaisyGetWday(Reading(b)))
          = BizIndex(Reading(b)) - BizIndex(Reading(a))
    BY <2>4, NbdaysIs, Zenon
  <2> QED BY <2>5, <2>6, SMT DEF DDiff, NumbersApart
<1> QED
  BY <1>1, IInvHolds, PTL

\* __ymd_diff() and __ymd_add_m(): the months and days between a date and what
\* came of it, added to the earlier one, are the later one.
THEOREM DifferencesAreUndone ==
  ASSUME CivilAssumption
  PROVE  Spec => []DiffAddsBack
<1>1. IInv => DiffAddsBack
  <2> DEFINE a == DFixup(asked.from)
             b == DFixup(date)
             diff == YmdDiff(a, b)
             early == IF diff.neg THEN b ELSE a
             late == IF diff.neg THEN a ELSE b
  <2> SUFFICES ASSUME IInv, Settled, asked.from.typ = "ymd", date.typ = "ymd", early.d <= 28
               PROVE  Reading(MonthsOn(early, diff.m)) + diff.d = Reading(late)
    BY Zenon DEF DiffAddsBack
  <2>1. Dated
    BY DEF Settled
  <2>2. asked.from \in YmdDates /\ date \in YmdDates
    BY <2>1, SettledIs
  <2>3. a \in Ymds /\ b \in Ymds
    BY <2>2, FixupIsCrisp, Zenon
  <2> HIDE DEF a, b
  <2>4. DCmp(a, b) = Sgn(Reading(a) - Reading(b)) /\ Reading(a) \in Int /\ Reading(b) \in Int
    BY <2>3, DCmpIsOrder, ReadingIs, Zenon DEF Ymds
  <2>5. DCmp(a, b) > 0 <=> Reading(a) > Reading(b)
    BY <2>4, SMT DEF Sgn, One
  <2>6. CASE DCmp(a, b) > 0
    <3>1. diff = YmdApart(TRUE, b, a)
      BY <2>6 DEF YmdDiff
    <3>2. diff.neg = TRUE
      BY <3>1, NegIs
    <3>3. early = b /\ late = a
      BY <3>2
    <3>4. Reading(b) <= Reading(a) /\ b.d <= 28
      BY <2>4, <2>5, <2>6, <3>3
    <3> QED BY <2>3, <3>1, <3>3, <3>4, ApartAddsBack, Zenon
  <2>7. CASE ~ (DCmp(a, b) > 0)
    <3>1. diff = YmdApart(FALSE, a, b)
      BY <2>7 DEF YmdDiff
    <3>2. diff.neg = FALSE
      <4>1. YmdApart(FALSE, a, b).neg = FALSE
        BY NegIs, Zenon
      <4> HIDE DEF diff
      <4> QED BY <3>1, <4>1, Zenon
    <3>3. early = a /\ late = b
      BY <3>2
    <3>4. Reading(a) <= Reading(b) /\ a.d <= 28
      BY <2>4, <2>5, <2>7, <3>3
    <3> QED BY <2>3, <3>1, <3>3, <3>4, ApartAddsBack, ZenonT(60)
  <2> QED BY <2>6, <2>7
<1> QED
  BY <1>1, IInvHolds, PTL
=============================================================================
