-------------------------------- MODULE Dseq ---------------------------------
(***************************************************************************)
(* dseq, src/dseq.c: the dates, times or date-times from one to another    *)
(* one, by an increment, those on certain weekdays left out, or stepped    *)
(* over by an alternative increment.  Every turn of its loops is a step.   *)
(***************************************************************************)
EXTENDS DtOps, SequencesExt

CONSTANTS
  Args          \* the command lines

VARIABLES
  clo,          \* what was made of the command line: fst, lst, ite, alt, ss, dir
  now,          \* the date under way
  old,          \* the last one in range while the first is computed
  pc, ret,      \* the loop this is in, and where __seq_this() returns to
  args,         \* history: the command line
  seen,         \* history: what was printed, as moments
  shown         \* history: what was printed last

vars == <<clo, now, old, pc, ret, args, seen, shown>>

-----------------------------------------------------------------------------
(* Weekdays to be left out. *)

\* dt_get_wday(): ISO ordinal dates have none.
GetWday(d) ==
  CASE d.typ = "ymd" -> YmdGetWday(d)
    [] d.typ \in {"ymcw", "ywd"} -> d.w
    [] d.typ = "daisy" -> DaisyGetWday(d.n)
    [] d.typ = "bizda" -> BizdaGetWday(d)
    [] OTHER -> MIRACLEDAY

\* From one weekday to another, over the end of the week if need be.
SkipRange(from, till) ==
  {IF d > 7 THEN d - 7 ELSE d : d \in from .. (IF till >= from THEN till ELSE till + 7)} \ {MIRACLEDAY}

SetSkip(specs) == UNION {SkipRange(s[1], s[2]) : s \in specs}

Skipp(x) == clo.ss # {} /\ GetWday(x.d) \in clo.ss

-----------------------------------------------------------------------------
(* Increments: stacks of durations.  A time on its own counts in the place  *)
(* of its date how often it went past midnight.                             *)

Counted(x) == IF OnlyTP(x) THEN [x EXCEPT !.d = [typ |-> "unk", u |-> 0, carry |-> 0]] ELSE x

CarryOf(x, dur) ==
  IF dur.unit \in {"h", "m", "s"} THEN TAddS(x.t, Rem(InSecs(dur), SECS_PER_DAY), 0).carry
  ELSE x.d.carry

CountOn(x, carry) == IF OnlyTP(x) THEN [x EXCEPT !.d.u = @ + carry, !.d.carry = carry] ELSE x

DateAddOne(x, dur) == CountOn(DtAdd(x, dur), CarryOf(x, dur))

DateAdd(x, durs) == FoldLeft(DateAddOne, x, durs)

Neg(durs) == [i \in DOMAIN durs |-> [durs[i] EXCEPT !.dv = -@]]
NaughtP(durs) == \A i \in DOMAIN durs : durs[i].dv = 0

\* Increments by which dates may be counted as numbers of days.
FeasibleP(durs) == Len(durs) = 1 /\ durs[1].unit \in {"d", "b", "w"}

\* Mutant: the end of a sequence is not in it.
InRangePOpen(x) ==
  IF OnlyTP(x) \/ clo.dir = 0 THEN FALSE
  ELSE LET a == IF clo.dir > 0 THEN clo.fst ELSE clo.lst
           b == IF clo.dir > 0 THEN clo.lst ELSE clo.fst
       IN DtInRange(x, a, b) = 1 /\ DtCmp(x, clo.lst) # 0

\* Times may go past midnight to a last one that is earlier.
TimeInRangeP(x) ==
  LET At(y) == TimeCmp(x.t, y.t)
      up == TimeCmp(clo.fst.t, clo.lst.t) < 0
      down == TimeCmp(clo.fst.t, clo.lst.t) > 0
  IN CASE clo.dir > 0 /\ up -> At(clo.fst) >= 0 /\ At(clo.lst) <= 0
       [] clo.dir > 0 /\ ~up -> At(clo.lst) <= 0 \/ x.d.u = 0
       [] clo.dir < 0 /\ down -> At(clo.fst) <= 0 /\ At(clo.lst) >= 0
       [] clo.dir < 0 /\ ~down -> At(clo.lst) >= 0 \/ x.d.u = 0

\* __in_range_p(): nothing is in range until the direction is known.
InRangeP(x) ==
  CASE clo.dir = 0 -> FALSE
    [] clo.dir # 0 /\ OnlyTP(x) -> TimeInRangeP(x)
    [] clo.dir > 0 /\ ~OnlyTP(x) -> DtInRange(x, clo.fst, clo.lst) = 1
    [] clo.dir < 0 /\ ~OnlyTP(x) -> DtInRange(x, clo.lst, clo.fst) = 1

-----------------------------------------------------------------------------
(* What main() makes of the command line. *)

Of(unit, dv) == [unit |-> unit, dv |-> dv, tai |-> FALSE]

\* tseq_guess_ite(): as coarse as both ends allow.
GuessIte(beg, end) ==
  LET sgn == IF TimeCmp(beg, end) < 0 THEN 1 ELSE -1
  IN IF beg.h # end.h /\ beg.m = 0 /\ end.m = 0 /\ beg.s = 0 /\ end.s = 0 THEN Of("h", sgn)
     ELSE IF beg.m # end.m /\ beg.s = 0 /\ end.s = 0 THEN Of("m", sgn)
     ELSE Of("s", sgn)

\* The ends in one calendar, a time for both if one has it.
Alike(fst, lst) ==
  CASE OnlyDP(fst) /\ SandwichP(lst) -> [fst |-> [fst EXCEPT !.t = lst.t, !.sw = TRUE], lst |-> lst]
    [] SandwichP(fst) /\ OnlyDP(lst) -> [fst |-> fst, lst |-> [lst EXCEPT !.t = fst.t, !.sw = TRUE]]
    [] SandwichP(fst) /\ OnlyTP(lst) -> [fst |-> fst, lst |-> [lst EXCEPT !.d = fst.d, !.typ = fst.typ]]
    [] OTHER -> [fst |-> fst, lst |-> lst]

Ends(a) == Alike(Counted(a.fst), IF a.fst.typ = a.lst.typ THEN a.lst ELSE DtConv(a.fst.typ, a.lst))

Civil(x) == x.typ = "ymd" /\ x.d.m # 0 /\ x.d.d # 0

\* The increment: years or months between dates of those, else days; as coarse
\* as may be between times where none or naught was given.
Increment(e, ite) ==
  CASE e.fst.typ = "ymd" /\ e.fst.d.m = 0 /\ ite = <<>> -> <<Of("y", 1)>>
    [] e.fst.typ = "ymd" /\ e.fst.d.m # 0 /\ e.fst.d.d = 0 /\ ite = <<>> -> <<Of("mo", 1)>>
    [] OnlyTP(e.fst) /\ (ite = <<>> \/ ite[1].dv = 0) ->
         <<GuessIte(e.fst.t, e.lst.t)>> \o (IF ite = <<>> THEN <<>> ELSE Tail(ite))
    [] OTHER -> IF ite = <<>> THEN <<Of("d", 1)>> ELSE ite

\* Dates are counted as numbers of days where that is feasible.
Numbered(e, ite) ==
  IF OnlyDP(e.fst) /\ FeasibleP(ite) /\ Civil(e.fst) /\ Civil(e.lst)
    THEN [fst |-> DtConv("daisy", e.fst), lst |-> DtConv("daisy", e.lst)]
  ELSE e

Between(e, a, ite) ==
  [fst |-> e.fst, lst |-> e.lst, ite |-> ite, alt |-> a.alt, ss |-> SetSkip(a.skip),
   dir |-> IF OnlyTP(e.fst) THEN Sgn(ite[1].dv) ELSE 0]

Setup(a, e) == LET ite == Increment(e, a.ite) IN Between(Numbered(e, ite), a, ite)

Mixed(e) == OnlyDP(e.fst) /\ OnlyTP(e.lst)

-----------------------------------------------------------------------------
(* The loops. *)

\* Nothing that was printed, or is held.
Nothing == OnlyD(NoDate)

\* The direction is where a first addition leads to, or the sign of the
\* increment of a time.
Init ==
  /\ args \in Args
  /\ clo = Setup(args, Ends(args))
  /\ seen = {}
  /\ shown = Nothing
  /\ old = Nothing
  /\ ret = "dir"
  /\ IF Mixed(clo) \/ NaughtP(clo.ite)
       THEN pc = "failed" /\ now = Nothing
     ELSE IF OnlyTP(clo.fst) THEN pc = "dir" /\ now = clo.fst
     ELSE pc = "this" /\ now = DateAdd(clo.fst, clo.ite)

Goto(label) == pc' = label /\ UNCHANGED ret
ThisThen(label) == pc' = "this" /\ ret' = label
Printed == UNCHANGED <<args, seen, shown>>

\* __get_dir(), and on to the first date, or to the last to come from there.
Dir ==
  /\ pc = "dir"
  /\ LET dir == IF OnlyTP(clo.fst) THEN clo.dir ELSE DtCmp(now, clo.fst)
     IN IF dir = 0 THEN Goto("failed") /\ UNCHANGED <<clo, now, old>>
        ELSE IF args.last
          THEN /\ clo' = [clo EXCEPT !.dir = dir, !.ite = Neg(@)]
               /\ now' = clo.lst
               /\ old' = clo.lst
               /\ Goto("back")
        ELSE /\ clo' = [clo EXCEPT !.dir = dir]
             /\ now' = clo.fst
             /\ ThisThen("print")
             /\ UNCHANGED old
  /\ Printed

\* Mutant: the date stays where it is.
BackNowhere ==
  /\ pc = "back"
  /\ IF InRangeP(now)
       THEN old' = now /\ ThisThen("back") /\ UNCHANGED now
       ELSE now' = old /\ ThisThen("turn") /\ UNCHANGED old
  /\ UNCHANGED clo
  /\ Printed

\* __fixup_fst(): back from the last one as long as that is in range, then
\* fixed up both ways.
Back ==
  /\ pc = "back"
  /\ IF InRangeP(now)
       THEN old' = now /\ now' = DateAdd(now, clo.ite) /\ ThisThen("back")
       ELSE now' = old /\ ThisThen("turn") /\ UNCHANGED old
  /\ UNCHANGED clo
  /\ Printed

Turn ==
  /\ pc = "turn"
  /\ clo' = [clo EXCEPT !.ite = Neg(@)]
  /\ ThisThen("print")
  /\ UNCHANGED <<now, old>>
  /\ Printed

\* __seq_this(): off a date that is skipped, or out of range anyway.
This ==
  /\ pc = "this"
  /\ IF ~Skipp(now) /\ InRangeP(now) THEN Goto(ret) /\ UNCHANGED now
     ELSE IF clo.alt # <<>> THEN Goto("alt") /\ now' = DateAdd(now, clo.alt)
     ELSE Goto("ite") /\ UNCHANGED now
  /\ UNCHANGED <<clo, old>>
  /\ Printed

\* Mutant: one step off a skipped date is enough.
StepOffOnce ==
  /\ pc \in {"alt", "ite"}
  /\ Goto(ret)
  /\ UNCHANGED <<clo, now, old>>
  /\ Printed

\* Its loops, by the alternative increment or the increment.
StepOff ==
  /\ pc \in {"alt", "ite"}
  /\ IF Skipp(now) /\ InRangeP(now)
       THEN now' = DateAdd(now, IF pc = "alt" THEN clo.alt ELSE clo.ite) /\ Goto(pc)
       ELSE Goto(ret) /\ UNCHANGED now
  /\ UNCHANGED <<clo, old>>
  /\ Printed

Moment(x) == IF OnlyTP(x) THEN SecsSinceMidnight(x.t) ELSE ToUnixEpoch(DtFixup(x))

\* Mutant: the increment is taken the wrong way.
WriteBackwards ==
  /\ pc = "print"
  /\ IF InRangeP(DtFixup(now))
       THEN /\ shown' = now
            /\ seen' = seen \union {Moment(now)}
            /\ now' = DateAdd(now, Neg(clo.ite))
            /\ ThisThen("print")
       ELSE Goto("done") /\ UNCHANGED <<now, shown, seen>>
  /\ UNCHANGED <<clo, old, args>>

\* The loop of main().
Write ==
  /\ pc = "print"
  /\ IF InRangeP(DtFixup(now))
       THEN /\ shown' = now
            /\ seen' = seen \union {Moment(now)}
            /\ now' = DateAdd(now, clo.ite)
            /\ ThisThen("print")
       ELSE Goto("done") /\ UNCHANGED <<now, shown, seen>>
  /\ UNCHANGED <<clo, old, args>>

Next == Dir \/ Back \/ Turn \/ This \/ StepOff \/ Write

\* One thread runs the loops.
Spec == Init /\ [][Next]_vars /\ WF_vars(Next)

-----------------------------------------------------------------------------
(* Properties. *)

Dated == ~OnlyTP(clo.fst)
Ended == pc \in {"done", "failed"}

TypeOK ==
  /\ pc \in {"dir", "back", "turn", "this", "alt", "ite", "print", "done", "failed"}
  /\ ret \in {"dir", "back", "turn", "print"}
  /\ clo.ss \subseteq 1 .. 7
  /\ clo.dir \in -1 .. 1
  /\ pc \notin {"done", "failed"} => now.typ = clo.fst.typ

Least == IF Moment(clo.fst) < Moment(clo.lst) THEN clo.fst ELSE clo.lst
Greatest == IF Moment(clo.fst) < Moment(clo.lst) THEN clo.lst ELSE clo.fst

\* "The values of FIRST and LAST are always inclusive and no date/times before
\* FIRST and no date/times after LAST will be printed", nor any on a weekday to
\* be skipped, but for ISO ordinal dates, whose weekday is not known, and for
\* days that will be cropped.
OnlyWhatWasAsked ==
  shown # Nothing /\ Dated =>
    /\ Moment(shown) >= Moment(Least) /\ Moment(shown) <= Moment(Greatest)
    /\ shown.typ # "yd" /\ shown = DtFixup(shown) => DaisyGetWday(ConvToDaisy(shown.d)) \notin clo.ss

\* Alternative increments are meant to lead the way of the increment, and are
\* not turned around where that is, from the last date back.
Way(durs) == Sgn(Moment(DateAdd(clo.fst, durs)) - Moment(clo.fst))
AltLeadsOn == args.alt = <<>> \/ (~args.last /\ Way(clo.alt) = Way(clo.ite))

\* Every step of the sequence leads on in its direction, so that nothing is
\* printed twice.
SequenceLeadsOn ==
  [][shown' # shown /\ shown # Nothing /\ Dated /\ AltLeadsOn
       => Sgn(Moment(shown') - Moment(shown)) = clo.dir]_vars

\* Increments of days, with no alternative, between dates.
Regular ==
  /\ Dated /\ ~SandwichP(clo.fst) /\ clo.fst.typ # "yd"
  /\ Len(clo.ite) = 1 /\ clo.ite[1].unit \in {"d", "w"}
  /\ clo.alt = <<>>

Days(x) == Moment(x) \div SECS_PER_DAY

\* Nothing that was asked for is left out: when the sequence ends, all that
\* was in it has been printed.
NothingIsMissed ==
  pc = "done" /\ Regular =>
    LET step == Mag(clo.ite[1].dv) * (IF clo.ite[1].unit = "w" THEN 7 ELSE 1)
        from == Days(IF args.last THEN clo.lst ELSE clo.fst)
        way == clo.dir * (Days(clo.lst) - Days(clo.fst)) >= 0
    IN seen = {n * SECS_PER_DAY : n \in {k \in Days(Least) .. Days(Greatest) :
                 way /\ (k - from) % step = 0 /\ DaisyGetWday(k + DAISY_UNIX_BASE) \notin clo.ss}}

\* Every sequence of dates comes to its end, with alternative increments that
\* lead on.
SequencesEnd == Dated /\ AltLeadsOn ~> Ended

-----------------------------------------------------------------------------
(* What the manual says and the code does not do; the README tells the      *)
(* counterexamples.                                                         *)

\* Every sequence comes to its end, without alternative increments too;
\* dseq.yuck: "The special case `0' (default) deactivates alternative
\* incrementing."
AllSequencesEnd == <>Ended

\* dseq.yuck: "Skip weekdays specified by STRING".
SkippedAreSkipped ==
  shown # Nothing /\ Dated => DaisyGetWday(ConvToDaisy(DtFixup(shown).d)) \notin clo.ss
=============================================================================
