------------------------------- MODULE MCDseq --------------------------------
EXTENDS Dseq

At(h, m, s) == [h |-> h, m |-> m, s |-> s, ns |-> 0]
Day(typ, num) == OnlyD(DConv(typ, Daisy(num)))
CivilDay(num) == OnlyD(DaisyToYmd(num))
Clock(h, m, s) == OnlyT(At(h, m, s))
Dur(unit, dv) == <<Of(unit, dv)>>
Line(fst, ite, lst, alt, skip, last) ==
  [fst |-> fst, ite |-> ite, lst |-> lst, alt |-> alt, skip |-> skip, last |-> last]

\* From 2012-02-24, a Friday, to 2012-03-11, and back; any weekdays skipped,
\* with every increment of days and every way to step off.
Fri == 150169
Sun == 150185
Skips == {{}, {<<6, 7>>}, {<<5, 1>>}, {<<3, 3>>}, {<<1, 7>>}}
Alts == {<<>>, Dur("d", 1), Dur("d", 3), Dur("d", -1), Dur("w", 1), Dur("b", 1)}

Dates ==
  {Line(Day(typ, p[1]), ite, Day(typ, p[2]), alt, skip, last) :
     typ \in {"ymd", "ywd"}, p \in {<<Fri, Sun>>, <<Sun, Fri>>, <<Sun, Sun>>},
     ite \in {<<>>, Dur("d", 1), Dur("d", 5), Dur("d", -2), Dur("w", 1), Dur("d", 0)},
     alt \in Alts, skip \in Skips, last \in BOOLEAN}

Others ==
  {Line(CivilDay(150145), ite, Day(typ, 150300), <<>>, skip, last) :
     typ \in {"ymd", "yd", "ymcw"}, ite \in {Dur("mo", 1), Dur("mo", 1) \o Dur("d", 1), Dur("b", 9)},
     skip \in {{}, {<<6, 7>>}}, last \in BOOLEAN}
  \union {Line(Day("yd", Fri), Dur("d", 1), Day("yd", Sun), <<>>, {}, last) : last \in BOOLEAN}
  \union {Line(OnlyD(Ymd(2012, 3, 0)), <<>>, OnlyD(Ymd(2012, 7, 0)), <<>>, {}, FALSE)}

\* Date-times, also where only one end has a time.
Clocks ==
  {Line(p[1], ite, p[2], <<>>, {}, last) :
     p \in {<<CivilDay(Fri), Sandwich(DaisyToYmd(Fri + 2), At(12, 0, 0))>>,
            <<Sandwich(DaisyToYmd(Fri), At(23, 30, 0)), CivilDay(Fri + 2)>>,
            <<Sandwich(DaisyToYmd(Fri), At(23, 30, 0)), Clock(23, 45, 0)>>},
     ite \in {Dur("h", 7), Dur("m", 15), Dur("d", 1), Dur("d", 1) \o Dur("h", -1)}, last \in {FALSE}}

\* Times, over midnight too, that come to an end.
Times ==
  {Line(Clock(22, 0, 0), ite, Clock(2, 0, 0), <<>>, {}, last) : ite \in {<<>>, Dur("h", 1), Dur("m", 45)}, last \in {FALSE}}
  \union {Line(Clock(3, 0, 0), Dur("h", -1), Clock(22, 0, 0), <<>>, {}, FALSE),
          Line(Clock(3, 0, 0), <<>>, Clock(7, 0, 0), <<>>, {}, FALSE),
          Line(Clock(3, 0, 0), <<>>, Clock(3, 20, 0), <<>>, {}, FALSE),
          Line(Clock(3, 0, 30), Dur("s", 0), Clock(3, 0, 40), <<>>, {}, FALSE),
          Line(CivilDay(Fri), <<>>, Clock(3, 0, 0), <<>>, {}, FALSE)}

MCArgs == Dates \union Others \union Clocks \union Times

\* An alternative increment of naught.
MCNaught == {Line(CivilDay(Fri), Dur("d", 1), CivilDay(Sun), Dur("d", 0), {<<6, 6>>}, FALSE)}

MCBase == Fri
=============================================================================
