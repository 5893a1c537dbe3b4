------------------------------- MODULE MCDdiff -------------------------------
EXTENDS Ddiff

At(h, m, s) == [h |-> h, m |-> m, s |-> s, ns |-> 0]

\* Around the turn of 2004, the ends of February and the first of April 2003, a leap second and a year.
Nums == {146886, 147221, 147251, 147252, 147253, 147281, 147556, 147558, 150296, 150297}
Hours == {At(0, 0, 0), At(6, 30, 10), At(23, 59, 59)}

\* Once in any calendar; date-times in two.  2005-01-29 is behind a leap year.
MCRefs ==
  {Sandwich(DConv(typ, Daisy(num)), At(6, 30, 10)) : typ \in {"ymd", "daisy"}, num \in {147251, 147252, 147281, 150296}}
  \union {Sandwich(DConv("ymd", Daisy(num)), At(12, 0, 0)) : num \in {146918, 147221, 147253, 147587, 150297}}
  \union {OnlyD(DConv(typ, Daisy(num))) : typ \in {"ymd", "ywd"}, num \in {147252, 147281, 147556}}
  \union {OnlyT(t) : t \in Hours}
MCLines ==
  {Sandwich(DConv("ymd", Daisy(num)), t) : num \in Nums, t \in Hours}
  \union {OnlyD(DConv(typ, Daisy(num))) : typ \in {"ymd", "yd"}, num \in Nums}
  \union {OnlyT([At(6, 30, 10) EXCEPT !.ns = 4])}
  \union {NotADate}

MCFmts ==
  {Special(typ) : typ \in {"ymd", "ymcw", "bizda", "daisy", "ywd", "yd"}}
  \union {{}, {"S"}, {"d"}, {"d", "b"}, {"Y", "d"}, {"Y", "w", "d"}, {"m", "w", "d", "M", "S"}, {"Y", "q", "m", "d", "H", "S"},
          {"q", "m", "d"}, {"w", "H", "M", "S"}, {"w", "d", "S"}, {"Y", "S"}, {"H", "M"}, {"S", "N"}, {"M", "S", "r"}, {"S", "r"}}

MCBase == 150296

\* From the second after a leap second to the day before it.
MCLeap == {Sandwich(DConv("ymd", Daisy(150297)), At(0, 0, 0))}
MCReal == {{"S", "r"}}
=============================================================================
