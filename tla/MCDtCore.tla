------------------------------ MODULE MCDtCore -------------------------------
EXTENDS DtCore

MCTyps == {"ymd", "ymcw", "ywd", "yd", "daisy"}

\* 2010-02-10, a leap year and some years before, 2012-02-28, 2012-03-10, the
\* day before New York springs forward, 2012-06-30, a day with a leap second,
\* 2012-11-04, when New York falls back, 2012-12-31, and 2015-06-30, another
\* day with a leap second.
MCFirsts == {149425, 150173, 150184, 150296, 150423, 150480, 151391}

\* 2007-01-01, between the leap seconds of 2005 and 2008.
MCBetween == {148289}

At(h, m, s) == [h |-> h, m |-> m, s |-> s, ns |-> 0]
MCTimes ==
  {At(0, 0, 0), At(1, 30, 0), At(2, 30, 0), At(23, 59, 58), At(23, 59, 60), At(24, 0, 0),
   [At(23, 59, 59) EXCEPT !.ns = 3]}

\* Within New York's hour that comes twice, and before the leap second.
MCEpochs == {1352008799, 1341100799}

Of(unit, dv, tai) == [unit |-> unit, dv |-> dv, tai |-> tai]
MCDurs ==
  {Of("h", 25, FALSE), Of("m", -2999, FALSE), Of("s", 1, FALSE), Of("s", -86401, FALSE),
   Of("ns", 7, FALSE), Of("ns", -9, FALSE), Of("d", 1, FALSE), Of("w", -1, FALSE), Of("m", 0, FALSE),
   Of("mo", 1, FALSE), Of("y", -1, FALSE), Of("s", 1, TRUE), Of("s", 2, TRUE), Of("s", -2, TRUE), Of("s", -3, TRUE),
   Of("s", 94608002, TRUE)}

NewYork == [cz |-> "none", trs |-> <<1320559200, 1331449200, 1352008800, 1362898800>>, ofs |-> <<-14400, -18000, -14400, -18000, -14400>>]
Berlin == [cz |-> "none", trs |-> <<1319936400, 1332637200, 1351386000>>, ofs |-> <<7200, 3600, 7200, 3600>>]
London == [cz |-> "none", trs |-> <<1319936400, 1332637200, 1351386000>>, ofs |-> <<3600, 0, 3600, 0>>]
MCZones == {NewYork, Berlin, London, [cz |-> "tai"], [cz |-> "gps"]}

MCBase == 150184
=============================================================================
