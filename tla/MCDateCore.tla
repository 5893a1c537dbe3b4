----------------------------- MODULE MCDateCore ------------------------------
EXTENDS DateCore

MCTyps == {"ymd", "ymcw", "ywd", "yd", "bizda", "daisy", "ldn"}

\* Around 1899-12-31, 2004-01-31, 2004-02-29, 2004-12-31, which is in the 53rd
\* week, and 2099-02-28, next to the year 2100.
MCFirsts ==
  (109205 .. 109209) \union (147221 .. 147224) \union (147250 .. 147253) \union (147557 .. 147562) \union (181949 .. 181951)

MCDays == {-800, -61, -29, -1, 1, 7, 31, 366}
MCWeeks == {-53, -5, 4, 105}
MCBizdays == {-275, -21, -1, 0, 1, 5, 6, 262}
MCMonths == {-25, -1, 1, 13}
MCYears == {-3, 1}

\* 1992-12-30, the Wednesday of a 53rd week, five years and a day less, and
\* more than 275 workdays at once.
MCLongYear == {143174}
MCFiveYears == {1826}
MCMany == {-300}
=============================================================================
