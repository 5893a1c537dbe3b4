--------------------------- MODULE MCCalendarWalk ----------------------------
EXTENDS CalendarWalk

\* Every day of a cycle of 400 years and the century after it, in which the
\* table of weekdays is used directly from 1901 to 2100 and by its equivalent
\* years around that; and the last years that day numbers lead to.
MCWalks ==
  {<<1, 1601, 2106>>, <<37255, 1703, 2106>>, <<71954, 1798, 2106>>, <<107017, 1894, 2106>>,
   <<146098, 2001, 2106>>, <<907264, 4085, 4093>>}

\* The last years of the design range, and an ordinary decade.
MCLast == {<<909455, 4091, 4095>>}
MCDecade == {<<148289, 2007, 2018>>}
=============================================================================
