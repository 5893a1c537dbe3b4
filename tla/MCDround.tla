------------------------------- MODULE MCDround ------------------------------
EXTENDS Dround

At(h, m, s) == [h |-> h, m |-> m, s |-> s, ns |-> 0]
Of(unit, dv) == [unit |-> unit, dv |-> dv, neg |-> FALSE, cocl |-> FALSE]
NameOf(unit, dv, neg) == [unit |-> unit, dv |-> dv, neg |-> neg, cocl |-> FALSE]
Class(unit, dv) == [Of(unit, dv) EXCEPT !.cocl = TRUE]

\* 2011-12-31, a Saturday, 2012-01-01, 2012-02-28, -29, -03-01, 2012-12-31.
Nums == {150114, 150115, 150173, 150174, 150175, 150480}
Times == {At(0, 0, 0), At(12, 30, 30), At(23, 59, 59)}

NewYork == [cz |-> "none", trs |-> <<1320559200, 1331449200, 1352008800, 1362898800>>, ofs |-> <<-14400, -18000, -14400, -18000, -14400>>]

Occurrences ==
  {Of(u, v) : u \in {"h", "m", "s"}, v \in {0, 12, 23, -12}} \union {Of("m", 30), Of("s", -59), Of("ns", 1)}
  \union {Of("d", v) : v \in {1, 29, 31, -1, -31}} \union {Of("mo", v) : v \in {1, 2, 12}} \union {Of("q", v) : v \in {1, 4}}
  \union {NameOf("wday", v, neg) : v \in {1, 3, 7}, neg \in BOOLEAN} \union {NameOf("mon", v, neg) : v \in {2, 12}, neg \in BOOLEAN}
Multiples ==
  {Class(u, v) : u \in {"h", "m", "s"}, v \in {1, 6, -6}} \union {Class("m", -30)}
  \union {Class(u, v) : u \in {"d", "b"}, v \in {1, -1}}
  \union {Class("mo", v) : v \in {1, 3, -2}} \union {Class("q", v) : v \in {1, -2}} \union {Class("y", v) : v \in {1, -3}}
Refused == {Of("h", 24), Of("m", -60), Of("y", 1), Of("mo", 13), Class("h", 5), Class("d", 2), Class("m", 0)}

\* In the zone the lines come from.
Zonely ==
  {Class("d", 1), Class("b", -1), Class("mo", 1), Class("h", 6), Of("h", 23), Of("s", -59), Of("d", 15), Of("mo", 2),
   NameOf("wday", 1, FALSE), NameOf("wday", 7, TRUE), NameOf("mon", 2, FALSE)}

Job(specs, lines, next, mode) ==
  [specs |-> specs, lines |-> lines, next |-> next, mode |-> mode, quiet |-> FALSE, zoned |-> FALSE, zone |-> NewYork, off |-> [given |-> FALSE, secs |-> 0]]

Dates == {OnlyD(DaisyToYmd(num)) : num \in Nums}
Daisies == {OnlyD(Daisy(num)) : num \in Nums}
Moments == {Sandwich(DaisyToYmd(num), t) : num \in Nums, t \in Times}
Clocks == {OnlyT(t) : t \in Times} \union {OnlyT(At(24, 0, 0)), OnlyT(At(23, 59, 60))}
Weeks == {OnlyD(DConv("ywd", Daisy(num))) : num \in Nums}
Bizdas ==
  {x \in {Sandwich(Bizda(y, m, bd), At(1, 2, 3)) : y \in {2011, 2012}, m \in {1, 2, 12}, bd \in {1, 20, 21}} :
     x.d.bd <= GetBdays(x.d.y, x.d.m)}

\* Of one spec, of two, in any order, and all the units of a calendar; lines
\* with an offset, and from a zone; epochs, of which only arguments have a sign.
MCJobs ==
  {Job(<<s>>, <<x>>, next, "arg") : s \in Occurrences \union Multiples, x \in Dates \union Moments, next \in BOOLEAN}
  \union {Job(<<s>>, <<x>>, next, "arg") : s \in Occurrences \union {Class("d", 1), Class("b", -1)}, x \in Daisies, next \in BOOLEAN}
  \union {Job(<<s, t>>, <<x>>, next, "plain") : s \in {Of("d", 31), Of("h", 0), NameOf("mon", 2, TRUE)},
          t \in {NameOf("wday", 1, FALSE), Of("m", -12), Of("d", -29)}, x \in Moments, next \in BOOLEAN}
  \union {Job(<<s, t>>, <<x>>, next, "plain") : s \in {NameOf("wday", 6, FALSE), Class("h", 6)},
          t \in {Class("b", 1), Class("mo", -1)}, x \in Moments, next \in BOOLEAN}
  \union {Job(<<s>>, <<x>>, next, "arg") : s \in {t \in Occurrences : t.unit \in {"h", "m", "s"}}, x \in Clocks, next \in BOOLEAN}
  \union {Job(<<Of("w", v)>>, <<x>>, next, "arg") : v \in {1, 52, 53, -53, -1}, x \in Weeks, next \in BOOLEAN}
  \union {Job(<<Of("b", v)>>, <<x>>, next, "arg") : v \in {1, 20, 21, 23, -23, -2}, x \in Bizdas, next \in BOOLEAN}
  \union {Job(<<Class(u, v)>>, <<Sexy(1325462399), Sexy(1325462400)>>, next, "plain") : u \in {"h", "m", "s"}, v \in {1, -6}, next \in BOOLEAN}
  \union {Job(<<Of("d", 1), s>>, <<>>, FALSE, "plain") : s \in Refused}
  \union {Job(<<s>>, <<x, y>>, FALSE, "plain") :
          s \in {Class("h", 1), Class("d", 1), Class("b", -1), Class("mo", 1)}, x \in Moments, y \in Moments}
  \union {Job(<<s, t>>, <<x, y>>, FALSE, "plain") :
          s \in {NameOf("wday", 6, FALSE), NameOf("wday", 2, TRUE)}, t \in {Class("b", 1), Class("q", -1)}, x \in Dates, y \in Dates}
  \union {[Job(<<Class("h", -6)>>, <<NotADate, x, NotADate>>, FALSE, mode) EXCEPT !.quiet = quiet] :
          x \in Moments \union Dates, mode \in {"arg", "plain", "sed", "empty"}, quiet \in BOOLEAN}
  \union {[Job(<<s>>, <<x>>, FALSE, mode) EXCEPT !.zoned = TRUE] : s \in Zonely, x \in Moments, mode \in {"arg", "plain"}}
  \union {[Job(<<s, t>>, <<x>>, FALSE, "plain") EXCEPT !.zoned = zoned, !.off = [given |-> TRUE, secs |-> secs]] :
          s \in {NameOf("wday", 1, FALSE), Class("mo", 1)}, t \in {Of("d", 31), Of("m", -12)}, x \in Moments,
          zoned \in BOOLEAN, secs \in {0, -18000, 34200}}
  \union {[Job(<<s>>, <<x, y>>, FALSE, "plain") EXCEPT !.off = [given |-> TRUE, secs |-> -18000]] :
          s \in {Class("d", 1), Class("h", 6)}, x \in Moments, y \in Moments}
  \union {Job(<<Class(u, v)>>, <<Sexy(n)>>, next, "arg") : u \in {"h", "m", "s"}, v \in {1, -6}, n \in {-86400, -100}, next \in BOOLEAN}

\* What is said and not done.
MCSlash == {Job(<<Class("h", 1), Of("m", 30)>>, <<>>, FALSE, "plain")}
MCLast == {Job(<<Of("d", 31)>>, <<OnlyD(Ymd(2012, 2, 29))>>, TRUE, "arg")}
MCBack == {Job(<<Of("mo", -3)>>, <<OnlyD(Ymd(2012, 5, 5))>>, FALSE, "arg")}
MCZone == {[Job(<<Class("d", 1)>>, <<Sandwich(Ymd(2012, 1, 1), At(23, 30, 0))>>, FALSE, "plain") EXCEPT !.zoned = TRUE]}
MCStale == {[Job(<<NameOf("wday", 1, FALSE)>>, <<Sandwich(Ymd(2012, 1, 1), At(23, 30, 0))>>, FALSE, "plain") EXCEPT !.zoned = TRUE]}
MCEarly == {Job(<<Class("h", 1)>>, <<Sexy(-100)>>, FALSE, "arg")}

MCBase == 150173
=============================================================================
