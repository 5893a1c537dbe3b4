------------------------------- MODULE MCDgrep -------------------------------
EXTENDS Dgrep

At(h, m, s) == [h |-> h, m |-> m, s |-> s, ns |-> 0]
Day(num) == DaisyToYmd(num)

NewYork == [cz |-> "none", trs |-> <<1320559200, 1331449200, 1352008800, 1362898800>>, ofs |-> <<-14400, -18000, -14400, -18000, -14400>>]

\* Comparisons and how they are put together, operands first.
Kv(op, cell) == [sp |-> "std", op |-> op, d |-> cell]
Spec_(sp, op, s) == [sp |-> sp, op |-> op, s |-> s]
V(kv) == <<[tok |-> "exp", kv |-> kv]>>
N(e) == Append(e, [tok |-> "not"])
C(e, f) == Append(e \o f, [tok |-> "conj"])
D(e, f) == Append(e \o f, [tok |-> "disj"])

\* 2011-12-31, a Saturday, and the four days after.
First == 150114
Cell(i) == OnlyD(Day(First + i))
a == V(Kv(OP_GT, Cell(0)))
b == V(Kv(OP_LT, Cell(3)))
c == V(Kv(OP_NE, Cell(2)))
d == V(Kv(OP_EQ, Cell(4)))
p == V(Kv(OP_GE, Cell(2)))
q == V(Kv(OP_EQ, Cell(1)))
r == V(Kv(OP_LT, Cell(4)))

Joins(es, fs) == {C(e, f) : e \in es, f \in fs} \union {D(e, f) : e \in es, f \in fs}
Sides(e) == {e, N(e)}

\* All the shapes of two, three and four comparisons; the ones of five that
\* end in two or begin with two.
Twos(x, y) == Joins({x}, {y})
Threes(x, y, z) == Joins(Twos(x, y), {z}) \union Joins({x}, Twos(y, z))
Fours(x, y, z, w) == Joins(Threes(x, y, z), {w}) \union Joins(Twos(x, y), Twos(z, w)) \union Joins({x}, Threes(y, z, w))
Shapes(x, y, z, w) == Twos(x, y) \union Threes(x, y, z) \union Fours(x, y, z, w)
Longer == Joins(Threes(a, b, c), Twos(d, V(Kv(OP_LE, Cell(1)))))

\* Negated comparisons, and conjunctions of them.
Negated ==
  {N(e) : e \in {a, b, c, d, C(a, b), C(a, N(b)), C(a, C(b, c))}}
  \union {e \in Joins(Sides(a), Sides(b)) : TRUE} \union Joins(Sides(c), {N(C(a, d)), C(N(b), d), D(N(b), d)})

Dates == [i \in 1 .. 5 |-> OnlyD(Day(First + i - 1))]
Moments == [i \in 1 .. 4 |-> Sandwich(Day(First + i \div 2), At(IF i % 2 = 0 THEN 3 ELSE 22, 30, 0))]
Clocks == <<OnlyT(At(3, 30, 0)), OnlyT(At(22, 30, 0))>>
ByDate == [i \in 1 .. 5 |-> <<Dates[i]>>]

Job(expr, lines) ==
  [expr |-> expr, opt |-> OP_UNK, lines |-> lines, only |-> FALSE, invert |-> FALSE, zoned |-> "no", zone |-> NewYork]

Std == {V(Kv(op, x)) : op \in 0 .. 6, x \in {Cell(1), Sandwich(Day(First + 1), At(3, 30, 0)), OnlyT(At(22, 30, 0))}}
\* Specifiers that all the calendars below know.
Asked ==
  {V(Spec_(sp, op, s)) : sp \in {"mon", "mday", "wday", "wcnt_mon"}, op \in {OP_EQ, OP_NE}, s \in {1, 2, 5, 12}}
  \union {V(Spec_("year", op, 2012)) : op \in {OP_EQ, OP_NE}}
Week(typ) == [i \in 1 .. 6 |-> <<OnlyD(DConv(typ, Daisy(First - 10 + 7 * i)))>>]

Lines == {<<>>} \union {<<Dates[i]>> : i \in {1, 3}} \union {<<Dates[i], Dates[j]>> : i, j \in {1, 2, 5}}
         \union {<<Dates[1], Dates[4], Dates[3]>>}

\* Of each shape; of each operator, as part of the expression or as an option,
\* with date-times with and without time; of each specifier; and of lines of
\* up to three dates in any mode.
MCJobs ==
  {Job(e, ByDate) : e \in Shapes(a, b, c, d) \union Shapes(p, q, c, r) \union Longer \union Negated}
  \union {Job(e, <<Dates, Moments, Clocks>>) : e \in Std}
  \union {[Job(V(Kv(OP_UNK, Cell(1))), <<Dates, Moments>>) EXCEPT !.opt = op] : op \in 1 .. 6}
  \union {[Job(C(a, b), ByDate) EXCEPT !.opt = OP_LT]}
  \union {Job(e, Week(typ)) : e \in Asked, typ \in {"ymd", "ymcw", "daisy"}}
  \union {Job(V(Spec_("wday", op, 6)), Week("ywd")) : op \in {OP_EQ, OP_NE}}
  \union {Job(V(Spec_("yday", op, s)), Week(typ)) : op \in {OP_EQ, OP_NE}, s \in {4, 364}, typ \in {"ymd", "daisy"}}
  \union {Job(V(Spec_(sp, op, s)), Week(typ)) : op \in {OP_EQ, OP_NE}, s \in {0, 1, 52}, sp \in {"C", "V", "W", "U"}, typ \in {"ymd", "yd", "daisy"}}
  \union {[Job(e, <<x, y>>) EXCEPT !.only = only, !.invert = invert] :
          e \in {c, C(a, b), D(N(a), d)}, x \in Lines, y \in Lines, only \in BOOLEAN, invert \in BOOLEAN}
  \union {[Job(V(Kv(OP_LE, x)), <<Moments>>) EXCEPT !.zoned = zoned] :
          x \in {Cell(1), Sandwich(Day(First + 1), At(3, 30, 0))}, zoned \in {"yes", "unknown"}}

\* What is said and not done: four alternatives, three conditions, a negated
\* disjunction, numbers that are less, a date that is not, a shared node.
MCFour == {Job(D(D(D(V(Kv(OP_EQ, Cell(0))), V(Kv(OP_EQ, Cell(1)))), V(Kv(OP_EQ, Cell(2)))), d), ByDate)}
MCThree == {Job(C(C(a, b), c), ByDate)}
MCNegated == {Job(N(D(V(Kv(OP_EQ, Cell(0))), V(Kv(OP_EQ, Cell(1))))), ByDate)}
MCReversed == {Job(V(Spec_("mday", OP_LT, 3)), ByDate)}
MCBare == {Job(N(V(Kv(OP_UNK, Cell(1)))), ByDate)}
MCShared == {Job(C(c, D(a, b)), ByDate)}

MCBase == 150173
=============================================================================
