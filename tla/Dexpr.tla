-------------------------------- MODULE Dexpr --------------------------------
(***************************************************************************)
(* Date expressions, src/dexpr.c: trees of comparisons, conjunctions and   *)
(* disjunctions on a heap, how they are rewritten and how they are matched *)
(* with date-times.  Rewriting shares nodes, so trees are not values here. *)
(***************************************************************************)
EXTENDS DtOps, SequencesExt

OP_UNK == 0
OP_EQ == 1
OP_LT == 2
OP_LE == 3
OP_GT == 4
OP_GE == 5
OP_NE == 6
OP_TRUE == 7

\* Operators have three bits, all of which are turned.
Not(op) == 7 - op

\* Nodes: what a junction holds where a comparison has its operator is always
\* naught, and matches nothing.
NoKv == [sp |-> "unk", op |-> OP_UNK]
Val(kv) == [type |-> "val", nega |-> FALSE, left |-> 0, right |-> 0, kv |-> kv]
Junction(type, l, r) == [type |-> type, nega |-> FALSE, left |-> l, right |-> r, kv |-> NoKv]

-----------------------------------------------------------------------------
(* What a format specifier says of a date.  Calendars that have no answer   *)
(* say naught.                                                              *)

\* dt_get_year(), dt_get_mon(), dt_get_mday(), dt_get_wday(),
\* dt_get_wcnt_mon() and dt_get_yday().
GetYear(d) ==
  CASE d.typ \in {"ymd", "ymcw", "bizda"} -> d.y
    [] d.typ = "daisy" -> DaisyToYmd(d.n).y
    [] OTHER -> 0

GetMon(d) ==
  CASE d.typ \in {"ymd", "ymcw", "bizda"} -> d.m
    [] d.typ = "daisy" -> DaisyToYmd(d.n).m
    [] d.typ = "ywd" -> YdayGetMd(d.y, YwdGetYday(d)).m
    [] OTHER -> 0

GetMday(d) ==
  CASE d.typ = "ymd" -> d.d
    [] d.typ = "ymcw" -> YmcwGetMday(d)
    [] d.typ = "daisy" -> DaisyToYmd(d.n).d
    [] d.typ = "bizda" -> BizdaGetMday(d)
    [] OTHER -> 0

GetWday(d) ==
  CASE d.typ = "ymd" -> YmdGetWday(d)
    [] d.typ \in {"ymcw", "ywd"} -> d.w
    [] d.typ = "daisy" -> DaisyGetWday(d.n)
    [] d.typ = "bizda" -> BizdaGetWday(d)
    [] OTHER -> MIRACLEDAY

GetWcntMon(d) ==
  CASE d.typ = "ymcw" -> d.c
    [] d.typ = "ymd" -> YmdGetCount(d)
    [] d.typ = "daisy" -> YmdGetCount(DaisyToYmd(d.n))
    [] d.typ = "bizda" -> BizdaGetCount(d)
    [] d.typ = "ywd" -> (YdayGetMd(d.y, YwdGetYday(d)).d - 1) \div 7 + 1
    [] OTHER -> 0

GetYday(d) ==
  CASE d.typ = "ymd" -> YmdGetYday(d)
    [] d.typ = "ymcw" -> YmcwGetYday(d)
    [] d.typ = "daisy" -> DaisyGetYday(d.n)
    [] d.typ = "bizda" -> BizdaGetYday(d)
    [] d.typ = "ywd" -> YwdGetYday(d)
    [] OTHER -> 0

\* %C, %V, %W and %U.
Conventions == [C |-> "abs", V |-> "iso", W |-> "mon", U |-> "sun"]
Slots == {"year", "mon", "mday", "wday", "wcnt_mon", "yday"} \union DOMAIN Conventions

Slot(sp, d) ==
  CASE sp = "year" -> GetYear(d)
    [] sp = "mon" -> GetMon(d)
    [] sp = "mday" -> GetMday(d)
    [] sp = "wday" -> GetWday(d)
    [] sp = "wcnt_mon" -> GetWcntMon(d)
    [] sp = "yday" -> GetYday(d)
    [] OTHER -> GetWcntYear(d, Conventions[sp])

-----------------------------------------------------------------------------
(* Matching. *)

\* Of two things compared: -1, 0 or 1.
Holds(op, cmp) ==
  CASE op = OP_EQ -> cmp = 0
    [] op = OP_LT -> cmp < 0
    [] op = OP_LE -> cmp <= 0
    [] op = OP_GT -> cmp > 0
    [] op = OP_GE -> cmp >= 0
    [] op = OP_NE -> cmp # 0
    [] op = OP_TRUE -> TRUE
    [] OTHER -> FALSE

\* __cmp(): if the cell is just a date or just a time, so is the stream.
CellCmp(x, cell) ==
  IF OnlyDP(cell) THEN DCmp(x.d, cell.d)
  ELSE IF OnlyTP(cell) THEN TimeCmp(x.t, cell.t)
  ELSE DtCmp(x, cell)

\* What does not compare holds with no operator.
CellHolds(op, cmp) == cmp # -2 /\ Holds(IF op = OP_UNK THEN OP_EQ ELSE op, cmp)

\* dexkv_matches_p(): a date-time is compared with the one of the expression,
\* without an operator for equality; but the number of the expression with
\* the one of a date.
KvMatches(kv, x) ==
  CASE kv.sp = "std" -> CellHolds(kv.op, CellCmp(x, kv.d))
    [] kv.sp \in Slots -> Holds(kv.op, Sgn(kv.s - Slot(kv.sp, x.d)))
    [] OTHER -> FALSE

\* Down the right sides as long as they are of a type, what is found on the
\* left sides and at the end.
Members(h, type, n) ==
  LET go[m \in DOMAIN h] ==
        IF h[m].type = type THEN {h[m].left} \union go[h[m].right] ELSE {m}
  IN go[n]

\* The members of a conjunction are taken for comparisons, whatever they are.
ConjMatches(h, n, x) == \A m \in Members(h, "conj", n) : KvMatches(h[m].kv, x)

\* dexpr_matches_p(), __disj_matches_p()
DexprMatches(h, n, x) == \E m \in Members(h, "disj", n) : ConjMatches(h, m, x)

-----------------------------------------------------------------------------
(* Rewriting.  Every operator takes a heap and returns one. *)

\* __denega() of one node; its children come next.  A disjunction stays one.
DenegaNode(h, n) ==
  LET u == [h EXCEPT ![n].nega = FALSE]
  IN IF ~h[n].nega THEN h
     ELSE IF h[n].type = "val" THEN [u EXCEPT ![n].kv.op = Not(@)]
     ELSE [u EXCEPT ![n].type = "disj", ![h[n].left].nega = ~@, ![h[n].right].nega = ~@]

Moved(nodes, by) ==
  [k \in DOMAIN nodes |->
     IF nodes[k].type = "val" THEN nodes[k] ELSE [nodes[k] EXCEPT !.left = @ + by, !.right = @ + by]]

\* The nodes below one, as a heap of their own.
TreeOf(h, n) ==
  LET tree[m \in DOMAIN h] ==
        IF h[m].type = "val" THEN <<h[m]>>
        ELSE <<[h[m] EXCEPT !.left = 2, !.right = Len(tree[h[m].left]) + 2]>>
             \o Moved(tree[h[m].left], 1) \o Moved(tree[h[m].right], Len(tree[h[m].left]) + 1)
  IN tree[n]

\* dexpr_copy_j(): comparisons are shared, junctions copied with all below.
CopyJ(h, n) ==
  IF h[n].type = "val" THEN [heap |-> h, node |-> n]
  ELSE [heap |-> h \o Moved(TreeOf(h, n), Len(h)), node |-> Len(h) + 1]

\* (a|b)&(c|d) -> (a&c)|((a&d)|((b&c)|(b&d)))
Distribute2(h, n) ==
  LET l == h[n].left
      r == h[n].right
      b == h[l].right
      c == h[r].left
      d == h[r].right
      A == CopyJ(h, h[l].left)
      C == CopyJ(A.heap, c)
      B == CopyJ(C.heap, b)
      D == CopyJ(B.heap, d)
      k == Len(D.heap)
      new == <<Junction("conj", A.node, d), Junction("conj", b, C.node),
               Junction("conj", B.node, D.node), Junction("disj", k + 2, k + 3)>>
      g == D.heap \o new
  IN [g EXCEPT ![n].type = "disj", ![l].type = "conj", ![l].right = c,
               ![r].type = "disj", ![r].left = k + 1, ![r].right = k + 4]

\* Mutant: after the sides were swapped the old right one is reused.
Distribute1Unswapped(h, n) ==
  LET swap == h[h[n].left].type = "disj"
      a == IF swap THEN h[n].right ELSE h[n].left
      r == IF swap THEN h[n].left ELSE h[n].right
      g == Append(h, Junction("conj", a, h[r].left))
  IN [g EXCEPT ![n].type = "disj", ![n].left = Len(g), ![r].type = "conj", ![r].left = a]

\* a&(b|c) -> (a&b)|(a&c), and (a|b)&c -> (c&a)|(c&b)
Distribute1(h, n) ==
  LET swap == h[h[n].left].type = "disj"
      a == IF swap THEN h[n].right ELSE h[n].left
      r == IF swap THEN h[n].left ELSE h[n].right
      g == Append(h, Junction("conj", a, h[r].left))
  IN [g EXCEPT ![n].type = "disj", ![n].left = Len(g), ![n].right = r, ![r].type = "conj", ![r].left = a]

\* What __dnf() does with a node on its way down.
Distribute(h, n) ==
  LET sides == {m \in {h[n].left, h[n].right} : h[m].type = "disj"}
  IN IF h[n].type # "conj" \/ sides = {} THEN h
     ELSE IF sides = {h[n].left, h[n].right} THEN Distribute2(h, n)
     ELSE Distribute1(h, n)

\* And on its way up: (a|b)|c -> a|(b|c), (a|b)|(c|d) -> a|(b|(c|d)), of
\* conjunctions too.
Rotate(h, n) ==
  LET i == h[n].left
      j == h[n].right
      b == h[i].right
      g == [h EXCEPT ![n].left = h[i].left, ![n].right = i]
  IN IF h[i].type # "disj" THEN h
     ELSE [g EXCEPT ![i].left = b, ![i].right = j]
=============================================================================
