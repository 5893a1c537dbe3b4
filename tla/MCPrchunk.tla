----------------------------- MODULE MCPrchunk ------------------------------
(* Command lines small enough for TLC to try every one of them. *)
EXTENDS PrchunkStream, PrchunkProofs, SequencesExt

MCChar == {"x"}

Plain(d) == [kind |-> "file", data |-> d]
Failing == {[kind |-> "dir", data |-> << >>], [kind |-> "noent", data |-> << >>]}

Texts(n) == UNION {[1 .. k -> {"x", "NL", "CR"}] : k \in 0 .. n}

\* Files whose last line is terminated.
TermFiles(n) == {Plain(d) : d \in {t \in Texts(n) : t = << >> \/ Last(t) = "NL"}}

\* Files with fewer than MAX_NLINES newlines, terminated or not.
OneFillFiles(n) == {Plain(d) : d \in {t \in Texts(n) : Cardinality({i \in DOMAIN t : t[i] = "NL"}) < MAX_NLINES}}

\* One file that fits one fill, or several of which only the first may end in
\* an unterminated line: these the reader gets right.
Good ==
  {<<f>> : f \in OneFillFiles(4) \cup TermFiles(5)}
    \cup {<<f, g>> : f \in OneFillFiles(2) \cup Failing, g \in TermFiles(3) \cup Failing}
    \cup {<<f, g, h>> : f \in OneFillFiles(1), g \in Failing, h \in TermFiles(2)}

\* Any text at all, alone or behind another one.
AnyOne == {<<Plain(t)>> : t \in Texts(4)}
AnyTwo == {<<Plain(t), Plain(u)>> : t \in Texts(2), u \in Texts(2)}
AnyThree == {<<Plain(t), Plain(u), Plain(v)>> : t \in Texts(1), u \in Texts(1), v \in Texts(1)}
Anything ==
  Good \cup AnyOne \cup AnyTwo
    \cup {<<Plain(t), g, Plain(u)>> :
            t \in {<<"x", "NL", "x", "CR", "NL", "x">>}, g \in Failing, u \in Texts(1)}
=============================================================================
