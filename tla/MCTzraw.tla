------------------------------ MODULE MCTzraw -------------------------------
(* Zones of up to two transitions anywhere around the epoch, close together  *)
(* and far apart, and of five, which it takes for a search to go up and then *)
(* down again; with stamps on, between, before and behind the transitions.   *)
EXTENDS TzrawProofs, FiniteSets, SequencesExt

Ascending(S) == LET q == SetToSortSeq(S, <) IN [i \in 0 .. Cardinality(S) - 1 |-> q[i + 1]]

\* zif_open() has dropped transitions to the offset that is in force anyway.
Changing(tys) == \A i \in DOMAIN tys : i > 0 => tys[i] # tys[i - 1]

Offsets == {[i \in 0 .. 2 |-> i], [i \in 0 .. 2 |-> IF i = 2 THEN 0 ELSE 2 * i - 1]}

ZonesOf(S, ofs) ==
  {[ntr |-> Cardinality(S), nty |-> 3, trs |-> Ascending(S), tys |-> ty, ofs |-> of] :
     ty \in {f \in [0 .. Cardinality(S) - 1 -> 0 .. 2] : Changing(f)}, of \in ofs}

Few == {T \in SUBSET {-3, 0, 1, 6} : Cardinality(T) <= 2}

MCZones == UNION {ZonesOf(S, Offsets) : S \in Few} \cup
           {zz \in ZonesOf({-6, -3, 0, 3, 6}, Offsets) : Calm(zz) /\ zz.tys[0] = 0}
MCStampMin == -9
MCArgs == {-7, -5, -3, -2, 0, 1, 2, 4, 6, 8}
=============================================================================
