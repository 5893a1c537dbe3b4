-------------------------- MODULE DsortPipeProofs ---------------------------
(***************************************************************************)
(* For every input, every sort and every size of pipe: exit status 0 of    *)
(* dsort means that everything came out, and nothing comes out after it.   *)
(***************************************************************************)
EXTENDS DsortPipe, SequenceTheorems, TLAPS

Typed ==
  /\ input \in Seq(Lines \cup {Missing}) /\ todo \in Seq(Lines \cup {Missing})
  /\ A \in Seq(Lines) /\ B \in Seq(Lines)
  /\ heap \in Seq(Lines) /\ emit \in Seq(Lines) /\ out \in Seq(Lines)
  /\ Len(heap) + Len(B) + Len(todo) <= Most

\* Where the processes can be at one time.
Places ==
  /\ pc["dsort"] \in {"spawn_cut", "vfork_cut", "spawn_sort", "vfork_sort", "feed",
                      "wait_sort", "wait_cut", "done", "killed"}
  /\ pc["sort"] \in {"none", "child", "read", "write", "dead"}
  /\ pc["cut"] \in {"none", "child", "read", "dead"}
  /\ pc["dsort"] \in {"spawn_cut", "vfork_cut", "spawn_sort"} => pc["sort"] = "none"
  /\ pc["dsort"] = "spawn_cut" => pc["cut"] = "none"
  /\ pc["dsort"] \in {"vfork_cut", "spawn_sort", "vfork_sort", "feed", "wait_sort", "wait_cut"} =>
       pc["cut"] # "none"
  /\ pc["dsort"] \in {"vfork_sort", "feed", "wait_sort", "wait_cut"} => pc["sort"] # "none"
  /\ pc["sort"] # "none" => pc["cut"] # "none"
  /\ pc["dsort"] = "wait_cut" => pc["sort"] = "dead"

\* The descriptors that keep somebody from seeing an end of file, or from
\* writing to nobody.
Descriptors ==
  /\ pc["dsort"] \in {"vfork_cut", "spawn_sort", "vfork_sort"} => "Aw" \in fd["dsort"]
  /\ pc["dsort"] \in {"vfork_sort", "feed"} => "Bw" \in fd["dsort"]
  /\ pc["sort"] \in {"child", "read", "write"} => "Aw" \in fd["sort"]
  /\ pc["cut"] \in {"child", "read"} => "Ar" \in fd["cut"]

Unread == rc = 0 => heap \o (B \o todo) = input

Unsorted == pc["sort"] \in {"none", "child", "read"} => A = <<>> /\ emit = <<>> /\ out = <<>>

Conserved ==
  /\ pc["sort"] = "write" \/ (pc["sort"] = "dead" /\ st["sort"] = 0) =>
       out \o (A \o emit) = Sorted(heap) /\ B = <<>> /\ (todo = <<>> \/ pc["dsort"] = "killed")
  /\ pc["sort"] = "dead" /\ st["sort"] = 0 => emit = <<>>

CutLast ==
  pc["cut"] = "dead" /\ st["cut"] = 0 =>
    /\ A = <<>> /\ pc["sort"] \in {"none", "dead"}
    /\ pc["dsort"] \in {"feed", "wait_sort", "wait_cut", "done", "killed"}

Signals ==
  /\ pc["sort"] # "dead" => st["sort"] = 0
  /\ pc["cut"] # "dead" => st["cut"] = 0
  /\ pc["sort"] = "dead" /\ st["sort"] = Signal =>
       <<"kill", "sort">> \in mishaps \/ (pc["cut"] = "dead" /\ st["cut"] # 0)
  /\ pc["cut"] = "dead" /\ st["cut"] = Signal => <<"kill", "cut">> \in mishaps

Waited ==
  /\ pc["dsort"] \in {"wait_sort", "wait_cut"} => todo = <<>>
  /\ pc["dsort"] = "wait_cut" /\ rc = 0 => st["sort"] \in {0, Signal}
  /\ pc["dsort"] = "done" /\ <<"spawn", "cut">> \notin mishaps /\ <<"spawn", "sort">> \notin mishaps =>
       /\ todo = <<>> /\ pc["sort"] = "dead" /\ pc["cut"] = "dead"
       /\ rc = 0 => st["sort"] \in {0, Signal} /\ st["cut"] \in {0, Signal}
  /\ <<"spawn", "cut">> \in mishaps \/ <<"spawn", "sort">> \in mishaps =>
       pc["dsort"] = "done" /\ pc["sort"] = "none"
  /\ pc["dsort"] = "done" => pc["cut"] \in {"none", "dead"} \/ (A = <<>> /\ pc["sort"] = "none")

IInv ==
  /\ TypeOK /\ Typed /\ Places /\ Descriptors
  /\ Unread /\ Unsorted /\ Conserved /\ CutLast /\ Signals /\ Waited
-----------------------------------------------------------------------------
(* The pieces a step is made of. *)

PCs == {"none", "child", "read", "write", "dead", "spawn_cut", "vfork_cut", "spawn_sort",
        "vfork_sort", "feed", "wait_sort", "wait_cut", "done", "killed"}

SpawnMishaps == {<<"spawn", "cut">>, <<"spawn", "sort">>}

\* The processes.
LEMMA Procs == Proc = {"dsort", "sort", "cut"} /\ Child = {"sort", "cut"}
  BY DEF Proc, Child

\* One process goes on, the others stay where they are.
LEMMA GotoFacts ==
  ASSUME TypeOK, NEW p \in Proc, NEW where \in PCs, Goto(p, where)
  PROVE  /\ pc' \in [Proc -> PCs]
         /\ pc'[p] = where /\ \A q \in Proc \ {p} : pc'[q] = pc[q]
  BY DEF TypeOK, PCs, Goto

\* Exit codes.
LEMMA ExitFacts ==
  ASSUME TypeOK, NEW p \in Proc, NEW where \in PCs, Exits(p, where)
  PROVE  /\ pc' \in [Proc -> PCs] /\ fd' \in [Proc -> SUBSET Ends]
         /\ pc'[p] = where /\ \A q \in Proc \ {p} : pc'[q] = pc[q]
         /\ fd'[p] = {} /\ \A q \in Proc \ {p} : fd'[q] = fd[q]
  <1>1. Goto(p, where) /\ fd' = [fd EXCEPT ![p] = {}]
    BY DEF Exits
  <1>2. fd \in [Proc -> SUBSET Ends]
    BY DEF TypeOK
  <1> QED BY <1>1, <1>2, GotoFacts

\* Where nothing moves in the pipes.
LEMMA Quiet ==
  ASSUME IInv, UNCHANGED <<input, todo, data>>, rc' = 0 => rc = 0
  PROVE  Typed' /\ Unread'
  BY DEF IInv, Typed, Unread, data

\* What is taken from one sequence and put behind the other is in between.
LEMMA Passed ==
  ASSUME NEW S, NEW s \in Seq(S), NEW u \in Seq(S), u # <<>>
  PROVE  Append(s, Head(u)) \o Tail(u) = s \o u
  <1>1. /\ Head(u) \in S /\ Tail(u) \in Seq(S) /\ Len(Tail(u)) = Len(u) - 1 /\ Len(u) \in Nat
        /\ \A i \in 1 .. Len(Tail(u)) : Tail(u)[i] = u[i + 1]
    BY HeadTailProperties, LenProperties
  <1>2. /\ Append(s, Head(u)) \in Seq(S) /\ Len(Append(s, Head(u))) = Len(s) + 1 /\ Len(s) \in Nat
        /\ \A i \in 1 .. Len(s) : Append(s, Head(u))[i] = s[i]
        /\ Append(s, Head(u))[Len(s) + 1] = Head(u)
    BY <1>1, AppendProperties, LenProperties
  <1>3. /\ s \o u \in Seq(S) /\ Len(s \o u) = Len(s) + Len(u)
        /\ \A i \in 1 .. Len(s) + Len(u) : (s \o u)[i] = IF i <= Len(s) THEN s[i] ELSE u[i - Len(s)]
    BY ConcatProperties
  <1>4. /\ Append(s, Head(u)) \o Tail(u) \in Seq(S)
        /\ Len(Append(s, Head(u)) \o Tail(u)) = Len(s) + 1 + (Len(u) - 1)
        /\ \A i \in 1 .. Len(s) + 1 + (Len(u) - 1) :
             (Append(s, Head(u)) \o Tail(u))[i] =
               IF i <= Len(s) + 1 THEN Append(s, Head(u))[i] ELSE Tail(u)[i - (Len(s) + 1)]
    BY <1>1, <1>2, ConcatProperties
  <1>5. Head(u) = u[1]
    OBVIOUS
  <1>6. ASSUME NEW i \in 1 .. Len(s \o u)
        PROVE  (Append(s, Head(u)) \o Tail(u))[i] = (s \o u)[i]
    <2>1. CASE i <= Len(s)
      BY <1>1, <1>2, <1>3, <1>4, <2>1
    <2>2. CASE i = Len(s) + 1
      BY <1>1, <1>2, <1>3, <1>4, <1>5, <2>2
    <2>3. CASE i > Len(s) + 1
      <3>1. i - (Len(s) + 1) \in 1 .. Len(Tail(u)) /\ i - (Len(s) + 1) + 1 = i - Len(s)
        BY <1>1, <1>2, <1>3, <2>3
      <3> QED BY <1>1, <1>2, <1>3, <1>4, <2>3, <3>1
    <2> QED BY <1>2, <1>3, <2>1, <2>2, <2>3
  <1>7. Len(s \o u) = Len(Append(s, Head(u)) \o Tail(u))
    BY <1>1, <1>2, <1>3, <1>4
  <1> QED BY <1>3, <1>4, <1>6, <1>7, SeqEqual

\* Concatenation is associative.
LEMMA Regrouped == \A S : \A s, u, v \in Seq(S) : s \o (u \o v) = (s \o u) \o v
  BY ConcatAssociative

\* The invariant holds at the start.
LEMMA InitOK == Init => IInv
  <1> SUFFICES ASSUME Init PROVE IInv
    OBVIOUS
  <1>1. TypeOK
    BY CapType, EmptySeq DEF Init, TypeOK, Proc, Child, Ends
  <1>2. input \in Seq(Lines \cup {Missing}) /\ Len(input) <= Most /\ Len(input) \in Nat
    BY InputsType, LenProperties DEF Init
  <1>3. Typed
    <2>1. <<>> \in Seq(Lines) /\ Len(<<>>) = 0
      BY EmptySeq
    <2> QED BY <1>2, <2>1 DEF Init, Typed
  <1>4. Unread
    BY <1>2, ConcatEmptySeq DEF Init, Unread
  <1>5. pc["dsort"] = "spawn_cut" /\ pc["sort"] = "none" /\ pc["cut"] = "none" /\ A = <<>> /\ emit = <<>> /\ out = <<>>
    BY Procs DEF Init
  <1>6. st["sort"] = 0 /\ st["cut"] = 0 /\ mishaps = {}
    BY Procs DEF Init
  <1>7. Places /\ Descriptors /\ Unsorted /\ Conserved /\ CutLast /\ Signals /\ Waited
    BY <1>5, <1>6 DEF Places, Descriptors, Unsorted, Conserved, CutLast, Signals, Waited
  <1> QED BY <1>1, <1>3, <1>4, <1>7 DEF IInv

-----------------------------------------------------------------------------
(* The steps that move no line. *)

\* SpawnCut keeps the invariant.
LEMMA SpawnCutOK == ASSUME IInv, SpawnCut PROVE IInv'
  <1>1. TypeOK /\ Typed /\ Places /\ Descriptors /\ Unread /\ Unsorted /\ Conserved /\ CutLast /\ Signals /\ Waited
    BY DEF IInv
  <1>2. UNCHANGED <<input, todo, A, B, heap, emit, out>> /\ rc' \in {0, 1, 2} /\ (rc' = 0 => rc = 0)
    BY <1>1, Procs DEF SpawnCut, Ends, data, TypeOK, Status, WIFEXITED
  <1>3. Typed' /\ Unread'
    BY <1>2, Quiet DEF data
  <1>4. /\ pc["dsort"] = "spawn_cut" /\ st' = st /\ rc' = rc /\ mishaps' = mishaps
        /\ pc' \in [Proc -> PCs] /\ fd' \in [Proc -> SUBSET Ends]
        /\ pc'["dsort"] = "vfork_cut" /\ pc'["sort"] = pc["sort"] /\ pc'["cut"] = "child"
        /\ fd'["dsort"] = {"Ar", "Aw"} /\ fd'["cut"] = {"Ar", "Aw"} /\ fd'["sort"] = fd["sort"]
    <2>1. pc \in [Proc -> PCs] /\ fd \in [Proc -> SUBSET Ends]
      BY <1>1 DEF TypeOK, PCs
    <2>2. /\ pc' = [pc EXCEPT !["dsort"] = "vfork_cut", !["cut"] = "child"]
          /\ fd' = [fd EXCEPT !["dsort"] = {"Ar", "Aw"}, !["cut"] = {"Ar", "Aw"}]
          /\ pc["dsort"] = "spawn_cut" /\ st' = st /\ rc' = rc /\ mishaps' = mishaps
      BY DEF SpawnCut
    <2>3. /\ pc' \in [Proc -> PCs]
          /\ pc'["dsort"] = "vfork_cut" /\ pc'["sort"] = pc["sort"] /\ pc'["cut"] = "child"
      BY <2>1, <2>2, Procs DEF PCs
    <2>4. /\ fd' \in [Proc -> SUBSET Ends]
          /\ fd'["dsort"] = {"Ar", "Aw"} /\ fd'["cut"] = {"Ar", "Aw"} /\ fd'["sort"] = fd["sort"]
      BY <2>1, <2>2, Procs DEF Ends
    <2> QED BY <2>2, <2>3, <2>4
  <1>5. TypeOK'
    BY <1>1, <1>2, <1>4 DEF TypeOK, PCs
  <1>6. Places' /\ Descriptors'
    BY <1>1, <1>4 DEF Places, Descriptors
  <1>7. Unsorted' /\ Conserved'
    BY <1>1, <1>2, <1>4 DEF Unsorted, Conserved, Places, Signal
  <1>8. CutLast' /\ Signals' /\ Waited'
    BY <1>1, <1>2, <1>4 DEF CutLast, Signals, Waited, Places, Descriptors, Unsorted, Signal, SpawnMishaps
  <1> QED BY <1>3, <1>5, <1>6, <1>7, <1>8 DEF IInv

\* ParentOfCut keeps the invariant.
LEMMA ParentOfCutOK == ASSUME IInv, ParentOfCut PROVE IInv'
  <1>1. TypeOK /\ Typed /\ Places /\ Descriptors /\ Unread /\ Unsorted /\ Conserved /\ CutLast /\ Signals /\ Waited
    BY DEF IInv
  <1>2. UNCHANGED <<input, todo, A, B, heap, emit, out>> /\ rc' \in {0, 1, 2} /\ (rc' = 0 => rc = 0)
    BY <1>1, Procs DEF ParentOfCut, data, TypeOK, Status, WIFEXITED
  <1>3. Typed' /\ Unread'
    BY <1>2, Quiet DEF data
  <1>4. /\ pc["dsort"] = "vfork_cut" /\ pc["cut"] # "child" /\ st' = st /\ rc' = rc /\ mishaps' = mishaps
        /\ pc' \in [Proc -> PCs] /\ fd' \in [Proc -> SUBSET Ends]
        /\ pc'["dsort"] = "spawn_sort" /\ pc'["sort"] = pc["sort"] /\ pc'["cut"] = pc["cut"]
        /\ fd'["dsort"] = fd["dsort"] \ {"Ar"} /\ fd'["cut"] = fd["cut"] /\ fd'["sort"] = fd["sort"]
    BY <1>1, Procs, GotoFacts, ExitFacts, ZenonT(40) DEF ParentOfCut, TypeOK, PCs
  <1>5. TypeOK'
    BY <1>1, <1>2, <1>4 DEF TypeOK, PCs
  <1>6. Places' /\ Descriptors'
    BY <1>1, <1>4 DEF Places, Descriptors
  <1>7. Unsorted' /\ Conserved'
    BY <1>1, <1>2, <1>4 DEF Unsorted, Conserved, Places, Signal
  <1>8. CutLast' /\ Signals' /\ Waited'
    BY <1>1, <1>2, <1>4 DEF CutLast, Signals, Waited, Places, Descriptors, Unsorted, Signal, SpawnMishaps
  <1> QED BY <1>3, <1>5, <1>6, <1>7, <1>8 DEF IInv

\* SpawnSort keeps the invariant.
LEMMA SpawnSortOK == ASSUME IInv, SpawnSort PROVE IInv'
  <1>1. TypeOK /\ Typed /\ Places /\ Descriptors /\ Unread /\ Unsorted /\ Conserved /\ CutLast /\ Signals /\ Waited
    BY DEF IInv
  <1>2. UNCHANGED <<input, todo, A, B, heap, emit, out>> /\ rc' \in {0, 1, 2} /\ (rc' = 0 => rc = 0)
    BY <1>1, Procs DEF SpawnSort, Ends, data, TypeOK, Status, WIFEXITED
  <1>3. Typed' /\ Unread'
    BY <1>2, Quiet DEF data
  <1>4. /\ pc["dsort"] = "spawn_sort" /\ st' = st /\ rc' = rc /\ mishaps' = mishaps
        /\ pc' \in [Proc -> PCs] /\ fd' \in [Proc -> SUBSET Ends]
        /\ pc'["dsort"] = "vfork_sort" /\ pc'["sort"] = "child" /\ pc'["cut"] = pc["cut"]
        /\ fd'["dsort"] = fd["dsort"] \cup {"Br", "Bw"} /\ fd'["sort"] = fd["dsort"] \cup {"Br", "Bw"} /\ fd'["cut"] = fd["cut"]
    <2>1. pc \in [Proc -> PCs] /\ fd \in [Proc -> SUBSET Ends]
      BY <1>1 DEF TypeOK, PCs
    <2> QED BY <2>1, Procs DEF SpawnSort, Ends, PCs
  <1>5. TypeOK'
    BY <1>1, <1>2, <1>4 DEF TypeOK, PCs
  <1>6. Places' /\ Descriptors'
    BY <1>1, <1>4 DEF Places, Descriptors
  <1>7. Unsorted' /\ Conserved'
    BY <1>1, <1>2, <1>4 DEF Unsorted, Conserved, Places, Signal
  <1>8. CutLast' /\ Signals' /\ Waited'
    BY <1>1, <1>2, <1>4 DEF CutLast, Signals, Waited, Places, Descriptors, Unsorted, Signal, SpawnMishaps
  <1> QED BY <1>3, <1>5, <1>6, <1>7, <1>8 DEF IInv

\* ParentOfSort keeps the invariant.
LEMMA ParentOfSortOK == ASSUME IInv, ParentOfSort PROVE IInv'
  <1>1. TypeOK /\ Typed /\ Places /\ Descriptors /\ Unread /\ Unsorted /\ Conserved /\ CutLast /\ Signals /\ Waited
    BY DEF IInv
  <1>2. UNCHANGED <<input, todo, A, B, heap, emit, out>> /\ rc' \in {0, 1, 2} /\ (rc' = 0 => rc = 0)
    BY <1>1, Procs DEF ParentOfSort, data, TypeOK, Status, WIFEXITED
  <1>3. Typed' /\ Unread'
    BY <1>2, Quiet DEF data
  <1>4. /\ pc["dsort"] = "vfork_sort" /\ pc["sort"] # "child" /\ st' = st /\ rc' = rc /\ mishaps' = mishaps
        /\ pc' \in [Proc -> PCs] /\ fd' \in [Proc -> SUBSET Ends]
        /\ pc'["dsort"] = "feed" /\ pc'["sort"] = pc["sort"] /\ pc'["cut"] = pc["cut"]
        /\ fd'["dsort"] = fd["dsort"] \ {"Br", "Aw"} /\ fd'["cut"] = fd["cut"] /\ fd'["sort"] = fd["sort"]
    BY <1>1, Procs, GotoFacts, ExitFacts, ZenonT(40) DEF ParentOfSort, TypeOK, PCs
  <1>5. TypeOK'
    BY <1>1, <1>2, <1>4 DEF TypeOK, PCs
  <1>6. Places' /\ Descriptors'
    BY <1>1, <1>4 DEF Places, Descriptors
  <1>7. Unsorted' /\ Conserved'
    BY <1>1, <1>2, <1>4 DEF Unsorted, Conserved, Places, Signal
  <1>8. CutLast' /\ Signals' /\ Waited'
    BY <1>1, <1>2, <1>4 DEF CutLast, Signals, Waited, Places, Descriptors, Unsorted, Signal, SpawnMishaps
  <1> QED BY <1>3, <1>5, <1>6, <1>7, <1>8 DEF IInv

\* CloseOutfd keeps the invariant.
LEMMA CloseOutfdOK == ASSUME IInv, CloseOutfd PROVE IInv'
  <1>1. TypeOK /\ Typed /\ Places /\ Descriptors /\ Unread /\ Unsorted /\ Conserved /\ CutLast /\ Signals /\ Waited
    BY DEF IInv
  <1>2. UNCHANGED <<input, todo, A, B, heap, emit, out>> /\ rc' \in {0, 1, 2} /\ (rc' = 0 => rc = 0)
    BY <1>1, Procs DEF CloseOutfd, data, TypeOK, Status, WIFEXITED
  <1>3. Typed' /\ Unread'
    BY <1>2, Quiet DEF data
  <1>4. /\ pc["dsort"] = "feed" /\ todo = <<>> /\ st' = st /\ rc' = rc /\ mishaps' = mishaps
        /\ pc' \in [Proc -> PCs] /\ fd' \in [Proc -> SUBSET Ends]
        /\ pc'["dsort"] = "wait_sort" /\ pc'["sort"] = pc["sort"] /\ pc'["cut"] = pc["cut"]
        /\ fd'["dsort"] = fd["dsort"] \ {"Bw"} /\ fd'["cut"] = fd["cut"] /\ fd'["sort"] = fd["sort"]
    BY <1>1, Procs, GotoFacts, ExitFacts, ZenonT(40) DEF CloseOutfd, TypeOK, PCs
  <1>5. TypeOK'
    BY <1>1, <1>2, <1>4 DEF TypeOK, PCs
  <1>6. Places' /\ Descriptors'
    BY <1>1, <1>4 DEF Places, Descriptors
  <1>7. Unsorted' /\ Conserved'
    BY <1>1, <1>2, <1>4 DEF Unsorted, Conserved, Places, Signal
  <1>8. CutLast' /\ Signals' /\ Waited'
    BY <1>1, <1>2, <1>4 DEF CutLast, Signals, Waited, Places, Descriptors, Unsorted, Signal, SpawnMishaps
  <1> QED BY <1>3, <1>5, <1>6, <1>7, <1>8 DEF IInv

\* WaitSort keeps the invariant.
LEMMA WaitSortOK == ASSUME IInv, WaitSort PROVE IInv'
  <1>1. TypeOK /\ Typed /\ Places /\ Descriptors /\ Unread /\ Unsorted /\ Conserved /\ CutLast /\ Signals /\ Waited
    BY DEF IInv
  <1>2. UNCHANGED <<input, todo, A, B, heap, emit, out>> /\ rc' \in {0, 1, 2} /\ (rc' = 0 => rc = 0)
    BY <1>1, Procs DEF WaitSort, Status, WIFEXITED, Signal, data, TypeOK, Status, WIFEXITED
  <1>3. Typed' /\ Unread'
    BY <1>2, Quiet DEF data
  <1>4. /\ pc["dsort"] = "wait_sort" /\ pc["sort"] = "dead" /\ st' = st /\ mishaps' = mishaps
        /\ rc' = 0 => st["sort"] \in {0, Signal}
        /\ pc' \in [Proc -> PCs] /\ fd' \in [Proc -> SUBSET Ends]
        /\ pc'["dsort"] = "wait_cut" /\ pc'["sort"] = pc["sort"] /\ pc'["cut"] = pc["cut"]
        /\ fd' = fd
    BY <1>1, Procs, GotoFacts, ExitFacts DEF WaitSort, Status, WIFEXITED, Signal, TypeOK, PCs
  <1>5. TypeOK'
    BY <1>1, <1>2, <1>4 DEF TypeOK, PCs
  <1>6. Places' /\ Descriptors'
    BY <1>1, <1>4 DEF Places, Descriptors
  <1>7. Unsorted' /\ Conserved'
    BY <1>1, <1>2, <1>4 DEF Unsorted, Conserved, Places, Signal
  <1>8. CutLast' /\ Signals' /\ Waited'
    BY <1>1, <1>2, <1>4 DEF CutLast, Signals, Waited, Places, Descriptors, Unsorted, Signal, SpawnMishaps
  <1> QED BY <1>3, <1>5, <1>6, <1>7, <1>8 DEF IInv

\* WaitCut keeps the invariant.
LEMMA WaitCutOK == ASSUME IInv, WaitCut PROVE IInv'
  <1>1. TypeOK /\ Typed /\ Places /\ Descriptors /\ Unread /\ Unsorted /\ Conserved /\ CutLast /\ Signals /\ Waited
    BY DEF IInv
  <1>2. UNCHANGED <<input, todo, A, B, heap, emit, out>> /\ rc' \in {0, 1, 2} /\ (rc' = 0 => rc = 0)
    BY <1>1, Procs DEF WaitCut, Status, WIFEXITED, Signal, data, TypeOK, Status, WIFEXITED
  <1>3. Typed' /\ Unread'
    BY <1>2, Quiet DEF data
  <1>4. /\ pc["dsort"] = "wait_cut" /\ pc["cut"] = "dead" /\ st' = st /\ mishaps' = mishaps
        /\ rc' = 0 => rc = 0 /\ st["cut"] \in {0, Signal}
        /\ pc' \in [Proc -> PCs] /\ fd' \in [Proc -> SUBSET Ends]
        /\ pc'["dsort"] = "done" /\ pc'["sort"] = pc["sort"] /\ pc'["cut"] = pc["cut"]
        /\ fd'["dsort"] = {} /\ fd'["cut"] = fd["cut"] /\ fd'["sort"] = fd["sort"]
    BY <1>1, Procs, GotoFacts, ExitFacts, ZenonT(40) DEF WaitCut, Status, WIFEXITED, Signal, TypeOK, PCs
  <1>5. TypeOK'
    BY <1>1, <1>2, <1>4 DEF TypeOK, PCs
  <1>6. Places' /\ Descriptors'
    BY <1>1, <1>4 DEF Places, Descriptors
  <1>7. Unsorted' /\ Conserved'
    BY <1>1, <1>2, <1>4 DEF Unsorted, Conserved, Places, Signal
  <1>8. CutLast' /\ Signals' /\ Waited'
    BY <1>1, <1>2, <1>4 DEF CutLast, Signals, Waited, Places, Descriptors, Unsorted, Signal, SpawnMishaps
  <1> QED BY <1>3, <1>5, <1>6, <1>7, <1>8 DEF IInv

\* DsortKilled keeps the invariant.
LEMMA DsortKilledOK == ASSUME IInv, FeedKilled \/ KillDsort PROVE IInv'
  <1>1. TypeOK /\ Typed /\ Places /\ Descriptors /\ Unread /\ Unsorted /\ Conserved /\ CutLast /\ Signals /\ Waited
    BY DEF IInv
  <1>2. UNCHANGED <<input, todo, A, B, heap, emit, out>> /\ rc' \in {0, 1, 2} /\ (rc' = 0 => rc = 0)
    BY <1>1, Procs DEF FeedKilled, KillDsort, Wrong, SpawnMishaps, data, TypeOK, Status, WIFEXITED
  <1>3. Typed' /\ Unread'
    BY <1>2, Quiet DEF data
  <1>4. /\ pc["dsort"] \in {"spawn_sort", "feed", "wait_sort", "wait_cut"}
        /\ st' = st /\ rc' = rc /\ mishaps \subseteq mishaps' /\ mishaps' \cap SpawnMishaps = mishaps \cap SpawnMishaps
        /\ pc' \in [Proc -> PCs] /\ fd' \in [Proc -> SUBSET Ends]
        /\ pc'["dsort"] = "killed" /\ pc'["sort"] = pc["sort"] /\ pc'["cut"] = pc["cut"]
        /\ fd'["dsort"] = {} /\ fd'["cut"] = fd["cut"] /\ fd'["sort"] = fd["sort"]
    <2>1. Exits("dsort", "killed") /\ st' = st /\ rc' = rc
      BY DEF FeedKilled, KillDsort
    <2>2. /\ pc' \in [Proc -> PCs] /\ fd' \in [Proc -> SUBSET Ends]
          /\ pc'["dsort"] = "killed" /\ pc'["sort"] = pc["sort"] /\ pc'["cut"] = pc["cut"]
          /\ fd'["dsort"] = {} /\ fd'["cut"] = fd["cut"] /\ fd'["sort"] = fd["sort"]
      <3>1. "dsort" \in Proc /\ "sort" \in Proc \ {"dsort"} /\ "cut" \in Proc \ {"dsort"} /\ "killed" \in PCs
        BY Procs DEF PCs
      <3> QED BY <1>1, <2>1, <3>1, ExitFacts
    <2>3. pc["dsort"] \in {"spawn_sort", "feed", "wait_sort", "wait_cut"}
      BY DEF FeedKilled, KillDsort
    <2>4. mishaps \subseteq mishaps' /\ mishaps' \cap SpawnMishaps = mishaps \cap SpawnMishaps
      BY DEF FeedKilled, KillDsort, Wrong, SpawnMishaps
    <2> QED BY <2>1, <2>2, <2>3, <2>4
  <1>5. TypeOK'
    BY <1>1, <1>2, <1>4 DEF TypeOK, PCs
  <1>6. Places' /\ Descriptors'
    BY <1>1, <1>4 DEF Places, Descriptors
  <1>7. Unsorted' /\ Conserved'
    BY <1>1, <1>2, <1>4 DEF Unsorted, Conserved, Places, Signal
  <1>8. CutLast' /\ Signals' /\ Waited'
    BY <1>1, <1>2, <1>4 DEF CutLast, Signals, Waited, Places, Descriptors, Unsorted, Signal, SpawnMishaps
  <1> QED BY <1>3, <1>5, <1>6, <1>7, <1>8 DEF IInv

\* SpawnFails keeps the invariant.
LEMMA SpawnFailsOK == ASSUME IInv, NEW p \in Child, SpawnFails(p) PROVE IInv'
  <1>1. TypeOK /\ Typed /\ Places /\ Descriptors /\ Unread /\ Unsorted /\ Conserved /\ CutLast /\ Signals /\ Waited
    BY DEF IInv
  <1>2. UNCHANGED <<input, todo, A, B, heap, emit, out>> /\ rc' \in {0, 1, 2} /\ (rc' = 0 => rc = 0)
    BY <1>1, Procs DEF SpawnFails, Wrong, data, TypeOK, Status, WIFEXITED
  <1>3. Typed' /\ Unread'
    BY <1>2, Quiet DEF data
  <1>4. /\ pc["dsort"] \in {"spawn_cut", "spawn_sort"} /\ p \in {"cut", "sort"}
        /\ pc["dsort"] = "spawn_cut" \/ p = "sort"
        /\ st' = st /\ rc' = rc /\ mishaps' = mishaps \cup {<<"spawn", p>>}
        /\ pc' \in [Proc -> PCs] /\ fd' \in [Proc -> SUBSET Ends]
        /\ pc'["dsort"] = "done" /\ pc'["sort"] = pc["sort"] /\ pc'["cut"] = pc["cut"]
        /\ fd'["dsort"] = {} /\ fd'["cut"] = fd["cut"] /\ fd'["sort"] = fd["sort"]
    BY <1>1, Procs, GotoFacts, ExitFacts, ZenonT(40) DEF SpawnFails, Wrong, TypeOK, PCs
  <1>5. TypeOK'
    BY <1>1, <1>2, <1>4 DEF TypeOK, PCs
  <1>6. Places' /\ Descriptors'
    BY <1>1, <1>4 DEF Places, Descriptors
  <1>7. Unsorted' /\ Conserved'
    BY <1>1, <1>2, <1>4 DEF Unsorted, Conserved, Places, Signal
  <1>8. CutLast' /\ Signals' /\ Waited'
    BY <1>1, <1>2, <1>4 DEF CutLast, Signals, Waited, Places, Descriptors, Unsorted, Signal, SpawnMishaps
  <1> QED BY <1>3, <1>5, <1>6, <1>7, <1>8 DEF IInv

\* SortExec keeps the invariant.
LEMMA SortExecOK == ASSUME IInv, ChildExec("sort") PROVE IInv'
  <1>1. TypeOK /\ Typed /\ Places /\ Descriptors /\ Unread /\ Unsorted /\ Conserved /\ CutLast /\ Signals /\ Waited
    BY DEF IInv
  <1>2. UNCHANGED <<input, todo, A, B, heap, emit, out>> /\ rc' \in {0, 1, 2} /\ (rc' = 0 => rc = 0)
    BY <1>1, Procs DEF ChildExec, data, TypeOK, Status, WIFEXITED
  <1>3. Typed' /\ Unread'
    BY <1>2, Quiet DEF data
  <1>4. /\ pc["sort"] = "child" /\ st' = st /\ rc' = rc /\ mishaps' = mishaps
        /\ pc' \in [Proc -> PCs] /\ fd' \in [Proc -> SUBSET Ends]
        /\ pc'["dsort"] = pc["dsort"] /\ pc'["sort"] = "read" /\ pc'["cut"] = pc["cut"]
        /\ fd'["sort"] = fd["sort"] \ {"Bw"} /\ fd'["cut"] = fd["cut"] /\ fd'["dsort"] = fd["dsort"]
    BY <1>1, Procs, GotoFacts, ExitFacts, ZenonT(40) DEF ChildExec, TypeOK, PCs
  <1>5. TypeOK'
    BY <1>1, <1>2, <1>4 DEF TypeOK, PCs
  <1>6. Places' /\ Descriptors'
    BY <1>1, <1>4 DEF Places, Descriptors
  <1>7. Unsorted' /\ Conserved'
    BY <1>1, <1>2, <1>4 DEF Unsorted, Conserved, Places, Signal
  <1>8. CutLast' /\ Signals' /\ Waited'
    BY <1>1, <1>2, <1>4 DEF CutLast, Signals, Waited, Places, Descriptors, Unsorted, Signal, SpawnMishaps
  <1> QED BY <1>3, <1>5, <1>6, <1>7, <1>8 DEF IInv

\* CutExec keeps the invariant.
LEMMA CutExecOK == ASSUME IInv, ChildExec("cut") PROVE IInv'
  <1>1. TypeOK /\ Typed /\ Places /\ Descriptors /\ Unread /\ Unsorted /\ Conserved /\ CutLast /\ Signals /\ Waited
    BY DEF IInv
  <1>2. UNCHANGED <<input, todo, A, B, heap, emit, out>> /\ rc' \in {0, 1, 2} /\ (rc' = 0 => rc = 0)
    BY <1>1, Procs DEF ChildExec, data, TypeOK, Status, WIFEXITED
  <1>3. Typed' /\ Unread'
    BY <1>2, Quiet DEF data
  <1>4. /\ pc["cut"] = "child" /\ st' = st /\ rc' = rc /\ mishaps' = mishaps
        /\ pc' \in [Proc -> PCs] /\ fd' \in [Proc -> SUBSET Ends]
        /\ pc'["dsort"] = pc["dsort"] /\ pc'["sort"] = pc["sort"] /\ pc'["cut"] = "read"
        /\ fd'["cut"] = fd["cut"] \ {"Aw"} /\ fd'["sort"] = fd["sort"] /\ fd'["dsort"] = fd["dsort"]
    BY <1>1, Procs, GotoFacts, ExitFacts, ZenonT(40) DEF ChildExec, TypeOK, PCs
  <1>5. TypeOK'
    BY <1>1, <1>2, <1>4 DEF TypeOK, PCs
  <1>6. Places' /\ Descriptors'
    BY <1>1, <1>4 DEF Places, Descriptors
  <1>7. Unsorted' /\ Conserved'
    BY <1>1, <1>2, <1>4 DEF Unsorted, Conserved, Places, Signal
  <1>8. CutLast' /\ Signals' /\ Waited'
    BY <1>1, <1>2, <1>4 DEF CutLast, Signals, Waited, Places, Descriptors, Unsorted, Signal, SpawnMishaps
  <1> QED BY <1>3, <1>5, <1>6, <1>7, <1>8 DEF IInv

\* SortExits keeps the invariant.
LEMMA SortExitsOK == ASSUME IInv, SortExits PROVE IInv'
  <1>1. TypeOK /\ Typed /\ Places /\ Descriptors /\ Unread /\ Unsorted /\ Conserved /\ CutLast /\ Signals /\ Waited
    BY DEF IInv
  <1>2. UNCHANGED <<input, todo, A, B, heap, emit, out>> /\ rc' \in {0, 1, 2} /\ (rc' = 0 => rc = 0)
    BY <1>1, Procs DEF SortExits, data, TypeOK, Status, WIFEXITED
  <1>3. Typed' /\ Unread'
    BY <1>2, Quiet DEF data
  <1>4. /\ pc["sort"] = "write" /\ emit = <<>> /\ st' = st /\ rc' = rc /\ mishaps' = mishaps
        /\ pc' \in [Proc -> PCs] /\ fd' \in [Proc -> SUBSET Ends]
        /\ pc'["dsort"] = pc["dsort"] /\ pc'["sort"] = "dead" /\ pc'["cut"] = pc["cut"]
        /\ fd'["sort"] = {} /\ fd'["cut"] = fd["cut"] /\ fd'["dsort"] = fd["dsort"]
    BY <1>1, Procs, GotoFacts, ExitFacts DEF SortExits, TypeOK, PCs
  <1>5. TypeOK'
    BY <1>1, <1>2, <1>4 DEF TypeOK, PCs
  <1>6. Places' /\ Descriptors'
    BY <1>1, <1>4 DEF Places, Descriptors
  <1>7. Unsorted' /\ Conserved'
    BY <1>1, <1>2, <1>4 DEF Unsorted, Conserved, Places, Signal
  <1>8. CutLast' /\ Signals' /\ Waited'
    BY <1>1, <1>2, <1>4 DEF CutLast, Signals, Waited, Places, Descriptors, Unsorted, Signal, SpawnMishaps
  <1> QED BY <1>3, <1>5, <1>6, <1>7, <1>8 DEF IInv

\* SortKilled keeps the invariant.
LEMMA SortKilledOK == ASSUME IInv, SortKilled PROVE IInv'
  <1>1. TypeOK /\ Typed /\ Places /\ Descriptors /\ Unread /\ Unsorted /\ Conserved /\ CutLast /\ Signals /\ Waited
    BY DEF IInv
  <1>2. UNCHANGED <<input, todo, A, B, heap, emit, out>> /\ rc' \in {0, 1, 2} /\ (rc' = 0 => rc = 0)
    BY <1>1, Procs DEF SortKilled, Held, data, TypeOK, Status, WIFEXITED
  <1>3. Typed' /\ Unread'
    BY <1>2, Quiet DEF data
  <1>4. /\ pc["sort"] = "write" /\ "Ar" \notin fd["cut"] /\ rc' = rc /\ mishaps' = mishaps
        /\ st' \in [Child -> {0, 1, 2, Signal}] /\ st'["sort"] = Signal /\ st'["cut"] = st["cut"]
        /\ pc' \in [Proc -> PCs] /\ fd' \in [Proc -> SUBSET Ends]
        /\ pc'["dsort"] = pc["dsort"] /\ pc'["sort"] = "dead" /\ pc'["cut"] = pc["cut"]
        /\ fd'["sort"] = {} /\ fd'["cut"] = fd["cut"] /\ fd'["dsort"] = fd["dsort"]
    BY <1>1, Procs, GotoFacts, ExitFacts DEF SortKilled, Held, TypeOK, PCs
  <1>5. TypeOK'
    BY <1>1, <1>2, <1>4 DEF TypeOK, PCs
  <1>6. Places' /\ Descriptors'
    BY <1>1, <1>4 DEF Places, Descriptors
  <1>7. Unsorted' /\ Conserved'
    BY <1>1, <1>2, <1>4 DEF Unsorted, Conserved, Places, Signal
  <1>8. CutLast' /\ Signals' /\ Waited'
    BY <1>1, <1>2, <1>4 DEF CutLast, Signals, Waited, Places, Descriptors, Unsorted, Signal, SpawnMishaps
  <1> QED BY <1>3, <1>5, <1>6, <1>7, <1>8 DEF IInv

\* CutExits keeps the invariant.
LEMMA CutExitsOK == ASSUME IInv, CutExits PROVE IInv'
  <1>1. TypeOK /\ Typed /\ Places /\ Descriptors /\ Unread /\ Unsorted /\ Conserved /\ CutLast /\ Signals /\ Waited
    BY DEF IInv
  <1>2. UNCHANGED <<input, todo, A, B, heap, emit, out>> /\ rc' \in {0, 1, 2} /\ (rc' = 0 => rc = 0)
    BY <1>1, Procs DEF CutExits, Held, data, TypeOK, Status, WIFEXITED
  <1>3. Typed' /\ Unread'
    BY <1>2, Quiet DEF data
  <1>4. /\ pc["cut"] = "read" /\ A = <<>> /\ "Aw" \notin fd["sort"] /\ "Aw" \notin fd["dsort"] /\ st' = st /\ rc' = rc /\ mishaps' = mishaps
        /\ pc' \in [Proc -> PCs] /\ fd' \in [Proc -> SUBSET Ends]
        /\ pc'["dsort"] = pc["dsort"] /\ pc'["sort"] = pc["sort"] /\ pc'["cut"] = "dead"
        /\ fd'["cut"] = {} /\ fd'["sort"] = fd["sort"] /\ fd'["dsort"] = fd["dsort"]
    BY <1>1, Procs, GotoFacts, ExitFacts DEF CutExits, Held, TypeOK, PCs
  <1>5. TypeOK'
    BY <1>1, <1>2, <1>4 DEF TypeOK, PCs
  <1>6. Places' /\ Descriptors'
    BY <1>1, <1>4 DEF Places, Descriptors
  <1>7. Unsorted' /\ Conserved'
    BY <1>1, <1>2, <1>4 DEF Unsorted, Conserved, Places, Signal
  <1>8. CutLast' /\ Signals' /\ Waited'
    BY <1>1, <1>2, <1>4 DEF CutLast, Signals, Waited, Places, Descriptors, Unsorted, Signal, SpawnMishaps
  <1> QED BY <1>3, <1>5, <1>6, <1>7, <1>8 DEF IInv

\* SortBreaks keeps the invariant.
LEMMA SortBreaksOK == ASSUME IInv, ChildExecFails("sort") \/ ChildFails("sort") \/ KillChild("sort") PROVE IInv'
  <1>1. TypeOK /\ Typed /\ Places /\ Descriptors /\ Unread /\ Unsorted /\ Conserved /\ CutLast /\ Signals /\ Waited
    BY DEF IInv
  <1>2. UNCHANGED <<input, todo, A, B, heap, emit, out>> /\ rc' \in {0, 1, 2} /\ (rc' = 0 => rc = 0)
    BY <1>1, Procs DEF ChildExecFails, ChildFails, KillChild, Wrong, SpawnMishaps, Signal, data, TypeOK, Status, WIFEXITED
  <1>3. Typed' /\ Unread'
    BY <1>2, Quiet DEF data
  <1>4. /\ pc["sort"] \in {"child", "read", "write"} /\ rc' = rc /\ mishaps \subseteq mishaps' /\ mishaps' \cap SpawnMishaps = mishaps \cap SpawnMishaps
        /\ st' \in [Child -> {0, 1, 2, Signal}] /\ st'["cut"] = st["cut"] /\ st'["sort"] # 0
        /\ st'["sort"] = Signal => <<"kill", "sort">> \in mishaps'
        /\ pc' \in [Proc -> PCs] /\ fd' \in [Proc -> SUBSET Ends]
        /\ pc'["dsort"] = pc["dsort"] /\ pc'["sort"] = "dead" /\ pc'["cut"] = pc["cut"]
        /\ fd'["sort"] = {} /\ fd'["cut"] = fd["cut"] /\ fd'["dsort"] = fd["dsort"]
    <2>1. Exits("sort", "dead") /\ rc' = rc
      BY DEF ChildExecFails, ChildFails, KillChild
    <2>2. /\ pc' \in [Proc -> PCs] /\ fd' \in [Proc -> SUBSET Ends]
          /\ pc'["dsort"] = pc["dsort"] /\ pc'["sort"] = "dead" /\ pc'["cut"] = pc["cut"]
          /\ fd'["sort"] = {} /\ fd'["cut"] = fd["cut"] /\ fd'["dsort"] = fd["dsort"]
      <3>1. "sort" \in Proc /\ "cut" \in Proc \ {"sort"} /\ "dsort" \in Proc \ {"sort"} /\ "dead" \in PCs
        BY Procs DEF PCs
      <3> QED BY <1>1, <2>1, <3>1, ExitFacts
    <2>3. pc["sort"] \in {"child", "read", "write"}
      BY <1>1 DEF ChildExecFails, ChildFails, KillChild
    <2>4. /\ mishaps \subseteq mishaps' /\ mishaps' \cap SpawnMishaps = mishaps \cap SpawnMishaps
          /\ st' = [st EXCEPT !["sort"] = Signal] \/ st' = [st EXCEPT !["sort"] = 1] \/ st' = [st EXCEPT !["sort"] = 2]
          /\ ~KillChild("sort") => st' = [st EXCEPT !["sort"] = 1] \/ st' = [st EXCEPT !["sort"] = 2]
          /\ KillChild("sort") => <<"kill", "sort">> \in mishaps'
      BY DEF ChildExecFails, ChildFails, KillChild, Wrong, SpawnMishaps
    <2>5. st \in [Child -> {0, 1, 2, Signal}] /\ "sort" \in Child /\ "cut" \in Child
      BY <1>1, Procs DEF TypeOK
    <2>6. /\ st' \in [Child -> {0, 1, 2, Signal}] /\ st'["cut"] = st["cut"] /\ st'["sort"] # 0
          /\ st'["sort"] = Signal => <<"kill", "sort">> \in mishaps'
      BY <2>4, <2>5, SMTT(40) DEF Signal
    <2> QED BY <2>1, <2>2, <2>3, <2>4, <2>6
  <1>5. TypeOK'
    BY <1>1, <1>2, <1>4 DEF TypeOK, PCs
  <1>6. Places' /\ Descriptors'
    BY <1>1, <1>4 DEF Places, Descriptors
  <1>7. Unsorted' /\ Conserved'
    BY <1>1, <1>2, <1>4 DEF Unsorted, Conserved, Places, Signal
  <1>8. CutLast' /\ Signals' /\ Waited'
    BY <1>1, <1>2, <1>4 DEF CutLast, Signals, Waited, Places, Descriptors, Unsorted, Signal, SpawnMishaps
  <1> QED BY <1>3, <1>5, <1>6, <1>7, <1>8 DEF IInv

\* CutBreaks keeps the invariant.
LEMMA CutBreaksOK == ASSUME IInv, ChildExecFails("cut") \/ ChildFails("cut") \/ KillChild("cut") PROVE IInv'
  <1>1. TypeOK /\ Typed /\ Places /\ Descriptors /\ Unread /\ Unsorted /\ Conserved /\ CutLast /\ Signals /\ Waited
    BY DEF IInv
  <1>2. UNCHANGED <<input, todo, A, B, heap, emit, out>> /\ rc' \in {0, 1, 2} /\ (rc' = 0 => rc = 0)
    BY <1>1, Procs DEF ChildExecFails, ChildFails, KillChild, Wrong, SpawnMishaps, Signal, Places, data, TypeOK, Status, WIFEXITED
  <1>3. Typed' /\ Unread'
    BY <1>2, Quiet DEF data
  <1>4. /\ pc["cut"] \in {"child", "read"} /\ rc' = rc /\ mishaps \subseteq mishaps' /\ mishaps' \cap SpawnMishaps = mishaps \cap SpawnMishaps
        /\ st' \in [Child -> {0, 1, 2, Signal}] /\ st'["sort"] = st["sort"] /\ st'["cut"] # 0
        /\ st'["cut"] = Signal => <<"kill", "cut">> \in mishaps'
        /\ pc' \in [Proc -> PCs] /\ fd' \in [Proc -> SUBSET Ends]
        /\ pc'["dsort"] = pc["dsort"] /\ pc'["sort"] = pc["sort"] /\ pc'["cut"] = "dead"
        /\ fd'["cut"] = {} /\ fd'["sort"] = fd["sort"] /\ fd'["dsort"] = fd["dsort"]
    <2>1. Exits("cut", "dead") /\ rc' = rc
      BY DEF ChildExecFails, ChildFails, KillChild
    <2>2. /\ pc' \in [Proc -> PCs] /\ fd' \in [Proc -> SUBSET Ends]
          /\ pc'["dsort"] = pc["dsort"] /\ pc'["cut"] = "dead" /\ pc'["sort"] = pc["sort"]
          /\ fd'["cut"] = {} /\ fd'["sort"] = fd["sort"] /\ fd'["dsort"] = fd["dsort"]
      <3>1. "cut" \in Proc /\ "sort" \in Proc \ {"cut"} /\ "dsort" \in Proc \ {"cut"} /\ "dead" \in PCs
        BY Procs DEF PCs
      <3> QED BY <1>1, <2>1, <3>1, ExitFacts
    <2>3. pc["cut"] \in {"child", "read"}
      BY <1>1 DEF ChildExecFails, ChildFails, KillChild, Places
    <2>4. /\ mishaps \subseteq mishaps' /\ mishaps' \cap SpawnMishaps = mishaps \cap SpawnMishaps
          /\ st' = [st EXCEPT !["cut"] = Signal] \/ st' = [st EXCEPT !["cut"] = 1] \/ st' = [st EXCEPT !["cut"] = 2]
          /\ ~KillChild("cut") => st' = [st EXCEPT !["cut"] = 1] \/ st' = [st EXCEPT !["cut"] = 2]
          /\ KillChild("cut") => <<"kill", "cut">> \in mishaps'
      BY DEF ChildExecFails, ChildFails, KillChild, Wrong, SpawnMishaps
    <2>5. st \in [Child -> {0, 1, 2, Signal}] /\ "cut" \in Child /\ "sort" \in Child
      BY <1>1, Procs DEF TypeOK
    <2>6. /\ st' \in [Child -> {0, 1, 2, Signal}] /\ st'["sort"] = st["sort"] /\ st'["cut"] # 0
          /\ st'["cut"] = Signal => <<"kill", "cut">> \in mishaps'
      BY <2>4, <2>5, SMTT(40) DEF Signal
    <2> QED BY <2>1, <2>2, <2>3, <2>4, <2>6
  <1>5. TypeOK'
    BY <1>1, <1>2, <1>4 DEF TypeOK, PCs
  <1>6. Places' /\ Descriptors'
    BY <1>1, <1>4 DEF Places, Descriptors
  <1>7. Unsorted' /\ Conserved'
    BY <1>1, <1>2, <1>4 DEF Unsorted, Conserved, Places, Signal
  <1>8. CutLast' /\ Signals' /\ Waited'
    BY <1>1, <1>2, <1>4 DEF CutLast, Signals, Waited, Places, Descriptors, Unsorted, Signal, SpawnMishaps
  <1> QED BY <1>3, <1>5, <1>6, <1>7, <1>8 DEF IInv

-----------------------------------------------------------------------------
(* The steps that move one. *)

\* Feed keeps the invariant.
LEMMA FeedOK == ASSUME IInv, Feed PROVE IInv'
  <1>1. TypeOK /\ Typed /\ Places /\ Descriptors /\ Unread /\ Unsorted /\ Conserved /\ CutLast /\ Signals /\ Waited
    BY DEF IInv
  <1>2. /\ pc["dsort"] = "feed" /\ todo # <<>> /\ Head(todo) # Missing /\ Len(B) < CAP
        /\ B' = Append(B, Head(todo)) /\ todo' = Tail(todo)
        /\ UNCHANGED <<input, pc, fd, A, heap, emit, out, st, rc, mishaps>>
    BY DEF Feed
  <1>3. /\ Head(todo) \in Lines /\ Tail(todo) \in Seq(Lines \cup {Missing})
        /\ Len(Tail(todo)) = Len(todo) - 1 /\ Len(todo) \in Nat
    BY <1>1, <1>2, HeadTailProperties, LenProperties DEF Typed
  <1>4. B' \in Seq(Lines) /\ Len(B') = Len(B) + 1 /\ Len(B) \in Nat
    BY <1>1, <1>2, <1>3, AppendProperties, LenProperties DEF Typed
  <1>5. TypeOK'
    <2>1. Len(B') <= CAP
      BY <1>2, <1>4, CapType
    <2> QED BY <1>1, <1>2, <2>1 DEF TypeOK
  <1>6. Typed'
    <2>1. Len(heap) \in Nat /\ Len(heap) + Len(B') + Len(todo') <= Most
      BY <1>1, <1>2, <1>3, <1>4, LenProperties, MissingType DEF Typed
    <2> QED BY <1>1, <1>2, <1>3, <1>4, <2>1 DEF Typed
  <1>7. Unread'
    <2>1. B \in Seq(Lines \cup {Missing}) /\ todo \in Seq(Lines \cup {Missing})
      BY <1>1, SeqMonotonic DEF Typed
    <2>2. B' \o todo' = B \o todo
      BY <1>2, <2>1, Passed
    <2> QED BY <1>1, <1>2, <2>2 DEF Unread
  <1>8. Places' /\ Descriptors' /\ Unsorted' /\ CutLast' /\ Signals'
    BY <1>1, <1>2 DEF Places, Descriptors, Unsorted, CutLast, Signals
  <1>9. Conserved' /\ Waited'
    BY <1>1, <1>2 DEF Conserved, Waited
  <1> QED BY <1>5, <1>6, <1>7, <1>8, <1>9 DEF IInv

\* FeedMissing keeps the invariant.
LEMMA FeedMissingOK == ASSUME IInv, FeedMissing PROVE IInv'
  <1>1. TypeOK /\ Typed /\ Places /\ Descriptors /\ Unread /\ Unsorted /\ Conserved /\ CutLast /\ Signals /\ Waited
    BY DEF IInv
  <1>2. /\ pc["dsort"] = "feed" /\ todo # <<>> /\ rc' = 1 /\ todo' = Tail(todo)
        /\ UNCHANGED <<input, pc, fd, A, B, heap, emit, out, st, mishaps>>
    BY DEF FeedMissing, data
  <1>3. Tail(todo) \in Seq(Lines \cup {Missing}) /\ Len(Tail(todo)) = Len(todo) - 1 /\ Len(todo) \in Nat
    BY <1>1, <1>2, HeadTailProperties, LenProperties DEF Typed
  <1>4. TypeOK'
    BY <1>1, <1>2 DEF TypeOK
  <1>5. Typed'
    <2>1. Len(heap) \in Nat /\ Len(B) \in Nat
      BY <1>1, LenProperties DEF Typed
    <2>2. Len(heap') + Len(B') + Len(todo') <= Most
      BY <1>1, <1>2, <1>3, <2>1, MissingType DEF Typed
    <2> QED BY <1>1, <1>2, <1>3, <2>2 DEF Typed
  <1>6. Unread' /\ Places' /\ Descriptors' /\ Unsorted' /\ CutLast' /\ Signals'
    BY <1>1, <1>2 DEF Unread, Places, Descriptors, Unsorted, CutLast, Signals
  <1>7. Conserved' /\ Waited'
    BY <1>1, <1>2 DEF Conserved, Waited
  <1> QED BY <1>4, <1>5, <1>6, <1>7 DEF IInv

\* SortReads keeps the invariant.
LEMMA SortReadsOK == ASSUME IInv, SortReads PROVE IInv'
  <1>1. TypeOK /\ Typed /\ Places /\ Descriptors /\ Unread /\ Unsorted /\ Conserved /\ CutLast /\ Signals /\ Waited
    BY DEF IInv
  <1>2. /\ pc["sort"] = "read" /\ B # <<>>
        /\ heap' = Append(heap, Head(B)) /\ B' = Tail(B)
        /\ UNCHANGED <<input, todo, pc, fd, A, emit, out, st, rc, mishaps>>
    BY DEF SortReads
  <1>3. Head(B) \in Lines /\ B' \in Seq(Lines) /\ Len(B') = Len(B) - 1 /\ Len(B) \in Nat
    BY <1>1, <1>2, HeadTailProperties, LenProperties DEF Typed
  <1>4. heap' \in Seq(Lines) /\ Len(heap') = Len(heap) + 1 /\ Len(heap) \in Nat
    BY <1>1, <1>2, <1>3, AppendProperties, LenProperties DEF Typed
  <1>5. TypeOK'
    <2>1. Len(B') <= CAP
      BY <1>1, <1>3, CapType DEF TypeOK
    <2> QED BY <1>1, <1>2, <2>1 DEF TypeOK
  <1>6. Typed'
    <2>1. Len(todo) \in Nat /\ Len(heap') + Len(B') + Len(todo') <= Most
      BY <1>1, <1>2, <1>3, <1>4, LenProperties, MissingType DEF Typed
    <2> QED BY <1>1, <1>2, <1>3, <1>4, <2>1 DEF Typed
  <1>7. Unread'
    <2> DEFINE T == Lines \cup {Missing}
    <2>1. B \in Seq(T) /\ todo \in Seq(T) /\ heap \in Seq(T) /\ B' \in Seq(T) /\ heap' \in Seq(T)
      BY <1>1, <1>3, <1>4, SeqMonotonic DEF Typed
    <2> HIDE DEF T
    <2>2. heap' \o B' = heap \o B
      BY <1>1, <1>2, Passed DEF Typed
    <2>3. heap' \o (B' \o todo) = (heap' \o B') \o todo
      BY <2>1, Regrouped, SMTT(40)
    <2>4. heap \o (B \o todo) = (heap \o B) \o todo
      BY <2>1, Regrouped
    <2> QED BY <1>1, <1>2, <2>2, <2>3, <2>4 DEF Unread
  <1>8. Places' /\ Descriptors' /\ Unsorted' /\ CutLast' /\ Signals'
    BY <1>1, <1>2 DEF Places, Descriptors, Unsorted, CutLast, Signals
  <1>9. Conserved' /\ Waited'
    BY <1>1, <1>2 DEF Conserved, Waited
  <1> QED BY <1>5, <1>6, <1>7, <1>8, <1>9 DEF IInv

\* The end of file is dsort's: it has closed its end of the pipe, and has no
\* line left unless somebody killed it.
LEMMA SortSortsOK == ASSUME IInv, SortSorts PROVE IInv'
  <1>1. TypeOK /\ Typed /\ Places /\ Descriptors /\ Unread /\ Unsorted /\ Conserved /\ CutLast /\ Signals /\ Waited
    BY DEF IInv
  <1>2. /\ pc["sort"] = "read" /\ B = <<>> /\ "Bw" \notin fd["dsort"]
        /\ emit' = Sorted(heap)
        /\ UNCHANGED <<input, todo, fd, A, B, heap, out, st, rc, mishaps>>
    BY Procs DEF SortSorts, Held
  <1>3. /\ pc' \in [Proc -> PCs]
        /\ pc'["sort"] = "write" /\ pc'["dsort"] = pc["dsort"] /\ pc'["cut"] = pc["cut"]
    BY <1>1, Procs, GotoFacts DEF SortSorts, PCs
  <1>4. Sorted(heap) \in Seq(Lines)
    <2>1. Len(heap) \in Nat /\ Len(B) \in Nat /\ Len(todo) \in Nat /\ heap \in [1 .. Len(heap) -> Lines]
      BY <1>1, LenProperties DEF Typed
    <2>2. Len(heap) \in 0 .. Most
      BY <1>1, <2>1, MissingType DEF Typed
    <2> QED BY <2>1, <2>2, SortedType
  <1>5. todo = <<>> \/ pc["dsort"] = "killed"
    <2>1. pc["dsort"] \notin {"vfork_sort", "feed", "spawn_cut", "vfork_cut", "spawn_sort"}
      BY <1>1, <1>2 DEF Descriptors, Places
    <2>2. CASE pc["dsort"] = "done"
      BY <1>1, <1>2, <2>2 DEF Waited, Places
    <2>3. CASE pc["dsort"] \in {"wait_sort", "wait_cut"}
      BY <1>1, <2>3 DEF Waited
    <2> QED BY <1>1, <2>1, <2>2, <2>3 DEF Places
  <1>6. TypeOK' /\ Typed'
    BY <1>1, <1>2, <1>3, <1>4 DEF TypeOK, Typed, PCs
  <1>7. Unread' /\ Places' /\ Descriptors' /\ Unsorted'
    BY <1>1, <1>2, <1>3 DEF Unread, Places, Descriptors, Unsorted
  <1>8. Conserved'
    <2>1. A = <<>> /\ out = <<>>
      BY <1>1, <1>2 DEF Unsorted
    <2>2. <<>> \o (<<>> \o Sorted(heap)) = Sorted(heap)
      BY <1>4, ConcatEmptySeq
    <2> QED BY <1>2, <1>3, <1>5, <2>1, <2>2 DEF Conserved
  <1>9. CutLast' /\ Signals' /\ Waited'
    BY <1>1, <1>2, <1>3 DEF CutLast, Signals, Waited, Places
  <1> QED BY <1>6, <1>7, <1>8, <1>9 DEF IInv

\* SortWrites keeps the invariant.
LEMMA SortWritesOK == ASSUME IInv, SortWrites PROVE IInv'
  <1>1. TypeOK /\ Typed /\ Places /\ Descriptors /\ Unread /\ Unsorted /\ Conserved /\ CutLast /\ Signals /\ Waited
    BY DEF IInv
  <1>2. /\ pc["sort"] = "write" /\ emit # <<>> /\ Len(A) < CAP
        /\ A' = Append(A, Head(emit)) /\ emit' = Tail(emit)
        /\ UNCHANGED <<input, todo, pc, fd, B, heap, out, st, rc, mishaps>>
    BY DEF SortWrites
  <1>3. Head(emit) \in Lines /\ emit' \in Seq(Lines)
    BY <1>1, <1>2, HeadTailProperties DEF Typed
  <1>4. A' \in Seq(Lines) /\ Len(A') = Len(A) + 1 /\ Len(A) \in Nat
    BY <1>1, <1>2, <1>3, AppendProperties, LenProperties DEF Typed
  <1>5. TypeOK'
    <2>1. Len(A') <= CAP
      BY <1>2, <1>4, CapType
    <2> QED BY <1>1, <1>2, <2>1 DEF TypeOK
  <1>6. Typed' /\ Unread'
    BY <1>1, <1>2, <1>3, <1>4 DEF Typed, Unread
  <1>7. Places' /\ Descriptors' /\ Unsorted' /\ CutLast' /\ Signals'
    BY <1>1, <1>2 DEF Places, Descriptors, Unsorted, CutLast, Signals
  <1>8. Conserved'
    <2>1. A' \o emit' = A \o emit
      BY <1>1, <1>2, Passed DEF Typed
    <2> QED BY <1>1, <1>2, <2>1 DEF Conserved
  <1>9. Waited'
    BY <1>1, <1>2 DEF Waited
  <1> QED BY <1>5, <1>6, <1>7, <1>8, <1>9 DEF IInv

\* CutCopies keeps the invariant.
LEMMA CutCopiesOK == ASSUME IInv, CutCopies PROVE IInv'
  <1>1. TypeOK /\ Typed /\ Places /\ Descriptors /\ Unread /\ Unsorted /\ Conserved /\ CutLast /\ Signals /\ Waited
    BY DEF IInv
  <1>2. /\ pc["cut"] = "read" /\ A # <<>>
        /\ out' = Append(out, Head(A)) /\ A' = Tail(A)
        /\ UNCHANGED <<input, todo, pc, fd, B, heap, emit, st, rc, mishaps>>
    BY DEF CutCopies
  <1>3. Head(A) \in Lines /\ A' \in Seq(Lines) /\ Len(A') = Len(A) - 1 /\ Len(A) \in Nat
    BY <1>1, <1>2, HeadTailProperties, LenProperties DEF Typed
  <1>4. out' \in Seq(Lines)
    BY <1>1, <1>2, <1>3, AppendProperties DEF Typed
  <1>5. TypeOK'
    <2>1. Len(A') <= CAP
      BY <1>1, <1>3, CapType DEF TypeOK
    <2> QED BY <1>1, <1>2, <2>1 DEF TypeOK
  <1>6. Typed' /\ Unread'
    BY <1>1, <1>2, <1>3, <1>4 DEF Typed, Unread
  <1>7. Places' /\ Descriptors' /\ Unsorted' /\ CutLast' /\ Signals'
    BY <1>1, <1>2 DEF Places, Descriptors, Unsorted, CutLast, Signals
  <1>8. Conserved'
    <2>1. out' \o A' = out \o A
      BY <1>1, <1>2, Passed DEF Typed
    <2>2. emit \in Seq(Lines) /\ out \in Seq(Lines) /\ A \in Seq(Lines)
      BY <1>1 DEF Typed
    <2>3. out' \o (A' \o emit) = (out' \o A') \o emit
      BY <1>3, <1>4, <2>2, Regrouped, SMTT(40)
    <2>4. out \o (A \o emit) = (out \o A) \o emit
      BY <2>2, Regrouped
    <2> QED BY <1>1, <1>2, <2>1, <2>3, <2>4 DEF Conserved
  <1>9. Waited'
    BY <1>1, <1>2 DEF Waited
  <1> QED BY <1>5, <1>6, <1>7, <1>8, <1>9 DEF IInv

\* Stutter keeps the invariant.
LEMMA StutterOK == ASSUME IInv, UNCHANGED vars PROVE IInv'
  <1>1. UNCHANGED <<input, todo, pc, fd, A, B, heap, emit, out, st, rc, mishaps>>
    BY DEF vars, data
  <1>2. TypeOK' /\ Typed'
    BY <1>1 DEF IInv, TypeOK, Typed
  <1>3. Places' /\ Descriptors' /\ Unread' /\ Unsorted' /\ Conserved'
    BY <1>1 DEF IInv, Places, Descriptors, Unread, Unsorted, Conserved
  <1>4. CutLast' /\ Signals' /\ Waited'
    BY <1>1 DEF IInv, CutLast, Signals, Waited
  <1> QED BY <1>2, <1>3, <1>4 DEF IInv

\* Every step keeps the invariant.
LEMMA StepOK == IInv /\ [Next]_vars => IInv'
  <1> SUFFICES ASSUME IInv, [Next]_vars PROVE IInv'
    OBVIOUS
  <1>1. CASE Dsort
    BY <1>1, SpawnCutOK, ParentOfCutOK, SpawnSortOK, ParentOfSortOK, FeedOK, DsortKilledOK, FeedMissingOK,
       CloseOutfdOK, WaitSortOK, WaitCutOK DEF Dsort, Spawn
  <1>2. CASE Sort
    BY <1>2, SortExecOK, SortReadsOK, SortSortsOK, SortWritesOK, SortKilledOK, SortExitsOK DEF Sort
  <1>3. CASE Cut
    BY <1>3, CutExecOK, CutCopiesOK, CutExitsOK DEF Cut
  <1>4. CASE Misfortune
    <2>1. ASSUME NEW p \in Child, SpawnFails(p) \/ ChildExecFails(p) \/ ChildFails(p) \/ KillChild(p)
          PROVE  IInv'
      <3>1. CASE SpawnFails(p)
        BY <3>1, SpawnFailsOK
      <3>2. CASE ~SpawnFails(p) /\ p = "sort"
        BY <2>1, <3>2, SortBreaksOK
      <3>3. CASE ~SpawnFails(p) /\ p = "cut"
        BY <2>1, <3>3, CutBreaksOK
      <3> QED BY <3>1, <3>2, <3>3, Procs
    <2> QED BY <1>4, <2>1, DsortKilledOK DEF Misfortune
  <1>5. CASE UNCHANGED vars
    BY <1>5, StutterOK
  <1> QED BY <1>1, <1>2, <1>3, <1>4, <1>5 DEF Next

\* The invariant holds always.
LEMMA Inductive == Spec => []IInv
  BY InitOK, StepOK, PTL DEF Spec

-----------------------------------------------------------------------------
(* The theorems. *)

\* Processes, descriptors, statuses and the filling of the pipes keep to their
\* types, whatever goes wrong.
THEOREM TypeCorrect == Spec => []TypeOK
  <1>1. IInv => TypeOK
    BY DEF IInv
  <1> QED BY <1>1, Inductive, PTL

\* Where dsort exits 0, with both helpers started and neither of them killed,
\* every file was read and all of the sorted lines are on stdout.
THEOREM CleanExitIsComplete == Spec => []CleanExit
  <1>1. IInv => CleanExit
    <2> SUFFICES ASSUME IInv, pc["dsort"] = "done", rc = 0, mishaps \cap Silent = {}
                 PROVE  out = Sorted(input) /\ \A i \in 1 .. Len(input) : IsLine(input[i])
      BY DEF CleanExit
    <2>1. Typed /\ Unread /\ Conserved /\ CutLast /\ Signals /\ Waited
      BY DEF IInv
    <2>2. /\ <<"kill", "sort">> \notin mishaps /\ <<"kill", "cut">> \notin mishaps
          /\ <<"spawn", "sort">> \notin mishaps /\ <<"spawn", "cut">> \notin mishaps
      BY DEF Silent
    <2>3. /\ todo = <<>> /\ pc["sort"] = "dead" /\ pc["cut"] = "dead"
          /\ st["sort"] \in {0, Signal} /\ st["cut"] \in {0, Signal}
      BY <2>1, <2>2 DEF Waited
    <2>4. st["cut"] = 0
      BY <2>1, <2>2, <2>3 DEF Signals
    <2>5. st["sort"] = 0
      BY <2>1, <2>2, <2>3, <2>4 DEF Signals
    <2>6. out \o (A \o emit) = Sorted(heap) /\ B = <<>> /\ emit = <<>> /\ A = <<>>
      BY <2>1, <2>3, <2>4, <2>5 DEF Conserved, CutLast
    <2>7. out \o (<<>> \o <<>>) = out /\ heap \o (<<>> \o <<>>) = heap
      BY <2>1, ConcatEmptySeq, EmptySeq DEF Typed
    <2>8. out = Sorted(heap) /\ heap = input
      BY <2>1, <2>3, <2>6, <2>7 DEF Unread
    <2>9. \A i \in 1 .. Len(input) : input[i] \in Lines
      BY <2>1, <2>8, ElementOfSeq DEF Typed
    <2> QED BY <2>8, <2>9, MissingType DEF IsLine
  <1> QED BY <1>1, Inductive, PTL

\* Once dsort has exited nothing more comes out.
THEOREM NothingComesLater == Spec => ExitIsLast
  <1>1. IInv /\ [Next]_vars => [pc["dsort"] = "done" => out' = out]_vars
    <2> SUFFICES ASSUME IInv, Next, pc["dsort"] = "done" PROVE out' = out
      OBVIOUS
    <2>1. ~CutCopies
      BY DEF IInv, Waited, CutCopies
    <2>2. ASSUME Next, ~CutCopies PROVE out' = out
      BY <2>2 DEF Next, Dsort, Spawn, Sort, Cut, Misfortune, SpawnCut, ParentOfCut, SpawnSort, ParentOfSort,
         Feed, FeedKilled, FeedMissing, CloseOutfd, WaitSort, WaitCut, ChildExec, SortReads, SortSorts,
         SortWrites, SortKilled, SortExits, CutExits, SpawnFails, ChildExecFails, ChildFails, KillChild,
         KillDsort, data
    <2> QED BY <2>1, <2>2
  <1> QED BY <1>1, Inductive, PTL DEF Spec, ExitIsLast
=============================================================================
