----------------------------- MODULE DsortPipe ------------------------------
(***************************************************************************)
(* The processes of dsort (src/dsort.c): dsort tags each line with its     *)
(* date and pipes it into sort(1), which pipes into cut(1), which writes   *)
(* to stdout.  dsort forks both, feeds the lines, closes its end and waits *)
(* for sort and then for cut.                                              *)
(*                                                                         *)
(* Pipe A leads from sort to cut, pipe B from dsort to sort.  The kernel   *)
(* ends a read of an empty pipe once nobody holds a write end, and kills   *)
(* whoever writes to a pipe of which nobody holds the read end.            *)
(***************************************************************************)
EXTENDS Naturals, Sequences, FiniteSets

CONSTANTS
  Lines, Most, \* the lines there are, and how many a run reads
  Inputs,      \* sequences of lines, Missing where a file cannot be opened
  Missing,
  Sorted(_),   \* what sort(1) makes of a sequence of lines
  CAP,         \* how many lines fit a pipe
  Mishaps      \* what may go wrong in a run, e.g. <<"exec", "sort">>

ASSUME CapType == CAP \in Nat \ {0}
ASSUME InputsType == \A i \in Inputs : i \in Seq(Lines \cup {Missing}) /\ Len(i) <= Most
ASSUME MissingType == Most \in Nat /\ Missing \notin Lines
ASSUME SortedType == \A n \in 0 .. Most : \A s \in [1 .. n -> Lines] : Sorted(s) \in Seq(Lines)

Child == {"sort", "cut"}
Proc == {"dsort"} \cup Child
Ends == {"Ar", "Aw", "Br", "Bw"}

VARIABLES
  input,   \* what the files on the command line hold
  todo,    \* the part dsort has not read
  pc,      \* where each process is
  fd,      \* the pipe ends each process holds open
  A, B,    \* what is in the pipes
  heap,    \* the lines sort(1) has read
  emit,    \* the part of its output it has not written
  st,      \* the exit status of a child, or Signal
  rc,      \* dsort's
  out,     \* stdout
  mishaps  \* history: what has gone wrong

data == <<A, B, heap, emit, out>>
vars == <<input, todo, pc, fd, data, st, rc, mishaps>>

Init ==
  /\ input \in Inputs /\ todo = input
  /\ pc = [p \in Proc |-> IF p = "dsort" THEN "spawn_cut" ELSE "none"]
  /\ fd = [p \in Proc |-> {}]
  /\ A = <<>> /\ B = <<>> /\ heap = <<>> /\ emit = <<>> /\ out = <<>>
  /\ st = [p \in Child |-> 0]
  /\ rc = 0
  /\ mishaps = {}

\* A child killed by a signal has no exit status.
Signal == 9
WIFEXITED(status) == status # Signal

Held(end) == \E p \in Proc : end \in fd[p]

Goto(p, where) == pc' = [pc EXCEPT ![p] = where]

\* p is gone: the kernel closes what it held.
Exits(p, where) ==
  /\ Goto(p, where)
  /\ fd' = [fd EXCEPT ![p] = {}]

Wrong(what) == what \in Mishaps \ mishaps /\ mishaps' = mishaps \cup {what}

-----------------------------------------------------------------------------
(* dsort starts its helpers.  vfork() suspends it until the child has      *)
(* become another program or has gone; the child begins with a copy of     *)
(* dsort's descriptors.                                                    *)

SpawnCut ==
  /\ pc["dsort"] = "spawn_cut"
  /\ pc' = [pc EXCEPT !["dsort"] = "vfork_cut", !["cut"] = "child"]
  /\ fd' = [fd EXCEPT !["dsort"] = {"Ar", "Aw"}, !["cut"] = {"Ar", "Aw"}]
  /\ UNCHANGED <<input, todo, data, st, rc, mishaps>>

\* Where pipe() or vfork() fails dsort frees its needles and returns rc.
SpawnFails(child) ==
  /\ pc["dsort"] = (IF child = "cut" THEN "spawn_cut" ELSE "spawn_sort")
  /\ Wrong(<<"spawn", child>>)
  /\ Exits("dsort", "done")
  /\ UNCHANGED <<input, todo, data, st, rc>>

ParentOfCut ==
  /\ pc["dsort"] = "vfork_cut" /\ pc["cut"] # "child"
  /\ Goto("dsort", "spawn_sort")
  /\ fd' = [fd EXCEPT !["dsort"] = @ \ {"Ar"}]
  /\ UNCHANGED <<input, todo, data, st, rc, mishaps>>

SpawnSort ==
  /\ pc["dsort"] = "spawn_sort"
  /\ pc' = [pc EXCEPT !["dsort"] = "vfork_sort", !["sort"] = "child"]
  /\ fd' = [fd EXCEPT !["dsort"] = @ \cup {"Br", "Bw"}, !["sort"] = fd["dsort"] \cup {"Br", "Bw"}]
  /\ UNCHANGED <<input, todo, data, st, rc, mishaps>>

\* Mutant: the write end of cut's pipe stays open in dsort.
ParentOfSortKeeps ==
  /\ pc["dsort"] = "vfork_sort" /\ pc["sort"] # "child"
  /\ Goto("dsort", "feed")
  /\ fd' = [fd EXCEPT !["dsort"] = @ \ {"Br"}]
  /\ UNCHANGED <<input, todo, data, st, rc, mishaps>>

ParentOfSort ==
  /\ pc["dsort"] = "vfork_sort" /\ pc["sort"] # "child"
  /\ Goto("dsort", "feed")
  /\ fd' = [fd EXCEPT !["dsort"] = @ \ {"Br", "Aw"}]
  /\ UNCHANGED <<input, todo, data, st, rc, mishaps>>

\* The child closes the write end of the pipe it reads and becomes sort or cut.
ChildExec(p) ==
  /\ pc[p] = "child"
  /\ Goto(p, "read")
  /\ fd' = [fd EXCEPT ![p] = @ \ {IF p = "cut" THEN "Aw" ELSE "Bw"}]
  /\ UNCHANGED <<input, todo, data, st, rc, mishaps>>

ChildExecFails(p) ==
  /\ pc[p] = "child"
  /\ Wrong(<<"exec", p>>)
  /\ Exits(p, "dead")
  /\ st' = [st EXCEPT ![p] = 1]
  /\ UNCHANGED <<input, todo, data, rc>>

-----------------------------------------------------------------------------
(* dsort feeds the lines and waits. *)

Feed ==
  /\ pc["dsort"] = "feed" /\ todo # <<>> /\ Head(todo) # Missing
  /\ Held("Br") /\ Len(B) < CAP
  /\ B' = Append(B, Head(todo))
  /\ todo' = Tail(todo)
  /\ UNCHANGED <<input, pc, fd, A, heap, emit, out, st, rc, mishaps>>

\* Nobody reads: SIGPIPE, which dsort leaves at its default.
FeedKilled ==
  /\ pc["dsort"] = "feed" /\ todo # <<>> /\ Head(todo) # Missing
  /\ ~Held("Br")
  /\ Exits("dsort", "killed")
  /\ UNCHANGED <<input, todo, data, st, rc, mishaps>>

FeedMissing ==
  /\ pc["dsort"] = "feed" /\ todo # <<>> /\ Head(todo) = Missing
  /\ rc' = 1
  /\ todo' = Tail(todo)
  /\ UNCHANGED <<input, pc, fd, data, st, mishaps>>

CloseOutfd ==
  /\ pc["dsort"] = "feed" /\ todo = <<>>
  /\ Goto("dsort", "wait_sort")
  /\ fd' = [fd EXCEPT !["dsort"] = @ \ {"Bw"}]
  /\ UNCHANGED <<input, todo, data, st, rc, mishaps>>

\* The first status that is not 0 is dsort's; that a child was killed by a
\* signal is not one.
Status(p) == IF rc = 0 /\ WIFEXITED(st[p]) THEN st[p] ELSE rc

\* Mutant: sort ends last anyway.
WaitSortAlone ==
  /\ pc["dsort"] = "wait_sort" /\ pc["sort"] = "dead"
  /\ rc' = Status("sort")
  /\ Exits("dsort", "done")
  /\ UNCHANGED <<input, todo, data, st, mishaps>>

WaitSort ==
  /\ pc["dsort"] = "wait_sort" /\ pc["sort"] = "dead"
  /\ rc' = Status("sort")
  /\ Goto("dsort", "wait_cut")
  /\ UNCHANGED <<input, todo, fd, data, st, mishaps>>

\* Mutant: cut cannot fail.
WaitCutBlind ==
  /\ pc["dsort"] = "wait_cut" /\ pc["cut"] = "dead"
  /\ rc' = rc
  /\ Exits("dsort", "done")
  /\ UNCHANGED <<input, todo, data, st, mishaps>>

WaitCut ==
  /\ pc["dsort"] = "wait_cut" /\ pc["cut"] = "dead"
  /\ rc' = Status("cut")
  /\ Exits("dsort", "done")
  /\ UNCHANGED <<input, todo, data, st, mishaps>>

-----------------------------------------------------------------------------
(* sort(1) and cut(1). *)

SortReads ==
  /\ pc["sort"] = "read" /\ B # <<>>
  /\ heap' = Append(heap, Head(B)) /\ B' = Tail(B)
  /\ UNCHANGED <<input, todo, pc, fd, A, emit, out, st, rc, mishaps>>

SortSorts ==
  /\ pc["sort"] = "read" /\ B = <<>> /\ ~Held("Bw")
  /\ emit' = Sorted(heap)
  /\ Goto("sort", "write")
  /\ UNCHANGED <<input, todo, fd, A, B, heap, out, st, rc, mishaps>>

SortWrites ==
  /\ pc["sort"] = "write" /\ emit # <<>>
  /\ Held("Ar") /\ Len(A) < CAP
  /\ A' = Append(A, Head(emit)) /\ emit' = Tail(emit)
  /\ UNCHANGED <<input, todo, pc, fd, B, heap, out, st, rc, mishaps>>

SortKilled ==
  /\ pc["sort"] = "write" /\ emit # <<>> /\ ~Held("Ar")
  /\ Exits("sort", "dead")
  /\ st' = [st EXCEPT !["sort"] = Signal]
  /\ UNCHANGED <<input, todo, data, rc, mishaps>>

SortExits ==
  /\ pc["sort"] = "write" /\ emit = <<>>
  /\ Exits("sort", "dead")
  /\ UNCHANGED <<input, todo, data, st, rc, mishaps>>

CutCopies ==
  /\ pc["cut"] = "read" /\ A # <<>>
  /\ out' = Append(out, Head(A)) /\ A' = Tail(A)
  /\ UNCHANGED <<input, todo, pc, fd, B, heap, emit, st, rc, mishaps>>

CutExits ==
  /\ pc["cut"] = "read" /\ A = <<>> /\ ~Held("Aw")
  /\ Exits("cut", "dead")
  /\ UNCHANGED <<input, todo, data, st, rc, mishaps>>

\* Out of memory or disk, a full device behind stdout: an error status.
ChildFails(p) ==
  /\ pc[p] \in {"read", "write"}
  /\ Wrong(<<"fail", p>>)
  /\ Exits(p, "dead")
  /\ st' = [st EXCEPT ![p] = 2]
  /\ UNCHANGED <<input, todo, data, rc>>

\* Somebody kills one of the three.
KillChild(p) ==
  /\ pc[p] \in {"child", "read", "write"}
  /\ Wrong(<<"kill", p>>)
  /\ Exits(p, "dead")
  /\ st' = [st EXCEPT ![p] = Signal]
  /\ UNCHANGED <<input, todo, data, rc>>

KillDsort ==
  /\ pc["dsort"] \in {"spawn_sort", "feed", "wait_sort", "wait_cut"}
  /\ Wrong(<<"kill", "dsort">>)
  /\ Exits("dsort", "killed")
  /\ UNCHANGED <<input, todo, data, st, rc>>

-----------------------------------------------------------------------------
Spawn == SpawnCut \/ ParentOfCut \/ SpawnSort \/ ParentOfSort
Dsort == Spawn \/ Feed \/ FeedKilled \/ FeedMissing \/ CloseOutfd \/ WaitSort \/ WaitCut
Sort == ChildExec("sort") \/ SortReads \/ SortSorts \/ SortWrites \/ SortKilled \/ SortExits
Cut == ChildExec("cut") \/ CutCopies \/ CutExits
Misfortune ==
  \/ \E p \in Child : SpawnFails(p) \/ ChildExecFails(p) \/ ChildFails(p) \/ KillChild(p)
  \/ KillDsort

Next == Dsort \/ Sort \/ Cut \/ Misfortune

Spec == Init /\ [][Next]_vars

\* The kernel runs every process that can go on; nothing has to go wrong.
FairSpec == Spec /\ WF_vars(Dsort) /\ WF_vars(Sort) /\ WF_vars(Cut)

-----------------------------------------------------------------------------
(* Properties. *)

TypeOK ==
  /\ pc \in [Proc -> {"none", "child", "read", "write", "dead", "spawn_cut", "vfork_cut", "spawn_sort",
                      "vfork_sort", "feed", "wait_sort", "wait_cut", "done", "killed"}]
  /\ fd \in [Proc -> SUBSET Ends]
  /\ st \in [Child -> {0, 1, 2, Signal}]
  /\ rc \in {0, 1, 2}
  /\ Len(A) <= CAP /\ Len(B) <= CAP

IsLine(l) == l # Missing

Prefix(s, u) == Len(s) <= Len(u) /\ s = SubSeq(u, 1, Len(s))

\* What dsort reports: where it exits 0, and nobody has killed a helper and
\* both were started, every file was read and all of it is on stdout, sorted.
Silent == {<<"kill", "sort">>, <<"kill", "cut">>, <<"spawn", "cut">>, <<"spawn", "sort">>}
CleanExit ==
  pc["dsort"] = "done" /\ rc = 0 /\ mishaps \cap Silent = {} =>
    out = Sorted(input) /\ \A i \in 1 .. Len(input) : IsLine(input[i])

\* dsort waits for cut, so that nothing comes out once it is done.
ExitIsLast == [][pc["dsort"] = "done" => out' = out]_vars

\* No process waits for an end of file that cannot come.
AllEnd == <>(pc["dsort"] \in {"done", "killed"} /\ \A p \in Child : pc[p] \in {"none", "dead"})
=============================================================================
