------------------------------- MODULE Tzraw --------------------------------
(***************************************************************************)
(* Looking up offsets in one zone (lib/tzraw.c): zif_local_time() and      *)
(* zif_utc_time() go through __offs(), which remembers the last range it   *)
(* found, zif_find_zrng(), for dzone, through the search alone.  A tool    *)
(* keeps its zones open and looks up one stamp after the other, in any     *)
(* order, and shares a zone that is both input and output zone.            *)
(*                                                                         *)
(* __find_trno() is a loop of its own, so that its end is a question.      *)
(***************************************************************************)
EXTENDS Zone

CONSTANTS
  Zones,     \* the zones a run may have open
  Args,      \* the stamps it may ask for
  TRNO_MOD   \* the range of trno, an 8 bit field: 256

ASSUME ZonesType == \A zz \in Zones : IsZone(zz)
ASSUME ArgsType == Args \subseteq Int
ASSUME TrnoType == TRNO_MOD \in Nat \ {0}

VARIABLES
  z,            \* the zone
  cache,        \* z->cache: between prev and next the offset is offs
  pc,           \* where control is
  op, arg,      \* the call in progress, or the last one
  t, min, max,  \* the arguments of __find_trno()
  trno,         \* its result
  xi, old,      \* the iterates of zif_utc_time()
  ans,          \* what the last call returned
  handled       \* history: every search so far was one the code provides for

search == <<t, min, max, trno>>
iter == <<xi, old>>
vars == <<z, cache, pc, op, arg, search, iter, ans, handled>>

Zrange(prev, next, offs, no) == [prev |-> prev, next |-> next, offs |-> offs, trno |-> no]

\* memory zif_open() has zeroed
Fresh == Zrange(0, 0, 0, 0)

Init ==
  /\ z \in Zones
  /\ cache = Fresh
  /\ pc = "idle"
  /\ op = "none" /\ arg = 0
  /\ t = 0 /\ min = 0 /\ max = 0 /\ trno = -1
  /\ xi = 0 /\ old = -1    \* as zif_utc_time() sets them on entry
  /\ ans = 0
  /\ handled = TRUE

-----------------------------------------------------------------------------
(* The calls. *)

ZifLocalTime(s) ==
  /\ pc = "idle"
  /\ op' = "local" /\ arg' = s /\ t' = s
  /\ pc' = "offs"
  /\ UNCHANGED <<z, cache, min, max, trno, iter, ans, handled>>

ZifUtcTime(s) ==
  /\ pc = "idle"
  /\ op' = "utc" /\ arg' = s /\ t' = s
  /\ pc' = "offs"
  /\ UNCHANGED <<z, cache, min, max, trno, iter, ans, handled>>

\* The stamps the search provides for: none before the first transition, not
\* the last transition itself, and with nothing remembered, when the search
\* leaves out the first range, none in there.
Served(s, fresh) ==
  /\ s \in Stamp
  /\ z.ntr <= TRNO_MOD
  /\ z.ntr > 0 => s >= z.trs[0] /\ s # z.trs[z.ntr - 1]
  /\ fresh => s >= 0 /\ s >= ZifTrans(z, 1)

ZifFindZrng(s) ==
  /\ pc = "idle"
  /\ op' = "zrng" /\ arg' = s /\ t' = s
  /\ min' = 0 /\ max' = z.ntr
  /\ handled' = (handled /\ Served(s, FALSE))
  /\ pc' = "find"
  /\ UNCHANGED <<z, cache, trno, iter, ans>>

-----------------------------------------------------------------------------
(* Coming back from __offs() with x: zif_local_time() is done with it,     *)
(* zif_utc_time() tries x as the estimate of the offset and looks again.   *)

\* The call returns x and its locals are gone.
Done(x) ==
  /\ ans' = x
  /\ pc' = "idle"
  /\ t' = 0 /\ min' = 0 /\ max' = 0 /\ trno' = -1
  /\ xi' = 0 /\ old' = -1

\* Mutant: the first estimate is good enough.
ReturnEstimate(x) == Done(IF op = "local" THEN arg + x ELSE arg - x)

Return(x) ==
  IF op = "utc" /\ x # xi /\ xi # old
    THEN /\ xi' = x /\ old' = x
         /\ t' = arg - x
         /\ pc' = "offs"
         /\ UNCHANGED <<min, max, trno, ans>>
    ELSE Done(IF op = "local" THEN arg + x ELSE arg - x)

-----------------------------------------------------------------------------
(* __offs(). *)

OffsHit ==
  /\ pc = "offs"
  /\ t >= cache.prev /\ t < cache.next
  /\ Return(cache.offs)
  /\ UNCHANGED <<z, cache, op, arg, handled>>

OffsLater ==
  /\ pc = "offs"
  /\ t >= cache.next /\ ~(t >= cache.prev /\ t < cache.next)
  /\ min' = cache.trno + 1 /\ max' = z.ntr
  /\ handled' = (handled /\ Served(t, cache = Fresh))
  /\ pc' = "find"
  /\ UNCHANGED <<z, cache, op, arg, t, trno, iter, ans>>

OffsEarlier ==
  /\ pc = "offs"
  /\ t < cache.next /\ t < cache.prev
  /\ min' = 0 /\ max' = cache.trno
  /\ handled' = (handled /\ Served(t, cache = Fresh))
  /\ pc' = "find"
  /\ UNCHANGED <<z, cache, op, arg, t, trno, iter, ans>>

-----------------------------------------------------------------------------
(* __find_trno(): the last transition before t, or -1. *)

Found(n) ==
  /\ trno' = n
  /\ pc' = "zrng"
  /\ UNCHANGED <<z, cache, op, arg, t, min, max, iter, ans, handled>>

NoneBefore == max = 0 \/ t < ZifTrans(z, min)

FindNone == pc = "find" /\ NoneBefore /\ Found(-1)

FindLast == pc = "find" /\ ~NoneBefore /\ t > ZifTrans(z, max) /\ Found(max - 1)

FindProbe ==
  /\ pc = "find"
  /\ ~NoneBefore /\ t <= ZifTrans(z, max)
  /\ pc' = "probe"
  /\ UNCHANGED <<z, cache, op, arg, search, iter, ans, handled>>

This == (min + max) \div 2

ProbeFound ==
  /\ pc = "probe"
  /\ t >= ZifTrans(z, This) /\ t < ZifTrans(z, This + 1)
  /\ Found(This)

\* Mutant: the upper half is searched from the top.
ProbeUpMax ==
  /\ pc = "probe"
  /\ t >= ZifTrans(z, This + 1)
  /\ max' = This
  /\ UNCHANGED <<z, cache, pc, op, arg, t, min, trno, iter, ans, handled>>

ProbeUp ==
  /\ pc = "probe"
  /\ t >= ZifTrans(z, This + 1)
  /\ min' = This
  /\ UNCHANGED <<z, cache, pc, op, arg, t, max, trno, iter, ans, handled>>

ProbeDown ==
  /\ pc = "probe"
  /\ t < ZifTrans(z, This) /\ t < ZifTrans(z, This + 1)
  /\ max' = This
  /\ UNCHANGED <<z, cache, pc, op, arg, t, min, trno, iter, ans, handled>>

-----------------------------------------------------------------------------
(* __find_zrng(): the range around the transition found, with its number   *)
(* cut to the width of the field.  Its branch for "the first offset has    *)
(* always been there" asks t < STAMP_MIN after a -1 and is never taken.    *)

\* Mutant: the number of the range after this one.
ZrngNext(n) ==
  IF n < 0 THEN Zrange(STAMP_MIN, STAMP_MAX, ZifTrOffs(z, 0), 0)
  ELSE Zrange(ZifTrans(z, n), IF n + 1 < z.ntr THEN ZifTrans(z, n + 1) ELSE STAMP_MAX,
             ZifTrOffs(z, n + 1), (n + 1) % TRNO_MOD)

Zrng(n) ==
  IF n < 0 THEN Zrange(STAMP_MIN, STAMP_MAX, ZifTrOffs(z, 0), 0)
  ELSE Zrange(ZifTrans(z, n), IF n + 1 < z.ntr THEN ZifTrans(z, n + 1) ELSE STAMP_MAX,
             ZifTrOffs(z, n % TRNO_MOD), n % TRNO_MOD)

ZrngCached ==
  /\ pc = "zrng"
  /\ op # "zrng"
  /\ cache' = Zrng(trno)
  /\ Return(Zrng(trno).offs)
  /\ UNCHANGED <<z, op, arg, handled>>

ZrngAlone ==
  /\ pc = "zrng"
  /\ op = "zrng"
  /\ Done(Zrng(trno).offs)
  /\ UNCHANGED <<z, cache, op, arg, handled>>

-----------------------------------------------------------------------------
Call == \E s \in Args : ZifLocalTime(s) \/ ZifUtcTime(s) \/ ZifFindZrng(s)

Offs == OffsHit \/ OffsLater \/ OffsEarlier
FindTrno == FindNone \/ FindLast \/ FindProbe \/ ProbeFound \/ ProbeUp \/ ProbeDown
FindZrng == ZrngCached \/ ZrngAlone

Work == Offs \/ FindTrno \/ FindZrng

Next == Call \/ Work

Spec == Init /\ [][Next]_vars

\* A call in progress is one thread of straight code: it goes on.
FairSpec == Spec /\ WF_vars(Work)

-----------------------------------------------------------------------------
(* Properties. *)

TypeOK ==
  /\ IsZone(z)
  /\ cache.prev \in Int /\ cache.next \in Int /\ cache.offs \in Int /\ cache.trno \in 0 .. TRNO_MOD - 1
  /\ pc \in {"idle", "offs", "find", "probe", "zrng"}
  /\ op \in {"none", "local", "utc", "zrng"}
  /\ arg \in Int /\ t \in Int /\ min \in Nat /\ max \in Nat /\ trno \in Int
  /\ xi \in Int /\ old \in Int /\ ans \in Int
  /\ handled \in BOOLEAN

\* What is remembered is true: "between PREV and NEXT the offset is OFFS".
CacheTrue == \A s \in Stamp : cache.prev <= s /\ s < cache.next => Right(z, s, cache.offs)

CacheSound == handled => CacheTrue

\* UTC to local time adds the offset in force, whatever was looked up before.
LocalRight == pc = "idle" /\ op = "local" /\ handled => Right(z, arg, ans - arg)

\* The search without the cache finds the offset in force, when it returns.
ZrngRight == pc = "idle" /\ op = "zrng" /\ z.ntr <= TRNO_MOD => Right(z, arg, ans)

\* No two transitions are so close that an offset reaches over both.
Calm(zz) ==
  \A i, j \in 0 .. zz.ntr - 1, k \in 0 .. zz.nty - 1 :
    i < j => zz.trs[j] - zz.trs[i] > 2 * zz.ofs[k] /\ zz.trs[j] - zz.trs[i] > -2 * zz.ofs[k]

\* One more look at the offset is enough for zif_utc_time(): where some UTC
\* stamp has the local time asked for, the answer is such a stamp, also when
\* the clock was put back and there are two.
UtcRight ==
  /\ pc = "idle" /\ op = "utc" /\ handled /\ Calm(z)
  /\ \E s \in Stamp : Right(z, s, arg - s)
  => Right(z, ans, arg - ans)

\* A search that goes on has less left to search.
Narrows == [][pc = "probe" /\ pc' = "probe" /\ handled => max' - min' < max - min]_vars

\* Every lookup returns, unless it is one the search does not provide for.
Returns == (pc # "idle" /\ handled) ~> (pc = "idle" \/ ~handled)
ReturnsAlways == pc # "idle" ~> pc = "idle"

\* The search without the cache, for any stamp of any zone: "find the last
\* transition before time, time is expected to be UTC".
ZrngAlwaysRight == pc = "idle" /\ op = "zrng" => Right(z, arg, ans)
=============================================================================
