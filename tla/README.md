# dateutils, specified and checked

TLA+ models of the parts of dateutils that keep state, loop, share or fail: the
line reader, the time zone lookups, the processes of `dsort`, the calendars, the
arithmetic of dates and date-times, and the tools `dseq`, `ddiff`, `dround` and
`dgrep`. TLC checks each on small instances; for the reader, the zones, `dsort`, dates,
dates with times, differences and sequences TLAPS proves the properties that matter
for every value of the constants.

Paths are those of the repository (`src/prchunk.c`, `lib/tzraw.c`). `X.tla` is
a component, `MCX.tla` gives its constants their values for TLC, `XProofs.tla`
holds its theorems. `PROJECT.json` maps every definition to its lines.

    tlc -config tzraw.cfg MCTzraw.tla
    tlapm TzrawProofs.tla

## 1. The system

The tools (`src/dadd.c` ... `src/strptime.c`) are single-threaded filters over
one library (`lib/`). Each reads dates from its arguments or line by line from
stdin, works on them, and prints. `dsort` alone is several processes.

| part | state | operations | what is hard | what makes it correct |
|---|---|---|---|---|
| line reader, `src/prchunk.c` | one static context: mapped buffer, table of packed line offsets, cursors | `init_prchunk`, `prchunk_fill` (a coroutine), `prchunk_haslinep`, `prchunk_getline`, `free_prchunk` | short reads, a full table, a left over, several files through one context, unterminated lines | the lines come out once each, in order, all of them; no index leaves the buffer |
| zones, `lib/tzraw.c` | an open zone's table and its cache of the last range | `zif_open`, `zif_local_time`, `zif_utc_time`, `zif_find_zrng`, `zif_close` | a cache that feeds the next search, an endless loop, boundaries, local times that occur twice or never | the offset is the one in force; the search ends |
| `src/dsort.c` | two pipes, three processes, their descriptors and statuses | `spawn_cut`, `spawn_sort`, `proc_file`, close, `waitpid` twice | inherited descriptors, blocking writes, helpers that fail | no process hangs; status 0 means complete output |
| calendars, `lib/ymd.c` `ymcw.c` `ywd.c` `yd.c` `bizda.c` `daisy.c` | none: values | conversions, getters, lengths of months and years | tables, cycles of 28 and 400 years, bit arithmetic | all calendars mean the same day |
| date arithmetic, `lib/date-core.c` and the calendars | the date a tool holds, lazy in between | `dt_dadd`, `dt_dconv`, `dt_dfixup`, `dt_dcmp`, `dt_ddiff` | carrying over, negative counts, the order of calls | the day asked for; the loops end; comparing and subtracting agree |
| dates with times, `lib/dt-core.c` `time-core.c` | as above, and the time | `dt_dtadd`, `dt_dtdiff`, `dt_dtconv`, `dt_dtcmp` | carries between time and date, leap seconds, narrow fields | additions and differences are inverse, order is chronological |
| leap seconds, `lib/leaps.c` | constant tables | `leaps_before_*` | a search with a guess and sentinels | the number of leap seconds before |
| zones of date-times, `lib/dt-core-tz-glue.c` | the offset a date-time carries | `dtz_forgetz`, `dtz_enrichz` | offsets before and after the zone is applied | `enrichz` undoes `forgetz` |
| zone caches, `src/dt-io-zone.c` `alist.c` | arrays of names and open zones | find, open, clear | growth, names at their limit, sharing | one zone per name |
| zone maps, `lib/tzmap.c` | a mapped file | open, find, compile | bisection over records of different lengths | a key is found iff it is there |
| `src/dseq.c` | first, current and last date, increment, skips | generate, skip, alternative increment | where the loop does not end | every date in range that is not skipped, once |
| `src/dexpr.c`, `dgrep.c` | a tree; where in a line the tool is | parse, drive negations in, disjunctive normal form, match, free | shared nodes, rotations, negated comparisons | the normal form means the expression; the lines it holds for come out |
| `src/ddiff.c` | the reference, the exit code | find the units a format has, take the difference in a calendar, divide it | which unit takes what, borrowing | what is printed adds up |
| `src/dround.c` | the specs read, the flag of a slash, the date-time under way | read specs, round by each in turn | carries, months' ends, the order of specs | the nearest value or multiple that way |
| `src/dadd.c`, `dconv.c`, `dzone.c`, `dtest.c`, `strptime.c` | command line | a loop over arguments or lines around the library | | |
| input and output, `src/dt-io.c`, `*-strpf.c`, `token.c`, `strops.c`, `dt-locale.c` | formats, needles, names | parse, print, find in a line | order of the formats tried | |

How they meet: a tool opens its zones through `dt-io-zone`, which keeps each
zone in an `alist` and hands the same `zif_t`, with its cache, to whoever asks
by that name. The loop over stdin is `prchunk_fill` / `prchunk_haslinep` /
`prchunk_getline`; each line goes through `dt-io`'s needles to the parsers,
then through the zone (`dtz_forgetz`, which is `zif_utc_time`), the arithmetic
and the zone again (`dtz_enrichz`, `zif_local_time`), to the printers. Nothing
is shared between threads; what survives from one line to the next are the
reader's context and the caches of zones, in `dround` the specs, in `dgrep` the
tree, in both the exit code.
`dsort` writes what it has read to `sort(1)`, whose output `cut(1)` prints.

The hazards, each at its line with the properties that would catch it, are
listed in `PROJECT.json`.

## 2. The modules

### Prchunk: the line reader

`Prchunk.tla` is the context of `src/prchunk.c` with the loop every tool runs
around it (`dsort`'s `proc_file` for several files). C pointers are offsets into
the buffer; `loff` is unpacked into an offset and the `\r` bit. The coroutine is
cut at its system call: `Fill*` is the prologue, with its `memcpy`; `Read*` the
label `yield1`, where `read(2)` returns any number of bytes; `Scan*` a turn of
`yield2`; `Yield` the two ways out, only one of which rewinds the cursor.
`Open` models what `init_prchunk` does and what it does not: the context is
static and only the buffer is new. `GetLine` is `prchunk_getline` with
`get_llen`'s arithmetic.

`LineStream.tla` is what the reader promises: an input, delivered line by line,
closed when all is out. `PrchunkStream.tla` maps one on the other, where the
input is the lines of all files as cut by a definition that sees each file
whole: `Ends` are the bytes at which a line ends, and the n-th line is the one with
n ends up to its own, in the order of the files. It does so for the command lines
of `Handled`: those on which every file but a short first one ends with its last
line. For all others there is nothing to refine, but
indices, copies and the end are checked there as well: only what such a file
leaves behind makes `prchunk_fill` refuse the next one.

### Zone and Tzraw: offsets

`Zone.tla` is a zone's table with its clamping accessors (`zif_trans`,
`zif_type`, `zif_troffs`) and `Right`, what it means for an offset to be in
force. `Tzraw.tla` is any sequence of the three lookups on one open zone.
`__find_trno` is a loop of its own (`FindNone`, `FindLast`, `ProbeFound`,
`ProbeUp`, `ProbeDown`), so that whether it ends is a question; `__offs` chooses
the part of the table from what the cache remembers; `Return` is
`zif_utc_time`'s iteration. `TRNO_MOD` is the width of the field the number of a
transition is kept in.

`handled` records that every stamp searched for so far was one the search
provides for (`Served`): not before the first transition, not the last
transition itself, not in the first range while the cache is still zeroed, no
more transitions than the field counts. The properties say what holds then.

### DsortPipe: three processes

`DsortPipe.tla` has a program counter, a set of pipe ends and a status per
process, two pipes of `CAP` lines, and the kernel's rules: a read ends when no
write end is left, a write to a pipe nobody reads kills. `SpawnCut` ...
`ParentOfSort` are `spawn_cut`, `spawn_sort` and what `vfork` inherits; `Feed`,
`CloseOutfd`, `WaitSort`, `WaitCut` are `main`. `sort(1)` and `cut(1)` are
external and modelled from how they are called. `Mishaps` may happen once each,
at any time: a process that cannot be made, a helper that cannot be executed,
fails, or is killed, `dsort` killed.

### Gregorian, Calendar, CalendarWalk: what day it is

`Gregorian.tla` holds the tables and helpers (leap years, `__get_jan01_wday`,
`__get_mdays`, `__get_isowk`, `__ymcw_get_mday` ...), `Calendar.tla` the six
calendars, their getters, `dt_dconv` between any two and `dt_dfixup`.
`CalendarWalk.tla` is the reference: a clock that turns one day at a time and
carries over by the rules of each calendar, with no formula in it. Walking it
checks every conversion on every day.

### DateOps, DateCore: arithmetic

`DateOps.tla` has the library's additions, comparisons and differences as
operators, `dt_dadd`'s branches among them, for every module above; `DateCore.tla`
is a tool that holds one date and makes calls: `AddD`, `AddW`,
`AddB`, `AddM`, `AddY` (the branches of `dt_dadd` and the functions of each
calendar under them), `Convert` (`dt_dconv`), `Fixup` (`dt_dfixup`). Days are
added to the smallest field (`DaysOn`, `WeeksOn`, `BizdaysOn`) and carried over
by `__ymd_fixup_d` and its kin; every turn of those loops is a `Turn`, with the
date under way in `work`. Months and years are only counted up, so that dates
are lazy between calls. `DCmp`, `DDiff`, `YmdDiff`, `YwdDiff` are `dt_dcmp` and
`dt_ddiff`. Fields are cut to their widths (`Y12`, `Y16`, 7 bits for a week's
count), and `__get_d_equiv`'s unsigned arithmetic is modulo 2^32.

`Goal` is the day a call is to reach, counted on day numbers only, `Now` the day
the state stands for, in the middle of a loop too.

### Leaps, DtOps, DtCore: dates with times

`Leaps.tla` is the table of `leap-seconds.def` and the search of `leaps_before_*`
turn by turn, as a recursive function; `ChangesBefore` counts what it should find.
`DtOps.tla` puts a time to a date (`dt_sandwich`): `DtAdd` is `dt_dtadd` with its
carry of days, its nanoseconds and its leap seconds, `DtCmp`, `DtDiffSecs`,
`DtDiffParts` compare and subtract, `DtzForgetz` and `DtzEnrichz` undo and apply a
zone, whose table is that of `Zone`, or TAI or GPS; `ZifUtcTime` is the iteration
of `Tzraw` in one step, its end having been checked there. The slot for the
offset is six bits of quarters of an hour, and its sign, which nothing clears, a
field of its own. `DtCore.tla` is a tool that holds a date-time and makes calls:
`Add`, `Forget`, `Enrich`, `Convert`, `Fixup`. `Base` is the day the epoch's clock
is set by, `NANOS_PER_SEC` a second's nanoseconds.

### Dseq: sequences

`Dseq.tla` is `dseq`'s `main`: arguments become date-times of one kind (`Ends`,
`Alike`), missing increments get their default (`Increment`), and dates become
numbers of days where that is feasible (`Numbered`). `Dir` is `__get_dir`, `Back`
and `Turn` are `__fixup_fst`, which finds the first date from the last with
`--compute-from-last`, `This` and `StepOff` are `__seq_this` and its loops off
skipped weekdays by the alternative increment or the increment, `Write` is the
loop of `main`. Every turn of each of the four loops is a step, so that a loop
that does not end is a behaviour.

### Ddiff: differences

`Ddiff.tla` reads a reference and lines. A format is the set of units it has;
`determine_durfmt` and `determine_durtype` choose what the difference is taken in,
`Precalc` divides it into the units, each given what the coarser ones have left.
The exit code lives from line to line.

### Dround: rounding

`Dround.tla` reads specs one by one, with the flag a slash leaves behind, and
lines, and applies each spec to what the one before has left. A `Round` is a turn
of `dround()`: to the next occurrence of a value (`tround_tdur`, `dround_ddur`) or
of a multiple (`tround_tdur_cocl`, `dround_ddur_cocl`), with the carry of a day a
time leaves to the date. `carry` is the slot that carry is kept in: undoing a zone
or an offset leaves one there too (`CarryOf`), which the next `dt_round` adds to
the date unless its unit sets the slot anew (`RoundTime`). `Parsed` is what becomes
of a line with an offset, `Cleared` how a date made anew forgets that its zone was
undone. Epochs are rounded by a remainder in an unsigned int, which wraps at
`UINT_RANGE`.

Epochs are added to in `DtOps`, where weeks, months and years add the bits of their
slot, 65536 seconds for each.

### Dexpr, Dgrep: expressions

`Dexpr.tla` is a heap of nodes, because the code's tree is none: distributing a
conjunction over a disjunction makes two nodes point to one. Its operators are
the parser's reductions, `dexpr_denega` and `__dnf` call by call (a call is an
entry of a stack, so the recursion is a sequence of steps), the matcher, and the
freeing of nodes. `Dgrep.tla` simplifies the expression on its command line, goes
through lines of date-times in every mode, and frees. `Meaning` is the value of
the expression as it was written, with no tree in it.

## 3. The runs

| run | states | checks |
|---|---|---|
| `prchunk_stream` | every text over a character, `\n`, `\r` of up to 4 bytes, up to 5 if terminated, two and three files, directories and missing ones | `StreamSpec`: the reader implements `LineStream`; `LinesInBuffer`, `NoOverlap`: its indices; `Termination` |
| `tzraw` | zones of up to two of four transition times and of five, two tables of offsets, any sequence of ten stamps | `CacheSound`, `LocalRight`, `ZrngRight`, `UtcRight`: cache and answers; `Returns`: the search ends |
| `dsort_pipe` | seven inputs of up to four lines, with missing files, pipes of two lines, all mishaps in any order | `CleanExit`, `ExitIsLast`, `AllEnd` |
| `calendar_walk` | every day of 1601 to 2106 and of 4085 to 4093 | `ConversionsAgree`, `CountsAreRight` |
| `date_core` | two calls in a row of any kind from 22 days in seven calendars | `GoalIsKept`, `DatesAreSound`, `OrderAgrees`, `DiffCountsWorkdays`, `DiffAddsBack`, `CallsReturn` |
| `dt_core` | two calls in a row from seven days in five calendars at seven times, epochs and times; 16 durations, five zones | `AddIsExact`, `RealSecondsAreAdded`, `ZonesAreUndone`, `LocalTimeIsShown`, `DifferencesAddBack`, `WeeksAddBack`, `MomentsAreOrdered` |
| `dseq` | some two thousand command lines, up and down, by date, date-time and time | `OnlyWhatWasAsked`, `NothingIsMissed`, `SequenceLeadsOn`, `SequencesEnd` |
| `ddiff` | 22 references, 52 lines, 22 formats, two lines each | `UnitsAddUp`, `UnitsAreCarried`, `ExitTells` |
| `dround` | some 7100 command lines of up to two specs and three lines, with zones, offsets and epochs | `RoundsToNearest`, `RoundsToMultiple`, `OrderIsKept` |
| `dgrep` | all shapes of up to four comparisons and many of five, every operator, the specifiers, lines of up to three dates in every mode | `MeaningIsKept`, `LinesAreRight`, `Terminates` |

The type invariants (`TypeOK`) of `Prchunk`, `Tzraw` and `DsortPipe` are proved, and
so no run has them; that of `DateCore` is part of `DatesAreSound`; those of the
other modules hold in their runs and need only their name in the cfg.

Two runs show where the code does not do what a comment or a manual says of it:

- `prchunk_last_chunk`: a file whose last line is unterminated loses the lines
  of its last read if a whole fill came before. `prchunk_fill` asks
  `cur_lno <= tot_lno` while `cur_lno` is still the cursor of the fill before:
  20000 lines without the last newline come out as 16384.
- `dgrep_four`: `dgrep '2012-01-01||2012-01-02||2012-01-03||2012-01-04'` prints the
  first and the last only. `__dnf` turns a disjunction on the left around once,
  which for four of them leaves one where the matcher reads a comparison.

More formulas state what a document or a comment says and the code does not do.
Each needs only a cfg like that of its module's run, with the formula's name and
the constants given here. The passing properties leave out exactly these cases,
by name (`handled`, `BizdaysSupported`, `AltLeadsOn`, `NormalForm`, `StaleCarry`,
`Wraps` and so on).

| formula | claim | counterexample |
|---|---|---|
| `PrchunkStream!Faithful` (`Argv <- AnyThree`) | the lines that came out are the first there are | the cursor a file before has left drops a later file of `dsort a b` that ends in an unterminated line, with status 0 |
| `Tzraw!CacheTrue` | between PREV and NEXT the offset is OFFS (`tzraw.c:151`) | the zeroed cache passes for a range found before; a first lookup in the first range makes the cache remember one offset for all time |
| `Tzraw!ReturnsAlways` | a lookup returns | that of the very stamp of a zone's last transition does not (`dconv` hangs on 2037-10-25T01:00:00 from Europe/Berlin) |
| `Tzraw!ZrngAlwaysRight` (`TRNO_MOD = 2`) | the last transition before a stamp is found | with more transitions than eight bits count, another one is |
| `CalendarWalk!DesignRangeHasDates` (`Walks <- MCLast`) | day numbers have dates up to year 4095 (`date-core.h:97`) | `__daisy_to_ymd` stops at 4094-05-04 |
| `CalendarWalk!BusinessDaysHaveWeeks` (`MCDecade`) | `__make_ywd_ybd` is ISO compliant | 2010-01-01b is put a week late, in years that begin on a Friday or a weekend |
| `CalendarWalk!YmcwBusinessDays` (`MCDecade`) | the n-th business day after ultimo | `__ymcw_get_bday` is six off for a Monday that begins a month |
| `CalendarWalk!IsoDatesCountMondays` (`MCDecade`) | `%W` counts weeks from Monday | 2010-W01-1 has 00 |
| `DateCore!ManyBizdays` (`Bizdays <- MCMany`) | business days away from now (`bizda.c:58`) | 300 workdays before a day is another day: an unsigned sum wraps and 2^32 is no multiple of a week |
| `DateCore!IsoDatesAddBizdays` | `__ywd_add_b` adds business days | it returns its date |
| `DateCore!YmcwAddsBizdays` | `__ymcw_add_b` adds business days | from a Saturday one business day leads to Tuesday |
| `DateCore!IsoDiffHasWeeks` (`Firsts <- MCLongYear`, `Days <- MCFiveYears`) | `__ywd_diff` is d2 - d1 | 1992-W53-3 to 1998-W01-2 has 127 weeks |
| `DtCore!LeapsAreCounted` (`Firsts <- MCBetween`) | `leaps_before` finds the transition before (`leaps.c:62`) | behind six of the entries it finds the one before that: `dconv --zone TAI 2007-01-01T00:00:00` shows :32 for :33 |
| `DtCore!AllRealSecondsAreAdded` | `rs` counts leap seconds | `dadd 2012-06-30T23:59:59 94608002rs` shows 23:59:61 |
| `DtCore!EpochsAreOrdered` | `dt_dtcmp` orders dates | two epochs always compare equal |
| `DtCore!OffsetIsShown` | `%Z` is the offset from UTC | the sign of the zone before stays: from New York to Berlin is `-01:00` |
| `Dseq!AllSequencesEnd` (`Args <- MCNaught`) | an alternative increment of 0 deactivates it (`dseq.yuck:56`) | `dseq 2012-03-01 1d 2012-03-06 --skip sat --alt-inc 0` never ends |
| `Dseq!SkippedAreSkipped` | weekdays given are skipped | `dseq 2012-01-31 1mo 2012-04-30 --skip wed` prints 2012-02-29, a Wednesday; of ordinal dates none is skipped |
| `Ddiff!RealSecondsAreCounted` (`Refs <- MCLeap`, `Fmts <- MCReal`) | `%rS` includes leap seconds | their sign is turned around for a later reference: -172797 for -172801 seconds |
| `Dround!OccurrenceIsNext` (`Jobs <- MCStale`) | a date-time is rounded to the next occurrence (`dround.yuck:3`) | weekdays, days and months set no carry, and `dt_round` adds the day again by which an offset or `--from-zone` has moved the date: `dround 2012-01-01T23:30:00-05:00 Mon` is 2012-01-09T04:30:00, a week behind the next Monday |
| `Dround!TimeIsPartitioned` (`MCEarly`) | the oldest multiple that is younger is returned (`dround.yuck:38`) | a negative remainder in an unsigned int puts epochs before 1970 2^32 seconds off: `dround -i %s -- -100 /1h` is 1833-11-24T18:31:44 |
| `Dround!SlashesAreOwn` (`MCSlash`) | a spec may be prefixed with a slash | the slash counts for all specs after it: `dround 2012-05-05T13:14:15 /1h 30m` |
| `Dround!NextIsDifferent` (`MCLast`) | `--next` rounds to a different date | `dround --next 2012-02-29 31d` does not |
| `Dround!ResultsAreDates` (`MCBack`) | specs may be negative | `dround 2012-05-05 -- -3mo` is 2011-13-00 |
| `Dround!ZonesComeLast` (`MCZone`) | the zone is undone on the rounded date (comment in `dround.c`) | for arguments it is; lines of stdin are taken from it before they are rounded, and again afterwards where a weekday or a business day has made the date anew: of `2012-01-01T23:30:00` from New York `Mon` makes 2012-01-09T09:30:00, as an argument 2012-01-03T04:30:00 |
| `Dround!WeeksAreOfTheirYear` | an ISO date knows how its year begins | `-52w` goes into another year with the hang over of the old one |
| `Dgrep!AnyExpressionIsGrepped` (`MCThree`) | conditions may be concatenated | `a && b && c` matches nothing |
| the same (`MCNegated`) | `!(a\|b) -> !a & !b` (comment in `dexpr.c`) | it becomes `!a \|\| !b` |
| the same (`MCReversed`) | `%d<3` is less than 3 | the comparison is turned around |
| the same (`MCBare`) | `!date` is any other date | it is every date |
| `Dgrep!FreedOnce` (`MCShared`) | nodes are freed once | those that distribution shares twice; glibc aborts and what was buffered is lost |

### Bounds, and why they are enough

- Reader: `CHUNK_SIZE` = 2, `MAX_NLINES` = 2, `MAP_LEN` = 7 instead of 4096, 16384
  and 16384 * 1024. The smallest sizes at which a `\r\n` is cut by a read, a read
  fills the table in its middle, a left over is copied, and a third fill
  follows. The proofs of the index discipline hold for all sizes.
- Zones: five transitions are the fewest for a search that goes up and then
  down; stamps lie on, next to, between, before and behind transitions.
  `STAMP_MIN`, `STAMP_MAX` are -9 and 12 for -2^47 and 2^47 - 1, further out than
  any transition plus offset. The proofs hold for every table.
- dsort: pipes of two lines are full with four lines on the way, so that each of
  the writers blocks; `Most` bounds the input. The proofs hold for any.
- Calendars: weekdays repeat after 400 years; 1601 to 2106 is such a cycle and a
  century. A `Walks` triple begins on a Monday the first of January.
- Date-times: the days are next to a leap February, to New York's two changes of
  clocks, to two leap seconds and to the end of a year, the times around midnight,
  in the hours that are skipped or come twice, and the leap second itself; a
  second has ten nanoseconds, which carries and borrows as one of 10^9 does.
- Sequences: 17 days hold two weekends and three of every increment; a loop that
  does not end runs out of the range, or stays in it, well before that.
- Differences: the reference and the lines are on both sides of the ends of
  months, years and leap days, and in the year behind a leap year, which is where
  `__yd_diff` is a day off; the formats have every unit with and without its
  neighbours; two lines, as the exit code remembers one.
- Rounding: every unit, up and down, at and next to the values it rounds to; two
  specs, as the second sees only what the first has left; two lines for the order.
  Zones and offsets move the lines over midnight both ways and not at all. Epochs
  are on both sides of 1970, on multiples and off them. `UINT_RANGE` is 2^30, as
  TLC's integers do not hold 2^32: like it, it is no multiple of an hour and
  further than any epoch of the run. How the model runs was compared with the
  program on the 5200 command lines of the run with times, date-times of ymd and
  epochs.
- Expressions: four comparisons are the fewest that a rotation of one level does
  not bring into order and that are distributed twice. Five lines tell all
  comparisons apart. How the model runs was compared with the program on the
  274 expressions of the run.
- Arithmetic: the days read are next to the ends of months, of a leap February,
  of a year of 53 weeks and of a February before a century that is no leap year;
  the amounts cross one and several of them, both ways; `Calls` = 2 adds to what
  an addition, or a lazy month, has left.

### Fairness

One thread, straight code: `Prchunk` has `WF(Next)`, since `read(2)` of a file
returns; `Tzraw` has `WF(Work)`, so a lookup goes on once called but nobody has
to call; `DateCore` has `WF(Turn \/ Store)` alike; `Dseq` and `Dgrep` have `WF(Next)`,
a program whose loops are all that keeps it from ending. In `DsortPipe` each process
has weak fairness, as the kernel runs whoever can go on; mishaps have none, as
nothing has to go wrong. `CHECK_DEADLOCK FALSE` stands where the system may
stop: `dsort` ends, a walk reaches its last year, a tool makes its last call or
has read its last line.

## 4. The proofs

| theorem | for every |
|---|---|
| `PrchunkProofs`: `TypeCorrect`, `LinesAreInBuffer`, `CopyIsDisjoint`, `StreamIsServed` | command line, alphabet, chunk, table and buffer size with `CHUNK_SIZE <= MAX_NLINES` |
| `TzrawProofs`: `TypeCorrect`, `CacheIsSound`, `LocalIsRight`, `ZrngIsRight`, `UtcIsRight`, `SearchNarrows` | zone, sequence of lookups and width of the field |
| `DsortPipeProofs`: `TypeCorrect`, `CleanExitIsComplete`, `NothingComesLater` | input, pipe size, sorting function, set of mishaps |
| `DateCoreProofs`: `DaysAreAddedExactly`, `DatesStaySound`, `OrderIsOfDays`, `WorkdaysAreCounted`, `DifferencesAreUndone` | date in ymd and yd, amounts of every kind and number of calls |
| `DtCoreProofs`: `ClockTimeIsAddedExactly`, `RealSecondsCount`, `LocalTimeIsRight`, `ZonesAreLeft`, `DifferencesLeadBack`, `OrderIsOfMoments` | date-time, date, time and epoch in ymd and day numbers, duration, zone and number of calls |
| `DdiffProofs`: `UnitsMakeTheDifference`, `UnitsStayCarried`, `ExitCodeTells` | references and lines in ymd, yd and day numbers, formats but those named below, number of lines |
| `DseqProofs`: `NothingElseIsPrinted`, `NothingIsLeftOut`, `DaysLeadOn` | ends in ymd, yd and day numbers, stacks of increments of any length (the last two: of days), weekdays to skip |

Each rests on an inductive invariant (`IInv`, for `StreamIsServed` also `Serves`, in
`DdiffProofs` `Computed` and `Told`, in `DseqProofs` `INum` and
`ILead`), with one lemma per action that the theorem combines. Every one of them
was an invariant of a run before it was proved. The `ASSUME`s of the components
and the hypotheses named here are all that is assumed:

- `DateCoreProofs`, `CivilAssumption`: the calendars are ymd and yd, what is read
  has a year from 1601 to 4094, what is added are integers.
- `DtCoreProofs`, `Known`: the calendars are ymd and day numbers, the fields of
  what is read are in range (24:00 and leap seconds included), what is added are
  integers, a zone has integers for offsets. The search in a zone is
  `TzrawProofs`' subject, that in the table of leap seconds is not right for all
  days (`LeapsAreCounted`), so `RealSecondsCount` is for where it is, as the run is.
  `AllTabled` of `ZonesAreLeft`: zones have a table of transitions in order and an
  offset on either side of each, all transitions further apart than twice any
  offset (as `UtcRight` has it); TAI and GPS, whose offsets are leap seconds, are
  left to the run.
- `DdiffProofs`, `AllReadable`: the references and the lines are dates or
  date-times in ymd, yd or day numbers with a year from 1601 to 4095, or times;
  `NoWeekDates` of `UnitsStayCarried` and `UnitsMakeTheDifference`: no format asks
  for weeks of years, as the loop of `__ywd_diff` for long years would have to be
  shown to end. The `ddiff` run has such formats.
- `DseqProofs`, `CivilLines`: the first and the last one are dates in ymd, yd or
  day numbers, not necessarily the same, with a year from 1601 to 4094, or times;
  increments are any sequences of durations. `NothingIsMissed` is about increments
  of days or weeks by its own words. `LinesByDays` of `DaysLeadOn`: the increment and
  the alternative, if any, are some days, weeks or business days each, and the
  first one is no ISO ordinal date, so that the sequence is of day numbers. With
  months and years, and in calendars with years, an amount that wraps the 12 bits
  of a year leads back, so that it does not hold for every amount; the run has
  such increments of modest size.

- *Reader.* That a line lies in the buffer follows from `Index`, the offsets so
  far partition what was scanned, up to `o`. That `memcpy` never overlaps needs
  more: `Window` says that newlines yet to be found are within the last read, or
  the first two chunks, so that a fill that ends early has a left over shorter
  than a chunk, behind at least `MAX_NLINES` bytes (`Leftover`). `TypeOK` alone is
  not inductive: without `Index` a line offset could lie anywhere.
- *Reader, as a stream.* `StreamIsServed` is the refinement: a `GetLine` is
  `LineStream`'s `Deliver`, `Finish` its `Close`, all else a stutter. For that the
  text must be followed through the buffer, which `Serves` does: `Base` is the byte
  of the file the buffer begins with, `Placed` says that what was not looked at yet
  is the file from there on and that as many lines end in what was as the table
  has, `Parsed` that each entry of the table is the line of its number, `Delivered`
  that the tool has the lines up to `Base` and those its cursor has passed. Lines are
  numbered by counting ends (`Rank`), so that one more newline is one more line
  (`OneMore`) without an induction over the text. `Pending` is why `ScanEnd` never
  gives up a file, `Single` why an unfinished line is found only in a first file
  that one fill reads: it is where `Handled` is needed, as the cursor of the fill
  before decides there. For other command lines `Complete` is violated.
- *Zones.* `Remembered` says the cache is zeroed or a range of the table,
  `Enclosed` that `min` and `max` bracket the transition looked for, from
  whichever cached number the search set out, `Hit` that what it found rules.
  `UtcIsRight` adds that two transitions further apart than twice an offset
  allow one correction at most.
- *dsort.* `Conserved` follows the lines: while sort writes, stdout, the pipe and
  what sort still holds are the sorted lines it has read; `Unread` says what it
  has read, pipe and rest are the input; `Descriptors` who keeps whom from
  seeing an end of file. `Waited` ties the statuses to the order of waiting.
- *Days.* `Lin` is the day a date under way stands for. It stays the goal in
  every turn because a month and a year are as long as the code's tables say
  (`MonthStep`, `YearStep`); at the end the year is shown to fit the bits it is
  stored in, if the goal lies in a year that does (`YearFits`); and reading a
  date back gives the day it was made from (`DaisyToYmdIsDate`,
  `DaisyToYdIsDate`, `FixupIsDate`).
- *Dates.* The same invariant says that whatever a call leaves is a date of its
  calendar or the naught, which is `DatesAreSound`. Fields compare as days do
  because days of a month, or of a year, lie before those of the next
  (`DCmpIsOrder`). Workdays are counted in whole weeks and a rest of at most six
  days, which is followed weekday by weekday (`CalendarProofs`: `WorksStay` and
  the lemmas around it). A difference in months is undone because the days
  borrowed from one or two months are those `__ymd_fixup_d` finds again.
- *Moments.* `TAddS` splits a sum of seconds into days and a time of the day
  (`TAddSIs`), days are added as `DateCoreProofs` has it, and so a sum of seconds
  is the moment that much later, from 24:00 and in nanoseconds too. `IInv` says
  what was asked of what, since the properties are about the last call only,
  and that every slot of a date is a date of ymd or a number, or none: without
  it the next call has no calendar to add in. `RealSecondsCount` goes through
  the cases of a moment before, at and behind the leap second that is crossed.
- *Zones left.* A zone is undone by looking at the offset of the local time and
  then at that of the moment guessed from it. These two and the moment itself lie
  within twice an offset of each other, so that no two transitions come between
  (`ChangesAreApart`): either the first guess is right, or the second look is at
  the side of the one transition that the moment is on (`SecondLookIsRight`).
  `ZonesAreUndone` asks for a year that the stamp can be written in, as beyond
  the last one the years wrap.
- *Differences of moments.* Where the times of the day are against the dates the
  second date is taken a day nearer, and the seconds make up for that
  (`NearerIs`), so that only differences of dates in order are left. Months and
  days lead on because the days borrowed are those of the months gone over
  (`MonthsLeadOn`); years and days are counted as if no year had a 29th of
  February, which is set right by what the code calls late dates, but for the
  one loss `LosesLeapDay` names (`YdApartLeads`, `LossIsTold`). `DifferencesAddBack`
  asks for a year, a month and a day for both dates: day numbers from May 4094 on
  have none, and nothing to take a difference of months from.
- *Differences of lines.* `Computed` ties what was printed to the reference, the format
  and the line. `LeftMakesUp` puts the units together again that `precalc` took
  apart; `LeftLeadsForth` and `LeftLeadsBack` follow `__ymd_diff` through its
  borrowing and `__yd_diff` through its late dates, where going back over midnight
  costs a day (`after`); `StampsAddUp` says so of dates with times.
- *Sequences.* The two ends become dates of one calendar that stand for days in the
  order asked for (`EndsAreDays`). A stack of durations is a `FoldLeft`, so what
  it keeps is shown by induction over the places of the stack (`StackKeeps`):
  whatever is added, the date is one of its calendar. Being in range by fields is
  being in range by days (`OrderIsOfDays`), and a date is written only in range
  and off the weekdays to be skipped, which is `OnlyWhatWasAsked`. For
  `NothingIsMissed` days are numbers on a grid as wide as the increment: `INum`
  says that on the way back the date held is the next that is wanted, or before
  the first; that stepping off skipped weekdays passes over nothing else
  (`NoneBetween`); and that what was printed is what is wanted before the date
  that is held now. `DaysLeadOn` has business days and alternatives too, which are no
  grid; what it needs is that they lead the way of their sign from any day
  (`WorkdaysLead`, `LaterOn`), also once a number has run below the first day of
  all, and `ILead` follows the sign of the increment through its being turned
  around and keeps the date that is held ahead of the one printed last.

Two attempts at a proof failed for a reason, and the properties say now what
holds: `ddiff` in years and days (`__yd_diff`) takes a day off where a 29th of
February lies in the year before the last (2003-02-28 to 2005-01-29 is printed as
1 year and 335 days, not 336, against the comment of `yd.c:801`), which
`LosesLeapDay` excludes by name; and fractions of a second between date-times are
cut off, so that nanoseconds add up for times only.

Only model-checked:

- liveness (`Termination`, `Returns`, `AllEnd`, `CallsReturn`, `SequencesEnd`,
  `Terminates`), which the prover does not treat;
- `ConversionsAgree`, `CountsAreRight` for the calendars no theorem is about (for
  ymd, yd and day numbers they are lemmas of `CalendarProofs`), and all arithmetic
  in ymcw, ywd and bizda, whose conversions go through tables of hang overs;
- `WeeksAddBack`, whose ISO weeks `YwdApart` counts, and `ZonesAreUndone` for TAI
  and GPS;
- `SequenceLeadsOn` by months and years, and `Dseq` with date-times or in ymcw, ywd
  and bizda;
- `Dround` and `Dgrep`, the last of which needs induction over a heap.

## 5. Not modelled, and the plan

What is worth doing next:

1. Proofs: `RoundsToMultiple` and `OrderIsKept` of `Dround`; `HangIsRight` as the way to ywd.
   `MeaningIsKept` needs induction over the heap and stays with TLC.
2. `TzOpen` (the loop of `zif_open` that thins transitions out in place), `Alist`
   and the zone caches, the bisection of `tzm_find`.
3. The units of `ddiff` that are counted after a week or a business day, and its
   `--empty-mode`.

Left out for good: parsing and printing, locales and escapes are text moved
under a cursor (`*-strpf.c`, `token.c`, `strops.c`, `dt-locale.c`, `ltrcc.c`);
`ummulqura.c` is a table; `dadd`, `dconv`, `dzone`, `dtest` and `strptime` are loops
around calls that are modelled; the option parsers (`build-aux/yuck.c`) and build
files are generated or vendored; the manuals and tests are read as documents.
Julian day numbers are floats and left out of `Calendar`, as is bizda's "before"
variant, which no tool can ask for in arithmetic. `Prchunk` models a failing read
for directories only (after one in the middle of a file `bno` is a byte short of
`off`, for which every later fill, of the files behind it too, is refused), and stops at `MAP_LEN`, which the code does not compare
with: lines longer than 1024 bytes on average are outside the model. `DtCore`
leaves the current time and `SEXYTAI` out, `Dround` the months of calendars other
than ymd and ymcw, `Dgrep` how a date-time is found in a line.
