------------------------------ MODULE Prchunk -------------------------------
(***************************************************************************)
(* The chunked line reader of src/prchunk.c, driven the way every tool     *)
(* drives it (proc_file() of src/dsort.c is the one that takes several     *)
(* files).  The reader's context is ONE static object: init_prchunk() maps *)
(* a fresh buffer for each file and leaves every other member as the       *)
(* previous file left it.                                                  *)
(*                                                                         *)
(* prchunk_fill() is a coroutine between a counter of lines and a reader   *)
(* of CHUNK_SIZE bytes.  It is cut into steps at the system call: Fill*    *)
(* (prologue), Read* (label yield1), Scan* (one turn of the loop at label  *)
(* yield2); yield3 and yield4 are the two ways out.  Offsets are the C     *)
(* pointers minus ctx->buf, so o is the local `off' and b the local `bno'. *)
(***************************************************************************)
EXTENDS Integers, Sequences

CONSTANTS
  Argv,         \* the command lines: each a sequence of files
  Char,         \* the bytes that are neither \n nor \r nor \0
  NL, CR, NUL,  \* those three
  CHUNK_SIZE,   \* bytes asked of one read(2)
  MAX_NLINES,   \* lines a fill may hold
  MAP_LEN       \* bytes of the buffer

Byte == Char \cup {NL, CR}

\* "noent" fails in open(2), "dir" in every read(2).
File == [kind : {"file", "dir", "noent"}, data : Seq(Byte)]

ASSUME ArgvType == \A a \in Argv : a \in Seq(File)

ASSUME ByteType == NL # CR /\ NL # NUL /\ CR # NUL /\ {NL, CR, NUL} \cap Char = {}

\* The defaults are 4096, 16384 and 16384 * 1024.
ASSUME SizeType ==
  /\ CHUNK_SIZE \in Nat \ {0}
  /\ MAX_NLINES \in Nat
  /\ MAP_LEN \in Nat
  /\ CHUNK_SIZE <= MAX_NLINES

VARIABLES
  argv,     \* the command line of this run
  fidx,     \* how many of its files have been opened
  pos,      \* the kernel's offset in the open file
  buf,      \* ctx->buf
  tot_lno,  \* ctx->tot_lno
  cur_lno,  \* ctx->cur_lno
  bno,      \* ctx->bno
  off,      \* ctx->off
  loff,     \* ctx->loff, unpacked into the offset and the \r bit
  pc,       \* where control is
  o, b,     \* prchunk_fill()'s locals off and bno, from ctx->buf
  nrd,      \* prchunk_fill()'s local nrd
  out       \* history: the lines the tool has been given

ctx == <<buf, tot_lno, cur_lno, bno, off, loff>>
locals == <<o, b, nrd>>
vars == <<argv, fidx, pos, ctx, pc, locals, out>>

NoLine == [off |-> 0, cr |-> 0]

Init ==
  /\ argv \in Argv
  /\ fidx = 0
  /\ pos = 0
  /\ buf = [i \in 0 .. MAP_LEN - 1 |-> NUL]
  /\ tot_lno = 0 /\ cur_lno = 0 /\ bno = 0 /\ off = 0
  /\ loff = [i \in 0 .. MAX_NLINES - 1 |-> NoLine]
  /\ pc = "open"
  /\ o = 0 /\ b = 0 /\ nrd = 0
  /\ out = << >>

-----------------------------------------------------------------------------
(* The driver and init_prchunk(). *)

File0 == argv[fidx]

Open ==
  /\ pc = "open"
  /\ fidx < Len(argv)
  /\ fidx' = fidx + 1
  /\ IF argv[fidx + 1].kind = "noent"
       THEN UNCHANGED <<pos, buf, pc>>
       ELSE /\ pos' = 0
            /\ buf' = [i \in 0 .. MAP_LEN - 1 |-> NUL]
            /\ pc' = "fill"
  /\ UNCHANGED <<argv, tot_lno, cur_lno, bno, off, loff, locals, out>>

Finish ==
  /\ pc = "open"
  /\ fidx = Len(argv)
  /\ pc' = "done"
  /\ UNCHANGED <<argv, fidx, pos, ctx, locals, out>>

\* The process has left the loop over the files and stays there.
Done == pc = "done" /\ UNCHANGED vars

-----------------------------------------------------------------------------
(* prchunk_fill(), the prologue. *)

FillFresh ==
  /\ pc = "fill"
  /\ bno \in {0, off}
  /\ bno' = 0
  /\ tot_lno' = 0 /\ o' = 0 /\ b' = 0
  /\ pc' = "read"
  /\ UNCHANGED <<argv, fidx, pos, buf, cur_lno, off, loff, nrd, out>>

\* memcpy() of the bytes left over to the front of the buffer.
FillLeftover ==
  LET rsz == bno - off IN
  /\ pc = "fill"
  /\ bno > off /\ bno # 0
  /\ buf' = [i \in DOMAIN buf |-> IF i < rsz THEN buf[off + i] ELSE buf[i]]
  /\ bno' = rsz
  /\ tot_lno' = 0 /\ o' = 0 /\ b' = rsz
  /\ pc' = "read"
  /\ UNCHANGED <<argv, fidx, pos, cur_lno, off, loff, nrd, out>>

\* A fill that returns -1 ends the file: free_prchunk(), close().
FillRefused ==
  /\ pc = "fill"
  /\ bno < off /\ bno # 0
  /\ tot_lno' = 0 /\ o' = 0 /\ b' = bno
  /\ pc' = "open"
  /\ UNCHANGED <<argv, fidx, pos, buf, cur_lno, bno, off, loff, nrd, out>>

-----------------------------------------------------------------------------
(* prchunk_fill(), from read(2) on. *)

Full(n) == n >= MAX_NLINES

\* Mutant: the left over offset is not noted.
YieldNoNote(o1, b1, rewind) ==
  /\ UNCHANGED off /\ o' = o1
  /\ bno' = b1 /\ b' = b1
  /\ cur_lno' = IF rewind THEN 0 ELSE cur_lno
  /\ pc' = "lines"

\* The epilogue: the left over offset is noted for the next fill; label
\* yield3 also rewinds the line cursor, yield4 does not.
Yield(o1, b1, rewind) ==
  /\ off' = o1 /\ o' = o1
  /\ bno' = b1 /\ b' = b1
  /\ cur_lno' = IF rewind THEN 0 ELSE cur_lno
  /\ pc' = "lines"

\* read(2) hands over n bytes: any number up to CHUNK_SIZE.
ReadBytes(n) ==
  /\ pc = "read"
  /\ File0.kind = "file"
  /\ pos + n <= Len(File0.data)
  /\ b + n <= MAP_LEN
  /\ buf' = [i \in DOMAIN buf |->
               IF i \in b .. b + n - 1 THEN File0.data[pos + 1 + (i - b)] ELSE buf[i]]
  /\ pos' = pos + n
  /\ b' = b + n
  /\ nrd' = n
  /\ pc' = "scan"
  /\ UNCHANGED <<argv, fidx, tot_lno, cur_lno, bno, off, loff, o, out>>

\* Mutant: unterminated lines are not lines.
UnyieldedNever == FALSE

\* The bytes at the end that no newline has turned into a line yet.  cur_lno
\* still is what the tool's last pass over the lines has left behind.
Unyielded == o < b /\ cur_lno <= tot_lno

AtEof == File0.kind = "file" /\ pos = Len(File0.data)

\* End of file behind an unterminated line: count it as a line.
ReadLastLine ==
  /\ pc = "read"
  /\ AtEof
  /\ Unyielded
  /\ nrd' = 0
  /\ loff' = [loff EXCEPT ![tot_lno] = [off |-> b, cr |-> 0]]
  /\ tot_lno' = tot_lno + 1
  /\ Yield(b, b, Full(tot_lno + 1))
  /\ UNCHANGED <<argv, fidx, pos, buf, out>>

\* End of file or an error otherwise.
ReadNothing ==
  /\ pc = "read"
  /\ \/ AtEof /\ ~Unyielded /\ nrd' = 0
     \/ File0.kind = "dir" /\ nrd' = -1
  /\ LET b1 == b + nrd' IN
     \/ /\ o = 0 /\ bno = 0             \* nothing in the pipe line
        /\ b' = b1 /\ pc' = "open"
        /\ UNCHANGED <<cur_lno, bno, off, o>>
     \/ /\ (o = 0 /\ bno # 0) \/ (o # 0 /\ o < b1)
        /\ b' = b1 /\ pc' = "scan"
        /\ UNCHANGED <<cur_lno, bno, off, o>>
     \/ /\ o # 0 /\ o >= b1
        /\ Yield(o, b1, TRUE)
  /\ UNCHANGED <<argv, fidx, pos, buf, tot_lno, loff, out>>

\* memchr(): the first newline at or after o.
NextNewline(p) ==
  /\ p \in o .. b - 1
  /\ buf[p] = NL
  /\ \A q \in o .. p - 1 : buf[q] # NL

\* For p = 0 the code looks at the byte before the mapping, which is the
\* last byte of ctx->soff and never holds a \r.
ScanLine(p) ==
  LET cr == IF p > 0 /\ buf[p - 1] = CR THEN 1 ELSE 0 IN
  /\ pc = "scan"
  /\ NextNewline(p)
  /\ loff' = [loff EXCEPT ![tot_lno] = [off |-> p, cr |-> cr]]
  /\ buf' = [i \in DOMAIN buf |-> IF i = p \/ (cr = 1 /\ i = p - 1) THEN NUL ELSE buf[i]]
  /\ tot_lno' = tot_lno + 1
  /\ IF Full(tot_lno + 1)
       THEN Yield(p + 1, b, TRUE)
       ELSE o' = p + 1 /\ UNCHANGED <<b, bno, off, cur_lno, pc>>
  /\ UNCHANGED <<argv, fidx, pos, nrd, out>>

\* Mutant: an unfinished line at the end of the file is waited for.
ScanEndWaits ==
  /\ pc = "scan"
  /\ \A p \in o .. b - 1 : buf[p] # NL
  /\ pc' = "read"
  /\ UNCHANGED <<argv, fidx, pos, ctx, locals, out>>

ScanEnd ==
  /\ pc = "scan"
  /\ \A p \in o .. b - 1 : buf[p] # NL
  /\ pc' = IF o < b /\ nrd <= 0 THEN "open" ELSE "read"
  /\ UNCHANGED <<argv, fidx, pos, ctx, locals, out>>

-----------------------------------------------------------------------------
(* prchunk_haslinep(), prchunk_getline() and the loop around them. *)

LineStart(lno) == IF lno = 0 THEN 0 ELSE loff[lno - 1].off + 1

\* Mutant: the newline is counted.
LineLenNewline(lno) ==
  IF lno = 0 THEN loff[0].off - loff[0].cr
             ELSE loff[lno].off - loff[lno].cr - loff[lno - 1].off

\* get_llen(): computed in size_t, so it must never come out negative.
LineLen(lno) ==
  IF lno = 0 THEN loff[0].off - loff[0].cr
             ELSE loff[lno].off - loff[lno].cr - loff[lno - 1].off - 1

Text(start, len) == [k \in 1 .. len |-> buf[start + k - 1]]

HasLine == cur_lno < tot_lno \/ cur_lno = 0

\* prchunk_getlineno(): beyond the last line there is the empty line.
GetLine ==
  /\ pc = "lines"
  /\ HasLine
  /\ out' = Append(out, IF cur_lno = 0 \/ cur_lno < tot_lno
                          THEN Text(LineStart(cur_lno), LineLen(cur_lno))
                          ELSE << >>)
  /\ cur_lno' = cur_lno + 1
  /\ UNCHANGED <<argv, fidx, pos, buf, tot_lno, bno, off, loff, pc, locals>>

Refill ==
  /\ pc = "lines"
  /\ ~HasLine
  /\ pc' = "fill"
  /\ UNCHANGED <<argv, fidx, pos, ctx, locals, out>>

-----------------------------------------------------------------------------
Fill == FillFresh \/ FillLeftover \/ FillRefused
Read == (\E n \in 1 .. CHUNK_SIZE : ReadBytes(n)) \/ ReadLastLine \/ ReadNothing
Scan == (\E p \in o .. b - 1 : ScanLine(p)) \/ ScanEnd

Next == Open \/ Finish \/ Done \/ Fill \/ Read \/ Scan \/ GetLine \/ Refill

Spec == Init /\ [][Next]_vars

\* One process; its reads return and it is scheduled.
FairSpec == Spec /\ WF_vars(Next)

-----------------------------------------------------------------------------
(* Properties. *)

\* The types the context and the locals have, in every state.
TypeOK ==
  /\ argv \in Argv
  /\ fidx \in 0 .. Len(argv)
  /\ pc \in {"open", "fill", "read", "scan", "lines", "done"}
  /\ pc \in {"fill", "read", "scan", "lines"} =>
       fidx > 0 /\ argv[fidx].kind # "noent" /\ pos \in 0 .. Len(argv[fidx].data)
  /\ pos \in Nat
  /\ buf \in [0 .. MAP_LEN - 1 -> Byte \cup {NUL}]
  /\ loff \in [0 .. MAX_NLINES - 1 -> [off : 0 .. MAP_LEN, cr : {0, 1}]]
  /\ tot_lno \in 0 .. MAX_NLINES
  /\ cur_lno \in Nat
  /\ bno \in 0 .. MAP_LEN /\ off \in 0 .. MAP_LEN
  /\ o \in 0 .. MAP_LEN /\ b \in -1 .. MAP_LEN
  /\ nrd \in -1 .. CHUNK_SIZE

\* Every line prchunk_haslinep() promises is one of this fill and lies inside
\* the bytes the fill has looked at, and get_llen(), a difference of two packed
\* offsets and a \r bit in size_t, never wraps below zero.
LinesInBuffer ==
  pc = "lines" =>
    /\ HasLine => cur_lno < tot_lno
    /\ \A lno \in 0 .. tot_lno - 1 :
         /\ LineLen(lno) >= 0
         /\ LineStart(lno) + LineLen(lno) <= off

\* The memcpy() of the left over bytes never copies onto itself: the code
\* only argues that there is "little chance for overlapping regions".
NoOverlap == pc = "fill" /\ bno > off => bno - off <= off

\* The reader comes to the end of every command line.
Termination == <>(pc = "done")
=============================================================================
