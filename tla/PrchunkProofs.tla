--------------------------- MODULE PrchunkProofs ----------------------------
(***************************************************************************)
(* Two things of the reader, for every command line, byte set and size of  *)
(* chunk, table and buffer.  Its index discipline: what prchunk_getline()  *)
(* hands out lies in what the fill has read, and the memcpy() of the left  *)
(* over never overlaps.  And what it is for: it implements the line stream *)
(* of LineStream.tla, whose lines are those of the files read at once.     *)
(***************************************************************************)
EXTENDS PrchunkStream, FiniteSetTheorems, FunctionTheorems, TLAPS

\* A directory never gets as far as a byte, a context is never more than one
\* read(2) ahead of its own left over offset.
Where ==
  /\ pc \in {"scan", "lines"} => File0.kind = "file"
  /\ pc = "fill" /\ File0.kind = "dir" => bno <= off
  /\ pc = "read" /\ File0.kind = "dir" => o = 0 /\ b = 0 /\ bno = 0

Leftover ==
  /\ pc \in {"open", "read", "scan"} => bno <= off
  /\ pc \in {"fill", "lines"} =>
       bno <= off \/ (bno - off < CHUNK_SIZE /\ MAX_NLINES <= off)

\* The offsets found so far partition the bytes before o into lines.
Sorted(end) == \A i \in 0 .. tot_lno - 1 : LineLen(i) >= 0 /\ loff[i].off <= end

Index ==
  /\ pc \in {"read", "scan"} =>
       /\ tot_lno < MAX_NLINES
       /\ tot_lno <= o /\ o <= b
       /\ o = LineStart(tot_lno)
       /\ o > 0 => buf[o - 1] = NUL
       /\ Sorted(o - 1)
  /\ pc = "lines" => tot_lno > 0 /\ Sorted(off)

\* The newlines still to be found are in the bytes of the last read(2), or in
\* the left over of the fill before and its first read(2).
Window ==
  /\ pc = "read" => b < CHUNK_SIZE \/ \A q \in o .. b - 1 : buf[q] # NL
  /\ pc = "scan" => b < 2 * CHUNK_SIZE \/ \A q \in o .. b - 1 : buf[q] = NL => b - q <= nrd

\* The inductive invariant.
IInv == TypeOK /\ Where /\ Leftover /\ Index /\ Window

-----------------------------------------------------------------------------
USE DEF File0

\* The fields that are numbers.
LEMMA Scalars ==
  ASSUME TypeOK
  PROVE  /\ pos \in Nat /\ tot_lno \in Nat /\ cur_lno \in Nat /\ o \in Nat /\ b \in Int
         /\ bno \in Nat /\ off \in Nat /\ nrd \in Int /\ nrd <= CHUNK_SIZE /\ b <= MAP_LEN
         /\ tot_lno <= MAX_NLINES
         /\ pc \in {"fill", "read", "scan", "lines"} => fidx > 0 /\ argv[fidx].kind # "noent"
         /\ \A i \in 0 .. MAX_NLINES - 1 :
              loff[i].off \in Nat /\ loff[i].off <= MAP_LEN /\ loff[i].cr \in {0, 1}
<1>1. ASSUME NEW i \in 0 .. MAX_NLINES - 1
      PROVE  loff[i].off \in Nat /\ loff[i].off <= MAP_LEN /\ loff[i].cr \in {0, 1}
  <2>1. loff[i] \in [off : 0 .. MAP_LEN, cr : {0, 1}]
    BY DEF TypeOK
  <2> QED
    BY <2>1, SizeType
<1> QED
  BY <1>1, SizeType DEF TypeOK

\* The file is a sequence of bytes.
LEMMA FileType ==
  ASSUME TypeOK, fidx > 0
  PROVE  /\ argv[fidx] \in File
         /\ argv[fidx].data \in Seq(Byte)
         /\ argv[fidx].kind \in {"file", "dir", "noent"}
         /\ Len(argv[fidx].data) \in Nat
<1>1. argv \in Seq(File) /\ fidx \in 1 .. Len(argv)
  BY ArgvType DEF TypeOK
<1>2. argv[fidx] \in File
  BY <1>1
<1> QED
  BY <1>2 DEF File

\* The invariant holds at the start.
LEMMA InitIInv == Init => IInv
  BY SizeType DEF Init, IInv, TypeOK, Where, Leftover, Index, Window, NoLine

\* Every step keeps the invariant.
LEMMA StepIInv == IInv /\ [Next]_vars => IInv'
<1> SUFFICES ASSUME TypeOK, Where, Leftover, Index, Window, [Next]_vars
             PROVE  (TypeOK /\ Where /\ Leftover /\ Index /\ Window)'
  BY DEF IInv
<1> USE SizeType
<1>s. /\ pos \in Nat /\ tot_lno \in Nat /\ cur_lno \in Nat /\ o \in Nat /\ b \in Int
      /\ bno \in Nat /\ off \in Nat /\ nrd \in Int /\ nrd <= CHUNK_SIZE /\ b <= MAP_LEN
      /\ tot_lno <= MAX_NLINES
      /\ pc \in {"fill", "read", "scan", "lines"} => fidx > 0 /\ argv[fidx].kind # "noent"
      /\ \A i \in 0 .. MAX_NLINES - 1 :
           loff[i].off \in Nat /\ loff[i].off <= MAP_LEN /\ loff[i].cr \in {0, 1}
  BY Scalars
<1>1. CASE Open
  <2>1. TypeOK'
    BY <1>1, SMTT(40) DEF Open, TypeOK, locals
  <2>2. (Where /\ Leftover)'
    BY <1>1 DEF Open, Where, Leftover, locals
  <2>3. (Index /\ Window)'
    BY <1>1 DEF Open, Index, Window
  <2> QED
    BY <2>1, <2>2, <2>3
<1>2. CASE Finish \/ Done
  BY <1>2 DEF Finish, Done, TypeOK, Where, Leftover, Index, Window, Sorted, LineLen, LineStart, vars, ctx, locals
<1>3. CASE FillFresh
  <2>1. TypeOK'
    BY <1>3, SMTT(40) DEF FillFresh, TypeOK
  <2>2. (Where /\ Leftover)'
    BY <1>3, <1>s DEF FillFresh, Where, Leftover
  <2>3. (Index /\ Window)'
    BY <1>3 DEF FillFresh, Index, Window, Sorted, LineStart
  <2> QED
    BY <2>1, <2>2, <2>3
<1>4. CASE FillLeftover
  BY <1>4, SMTT(40) DEF FillLeftover, TypeOK, Where, Leftover, Index, Window, Sorted, LineStart
<1>5. CASE FillRefused
  <2>1. TypeOK'
    BY <1>5, SMTT(40) DEF FillRefused, TypeOK
  <2>2. (Where /\ Leftover)'
    BY <1>5, <1>s DEF FillRefused, Where, Leftover
  <2>3. (Index /\ Window)'
    BY <1>5 DEF FillRefused, Index, Window
  <2> QED
    BY <2>1, <2>2, <2>3
<1>6. ASSUME NEW n \in 1 .. CHUNK_SIZE, ReadBytes(n)
      PROVE  (TypeOK /\ Where /\ Leftover /\ Index /\ Window)'
  <2>1. /\ pc = "read" /\ pc' = "scan" /\ nrd' = n /\ n \in Nat /\ n <= CHUNK_SIZE
        /\ b' = b + n /\ b + n <= MAP_LEN /\ b \in Nat /\ o <= b
        /\ pos' = pos + n /\ pos + n <= Len(argv[fidx].data) /\ pos \in Nat
        /\ fidx > 0 /\ argv[fidx].kind = "file"
        /\ UNCHANGED <<argv, fidx, tot_lno, cur_lno, bno, off, loff, o, out>>
    <3>1. ReadBytes(n)
      BY <1>6
    <3>2. pc = "read" /\ o <= b
      BY <3>1 DEF ReadBytes, Index
    <3> QED
      BY <3>1, <3>2, <1>s DEF ReadBytes
  <2>2. \A i \in b .. b + n - 1 : argv[fidx].data[pos + 1 + (i - b)] \in Byte
    <3>1. \A i \in b .. b + n - 1 : pos + 1 + (i - b) \in 1 .. Len(argv[fidx].data)
      <4>1. Len(argv[fidx].data) \in Nat
        BY <2>1, FileType
      <4>2. b \in Nat /\ pos \in Nat /\ n \in Nat /\ pos + n <= Len(argv[fidx].data)
        BY <2>1
      <4> QED
        BY <4>1, <4>2
    <3>2. argv[fidx].data \in Seq(Byte)
      BY <2>1, FileType
    <3> QED
      BY <3>1, <3>2
  <2>3. buf' \in [0 .. MAP_LEN - 1 -> Byte \cup {NUL}]
    BY <1>6, <2>2 DEF ReadBytes, TypeOK
  <2>4. \A q \in 0 .. b - 1 : buf'[q] = buf[q]
    BY <1>6, <2>1 DEF ReadBytes, TypeOK
  <2>5. TypeOK'
    <3>1. Len(argv[fidx].data) \in Nat
      BY <2>1, FileType
    <3> QED
      BY <2>1, <2>3, <3>1 DEF TypeOK
  <2>6. Where' /\ Leftover'
    BY <2>1 DEF Where, Leftover
  <2>7. Index'
    BY <2>1, <2>4, <1>s DEF Index, Sorted, LineLen, LineStart
  <2>8. Window'
    BY <2>1, <2>4, <1>s DEF Window
  <2> QED
    BY <2>5, <2>6, <2>7, <2>8
<1>7. CASE ReadLastLine
  <2>1. /\ pc = "read" /\ pc' = "lines" /\ o < b /\ b \in Nat /\ b <= MAP_LEN
        /\ nrd' = 0 /\ tot_lno' = tot_lno + 1 /\ tot_lno < MAX_NLINES /\ tot_lno \in Nat
        /\ off' = b /\ o' = b /\ bno' = b /\ b' = b /\ cur_lno' \in Nat
        /\ argv[fidx].kind = "file"
        /\ UNCHANGED <<argv, fidx, pos, buf, out>>
    BY <1>7, <1>s DEF ReadLastLine, Unyielded, Yield, Index, AtEof
  <2>2. loff' \in [0 .. MAX_NLINES - 1 -> [off : 0 .. MAP_LEN, cr : {0, 1}]]
    <3>1. [off |-> b, cr |-> 0] \in [off : 0 .. MAP_LEN, cr : {0, 1}]
      BY <2>1
    <3> QED
      BY <1>7, <3>1 DEF ReadLastLine, TypeOK
  <2>3. /\ \A i \in 0 .. tot_lno - 1 : loff'[i] = loff[i]
        /\ loff'[tot_lno] = [off |-> b, cr |-> 0]
    BY <1>7, <2>1 DEF ReadLastLine, TypeOK
  <2>4. TypeOK'
    <3>1. /\ argv' \in Argv /\ fidx' \in 0 .. Len(argv') /\ pos' \in Nat
          /\ buf' \in [0 .. MAP_LEN - 1 -> Byte \cup {NUL}]
          /\ fidx' > 0 /\ argv'[fidx'].kind # "noent" /\ pos' \in 0 .. Len(argv'[fidx'].data)
      BY <2>1 DEF TypeOK
    <3>2. /\ tot_lno' \in 0 .. MAX_NLINES /\ cur_lno' \in Nat
          /\ bno' \in 0 .. MAP_LEN /\ off' \in 0 .. MAP_LEN
          /\ o' \in 0 .. MAP_LEN /\ b' \in -1 .. MAP_LEN /\ nrd' \in -1 .. CHUNK_SIZE
      BY <2>1
    <3> QED
      BY <2>1, <2>2, <3>1, <3>2 DEF TypeOK
  <2>5. Where' /\ Leftover' /\ Window'
    BY <2>1 DEF Where, Leftover, Window
  <2>6. \A i \in 0 .. tot_lno - 1 : LineLen(i)' >= 0 /\ loff'[i].off <= b
    BY <2>1, <2>3, <1>s DEF Index, Sorted, LineLen
  <2>7. ASSUME NEW k \in Nat, k = tot_lno
        PROVE  LineLen(k)' >= 0 /\ loff'[k].off <= b
    <3>1. k # 0 => loff'[k - 1].off = o - 1
      BY <2>1, <2>3, <2>7, <1>s DEF Index, LineStart
    <3>2. loff'[k].off = b /\ loff'[k].cr = 0
      BY <2>3, <2>7
    <3>3. CASE k = 0
      BY <2>1, <3>2, <3>3 DEF LineLen
    <3>4. CASE k # 0
      BY <2>1, <3>1, <3>2, <3>4, <1>s DEF LineLen
    <3> QED
      BY <3>3, <3>4
  <2>8. Index'
    <3>1. \A i \in 0 .. tot_lno' - 1 : LineLen(i)' >= 0 /\ loff'[i].off <= off'
      BY <2>1, <2>6, <2>7
    <3> QED
      BY <2>1, <3>1 DEF Index, Sorted
  <2> QED
    BY <2>4, <2>5, <2>8
<1>8. CASE ReadNothing
  <2> USE <1>8 DEF ReadNothing
  <2>1. CASE File0.kind = "dir"
    <3>1. o = 0 /\ bno = 0 /\ b = 0 /\ nrd' = -1
      BY <2>1 DEF TypeOK, Where, AtEof
    <3>2. pc' = "open" /\ b' = -1 /\ UNCHANGED <<cur_lno, bno, off, o>>
      BY <3>1
    <3> QED
      BY <3>1, <3>2 DEF TypeOK, Where, Leftover, Index, Window
  <2>2. CASE File0.kind = "file" /\ nrd' = 0 /\ pc' = "open"
    BY <2>2 DEF TypeOK, Where, Leftover, Index, Window, Yield
  <2>3. CASE File0.kind = "file" /\ nrd' = 0 /\ pc' = "scan"
    <3>1. b' = b /\ UNCHANGED <<cur_lno, bno, off, o>>
      BY <2>3 DEF TypeOK, Index, Yield
    <3> QED
      BY <2>3, <3>1 DEF TypeOK, Where, Leftover, Index, Window, Sorted, LineLen, LineStart
  <2>4. CASE File0.kind = "file" /\ nrd' = 0 /\ pc' = "lines"
    <3>1. /\ pc = "read" /\ o # 0 /\ o >= b /\ b' = b
          /\ off' = o /\ o' = o /\ bno' = b /\ cur_lno' = 0
          /\ UNCHANGED <<argv, fidx, pos, buf, tot_lno, loff, out>>
      BY <2>4, <1>s DEF Index, Yield
    <3>2. TypeOK'
      BY <2>4, <3>1 DEF TypeOK, Index
    <3>3. Where' /\ Leftover' /\ Window'
      BY <2>4, <3>1, <1>s DEF Where, Leftover, Window, Index
    <3>4. o = LineStart(tot_lno) /\ tot_lno > 0 /\ Sorted(o - 1)
      BY <3>1, <1>s DEF Index, LineStart
    <3>5. Index'
      BY <2>4, <3>1, <3>4, <1>s DEF Index, Sorted, LineLen
    <3> QED
      BY <3>2, <3>3, <3>5
  <2> QED
    BY <2>1, <2>2, <2>3, <2>4 DEF AtEof, Yield
<1>9. ASSUME NEW p \in o .. b - 1, ScanLine(p)
      PROVE  (TypeOK /\ Where /\ Leftover /\ Index /\ Window)'
  <2>1. /\ p \in Nat /\ o <= p /\ p < b /\ b <= MAP_LEN /\ b \in Int /\ nrd \in Int
        /\ tot_lno \in Nat /\ o \in Nat /\ tot_lno < MAX_NLINES /\ tot_lno <= o
        /\ pc = "scan" /\ buf[p] = NL /\ argv[fidx].kind = "file" /\ fidx > 0
    BY <1>9, <1>s DEF ScanLine, NextNewline, Index, Where
  <2>a. PICK c \in {0, 1} :
           /\ c = 1 => p > o
           /\ loff' = [loff EXCEPT ![tot_lno] = [off |-> p, cr |-> c]]
           /\ buf' = [i \in DOMAIN buf |-> IF i = p \/ (c = 1 /\ i = p - 1) THEN NUL ELSE buf[i]]
    <3> DEFINE cr == IF p > 0 /\ buf[p - 1] = CR THEN 1 ELSE 0
    <3>1. cr = 1 => p > o
      BY <1>9, <2>1, ByteType DEF Index
    <3>2. /\ loff' = [loff EXCEPT ![tot_lno] = [off |-> p, cr |-> cr]]
          /\ buf' = [i \in DOMAIN buf |-> IF i = p \/ (cr = 1 /\ i = p - 1) THEN NUL ELSE buf[i]]
      BY <1>9 DEF ScanLine
    <3>3. cr \in {0, 1}
      OBVIOUS
    <3> QED
      BY <3>1, <3>2, <3>3
  <2>2. /\ tot_lno' = tot_lno + 1 /\ o' = p + 1 /\ b' = b
        /\ UNCHANGED <<argv, fidx, pos, nrd, out>>
    BY <1>9 DEF ScanLine, Full, Yield
  <2>3. \/ /\ tot_lno + 1 >= MAX_NLINES /\ pc' = "lines"
           /\ off' = p + 1 /\ bno' = b /\ cur_lno' = 0
        \/ tot_lno + 1 < MAX_NLINES /\ UNCHANGED <<bno, off, cur_lno, pc>>
    BY <1>9, <2>1 DEF ScanLine, Full, Yield
  <2>4. /\ loff' \in [0 .. MAX_NLINES - 1 -> [off : 0 .. MAP_LEN, cr : {0, 1}]]
        /\ loff'[tot_lno].off = p /\ loff'[tot_lno].cr = c
        /\ \A i \in 0 .. tot_lno - 1 : loff'[i] = loff[i]
    BY <2>1, <2>a DEF TypeOK
  <2>5. /\ buf' \in [0 .. MAP_LEN - 1 -> Byte \cup {NUL}]
        /\ buf'[p] = NUL
        /\ \A q \in p + 1 .. b - 1 : buf'[q] = buf[q]
    BY <2>1, <2>a DEF TypeOK
  <2>6. TypeOK'
    <3>1. UNCHANGED <<argv, fidx, pos>> /\ argv[fidx].kind # "noent"
      BY <2>1, <2>2
    <3>2. /\ tot_lno' \in 0 .. MAX_NLINES /\ o' \in 0 .. MAP_LEN /\ b' \in -1 .. MAP_LEN
          /\ pc' \in {"scan", "lines"}
      BY <2>1, <2>2, <2>3, <1>s
    <3>3. cur_lno' \in Nat /\ bno' \in 0 .. MAP_LEN /\ off' \in 0 .. MAP_LEN
      <4>1. CASE tot_lno + 1 < MAX_NLINES
        BY <2>1, <2>3, <4>1 DEF TypeOK
      <4> QED
        BY <2>1, <2>3, <4>1, <1>s
    <3> QED
      BY <2>1, <2>2, <2>4, <2>5, <3>1, <3>2, <3>3 DEF TypeOK
  <2>7. Where'
    BY <2>1, <2>2, <2>3 DEF Where
  <2>8. Leftover'
    <3>1. CASE tot_lno + 1 >= MAX_NLINES
      <4>1. b - (p + 1) < CHUNK_SIZE
        BY <2>1, <3>1, <1>s DEF Window
      <4> QED
        BY <2>1, <2>3, <3>1, <4>1 DEF Leftover
    <3>2. CASE tot_lno + 1 < MAX_NLINES
      BY <2>1, <2>3, <3>2 DEF Leftover
    <3> QED
      BY <2>1, <3>1, <3>2
  <2>9. ASSUME NEW i \in 0 .. tot_lno - 1
        PROVE  LineLen(i)' >= 0 /\ loff'[i].off <= p
    <3>1. LineLen(i) >= 0 /\ loff[i].off <= o - 1
      BY <2>1, <2>9 DEF Index, Sorted
    <3>2. loff'[i] = loff[i] /\ (i > 0 => loff'[i - 1] = loff[i - 1]) /\ loff[i].off \in Nat
      BY <2>1, <2>4, <2>9, <1>s
    <3>3. CASE i = 0
      BY <2>1, <3>1, <3>2, <3>3 DEF LineLen
    <3>4. CASE i # 0
      BY <2>1, <3>1, <3>2, <3>4 DEF LineLen
    <3> QED
      BY <3>3, <3>4
  <2>10. ASSUME NEW k \in Nat, k = tot_lno
         PROVE  LineLen(k)' >= 0 /\ loff'[k].off <= p
    <3>1. k # 0 => loff'[k - 1].off = o - 1
      <4>1. k # 0 => o = loff[k - 1].off + 1
        BY <2>1, <2>10 DEF Index, LineStart
      <4>2. k # 0 => loff'[k - 1] = loff[k - 1] /\ loff[k - 1].off \in Nat
        BY <2>1, <2>4, <2>10, <1>s
      <4> QED
        BY <4>1, <4>2
    <3>2. k = 0 => o = 0
      BY <2>1, <2>10 DEF Index, LineStart
    <3>3. CASE k = 0
      BY <2>1, <2>a, <2>4, <2>10, <3>2, <3>3 DEF LineLen
    <3>4. CASE k # 0
      BY <2>1, <2>a, <2>4, <2>10, <3>1, <3>4 DEF LineLen
    <3> QED
      BY <3>3, <3>4
  <2>11. Index'
    <3>1. \A i \in 0 .. tot_lno' - 1 : LineLen(i)' >= 0 /\ loff'[i].off <= p
      BY <2>1, <2>2, <2>9, <2>10
    <3>2. LineStart(tot_lno)' = p + 1
      BY <2>1, <2>2, <2>4 DEF LineStart
    <3>3. CASE pc' = "lines"
      <4>1. off' = p + 1 /\ tot_lno' > 0
        BY <2>1, <2>2, <2>3, <3>3
      <4>2. \A i \in 0 .. tot_lno' - 1 : LineLen(i)' >= 0 /\ loff'[i].off <= off'
        <5>1. \A i \in 0 .. tot_lno' - 1 : loff'[i].off \in Nat
          BY <2>1, <2>2, <2>4, <1>s
        <5> QED
          BY <2>1, <3>1, <4>1, <5>1
      <4> QED
        BY <3>3, <4>1, <4>2 DEF Index, Sorted
    <3>4. CASE pc' = "scan"
      <4>1. tot_lno' < MAX_NLINES /\ tot_lno' <= o' /\ o' <= b'
        BY <2>1, <2>2, <2>3, <3>4
      <4>2. buf'[o' - 1] = NUL /\ o' - 1 = p
        BY <2>1, <2>2, <2>5
      <4> QED
        BY <2>2, <3>1, <3>2, <3>4, <4>1, <4>2 DEF Index, Sorted
    <3> QED
      BY <2>1, <2>3, <3>3, <3>4
  <2>12. Window'
    BY <2>1, <2>2, <2>3, <2>5 DEF Window
  <2> QED
    BY <2>6, <2>7, <2>8, <2>11, <2>12
<1>10. CASE ScanEnd
  BY <1>10 DEF ScanEnd, TypeOK, Where, Leftover, Index, Window, Sorted, LineLen, LineStart, ctx, locals
<1>11. CASE GetLine
  BY <1>11 DEF GetLine, TypeOK, Where, Leftover, Index, Window, Sorted, LineLen, LineStart, locals
<1>12. CASE Refill
  BY <1>12 DEF Refill, TypeOK, Where, Leftover, Index, Window, Sorted, LineLen, LineStart, ctx, locals
<1>13. CASE UNCHANGED vars
  BY <1>13 DEF vars, TypeOK, Where, Leftover, Index, Window, Sorted, LineLen, LineStart, ctx, locals
<1> QED
  BY <1>1, <1>2, <1>3, <1>4, <1>5, <1>6, <1>7, <1>8, <1>9, <1>10, <1>11, <1>12, <1>13
     DEF Next, Fill, Read, Scan

\* The invariant holds always.
LEMMA Invariance == Spec => []IInv
  BY InitIInv, StepIInv, PTL DEF Spec

\* The context and the locals keep their types, the buffer and the table of
\* line offsets are never indexed outside.
THEOREM TypeCorrect == Spec => []TypeOK
  BY Invariance, PTL DEF IInv

\* Every line that prchunk_haslinep() promises lies in the bytes read, with a
\* length that does not wrap.
THEOREM LinesAreInBuffer == Spec => []LinesInBuffer
<1>1. IInv => LinesInBuffer
  <2> SUFFICES ASSUME IInv, pc = "lines"
               PROVE  LinesInBuffer
    BY DEF LinesInBuffer
  <2>1. HasLine => cur_lno < tot_lno
    BY Scalars DEF IInv, Index, HasLine
  <2>2. ASSUME NEW lno \in 0 .. tot_lno - 1
        PROVE  LineLen(lno) >= 0 /\ LineStart(lno) + LineLen(lno) <= off
    <3>1. LineLen(lno) >= 0 /\ loff[lno].off <= off
      BY DEF IInv, Index, Sorted
    <3> QED
      BY <3>1, Scalars, SizeType DEF IInv, LineLen, LineStart
  <2> QED
    BY <2>1, <2>2 DEF LinesInBuffer
<1> QED
  BY <1>1, Invariance, PTL

\* memcpy() never copies overlapping bytes, since one fill looks at no fewer
\* lines than a read(2) has bytes.
THEOREM CopyIsDisjoint == Spec => []NoOverlap
<1>1. IInv => NoOverlap
  BY SizeType DEF IInv, TypeOK, Leftover, NoOverlap
<1> QED
  BY <1>1, Invariance, PTL

-----------------------------------------------------------------------------
(* Lines by their number. *)

\* An end of a line is a byte of a file.
LEMMA EndsAre ==
  ASSUME NEW a \in Argv, NEW e \in AllEnds(a)
  PROVE  /\ e = <<e[1], e[2]>>
         /\ e[1] \in 1 .. Len(a) /\ e[1] \in DOMAIN a /\ e[1] \in Nat /\ a[e[1]] \in File
         /\ a[e[1]].kind = "file" /\ a[e[1]].data \in Seq(Byte)
         /\ e[2] \in Ends(a[e[1]].data)
         /\ e[2] \in 1 .. Len(a[e[1]].data) /\ e[2] \in Nat /\ e[2] > 0
<1>1. PICK k \in DOMAIN a : e \in LineEnds(a, k)
  BY DEF AllEnds
<1>2. a \in Seq(File)
  BY ArgvType
<1>3. k \in 1 .. Len(a) /\ a[k] \in File /\ Len(a) \in Nat
  BY <1>1, <1>2
<1>4. a[k].kind = "file" /\ e \in {k} \X Ends(a[k].data)
  BY <1>1 DEF LineEnds
<1>5. e = <<e[1], e[2]>> /\ e[1] = k /\ e[2] \in Ends(a[k].data)
  BY <1>4
<1>6. a[k].data \in Seq(Byte)
  BY <1>3 DEF File
<1>7. Ends(a[k].data) \subseteq 1 .. Len(a[k].data) /\ Len(a[k].data) \in Nat
  BY <1>6 DEF Ends
<1> QED
  BY <1>1, <1>3, <1>4, <1>5, <1>6, <1>7

\* There are finitely many lines.
LEMMA EndsAreFinite == ASSUME NEW a \in Argv PROVE IsFiniteSet(AllEnds(a))
<1> DEFINE g == [k \in DOMAIN a |-> LineEnds(a, k)]
           T == {LineEnds(a, k) : k \in DOMAIN a}
<1>1. a \in Seq(File)
  BY ArgvType
<1>2. DOMAIN a = 1 .. Len(a) /\ Len(a) \in Nat
  BY <1>1
<1>3. IsFiniteSet(DOMAIN a)
  BY <1>2, FS_Interval
<1>4. g \in [DOMAIN a -> T]
  OBVIOUS
<1>5. g \in Surjection(DOMAIN a, T)
  BY <1>4 DEF Surjection
<1>6. IsFiniteSet(T)
  BY <1>3, <1>5, FS_Surjection
<1>7. ASSUME NEW k \in DOMAIN a PROVE IsFiniteSet(LineEnds(a, k))
  <2> DEFINE f == a[k].data
  <2>1. f \in Seq(Byte)
    <3>1. a[k] \in File
      BY <1>1, <1>2
    <3> QED BY <3>1 DEF File
  <2>2. Ends(f) \in SUBSET (1 .. Len(f)) /\ Len(f) \in Nat
    BY <2>1 DEF Ends
  <2> HIDE DEF f
  <2>3. IsFiniteSet(1 .. Len(f))
    BY <2>2, FS_Interval
  <2>4. IsFiniteSet(Ends(f))
    BY <2>2, <2>3, FS_Subset
  <2>5. IsFiniteSet({k} \X Ends(f))
    BY <2>4, FS_Singleton, FS_Product
  <2> QED BY <2>5, FS_EmptySet DEF LineEnds, f
<1>8. IsFiniteSet(UNION T)
  BY <1>6, <1>7, FS_UNION
<1> QED
  BY <1>8 DEF AllEnds

\* How many there are up to some byte is a number.
LEMMA UptoIs ==
  ASSUME NEW a \in Argv, NEW k, NEW p
  PROVE  /\ IsFiniteSet(Upto(a, k, p)) /\ Upto(a, k, p) \subseteq AllEnds(a)
         /\ Cardinality(Upto(a, k, p)) \in Nat
         /\ Cardinality(AllEnds(a)) \in Nat
         /\ Cardinality(Upto(a, k, p)) <= Cardinality(AllEnds(a))
<1>1. Upto(a, k, p) \in SUBSET AllEnds(a)
  BY DEF Upto
<1> QED
  BY <1>1, EndsAreFinite, FS_Subset, FS_CardinalityType

\* No two lines have the same number.
LEMMA EndsDiffer ==
  ASSUME NEW a \in Argv, NEW d \in AllEnds(a), NEW e \in AllEnds(a),
         Cardinality(Upto(a, d[1], d[2])) = Cardinality(Upto(a, e[1], e[2]))
  PROVE  d = e
<1>1. ASSUME NEW x \in AllEnds(a), NEW y \in AllEnds(a),
             Cardinality(Upto(a, x[1], x[2])) = Cardinality(Upto(a, y[1], y[2])),
             x[1] < y[1] \/ (x[1] = y[1] /\ x[2] <= y[2])
      PROVE  x = y
  <2>1. /\ x[1] \in Nat /\ x[2] \in Nat /\ y[1] \in Nat /\ y[2] \in Nat
        /\ x = <<x[1], x[2]>> /\ y = <<y[1], y[2]>>
    BY EndsAre
  <2>2. \A z \in AllEnds(a) : z[1] \in Nat /\ z[2] \in Nat
    BY EndsAre
  <2>3. Upto(a, x[1], x[2]) \in SUBSET Upto(a, y[1], y[2])
    BY <1>1, <2>1, <2>2 DEF Upto
  <2>4. Upto(a, x[1], x[2]) = Upto(a, y[1], y[2])
    BY <1>1, <2>3, UptoIs, FS_Subset
  <2>5. y \in Upto(a, x[1], x[2])
    BY <2>1, <2>4 DEF Upto
  <2>6. y[1] = x[1] /\ y[2] = x[2]
    BY <1>1, <2>1, <2>5 DEF Upto
  <2> QED BY <2>1, <2>6
<1>2. d[1] \in Nat /\ d[2] \in Nat /\ e[1] \in Nat /\ e[2] \in Nat
  BY EndsAre
<1>3. CASE d[1] < e[1] \/ (d[1] = e[1] /\ d[2] <= e[2])
  BY <1>1, <1>3
<1>4. CASE e[1] < d[1] \/ (e[1] = d[1] /\ e[2] <= d[2])
  BY <1>1, <1>4
<1> QED
  BY <1>2, <1>3, <1>4

\* The line with that number is the one that ends there.
LEMMA LineIs ==
  ASSUME NEW a \in Argv, NEW e \in AllEnds(a)
  PROVE  LET n == Cardinality(Upto(a, e[1], e[2]))
         IN /\ n \in 1 .. Cardinality(AllEnds(a))
            /\ Lines(a)[n] = LineAt(a[e[1]].data, e[2])
<1> DEFINE n == Cardinality(Upto(a, e[1], e[2]))
<1>1. n \in Nat /\ n <= Cardinality(AllEnds(a)) /\ Cardinality(AllEnds(a)) \in Nat /\ IsFiniteSet(Upto(a, e[1], e[2]))
  BY UptoIs
<1>2. e \in Upto(a, e[1], e[2])
  BY EndsAre DEF Upto
<1>3. n # 0
  BY <1>1, <1>2, FS_EmptySet
<1>4. EndOf(a, n) \in AllEnds(a) /\ Cardinality(Upto(a, EndOf(a, n)[1], EndOf(a, n)[2])) = n
  BY DEF EndOf
<1>5. EndOf(a, n) = e
  BY <1>4, EndsDiffer
<1>6. n \in 1 .. Cardinality(AllEnds(a))
  BY <1>1, <1>3
<1> HIDE DEF n
<1>7. Lines(a)[n] = LineAt(a[EndOf(a, n)[1]].data, EndOf(a, n)[2])
  BY <1>6 DEF Lines
<1> QED
  BY <1>5, <1>6, <1>7 DEF n

\* The next end of a line in a file makes one more.
LEMMA OneMore ==
  ASSUME NEW a \in Argv, NEW k \in DOMAIN a, a[k].kind = "file",
         NEW p \in Nat, NEW q \in Ends(a[k].data), p < q,
         \A r \in Ends(a[k].data) : r <= p \/ q <= r
  PROVE  /\ Cardinality(Upto(a, k, q)) = Cardinality(Upto(a, k, p)) + 1
         /\ <<k, q>> \in AllEnds(a)
<1> DEFINE e == <<k, q>>
<1>1. e \in AllEnds(a)
  BY DEF AllEnds, LineEnds
<1>2. \A z \in AllEnds(a) : z[1] \in Nat /\ z[2] \in Nat /\ z = <<z[1], z[2]>> /\ z[2] \in Ends(a[z[1]].data)
  BY EndsAre
<1>3. k \in Nat /\ q \in Nat
  BY <1>1, <1>2
<1>4. Upto(a, k, q) = Upto(a, k, p) \cup {e}
  <2>1. ASSUME NEW z \in Upto(a, k, q) PROVE z \in Upto(a, k, p) \cup {e}
    BY <1>2, <1>3, <2>1 DEF Upto
  <2>2. ASSUME NEW z \in Upto(a, k, p) PROVE z \in Upto(a, k, q)
    BY <1>2, <1>3, <2>2 DEF Upto
  <2>3. e \in Upto(a, k, q)
    BY <1>1, <1>3 DEF Upto
  <2> QED BY <2>1, <2>2, <2>3
<1>5. e \notin Upto(a, k, p)
  BY <1>3 DEF Upto
<1>6. IsFiniteSet(Upto(a, k, p)) /\ Cardinality(Upto(a, k, p)) \in Nat
  BY UptoIs
<1>7. Cardinality(Upto(a, k, p) \cup {e}) = Cardinality(Upto(a, k, p)) + 1
  BY <1>5, <1>6, FS_AddElement
<1> QED
  BY <1>1, <1>4, <1>7

\* Behind the last line of a file comes the next file.
LEMMA NoMore ==
  ASSUME NEW a \in Argv, NEW k \in Nat, NEW p \in Nat,
         k \in DOMAIN a /\ a[k].kind = "file" => \A r \in Ends(a[k].data) : r <= p
  PROVE  Cardinality(Upto(a, k, p)) = Cardinality(Upto(a, k + 1, 0))
<1>1. \A z \in AllEnds(a) : /\ z[1] \in Nat /\ z[2] \in Nat /\ z[2] > 0 /\ z[1] \in DOMAIN a
                            /\ a[z[1]].kind = "file" /\ z[2] \in Ends(a[z[1]].data)
  BY EndsAre
<1>2. Upto(a, k, p) = Upto(a, k + 1, 0)
  BY <1>1 DEF Upto
<1> QED
  BY <1>2

\* Before the first file there are no lines, behind the last one all.
LEMMA FirstAndLast ==
  ASSUME NEW a \in Argv
  PROVE  /\ Cardinality(Upto(a, 1, 0)) = 0
         /\ Cardinality(Upto(a, Len(a) + 1, 0)) = Cardinality(AllEnds(a))
<1>1. \A z \in AllEnds(a) : z[1] \in 1 .. Len(a) /\ z[2] \in Nat /\ z[2] > 0
  BY EndsAre
<1>2. Len(a) \in Nat
  BY ArgvType
<1>3. Upto(a, 1, 0) = {} /\ Upto(a, Len(a) + 1, 0) = AllEnds(a)
  BY <1>1, <1>2 DEF Upto
<1> QED
  BY <1>3, FS_EmptySet

\* A line begins behind the newline before it.
LEMMA BeginIs ==
  ASSUME NEW f \in Seq(Byte), NEW s \in Nat, NEW q \in Nat, s < q, q <= Len(f),
         s = 0 \/ f[s] = NL,
         \A r \in s + 1 .. q - 1 : f[r] # NL
  PROVE  Begin(f, q) = s + 1
<1> DEFINE P(x) == (x = 1 \/ f[x - 1] = NL) /\ \A r \in x .. q - 1 : f[r] # NL
<1>1. s + 1 \in 1 .. q /\ P(s + 1)
  OBVIOUS
<1>2. ASSUME NEW x \in 1 .. q, P(x) PROVE x = s + 1
  <2>1. CASE x < s + 1
    <3>1. s \in x .. q - 1 /\ f[s] = NL
      BY <2>1
    <3> QED BY <1>2, <3>1
  <2>2. CASE x > s + 1
    <3>1. x - 1 \in s + 1 .. q - 1 /\ f[x - 1] = NL
      BY <1>2, <2>2
    <3> QED BY <3>1
  <2> QED BY <2>1, <2>2
<1>3. Begin(f, q) \in 1 .. q /\ P(Begin(f, q))
  BY <1>1 DEF Begin
<1> QED
  BY <1>2, <1>3

\* What prchunk_getline() hands out is a piece of the file, if the buffer is.
LEMMA PieceIs ==
  ASSUME NEW f \in Seq(Byte), NEW g, NEW start \in Nat, NEW len \in Nat, NEW base \in Nat,
         base + (start + len) <= Len(f),
         \A k \in start .. (start + len) - 1 : g[k] = f[(base + 1) + k]
  PROVE  [k \in 1 .. len |-> g[start + k - 1]] = SubSeq(f, (base + start) + 1, (base + start) + len)
<1> DEFINE m == (base + start) + 1
           n == (base + start) + len
<1>1. m \in 1 .. Len(f) + 1 /\ n \in m - 1 .. Len(f) /\ (n - m) + 1 = len /\ Len(f) \in Nat
  OBVIOUS
<1>2. SubSeq(f, m, n) = [i \in 1 .. (n - m) + 1 |-> f[(i + m) - 1]]
  BY <1>1
<1>3. \A i \in 1 .. len : g[(start + i) - 1] = f[(i + m) - 1]
  <2> TAKE i \in 1 .. len
  <2>1. (start + i) - 1 \in start .. (start + len) - 1
    OBVIOUS
  <2>2. (base + 1) + ((start + i) - 1) = (i + m) - 1
    OBVIOUS
  <2> QED BY <2>1, <2>2
<1>4. [k \in 1 .. len |-> g[start + k - 1]] = [i \in 1 .. len |-> f[(i + m) - 1]]
  BY <1>3
<1> QED
  BY <1>1, <1>2, <1>4

-----------------------------------------------------------------------------
(* What the reader has of the text: the inductive invariant behind the     *)
(* stream, for the command lines it gets right.                            *)

Data == argv[fidx].data
InFile == pc \in {"fill", "read", "scan", "lines"}

\* Where in the file the buffer begins, or will begin.
Base == IF pc # "fill" THEN pos - b ELSE IF bno > off THEN pos - (bno - off) ELSE pos

\* How many lines end up to there.
Rank(k, p) == Cardinality(Upto(argv, k, p))

\* Lines are cut where one begins.
Aligned(p) == p = 0 \/ p = Len(Data) \/ Data[p] = NL

\* The tool has every line up to where the buffer begins, and those of the
\* buffer it has gone through.
Given ==
  CASE pc = "open" -> Rank(fidx + 1, 0)
    [] pc = "done" -> Cardinality(AllEnds(argv))
    [] pc = "lines" -> Rank(fidx, Base) + cur_lno
    [] OTHER -> Rank(fidx, Base)

Delivered == Len(out) = Given /\ \A i \in 1 .. Len(out) : out[i] = Lines(argv)[i]

\* What the fill before has left in the context.
Cursor ==
  /\ out \in Seq(Seq(Byte \cup {NUL}))
  /\ pc = "open" => bno = 0
  /\ pc = "open" /\ fidx = 0 => cur_lno = 0
  /\ pc = "fill" => bno = 0 \/ (off <= bno /\ cur_lno > 0)
  /\ pc \in {"read", "scan"} => bno <= b /\ (bno = 0 \/ cur_lno > 0)
  /\ pc = "lines" => cur_lno <= tot_lno /\ off <= bno /\ b = bno
  /\ InFile /\ File0.kind = "dir" => bno = 0 /\ pos = 0

\* What was not looked at yet is the text, and as many lines end in what was
\* looked at as the table has.
Shifted(from, to, base) == \A i \in from .. to - 1 : buf[i] = Data[(base + 1) + i]
CutAt(at) == Aligned(Base + at) /\ Rank(fidx, Base + at) = Rank(fidx, Base) + tot_lno

Placed ==
  InFile /\ File0.kind = "file" =>
    /\ 0 <= Base /\ Base <= pos /\ Aligned(Base)
    /\ pc = "fill" => Shifted(off, bno, pos - bno)
    /\ pc \in {"read", "scan"} => Shifted(o, b, Base) /\ CutAt(o)
    /\ pc = "lines" => Shifted(off, b, Base) /\ CutAt(off)

\* Every entry of the table is the line of that number.
IsLine(i) ==
  \E e \in Ends(Data) :
    Rank(fidx, e) = (Rank(fidx, Base) + i) + 1 /\ Text(LineStart(i), LineLen(i)) = LineAt(Data, e)
Parsed == pc \in {"read", "scan", "lines"} => \A i \in 0 .. tot_lno - 1 : IsLine(i)

\* A read(2) follows when all newlines were found, but for the first one behind
\* a left over; one that finds the end is not behind an unfinished line.
Pending ==
  /\ pc = "read" => (\A q \in o .. b - 1 : buf[q] # NL) \/ (o = 0 /\ b = bno /\ bno # 0)
  /\ pc = "scan" /\ nrd <= 0 => pos = Len(Data) /\ Ended(Data)

\* A file that ends in an unfinished line is the first, and read in one fill.
Single ==
  InFile /\ File0.kind = "file" /\ ~Ended(Data) =>
    /\ fidx = 1
    /\ pc # "lines" => Base = Len(Data) \/ (Base = 0 /\ cur_lno = 0)
    /\ pc = "lines" => off = bno /\ pos = Len(Data)

Serves == Delivered /\ Cursor /\ Placed /\ Parsed /\ Pending /\ Single

\* Where control is in a file there is one.
LEMMA InFileIs ==
  ASSUME TypeOK, InFile
  PROVE  /\ argv \in Argv /\ fidx \in Nat /\ fidx \in DOMAIN argv /\ fidx > 0 /\ argv[fidx] \in File
         /\ Data \in Seq(Byte) /\ Len(Data) \in Nat
         /\ pos \in Nat /\ pos <= Len(Data)
         /\ argv[fidx].kind \in {"file", "dir"}
         /\ \A p \in Nat : Data[p] = NL \/ p = Len(Data) => (p \in 1 .. Len(Data) => p \in Ends(Data))
<1>1. argv \in Seq(File) /\ fidx \in 0 .. Len(argv) /\ argv \in Argv
  BY ArgvType DEF TypeOK
<1>2. fidx > 0 /\ argv[fidx].kind # "noent" /\ pos \in 0 .. Len(argv[fidx].data)
  BY DEF TypeOK, InFile
<1>3. argv[fidx] \in File /\ fidx \in DOMAIN argv /\ fidx \in Nat
  BY <1>1, <1>2
<1>4. argv[fidx].data \in Seq(Byte) /\ argv[fidx].kind \in {"file", "dir", "noent"}
  BY <1>3 DEF File
<1>5. Len(argv[fidx].data) \in Nat /\ DOMAIN argv[fidx].data = 1 .. Len(argv[fidx].data)
  BY <1>4
<1> QED
  BY <1>1, <1>2, <1>3, <1>4, <1>5 DEF Data, Ends

\* At the start no line was given.
LEMMA InitServes == Init => Serves
<1> SUFFICES ASSUME Init PROVE Serves
  OBVIOUS
<1>1. pc = "open" /\ fidx = 0 /\ out = << >> /\ bno = 0 /\ cur_lno = 0 /\ argv \in Argv
  BY DEF Init
<1>2. Rank(1, 0) = 0
  BY <1>1, FirstAndLast DEF Rank
<1>3. Delivered
  BY <1>1, <1>2 DEF Delivered, Given
<1> QED
  BY <1>1, <1>3 DEF Serves, Cursor, Placed, Parsed, Pending, Single, InFile

\* The next file is opened.
LEMMA OpenServes ==
  ASSUME TypeOK, Serves, argv \in Handled, Open
  PROVE  Serves'
<1>1. /\ pc = "open" /\ fidx' = fidx + 1 /\ fidx \in Nat /\ fidx + 1 \in DOMAIN argv
      /\ argv' = argv /\ out' = out /\ bno' = bno /\ cur_lno' = cur_lno /\ off' = off /\ off \in Nat
      /\ argv \in Argv
  <2>1. argv \in Seq(File) /\ fidx \in 0 .. Len(argv) /\ argv \in Argv
    BY ArgvType DEF TypeOK
  <2> QED BY <2>1, SizeType DEF Open, TypeOK, locals
<1>2. bno = 0 /\ (fidx = 0 => cur_lno = 0) /\ out \in Seq(Seq(Byte \cup {NUL}))
  BY <1>1 DEF Serves, Cursor
<1>3. Delivered /\ Len(out) = Rank(fidx + 1, 0)
  BY <1>1 DEF Serves, Delivered, Given
<1>4. CASE argv[fidx + 1].kind = "noent"
  <2>1. pc' = "open"
    BY <1>1, <1>4 DEF Open
  <2>2. Rank(fidx + 1, 0) = Rank((fidx + 1) + 1, 0)
    BY <1>1, <1>4, NoMore DEF Rank
  <2>3. Delivered'
    BY <1>1, <1>3, <2>1, <2>2 DEF Delivered, Given, Rank
  <2> QED
    BY <1>1, <1>2, <2>1, <2>3 DEF Serves, Cursor, Placed, Parsed, Pending, Single, InFile
<1>5. CASE argv[fidx + 1].kind # "noent"
  <2>1. pc' = "fill" /\ pos' = 0
    BY <1>1, <1>5 DEF Open
  <2>2. Base' = 0
    <3>1. pc' = "fill" /\ pos' = 0 /\ bno' = 0 /\ off' \in Nat
      BY <1>1, <1>2, <2>1
    <3>2. ~(bno' > off')
      BY <3>1
    <3>3. Base' = pos'
      BY <3>1, <3>2, Zenon DEF Base
    <3> QED BY <3>1, <3>3
  <2>3. Delivered'
    BY <1>1, <1>3, <2>1, <2>2 DEF Delivered, Given, Rank
  <2>4. Placed'
    BY <1>1, <1>2, <2>1, <2>2 DEF Placed, Aligned, Shifted
  <2>5. Ended(argv[fidx + 1].data) \/ fidx + 1 = 1
    BY <1>1 DEF Handled
  <2>6. Single'
    BY <1>1, <1>2, <2>1, <2>2, <2>5 DEF Single, Data
  <2>7. Cursor'
    BY <1>1, <1>2, <2>1 DEF Cursor
  <2> QED
    BY <2>1, <2>3, <2>4, <2>6, <2>7 DEF Serves, Parsed, Pending
<1> QED
  BY <1>4, <1>5

\* Behind the last file all lines were given.
LEMMA FinishServes ==
  ASSUME TypeOK, Serves, Finish
  PROVE  Serves'
<1>1. /\ pc = "open" /\ pc' = "done" /\ fidx = Len(argv) /\ argv \in Argv
      /\ argv' = argv /\ out' = out /\ fidx' = fidx
  BY DEF Finish, TypeOK
<1>2. Len(out) = Rank(Len(argv) + 1, 0)
  BY <1>1 DEF Serves, Delivered, Given
<1>3. Len(out) = Cardinality(AllEnds(argv))
  BY <1>1, <1>2, FirstAndLast DEF Rank
<1>4. Delivered'
  BY <1>1, <1>3 DEF Serves, Delivered, Given
<1> QED
  BY <1>1, <1>4 DEF Serves, Cursor, Placed, Parsed, Pending, Single, InFile

\* What is in the buffer up to some byte stays the lines it is.
LEMMA TextStays ==
  ASSUME TypeOK, NEW end \in Int, Sorted(end), end <= MAP_LEN,
         \A j \in 0 .. tot_lno - 1 : loff'[j] = loff[j],
         \A k \in 0 .. end - 1 : buf'[k] = buf[k],
         NEW i \in 0 .. tot_lno - 1
  PROVE  Text(LineStart(i), LineLen(i))' = Text(LineStart(i), LineLen(i))
<1>1. /\ tot_lno \in Nat /\ tot_lno <= MAX_NLINES
      /\ \A j \in 0 .. tot_lno - 1 : loff[j].off \in Nat /\ loff[j].cr \in {0, 1}
  BY Scalars, SizeType
<1> DEFINE st == LineStart(i)
           ln == LineLen(i)
<1>2. i \in Nat /\ (i # 0 => i - 1 \in 0 .. tot_lno - 1)
  BY <1>1
<1>3. LineStart(i)' = st
  <2>1. CASE i = 0
    BY <2>1 DEF LineStart
  <2>2. CASE i # 0
    <3>1. loff'[i - 1] = loff[i - 1]
      BY <1>2, <2>2
    <3> QED BY <2>2, <3>1 DEF LineStart
  <2> QED BY <2>1, <2>2
<1>4. LineLen(i)' = ln
  <2>1. CASE i = 0
    BY <2>1 DEF LineLen
  <2>2. CASE i # 0
    <3>1. loff'[i - 1] = loff[i - 1] /\ loff'[i] = loff[i]
      BY <1>2, <2>2
    <3> QED BY <2>2, <3>1 DEF LineLen
  <2> QED BY <2>1, <2>2
<1>5. st \in Nat /\ ln \in Nat /\ st + ln <= end
  <2>1. LineLen(i) >= 0 /\ loff[i].off <= end
    BY DEF Sorted
  <2>2. loff[i].off \in Nat /\ loff[i].cr \in {0, 1}
    BY <1>1
  <2>3. CASE i = 0
    BY <2>1, <2>2, <2>3 DEF LineStart, LineLen
  <2>4. CASE i # 0
    <3>1. loff[i - 1].off \in Nat
      BY <1>1, <1>2, <2>4
    <3>2. LineLen(i) = ((loff[i].off - loff[i].cr) - loff[i - 1].off) - 1 /\ LineStart(i) = loff[i - 1].off + 1
      BY <2>2, <2>4, <3>1 DEF LineStart, LineLen
    <3> HIDE DEF st, ln
    <3>3. st = loff[i - 1].off + 1 /\ ln = ((loff[i].off - loff[i].cr) - loff[i - 1].off) - 1
      BY <3>2, Zenon DEF st, ln
    <3>4. ln >= 0
      BY <2>1, Zenon DEF ln
    <3> QED BY <2>1, <2>2, <3>1, <3>3, <3>4
  <2> QED BY <2>3, <2>4
<1> HIDE DEF st, ln
<1>6. \A k \in 1 .. ln : st + k - 1 \in 0 .. end - 1
  BY <1>5
<1>7. \A k \in 1 .. ln : buf'[st + k - 1] = buf[st + k - 1]
  BY <1>6
<1>8. Text(LineStart(i), LineLen(i))' = [k \in 1 .. ln |-> buf'[st + k - 1]]
  BY <1>3, <1>4 DEF Text
<1>9. Text(LineStart(i), LineLen(i)) = [k \in 1 .. ln |-> buf[st + k - 1]]
  BY DEF Text, st, ln
<1> QED
  BY <1>7, <1>8, <1>9

\* prchunk_fill() begins with nothing left over.
LEMMA FillFreshServes ==
  ASSUME TypeOK, Serves, FillFresh
  PROVE  Serves'
<1>1. /\ pc = "fill" /\ pc' = "read" /\ bno \in {0, off} /\ bno' = 0 /\ tot_lno' = 0 /\ o' = 0 /\ b' = 0
      /\ argv' = argv /\ fidx' = fidx /\ pos' = pos /\ buf' = buf /\ cur_lno' = cur_lno /\ out' = out
      /\ off \in Nat /\ pos \in Nat
  BY Scalars DEF FillFresh
<1>2. InFile
  BY <1>1 DEF InFile
<1>3. ~(bno > off)
  BY <1>1
<1>4. Base = pos
  BY <1>1, <1>3, Zenon DEF Base
<1>5. Base' = pos
  <2>1. Base' = pos' - b'
    BY <1>1 DEF Base
  <2> QED BY <1>1, <2>1
<1>6. Rank(fidx, Base)' = Rank(fidx, Base)
  BY <1>1, <1>4, <1>5 DEF Rank
<1>7. Delivered'
  BY <1>1, <1>6 DEF Serves, Delivered, Given
<1>8. Cursor'
  BY <1>1, <1>2 DEF Serves, Cursor
<1>9. Placed'
  <2> SUFFICES ASSUME argv[fidx].kind = "file" PROVE Placed'
    BY <1>1 DEF Placed
  <2>1. Aligned(pos)
    BY <1>2, <1>4 DEF Serves, Placed
  <2>2. Aligned(Base)' /\ Aligned(Base + o)'
    BY <1>1, <1>5, <2>1 DEF Aligned, Data
  <2>3. Rank(fidx, Base)' \in Nat
    BY <1>1, UptoIs DEF Rank, TypeOK
  <2>4. Rank(fidx, Base + o)' = Rank(fidx, Base)' + tot_lno'
    <3>1. (Base + o)' = Base'
      BY <1>1, <1>5
    <3> QED BY <1>1, <2>3, <3>1 DEF Rank
  <2>5. Shifted(o, b, Base)'
    BY <1>1 DEF Shifted
  <2> QED BY <1>1, <1>5, <2>2, <2>4, <2>5 DEF Placed, CutAt
<1>10. Parsed' /\ Pending'
  BY <1>1 DEF Parsed, Pending
<1>11. Single'
  BY <1>1, <1>2, <1>4, <1>5 DEF Serves, Single, Data
<1> QED
  BY <1>7, <1>8, <1>9, <1>10, <1>11 DEF Serves

\* ... or with the left over of the fill before.
LEMMA FillLeftoverServes ==
  ASSUME TypeOK, Serves, FillLeftover
  PROVE  Serves'
<1> DEFINE rsz == bno - off
<1>1. /\ pc = "fill" /\ pc' = "read" /\ bno > off /\ bno # 0 /\ bno' = rsz /\ tot_lno' = 0 /\ o' = 0 /\ b' = rsz
      /\ argv' = argv /\ fidx' = fidx /\ pos' = pos /\ cur_lno' = cur_lno /\ out' = out
      /\ off \in Nat /\ pos \in Nat /\ bno \in Nat /\ bno <= MAP_LEN
      /\ buf' = [i \in DOMAIN buf |-> IF i < rsz THEN buf[off + i] ELSE buf[i]]
      /\ DOMAIN buf = 0 .. MAP_LEN - 1
  BY SizeType DEF FillLeftover, TypeOK
<1>2. InFile
  BY <1>1 DEF InFile
<1>3. Base = pos - rsz
  BY <1>1, Zenon DEF Base
<1>4. rsz \in Nat /\ rsz > 0
  BY <1>1
<1>5. Base' = pos - rsz
  <2>1. Base' = pos' - b'
    BY <1>1 DEF Base
  <2> QED BY <1>1, <2>1
<1>6. Rank(fidx, Base)' = Rank(fidx, Base)
  BY <1>1, <1>3, <1>5 DEF Rank
<1>7. Delivered'
  BY <1>1, <1>6 DEF Serves, Delivered, Given
<1>8. cur_lno > 0 /\ argv[fidx].kind # "dir"
  BY <1>1, <1>2 DEF Serves, Cursor
<1>9. argv[fidx].kind = "file"
  BY <1>2, <1>8, InFileIs
<1>10. Cursor'
  BY <1>1, <1>4, <1>8 DEF Serves, Cursor
<1>11. Placed'
  <2>1. 0 <= Base /\ Base <= pos /\ Aligned(Base) /\ Shifted(off, bno, pos - bno)
    BY <1>1, <1>2, <1>9 DEF Serves, Placed
  <2>2. Aligned(Base)' /\ Aligned(Base + o)'
    BY <1>1, <1>3, <1>4, <1>5, <2>1 DEF Aligned, Data
  <2>3. Rank(fidx, Base)' \in Nat
    BY <1>1, UptoIs DEF Rank, TypeOK
  <2>4. Rank(fidx, Base + o)' = Rank(fidx, Base)' + tot_lno'
    <3>1. (Base + o)' = Base'
      BY <1>1, <1>4, <1>5
    <3> QED BY <1>1, <2>3, <3>1 DEF Rank
  <2>5. Shifted(o, b, Base)'
    <3>1. ASSUME NEW i \in 0 .. rsz - 1 PROVE buf'[i] = Data'[(Base' + 1) + i]
      <4>1. i \in DOMAIN buf /\ i < rsz /\ i \in Nat
        BY <1>1, <1>4, SizeType
      <4>2. buf'[i] = buf[off + i]
        BY <1>1, <4>1
      <4>3. off + i \in off .. bno - 1
        BY <1>1, <4>1
      <4>4. buf[off + i] = Data[((pos - bno) + 1) + (off + i)]
        BY <2>1, <4>3 DEF Shifted
      <4>5. ((pos - bno) + 1) + (off + i) = (Base' + 1) + i
        BY <1>1, <1>5, <4>1
      <4> HIDE DEF rsz
      <4> QED BY <1>1, <4>2, <4>4, <4>5 DEF Data
    <3> QED BY <1>1, <3>1 DEF Shifted
  <2> QED BY <1>1, <1>3, <1>5, <2>1, <2>2, <2>4, <2>5 DEF Placed, CutAt
<1>12. Parsed'
  BY <1>1 DEF Parsed
<1>13. Pending'
  BY <1>1, <1>4 DEF Pending
<1>14. Single'
  BY <1>1, <1>2, <1>3, <1>5 DEF Serves, Single, Data
<1> QED
  BY <1>7, <1>10, <1>11, <1>12, <1>13, <1>14 DEF Serves

\* It is never refused, as long as every file is read to its end.
LEMMA FillRefusedServes ==
  ASSUME TypeOK, Serves, FillRefused
  PROVE  FALSE
BY Scalars DEF FillRefused, Serves, Cursor

\* read(2) hands over some bytes.
LEMMA ReadBytesServes ==
  ASSUME TypeOK, Where, Index, Serves, NEW n \in 1 .. CHUNK_SIZE, ReadBytes(n)
  PROVE  Serves'
<1>1. /\ pc = "read" /\ pc' = "scan" /\ nrd' = n /\ n \in Nat /\ n > 0
      /\ b' = b + n /\ b + n <= MAP_LEN /\ b \in Nat /\ o <= b /\ o \in Nat
      /\ pos' = pos + n /\ pos \in Nat /\ tot_lno \in Nat /\ bno \in Nat
      /\ argv[fidx].kind = "file"
      /\ argv' = argv /\ fidx' = fidx /\ tot_lno' = tot_lno /\ cur_lno' = cur_lno /\ bno' = bno /\ off' = off
      /\ loff' = loff /\ o' = o /\ out' = out
      /\ pos + n <= Len(Data)
  <2>1. ReadBytes(n) /\ n \in Nat /\ n > 0
    BY SizeType
  <2>2. pc = "read" /\ o <= b
    BY <2>1 DEF ReadBytes, Index
  <2> QED
    BY <2>1, <2>2, Scalars DEF ReadBytes, Data
<1>2. InFile /\ InFile'
  BY <1>1 DEF InFile
<1>3. Base = pos - b
  BY <1>1, Zenon DEF Base
<1>4. Base' = Base
  <2>1. Base' = pos' - b'
    BY <1>1, Zenon DEF Base
  <2> QED BY <1>1, <1>3, <2>1
<1>5. buf' = [i \in DOMAIN buf |-> IF i \in b .. b + n - 1 THEN argv[fidx].data[pos + 1 + (i - b)] ELSE buf[i]]
      /\ DOMAIN buf = 0 .. MAP_LEN - 1
  BY DEF ReadBytes, TypeOK
<1>6. \A i \in 0 .. b - 1 : buf'[i] = buf[i]
  BY <1>1, <1>5, SizeType, SMTT(30)
<1>7. Delivered'
  BY <1>1, <1>4 DEF Serves, Delivered, Given, Rank
<1>8. Cursor'
  BY <1>1 DEF Serves, Cursor
<1>9. Data' = Data
  BY <1>1 DEF Data
<1>10. Placed'
  <2>1. 0 <= Base /\ Base <= pos /\ Aligned(Base) /\ Shifted(o, b, Base) /\ CutAt(o)
    BY <1>1, <1>2 DEF Serves, Placed
  <2>2. Aligned(Base)' /\ CutAt(o)'
    BY <1>1, <1>4, <1>9, <2>1 DEF Aligned, CutAt, Rank
  <2>3. Shifted(o, b, Base)'
    <3>1. ASSUME NEW i \in o .. (b + n) - 1 PROVE buf'[i] = Data[(Base + 1) + i]
      <4>1. CASE i < b
        BY <1>1, <1>6, <2>1, <4>1 DEF Shifted
      <4>2. CASE i >= b
        <5>1. buf'[i] = argv[fidx].data[pos + 1 + (i - b)]
          BY <1>1, <1>5, <4>2, SizeType
        <5>2. pos + 1 + (i - b) = (Base + 1) + i
          BY <1>1, <1>3
        <5> QED BY <5>1, <5>2 DEF Data
      <4> QED BY <1>1, <4>1, <4>2
    <3> QED BY <1>1, <1>4, <1>9, <3>1 DEF Shifted
  <2> QED BY <1>1, <1>3, <1>4, <2>1, <2>2, <2>3 DEF Placed
<1>11. Parsed'
  <2>1. Sorted(o - 1) /\ o - 1 \in Int /\ o - 1 <= MAP_LEN
    BY <1>1, SizeType DEF Index
  <2>2. \A k \in 0 .. (o - 1) - 1 : buf'[k] = buf[k]
    BY <1>1, <1>6
  <2>3. ASSUME NEW i \in 0 .. tot_lno - 1 PROVE IsLine(i)'
    <3>1. Text(LineStart(i), LineLen(i))' = Text(LineStart(i), LineLen(i))
      BY <1>1, <2>1, <2>2, TextStays
    <3>2. IsLine(i)
      BY <1>1 DEF Serves, Parsed
    <3> QED BY <1>1, <1>4, <1>9, <3>1, <3>2, Zenon DEF IsLine, Rank
  <2> QED BY <1>1, <2>3 DEF Parsed
<1>12. Pending' /\ Single'
  <2>1. Pending'
    BY <1>1 DEF Pending
  <2>2. Single'
    BY <1>1, <1>2, <1>4, <1>9 DEF Serves, Single
  <2> QED BY <2>1, <2>2
<1> QED
  BY <1>7, <1>8, <1>10, <1>11, <1>12 DEF Serves

USE DEF File0
\* Where the reader reads or looks for newlines, spelt out.
LEMMA ReadingIs ==
  ASSUME TypeOK, Where, Index, Serves, pc \in {"read", "scan"}, argv[fidx].kind = "file"
  PROVE  /\ argv \in Argv /\ fidx \in DOMAIN argv /\ Data \in Seq(Byte) /\ Len(Data) \in Nat
         /\ pos \in Nat /\ pos <= Len(Data) /\ b \in Nat /\ o \in Nat /\ o <= b /\ b <= MAP_LEN /\ MAP_LEN \in Nat
         /\ tot_lno \in Nat /\ tot_lno <= o /\ tot_lno < MAX_NLINES /\ cur_lno \in Nat /\ bno \in Nat /\ off \in Nat
         /\ Base \in Nat /\ Base + b = pos /\ Aligned(Base) /\ Shifted(o, b, Base) /\ CutAt(o)
         /\ Rank(fidx, Base) \in Nat /\ Len(out) = Rank(fidx, Base)
         /\ \A i \in 0 .. tot_lno - 1 : IsLine(i)
         /\ o < b => Base + o = 0 \/ Data[Base + o] = NL
         /\ ~Ended(Data) => fidx = 1 /\ (Base = Len(Data) \/ (Base = 0 /\ cur_lno = 0))
         /\ bno <= b /\ (bno = 0 \/ cur_lno > 0)
         /\ Data # << >> <=> Len(Data) > 0
<1>1. InFile
  BY DEF InFile
<1>2. /\ argv \in Argv /\ fidx \in DOMAIN argv /\ Data \in Seq(Byte) /\ Len(Data) \in Nat
      /\ pos \in Nat /\ pos <= Len(Data)
  BY <1>1, InFileIs
<1>3. /\ o \in Nat /\ o <= b /\ b <= MAP_LEN /\ MAP_LEN \in Nat /\ b \in Nat
      /\ tot_lno \in Nat /\ tot_lno <= o /\ tot_lno < MAX_NLINES /\ cur_lno \in Nat /\ bno \in Nat /\ off \in Nat
  BY Scalars, SizeType DEF Index
<1>4. Base = pos - b
  BY Zenon DEF Base
<1>5. 0 <= Base /\ Base <= pos /\ Aligned(Base) /\ Shifted(o, b, Base) /\ CutAt(o)
  BY <1>1 DEF Serves, Placed
<1>6. Base \in Nat /\ Base + b = pos
  BY <1>2, <1>3, <1>4, <1>5
<1>7. Rank(fidx, Base) \in Nat
  BY <1>2, UptoIs DEF Rank
<1>8. Len(out) = Rank(fidx, Base)
  BY DEF Serves, Delivered, Given
<1>9. \A i \in 0 .. tot_lno - 1 : IsLine(i)
  BY DEF Serves, Parsed
<1>10. o < b => Base + o = 0 \/ Data[Base + o] = NL
  BY <1>2, <1>3, <1>5, <1>6 DEF CutAt, Aligned
<1>11. ~Ended(Data) => fidx = 1 /\ (Base = Len(Data) \/ (Base = 0 /\ cur_lno = 0))
  BY <1>1 DEF Serves, Single
<1>12. bno <= b /\ (bno = 0 \/ cur_lno > 0)
  BY DEF Serves, Cursor
<1>13. Data # << >> <=> Len(Data) > 0
  BY <1>2
<1> QED
  BY <1>2, <1>3, <1>5, <1>6, <1>7, <1>8, <1>9, <1>10, <1>11, <1>12, <1>13

\* The new entry of the table is a line from o to the byte it notes.
LEMMA EntryIs ==
  ASSUME TypeOK, NEW k \in Nat, k = tot_lno, tot_lno < MAX_NLINES, o = LineStart(tot_lno),
         NEW p \in Nat, NEW c \in {0, 1}, loff' = [loff EXCEPT ![tot_lno] = [off |-> p, cr |-> c]]
  PROVE  /\ LineStart(k)' = o /\ LineLen(k)' = (p - c) - o
         /\ \A j \in 0 .. k - 1 : loff'[j] = loff[j]
<1>1. o \in Nat /\ \A j \in 0 .. MAX_NLINES - 1 : loff[j].off \in Nat
  BY Scalars
<1>2. loff'[k] = [off |-> p, cr |-> c] /\ \A j \in 0 .. k - 1 : loff'[j] = loff[j]
  BY SizeType DEF TypeOK
<1>3. CASE k = 0
  BY <1>1, <1>2, <1>3 DEF LineStart, LineLen
<1>4. CASE k # 0
  <2>1. loff'[k - 1] = loff[k - 1] /\ loff[k - 1].off \in Nat
    BY <1>1, <1>2, <1>4, SizeType
  <2>2. o = loff[k - 1].off + 1
    BY <1>4 DEF LineStart
  <2> QED BY <1>1, <1>2, <1>4, <2>1, <2>2 DEF LineStart, LineLen
<1> QED
  BY <1>2, <1>3, <1>4

\* The unfinished line at the end of the first file is one.
LEMMA ReadLastLineServes ==
  ASSUME TypeOK, Where, Index, Serves, ReadLastLine
  PROVE  Serves'
<1>1. /\ pc = "read" /\ pc' = "lines" /\ argv[fidx].kind = "file" /\ pos = Len(Data)
      /\ o < b /\ cur_lno <= tot_lno
      /\ loff' = [loff EXCEPT ![tot_lno] = [off |-> b, cr |-> 0]] /\ tot_lno' = tot_lno + 1
      /\ off' = b /\ o' = b /\ bno' = b /\ b' = b /\ cur_lno' \in {0, cur_lno}
      /\ argv' = argv /\ fidx' = fidx /\ pos' = pos /\ buf' = buf /\ out' = out
  BY DEF ReadLastLine, AtEof, Unyielded, Yield, Data
<1>2. /\ argv \in Argv /\ fidx \in DOMAIN argv /\ Data \in Seq(Byte) /\ Len(Data) \in Nat
      /\ pos \in Nat /\ pos <= Len(Data) /\ b \in Nat /\ o \in Nat /\ o <= b /\ b <= MAP_LEN /\ MAP_LEN \in Nat
      /\ tot_lno \in Nat /\ tot_lno <= o /\ tot_lno < MAX_NLINES /\ cur_lno \in Nat /\ bno \in Nat /\ off \in Nat
      /\ Base \in Nat /\ Base + b = pos /\ Aligned(Base) /\ Shifted(o, b, Base) /\ CutAt(o)
      /\ Rank(fidx, Base) \in Nat /\ Len(out) = Rank(fidx, Base)
      /\ \A i \in 0 .. tot_lno - 1 : IsLine(i)
      /\ o < b => Base + o = 0 \/ Data[Base + o] = NL
      /\ ~Ended(Data) => fidx = 1 /\ (Base = Len(Data) \/ (Base = 0 /\ cur_lno = 0))
      /\ bno <= b /\ (bno = 0 \/ cur_lno > 0)
      /\ Data # << >> <=> Len(Data) > 0
  BY <1>1, ReadingIs
<1>3. buf[b - 1] = Data[Len(Data)] /\ b - 1 \in o .. b - 1
  <2>0. b \in Nat /\ o \in Nat /\ o < b /\ Base \in Nat /\ Base + b = pos /\ pos = Len(Data)
    BY <1>1, <1>2
  <2>1. b - 1 \in o .. b - 1 /\ (Base + 1) + (b - 1) = Len(Data)
    BY <2>0
  <2> QED BY <1>2, <2>1 DEF Shifted
<1>4. (\A q \in o .. b - 1 : buf[q] # NL) \/ (o = 0 /\ b = bno /\ bno # 0)
  BY <1>1 DEF Serves, Pending
<1>5. ~Ended(Data)
  <2> SUFFICES ASSUME Ended(Data) PROVE FALSE
    OBVIOUS
  <2>1. Data[Len(Data)] = NL
    BY <1>1, <1>2 DEF Ended
  <2>2. o = 0 /\ bno # 0
    BY <1>3, <1>4, <2>1
  <2> QED BY <1>1, <1>2, <2>2
<1>6. fidx = 1 /\ Base = 0 /\ cur_lno = 0 /\ bno = 0 /\ \A q \in o .. b - 1 : buf[q] # NL
  BY <1>1, <1>2, <1>4, <1>5
<1> DEFINE e == Len(Data)
<1>7. \A r \in (Base + o) + 1 .. e : Data[r] # NL
  <2> SUFFICES ASSUME NEW r \in (Base + o) + 1 .. e PROVE Data[r] # NL
    OBVIOUS
  <2>1. r - (Base + 1) \in o .. b - 1 /\ (Base + 1) + (r - (Base + 1)) = r
    BY <1>1, <1>2
  <2> QED BY <1>2, <1>6, <2>1 DEF Shifted
<1>8. e \in Ends(Data) /\ e > 0 /\ Base + o < e /\ e = Base + b
  BY <1>1, <1>2 DEF Ends
<1>9. \A r \in Ends(Data) : r <= Base + o \/ e <= r
  <2> SUFFICES ASSUME NEW r \in Ends(Data), ~(r <= Base + o), ~(e <= r) PROVE FALSE
    OBVIOUS
  <2>1. r \in 1 .. Len(Data) /\ (Data[r] = NL \/ r = e)
    BY <1>2 DEF Ends
  <2>2. r \in (Base + o) + 1 .. e
    BY <1>2, <2>1
  <2> QED BY <1>2, <1>7, <2>1, <2>2
<1>10. Rank(fidx, e) = (Rank(fidx, Base) + tot_lno) + 1
  <2>1. Rank(fidx, Base + o) = Rank(fidx, Base) + tot_lno
    BY <1>2 DEF CutAt
  <2>2. Base + o \in Nat
    BY <1>2
  <2>3. e \in Ends(argv[fidx].data) /\ \A r \in Ends(argv[fidx].data) : r <= Base + o \/ e <= r
    BY <1>8, <1>9 DEF Data
  <2> HIDE DEF e
  <2>4. Cardinality(Upto(argv, fidx, e)) = Cardinality(Upto(argv, fidx, Base + o)) + 1
    BY <1>1, <1>2, <1>8, <2>2, <2>3, OneMore
  <2> QED BY <2>1, <2>4 DEF Rank
<1>11. Base' = Base /\ Data' = Data
  <2>1. Base' = pos' - b'
    BY <1>1, Zenon DEF Base
  <2>2. Base = pos - b
    BY <1>1, Zenon DEF Base
  <2> QED BY <1>1, <2>1, <2>2 DEF Data
<1>13. LineAt(Data, e) = SubSeq(Data, (Base + o) + 1, e)
  <2>1. Begin(Data, e) = (Base + o) + 1
    <3>1. \A r \in (Base + o) + 1 .. e - 1 : Data[r] # NL
      BY <1>2, <1>7
    <3>2. Base + o \in Nat /\ e \in Nat /\ e <= Len(Data)
      BY <1>2
    <3> HIDE DEF e
    <3>3. (Base + o = 0 \/ Data[Base + o] = NL) /\ Base + o < e /\ Data \in Seq(Byte)
      BY <1>1, <1>2, <1>8
    <3> QED BY <3>1, <3>2, <3>3, BeginIs
  <2>2. Data[e] # NL
    BY <1>2, <1>7, <1>8
  <2> HIDE DEF e
  <2> QED BY <2>1, <2>2 DEF LineAt
<1>14. ASSUME NEW k \in Nat, k = tot_lno
       PROVE  IsLine(k)' /\ \A i \in 0 .. k - 1 : IsLine(i)'
  <2>1. o = LineStart(tot_lno) /\ Sorted(o - 1)
    BY <1>1 DEF Index
  <2>2. LineStart(k)' = o /\ LineLen(k)' = (b - 0) - o /\ \A j \in 0 .. k - 1 : loff'[j] = loff[j]
    <3>1. b \in Nat /\ 0 \in {0, 1}
      BY <1>2
    <3> QED BY <1>1, <1>2, <1>14, <2>1, <3>1, EntryIs
  <2>3. Text(LineStart(k), LineLen(k))' = [j \in 1 .. b - o |-> buf'[o + j - 1]]
    <3>1. (b - 0) - o = b - o
      BY <1>2
    <3> QED BY <2>2, <3>1 DEF Text
  <2>4. [j \in 1 .. b - o |-> buf'[o + j - 1]] = SubSeq(Data, (Base + o) + 1, (Base + o) + (b - o))
    <3>1. b - o \in Nat /\ Base + (o + (b - o)) <= Len(Data) /\ (o + (b - o)) - 1 = b - 1
      BY <1>1, <1>2
    <3>2. \A r \in o .. (o + (b - o)) - 1 : buf'[r] = Data[(Base + 1) + r]
      BY <1>1, <1>2, <3>1 DEF Shifted
    <3> HIDE DEF e
    <3> QED BY <1>2, <3>1, <3>2, PieceIs
  <2>5. Text(LineStart(k), LineLen(k))' = LineAt(Data, e)
    <3>1. (Base + o) + (b - o) = e
      BY <1>1, <1>2
    <3> HIDE DEF e
    <3> QED BY <1>13, <2>3, <2>4, <3>1
  <2>6. IsLine(k)'
    <3>1. Rank(fidx, e)' = Rank(fidx, e) /\ Rank(fidx, Base)' = Rank(fidx, Base)
      BY <1>1, <1>11 DEF Rank
    <3>2. Rank(fidx, e)' = (Rank(fidx, Base)' + k) + 1
      BY <1>10, <1>14, <3>1
    <3>3. e' = e
      BY <1>11
    <3>4. e \in Ends(Data)' /\ LineAt(Data, e)' = LineAt(Data, e)
      BY <1>8, <1>11
    <3> HIDE DEF e
    <3> QED BY <1>1, <1>8, <1>11, <2>5, <3>2, <3>3, Zenon DEF IsLine, Rank
  <2>7. ASSUME NEW i \in 0 .. k - 1 PROVE IsLine(i)'
    <3>1. o - 1 \in Int /\ o - 1 <= MAP_LEN /\ i \in 0 .. tot_lno - 1
      BY <1>2, <1>14
    <3>2. \A j \in 0 .. tot_lno - 1 : loff'[j] = loff[j]
      BY <1>14, <2>2
    <3>3. \A r \in 0 .. (o - 1) - 1 : buf'[r] = buf[r]
      BY <1>1
    <3>4. Text(LineStart(i), LineLen(i))' = Text(LineStart(i), LineLen(i))
      BY <2>1, <3>1, <3>2, <3>3, TextStays
    <3>5. IsLine(i)
      BY <1>2, <3>1
    <3> QED BY <1>1, <1>11, <3>4, <3>5, Zenon DEF IsLine, Rank
  <2> QED BY <2>6, <2>7
<1>15. Parsed'
  <2>1. \A i \in 0 .. tot_lno' - 1 : i \in Nat /\ (i = tot_lno \/ i \in 0 .. tot_lno - 1)
    BY <1>1, <1>2
  <2>2. tot_lno \in Nat
    BY <1>2
  <2>3. \A i \in 0 .. tot_lno' - 1 : IsLine(i)'
    <3>1. PICK k \in Nat : k = tot_lno
      BY <2>2
    <3>2. IsLine(k)' /\ \A i \in 0 .. k - 1 : IsLine(i)'
      BY <1>14, <3>1
    <3> QED BY <2>1, <3>1, <3>2
  <2> QED BY <2>3 DEF Parsed
<1>16. cur_lno' = 0
  BY <1>1, <1>6
<1>17. Rank(fidx, Base)' = Rank(fidx, Base)
  BY <1>1, <1>11 DEF Rank
<1>18. Delivered'
  <2>1. Len(out') = Rank(fidx, Base)' + cur_lno'
    BY <1>1, <1>2, <1>16, <1>17
  <2> QED BY <1>1, <2>1 DEF Serves, Delivered, Given
<1>19. Cursor'
  <2>1. out \in Seq(Seq(Byte \cup {NUL}))
    BY DEF Serves, Cursor
  <2> QED BY <1>1, <1>2, <1>16, <2>1 DEF Cursor
<1>20. Placed'
  <2>1. Aligned(Base)'
    BY <1>2, <1>11 DEF Aligned
  <2>2. Shifted(off, b, Base)'
    <3>1. off' .. b' - 1 = {} /\ b \in Nat
      BY <1>1, <1>2
    <3> QED BY <3>1 DEF Shifted
  <2>3. CutAt(off)'
    <3>1. (Base + off)' = e
      BY <1>1, <1>8, <1>11
    <3>2. Aligned(Base + off)'
      BY <1>11, <3>1 DEF Aligned
    <3>3. Rank(fidx, Base + off)' = Rank(fidx, e)
      BY <1>1, <3>1 DEF Rank
    <3>4. Rank(fidx, e) = Rank(fidx, Base) + (tot_lno + 1)
      BY <1>2, <1>10
    <3> HIDE DEF e
    <3> QED BY <1>1, <1>17, <3>2, <3>3, <3>4 DEF CutAt
  <2>4. 0 <= Base' /\ Base' <= pos'
    BY <1>1, <1>2, <1>11
  <2> QED BY <1>1, <2>1, <2>2, <2>3, <2>4 DEF Placed
<1>21. Pending'
  BY <1>1 DEF Pending
<1>22. Single'
  BY <1>1, <1>6, <1>11 DEF Single
<1> QED
  BY <1>15, <1>18, <1>19, <1>20, <1>21, <1>22 DEF Serves

USE DEF File0

\* A line of the table stays one while buffer and table stay.
LEMMA IsLineStays ==
  ASSUME argv' = argv, fidx' = fidx, buf' = buf, loff' = loff, Base' = Base, NEW i
  PROVE  IsLine(i)' <=> IsLine(i)
<1>1. LineStart(i)' = LineStart(i) /\ LineLen(i)' = LineLen(i)
  BY DEF LineStart, LineLen
<1>2. Text(LineStart(i), LineLen(i))' = Text(LineStart(i), LineLen(i))
  BY <1>1 DEF Text
<1> QED
  BY <1>2, Zenon DEF IsLine, Rank, Data

\* The scan is over: the next bytes are asked for, and never given up on.
LEMMA ScanEndServes ==
  ASSUME TypeOK, Where, Index, Serves, ScanEnd
  PROVE  Serves'
<1>1. /\ pc = "scan" /\ \A p \in o .. b - 1 : buf[p] # NL
      /\ pc' = IF o < b /\ nrd <= 0 THEN "open" ELSE "read"
      /\ argv' = argv /\ fidx' = fidx /\ pos' = pos /\ buf' = buf /\ tot_lno' = tot_lno /\ cur_lno' = cur_lno
      /\ bno' = bno /\ off' = off /\ loff' = loff /\ o' = o /\ b' = b /\ nrd' = nrd /\ out' = out
      /\ argv[fidx].kind = "file"
  BY DEF ScanEnd, ctx, locals, Where
<1>2. /\ Data \in Seq(Byte) /\ Len(Data) \in Nat /\ pos \in Nat /\ b \in Nat /\ o \in Nat
      /\ Base \in Nat /\ Base + b = pos /\ Shifted(o, b, Base)
  BY <1>1, ReadingIs
<1>3. pc' = "read"
  <2> SUFFICES ASSUME o < b, nrd <= 0 PROVE FALSE
    BY <1>1
  <2>1. pos = Len(Data) /\ Ended(Data)
    BY <1>1 DEF Serves, Pending
  <2>2. b - 1 \in o .. b - 1 /\ (Base + 1) + (b - 1) = Len(Data) /\ Len(Data) > 0
    BY <1>2, <2>1
  <2>3. buf[b - 1] = Data[Len(Data)]
    BY <2>2, <1>2 DEF Shifted
  <2>4. Data[Len(Data)] = NL
    BY <1>2, <2>1, <2>2 DEF Ended
  <2> QED BY <1>1, <2>2, <2>3, <2>4
<1>4. Base' = Base
  <2>1. Base' = pos' - b' /\ Base = pos - b
    BY <1>1, <1>3, Zenon DEF Base
  <2> QED BY <1>1, <2>1
<1>5. Data' = Data
  BY <1>1 DEF Data
<1>6. Delivered' /\ Cursor'
  <2>1. Rank(fidx, Base)' = Rank(fidx, Base)
    BY <1>1, <1>4 DEF Rank
  <2>2. Delivered'
    BY <1>1, <1>3, <2>1 DEF Serves, Delivered, Given
  <2>3. Cursor'
    BY <1>1, <1>3 DEF Serves, Cursor
  <2> QED BY <2>2, <2>3
<1>7. Placed'
  <2>1. 0 <= Base /\ Base <= pos /\ Aligned(Base) /\ Shifted(o, b, Base) /\ CutAt(o)
    BY <1>1, ReadingIs
  <2>2. Aligned(Base)' /\ Shifted(o, b, Base)' /\ CutAt(o)'
    BY <1>1, <1>4, <1>5, <2>1 DEF Aligned, Shifted, CutAt, Rank
  <2> QED BY <1>1, <1>3, <1>4, <2>1, <2>2 DEF Placed
<1>8. Parsed'
  <2>1. \A i \in 0 .. tot_lno - 1 : IsLine(i)
    BY <1>1 DEF Serves, Parsed
  <2>2. \A i \in 0 .. tot_lno - 1 : IsLine(i)'
    BY <1>1, <1>4, <2>1, IsLineStays
  <2> QED BY <1>1, <2>2 DEF Parsed
<1>9. Pending'
  BY <1>1, <1>3 DEF Pending
<1>10. Single'
  BY <1>1, <1>3, <1>4, <1>5 DEF Serves, Single, InFile
<1> QED
  BY <1>6, <1>7, <1>8, <1>9, <1>10 DEF Serves

\* What prchunk_getlineno() hands over is the next line there is.
LEMMA GetLineGives ==
  ASSUME TypeOK, Where, Index, Serves, GetLine
  PROVE  /\ out' = Append(out, Lines(argv)[Len(out) + 1])
         /\ Len(out) + 1 \in 1 .. Cardinality(AllEnds(argv))
         /\ cur_lno < tot_lno /\ cur_lno' = cur_lno + 1
<1>1. /\ pc = "lines" /\ InFile /\ argv[fidx].kind = "file" /\ tot_lno > 0
      /\ cur_lno \in Nat /\ tot_lno \in Nat /\ (cur_lno < tot_lno \/ cur_lno = 0) /\ cur_lno' = cur_lno + 1
  BY Scalars DEF GetLine, HasLine, Index, Where, InFile
<1>2. cur_lno < tot_lno /\ cur_lno \in 0 .. tot_lno - 1
  BY <1>1
<1>3. out' = Append(out, Text(LineStart(cur_lno), LineLen(cur_lno)))
  BY <1>1, <1>2 DEF GetLine
<1>4. IsLine(cur_lno)
  BY <1>1, <1>2 DEF Serves, Parsed
<1>5. PICK e \in Ends(Data) :
        /\ Rank(fidx, e) = (Rank(fidx, Base) + cur_lno) + 1
        /\ Text(LineStart(cur_lno), LineLen(cur_lno)) = LineAt(Data, e)
  BY <1>4 DEF IsLine
<1>6. Len(out) + 1 = Rank(fidx, e)
  <2>1. Len(out) = Rank(fidx, Base) + cur_lno
    BY <1>1 DEF Serves, Delivered, Given
  <2> QED BY <1>5, <2>1
<1> DEFINE d == <<fidx, e>>
<1>7. d \in AllEnds(argv) /\ argv \in Argv
  <2>1. fidx \in DOMAIN argv /\ argv \in Argv
    BY <1>1, InFileIs
  <2>2. d \in LineEnds(argv, fidx)
    BY <1>1, <1>5 DEF LineEnds, Data
  <2> QED BY <2>1, <2>2 DEF AllEnds
<1>8. d[1] = fidx /\ d[2] = e
  OBVIOUS
<1> HIDE DEF d
<1>9. /\ Cardinality(Upto(argv, d[1], d[2])) \in 1 .. Cardinality(AllEnds(argv))
      /\ Lines(argv)[Cardinality(Upto(argv, d[1], d[2]))] = LineAt(argv[d[1]].data, d[2])
  BY <1>7, LineIs
<1>10. Rank(fidx, e) \in 1 .. Cardinality(AllEnds(argv)) /\ Lines(argv)[Rank(fidx, e)] = LineAt(Data, e)
  BY <1>8, <1>9 DEF Rank, Data
<1>11. Lines(argv)[Len(out) + 1] = Text(LineStart(cur_lno), LineLen(cur_lno))
  BY <1>5, <1>6, <1>10
<1> QED
  BY <1>1, <1>2, <1>3, <1>6, <1>10, <1>11

\* The tool is given one more line.
LEMMA GetLineServes ==
  ASSUME TypeOK, Where, Index, Serves, GetLine
  PROVE  Serves'
<1>1. /\ pc = "lines" /\ pc' = "lines" /\ argv[fidx].kind = "file" /\ tot_lno \in Nat /\ cur_lno \in Nat
      /\ argv' = argv /\ fidx' = fidx /\ pos' = pos /\ buf' = buf /\ tot_lno' = tot_lno
      /\ bno' = bno /\ off' = off /\ loff' = loff /\ o' = o /\ b' = b
  BY Scalars DEF GetLine, locals, Where
<1>2. /\ out' = Append(out, Lines(argv)[Len(out) + 1]) /\ cur_lno < tot_lno /\ cur_lno' = cur_lno + 1
      /\ Len(out) + 1 \in 1 .. Cardinality(AllEnds(argv))
  BY GetLineGives
<1>3. out \in Seq(Seq(Byte \cup {NUL}))
  BY DEF Serves, Cursor
<1>4. Base' = Base
  <2>1. Base' = pos' - b' /\ Base = pos - b
    BY <1>1, Zenon DEF Base
  <2> QED BY <1>1, <2>1
<1>5. Data' = Data
  BY <1>1 DEF Data
<1>6. out' \in Seq(Seq(Byte \cup {NUL}))
  <2> DEFINE st == LineStart(cur_lno)
             ln == LineLen(cur_lno)
  <2>1. cur_lno \in 0 .. tot_lno - 1
    BY <1>1, <1>2
  <2>2. ln >= 0 /\ loff[cur_lno].off <= off /\ off <= MAP_LEN
    BY <1>1, <2>1, SizeType DEF Index, Sorted, TypeOK
  <2>3. /\ loff[cur_lno].off \in Nat /\ loff[cur_lno].cr \in {0, 1}
        /\ cur_lno # 0 => loff[cur_lno - 1].off \in Nat
    BY <1>1, <2>1, Scalars, SizeType
  <2>4. st \in Nat /\ ln \in Nat /\ st + ln <= off /\ off \in Nat
    BY <1>1, <2>2, <2>3, Scalars DEF LineStart, LineLen
  <2>5. Text(st, ln) \in Seq(Byte \cup {NUL})
    <3> HIDE DEF st, ln
    <3>1. \A k \in 1 .. ln : st + k - 1 \in 0 .. MAP_LEN - 1
      BY <2>2, <2>4, SizeType
    <3>2. \A k \in 1 .. ln : buf[st + k - 1] \in Byte \cup {NUL}
      BY <3>1 DEF TypeOK
    <3> QED BY <2>4, <3>2 DEF Text
  <2>6. out' = Append(out, Text(st, ln))
    BY <1>1, <1>2 DEF GetLine
  <2> HIDE DEF st, ln
  <2> QED BY <1>3, <2>5, <2>6
<1>7. Delivered'
  <2>1. Rank(fidx, Base)' = Rank(fidx, Base) /\ Lines(argv)' = Lines(argv)
    BY <1>1, <1>4 DEF Rank
  <2>2. Len(out) = Rank(fidx, Base) + cur_lno /\ \A i \in 1 .. Len(out) : out[i] = Lines(argv)[i]
    BY <1>1 DEF Serves, Delivered, Given
  <2>3. Rank(fidx, Base) \in Nat
    BY UptoIs DEF Rank, TypeOK
  <2>4. Len(out') = Len(out) + 1 /\ Len(out) \in Nat
    BY <1>2, <1>3
  <2>5. \A i \in 1 .. Len(out') : out'[i] = Lines(argv)[i]
    BY <1>2, <1>3, <2>2, <2>4
  <2>6. Len(out') = Rank(fidx, Base)' + cur_lno'
    BY <1>1, <1>2, <2>1, <2>2, <2>3, <2>4
  <2> QED BY <1>1, <2>1, <2>5, <2>6 DEF Delivered, Given
<1>8. Cursor'
  BY <1>1, <1>2, <1>6 DEF Serves, Cursor
<1>9. Placed'
  <2>1. 0 <= Base /\ Base <= pos /\ Aligned(Base) /\ Shifted(off, b, Base) /\ CutAt(off)
    BY <1>1 DEF Serves, Placed, InFile
  <2>2. Aligned(Base)' /\ Shifted(off, b, Base)' /\ CutAt(off)'
    BY <1>1, <1>4, <1>5, <2>1 DEF Aligned, Shifted, CutAt, Rank
  <2> QED BY <1>1, <1>4, <2>1, <2>2 DEF Placed
<1>10. Parsed'
  <2>1. \A i \in 0 .. tot_lno - 1 : IsLine(i)
    BY <1>1 DEF Serves, Parsed
  <2>2. \A i \in 0 .. tot_lno - 1 : IsLine(i)'
    BY <1>1, <1>4, <2>1, IsLineStays
  <2> QED BY <1>1, <2>2 DEF Parsed
<1>11. Pending' /\ Single'
  <2>1. Pending'
    BY <1>1 DEF Pending
  <2>2. Single'
    BY <1>1, <1>5 DEF Serves, Single, InFile
  <2> QED BY <2>1, <2>2
<1> QED
  BY <1>7, <1>8, <1>9, <1>10, <1>11 DEF Serves

\* Behind the last line of a fill the next one begins.
LEMMA RefillServes ==
  ASSUME TypeOK, Where, Index, Serves, Refill
  PROVE  Serves'
<1>1. /\ pc = "lines" /\ pc' = "fill" /\ argv[fidx].kind = "file" /\ InFile
      /\ argv' = argv /\ fidx' = fidx /\ pos' = pos /\ buf' = buf /\ tot_lno' = tot_lno /\ cur_lno' = cur_lno
      /\ bno' = bno /\ off' = off /\ o' = o /\ b' = b /\ out' = out
      /\ tot_lno \in Nat /\ cur_lno \in Nat /\ ~(cur_lno < tot_lno) /\ cur_lno # 0
      /\ pos \in Nat /\ off \in Nat /\ bno \in Nat
  BY Scalars DEF Refill, HasLine, ctx, locals, Where, InFile
<1>2. cur_lno = tot_lno /\ off <= bno /\ b = bno /\ out \in Seq(Seq(Byte \cup {NUL}))
  BY <1>1 DEF Serves, Cursor
<1>3. Base = pos - b
  BY <1>1, Zenon DEF Base
<1>4. Base' = Base + off
  <2>1. Base' = IF bno' > off' THEN pos' - (bno' - off') ELSE pos'
    BY <1>1, Zenon DEF Base
  <2> QED BY <1>1, <1>2, <1>3, <2>1
<1>5. Data' = Data
  BY <1>1 DEF Data
<1>6. 0 <= Base /\ Base <= pos /\ Aligned(Base) /\ Shifted(off, b, Base) /\ CutAt(off)
  BY <1>1 DEF Serves, Placed
<1>7. Delivered'
  <2>1. Len(out) = Rank(fidx, Base) + cur_lno
    BY <1>1 DEF Serves, Delivered, Given
  <2>2. Rank(fidx, Base)' = Rank(fidx, Base) + tot_lno
    BY <1>1, <1>4, <1>6 DEF Rank, CutAt
  <2> QED BY <1>1, <1>2, <2>1, <2>2 DEF Serves, Delivered, Given
<1>8. Cursor'
  BY <1>1, <1>2 DEF Cursor
<1>9. Placed'
  <2>1. Aligned(Base)'
    BY <1>4, <1>5, <1>6 DEF Aligned, CutAt
  <2>2. Shifted(off, bno, pos - bno)'
    BY <1>1, <1>2, <1>3, <1>5, <1>6 DEF Shifted
  <2>3. 0 <= Base' /\ Base' <= pos'
    BY <1>1, <1>2, <1>3, <1>4, <1>6
  <2> QED BY <1>1, <2>1, <2>2, <2>3 DEF Placed
<1>10. Parsed' /\ Pending'
  BY <1>1 DEF Parsed, Pending
<1>11. Single'
  <2>1. ASSUME ~Ended(Data) PROVE fidx = 1 /\ Base + off = Len(Data)
    <3>1. fidx = 1 /\ off = bno /\ pos = Len(Data)
      BY <1>1, <2>1 DEF Serves, Single
    <3> QED BY <1>1, <1>2, <1>3, <3>1
  <2> QED BY <1>1, <1>4, <1>5, <2>1 DEF Single
<1> QED
  BY <1>7, <1>8, <1>9, <1>10, <1>11 DEF Serves

USE DEF File0

\* A read(2) of a directory fails, and the file is done with.
LEMMA ReadDirServes ==
  ASSUME TypeOK, Where, Serves, ReadNothing, argv[fidx].kind # "file"
  PROVE  Serves'
<1>1. /\ pc = "read" /\ InFile /\ o = 0 /\ b = 0 /\ bno = 0 /\ pos = 0 /\ argv[fidx].kind = "dir"
      /\ argv' = argv /\ fidx' = fidx /\ out' = out /\ fidx \in Nat /\ fidx > 0 /\ argv \in Argv
  <2>1. pc = "read" /\ InFile
    BY DEF ReadNothing, InFile
  <2>2. argv[fidx].kind = "dir" /\ fidx \in Nat /\ fidx > 0 /\ argv \in Argv
    BY <2>1, InFileIs
  <2> QED BY <2>1, <2>2 DEF ReadNothing, Where, Serves, Cursor
<1>2. pc' = "open" /\ bno' = bno
  BY <1>1 DEF ReadNothing
<1>3. Base = 0
  <2>1. Base = pos - b
    BY <1>1, Zenon DEF Base
  <2> QED BY <1>1, <2>1
<1>4. Rank(fidx, 0) = Rank(fidx + 1, 0)
  BY <1>1, NoMore DEF Rank
<1>5. Delivered'
  <2>1. Len(out) = Rank(fidx, Base)
    BY <1>1 DEF Serves, Delivered, Given
  <2>2. Len(out') = Rank(fidx + 1, 0)'
    BY <1>1, <1>3, <1>4, <2>1 DEF Rank
  <2> QED BY <1>1, <1>2, <2>2 DEF Serves, Delivered, Given, Rank
<1>6. Cursor'
  BY <1>1, <1>2 DEF Serves, Cursor, InFile
<1> QED
  BY <1>2, <1>5, <1>6 DEF Serves, Placed, Parsed, Pending, Single, InFile

\* At the end of the file the lines of the fill are handed out, or there were
\* none and the file is done with, or the left over is scanned.
LEMMA ReadEofServes ==
  ASSUME TypeOK, Where, Index, Serves, ReadNothing, argv[fidx].kind = "file"
  PROVE  Serves'
<1>1. /\ pc = "read" /\ InFile /\ pos = Len(Data) /\ nrd' = 0 /\ (o < b => ~(cur_lno <= tot_lno))
      /\ argv' = argv /\ fidx' = fidx /\ pos' = pos /\ buf' = buf /\ tot_lno' = tot_lno /\ loff' = loff
      /\ out' = out
  BY DEF ReadNothing, InFile, AtEof, Unyielded, Data
<1>2. /\ argv \in Argv /\ fidx \in DOMAIN argv /\ Data \in Seq(Byte) /\ Len(Data) \in Nat
      /\ pos \in Nat /\ pos <= Len(Data) /\ b \in Nat /\ o \in Nat /\ o <= b /\ b <= MAP_LEN /\ MAP_LEN \in Nat
      /\ tot_lno \in Nat /\ tot_lno <= o /\ tot_lno < MAX_NLINES /\ cur_lno \in Nat /\ bno \in Nat /\ off \in Nat
      /\ Base \in Nat /\ Base + b = pos /\ Aligned(Base) /\ Shifted(o, b, Base) /\ CutAt(o)
      /\ Rank(fidx, Base) \in Nat /\ Len(out) = Rank(fidx, Base)
      /\ \A i \in 0 .. tot_lno - 1 : IsLine(i)
      /\ o < b => Base + o = 0 \/ Data[Base + o] = NL
      /\ ~Ended(Data) => fidx = 1 /\ (Base = Len(Data) \/ (Base = 0 /\ cur_lno = 0))
      /\ bno <= b /\ (bno = 0 \/ cur_lno > 0)
      /\ Data # << >> <=> Len(Data) > 0
  BY <1>1, ReadingIs
<1>3. out \in Seq(Seq(Byte \cup {NUL})) /\ fidx \in Nat /\ fidx > 0
  BY <1>1, InFileIs DEF Serves, Cursor
<1>4. o < b => Ended(Data)
  BY <1>1, <1>2
<1>5. Data' = Data /\ Rank(fidx, Base)' = Cardinality(Upto(argv, fidx, Base')) /\ b + 0 = b
  BY <1>1, <1>2 DEF Data, Rank
<1>6. \/ o = 0 /\ bno = 0 /\ b' = b /\ pc' = "open" /\ bno' = bno
      \/ /\ (o = 0 /\ bno # 0) \/ (o # 0 /\ o < b)
         /\ b' = b /\ pc' = "scan" /\ cur_lno' = cur_lno /\ bno' = bno /\ off' = off /\ o' = o
      \/ o # 0 /\ o >= b /\ off' = o /\ o' = o /\ bno' = b /\ b' = b /\ cur_lno' = 0 /\ pc' = "lines"
  <2>1. b + nrd' = b
    BY <1>1, <1>2
  <2> QED BY <2>1 DEF ReadNothing, Yield
<1>7. ASSUME pc' # "open" PROVE Base' = Base /\ (\A i \in 0 .. tot_lno - 1 : IsLine(i)') /\ pc' # "fill"
  <2>1. b' = b /\ pc' # "fill"
    BY <1>6, <1>7
  <2>2. Base' = pos' - b' /\ Base = pos - b
    BY <1>1, <2>1, Zenon DEF Base
  <2>3. Base' = Base
    BY <1>1, <2>1, <2>2
  <2> QED BY <1>1, <1>2, <2>1, <2>3, IsLineStays
<1>8. CASE pc' = "open"
  <2>1. o = 0 /\ bno = 0 /\ bno' = 0
    BY <1>6, <1>8
  <2>2. b = 0
    <3> SUFFICES ASSUME b # 0 PROVE FALSE
      OBVIOUS
    <3>1. b - 1 \in o .. b - 1 /\ (Base + 1) + (b - 1) = Len(Data) /\ Len(Data) > 0 /\ o < b
      <4>1. b \in Nat /\ b # 0 /\ Base \in Nat /\ Base + b = Len(Data)
        BY <1>1, <1>2
      <4> QED BY <2>1, <4>1
    <3>2. buf[b - 1] = Data[Len(Data)]
      BY <1>2, <3>1 DEF Shifted
    <3>3. Data[Len(Data)] = NL
      BY <1>2, <1>4, <3>1 DEF Ended
    <3>4. \A q \in o .. b - 1 : buf[q] # NL
      BY <1>1, <2>1 DEF Serves, Pending
    <3> QED BY <3>1, <3>2, <3>3, <3>4
  <2>3. Base = Len(Data)
    BY <1>1, <1>2, <2>2
  <2>4. Rank(fidx, Base) = Rank(fidx + 1, 0)
    <3>1. \A r \in Ends(argv[fidx].data) : r <= Base
      BY <1>2, <2>3 DEF Ends, Data
    <3> QED BY <1>2, <1>3, <3>1, NoMore DEF Rank
  <2>5. Len(out') = Rank(fidx + 1, 0)'
    BY <1>1, <1>2, <2>4 DEF Rank
  <2>6. Delivered'
    BY <1>1, <1>8, <2>5 DEF Serves, Delivered, Given, Rank
  <2>7. Cursor'
    BY <1>1, <1>3, <1>8, <2>1 DEF Cursor, InFile
  <2> QED BY <1>8, <2>6, <2>7 DEF Serves, Placed, Parsed, Pending, Single, InFile
<1>9. CASE pc' = "scan"
  <2>1. /\ (o = 0 /\ bno # 0) \/ (o # 0 /\ o < b)
        /\ b' = b /\ cur_lno' = cur_lno /\ bno' = bno /\ off' = off /\ o' = o
    BY <1>6, <1>9
  <2>2. o < b
    BY <1>2, <2>1
  <2>3. Base' = Base /\ \A i \in 0 .. tot_lno - 1 : IsLine(i)'
    BY <1>7, <1>9
  <2>4. Delivered'
    BY <1>1, <1>2, <1>9, <2>3 DEF Serves, Delivered, Given, Rank
  <2>5. Cursor'
    BY <1>1, <1>2, <1>3, <1>9, <2>1 DEF Cursor
  <2>6. Placed'
    <3>1. 0 <= Base' /\ Base' <= pos'
      BY <1>1, <1>2, <2>3
    <3>2. Aligned(Base)' /\ Shifted(o, b, Base)' /\ CutAt(o)'
      BY <1>1, <1>2, <1>5, <2>1, <2>3 DEF Aligned, Shifted, CutAt, Rank
    <3> QED BY <1>9, <3>1, <3>2 DEF Placed
  <2>7. Parsed'
    BY <1>1, <2>3 DEF Parsed
  <2>8. Pending'
    BY <1>1, <1>4, <1>5, <1>9, <2>2 DEF Pending
  <2>9. Single'
    BY <1>1, <1>2, <1>5, <1>9, <2>1, <2>3 DEF Single
  <2> QED BY <2>4, <2>5, <2>6, <2>7, <2>8, <2>9 DEF Serves
<1>10. CASE pc' = "lines"
  <2>1. o # 0 /\ o >= b /\ off' = o /\ o' = o /\ bno' = b /\ b' = b /\ cur_lno' = 0
    BY <1>6, <1>10
  <2>2. o = b
    BY <1>2, <2>1
  <2>3. Base' = Base /\ \A i \in 0 .. tot_lno - 1 : IsLine(i)'
    BY <1>7, <1>10
  <2>4. Delivered'
    <3>1. Len(out') = Rank(fidx, Base)' + cur_lno'
      BY <1>1, <1>2, <2>1, <2>3 DEF Rank
    <3> QED BY <1>1, <1>10, <3>1 DEF Serves, Delivered, Given
  <2>5. Cursor'
    BY <1>1, <1>2, <1>3, <1>10, <2>1, <2>2 DEF Cursor
  <2>6. Placed'
    <3>1. 0 <= Base' /\ Base' <= pos'
      BY <1>1, <1>2, <2>3
    <3>2. Aligned(Base)' /\ CutAt(off)'
      BY <1>1, <1>2, <1>5, <2>1, <2>3 DEF Aligned, CutAt, Rank
    <3>3. Shifted(off, b, Base)'
      <4>1. off' .. b' - 1 = {}
        BY <1>2, <2>1, <2>2
      <4> QED BY <4>1 DEF Shifted
    <3> QED BY <1>10, <3>1, <3>2, <3>3 DEF Placed
  <2>7. Parsed'
    BY <1>1, <2>3 DEF Parsed
  <2>8. Pending'
    BY <1>10 DEF Pending
  <2>9. Single'
    BY <1>1, <1>2, <1>5, <1>10, <2>1, <2>2, <2>3 DEF Single
  <2> QED BY <2>4, <2>5, <2>6, <2>7, <2>8, <2>9 DEF Serves
<1> QED
  BY <1>6, <1>8, <1>9, <1>10

USE DEF File0

\* Before the last byte of the first file not all of its lines have ended.
LEMMA NotAll ==
  ASSUME NEW a \in Argv, 1 \in DOMAIN a, a[1].kind = "file", NEW q \in Nat, q < Len(a[1].data)
  PROVE  /\ Cardinality(LineEnds(a, 1)) \in Nat /\ Cardinality(Upto(a, 1, q)) \in Nat
         /\ Cardinality(Upto(a, 1, q)) < Cardinality(LineEnds(a, 1))
<1> DEFINE f == a[1].data
<1>1. LineEnds(a, 1) \in SUBSET AllEnds(a)
  BY DEF AllEnds
<1>2. IsFiniteSet(LineEnds(a, 1)) /\ Cardinality(LineEnds(a, 1)) \in Nat /\ Cardinality(Upto(a, 1, q)) \in Nat
  BY <1>1, EndsAreFinite, FS_Subset, FS_CardinalityType, UptoIs
<1>3. \A z \in AllEnds(a) : z = <<z[1], z[2]>> /\ z[1] \in 1 .. Len(a) /\ z[2] \in Ends(a[z[1]].data)
  BY EndsAre
<1>4. ASSUME NEW z \in Upto(a, 1, q) PROVE z \in LineEnds(a, 1) /\ z[2] <= q
  <2>1. z \in AllEnds(a) /\ z[1] \in 1 .. Len(a) /\ (z[1] < 1 \/ (z[1] = 1 /\ z[2] <= q))
    BY <1>3 DEF Upto
  <2>2. z[1] = 1 /\ z[2] <= q
    BY <2>1, ArgvType
  <2>3. z = <<1, z[2]>> /\ z[2] \in Ends(f)
    BY <1>3, <2>1, <2>2
  <2> QED BY <2>2, <2>3 DEF LineEnds
<1>5. Upto(a, 1, q) \in SUBSET LineEnds(a, 1)
  BY <1>4
<1> DEFINE e == <<1, Len(f)>>
<1>6. f \in Seq(Byte)
  <2>1. a[1] \in File
    BY ArgvType
  <2> QED BY <2>1 DEF File
<1>7. e \in LineEnds(a, 1)
  <2>1. Len(f) \in 1 .. Len(f) /\ DOMAIN f = 1 .. Len(f)
    BY <1>6
  <2> QED BY <2>1 DEF LineEnds, Ends
<1>8. e \notin Upto(a, 1, q)
  <2>1. e[2] = Len(f) /\ Len(f) \in Nat
    BY <1>6
  <2> HIDE DEF e
  <2> QED BY <1>4, <2>1
<1>9. Cardinality(Upto(a, 1, q)) # Cardinality(LineEnds(a, 1))
  <2> HIDE DEF e
  <2> QED BY <1>2, <1>5, <1>7, <1>8, FS_Subset
<1>10. Cardinality(Upto(a, 1, q)) <= Cardinality(LineEnds(a, 1))
  BY <1>2, <1>5, FS_Subset
<1> QED
  BY <1>2, <1>9, <1>10

\* A newline was found: the line before it joins the table.
LEMMA ScanLineServes ==
  ASSUME TypeOK, Where, Index, Serves, argv \in Handled, NEW p \in o .. b - 1, ScanLine(p)
  PROVE  Serves'
<1>1. /\ pc = "scan" /\ argv[fidx].kind = "file" /\ InFile /\ buf[p] = NL /\ \A r \in o .. p - 1 : buf[r] # NL
      /\ tot_lno' = tot_lno + 1 /\ o' = p + 1 /\ b' = b
      /\ argv' = argv /\ fidx' = fidx /\ pos' = pos /\ nrd' = nrd /\ out' = out
  BY DEF ScanLine, NextNewline, Full, Yield, Where, InFile
<1>2. /\ argv \in Argv /\ fidx \in DOMAIN argv /\ Data \in Seq(Byte) /\ Len(Data) \in Nat
      /\ pos \in Nat /\ pos <= Len(Data) /\ b \in Nat /\ o \in Nat /\ o <= b /\ b <= MAP_LEN /\ MAP_LEN \in Nat
      /\ tot_lno \in Nat /\ tot_lno <= o /\ tot_lno < MAX_NLINES /\ cur_lno \in Nat /\ bno \in Nat /\ off \in Nat
      /\ Base \in Nat /\ Base + b = pos /\ Aligned(Base) /\ Shifted(o, b, Base) /\ CutAt(o)
      /\ Rank(fidx, Base) \in Nat /\ Len(out) = Rank(fidx, Base)
      /\ \A i \in 0 .. tot_lno - 1 : IsLine(i)
      /\ o < b => Base + o = 0 \/ Data[Base + o] = NL
      /\ ~Ended(Data) => fidx = 1 /\ (Base = Len(Data) \/ (Base = 0 /\ cur_lno = 0))
      /\ bno <= b /\ (bno = 0 \/ cur_lno > 0)
      /\ Data # << >> <=> Len(Data) > 0
  BY <1>1, ReadingIs
<1>3. p \in Nat /\ o <= p /\ p < b
  BY <1>2
<1>4. out \in Seq(Seq(Byte \cup {NUL}))
  BY DEF Serves, Cursor
<1> DEFINE q == (Base + p) + 1
<1>5. q \in Nat /\ q = (Base + 1) + p /\ Base + o < q /\ q <= Len(Data) /\ q <= pos /\ q > 0
  BY <1>2, <1>3
<1>6. Data[q] = NL
  BY <1>1, <1>2, <1>5 DEF Shifted
<1>7. \A r \in (Base + o) + 1 .. q - 1 : Data[r] # NL
  <2> SUFFICES ASSUME NEW r \in (Base + o) + 1 .. q - 1 PROVE Data[r] # NL
    OBVIOUS
  <2>1. r - (Base + 1) \in o .. p - 1 /\ r - (Base + 1) \in o .. b - 1 /\ (Base + 1) + (r - (Base + 1)) = r
    BY <1>2, <1>3
  <2>2. buf[r - (Base + 1)] = Data[r]
    BY <1>2, <2>1 DEF Shifted
  <2> QED BY <1>1, <2>1, <2>2
<1>8. q \in Ends(Data)
  BY <1>2, <1>5, <1>6 DEF Ends
<1>9. \A r \in Ends(Data) : r <= Base + o \/ q <= r
  <2> SUFFICES ASSUME NEW r \in Ends(Data), ~(r <= Base + o), ~(q <= r) PROVE FALSE
    OBVIOUS
  <2>1. r \in 1 .. Len(Data) /\ (Data[r] = NL \/ r = Len(Data))
    BY <1>2 DEF Ends
  <2>2. r \in (Base + o) + 1 .. q - 1 /\ r # Len(Data)
    BY <1>2, <1>5, <2>1
  <2> QED BY <1>7, <2>1, <2>2
<1>10. Rank(fidx, q) = (Rank(fidx, Base) + tot_lno) + 1
  <2>1. Rank(fidx, Base + o) = Rank(fidx, Base) + tot_lno
    BY <1>2 DEF CutAt
  <2>2. Base + o \in Nat
    BY <1>2
  <2>3. q \in Ends(argv[fidx].data) /\ \A r \in Ends(argv[fidx].data) : r <= Base + o \/ q <= r
    BY <1>8, <1>9 DEF Data
  <2> HIDE DEF q
  <2>4. Cardinality(Upto(argv, fidx, q)) = Cardinality(Upto(argv, fidx, Base + o)) + 1
    BY <1>1, <1>2, <1>5, <2>2, <2>3, OneMore
  <2> QED BY <2>1, <2>4 DEF Rank
<1>11. Begin(Data, q) = (Base + o) + 1
  <2>1. Base + o \in Nat /\ (Base + o = 0 \/ Data[Base + o] = NL)
    BY <1>2, <1>3
  <2> HIDE DEF q
  <2> QED BY <1>2, <1>5, <1>7, <2>1, BeginIs
<1>12. PICK c \in {0, 1} :
         /\ c = 1 <=> p > o /\ Data[q - 1] = CR
         /\ loff' = [loff EXCEPT ![tot_lno] = [off |-> p, cr |-> c]]
         /\ buf' = [i \in DOMAIN buf |-> IF i = p \/ (c = 1 /\ i = p - 1) THEN NUL ELSE buf[i]]
  <2> DEFINE cr == IF p > 0 /\ buf[p - 1] = CR THEN 1 ELSE 0
  <2>1. cr = 1 <=> p > 0 /\ buf[p - 1] = CR
    OBVIOUS
  <2>2. p = o => ~(p > 0 /\ buf[p - 1] = CR)
    BY <1>1, ByteType DEF Index
  <2>3. p > o => buf[p - 1] = Data[q - 1] /\ p > 0
    <3> SUFFICES ASSUME p > o PROVE buf[p - 1] = Data[q - 1] /\ p > 0
      OBVIOUS
    <3>1. p - 1 \in o .. b - 1 /\ (Base + 1) + (p - 1) = q - 1 /\ p > 0
      BY <1>2, <1>3
    <3> QED BY <1>2, <3>1 DEF Shifted
  <2>4. cr = 1 <=> p > o /\ Data[q - 1] = CR
    <3>1. p = o \/ p > o
      BY <1>2, <1>3
    <3> HIDE DEF cr, q
    <3>2. p = o => ~(p > o)
      BY <1>2, <1>3
    <3> QED BY <2>1, <2>2, <2>3, <3>1, <3>2
  <2>5. /\ loff' = [loff EXCEPT ![tot_lno] = [off |-> p, cr |-> cr]]
        /\ buf' = [i \in DOMAIN buf |-> IF i = p \/ (cr = 1 /\ i = p - 1) THEN NUL ELSE buf[i]]
    BY DEF ScanLine
  <2>6. cr \in {0, 1}
    OBVIOUS
  <2> HIDE DEF cr, q
  <2> QED BY <2>4, <2>5, <2>6, Zenon
<1>13. LineAt(Data, q) = SubSeq(Data, (Base + o) + 1, (q - 1) - c)
  <2>1. q > Begin(Data, q) <=> p > o
    BY <1>2, <1>3, <1>11
  <2>2. c \in {0, 1} /\ q \in Nat /\ Data[q] = NL /\ (c = 1 <=> p > o /\ Data[q - 1] = CR)
    BY <1>5, <1>6, <1>12
  <2> HIDE DEF q
  <2>3. CASE c = 1
    <3>1. (q - 1) - c = q - 2 /\ q > Begin(Data, q) /\ Data[q - 1] = CR
      BY <2>1, <2>2, <2>3
    <3> QED BY <1>11, <2>2, <3>1 DEF LineAt
  <2>4. CASE c = 0
    <3>1. (q - 1) - c = q - 1 /\ ~(q > Begin(Data, q) /\ Data[q - 1] = CR)
      BY <2>1, <2>2, <2>4
    <3> QED BY <1>11, <2>2, <3>1 DEF LineAt
  <2> QED BY <2>2, <2>3, <2>4
<1>14. \A i \in 0 .. b - 1 : i # p /\ (c = 1 => i # p - 1) => buf'[i] = buf[i]
  BY <1>2, <1>12 DEF TypeOK
<1>15. Base' = Base /\ Data' = Data /\ pc' \in {"scan", "lines"}
  <2>1. pc' \in {"scan", "lines"}
    BY <1>1 DEF ScanLine, Yield
  <2>2. Base' = pos' - b' /\ Base = pos - b
    BY <1>1, <2>1, Zenon DEF Base
  <2> QED BY <1>1, <2>1, <2>2 DEF Data
<1>16. ASSUME NEW k \in Nat, k = tot_lno
       PROVE  IsLine(k)' /\ \A i \in 0 .. k - 1 : IsLine(i)'
  <2>1. o = LineStart(tot_lno) /\ Sorted(o - 1)
    BY <1>1 DEF Index
  <2>2. LineStart(k)' = o /\ LineLen(k)' = (p - c) - o /\ \A j \in 0 .. k - 1 : loff'[j] = loff[j]
    <3>1. loff' = [loff EXCEPT ![tot_lno] = [off |-> p, cr |-> c]]
      BY <1>12
    <3>2. tot_lno < MAX_NLINES /\ p \in Nat
      BY <1>2, <1>3
    <3> HIDE DEF q
    <3> QED BY <1>16, <2>1, <3>1, <3>2, EntryIs
  <2> DEFINE ln == (p - c) - o
  <2>3. ln \in Nat /\ o + ln = p - c /\ Base + (o + ln) <= Len(Data) /\ (Base + o) + ln = (q - 1) - c
    BY <1>2, <1>3, <1>12
  <2>4. Text(LineStart(k), LineLen(k))' = [j \in 1 .. ln |-> buf'[o + j - 1]]
    BY <2>2 DEF Text
  <2>5. [j \in 1 .. ln |-> buf'[o + j - 1]] = SubSeq(Data, (Base + o) + 1, (Base + o) + ln)
    <3>1. \A r \in o .. (o + ln) - 1 : buf'[r] = Data[(Base + 1) + r]
      <4> SUFFICES ASSUME NEW r \in o .. (o + ln) - 1 PROVE buf'[r] = Data[(Base + 1) + r]
        OBVIOUS
      <4>1. r \in o .. b - 1 /\ r \in 0 .. b - 1 /\ r # p /\ (c = 1 => r # p - 1)
        BY <1>2, <1>3, <1>12, <2>3
      <4> HIDE DEF q, ln
      <4> QED BY <1>2, <1>14, <4>1 DEF Shifted
    <3>2. Data \in Seq(Byte) /\ o \in Nat /\ Base \in Nat
      BY <1>2
    <3> HIDE DEF q, ln
    <3> QED BY <2>3, <3>1, <3>2, PieceIs, SMTT(60)
  <2>6. Text(LineStart(k), LineLen(k))' = LineAt(Data, q)
    <3> HIDE DEF q, ln
    <3> QED BY <1>13, <2>3, <2>4, <2>5
  <2>7. IsLine(k)'
    <3>1. Rank(fidx, q)' = Rank(fidx, q) /\ Rank(fidx, Base)' = Rank(fidx, Base)
      BY <1>1, <1>15 DEF Rank
    <3>2. Rank(fidx, q)' = (Rank(fidx, Base)' + k) + 1
      BY <1>10, <1>16, <3>1
    <3>3. q' = q
      BY <1>15
    <3> HIDE DEF q
    <3> QED BY <1>1, <1>8, <1>15, <2>6, <3>2, <3>3, Zenon DEF IsLine, Rank
  <2>8. ASSUME NEW i \in 0 .. k - 1 PROVE IsLine(i)'
    <3>1. o - 1 \in Int /\ o - 1 <= MAP_LEN /\ i \in 0 .. tot_lno - 1
      BY <1>2, <1>16
    <3>2. \A j \in 0 .. tot_lno - 1 : loff'[j] = loff[j]
      BY <1>16, <2>2
    <3>3. \A r \in 0 .. (o - 1) - 1 : buf'[r] = buf[r]
      <4> SUFFICES ASSUME NEW r \in 0 .. (o - 1) - 1 PROVE buf'[r] = buf[r]
        OBVIOUS
      <4>1. r \in 0 .. b - 1 /\ r # p /\ (c = 1 => r # p - 1)
        BY <1>2, <1>3, <1>12
      <4> QED BY <1>14, <4>1
    <3>4. Text(LineStart(i), LineLen(i))' = Text(LineStart(i), LineLen(i))
      BY <2>1, <3>1, <3>2, <3>3, TextStays
    <3>5. IsLine(i)
      BY <1>2, <3>1
    <3> QED BY <1>1, <1>15, <3>4, <3>5, Zenon DEF IsLine, Rank
  <2> QED BY <2>7, <2>8
<1>17. Parsed'
  <2>1. \A i \in 0 .. tot_lno' - 1 : i \in Nat /\ (i = tot_lno \/ i \in 0 .. tot_lno - 1)
    BY <1>1, <1>2
  <2>2. \A i \in 0 .. tot_lno' - 1 : IsLine(i)'
    <3>1. PICK k \in Nat : k = tot_lno
      BY <1>2
    <3>2. IsLine(k)' /\ \A i \in 0 .. k - 1 : IsLine(i)'
      BY <1>16, <3>1
    <3> QED BY <2>1, <3>1, <3>2
  <2> QED BY <2>2 DEF Parsed
<1>18. 0 <= Base' /\ Base' <= pos' /\ Aligned(Base)' /\ Shifted(o, b, Base)' /\ CutAt(o)'
  <2>1. 0 <= Base' /\ Base' <= pos' /\ Aligned(Base)'
    BY <1>1, <1>2, <1>15 DEF Aligned
  <2>2. Shifted(o, b, Base)'
    <3> SUFFICES ASSUME NEW i \in p + 1 .. b - 1 PROVE buf'[i] = Data[(Base + 1) + i]
      BY <1>1, <1>15 DEF Shifted
    <3>1. i \in 0 .. b - 1 /\ i \in o .. b - 1 /\ i # p /\ i # p - 1
      BY <1>2, <1>3
    <3> HIDE DEF q
    <3> QED BY <1>2, <1>14, <3>1 DEF Shifted
  <2>3. CutAt(o)'
    <3>1. (Base + o)' = q
      BY <1>1, <1>2, <1>3, <1>15
    <3>2. Aligned(Base + o)'
      BY <1>6, <1>15, <3>1 DEF Aligned
    <3>3. Rank(fidx, Base + o)' = Rank(fidx, q) /\ Rank(fidx, Base)' = Rank(fidx, Base)
      BY <1>1, <1>15, <3>1 DEF Rank
    <3>4. Rank(fidx, q) = Rank(fidx, Base) + (tot_lno + 1)
      BY <1>2, <1>10
    <3> HIDE DEF q
    <3> QED BY <1>1, <3>2, <3>3, <3>4 DEF CutAt
  <2> QED BY <2>1, <2>2, <2>3
<1>19. Rank(fidx, Base)' = Rank(fidx, Base)
  BY <1>1, <1>15 DEF Rank
<1>20. CASE pc' = "scan"
  <2>1. cur_lno' = cur_lno /\ bno' = bno /\ off' = off
    BY <1>20 DEF ScanLine, Yield
  <2>2. Delivered'
    BY <1>1, <1>2, <1>19, <1>20 DEF Serves, Delivered, Given
  <2>3. Cursor'
    BY <1>1, <1>2, <1>4, <1>20, <2>1 DEF Cursor
  <2>4. Placed'
    BY <1>18, <1>20 DEF Placed
  <2>5. Pending'
    BY <1>1, <1>15, <1>20 DEF Serves, Pending
  <2>6. Single'
    BY <1>1, <1>2, <1>15, <1>20, <2>1 DEF Single
  <2> QED BY <1>17, <2>2, <2>3, <2>4, <2>5, <2>6 DEF Serves
<1>21. CASE pc' = "lines"
  <2>1. off' = p + 1 /\ bno' = b /\ cur_lno' = 0 /\ tot_lno + 1 >= MAX_NLINES
    BY <1>1, <1>21 DEF ScanLine, Yield, Full
  <2>2. Delivered'
    <3>1. Len(out') = Rank(fidx, Base)' + cur_lno'
      BY <1>1, <1>2, <1>19, <2>1
    <3> QED BY <1>1, <1>21, <3>1 DEF Serves, Delivered, Given
  <2>3. Cursor'
    BY <1>1, <1>2, <1>3, <1>4, <1>21, <2>1 DEF Cursor
  <2>4. Placed'
    <3>1. off' = o'
      BY <1>1, <2>1
    <3>2. Shifted(off, b, Base)' /\ CutAt(off)'
      BY <1>18, <3>1 DEF Shifted, CutAt
    <3> QED BY <1>18, <1>21, <3>2 DEF Placed
  <2>5. Pending'
    BY <1>21 DEF Pending
  <2>6. Ended(Data)
    <3> SUFFICES ASSUME ~Ended(Data) PROVE FALSE
      OBVIOUS
    <3>1. fidx = 1 /\ Base = 0
      BY <1>2, <1>3
    <3>2. q < Len(Data)
      BY <1>2, <1>5, <1>6 DEF Ended
    <3>3. Cardinality(LineEnds(argv, 1)) <= MAX_NLINES
      BY <1>2, <3>1 DEF Handled, OneFill, Data
    <3>4. Rank(1, 0) = 0
      BY <1>2, FirstAndLast DEF Rank
    <3>5. Rank(1, q) = tot_lno + 1
      BY <1>2, <1>10, <3>1, <3>4
    <3>6. /\ Cardinality(LineEnds(argv, 1)) \in Nat
          /\ Rank(1, q) < Cardinality(LineEnds(argv, 1))
      <4> HIDE DEF q
      <4> QED BY <1>1, <1>2, <1>5, <3>1, <3>2, NotAll DEF Rank, Data
    <3> HIDE DEF q
    <3> QED BY <1>2, <2>1, <3>3, <3>5, <3>6, SizeType
  <2>7. Single'
    BY <1>15, <2>6 DEF Single
  <2> QED BY <1>17, <2>2, <2>3, <2>4, <2>5, <2>7 DEF Serves
<1> QED
  BY <1>15, <1>20, <1>21

USE DEF File0

\* A process that does nothing serves as before.
LEMMA RestServes ==
  ASSUME Serves, UNCHANGED vars
  PROVE  Serves'
<1>1. /\ argv' = argv /\ fidx' = fidx /\ pos' = pos /\ buf' = buf /\ tot_lno' = tot_lno /\ cur_lno' = cur_lno
      /\ bno' = bno /\ off' = off /\ loff' = loff /\ pc' = pc /\ o' = o /\ b' = b /\ nrd' = nrd /\ out' = out
  BY DEF vars, ctx, locals
<1>2. Base' = Base /\ Data' = Data /\ (InFile' <=> InFile)
  BY <1>1 DEF Base, Data, InFile
<1>3. Delivered'
  <2>1. Given' = Given
    BY <1>1, <1>2 DEF Given, Rank
  <2> QED BY <1>1, <2>1 DEF Serves, Delivered
<1>4. Cursor'
  BY <1>1, <1>2 DEF Serves, Cursor
<1>5. Placed'
  BY <1>1, <1>2 DEF Serves, Placed, Aligned, Shifted, CutAt, Rank
<1>6. Parsed'
  BY <1>1, <1>2, IsLineStays DEF Serves, Parsed
<1>7. Pending' /\ Single'
  BY <1>1, <1>2 DEF Serves, Pending, Single
<1> QED
  BY <1>3, <1>4, <1>5, <1>6, <1>7 DEF Serves

\* Every step serves on.
LEMMA StepServes == IInv /\ argv \in Handled /\ Serves /\ [Next]_vars => Serves'
<1> SUFFICES ASSUME IInv, argv \in Handled, Serves, [Next]_vars
             PROVE  Serves'
  OBVIOUS
<1>1. TypeOK /\ Where /\ Index
  BY DEF IInv
<1>2. CASE Open
  BY <1>1, <1>2, OpenServes
<1>3. CASE Finish
  BY <1>1, <1>3, FinishServes
<1>4. CASE Done \/ UNCHANGED vars
  BY <1>4, RestServes DEF Done
<1>5. CASE Fill
  BY <1>1, <1>5, FillFreshServes, FillLeftoverServes, FillRefusedServes DEF Fill
<1>6. ASSUME NEW n \in 1 .. CHUNK_SIZE, ReadBytes(n) PROVE Serves'
  BY <1>1, <1>6, ReadBytesServes
<1>7. CASE ReadLastLine
  BY <1>1, <1>7, ReadLastLineServes
<1>8. CASE ReadNothing
  BY <1>1, <1>8, ReadDirServes, ReadEofServes
<1>9. ASSUME NEW p \in o .. b - 1, ScanLine(p) PROVE Serves'
  BY <1>1, <1>9, ScanLineServes
<1>10. CASE ScanEnd
  BY <1>1, <1>10, ScanEndServes
<1>11. CASE GetLine
  BY <1>1, <1>11, GetLineServes
<1>12. CASE Refill
  BY <1>1, <1>12, RefillServes
<1> QED
  BY <1>2, <1>3, <1>4, <1>5, <1>6, <1>7, <1>8, <1>9, <1>10, <1>11, <1>12 DEF Next, Read, Scan

\* A step is one of the driver's or one of the reader's, and only Finish comes
\* to the end of the command line.
LEMMA StepsAre ==
  ASSUME [Next]_vars, ~Finish, ~GetLine
  PROVE  argv' = argv /\ out' = out /\ (pc' = "done" <=> pc = "done")
<1>1. CASE Open \/ Refill \/ Fill
  BY <1>1 DEF Open, Refill, Fill, FillFresh, FillLeftover, FillRefused
<1>2. CASE Read
  BY <1>2 DEF Read, ReadBytes, ReadLastLine, ReadNothing, Yield
<1>3. CASE Scan
  BY <1>3 DEF Scan, ScanLine, ScanEnd, Yield
<1>4. CASE Done \/ UNCHANGED vars
  BY <1>4 DEF Done, vars
<1> QED
  BY <1>1, <1>2, <1>3, <1>4 DEF Next

\* For the command lines it gets right, the reader always serves.
LEMMA AlwaysServes == Spec => [](argv \in Handled => Serves)
<1>1. Init => (argv \in Handled => Serves)
  BY InitServes
<1>2. ASSUME IInv, argv \in Handled => Serves, [Next]_vars
      PROVE  (argv \in Handled => Serves)'
  <2>1. argv' = argv
    <3>1. Finish \/ GetLine => argv' = argv
      BY DEF Finish, GetLine
    <3> QED BY <1>2, <3>1, StepsAre
  <2>2. Handled' = Handled
    OBVIOUS
  <2>3. argv \in Handled => Serves'
    BY <1>2, StepServes
  <2> QED BY <2>1, <2>2, <2>3
<1> QED
  BY <1>1, <1>2, Invariance, PTL DEF Spec

\* The reader implements the line stream: whatever read(2) hands over at a
\* time, the tool is given the lines of the files, in order and once each, and
\* comes to its end only behind the last one.
THEOREM StreamIsServed == Spec => StreamSpec
<1>1. Init => Stream!Init
  BY DEF Init, Stream!Init
<1>2. ASSUME IInv, argv \in Handled => Serves, [Next]_vars
      PROVE  [Stream!Next]_(Stream!vars)
  <2>1. argv \in Argv
    BY <1>2 DEF IInv, TypeOK
  <2>2. LinesOf[argv] = Lines(argv)
    BY <2>1 DEF LinesOf
  <2>3. TypeOK /\ Where /\ Index
    BY <1>2 DEF IInv
  <2>4. CASE ~Finish /\ ~GetLine
    <3>1. argv' = argv /\ out' = out /\ (pc' = "done" <=> pc = "done")
      BY <1>2, <2>4, StepsAre
    <3> QED BY <3>1 DEF Stream!vars
  <2>5. CASE GetLine /\ argv \notin Handled
    <3>1. argv' = argv /\ pc' = pc
      BY <2>5 DEF GetLine
    <3> QED BY <2>5, <3>1 DEF Stream!vars
  <2>6. CASE GetLine /\ argv \in Handled
    <3>1. argv' = argv /\ pc' = "lines" /\ pc = "lines"
      BY <2>6 DEF GetLine
    <3>2. /\ out' = Append(out, Lines(argv)[Len(out) + 1])
          /\ Len(out) + 1 \in 1 .. Cardinality(AllEnds(argv))
      BY <1>2, <2>3, <2>6, GetLineGives
    <3>3. out \in Seq(Seq(Byte \cup {NUL}))
      BY <1>2, <2>6 DEF Serves, Cursor
    <3>4. Len(Lines(argv)) = Cardinality(AllEnds(argv)) /\ Cardinality(AllEnds(argv)) \in Nat
      BY <2>1, UptoIs DEF Lines
    <3>5. Len(out) < Len(Lines(argv))
      BY <3>2, <3>3, <3>4
    <3>6. Stream!Deliver
      BY <2>2, <2>6, <3>1, <3>2, <3>5 DEF Stream!Deliver
    <3> QED BY <3>6 DEF Stream!Next
  <2>7. CASE Finish
    <3>1. argv' = argv /\ out' = out /\ pc = "open" /\ pc' = "done" /\ fidx = Len(argv)
      BY <2>7 DEF Finish
    <3>2. argv \in Handled => out = Lines(argv)
      <4> SUFFICES ASSUME argv \in Handled PROVE out = Lines(argv)
        OBVIOUS
      <4>1. out \in Seq(Seq(Byte \cup {NUL})) /\ Len(out) = Rank(fidx + 1, 0)
        BY <1>2, <3>1 DEF Serves, Cursor, Delivered, Given
      <4>2. Len(out) = Cardinality(AllEnds(argv)) /\ Cardinality(AllEnds(argv)) \in Nat
        BY <2>1, <3>1, <4>1, FirstAndLast, UptoIs DEF Rank
      <4>3. \A i \in 1 .. Len(out) : out[i] = Lines(argv)[i]
        BY <1>2 DEF Serves, Delivered
      <4>4. DOMAIN Lines(argv) = 1 .. Len(out) /\ Lines(argv) = [i \in 1 .. Len(out) |-> Lines(argv)[i]]
        BY <4>2 DEF Lines
      <4>5. out = [i \in 1 .. Len(out) |-> out[i]]
        BY <4>1
      <4> QED BY <4>3, <4>4, <4>5
    <3>3. Stream!Close
      BY <2>2, <3>1, <3>2 DEF Stream!Close
    <3> QED BY <3>3 DEF Stream!Next
  <2> QED BY <2>4, <2>5, <2>6, <2>7
<1> QED
  BY <1>1, <1>2, Invariance, AlwaysServes, PTL DEF Spec, StreamSpec, Stream!Spec
=============================================================================
