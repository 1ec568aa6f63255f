------------------------------- MODULE SRecord -------------------------------
(***************************************************************************)
(* The tools of the firmware build (src/tools/): sreccrc fills in the      *)
(* header of an S-record file and writes the file anew, srec2hex converts  *)
(* S-records to Intel hex, crc fills in the header of a binary file.       *)
(*                                                                         *)
(* A line of a file is a record: its type t (S0 .. S9), address, data, and *)
(* the defect a damaged line has.  Memory is a function from addresses to  *)
(* bytes; a byte is tagged with the field it belongs to, and a checksum or *)
(* a CRC stands for the very bytes it was taken over: Crc has the number.  *)
(***************************************************************************)
EXTENDS Integers, Sequences, FiniteSets, FiniteSetsExt, SequencesExt

CONSTANTS
  Word,      \* bytes of a machine word (4); the header is four words
  Chunk,     \* data bytes of a written line (16)
  MaxCount,  \* srec->count must be less: half of MAX_CHAR_DIGITS (39)
  Page       \* bytes an Intel hex base address covers (0x10000)

ASSUME RecordAssumption ==
  /\ Word \in Nat \ {0} /\ Word % 2 = 0 /\ Chunk \in Nat \ {0}
  /\ MaxCount \in Nat /\ Page \in Nat \ {0}

\* The header at 'lo': magic, codeLen, crc and its padding, entry.
HdrSize == 4 * Word
CodeLenField(lo) == lo + Word .. lo + 2 * Word - 1
CrcField(lo)     == lo + 2 * Word .. lo + 2 * Word + (Word \div 2) - 1

Magic   == <<"!CrC">>                  \* crcROMMagicL in memory
BinMagic == <<"CrC!">>                 \* crcROMMagic
Zero    == <<"zero">>
Junk    == <<"junk">>                  \* what malloc left in a gap
Erased  == <<"erased">>
LenByte(n) == <<"codeLen", n>>
CrcByte(s) == <<"crc", s>>

Line(t, addr, data) == [t |-> t, addr |-> addr, data |-> data, defect |-> "none"]
Defects == {"none", "char", "count", "checksum"}

\* Bytes of the address field, and the count of a line: the checksum counts.
AddrLen(t) == CASE t \in {0, 1, 5, 9} -> 2 [] t \in {2, 8} -> 3 [] OTHER -> 4
Count(l)   == AddrLen(l.t) + Len(l.data) + 1

\* The memory the data lines of a file describe; a later line wins.
IsData(l) == l.t \in {2, 3}
DataLines(file) == {i \in DOMAIN file : IsData(file[i])}
Cover(l) == l.addr .. l.addr + Len(l.data) - 1
Loaded(file) ==
  LET covering(a) == {i \in DataLines(file) : a \in Cover(file[i])}
      byte(a)     == LET l == file[Max(covering(a))] IN l.data[a - l.addr + 1]
  IN  [a \in UNION {Cover(file[i]) : i \in DataLines(file)} |-> byte(a)]

Segment(mem, lo, hi) == [i \in 1 .. hi - lo |-> mem[lo + i - 1]]

-------------------------------------------------------------------------------
(* sreccrc *)

\* What is wrong with a line, in the order the scanner looks.
ScanLine(l) ==
  IF l.t \notin (0 .. 9) \ {4, 6} \/ l.defect = "char" THEN -3
  ELSE IF Count(l) >= MaxCount \/ l.defect = "count" THEN -4
  ELSE IF l.defect = "checksum" THEN -5
  ELSE 0

\* Both passes: the first finds the range, the second fills the buffer, whose
\* gaps keep what was there.  One bad or unsupported line fails the whole file.
ReadSRecFile(file) ==
  LET mem == Loaded(file)
      lo  == Min({file[i].addr : i \in DataLines(file)})
      hi  == Max({file[i].addr + Len(file[i].data) : i \in DataLines(file)})
      ok  == \A i \in DOMAIN file :
               ScanLine(file[i]) = 0 /\ file[i].t \in {0, 2, 3, 7, 8}
  IN  IF ~ok \/ DataLines(file) = {} THEN <<>>
      ELSE <<[minAddr |-> lo,
              buf |-> [a \in lo .. hi - 1 |->
                         IF a \in DOMAIN mem THEN mem[a] ELSE Junk]]>>

\* Mutant: the CRC covers the header's last word too.
FillHeaderCrcEarly(mem, lo, len) ==
  LET crc == CrcByte(Segment(mem, lo + 3 * Word, lo + len))
  IN  [a \in DOMAIN mem |->
         CASE a \in CodeLenField(lo) -> LenByte(len)
           [] a \in CrcField(lo)     -> crc
           [] OTHER                  -> mem[a]]

\* The header of image 'mem' at 'lo': length of everything, CRC of the rest.
FillHeader(mem, lo, len) ==
  LET crc == CrcByte(Segment(mem, lo + HdrSize, lo + len))
  IN  [a \in DOMAIN mem |->
         CASE a \in CodeLenField(lo) -> LenByte(len)
           [] a \in CrcField(lo)     -> crc
           [] OTHER                  -> mem[a]]

\* The lines of a written file, with the checksums computed afresh.
WriteSRecFile(mem, lo, len, name) ==
  LET n      == (len + Chunk - 1) \div Chunk
      end(i) == Min({i * Chunk, len})
      data   == [i \in 1 .. n |->
                   Line(3, lo + (i - 1) * Chunk,
                        Segment(mem, lo + (i - 1) * Chunk, lo + end(i)))]
      entry  == mem[lo + 3 * Word]
  IN  <<Line(0, 0, name)>> \o data \o <<Line(7, entry, <<>>)>>

HasMagic(mem, lo) == \A a \in lo .. lo + Word - 1 : mem[a] = Magic

\* The whole tool: the new contents of the file, or <<>> when it gives up and
\* leaves the file as it was.
SrecCrc(file, name) ==
  LET read == ReadSRecFile(file)
      lo   == read[1].minAddr
      mem  == read[1].buf
      len  == Cardinality(DOMAIN mem)
  IN  IF read = <<>> \/ ~HasMagic(mem, lo) THEN <<>>
      ELSE WriteSRecFile(FillHeader(mem, lo, len), lo, len, name)

-------------------------------------------------------------------------------
(* crc *)

\* Mutant: the CRC covers the header it is written into, too.
WriteCodeHdrOver(buf, off) ==
  [i \in DOMAIN buf |->
     CASE i - 1 \in off .. off + Word - 1   -> BinMagic
       [] i - 1 \in CodeLenField(off)       -> LenByte(Len(buf))
       [] i - 1 \in CrcField(off)           -> CrcByte(buf)
       [] i - 1 \in off + Word .. off + 3 * Word - 1 -> Junk
       [] OTHER                             -> buf[i]]

\* The file with a header at 'off': its own magic, which is not the firmware's,
\* the length, the CRC of all but the header, and in the padding behind the CRC
\* what was on the stack.
WriteCodeHdr(buf, off) ==
  LET crc == CrcByte(SubSeq(buf, 1, off) \o SubSeq(buf, off + HdrSize + 1, Len(buf)))
  IN  [i \in DOMAIN buf |->
         CASE i - 1 \in off .. off + Word - 1   -> BinMagic
           [] i - 1 \in CodeLenField(off)       -> LenByte(Len(buf))
           [] i - 1 \in CrcField(off)           -> crc
           [] i - 1 \in off + Word .. off + 3 * Word - 1 -> Junk
           [] OTHER                             -> buf[i]]

\* The makefile: the binary file of an S-record file, with a header at 0.
BinaryOf(file) ==
  LET mem == Loaded(file)
  IN  WriteCodeHdr(Segment(mem, Min(DOMAIN mem), Max(DOMAIN mem) + 1), 0)

-------------------------------------------------------------------------------
(* srec2hex *)

\* What is wrong with a line: the same scanner, but for a header it also wants
\* a zero address.
HexScanLine(l) ==
  IF ScanLine(l) # 0 THEN ScanLine(l)
  ELSE IF l.t = 0 /\ l.addr # 0 THEN -3 ELSE 0

HexBase(upper)     == [k |-> "base", at |-> upper, data |-> <<>>]
HexData(low, data) == [k |-> "data", at |-> low, data |-> data]
HexEnd             == [k |-> "end", at |-> 0, data |-> <<>>]

\* Mutant: the end of a page is not noticed.
GenHexRecPageless(s, l) ==
  LET base == IF ~s.hexaddrvalid \/ l.addr # s.hexaddr
              THEN <<HexBase(l.addr \div Page)>> ELSE <<>>
  IN  [hexaddr |-> l.addr + Len(l.data), hexaddrvalid |-> TRUE,
       out |-> s.out \o base \o <<HexData(l.addr % Page, l.data)>>]

\* Append line 'l' to the state s of the conversion: a new base address when
\* the line does not follow the one before, or that one ended a page.
GenHexRec(s, l) ==
  LET fresh == ~s.hexaddrvalid \/ l.addr # s.hexaddr
      base  == IF fresh THEN <<HexBase(l.addr \div Page)>> ELSE <<>>
      next  == l.addr + Len(l.data)
  IN  [hexaddr      |-> next,
       hexaddrvalid |-> next % Page # 0,
       out          |-> s.out \o base \o <<HexData(l.addr % Page, l.data)>>]

\* The lines are converted one after the other, up to the first that is bad or
\* unsupported.
ConvertSRecFile(file) ==
  LET start == [hexaddr |-> 0, hexaddrvalid |-> FALSE, out |-> <<>>]
      bad   == {i \in DOMAIN file :
                  HexScanLine(file[i]) # 0 \/ file[i].t \notin {0, 2, 3, 7, 8, 9}}
      good  == IF bad = {} THEN file ELSE SubSeq(file, 1, Min(bad) - 1)
      out   == FoldLeft(GenHexRec, start, SelectSeq(good, IsData)).out
  IN  [error |-> bad # {}, out |-> IF bad = {} THEN out \o <<HexEnd>> ELSE out]

\* The whole tool: what was written before an error is taken back.
Srec2Hex(file) ==
  IF ConvertSRecFile(file).error THEN <<>> ELSE ConvertSRecFile(file).out

\* What a programmer makes of Intel hex: the base holds until the next one.
HexMemory(hex) ==
  LET bases(i) == {j \in 1 .. i : hex[j].k = "base"}
      at(i)    == hex[Max(bases(i))].at * Page + hex[i].at
      lines    == {i \in DOMAIN hex : hex[i].k = "data"}
  IN  Loaded([i \in 1 .. Len(hex) |->
                IF i \in lines THEN Line(3, at(i), hex[i].data) ELSE Line(3, 0, <<>>)])
===============================================================================
