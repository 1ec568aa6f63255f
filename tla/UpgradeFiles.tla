---------------------------- MODULE UpgradeFiles ----------------------------
(***************************************************************************)
(* What the tools of the firmware build make of the linker's file, in      *)
(* three formats and with two programs for the CRC.                        *)
(***************************************************************************)
EXTENDS Upgrade, Crc

\* What sreccrc makes of any file of the linker is a firmware the bootloader
\* accepts, and nothing but the header differs from what the linker said.
ImageBoots ==
  image # <<>> =>
    LET mem == Loaded(image)
        all == [a \in Addresses |-> IF a \in DOMAIN mem THEN mem[a] ELSE Junk]
    IN  /\ KrnlPresent(all)
        /\ \E file \in LinkerFiles :
             LET linked == Loaded(file)
             IN  \A a \in DOMAIN linked :
                   a < FirmwareStartAddr + HdrSize \/ mem[a] = linked[a]

\* The Intel hex file describes the same memory as the S-record file it was
\* made from, across the pages of its base addresses.
HexSame == image # <<>> => HexMemory(hex) = Loaded(image)

\* The binary file is the same firmware too, with the length and the CRC that
\* sreccrc has found, whose program for the CRC is another.  Only the magic is not
\* the one the bootloader looks for (common.h:83 says that it is 'CrC!', which
\* crc.c:152 writes; crcROMMagicL, of common.h:74, is "!CrC" in memory), and the
\* padding is not kept.
BinarySame ==
  image # <<>> =>
    LET mem == Loaded(image)
        lo  == Min(DOMAIN mem)
    IN  /\ DOMAIN mem = lo .. lo + Len(bin) - 1
        /\ \A a \in DOMAIN mem : a \in CodeLenField(lo) \cup CrcField(lo) \/ a >= lo + 3 * Word =>
             bin[a - lo + 1] = mem[a]

\* The tools' output is the firmware of the linker in all three formats, and
\* their CRCs are the same numbers; these do not depend on the state, and are
\* looked at before the files are made.
FilesAgree ==
  /\ ImageBoots /\ HexSame /\ BinarySame
  /\ image = <<>> => CrcsAgree /\ BurstsAreSeen
=============================================================================
