--------------------------------- MODULE Crc ---------------------------------
(***************************************************************************)
(* The two implementations of the CRC that the header of the firmware and  *)
(* the packets of the host link carry: src/common/crc.h, which firmware,   *)
(* bootloader and sreccrc include and which makes its table itself, and    *)
(* src/tools/crc.c, which has a table of 256 literals.  Other modules take *)
(* a CRC for the bytes it was made of; here it is the number.              *)
(*                                                                         *)
(* Registers have the 16 bits that CRC_TABLETYPE and unsigned short have.  *)
(* What is more of the 32-bit register of calcCRC only ever moves to the   *)
(* left, and is masked in the end.                                         *)
(***************************************************************************)
EXTENDS Integers, SequencesExt, Bitwise

poly == 4129                       \* 0x1021
Bytes == 0 .. 255

Shift(reg, n) == (reg * 2^n) % 65536

-------------------------------------------------------------------------------
(* crc.h *)

\* One bit of an entry of the table: 0x8000 is the top bit.
NextBit(reg) == IF reg >= 32768 THEN Shift(reg, 1) ^^ poly ELSE Shift(reg, 1)

CreateCITTTable ==
  [i \in Bytes |-> FoldLeft(LAMBDA reg, j : NextBit(reg), Shift(i, 8), [j \in 1 .. 8 |-> j])]

\* A byte of the data, with some table.
Update(table, crc, byte) == table[(crc \div 256) ^^ byte] ^^ Shift(crc, 8)

\* Mutant: the register begins with 0.
CalcCITTFromZero(table, data) ==
  FoldLeft(LAMBDA crc, byte : Update(table, crc, byte), 0, data)

CalcCITT(table, data) ==
  FoldLeft(LAMBDA crc, byte : Update(table, crc, byte), 65535, data)

-------------------------------------------------------------------------------
(* crc.c *)

crc16Tbl == [i \in Bytes |->
  <<
     0, 4129, 8258, 12387, 16516, 20645, 24774, 28903, 33032, 37161, 41290, 45419, 49548, 53677, 57806, 61935,
     4657, 528, 12915, 8786, 21173, 17044, 29431, 25302, 37689, 33560, 45947, 41818, 54205, 50076, 62463, 58334,
     9314, 13379, 1056, 5121, 25830, 29895, 17572, 21637, 42346, 46411, 34088, 38153, 58862, 62927, 50604, 54669,
     13907, 9842, 5649, 1584, 30423, 26358, 22165, 18100, 46939, 42874, 38681, 34616, 63455, 59390, 55197, 51132,
     18628, 22757, 26758, 30887, 2112, 6241, 10242, 14371, 51660, 55789, 59790, 63919, 35144, 39273, 43274, 47403,
     23285, 19156, 31415, 27286, 6769, 2640, 14899, 10770, 56317, 52188, 64447, 60318, 39801, 35672, 47931, 43802,
     27814, 31879, 19684, 23749, 11298, 15363, 3168, 7233, 60846, 64911, 52716, 56781, 44330, 48395, 36200, 40265,
     32407, 28342, 24277, 20212, 15891, 11826, 7761, 3696, 65439, 61374, 57309, 53244, 48923, 44858, 40793, 36728,
     37256, 33193, 45514, 41451, 53516, 49453, 61774, 57711, 4224, 161, 12482, 8419, 20484, 16421, 28742, 24679,
     33721, 37784, 41979, 46042, 49981, 54044, 58239, 62302, 689, 4752, 8947, 13010, 16949, 21012, 25207, 29270,
     46570, 42443, 38312, 34185, 62830, 58703, 54572, 50445, 13538, 9411, 5280, 1153, 29798, 25671, 21540, 17413,
     42971, 47098, 34713, 38840, 59231, 63358, 50973, 55100, 9939, 14066, 1681, 5808, 26199, 30326, 17941, 22068,
     55628, 51565, 63758, 59695, 39368, 35305, 47498, 43435, 22596, 18533, 30726, 26663, 6336, 2273, 14466, 10403,
     52093, 56156, 60223, 64286, 35833, 39896, 43963, 48026, 19061, 23124, 27191, 31254, 2801, 6864, 10931, 14994,
     64814, 60687, 56684, 52557, 48554, 44427, 40424, 36297, 31782, 27655, 23652, 19525, 15522, 11395, 7392, 3265,
     61215, 65342, 53085, 57212, 44955, 49082, 36825, 40952, 28183, 32310, 20053, 24180, 11923, 16050, 3793, 7920
  >>[i + 1]]

\* The static variable crc16b goes on from where the last call left it, unless
\* it is to begin anew.
CalcCrc16Buf(crc16b, buf, init) ==
  FoldLeft(LAMBDA crc, byte : Update(crc16Tbl, crc, byte),
           IF init THEN 65535 ELSE crc16b, buf)

-------------------------------------------------------------------------------
(***************************************************************************)
(* The reference: the remainder of the message as a polynomial over the    *)
(* bits, 16 zeros behind it and its first 16 bits inverted, divided by     *)
(* x^16 + x^12 + x^5 + 1.                                                  *)
(***************************************************************************)
BitsOf(data) ==
  LET bit(i) == (data[((i - 1) \div 8) + 1] \div (2^(7 - ((i - 1) % 8)))) % 2
      n      == 8 * Len(data)
      padded == [i \in 1 .. n + 16 |-> IF i <= n THEN bit(i) ELSE 0]
  IN  [i \in 1 .. n + 16 |-> IF i <= 16 THEN 1 - padded[i] ELSE padded[i]]

Remainder(bits) ==
  FoldLeft(LAMBDA reg, bit :
             IF reg >= 32768 THEN (Shift(reg, 1) + bit) ^^ poly ELSE Shift(reg, 1) + bit,
           0, bits)

\* Bounds: messages of up to three bytes out of a few, and bursts of errors.
Messages == UNION {[1 .. n -> {1, 33, 255}] : n \in 0 .. 3}
Bursts   == {<<a, b>> : a \in {0, 1, 255}, b \in {0, 1, 16, 33, 128, 255}} \ {<<0, 0>>}

(***************************************************************************)
(* Whichever program computes the CRC, of the same bytes it is the same    *)
(* number, the one the reference gives: with the table made or read, in    *)
(* one go or in the two parts of writeCodeHdr.                             *)
(***************************************************************************)
CrcsAgree ==
  LET table == CreateCITTTable
  IN  /\ crc16Tbl = table
      /\ \A data \in Messages : CalcCITT(table, data) = Remainder(BitsOf(data))
      /\ \A data \in Messages : \A n \in 0 .. Len(data) :
           CalcCITT(table, data) =
             CalcCrc16Buf(CalcCrc16Buf(0, SubSeq(data, 1, n), TRUE),
                          SubSeq(data, n + 1, Len(data)), FALSE)

\* Damage of up to 16 bits in a row never leaves the CRC as it was: of a
\* disturbed packet the CRC tells.
BurstsAreSeen ==
  LET table == CreateCITTTable
      data  == <<1, 128, 33>>
      damaged(burst, at) ==
        [i \in 1 .. 3 |-> IF i \in {at, at + 1} THEN data[i] ^^ burst[(i - at) + 1] ELSE data[i]]
  IN  \A burst \in Bursts : \A at \in 1 .. 2 :
        CalcCITT(table, damaged(burst, at)) # CalcCITT(table, data)
===============================================================================
