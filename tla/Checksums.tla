------------------------------ MODULE Checksums ------------------------------
(***************************************************************************)
(* The CRC of 64 bits, which takes four bytes at a time by four tables,    *)
(* and the CRC of 16, which goes bit by bit.  A value is the set of the    *)
(* places of its bits; a byte has ByteBits of them, so that 64 bits are    *)
(* eight bytes and 16 are two.                                             *)
(***************************************************************************)
EXTENDS Naturals, SequencesExt

CONSTANTS ByteBits,       \* bits in a byte, 8
          poly64,         \* the polynomials, without their highest bit
          poly16,
          INITIAL_VALUE,  \* of the CRC of 16 bits
          Data,           \* the bytes of messages
          MaxMessage      \* bound: the length of a message

VARIABLES value64, value16,   \* m_value of the two
          summed              \* ghost: the bytes given since reset()

checksumVars == <<value64, value16, summed>>

Bits(bytes) == 0 .. bytes * ByteBits - 1
ByteValue == SUBSET Bits(1)
xor(a, b) == (a \ b) \cup (b \ a)
Not(v) == Bits(8) \ v
ShiftedRight(v, n) == {i - n : i \in {j \in v : j >= n}}
ByteOf(v, k) == ShiftedRight(v, k * ByteBits) \cap Bits(1)

(* One bit of division from the low end, and a byte of them.                *)
DivideLow(r) == IF 0 \in r THEN xor(ShiftedRight(r, 1), poly64) ELSE ShiftedRight(r, 1)
Times(n, step(_), v) == FoldLeft(LAMBDA r, i : step(r), v, [i \in 1 .. n |-> i])

(* The four tables: what becomes of a byte after one byte, two, and so on.  *)
m_tables[s \in 0 .. 3] ==
  [b \in ByteValue |-> Times(ByteBits, DivideLow, IF s = 0 THEN b ELSE m_tables[s - 1][b])]

updateByte(v, byte) == xor(m_tables[0][xor(byte, ByteOf(v, 0))], ShiftedRight(v, ByteBits))

(* Four bytes at once: their xor with the low half looked up in the tables. *)
updateFour(v, four) ==
  LET tmp == [k \in 0 .. 3 |-> xor(ByteOf(v, k), four[k + 1])]
  IN xor(xor(m_tables[3][tmp[0]], m_tables[2][tmp[1]]),
         xor(ShiftedRight(v, 4 * ByteBits), xor(m_tables[1][tmp[2]], m_tables[0][tmp[3]])))

(* update: single bytes up to an aligned address, fours, and single bytes.  *)
Unaligned(address, length) == IF length > 4 THEN (4 - (address % 4)) % 4 ELSE 0
Fours(address, length) == IF length > 4 THEN (length - Unaligned(address, length)) \div 4 ELSE 0
update64(v, buffer, address) ==
  LET head == Unaligned(address, Len(buffer))
      body == head + 4 * Fours(address, Len(buffer))
      singles(r, bytes) == FoldLeft(updateByte, r, bytes)
      four(k) == SubSeq(buffer, head + 4 * k - 3, head + 4 * k)
      sliced == FoldLeft(updateFour, singles(Not(v), SubSeq(buffer, 1, head)),
                         [k \in 1 .. Fours(address, Len(buffer)) |-> four(k)])
  IN Not(singles(sliced, SubSeq(buffer, body + 1, Len(buffer))))

(* One bit of division from the high end, and update of a byte.             *)
ShiftedLeft(v, n) == {i + n : i \in v} \cap Bits(2)
DivideHigh(c) ==
  IF 2 * ByteBits - 1 \in c THEN xor(ShiftedLeft(c, 1), poly16) ELSE ShiftedLeft(c, 1)
updateCrc(crc, input) == Times(ByteBits, DivideHigh, xor(crc, ShiftedLeft(input, ByteBits)))
update16(crc, bytes) == FoldLeft(updateCrc, crc, bytes)
-----------------------------------------------------------------------------
reset == value64' = {} /\ value16' = INITIAL_VALUE /\ summed' = <<>>
ChecksumInit == value64 = {} /\ value16 = INITIAL_VALUE /\ summed = <<>>

update(buffer, address) ==
  /\ Len(summed) + Len(buffer) <= MaxMessage
  /\ value64' = update64(value64, buffer, address)
  /\ value16' = update16(value16, buffer)
  /\ summed' = summed \o buffer

(* A buffer starts at any place of a word of memory.                        *)
ChecksumNext ==
  \/ reset
  \/ \E length \in 0 .. MaxMessage : \E buffer \in [1 .. length -> Data], address \in 0 .. 3 :
       update(buffer, address)
-----------------------------------------------------------------------------
ChecksumTypeOK == value64 \subseteq Bits(8) /\ value16 \subseteq Bits(2)

(* The bits of a message as the division takes them.                        *)
BitsLowFirst(bytes) == [i \in 1 .. Len(bytes) * ByteBits |->
                          (i - 1) % ByteBits \in bytes[((i - 1) \div ByteBits) + 1]]
BitsHighFirst(bytes) == [i \in 1 .. Len(bytes) * ByteBits |->
                           ByteBits - 1 - ((i - 1) % ByteBits) \in bytes[((i - 1) \div ByteBits) + 1]]
LOCAL If(bit, place) == IF bit THEN {place} ELSE {}

(* The checksums are remainders of the whole message, bit after bit, in     *)
(* whatever pieces and from whatever addresses it was given.                *)
ChecksumsAreRemainders ==
  /\ value64 = Not(FoldLeft(LAMBDA r, bit : DivideLow(xor(r, If(bit, 0))),
                            Bits(8), BitsLowFirst(summed)))
  /\ value16 = FoldLeft(LAMBDA r, bit : DivideHigh(xor(r, If(bit, 2 * ByteBits - 1))),
                        INITIAL_VALUE, BitsHighFirst(summed))
=============================================================================
