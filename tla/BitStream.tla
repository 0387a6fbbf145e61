----------------------------- MODULE BitStream -------------------------------
(***************************************************************************)
(* cBitStream (Source/xStl/stream/bitStream.cpp): numbers of any width,    *)
(* least significant bit first, packed into the bytes of a downstream.  A  *)
(* byte is the function from its BITS_IN_BYTE positions to bits.  Numbers  *)
(* are written, the writer is flushed and destroyed, and a new cBitStream  *)
(* on the rewound stream reads the same widths and seeks.                  *)
(***************************************************************************)
EXTENDS Integers, Sequences, SequencesExt

CONSTANTS BITS_IN_BYTE,
          Width,       \* the widths used
          MaxNumbers   \* bound: numbers written

VARIABLES writeSide,  \* [byte |-> m_write_byte, position |-> m_write_bit_position]
          readSide,   \* [byte |-> m_read_byte, position |-> m_read_bit_position]
          packed,     \* the bytes of the downstream
          consumed,   \* how many of them have been read
          sent,       \* the numbers written, [number, bits]
          received,   \* the numbers read back
          stage       \* "writing", "reading", "ended" by a read error

vars == <<writeSide, readSide, packed, consumed, sent, received, stage>>

Octet == [0 .. BITS_IN_BYTE - 1 -> {0, 1}]
Entries == UNION {[number : 0 .. 2 ^ n - 1, bits : {n}] : n \in Width}

BitsOf(number, n) == [i \in 1 .. n |-> (number \div 2 ^ (i - 1)) % 2]
NumberOf(bits) == FoldLeftDomain(LAMBDA sum, i : sum + bits[i] * 2 ^ (i - 1), 0, bits)

(* m_write_byte is not initialised.  Nor is m_read_byte, but the reading   *)
(* side starts exhausted and never looks at it before it is filled.        *)
Init ==
  /\ writeSide \in [byte : Octet, position : {0}]
  /\ readSide = [byte |-> [i \in 0 .. BITS_IN_BYTE - 1 |-> 0], position |-> BITS_IN_BYTE]
  /\ packed = <<>> /\ consumed = 0
  /\ sent = <<>> /\ received = <<>>
  /\ stage = "writing"

BitSet(byte, place, bit) == [byte EXCEPT ![place] = bit]

(* One turn of the loop of write(): st is [side, out]. *)
BitWritten(st, bit) ==
  LET byte == BitSet(st.side.byte, st.side.position, bit)
  IN  IF st.side.position + 1 = BITS_IN_BYTE
      THEN [side |-> [byte |-> byte, position |-> 0], out |-> Append(st.out, byte)]
      ELSE [side |-> [byte |-> byte, position |-> st.side.position + 1], out |-> st.out]

writeBits(number, n) ==
  LET after == FoldLeft(BitWritten, [side |-> writeSide, out |-> packed], BitsOf(number, n))
  IN  /\ stage = "writing" /\ Len(sent) < MaxNumbers
      /\ writeSide' = after.side /\ packed' = after.out
      /\ sent' = Append(sent, [number |-> number, bits |-> n])
      /\ UNCHANGED <<readSide, consumed, received, stage>>

(* flush pads with whatever the higher bits of m_write_byte are. *)
FlushedBytes ==
  IF writeSide.position > 0 THEN Append(packed, writeSide.byte) ELSE packed

(* The writer is destroyed, which flushes it, and the reader is opened.    *)
reopen ==
  /\ stage = "writing" /\ stage' = "reading"
  /\ packed' = FlushedBytes
  /\ writeSide' = [writeSide EXCEPT !.position = 0]
  /\ UNCHANGED <<readSide, consumed, sent, received>>

bitsLeft == (BITS_IN_BYTE - readSide.position) + BITS_IN_BYTE * (Len(packed) - consumed)

(* One turn of the loop of read(): st is [side, at, bits]. *)
BitRead(st, i) ==
  LET fresh == st.side.position = BITS_IN_BYTE
      byte == IF fresh THEN packed[st.at + 1] ELSE st.side.byte
      place == IF fresh THEN 0 ELSE st.side.position
  IN  [side |-> [byte |-> byte, position |-> place + 1],
       at |-> IF fresh THEN st.at + 1 ELSE st.at,
       bits |-> Append(st.bits, byte[place])]

(* readBits throws EXCEPTION_READ_ERROR when the bits run out.             *)
readBits(n) ==
  LET after == FoldLeft(BitRead, [side |-> readSide, at |-> consumed, bits |-> <<>>],
                        [i \in 1 .. n |-> i])
  IN  /\ stage = "reading"
      /\ IF bitsLeft < n
         THEN stage' = "ended" /\ UNCHANGED <<readSide, consumed, received>>
         ELSE /\ readSide' = after.side /\ consumed' = after.at
              /\ received' = Append(received, NumberOf(after.bits))
              /\ UNCHANGED stage
      /\ UNCHANGED <<writeSide, packed, sent>>

(* Where the k-th number begins, in bits.                                  *)
PlaceOf(k) == FoldLeft(LAMBDA sum, entry : sum + entry.bits, 0, SubSeq(sent, 1, k - 1))

(* seek drops the byte that is being read, moves what is below by whole    *)
(* bytes and reads the bits that are left.  The client seeks to a number:  *)
(* from the beginning, or from a whole byte, forward or by whole bytes.    *)
seek(k, method) ==
  LET from == IF method = "IO_SEEK_SET" THEN 0 ELSE consumed
      distance == PlaceOf(k) - BITS_IN_BYTE * from
      moved == [side |-> [readSide EXCEPT !.position = BITS_IN_BYTE],
                at |-> from + distance \div BITS_IN_BYTE, bits |-> <<>>]
      after == FoldLeft(BitRead, moved, [i \in 1 .. distance % BITS_IN_BYTE |-> i])
  IN  /\ stage = "reading"
      /\ method = "IO_SEEK_CUR" => readSide.position = BITS_IN_BYTE
      /\ distance >= 0 \/ distance % BITS_IN_BYTE = 0
      /\ readSide' = after.side /\ consumed' = after.at
      /\ received' = [i \in 1 .. k - 1 |-> sent[i].number]
      /\ UNCHANGED <<writeSide, packed, sent, stage>>

bitIsEOS == consumed = Len(packed) /\ readSide.position = BITS_IN_BYTE

Next ==
  \/ \E entry \in Entries : writeBits(entry.number, entry.bits)
  \/ reopen
  \/ /\ Len(received) < Len(sent)
     /\ readBits(sent[Len(received) + 1].bits)
  \/ /\ Len(received) >= Len(sent)
     /\ \E n \in Width : readBits(n)
  \/ \E k \in 1 .. Len(sent), method \in {"IO_SEEK_SET", "IO_SEEK_CUR"} : seek(k, method)

Spec == Init /\ [][Next]_vars
-----------------------------------------------------------------------------
TypeOK ==
  /\ writeSide \in [byte : Octet, position : 0 .. BITS_IN_BYTE - 1]
  /\ readSide \in [byte : Octet, position : 1 .. BITS_IN_BYTE]
  /\ packed \in Seq(Octet) /\ consumed \in 0 .. Len(packed)
  /\ sent \in Seq(Entries)
  /\ received \in Seq(Nat)
  /\ stage \in {"writing", "reading", "ended"}

(* A reader that asks for the widths that were written gets the numbers    *)
(* back, however they straddle bytes and whatever stale bits the writer's  *)
(* byte held, and is never cut off before the last one, wherever it seeks. *)
NumbersReadBack ==
  /\ \A i \in 1 .. Len(received) : i <= Len(sent) => received[i] = sent[i].number
  /\ stage = "ended" => Len(received) >= Len(sent)
=============================================================================
