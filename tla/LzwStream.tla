----------------------------- MODULE LzwStream -------------------------------
(***************************************************************************)
(* cLZWcompression (Source/xStl/stream/lzw.cpp) over a cBitStream.  A byte *)
(* of the data is one digit of m_bitSize bits, as with the default size of *)
(* 8.  Codes below 2^m_bitSize are digits, then come the clear and the end *)
(* signal, then the strings of the table; a code takes m_io_bits bits.     *)
(* The writer is used, flushed and destroyed; a reader on the rewound      *)
(* stream reads into a buffer large enough, one code a step.               *)
(***************************************************************************)
EXTENDS Naturals, Sequences, SequencesExt

CONSTANTS m_bitSize,
          Digits,       \* the digits used, some of 0 .. 2^m_bitSize - 1
          MaxDigits,    \* bound: digits of one write
          MaxWrites     \* bound: writes to one stream

VARIABLES lzwWriter,    \* [table, io, prefix, first]: m_table, m_io_bits,
          lzwReader,    \*   m_write_prefix or m_read_prefix, m_first_...
          lzwCoded,     \* the bits of the downstream
          lzwAt,        \* how many of them have been read
          lzwPlain,     \* the digits of the writes
          lzwRestored,  \* the digits read back
          lzwWrites,    \* how many writes there were
          lzwStage      \* "new", "writing", "closed", "reading", "eof", "ended", "threw"

vars == <<lzwWriter, lzwReader, lzwCoded, lzwAt, lzwPlain, lzwRestored, lzwWrites, lzwStage>>

Clear == 2 ^ m_bitSize
End == Clear + 1
start_opcodes == Clear + 2

BitsOf(number, n) == [i \in 1 .. n |-> (number \div 2 ^ (i - 1)) % 2]
NumberOf(bits) == FoldLeftDomain(LAMBDA sum, i : sum + bits[i] * 2 ^ (i - 1), 0, bits)

NewSide == [table |-> <<>>, io |-> m_bitSize + 1, prefix |-> 0, first |-> TRUE]

Init ==
  /\ lzwWriter = NewSide /\ lzwReader = NewSide
  /\ lzwCoded = <<>> /\ lzwAt = 0
  /\ lzwPlain = <<>> /\ lzwRestored = <<>>
  /\ lzwWrites = 0 /\ lzwStage = "new"

(* The codes grow when the table does; the reader, a string behind the     *)
(* writer, looks one ahead.                                                *)
WidthAfter(side, lead) ==
  IF Len(side.table) + start_opcodes + lead = 2 ^ side.io THEN side.io + 1 ELSE side.io

Added(side, lead, value, prefix) ==
  [table |-> Append(side.table, [prefix |-> side.prefix, value |-> value]),
   io |-> WidthAfter(side, lead), prefix |-> prefix, first |-> FALSE]

(* One turn of the loop of write, on [side, out]: extend the string, or    *)
(* write it out and remember its extension.                                *)
Encode(st, digit) ==
  LET side == st.side
      known == {i \in 1 .. Len(side.table) :
                  side.table[i] = [prefix |-> side.prefix, value |-> digit]}
  IN  IF known # {}
      THEN [st EXCEPT !.side.prefix = (CHOOSE i \in known : TRUE) - 1 + start_opcodes]
      ELSE [side |-> Added(side, 0, digit, digit),
            out |-> st.out \o BitsOf(side.prefix, side.io)]

(* The first write takes its first digit as the string.  A later one takes *)
(* its digits from the first on, but one less than there are.              *)
LoopDigits(digits) == IF lzwWriter.first THEN Tail(digits) ELSE Front(digits)

Started(digits) ==
  IF lzwWriter.first THEN [lzwWriter EXCEPT !.prefix = digits[1], !.first = FALSE] ELSE lzwWriter

lzwWrite(digits) ==
  LET after == FoldLeft(Encode, [side |-> Started(digits), out |-> lzwCoded], LoopDigits(digits))
  IN  /\ lzwStage \in {"new", "writing"} /\ lzwWrites < MaxWrites
      /\ lzwWriter' = after.side /\ lzwCoded' = after.out
      /\ lzwPlain' = lzwPlain \o digits
      /\ lzwWrites' = lzwWrites + 1 /\ lzwStage' = "writing"
      /\ UNCHANGED <<lzwReader, lzwAt, lzwRestored>>

(* Called at the beginning of a stream, as lzw.h asks. *)
initNewStream ==
  /\ lzwStage = "new" /\ lzwStage' = "writing"
  /\ lzwCoded' = lzwCoded \o BitsOf(Clear, lzwWriter.io)
  /\ lzwWriter' = NewSide
  /\ UNCHANGED <<lzwReader, lzwAt, lzwPlain, lzwRestored, lzwWrites>>

(* Called before the flush, as lzw.h asks: the last string is not out yet. *)
closeNewStream ==
  /\ lzwStage = "writing" /\ lzwStage' = "closed"
  /\ lzwCoded' = lzwCoded \o BitsOf(End, lzwWriter.io)
  /\ UNCHANGED <<lzwWriter, lzwReader, lzwAt, lzwPlain, lzwRestored, lzwWrites>>

FlushedCodes ==
  IF lzwWriter.first THEN lzwCoded
  ELSE lzwCoded \o BitsOf(lzwWriter.prefix, lzwWriter.io)

(* flush, the end of the writer and the rewind.  The bit stream pads its   *)
(* last byte with stale bits.                                              *)
startReading ==
  /\ lzwStage \in {"writing", "closed"} /\ lzwStage' = "reading"
  /\ \E pad \in 0 .. m_bitSize - 1 :
        /\ (Len(FlushedCodes) + pad) % m_bitSize = 0
        /\ \E stale \in [1 .. pad -> {0, 1}] : lzwCoded' = FlushedCodes \o stale
  /\ lzwWriter' = [lzwWriter EXCEPT !.first = TRUE]
  /\ UNCHANGED <<lzwReader, lzwAt, lzwPlain, lzwRestored, lzwWrites>>

(* writeString: what a code stands for. *)
StringOf(table, code) ==
  LET string[c \in 0 .. code] ==
        IF c < start_opcodes THEN <<c>>
        ELSE Append(string[table[c - start_opcodes + 1].prefix],
                    table[c - start_opcodes + 1].value)
  IN  string[code]

HasCode == Len(lzwCoded) - lzwAt >= lzwReader.io
NextCode == NumberOf(SubSeq(lzwCoded, lzwAt + 1, lzwAt + lzwReader.io))

(* Faulty: a code the table does not hold yet is refused.                  *)
RefusedUnknown(code) ==
  code >= start_opcodes /\ code >= start_opcodes + Len(lzwReader.table)

(* A code beyond the string about to be added, or a string before any      *)
(* digit, indexes the table out of its bounds.                             *)
Refused(code) ==
  /\ code >= start_opcodes
  /\ lzwReader.first \/ code > start_opcodes + Len(lzwReader.table)

(* The string about to be added begins and ends with the same digit.       *)
AfterCode(code) ==
  LET first == IF code = start_opcodes + Len(lzwReader.table) THEN lzwReader.prefix ELSE code
  IN  CASE code = Clear -> NewSide
        [] code # Clear /\ lzwReader.first -> [lzwReader EXCEPT !.prefix = code, !.first = FALSE]
        [] OTHER -> Added(lzwReader, 1, StringOf(lzwReader.table, first)[1], code)

readCode ==
  /\ lzwStage = "reading" /\ HasCode
  /\ NextCode # End /\ ~Refused(NextCode)
  /\ lzwAt' = lzwAt + lzwReader.io
  /\ lzwReader' = AfterCode(NextCode)
  /\ lzwRestored' = lzwRestored \o
       (IF NextCode = Clear THEN <<>> ELSE StringOf(lzwReader'.table, NextCode))
  /\ UNCHANGED <<lzwWriter, lzwCoded, lzwPlain, lzwWrites, lzwStage>>

(* Too few bits left for a code, the end signal, or an index exception. *)
readStops ==
  /\ lzwStage = "reading"
  /\ HasCode => NextCode = End \/ Refused(NextCode)
  /\ lzwStage' = CASE ~HasCode -> "eof"
                   [] HasCode /\ NextCode = End -> "ended"
                   [] OTHER -> "threw"
  /\ UNCHANGED <<lzwWriter, lzwReader, lzwCoded, lzwAt, lzwPlain, lzwRestored, lzwWrites>>

lzwIsEOS == lzwStage \in {"eof", "ended"}

Next ==
  \/ \E n \in 1 .. MaxDigits : \E digits \in [1 .. n -> Digits] : lzwWrite(digits)
  \/ initNewStream \/ closeNewStream \/ startReading
  \/ readCode \/ readStops

Spec == Init /\ [][Next]_vars
-----------------------------------------------------------------------------
Side == [table : Seq([prefix : Nat, value : Digits]), io : Nat, prefix : Nat, first : BOOLEAN]

TypeOK ==
  /\ lzwWriter \in Side /\ lzwReader \in Side
  /\ lzwCoded \in Seq({0, 1}) /\ lzwAt \in 0 .. Len(lzwCoded)
  /\ lzwPlain \in Seq(Digits) /\ lzwRestored \in Seq(Digits)
  /\ lzwWrites \in 0 .. MaxWrites
  /\ lzwStage \in {"new", "writing", "closed", "reading", "eof", "ended", "threw"}

(* The reader rebuilds the writer's table from the codes alone.  Every     *)
(* string extends an earlier one, no string is there twice, and every code *)
(* of the table fits the width of the codes.                               *)
TablesInStep ==
  /\ IsPrefix(lzwReader.table, lzwWriter.table)
  /\ \A i, j \in 1 .. Len(lzwWriter.table) :
        /\ lzwWriter.table[i].prefix < start_opcodes + i - 1
        /\ i # j => lzwWriter.table[i] # lzwWriter.table[j]
  /\ start_opcodes + Len(lzwWriter.table) <= 2 ^ lzwWriter.io

(* "Return the number of bytes written" (basicIO.h:390): write returned    *)
(* the length of every buffer, so all of them are read back.               *)
AllWritesReadBack == lzwStage = "eof" => lzwRestored = lzwPlain

(* Of a stream of one write no digit is misread and, unless an end signal  *)
(* cuts it off, none is missing.                                           *)
WrittenReadBack ==
  /\ IsPrefix(lzwRestored, lzwPlain) /\ lzwStage # "threw"
  /\ AllWritesReadBack
=============================================================================
