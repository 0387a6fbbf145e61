----------------------------- MODULE RleStream -------------------------------
(***************************************************************************)
(* cRLEcompression (Source/xStl/stream/rle.cpp): runs of a byte become     *)
(* <FLAG> <LENGTH> <BYTE> in the downstream.  Bytes, the flag and the run  *)
(* lengths are all of 0 .. MaxByte, 255 in the code.  The compressor is    *)
(* written and flushed in any rhythm, then destroyed, and a decompressor   *)
(* on the rewound stream reads and seeks.  The loops of write and read are *)
(* taken a byte at a time: between calls they keep nothing but the         *)
(* variables here.                                                         *)
(***************************************************************************)
EXTENDS Naturals, Sequences, SequencesExt

CONSTANTS MaxByte, Flags, Data,
          MaxPlain   \* bound: bytes compressed

VARIABLES m_flag,
          m_w_compression_byte, m_w_count,
          m_r_is_compress, m_r_compression_byte, m_r_count,
          coded, codedAt,     \* the downstream and the position in it
          plain, restored,    \* the bytes written, and those read back
          decoding,           \* "no", "yes"
          stale               \* ghost: how many of the restored are of an old run

writing == <<m_w_compression_byte, m_w_count>>
reading == <<m_r_is_compress, m_r_compression_byte, m_r_count>>
vars == <<m_flag, writing, reading, coded, codedAt, plain, restored, decoding, stale>>

Init ==
  /\ m_flag \in Flags
  /\ m_w_compression_byte = 0 /\ m_w_count = 0
  /\ m_r_is_compress = FALSE /\ m_r_compression_byte = 0 /\ m_r_count = 0
  /\ coded = <<>> /\ codedAt = 0
  /\ plain = <<>> /\ restored = <<>>
  /\ decoding = "no" /\ stale = 0

(* A byte outside runs: the flag is doubled. *)
Literal(byte) == IF byte = m_flag THEN <<byte, byte>> ELSE <<byte>>

(* A run whose length would look like the flag is written one shorter, and *)
(* the byte left over as a literal.                                        *)
Run(byte, count) ==
  IF count = m_flag THEN <<m_flag, count - 1, byte>> \o Literal(byte)
  ELSE <<m_flag, count, byte>>

ShortRun(count) == count < 3

(* rleWriteFlush *)
Encoded(byte, count) ==
  IF ShortRun(count) THEN FlattenSeq([i \in 1 .. count |-> Literal(byte)])
  ELSE Run(byte, count)

Pending == Encoded(m_w_compression_byte, m_w_count)

(* Faulty: a run is never cut, and its length does not fit a byte.         *)
RunNeverFull(count) == FALSE

RunFull(count) == count = MaxByte

writeByte(byte) ==
  /\ decoding = "no" /\ Len(plain) < MaxPlain
  /\ plain' = Append(plain, byte)
  /\ IF byte = m_w_compression_byte
     THEN IF RunFull(m_w_count + 1)
          THEN m_w_count' = 0 /\ coded' = coded \o Encoded(byte, m_w_count + 1)
          ELSE m_w_count' = m_w_count + 1 /\ UNCHANGED coded
     ELSE m_w_count' = 1 /\ coded' = coded \o Pending
  /\ m_w_compression_byte' = byte
  /\ UNCHANGED <<m_flag, reading, codedAt, restored, decoding, stale>>

rleFlush ==
  /\ decoding = "no" /\ m_w_count > 0
  /\ coded' = coded \o Pending /\ m_w_count' = 0
  /\ UNCHANGED <<m_flag, m_w_compression_byte, reading, codedAt, plain, restored, decoding, stale>>

(* The compressor is destroyed, which flushes it, and the stream rewound.  *)
startDecoding ==
  /\ decoding = "no" /\ decoding' = "yes"
  /\ coded' = coded \o Pending /\ m_w_count' = 0
  /\ UNCHANGED <<m_flag, m_w_compression_byte, reading, codedAt, plain, restored, stale>>

CodedLeft == Len(coded) - codedAt
Ahead(i) == coded[codedAt + i]

Returns(byte, used) ==
  /\ restored' = Append(restored, byte)
  /\ codedAt' = codedAt + used
  /\ UNCHANGED <<m_flag, writing, coded, plain, decoding, stale>>

ReadsOn == decoding = "yes" /\ ~m_r_is_compress /\ CodedLeft > 0

readInRun ==
  /\ decoding = "yes" /\ m_r_is_compress
  /\ m_r_count' = m_r_count - 1
  /\ m_r_is_compress' = (m_r_count' # 0)
  /\ UNCHANGED m_r_compression_byte
  /\ Returns(m_r_compression_byte, 0)

readLiteral ==
  /\ ReadsOn /\ Ahead(1) # m_flag
  /\ Returns(Ahead(1), 1) /\ UNCHANGED reading

readFlag ==
  /\ ReadsOn /\ Ahead(1) = m_flag /\ CodedLeft > 1 /\ Ahead(2) = m_flag
  /\ Returns(m_flag, 2) /\ UNCHANGED reading

readRun ==
  /\ ReadsOn /\ Ahead(1) = m_flag /\ CodedLeft > 2 /\ Ahead(2) # m_flag
  /\ m_r_compression_byte' = Ahead(3)
  /\ m_r_count' = Ahead(2) - 1
  /\ m_r_is_compress' = TRUE
  /\ Returns(Ahead(3), 3)

(* "Compression error: end of pipe" *)
ReadsBeyond ==
  ReadsOn /\ Ahead(1) = m_flag /\ (CodedLeft = 1 \/ (CodedLeft = 2 /\ Ahead(2) # m_flag))

(* seek from the beginning goes back to the start of what is below, but    *)
(* keeps the run that is being read; it then reads the distance, and       *)
(* throws, as it does after a forward seek, which only reads.              *)
seek ==
  /\ decoding = "yes"
  /\ codedAt' = 0 /\ restored' = <<>>
  /\ stale' = IF m_r_is_compress THEN m_r_count ELSE 0
  /\ UNCHANGED <<m_flag, writing, reading, coded, plain, decoding>>

rleIsEOS == ~m_r_is_compress /\ codedAt = Len(coded)

Next ==
  \/ \E byte \in Data : writeByte(byte)
  \/ rleFlush \/ startDecoding
  \/ readInRun \/ readLiteral \/ readFlag \/ readRun \/ seek

Spec == Init /\ [][Next]_vars
-----------------------------------------------------------------------------
TypeOK ==
  /\ m_flag \in Flags
  /\ m_w_compression_byte \in 0 .. MaxByte /\ m_w_count \in 0 .. MaxByte - 1
  /\ m_r_is_compress \in BOOLEAN /\ m_r_compression_byte \in 0 .. MaxByte
  /\ m_r_count \in 0 .. MaxByte
  /\ coded \in Seq(0 .. MaxByte) /\ codedAt \in 0 .. Len(coded)
  /\ plain \in Seq(Data) /\ restored \in Seq(0 .. MaxByte)
  /\ decoding \in {"no", "yes"} /\ stale \in 0 .. MaxByte

(* What is read back is what was written, in order, whatever the flag, the *)
(* runs and the flushes between them; the end of the stream is announced   *)
(* when all of it was read, and no group is cut off.  After a seek to the  *)
(* beginning it is all read again, behind the rest of the run that was     *)
(* being read when the seek came.                                          *)
RunsReadBack ==
  LET fresh == SubSeq(restored, stale + 1, Len(restored)) IN
  decoding = "yes" =>
     /\ IsPrefix(fresh, plain)
     /\ rleIsEOS => fresh = plain
     /\ ~ReadsBeyond
=============================================================================
