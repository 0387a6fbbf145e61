---------------------------- MODULE MemoryStream -----------------------------
(***************************************************************************)
(* cMemoryStream (Source/xStl/stream/memoryStream.cpp): the bytes m_data   *)
(* and the position m_filePosition, as a record [data, at], and what each  *)
(* operation makes of them.  The filters of this project work over it.     *)
(***************************************************************************)
EXTENDS Integers, Sequences

Least(a, b) == IF a < b THEN a ELSE b

EmptyStream == [data |-> <<>>, at |-> 0]

isEOS(stream) == stream.at = Len(stream.data)

(* read: what is there, at most length bytes. *)
ReadBytes(stream, length) ==
  SubSeq(stream.data, stream.at + 1, Least(stream.at + length, Len(stream.data)))

AfterRead(stream, length) ==
  [stream EXCEPT !.at = Least(@ + length, Len(stream.data))]

(* write: over what is there, then beyond the end.  A fixed size stream    *)
(* takes only what fits.                                                   *)
Accepted(stream, bytes, m_fixedSize) ==
  IF m_fixedSize THEN Least(Len(bytes), Len(stream.data) - stream.at) ELSE Len(bytes)

AfterWrite(stream, bytes, m_fixedSize) ==
  LET taken == SubSeq(bytes, 1, Accepted(stream, bytes, m_fixedSize))
      after == stream.at + Len(taken)
  IN  [data |-> SubSeq(stream.data, 1, stream.at) \o taken
                \o SubSeq(stream.data, after + 1, Len(stream.data)),
       at |-> after]

Methods == {"IO_SEEK_SET", "IO_SEEK_CUR", "IO_SEEK_END"}

(* __canSeek, with all the can-flags of a memory stream set. *)
CanSeek(distance, method) ==
  /\ method = "IO_SEEK_SET" => distance >= 0
  /\ method = "IO_SEEK_END" => distance <= 0

Clamped(place, size) == IF place < 0 THEN 0 ELSE Least(place, size)

AfterSeek(stream, distance, method) ==
  LET base == CASE method = "IO_SEEK_SET" -> 0
                [] method = "IO_SEEK_CUR" -> stream.at
                [] method = "IO_SEEK_END" -> Len(stream.data)
  IN  [stream EXCEPT !.at = Clamped(base + distance, Len(stream.data))]
=============================================================================
