------------------------------- MODULE PipeIO --------------------------------
(***************************************************************************)
(* basicIO::copyStream and the pipeRead and pipeWrite loops under it       *)
(* (Source/xStl/stream/basicIO.cpp), between streams whose read and write  *)
(* may be as short as they like, down to nothing (basicIO.h:103-108), and  *)
(* a destination that takes Room bytes at most.                            *)
(***************************************************************************)
EXTENDS Naturals, Sequences

CONSTANTS Byte,
          BestRequest,  \* getPipeReadBestRequest of the source
          Room,         \* the size of a fixed size destination
          MaxSource     \* bound: bytes of the source

VARIABLES content,  \* history: what the source held at the call
          source,   \* what it still holds
          chunk,    \* read by this turn of the loop, not yet written
          copied,   \* the destination
          copyAt    \* "reading", "writing", "returned"

vars == <<content, source, chunk, copied, copyAt>>

Least(a, b) == IF a < b THEN a ELSE b
Taken(bytes, k) == SubSeq(bytes, 1, k)
Rest(bytes, k) == SubSeq(bytes, k + 1, Len(bytes))

Init ==
  /\ content \in UNION {[1 .. n -> Byte] : n \in 0 .. MaxSource}
  /\ source = content
  /\ chunk = <<>> /\ copied = <<>>
  /\ copyAt = "reading"

sourceIsEOS == source = <<>>

ReadLimit == Least(BestRequest - Len(chunk), Len(source))

(* Faulty: the end of the source does not end the pipeRead. *)
ReadEndsWhenFull(k) == Len(chunk) + k = BestRequest

(* The chunk is full, or the source is at its end. *)
ReadEnds(k) == Len(chunk) + k = BestRequest \/ k = Len(source)

(* A read of pipeRead.  If pipeRead has nothing, copyStream is over. *)
pipeRead(k) ==
  /\ copyAt = "reading"
  /\ k <= ReadLimit
  /\ chunk' = chunk \o Taken(source, k)
  /\ source' = Rest(source, k)
  /\ copyAt' = CASE ~ReadEnds(k) -> "reading"
                 [] ReadEnds(k) /\ chunk' # <<>> -> "writing"
                 [] OTHER -> "returned"
  /\ UNCHANGED <<content, copied>>

(* Faulty: what a short write left over is forgotten. *)
LeftUnwrittenDropped(k) == <<>>

LeftUnwritten(k) == Rest(chunk, k)

(* A write of pipeWrite.  With the chunk out, copyStream goes on unless    *)
(* the source is at its end.                                               *)
pipeWrite(k) ==
  /\ copyAt = "writing"
  /\ k <= Least(Len(chunk), Room - Len(copied))
  /\ copied' = copied \o Taken(chunk, k)
  /\ chunk' = LeftUnwritten(k)
  /\ copyAt' = CASE chunk' # <<>> -> "writing"
                 [] chunk' = <<>> /\ ~sourceIsEOS -> "reading"
                 [] OTHER -> "returned"
  /\ UNCHANGED <<content, source>>

(* A call that gets something done.  Reading an empty source is one: it    *)
(* finds the end.  Not every call comes back with nothing: a source with   *)
(* bytes gives some of them, a destination with room takes some.           *)
Progress ==
  \/ \E k \in 0 .. BestRequest : (k > 0 \/ sourceIsEOS) /\ pipeRead(k)
  \/ \E k \in 1 .. BestRequest : pipeWrite(k)

Next == \E k \in 0 .. BestRequest : pipeRead(k) \/ pipeWrite(k)
-----------------------------------------------------------------------------
TypeOK ==
  /\ content \in Seq(Byte) /\ source \in Seq(Byte)
  /\ chunk \in Seq(Byte) /\ Len(chunk) <= BestRequest
  /\ copied \in Seq(Byte) /\ Len(copied) <= Room
  /\ copyAt \in {"reading", "writing", "returned"}

(* At every moment each byte is in one place: copied, in the buffer or     *)
(* still in the source, and when copyStream returns all of them are copied.*)
CopyIsExact ==
  /\ copied \o chunk \o source = content
  /\ copyAt = "returned" => copied = content

(* copyStream returns, however short the reads and writes are, provided    *)
(* that the destination has room.                                          *)
CopyEnds == <>(copyAt = "returned")
=============================================================================
