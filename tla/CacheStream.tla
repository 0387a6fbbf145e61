---------------------------- MODULE CacheStream ------------------------------
(***************************************************************************)
(* cCacheStream (Source/xStl/stream/cacheStream.cpp) over a growing memory *)
(* stream: a read-ahead cache and a lazy-write cache on the same           *)
(* downstream.  The client is careful: it does not read over unflushed     *)
(* writes, nor write, flush or seek relatively over unread read-ahead, nor *)
(* ask for a seek that is refused.  The caches know nothing of one another *)
(* and the code checks none of this.                                       *)
(***************************************************************************)
EXTENDS SequencesExt, MemoryStream

CONSTANTS Byte,
          readCache,   \* the size of m_readCache
          writeCache,  \* the size of m_writeCache
          MaxLength,   \* bound: bytes in the stream
          MaxChunk     \* bound: bytes of one call

VARIABLES down,      \* the downstream, [data, at]
          readAhead, \* m_readCache from m_readPosition up to m_readUse
          lazyWrite, \* m_writeCache up to m_writePosition
          result     \* what the last read or write returned

vars == <<down, readAhead, lazyWrite, result>>

Chunk == UNION {[1 .. n -> Byte] : n \in 1 .. MaxChunk}
Distances == -MaxLength .. MaxLength

Init == down = EmptyStream /\ readAhead = <<>> /\ lazyWrite = <<>> /\ result = <<>>

Refills == readAhead = <<>>

read(length) ==
  LET cache == IF Refills THEN ReadBytes(down, readCache) ELSE readAhead
      lread == Least(length, Len(cache))
  IN  /\ lazyWrite = <<>>
      /\ result' = SubSeq(cache, 1, lread)
      /\ readAhead' = SubSeq(cache, lread + 1, Len(cache))
      /\ down' = IF Refills THEN AfterRead(down, readCache) ELSE down
      /\ UNCHANGED lazyWrite

Emptied == AfterWrite(down, lazyWrite, FALSE)

Fits(held, buffer) == Least(Len(buffer), writeCache - Len(held))

write(buffer) ==
  LET full == Len(lazyWrite) = writeCache
      held == IF full THEN <<>> ELSE lazyWrite
      written == Fits(held, buffer)
  IN  /\ readAhead = <<>>
      /\ Len(down.data) + Len(lazyWrite) + Len(buffer) <= MaxLength
      /\ down' = IF full THEN Emptied ELSE down
      /\ lazyWrite' = held \o SubSeq(buffer, 1, written)
      /\ result' = SubSeq(buffer, 1, written)
      /\ UNCHANGED readAhead

(* Faulty: flush keeps the read-ahead of the old position.                 *)
FlushedButRead == [down |-> AfterWrite(down, lazyWrite, FALSE),
                   readAhead |-> readAhead, lazyWrite |-> <<>>]

(* flush writes the lazy bytes down and forgets the read-ahead.            *)
Flushed == [down |-> AfterWrite(down, lazyWrite, FALSE),
            readAhead |-> <<>>, lazyWrite |-> <<>>]

flush ==
  /\ readAhead = <<>>
  /\ down' = Flushed.down /\ readAhead' = Flushed.readAhead
  /\ lazyWrite' = Flushed.lazyWrite
  /\ UNCHANGED result

(* seek flushes, then seeks the downstream. *)
seek(distance, method) ==
  /\ method = "IO_SEEK_CUR" => readAhead = <<>>
  /\ CanSeek(distance, method)
  /\ down' = AfterSeek(Flushed.down, distance, method)
  /\ readAhead' = Flushed.readAhead /\ lazyWrite' = Flushed.lazyWrite
  /\ UNCHANGED result

cacheIsEOS == isEOS(down)

Next ==
  \/ \E length \in 1 .. MaxChunk : read(length)
  \/ \E buffer \in Chunk : write(buffer)
  \/ flush
  \/ \E distance \in Distances, method \in Methods : seek(distance, method)

Spec == Init /\ [][Next]_vars
-----------------------------------------------------------------------------
TypeOK ==
  /\ down.data \in Seq(Byte) /\ down.at \in 0 .. Len(down.data)
  /\ readAhead \in Seq(Byte) /\ Len(readAhead) <= readCache
  /\ lazyWrite \in Seq(Byte) /\ Len(lazyWrite) <= writeCache
  /\ result \in Seq(Byte)

(* The stream as the client of the cache sees it: its lazy bytes lie over  *)
(* the downstream, its position is behind them or before the read-ahead.   *)
Seen == [AfterWrite(down, lazyWrite, FALSE) EXCEPT !.at = @ - Len(readAhead)]

File == INSTANCE ByteFile WITH file <- Seen

(* For a careful client the cached stream is the file it caches: reads     *)
(* return its bytes in order and writes land at its position, whatever is  *)
(* still in the caches.                                                    *)
CacheIsFile == File!Spec

(* "Return true incase the input stream reached the end and there aren't   *)
(* any data left in the queue" (basicIO.h:120).                            *)
EosMeansNothingLeft == cacheIsEOS => readAhead = <<>>
=============================================================================
