------------------------------ MODULE ByteFile -------------------------------
(***************************************************************************)
(* What basicIO.h promises of a random access stream: its bytes, a         *)
(* position, reads and writes that may be short but not empty while they   *)
(* can go on, and seeks that stay inside.                                  *)
(***************************************************************************)
EXTENDS MemoryStream

CONSTANT Chunk, Distances  \* the buffers written and the distances sought

VARIABLES file,   \* [data, at]
          result  \* what the last read or write returned

vars == <<file, result>>

Init == file = EmptyStream /\ result = <<>>

Read ==
  \E k \in 0 .. Len(file.data) - file.at :
     /\ k = 0 => isEOS(file)
     /\ result' = ReadBytes(file, k)
     /\ file' = AfterRead(file, k)

Write ==
  \E bytes \in Chunk : \E k \in 1 .. Len(bytes) :
     /\ result' = SubSeq(bytes, 1, k)
     /\ file' = AfterWrite(file, result', FALSE)

Seek ==
  \E distance \in Distances, method \in Methods :
     /\ CanSeek(distance, method)
     /\ file' = AfterSeek(file, distance, method)
     /\ UNCHANGED result

Next == Read \/ Write \/ Seek

Spec == Init /\ [][Next]_vars
=============================================================================
