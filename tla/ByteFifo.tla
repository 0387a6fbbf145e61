------------------------------ MODULE ByteFifo ------------------------------
(***************************************************************************)
(* What a bounded byte queue promises its caller: bytes come out in the    *)
(* order they went in, none is lost, repeated or invented, a write is      *)
(* truncated to the room there is and a read to what is stored.            *)
(* cQueueFifo (data/queueFifo.cpp) is shown to implement this module.      *)
(***************************************************************************)
EXTENDS Naturals, Sequences

CONSTANTS Size,     \* the capacity, in bytes
          Byte,     \* the values of a byte
          MaxCount  \* the largest buffer a caller passes

VARIABLES items,  \* the bytes stored, oldest first
          reply   \* the bytes the last call accepted (write) or returned (read)

Smaller(m, n) == IF m <= n THEN m ELSE n

Init == items = <<>> /\ reply = <<>>

Put(buffer) ==
  LET count == Smaller(Len(buffer), Size - Len(items))
  IN  /\ reply' = SubSeq(buffer, 1, count)
      /\ items' = items \o reply'

Get(request) ==
  LET count == Smaller(request, Len(items))
  IN  /\ reply' = SubSeq(items, 1, count)
      /\ items' = SubSeq(items, count + 1, Len(items))

Buffers == UNION {[1 .. n -> Byte] : n \in 0 .. MaxCount}

Next == \/ \E buffer \in Buffers : Put(buffer)
        \/ \E request \in 0 .. MaxCount : Get(request)

vars == <<items, reply>>

Spec == Init /\ [][Next]_vars
=============================================================================
