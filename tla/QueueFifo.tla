----------------------------- MODULE QueueFifo ------------------------------
(***************************************************************************)
(* cQueueFifo (Source/xStl/data/queueFifo.cpp): a ring of m_queueSize      *)
(* bytes with a read and a write pointer.  A pointer may rest at           *)
(* m_queueSize, one past the last cell, until its next move wraps it, so   *)
(* 0 and m_queueSize are two names of the same place; equal pointers mean  *)
(* empty or full, told apart by m_isFull.                                  *)
(***************************************************************************)
EXTENDS Naturals, Sequences

CONSTANTS Size,      \* m_queueSize
          Byte,      \* the values of a byte
          MaxCount   \* bound of TLC: the largest buffer a caller passes

ASSUME SizeAssumption == Size \in Nat
ASSUME MaxCountAssumption == MaxCount \in Nat

VARIABLES m_queue, m_readPointer, m_writePointer, m_isFull,
          reply      \* the bytes the last call accepted or returned

vars == <<m_queue, m_readPointer, m_writePointer, m_isFull, reply>>

Cells == 0 .. Size - 1

(* new uint8[] leaves the cells uninitialised: any content is possible. *)
Init ==
  /\ m_queue \in [Cells -> Byte]
  /\ m_readPointer = 0
  /\ m_writePointer = 0
  /\ m_isFull = FALSE
  /\ reply = <<>>

(* Faulty: equal pointers always mean an empty queue. *)
getFreespaceNoFlag ==
  IF m_readPointer = m_writePointer THEN Size
  ELSE IF m_readPointer <= m_writePointer
       THEN Size - m_writePointer + m_readPointer
       ELSE m_readPointer - m_writePointer

getFreespace ==
  IF m_readPointer = m_writePointer THEN (IF m_isFull THEN 0 ELSE Size)
  ELSE IF m_readPointer <= m_writePointer
       THEN Size - m_writePointer + m_readPointer
       ELSE m_readPointer - m_writePointer

getOccupyspace == Size - getFreespace

(* The place of the i-th byte (from 1) at or after a pointer: memcpy up to *)
(* the end of the ring, then from its first cell.                          *)
Slot(pointer, i) ==
  IF pointer + i <= Size THEN pointer + i - 1 ELSE pointer + i - 1 - Size

(* Faulty: the pointer runs off the end instead of wrapping. *)
AdvanceNoWrap(pointer, count, ahead) == pointer + count

(* Where a pointer rests after count bytes.  In the branch that cannot     *)
(* wrap (the other pointer lies ahead) it is a plain addition.             *)
Advance(pointer, count, ahead) ==
  IF ahead \/ count <= Size - pointer
  THEN pointer + count
  ELSE count - (Size - pointer)

(* The cell i holds the byte of the buffer that the two memcpys put there. *)
Stored(buffer, count, i) ==
  IF \E k \in 1 .. count : Slot(m_writePointer, k) = i
  THEN buffer[CHOOSE k \in 1 .. count : Slot(m_writePointer, k) = i]
  ELSE m_queue[i]

write(buffer) ==
  LET free  == getFreespace
      count == IF Len(buffer) >= free THEN free ELSE Len(buffer)
  IN  /\ m_isFull' = (Len(buffer) >= free \/ m_isFull)
      /\ m_queue' = [i \in Cells |-> Stored(buffer, count, i)]
      /\ m_writePointer' =
           Advance(m_writePointer, count, m_writePointer < m_readPointer)
      /\ reply' = SubSeq(buffer, 1, count)
      /\ UNCHANGED m_readPointer

(* Faulty: the flag is not lowered by a read. *)
FullAfterReadSticky(count) == m_isFull

FullAfterRead(count) == m_isFull /\ count = 0

read(request) ==
  LET occupied == getOccupyspace
      count    == IF request > occupied THEN occupied ELSE request
  IN  /\ reply' = [k \in 1 .. count |-> m_queue[Slot(m_readPointer, k)]]
      /\ m_readPointer' =
           Advance(m_readPointer, count, m_writePointer > m_readPointer)
      /\ m_isFull' = FullAfterRead(count)
      /\ UNCHANGED <<m_queue, m_writePointer>>

Buffers == UNION {[1 .. n -> Byte] : n \in 0 .. MaxCount}

Next == \/ \E buffer \in Buffers : write(buffer)
        \/ \E request \in 0 .. MaxCount : read(request)

Spec == Init /\ [][Next]_vars
-----------------------------------------------------------------------------
(* The pointers stay on the ring, the cells hold bytes. *)
TypeOK ==
  /\ m_queue \in [Cells -> Byte]
  /\ m_readPointer \in 0 .. Size
  /\ m_writePointer \in 0 .. Size
  /\ m_isFull \in BOOLEAN
  /\ reply \in Seq(Byte)

(* m_isFull is an independent flag that write sets and read clears; it     *)
(* must tell the truth about the pointers for as long as the queue lives,  *)
(* or a full queue would be taken for an empty one when they meet.         *)
FullFlagTruthful == Size > 0 => (m_isFull <=> getOccupyspace = Size)

(* What the queue holds, oldest byte first. *)
Content == [i \in 1 .. getOccupyspace |-> m_queue[Slot(m_readPointer, i)]]

Fifo == INSTANCE ByteFifo WITH items <- Content

(* Whatever the sequence of partial reads and writes, and wherever the     *)
(* pointers wrap, cQueueFifo is a bounded FIFO: each call returns exactly  *)
(* the bytes the abstract queue would, oldest first.                       *)
ImplementsFifo == Fifo!Spec
=============================================================================
