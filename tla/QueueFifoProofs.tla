-------------------------- MODULE QueueFifoProofs ---------------------------
(***************************************************************************)
(* cQueueFifo for every capacity, every set of byte values and every bound *)
(* on the callers' buffers: the pointers stay on the ring, the full flag   *)
(* is truthful and the queue implements the bounded FIFO of ByteFifo.      *)
(***************************************************************************)
EXTENDS QueueFifo, SequenceTheorems, TLAPS

(* A buffer the caller passes is a finite sequence of bytes. *)
LEMMA BufferIsSeq ==
  ASSUME NEW buffer \in Buffers
  PROVE  /\ buffer \in Seq(Byte)
         /\ Len(buffer) \in Nat
         /\ buffer \in [1 .. Len(buffer) -> Byte]
<1>1. PICK n \in 0 .. MaxCount : buffer \in [1 .. n -> Byte]
  BY DEF Buffers
<1>2. n \in Nat
  BY MaxCountAssumption
<1>3. buffer \in Seq(Byte) /\ Len(buffer) = n
  BY <1>1, <1>2
<1>4. QED
  BY <1>1, <1>2, <1>3

(* The space the pointers leave is never negative and never exceeds the    *)
(* ring, so the subtraction of getOccupyspace cannot wrap below zero.      *)
LEMMA SpaceBounds ==
  ASSUME TypeOK
  PROVE  /\ getFreespace \in 0 .. Size
         /\ getOccupyspace \in 0 .. Size
         /\ getFreespace + getOccupyspace = Size
BY SizeAssumption DEF TypeOK, getFreespace, getOccupyspace

(* Any Slot at most one ring away from a pointer is a cell of the queue.   *)
LEMMA SlotIsCell ==
  ASSUME NEW pointer \in 0 .. Size, NEW i \in 1 .. Size
  PROVE  Slot(pointer, i) \in Cells
BY SizeAssumption DEF Slot, Cells

(* Two of the Size places after a pointer are the same cell only when they *)
(* are the same place: the two memcpys of a write never overlap.           *)
LEMMA SlotInjective ==
  ASSUME NEW pointer \in 0 .. Size, NEW i \in 1 .. Size, NEW j \in 1 .. Size,
         Slot(pointer, i) = Slot(pointer, j)
  PROVE  i = j
BY SizeAssumption DEF Slot

(* The initial queue is well typed. *)
LEMMA InitTyped == Init => TypeOK
<1> SUFFICES ASSUME Init PROVE TypeOK
  OBVIOUS
<1>1. <<>> \in Seq(Byte)
  OBVIOUS
<1>2. m_isFull \in BOOLEAN
  BY DEF Init
<1>3. m_readPointer \in 0 .. Size /\ m_writePointer \in 0 .. Size
  BY SizeAssumption DEF Init
<1>4. QED
  BY <1>1, <1>2, <1>3 DEF Init, TypeOK

(* A write keeps the queue well typed. *)
LEMMA WriteTyped ==
  ASSUME TypeOK, NEW buffer \in Buffers, write(buffer)
  PROVE  TypeOK'
<1> DEFINE count == IF Len(buffer) >= getFreespace THEN getFreespace ELSE Len(buffer)
<1>1. /\ buffer \in Seq(Byte)
      /\ Len(buffer) \in Nat
      /\ buffer \in [1 .. Len(buffer) -> Byte]
  BY BufferIsSeq
<1>2. getFreespace \in 0 .. Size
  BY SpaceBounds
<1>3. count \in 0 .. Size /\ count <= Len(buffer) /\ count <= getFreespace
  BY <1>1, <1>2, SizeAssumption
<1>4. m_queue' \in [Cells -> Byte]
  <2>1. ASSUME NEW i \in Cells PROVE Stored(buffer, count, i) \in Byte
    <3>1. CASE \E k \in 1 .. count : Slot(m_writePointer, k) = i
      <4>1. (CHOOSE k \in 1 .. count : Slot(m_writePointer, k) = i) \in 1 .. count
        BY <3>1
      <4>2. 1 .. count \subseteq 1 .. Len(buffer)
        BY <1>1, <1>3
      <4>3. QED
        BY <1>1, <3>1, <4>1, <4>2 DEF Stored
    <3>2. CASE ~ \E k \in 1 .. count : Slot(m_writePointer, k) = i
      BY <3>2 DEF Stored, TypeOK
    <3>3. QED
      BY <3>1, <3>2
  <2>2. m_queue' = [i \in Cells |-> Stored(buffer, count, i)]
    BY DEF write
  <2>3. QED
    BY <2>1, <2>2
<1>5. m_writePointer' \in 0 .. Size
  BY <1>2, <1>3, SizeAssumption DEF write, Advance, TypeOK, getFreespace
<1>6. m_readPointer' \in 0 .. Size /\ m_isFull' \in BOOLEAN
  BY DEF write, TypeOK
<1>7. reply' \in Seq(Byte)
  <2>1. reply' = SubSeq(buffer, 1, count)
    BY DEF write
  <2>2. QED
    BY <1>1, <1>3, <2>1
<1>8. QED
  BY <1>4, <1>5, <1>6, <1>7 DEF TypeOK

(* A read keeps the queue well typed. *)
LEMMA ReadTyped ==
  ASSUME TypeOK, NEW request \in 0 .. MaxCount, read(request)
  PROVE  TypeOK'
<1> DEFINE count == IF request > getOccupyspace THEN getOccupyspace ELSE request
<1>1. getOccupyspace \in 0 .. Size /\ request \in Nat
  BY SpaceBounds, MaxCountAssumption
<1>2. count \in 0 .. Size /\ count <= getOccupyspace
  BY <1>1, SizeAssumption
<1>3. reply' \in Seq(Byte)
  <2>1. ASSUME NEW k \in 1 .. count
        PROVE  m_queue[Slot(m_readPointer, k)] \in Byte
    <3>1. Slot(m_readPointer, k) \in Cells
      BY <1>2, SlotIsCell, SizeAssumption DEF TypeOK
    <3>2. QED
      BY <3>1 DEF TypeOK
  <2>2. reply' = [k \in 1 .. count |-> m_queue[Slot(m_readPointer, k)]]
    BY DEF read
  <2>3. QED
    BY <1>2, <2>1, <2>2
<1>4. m_readPointer' \in 0 .. Size
  BY <1>1, <1>2, SizeAssumption
     DEF read, Advance, TypeOK, getFreespace, getOccupyspace
<1>5. QED
  BY <1>3, <1>4 DEF read, TypeOK, FullAfterRead

(* The pointers stay on the ring in every behaviour. *)
THEOREM QueueTypeCorrect == Spec => []TypeOK
<1>1. TypeOK /\ [Next]_vars => TypeOK'
  <2> SUFFICES ASSUME TypeOK, [Next]_vars PROVE TypeOK'
    OBVIOUS
  <2>1. CASE \E buffer \in Buffers : write(buffer)
    BY <2>1, WriteTyped
  <2>2. CASE \E request \in 0 .. MaxCount : read(request)
    BY <2>2, ReadTyped
  <2>3. CASE UNCHANGED vars
    BY <2>3 DEF vars, TypeOK, Cells
  <2>4. QED
    BY <2>1, <2>2, <2>3 DEF Next
<1>2. QED
  BY <1>1, InitTyped, PTL DEF Spec
-----------------------------------------------------------------------------
(* The number of bytes a write accepts and a read returns. *)
Accepted(buffer) == IF Len(buffer) >= getFreespace THEN getFreespace ELSE Len(buffer)
Returned(request) == IF request > getOccupyspace THEN getOccupyspace ELSE request

(* A write occupies exactly the bytes it accepts, wherever the write       *)
(* pointer wraps.                                                          *)
LEMMA WriteOccupies ==
  ASSUME TypeOK, NEW buffer \in Buffers, write(buffer)
  PROVE  getOccupyspace' = getOccupyspace + Accepted(buffer)
<1> DEFINE count == Accepted(buffer)
<1>1. Len(buffer) \in Nat
  BY BufferIsSeq
<1>2. /\ m_writePointer' = Advance(m_writePointer, count, m_writePointer < m_readPointer)
      /\ m_readPointer' = m_readPointer
      /\ Size \in Nat /\ m_readPointer \in 0 .. Size /\ m_writePointer \in 0 .. Size
  BY SizeAssumption DEF write, Accepted, TypeOK
<1>3. CASE Len(buffer) >= getFreespace
  <2>1. m_isFull' /\ count = getFreespace
    BY <1>3 DEF write, Accepted
  <2>2. getFreespace' = 0
    BY <1>2, <2>1 DEF Advance, getFreespace
  <2>3. QED
    BY <2>1, <2>2, SpaceBounds, SizeAssumption DEF getOccupyspace
<1>4. CASE ~(Len(buffer) >= getFreespace)
  <2>1. count = Len(buffer) /\ count < getFreespace
    BY <1>1, <1>4, SpaceBounds DEF Accepted
  <2>2. m_isFull' <=> m_isFull
    BY <1>4 DEF write
  <2>3. getFreespace' = getFreespace - count
    <3>1. CASE m_readPointer = m_writePointer
      <4>1. ~m_isFull /\ getFreespace = Size
        BY <1>1, <1>2, <2>1, <3>1 DEF getFreespace
      <4>2. m_writePointer' = IF count <= Size - m_writePointer
                              THEN m_writePointer + count
                              ELSE count - (Size - m_writePointer)
        BY <1>2, <3>1 DEF Advance
      <4>3. QED
        BY <1>1, <1>2, <2>1, <2>2, <3>1, <4>1, <4>2 DEF getFreespace
    <3>2. CASE m_readPointer < m_writePointer
      <4>1. m_writePointer' = IF count <= Size - m_writePointer
                              THEN m_writePointer + count
                              ELSE count - (Size - m_writePointer)
        BY <1>2, <3>2 DEF Advance
      <4>2. QED
        BY <1>1, <1>2, <2>1, <3>2, <4>1 DEF getFreespace
    <3>3. CASE m_readPointer > m_writePointer
      <4>1. m_writePointer' = m_writePointer + count
        BY <1>2, <3>3 DEF Advance
      <4>2. QED
        BY <1>1, <1>2, <2>1, <3>3, <4>1 DEF getFreespace
    <3>4. QED
      BY <1>2, <3>1, <3>2, <3>3
  <2>4. QED
    BY <1>1, <2>1, <2>3, SpaceBounds, SizeAssumption DEF getOccupyspace
<1>5. QED
  BY <1>3, <1>4

(* A read releases exactly the bytes it returns. *)
LEMMA ReadReleases ==
  ASSUME TypeOK, NEW request \in 0 .. MaxCount, read(request)
  PROVE  getOccupyspace' = getOccupyspace - Returned(request)
<1> DEFINE count == Returned(request)
<1>1. request \in Nat
  BY MaxCountAssumption
<1>2. /\ m_readPointer' = Advance(m_readPointer, count, m_writePointer > m_readPointer)
      /\ m_writePointer' = m_writePointer
      /\ Size \in Nat /\ m_readPointer \in 0 .. Size /\ m_writePointer \in 0 .. Size
      /\ m_isFull' <=> m_isFull /\ count = 0
  BY SizeAssumption DEF read, Returned, TypeOK, FullAfterRead
<1>3. count \in 0 .. getOccupyspace
  BY <1>1, SpaceBounds DEF Returned
<1>4. CASE count = 0
  BY <1>2, <1>4, SpaceBounds DEF Advance, getOccupyspace, getFreespace
<1>5. CASE count > 0
  <2>1. ~m_isFull'
    BY <1>2, <1>5
  <2>2. QED
    BY <1>2, <1>3, <1>5, <2>1, SpaceBounds DEF Advance, getOccupyspace, getFreespace
<1>6. QED
  BY <1>3, <1>4, <1>5, SpaceBounds

(* The flag and the pointers never disagree. *)
THEOREM QueueFullFlag == Spec => []FullFlagTruthful
<1>1. Init => FullFlagTruthful
  BY SizeAssumption DEF Init, FullFlagTruthful, getOccupyspace, getFreespace
<1>2. TypeOK /\ FullFlagTruthful /\ [Next]_vars => FullFlagTruthful'
  <2> SUFFICES ASSUME TypeOK, FullFlagTruthful, [Next]_vars, Size > 0
               PROVE  (m_isFull <=> getOccupyspace = Size)'
    BY DEF FullFlagTruthful
  <2>1. ASSUME NEW buffer \in Buffers, write(buffer)
        PROVE  (m_isFull <=> getOccupyspace = Size)'
    <3>1. getOccupyspace' = getOccupyspace + Accepted(buffer)
      BY <2>1, WriteOccupies
    <3>2. m_isFull' <=> (Len(buffer) >= getFreespace \/ m_isFull)
      BY <2>1 DEF write
    <3>3. QED
      BY <3>1, <3>2, SpaceBounds, BufferIsSeq DEF Accepted, FullFlagTruthful
  <2>2. ASSUME NEW request \in 0 .. MaxCount, read(request)
        PROVE  (m_isFull <=> getOccupyspace = Size)'
    <3>1. getOccupyspace' = getOccupyspace - Returned(request)
      BY <2>2, ReadReleases
    <3>2. m_isFull' <=> m_isFull /\ Returned(request) = 0
      BY <2>2 DEF read, FullAfterRead, Returned
    <3>3. QED
      BY <3>1, <3>2, SpaceBounds, MaxCountAssumption DEF Returned, FullFlagTruthful
  <2>3. CASE UNCHANGED vars
    BY <2>3 DEF vars, FullFlagTruthful, getOccupyspace, getFreespace
  <2>4. QED
    BY <2>1, <2>2, <2>3 DEF Next
<1>3. QED
  BY <1>1, <1>2, QueueTypeCorrect, PTL DEF Spec
-----------------------------------------------------------------------------
(* The free places start where the stored bytes end, although the two are  *)
(* counted from different pointers.                                        *)
LEMMA FreeAfterContent ==
  ASSUME TypeOK, NEW k \in 1 .. getFreespace
  PROVE  Slot(m_writePointer, k) = Slot(m_readPointer, getOccupyspace + k)
BY SizeAssumption DEF TypeOK, Slot, getOccupyspace, getFreespace

(* What is left after a read starts where the bytes read ended.            *)
LEMMA RestAfterRead ==
  ASSUME TypeOK, NEW request \in 0 .. MaxCount, read(request),
         NEW i \in 1 .. getOccupyspace - Returned(request)
  PROVE  Slot(m_readPointer', i) = Slot(m_readPointer, Returned(request) + i)
<1> DEFINE count == Returned(request)
<1>1. count \in 0 .. getOccupyspace /\ getOccupyspace \in 0 .. Size
  BY SpaceBounds, MaxCountAssumption DEF Returned
<1>2. /\ m_readPointer' = Advance(m_readPointer, count, m_writePointer > m_readPointer)
      /\ m_readPointer \in 0 .. Size /\ m_writePointer \in 0 .. Size /\ Size \in Nat
  BY SizeAssumption DEF read, Returned, TypeOK
<1>3. CASE m_writePointer > m_readPointer
  <2>1. m_readPointer' = m_readPointer + count
    BY <1>2, <1>3 DEF Advance
  <2>2. QED
    BY <1>1, <1>2, <1>3, <2>1 DEF Slot
<1>4. CASE ~(m_writePointer > m_readPointer)
  <2>1. m_readPointer' = IF count <= Size - m_readPointer
                         THEN m_readPointer + count
                         ELSE count - (Size - m_readPointer)
    BY <1>2, <1>4 DEF Advance
  <2>2. QED
    BY <1>1, <1>2, <2>1 DEF Slot
<1>5. QED
  BY <1>3, <1>4

(* The content is a sequence of bytes as long as the occupied space.       *)
LEMMA ContentIsSeq ==
  ASSUME TypeOK
  PROVE  /\ Content \in Seq(Byte)
         /\ Len(Content) = getOccupyspace
         /\ Content \in [1 .. getOccupyspace -> Byte]
<1>1. ASSUME NEW i \in 1 .. getOccupyspace
      PROVE  m_queue[Slot(m_readPointer, i)] \in Byte
  <2>1. Slot(m_readPointer, i) \in Cells
    BY SpaceBounds, SlotIsCell, SizeAssumption DEF TypeOK
  <2>2. QED
    BY <2>1 DEF TypeOK
<1>2. Content \in [1 .. getOccupyspace -> Byte]
  BY <1>1 DEF Content
<1>3. QED
  BY <1>2, SpaceBounds DEF Content

(* A sequence that begins as s and goes on as t is their concatenation. *)
LEMMA ConcatenationIs ==
  ASSUME NEW S, NEW s \in Seq(S), NEW t \in Seq(S), NEW u \in Seq(S),
         Len(u) = Len(s) + Len(t),
         \A i \in 1 .. Len(s) : u[i] = s[i],
         \A j \in 1 .. Len(t) : u[Len(s) + j] = t[j]
  PROVE  u = s \o t
<1>1. Len(s) \in Nat /\ Len(t) \in Nat
  OBVIOUS
<1>2. ASSUME NEW i \in 1 .. Len(s) + Len(t)
      PROVE  u[i] = IF i <= Len(s) THEN s[i] ELSE t[i - Len(s)]
  <2>1. CASE i <= Len(s)
    BY <1>1, <2>1
  <2>2. CASE i > Len(s)
    <3>1. PICK j : j = i - Len(s)
      OBVIOUS
    <3>2. j \in 1 .. Len(t) /\ Len(s) + j = i /\ ~(i <= Len(s))
      BY <1>1, <2>2, <3>1
    <3>3. u[i] = t[j]
      BY <3>2
    <3>4. QED
      BY <3>1, <3>2, <3>3
  <2>3. QED
    BY <1>1, <2>1, <2>2
<1>3. /\ s \o t \in Seq(S)
      /\ Len(s \o t) = Len(s) + Len(t)
      /\ \A i \in 1 .. Len(s) + Len(t) : (s \o t)[i] =
              IF i <= Len(s) THEN s[i] ELSE t[i - Len(s)]
  BY ConcatProperties, Zenon
<1>4. QED
  <2>1. \A i \in 1 .. Len(u) : u[i] = (s \o t)[i]
    BY <1>2, <1>3, Zenon
  <2>2. QED
    BY <1>3, <2>1, SeqEqual, Zenon

(* A write appends to the content what it accepts. *)
LEMMA WriteRefines ==
  ASSUME TypeOK, NEW buffer \in Buffers, write(buffer)
  PROVE  Fifo!Put(buffer)
<1> DEFINE n == getOccupyspace
           count == Accepted(buffer)
<1>1. /\ buffer \in Seq(Byte)
      /\ Len(buffer) \in Nat
      /\ buffer \in [1 .. Len(buffer) -> Byte]
  BY BufferIsSeq
<1>2. /\ getFreespace \in 0 .. Size /\ n \in 0 .. Size /\ getFreespace + n = Size
      /\ m_readPointer \in 0 .. Size /\ m_writePointer \in 0 .. Size /\ Size \in Nat
  BY SpaceBounds, SizeAssumption DEF TypeOK
<1>3. count \in 0 .. getFreespace /\ count <= Len(buffer) /\ count \in Nat
  BY <1>1, <1>2 DEF Accepted
<1>4. n' = n + count
  BY WriteOccupies
<1>5. /\ m_queue' = [i \in Cells |-> Stored(buffer, count, i)]
      /\ reply' = SubSeq(buffer, 1, count)
      /\ m_readPointer' = m_readPointer
  BY DEF write, Accepted
<1>6. reply' \in Seq(Byte) /\ Len(reply') = count
      /\ \A k \in 1 .. count : reply'[k] = buffer[k]
  BY <1>1, <1>3, <1>5
<1>7. ASSUME NEW i \in 1 .. n
      PROVE  m_queue'[Slot(m_readPointer, i)] = m_queue[Slot(m_readPointer, i)]
  <2>1. Slot(m_readPointer, i) \in Cells
    BY <1>2, SlotIsCell
  <2>2. ASSUME NEW k \in 1 .. count, Slot(m_writePointer, k) = Slot(m_readPointer, i)
        PROVE  FALSE
    <3>1. Slot(m_readPointer, n + k) = Slot(m_readPointer, i)
      BY <1>2, <1>3, <2>2, FreeAfterContent
    <3>2. n + k \in 1 .. Size /\ i \in 1 .. Size
      BY <1>2, <1>3
    <3>3. n + k = i
      BY <1>2, <3>1, <3>2, SlotInjective
    <3>4. QED
      BY <1>2, <1>3, <3>3
  <2>3. Stored(buffer, count, Slot(m_readPointer, i)) = m_queue[Slot(m_readPointer, i)]
    BY <2>2 DEF Stored
  <2>4. QED
    BY <1>5, <2>1, <2>3
<1>8. ASSUME NEW k \in 1 .. count
      PROVE  m_queue'[Slot(m_readPointer, n + k)] = buffer[k]
  <2>1. /\ Slot(m_writePointer, k) = Slot(m_readPointer, n + k)
        /\ Slot(m_writePointer, k) \in Cells
    BY <1>2, <1>3, FreeAfterContent, SlotIsCell
  <2>2. ASSUME NEW j \in 1 .. count, Slot(m_writePointer, j) = Slot(m_writePointer, k)
        PROVE  j = k
    BY <1>2, <1>3, <2>2, SlotInjective
  <2>3. Stored(buffer, count, Slot(m_writePointer, k)) = buffer[k]
    BY <2>2 DEF Stored
  <2>4. QED
    BY <1>5, <2>1, <2>3
<1>9. Content' = Content \o reply'
  <2>1. Content' = [i \in 1 .. n + count |-> m_queue'[Slot(m_readPointer, i)]]
    BY <1>4, <1>5 DEF Content
  <2>2. /\ Content \in Seq(Byte) /\ Len(Content) = n
        /\ \A i \in 1 .. n : Content[i] = m_queue[Slot(m_readPointer, i)]
    BY ContentIsSeq DEF Content
  <2>3. Content' \in Seq(Byte) /\ Len(Content') = Len(Content) + Len(reply')
    <3>1. m_queue' \in [Cells -> Byte]
      BY WriteTyped DEF TypeOK, Cells
    <3>2. ASSUME NEW i \in 1 .. n + count
          PROVE  m_queue'[Slot(m_readPointer, i)] \in Byte
      <4>1. Slot(m_readPointer, i) \in Cells
        BY <1>2, <1>3, SlotIsCell
      <4>2. QED
        BY <3>1, <4>1
    <3>3. Content' \in [1 .. n + count -> Byte] /\ n + count \in Nat
      BY <1>2, <1>3, <2>1, <3>2
    <3>4. Content' \in Seq(Byte) /\ Len(Content') = n + count
      BY <3>3
    <3>5. QED
      BY <1>6, <2>2, <3>4
  <2>4. ASSUME NEW i \in 1 .. Len(Content)
        PROVE  Content'[i] = Content[i]
    <3>1. i \in 1 .. n + count
      BY <1>2, <1>3, <2>2
    <3>2. QED
      BY <1>7, <2>1, <2>2, <3>1
  <2>5. ASSUME NEW k \in 1 .. Len(reply')
        PROVE  Content'[Len(Content) + k] = reply'[k]
    <3>1. n + k \in 1 .. n + count /\ k \in 1 .. count
      BY <1>2, <1>3, <1>6
    <3>2. QED
      BY <1>6, <1>8, <2>1, <2>2, <3>1
  <2>6. Content \in Seq(Byte) /\ reply' \in Seq(Byte)
    BY <1>6, <2>2
  <2>7. QED
    BY <2>3, <2>4, <2>5, <2>6, ConcatenationIs, Zenon
<1>10. Fifo!Smaller(Len(buffer), Size - Len(Content)) = count
  BY <1>1, <1>2, ContentIsSeq DEF Fifo!Smaller, Accepted
<1>11. QED
  BY <1>5, <1>9, <1>10 DEF Fifo!Put

(* A read takes from the head of the content what it returns. *)
LEMMA ReadRefines ==
  ASSUME TypeOK, NEW request \in 0 .. MaxCount, read(request)
  PROVE  Fifo!Get(request)
<1> DEFINE n == getOccupyspace
           count == Returned(request)
<1>1. /\ n \in 0 .. Size /\ count \in 0 .. n /\ request \in Nat
      /\ m_readPointer \in 0 .. Size /\ Size \in Nat
  BY SpaceBounds, SizeAssumption, MaxCountAssumption DEF Returned, TypeOK
<1>2. n' = n - count
  BY ReadReleases
<1>3. /\ reply' = [k \in 1 .. count |-> m_queue[Slot(m_readPointer, k)]]
      /\ m_queue' = m_queue
  BY DEF read, Returned
<1>4. /\ Content \in Seq(Byte) /\ Len(Content) = n
      /\ Content \in [1 .. n -> Byte]
      /\ \A i \in 1 .. n : Content[i] = m_queue[Slot(m_readPointer, i)]
  BY ContentIsSeq DEF Content
<1>5. reply' = SubSeq(Content, 1, count)
  <2>1. SubSeq(Content, 1, count) = [k \in 1 .. count |-> Content[k]]
    BY <1>1, <1>4
  <2>2. QED
    BY <1>1, <1>3, <1>4, <2>1
<1>6. Content' = SubSeq(Content, count + 1, n)
  <2>1. SubSeq(Content, count + 1, n) = [i \in 1 .. n - count |-> Content[count + i]]
    BY <1>1, <1>4
  <2>2. Content' = [i \in 1 .. n - count |-> m_queue[Slot(m_readPointer', i)]]
    BY <1>2, <1>3 DEF Content
  <2>3. ASSUME NEW i \in 1 .. n - count
        PROVE  m_queue[Slot(m_readPointer', i)] = Content[count + i]
    <3>1. Slot(m_readPointer', i) = Slot(m_readPointer, count + i)
      BY RestAfterRead
    <3>2. count + i \in 1 .. n
      BY <1>1
    <3>3. QED
      BY <1>4, <3>1, <3>2
  <2>4. QED
    BY <2>1, <2>2, <2>3
<1>7. Fifo!Smaller(request, Len(Content)) = count
  BY <1>1, <1>4 DEF Fifo!Smaller, Returned
<1>8. QED
  BY <1>4, <1>5, <1>6, <1>7 DEF Fifo!Get

(* cQueueFifo is a bounded FIFO: each call of its interface is a call of   *)
(* the abstract queue with the same result.                                *)
THEOREM QueueIsFifo == Spec => ImplementsFifo
<1>1. Init => Fifo!Init
  <2> SUFFICES ASSUME Init PROVE Fifo!Init
    OBVIOUS
  <2>1. getOccupyspace = 0
    BY SizeAssumption DEF Init, getOccupyspace, getFreespace
  <2>2. Content = <<>>
    BY <2>1 DEF Content
  <2>3. QED
    BY <2>2 DEF Init, Fifo!Init
<1>2. TypeOK /\ [Next]_vars => [Fifo!Next]_(Fifo!vars)
  <2> SUFFICES ASSUME TypeOK, [Next]_vars PROVE [Fifo!Next]_(Fifo!vars)
    OBVIOUS
  <2>1. ASSUME NEW buffer \in Buffers, write(buffer) PROVE Fifo!Next
    BY <2>1, WriteRefines DEF Fifo!Next, Fifo!Buffers, Buffers
  <2>2. ASSUME NEW request \in 0 .. MaxCount, read(request) PROVE Fifo!Next
    BY <2>2, ReadRefines DEF Fifo!Next
  <2>3. CASE UNCHANGED vars
    BY <2>3 DEF vars, Fifo!vars, Content, getOccupyspace, getFreespace
  <2>4. QED
    BY <2>1, <2>2, <2>3 DEF Next
<1>3. QED
  BY <1>1, <1>2, QueueTypeCorrect, PTL DEF Spec, ImplementsFifo, Fifo!Spec
=============================================================================
