---------------------------- MODULE MemoryProofs -----------------------------
(***************************************************************************)
(* Streams over memory are memory streams that keep to their buffer,       *)
(* wherever it lies, whatever its virtual name, and however many streams   *)
(* are forked, seek, read and write.                                       *)
(***************************************************************************)
EXTENDS MemoryAccess, SequenceTheorems, TLAPS

(* A piece of a sequence. *)
LEMMA Piece ==
  ASSUME NEW S, NEW s \in Seq(S), NEW m \in Nat \ {0}, NEW n \in Int, n <= Len(s)
  PROVE  /\ SubSeq(s, m, n) \in Seq(S)
         /\ Len(SubSeq(s, m, n)) = IF m <= n THEN n - m + 1 ELSE 0
         /\ \A i \in 1 .. n - m + 1 : SubSeq(s, m, n)[i] = s[m + i - 1]
<1>1. \A i \in m .. n : s[i] \in S
  BY LenProperties
<1> QED BY <1>1, SubSeqProperties

(* What the buffer holds is the twin's data, nothing outside of it was      *)
(* written but the byte behind it (BufferKept); every stream is in its      *)
(* region, and the k-th region ends no further behind the buffer's start    *)
(* than k buffers with a byte each, which addresses reach without overflow  *)
(* (StreamsPlaced); and what was read last, or written as a number, is what *)
(* the memory holds (BytesShown).                                           *)
Regions == [m_startAddress : Nat, m_endAddress : Nat, m_filePosition : Nat, m_ignoreFragments : BOOLEAN]
VirtualBase == accesser.m_virtualBase

BufferKept ==
  /\ memory \in [0 .. AddressRange - 1 -> Value]
  /\ twin = [data |-> twin.data, at |-> twin.at]
  /\ twin.data \in Seq(Value) /\ Len(twin.data) = BufferSize /\ overran \in BOOLEAN
  /\ \A k \in 1 .. BufferSize : twin.data[k] = memory[BufferAt + k - 1]
  /\ \A a \in 0 .. AddressRange - 1 :
       a \notin BufferAt .. BufferAt + BufferSize - 1 /\ memory[a] # zero
         => a = BufferAt + BufferSize /\ overran
InRegion(stream, k) ==
  /\ VirtualBase <= stream.m_startAddress /\ stream.m_startAddress <= stream.m_filePosition
  /\ stream.m_filePosition <= stream.m_endAddress
  /\ stream.m_endAddress <= VirtualBase + k * (BufferSize + 1)
StreamsPlaced ==
  /\ accesser \in [m_virtualBase : Bases, wide : BOOLEAN]
  /\ streams \in Seq(Regions) /\ Len(streams) \in 1 .. MaxStreams
  /\ \A s \in 1 .. Len(streams) : InRegion(streams[s], s)
  /\ streams[1].m_startAddress = VirtualBase /\ streams[1].m_endAddress = VirtualBase + BufferSize
  /\ twin.at \in 0 .. BufferSize /\ streams[1].m_filePosition = VirtualBase + twin.at
BytesShown ==
  /\ SubSeq(buffer.bytes, 1, buffer.count)
       = memread(streams[buffer.stream].m_filePosition - buffer.count, buffer.count)
  /\ number # NoNumber => readUint(number.address) = SubSeq(number.bytes, 1, UintBytes)
MemoryInv == BufferKept /\ StreamsPlaced /\ BytesShown

(* An address is checked, and so is the last one of a request.              *)
LEMMA Checked ==
  ASSUME MemoryConstants, NEW virtual \in Bases, virtual = VirtualBase, accesser.wide \in BOOLEAN,
         NEW address \in 0 .. AddressRange - 1, NEW length \in Nat \ {0},
         virtual + BufferSize + length < AddressRange, BufferAt + BufferSize + length < AddressRange
  PROVE  /\ (~Throws(address, length) /\ ~(accesser.wide /\ address - virtual + BufferAt >= AddressRange))
              <=> (address >= virtual /\ address - virtual + length <= BufferSize + 1)
         /\ address >= virtual /\ address - virtual <= BufferSize
              => Physical(address) = BufferAt + (address - virtual)
<1>1. PICK R, at, n \in Nat : R = AddressRange /\ at = BufferAt /\ n = BufferSize
  BY DEF MemoryConstants
<1>2. PICK wide \in BOOLEAN : wide = accesser.wide
  OBVIOUS
<1>3. virtual \in Nat /\ length \in Nat /\ length > 0 /\ address \in Nat /\ address < R
      /\ virtual + n + length < R /\ at + n + length < R
  BY <1>1 DEF MemoryConstants
<1>4. ASSUME NEW a \in Nat, a < R
      PROVE  /\ a >= virtual /\ a - virtual <= n => Physical(a) = at + (a - virtual)
             /\ ~getAddressThrows(a) /\ ~(wide /\ a - virtual + at >= R)
                  <=> a >= virtual /\ a - virtual <= n
  <2>1. PICK sum \in Int : sum = a - virtual + at
    BY <1>3
  <2>2. Physical(a) = sum % R
    BY <1>1, <2>1 DEF Physical, m_startAddress, VirtualBase
  <2>3. getAddressThrows(a) <=>
          a < virtual \/ (IF wide THEN sum % R ELSE sum) >= R - 1 \/ sum % R > at + n
    BY <1>1, <1>2, <2>1, <2>2 DEF getAddressThrows, m_startAddress, m_endAddress, VirtualBase
  <2>4. sum >= 0 /\ sum < R => sum % R = sum
    BY <1>3, <2>1
  <2>5. sum % R \in Int /\ sum % R >= 0 /\ sum % R < R
    BY <1>3, <2>1
  <2>6. a >= virtual /\ a - virtual <= n => sum >= 0 /\ sum < R - 1 /\ sum <= at + n
    BY <1>3, <2>1
  <2>7. a >= virtual => sum >= 0
    BY <1>3, <2>1
  <2>8. sum <= at + n => a - virtual <= n
    BY <1>3, <2>1
  <2> QED BY <1>3, <2>1, <2>2, <2>3, <2>4, <2>5, <2>6, <2>7, <2>8
<1>5. PICK last : last = (address + length - 1) % R
  OBVIOUS
<1>6. Throws(address, length) <=> getAddressThrows(last) \/ getAddressThrows(address)
  BY <1>1, <1>3, <1>5 DEF Throws
<1>7. CASE address >= virtual /\ address - virtual <= n
  <2>1. last = address + length - 1 /\ last \in Nat /\ last < R /\ last >= virtual
    <3>1. address + length - 1 \in Nat /\ address + length - 1 < R
      BY <1>3, <1>7
    <3> QED BY <1>3, <1>5, <1>7, <3>1
  <2>2. ~(wide /\ last - virtual + at >= R)
    BY <1>3, <1>7, <2>1
  <2>3. ~getAddressThrows(last) <=> last - virtual <= n
    BY <1>4, <2>1, <2>2
  <2>4. ~(wide /\ address - virtual + at >= R) /\ ~getAddressThrows(address)
    BY <1>3, <1>4, <1>7
  <2>5. last - virtual <= n <=> address - virtual + length <= n + 1
    BY <1>3, <2>1
  <2> QED BY <1>1, <1>2, <1>3, <1>4, <1>6, <1>7, <2>3, <2>4, <2>5
<1>8. CASE ~(address >= virtual /\ address - virtual <= n)
  <2>1. getAddressThrows(address) \/ (wide /\ address - virtual + at >= R)
    BY <1>3, <1>4, <1>8
  <2>2. ~(address >= virtual /\ address - virtual + length <= n + 1)
    BY <1>3, <1>8
  <2> QED BY <1>1, <1>2, <1>6, <1>8, <2>1, <2>2
<1> QED BY <1>7, <1>8

(* AddressesChecked, of what is in place.                                   *)
LEMMA AddressesAreChecked == ASSUME MemoryConstants, StreamsPlaced PROVE AddressesChecked
<1> SUFFICES ASSUME NEW address \in 0 .. AddressRange - 1, NEW length \in 1 .. MaxRequest
    PROVE  /\ address - accesser.m_virtualBase >= 0
                /\ address - accesser.m_virtualBase + length <= BufferSize
                  => ~Throws(address, length)
           /\ ~Throws(address, length)
                /\ ~(accesser.wide /\ address - accesser.m_virtualBase + m_startAddress >= AddressRange)
                  => /\ address - accesser.m_virtualBase >= 0
                     /\ address - accesser.m_virtualBase + length <= BufferSize + 1
  BY DEF AddressesChecked
<1>1. PICK virtual \in Bases : virtual = VirtualBase
  BY DEF StreamsPlaced, VirtualBase
<1>2. accesser.wide \in BOOLEAN
  BY DEF StreamsPlaced
<1>3. PICK R, at, n, m, v \in Nat : R = AddressRange /\ at = BufferAt /\ n = BufferSize /\ m = MaxRequest /\ v = virtual
  BY DEF MemoryConstants
<1>4. v + n + m < R /\ at + n + m < R
  BY <1>3 DEF MemoryConstants
<1>5. length \in Nat \ {0} /\ virtual + BufferSize + length < AddressRange /\ BufferAt + BufferSize + length < AddressRange
  BY <1>3, <1>4
<1>6. (~Throws(address, length) /\ ~(accesser.wide /\ address - virtual + BufferAt >= AddressRange))
        <=> (address >= virtual /\ address - virtual + length <= BufferSize + 1)
  BY <1>1, <1>2, <1>5, Checked
<1>7. /\ address >= virtual <=> address - virtual >= 0
      /\ address - virtual + length <= BufferSize => address - virtual + length <= BufferSize + 1
  BY <1>3, <1>5
<1> QED BY <1>1, <1>6, <1>7 DEF VirtualBase, m_startAddress

(* A write of bytes that end in the buffer, or one byte behind it, does to  *)
(* the memory what a write to a memory stream of fixed size does to it.     *)
LEMMA TwinFollows ==
  ASSUME MemoryConstants, StreamsPlaced, BufferKept, NEW address \in Nat, NEW bytes \in Seq(Value), NEW place,
         bytes # <<>>, address >= VirtualBase, address - VirtualBase + Len(bytes) <= BufferSize + 1,
         memory' = Written(address, bytes), Follows(address, bytes, place)
  PROVE  /\ BufferKept' /\ twin'.at = place
         /\ \A j \in 1 .. Len(bytes) :
              /\ Physical(address) + j - 1 \in 0 .. AddressRange - 1
              /\ memory'[Physical(address) + j - 1] = bytes[j]
<1>1. PICK R, B, n, virtual, k :
        R = AddressRange /\ B = BufferAt /\ n = BufferSize /\ virtual = VirtualBase /\ k = Len(bytes)
  OBVIOUS
<1>2. R \in Nat /\ B \in Nat /\ n \in Nat /\ virtual \in Nat /\ virtual \in Bases /\ k \in Nat /\ k > 0
  <2>1. virtual \in Bases
    BY <1>1 DEF StreamsPlaced, VirtualBase
  <2>2. k \in Nat /\ k # 0
    BY <1>1, LenProperties, EmptySeq
  <2> QED BY <1>1, <2>1, <2>2 DEF MemoryConstants
<1>3. PICK at : at = address - virtual
  OBVIOUS
<1>4. at \in 0 .. n /\ at + k <= n + 1
  BY <1>1, <1>2, <1>3
<1>5. B + n + 1 < R /\ virtual + n + 1 < R
  <2>1. PICK m \in Nat : m = MachineBytes /\ m >= 1
    BY DEF MemoryConstants
  <2>2. virtual + n + m < R /\ B + n + m < R
    BY <1>1, <1>2, <2>1 DEF MemoryConstants
  <2> QED BY <1>2, <2>1, <2>2
<1>6. PICK from : from = Physical(address)
  OBVIOUS
<1>7. from = B + at /\ from \in Int
  <2>1. address - virtual + B = B + at /\ B + at >= 0 /\ B + at < R /\ B + at \in Int
    BY <1>2, <1>3, <1>4, <1>5
  <2>2. (B + at) % R = B + at
    BY <1>2, <2>1
  <2> QED BY <1>1, <1>6, <2>1, <2>2 DEF Physical, m_startAddress, VirtualBase
<1>8. PICK d : d = twin.data /\ d \in Seq(Value) /\ Len(d) = n
  BY <1>1 DEF BufferKept
<1>9. PICK new, t, over : new = memory' /\ t = twin' /\ over = overran'
  OBVIOUS
<1>10. new = [a \in 0 .. R - 1 |-> IF a \in from .. from + k - 1 THEN bytes[a - from + 1] ELSE memory[a]]
  BY <1>1, <1>6, <1>9 DEF Written, BufferKept
<1>33. \A a \in 0 .. R - 1 : a \in from .. from + k - 1 => new[a] = bytes[a - from + 1]
  BY <1>10
<1>34. \A a \in 0 .. R - 1 : a \notin from .. from + k - 1 => new[a] = memory[a]
  BY <1>10
<1>11. PICK c : c = (IF k < n - at THEN k ELSE n - at)
  OBVIOUS
<1>12. PICK fits, after : fits = SubSeq(bytes, 1, c) /\ after = at + Len(fits)
  OBVIOUS
<1>13. PICK m, x, y : m = after + 1 /\ x = SubSeq(d, 1, at) /\ y = SubSeq(d, m, n)
  OBVIOUS
<1>14. PICK z : z = x \o fits
  OBVIOUS
<1>21. PICK w : w = z \o y
  OBVIOUS
<1>15. t = [data |-> w, at |-> place] /\ over = (overran \/ at + k > n)
  <2>1. Accepted([data |-> d, at |-> at], bytes, TRUE) = c
    BY <1>1, <1>8, <1>11 DEF Accepted, Least
  <2>2. AfterWrite([data |-> d, at |-> at], bytes, TRUE).data = w
    BY <1>8, <1>12, <1>13, <1>14, <1>21, <2>1 DEF AfterWrite
  <2> QED BY <1>1, <1>3, <1>8, <1>9, <2>2 DEF Follows, VirtualBase
<1>16. c \in 0 .. k /\ at + c <= n /\ c \in Int /\ at \in Int
  BY <1>2, <1>4, <1>11
<1>17. fits \in Seq(Value) /\ Len(fits) = c /\ \A i \in 1 .. c : fits[i] = bytes[i]
  <2>1. /\ fits \in Seq(Value) /\ Len(fits) = IF 1 <= c THEN c - 1 + 1 ELSE 0
        /\ \A i \in 1 .. c - 1 + 1 : fits[i] = bytes[1 + i - 1]
    BY <1>1, <1>12, <1>16, Piece
  <2> QED BY <1>16, <2>1
<1>18. x \in Seq(Value) /\ Len(x) = at /\ \A i \in 1 .. at : x[i] = d[i]
  <2>1. /\ x \in Seq(Value) /\ Len(x) = IF 1 <= at THEN at - 1 + 1 ELSE 0
        /\ \A i \in 1 .. at - 1 + 1 : x[i] = d[1 + i - 1]
    BY <1>4, <1>8, <1>13, <1>16, Piece
  <2> QED BY <1>4, <2>1
<1>19. after = at + c /\ m = at + c + 1 /\ m \in Nat \ {0} /\ n \in Int
  BY <1>2, <1>4, <1>12, <1>13, <1>16, <1>17
<1>20. /\ y \in Seq(Value) /\ Len(y) = n - at - c
       /\ \A i \in 1 .. n - at - c : y[i] = d[at + c + i]
  <2>1. /\ y \in Seq(Value) /\ Len(y) = IF m <= n THEN n - m + 1 ELSE 0
        /\ \A i \in 1 .. n - m + 1 : y[i] = d[m + i - 1]
    <3>1. d \in Seq(Value) /\ n <= Len(d)
      BY <1>8, <1>19
    <3>2. y = SubSeq(d, m, n)
      BY <1>8, <1>13
    <3>3. /\ SubSeq(d, m, n) \in Seq(Value) /\ Len(SubSeq(d, m, n)) = IF m <= n THEN n - m + 1 ELSE 0
          /\ \A i \in 1 .. n - m + 1 : SubSeq(d, m, n)[i] = d[m + i - 1]
      BY <1>19, <3>1, Piece
    <3> QED BY <3>2, <3>3, Zenon
  <2>2. Len(y) = n - at - c
    BY <1>2, <1>4, <1>16, <1>19, <2>1
  <2>3. ASSUME NEW i \in 1 .. n - at - c PROVE y[i] = d[at + c + i]
    <3>1. i \in 1 .. n - m + 1 /\ m + i - 1 = at + c + i
      BY <1>2, <1>16, <1>19
    <3> QED BY <2>1, <3>1
  <2> QED BY <2>1, <2>2, <2>3
<1>22. /\ z \in Seq(Value) /\ Len(z) = at + c
       /\ \A i \in 1 .. at + c : z[i] = IF i <= at THEN x[i] ELSE fits[i - at]
  <2>1. /\ z \in Seq(Value) /\ Len(z) = Len(x) + Len(fits)
        /\ \A i \in 1 .. Len(x) + Len(fits) : z[i] = IF i <= Len(x) THEN x[i] ELSE fits[i - Len(x)]
    BY <1>17, <1>18, <1>14, ConcatProperties
  <2> QED BY <1>17, <1>18, <2>1
<1>23. /\ w \in Seq(Value) /\ Len(w) = n
       /\ \A i \in 1 .. n : w[i] = IF i <= at + c THEN z[i] ELSE y[i - (at + c)]
  <2>1. /\ w \in Seq(Value) /\ Len(w) = Len(z) + Len(y)
        /\ \A i \in 1 .. Len(z) + Len(y) : w[i] = IF i <= Len(z) THEN z[i] ELSE y[i - Len(z)]
    BY <1>20, <1>21, <1>22, ConcatProperties
  <2>2. Len(z) + Len(y) = n
    BY <1>2, <1>16, <1>20, <1>22
  <2> QED BY <1>22, <2>1, <2>2
<1>24. ASSUME NEW i \in 1 .. n
       PROVE  w[i] = IF i > at /\ i <= at + k THEN bytes[i - at] ELSE d[i]
  <2>1. CASE i <= at
    BY <1>18, <1>22, <1>23, <1>16, <2>1
  <2>2. CASE i > at /\ i <= at + c
    <3>1. i - at \in 1 .. c /\ i <= at + k /\ i \in 1 .. at + c /\ ~(i <= at)
      BY <1>2, <1>16, <2>2
    <3> QED BY <1>17, <1>22, <1>23, <2>2, <3>1
  <2>3. CASE i > at + c
    <3>1. i - (at + c) \in 1 .. n - at - c /\ at + c + (i - (at + c)) = i /\ ~(i <= at + c)
      BY <1>2, <1>16, <2>3
    <3>2. w[i] = d[i]
      BY <1>20, <1>23, <3>1
    <3>3. ~(i <= at + k)
      BY <1>2, <1>11, <1>16, <2>3
    <3> QED BY <3>2, <3>3
  <2> QED BY <1>16, <2>1, <2>2, <2>3
<1>25. ASSUME NEW i \in 1 .. n PROVE w[i] = new[B + i - 1]
  <2>1. B + i - 1 \in 0 .. R - 1 /\ i \in Int
    BY <1>2, <1>5
  <2>4. d[i] = memory[B + i - 1]
    BY <1>1, <1>8 DEF BufferKept
  <2>2. B + i - 1 \in from .. from + k - 1 <=> i > at /\ i <= at + k
    BY <1>2, <1>4, <1>7
  <2>3. B + i - 1 - from + 1 = i - at
    <3>1. B \in Int /\ at \in Int /\ from \in Int /\ from = B + at
      BY <1>2, <1>4, <1>7
    <3>2. B + i - 1 - (B + at) + 1 = i - at
      BY <2>1, <3>1
    <3>3. B + i - 1 - from + 1 = B + i - 1 - (B + at) + 1
      BY <1>7, Zenon
    <3> QED BY <3>2, <3>3, Zenon
  <2>8. PICK a : a = B + i - 1
    OBVIOUS
  <2>11. B \in Int /\ i \in Int /\ from \in Int
    BY <1>2, <1>7, <2>1
  <2>9. a \in 0 .. R - 1
    BY <2>1, <2>8, Zenon
  <2>10. /\ a \in from .. from + k - 1 => new[a] = bytes[a - from + 1]
         /\ a \notin from .. from + k - 1 => new[a] = memory[a]
    BY <1>33, <1>34, <2>9, Zenon
  <2>5. /\ B + i - 1 \in from .. from + k - 1 => new[B + i - 1] = bytes[B + i - 1 - from + 1]
        /\ B + i - 1 \notin from .. from + k - 1 => new[B + i - 1] = memory[B + i - 1]
    BY <2>8, <2>10, <2>11
  <2>6. bytes[B + i - 1 - from + 1] = bytes[i - at]
    BY <2>3, Zenon
  <2>7. w[i] = IF i > at /\ i <= at + k THEN bytes[i - at] ELSE memory[B + i - 1]
    BY <1>24, <2>4, Zenon
  <2> QED BY <2>2, <2>5, <2>6, <2>7, Zenon
<1>26. \A j \in 1 .. k : bytes[j] \in Value
  BY <1>1, LenProperties
<1>27. new \in [0 .. R - 1 -> Value]
  <2>1. ASSUME NEW a \in 0 .. R - 1
        PROVE  (IF a \in from .. from + k - 1 THEN bytes[a - from + 1] ELSE memory[a]) \in Value
    <3>1. a \in from .. from + k - 1 => a - from + 1 \in 1 .. k
      BY <1>2, <1>4, <1>7
    <3>2. memory[a] \in Value
      BY <1>1 DEF BufferKept
    <3> QED BY <1>26, <3>1, <3>2
  <2> QED BY <1>10, <2>1
<1>28. ASSUME NEW a \in 0 .. R - 1, a \notin B .. B + n - 1, new[a] # zero
       PROVE  a = B + n /\ over
  <2>1. CASE a \in from .. from + k - 1
    <3>1. a \in Int /\ B + at <= a /\ a <= B + at + k - 1
      BY <1>2, <1>4, <1>7, <2>1
    <3>2. ~(B <= a /\ a <= B + n - 1)
      BY <1>2, <1>28, <3>1
    <3>3. a = B + n /\ at + k > n
      BY <1>2, <1>4, <3>1, <3>2
    <3> QED BY <1>15, <3>3
  <2>2. CASE a \notin from .. from + k - 1
    <3>1. memory[a] # zero
      BY <1>10, <1>28, <2>2
    <3>2. a = B + n /\ overran
      BY <1>1, <1>28, <3>1 DEF BufferKept
    <3> QED BY <1>15, <3>2
  <2> QED BY <2>1, <2>2
<1>29. over \in BOOLEAN
  BY <1>15 DEF BufferKept
<1>30. t = [data |-> t.data, at |-> t.at] /\ t.data = w /\ t.at = place
  BY <1>15
<1>31. BufferKept'
  BY <1>1, <1>9, <1>23, <1>25, <1>27, <1>28, <1>29, <1>30 DEF BufferKept
<1>32. ASSUME NEW j \in 1 .. k
       PROVE  from + j - 1 \in 0 .. R - 1 /\ new[from + j - 1] = bytes[j]
  <2>1. from + j - 1 \in 0 .. R - 1 /\ from + j - 1 \in from .. from + k - 1 /\ from + j - 1 - from + 1 = j
    <3>1. j \in Int /\ 1 <= j /\ j <= k
      BY <1>2
    <3>2. (B + at) + j - 1 \in 0 .. R - 1
      BY <1>2, <1>4, <1>5, <3>1
    <3>5. from + j - 1 = (B + at) + j - 1
      BY <1>7, Zenon
    <3>6. from + j - 1 \in 0 .. R - 1
      BY <3>2, <3>5, Zenon
    <3>3. from + j - 1 \in from .. from + k - 1
      BY <1>2, <1>7, <3>1
    <3>4. from + j - 1 - from + 1 = j
      BY <1>7, <3>1
    <3> QED BY <3>3, <3>4, <3>6
  <2>4. PICK a : a = from + j - 1
    OBVIOUS
  <2>7. from \in Int /\ j \in Int
    BY <1>2, <1>7
  <2>5. a \in 0 .. R - 1 /\ a \in from .. from + k - 1
    BY <2>1, <2>4, Zenon
  <2>6. new[a] = bytes[a - from + 1]
    BY <1>33, <2>5, Zenon
  <2>2. new[from + j - 1] = bytes[from + j - 1 - from + 1]
    BY <2>4, <2>6, <2>7
  <2>3. bytes[from + j - 1 - from + 1] = bytes[j]
    BY <2>1, Zenon
  <2> QED BY <2>1, <2>2, <2>3, Zenon
<1> QED BY <1>1, <1>6, <1>9, <1>30, <1>31, <1>32

LEMMA Products ==
  ASSUME NEW i \in Nat, NEW j \in Nat, NEW m \in Nat, i <= j
  PROVE  i * m \in Nat /\ j * m \in Nat /\ i * m <= j * m /\ (j + 1) * m = j * m + m
<1>1. PICK d \in Nat : j = i + d
  BY j - i \in Nat /\ j = i + (j - i)
<1>2. j * m = i * m + d * m /\ (j + 1) * m = j * m + m /\ i * m \in Int /\ d * m \in Int
  BY <1>1
<1>3. d * m >= 0 /\ i * m >= 0
  OBVIOUS
<1> QED BY <1>2, <1>3

(* Where a stream is placed, all addresses are numbers that do not overflow *)
(* and a request does not either.                                           *)
LEMMA Reached ==
  ASSUME MemoryConstants, StreamsPlaced, NEW s \in 1 .. Len(streams), NEW x \in Nat,
         x >= VirtualBase, x <= streams[s].m_endAddress
  PROVE  /\ VirtualBase \in Bases /\ VirtualBase \in Nat
         /\ streams[s] \in Regions /\ InRegion(streams[s], s)
         /\ x < AddressRange /\ x - VirtualBase + BufferAt < AddressRange
<1>1. PICK R, B, n, m, k, v : R = AddressRange /\ B = BufferAt /\ n = BufferSize /\ m = MaxStreams
                              /\ k = Len(streams) /\ v = VirtualBase
  OBVIOUS
<1>2. /\ R \in Nat /\ B \in Nat /\ n \in Nat /\ m \in Nat /\ k \in Nat /\ v \in Nat /\ v \in Bases
      /\ s \in Nat /\ s <= m /\ n + 1 \in Nat
  <2>1. R \in Nat /\ B \in Nat /\ n \in Nat /\ m \in Nat
    BY <1>1 DEF MemoryConstants
  <2>2. v \in Bases /\ v \in Nat
    BY <1>1 DEF StreamsPlaced, VirtualBase, MemoryConstants
  <2>3. k \in Nat /\ k <= m
    BY <1>1, <2>1 DEF StreamsPlaced
  <2> QED BY <1>1, <2>1, <2>2, <2>3
<1>3. streams[s] \in Regions /\ InRegion(streams[s], s)
  BY <1>1, <1>2, LenProperties DEF StreamsPlaced
<1>4. PICK p, q \in Int : p = s * (n + 1) /\ q = m * (n + 1)
  BY <1>2
<1>5. p <= q
  BY <1>2, <1>4, Products
<1>6. v + q < R /\ B + q < R
  BY <1>1, <1>2, <1>4 DEF MemoryConstants
<1>7. streams[s].m_endAddress <= v + p /\ streams[s].m_endAddress \in Nat
  BY <1>1, <1>3, <1>4 DEF InRegion, Regions
<1> QED BY <1>1, <1>2, <1>3, <1>5, <1>6, <1>7

(* A stream that moves within its region, the first one with the twin.      *)
LEMMA StreamMoved ==
  ASSUME StreamsPlaced, NEW s \in 1 .. Len(streams), NEW p \in Nat,
         streams' = [streams EXCEPT ![s] = [streams[s] EXCEPT !.m_filePosition = p]],
         streams[s].m_startAddress <= p, p <= streams[s].m_endAddress, accesser' = accesser,
         s = 1 => p = VirtualBase + twin'.at /\ twin'.at \in 0 .. BufferSize, s # 1 => twin'.at = twin.at
  PROVE  StreamsPlaced'
<1>1. PICK old : old = streams[s]
  OBVIOUS
<1>2. old \in Regions /\ streams \in Seq(Regions)
  BY <1>1, LenProperties DEF StreamsPlaced
<1>3. PICK new : new = [old EXCEPT !.m_filePosition = p]
  OBVIOUS
<1>4. /\ new \in Regions /\ new.m_filePosition = p
      /\ new.m_startAddress = old.m_startAddress /\ new.m_endAddress = old.m_endAddress
  BY <1>2, <1>3 DEF Regions
<1>5. streams' = [streams EXCEPT ![s] = new]
  BY <1>1, <1>3
<1>6. PICK k \in Nat : k = Len(streams)
  BY <1>2, LenProperties
<1>7. streams' \in Seq(Regions) /\ Len(streams') = k
      /\ \A r \in 1 .. k : streams'[r] = IF r = s THEN new ELSE streams[r]
  <2>1. DOMAIN streams = 1 .. k
    BY <1>2, <1>6, LenProperties
  <2> QED BY <1>2, <1>4, <1>5, <1>6, <2>1, ExceptSeq, LenProperties
<1>8. VirtualBase' = VirtualBase
  BY DEF VirtualBase
<1>9. ASSUME NEW r \in 1 .. k PROVE InRegion(streams[r], r)'
  <2>1. InRegion(streams[r], r)
    BY <1>6 DEF StreamsPlaced
  <2>2. CASE r # s
    BY <1>7, <1>8, <2>1, <2>2 DEF InRegion
  <2>3. CASE r = s
    <3>1. old.m_startAddress \in Nat /\ old.m_endAddress \in Nat
      BY <1>2 DEF Regions
    <3>2. VirtualBase <= old.m_startAddress /\ old.m_endAddress <= VirtualBase + r * (BufferSize + 1)
      BY <1>1, <2>1, <2>3 DEF InRegion
    <3>3. streams'[r] = new
      BY <1>7, <2>3
    <3>4. old.m_startAddress <= p /\ p <= old.m_endAddress
      BY <1>1
    <3> QED BY <1>4, <1>8, <3>2, <3>3, <3>4 DEF InRegion
  <2> QED BY <2>2, <2>3
<1>10. 1 \in 1 .. k
  BY <1>6 DEF StreamsPlaced
<1>11. streams'[1].m_startAddress = VirtualBase /\ streams'[1].m_endAddress = VirtualBase + BufferSize
  BY <1>1, <1>4, <1>7, <1>10 DEF StreamsPlaced
<1>12. twin'.at \in 0 .. BufferSize /\ streams'[1].m_filePosition = VirtualBase + twin'.at
  BY <1>4, <1>7, <1>10 DEF StreamsPlaced
<1>13. (accesser \in [m_virtualBase : Bases, wide : BOOLEAN])' /\ k \in 1 .. MaxStreams
  BY <1>6 DEF StreamsPlaced
<1> QED BY <1>7, <1>8, <1>9, <1>11, <1>12, <1>13 DEF StreamsPlaced

(* A stream that is forked begins in the region of the other, or one byte   *)
(* behind it.                                                               *)
LEMMA StreamForked ==
  ASSUME MemoryConstants, StreamsPlaced, NEW s \in 1 .. Len(streams), NEW new \in Regions, streams' = Append(streams, new),
         Len(streams) < MaxStreams, accesser' = accesser, twin' = twin,
         streams[s].m_startAddress <= new.m_startAddress, new.m_startAddress <= new.m_filePosition,
         new.m_filePosition <= new.m_endAddress, new.m_endAddress <= streams[s].m_endAddress + (BufferSize + 1)
  PROVE  StreamsPlaced'
<1>1. PICK k, m, n : k = Len(streams) /\ n = BufferSize /\ m = MaxStreams
  OBVIOUS
<1>2. streams \in Seq(Regions) /\ k \in Nat /\ n \in Nat /\ m \in Nat /\ k >= 1 /\ k < m /\ s \in Nat /\ s <= k
      /\ k + 1 \in Nat /\ n + 1 \in Nat
  BY <1>1, LenProperties, SMTT(30) DEF StreamsPlaced, MemoryConstants
<1>3. streams' \in Seq(Regions) /\ Len(streams') = k + 1 /\ streams'[k + 1] = new
      /\ \A r \in 1 .. k : streams'[r] = streams[r]
  BY <1>1, <1>2, AppendProperties
<1>4. VirtualBase' = VirtualBase /\ VirtualBase \in Nat
  BY DEF VirtualBase, StreamsPlaced, MemoryConstants
<1>5. ASSUME NEW r \in 1 .. k PROVE InRegion(streams[r], r)'
  BY <1>1, <1>3, <1>4 DEF InRegion, StreamsPlaced
<1>6. InRegion(streams[k + 1], k + 1)'
  <2>1. InRegion(streams[s], s) /\ streams[s] \in Regions
    BY <1>1, <1>2, LenProperties DEF StreamsPlaced
  <2>2. PICK p, q \in Int : p = s * (n + 1) /\ q = k * (n + 1)
    BY <1>2
  <2>3. p <= q /\ (k + 1) * (n + 1) = q + (n + 1)
    BY <1>2, <2>2, Products
  <2>4. PICK v, a, b, c, d, e : /\ v = VirtualBase /\ a = streams[s].m_startAddress /\ b = streams[s].m_endAddress
                                /\ c = new.m_startAddress /\ d = new.m_filePosition /\ e = new.m_endAddress
    OBVIOUS
  <2>5. v \in Nat /\ a \in Nat /\ b \in Nat /\ c \in Nat /\ d \in Nat /\ e \in Nat
    BY <1>4, <2>1, <2>4 DEF Regions
  <2>6. v <= a /\ b <= v + p /\ a <= c /\ c <= d /\ d <= e /\ e <= b + (n + 1)
    BY <1>1, <2>1, <2>2, <2>4 DEF InRegion
  <2>7. v <= c /\ e <= v + (q + (n + 1))
    BY <1>2, <2>2, <2>3, <2>5, <2>6
  <2>8. e <= v + (k + 1) * (n + 1)
    BY <2>3, <2>7, Zenon
  <2> QED BY <1>1, <1>3, <1>4, <2>4, <2>6, <2>7, <2>8 DEF InRegion
<1>7. ASSUME NEW r \in 1 .. k + 1 PROVE InRegion(streams[r], r)'
  <2>1. r \in 1 .. k \/ r = k + 1
    BY <1>2
  <2> QED BY <1>5, <1>6, <2>1
<1>8. streams'[1] = streams[1]
  BY <1>2, <1>3
<1>9. (accesser \in [m_virtualBase : Bases, wide : BOOLEAN])' /\ k + 1 \in 1 .. MaxStreams
  BY <1>1, <1>2 DEF StreamsPlaced
<1> QED BY <1>3, <1>4, <1>7, <1>8, <1>9 DEF StreamsPlaced

(* When nothing was read nor written as a number, nothing is shown.         *)
LEMMA NoBytes == ASSUME NEW f, f = [k \in 1 .. 0 |-> f[k]] PROVE SubSeq(<<>>, 1, 0) = f
<1>1. SubSeq(<<>>, 1, 0) \in Seq({}) /\ Len(SubSeq(<<>>, 1, 0)) = 0
  BY <<>> \in Seq({}), Len(<<>>) = 0, Piece
<1>2. SubSeq(<<>>, 1, 0) = <<>>
  BY <1>1, EmptySeq
<1>3. f = <<>>
  BY 1 .. 0 = {}
<1> QED BY <1>2, <1>3

LEMMA NothingShown ==
  ASSUME buffer' = Nothing, number' = NoNumber
  PROVE  BytesShown'
<1>1. buffer'.bytes = <<>> /\ buffer'.count = 0
  BY DEF Nothing
<1>2. SubSeq(buffer'.bytes, 1, buffer'.count)
        = memread(streams[buffer.stream].m_filePosition - buffer.count, buffer.count)'
  BY <1>1, NoBytes DEF memread
<1> QED BY <1>2 DEF BytesShown

LEMMA MemoryStarts == ASSUME MemoryConstants, MemoryInit PROVE MemoryInv
<1>1. PICK n, v : n = BufferSize /\ v = VirtualBase
  OBVIOUS
<1>2. n \in Nat /\ v \in Bases /\ v \in Nat /\ accesser \in [m_virtualBase : Bases, wide : BOOLEAN]
  BY <1>1 DEF MemoryInit, VirtualBase, MemoryConstants
<1>3. zero \in Value
  BY DEF zero, MemoryConstants
<1>4. PICK d : d = [k \in 1 .. n |-> zero]
  OBVIOUS
<1>5. d \in Seq(Value) /\ Len(d) = n
  BY <1>2, <1>3, <1>4
<1>6. twin = [data |-> d, at |-> 0] /\ overran = FALSE /\ memory = [a \in 0 .. AddressRange - 1 |-> zero]
  BY <1>1, <1>4 DEF MemoryInit
<1>7. \A k \in 1 .. n : BufferAt + k - 1 \in 0 .. AddressRange - 1
  <2>1. PICK R, B, m \in Nat : R = AddressRange /\ B = BufferAt /\ m = MachineBytes
    BY DEF MemoryConstants
  <2>2. B + n + m < R
    BY <1>1, <2>1 DEF MemoryConstants
  <2> QED BY <1>2, <2>1, <2>2
<1>8. BufferKept
  BY <1>1, <1>3, <1>4, <1>5, <1>6, <1>7 DEF BufferKept
<1>9. PICK first : first = NewStream(v, v + n)
  OBVIOUS
<1>10. /\ first \in Regions /\ first.m_startAddress = v /\ first.m_filePosition = v
       /\ first.m_endAddress = v + n
  BY <1>2, <1>9 DEF NewStream, Regions
<1>11. streams = <<first>>
  BY <1>1, <1>9 DEF MemoryInit, VirtualBase
<1>12. streams \in Seq(Regions) /\ Len(streams) = 1 /\ streams[1] = first
  BY <1>10, <1>11
<1>13. InRegion(first, 1)
  <2>1. 1 * (n + 1) = n + 1
    BY <1>2
  <2> QED BY <1>1, <1>2, <1>10, <2>1 DEF InRegion
<1>14. StreamsPlaced
  <2>1. 1 \in 1 .. MaxStreams
    BY DEF MemoryConstants
  <2>2. \A s \in 1 .. Len(streams) : s = 1
    BY <1>12
  <2> QED BY <1>1, <1>2, <1>6, <1>10, <1>12, <1>13, <2>1, <2>2 DEF StreamsPlaced
<1>15. BytesShown
  <2>1. buffer.bytes = <<>> /\ buffer.count = 0 /\ number = NoNumber
    BY DEF MemoryInit, Nothing
  <2>2. SubSeq(buffer.bytes, 1, buffer.count)
          = memread(streams[buffer.stream].m_filePosition - buffer.count, buffer.count)
    BY <2>1, NoBytes DEF memread
  <2> QED BY <2>1, <2>2 DEF BytesShown
<1> QED BY <1>8, <1>14, <1>15 DEF MemoryInv

LEMMA MemoryWritesUint == ASSUME MemoryConstants, MemoryInv, writeUint PROVE MemoryInv'
<1>1. PICK address \in VirtualBase .. VirtualBase + BufferSize, bytes \in Strings({MachineBytes}) :
        /\ ~Throws(address, MachineBytes)
        /\ memory' = Written(address, bytes)
        /\ number' = [address |-> address, bytes |-> bytes]
        /\ Follows(address, bytes, twin.at)
        /\ buffer' = Nothing /\ UNCHANGED <<accesser, streams>>
  BY DEF writeUint, VirtualBase
<1>2. BufferKept /\ StreamsPlaced
  BY DEF MemoryInv
<1>3. PICK R, B, n, v, m, u : /\ R = AddressRange /\ B = BufferAt /\ n = BufferSize /\ v = VirtualBase
                              /\ m = MachineBytes /\ u = UintBytes
  OBVIOUS
<1>4. /\ R \in Nat /\ B \in Nat /\ n \in Nat /\ v \in Nat /\ v \in Bases /\ m \in Nat /\ m > 0
      /\ u \in Nat /\ u <= m
  <2>1. v \in Bases
    BY <1>2, <1>3 DEF StreamsPlaced, VirtualBase
  <2> QED BY <1>3, <2>1 DEF MemoryConstants
<1>5. v + n + m < R /\ B + n + m < R
  BY <1>3, <1>4 DEF MemoryConstants
<1>6. address \in Nat /\ v <= address /\ address <= v + n /\ address \in 0 .. AddressRange - 1
  BY <1>1, <1>3, <1>4, <1>5
<1>7. bytes \in Seq(Value) /\ Len(bytes) = m
  <2>1. bytes \in [1 .. m -> Value]
    BY <1>1, <1>3 DEF Strings
  <2> QED BY <1>4, <2>1
<1>8. ~(accesser.wide /\ address - v + BufferAt >= AddressRange)
  BY <1>3, <1>4, <1>5, <1>6
<1>9. accesser.wide \in BOOLEAN
  BY <1>2 DEF StreamsPlaced
<1>10. address - v + m <= n + 1
  <2>1. m \in Nat \ {0} /\ v + BufferSize + m < AddressRange /\ BufferAt + BufferSize + m < AddressRange
    BY <1>3, <1>4, <1>5
  <2>2. ~Throws(address, m)
    BY <1>1, <1>3
  <2> QED BY <1>3, <1>4, <1>6, <1>8, <1>9, <2>1, <2>2, Checked
<1>11. bytes # <<>>
  BY <1>4, <1>7
<1>12. /\ BufferKept' /\ twin'.at = twin.at
       /\ \A j \in 1 .. Len(bytes) : memory'[Physical(address) + j - 1] = bytes[j]
  BY <1>1, <1>2, <1>3, <1>6, <1>7, <1>10, <1>11, TwinFollows
<1>13. StreamsPlaced'
  BY <1>1, <1>2, <1>12 DEF StreamsPlaced, InRegion, VirtualBase
<1>14. BytesShown'
  <2>1. buffer'.bytes = <<>> /\ buffer'.count = 0
    BY <1>1 DEF Nothing
  <2>2. SubSeq(buffer'.bytes, 1, buffer'.count)
          = memread(streams[buffer.stream].m_filePosition - buffer.count, buffer.count)'
    BY <2>1, NoBytes DEF memread
  <2>3. readUint(number.address)' = [k \in 1 .. u |-> memory'[Physical(address) + k - 1]]
    BY <1>1, <1>3 DEF readUint, memread, Physical
  <2>4. PICK f : f = [k \in 1 .. u |-> memory'[Physical(address) + k - 1]]
    OBVIOUS
  <2>5. ASSUME NEW k \in 1 .. u PROVE f[k] = bytes[k] /\ bytes[k] \in Value
    <3>1. k \in 1 .. Len(bytes)
      BY <1>4, <1>7
    <3>2. f[k] = memory'[Physical(address) + k - 1]
      BY <2>4
    <3> QED BY <1>7, <1>12, <3>1, <3>2, LenProperties
  <2>6. f \in Seq(Value) /\ Len(f) = u
    <3>1. f \in [1 .. u -> Value]
      BY <2>4, <2>5
    <3> QED BY <1>4, <3>1
  <2>7. PICK g : g = SubSeq(bytes, 1, u)
    OBVIOUS
  <2>8. g \in Seq(Value) /\ Len(g) = u /\ \A k \in 1 .. u : g[k] = bytes[k]
    <3>1. /\ g \in Seq(Value) /\ Len(g) = IF 1 <= u THEN u - 1 + 1 ELSE 0
          /\ \A i \in 1 .. u - 1 + 1 : g[i] = bytes[1 + i - 1]
      <4>1. u \in Int /\ u <= Len(bytes)
        BY <1>4, <1>7
      <4> QED BY <1>7, <2>7, <4>1, Piece
    <3> QED BY <1>4, <3>1
  <2>9. f = g
    BY <2>5, <2>6, <2>8, SeqEqual
  <2>10. number'.bytes = bytes
    BY <1>1
  <2> QED BY <1>3, <2>2, <2>3, <2>4, <2>7, <2>9, <2>10 DEF BytesShown
<1> QED BY <1>12, <1>13, <1>14 DEF MemoryInv

LEMMA MemoryReads ==
  ASSUME MemoryConstants, MemoryInv, NEW s \in DOMAIN streams, read(s)
  PROVE  MemoryInv'
<1>1. BufferKept /\ StreamsPlaced
  BY DEF MemoryInv
<1>2. streams \in Seq(Regions) /\ DOMAIN streams = 1 .. Len(streams) /\ s \in 1 .. Len(streams)
  BY <1>1, LenProperties DEF StreamsPlaced
<1>3. PICK length, sread, at, rest :
        /\ length \in 1 .. MaxRequest
        /\ at = streams[s].m_filePosition /\ sread = Sized(s, length)
        /\ ~AtEnd(s)
        /\ Advances(s, sread)
        /\ buffer' = [stream |-> s, count |-> sread,
                      bytes |-> memread(at, sread) \o [k \in 1 .. length - sread |-> rest]]
        /\ twin' = IF s = 1 THEN AfterRead(twin, length) ELSE twin
        /\ number' = NoNumber /\ UNCHANGED <<memory, accesser, overran>>
  BY DEF read
<1>4. PICK old : old = streams[s]
  OBVIOUS
<1>5. old \in Regions /\ InRegion(old, s)
  BY <1>1, <1>2, <1>4, LenProperties DEF StreamsPlaced
<1>6. PICK end : end = old.m_endAddress
  OBVIOUS
<1>7. at \in Nat /\ end \in Nat /\ at <= end /\ length \in Nat /\ length > 0
      /\ at = old.m_filePosition /\ old.m_startAddress <= at
  BY <1>3, <1>4, <1>5, <1>6 DEF Regions, InRegion, MemoryConstants
<1>8. sread = IF end - at < length THEN end - at ELSE length
  BY <1>3, <1>4, <1>6, <1>7 DEF Sized, Least
<1>9. sread \in Nat /\ sread <= length /\ at + sread <= end /\ at + sread \in Nat
  BY <1>7, <1>8
<1>10. PICK p \in Nat : p = at + sread
  BY <1>9
<1>11. streams' = [streams EXCEPT ![s] = [streams[s] EXCEPT !.m_filePosition = p]]
  <2>1. streams' = [streams EXCEPT ![s] = [streams[s] EXCEPT !.m_filePosition = streams[s].m_filePosition + sread]]
    BY <1>2, <1>3 DEF Advances
  <2>2. streams[s].m_filePosition + sread = p
    BY <1>3, <1>10
  <2> QED BY <2>1, <2>2
<1>12. PICK d, t : d = twin.data /\ t = twin.at
  OBVIOUS
<1>13. twin = [data |-> d, at |-> t] /\ d \in Seq(Value) /\ Len(d) = BufferSize /\ t \in 0 .. BufferSize
  BY <1>1, <1>12 DEF BufferKept, StreamsPlaced
<1>14. PICK n, v \in Nat : n = BufferSize /\ v = VirtualBase
  BY <1>1 DEF StreamsPlaced, VirtualBase, MemoryConstants
<1>15. twin' = [data |-> d, at |-> IF s = 1 THEN (IF t + length < n THEN t + length ELSE n) ELSE t]
  BY <1>3, <1>13, <1>14 DEF AfterRead, Least
<1>16. s = 1 => at = v + t /\ end = v + n
  BY <1>1, <1>3, <1>4, <1>6, <1>12, <1>14 DEF StreamsPlaced
<1>17. s = 1 => p = v + twin'.at /\ twin'.at \in 0 .. n
  <2> SUFFICES ASSUME s = 1 PROVE p = v + twin'.at /\ twin'.at \in 0 .. n
    OBVIOUS
  <2>1. PICK after : after = IF t + length < n THEN t + length ELSE n
    OBVIOUS
  <2>2. twin'.at = after
    BY <1>15, <2>1
  <2>3. t \in Nat /\ t <= n /\ end - at = n - t /\ at = v + t
    BY <1>13, <1>14, <1>16
  <2>4. after = t + sread
    BY <1>7, <1>8, <1>14, <2>1, <2>3
  <2>5. p = v + (t + sread) /\ t + sread \in 0 .. n
    BY <1>7, <1>8, <1>9, <1>10, <1>14, <2>3
  <2> QED BY <2>2, <2>4, <2>5
<1>18. StreamsPlaced'
  <2>1. old.m_startAddress <= p
    BY <1>5, <1>7, <1>9, <1>10 DEF Regions
  <2>2. p <= old.m_endAddress /\ accesser' = accesser /\ (s # 1 => twin'.at = twin.at)
    BY <1>3, <1>6, <1>9, <1>10, <1>12, <1>15
  <2> QED BY <1>1, <1>2, <1>4, <1>11, <1>14, <1>17, <2>1, <2>2, StreamMoved
<1>19. BufferKept'
  BY <1>1, <1>3, <1>12, <1>15 DEF BufferKept
<1>20. streams'[s].m_filePosition = p
  <2>1. streams'[s] = [old EXCEPT !.m_filePosition = p]
    BY <1>2, <1>4, <1>11
  <2> QED BY <1>5, <2>1 DEF Regions
<1>21. PICK x, y : x = memread(at, sread) /\ y = [k \in 1 .. length - sread |-> rest]
  OBVIOUS
<1>22. SubSeq(x \o y, 1, sread) = x
  <2>1. x = [k \in 1 .. sread |-> memory[Physical(at) + k - 1]]
    BY <1>21 DEF memread
  <2>2. PICK S : S = {x[k] : k \in 1 .. sread} \cup {rest}
    OBVIOUS
  <2>3. x \in Seq(S) /\ Len(x) = sread
    <3>1. x \in [1 .. sread -> S]
      BY <2>1, <2>2
    <3> QED BY <1>9, <3>1, <2>1
  <2>4. y \in Seq(S) /\ Len(y) = length - sread
    <3>1. length - sread \in Nat
      BY <1>7, <1>9
    <3>2. y \in [1 .. length - sread -> S]
      BY <1>21, <2>2
    <3> QED BY <1>21, <3>1, <3>2
  <2>5. PICK z : z = x \o y
    OBVIOUS
  <2>6. z \in Seq(S) /\ Len(z) = length /\ \A k \in 1 .. sread : z[k] = x[k]
    BY <1>7, <1>9, <2>3, <2>4, <2>5, ConcatProperties
  <2>7. PICK w : w = SubSeq(z, 1, sread)
    OBVIOUS
  <2>8. w \in Seq(S) /\ Len(w) = sread /\ \A k \in 1 .. sread : w[k] = z[k]
    <3>1. /\ w \in Seq(S) /\ Len(w) = IF 1 <= sread THEN sread - 1 + 1 ELSE 0
          /\ \A i \in 1 .. sread - 1 + 1 : w[i] = z[1 + i - 1]
      <4>1. sread \in Int /\ sread <= Len(z)
        BY <1>9, <2>6
      <4> QED BY <2>6, <2>7, <4>1, Piece
    <3> QED BY <1>9, <3>1
  <2>9. w = x
    BY <2>3, <2>6, <2>8, SeqEqual
  <2> QED BY <2>5, <2>7, <2>9
<1>23. BytesShown'
  <2>1. buffer'.stream = s /\ buffer'.count = sread /\ buffer'.bytes = x \o y
    BY <1>3, <1>21
  <2>2. p - sread = at
    BY <1>7, <1>9, <1>10
  <2>3. memread(streams[buffer.stream].m_filePosition - buffer.count, buffer.count)' = x
    BY <1>3, <1>20, <1>21, <2>1, <2>2 DEF memread, Physical
  <2>4. number' = NoNumber
    BY <1>3
  <2> QED BY <1>22, <2>1, <2>3, <2>4 DEF BytesShown
<1> QED BY <1>18, <1>19, <1>23 DEF MemoryInv

LEMMA MemoryWrites ==
  ASSUME MemoryConstants, MemoryInv, NEW s \in DOMAIN streams, write(s)
  PROVE  MemoryInv'
<1>1. BufferKept /\ StreamsPlaced
  BY DEF MemoryInv
<1>2. streams \in Seq(Regions) /\ DOMAIN streams = 1 .. Len(streams) /\ s \in 1 .. Len(streams)
  BY <1>1, LenProperties DEF StreamsPlaced
<1>3. PICK data, place, at, part :
        /\ data \in Strings(1 .. MaxRequest)
        /\ at = streams[s].m_filePosition /\ part = SubSeq(data, 1, Sized(s, Len(data)))
        /\ place = IF s = 1 THEN AfterWrite(twin, data, TRUE).at ELSE twin.at
        /\ ~AtEnd(s) /\ ~Throws(at, Len(part))
        /\ memory' = Written(at, part) /\ Advances(s, Len(part))
        /\ Follows(at, part, place)
        /\ buffer' = Nothing /\ number' = NoNumber /\ UNCHANGED accesser
  BY DEF write
<1>4. PICK length : length \in 1 .. MaxRequest /\ data \in [1 .. length -> Value]
  BY <1>3 DEF Strings
<1>5. data \in Seq(Value) /\ Len(data) = length /\ length \in Nat /\ length > 0
  BY <1>4 DEF MemoryConstants
<1>6. PICK old : old = streams[s]
  OBVIOUS
<1>7. old \in Regions /\ InRegion(old, s)
  BY <1>1, <1>2, <1>6, LenProperties DEF StreamsPlaced
<1>8. PICK end : end = old.m_endAddress
  OBVIOUS
<1>9. PICK R, B, n, v, q : R = AddressRange /\ B = BufferAt /\ n = BufferSize /\ v = VirtualBase /\ q = MaxRequest
  OBVIOUS
<1>10. /\ at \in Nat /\ end \in Nat /\ at <= end /\ at # end
       /\ at = old.m_filePosition /\ old.m_startAddress <= at /\ old.m_startAddress \in Nat /\ v <= old.m_startAddress
  BY <1>3, <1>6, <1>7, <1>8, <1>9 DEF Regions, InRegion, AtEnd
<1>11. R \in Nat /\ B \in Nat /\ n \in Nat /\ v \in Nat /\ v \in Bases /\ q \in Nat /\ length <= q
  <2>1. v \in Bases
    BY <1>1, <1>9 DEF StreamsPlaced, VirtualBase
  <2>2. R \in Nat /\ B \in Nat /\ n \in Nat /\ q \in Nat
    BY <1>9 DEF MemoryConstants
  <2>3. v \in Nat
    BY <2>1 DEF MemoryConstants
  <2>4. length <= q
    BY <1>4, <1>9, <2>2
  <2> QED BY <2>1, <2>2, <2>3, <2>4
<1>12. PICK c : c = Sized(s, Len(data))
  OBVIOUS
<1>13. c = IF end - at < length THEN end - at ELSE length
  BY <1>3, <1>5, <1>6, <1>8, <1>12 DEF Sized, Least
<1>14. c \in Nat /\ c > 0 /\ c <= length /\ at + c <= end /\ at + c \in Nat
  BY <1>5, <1>10, <1>13
<1>15. part \in Seq(Value) /\ Len(part) = c
  <2>1. part \in Seq(Value) /\ Len(part) = IF 1 <= c THEN c - 1 + 1 ELSE 0
    <3>1. c \in Int /\ c <= Len(data)
      BY <1>5, <1>14
    <3> QED BY <1>3, <1>5, <1>12, <3>1, Piece
  <2> QED BY <1>14, <2>1
<1>16. at < R /\ at - v + B < R
  <2>1. at >= VirtualBase
    BY <1>9, <1>10, <1>11
  <2>2. at <= streams[s].m_endAddress
    BY <1>6, <1>8, <1>10
  <2> QED BY <1>1, <1>2, <1>9, <1>10, <2>1, <2>2, Reached
<1>17. at >= v /\ at - v + c <= n + 1
  <2>1. v + n + q < R /\ B + n + q < R
    BY <1>9, <1>11 DEF MemoryConstants
  <2>2. c \in Nat \ {0} /\ v + BufferSize + c < AddressRange /\ BufferAt + BufferSize + c < AddressRange
    BY <1>9, <1>11, <1>14, <1>5, <2>1
  <2>3. at \in 0 .. AddressRange - 1
    BY <1>9, <1>10, <1>11, <1>16
  <2>4. ~(accesser.wide /\ at - v + BufferAt >= AddressRange) /\ accesser.wide \in BOOLEAN
    BY <1>1, <1>9, <1>10, <1>11, <1>16 DEF StreamsPlaced
  <2>5. ~Throws(at, c)
    BY <1>3, <1>15
  <2> QED BY <1>9, <1>11, <2>2, <2>3, <2>4, <2>5, Checked
<1>18. BufferKept' /\ twin'.at = place
  <2>1. part # <<>>
    BY <1>14, <1>15
  <2>2. at >= VirtualBase /\ at - VirtualBase + Len(part) <= BufferSize + 1
    BY <1>9, <1>15, <1>17
  <2>3. at \in Nat /\ part \in Seq(Value) /\ memory' = Written(at, part) /\ Follows(at, part, place)
    BY <1>3, <1>10, <1>15
  <2> QED BY <1>1, <2>1, <2>2, <2>3, TwinFollows
<1>19. PICK d, t : d = twin.data /\ t = twin.at
  OBVIOUS
<1>20. twin = [data |-> d, at |-> t] /\ d \in Seq(Value) /\ Len(d) = n /\ t \in 0 .. n
  BY <1>1, <1>9, <1>19 DEF BufferKept, StreamsPlaced
<1>21. s = 1 => at = v + t /\ end = v + n
  BY <1>1, <1>3, <1>6, <1>8, <1>9, <1>19 DEF StreamsPlaced
<1>22. s = 1 => place = t + c
  <2>1. CASE s = 1
    <3>1. Accepted(twin, data, TRUE) = c
      BY <1>5, <1>10, <1>11, <1>13, <1>20, <1>21, <2>1, SMTT(30) DEF Accepted, Least
    <3>2. AfterWrite(twin, data, TRUE).at = t + Len(SubSeq(data, 1, c))
      BY <1>20, <3>1 DEF AfterWrite
    <3>3. Len(SubSeq(data, 1, c)) = c
      BY <1>3, <1>12, <1>15
    <3> QED BY <1>3, <2>1, <3>2, <3>3
  <2> QED BY <2>1
<1>23. PICK p \in Nat : p = at + c
  BY <1>14
<1>24. streams' = [streams EXCEPT ![s] = [streams[s] EXCEPT !.m_filePosition = p]]
  <2>1. streams' = [streams EXCEPT ![s] = [streams[s] EXCEPT !.m_filePosition = streams[s].m_filePosition + Len(part)]]
    BY <1>2, <1>3 DEF Advances
  <2>2. streams[s].m_filePosition + Len(part) = p
    BY <1>3, <1>15, <1>23
  <2> QED BY <2>1, <2>2
<1>25. StreamsPlaced'
  <2>1. old.m_startAddress <= p /\ p <= old.m_endAddress
    BY <1>8, <1>10, <1>14, <1>23
  <2>2. s = 1 => p = v + twin'.at /\ twin'.at \in 0 .. n
    BY <1>10, <1>11, <1>14, <1>18, <1>20, <1>21, <1>22, <1>23
  <2>3. s # 1 => twin'.at = twin.at
    BY <1>3, <1>18
  <2> QED BY <1>1, <1>2, <1>3, <1>6, <1>9, <1>24, <2>1, <2>2, <2>3, StreamMoved
<1> QED BY <1>3, <1>18, <1>25, NothingShown DEF MemoryInv

LEMMA MemorySeeks ==
  ASSUME MemoryConstants, MemoryInv, NEW s \in DOMAIN streams, seek(s)
  PROVE  MemoryInv'
<1>1. BufferKept /\ StreamsPlaced
  BY DEF MemoryInv
<1>2. streams \in Seq(Regions) /\ DOMAIN streams = 1 .. Len(streams) /\ s \in 1 .. Len(streams)
  BY <1>1, LenProperties DEF StreamsPlaced
<1>3. PICK distance \in -(BufferSize + 1) .. BufferSize + 1, method \in Methods :
        /\ CanSeek(distance, method)
        /\ streams' = [streams EXCEPT ![s] = Sought(streams[s], distance, method)]
        /\ twin' = IF s = 1 THEN AfterSeek(twin, distance, method) ELSE twin
        /\ buffer' = Nothing /\ number' = NoNumber /\ UNCHANGED <<memory, accesser, overran>>
  BY <1>2 DEF seek
<1>4. PICK old : old = streams[s]
  OBVIOUS
<1>5. old \in Regions /\ InRegion(old, s)
  BY <1>1, <1>2, <1>4, LenProperties DEF StreamsPlaced
<1>6. PICK start, at, end : start = old.m_startAddress /\ at = old.m_filePosition /\ end = old.m_endAddress
  OBVIOUS
<1>7. start \in Nat /\ at \in Nat /\ end \in Nat /\ start <= at /\ at <= end
  BY <1>5, <1>6 DEF Regions, InRegion
<1>8. PICK n, v \in Nat : n = BufferSize /\ v = VirtualBase
  BY <1>1 DEF StreamsPlaced, VirtualBase, MemoryConstants
<1>9. PICK move \in Int : move = distance
  BY <1>8
<1>10. /\ method \in {"IO_SEEK_SET", "IO_SEEK_CUR", "IO_SEEK_END"}
       /\ method = "IO_SEEK_SET" => move >= 0
       /\ method = "IO_SEEK_END" => move <= 0
  BY <1>3, <1>9 DEF CanSeek, Methods
<1>11. PICK length, position \in Nat : length = end - start /\ position = at - start
  BY <1>7
<1>12. PICK base : base = IF method = "IO_SEEK_SET" THEN 0 ELSE IF method = "IO_SEEK_CUR" THEN position ELSE length
  OBVIOUS
<1>13. base \in Nat /\ position <= length
  BY <1>7, <1>11, <1>12
<1>14. PICK place : place = Clamped(base + move, length)
  OBVIOUS
<1>15. place = IF base + move < 0 THEN 0 ELSE IF base + move < length THEN base + move ELSE length
  BY <1>14 DEF Clamped, Least
<1>16. place \in 0 .. length
  BY <1>9, <1>11, <1>13, <1>15
<1>17. PICK p \in Nat : p = place + start
  BY <1>7, <1>11, <1>16
<1>18. Sought(old, distance, method) = [old EXCEPT !.m_filePosition = p]
  <2>1. CASE method = "IO_SEEK_SET"
    <3>1. place = IF move < length THEN move ELSE length
      BY <1>9, <1>10, <1>11, <1>12, <1>15, <2>1
    <3>2. Sought(old, distance, method)
            = [old EXCEPT !.m_filePosition = (IF distance < end - start THEN distance ELSE end - start) + start]
      BY <1>6, <2>1 DEF Sought, Least
    <3>3. (IF distance < end - start THEN distance ELSE end - start) + start = p
      BY <1>9, <1>11, <1>17, <3>1
    <3> QED BY <3>2, <3>3, Zenon
  <2>2. CASE method = "IO_SEEK_CUR"
    <3>1. PICK x : x = (IF -distance > at - start THEN 0
                        ELSE IF at - start + distance < end - start THEN at - start + distance ELSE end - start)
      OBVIOUS
    <3>2. Sought(old, distance, method) = [old EXCEPT !.m_filePosition = x + start]
      BY <1>6, <2>2, <3>1 DEF Sought, Least
    <3>3. x = place
      BY <1>7, <1>9, <1>11, <1>12, <1>13, <1>15, <2>2, <3>1
    <3> QED BY <1>17, <3>2, <3>3, Zenon
  <2>3. CASE method = "IO_SEEK_END"
    <3>1. PICK x : x = (IF -distance > end - start THEN 0 ELSE end - start + distance)
      OBVIOUS
    <3>2. Sought(old, distance, method) = [old EXCEPT !.m_filePosition = x + start]
      BY <1>6, <2>3, <3>1 DEF Sought
    <3>3. x = place
      BY <1>7, <1>9, <1>10, <1>11, <1>12, <1>13, <1>15, <2>3, <3>1
    <3> QED BY <1>17, <3>2, <3>3, Zenon
  <2> QED BY <1>10, <2>1, <2>2, <2>3
<1>19. streams' = [streams EXCEPT ![s] = [streams[s] EXCEPT !.m_filePosition = p]]
  BY <1>3, <1>4, <1>18
<1>20. PICK d, t : d = twin.data /\ t = twin.at
  OBVIOUS
<1>21. twin = [data |-> d, at |-> t] /\ d \in Seq(Value) /\ Len(d) = n /\ t \in 0 .. n
  BY <1>1, <1>8, <1>20 DEF BufferKept, StreamsPlaced
<1>22. s = 1 => position = t /\ length = n /\ start = v
  <2>1. s = 1 => start = v /\ end = v + n /\ at = v + t
    BY <1>1, <1>4, <1>6, <1>8, <1>20 DEF StreamsPlaced
  <2> QED BY <1>8, <1>11, <1>21, <2>1
<1>23. s = 1 => AfterSeek(twin, distance, method) = [data |-> d, at |-> place]
  <2>1. CASE s = 1
    <3>1. CASE method = "IO_SEEK_SET"
      <4>1. AfterSeek(twin, distance, method) = [data |-> d, at |-> Clamped(0 + distance, n)]
        BY <1>21, <3>1 DEF AfterSeek
      <4> QED BY <1>9, <1>12, <1>14, <1>22, <2>1, <3>1, <4>1
    <3>2. CASE method = "IO_SEEK_CUR"
      <4>1. AfterSeek(twin, distance, method) = [data |-> d, at |-> Clamped(t + distance, n)]
        BY <1>21, <3>2 DEF AfterSeek
      <4> QED BY <1>9, <1>12, <1>14, <1>22, <2>1, <3>2, <4>1
    <3>3. CASE method = "IO_SEEK_END"
      <4>1. AfterSeek(twin, distance, method) = [data |-> d, at |-> Clamped(n + distance, n)]
        BY <1>21, <3>3 DEF AfterSeek
      <4> QED BY <1>9, <1>12, <1>14, <1>22, <2>1, <3>3, <4>1
    <3> QED BY <1>10, <3>1, <3>2, <3>3
  <2> QED BY <2>1
<1>24. twin' = [data |-> d, at |-> IF s = 1 THEN place ELSE t]
  BY <1>3, <1>21, <1>23
<1>25. StreamsPlaced'
  <2>1. old.m_startAddress <= p /\ p <= old.m_endAddress
    BY <1>6, <1>7, <1>11, <1>16, <1>17
  <2>2. s = 1 => p = v + twin'.at /\ twin'.at \in 0 .. n
    BY <1>8, <1>11, <1>16, <1>17, <1>22, <1>24
  <2>3. accesser' = accesser /\ (s # 1 => twin'.at = twin.at)
    BY <1>3, <1>20, <1>24
  <2> QED BY <1>1, <1>2, <1>4, <1>8, <1>19, <2>1, <2>2, <2>3, StreamMoved
<1>26. BufferKept'
  BY <1>1, <1>3, <1>20, <1>24 DEF BufferKept
<1> QED BY <1>3, <1>25, <1>26, NothingShown DEF MemoryInv

LEMMA MemoryForks ==
  ASSUME MemoryConstants, MemoryInv, NEW s \in DOMAIN streams, fork(s) \/ forkRegion(s), Len(streams) < MaxStreams,
         buffer' = Nothing, number' = NoNumber, UNCHANGED <<memory, accesser, twin, overran>>
  PROVE  MemoryInv'
<1>1. BufferKept /\ StreamsPlaced
  BY DEF MemoryInv
<1>2. streams \in Seq(Regions) /\ s \in 1 .. Len(streams)
  BY <1>1, LenProperties DEF StreamsPlaced
<1>3. PICK old : old = streams[s]
  OBVIOUS
<1>4. old \in Regions /\ InRegion(old, s)
  BY <1>1, <1>2, <1>3, LenProperties DEF StreamsPlaced
<1>5. PICK start, at, end : start = old.m_startAddress /\ at = old.m_filePosition /\ end = old.m_endAddress
  OBVIOUS
<1>6. start \in Nat /\ at \in Nat /\ end \in Nat /\ start <= at /\ at <= end
  BY <1>4, <1>5 DEF Regions, InRegion
<1>7. PICK n \in Nat : n = BufferSize
  BY DEF MemoryConstants
<1>8. ASSUME fork(s) PROVE StreamsPlaced'
  <2>1. PICK garbage \in BOOLEAN : streams' = Append(streams, [streams[s] EXCEPT !.m_ignoreFragments = garbage])
    BY <1>8 DEF fork
  <2>2. PICK new : new = [old EXCEPT !.m_ignoreFragments = garbage]
    OBVIOUS
  <2>3. new \in Regions /\ new.m_startAddress = start /\ new.m_filePosition = at /\ new.m_endAddress = end
    BY <1>4, <1>5, <2>2 DEF Regions
  <2>4. end <= end + (n + 1)
    BY <1>6
  <2>5. streams' = Append(streams, new)
    BY <1>3, <2>1, <2>2
  <2>6. /\ streams[s].m_startAddress <= new.m_startAddress /\ new.m_startAddress <= new.m_filePosition
        /\ new.m_filePosition <= new.m_endAddress /\ new.m_endAddress <= streams[s].m_endAddress + (BufferSize + 1)
    BY <1>3, <1>5, <1>6, <1>7, <2>3, <2>4
  <2> QED BY <1>1, <1>2, <2>3, <2>5, <2>6, StreamForked
<1>9. ASSUME forkRegion(s) PROVE StreamsPlaced'
  <2>1. PICK virtualStart, virtualEnd \in 0 .. BufferSize + 1 :
          /\ virtualEnd >= virtualStart
          /\ streams' = Append(streams, NewStream(virtualStart + streams[s].m_startAddress,
                                                         virtualEnd + streams[s].m_startAddress))
    BY <1>9 DEF forkRegion
  <2>2. virtualStart \in Nat /\ virtualEnd \in Nat /\ virtualStart <= virtualEnd /\ virtualEnd <= n + 1
    BY <1>7, <2>1
  <2>3. PICK from, to \in Nat : from = virtualStart + start /\ to = virtualEnd + start
    BY <1>6, <2>2
  <2>4. PICK new : new = NewStream(from, to)
    OBVIOUS
  <2>5. new \in Regions /\ new.m_startAddress = from /\ new.m_filePosition = from /\ new.m_endAddress = to
    BY <2>4 DEF NewStream, Regions
  <2>6. start <= from /\ from <= to /\ to <= end + (n + 1)
    BY <1>6, <1>7, <2>2, <2>3
  <2>7. streams' = Append(streams, new)
    BY <1>3, <1>5, <2>1, <2>3, <2>4
  <2>8. from <= from
    BY <2>3
  <2>9. /\ streams[s].m_startAddress <= new.m_startAddress /\ new.m_startAddress <= new.m_filePosition
        /\ new.m_filePosition <= new.m_endAddress /\ new.m_endAddress <= streams[s].m_endAddress + (BufferSize + 1)
    BY <1>3, <1>5, <1>6, <1>7, <2>3, <2>5, <2>6, <2>8
  <2> QED BY <1>1, <1>2, <2>5, <2>7, <2>9, StreamForked
<1>10. StreamsPlaced'
  BY <1>8, <1>9
<1>11. BufferKept'
  BY <1>1 DEF BufferKept
<1> QED BY <1>10, <1>11, NothingShown DEF MemoryInv

LEMMA MemorySteps == ASSUME MemoryConstants, MemoryInv, MemoryNext PROVE MemoryInv'
<1>1. CASE writeUint
  BY <1>1, MemoryWritesUint
<1>2. ASSUME NEW s \in DOMAIN streams, read(s) \/ write(s) \/ seek(s)
      PROVE  MemoryInv'
  BY <1>2, MemoryReads, MemoryWrites, MemorySeeks
<1>3. ASSUME NEW s \in DOMAIN streams, Len(streams) < MaxStreams, fork(s) \/ forkRegion(s),
             buffer' = Nothing, number' = NoNumber, UNCHANGED <<memory, accesser, twin, overran>>
      PROVE  MemoryInv'
  BY <1>3, MemoryForks
<1> QED BY <1>1, <1>2, <1>3 DEF MemoryNext

(* What the invariant says of the first stream, of the buffer and of the    *)
(* rest of the memory is what the property says.                            *)
LEMMA MemoryShows == ASSUME MemoryConstants, MemoryInv PROVE IsMemoryStream /\ AddressesChecked
<1>1. BufferKept /\ StreamsPlaced /\ BytesShown
  BY DEF MemoryInv
<1>2. PICK R, B, n, v : R = AddressRange /\ B = BufferAt /\ n = BufferSize /\ v = VirtualBase
  OBVIOUS
<1>3. R \in Nat /\ B \in Nat /\ n \in Nat /\ v \in Nat /\ B < R
  <2>1. v \in Bases
    BY <1>1, <1>2 DEF StreamsPlaced, VirtualBase
  <2>2. PICK m \in Nat : m = MachineBytes
    BY DEF MemoryConstants
  <2>3. B + n + m < R
    BY <1>2, <2>2 DEF MemoryConstants
  <2> QED BY <1>2, <2>1, <2>2, <2>3 DEF MemoryConstants
<1>4. Physical(v) = B
  <2>1. v - v + B = B /\ B % R = B
    BY <1>3
  <2> QED BY <1>2, <2>1 DEF Physical, m_startAddress, VirtualBase
<1>5. memread(v, n) = twin.data
  <2>1. PICK d : d = twin.data
    OBVIOUS
  <2>2. d \in Seq(Value) /\ Len(d) = n /\ \A k \in 1 .. n : d[k] = memory[B + k - 1]
    BY <1>1, <1>2, <2>1 DEF BufferKept
  <2>3. PICK f : f = memread(v, n)
    OBVIOUS
  <2>4. f = [k \in 1 .. n |-> memory[B + k - 1]]
    BY <1>4, <2>3 DEF memread
  <2>5. DOMAIN d = 1 .. n
    BY <2>2, LenProperties
  <2>6. d = [k \in 1 .. n |-> d[k]]
    BY <2>2, <2>5
  <2> QED BY <2>1, <2>2, <2>3, <2>4, <2>6
<1>6. streams[1].m_filePosition = VirtualBase + twin.at
  BY <1>1 DEF StreamsPlaced
<1>9. IsMemoryStream
  <2>4. DOMAIN memory = 0 .. AddressRange - 1
    BY <1>1 DEF BufferKept
  <2>5. \A a \in 0 .. AddressRange - 1 :
          a \notin m_startAddress .. m_endAddress - 1 /\ memory[a] # zero => a = m_endAddress /\ overran
    <3>1. \A a \in 0 .. AddressRange - 1 :
            a \notin BufferAt .. BufferAt + BufferSize - 1 /\ memory[a] # zero => a = BufferAt + BufferSize /\ overran
      BY <1>1 DEF BufferKept
    <3>2. BufferAt \in Int /\ BufferSize \in Int
      BY DEF MemoryConstants
    <3> QED BY <3>1, <3>2 DEF m_startAddress, m_endAddress
  <2>1. \A a \in DOMAIN memory \ (m_startAddress .. m_endAddress - 1) :
          memory[a] # zero => a = m_endAddress /\ overran
    BY <2>4, <2>5
  <2>2. memread(accesser.m_virtualBase, BufferSize) = twin.data
    BY <1>2, <1>5 DEF VirtualBase
  <2>3. streams[1].m_filePosition = accesser.m_virtualBase + twin.at
    BY <1>6 DEF VirtualBase
  <2> QED BY <1>1, <2>1, <2>2, <2>3, Zenon DEF IsMemoryStream, BytesShown
<1> QED BY <1>1, <1>9, AddressesAreChecked

(* Whatever its clients do, the first stream is a memory stream over the    *)
(* buffer, nothing but the byte behind it is written, every address in the  *)
(* buffer is let through, and of others only that byte and those whose sum  *)
(* with the start overflows.                                                *)
THEOREM MemoryIsKept ==
  ASSUME MemoryConstants
  PROVE  MemoryInit /\ [][MemoryNext]_memoryVars => [](IsMemoryStream /\ AddressesChecked)
<1>1. MemoryInit => MemoryInv
  BY MemoryStarts
<1>2. MemoryInv /\ [MemoryNext]_memoryVars => MemoryInv'
  <2>1. ASSUME MemoryInv, UNCHANGED memoryVars PROVE MemoryInv'
    BY <2>1 DEF memoryVars, MemoryInv, BufferKept, StreamsPlaced, BytesShown, InRegion, VirtualBase,
                memread, readUint, Physical
  <2> QED BY <2>1, MemorySteps
<1>3. MemoryInv => IsMemoryStream /\ AddressesChecked
  BY MemoryShows
<1> QED BY <1>1, <1>2, <1>3, PTL
=============================================================================
