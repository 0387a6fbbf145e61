---------------------------- MODULE MemoryAccess -----------------------------
(***************************************************************************)
(* A stream over memory: cMemoryAccesserStream, which keeps to a region,   *)
(* over the accesser of a buffer (cStreamMemoryAccesser, a                 *)
(* cThreadUnsafeMemoryAccesser), which relocates and checks addresses; and *)
(* the streams that are forked from it.  A call that throws changes        *)
(* nothing.  Beside the first stream runs a memory stream of fixed size    *)
(* that is asked for the same.                                             *)
(***************************************************************************)
EXTENDS MemoryStream

CONSTANTS Value,          \* the values of bytes, a zero among them
          AddressRange,   \* the numbers of an address
          BufferAt, BufferSize,  \* where the buffer lies
          Bases,          \* virtual names of its first byte; 0 is no relocation
          UintBytes,      \* that readUint reads
          MachineBytes,   \* of a word of the machine: as many or more
          MaxRequest,     \* bound: bytes of a call
          MaxStreams      \* bound: streams

VARIABLES memory,         \* all of it, by address
          accesser,       \* [m_virtualBase, wide]: wide if addresses fill a uint64
          streams,        \* [m_startAddress, m_endAddress, m_filePosition, m_ignoreFragments]
          buffer,         \* what the last read gave: [stream, count, bytes]
          number,         \* the last writeUint: [address, bytes]
          twin,           \* ghost: the memory stream
          overran         \* ghost: a write ended one byte behind the buffer

memoryVars == <<memory, accesser, streams, buffer, number, twin, overran>>

(* Memory has room behind the buffer, by its own and by its virtual names,  *)
(* for every region forked from another, which may begin one byte behind    *)
(* it, and for every request; a uint is part of a word.                     *)
MemoryConstants ==
  /\ {BufferAt, BufferSize, AddressRange, MaxRequest, MaxStreams} \subseteq Nat
  /\ Bases \subseteq Nat /\ Value # {} /\ MaxStreams > 0
  /\ \A base \in Bases \cup {BufferAt}, length \in {MaxRequest, MachineBytes} :
       /\ base + MaxStreams * (BufferSize + 1) < AddressRange
       /\ base + BufferSize + length < AddressRange
  /\ UintBytes \in Nat /\ MachineBytes \in Nat \ {0} /\ MachineBytes >= UintBytes

zero == CHOOSE v \in Value : TRUE
Nothing == [stream |-> 1, count |-> 0, bytes |-> <<>>]
NoNumber == [address |-> 0, bytes |-> <<>>]
Strings(lengths) == UNION {[1 .. n -> Value] : n \in lengths}
-----------------------------------------------------------------------------
(* The accesser: start and end are those of the buffer, and the end itself  *)
(* is not refused.  The sum that is tested against overflow has overflowed  *)
(* itself if addresses are as wide as it is.                                *)
m_startAddress == BufferAt
m_endAddress == BufferAt + BufferSize
Physical(address) == (address - accesser.m_virtualBase + m_startAddress) % AddressRange
getAddressThrows(address) ==
  LET sum == address - accesser.m_virtualBase + m_startAddress
  IN \/ address < accesser.m_virtualBase
     \/ (IF accesser.wide THEN sum % AddressRange ELSE sum) >= AddressRange - 1
     \/ Physical(address) > m_endAddress

Throws(address, length) ==
  length > 0 /\ (getAddressThrows((address + length - 1) % AddressRange) \/ getAddressThrows(address))

memread(address, length) == [k \in 1 .. length |-> memory[Physical(address) + k - 1]]
Written(address, bytes) ==
  LET from == Physical(address)
  IN [a \in DOMAIN memory |->
        IF a \in from .. from + Len(bytes) - 1 THEN bytes[a - from + 1] ELSE memory[a]]

(* What the twin's data and the ghost become of a write to an address.      *)
Follows(address, bytes, place) ==
  LET at == address - accesser.m_virtualBase
      kept == AfterWrite([data |-> twin.data, at |-> at], bytes, TRUE).data
  IN /\ twin' = [data |-> kept, at |-> place]
     /\ overran' = (overran \/ at + Len(bytes) > BufferSize)

readUint(address) == memread(address, UintBytes)

(* A number is written as a word of the machine, little end first, and read *)
(* as fewer bytes where the word is longer.                                 *)
writeUint ==
  \E address \in accesser.m_virtualBase .. accesser.m_virtualBase + BufferSize, bytes \in Strings({MachineBytes}) :
    /\ ~Throws(address, MachineBytes)
    /\ memory' = Written(address, bytes)
    /\ number' = [address |-> address, bytes |-> bytes]
    /\ Follows(address, bytes, twin.at)
    /\ buffer' = Nothing /\ UNCHANGED <<accesser, streams>>
-----------------------------------------------------------------------------
NewStream(start, end) ==
  [m_startAddress |-> start, m_endAddress |-> end, m_filePosition |-> start, m_ignoreFragments |-> FALSE]

MemoryInit ==
  /\ memory = [a \in 0 .. AddressRange - 1 |-> zero]
  /\ accesser \in [m_virtualBase : Bases, wide : BOOLEAN]
  /\ streams = <<NewStream(accesser.m_virtualBase, accesser.m_virtualBase + BufferSize)>>
  /\ buffer = Nothing /\ number = NoNumber
  /\ twin = [data |-> [k \in 1 .. BufferSize |-> zero], at |-> 0] /\ overran = FALSE

AtEnd(s) == streams[s].m_filePosition = streams[s].m_endAddress
Sized(s, length) == Least(streams[s].m_endAddress - streams[s].m_filePosition, length)
Advances(s, count) == streams' = [streams EXCEPT ![s].m_filePosition = @ + count]

(* A reader at the end of its stream throws.  The rest of the caller's      *)
(* buffer is zeroed if the stream ignores fragments.                        *)
read(s) ==
  \E length \in 1 .. MaxRequest :
    LET at == streams[s].m_filePosition
        sread == Sized(s, length)
        rest == IF streams[s].m_ignoreFragments THEN "zero" ELSE "as it was"
    IN /\ ~AtEnd(s) /\ ~Throws(at, sread)
       /\ Advances(s, sread)
       /\ buffer' = [stream |-> s, count |-> sread,
                     bytes |-> memread(at, sread) \o [k \in 1 .. length - sread |-> rest]]
       /\ twin' = IF s = 1 THEN AfterRead(twin, length) ELSE twin
       /\ number' = NoNumber /\ UNCHANGED <<memory, accesser, overran>>

write(s) ==
  \E data \in Strings(1 .. MaxRequest) :
    LET at == streams[s].m_filePosition
        taken == SubSeq(data, 1, Sized(s, Len(data)))
    IN /\ ~AtEnd(s) /\ ~Throws(at, Len(taken))
       /\ memory' = Written(at, taken) /\ Advances(s, Len(taken))
       /\ Follows(at, taken, IF s = 1 THEN AfterWrite(twin, data, TRUE).at ELSE twin.at)
       /\ buffer' = Nothing /\ number' = NoNumber /\ UNCHANGED accesser

(* seek: relative to the start of the region and back, clamped to it.       *)
Sought(stream, distance, method) ==
  LET length == stream.m_endAddress - stream.m_startAddress
      position == stream.m_filePosition - stream.m_startAddress
      place == IF method = "IO_SEEK_SET" THEN Least(distance, length)
               ELSE IF method = "IO_SEEK_CUR"
                 THEN IF -distance > position THEN 0 ELSE Least(position + distance, length)
               ELSE IF -distance > length THEN 0 ELSE length + distance
  IN [stream EXCEPT !.m_filePosition = place + stream.m_startAddress]

seek(s) ==
  \E distance \in -(BufferSize + 1) .. BufferSize + 1, method \in Methods :
    /\ CanSeek(distance, method)
    /\ streams' = [streams EXCEPT ![s] = Sought(@, distance, method)]
    /\ twin' = IF s = 1 THEN AfterSeek(twin, distance, method) ELSE twin
    /\ buffer' = Nothing /\ number' = NoNumber /\ UNCHANGED <<memory, accesser, overran>>

(* The copy constructor leaves m_ignoreFragments as it finds it.            *)
fork(s) ==
  \E garbage \in BOOLEAN :
    streams' = Append(streams, [streams[s] EXCEPT !.m_ignoreFragments = garbage])

(* The region is not compared with that of the stream it is forked from.    *)
forkRegion(s) ==
  \E virtualStart, virtualEnd \in 0 .. BufferSize + 1 :
    /\ virtualEnd >= virtualStart
    /\ streams' = Append(streams, NewStream(virtualStart + streams[s].m_startAddress,
                                            virtualEnd + streams[s].m_startAddress))

MemoryNext ==
  \/ writeUint
  \/ \E s \in DOMAIN streams :
       \/ read(s) \/ write(s) \/ seek(s)
       \/ /\ Len(streams) < MaxStreams
          /\ fork(s) \/ forkRegion(s)
          /\ buffer' = Nothing /\ number' = NoNumber
          /\ UNCHANGED <<memory, accesser, twin, overran>>
-----------------------------------------------------------------------------
(* The stream over the whole buffer is a memory stream of fixed size, what  *)
(* other streams write included; it gives the bytes that are there, and a   *)
(* number its lower ones; and nothing else of the memory is written, but    *)
(* the byte behind the buffer by a region or a number that ends there.      *)
IsMemoryStream ==
  /\ memread(accesser.m_virtualBase, BufferSize) = twin.data
  /\ streams[1].m_filePosition = accesser.m_virtualBase + twin.at
  /\ SubSeq(buffer.bytes, 1, buffer.count)
       = memread(streams[buffer.stream].m_filePosition - buffer.count, buffer.count)
  /\ number # NoNumber => readUint(number.address) = SubSeq(number.bytes, 1, UintBytes)
  /\ \A a \in DOMAIN memory \ (m_startAddress .. m_endAddress - 1) :
       memory[a] # zero => a = m_endAddress /\ overran

(* The accesser lets through what is within the buffer, and nothing that is *)
(* not within it and the byte behind it, but addresses, where they are as   *)
(* wide as the sum, whose sum with the start overflows.                     *)
AddressesChecked ==
  \A address \in 0 .. AddressRange - 1, length \in 1 .. MaxRequest :
    LET at == address - accesser.m_virtualBase
    IN /\ at >= 0 /\ at + length <= BufferSize => ~Throws(address, length)
       /\ ~Throws(address, length) /\ ~(accesser.wide /\ at + m_startAddress >= AddressRange)
            => at >= 0 /\ at + length <= BufferSize + 1

MemoryTypeOK ==
  /\ memory \in [0 .. AddressRange - 1 -> Value]
  /\ accesser \in [m_virtualBase : Bases, wide : BOOLEAN]
  /\ Len(streams) \in 1 .. MaxStreams
  /\ \A s \in DOMAIN streams :
       streams[s].m_filePosition \in streams[s].m_startAddress .. streams[s].m_endAddress
  /\ number = NoNumber \/ number.bytes \in Strings({MachineBytes})
=============================================================================
