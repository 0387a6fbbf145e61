------------------------------- MODULE Records -------------------------------
(***************************************************************************)
(* What basicOutput writes and basicInput reads back: numbers of either    *)
(* endianness, texts in their formats, arrays, remote addresses and lists  *)
(* of fragments.  A writer writes items, the stream may be cut behind any  *)
(* byte, and a reader reads the same items in order until one throws.  The *)
(* machine is little endian; bytes are digits to the base Base, and a wide *)
(* character is of two of them.  Memory never set is Unset.                *)
(***************************************************************************)
EXTENDS Integers, SequencesExt

CONSTANTS Base,               \* 256
          Ascii,              \* the ASCII characters are 0 .. Ascii - 1, 128
          NumberBytes,        \* the widths of numbers written
          Characters,         \* those of the texts, not 0, for covert2Ascii's ? is 1
          MaxText,            \* bound: the length of texts, arrays, lists
          Limits,             \* the numberOfCharacter given to reads
          BestRequest,        \* getPipeReadBestRequest
          MaxItems            \* bound

VARIABLES m_isLittleEndian,   \* of both ends, as the next two
          m_shouldEncodeType,
          enforceType,
          items, wire,        \* what was written, and its bytes
          cut,                \* the writing is over: "no", "whole", "cut"
          at, restored, thrown

recordVars == <<m_isLittleEndian, m_shouldEncodeType, enforceType,
                items, wire, cut, at, restored, thrown>>

Unset == -1
Unknown == 1                  \* the ? of covert2Ascii
LOCAL Least(a, b) == IF a < b THEN a ELSE b
Texts == UNION {[1 .. n -> Characters] : n \in 0 .. MaxText}

(* cEndian.                                                                 *)
Little(n, bytes) == [i \in 1 .. bytes |-> (n \div Base ^ (i - 1)) % Base]
writeUint(n, bytes) ==
  IF m_isLittleEndian THEN Little(n, bytes) ELSE Reverse(Little(n, bytes))

readUint(b) == FoldRight(LAMBDA byte, n : n * Base + byte,
                         IF m_isLittleEndian THEN b ELSE Reverse(b), 0)

(* An integer goes as the unsigned number of its bits.                      *)
Signed(n, bytes) == IF 2 * n >= Base ^ bytes THEN n - Base ^ bytes ELSE n

covert2Ascii(text) == [i \in 1 .. Len(text) |-> IF text[i] < Ascii THEN text[i] ELSE Unknown]
Wide(text) == FlattenSeq([i \in 1 .. Len(text) |-> Little(text[i], 2)])

(* A remote address: its type, which is its number of bytes in pairs, and   *)
(* its number; without types the ends agree on one.                         *)
Types == {1, 2, 4}
Sent(address) == IF m_shouldEncodeType THEN address[1] ELSE enforceType
Clipped(address, type) == address[2] % Base ^ (2 * type)
AddressBytes(address) ==
  (IF m_shouldEncodeType THEN <<address[1] % Base>> ELSE <<>>)
    \o writeUint(Clipped(address, Sent(address)), 2 * Sent(address))
Arrives(address) == <<Sent(address), Clipped(address, Sent(address))>>
Addresses == Types \X {1, Base ^ 2 + 1}

(* Fragments, a start and an end each, are the memory that is not valid.    *)
isInsideRange(address, start, end) ==
  Clipped(address, address[1]) \in Clipped(start, start[1]) .. Clipped(end, end[1])
isMemoryValid(address, ranges) ==
  \A i \in 1 .. Len(ranges) \div 2 : ~isInsideRange(address, ranges[2 * i - 1], ranges[2 * i])
-----------------------------------------------------------------------------
RecordsInit ==
  /\ m_isLittleEndian \in BOOLEAN /\ m_shouldEncodeType \in BOOLEAN
  /\ enforceType = 1
  /\ items = <<>> /\ wire = <<>> /\ cut = "no"
  /\ at = 0 /\ restored = <<>> /\ thrown = FALSE

Fixed == <<m_isLittleEndian, m_shouldEncodeType, enforceType>>

(* An item, with what a reader is to know and get of it, and its bytes.     *)
Put(kind, knows, gets, bytes) ==
  /\ cut = "no" /\ Len(items) < MaxItems
  /\ \A i \in 1 .. Len(items) : items[i].kind # "rest"
  /\ items' = Append(items, [kind |-> kind, knows |-> knows, gets |-> gets])
  /\ wire' = wire \o bytes
  /\ UNCHANGED <<Fixed, cut, at, restored, thrown>>

streamWriteInt(n, bytes, isSigned) ==
  LET number == n % Base ^ bytes
  IN Put("number", <<bytes, isSigned>>, IF isSigned THEN Signed(number, bytes) ELSE number,
         writeUint(number, bytes))
writeAsciiNullString(text, limit) ==
  Put("text", limit, covert2Ascii(text), Append(covert2Ascii(text), 0))
writeUnicodeNullString(text, limit) == Put("wide", limit, text, Wide(Append(text, 0)))
WritePascal(text, limit, bytes) ==
  Put("pascal", <<limit, bytes>>, covert2Ascii(text),
      writeUint(Len(text), bytes) \o covert2Ascii(text))
writeFixedSizeString(text, n, unicodeSize) ==
  LET there == SubSeq(text, 1, Least(Len(text), n))
      padded == there \o [i \in 1 .. n - Len(there) |-> 0]
  IN Put("fixed", <<n, unicodeSize>>, IF unicodeSize = 1 THEN covert2Ascii(there) ELSE there,
         IF unicodeSize = 1 THEN covert2Ascii(padded) ELSE Wide(padded))
serializeArray(bytes) == Put("array", {}, bytes, writeUint(Len(bytes), 4) \o bytes)
streamWriteRemoteAddress(address) ==
  Put("address", {}, Arrives(address), AddressBytes(address))
serializeFragments(ranges) ==
  Put("fragments", ranges, [i \in 1 .. Len(ranges) |-> Arrives(ranges[i])],
      writeUint(Len(ranges) \div 2, 2)
        \o FlattenSeq([i \in 1 .. Len(ranges) |-> AddressBytes(ranges[i])]))
WriteRest(bytes) == Put("rest", {}, bytes, bytes)

(* The writing is over, and the stream ends there or anywhere before.       *)
Ends(n) ==
  /\ cut = "no" /\ items # <<>> /\ n \in 0 .. Len(wire)
  /\ wire' = SubSeq(wire, 1, n) /\ cut' = IF n = Len(wire) THEN "whole" ELSE "cut"
  /\ UNCHANGED <<Fixed, items, at, restored, thrown>>
-----------------------------------------------------------------------------
Item == items[Len(restored) + 1]
Reading(kind) == cut # "no" /\ ~thrown /\ Len(restored) < Len(items) /\ Item.kind = kind

(* What pipeRead gives of n bytes from the i-th one on, and the state after.*)
Got(i, n) == SubSeq(wire, at + i, Least(at + i + n - 1, Len(wire)))
Whole(i, n) == at + i + n - 1 <= Len(wire)
Rest == Len(wire) - at
Returns(value, used) ==
  /\ restored' = Append(restored, value) /\ at' = Least(at + used, Len(wire))
  /\ UNCHANGED <<Fixed, items, wire, cut, thrown>>
Throws == thrown' = TRUE /\ UNCHANGED <<Fixed, items, wire, cut, at, restored>>
If(possible, value, used) == IF possible THEN Returns(value, used) ELSE Throws
Filled(bytes, n) == bytes \o [i \in 1 .. n - Len(bytes) |-> Unset]

streamReadInt ==
  /\ Reading("number")
  /\ LET bytes == Item.knows[1]
         n == readUint(Got(1, bytes))
     IN If(Whole(1, bytes), IF Item.knows[2] THEN Signed(n, bytes) ELSE n, bytes)

(* Characters up to a 0, or a throw if there is none within the limit,      *)
(* which counts the 0.                                                      *)
UpToNull(chars) == IF 0 \in ToSet(chars)
                     THEN SubSeq(chars, 1, SelectInSeq(chars, LAMBDA c : c = 0) - 1) ELSE chars
ScanFor0(chars, limit, size) ==
  LET text == UpToNull(chars)
  IN If(Len(text) < Len(chars) /\ Len(text) < limit, text, size * (Len(text) + 1))
readAsciiString == Reading("text") /\ ScanFor0(Got(1, Rest), Item.knows, 1)

(* One byte is taken for a character: its other byte is that of the         *)
(* character before.                                                        *)
readUnicodeString ==
  /\ Reading("wide")
  /\ LET low(j) == wire[at + 2 * j - 1]
         high(j) == IF at + 2 * j <= Len(wire) THEN wire[at + 2 * j]
                    ELSE IF j = 1 THEN 0 ELSE wire[at + 2 * j - 2]
     IN ScanFor0([j \in 1 .. (Rest + 1) \div 2 |-> low(j) + Base * high(j)], Item.knows, 2)

readAsciiPascalString ==
  /\ Reading("pascal")
  /\ LET bytes == Item.knows[2]
         length == readUint(Got(1, bytes))
     IN If(Whole(1, bytes) /\ length <= Item.knows[1] /\ Whole(bytes + 1, length),
           UpToNull(Got(bytes + 1, length)), bytes + length)

(* Nobody asks how many bytes pipeRead has given.                           *)
readFixedSizeString ==
  /\ Reading("fixed")
  /\ LET n == Item.knows[1]
         size == Item.knows[2]
         b == Filled(Got(1, n * size), n * size)
         char(j) == IF size = 1 THEN b[j]
                    ELSE IF b[2 * j] = Unset THEN Unset ELSE b[2 * j - 1] + Base * b[2 * j]
     IN Returns(UpToNull([j \in 1 .. n |-> char(j)]), n * size)
deserializeArray ==
  /\ Reading("array")
  /\ LET count == readUint(Got(1, 4))
     IN If(Whole(1, 4), Filled(Got(5, count), count), 4 + count)

(* Addresses one after the other, each of the type it says.                 *)
TypeAt(i) == IF m_shouldEncodeType THEN (IF Whole(i, 1) THEN Got(i, 1)[1] ELSE 0) ELSE enforceType
TypeByte == IF m_shouldEncodeType THEN 1 ELSE 0
AddressEnd(i) == i + TypeByte + 2 * (IF TypeAt(i) = 0 THEN Base ELSE TypeAt(i))
AddressAt(i) == <<TypeAt(i), readUint(Got(i + TypeByte, 2 * TypeAt(i)))>>
starts[k \in 1 .. 2 * MaxText + 1] == IF k = 1 THEN 3 ELSE AddressEnd(starts[k - 1])
streamReadRemoteAddress ==
  Reading("address") /\ If(AddressEnd(1) - 1 <= Rest, AddressAt(1), AddressEnd(1) - 1)
deserializeFragments ==
  /\ Reading("fragments")
  /\ LET n == 2 * readUint(Got(1, 2))
     IN If(IF Whole(1, 2) THEN starts[n + 1] - 1 <= Rest ELSE FALSE,
           [k \in 1 .. n |-> AddressAt(starts[k])], starts[n + 1] - 1)

(* readAllStream: as many bytes as there are, of a stream that can tell, or  *)
(* chunks until a short one.                                                *)
chunks[n \in 0 .. Rest] ==
  IF n + BestRequest <= Rest THEN chunks[n + BestRequest] ELSE n + Least(BestRequest, Rest - n)
readAllStream ==
  /\ Reading("rest")
  /\ \E canLength \in BOOLEAN : Returns(Got(1, IF canLength THEN Rest ELSE chunks[0]), Rest)

RecordsNext ==
  \/ \E bytes \in NumberBytes, n \in {-1, 1, Base}, isSigned \in BOOLEAN : streamWriteInt(n, bytes, isSigned)
  \/ \E text \in Texts, limit \in Limits :
       \/ writeAsciiNullString(text, limit) \/ writeUnicodeNullString(text, limit)
       \/ WritePascal(text, limit, 1) \/ WritePascal(text, limit, 2)
  \/ \E text \in Texts, unicodeSize \in {1, 2} : writeFixedSizeString(text, 1, unicodeSize)
  \/ \E bytes \in Texts : serializeArray(covert2Ascii(bytes)) \/ WriteRest(covert2Ascii(bytes))
  \/ \E address \in Addresses : streamWriteRemoteAddress(address) \/ serializeFragments(<<address, <<4, Base ^ 2 + 1>> >>)
  \/ serializeFragments(<<>>)
  \/ \E n \in 0 .. Len(wire) : Ends(n)
  \/ streamReadInt \/ readAsciiString \/ readUnicodeString \/ readAsciiPascalString
  \/ readFixedSizeString \/ deserializeArray \/ streamReadRemoteAddress
  \/ deserializeFragments \/ readAllStream
-----------------------------------------------------------------------------
RecordsTypeOK ==
  /\ cut \in {"no", "whole", "cut"} /\ thrown \in BOOLEAN /\ at \in 0 .. Len(wire)
  /\ \A i \in 1 .. Len(wire) : wire[i] \in 0 .. Base - 1

(* Whether a read may refuse the text of an item: the limit of a text that  *)
(* ends with a 0 counts the 0, and that of the others does not.             *)
OverLimit(item) ==
  \/ item.kind \in {"text", "wide"} /\ Len(item.gets) >= item.knows
  \/ item.kind = "pascal" /\ Len(item.gets) > item.knows[1]

(* What a cut stream may give instead of the item without a word: memory    *)
(* never set, and of a wide text, or of all the rest, the first part.       *)
FirstPart(item, value) ==
  \E n \in 0 .. Len(item.gets) :
    \/ item.kind \in {"fixed", "array"} /\ value = Filled(SubSeq(item.gets, 1, n), Len(value))
    \/ item.kind \in {"wide", "rest"} /\ value = SubSeq(item.gets, 1, n)

(* A reader gets what the writer wrote, item after item, in either order of *)
(* bytes; a read throws only if the stream was cut or a text is too long;   *)
(* and only fixed texts, arrays, wide texts and the rest of a stream are    *)
(* returned from one that was cut, and then as far as they were there.      *)
(* Fragments that came with the types of their addresses make the same      *)
(* memory invalid at both ends, though numbers are clipped on the way.      *)
RecordsReadBack ==
  /\ \A i \in 1 .. Len(restored) :
       \/ restored[i] = items[i].gets
       \/ cut = "cut" /\ FirstPart(items[i], restored[i])
  /\ thrown => cut = "cut" \/ OverLimit(items[Len(restored) + 1])
  /\ \A i \in 1 .. Len(restored) :
       items[i].kind = "fragments" /\ m_shouldEncodeType =>
         \A address \in Addresses :
           isMemoryValid(address, restored[i]) = isMemoryValid(address, items[i].knows)
=============================================================================
