------------------------------- MODULE Filters -------------------------------
(***************************************************************************)
(* The streams side by side for one run, with what is computed over them:  *)
(* a behaviour picks one component, and the others rest in a fixed initial *)
(* state.                                                                  *)
(***************************************************************************)
EXTENDS Integers, Sequences

CONSTANTS Byte, readCache, writeCache, MaxLength, MaxChunk,      \* CacheStream
          BITS_IN_BYTE, Width, MaxNumbers,                       \* BitStream
          MaxByte, Flags, Data, MaxPlain,                        \* RleStream
          m_bitSize, Digits, MaxDigits, MaxWrites,               \* LzwStream
          BestRequest, Room, MaxSource,                          \* PipeIO, Records
          Waits, SocketRoom, Lengths, MaxBytes, MaxReplies,      \* SocketStream
          Setters, MaxConnections,
          Name, OpenFlags, Handles, MaxFiles, MaxPlace, Lends,   \* FileStream
          Base, Ascii, NumberBytes, Characters, MaxText,         \* Records
          Limits, MaxItems,
          WordBytes, UintRange, BlockWords, DigestLength,        \* HashDigest
          KeyLengths, Chunks, MaxMessage, MaxCopied,
          RC4KEY_LEN, Secrets, MaxStream,                        \* Keystreams
          Value, AddressRange, BufferAt, BufferSize, Bases,      \* MemoryAccess
          UintBytes, MachineBytes, MaxRequest, MaxStreams

ASSUME CacheAssumption ==
  /\ readCache \in Nat \ {0} /\ writeCache \in Nat \ {0}
  /\ MaxLength \in Nat /\ MaxChunk \in Nat \ {0}

ASSUME BitAssumption ==
  BITS_IN_BYTE \in Nat \ {0} /\ Width \subseteq Nat \ {0} /\ MaxNumbers \in Nat

ASSUME LzwAssumption ==
  /\ m_bitSize \in Nat \ {0, 1} /\ Digits \subseteq 0 .. 2 ^ m_bitSize - 1
  /\ MaxDigits \in Nat \ {0} /\ MaxWrites \in Nat

ASSUME PipeAssumption ==
  BestRequest \in Nat \ {0} /\ Room \in Nat /\ MaxSource \in Nat

ASSUME RleAssumption ==
  /\ MaxByte \in Nat \ {0} /\ Flags \subseteq 0 .. MaxByte /\ Data \subseteq 0 .. MaxByte
  /\ MaxPlain \in Nat

(* Timeouts are counted in waits, and a call moves something.               *)
ASSUME SocketAssumption ==
  Waits \subseteq Nat /\ SocketRoom \in Nat \ {0} /\ Lengths \subseteq Nat \ {0}

(* Names and handles of the system, and whether handles are lent.          *)
ASSUME FileAssumption ==
  Handles \subseteq Nat /\ MaxFiles \in Nat \ {0} /\ MaxPlace \in Nat \ {0} /\ Lends \in BOOLEAN

(* The types of addresses and the ASCII characters are bytes, and a wide    *)
(* character is two.                                                        *)
ASSUME RecordAssumption ==
  /\ Base \in Nat /\ Base > 4 /\ Ascii \in 2 .. Base
  /\ Characters \subseteq 1 .. Base ^ 2 - 1 /\ NumberBytes \subseteq Nat \ {0}

(* A block ends with the two words of the length, whose bits fit a counter. *)
ASSUME CipherAssumption ==
  /\ WordBytes \in Nat \ {0} /\ BlockWords \in Nat /\ BlockWords > 2
  /\ UintRange % (BlockWords * WordBytes) = 0
  /\ \E n \in 1 .. RC4KEY_LEN : RC4KEY_LEN = 2 ^ n

VARIABLES component,
          down, readAhead, lazyWrite, result,
          writeSide, readSide, packed, consumed, sent, received, stage,
          m_flag, m_w_compression_byte, m_w_count,
          m_r_is_compress, m_r_compression_byte, m_r_count,
          coded, codedAt, plain, restored, decoding, stale,
          lzwWriter, lzwReader, lzwCoded, lzwAt, lzwPlain, lzwRestored, lzwWrites, lzwStage,
          content, source, chunk, copied, copyAt,
          listening, m_isInit, m_isClosed, timeout, connection, broken, queue,
          socketSent, socketReceived, socketAt, left, array, threw, connections,
          disk, fileLength, handles, m_file, cFile, opened, kept, piping,
          m_isLittleEndian, m_shouldEncodeType, enforceType, items, wire, cut,
          recordAt, recordRestored, thrown,
          digests, message, hmac,
          hash, m_digest, round, registers, input, defined, words, taken,
          value64, value16, summed,
          key, writer, reader, random, cipherPlain, encrypted, cipherRestored, drawn, secret, mixed,
          memory, accesser, streams, buffer, number, twin, overran

Cache == INSTANCE CacheStream
Bits == INSTANCE BitStream
Rle == INSTANCE RleStream
Lzw == INSTANCE LzwStream
Pipe == INSTANCE PipeIO
Socket == INSTANCE SocketStream WITH
            Room <- SocketRoom, sent <- socketSent, received <- socketReceived, at <- socketAt
File == INSTANCE FileStream WITH Stream <- {"one", "other"}, MaxLength <- MaxPlace
Record == INSTANCE Records WITH at <- recordAt, restored <- recordRestored
Digest == INSTANCE HashDigest WITH
            getDataLen <- BlockWords, getDigestLength <- DigestLength, WordBits <- 8,
            Compressed <- {[i \in 0 .. 15 |-> (c * i * i + 5 * i + c) % 256] : c \in {1, 7, 200}},
            MaxCompressed <- 2
(* The polynomials and messages of the checksums, of two bits in a byte.    *)
Checksum == INSTANCE Checksums WITH
              ByteBits <- 2, poly64 <- {1, 3, 4, 9, 15}, poly16 <- {0, 1},
              INITIAL_VALUE <- {0, 1, 2, 3}, Data <- {{0}, {0, 1}}, MaxMessage <- 7
Keystream == INSTANCE Keystreams WITH
               Keys <- UNION {[1 .. n -> 0 .. RC4KEY_LEN - 1] : n \in 1 .. 2},
               cipher <- encrypted, plain <- cipherPlain, restored <- cipherRestored
Memory == INSTANCE MemoryAccess

ASSUME MemoryAssumption == Memory!MemoryConstants

cacheVars == <<down, readAhead, lazyWrite, result>>
bitsVars == <<writeSide, readSide, packed, consumed, sent, received, stage>>
rleVars == <<m_flag, m_w_compression_byte, m_w_count,
             m_r_is_compress, m_r_compression_byte, m_r_count,
             coded, codedAt, plain, restored, decoding, stale>>
lzwVars == <<lzwWriter, lzwReader, lzwCoded, lzwAt, lzwPlain, lzwRestored, lzwWrites, lzwStage>>
pipeVars == <<content, source, chunk, copied, copyAt>>
socketVars == <<listening, m_isInit, m_isClosed, timeout, connection, broken,
                queue, socketSent, socketReceived, socketAt, left, array, threw, connections>>
fileVars == <<disk, fileLength, handles, m_file, cFile, opened, kept, piping>>
recordVars == <<m_isLittleEndian, m_shouldEncodeType, enforceType,
                items, wire, cut, recordAt, recordRestored, thrown>>
digestVars == <<digests, message, hmac>>
compressionVars == <<hash, m_digest, round, registers, input, defined, words, taken>>
checksumVars == <<value64, value16, summed>>
keystreamVars == <<key, writer, reader, random, cipherPlain, encrypted, cipherRestored,
                   drawn, secret, mixed>>
cipherVars == <<digestVars, compressionVars, checksumVars, keystreamVars>>
memoryVars == <<memory, accesser, streams, buffer, number, twin, overran>>
filterVars == <<cacheVars, bitsVars, rleVars, lzwVars>>
streamVars == <<pipeVars, socketVars, fileVars, memoryVars>>
vars == <<component, filterVars, streamVars, recordVars, cipherVars>>

Component == {"cache", "bits", "rle", "lzw", "pipe", "socket", "file", "memory", "record",
              "digest", "compression", "checksum", "keystream"}

(* What a component that rests is fixed to, of what its Init leaves open.   *)
Init ==
  /\ component \in Component
  /\ component # "rle" => m_flag = CHOOSE flag \in Flags : TRUE
  /\ component # "pipe" => content = <<>>
  /\ component # "socket" => timeout = Socket!Both(Socket!Ways(-1))
  /\ component # "file" => disk = [n \in Name |-> 0]
  /\ component # "record" => /\ m_isLittleEndian = TRUE
                             /\ m_shouldEncodeType = TRUE
  /\ component # "memory" => accesser = [m_virtualBase |-> 0, wide |-> TRUE]
  /\ component # "compression" => hash = "sha1"
  /\ component # "keystream" => key = <<1>> /\ secret = CHOOSE n \in Secrets : TRUE
  /\ Cache!Init /\ Bits!Init /\ Rle!Init /\ Lzw!Init /\ Pipe!Init
  /\ Socket!SocketInit /\ File!FileInit /\ Record!RecordsInit
  /\ Digest!DigestInit /\ Digest!CompressionInit /\ Checksum!ChecksumInit /\ Keystream!KeystreamInit
  /\ Memory!MemoryInit
  /\ component # "bits" => writeSide.byte = readSide.byte

CacheMoves ==
  /\ component = "cache" /\ Cache!Next
  /\ UNCHANGED <<component, bitsVars, rleVars, lzwVars, streamVars, recordVars, cipherVars>>

BitsMove ==
  /\ component = "bits" /\ Bits!Next
  /\ UNCHANGED <<component, cacheVars, rleVars, lzwVars, streamVars, recordVars, cipherVars>>

RleMoves ==
  /\ component = "rle" /\ Rle!Next
  /\ UNCHANGED <<component, cacheVars, bitsVars, lzwVars, streamVars, recordVars, cipherVars>>

LzwMoves ==
  /\ component = "lzw" /\ Lzw!Next
  /\ UNCHANGED <<component, cacheVars, bitsVars, rleVars, streamVars, recordVars, cipherVars>>

OthersRest == UNCHANGED <<component, filterVars, socketVars, fileVars, memoryVars, recordVars, cipherVars>>
PipeMoves == component = "pipe" /\ Pipe!Next /\ OthersRest
PipeProgress == component = "pipe" /\ Pipe!Progress /\ OthersRest

SocketRest == UNCHANGED <<component, filterVars, pipeVars, fileVars, memoryVars, recordVars, cipherVars>>
SocketMoves == component = "socket" /\ Socket!SocketNext /\ SocketRest
SocketReads(e) == component = "socket" /\ Socket!Reads(e) /\ SocketRest

FileRest == UNCHANGED <<component, filterVars, pipeVars, socketVars, memoryVars, recordVars, cipherVars>>
FileMoves == component = "file" /\ File!FileNext /\ FileRest
FileTurn == component = "file" /\ File!PipeTurn /\ FileRest

MemoryMoves ==
  /\ component = "memory" /\ Memory!MemoryNext
  /\ UNCHANGED <<component, filterVars, pipeVars, socketVars, fileVars, recordVars, cipherVars>>

RecordsMove ==
  /\ component = "record" /\ Record!RecordsNext
  /\ UNCHANGED <<component, filterVars, streamVars, cipherVars>>

CiphersMove ==
  /\ UNCHANGED <<component, filterVars, streamVars, recordVars>>
  /\ \/ /\ component = "digest" /\ Digest!DigestNext
        /\ UNCHANGED <<compressionVars, checksumVars, keystreamVars>>
     \/ /\ component = "compression" /\ Digest!CompressionNext
        /\ UNCHANGED <<digestVars, checksumVars, keystreamVars>>
     \/ /\ component = "checksum" /\ Checksum!ChecksumNext
        /\ UNCHANGED <<digestVars, compressionVars, keystreamVars>>
     \/ /\ component = "keystream" /\ Keystream!KeystreamNext
        /\ UNCHANGED <<digestVars, compressionVars, checksumVars>>

Next ==
  \/ CacheMoves \/ BitsMove \/ RleMoves \/ LzwMoves \/ PipeMoves
  \/ SocketMoves \/ FileMoves \/ MemoryMoves \/ RecordsMove \/ CiphersMove

(* A call that is under way goes on: the turns of copyStream, the reads of  *)
(* the server's end of a connection, and the turns of pipeRead of a file,   *)
(* of which a behaviour has only one.                                       *)
Spec ==
  /\ Init /\ [][Next]_vars
  /\ WF_vars(PipeProgress \/ FileTurn \/ SocketReads("server"))
-----------------------------------------------------------------------------
(* Every component keeps its state in range. *)
TypeOK ==
  /\ component \in Component
  /\ Cache!TypeOK /\ Bits!TypeOK /\ Rle!TypeOK /\ Lzw!TypeOK /\ Pipe!TypeOK
  /\ Socket!SocketTypeOK /\ File!FileTypeOK /\ Record!RecordsTypeOK
  /\ Digest!DigestTypeOK /\ Checksum!ChecksumTypeOK /\ Keystream!KeystreamTypeOK
  /\ Memory!MemoryTypeOK

(* To a careful client the cached stream is the file it caches. *)
CacheIsFile == Cache!CacheIsFile

(* What was written reads back: numbers of any width through the bit stream,*)
(* runs through the run length codec, one write through LZW, whose reader   *)
(* rebuilds the writer's table, and serialised items in either endianness.  *)
WrittenReadBack ==
  /\ component = "bits" => Bits!NumbersReadBack
  /\ component = "rle" => Rle!RunsReadBack
  /\ component = "lzw" => Lzw!TablesInStep /\ Lzw!WrittenReadBack
  /\ component = "record" => Record!RecordsReadBack

(* copyStream loses, repeats and reorders nothing; file streams read and    *)
(* write the file they were opened on, and streams over memory their        *)
(* buffer.                                                                  *)
BytesKept ==
  /\ component = "pipe" => Pipe!CopyIsExact
  /\ component = "file" => File!StreamsStayOnFiles
  /\ component = "memory" => Memory!IsMemoryStream /\ Memory!AddressesChecked

(* A connection gives the bytes that its callers sent. *)
SocketKeepsItsWord == component = "socket" => Socket!SocketKeepsItsWord

(* pipeRead of a socket ends short only when the peer has closed. *)
PipeReadIsWhole == Socket!PipeReadIsWhole

(* A digest is the hash of the message, an HMAC that of its key and text, a *)
(* checksum the remainder of the message, in whatever pieces they were      *)
(* given; the unrolled rounds compute the hashes as they are defined; and   *)
(* both ends of a cipher are at the same place of its stream.               *)
PiecesMakeNoDifference ==
  /\ component = "compression" => Digest!CompressionIsStandard
  /\ component = "digest" => Digest!DigestsAreHashes
  /\ component = "checksum" => Checksum!ChecksumsAreRemainders
  /\ component = "keystream" => Keystream!StreamsAgree

(* What ends: copyStream if the destination has room, pipeRead of a socket  *)
(* when enough has arrived, and pipeRead of a file from within the file.    *)
StreamsEnd ==
  /\ component = "pipe" => Pipe!CopyEnds
  /\ component = "socket" => Socket!PipeReadEnds("server")
  /\ component = "file" => File!FileReadEnds
=============================================================================
