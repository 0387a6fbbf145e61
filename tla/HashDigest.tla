----------------------------- MODULE HashDigest ------------------------------
(***************************************************************************)
(* cHashDigest, which cuts a message into blocks for cMD5 and cSHA1, and   *)
(* cHMAC over it.  A digest object, a copy of it, and an HMAC that shares  *)
(* the object.  There, what a hash computes of a block is left open: a     *)
(* digest is the sequence of the blocks it was computed from, and a byte a *)
(* pair of its origin and its place there.  The compression functions that *)
(* compute it are at the end, over words of WordBits bits.                 *)
(***************************************************************************)
EXTENDS Naturals, SequencesExt

CONSTANTS WordBytes,      \* bytes in a word, 4
          getDataLen,     \* words in a block, 16
          getDigestLength,\* bytes of a digest
          UintRange,      \* where the block counters wrap, 2^32
          KeyLengths,     \* the lengths of HMAC keys
          Chunks,         \* the lengths of the buffers given to update
          MaxMessage,     \* bound: bytes of the first object's message
          MaxCopied,      \* bound: those of its copy, and of an HMAC's text
          WordBits,       \* bits of a word of the compression functions, 32
          Compressed,     \* blocks of 16 such words, from place 0 on
          MaxCompressed   \* bound: blocks of one message

VARIABLES digests,        \* the two objects
          message,        \* ghost: the bytes each was given since its reset
          hmac,           \* [made, m_innerKey, m_outterKey, key, m_text]
          hash, m_digest, round, \* SHA1 or MD5; HASHTransform's round
          registers, input, \* its locals and the words it is given
          defined, words, taken \* ghosts: what they are by definition; blocks

digestVars == <<digests, message, hmac>>
compressionVars == <<hash, m_digest, round, registers, input, defined, words, taken>>

Objects == {"first", "copy"}
m_blockSize == getDataLen * WordBytes
KEY_B_LENGTH == m_blockSize
BlockBits == m_blockSize          \* a byte stands for one bit of the length

Bytes(origin, n, from) == [i \in 1 .. n |-> <<origin, from + i>>]
Zero == <<"zero", 0>>
Zeros(n) == [i \in 1 .. n |-> Zero]

(* The object as its constructor leaves it, and as reset() of the hash does.*)
NewDigest ==
  [m_isValid |-> FALSE, m_digest |-> <<>>, m_block |-> <<>>,
   m_count_l |-> 0, m_count_h |-> 0, m_index |-> 0]
reset(d) ==
  [NewDigest EXCEPT !.m_isValid = TRUE,
                    !.m_block = IF d.m_block = <<>> THEN Zeros(m_blockSize) ELSE d.m_block]

Words(bytes) == [w \in 1 .. Len(bytes) \div WordBytes |->
                   SubSeq(bytes, (w - 1) * WordBytes + 1, w * WordBytes)]
HASHTransform(d, data) == [d EXCEPT !.m_digest = Append(@, data)]

(* Faulty: the carry of the block counter is lost. *)
CarryLost(d) == [d EXCEPT !.m_count_l = (@ + 1) % UintRange]

CountBlock(d) ==
  [d EXCEPT !.m_count_l = (@ + 1) % UintRange,
            !.m_count_h = IF d.m_count_l = UintRange - 1 THEN @ + 1 ELSE @]
HASHBlock(d, block) == HASHTransform(CountBlock(d), Words(block))

(* Bytes over the beginning of the block buffer, from some place on.        *)
Over(block, from, bytes) ==
  SubSeq(block, 1, from) \o bytes \o SubSeq(block, from + Len(bytes) + 1, Len(block))
HASHBlocks(d, bytes) ==
  FoldLeft(HASHBlock, d, [k \in 1 .. Len(bytes) \div m_blockSize |->
                            SubSeq(bytes, (k - 1) * m_blockSize + 1, k * m_blockSize)])

(* update: a partial block is filled first, whole blocks are taken from the *)
(* buffer, and what is left over waits in the block buffer.                 *)
Ready(d) == IF d.m_isValid THEN d ELSE reset(d)
update(old, buf) ==
  LET d == Ready(old)
      space == m_blockSize - d.m_index
      filled == d.m_index > 0 /\ Len(buf) >= space
      head == IF filled THEN space ELSE 0
      first == IF filled THEN [d EXCEPT !.m_block = Over(@, d.m_index, SubSeq(buf, 1, space))] ELSE d
      begun == IF filled THEN HASHBlock(first, first.m_block) ELSE first
      body == ((Len(buf) - head) \div m_blockSize) * m_blockSize
      rest == SubSeq(buf, head + body + 1, Len(buf))
  IN IF d.m_index > 0 /\ ~filled
       THEN [d EXCEPT !.m_block = Over(@, d.m_index, buf), !.m_index = @ + Len(buf)]
       ELSE [HASHBlocks(begun, SubSeq(buf, head + 1, head + body))
               EXCEPT !.m_index = Len(rest), !.m_block = Over(@, 0, rest)]

(* The two words of the length, in bits: blocks counted and bytes waiting.  *)
(* Which of them comes first is the hash's endianness.                      *)
LengthWords(d) ==
  LET low == ((d.m_count_l * BlockBits) % UintRange) + d.m_index
      high == ((d.m_count_h * BlockBits) % UintRange) + (d.m_count_l \div (UintRange \div BlockBits))
  IN << << <<"length", low>> >>, << <<"length", high>> >> >>

ZeroWords(n) == [i \in 1 .. n |-> Zeros(WordBytes)]

(* HASHFinal: the padding, a block of its own for the length if there is no *)
(* room for it, and the length.                                             *)
HASHFinal(d) ==
  LET i == d.m_index + 1
      end == ((i + WordBytes - 1) \div WordBytes) * WordBytes
      begun == Over(d.m_block, d.m_index, << <<"pad", 0>> >> \o Zeros(end - i))
      data == Words(SubSeq(begun, 1, end))
      room == getDataLen - 2
  IN IF Len(data) > room
       THEN HASHTransform(HASHTransform(d, data \o ZeroWords(getDataLen - Len(data))),
                          ZeroWords(room) \o LengthWords(d))
       ELSE HASHTransform(d, data \o ZeroWords(room - Len(data)) \o LengthWords(d))

(* digest() finishes a clone: the object goes on with its message.          *)
Output(d) == [i \in 1 .. getDigestLength |-> <<"digest", <<d.m_digest, i>> >>]
digest(d) == Output(HASHFinal(d))

(* A key longer than a block is hashed; the inner and the outer key are its *)
(* bytes, and zeros, in two disguises.                                      *)
Xored(key, mask) == [i \in 1 .. Len(key) |-> <<mask, key[i]>>]
KeyBytes(d, key) == IF Len(key) > KEY_B_LENGTH THEN digest(update(reset(d), key)) ELSE key
PaddedKey(d, key) == KeyBytes(d, key) \o Zeros(KEY_B_LENGTH - Len(KeyBytes(d, key)))
-----------------------------------------------------------------------------
NoHmac == [made |-> FALSE, m_innerKey |-> <<>>, m_outterKey |-> <<>>, key |-> <<>>, m_text |-> <<>>]
DigestInit ==
  /\ digests = [o \in Objects |-> NewDigest] /\ message = [o \in Objects |-> <<>>]
  /\ hmac = NoHmac

Holds(o, d, bytes) ==
  /\ digests' = [digests EXCEPT ![o] = d] /\ message' = [message EXCEPT ![o] = bytes]

Bound(o) == IF o = "first" /\ ~hmac.made /\ ~digests["copy"].m_isValid THEN MaxMessage ELSE MaxCopied

Reset(o) == Len(message[o]) <= MaxCopied /\ Holds(o, reset(digests[o]), <<>>) /\ UNCHANGED hmac
Update(o, length) ==
  LET buf == Bytes(o, length, Len(message[o]))
  IN /\ Len(message[o]) + length <= Bound(o)
     /\ Holds(o, update(digests[o], buf), message[o] \o buf) /\ UNCHANGED hmac

(* clone(), the copy constructor and operator =.                            *)
copyFrom ==
  /\ digests["first"].m_isValid /\ Len(message["first"]) <= MaxCopied /\ ~hmac.made
  /\ Holds("copy", digests["first"], message["first"]) /\ UNCHANGED hmac

(* The HMAC of a key over the first object, which it resets; a long key     *)
(* stays in that object.                                                    *)
cHMAC(length) ==
  LET key == Bytes("key", length, 0)
      hashed == IF length > KEY_B_LENGTH THEN key ELSE <<>>
  IN /\ Len(message["first"]) <= MaxCopied /\ ~digests["copy"].m_isValid
     /\ hmac' = [made |-> TRUE, key |-> key, m_text |-> <<>>,
                 m_innerKey |-> Xored(PaddedKey(digests["first"], key), "inner"),
                 m_outterKey |-> Xored(PaddedKey(digests["first"], key), "outer")]
     /\ LET d == reset(digests["first"])
        IN Holds("first", IF hashed = <<>> THEN d ELSE update(d, hashed), hashed)

HmacUpdate(length) ==
  /\ hmac.made /\ Len(hmac.m_text) + length <= MaxCopied
  /\ hmac' = [hmac EXCEPT !.m_text = @ \o Bytes("text", length, Len(@))]
  /\ UNCHANGED <<digests, message>>
HmacReset ==
  /\ hmac.made /\ hmac' = [hmac EXCEPT !.m_text = <<>>]
  /\ Holds("first", reset(digests["first"]), <<>>)

(* digest() of the HMAC, with the object it leaves behind.                  *)
Keyed(d, key, bytes) == update(update(reset(d), key), bytes)
Inner(d) == Keyed(d, hmac.m_innerKey, hmac.m_text)
Outer(d) == Keyed(Inner(d), hmac.m_outterKey, digest(Inner(d)))
HmacDigest ==
  /\ hmac.made
  /\ LET d == digests["first"]
     IN Holds("first", Outer(d), hmac.m_outterKey \o digest(Inner(d)))
  /\ UNCHANGED hmac

DigestNext ==
  \/ copyFrom \/ HmacReset \/ HmacDigest
  \/ \E o \in Objects : Reset(o)
  \/ \E length \in Chunks : Update("first", length) \/ Update("copy", length) \/ HmacUpdate(length)
  \/ \E length \in KeyLengths : cHMAC(length)
-----------------------------------------------------------------------------
(* The compression functions, a round at a time.  Registers and the words   *)
(* of a block are functions from 0 on; of the constants the low bytes are   *)
(* kept, and of MD5's, which differ from round to round, only that.         *)
Range32 == 2 ^ WordBits
BitsOf(x) == {i \in 0 .. WordBits - 1 : (x \div 2 ^ i) % 2 = 1}
NumberOf(bits) == MapThenSumSet(LAMBDA i : 2 ^ i, bits)
x & y == NumberOf(BitsOf(x) \cap BitsOf(y))
x | y == NumberOf(BitsOf(x) \cup BitsOf(y))
x ^^ y == NumberOf((BitsOf(x) \cup BitsOf(y)) \ (BitsOf(x) \cap BitsOf(y)))
ROTL(n, x) ==
  LET s == n % WordBits IN ((x * 2 ^ s) % Range32) + (x \div 2 ^ (WordBits - s))
Complement(x) == Range32 - 1 - x
Registers == [sha1 |-> 5, md5 |-> 4]
Rounds == [sha1 |-> 80, md5 |-> 64]

(* The k-th argument of an unrolled round is one register further each time.*)
Register(t, k) == (k + (Registers[hash] - 1) * t) % Registers[hash]

Start == [k \in 0 .. Registers[hash] - 1 |-> <<1, 137, 254, 118, 240>>[k + 1] % Range32]
K(t) == <<153, 161, 220, 214>>[t \div 20 + 1]
f(t, x, y, z) ==
  CASE t < 20 -> z ^^ (x & (y ^^ z))
    [] t \in 40 .. 59 -> (x & y) | (z & (x | y))
    [] OTHER -> (x ^^ y) ^^ z
expand(W, i) ==
  ROTL(1, ((W[i % 16] ^^ W[(i - 14) % 16]) ^^ W[(i - 8) % 16]) ^^ W[(i - 3) % 16])
subRound(word) ==
  LET R(k) == registers[Register(round, k)]
  IN [registers EXCEPT
        ![Register(round, 4)] = (@ + ROTL(5, R(0)) + f(round, R(1), R(2), R(3)) + K(round) + word) % Range32,
        ![Register(round, 1)] = ROTL(30, @)]

F(t, x, y, z) ==
  CASE t < 16 -> z ^^ (x & (y ^^ z))
    [] t \in 16 .. 31 -> y ^^ (z & (x ^^ y))
    [] t \in 32 .. 47 -> (x ^^ y) ^^ z
    [] OTHER -> y ^^ (x | Complement(z))
Constant(t) == (37 * t + 120) % Range32
Turn(t) ==
  << <<7, 12, 17, 22>>, <<5, 9, 14, 20>>, <<4, 11, 16, 23>>, <<6, 10, 15, 21>> >>
    [t \div 16 + 1][(t % 4) + 1]
Order(t) ==
  << <<0, 1, 2, 3, 4, 5, 6, 7, 8, 9, 10, 11, 12, 13, 14, 15>>,
     <<1, 6, 11, 0, 5, 10, 15, 4, 9, 14, 3, 8, 13, 2, 7, 12>>,
     <<5, 8, 11, 14, 1, 4, 7, 10, 13, 0, 3, 6, 9, 12, 15, 2>>,
     <<0, 7, 14, 5, 12, 3, 10, 1, 8, 15, 6, 13, 4, 11, 2, 9>> >>[t \div 16 + 1][(t % 16) + 1]
ROUND(word) ==
  LET R(k) == registers[Register(round, k)]
      sum == (R(0) + F(round, R(1), R(2), R(3)) + word + Constant(round)) % Range32
  IN [registers EXCEPT ![Register(round, 0)] = (ROTL(Turn(round), sum) + R(1)) % Range32]

(* The definitions of the hashes: SHA1 makes 80 words of 16, MD5 computes   *)
(* their places, and all registers move on at once.                         *)
WordOf(t) ==
  IF t < 16 THEN words[t]
  ELSE ROTL(1, ((words[t - 3] ^^ words[t - 8]) ^^ words[t - 14]) ^^ words[t - 16])
PlaceOf(t) == <<t, 5 * t + 1, 3 * t + 5, 7 * t>>[t \div 16 + 1] % 16
Choice(t, x, y, z) ==
  CASE t < 16 \/ (hash = "sha1" /\ t < 20) -> (x & y) | (Complement(x) & z)
    [] hash = "sha1" /\ t \in 40 .. 59 -> ((x & y) | (x & z)) | (y & z)
    [] hash = "md5" /\ t < 32 -> (x & z) | (y & Complement(z))
    [] hash = "md5" /\ t >= 48 -> y ^^ (x | Complement(z))
    [] OTHER -> (x ^^ y) ^^ z
Sha1Moves ==
  [k \in 0 .. 4 |->
     CASE k = 0 -> (ROTL(5, defined[0]) + Choice(round, defined[1], defined[2], defined[3])
                      + defined[4] + K(round) + WordOf(round)) % Range32
       [] k = 2 -> ROTL(30, defined[1])
       [] OTHER -> defined[k - 1]]
Md5Moves ==
  LET sum == (defined[0] + Choice(round, defined[1], defined[2], defined[3])
                + words[PlaceOf(round)] + Constant(round)) % Range32
  IN [k \in 0 .. 3 |->
        CASE k = 0 -> defined[3]
          [] k = 1 -> (defined[1] + ROTL(Turn(round), sum)) % Range32
          [] OTHER -> defined[k - 1]]

CompressionInit ==
  /\ hash \in DOMAIN Rounds
  /\ m_digest = Start /\ registers = Start /\ defined = Start
  /\ round = Rounds[hash] /\ input = <<>> /\ words = <<>> /\ taken = 0

HASHTransformBegins ==
  /\ round = Rounds[hash] /\ taken < MaxCompressed
  /\ input' \in Compressed /\ words' = input'
  /\ registers' = m_digest /\ defined' = m_digest
  /\ round' = 0 /\ taken' = taken + 1
  /\ UNCHANGED <<hash, m_digest>>

(* A round, and behind the last one the registers into the digest.          *)
RoundEnds(moved) ==
  /\ registers' = moved /\ round' = round + 1
  /\ m_digest' = IF round + 1 < Rounds[hash] THEN m_digest
                 ELSE [k \in DOMAIN moved |-> (m_digest[k] + moved[k]) % Range32]
  /\ UNCHANGED <<hash, taken>>
sha1Transform ==
  /\ hash = "sha1" /\ round < Rounds[hash]
  /\ input' = IF round < 16 THEN input ELSE [input EXCEPT ![round % 16] = expand(input, round)]
  /\ RoundEnds(subRound(input'[round % 16]))
  /\ defined' = Sha1Moves /\ words' = (round :> WordOf(round)) @@ words
md5Transform ==
  /\ hash = "md5" /\ round < Rounds[hash]
  /\ RoundEnds(ROUND(input[Order(round)]))
  /\ defined' = Md5Moves /\ UNCHANGED <<input, words>>
CompressionNext == HASHTransformBegins \/ sha1Transform \/ md5Transform
-----------------------------------------------------------------------------
DigestTypeOK ==
  \A o \in Objects :
    LET d == digests[o]
    IN /\ d.m_index \in 0 .. m_blockSize - 1 /\ d.m_count_l \in 0 .. UintRange - 1
       /\ Len(d.m_block) = IF d.m_isValid THEN m_blockSize ELSE 0

(* The message in whole blocks, as the hash functions define it: a mark,    *)
(* zeros up to the last two words of a block, and the length of the message.*)
Padded(bytes) ==
  LET n == Len(bytes)
      zeros == (getDataLen - 2) * WordBytes - (n + 1)
      blocks == IF zeros >= 0 THEN zeros
                ELSE (m_blockSize - ((0 - zeros) % m_blockSize)) % m_blockSize
      all == Words(bytes \o << <<"pad", 0>> >> \o Zeros(blocks))
             \o << << <<"length", n % UintRange>> >>, << <<"length", n \div UintRange>> >> >>
  IN [k \in 1 .. Len(all) \div getDataLen |->
        SubSeq(all, (k - 1) * getDataLen + 1, k * getDataLen)]
HashOf(bytes) == [i \in 1 .. getDigestLength |-> <<"digest", <<Padded(bytes), i>> >>]

(* At any time the digest of an object is the hash of all it was given      *)
(* since its reset, however that was cut, whatever its copy was given; and  *)
(* the digest of an HMAC is that of its key and its text, whatever happened *)
(* to the object it shares.                                                 *)
DigestsAreHashes ==
  /\ \A o \in Objects : digests[o].m_isValid => digest(digests[o]) = HashOf(message[o])
  /\ hmac.made =>
       LET key == IF Len(hmac.key) > KEY_B_LENGTH THEN HashOf(hmac.key) ELSE hmac.key
           padded == key \o Zeros(KEY_B_LENGTH - Len(key))
       IN digest(Outer(digests["first"]))
            = HashOf(Xored(padded, "outer") \o HashOf(Xored(padded, "inner") \o hmac.m_text))

(* The rounds as they are unrolled, with the words in a circular buffer,    *)
(* the registers renamed and the choices rewritten, keep step with the      *)
(* definitions of the hashes from the first round to the last.              *)
CompressionIsStandard ==
  /\ \A k \in DOMAIN defined : registers[Register(round, k)] = defined[k]
  /\ round < Rounds[hash] => \A t \in DOMAIN words :
       (\A later \in DOMAIN words : later % 16 = t % 16 => later <= t) => input[t % 16] = words[t]
=============================================================================
