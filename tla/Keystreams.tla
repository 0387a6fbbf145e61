----------------------------- MODULE Keystreams ------------------------------
(***************************************************************************)
(* Random bytes by exclusive or: cRC4, used by the two ends of a stream    *)
(* and as the random generator cRC4Random, and cPRF, which mixes the       *)
(* streams of two generators that are known by their seeds only.  A byte   *)
(* is a number below RC4KEY_LEN.                                           *)
(***************************************************************************)
EXTENDS Naturals, SequencesExt

CONSTANTS RC4KEY_LEN,     \* 256, a power of two
          Keys,           \* the keys loaded, none of them empty
          WordBytes,      \* the bytes of a uint, 4
          Secrets,        \* the lengths of secrets of the PRF
          MaxStream       \* bound: bytes of a stream

VARIABLES key,            \* what was loaded
          writer, reader, random,          \* three cRC4 objects
          plain, cipher, restored, drawn,  \* ghost: their bytes
          secret,         \* the length of the PRF's secret
          mixed           \* ghost: the bytes the PRF has given

keystreamVars == <<key, writer, reader, random, plain, cipher, restored, drawn, secret, mixed>>

Place == 0 .. RC4KEY_LEN - 1

(* The exclusive or of two bytes, by the places of their bits.              *)
BitsOf(x) == {i \in Place : (x \div 2 ^ i) % 2 = 1}
x ^^ y == MapThenSumSet(LAMBDA i : 2 ^ i, (BitsOf(x) \ BitsOf(y)) \cup (BitsOf(y) \ BitsOf(x)))

Swapped(premutation, i, j) ==
  [premutation EXCEPT ![i] = premutation[j], ![j] = premutation[i]]

(* loadKey: the permutation is stirred with the key, taken round and round. *)
loadKey(k) ==
  LET stir(state, i) ==
        LET index2 == (k[(i % Len(k)) + 1] + state.premutation[i] + state.index2) % RC4KEY_LEN
        IN [premutation |-> Swapped(state.premutation, i, index2), index2 |-> index2]
      stirred == FoldLeft(stir, [premutation |-> [i \in Place |-> i], index2 |-> 0],
                          [i \in 1 .. RC4KEY_LEN |-> i - 1])
  IN [m_premutation |-> stirred.premutation, m_i |-> 0, m_j |-> 0]

(* advance(), as what it leaves and what it gives.                          *)
advance(rc4) ==
  LET i == (rc4.m_i + 1) % RC4KEY_LEN
      j == (rc4.m_premutation[i] + rc4.m_j) % RC4KEY_LEN
  IN [m_premutation |-> Swapped(rc4.m_premutation, i, j), m_i |-> i, m_j |-> j]
Given(rc4) ==
  rc4.m_premutation[(rc4.m_premutation[rc4.m_i] + rc4.m_premutation[rc4.m_j]) % RC4KEY_LEN]
After(rc4, n) == FoldLeft(LAMBDA r, i : advance(r), rc4, [i \in 1 .. n |-> i])
strip(rc4, n) == [i \in 1 .. n |-> Given(After(rc4, i))]
encrypt(rc4, data) == LET s == strip(rc4, Len(data)) IN [i \in 1 .. Len(data) |-> data[i] ^^ s[i]]

(* _xor of two buffers: whole words, and then the bytes that are left.      *)
_xor(source, dest) ==
  LET l1 == Len(source) \div WordBytes
      l2 == Len(source) % WordBytes
      word(b, w) == SubSeq(b, w * WordBytes + 1, (w + 1) * WordBytes)
      words == [w \in 1 .. l1 |-> [i \in 1 .. WordBytes |-> word(source, w - 1)[i] ^^ word(dest, w - 1)[i]]]
      rest == [i \in 1 .. l2 |-> source[l1 * WordBytes + i] ^^ dest[l1 * WordBytes + i]]
  IN FlattenSeq(words) \o rest

(* cPRF: the secret in two halves, which share the middle byte of an odd    *)
(* one; each seeds a generator, here a stream of bytes of its own.          *)
Half(n) == (n \div 2) + (n % 2)
md5Seed(n) == <<0, Half(n)>>
sha1Seed(n) == <<n \div 2, Half(n)>>
Stream(seed, i) == (seed[1] + i * seed[2] + i * i) % RC4KEY_LEN
Part(seed, from, n) == [i \in 1 .. n |-> Stream(seed, from + i)]
-----------------------------------------------------------------------------
KeystreamInit ==
  /\ key \in Keys /\ secret \in Secrets
  /\ writer = loadKey(key) /\ reader = loadKey(key) /\ random = loadKey(key)
  /\ plain = <<>> /\ cipher = <<>> /\ restored = <<>> /\ drawn = <<>> /\ mixed = <<>>

(* Encryption of a buffer, whose bytes are what is sent.                    *)
Encrypt(data) ==
  /\ Len(plain) + Len(data) <= MaxStream
  /\ plain' = plain \o data /\ cipher' = cipher \o encrypt(writer, data)
  /\ writer' = After(writer, Len(data))
  /\ UNCHANGED <<key, reader, random, restored, drawn, secret, mixed>>

(* Decryption of as much as a reader has taken.                             *)
decrypt(n) ==
  /\ Len(restored) + n <= Len(cipher)
  /\ restored' = restored \o encrypt(reader, SubSeq(cipher, Len(restored) + 1, Len(restored) + n))
  /\ reader' = After(reader, n)
  /\ UNCHANGED <<key, writer, random, plain, cipher, drawn, secret, mixed>>

generateRandom(n) ==
  /\ Len(drawn) + n <= MaxStream
  /\ drawn' = drawn \o strip(random, n) /\ random' = After(random, n)
  /\ UNCHANGED <<key, writer, reader, plain, cipher, restored, secret, mixed>>

prfRandom(n) ==
  /\ Len(mixed) + n <= MaxStream
  /\ mixed' = mixed \o _xor(Part(md5Seed(secret), Len(mixed), n), Part(sha1Seed(secret), Len(mixed), n))
  /\ UNCHANGED <<key, writer, reader, random, plain, cipher, restored, drawn, secret>>

KeystreamNext ==
  \E n \in 1 .. MaxStream :
    \/ decrypt(n) \/ generateRandom(n) \/ prfRandom(n)
    \/ Encrypt([i \in 1 .. n |-> (Len(plain) + i) % RC4KEY_LEN])
-----------------------------------------------------------------------------
KeystreamTypeOK ==
  \A rc4 \in {writer, reader, random} :
    /\ rc4.m_i \in Place /\ rc4.m_j \in Place
    /\ \A place \in Place : \E i \in Place : rc4.m_premutation[i] = place

(* However the two ends cut the stream into calls, what the reader restores *)
(* is what the writer was given; a generator with the writer's key gives    *)
(* the bytes the writer mixes in; and the PRF is the exclusive or of its    *)
(* two generators at the same place, whose seeds cover the secret.          *)
StreamsAgree ==
  /\ restored = SubSeq(plain, 1, Len(restored))
  /\ \A i \in 1 .. Len(cipher) : i <= Len(drawn) => cipher[i] = plain[i] ^^ drawn[i]
  /\ \A i \in 1 .. Len(mixed) :
       mixed[i] = Stream(md5Seed(secret), i) ^^ Stream(sha1Seed(secret), i)
  /\ \A i \in 1 .. secret : \E seed \in {md5Seed(secret), sha1Seed(secret)} :
       i \in seed[1] + 1 .. seed[1] + seed[2]
=============================================================================
