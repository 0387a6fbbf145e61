------------------------------ MODULE HashTable ------------------------------
(***************************************************************************)
(* cHash (Include/xStl/data/hash.inl): an array of lists, the list of a    *)
(* key being the one at cHashFunction(key, the length of the array).  That *)
(* a cList is a sequence is the subject of LinkedList.                     *)
(***************************************************************************)
EXTENDS Naturals, Sequences, SequencesExt

CONSTANTS Key,          \* sequences of bytes, or of one number
          UintRange,    \* the numbers of a uint
          Field,
          VectorSizes,  \* the lengths of the arrays in use
          MaxKeys       \* bound: the keys of a table that is assigned

VARIABLES m_hash,       \* from 0 .. length - 1 to sequences of [m_a, m_b]
          m_vectorSize,
          dictionary    \* history: what the caller put in, a function on keys

hashVars == <<m_hash, m_vectorSize, dictionary>>

initHash(vectorSize) == [p \in 0 .. vectorSize - 1 |-> <<>>]

getSize(hash) == Cardinality(DOMAIN hash)

(* The sum of the bytes of a text or buffer, as wide as a uint.            *)
ByteSum(index) ==
  LET sum[n \in 0 .. Len(index)] == IF n = 0 THEN 0 ELSE (sum[n - 1] + index[n]) % UintRange
  IN  sum[Len(index)]
cHashFunction(index, range) == ByteSum(index) % range

Bucket(hash, index) == hash[cHashFunction(index, getSize(hash))]

(* The place of a key in its list, the first one, or 0 if it is not there. *)
Places(list, index) == {i \in 1 .. Len(list) : list[i].m_a = index}
Find(hash, index) ==
  LET places == Places(Bucket(hash, index), index)
  IN  IF places = {} THEN 0 ELSE CHOOSE i \in places : \A j \in places : i <= j

hasKey(hash, index) == Find(hash, index) # 0

(* Faulty: append does not look for the key first.                         *)
MayAppendAny(index) == TRUE

MayAppend(index) == ~hasKey(m_hash, index)

Appended(hash, pair) ==
  [hash EXCEPT ![cHashFunction(pair.m_a, getSize(hash))] = Append(@, pair)]

Defined(index, data) ==
  [k \in DOMAIN dictionary \cup {index} |-> IF k = index THEN data ELSE dictionary[k]]

(* The CHECK throws if the key is there.                                   *)
append(index, data) ==
  /\ MayAppend(index)
  /\ m_hash' = Appended(m_hash, [m_a |-> index, m_b |-> data])
  /\ dictionary' = Defined(index, data)
  /\ UNCHANGED m_vectorSize

(* remove, which throws if the key is not there.                           *)
remove(index) ==
  /\ hasKey(m_hash, index)
  /\ m_hash' = [m_hash EXCEPT ![cHashFunction(index, getSize(m_hash))] =
                  RemoveAt(@, Find(m_hash, index))]
  /\ dictionary' = [k \in DOMAIN dictionary \ {index} |-> dictionary[k]]
  /\ UNCHANGED m_vectorSize

(* Writing through operator [], which throws if the key is not there.      *)
assign(index, data) ==
  /\ hasKey(m_hash, index)
  /\ m_hash' = [m_hash EXCEPT ![cHashFunction(index, getSize(m_hash))]
                                [Find(m_hash, index)].m_b = data]
  /\ dictionary' = Defined(index, data)
  /\ UNCHANGED m_vectorSize

removeAll ==
  /\ m_hash' = initHash(m_vectorSize)
  /\ dictionary' = [k \in {} |-> {}]
  /\ UNCHANGED m_vectorSize

(* A table of another length, filled with pairs of different keys.         *)
Table(vectorSize, pairs) ==
  LET table[n \in 0 .. Len(pairs)] ==
        IF n = 0 THEN initHash(vectorSize) ELSE Appended(table[n - 1], pairs[n])
  IN  table[Len(pairs)]

Pairs == {pairs \in UNION {[1 .. n -> [m_a : Key, m_b : Field]] : n \in 0 .. MaxKeys} :
            \A i, j \in DOMAIN pairs : pairs[i].m_a = pairs[j].m_a => i = j}

Dictionary(pairs) ==
  [k \in {pairs[i].m_a : i \in DOMAIN pairs} |->
     pairs[CHOOSE i \in DOMAIN pairs : pairs[i].m_a = k].m_b]

(* A new table is empty, or a copy of another one.                         *)
HashInit ==
  /\ m_vectorSize \in VectorSizes
  /\ \E pairs \in Pairs : /\ dictionary = Dictionary(pairs)
                          /\ m_hash = Table(m_vectorSize, pairs)

(* Faulty: operator = does not note the length of the array it takes.      *)
SizeKept(vectorSize) == m_vectorSize

SizeCopied(vectorSize) == vectorSize

(* operator = takes over the other table's length along with its array.    *)
copyHash(vectorSize, pairs) ==
  /\ m_hash' = Table(vectorSize, pairs)
  /\ m_vectorSize' = SizeCopied(vectorSize)
  /\ dictionary' = Dictionary(pairs)

HashNext ==
  \/ \E index \in Key, data \in Field : append(index, data) \/ assign(index, data)
  \/ \E index \in Key : remove(index)
  \/ removeAll
  \/ \E vectorSize \in VectorSizes, pairs \in Pairs : copyHash(vectorSize, pairs)
-----------------------------------------------------------------------------
HashTypeOK ==
  /\ m_vectorSize \in VectorSizes
  /\ DOMAIN m_hash = 0 .. m_vectorSize - 1
  /\ \A p \in DOMAIN m_hash : m_hash[p] \in Seq([m_a : Key, m_b : Field])
  /\ DOMAIN dictionary \subseteq Key

(* keys(): the keys of all lists, list after list.                         *)
KeysOf(list) == [i \in 1 .. Len(list) |-> list[i].m_a]
keys ==
  LET found[p \in 0 .. getSize(m_hash)] ==
        IF p = 0 THEN <<>> ELSE found[p - 1] \o KeysOf(m_hash[p - 1])
  IN  found[getSize(m_hash)]

(* Every key that was put in is found with the data last given to it, no   *)
(* other key is, and keys() lists each of them exactly once: no key is     *)
(* twice in a list or in a list it is not looked for in.                   *)
HashIsDictionary ==
  /\ \A k \in Key : hasKey(m_hash, k) <=> k \in DOMAIN dictionary
  /\ \A k \in DOMAIN dictionary : Bucket(m_hash, k)[Find(m_hash, k)].m_b = dictionary[k]
  /\ Len(keys) = Cardinality(DOMAIN dictionary)
  /\ ToSet(keys) = DOMAIN dictionary
=============================================================================
