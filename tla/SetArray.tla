------------------------------ MODULE SetArray -------------------------------
(***************************************************************************)
(* cSetArray (Source/xStl/data/setArray.cpp): m_length bits packed into    *)
(* words of a cSArray.  A word is the set of its bits that are one.        *)
(***************************************************************************)
EXTENDS Naturals, Sequences

CONSTANTS BITS_COUNT_PER_ELEMENT,
          MaxLength     \* bound: the longest bit array

VARIABLES m_data,       \* the words; m_data.getSize() is its length
          m_length,
          known         \* history: per bit, what the caller made of it, a set
                        \* of the values it may have

bitVars == <<m_data, m_length, known>>

Word == SUBSET (0 .. BITS_COUNT_PER_ELEMENT - 1)

Words(size) == (size + BITS_COUNT_PER_ELEMENT - 1) \div BITS_COUNT_PER_ELEMENT

arrayIndex(location) == location \div BITS_COUNT_PER_ELEMENT
bitIndex(location) == location - arrayIndex(location) * BITS_COUNT_PER_ELEMENT

isSet(location) == bitIndex(location) \in m_data[arrayIndex(location) + 1]

(* What m_data.changeSize may leave: the words that stay, if they are to   *)
(* be saved, and words as new made them.                                   *)
ResizedWords(count, saveContent) ==
  {words \in [1 .. count -> Word] :
     saveContent => \A i \in 1 .. Len(m_data) : i <= count => words[i] = m_data[i]}

Bit == {FALSE, TRUE}

(* The constructor: zeros, ones, or what the memory held.                  *)
BitsInit ==
  /\ m_length \in 0 .. MaxLength
  /\ \/ /\ m_data \in [1 .. Words(m_length) -> Word]
        /\ known = [i \in 1 .. m_length |-> Bit]
     \/ /\ m_data = [w \in 1 .. Words(m_length) |-> {}]
        /\ known = [i \in 1 .. m_length |-> {FALSE}]
     \/ /\ m_data = [w \in 1 .. Words(m_length) |->
                       {b \in 0 .. BITS_COUNT_PER_ELEMENT - 1 :
                          (w - 1) * BITS_COUNT_PER_ELEMENT + b < m_length}]
        /\ known = [i \in 1 .. m_length |-> {TRUE}]

(* Faulty: the bit of the same index in the last word is changed.          *)
BitChangedLastWord(location, one) ==
  [m_data EXCEPT ![Len(m_data)] = IF one THEN @ \cup {bitIndex(location)}
                                  ELSE @ \ {bitIndex(location)}]

BitChanged(location, one) ==
  [m_data EXCEPT ![arrayIndex(location) + 1] =
     IF one THEN @ \cup {bitIndex(location)} ELSE @ \ {bitIndex(location)}]

(* set and clear, which throw beyond the length.                           *)
setBit(location, one) ==
  /\ location < m_length
  /\ m_data' = BitChanged(location, one)
  /\ known' = [known EXCEPT ![location + 1] = {one}]
  /\ UNCHANGED m_length

changeLength(newSize, saveContent) ==
  /\ m_data' \in ResizedWords(Words(newSize), saveContent)
  /\ m_length' = newSize
  /\ known' = [i \in 1 .. newSize |-> IF saveContent /\ i <= m_length THEN known[i] ELSE Bit]

resetArray ==
  /\ m_data' = [w \in 1 .. Len(m_data) |-> {}]
  /\ known' = [i \in 1 .. m_length |-> {FALSE}]
  /\ UNCHANGED m_length

Combined(operator, p, q) == IF operator = "&=" THEN p /\ q ELSE p \/ q

(* operator &= and |= with the bits of another array of the same length:   *)
(* the bits of this length are set and cleared one by one.                 *)
combine(operator, other) ==
  /\ Len(other) = m_length
  /\ m_data' = [w \in 1 .. Len(m_data) |->
       {b \in 0 .. BITS_COUNT_PER_ELEMENT - 1 :
          LET i == (w - 1) * BITS_COUNT_PER_ELEMENT + b + 1
          IN  IF i <= m_length THEN Combined(operator, b \in m_data[w], other[i]) ELSE b \in m_data[w]}]
  /\ known' = [i \in 1 .. m_length |-> {Combined(operator, one, other[i]) : one \in known[i]}]
  /\ UNCHANGED m_length

BitsNext ==
  \/ \E location \in 0 .. MaxLength - 1, one \in Bit : setBit(location, one)
  \/ \E newSize \in 0 .. MaxLength, saveContent \in BOOLEAN : changeLength(newSize, saveContent)
  \/ resetArray
  \/ \E operator \in {"&=", "|="}, other \in [1 .. m_length -> Bit] : combine(operator, other)

(* The lowest one of the first word that is not zero, which may be a bit   *)
(* left over beyond the length: then the scan stops at the length.         *)
FirstOne(w) ==
  LET lowest == CHOOSE b \in m_data[w] : \A c \in m_data[w] : b <= c
      location == (w - 1) * BITS_COUNT_PER_ELEMENT + lowest
  IN  IF location >= m_length THEN m_length ELSE location

first ==
  LET busy == {w \in 1 .. Words(m_length) : m_data[w] # {}}
  IN  IF busy = {} THEN m_length ELSE FirstOne(CHOOSE w \in busy : \A v \in busy : w <= v)
-----------------------------------------------------------------------------
BitsTypeOK ==
  /\ m_length \in Nat
  /\ Len(m_data) = Words(m_length)
  /\ m_data \in Seq(Word)
  /\ known \in Seq(SUBSET Bit)

(* A bit keeps the value the caller gave it through every change of the    *)
(* length and every combination with another array.                        *)
BitsKept ==
  /\ Len(known) = m_length
  /\ \A i \in 1 .. m_length : isSet(i - 1) \in known[i]

(* first() is the lowest bit that is one, or the length if there is none,  *)
(* whatever earlier lengths have left in the last word.                    *)
FirstIsLowest ==
  /\ first <= m_length
  /\ first < m_length => isSet(first)
  /\ \A i \in 0 .. m_length - 1 : isSet(i) => first <= i
=============================================================================
