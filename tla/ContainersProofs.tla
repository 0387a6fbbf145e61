-------------------------- MODULE ContainersProofs ---------------------------
(***************************************************************************)
(* The containers for every length and every size of a word, a page and a  *)
(* digest: the elements of an array lie within its memory and survive what *)
(* is done to it, a bit array keeps its bits, a hash table finds what was  *)
(* put in, and the random generator hands out its keystream without a gap. *)
(***************************************************************************)
EXTENDS ListProofs

(* Why comparing a difference of sizes with one page is enough: the memory *)
(* is always whole pages, so two sizes differ by a page or not at all.     *)
Paged == WholePages(m_alocatedArray, m_pageSize)

ArrayInv == ArrayTypeOK /\ Paged /\ SizeFits /\ ElementsKept

(* Multiples leave no remainder. *)
LEMMA MultMod ==
  ASSUME NEW q \in Nat, NEW p \in Nat \ {0}
  PROVE  (p * q) % p = 0
BY SMTT(30)

(* The only multiple of a page within less than a page of nothing is 0. *)
LEMMA SmallMultiple ==
  ASSUME NEW k \in Int, NEW p \in Nat \ {0}, p * k < p, -p < p * k
  PROVE  k = 0
BY SMTT(30)

(* pageRound rounds up, to whole pages. *)
LEMMA RoundsUp ==
  ASSUME NEW n \in Nat, NEW page \in Nat
  PROVE  Rounded(n, page) \in Nat /\ n <= Rounded(n, page) /\ WholePages(Rounded(n, page), page)
<1>1. CASE page <= 1
  BY <1>1 DEF Rounded, WholePages
<1>2. CASE page > 1
  <2> DEFINE a == n + page - 1
             q == a \div page
  <2>1. a \in Nat /\ page \in Nat \ {0}
    BY <1>2
  <2>2. q \in Nat /\ a % page \in 0 .. page - 1 /\ a = page * q + (a % page)
    BY <2>1, DivMod
  <2>3. Rounded(n, page) = page * q
    BY <1>2 DEF Rounded
  <2>4. (page * q) % page = 0
    BY <2>1, <2>2, MultMod
  <2>5. page * q \in Nat
    BY <2>1, <2>2
  <2> HIDE DEF q
  <2>6. n <= page * q
    BY <2>1, <2>2, <2>5
  <2>7. QED
    BY <2>3, <2>4, <2>5, <2>6 DEF WholePages
<1>3. QED
  BY <1>1, <1>2

(* Two numbers of whole pages less than a page apart are the same. *)
LEMMA PagesApart ==
  ASSUME NEW page \in Nat, page > 1, NEW m \in Nat, NEW n \in Nat,
         m % page = 0, n % page = 0, m - n < page, n - m < page
  PROVE  m = n
<1> DEFINE j == m \div page
           k == n \div page
<1>1. page \in Nat \ {0}
  OBVIOUS
<1>2. j \in Nat /\ m = page * j
  <2>1. j \in Nat /\ m = page * j + (m % page)
    BY <1>1, DivMod
  <2>2. page * j \in Nat
    BY <2>1
  <2>3. QED
    BY <2>1, <2>2
<1>3. k \in Nat /\ n = page * k
  <2>1. k \in Nat /\ n = page * k + (n % page)
    BY <1>1, DivMod
  <2>2. page * k \in Nat
    BY <2>1
  <2>3. QED
    BY <2>1, <2>2
<1> HIDE DEF j, k
<1>4. page * (j - k) = m - n
  BY <1>1, <1>2, <1>3
<1>5. j - k = 0
  <2>1. j - k \in Int /\ page * (j - k) < page /\ -page < page * (j - k)
    BY <1>1, <1>2, <1>3, <1>4
  <2>2. QED
    BY <1>1, <2>1, SmallMultiple
<1>6. QED
  BY <1>2, <1>3, <1>5

(* new T[n] gives n cells with the kept elements in front. *)
LEMMA MemoryIs ==
  ASSUME NEW n \in Nat, NEW kept, NEW cells \in Memory(n, kept)
  PROVE  /\ cells \in Seq(Elem) /\ Len(cells) = n
         /\ \A i \in 1 .. Len(kept) : i <= n => cells[i] = kept[i]
BY DEF Memory

(* What changeSize leaves behind is whole pages, holds the new size and,   *)
(* when it is to preserve, every element of both sizes.                    *)
LEMMA ResizedFits ==
  ASSUME Careful = TRUE, ArrayInv, NEW n \in Nat, NEW preserve \in BOOLEAN,
         NEW cells \in Resized(n, preserve)
  PROVE  /\ cells \in Seq(Elem) /\ n <= Len(cells) /\ WholePages(Len(cells), m_pageSize)
         /\ preserve => \A i \in 1 .. m_size : i <= n => cells[i] = m_array[i]
<1>1. /\ m_pageSize \in Nat /\ m_size \in Nat /\ m_array \in Seq(Elem)
      /\ m_size <= Len(m_array) /\ WholePages(Len(m_array), m_pageSize)
  BY ArrayAssumption DEF ArrayInv, ArrayTypeOK, Paged, SizeFits, m_alocatedArray
<1>2. /\ pageRound(n) \in Nat /\ n <= pageRound(n)
      /\ WholePages(pageRound(n), m_pageSize)
  BY <1>1, RoundsUp DEF pageRound
<1>3. CASE n = 0
  <2>1. cells = m_array \/ (~preserve /\ cells = <<>>)
    BY <1>3 DEF Resized, freeArray
  <2>2. CASE cells = m_array
    BY <1>1, <1>3, <2>2
  <2>3. CASE ~preserve /\ cells = <<>>
    <3>1. cells \in Seq(Elem) /\ Len(cells) = 0
      BY <2>3
    <3>2. WholePages(0, m_pageSize)
      BY <1>1, DivMod DEF WholePages
    <3>3. QED
      BY <1>3, <2>3, <3>1, <3>2
  <2>4. QED
    BY <2>1, <2>2, <2>3
<1>4. CASE n # 0 /\ ~preserve
  <2>1. cells \in Memory(pageRound(n), <<>>)
    BY <1>4 DEF Resized
  <2>2. cells \in Seq(Elem) /\ Len(cells) = pageRound(n)
    BY <1>2, <2>1, MemoryIs
  <2>3. QED
    BY <1>2, <1>4, <2>2
<1>5. CASE n # 0 /\ preserve /\ NeedsMemory(n)
  <2>1. cells \in Memory(pageRound(n), Kept(n))
    BY <1>5 DEF Resized
  <2>2. /\ cells \in Seq(Elem) /\ Len(cells) = pageRound(n)
        /\ \A i \in 1 .. Len(Kept(n)) : i <= pageRound(n) => cells[i] = Kept(n)[i]
    BY <1>2, <2>1, MemoryIs
  <2>3. \A i \in 1 .. m_size : i <= n => i <= Len(Kept(n)) /\ Kept(n)[i] = m_array[i]
    BY <1>1 DEF Kept
  <2>4. QED
    BY <1>1, <1>2, <2>2, <2>3
<1>6. CASE n # 0 /\ preserve /\ ~NeedsMemory(n)
  <2>1. cells = m_array
    BY <1>6 DEF Resized
  <2>2. pageRound(n) - Len(m_array) < m_pageSize /\ Len(m_array) - pageRound(n) < m_pageSize
    BY <1>1, <1>2, <1>6 DEF NeedsMemory, m_alocatedArray
  <2>3. Len(m_array) = pageRound(n)
    <3>1. CASE m_pageSize <= 1
      BY <1>1, <1>2, <2>2, <3>1
    <3>2. CASE m_pageSize > 1
      BY <1>1, <1>2, <2>2, <3>2, PagesApart DEF WholePages
    <3>3. QED
      BY <1>1, <3>1, <3>2
  <2>4. QED
    BY <1>1, <1>2, <2>1, <2>3
<1>7. QED
  BY <1>3, <1>4, <1>5, <1>6

(* Writing values behind the first ones. *)
LEMMA FilledIs ==
  ASSUME NEW cells \in Seq(Elem), NEW first \in Nat, NEW values \in Seq(Elem)
  PROVE  /\ Filled(cells, first, values) \in Seq(Elem)
         /\ Len(Filled(cells, first, values)) = Len(cells)
         /\ \A i \in 1 .. Len(cells) :
              Filled(cells, first, values)[i] =
                IF i \in first + 1 .. first + Len(values) THEN values[i - first] ELSE cells[i]
BY DEF Filled

(* An array of elements that nobody has written. *)
LEMMA InitSized ==
  ASSUME Careful = TRUE, m_pageSize \in Pages, NEW n \in Nat, cArray(n)
  PROVE  ArrayInv
<1>1. m_pageSize \in Nat /\ m_size \in Nat
  BY ArrayAssumption DEF cArray
<1>2. /\ pageRound(m_size) \in Nat /\ m_size <= pageRound(m_size)
      /\ WholePages(pageRound(m_size), m_pageSize)
  BY <1>1, RoundsUp DEF pageRound
<1>3. m_array \in Seq(Elem) /\ Len(m_array) = pageRound(m_size)
  BY <1>2, MemoryIs DEF cArray
<1>4. /\ elements \in Seq(Elem \cup {Unknown}) /\ Len(elements) = m_size
      /\ \A i \in 1 .. m_size : elements[i] = Unknown
  BY <1>1 DEF cArray, Unwritten
<1>5. QED
  BY <1>1, <1>2, <1>3, <1>4
     DEF ArrayInv, ArrayTypeOK, Paged, SizeFits, ElementsKept, m_alocatedArray

(* A copy of a static array. *)
LEMMA InitStatic ==
  ASSUME Careful = TRUE, m_pageSize \in Pages, NEW staticArray \in Seq(Elem), cArrayOf(staticArray)
  PROVE  ArrayInv
<1> DEFINE n == Len(staticArray)
<1>1. m_pageSize \in Nat /\ n \in Nat
  BY ArrayAssumption
<1>2. pageRound(n) \in Nat /\ n <= pageRound(n) /\ WholePages(pageRound(n), m_pageSize)
  BY <1>1, RoundsUp DEF pageRound
<1>3. m_size = n /\ elements = staticArray /\ m_array \in Memory(pageRound(n), staticArray)
  BY DEF cArrayOf
<1>4. /\ m_array \in Seq(Elem) /\ Len(m_array) = pageRound(n)
      /\ \A i \in 1 .. n : i <= pageRound(n) => m_array[i] = staticArray[i]
  BY <1>2, <1>3, MemoryIs
<1>5. \A i \in 1 .. n : m_array[i] = elements[i]
  BY <1>1, <1>2, <1>3, <1>4
<1>6. elements \in Seq(Elem \cup {Unknown})
  BY <1>3
<1>7. QED
  BY <1>1, <1>2, <1>3, <1>4, <1>5, <1>6
     DEF ArrayInv, ArrayTypeOK, Paged, SizeFits, ElementsKept, m_alocatedArray

(* A constructed array. *)
LEMMA InitArray == ASSUME Careful = TRUE, ArrayInit PROVE ArrayInv
<1>1. CASE \E n \in 0 .. MaxSize : cArray(n)
  BY <1>1, ArrayAssumption, InitSized DEF ArrayInit
<1>2. CASE \E staticArray \in Contents : cArrayOf(staticArray)
  <2>1. \A staticArray \in Contents : staticArray \in Seq(Elem)
    BY ArrayAssumption DEF Contents
  <2>2. QED
    BY <1>2, <2>1, InitStatic DEF ArrayInit
<1>3. QED
  BY <1>1, <1>2 DEF ArrayInit

(* changeSize, of any size, keeping the elements or not. *)
LEMMA ChangeSizeKeeps ==
  ASSUME Careful = TRUE, ArrayInv, NEW n \in Nat, NEW preserve \in BOOLEAN,
         changeSize(n, preserve)
  PROVE  ArrayInv'
<1>1. /\ m_array' \in Seq(Elem) /\ n <= Len(m_array') /\ WholePages(Len(m_array'), m_pageSize)
      /\ preserve => \A i \in 1 .. m_size : i <= n => m_array'[i] = m_array[i]
  BY ResizedFits DEF changeSize
<1>2. /\ elements \in Seq(Elem \cup {Unknown}) /\ Len(elements) = m_size /\ m_size \in Nat
      /\ \A i \in 1 .. m_size : elements[i] # Unknown => m_array[i] = elements[i]
  BY DEF ArrayInv, ArrayTypeOK, ElementsKept
<1>3. /\ elements' \in Seq(Elem \cup {Unknown}) /\ Len(elements') = n
      /\ \A i \in 1 .. n :
           elements'[i] = IF preserve /\ i <= m_size THEN elements[i] ELSE Unknown
  BY <1>2 DEF changeSize
<1>4. \A i \in 1 .. n : elements'[i] # Unknown => m_array'[i] = elements'[i]
  BY <1>1, <1>2, <1>3
<1>5. QED
  BY <1>1, <1>3, <1>4
     DEF changeSize, ArrayInv, ArrayTypeOK, Paged, SizeFits, ElementsKept, m_alocatedArray

(* append of objects or of an array. *)
LEMMA AppendKeeps ==
  ASSUME Careful = TRUE, ArrayInv, NEW values \in Seq(Elem), append(values)
  PROVE  ArrayInv'
<1> DEFINE n == m_size + Len(values)
<1>1. n \in Nat /\ m_size \in Nat /\ m_size' = n
  BY DEF ArrayInv, ArrayTypeOK, append
<1>2. PICK cells \in Resized(n, TRUE) : m_array' = Filled(cells, m_size, values)
  BY <1>1 DEF append
<1>3. /\ cells \in Seq(Elem) /\ n <= Len(cells) /\ WholePages(Len(cells), m_pageSize)
      /\ \A i \in 1 .. m_size : i <= n => cells[i] = m_array[i]
  BY <1>1, <1>2, ResizedFits
<1>4. /\ m_array' \in Seq(Elem) /\ Len(m_array') = Len(cells)
      /\ \A i \in 1 .. Len(cells) :
           m_array'[i] = IF i \in m_size + 1 .. m_size + Len(values)
                         THEN values[i - m_size] ELSE cells[i]
  BY <1>1, <1>2, <1>3, FilledIs
<1>5. /\ elements \in Seq(Elem \cup {Unknown}) /\ Len(elements) = m_size
      /\ \A i \in 1 .. m_size : elements[i] # Unknown => m_array[i] = elements[i]
  BY DEF ArrayInv, ArrayTypeOK, ElementsKept
<1>6. /\ elements' \in Seq(Elem \cup {Unknown}) /\ Len(elements') = n
      /\ \A i \in 1 .. n :
           elements'[i] = IF i <= m_size THEN elements[i] ELSE values[i - m_size]
  <2>1. elements' = elements \o values
    BY DEF append
  <2>2. elements \in Seq(Elem \cup {Unknown}) /\ values \in Seq(Elem \cup {Unknown})
        /\ Len(elements) = m_size
    BY <1>5
  <2>3. /\ elements' \in Seq(Elem \cup {Unknown}) /\ Len(elements') = Len(elements) + Len(values)
        /\ \A i \in 1 .. Len(elements) + Len(values) :
             elements'[i] = IF i <= Len(elements) THEN elements[i] ELSE values[i - Len(elements)]
    BY <2>1, <2>2, ConcatProperties
  <2>4. QED
    BY <1>1, <2>2, <2>3
<1>7. ASSUME NEW i \in 1 .. n, elements'[i] # Unknown
      PROVE  m_array'[i] = elements'[i]
  <2>1. i \in 1 .. Len(cells)
    BY <1>1, <1>3
  <2>2. CASE i <= m_size
    <3>1. i \in 1 .. m_size /\ i <= n /\ ~(i \in m_size + 1 .. m_size + Len(values))
      BY <1>1, <2>2
    <3>2. m_array'[i] = cells[i] /\ cells[i] = m_array[i]
      BY <1>3, <1>4, <2>1, <3>1
    <3>3. elements'[i] = elements[i]
      BY <1>6, <2>2
    <3>4. m_array[i] = elements[i]
      BY <1>5, <1>7, <3>1, <3>3
    <3>5. QED
      BY <3>2, <3>3, <3>4
  <2>3. CASE i > m_size
    <3>1. i \in m_size + 1 .. m_size + Len(values) /\ ~(i <= m_size)
      BY <1>1, <2>3
    <3>2. m_array'[i] = values[i - m_size]
      BY <1>4, <2>1, <3>1
    <3>3. elements'[i] = values[i - m_size]
      BY <1>6, <3>1
    <3>4. QED
      BY <3>2, <3>3
  <2>4. QED
    BY <1>1, <2>2, <2>3
<1>8. QED
  BY <1>1, <1>3, <1>4, <1>6, <1>7
     DEF append, ArrayInv, ArrayTypeOK, Paged, SizeFits, ElementsKept, m_alocatedArray

(* The sum of the array and another one, in new memory. *)
LEMMA PlusKeeps ==
  ASSUME Careful = TRUE, ArrayInv, NEW values \in Seq(Elem), plus(values)
  PROVE  ArrayInv'
<1> DEFINE n == m_size + Len(values)
           sum == SubSeq(m_array, 1, m_size) \o values
<1>1. /\ m_pageSize \in Pages /\ m_pageSize \in Nat /\ m_size \in Nat /\ n \in Nat
      /\ m_array \in Seq(Elem) /\ m_size <= Len(m_array)
      /\ elements \in Seq(Elem \cup {Unknown}) /\ Len(elements) = m_size
      /\ \A i \in 1 .. m_size : elements[i] # Unknown => m_array[i] = elements[i]
  BY ArrayAssumption DEF ArrayInv, ArrayTypeOK, SizeFits, ElementsKept, m_alocatedArray
<1>2. /\ sum \in Seq(Elem) /\ Len(sum) = n
      /\ \A i \in 1 .. n : sum[i] = IF i <= m_size THEN m_array[i] ELSE values[i - m_size]
  BY <1>1
<1>3. m_size' = n /\ m_array' \in Memory(pageRound(n), sum) /\ m_pageSize' = m_pageSize
  BY DEF plus
<1>4. /\ elements' \in Seq(Elem \cup {Unknown}) /\ Len(elements') = n
      /\ \A i \in 1 .. n :
           elements'[i] = IF i <= m_size THEN elements[i] ELSE values[i - m_size]
  BY <1>1 DEF plus
<1> HIDE DEF sum
<1>5. pageRound(n) \in Nat /\ n <= pageRound(n) /\ WholePages(pageRound(n), m_pageSize)
  BY <1>1, RoundsUp DEF pageRound
<1>6. /\ m_array' \in Seq(Elem) /\ Len(m_array') = pageRound(n)
      /\ \A i \in 1 .. Len(sum) : i <= pageRound(n) => m_array'[i] = sum[i]
  BY <1>3, <1>5, MemoryIs
<1>7. \A i \in 1 .. n : m_array'[i] = sum[i]
  BY <1>1, <1>2, <1>5, <1>6
<1>8. ASSUME NEW i \in 1 .. n, elements'[i] # Unknown
      PROVE  m_array'[i] = elements'[i]
  <2>1. m_array'[i] = sum[i]
    BY <1>7
  <2>2. CASE i <= m_size
    <3>1. i \in 1 .. m_size
      BY <1>1, <2>2
    <3>2. sum[i] = m_array[i] /\ elements'[i] = elements[i]
      BY <1>2, <1>4, <2>2
    <3>3. QED
      BY <1>1, <1>8, <2>1, <3>1, <3>2
  <2>3. CASE ~(i <= m_size)
    BY <1>2, <1>4, <2>1, <2>3
  <2>4. QED
    BY <2>2, <2>3
<1>9. QED
  BY <1>1, <1>3, <1>4, <1>5, <1>6, <1>8
     DEF ArrayInv, ArrayTypeOK, Paged, SizeFits, ElementsKept, m_alocatedArray

(* copyRange, which keeps nothing of what was there. *)
LEMMA CopyRangeKeeps ==
  ASSUME Careful = TRUE, ArrayInv, NEW other \in Seq(Elem), NEW from \in Nat,
         NEW count \in Nat, copyRange(other, from, count)
  PROVE  ArrayInv'
<1> DEFINE range == SubSeq(other, from + 1, from + count)
<1>1. range \in Seq(Elem) /\ Len(range) = count
  BY DEF copyRange
<1>2. m_size' = count /\ elements' = range /\ m_pageSize' = m_pageSize
  BY DEF copyRange
<1>3. PICK cells \in Resized(count, FALSE) : m_array' = Filled(cells, 0, range)
  BY DEF copyRange
<1> HIDE DEF range
<1>4. cells \in Seq(Elem) /\ count <= Len(cells) /\ WholePages(Len(cells), m_pageSize)
  BY <1>3, ResizedFits
<1>5. /\ m_array' \in Seq(Elem) /\ Len(m_array') = Len(cells)
      /\ \A i \in 1 .. Len(cells) :
           m_array'[i] = IF i \in 0 + 1 .. 0 + Len(range) THEN range[i - 0] ELSE cells[i]
  BY <1>1, <1>3, <1>4, FilledIs
<1>6. \A i \in 1 .. count : m_array'[i] = range[i]
  BY <1>1, <1>4, <1>5
<1>7. elements' \in Seq(Elem \cup {Unknown})
  BY <1>1, <1>2
<1>8. QED
  BY <1>1, <1>2, <1>4, <1>5, <1>6, <1>7
     DEF ArrayInv, ArrayTypeOK, Paged, SizeFits, ElementsKept, m_alocatedArray

(* New memory of so many pages, for the elements of another array: the     *)
(* copies of operator = and of the constructor, and the exchange of swap.  *)
LEMMA ReplacedKeeps ==
  ASSUME Careful = TRUE, ArrayInv, NEW other \in Seq(Elem), NEW page \in Nat,
         m_array' \in Memory(Rounded(Len(other), page), other),
         m_size' = Len(other), elements' = other, m_pageSize' \in Pages,
         WholePages(Rounded(Len(other), page), m_pageSize')
  PROVE  ArrayInv'
<1>1. Len(other) \in Nat
  OBVIOUS
<1>2. Rounded(Len(other), page) \in Nat /\ Len(other) <= Rounded(Len(other), page)
  BY <1>1, RoundsUp
<1>3. /\ m_array' \in Seq(Elem) /\ Len(m_array') = Rounded(Len(other), page)
      /\ \A i \in 1 .. Len(other) : i <= Rounded(Len(other), page) => m_array'[i] = other[i]
  BY <1>2, MemoryIs
<1>4. \A i \in 1 .. Len(other) : m_array'[i] = other[i]
  BY <1>1, <1>2, <1>3
<1>5. other \in Seq(Elem \cup {Unknown})
  OBVIOUS
<1>6. QED
  BY <1>1, <1>2, <1>3, <1>4, <1>5
     DEF ArrayInv, ArrayTypeOK, Paged, SizeFits, ElementsKept, m_alocatedArray

(* An element is written in place. *)
LEMMA AssignKeeps ==
  ASSUME Careful = TRUE, ArrayInv, NEW index \in Nat, NEW object \in Elem,
         assign(index, object)
  PROVE  ArrayInv'
<1>1. /\ m_array \in Seq(Elem) /\ m_size \in Nat /\ m_size <= Len(m_array) /\ index < m_size
      /\ elements \in Seq(Elem \cup {Unknown}) /\ Len(elements) = m_size
      /\ \A i \in 1 .. m_size : elements[i] # Unknown => m_array[i] = elements[i]
  BY DEF ArrayInv, ArrayTypeOK, SizeFits, ElementsKept, assign, m_alocatedArray
<1>2. /\ m_array' \in Seq(Elem) /\ Len(m_array') = Len(m_array)
      /\ \A i \in 1 .. Len(m_array) :
           m_array'[i] = IF i = index + 1 THEN object ELSE m_array[i]
  BY <1>1 DEF assign
<1>3. /\ elements' \in Seq(Elem \cup {Unknown}) /\ Len(elements') = m_size
      /\ \A i \in 1 .. m_size :
           elements'[i] = IF i = index + 1 THEN object ELSE elements[i]
  BY <1>1 DEF assign
<1>4. ASSUME NEW i \in 1 .. m_size, elements'[i] # Unknown
      PROVE  m_array'[i] = elements'[i]
  <2>1. i \in 1 .. Len(m_array)
    BY <1>1
  <2>2. QED
    BY <1>1, <1>2, <1>3, <1>4, <2>1
<1>5. QED
  BY <1>1, <1>2, <1>3, <1>4
     DEF assign, ArrayInv, ArrayTypeOK, Paged, SizeFits, ElementsKept, m_alocatedArray

(* Every operation of the array. *)
LEMMA NextKeeps ==
  ASSUME Careful = TRUE, ArrayInv, [ArrayNext]_arrayVars
  PROVE  ArrayInv'
<1>1. /\ m_pageSize \in Pages /\ m_pageSize \in Nat /\ m_size \in Nat /\ m_array \in Seq(Elem)
      /\ m_size <= Len(m_array) /\ Pages \subseteq Nat /\ MaxSize \in Nat /\ Careful
  BY ArrayAssumption DEF ArrayInv, ArrayTypeOK, SizeFits, m_alocatedArray
<1>2. \A other \in Contents : other \in Seq(Elem)
  BY <1>1 DEF Contents
<1>3. CASE \E n \in 0 .. MaxSize, preserve \in BOOLEAN : changeSize(n, preserve)
  BY <1>1, <1>3, ChangeSizeKeeps
<1>4. CASE \E values \in Contents \cup {SubSeq(m_array, 1, m_size)} :
              append(values) \/ plus(values)
  <2>1. SubSeq(m_array, 1, m_size) \in Seq(Elem)
    BY <1>1
  <2>2. QED
    BY <1>2, <1>4, <2>1, AppendKeeps, PlusKeeps
<1>5. CASE \E other \in Contents, startLocation, count \in 0 .. MaxSize :
              copyRange(other, startLocation, count)
  BY <1>1, <1>2, <1>5, CopyRangeKeeps
<1>6. CASE \E other \in Contents : copyFrom(other)
  <2>1. PICK other \in Contents : copyFrom(other)
    BY <1>6
  <2>2. other \in Seq(Elem) /\ Len(other) \in Nat
    BY <1>2
  <2>3. WholePages(Rounded(Len(other), m_pageSize), m_pageSize)
    BY <1>1, <2>2, RoundsUp
  <2>4. QED
    BY <1>1, <2>1, <2>2, <2>3, ReplacedKeeps DEF copyFrom, pageRound
<1>7. CASE \E other \in Contents, page \in Pages : swap(other, page) \/ copyConstruct(other, page)
  <2>1. PICK other \in Contents, page \in Pages : swap(other, page) \/ copyConstruct(other, page)
    BY <1>7
  <2>2. other \in Seq(Elem) /\ Len(other) \in Nat /\ page \in Nat
    BY <1>1, <1>2
  <2>3. WholePages(Rounded(Len(other), page), page)
    BY <2>2, RoundsUp
  <2>4. CASE swap(other, page)
    BY <1>1, <2>2, <2>4, ReplacedKeeps DEF swap
  <2>5. CASE copyConstruct(other, page)
    BY <2>2, <2>3, <2>5, ReplacedKeeps DEF copyConstruct
  <2>6. QED
    BY <2>1, <2>4, <2>5
<1>8. CASE \E page \in Pages : setPageSize(page)
  BY <1>1, <1>8
     DEF setPageSize, ArrayInv, ArrayTypeOK, Paged, SizeFits, ElementsKept, m_alocatedArray
<1>9. CASE \E index \in 0 .. MaxSize - 1, object \in Elem : assign(index, object)
  BY <1>1, <1>9, AssignKeeps
<1>10. CASE UNCHANGED arrayVars
  BY <1>10
     DEF arrayVars, ArrayInv, ArrayTypeOK, Paged, SizeFits, ElementsKept, m_alocatedArray
<1>11. QED
  BY <1>3, <1>4, <1>5, <1>6, <1>7, <1>8, <1>9, <1>10 DEF ArrayNext

(* Paging holds for ever, and with it everything that rests on it. *)
LEMMA ArrayInvariant ==
  ASSUME Careful = TRUE
  PROVE  Spec => []ArrayInv
<1>1. Init => ArrayInv
  BY InitArray DEF Init
<1>2. ArrayInv /\ [Next]_vars => ArrayInv'
  <2>1. [Next]_vars => [ArrayNext]_arrayVars
    BY DEF Next, TextMoves, OthersRest, vars, arrayVars
  <2>2. QED
    BY <2>1, NextKeeps
<1>3. QED
  BY <1>1, <1>2, PTL DEF Spec

(* The elements lie within the memory allocated for them, whatever the     *)
(* lengths and the page sizes: array.inl, changeSize and its callers.      *)
THEOREM ArraySizeFits ==
  ASSUME Careful = TRUE
  PROVE  Spec => []SizeFits
<1>1. ArrayInv => SizeFits
  BY DEF ArrayInv
<1>2. QED
  BY <1>1, ArrayInvariant, PTL

(* No change of the size or of the memory loses an element that the caller *)
(* has put into the array.                                                 *)
THEOREM ArrayElementsKept ==
  ASSUME Careful = TRUE
  PROVE  Spec => []ElementsKept
<1>1. ArrayInv => ElementsKept
  BY DEF ArrayInv
<1>2. QED
  BY <1>1, ArrayInvariant, PTL
-----------------------------------------------------------------------------
(* A truth value is in a set if the constant it equals is. *)
LEMMA TruthIn ==
  ASSUME NEW S, NEW p \in BOOLEAN
  PROVE  p \in S <=> (p => TRUE \in S) /\ (~p => FALSE \in S)
<1>1. CASE p = TRUE
  BY <1>1
<1>2. CASE p = FALSE
  BY <1>2
<1>3. QED
  BY <1>1, <1>2

(* One element of a sequence changed. *)
LEMMA ChangedSeq ==
  ASSUME NEW S, NEW s \in Seq(S), NEW k \in 1 .. Len(s), NEW x \in S
  PROVE  /\ [s EXCEPT ![k] = x] \in Seq(S) /\ Len([s EXCEPT ![k] = x]) = Len(s)
         /\ [s EXCEPT ![k] = x][k] = x
         /\ \A j \in 1 .. Len(s) : j # k => [s EXCEPT ![k] = x][j] = s[j]
OBVIOUS
-----------------------------------------------------------------------------
(* Bit i of n lies in one of the words of n bits.                          *)
LEMMA PlaceOf ==
  ASSUME NEW n \in Nat, NEW i \in 0 .. n - 1
  PROVE  /\ Bits!arrayIndex(i) \in Nat /\ Bits!arrayIndex(i) + 1 \in 1 .. Bits!Words(n)
         /\ Bits!bitIndex(i) \in 0 .. BITS_COUNT_PER_ELEMENT - 1
         /\ i = Bits!arrayIndex(i) * BITS_COUNT_PER_ELEMENT + Bits!bitIndex(i)
<1>1. PICK p \in Nat \ {0} : p = BITS_COUNT_PER_ELEMENT
  BY BitArrayAssumption
<1>2. PICK q \in Nat, r \in 0 .. p - 1 : q = i \div p /\ i = p * q + r
  BY <1>1, DivMod
<1>3. n + p - 1 \in Nat
  BY <1>1
<1>4. PICK w \in Nat, s \in 0 .. p - 1 : w = (n + p - 1) \div p /\ n + p - 1 = p * w + s
  BY <1>1, <1>3, DivMod
<1>5. Bits!arrayIndex(i) = q /\ Bits!Words(n) = w
  BY <1>1, <1>2, <1>4 DEF Bits!arrayIndex, Bits!Words
<1>6. /\ p * q \in Nat /\ p * w \in Nat /\ p * q = q * p
      /\ w <= q => p * w <= p * q
  BY <1>1, Multiples
<1>7. Bits!bitIndex(i) = r
  <2>1. Bits!bitIndex(i) = i - q * p
    BY <1>1, <1>5 DEF Bits!bitIndex
  <2>2. QED
    BY <1>1, <1>2, <1>6, <2>1
<1>8. ~(w <= q)
  BY <1>1, <1>2, <1>4, <1>6
<1>9. QED
  BY <1>1, <1>2, <1>5, <1>6, <1>7, <1>8

(* And a bit of a word has its place among all bits. *)
LEMMA PlaceBack ==
  ASSUME NEW w \in Nat, NEW b \in 0 .. BITS_COUNT_PER_ELEMENT - 1
  PROVE  /\ w * BITS_COUNT_PER_ELEMENT + b \in Nat
         /\ Bits!arrayIndex(w * BITS_COUNT_PER_ELEMENT + b) = w
         /\ Bits!bitIndex(w * BITS_COUNT_PER_ELEMENT + b) = b
<1>1. PICK p \in Nat \ {0} : p = BITS_COUNT_PER_ELEMENT
  BY BitArrayAssumption
<1>2. p * w \in Nat /\ p * w = w * p
  BY <1>1, Multiples
<1>3. (p * w + b) \div p = w
  BY <1>1, DivIs
<1>4. Bits!arrayIndex(w * p + b) = w
  BY <1>1, <1>2, <1>3 DEF Bits!arrayIndex
<1>5. QED
  BY <1>1, <1>2, <1>4 DEF Bits!bitIndex

(* The number of words of n bits. *)
LEMMA WordsCount ==
  ASSUME NEW n \in Nat
  PROVE  Bits!Words(n) \in Nat
<1>1. PICK p \in Nat \ {0} : p = BITS_COUNT_PER_ELEMENT
  BY BitArrayAssumption
<1>2. n + p - 1 \in Nat
  BY <1>1
<1>3. QED
  BY <1>1, <1>2, DivMod DEF Bits!Words

(* Every bit shows a value the caller may expect there. *)
Shows(i) == /\ Bits!isSet(i - 1) => TRUE \in known[i]
            /\ ~Bits!isSet(i - 1) => FALSE \in known[i]

BitsTyped ==
  /\ m_length \in Nat
  /\ m_data \in Seq(Bits!Word) /\ Len(m_data) = Bits!Words(m_length)
  /\ known \in Seq(SUBSET Bits!Bit) /\ Len(known) = m_length

BitsInv == BitsTyped /\ \A i \in 1 .. m_length : Shows(i)

(* What is needed of the place of a bit to reason about its word. *)
LEMMA BitPlace ==
  ASSUME BitsTyped, NEW i \in 1 .. m_length
  PROVE  /\ i - 1 \in 0 .. m_length - 1
         /\ Bits!arrayIndex(i - 1) \in Nat
         /\ Bits!arrayIndex(i - 1) + 1 \in 1 .. Len(m_data)
         /\ Bits!bitIndex(i - 1) \in 0 .. BITS_COUNT_PER_ELEMENT - 1
         /\ i - 1 = Bits!arrayIndex(i - 1) * BITS_COUNT_PER_ELEMENT + Bits!bitIndex(i - 1)
<1>1. m_length \in Nat /\ i - 1 \in 0 .. m_length - 1
  BY DEF BitsTyped
<1>2. QED
  BY <1>1, PlaceOf DEF BitsTyped

(* The three constructors. *)
LEMMA BitsInitShow == Bits!BitsInit => BitsInv
<1> SUFFICES ASSUME Bits!BitsInit PROVE BitsInv
  OBVIOUS
<1>1. m_length \in Nat /\ Bits!Words(m_length) \in Nat
  BY WordsCount DEF Bits!BitsInit
<1>2. CASE /\ m_data \in [1 .. Bits!Words(m_length) -> Bits!Word]
           /\ known = [i \in 1 .. m_length |-> Bits!Bit]
  BY <1>1, <1>2 DEF BitsInv, BitsTyped, Shows, Bits!Bit
<1>3. CASE /\ m_data = [w \in 1 .. Bits!Words(m_length) |-> {}]
           /\ known = [i \in 1 .. m_length |-> {FALSE}]
  <2>1. BitsTyped
    BY <1>1, <1>3 DEF BitsTyped, Bits!Bit, Bits!Word
  <2>2. ASSUME NEW i \in 1 .. m_length PROVE ~Bits!isSet(i - 1)
    BY <1>1, <1>3, <2>1, BitPlace DEF Bits!isSet
  <2>3. QED
    BY <1>3, <2>1, <2>2 DEF BitsInv, Shows
<1>4. CASE /\ m_data = [w \in 1 .. Bits!Words(m_length) |->
                          {b \in 0 .. BITS_COUNT_PER_ELEMENT - 1 :
                             (w - 1) * BITS_COUNT_PER_ELEMENT + b < m_length}]
           /\ known = [i \in 1 .. m_length |-> {TRUE}]
  <2>1. BitsTyped
    BY <1>1, <1>4 DEF BitsTyped, Bits!Bit, Bits!Word
  <2>2. ASSUME NEW i \in 1 .. m_length PROVE Bits!isSet(i - 1)
    <3>1. PICK a \in Nat, b \in 0 .. BITS_COUNT_PER_ELEMENT - 1 :
            /\ a = Bits!arrayIndex(i - 1) /\ b = Bits!bitIndex(i - 1)
            /\ a + 1 \in 1 .. Bits!Words(m_length)
            /\ i - 1 = a * BITS_COUNT_PER_ELEMENT + b
      BY <2>1, BitPlace DEF BitsTyped
    <3>2. (a + 1) - 1 = a /\ i - 1 < m_length
      BY <1>1, <3>1
    <3>3. QED
      BY <1>4, <3>1, <3>2 DEF Bits!isSet
  <2>3. QED
    BY <1>4, <2>1, <2>2 DEF BitsInv, Shows
<1>5. QED
  BY <1>2, <1>3, <1>4 DEF Bits!BitsInit

(* set and clear: a bit is changed and no other one, in its word or in     *)
(* another.                                                                *)
LEMMA SetBitShows ==
  ASSUME BitsInv, NEW location \in Nat, NEW one \in Bits!Bit, Bits!setBit(location, one)
  PROVE  BitsInv'
<1>1. BitsTyped /\ location \in 0 .. m_length - 1 /\ m_length \in Nat /\ m_length' = m_length
  BY DEF BitsInv, BitsTyped, Bits!setBit
<1>2. PICK a \in Nat, b \in 0 .. BITS_COUNT_PER_ELEMENT - 1 :
        /\ a = Bits!arrayIndex(location) /\ b = Bits!bitIndex(location)
        /\ a + 1 \in 1 .. Len(m_data)
        /\ location = a * BITS_COUNT_PER_ELEMENT + b
  BY <1>1, PlaceOf DEF BitsTyped
<1>3. PICK word : /\ word = IF one THEN m_data[a + 1] \cup {b} ELSE m_data[a + 1] \ {b}
                  /\ m_data' = [m_data EXCEPT ![a + 1] = word]
                  /\ known' = [known EXCEPT ![location + 1] = {one}]
  BY <1>2 DEF Bits!setBit, Bits!BitChanged
<1>4. /\ m_data \in Seq(Bits!Word) /\ known \in Seq(SUBSET Bits!Bit)
      /\ Len(m_data) = Bits!Words(m_length) /\ Len(known) = m_length
  BY <1>1 DEF BitsTyped
<1>5. /\ BitsTyped' /\ m_data'[a + 1] = word
      /\ \A w \in 1 .. Len(m_data) : w # a + 1 => m_data'[w] = m_data[w]
  <2>1. m_data[a + 1] \in Bits!Word
    BY <1>2, <1>4
  <2>2. word \in Bits!Word
    BY <1>3, <2>1 DEF Bits!Word
  <2>3. /\ m_data' \in Seq(Bits!Word) /\ Len(m_data') = Len(m_data)
        /\ m_data'[a + 1] = word
        /\ \A w \in 1 .. Len(m_data) : w # a + 1 => m_data'[w] = m_data[w]
    <3>1. m_data \in Seq(Bits!Word) /\ a + 1 \in 1 .. Len(m_data)
      BY <1>2, <1>4
    <3>2. m_data' = [m_data EXCEPT ![a + 1] = word]
      BY <1>3
    <3>3. PICK changed : changed = [m_data EXCEPT ![a + 1] = word]
      OBVIOUS
    <3>4. /\ changed \in Seq(Bits!Word) /\ Len(changed) = Len(m_data)
          /\ changed[a + 1] = word
          /\ \A w \in 1 .. Len(m_data) : w # a + 1 => changed[w] = m_data[w]
      BY <2>2, <3>1, <3>3
    <3>5. m_data' = changed
      BY <3>2, <3>3
    <3>6. QED
      BY <3>4, <3>5, Zenon
  <2>4. location + 1 \in 1 .. m_length /\ {one} \in SUBSET Bits!Bit
    BY <1>1
  <2>5. known' \in Seq(SUBSET Bits!Bit) /\ Len(known') = Len(known)
    BY <1>3, <1>4, <2>4
  <2>6. QED
    BY <1>1, <1>4, <2>3, <2>5 DEF BitsTyped
<1>6. ASSUME NEW i \in 1 .. m_length PROVE Shows(i)'
  <2>1. PICK q \in Nat, r \in 0 .. BITS_COUNT_PER_ELEMENT - 1 :
          /\ q = Bits!arrayIndex(i - 1) /\ r = Bits!bitIndex(i - 1)
          /\ q + 1 \in 1 .. Len(m_data)
          /\ i - 1 = q * BITS_COUNT_PER_ELEMENT + r
    BY <1>1, BitPlace
  <2>2. /\ Bits!isSet(i - 1) <=> r \in m_data[q + 1]
        /\ Bits!isSet(i - 1)' <=> r \in m_data'[q + 1]
    BY <2>1 DEF Bits!isSet, Bits!arrayIndex, Bits!bitIndex
  <2>3. CASE i = location + 1
    <3>1. q = a /\ r = b
      <4>1. i - 1 = location
        BY <1>1, <2>3
      <4>2. QED
        BY <1>2, <2>1, <4>1
    <3>2. known'[i] = {one}
      BY <1>1, <1>3, <1>4, <2>3
    <3>3. m_data'[q + 1] = word
      BY <1>5, <3>1
    <3>4. CASE one
      <4>1. one = TRUE
        BY <3>4 DEF Bits!Bit
      <4>2. r \in m_data'[q + 1]
        BY <1>3, <3>1, <3>3, <3>4
      <4>3. TRUE \in known'[i]
        BY <3>2, <4>1
      <4>4. QED
        BY <2>2, <4>2, <4>3 DEF Shows
    <3>5. CASE ~one
      <4>1. one = FALSE
        BY <3>5 DEF Bits!Bit
      <4>2. r \notin m_data'[q + 1]
        BY <1>3, <3>1, <3>3, <3>5
      <4>3. FALSE \in known'[i]
        BY <3>2, <4>1
      <4>4. QED
        BY <2>2, <4>2, <4>3 DEF Shows
    <3>6. QED
      BY <3>4, <3>5
  <2>4. CASE i # location + 1
    <3>1. known'[i] = known[i]
      BY <1>1, <1>3, <1>4, <2>4
    <3>2. q # a \/ r # b
      <4>1. i - 1 # location
        BY <1>1, <2>4
      <4>2. QED
        BY <1>2, <2>1, <4>1
    <3>3. r \in m_data'[q + 1] <=> r \in m_data[q + 1]
      <4>1. CASE q = a
        <5>1. m_data'[q + 1] = word
          BY <1>5, <4>1
        <5>2. QED
          BY <1>3, <3>2, <4>1, <5>1
      <4>2. CASE q # a
        <5>1. q + 1 # a + 1
          BY <4>2
        <5>2. QED
          BY <1>5, <2>1, <5>1
      <4>3. QED
        BY <4>1, <4>2
    <3>4. Bits!isSet(i - 1)' <=> Bits!isSet(i - 1)
      BY <2>2, <3>3
    <3>5. Shows(i)
      BY DEF BitsInv
    <3>6. QED
      BY <3>1, <3>4, <3>5 DEF Shows
  <2>5. QED
    BY <2>3, <2>4
<1>7. QED
  BY <1>1, <1>5, <1>6 DEF BitsInv

(* A change of the length keeps the words that stay, so a bit below both   *)
(* lengths keeps its value, and nothing is expected of the others.         *)
LEMMA ChangeLengthShows ==
  ASSUME BitsInv, NEW newSize \in Nat, NEW saveContent \in BOOLEAN,
         Bits!changeLength(newSize, saveContent)
  PROVE  BitsInv'
<1>1. BitsTyped /\ m_length \in Nat /\ m_length' = newSize /\ Bits!Words(newSize) \in Nat
  BY WordsCount DEF BitsInv, BitsTyped, Bits!changeLength
<1>2. /\ m_data' \in [1 .. Bits!Words(newSize) -> Bits!Word]
      /\ saveContent => \A w \in 1 .. Len(m_data) :
                          w <= Bits!Words(newSize) => m_data'[w] = m_data[w]
      /\ known' = [i \in 1 .. newSize |->
                     IF saveContent /\ i <= m_length THEN known[i] ELSE Bits!Bit]
  BY DEF Bits!changeLength, Bits!ResizedWords
<1>3. m_data \in Seq(Bits!Word) /\ known \in Seq(SUBSET Bits!Bit) /\ Len(known) = m_length
  BY <1>1 DEF BitsTyped
<1>4. BitsTyped'
  <2>1. m_data' \in Seq(Bits!Word) /\ Len(m_data') = Bits!Words(newSize)
    BY <1>1, <1>2
  <2>2. ASSUME NEW i \in 1 .. newSize PROVE known'[i] \in SUBSET Bits!Bit
    BY <1>1, <1>2, <1>3
  <2>3. known' \in Seq(SUBSET Bits!Bit) /\ Len(known') = newSize
    BY <1>1, <1>2, <2>2
  <2>4. QED
    BY <1>1, <2>1, <2>3 DEF BitsTyped, Bits!Words
<1>5. ASSUME NEW i \in 1 .. newSize PROVE Shows(i)'
  <2>1. CASE saveContent /\ i <= m_length
    <3>1. i \in 1 .. m_length
      BY <1>1, <2>1
    <3>2. PICK q \in Nat, r \in 0 .. BITS_COUNT_PER_ELEMENT - 1 :
            /\ q = Bits!arrayIndex(i - 1) /\ r = Bits!bitIndex(i - 1)
            /\ q + 1 \in 1 .. Len(m_data)
      BY <1>1, <3>1, BitPlace
    <3>3. i - 1 \in 0 .. newSize - 1
      BY <1>1
    <3>4. q + 1 \in 1 .. Bits!Words(newSize)
      BY <3>2, <3>3, PlaceOf
    <3>5. m_data'[q + 1] = m_data[q + 1]
      BY <1>1, <1>2, <2>1, <3>2, <3>4
    <3>6. /\ Bits!isSet(i - 1) <=> r \in m_data[q + 1]
          /\ Bits!isSet(i - 1)' <=> r \in m_data'[q + 1]
      BY <3>2 DEF Bits!isSet, Bits!arrayIndex, Bits!bitIndex
    <3>7. known'[i] = known[i]
      BY <1>2, <2>1
    <3>8. Shows(i)
      BY <3>1 DEF BitsInv
    <3>9. Bits!isSet(i - 1)' <=> Bits!isSet(i - 1)
      BY <3>5, <3>6
    <3>10. QED
      BY <3>7, <3>8, <3>9 DEF Shows
  <2>2. CASE ~(saveContent /\ i <= m_length)
    <3>1. known'[i] = Bits!Bit
      BY <1>2, <2>2
    <3>2. TRUE \in Bits!Bit /\ FALSE \in Bits!Bit
      BY DEF Bits!Bit
    <3>3. QED
      BY <3>1, <3>2 DEF Shows
  <2>3. QED
    BY <2>1, <2>2
<1>6. QED
  BY <1>1, <1>4, <1>5 DEF BitsInv

(* resetArray. *)
LEMMA ResetShows ==
  ASSUME BitsInv, Bits!resetArray
  PROVE  BitsInv'
<1>1. BitsTyped /\ m_length \in Nat /\ m_length' = m_length
      /\ m_data' = [w \in 1 .. Len(m_data) |-> {}]
      /\ known' = [i \in 1 .. m_length |-> {FALSE}]
  BY DEF BitsInv, BitsTyped, Bits!resetArray
<1>2. m_data \in Seq(Bits!Word) /\ Len(m_data) = Bits!Words(m_length) /\ Len(m_data) \in Nat
  BY <1>1 DEF BitsTyped
<1>3. BitsTyped'
  <2>1. {} \in Bits!Word /\ {FALSE} \in SUBSET Bits!Bit
    BY DEF Bits!Word, Bits!Bit
  <2>2. /\ m_data' \in [1 .. Len(m_data) -> Bits!Word]
        /\ known' \in [1 .. m_length -> SUBSET Bits!Bit]
    BY <1>1, <2>1, Zenon
  <2>3. m_data' \in Seq(Bits!Word) /\ Len(m_data') = Len(m_data)
    BY <1>2, <2>2, FunctionIsSeq, Zenon
  <2>4. known' \in Seq(SUBSET Bits!Bit) /\ Len(known') = m_length
    BY <1>1, <2>2, FunctionIsSeq, Zenon
  <2>5. QED
    BY <1>1, <1>2, <2>3, <2>4 DEF BitsTyped
<1>4. ASSUME NEW i \in 1 .. m_length PROVE Shows(i)'
  <2>1. PICK q \in Nat, r \in 0 .. BITS_COUNT_PER_ELEMENT - 1 :
          /\ q = Bits!arrayIndex(i - 1) /\ r = Bits!bitIndex(i - 1)
          /\ q + 1 \in 1 .. Len(m_data)
    BY <1>1, BitPlace
  <2>2. Bits!isSet(i - 1)' <=> r \in m_data'[q + 1]
    BY <2>1 DEF Bits!isSet, Bits!arrayIndex, Bits!bitIndex
  <2>3. ~Bits!isSet(i - 1)' /\ known'[i] = {FALSE}
    BY <1>1, <2>1, <2>2
  <2>4. QED
    BY <2>3 DEF Shows
<1>5. QED
  BY <1>1, <1>3, <1>4 DEF BitsInv

(* operator &= and |=: every bit below the length is combined with its     *)
(* partner, and so is what is expected of it.                              *)
LEMMA CombineShows ==
  ASSUME BitsInv, NEW operator, NEW other \in [1 .. m_length -> Bits!Bit],
         Bits!combine(operator, other)
  PROVE  BitsInv'
<1>1. BitsTyped /\ m_length \in Nat /\ m_length' = m_length
  BY DEF BitsInv, BitsTyped, Bits!combine
<1>2. m_data' = [w \in 1 .. Len(m_data) |->
        {b \in 0 .. BITS_COUNT_PER_ELEMENT - 1 :
           IF (w - 1) * BITS_COUNT_PER_ELEMENT + b + 1 <= m_length
           THEN Bits!Combined(operator, b \in m_data[w],
                              other[(w - 1) * BITS_COUNT_PER_ELEMENT + b + 1])
           ELSE b \in m_data[w]}]
  BY DEF Bits!combine
<1>3. known' = [i \in 1 .. m_length |->
                  {Bits!Combined(operator, one, other[i]) : one \in known[i]}]
  BY DEF Bits!combine
<1>4. /\ m_data \in Seq(Bits!Word) /\ Len(m_data) = Bits!Words(m_length) /\ Len(m_data) \in Nat
      /\ known \in Seq(SUBSET Bits!Bit) /\ Len(known) = m_length
  BY <1>1 DEF BitsTyped
<1>5. ASSUME NEW one \in Bits!Bit, NEW two \in Bits!Bit
      PROVE  Bits!Combined(operator, one, two) \in Bits!Bit
  BY DEF Bits!Combined, Bits!Bit
<1>6. BitsTyped'
  <2>1. ASSUME NEW w \in 1 .. Len(m_data) PROVE m_data'[w] \in Bits!Word
    BY <1>2 DEF Bits!Word
  <2>2. m_data' \in Seq(Bits!Word) /\ Len(m_data') = Len(m_data)
    <3>1. PICK f, len : f = m_data' /\ len = Len(m_data)
      OBVIOUS
    <3>2. f = [w \in 1 .. len |-> f[w]]
      BY <1>2, <3>1
    <3>3. \A w \in 1 .. len : f[w] \in Bits!Word
      BY <2>1, <3>1
    <3>4. f \in [1 .. len -> Bits!Word] /\ len \in Nat
      BY <1>4, <3>1, <3>2, <3>3
    <3>5. QED
      BY <3>1, <3>4, FunctionIsSeq
  <2>3. ASSUME NEW i \in 1 .. m_length PROVE known'[i] \in SUBSET Bits!Bit
    <3>1. known[i] \in SUBSET Bits!Bit /\ other[i] \in Bits!Bit
      BY <1>4
    <3>2. known'[i] = {Bits!Combined(operator, one, other[i]) : one \in known[i]}
      BY <1>3
    <3>3. QED
      BY <1>5, <3>1, <3>2
  <2>4. known' \in Seq(SUBSET Bits!Bit) /\ Len(known') = m_length
    BY <1>1, <1>3, <2>3
  <2>5. QED
    BY <1>1, <1>4, <2>2, <2>4 DEF BitsTyped
<1>7. ASSUME NEW i \in 1 .. m_length PROVE Shows(i)'
  <2>1. PICK q \in Nat, r \in 0 .. BITS_COUNT_PER_ELEMENT - 1 :
          /\ q = Bits!arrayIndex(i - 1) /\ r = Bits!bitIndex(i - 1)
          /\ q + 1 \in 1 .. Len(m_data)
          /\ i - 1 = q * BITS_COUNT_PER_ELEMENT + r
    BY <1>1, BitPlace
  <2>2. /\ Bits!isSet(i - 1) <=> r \in m_data[q + 1]
        /\ Bits!isSet(i - 1)' <=> r \in m_data'[q + 1]
    BY <2>1 DEF Bits!isSet, Bits!arrayIndex, Bits!bitIndex
  <2>3. (q + 1) - 1 = q /\ (i - 1) + 1 = i /\ i <= m_length
    BY <1>1
  <2>4. r \in m_data'[q + 1] <=> Bits!Combined(operator, r \in m_data[q + 1], other[i])
    BY <1>2, <2>1, <2>3
  <2>5. known'[i] = {Bits!Combined(operator, one, other[i]) : one \in known[i]}
    BY <1>3
  <2>6. Shows(i) /\ other[i] \in Bits!Bit
    BY DEF BitsInv
  <2>7. CASE Bits!isSet(i - 1)
    <3>1. TRUE \in known[i]
      BY <2>6, <2>7 DEF Shows
    <3>2. Bits!Combined(operator, TRUE, other[i]) \in known'[i]
      BY <2>5, <3>1
    <3>3. Bits!isSet(i - 1)' <=> Bits!Combined(operator, TRUE, other[i])
      BY <2>2, <2>4, <2>7 DEF Bits!Combined
    <3>4. Bits!Combined(operator, TRUE, other[i]) \in {TRUE, FALSE}
      BY DEF Bits!Combined
    <3>5. QED
      BY <3>2, <3>3, <3>4 DEF Shows
  <2>8. CASE ~Bits!isSet(i - 1)
    <3>1. FALSE \in known[i]
      BY <2>6, <2>8 DEF Shows
    <3>2. Bits!Combined(operator, FALSE, other[i]) \in known'[i]
      BY <2>5, <3>1
    <3>3. Bits!isSet(i - 1)' <=> Bits!Combined(operator, FALSE, other[i])
      BY <2>2, <2>4, <2>8 DEF Bits!Combined
    <3>4. Bits!Combined(operator, FALSE, other[i]) \in {TRUE, FALSE}
      BY <2>6 DEF Bits!Combined, Bits!Bit
    <3>5. QED
      BY <3>2, <3>3, <3>4 DEF Shows
  <2>9. QED
    BY <2>7, <2>8
<1>8. QED
  BY <1>1, <1>6, <1>7 DEF BitsInv

(* Every operation of the bit array. *)
LEMMA BitsNextShows == BitsInv /\ [Bits!BitsNext]_bitVars => BitsInv'
<1> SUFFICES ASSUME BitsInv, [Bits!BitsNext]_bitVars PROVE BitsInv'
  OBVIOUS
<1>1. CASE \E location \in 0 .. MaxBits - 1, one \in Bits!Bit : Bits!setBit(location, one)
  BY <1>1, SetBitShows, BitArrayAssumption
<1>2. CASE \E newSize \in 0 .. MaxBits, saveContent \in BOOLEAN :
             Bits!changeLength(newSize, saveContent)
  BY <1>2, ChangeLengthShows, BitArrayAssumption
<1>3. CASE Bits!resetArray
  BY <1>3, ResetShows
<1>4. CASE \E operator \in {"&=", "|="}, other \in [1 .. m_length -> Bits!Bit] :
             Bits!combine(operator, other)
  BY <1>4, CombineShows
<1>5. CASE UNCHANGED bitVars
  BY <1>5 DEF bitVars, BitsInv, BitsTyped, Shows, Bits!isSet, Bits!arrayIndex, Bits!bitIndex,
              Bits!Words, Bits!Word, Bits!Bit
<1>6. QED
  BY <1>1, <1>2, <1>3, <1>4, <1>5 DEF Bits!BitsNext

(* The words that are not zero, and the least member of a set. *)
Busy == {w \in 1 .. Bits!Words(m_length) : m_data[w] # {}}
LowestOf(S) == CHOOSE b \in S : \A c \in S : b <= c

LEMMA LowestIsLeast ==
  ASSUME NEW S \in SUBSET Nat, S # {}
  PROVE  LowestOf(S) \in S /\ \A c \in S : LowestOf(S) <= c
BY LeastOf DEF LowestOf

(* first(): the scan stops at the lowest bit of the lowest word that is    *)
(* not zero, and what earlier lengths left above the length is no bit.     *)
LEMMA FirstIs == BitsTyped => Bits!FirstIsLowest
<1> SUFFICES ASSUME BitsTyped PROVE Bits!FirstIsLowest
  OBVIOUS
<1>1. PICK p \in Nat \ {0} : p = BITS_COUNT_PER_ELEMENT
  BY BitArrayAssumption
<1>2. /\ m_length \in Nat /\ m_data \in Seq(Bits!Word)
      /\ Len(m_data) = Bits!Words(m_length) /\ Len(m_data) \in Nat
  BY DEF BitsTyped
<1>3. Bits!first = IF Busy = {} THEN m_length ELSE Bits!FirstOne(LowestOf(Busy))
  BY DEF Bits!first, Busy, LowestOf
<1>4. ASSUME NEW i \in 0 .. m_length - 1, Bits!isSet(i)
      PROVE  \E q \in Nat, r \in 0 .. p - 1 :
               q + 1 \in Busy /\ r \in m_data[q + 1] /\ i = q * p + r
  <2>1. PICK q \in Nat, r \in 0 .. p - 1 :
          /\ q = Bits!arrayIndex(i) /\ r = Bits!bitIndex(i)
          /\ q + 1 \in 1 .. Bits!Words(m_length) /\ i = q * p + r
    BY <1>1, <1>2, PlaceOf
  <2>2. r \in m_data[q + 1]
    BY <1>4, <2>1 DEF Bits!isSet
  <2>3. QED
    BY <2>1, <2>2 DEF Busy
<1>5. CASE Busy = {}
  <2>1. \A i \in 0 .. m_length - 1 : ~Bits!isSet(i)
    BY <1>4, <1>5
  <2>2. Bits!first = m_length
    BY <1>3, <1>5
  <2>3. QED
    BY <1>2, <2>1, <2>2 DEF Bits!FirstIsLowest
<1>6. CASE Busy # {}
  <2>1. Busy \in SUBSET Nat
    BY <1>2 DEF Busy
  <2>2. PICK w \in Nat : /\ w + 1 = LowestOf(Busy) /\ w + 1 \in Busy
                         /\ \A v \in Busy : w + 1 <= v
    <3>1. LowestOf(Busy) \in Busy /\ \A v \in Busy : LowestOf(Busy) <= v
      BY <1>6, <2>1, LowestIsLeast
    <3>2. LowestOf(Busy) - 1 \in Nat /\ (LowestOf(Busy) - 1) + 1 = LowestOf(Busy)
      BY <1>2, <3>1 DEF Busy
    <3>3. QED
      BY <3>1, <3>2
  <2>3. m_data[w + 1] \in SUBSET (0 .. p - 1) /\ m_data[w + 1] # {} /\ w + 1 \in 1 .. Len(m_data)
    BY <1>1, <1>2, <2>2 DEF Busy, Bits!Word
  <2>4. PICK b \in 0 .. p - 1 : /\ b = LowestOf(m_data[w + 1]) /\ b \in m_data[w + 1]
                                /\ \A c \in m_data[w + 1] : b <= c
    <3>1. m_data[w + 1] \in SUBSET Nat
      BY <1>1, <2>3
    <3>2. QED
      BY <2>3, <3>1, LowestIsLeast
  <2>5. PICK at \in Nat : at = w * p + b /\ Bits!arrayIndex(at) = w /\ Bits!bitIndex(at) = b
    BY <1>1, PlaceBack
  <2>6. Bits!first = IF at >= m_length THEN m_length ELSE at
    <3>1. (w + 1) - 1 = w
      OBVIOUS
    <3>2. Bits!FirstOne(w + 1) =
            LET lowest == LowestOf(m_data[w + 1])
                location == ((w + 1) - 1) * BITS_COUNT_PER_ELEMENT + lowest
            IN  IF location >= m_length THEN m_length ELSE location
      BY DEF Bits!FirstOne, LowestOf
    <3>3. Bits!FirstOne(w + 1) = IF at >= m_length THEN m_length ELSE at
      BY <1>1, <2>4, <2>5, <3>1, <3>2
    <3>4. QED
      BY <1>3, <1>6, <2>2, <3>3
  <2>7. ASSUME NEW i \in 0 .. m_length - 1, Bits!isSet(i) PROVE at <= i
    <3>1. PICK q \in Nat, r \in 0 .. p - 1 :
            q + 1 \in Busy /\ r \in m_data[q + 1] /\ i = q * p + r
      BY <1>4, <2>7
    <3>2. w + 1 <= q + 1
      BY <2>2, <3>1
    <3>3. CASE w = q
      BY <2>4, <2>5, <3>1, <3>3
    <3>4. CASE w # q
      <4>1. w + 1 <= q /\ w + 1 \in Nat
        BY <3>2, <3>4
      <4>2. p * (w + 1) <= p * q /\ p * (w + 1) = p * w + p /\ p * w = w * p /\ p * q = q * p
            /\ p * w \in Nat /\ p * q \in Nat
        BY <4>1, Multiples
      <4>3. QED
        BY <2>5, <3>1, <4>2
    <3>5. QED
      BY <3>3, <3>4
  <2>8. at < m_length => Bits!isSet(at)
    BY <2>4, <2>5 DEF Bits!isSet
  <2>9. QED
    BY <1>2, <2>6, <2>7, <2>8 DEF Bits!FirstIsLowest
<1>7. QED
  BY <1>5, <1>6

(* What BitsInv says of a bit is what the property says. *)
LEMMA ShowsKept == BitsInv => BitsKept
<1> SUFFICES ASSUME BitsInv PROVE BitsKept
  OBVIOUS
<1>1. ASSUME NEW i \in 1 .. m_length PROVE Bits!isSet(i - 1) \in known[i]
  <2>1. Bits!isSet(i - 1) \in BOOLEAN
    BY DEF Bits!isSet
  <2>2. Shows(i)
    BY DEF BitsInv
  <2>3. QED
    BY <2>1, <2>2, TruthIn DEF Shows
<1>2. Len(known) = m_length /\ BitsTyped
  BY DEF BitsInv, BitsTyped
<1>3. QED
  BY <1>1, <1>2, FirstIs DEF BitsKept, Bits!BitsKept

(* cSetArray: a bit keeps the value it was given through every change of   *)
(* the length and every combination, and first() finds the lowest one,     *)
(* for every length and every number of bits in a word.                    *)
THEOREM BitArrayKeepsBits == Spec => []BitsKept
<1>1. Init => BitsInv
  BY BitsInitShow DEF Init
<1>2. BitsInv /\ [Next]_vars => BitsInv'
  <2>1. [Next]_vars => [Bits!BitsNext]_bitVars
    BY DEF Next, TextMoves, OthersRest, vars, bitVars, Bits!bitVars
  <2>2. QED
    BY <2>1, BitsNextShows
<1>3. QED
  BY <1>1, <1>2, ShowsKept, PTL DEF Spec
-----------------------------------------------------------------------------
LEMMA RemainderIs ==
  ASSUME NEW a \in Nat, NEW p \in Nat \ {0}
  PROVE  a % p \in 0 .. p - 1 /\ a % p \in Nat
BY DivMod

(* The sum of a key is a number: its place is one of the table's.          *)
LEMMA SumIsNumber ==
  ASSUME NEW index \in HashKeys
  PROVE  Hash!ByteSum(index) \in Nat
<1>1. PICK len \in Nat : index \in Seq(Nat) /\ Len(index) = len /\ UintRange \in Nat \ {0}
  BY HashAssumption, ListAssumption, ArrayAssumption
<1>2. PICK step : step = [pair \in Nat \X (1 .. len) |-> (pair[1] + index[pair[2]]) % UintRange]
  OBVIOUS
<1>3. step \in [Nat \X (1 .. len) -> Nat]
  <2>1. ASSUME NEW pair \in Nat \X (1 .. len)
        PROVE  (pair[1] + index[pair[2]]) % UintRange \in Nat
    <3>1. pair[1] \in Nat /\ index[pair[2]] \in Nat
      BY <1>1
    <3>2. pair[1] + index[pair[2]] \in Nat
      BY <3>1
    <3>3. QED
      BY <1>1, <3>2, RemainderIs
  <2>2. QED
    BY <1>2, <2>1
<1>4. PICK f \in [0 .. len -> Nat] :
        f[0] = 0 /\ \A k \in 1 .. len : f[k] = step[<<f[k - 1], k>>]
  <2>1. 0 \in Nat
    OBVIOUS
  <2>2. PICK f : Recursive(f, len, Nat, 0, step)
    BY <1>1, <1>3, <2>1, Recursion, Zenon
  <2>3. QED
    BY <2>2 DEF Recursive
<1>5. f = [k \in 0 .. len |-> IF k = 0 THEN 0 ELSE (f[k - 1] + index[k]) % UintRange]
  <2>1. ASSUME NEW k \in 0 .. len
        PROVE  f[k] = IF k = 0 THEN 0 ELSE (f[k - 1] + index[k]) % UintRange
    <3>1. CASE k = 0
      BY <1>4, <3>1
    <3>2. CASE k # 0
      <4>1. k - 1 \in 0 .. len /\ k \in 1 .. len /\ f[k] = step[<<f[k - 1], k>>]
        BY <1>1, <1>4, <3>2
      <4>2. <<f[k - 1], k>> \in Nat \X (1 .. len)
        BY <1>4, <4>1
      <4>3. QED
        BY <1>2, <3>2, <4>1, <4>2
    <3>3. QED
      BY <3>1, <3>2
  <2>2. QED
    BY <1>4, <2>1
<1>6. PICK sum : /\ sum = [n \in 0 .. len |-> IF n = 0 THEN 0 ELSE (sum[n - 1] + index[n]) % UintRange]
                 /\ Hash!ByteSum(index) = sum[len]
  <2>1. PICK sum : sum = CHOOSE s : s = [n \in 0 .. len |-> IF n = 0 THEN 0 ELSE (s[n - 1] + index[n]) % UintRange]
    OBVIOUS
  <2>2. sum = [n \in 0 .. len |-> IF n = 0 THEN 0 ELSE (sum[n - 1] + index[n]) % UintRange]
    BY <1>5, <2>1
  <2>3. Hash!ByteSum(index) = sum[len]
    BY <1>1, <2>1 DEF Hash!ByteSum
  <2>4. QED
    BY <2>2, <2>3
<1>7. PICK S : S = {k \in 0 .. len : sum[k] \in Nat}
  OBVIOUS
<1>8. 0 \in S
  BY <1>1, <1>6, <1>7
<1>9. ASSUME NEW k \in 0 .. len - 1, k \in S PROVE k + 1 \in S
  <2>1. k + 1 \in 1 .. len /\ (k + 1) - 1 = k /\ k + 1 # 0 /\ sum[k] \in Nat
    BY <1>1, <1>7, <1>9
  <2>2. sum[k + 1] = (sum[k] + index[k + 1]) % UintRange
    BY <1>1, <1>6, <2>1
  <2>3. sum[k] + index[k + 1] \in Nat
    BY <1>1, <2>1
  <2>4. sum[k + 1] \in Nat
    BY <1>1, <2>2, <2>3, RemainderIs
  <2>5. QED
    BY <1>7, <2>1, <2>4
<1>10. 0 .. len \subseteq S
  BY <1>1, <1>8, <1>9, Induction
<1>11. len \in S
  BY <1>1, <1>10
<1>12. QED
  BY <1>6, <1>7, <1>11

LEMMA PlaceInTable ==
  ASSUME NEW index \in HashKeys, NEW n \in Nat \ {0}
  PROVE  Hash!cHashFunction(index, n) \in 0 .. n - 1
BY SumIsNumber, DivMod DEF Hash!cHashFunction

-----------------------------------------------------------------------------
Elements == [m_a : HashKeys, m_b : Field]

PlaceOfKey(k, n) == Hash!cHashFunction(k, n)

(* The list l at place p of a table of n lists: it holds the keys of K that *)
(* belong there, each once and with what d gives it, and nothing else.      *)
ListSound(l, p, n, K, d) ==
  /\ l \in Seq(Elements)
  /\ \A i \in 1 .. Len(l) : l[i].m_a \in K /\ PlaceOfKey(l[i].m_a, n) = p /\ l[i].m_b = d[l[i].m_a]
  /\ \A i, j \in 1 .. Len(l) : l[i].m_a = l[j].m_a => i = j
  /\ \A k \in K : PlaceOfKey(k, n) = p => \E i \in 1 .. Len(l) : l[i].m_a = k

Sound(h, n, K, d) ==
  /\ K \subseteq HashKeys
  /\ h = [p \in 0 .. n - 1 |-> h[p]]
  /\ \A p \in 0 .. n - 1 : ListSound(h[p], p, n, K, d)

(* The other lists do not see a change of a key that is not theirs. *)
LEMMA ListUntouched ==
  ASSUME NEW l, NEW p, NEW n, NEW K, NEW d, NEW M, NEW e, ListSound(l, p, n, K, d),
         \A k : PlaceOfKey(k, n) = p => (k \in K <=> k \in M),
         \A k \in K : PlaceOfKey(k, n) = p => e[k] = d[k]
  PROVE  ListSound(l, p, n, M, e)
<1>1. \A i \in 1 .. Len(l) : l[i].m_a \in M /\ PlaceOfKey(l[i].m_a, n) = p /\ l[i].m_b = e[l[i].m_a]
  BY DEF ListSound
<1>2. \A k \in M : PlaceOfKey(k, n) = p => \E i \in 1 .. Len(l) : l[i].m_a = k
  BY DEF ListSound
<1>3. QED
  BY <1>1, <1>2 DEF ListSound

LEMMA ListAppended ==
  ASSUME NEW l, NEW p, NEW n, NEW K, NEW d, NEW e, NEW index \in HashKeys, NEW data \in Field,
         ListSound(l, p, n, K, d), index \notin K, PlaceOfKey(index, n) = p,
         e[index] = data, \A k \in K : e[k] = d[k]
  PROVE  ListSound(Append(l, [m_a |-> index, m_b |-> data]), p, n, K \cup {index}, e)
<1>1. PICK pair \in Elements : pair = [m_a |-> index, m_b |-> data]
  BY DEF Elements
<1>2. pair.m_a = index /\ pair.m_b = data
  BY <1>1
<1>3. PICK x : x = Append(l, pair)
  OBVIOUS
<1>4. l \in Seq(Elements)
  BY DEF ListSound
<1>5. PICK len \in Nat : len = Len(l)
  BY <1>4
<1>6. /\ x \in Seq(Elements) /\ Len(x) = len + 1 /\ x[len + 1] = pair
      /\ \A j \in 1 .. len : x[j] = l[j]
  BY <1>1, <1>3, <1>4, <1>5, AppendedSeq
<1>7. ASSUME NEW i \in 1 .. Len(x)
      PROVE  \/ i = len + 1 /\ x[i] = pair
             \/ i \in 1 .. len /\ x[i] = l[i] /\ l[i].m_a \in K
  <2>1. CASE i = len + 1
    BY <1>6, <2>1
  <2>2. CASE i # len + 1
    <3>1. i \in 1 .. len
      BY <1>6, <2>2
    <3>2. QED
      BY <1>5, <1>6, <3>1 DEF ListSound
  <2>3. QED
    BY <2>1, <2>2
<1>8. ASSUME NEW i \in 1 .. Len(x)
      PROVE  x[i].m_a \in K \cup {index} /\ PlaceOfKey(x[i].m_a, n) = p /\ x[i].m_b = e[x[i].m_a]
  <2>1. CASE x[i] = pair
    BY <1>2, <2>1
  <2>2. CASE i \in 1 .. len /\ x[i] = l[i] /\ l[i].m_a \in K
    BY <1>5, <2>2 DEF ListSound
  <2>3. QED
    BY <1>7, <2>1, <2>2
<1>9. ASSUME NEW i \in 1 .. Len(x), NEW j \in 1 .. Len(x), x[i].m_a = x[j].m_a PROVE i = j
  <2>1. CASE i = len + 1
    BY <1>2, <1>7, <1>9, <2>1
  <2>2. CASE i \in 1 .. len /\ x[i] = l[i] /\ l[i].m_a \in K
    <3>1. j \in 1 .. len /\ x[j] = l[j]
      BY <1>2, <1>7, <1>9, <2>2
    <3>2. QED
      BY <1>5, <1>9, <2>2, <3>1 DEF ListSound
  <2>3. QED
    BY <1>7, <2>1, <2>2
<1>10. ASSUME NEW k \in K \cup {index}, PlaceOfKey(k, n) = p
       PROVE  \E i \in 1 .. Len(x) : x[i].m_a = k
  <2>1. CASE k = index
    <3>1. len + 1 \in 1 .. Len(x)
      BY <1>6
    <3>2. QED
      BY <1>2, <1>6, <2>1, <3>1
  <2>2. CASE k \in K
    <3>1. PICK i \in 1 .. len : l[i].m_a = k
      BY <1>5, <1>10, <2>2 DEF ListSound
    <3>2. i \in 1 .. Len(x)
      BY <1>6
    <3>3. QED
      BY <1>6, <3>1, <3>2
  <2>3. QED
    BY <2>1, <2>2
<1>11. ListSound(x, p, n, K \cup {index}, e)
  BY <1>6, <1>8, <1>9, <1>10 DEF ListSound
<1>12. QED
  BY <1>1, <1>3, <1>11

LEMMA ListRemoved ==
  ASSUME NEW l, NEW p, NEW n, NEW K, NEW d, NEW e, NEW index,
         ListSound(l, p, n, K, d), NEW at \in 1 .. Len(l), l[at].m_a = index,
         \A k \in K \ {index} : e[k] = d[k]
  PROVE  ListSound(Hash!RemoveAt(l, at), p, n, K \ {index}, e)
<1>1. l \in Seq(Elements)
  BY DEF ListSound
<1>2. PICK len \in Nat : len = Len(l) /\ at \in 1 .. len
  BY <1>1
<1>3. PICK x : x = Hash!RemoveAt(l, at)
  OBVIOUS
<1>4. PICK from : from = [j \in 1 .. len - 1 |-> IF j < at THEN j ELSE j + 1]
  OBVIOUS
<1>5. /\ x \in Seq(Elements) /\ Len(x) = len - 1
      /\ \A j \in 1 .. len - 1 : x[j] = l[IF j < at THEN j ELSE j + 1]
  BY <1>1, <1>2, <1>3, RemovedSeq
<1>6. \A j \in 1 .. Len(x) : x[j] = l[from[j]] /\ from[j] \in 1 .. len /\ from[j] # at
  <2>1. ASSUME NEW j \in 1 .. Len(x)
        PROVE  x[j] = l[from[j]] /\ from[j] \in 1 .. len /\ from[j] # at
    <3>1. j \in 1 .. len - 1 /\ x[j] = l[from[j]]
      BY <1>4, <1>5
    <3>2. from[j] \in 1 .. len /\ from[j] # at
      BY <1>2, <1>4, <3>1
    <3>3. QED
      BY <3>1, <3>2
  <2>2. QED
    BY <2>1
<1>7. \A i, j \in 1 .. Len(x) : from[i] = from[j] => i = j
  BY <1>2, <1>4, <1>5
<1>8. \A i \in 1 .. len : i # at => \E j \in 1 .. Len(x) : from[j] = i
  <2>1. ASSUME NEW i \in 1 .. len, i # at PROVE \E j \in 1 .. Len(x) : from[j] = i
    <3>1. CASE i < at
      <4>1. i \in 1 .. Len(x) /\ from[i] = i
        BY <1>2, <1>4, <1>5, <3>1
      <4>2. QED
        BY <4>1
    <3>2. CASE ~(i < at)
      <4>1. i - 1 \in 1 .. Len(x) /\ from[i - 1] = i
        BY <1>2, <1>4, <1>5, <2>1, <3>2
      <4>2. QED
        BY <4>1
    <3>3. QED
      BY <3>1, <3>2
  <2>2. QED
    BY <2>1
<1>9. ASSUME NEW i \in 1 .. Len(x)
      PROVE  x[i].m_a \in K \ {index} /\ PlaceOfKey(x[i].m_a, n) = p /\ x[i].m_b = e[x[i].m_a]
  <2>1. x[i] = l[from[i]] /\ from[i] \in 1 .. Len(l) /\ from[i] # at
    BY <1>2, <1>6
  <2>2. l[from[i]].m_a # index
    BY <2>1 DEF ListSound
  <2>3. QED
    BY <2>1, <2>2 DEF ListSound
<1>10. ASSUME NEW i \in 1 .. Len(x), NEW j \in 1 .. Len(x), x[i].m_a = x[j].m_a PROVE i = j
  <2>1. from[i] \in 1 .. Len(l) /\ from[j] \in 1 .. Len(l) /\ l[from[i]].m_a = l[from[j]].m_a
    BY <1>2, <1>6, <1>10
  <2>2. from[i] = from[j]
    BY <2>1 DEF ListSound
  <2>3. QED
    BY <1>7, <2>2
<1>11. ASSUME NEW k \in K \ {index}, PlaceOfKey(k, n) = p
       PROVE  \E i \in 1 .. Len(x) : x[i].m_a = k
  <2>1. PICK i \in 1 .. len : l[i].m_a = k
    BY <1>2, <1>11 DEF ListSound
  <2>2. PICK j \in 1 .. Len(x) : from[j] = i
    BY <1>8, <2>1
  <2>3. QED
    BY <1>6, <2>1, <2>2
<1>12. ListSound(x, p, n, K \ {index}, e)
  BY <1>5, <1>9, <1>10, <1>11 DEF ListSound
<1>13. QED
  BY <1>3, <1>12

LEMMA ListAssigned ==
  ASSUME NEW l, NEW p, NEW n, NEW K, NEW d, NEW e, NEW index, NEW data \in Field,
         ListSound(l, p, n, K, d), NEW at \in 1 .. Len(l), l[at].m_a = index,
         e[index] = data, \A k \in K \ {index} : e[k] = d[k]
  PROVE  ListSound([l EXCEPT ![at].m_b = data], p, n, K \cup {index}, e)
<1>1. l \in Seq(Elements) /\ l[at] \in Elements /\ index \in K
  BY DEF ListSound
<1>2. PICK pair : pair = [l[at] EXCEPT !.m_b = data]
  OBVIOUS
<1>3. pair \in Elements /\ pair.m_a = index /\ pair.m_b = data
  BY <1>1, <1>2 DEF Elements
<1>4. PICK x : x = [l EXCEPT ![at] = pair]
  OBVIOUS
<1>5. x = [l EXCEPT ![at].m_b = data]
  BY <1>2, <1>4
<1>6. /\ x \in Seq(Elements) /\ Len(x) = Len(l) /\ x[at] = pair
      /\ \A j \in 1 .. Len(l) : j # at => x[j] = l[j]
  BY <1>1, <1>3, <1>4, ChangedSeq
<1>7. \A i \in 1 .. Len(l) : x[i].m_a = l[i].m_a
  BY <1>3, <1>6
<1>8. ASSUME NEW i \in 1 .. Len(x)
      PROVE  x[i].m_a \in K \cup {index} /\ PlaceOfKey(x[i].m_a, n) = p /\ x[i].m_b = e[x[i].m_a]
  <2>1. i \in 1 .. Len(l) /\ x[i].m_a = l[i].m_a /\ l[i].m_a \in K /\ PlaceOfKey(l[i].m_a, n) = p
    BY <1>6, <1>7 DEF ListSound
  <2>2. CASE i = at
    BY <1>3, <1>6, <2>1, <2>2
  <2>3. CASE i # at
    <3>1. l[i].m_a # index /\ x[i] = l[i] /\ l[i].m_b = d[l[i].m_a]
      BY <1>6, <2>1, <2>3 DEF ListSound
    <3>2. QED
      BY <2>1, <3>1
  <2>4. QED
    BY <2>2, <2>3
<1>9. \A i, j \in 1 .. Len(x) : x[i].m_a = x[j].m_a => i = j
  BY <1>6, <1>7 DEF ListSound
<1>10. \A k \in K \cup {index} : PlaceOfKey(k, n) = p => \E i \in 1 .. Len(x) : x[i].m_a = k
  BY <1>1, <1>6, <1>7 DEF ListSound
<1>11. ListSound(x, p, n, K \cup {index}, e)
  BY <1>6, <1>8, <1>9, <1>10 DEF ListSound
<1>12. QED
  BY <1>5, <1>11

-----------------------------------------------------------------------------
(* The table counts as everybody does. *)
LEMMA CardinalityIs ==
  ASSUME NEW S
  PROVE  Hash!Cardinality(S) = Cardinality(S)
BY DEF Hash!Cardinality, Cardinality

(* The length a table knows is that of its array. *)
LEMMA SizeIs ==
  ASSUME NEW n \in Nat, NEW h, h = [p \in 0 .. n - 1 |-> h[p]]
  PROVE  Hash!getSize(h) = n
<1>1. DOMAIN h = 0 .. n - 1
  OBVIOUS
<1>2. 0 \in Int /\ n - 1 \in Int
  OBVIOUS
<1>3. Cardinality(0 .. n - 1) = IF 0 > n - 1 THEN 0 ELSE n - 1 - 0 + 1
  BY <1>2, FS_Interval, Zenon
<1>4. Cardinality(0 .. n - 1) = n
  BY <1>3
<1>5. QED
  BY <1>1, <1>4, CardinalityIs DEF Hash!getSize

(* A key is looked for in the list of its place. *)
LEMMA BucketIs ==
  ASSUME NEW n \in Nat \ {0}, NEW h, NEW K, NEW d, Sound(h, n, K, d), NEW index \in HashKeys
  PROVE  /\ Hash!getSize(h) = n
         /\ PlaceOfKey(index, n) \in 0 .. n - 1
         /\ Hash!cHashFunction(index, Hash!getSize(h)) = PlaceOfKey(index, n)
         /\ Hash!Bucket(h, index) = h[PlaceOfKey(index, n)]
         /\ ListSound(h[PlaceOfKey(index, n)], PlaceOfKey(index, n), n, K, d)
<1>1. h = [p \in 0 .. n - 1 |-> h[p]] /\ n \in Nat
  BY DEF Sound
<1>2. Hash!getSize(h) = n
  BY <1>1, SizeIs, Zenon
<1>3. PlaceOfKey(index, n) \in 0 .. n - 1
  BY PlaceInTable DEF PlaceOfKey
<1>4. QED
  BY <1>2, <1>3 DEF Sound, PlaceOfKey, Hash!Bucket

(* It is found there if it is in the table, and only then. *)
LEMMA FindIs ==
  ASSUME NEW n \in Nat \ {0}, NEW h, NEW K, NEW d, Sound(h, n, K, d), NEW index \in HashKeys
  PROVE  /\ Hash!hasKey(h, index) <=> index \in K
         /\ index \in K =>
              /\ Hash!Find(h, index) \in 1 .. Len(h[PlaceOfKey(index, n)])
              /\ h[PlaceOfKey(index, n)][Hash!Find(h, index)].m_a = index
              /\ h[PlaceOfKey(index, n)][Hash!Find(h, index)].m_b = d[index]
<1>1. PICK l : l = h[PlaceOfKey(index, n)]
  OBVIOUS
<1>2. Hash!Bucket(h, index) = l /\ ListSound(l, PlaceOfKey(index, n), n, K, d)
  BY <1>1, BucketIs
<1>3. l \in Seq(Elements)
  BY <1>2 DEF ListSound
<1>4. PICK found : found = Hash!Places(l, index)
  OBVIOUS
<1>5. found = {i \in 1 .. Len(l) : l[i].m_a = index}
  BY <1>4 DEF Hash!Places
<1>6. Hash!Find(h, index) = IF found = {} THEN 0 ELSE CHOOSE i \in found : \A j \in found : i <= j
  BY <1>2, <1>4 DEF Hash!Find
<1>7. found \in SUBSET Nat
  BY <1>3, <1>5
<1>8. CASE index \in K
  <2>1. found # {}
    BY <1>2, <1>5, <1>8 DEF ListSound
  <2>2. \E i \in found : \A j \in found : i <= j
    BY <1>7, <2>1, LeastOf
  <2>3. Hash!Find(h, index) \in found
    BY <1>6, <2>1, <2>2
  <2>4. Hash!Find(h, index) \in 1 .. Len(l) /\ l[Hash!Find(h, index)].m_a = index
    BY <1>5, <2>3
  <2>5. l[Hash!Find(h, index)].m_b = d[index]
    BY <1>2, <2>4 DEF ListSound
  <2>6. Hash!Find(h, index) # 0
    BY <1>3, <2>4
  <2>7. QED
    BY <1>1, <1>8, <2>4, <2>5, <2>6 DEF Hash!hasKey
<1>9. CASE index \notin K
  <2>1. found = {}
    BY <1>2, <1>5, <1>9 DEF ListSound
  <2>2. QED
    BY <1>6, <1>9, <2>1 DEF Hash!hasKey
<1>10. QED
  BY <1>8, <1>9

(* A table in which one list has changed. *)
LEMMA TableChanged ==
  ASSUME NEW n \in Nat, NEW h, NEW K, NEW d, NEW M, NEW e, NEW c, NEW x,
         Sound(h, n, K, d), M \subseteq HashKeys, ListSound(x, c, n, M, e),
         \A k : PlaceOfKey(k, n) # c => (k \in K <=> k \in M),
         \A k \in K : PlaceOfKey(k, n) # c => e[k] = d[k]
  PROVE  Sound([h EXCEPT ![c] = x], n, M, e)
<1>1. PICK g : g = [h EXCEPT ![c] = x]
  OBVIOUS
<1>2. h = [p \in 0 .. n - 1 |-> h[p]]
  BY DEF Sound
<1>3. /\ g = [p \in 0 .. n - 1 |-> g[p]]
      /\ c \in 0 .. n - 1 => g[c] = x
      /\ \A p \in 0 .. n - 1 : p # c => g[p] = h[p]
  BY <1>1, <1>2
<1>4. ASSUME NEW p \in 0 .. n - 1 PROVE ListSound(g[p], p, n, M, e)
  <2>1. CASE p = c
    BY <1>3, <2>1
  <2>2. CASE p # c
    <3>1. ListSound(h[p], p, n, K, d)
      BY DEF Sound
    <3>2. ListSound(h[p], p, n, M, e)
      BY <2>2, <3>1, ListUntouched
    <3>3. QED
      BY <1>3, <2>2, <3>2
  <2>3. QED
    BY <2>1, <2>2
<1>5. Sound(g, n, M, e)
  BY <1>3, <1>4 DEF Sound
<1>6. QED
  BY <1>1, <1>5

(* A pair of a new key put into the list of its place. *)
LEMMA TableAppended ==
  ASSUME NEW n \in Nat \ {0}, NEW h, NEW K, NEW d, NEW e, NEW index \in HashKeys, NEW data \in Field,
         Sound(h, n, K, d), index \notin K, e[index] = data, \A k \in K : e[k] = d[k]
  PROVE  Sound(Hash!Appended(h, [m_a |-> index, m_b |-> data]), n, K \cup {index}, e)
<1>1. PICK pair : pair = [m_a |-> index, m_b |-> data]
  OBVIOUS
<1>2. pair.m_a = index
  BY <1>1
<1>3. PICK c : c = PlaceOfKey(index, n)
  OBVIOUS
<1>4. ListSound(h[c], c, n, K, d) /\ Hash!cHashFunction(index, Hash!getSize(h)) = c /\ K \subseteq HashKeys
  BY <1>3, BucketIs DEF Sound
<1>5. ListSound(Append(h[c], pair), c, n, K \cup {index}, e)
  BY <1>1, <1>3, <1>4, ListAppended
<1>6. PICK x : x = Append(h[c], pair)
  OBVIOUS
<1>7. Sound([h EXCEPT ![c] = x], n, K \cup {index}, e)
  <2>1. \A k : PlaceOfKey(k, n) # c => (k \in K <=> k \in K \cup {index})
    BY <1>3
  <2>2. K \cup {index} \subseteq HashKeys /\ ListSound(x, c, n, K \cup {index}, e) /\ n \in Nat
    BY <1>4, <1>5, <1>6
  <2>3. QED
    BY <2>1, <2>2, TableChanged
<1>8. Hash!Appended(h, pair) = [h EXCEPT ![c] = x]
  BY <1>2, <1>4, <1>6 DEF Hash!Appended
<1>9. QED
  BY <1>1, <1>7, <1>8

-----------------------------------------------------------------------------
LEMMA EmptyTable ==
  ASSUME NEW n, NEW d
  PROVE  Sound(Hash!initHash(n), n, {}, d)
<1>1. PICK h : h = Hash!initHash(n)
  OBVIOUS
<1>2. h = [p \in 0 .. n - 1 |-> <<>>]
  BY <1>1 DEF Hash!initHash
<1>3. ASSUME NEW p \in 0 .. n - 1 PROVE ListSound(h[p], p, n, {}, d)
  <2>1. h[p] = <<>>
    BY <1>2
  <2>2. <<>> \in Seq(Elements) /\ Len(<<>>) = 0 /\ 1 .. 0 = {}
    OBVIOUS
  <2>3. ListSound(<<>>, p, n, {}, d)
    BY <2>2 DEF ListSound
  <2>4. QED
    BY <2>1, <2>3
<1>4. h = [p \in 0 .. n - 1 |-> h[p]]
  BY <1>2
<1>5. Sound(h, n, {}, d)
  BY <1>3, <1>4 DEF Sound
<1>6. QED
  BY <1>1, <1>5

(* The dictionary d of so many pairs of different keys. *)
Describes(d, pairs, len) ==
  /\ len \in Nat /\ pairs \in [1 .. len -> Elements] /\ Len(pairs) = len
  /\ \A i, j \in 1 .. len : pairs[i].m_a = pairs[j].m_a => i = j
  /\ DOMAIN d = {pairs[i].m_a : i \in 1 .. len}
  /\ \A i \in 1 .. len : d[pairs[i].m_a] = pairs[i].m_b

(* A table that is assigned holds what its pairs say. *)
LEMMA DictionaryIs ==
  ASSUME NEW pairs \in Hash!Pairs
  PROVE  \E len : Describes(Hash!Dictionary(pairs), pairs, len)
<1>1. PICK len \in 0 .. MaxKeys :
        /\ pairs \in [1 .. len -> Elements]
        /\ \A i, j \in DOMAIN pairs : pairs[i].m_a = pairs[j].m_a => i = j
  BY DEF Hash!Pairs, Elements
<1>2. len \in Nat /\ DOMAIN pairs = 1 .. len /\ Len(pairs) = len
  BY <1>1, HashAssumption
<1>3. PICK d : d = Hash!Dictionary(pairs)
  OBVIOUS
<1>4. d = [k \in {pairs[i].m_a : i \in DOMAIN pairs} |->
             pairs[CHOOSE i \in DOMAIN pairs : pairs[i].m_a = k].m_b]
  BY <1>3 DEF Hash!Dictionary
<1>5. ASSUME NEW i \in 1 .. len PROVE d[pairs[i].m_a] = pairs[i].m_b
  <2>1. PICK at : at = CHOOSE j \in DOMAIN pairs : pairs[j].m_a = pairs[i].m_a
    OBVIOUS
  <2>2. at \in DOMAIN pairs /\ pairs[at].m_a = pairs[i].m_a
    BY <1>2, <2>1
  <2>3. at = i
    BY <1>1, <1>2, <2>2
  <2>4. pairs[i].m_a \in {pairs[j].m_a : j \in DOMAIN pairs}
    BY <1>2
  <2>5. d[pairs[i].m_a] = pairs[at].m_b
    BY <1>4, <2>1, <2>4
  <2>6. QED
    BY <2>3, <2>5
<1>6. DOMAIN d = {pairs[i].m_a : i \in 1 .. len}
  BY <1>2, <1>4
<1>7. Describes(d, pairs, len)
  BY <1>1, <1>2, <1>5, <1>6 DEF Describes
<1>8. QED
  BY <1>3, <1>7

LEMMA AppendedIn ==
  ASSUME NEW n \in Nat \ {0}, NEW h \in [0 .. n - 1 -> Seq(Elements)], NEW pair \in Elements
  PROVE  Hash!Appended(h, pair) \in [0 .. n - 1 -> Seq(Elements)]
<1>1. h = [p \in 0 .. n - 1 |-> h[p]] /\ n \in Nat
  OBVIOUS
<1>2. Hash!getSize(h) = n
  BY <1>1, SizeIs, Zenon
<1>3. PICK c : c = Hash!cHashFunction(pair.m_a, n)
  OBVIOUS
<1>4. c \in 0 .. n - 1
  BY <1>3, PlaceInTable DEF Elements
<1>5. Append(h[c], pair) \in Seq(Elements)
  BY <1>4, AppendedSeq
<1>6. Hash!Appended(h, pair) = [h EXCEPT ![c] = Append(h[c], pair)]
  BY <1>2, <1>3 DEF Hash!Appended
<1>7. QED
  BY <1>4, <1>5, <1>6

LEMMA TableSound ==
  ASSUME NEW n \in Nat \ {0}, NEW pairs \in Hash!Pairs
  PROVE  Sound(Hash!Table(n, pairs), n, DOMAIN Hash!Dictionary(pairs), Hash!Dictionary(pairs))
<1>1. PICK d : d = Hash!Dictionary(pairs)
  OBVIOUS
<1>2. PICK len \in Nat :
        /\ pairs \in [1 .. len -> Elements] /\ Len(pairs) = len
        /\ \A i, j \in 1 .. len : pairs[i].m_a = pairs[j].m_a => i = j
        /\ DOMAIN d = {pairs[i].m_a : i \in 1 .. len}
        /\ \A i \in 1 .. len : d[pairs[i].m_a] = pairs[i].m_b
  <2>1. PICK len : Describes(d, pairs, len)
    BY <1>1, DictionaryIs, Zenon
  <2>2. QED
    BY <2>1 DEF Describes
<1>3. PICK Tables : Tables = [0 .. n - 1 -> Seq(Elements)]
  OBVIOUS
<1>4. PICK empty \in Tables : empty = Hash!initHash(n)
  <2>1. <<>> \in Seq(Elements)
    OBVIOUS
  <2>2. [p \in 0 .. n - 1 |-> <<>>] \in Tables
    BY <1>3, <2>1
  <2>3. QED
    BY <2>2 DEF Hash!initHash
<1>5. PICK step : step = [x \in Tables \X (1 .. len) |-> Hash!Appended(x[1], pairs[x[2]])]
  OBVIOUS
<1>6. step \in [Tables \X (1 .. len) -> Tables]
  <2>1. ASSUME NEW x \in Tables \X (1 .. len) PROVE Hash!Appended(x[1], pairs[x[2]]) \in Tables
    <3>1. x[1] \in [0 .. n - 1 -> Seq(Elements)] /\ pairs[x[2]] \in Elements
      BY <1>2, <1>3
    <3>2. QED
      BY <1>3, <3>1, AppendedIn
  <2>2. QED
    BY <1>5, <2>1
<1>7. PICK f : Recursive(f, len, Tables, empty, step)
  BY <1>2, <1>4, <1>6, Recursion, Zenon
<1>8. f \in [0 .. len -> Tables] /\ f[0] = empty /\ \A k \in 1 .. len : f[k] = step[<<f[k - 1], k>>]
  BY <1>7 DEF Recursive
<1>9. f = [k \in 0 .. len |-> IF k = 0 THEN Hash!initHash(n) ELSE Hash!Appended(f[k - 1], pairs[k])]
  <2>1. ASSUME NEW k \in 0 .. len
        PROVE  f[k] = IF k = 0 THEN Hash!initHash(n) ELSE Hash!Appended(f[k - 1], pairs[k])
    <3>1. CASE k = 0
      BY <1>4, <1>8, <3>1
    <3>2. CASE k # 0
      <4>1. k - 1 \in 0 .. len /\ k \in 1 .. len
        BY <1>2, <3>2
      <4>2. <<f[k - 1], k>> \in Tables \X (1 .. len) /\ f[k] = step[<<f[k - 1], k>>]
        BY <1>8, <4>1
      <4>3. QED
        BY <1>5, <3>2, <4>2
    <3>3. QED
      BY <3>1, <3>2
  <2>2. QED
    BY <1>8, <2>1
<1>10. PICK table :
         /\ table = [k \in 0 .. len |-> IF k = 0 THEN Hash!initHash(n) ELSE Hash!Appended(table[k - 1], pairs[k])]
         /\ Hash!Table(n, pairs) = table[len]
  <2>1. PICK table : table = CHOOSE t : t = [k \in 0 .. len |->
                       IF k = 0 THEN Hash!initHash(n) ELSE Hash!Appended(t[k - 1], pairs[k])]
    OBVIOUS
  <2>2. table = [k \in 0 .. len |-> IF k = 0 THEN Hash!initHash(n) ELSE Hash!Appended(table[k - 1], pairs[k])]
    BY <1>9, <2>1
  <2>3. Hash!Table(n, pairs) = table[len]
    BY <1>2, <2>1 DEF Hash!Table
  <2>4. QED
    BY <2>2, <2>3
<1>11. PICK S : S = {m \in 0 .. len : Sound(table[m], n, {pairs[i].m_a : i \in 1 .. m}, d)}
  OBVIOUS
<1>12. 0 \in S
  <2>1. {pairs[i].m_a : i \in 1 .. 0} = {} /\ 0 \in 0 .. len
    BY <1>2
  <2>2. table[0] = Hash!initHash(n)
    BY <1>2, <1>10
  <2>3. QED
    BY <1>11, <2>1, <2>2, EmptyTable
<1>13. ASSUME NEW m \in 0 .. len - 1, m \in S PROVE m + 1 \in S
  <2>1. m + 1 \in 1 .. len /\ m + 1 \in 0 .. len /\ (m + 1) - 1 = m /\ m + 1 # 0
    BY <1>2
  <2>2. table[m + 1] = Hash!Appended(table[m], pairs[m + 1])
    BY <1>10, <2>1
  <2>3. PICK K : K = {pairs[i].m_a : i \in 1 .. m}
    OBVIOUS
  <2>4. Sound(table[m], n, K, d)
    BY <1>11, <1>13, <2>3
  <2>5. PICK index, data : pairs[m + 1] = [m_a |-> index, m_b |-> data]
                           /\ index \in HashKeys /\ data \in Field
    BY <1>2, <2>1 DEF Elements
  <2>6. index \notin K
    <3>1. ASSUME NEW i \in 1 .. m PROVE pairs[i].m_a # index
      <4>1. i \in 1 .. len /\ i # m + 1
        BY <1>2
      <4>2. QED
        BY <1>2, <2>1, <2>5, <4>1
    <3>2. QED
      BY <2>3, <3>1
  <2>7. d[index] = data
    BY <1>2, <2>1, <2>5
  <2>8. Sound(table[m + 1], n, K \cup {index}, d)
    BY <2>2, <2>4, <2>5, <2>6, <2>7, TableAppended
  <2>9. K \cup {index} = {pairs[i].m_a : i \in 1 .. m + 1}
    <3>1. 1 .. m + 1 = (1 .. m) \cup {m + 1}
      BY <1>2
    <3>2. QED
      BY <2>3, <2>5, <3>1
  <2>10. QED
    BY <1>11, <2>1, <2>8, <2>9
<1>14. len \in S
  <2>1. 0 .. len \subseteq S
    BY <1>2, <1>12, <1>13, Induction
  <2>2. QED
    BY <1>2, <2>1
<1>15. QED
  BY <1>1, <1>2, <1>10, <1>11, <1>14

-----------------------------------------------------------------------------
HashInv ==
  /\ m_vectorSize \in Nat \ {0} /\ m_vectorSize \in VectorSizes
  /\ Sound(m_hash, m_vectorSize, DOMAIN dictionary, dictionary)

LEMMA HashStarts == Hash!HashInit => HashInv
<1>1. SUFFICES ASSUME Hash!HashInit PROVE HashInv
  OBVIOUS
<1>2. m_vectorSize \in Nat \ {0} /\ m_vectorSize \in VectorSizes
  BY <1>1, HashAssumption DEF Hash!HashInit
<1>3. PICK pairs \in Hash!Pairs :
        dictionary = Hash!Dictionary(pairs) /\ m_hash = Hash!Table(m_vectorSize, pairs)
  BY <1>1 DEF Hash!HashInit
<1>4. QED
  BY <1>2, <1>3, TableSound DEF HashInv

LEMMA DefinedIs ==
  ASSUME NEW index, NEW data
  PROVE  /\ DOMAIN Hash!Defined(index, data) = DOMAIN dictionary \cup {index}
         /\ Hash!Defined(index, data)[index] = data
         /\ \A k \in DOMAIN dictionary : k # index => Hash!Defined(index, data)[k] = dictionary[k]
BY DEF Hash!Defined

LEMMA HashAppends ==
  ASSUME NEW index \in HashKeys, NEW data \in Field, HashInv, Hash!append(index, data)
  PROVE  HashInv'
<1>1. m_vectorSize \in Nat \ {0} /\ Sound(m_hash, m_vectorSize, DOMAIN dictionary, dictionary)
  BY DEF HashInv
<1>2. index \notin DOMAIN dictionary
  BY <1>1, FindIs DEF Hash!append, Hash!MayAppend
<1>3. PICK e : e = Hash!Defined(index, data)
  OBVIOUS
<1>4. /\ DOMAIN e = DOMAIN dictionary \cup {index} /\ e[index] = data
      /\ \A k \in DOMAIN dictionary : e[k] = dictionary[k]
  BY <1>2, <1>3, DefinedIs
<1>5. PICK h : h = Hash!Appended(m_hash, [m_a |-> index, m_b |-> data])
  OBVIOUS
<1>6. Sound(h, m_vectorSize, DOMAIN dictionary \cup {index}, e)
  BY <1>1, <1>2, <1>4, <1>5, TableAppended
<1>7. m_hash' = h /\ dictionary' = e /\ m_vectorSize' = m_vectorSize
  BY <1>3, <1>5 DEF Hash!append
<1>8. QED
  BY <1>4, <1>6, <1>7 DEF HashInv

LEMMA HashRemoves ==
  ASSUME NEW index \in HashKeys, HashInv, Hash!remove(index)
  PROVE  HashInv'
<1>1. PICK n \in Nat \ {0} : n = m_vectorSize
  BY DEF HashInv
<1>2. PICK K : K = DOMAIN dictionary
  OBVIOUS
<1>3. Sound(m_hash, n, K, dictionary) /\ K \subseteq HashKeys
  BY <1>1, <1>2 DEF HashInv, Sound
<1>4. index \in K
  BY <1>3, FindIs DEF Hash!remove
<1>5. PICK c : c = PlaceOfKey(index, n)
  OBVIOUS
<1>6. Hash!cHashFunction(index, Hash!getSize(m_hash)) = c /\ ListSound(m_hash[c], c, n, K, dictionary)
  BY <1>3, <1>5, BucketIs
<1>7. PICK at : at = Hash!Find(m_hash, index)
  OBVIOUS
<1>8. at \in 1 .. Len(m_hash[c]) /\ m_hash[c][at].m_a = index
  BY <1>3, <1>4, <1>5, <1>7, FindIs
<1>9. PICK e : e = [k \in K \ {index} |-> dictionary[k]]
  OBVIOUS
<1>10. PICK x : x = Hash!RemoveAt(m_hash[c], at)
  OBVIOUS
<1>11. ListSound(x, c, n, K \ {index}, e)
  BY <1>6, <1>8, <1>9, <1>10, ListRemoved
<1>12. Sound([m_hash EXCEPT ![c] = x], n, K \ {index}, e)
  <2>1. \A k : PlaceOfKey(k, n) # c => (k \in K <=> k \in K \ {index})
    BY <1>5
  <2>2. \A k \in K : PlaceOfKey(k, n) # c => e[k] = dictionary[k]
    BY <1>5, <1>9
  <2>3. K \ {index} \subseteq HashKeys /\ n \in Nat
    BY <1>3
  <2>4. QED
    BY <1>3, <1>11, <2>1, <2>2, <2>3, TableChanged
<1>13. m_hash' = [m_hash EXCEPT ![c] = x] /\ dictionary' = e /\ m_vectorSize' = n
  BY <1>1, <1>2, <1>6, <1>7, <1>9, <1>10 DEF Hash!remove
<1>14. DOMAIN e = K \ {index} /\ m_vectorSize \in VectorSizes
  BY <1>9 DEF HashInv
<1>15. QED
  BY <1>1, <1>12, <1>13, <1>14 DEF HashInv

LEMMA HashAssigns ==
  ASSUME NEW index \in HashKeys, NEW data \in Field, HashInv, Hash!assign(index, data)
  PROVE  HashInv'
<1>1. PICK n \in Nat \ {0} : n = m_vectorSize
  BY DEF HashInv
<1>2. PICK K : K = DOMAIN dictionary
  OBVIOUS
<1>3. Sound(m_hash, n, K, dictionary) /\ K \subseteq HashKeys
  BY <1>1, <1>2 DEF HashInv, Sound
<1>4. index \in K /\ K \cup {index} = K
  BY <1>3, FindIs DEF Hash!assign
<1>5. PICK c : c = PlaceOfKey(index, n)
  OBVIOUS
<1>6. Hash!cHashFunction(index, Hash!getSize(m_hash)) = c /\ ListSound(m_hash[c], c, n, K, dictionary)
  BY <1>3, <1>5, BucketIs
<1>7. PICK at : at = Hash!Find(m_hash, index)
  OBVIOUS
<1>8. at \in 1 .. Len(m_hash[c]) /\ m_hash[c][at].m_a = index
  BY <1>3, <1>4, <1>5, <1>7, FindIs
<1>9. PICK e : e = Hash!Defined(index, data)
  OBVIOUS
<1>10. DOMAIN e = K /\ e[index] = data /\ \A k \in K \ {index} : e[k] = dictionary[k]
  <2>1. /\ DOMAIN e = K \cup {index} /\ e[index] = data
        /\ \A k \in K : k # index => e[k] = dictionary[k]
    BY <1>2, <1>9 DEF Hash!Defined
  <2>2. QED
    BY <1>4, <2>1
<1>11. PICK x : x = [m_hash[c] EXCEPT ![at].m_b = data]
  OBVIOUS
<1>12. ListSound(x, c, n, K, e)
  <2>1. ListSound([m_hash[c] EXCEPT ![at].m_b = data], c, n, K \cup {index}, e)
    BY <1>6, <1>8, <1>10, ListAssigned, Zenon
  <2> QED BY <1>4, <1>11, <2>1, Zenon
<1>13. Sound([m_hash EXCEPT ![c] = x], n, K, e)
  <2>1. \A k \in K : PlaceOfKey(k, n) # c => e[k] = dictionary[k]
    BY <1>5, <1>10
  <2>2. n \in Nat
    OBVIOUS
  <2>3. QED
    BY <1>3, <1>12, <2>1, <2>2, TableChanged
<1>14. m_hash' = [m_hash EXCEPT ![c] = x] /\ dictionary' = e /\ m_vectorSize' = n
  <2>1. m_hash' = [m_hash EXCEPT ![c][at].m_b = data]
    BY <1>6, <1>7 DEF Hash!assign
  <2>2. QED
    BY <1>1, <1>9, <1>11, <2>1 DEF Hash!assign
<1>15. QED
  BY <1>1, <1>10, <1>13, <1>14 DEF HashInv

LEMMA HashNextKeeps == HashInv /\ [Hash!HashNext]_hashVars => HashInv'
<1>1. SUFFICES ASSUME HashInv, [Hash!HashNext]_hashVars PROVE HashInv'
  OBVIOUS
<1>2. CASE Hash!removeAll
  <2>1. PICK e : e = [k \in {} |-> {}]
    OBVIOUS
  <2>2. m_hash' = Hash!initHash(m_vectorSize) /\ dictionary' = e /\ m_vectorSize' = m_vectorSize
    BY <1>2, <2>1 DEF Hash!removeAll
  <2>3. DOMAIN e = {}
    BY <2>1
  <2>4. QED
    BY <1>1, <2>2, <2>3, EmptyTable DEF HashInv
<1>3. CASE \E vectorSize \in VectorSizes, pairs \in Hash!Pairs : Hash!copyHash(vectorSize, pairs)
  <2>1. PICK vectorSize \in VectorSizes, pairs \in Hash!Pairs : Hash!copyHash(vectorSize, pairs)
    BY <1>3
  <2>2. vectorSize \in Nat \ {0}
    BY HashAssumption
  <2>3. /\ m_hash' = Hash!Table(vectorSize, pairs) /\ m_vectorSize' = vectorSize
        /\ dictionary' = Hash!Dictionary(pairs)
    BY <2>1 DEF Hash!copyHash, Hash!SizeCopied
  <2>4. QED
    BY <2>2, <2>3, TableSound DEF HashInv
<1>4. CASE UNCHANGED hashVars
  BY <1>1, <1>4 DEF HashInv, hashVars
<1>5. ASSUME NEW index \in HashKeys, NEW data \in Field,
             Hash!append(index, data) \/ Hash!assign(index, data)
      PROVE  HashInv'
  BY <1>1, <1>5, HashAppends, HashAssigns
<1>6. ASSUME NEW index \in HashKeys, Hash!remove(index) PROVE HashInv'
  BY <1>1, <1>6, HashRemoves
<1>7. QED
  BY <1>1, <1>2, <1>3, <1>4, <1>5, <1>6 DEF Hash!HashNext

-----------------------------------------------------------------------------
(* A sequence that lists each of the members of K once. *)
Lists(s, K) ==
  /\ s \in Seq(K)
  /\ \A i, j \in 1 .. Len(s) : s[i] = s[j] => i = j
  /\ \A k \in K : \E i \in 1 .. Len(s) : s[i] = k

LEMMA ListsCount ==
  ASSUME NEW K, NEW s, Lists(s, K)
  PROVE  Len(s) = Cardinality(K) /\ Hash!ToSet(s) = K
<1>1. /\ s \in Seq(K) /\ \A i, j \in 1 .. Len(s) : s[i] = s[j] => i = j
      /\ \A k \in K : \E i \in 1 .. Len(s) : s[i] = k
  BY DEF Lists
<1>2. PICK n \in Nat : n = Len(s) /\ s \in [1 .. n -> K]
  BY <1>1
<1>3. s \in Bijection(1 .. n, K)
  <2>1. \A i, j \in 1 .. n : s[i] = s[j] => i = j
    BY <1>1, <1>2
  <2>2. \A k \in K : \E i \in 1 .. n : s[i] = k
    BY <1>1, <1>2
  <2>3. QED
    BY <1>2, <2>1, <2>2 DEF Bijection, Injection, Surjection, IsInjective
<1>4. ExistsBijection(1 .. n, K)
  BY <1>3 DEF ExistsBijection
<1>5. Cardinality(K) = n
  BY <1>4, FS_CountingElements, Zenon
<1>6. Hash!ToSet(s) = K
  BY <1>1, <1>2 DEF Hash!ToSet
<1>7. QED
  BY <1>2, <1>5, <1>6

LEMMA ListsJoined ==
  ASSUME NEW K, NEW a, NEW L, NEW b, Lists(a, K), Lists(b, L), K \cap L = {}
  PROVE  Lists(a \o b, K \cup L)
<1>1. PICK M : M = K \cup L
  OBVIOUS
<1>2. a \in Seq(M) /\ b \in Seq(M)
  BY <1>1 DEF Lists
<1>3. PICK c : c = a \o b
  OBVIOUS
<1>4. PICK m \in Nat, n \in Nat : m = Len(a) /\ n = Len(b)
  BY <1>2
<1>5. /\ c \in Seq(M) /\ Len(c) = m + n
      /\ \A i \in 1 .. m + n : c[i] = IF i <= m THEN a[i] ELSE b[i - m]
  BY <1>2, <1>3, <1>4, ConcatProperties
<1>6. ASSUME NEW i \in 1 .. m + n
      PROVE  \/ i \in 1 .. m /\ c[i] = a[i] /\ c[i] \in K
             \/ i - m \in 1 .. n /\ c[i] = b[i - m] /\ c[i] \in L
  <2>1. CASE i <= m
    <3>1. i \in 1 .. m /\ c[i] = a[i]
      BY <1>4, <1>5, <2>1
    <3>2. QED
      BY <1>4, <3>1 DEF Lists
  <2>2. CASE ~(i <= m)
    <3>1. i - m \in 1 .. n /\ c[i] = b[i - m]
      BY <1>4, <1>5, <2>2
    <3>2. QED
      BY <1>4, <3>1 DEF Lists
  <2>3. QED
    BY <2>1, <2>2
<1>7. ASSUME NEW i \in 1 .. m + n, NEW j \in 1 .. m + n, c[i] = c[j] PROVE i = j
  <2>1. CASE c[i] \in K
    <3>1. i \in 1 .. m /\ j \in 1 .. m /\ a[i] = a[j]
      BY <1>6, <1>7, <2>1
    <3>2. QED
      BY <1>4, <3>1 DEF Lists
  <2>2. CASE c[i] \in L
    <3>1. i - m \in 1 .. n /\ j - m \in 1 .. n /\ b[i - m] = b[j - m]
      BY <1>6, <1>7, <2>2
    <3>2. i - m = j - m
      BY <1>4, <3>1 DEF Lists
    <3>3. QED
      BY <3>2
  <2>3. QED
    BY <1>6, <2>1, <2>2
<1>8. ASSUME NEW k \in M PROVE \E i \in 1 .. m + n : c[i] = k
  <2>1. CASE k \in K
    <3>1. PICK i \in 1 .. m : a[i] = k
      BY <1>4, <2>1 DEF Lists
    <3>2. i \in 1 .. m + n /\ i <= m
      BY <1>4
    <3>3. QED
      BY <1>5, <3>1, <3>2
  <2>2. CASE k \in L
    <3>1. PICK i \in 1 .. n : b[i] = k
      BY <1>4, <2>2 DEF Lists
    <3>2. i + m \in 1 .. m + n /\ ~(i + m <= m) /\ (i + m) - m = i
      BY <1>4
    <3>3. QED
      BY <1>5, <3>1, <3>2
  <2>3. QED
    BY <1>1, <2>1, <2>2
<1>9. Lists(c, M)
  BY <1>5, <1>7, <1>8 DEF Lists
<1>10. QED
  BY <1>1, <1>3, <1>9

(* The keys of the lists before the p-th one. *)
KeysBefore(K, n, p) == {k \in K : PlaceOfKey(k, n) < p}

LEMMA KeysOfList ==
  ASSUME NEW l, NEW p, NEW n, NEW K, NEW d, ListSound(l, p, n, K, d)
  PROVE  Lists(Hash!KeysOf(l), {k \in K : PlaceOfKey(k, n) = p})
<1>1. l \in Seq(Elements)
  BY DEF ListSound
<1>2. PICK len \in Nat : len = Len(l)
  BY <1>1
<1>3. PICK L : L = {k \in K : PlaceOfKey(k, n) = p}
  OBVIOUS
<1>4. PICK s : s = Hash!KeysOf(l)
  OBVIOUS
<1>5. s = [i \in 1 .. len |-> l[i].m_a]
  BY <1>2, <1>4 DEF Hash!KeysOf
<1>6. \A i \in 1 .. len : l[i].m_a \in L
  BY <1>2, <1>3 DEF ListSound
<1>7. s \in [1 .. len -> L]
  BY <1>5, <1>6
<1>8. s \in Seq(L) /\ Len(s) = len
  BY <1>7, FunctionIsSeq
<1>9. \A i \in 1 .. len : s[i] = l[i].m_a
  BY <1>5
<1>10. \A i, j \in 1 .. len : s[i] = s[j] => i = j
  BY <1>2, <1>9 DEF ListSound
<1>11. \A k \in L : \E i \in 1 .. len : s[i] = k
  BY <1>2, <1>3, <1>9 DEF ListSound
<1>12. Lists(s, L)
  BY <1>8, <1>10, <1>11 DEF Lists
<1>13. QED
  BY <1>3, <1>4, <1>12

(* keys() lists the keys of the table once each. *)
LEMMA KeysListed ==
  ASSUME HashInv
  PROVE  Lists(Hash!keys, DOMAIN dictionary)
<1>1. PICK n \in Nat \ {0} : n = m_vectorSize
  BY DEF HashInv
<1>2. PICK K : K = DOMAIN dictionary
  OBVIOUS
<1>3. Sound(m_hash, n, K, dictionary) /\ K \subseteq HashKeys
  BY <1>1, <1>2 DEF HashInv, Sound
<1>4. \A p \in 0 .. n - 1 : ListSound(m_hash[p], p, n, K, dictionary)
  BY <1>3 DEF Sound
<1>5. Hash!getSize(m_hash) = n
  <2>1. m_hash = [p \in 0 .. n - 1 |-> m_hash[p]] /\ n \in Nat
    BY <1>3 DEF Sound
  <2>2. QED
    BY <2>1, SizeIs, Zenon
<1>6. PICK Texts : Texts = Seq(HashKeys)
  OBVIOUS
<1>7. PICK step : step = [x \in Texts \X (1 .. n) |-> x[1] \o Hash!KeysOf(m_hash[x[2] - 1])]
  OBVIOUS
<1>8. ASSUME NEW p \in 0 .. n - 1 PROVE Hash!KeysOf(m_hash[p]) \in Texts
  <2>1. PICK l : l = m_hash[p] /\ l \in Seq(Elements)
    BY <1>4 DEF ListSound
  <2>2. PICK len \in Nat : len = Len(l)
    BY <2>1
  <2>3. ASSUME NEW i \in 1 .. len PROVE l[i].m_a \in HashKeys
    <3>1. l[i] \in Elements
      BY <2>1, <2>2
    <3>2. QED
      BY <3>1 DEF Elements
  <2>4. Hash!KeysOf(l) = [i \in 1 .. len |-> l[i].m_a]
    BY <2>2 DEF Hash!KeysOf
  <2>5. Hash!KeysOf(l) \in [1 .. len -> HashKeys]
    BY <2>3, <2>4
  <2>6. QED
    BY <1>6, <2>1, <2>2, <2>5, FunctionIsSeq
<1>9. step \in [Texts \X (1 .. n) -> Texts]
  <2>1. ASSUME NEW x \in Texts \X (1 .. n) PROVE x[1] \o Hash!KeysOf(m_hash[x[2] - 1]) \in Texts
    <3>1. x[1] \in Texts /\ x[2] - 1 \in 0 .. n - 1
      OBVIOUS
    <3>2. Hash!KeysOf(m_hash[x[2] - 1]) \in Texts
      BY <1>8, <3>1
    <3>3. QED
      BY <1>6, <3>1, <3>2, ConcatProperties
  <2>2. QED
    BY <1>7, <2>1
<1>10. PICK f : Recursive(f, n, Texts, <<>>, step)
  <2>1. <<>> \in Texts /\ n \in Nat
    BY <1>6
  <2>2. QED
    BY <1>9, <2>1, Recursion, Zenon
<1>11. f \in [0 .. n -> Texts] /\ f[0] = <<>> /\ \A p \in 1 .. n : f[p] = step[<<f[p - 1], p>>]
  BY <1>10 DEF Recursive
<1>12. f = [p \in 0 .. n |-> IF p = 0 THEN <<>> ELSE f[p - 1] \o Hash!KeysOf(m_hash[p - 1])]
  <2>1. ASSUME NEW p \in 0 .. n
        PROVE  f[p] = IF p = 0 THEN <<>> ELSE f[p - 1] \o Hash!KeysOf(m_hash[p - 1])
    <3>1. CASE p = 0
      BY <1>11, <3>1
    <3>2. CASE p # 0
      <4>1. p - 1 \in 0 .. n /\ p \in 1 .. n
        BY <3>2
      <4>2. <<f[p - 1], p>> \in Texts \X (1 .. n) /\ f[p] = step[<<f[p - 1], p>>]
        BY <1>11, <4>1
      <4>3. QED
        BY <1>7, <3>2, <4>2
    <3>3. QED
      BY <3>1, <3>2
  <2>2. QED
    BY <1>11, <2>1
<1>13. PICK found :
         /\ found = [p \in 0 .. n |-> IF p = 0 THEN <<>> ELSE found[p - 1] \o Hash!KeysOf(m_hash[p - 1])]
         /\ Hash!keys = found[n]
  <2>1. PICK found : found = CHOOSE g : g = [p \in 0 .. n |->
                       IF p = 0 THEN <<>> ELSE g[p - 1] \o Hash!KeysOf(m_hash[p - 1])]
    BY Zenon
  <2>2. found = [p \in 0 .. n |-> IF p = 0 THEN <<>> ELSE found[p - 1] \o Hash!KeysOf(m_hash[p - 1])]
    BY <1>12, <2>1, Zenon
  <2>3. Hash!keys = found[n]
    BY <1>5, <2>1 DEF Hash!keys
  <2>4. QED
    BY <2>2, <2>3
<1>14. PICK S : S = {p \in 0 .. n : Lists(found[p], KeysBefore(K, n, p))}
  OBVIOUS
<1>15. \A k \in K : PlaceOfKey(k, n) \in 0 .. n - 1
  BY <1>3, PlaceInTable DEF PlaceOfKey
<1>16. 0 \in S
  <2>1. KeysBefore(K, n, 0) = {}
    BY <1>15 DEF KeysBefore
  <2>2. found[0] = <<>> /\ 0 \in 0 .. n
    BY <1>13
  <2>3. <<>> \in Seq({}) /\ Len(<<>>) = 0 /\ 1 .. 0 = {}
    OBVIOUS
  <2>4. Lists(<<>>, {})
    BY <2>3 DEF Lists
  <2>5. QED
    BY <1>14, <2>1, <2>2, <2>4
<1>17. ASSUME NEW p \in 0 .. n - 1, p \in S PROVE p + 1 \in S
  <2>1. p + 1 \in 0 .. n /\ p + 1 # 0 /\ (p + 1) - 1 = p
    OBVIOUS
  <2>2. found[p + 1] = found[p] \o Hash!KeysOf(m_hash[p])
    BY <1>13, <2>1
  <2>3. PICK A : A = KeysBefore(K, n, p)
    OBVIOUS
  <2>4. PICK B : B = {k \in K : PlaceOfKey(k, n) = p}
    OBVIOUS
  <2>5. Lists(found[p], A)
    BY <1>14, <1>17, <2>3
  <2>6. Lists(Hash!KeysOf(m_hash[p]), B)
    BY <1>4, <2>4, KeysOfList
  <2>7. A \cap B = {} /\ A \cup B = KeysBefore(K, n, p + 1)
    <3>1. \A k \in K : PlaceOfKey(k, n) < p + 1 <=> PlaceOfKey(k, n) < p \/ PlaceOfKey(k, n) = p
      BY <1>15
    <3>2. \A k \in K : ~(PlaceOfKey(k, n) < p /\ PlaceOfKey(k, n) = p)
      OBVIOUS
    <3>3. QED
      BY <2>3, <2>4, <3>1, <3>2 DEF KeysBefore
  <2>8. Lists(found[p + 1], KeysBefore(K, n, p + 1))
    BY <2>2, <2>5, <2>6, <2>7, ListsJoined
  <2>9. QED
    BY <1>14, <2>1, <2>8
<1>18. n \in S
  <2>1. 0 .. n \subseteq S
    BY <1>16, <1>17, Induction
  <2>2. QED
    BY <2>1
<1>19. KeysBefore(K, n, n) = K
  BY <1>15 DEF KeysBefore
<1>20. QED
  BY <1>2, <1>13, <1>14, <1>18, <1>19

LEMMA HashShows == HashInv => HashIsDictionary
<1>1. SUFFICES ASSUME HashInv PROVE HashIsDictionary
  OBVIOUS
<1>2. PICK n \in Nat \ {0} : n = m_vectorSize
  BY <1>1 DEF HashInv
<1>3. PICK K : K = DOMAIN dictionary
  OBVIOUS
<1>4. Sound(m_hash, n, K, dictionary) /\ K \subseteq HashKeys
  BY <1>1, <1>2, <1>3 DEF HashInv, Sound
<1>5. \A k \in HashKeys : Hash!hasKey(m_hash, k) <=> k \in K
  BY <1>4, FindIs
<1>6. ASSUME NEW k \in K PROVE Hash!Bucket(m_hash, k)[Hash!Find(m_hash, k)].m_b = dictionary[k]
  BY <1>4, FindIs, BucketIs
<1>7. Len(Hash!keys) = Cardinality(K) /\ Hash!ToSet(Hash!keys) = K
  BY <1>1, <1>3, KeysListed, ListsCount
<1>8. Hash!Cardinality(K) = Cardinality(K)
  BY CardinalityIs
<1>9. QED
  BY <1>3, <1>5, <1>6, <1>7, <1>8 DEF HashIsDictionary, Hash!HashIsDictionary

(* A hash table finds every key that was put in with the data last given to *)
(* it and no other key, and keys() lists each of them once, for every       *)
(* length of its array, every number the sum of a key wraps at and every    *)
(* set of keys: append, remove, operator [], operator = and keys of cHash.  *)
THEOREM HashFindsWhatWasPut == Spec => []HashIsDictionary
<1>1. Init => HashInv
  BY HashStarts DEF Init
<1>2. HashInv /\ [Next]_vars => HashInv'
  <2>1. SUFFICES ASSUME HashInv, [Next]_vars PROVE HashInv'
    OBVIOUS
  <2>2. [Hash!HashNext]_hashVars
    BY <2>1 DEF Next, TextMoves, OthersRest, vars, hashVars
  <2>3. QED
    BY <2>1, <2>2, HashNextKeeps
<1>3. QED
  BY <1>1, <1>2, HashShows, PTL DEF Spec

-----------------------------------------------------------------------------
(* The generator works on a queue of one digest: what is proved of every   *)
(* cQueueFifo is proved of it.                                             *)
Ring == INSTANCE QueueFifoProofs WITH
          Size <- DigestLength, Byte <- Random!Position, MaxCount <- DigestLength

LEMMA RingIsQueue ==
  /\ Random!Queue!getOccupyspace = Ring!getOccupyspace
  /\ \A buffer : Random!Queue!write(buffer) <=> Ring!write(buffer)
  /\ \A request : Random!Queue!read(request) <=> Ring!read(request)
<1>1. Random!Queue!getOccupyspace = Ring!getOccupyspace
  BY DEF Random!Queue!getOccupyspace, Ring!getOccupyspace,
         Random!Queue!getFreespace, Ring!getFreespace
<1>2. ASSUME NEW buffer PROVE Random!Queue!write(buffer) <=> Ring!write(buffer)
  BY DEF Random!Queue!write, Ring!write, Random!Queue!getFreespace, Ring!getFreespace,
         Random!Queue!Stored, Ring!Stored, Random!Queue!Slot, Ring!Slot,
         Random!Queue!Advance, Ring!Advance, Random!Queue!Cells, Ring!Cells
<1>3. ASSUME NEW request PROVE Random!Queue!read(request) <=> Ring!read(request)
  BY <1>1 DEF Random!Queue!read, Ring!read, Random!Queue!Slot, Ring!Slot,
         Random!Queue!Advance, Ring!Advance, Random!Queue!FullAfterRead, Ring!FullAfterRead
<1>4. QED
  BY <1>1, <1>2, <1>3

randomQueue == <<m_queue, m_readPointer, m_writePointer, m_isFull, reply>>

LEMMA RingContent ==
  ASSUME Ring!TypeOK
  PROVE  /\ Ring!getOccupyspace \in 0 .. DigestLength
         /\ Ring!Content \in Seq(Random!Position) /\ Len(Ring!Content) = Ring!getOccupyspace
<1>1. DigestLength \in Nat
  BY DigestAssumption
<1>2. QED
  BY <1>1, Ring!SpaceBounds, Ring!ContentIsSeq

(* A block written into the empty queue fills it. *)
LEMMA RingPut ==
  ASSUME Ring!TypeOK, NEW made \in [1 .. DigestLength -> Random!Position],
         Ring!getOccupyspace = 0, Ring!write(made)
  PROVE  /\ Ring!TypeOK' /\ Ring!getOccupyspace' = DigestLength /\ Len(reply') = DigestLength
         /\ \A i \in 1 .. DigestLength : Ring!Content'[i] = made[i]
<1>1. DigestLength \in Nat /\ made \in Seq(Random!Position) /\ Len(made) = DigestLength
  BY DigestAssumption
<1>2. made \in Ring!Buffers
  BY <1>1 DEF Ring!Buffers
<1>3. Ring!TypeOK'
  BY <1>1, <1>2, Ring!WriteTyped
<1>4. Ring!Fifo!Put(made)
  BY <1>1, <1>2, Ring!WriteRefines
<1>5. Ring!Content \in Seq(Random!Position) /\ Len(Ring!Content) = 0
  BY RingContent
<1>6. PICK items, bytes, later : items = Ring!Content /\ bytes = reply' /\ later = Ring!Content'
  OBVIOUS
<1>7. bytes = SubSeq(made, 1, DigestLength) /\ later = items \o bytes
  BY <1>1, <1>4, <1>5, <1>6 DEF Ring!Fifo!Put, Ring!Fifo!Smaller
<1>8. bytes = made
  BY <1>1, <1>7
<1>9. Len(later) = DigestLength /\ \A i \in 1 .. DigestLength : later[i] = made[i]
  BY <1>1, <1>5, <1>6, <1>7, <1>8
<1>10. (Ring!TypeOK => Len(Ring!Content) = Ring!getOccupyspace)'
  BY RingContent, PTL
<1>11. QED
  BY <1>1, <1>3, <1>6, <1>8, <1>9, <1>10

(* A read of no more than the queue holds returns the oldest bytes. *)
LEMMA RingGet ==
  ASSUME Ring!TypeOK, NEW count \in 0 .. Ring!getOccupyspace, Ring!read(count)
  PROVE  /\ Ring!TypeOK' /\ Ring!getOccupyspace' = Ring!getOccupyspace - count
         /\ reply' \in Seq(Random!Position) /\ Len(reply') = count
         /\ \A k \in 1 .. count : reply'[k] = Ring!Content[k]
         /\ \A i \in 1 .. Ring!getOccupyspace - count : Ring!Content'[i] = Ring!Content[count + i]
<1>1. DigestLength \in Nat /\ count \in 0 .. DigestLength /\ Ring!getOccupyspace \in Nat
  BY RingContent, DigestAssumption
<1>2. Ring!TypeOK'
  BY <1>1, Ring!ReadTyped
<1>3. Ring!Fifo!Get(count)
  BY <1>1, Ring!ReadRefines
<1>4. PICK items, bytes, later, n : /\ items = Ring!Content /\ bytes = reply' /\ later = Ring!Content'
                                    /\ n = Ring!getOccupyspace
  OBVIOUS
<1>5. items \in Seq(Random!Position) /\ Len(items) = n /\ n \in Nat /\ count \in 0 .. n
  BY <1>1, <1>4, RingContent
<1>6. bytes = SubSeq(items, 1, count) /\ later = SubSeq(items, count + 1, n)
  BY <1>3, <1>4, <1>5 DEF Ring!Fifo!Get, Ring!Fifo!Smaller
<1>7. /\ bytes \in Seq(Random!Position) /\ Len(bytes) = count
      /\ \A k \in 1 .. count : bytes[k] = items[k]
  BY <1>5, <1>6
<1>8. Len(later) = n - count /\ \A i \in 1 .. n - count : later[i] = items[count + i]
  BY <1>5, <1>6
<1>9. (Ring!TypeOK => Len(Ring!Content) = Ring!getOccupyspace)'
  BY RingContent, PTL
<1>10. QED
  BY <1>2, <1>4, <1>7, <1>8, <1>9

(* The keystream positions handed out, those in the queue and the blocks    *)
(* generated meet without a gap.                                            *)
RandomInv ==
  /\ Ring!TypeOK /\ m_a \in Nat /\ length \in Nat /\ start \in Nat /\ pc \in {"idle", "loop"}
  /\ output \in Seq(Nat) /\ \A k \in 1 .. Len(output) : output[k] = start + k
  /\ start + Len(output) + Ring!getOccupyspace = m_a * DigestLength
  /\ \A i \in 1 .. Ring!getOccupyspace : Ring!Content[i] = start + Len(output) + i

LEMMA RandomStarts == Random!Init => RandomInv
<1> SUFFICES ASSUME Random!Init PROVE RandomInv
  OBVIOUS
<1>1. DigestLength \in Nat \ {0} /\ MaxBlock \in Nat \ {0}
  BY DigestAssumption
<1>2. 1 \in Random!Position
  <2>1. /\ DigestLength * 1 <= DigestLength * MaxBlock /\ DigestLength * MaxBlock = MaxBlock * DigestLength
        /\ DigestLength * MaxBlock \in Nat /\ DigestLength * 1 = DigestLength
    BY <1>1, Multiples
  <2>2. QED
    BY <1>1, <2>1 DEF Random!Position
<1>3. m_queue \in [Ring!Cells -> Random!Position]
  BY <1>2 DEF Random!Init, Random!Queue!Cells, Ring!Cells
<1>4. reply \in Seq(Random!Position) /\ output \in Seq(Nat) /\ Len(output) = 0
  BY DEF Random!Init
<1>5. Ring!TypeOK
  <2>1. m_isFull \in BOOLEAN
    BY DEF Random!Init
  <2>2. m_readPointer \in 0 .. DigestLength /\ m_writePointer \in 0 .. DigestLength
    BY <1>1 DEF Random!Init
  <2>3. QED
    BY <1>3, <1>4, <2>1, <2>2 DEF Ring!TypeOK
<1>6. Ring!getOccupyspace = 0
  BY <1>1 DEF Random!Init, Ring!getOccupyspace, Ring!getFreespace
<1>7. QED
  BY <1>1, <1>4, <1>5, <1>6 DEF RandomInv, Random!Init

(* A call starts: what the last one produced has been handed out. *)
LEMMA RandomCalled ==
  ASSUME RandomInv, NEW request \in 0 .. MaxLength, Random!generateRandom(request)
  PROVE  RandomInv'
<1>1. request \in Nat
  BY DigestAssumption
<1>2. /\ pc' = "loop" /\ length' = request /\ output' = <<>> /\ start' = start + Len(output)
      /\ UNCHANGED <<randomQueue, m_a>>
  BY DEF Random!generateRandom, Random!queueVars, randomQueue
<1>3. output' \in Seq(Nat) /\ Len(output') = 0 /\ Len(output) \in Nat /\ start \in Nat
  BY <1>2 DEF RandomInv
<1>4. Ring!TypeOK' /\ Ring!getOccupyspace' = Ring!getOccupyspace /\ Ring!Content' = Ring!Content
  BY <1>2 DEF randomQueue, RandomInv, Ring!TypeOK, Ring!Cells, Ring!getOccupyspace, Ring!getFreespace,
              Ring!Content, Ring!Slot
<1>5. start' \in Nat /\ start' + Len(output') = start + Len(output)
  BY <1>2, <1>3
<1>6. QED
  BY <1>1, <1>2, <1>3, <1>4, <1>5 DEF RandomInv

(* The next block follows the last: the queue it goes to is empty. *)
LEMMA RandomRefills ==
  ASSUME RandomInv, Random!Refill
  PROVE  RandomInv'
<1>1. DigestLength \in Nat \ {0} /\ MaxBlock \in Nat \ {0} /\ m_a \in Nat /\ m_a < MaxBlock
      /\ m_a' = m_a + 1 /\ Ring!getOccupyspace = 0
  BY DigestAssumption, RingIsQueue DEF RandomInv, Random!Refill, Random!NeedsBlock
<1>2. PICK place : place = m_a * DigestLength
  OBVIOUS
<1>3. /\ place \in Nat /\ place + DigestLength = m_a' * DigestLength
      /\ place + DigestLength <= MaxBlock * DigestLength /\ MaxBlock * DigestLength \in Nat
  <2>1. m_a + 1 \in Nat /\ m_a + 1 <= MaxBlock
    BY <1>1
  <2>2. /\ DigestLength * (m_a + 1) = DigestLength * m_a + DigestLength
        /\ DigestLength * m_a = m_a * DigestLength /\ DigestLength * m_a \in Nat
        /\ DigestLength * (m_a + 1) = (m_a + 1) * DigestLength
        /\ DigestLength * (m_a + 1) <= DigestLength * MaxBlock
        /\ DigestLength * MaxBlock = MaxBlock * DigestLength /\ DigestLength * MaxBlock \in Nat
    BY <1>1, <2>1, Multiples
  <2>3. QED
    BY <1>1, <1>2, <2>2
<1>4. PICK made : made = Random!Block(m_a')
  OBVIOUS
<1>5. made = [k \in 1 .. DigestLength |-> place + k]
  <2>1. m_a' - 1 = m_a
    BY <1>1
  <2>2. QED
    BY <1>2, <1>4, <2>1 DEF Random!Block
<1>6. made \in [1 .. DigestLength -> Random!Position]
  <2>1. ASSUME NEW k \in 1 .. DigestLength PROVE place + k \in Random!Position
    BY <1>1, <1>3 DEF Random!Position
  <2>2. QED
    BY <1>5, <2>1
<1>7. Ring!write(made)
  BY <1>4, RingIsQueue DEF Random!Refill
<1>8. /\ Ring!TypeOK' /\ Ring!getOccupyspace' = DigestLength /\ Len(reply') = DigestLength
      /\ \A i \in 1 .. DigestLength : Ring!Content'[i] = made[i]
  BY <1>1, <1>6, <1>7, RingPut DEF RandomInv
<1>9. pc' = "loop" /\ UNCHANGED <<length, output, start>>
  BY <1>8 DEF Random!Refill
<1>10. start + Len(output) = place
  BY <1>1, <1>2, <1>3 DEF RandomInv
<1>11. \A i \in 1 .. DigestLength : Ring!Content'[i] = place + i
  BY <1>5, <1>8
<1>12. /\ start' + Len(output') = place /\ m_a' \in Nat
       /\ start' + Len(output') + Ring!getOccupyspace' = m_a' * DigestLength
  BY <1>1, <1>3, <1>8, <1>9, <1>10
<1>13. \A i \in 1 .. Ring!getOccupyspace' : Ring!Content'[i] = start' + Len(output') + i
  BY <1>8, <1>11, <1>12
<1>14. QED
  BY <1>8, <1>9, <1>12, <1>13 DEF RandomInv

(* What is delivered are the positions that come next. *)
LEMMA RandomDelivers ==
  ASSUME RandomInv, Random!Deliver
  PROVE  RandomInv'
<1>1. PICK n, l, s : n = Ring!getOccupyspace /\ l = Len(output) /\ s = start
  OBVIOUS
<1>2. n \in Nat /\ l \in Nat /\ s \in Nat /\ length \in Nat /\ output \in Seq(Nat)
  BY <1>1, RingContent DEF RandomInv
<1>3. PICK count : count = Random!Take(Random!Queue!getOccupyspace)
  OBVIOUS
<1>4. count \in 0 .. n
  BY <1>1, <1>2, <1>3, RingIsQueue DEF Random!Take
<1>5. /\ Ring!read(count) /\ output' = output \o reply'
      /\ length' = IF count > length THEN 0 ELSE length - count
      /\ pc' = IF Len(reply') = count THEN "loop" ELSE "thrown"
      /\ UNCHANGED <<m_a, start>>
  BY <1>3, RingIsQueue DEF Random!Deliver
<1>6. /\ Ring!TypeOK' /\ Ring!getOccupyspace' = n - count
      /\ reply' \in Seq(Random!Position) /\ Len(reply') = count
      /\ \A k \in 1 .. count : reply'[k] = Ring!Content[k]
      /\ \A i \in 1 .. n - count : Ring!Content'[i] = Ring!Content[count + i]
  BY <1>1, <1>4, <1>5, RingGet DEF RandomInv
<1>7. \A i \in 1 .. n : Ring!Content[i] = s + l + i
  BY <1>1 DEF RandomInv
<1>8. PICK bytes : bytes = reply'
  OBVIOUS
<1>9. /\ bytes \in Seq(Nat) /\ Len(bytes) = count
      /\ \A k \in 1 .. count : bytes[k] = s + l + k
  <2>1. ASSUME NEW k \in 1 .. count PROVE bytes[k] = s + l + k
    <3>1. k \in 1 .. n
      BY <1>2, <1>4
    <3>2. bytes[k] = Ring!Content[k]
      BY <1>6, <1>8
    <3>3. QED
      BY <1>7, <3>1, <3>2
  <2>2. \A k \in 1 .. count : bytes[k] \in Nat
    BY <1>2, <2>1
  <2>3. QED
    BY <1>6, <1>8, <2>1, <2>2
<1>10. /\ output' \in Seq(Nat) /\ Len(output') = l + count
       /\ \A k \in 1 .. l + count : output'[k] = IF k <= l THEN output[k] ELSE bytes[k - l]
  <2>1. /\ output \o bytes \in Seq(Nat) /\ Len(output \o bytes) = Len(output) + Len(bytes)
        /\ \A k \in 1 .. Len(output) + Len(bytes) :
             (output \o bytes)[k] = IF k <= Len(output) THEN output[k] ELSE bytes[k - Len(output)]
    BY <1>2, <1>9, ConcatProperties
  <2>2. output' = output \o bytes
    BY <1>5, <1>8
  <2>3. QED
    BY <1>1, <1>9, <2>1, <2>2
<1>11. ASSUME NEW k \in 1 .. l + count PROVE output'[k] = s + k
  <2>1. CASE k <= l
    BY <1>1, <1>2, <1>10, <2>1 DEF RandomInv
  <2>2. CASE ~(k <= l)
    <3>1. k - l \in 1 .. count /\ s + l + (k - l) = s + k
      BY <1>2, <1>4, <2>2
    <3>2. QED
      BY <1>9, <1>10, <2>2, <3>1
  <2>3. QED
    BY <2>1, <2>2
<1>12. ASSUME NEW i \in 1 .. n - count PROVE Ring!Content'[i] = s + (l + count) + i
  <2>1. count + i \in 1 .. n /\ s + l + (count + i) = s + (l + count) + i
    BY <1>2, <1>4
  <2>2. QED
    BY <1>6, <1>7, <2>1
<1>13. s + (l + count) + (n - count) = m_a * DigestLength
  <2>1. s + (l + count) + (n - count) = s + l + n
    BY <1>2, <1>4
  <2>2. QED
    BY <1>1, <2>1 DEF RandomInv
<1>14. pc' = "loop" /\ length' \in Nat
  BY <1>2, <1>4, <1>5, <1>6
<1>15. QED
  BY <1>1, <1>2, <1>5, <1>6, <1>10, <1>11, <1>12, <1>13, <1>14 DEF RandomInv

LEMMA RandomNextKeeps == RandomInv /\ [Random!Next]_randomVars => RandomInv'
<1> SUFFICES ASSUME RandomInv, [Random!Next]_randomVars PROVE RandomInv'
  OBVIOUS
<1>1. CASE \E request \in 0 .. MaxLength : Random!generateRandom(request)
  BY <1>1, RandomCalled
<1>2. CASE Random!Refill
  BY <1>2, RandomRefills
<1>3. CASE Random!Deliver
  BY <1>3, RandomDelivers
<1>4. CASE Random!Return \/ UNCHANGED randomVars
  <2>1. /\ UNCHANGED <<randomQueue, m_a, length, output, start>> /\ pc' \in {"idle", "loop"}
    BY <1>4 DEF Random!Return, Random!queueVars, randomQueue, randomVars, RandomInv
  <2>2. Ring!TypeOK' /\ Ring!getOccupyspace' = Ring!getOccupyspace /\ Ring!Content' = Ring!Content
    BY <2>1 DEF randomQueue, RandomInv, Ring!TypeOK, Ring!Cells, Ring!getOccupyspace, Ring!getFreespace,
                Ring!Content, Ring!Slot
  <2>3. QED
    BY <2>1, <2>2 DEF RandomInv
<1>5. QED
  BY <1>1, <1>2, <1>3, <1>4 DEF Random!Next, Random!Proceed

(* generateRandom of cPMacRandom: requests of any lengths get the bytes of *)
(* the keystream in their order, none twice and none skipped, and neither  *)
(* CHECK of its loop fails, for every digest length.                       *)
THEOREM GeneratorIsContiguous == Spec => []KeystreamContiguous
<1>1. Init => RandomInv
  BY RandomStarts DEF Init
<1>2. RandomInv /\ [Next]_vars => RandomInv'
  <2>1. [Next]_vars => [Random!Next]_randomVars
    BY DEF Next, TextMoves, vars
  <2>2. QED
    BY <2>1, RandomNextKeeps
<1>3. RandomInv => KeystreamContiguous
  BY DEF RandomInv, KeystreamContiguous, Random!KeystreamContiguous, Random!ChecksHold
<1>4. QED
  BY <1>1, <1>2, <1>3, PTL DEF Spec
=============================================================================
