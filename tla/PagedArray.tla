----------------------------- MODULE PagedArray ------------------------------
(***************************************************************************)
(* cArray and cSArray (Include/xStl/data/array.inl, sarray.inl): m_size    *)
(* elements in a memory of m_alocatedArray cells, which is allocated in    *)
(* whole pages so that most changes of the size need no new memory.        *)
(***************************************************************************)
EXTENDS Integers, Sequences

CONSTANTS Elem,
          Unknown,   \* an element nobody has written
          Pages,     \* the page sizes in use; 0 and 1 mean no paging
          MaxSize,   \* bound: the longest array
          Careful    \* are page sizes changed, and memories of other page sizes
                     \* swapped in, only when the memory is whole pages of them?

ASSUME ArrayAssumption ==
  Pages \subseteq Nat /\ MaxSize \in Nat /\ Careful \in BOOLEAN /\ Unknown \notin Elem

VARIABLES m_array,   \* the memory, cell by cell; <<>> when there is none
          m_size, m_pageSize,
          elements   \* history: what the caller put into the array

arrayVars == <<m_array, m_size, m_pageSize, elements>>

m_alocatedArray == Len(m_array)

Contents == UNION {[1 .. n -> Elem] : n \in 0 .. MaxSize}

(* Faulty: rounds down. *)
RoundedDown(n, page) == IF page > 1 THEN page * (n \div page) ELSE n

Rounded(n, page) == IF page > 1 THEN page * ((n + page - 1) \div page) ELSE n

pageRound(n) == Rounded(n, m_pageSize)

(* new T[n], with what is copied into its first cells. *)
Memory(n, kept) ==
  {cells \in [1 .. n -> Elem] : \A i \in 1 .. Len(kept) : i <= n => cells[i] = kept[i]}

Unwritten(n) == [i \in 1 .. n |-> Unknown]

(* cArray(n, pageSize): the elements are as new made them. *)
cArray(n) ==
  /\ m_size = n
  /\ m_array \in Memory(pageRound(n), <<>>)
  /\ elements = Unwritten(n)

(* cArray(staticArray, length, pageSize) *)
cArrayOf(staticArray) ==
  /\ m_size = Len(staticArray)
  /\ m_array \in Memory(pageRound(Len(staticArray)), staticArray)
  /\ elements = staticArray

ArrayInit ==
  /\ m_pageSize \in Pages
  /\ \/ \E n \in 0 .. MaxSize : cArray(n)
     \/ \E staticArray \in Contents : cArrayOf(staticArray)

(* Faulty: the last element is not copied into the new memory. *)
KeptButLast(n) == SubSeq(m_array, 1, IF n < m_size THEN n ELSE m_size - 1)

Kept(n) == SubSeq(m_array, 1, IF n < m_size THEN n ELSE m_size)

NeedsMemory(n) ==
  LET difference == pageRound(n) - m_alocatedArray
  IN  difference >= m_pageSize \/ -difference >= m_pageSize

(* What freeArray leaves. *)
freeArray == <<>>

(* The memories changeSize may leave behind. *)
Resized(n, preserveMemory) ==
  CASE n = 0 /\ preserveMemory     -> {m_array}
    [] n = 0 /\ ~preserveMemory    -> {freeArray}
    [] n # 0 /\ ~preserveMemory    -> Memory(pageRound(n), <<>>)
    [] n # 0 /\ preserveMemory     ->
         IF NeedsMemory(n) THEN Memory(pageRound(n), Kept(n)) ELSE {m_array}

(* The values are written into the cells that follow the first ones. *)
Filled(cells, first, values) ==
  [i \in 1 .. Len(cells) |->
     IF i \in first + 1 .. first + Len(values) THEN values[i - first] ELSE cells[i]]

changeSize(n, preserveMemory) ==
  /\ m_array' \in Resized(n, preserveMemory)
  /\ m_size' = n
  /\ elements' = [i \in 1 .. n |-> IF preserveMemory /\ i <= m_size THEN elements[i] ELSE Unknown]
  /\ UNCHANGED m_pageSize

(* append of an object (a sequence of one) and of an array, which may be   *)
(* the array itself.                                                       *)
append(values) ==
  /\ m_size + Len(values) <= MaxSize
  /\ m_size' = m_size + Len(values)
  /\ \E cells \in Resized(m_size', TRUE) : m_array' = Filled(cells, m_size, values)
  /\ elements' = elements \o values
  /\ UNCHANGED m_pageSize

(* a = a + b: what + returns is a copy that b was appended to.             *)
plus(values) ==
  /\ m_size + Len(values) <= MaxSize
  /\ m_size' = m_size + Len(values)
  /\ m_array' \in Memory(pageRound(m_size'), SubSeq(m_array, 1, m_size) \o values)
  /\ elements' = elements \o values
  /\ UNCHANGED m_pageSize

copyRange(other, startLocation, count) ==
  LET range == SubSeq(other, startLocation + 1, startLocation + count)
  IN  /\ startLocation + count <= Len(other)
      /\ \E cells \in Resized(count, FALSE) : m_array' = Filled(cells, 0, range)
      /\ m_size' = count /\ elements' = range
      /\ UNCHANGED m_pageSize

(* operator = of another array: freeArray, changeSize, copy. *)
copyFrom(other) ==
  /\ m_array' \in Memory(pageRound(Len(other)), other)
  /\ m_size' = Len(other) /\ elements' = other
  /\ UNCHANGED m_pageSize

(* An array is destroyed and made anew as a copy of one with its own page   *)
(* size, which the copy takes over.                                         *)
copyConstruct(other, page) ==
  /\ m_pageSize' = page
  /\ m_array' \in Memory(Rounded(Len(other), page), other)
  /\ m_size' = Len(other) /\ elements' = other

WholePages(n, page) == page > 1 => n % page = 0

(* swap with an array made with a page size of its own, which stays there. *)
swap(other, page) ==
  /\ Careful => WholePages(Rounded(Len(other), page), m_pageSize)
  /\ m_array' \in Memory(Rounded(Len(other), page), other)
  /\ m_size' = Len(other) /\ elements' = other
  /\ UNCHANGED m_pageSize

setPageSize(page) ==
  /\ Careful => WholePages(m_alocatedArray, page)
  /\ m_pageSize' = page
  /\ UNCHANGED <<m_array, m_size, elements>>

(* operator [], which throws beyond the size. *)
assign(index, object) ==
  /\ index < m_size
  /\ m_array' = [m_array EXCEPT ![index + 1] = object]
  /\ elements' = [elements EXCEPT ![index + 1] = object]
  /\ UNCHANGED <<m_size, m_pageSize>>

ArrayNext ==
  \/ \E n \in 0 .. MaxSize, preserveMemory \in BOOLEAN : changeSize(n, preserveMemory)
  \/ \E values \in Contents \cup {SubSeq(m_array, 1, m_size)} : append(values) \/ plus(values)
  \/ \E other \in Contents, startLocation, count \in 0 .. MaxSize :
        copyRange(other, startLocation, count)
  \/ \E other \in Contents : copyFrom(other)
  \/ \E other \in Contents, page \in Pages : swap(other, page) \/ copyConstruct(other, page)
  \/ \E page \in Pages : setPageSize(page)
  \/ \E index \in 0 .. MaxSize - 1, object \in Elem : assign(index, object)

ArraySpec == ArrayInit /\ [][ArrayNext]_arrayVars
-----------------------------------------------------------------------------
ArrayTypeOK ==
  /\ m_array \in Seq(Elem)
  /\ m_pageSize \in Pages
  /\ m_size \in Nat
  /\ elements \in Seq(Elem \cup {Unknown})

(* The elements lie within the memory that was allocated for them: whether *)
(* memory is needed is decided by comparing page-rounded sizes with what   *)
(* was rounded by an earlier page size.                                    *)
SizeFits == m_size <= m_alocatedArray

(* Whatever is resized, moved to new memory, appended or swapped, each     *)
(* element the caller has put into the array is still there.               *)
ElementsKept ==
  /\ Len(elements) = m_size
  /\ \A i \in 1 .. m_size : elements[i] # Unknown => m_array[i] = elements[i]
=============================================================================
