----------------------------- MODULE LinkedList ------------------------------
(***************************************************************************)
(* cList (Include/xStl/data/list.inl) and cOrderedList on top of it        *)
(* (orderedList.inl): nodes linked both ways, closed by a node without     *)
(* information that m_last points to, and m_first too when the list is     *)
(* empty.  cList::iterator (list.h), held while the list under it changes; *)
(* the algorithms that work through iterators (algorithm.h); and           *)
(* cArray::iterator (array.h), an unsigned index and nothing more.         *)
(* ASSERTs are empty, as in a release build; the caller does not go beyond *)
(* either end of a list, and takes what remove returns for the iterator    *)
(* that it removed.                                                        *)
(***************************************************************************)
EXTENDS Integers, Sequences, SequencesExt

CONSTANTS Item,        \* the elements, numbers
          MaxItems,    \* bound: the longest list
          UintRange,   \* the numbers of a uint
          MaxSize      \* bound: elements of the array

VARIABLES list,        \* [heap, m_first, m_last]: the live nodes and the two ends
          ordered,     \* is it a cOrderedList, used by its own operations only?
          contents,    \* history: what the caller put into the list, in order
          cursor,      \* m_position of an iterator: the address of a node
          where,       \* ghost: the place among contents it is at
          size,        \* m_size of an array
          m_index,     \* its iterator's index into it
          offset       \* ghost: the index without its width

listVars == <<list, ordered, contents>>
cursorVars == <<cursor, where>>
indexVars == <<size, m_index, offset>>

NULL == 0
Nothing == 0   \* the information of the last node

(* Addresses: one more than the longest list needs, for a node made before *)
(* another is deleted.                                                     *)
Address == 1 .. MaxItems + 2
New(l) == CHOOSE a \in Address \ DOMAIN l.heap :
            \A b \in Address \ DOMAIN l.heap : a <= b

Node(information, prev, next) == [information |-> information, prev |-> prev, next |-> next]

initList == [heap |-> [a \in {1} |-> Node(Nothing, NULL, NULL)], m_first |-> 1, m_last |-> 1]

IsEmpty(l) == l.m_first = l.m_last

(* The heap with one more node.                                            *)
With(heap, a, node) == [b \in DOMAIN heap \cup {a} |-> IF b = a THEN node ELSE heap[b]]

(* Faulty: the new node is not made the predecessor of the one after it.   *)
LinkedOneWay(l, position, information) ==
  LET tmp  == New(l)
      prev == l.heap[position].prev
      heap == With(l.heap, tmp, Node(information, prev, position))
  IN  [heap |-> IF prev = NULL THEN heap ELSE [heap EXCEPT ![prev].next = tmp],
       m_first |-> IF l.m_first = position THEN tmp ELSE l.m_first,
       m_last |-> l.m_last]

(* A new node before the one at position; it becomes m_first if that was.  *)
(* append links before m_last, insert(node) before m_first.                *)
Linked(l, position, information) ==
  LET tmp  == New(l)
      prev == l.heap[position].prev
      heap == [With(l.heap, tmp, Node(information, prev, position)) EXCEPT ![position].prev = tmp]
  IN  [heap |-> IF prev = NULL THEN heap ELSE [heap EXCEPT ![prev].next = tmp],
       m_first |-> IF l.m_first = position THEN tmp ELSE l.m_first,
       m_last |-> l.m_last]

Appended(l, information) == Linked(l, l.m_last, information)

(* insert at a position appends if the list is empty, where m_first is all *)
(* there is.                                                               *)
Inserted(l, position, information) ==
  IF IsEmpty(l) THEN Appended(l, information) ELSE Linked(l, position, information)

Removed(l, tmp) ==
  LET prev == l.heap[tmp].prev
      next == l.heap[tmp].next
      left == [[a \in DOMAIN l.heap \ {tmp} |-> l.heap[a]] EXCEPT ![next].prev = prev]
  IN  [heap |-> IF prev = NULL THEN left ELSE [left EXCEPT ![prev].next = next],
       m_first |-> IF prev = NULL THEN next ELSE l.m_first,
       m_last |-> l.m_last]

(* The k-th node, from 0, by the links; NULL beyond the last one.          *)
Forward(l) ==
  LET at[k \in 0 .. MaxItems + 1] ==
        IF k = 0 THEN l.m_first
        ELSE IF at[k - 1] \in DOMAIN l.heap THEN l.heap[at[k - 1]].next ELSE NULL
  IN  at

Length(l) == Cardinality(DOMAIN l.heap) - 1

(* The first node, from m_first on, with one of the wanted elements;       *)
(* m_last if there is none.                                                *)
Search(l, wanted) ==
  LET at   == Forward(l)
      hits == {k \in 0 .. Length(l) - 1 : l.heap[at[k]].information \in wanted}
  IN  IF hits = {} THEN l.m_last ELSE at[CHOOSE k \in hits : \A j \in hits : k <= j]

isIn(l, object) == Search(l, {object}) # l.m_last

(* The nodes that freeList deletes, before a list is made or gone.         *)
freeList(l) == {Forward(l)[k] : k \in 0 .. MaxItems + 1} \ {NULL}

(* A new list, to which the elements of another are appended in turn.      *)
Cloned(other) ==
  LET after[k \in 0 .. Len(other)] ==
        IF k = 0 THEN initList ELSE Appended(after[k - 1], other[k])
  IN  after[Len(other)]

InOrder(other) == \A k \in 2 .. Len(other) : other[k - 1] <= other[k]

(* The constructors: empty, of one object, and of a list of the same kind. *)
ListInit ==
  /\ ordered \in BOOLEAN
  /\ \E other \in UNION {[1 .. n -> Item] : n \in 0 .. MaxItems} :
       /\ ordered => InOrder(other)
       /\ contents = other
       /\ list = Cloned(other)

Room == Len(contents) < MaxItems

appendItem(information) ==
  /\ ~ordered /\ Room
  /\ list' = Appended(list, information)
  /\ contents' = Append(contents, information)
  /\ UNCHANGED ordered

(* insert, before the k-th node or the end.                                *)
insert(k, information) ==
  /\ ~ordered /\ Room /\ k <= Len(contents)
  /\ list' = Inserted(list, Forward(list)[k], information)
  /\ contents' = InsertAt(contents, k + 1, information)
  /\ UNCHANGED ordered

insertFirst(information) ==
  /\ ~ordered /\ Room
  /\ list' = Linked(list, list.m_first, information)
  /\ contents' = <<information>> \o contents
  /\ UNCHANGED ordered

(* The place of the first such object among those put in.                  *)
PlaceOf(object) ==
  CHOOSE k \in DOMAIN contents : contents[k] = object /\ \A j \in 1 .. k - 1 : contents[j] # object

(* remove of an object; if it is not in the list remove throws and changes *)
(* nothing.                                                                *)
removeObject(object) ==
  LET tmp == Search(list, {object})
  IN  /\ ~ordered /\ tmp # list.m_last
      /\ list' = Removed(list, tmp)
      /\ contents' = RemoveAt(contents, PlaceOf(object))
      /\ UNCHANGED ordered

removeAll ==
  /\ list' = initList /\ contents' = <<>>
  /\ UNCHANGED ordered

(* clone of another list, which operator = is: everything is freed first.  *)
clone(other) ==
  /\ ~ordered
  /\ list' = Cloned(other)
  /\ contents' = other
  /\ UNCHANGED ordered

GoesBefore(information, next) == information < next

(* How many of a sorted list do not come after an element.                 *)
NotAfter(information) ==
  CHOOSE n \in 0 .. Len(contents) :
    \A k \in DOMAIN contents : k <= n <=> ~GoesBefore(information, contents[k])

(* cOrderedList::add: before the first greater element, at the end if      *)
(* there is none.                                                          *)
add(information) ==
  LET i == Search(list, {next \in Item : GoesBefore(information, next)})
  IN  /\ ordered /\ Room
      /\ list' = IF i = list.m_last THEN Appended(list, information)
                 ELSE Inserted(list, i, information)
      /\ contents' = InsertAt(contents, NotAfter(information) + 1, information)
      /\ UNCHANGED ordered

(* cOrderedList::pop2null, of a list that is not empty.                    *)
pop2null ==
  /\ ordered /\ contents # <<>>
  /\ list' = Removed(list, list.m_first)
  /\ contents' = Tail(contents)
  /\ UNCHANGED ordered
-----------------------------------------------------------------------------
(* Iterators of a list.                                                    *)
NodeAt(k) == Forward(list)[k]
Stands == UNCHANGED cursorVars

(* The cursor's place after an insertion before the k-th element.           *)
After(k) == UNCHANGED cursor /\ where' = IF where >= k THEN where + 1 ELSE where
(* A new iterator, at the first element.                                    *)
begin == cursor' = list'.m_first /\ where' = 0

IteratorInit ==
  /\ ListInit /\ cursor = list.m_first /\ where = 0
  /\ size \in 0 .. MaxSize /\ m_index = 0 /\ offset = 0

AtEnd == where = Len(contents)
next == ~AtEnd /\ cursor' = list.heap[cursor].next /\ where' = where + 1
prev == where > 0 /\ cursor' = list.heap[cursor].prev /\ where' = where - 1

(* The node so many links ahead, or behind.                                 *)
Linking(count, link) ==
  LET tmp[k \in 0 .. count] == IF k = 0 THEN cursor ELSE list.heap[tmp[k - 1]][link]
  IN tmp[count]
plus(count) ==
  /\ where + count <= Len(contents)
  /\ cursor' = Linking(count, "next") /\ where' = where + count
minus(count) ==
  /\ where >= count
  /\ cursor' = Linking(count, "prev") /\ where' = where - count

insertAt(information) ==
  /\ ~ordered /\ Room
  /\ list' = Inserted(list, cursor, information)
  /\ contents' = InsertAt(contents, where + 1, information)
  /\ After(where) /\ UNCHANGED ordered

(* remove of an iterator that is not at the end.                            *)
removeAt ==
  /\ ~ordered /\ ~AtEnd
  /\ list' = Removed(list, cursor) /\ cursor' = list.heap[cursor].next
  /\ contents' = RemoveAt(contents, where + 1)
  /\ UNCHANGED <<where, ordered>>

(* From the cursor to the end: every element is given one value.            *)
fill(object) ==
  LET filled == {NodeAt(k) : k \in where .. Len(contents) - 1}
  IN /\ ~ordered /\ Stands /\ UNCHANGED ordered
     /\ list' = [list EXCEPT !.heap = [a \in DOMAIN @ |->
                    IF a \in filled THEN [@[a] EXCEPT !.information = object] ELSE @[a]]]
     /\ contents' = [k \in DOMAIN contents |-> IF k > where THEN object ELSE contents[k]]

(* The heap after the contents of j's node and the one before were swapped  *)
(* if out of order, and after a pass from the last node down to i's.        *)
Exchanged(heap, j) ==
  LET prev_j == heap[j].prev IN
  IF heap[prev_j].information > heap[j].information
    THEN [heap EXCEPT ![j].information = heap[prev_j].information,
                      ![prev_j].information = heap[j].information]
    ELSE heap
Pass(heap, i) ==
  LET after[n \in 0 .. Len(contents) - 1 - i] ==
        IF n = 0 THEN heap ELSE Exchanged(after[n - 1], NodeAt(Len(contents) - n))
  IN  after[Len(contents) - 1 - i]

Sorted(s) ==
  CHOOSE t \in {[k \in DOMAIN s |-> s[p[k]]] : p \in Bijection(DOMAIN s, DOMAIN s)} : InOrder(t)

boubbleSort ==
  /\ ~ordered /\ Stands /\ UNCHANGED ordered
  /\ LET after[i \in 0 .. Len(contents) - 1] == IF i = 0 THEN list.heap ELSE Pass(after[i - 1], i - 1)
     IN  list' = IF Len(contents) < 2 THEN list ELSE [list EXCEPT !.heap = after[Len(contents) - 1]]
  /\ contents' = Sorted(contents)

(* An iterator keeps its node while other nodes come and go.                *)
Changes ==
  \/ \E i \in Item :
       \/ appendItem(i) /\ After(Len(contents))
       \/ insertFirst(i) /\ After(0)
       \/ add(i) /\ After(NotAfter(i))
       \/ insertAt(i) \/ fill(i)
       \/ \E k \in 0 .. MaxItems : insert(k, i) /\ After(k)
       \/ /\ removeObject(i)
          /\ LET gone == PlaceOf(i) - 1
             IN IF gone = where THEN begin
                ELSE UNCHANGED cursor /\ where' = IF gone < where THEN where - 1 ELSE where
  \/ removeAt \/ boubbleSort
  \/ removeAll /\ begin
  \/ pop2null /\ IF where = 0 THEN begin ELSE UNCHANGED cursor /\ where' = where - 1
  \/ \E other \in UNION {[1 .. n -> Item] : n \in 0 .. MaxItems} : clone(other) /\ begin

Moves ==
  /\ UNCHANGED listVars
  /\ next \/ prev \/ \E count \in 2 .. MaxItems : plus(count) \/ minus(count)
-----------------------------------------------------------------------------
(* The array's iterator counts modulo the width of its index.               *)
Goes(distance) ==
  /\ offset + distance \in MaxSize + 1 - UintRange .. UintRange - 1
  /\ m_index' = (m_index + distance) % UintRange
  /\ offset' = offset + distance
  /\ UNCHANGED size

arrayNext == Goes(1)
arrayPrev == Goes(-1)
arrayPlus == \E count \in 2 .. MaxSize : Goes(count)
arrayMinus == \E count \in 2 .. MaxSize : Goes(-count)
at == \E index \in 0 .. size : m_index' = index /\ offset' = index /\ UNCHANGED size
Resizes == size' \in 0 .. MaxSize /\ UNCHANGED <<m_index, offset>>

hasNext == m_index <= size
Throws == m_index >= size   \* operator *
IndexEqual(index) == m_index = index
IndexLess(index) == m_index < index

IteratorNext == Changes \/ Moves
IndexNext == arrayNext \/ arrayPrev \/ arrayPlus \/ arrayMinus \/ at \/ Resizes
-----------------------------------------------------------------------------
(* Comparison scans the links, from the first iterator's own node on.       *)
Less(i, other) ==
  LET scan[k \in 0 .. MaxItems + 1] ==
        IF k = 0 THEN i
        ELSE IF scan[k - 1] = NULL THEN NULL ELSE list.heap[scan[k - 1]].next
  IN \E k \in 0 .. MaxItems + 1 : scan[k] = other
Equal(i, other) == i = other
Greater(i, other) == ~Less(i, other) /\ ~Equal(i, other)
GreaterEqual(i, other) == ~Less(i, other)
LessEqual(i, other) == Less(i, other) \/ Equal(i, other)

(* find of algorithm.h: the first iterator with the object, or end.         *)
find(first, end, object) ==
  LET index[k \in 0 .. MaxItems] ==
        IF k = 0 THEN first
        ELSE IF index[k - 1] = end \/ list.heap[index[k - 1]].information = object
          THEN index[k - 1] ELSE list.heap[index[k - 1]].next
  IN index[MaxItems]
-----------------------------------------------------------------------------
(* The links agree in both directions and lead from m_first over every     *)
(* live node to m_last: no node is lost, left behind or linked twice, so   *)
(* freeList deletes each exactly once.                                     *)
LinksAgree ==
  LET nodes == Forward(list)
      last  == Length(list)
  IN  /\ freeList(list) = DOMAIN list.heap
      /\ nodes[last] = list.m_last
      /\ list.heap[list.m_last].next = NULL
      /\ list.heap[list.m_first].prev = NULL
      /\ \A k \in 1 .. last : list.heap[nodes[k]].prev = nodes[k - 1]

(* An iteration over the list finds what was put in, in its order, and     *)
(* isIn nothing else; an ordered list finds it sorted, equal elements in   *)
(* order of their coming.                                                  *)
ListHasContents ==
  /\ Length(list) = Len(contents)
  /\ \A k \in 1 .. Len(contents) :
       list.heap[Forward(list)[k - 1]].information = contents[k]
  /\ \A i \in Item : isIn(list, i) <=> i \in ToSet(contents)
  /\ ordered => InOrder(contents)

(* An iterator stays on its element, or at the end, while others come and   *)
(* go on both sides of it; and comparing it with any other finds which one  *)
(* is ahead, where it is the same for <= and > only.  A search from it      *)
(* finds the next such element.                                             *)
IteratorStays ==
  /\ cursor = NodeAt(where)
  /\ \A k \in 0 .. Len(contents) :
       /\ LessEqual(cursor, NodeAt(k)) <=> where <= k
       /\ Greater(cursor, NodeAt(k)) <=> where > k
       /\ k # where => /\ Less(cursor, NodeAt(k)) <=> where < k
                       /\ GreaterEqual(cursor, NodeAt(k)) <=> where > k
  /\ \A object \in Item :
       LET ahead == {k \in where .. Len(contents) - 1 : contents[k + 1] = object}
       IN find(cursor, list.m_last, object) = NodeAt(IF ahead = {} THEN Len(contents) ELSE Min(ahead))

(* An index that was below zero and came back is where it would be; out of  *)
(* the array, on either side, it is not read, and is not less than any that *)
(* is within; and hasNext() says so where there is an element to be read.   *)
IndexKeepsPlace ==
  /\ \A index \in 0 .. size :
       /\ IndexLess(index) <=> offset \in 0 .. index - 1
       /\ IndexEqual(index) <=> offset = index
  /\ Throws <=> offset \notin 0 .. size - 1
  /\ ~Throws => hasNext

IteratorTypeOK ==
  /\ DOMAIN list.heap \subseteq Address
  /\ \A a \in DOMAIN list.heap :
       list.heap[a] \in [information : Item \cup {Nothing}, prev : Address \cup {NULL}, next : Address \cup {NULL}]
  /\ {list.m_first, list.m_last} \subseteq DOMAIN list.heap
  /\ ordered \in BOOLEAN
  /\ contents \in Seq(Item)
  /\ cursor \in DOMAIN list.heap /\ where \in Nat
  /\ size \in 0 .. MaxSize /\ m_index \in 0 .. UintRange - 1 /\ offset \in Int
=============================================================================
