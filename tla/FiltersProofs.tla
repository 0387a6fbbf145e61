---------------------------- MODULE FiltersProofs ----------------------------
(***************************************************************************)
(* The cache, the sockets, copyStream, file streams and streams over       *)
(* memory keep what they promise whatever the sizes of their buffers, the  *)
(* lengths of calls and the bytes.  Each component has an invariant of its *)
(* own, one section each; a step of another component leaves its state     *)
(* alone.                                                                  *)
(***************************************************************************)
EXTENDS Filters, FiniteSetTheorems, SequenceTheorems, WellFoundedInduction, TLAPS

(* A set of numbers that is not empty has a least member. *)
LEMMA LeastOf ==
  ASSUME NEW S \in SUBSET Nat, S # {}
  PROVE  \E b \in S : \A c \in S : b <= c
<1>1. PICK R : IsWellFoundedOn(R, Nat) /\ \A m, n \in Nat : m < n => <<m, n>> \in R
  <2>1. \A m, n \in Nat : m < n => <<m, n>> \in OpToRel(<, Nat)
    BY DEF OpToRel
  <2>2. QED
    BY <2>1, NatLessThanWellFounded, Zenon
<1>2. S \subseteq Nat
  OBVIOUS
<1>3. \E b \in S : \A c \in S : ~(<<c, b>> \in R)
  <2>1. IsWellFoundedOn(R, Nat) /\ S # {}
    BY <1>1
  <2>2. QED
    BY <1>2, <2>1, WFMin, Zenon
<1>4. PICK b \in S : \A c \in S : ~(<<c, b>> \in R)
  BY <1>3
<1>5. ASSUME NEW c \in S PROVE b <= c
  <2>1. b \in Nat /\ c \in Nat /\ ~(<<c, b>> \in R)
    BY <1>2, <1>4
  <2>2. ~(c < b)
    BY <1>1, <2>1
  <2>3. QED
    BY <2>1, <2>2
<1>6. QED
  BY <1>5

(* A piece of a sequence. *)
LEMMA Piece ==
  ASSUME NEW S, NEW s \in Seq(S), NEW m \in Nat \ {0}, NEW n \in Int, n <= Len(s)
  PROVE  /\ SubSeq(s, m, n) \in Seq(S)
         /\ Len(SubSeq(s, m, n)) = IF m <= n THEN n - m + 1 ELSE 0
         /\ \A i \in 1 .. n - m + 1 : SubSeq(s, m, n)[i] = s[m + i - 1]
<1>1. \A i \in m .. n : s[i] \in S
  BY LenProperties
<1> QED BY <1>1, SubSeqProperties

-----------------------------------------------------------------------------
(* The cache.  The read-ahead is what lies before the downstream's place,   *)
(* and one of the two caches is empty.  A write over a file is known by its *)
(* bytes, so that two writes in a row are one.                              *)
InFile(stream) == /\ stream = [data |-> stream.data, at |-> stream.at]
                  /\ stream.data \in Seq(Byte) /\ stream.at \in 0 .. Len(stream.data)

CacheInv ==
  /\ InFile(down) /\ readAhead \in Seq(Byte) /\ lazyWrite \in Seq(Byte)
  /\ Len(readAhead) <= down.at
  /\ \A i \in 1 .. Len(readAhead) : readAhead[i] = down.data[down.at - Len(readAhead) + i]
  /\ readAhead = <<>> \/ lazyWrite = <<>>
  /\ Len(lazyWrite) <= writeCache /\ Len(readAhead) <= readCache /\ result \in Seq(Byte)

Over(stream, bytes, w) ==
  /\ InFile(w) /\ w.at = stream.at + Len(bytes)
  /\ Len(w.data) = IF w.at > Len(stream.data) THEN w.at ELSE Len(stream.data)
  /\ \A i \in 1 .. Len(w.data) :
       w.data[i] = IF i \in stream.at + 1 .. w.at THEN bytes[i - stream.at] ELSE stream.data[i]

LEMMA Overwritten ==
  ASSUME NEW stream, InFile(stream), NEW bytes \in Seq(Byte)
  PROVE  Over(stream, bytes, Cache!AfterWrite(stream, bytes, FALSE))
<1>1. PICK w, n, d, p, m : /\ w = Cache!AfterWrite(stream, bytes, FALSE)
                           /\ n = Len(bytes) /\ d = stream.data /\ p = stream.at /\ m = p + n + 1
  OBVIOUS
<1>2. /\ n \in Nat /\ Len(d) \in Nat /\ p \in 0 .. Len(d) /\ d \in Seq(Byte)
      /\ m \in Nat \ {0} /\ Len(d) \in Int
  BY <1>1, LenProperties DEF InFile
<1>3. PICK front, back : front = SubSeq(d, 1, p) /\ back = SubSeq(d, m, Len(d))
  OBVIOUS
<1>4. /\ front \in Seq(Byte) /\ Len(front) = p /\ \A i \in 1 .. p : front[i] = d[i]
  <2>1. /\ front \in Seq(Byte) /\ Len(front) = IF 1 <= p THEN p - 1 + 1 ELSE 0
        /\ \A i \in 1 .. p - 1 + 1 : front[i] = d[1 + i - 1]
    BY <1>2, <1>3, Piece
  <2> QED BY <1>2, <2>1
<1>5. /\ back \in Seq(Byte) /\ Len(back) = IF m <= Len(d) THEN Len(d) - m + 1 ELSE 0
      /\ \A i \in 1 .. Len(d) - m + 1 : back[i] = d[m + i - 1]
  BY <1>2, <1>3, Piece
<1>6. PICK a : a = front \o bytes
  OBVIOUS
<1>7. /\ a \in Seq(Byte) /\ Len(a) = p + n
      /\ \A i \in 1 .. p + n : a[i] = IF i <= p THEN front[i] ELSE bytes[i - p]
  <2>1. /\ a \in Seq(Byte) /\ Len(a) = Len(front) + Len(bytes)
        /\ \A i \in 1 .. Len(front) + Len(bytes) :
             a[i] = IF i <= Len(front) THEN front[i] ELSE bytes[i - Len(front)]
    BY <1>4, <1>6, ConcatProperties
  <2> QED BY <1>1, <1>4, <2>1
<1>8. PICK all : all = a \o back
  OBVIOUS
<1>9. /\ all \in Seq(Byte) /\ Len(all) = p + n + Len(back)
      /\ \A i \in 1 .. p + n + Len(back) : all[i] = IF i <= p + n THEN a[i] ELSE back[i - (p + n)]
  <2>1. /\ all \in Seq(Byte) /\ Len(all) = Len(a) + Len(back)
        /\ \A i \in 1 .. Len(a) + Len(back) :
             all[i] = IF i <= Len(a) THEN a[i] ELSE back[i - Len(a)]
    BY <1>5, <1>7, <1>8, ConcatProperties
  <2> QED BY <1>7, <2>1
<1>10. w = [data |-> all, at |-> p + n]
  <2>1. SubSeq(bytes, 1, Len(bytes)) = bytes
    BY SubSeqFull
  <2>2. w = [data |-> SubSeq(d, 1, p) \o bytes \o SubSeq(d, p + n + 1, Len(d)), at |-> p + n]
    BY <1>1, <2>1 DEF Cache!AfterWrite, Cache!Accepted
  <2> QED BY <1>1, <1>3, <1>6, <1>8, <2>2
<1>11. w.data = all /\ w.at = p + n /\ w = [data |-> w.data, at |-> w.at]
  BY <1>10
<1>12. Len(all) = IF p + n > Len(d) THEN p + n ELSE Len(d)
  BY <1>1, <1>2, <1>5, <1>9, SMTT(60)
<1>13. ASSUME NEW i \in 1 .. Len(all)
       PROVE  all[i] = IF i \in p + 1 .. p + n THEN bytes[i - p] ELSE d[i]
  <2>1. i \in Int /\ i >= 1
    BY <1>2, <1>12
  <2>2. CASE i <= p + n
    <3>1. i \in 1 .. p + n /\ i \in 1 .. p + n + Len(back)
      BY <1>1, <1>2, <1>9, <1>13, <2>1, <2>2
    <3>2. all[i] = IF i <= p THEN front[i] ELSE bytes[i - p]
      BY <1>7, <1>9, <2>2, <3>1
    <3> QED BY <1>2, <1>4, <2>1, <2>2, <3>2
  <2>3. CASE ~(i <= p + n)
    <3>1. i \in 1 .. p + n + Len(back) /\ all[i] = back[i - (p + n)]
      BY <1>9, <1>13, <2>3
    <3>2. i - (p + n) \in 1 .. Len(d) - m + 1 /\ m + (i - (p + n)) - 1 = i
      <4>1. m = p + n + 1 /\ i <= Len(all) /\ i > p + n
        BY <1>1, <1>2, <1>12, <2>1, <2>3
      <4>2. i <= Len(d)
        BY <1>2, <1>12, <2>1, <4>1
      <4> QED BY <1>2, <2>1, <4>1, <4>2
    <3>3. back[i - (p + n)] = d[m + (i - (p + n)) - 1]
      BY <1>5, <3>2
    <3> QED BY <1>2, <2>1, <2>3, <3>1, <3>2, <3>3
  <2> QED BY <2>2, <2>3
<1>14. p + n \in 0 .. Len(all)
  BY <1>2, <1>12
<1>15. InFile(w)
  BY <1>9, <1>11, <1>14 DEF InFile
<1> QED BY <1>1, <1>11, <1>12, <1>13, <1>15 DEF Over

LEMMA SameFile ==
  ASSUME NEW s, NEW t, InFile(s), InFile(t), s.at = t.at, Len(s.data) = Len(t.data),
         \A i \in 1 .. Len(s.data) : s.data[i] = t.data[i]
  PROVE  s = t
<1>1. s.data = t.data
  BY SeqEqual DEF InFile
<1> QED BY <1>1 DEF InFile

LEMMA WrittenTwice ==
  ASSUME NEW stream, InFile(stream), NEW one \in Seq(Byte), NEW two \in Seq(Byte)
  PROVE  Cache!AfterWrite(Cache!AfterWrite(stream, one, FALSE), two, FALSE)
           = Cache!AfterWrite(stream, one \o two, FALSE)
<1>1. PICK a, both : a = Cache!AfterWrite(stream, one, FALSE) /\ both = one \o two
  OBVIOUS
<1>2. /\ both \in Seq(Byte) /\ Len(both) = Len(one) + Len(two)
      /\ \A i \in 1 .. Len(one) + Len(two) :
           both[i] = IF i <= Len(one) THEN one[i] ELSE two[i - Len(one)]
  BY <1>1, ConcatProperties
<1>3. PICK b, c : b = Cache!AfterWrite(a, two, FALSE) /\ c = Cache!AfterWrite(stream, both, FALSE)
  OBVIOUS
<1>4. Over(stream, one, a)
  BY <1>1, Overwritten
<1>5. Over(a, two, b)
  <2>1. InFile(a)
    BY <1>4 DEF Over
  <2> QED BY <1>3, <2>1, Overwritten
<1>6. Over(stream, both, c)
  BY <1>2, <1>3, Overwritten
<1>7. PICK d, p, l, m : d = stream.data /\ p = stream.at /\ l = Len(one) /\ m = Len(two)
  OBVIOUS
<1>8. Len(d) \in Nat /\ p \in 0 .. Len(d) /\ l \in Nat /\ m \in Nat
  BY <1>7, LenProperties DEF InFile
<1>9. a.at = p + l /\ b.at = p + l + m /\ c.at = p + l + m
  <2>1. a.at = p + l /\ b.at = a.at + m /\ c.at = p + Len(both)
    BY <1>4, <1>5, <1>6, <1>7 DEF Over
  <2>2. Len(both) = l + m
    BY <1>2, <1>7
  <2> QED BY <1>8, <2>1, <2>2
<1>10. /\ Len(a.data) = IF p + l > Len(d) THEN p + l ELSE Len(d)
       /\ Len(b.data) = IF p + l + m > Len(a.data) THEN p + l + m ELSE Len(a.data)
       /\ Len(c.data) = IF p + l + m > Len(d) THEN p + l + m ELSE Len(d)
  BY <1>4, <1>5, <1>6, <1>7, <1>9 DEF Over
<1>11. Len(b.data) = Len(c.data)
  BY <1>8, <1>10
<1>12. ASSUME NEW i \in 1 .. Len(b.data) PROVE b.data[i] = c.data[i]
  <2>1. i \in Int /\ i >= 1 /\ i \in 1 .. Len(c.data) /\ i <= Len(b.data)
    BY <1>8, <1>10, <1>11
  <2>2. b.data[i] = IF i \in p + l + 1 .. p + l + m THEN two[i - (p + l)] ELSE a.data[i]
    BY <1>5, <1>9 DEF Over
  <2>3. i \in 1 .. Len(a.data) => a.data[i] = IF i \in p + 1 .. p + l THEN one[i - p] ELSE d[i]
    BY <1>4, <1>7, <1>9 DEF Over
  <2>4. c.data[i] = IF i \in p + 1 .. p + l + m THEN both[i - p] ELSE d[i]
    BY <1>6, <1>7, <1>9, <2>1 DEF Over
  <2>5. CASE i \in p + l + 1 .. p + l + m
    <3>1. i - p \in 1 .. l + m /\ ~(i - p <= l) /\ (i - p) - l = i - (p + l) /\ i \in p + 1 .. p + l + m
      BY <1>8, <2>5
    <3> QED BY <1>2, <1>7, <2>2, <2>4, <2>5, <3>1
  <2>6. CASE i \notin p + l + 1 .. p + l + m
    <3>1. i \in 1 .. Len(a.data)
      BY <1>8, <1>10, <2>1, <2>6
    <3>2. CASE i \in p + 1 .. p + l
      <4>1. i - p \in 1 .. l + m /\ i - p <= l /\ i \in p + 1 .. p + l + m
        BY <1>8, <3>2
      <4> QED BY <1>2, <1>7, <2>2, <2>3, <2>4, <2>6, <3>1, <3>2, <4>1
    <3>3. CASE i \notin p + 1 .. p + l
      <4>1. i \notin p + 1 .. p + l + m
        BY <1>8, <2>1, <2>6, <3>3
      <4> QED BY <2>2, <2>3, <2>4, <2>6, <3>1, <3>3, <4>1
    <3> QED BY <3>2, <3>3
  <2> QED BY <2>5, <2>6
<1>13. b = c
  BY <1>5, <1>6, <1>9, <1>11, <1>12, SameFile DEF Over
<1> QED BY <1>1, <1>3, <1>13

LEMMA NothingWritten ==
  ASSUME NEW stream, InFile(stream)
  PROVE  Cache!AfterWrite(stream, <<>>, FALSE) = stream
<1>1. PICK w, e : w = Cache!AfterWrite(stream, e, FALSE) /\ e = <<>>
  OBVIOUS
<1>2. e \in Seq(Byte) /\ Len(e) = 0
  BY <1>1, EmptySeq
<1>3. Len(stream.data) \in Nat /\ stream.at \in 0 .. Len(stream.data)
  BY LenProperties DEF InFile
<1>4. Over(stream, e, w)
  BY <1>1, <1>2, Overwritten
<1>5. w.at = stream.at /\ Len(w.data) = Len(stream.data)
  BY <1>2, <1>3, <1>4 DEF Over
<1>6. \A i \in 1 .. Len(w.data) : w.data[i] = stream.data[i]
  BY <1>3, <1>4, <1>5 DEF Over
<1>7. w = stream
  BY <1>4, <1>5, <1>6, SameFile DEF Over
<1> QED BY <1>1, <1>7

(* The stream as the client sees it, with either cache empty.               *)
LEMMA SeenReading ==
  ASSUME CacheInv, lazyWrite = <<>>
  PROVE  Cache!Seen = [data |-> down.data, at |-> down.at - Len(readAhead)]
<1>1. Cache!AfterWrite(down, <<>>, FALSE) = down
  BY NothingWritten DEF CacheInv
<1>2. Cache!Seen = [down EXCEPT !.at = @ - Len(readAhead)]
  BY <1>1 DEF Cache!Seen
<1>3. down = [data |-> down.data, at |-> down.at]
  BY DEF CacheInv, InFile
<1> QED BY <1>2, <1>3

LEMMA SeenWriting ==
  ASSUME CacheInv, readAhead = <<>>
  PROVE  /\ Cache!Seen = Cache!AfterWrite(down, lazyWrite, FALSE)
         /\ InFile(Cache!AfterWrite(down, lazyWrite, FALSE))
<1>1. PICK w : w = Cache!AfterWrite(down, lazyWrite, FALSE)
  OBVIOUS
<1>2. InFile(w)
  BY <1>1, Overwritten DEF CacheInv, Over
<1>3. Len(readAhead) = 0
  BY EmptySeq
<1>4. Cache!Seen = [w EXCEPT !.at = @ - Len(readAhead)]
  BY <1>1 DEF Cache!Seen
<1>5. w.at - 0 = w.at /\ Len(w.data) \in Nat /\ w.at \in Int
  BY <1>2, LenProperties DEF InFile
<1> QED BY <1>1, <1>2, <1>3, <1>4, <1>5 DEF InFile

(* A read takes from the read-ahead, which it fills if it was used up.      *)
LEMMA CacheReads ==
  ASSUME CacheInv, NEW length \in 1 .. MaxChunk, Cache!read(length)
  PROVE  CacheInv' /\ Cache!File!Read
<1>1. PICK d, p, r : d = down.data /\ p = down.at /\ r = p - Len(readAhead)
  OBVIOUS
<1>2. /\ d \in Seq(Byte) /\ Len(d) \in Nat /\ p \in 0 .. Len(d) /\ Len(readAhead) \in 0 .. p /\ r \in 0 .. p
      /\ readAhead \in Seq(Byte)
  BY <1>1, LenProperties DEF CacheInv, InFile
<1>3. PICK cache, lread, q :
        /\ cache = IF Cache!Refills THEN Cache!ReadBytes(down, readCache) ELSE readAhead
        /\ lread = Cache!Least(length, Len(cache))
        /\ q = IF Cache!Refills THEN Cache!Least(p + readCache, Len(d)) ELSE p
  OBVIOUS
<1>4. /\ lazyWrite = <<>> /\ lazyWrite' = lazyWrite
      /\ result' = SubSeq(cache, 1, lread) /\ readAhead' = SubSeq(cache, lread + 1, Len(cache))
  BY <1>3 DEF Cache!read
<1>5. down' = [data |-> d, at |-> q]
  BY <1>1, <1>3 DEF Cache!read, Cache!AfterRead, CacheInv, InFile
<1>6. /\ cache \in Seq(Byte) /\ q \in r .. Len(d) /\ Len(cache) = q - r
      /\ \A i \in 1 .. q - r : cache[i] = d[r + i]
      /\ q = r => r = Len(d)
      /\ Len(cache) <= readCache
  <2>1. CASE Cache!Refills
    <3>1. readAhead = <<>> /\ Len(readAhead) = 0 /\ r = p
      BY <1>1, <1>2, <2>1, EmptySeq DEF Cache!Refills
    <3>2. readCache \in Nat \ {0}
      BY CacheAssumption
    <3>3. q = IF p + readCache < Len(d) THEN p + readCache ELSE Len(d)
      BY <1>3, <2>1 DEF Cache!Least
    <3>4. q \in p .. Len(d) /\ (q = p => p = Len(d)) /\ q - p <= readCache
      BY <1>2, <3>2, <3>3
    <3>5. PICK m : m = p + 1
      OBVIOUS
    <3>6. cache = SubSeq(d, m, q)
      BY <1>1, <1>3, <2>1, <3>5 DEF Cache!ReadBytes
    <3>7. m \in Nat \ {0} /\ q \in Int /\ q <= Len(d)
      BY <1>2, <3>4, <3>5
    <3>8. /\ cache \in Seq(Byte) /\ Len(cache) = IF m <= q THEN q - m + 1 ELSE 0
          /\ \A i \in 1 .. q - m + 1 : cache[i] = d[m + i - 1]
      BY <1>2, <3>6, <3>7, Piece
    <3>9. Len(cache) = q - r
      BY <1>2, <3>1, <3>4, <3>5, <3>8
    <3>10. ASSUME NEW i \in 1 .. q - r PROVE cache[i] = d[r + i]
      <4>1. i \in 1 .. q - m + 1 /\ m + i - 1 = r + i
        BY <1>2, <3>1, <3>4, <3>5
      <4> QED BY <3>8, <4>1
    <3> QED BY <3>1, <3>4, <3>8, <3>9, <3>10
  <2>2. CASE ~Cache!Refills
    <3>1. cache = readAhead /\ q = p /\ readAhead # <<>>
      BY <1>3, <2>2 DEF Cache!Refills
    <3>2. Len(readAhead) \in Nat \ {0}
      BY <1>2, <3>1, EmptySeq
    <3>3. Len(cache) = q - r /\ q # r /\ q \in r .. Len(d)
      BY <1>1, <1>2, <3>1, <3>2
    <3>4. \A i \in 1 .. q - r : cache[i] = d[r + i]
      BY <1>1, <3>1, <3>3 DEF CacheInv
    <3> QED BY <1>2, <3>1, <3>3, <3>4 DEF CacheInv
  <2> QED BY <2>1, <2>2
<1>7. /\ length \in Nat \ {0} /\ Len(cache) \in Nat
      /\ lread = IF length < Len(cache) THEN length ELSE Len(cache)
      /\ lread \in 0 .. Len(cache) /\ (lread = 0 => q = r)
  <2>1. length \in Nat \ {0} /\ Len(cache) \in Nat /\ q \in Nat /\ r \in Nat
    BY <1>2, <1>6, CacheAssumption
  <2>2. lread = IF length < Len(cache) THEN length ELSE Len(cache)
    BY <1>3 DEF Cache!Least
  <2> QED BY <1>6, <2>1, <2>2
<1>8. /\ result' \in Seq(Byte) /\ Len(result') = lread
      /\ \A i \in 1 .. lread : result'[i] = d[r + i]
  <2>1. /\ result' \in Seq(Byte) /\ Len(result') = IF 1 <= lread THEN lread - 1 + 1 ELSE 0
        /\ \A i \in 1 .. lread - 1 + 1 : result'[i] = cache[1 + i - 1]
    BY <1>4, <1>6, <1>7, Piece
  <2>2. \A i \in 1 .. lread : result'[i] = cache[i] /\ i \in 1 .. q - r
    BY <1>6, <1>7, <2>1
  <2> QED BY <1>6, <1>7, <2>1, <2>2
<1>9. /\ readAhead' \in Seq(Byte) /\ Len(readAhead') = q - (r + lread)
      /\ \A i \in 1 .. Len(readAhead') : readAhead'[i] = d[r + lread + i]
  <2>1. PICK m : m = lread + 1
    OBVIOUS
  <2>2. m \in Nat \ {0} /\ Len(cache) \in Int
    BY <1>7, <2>1
  <2>3. /\ readAhead' \in Seq(Byte)
        /\ Len(readAhead') = IF m <= Len(cache) THEN Len(cache) - m + 1 ELSE 0
        /\ \A i \in 1 .. Len(cache) - m + 1 : readAhead'[i] = cache[m + i - 1]
    BY <1>4, <1>6, <2>1, <2>2, Piece, SMTT(60)
  <2>4. Len(readAhead') = q - (r + lread)
    BY <1>2, <1>6, <1>7, <2>1, <2>3
  <2>5. ASSUME NEW i \in 1 .. Len(readAhead') PROVE readAhead'[i] = d[r + lread + i]
    <3>1. i \in 1 .. Len(cache) - m + 1 /\ m + i - 1 \in 1 .. q - r /\ r + (m + i - 1) = r + lread + i
      BY <1>2, <1>6, <1>7, <2>1, <2>4
    <3> QED BY <1>6, <2>3, <3>1
  <2> QED BY <2>3, <2>4, <2>5
<1>10. PICK s : s = r + lread
  OBVIOUS
<1>11. s \in 0 .. q /\ s <= Len(d) /\ q - (q - s) = s
  <2>1. q \in Nat /\ r \in Nat /\ lread \in Nat /\ Len(d) \in Nat /\ r <= q /\ q <= Len(d)
    BY <1>2, <1>6, <1>7
  <2>2. lread <= q - r
    BY <1>6, <1>7
  <2> QED BY <1>10, <2>1, <2>2
<1>12. InFile(down')
  BY <1>2, <1>5, <1>6 DEF InFile
<1>13. CacheInv'
  <2>1. Len(readAhead') <= down'.at /\ Len(readAhead') <= readCache
    <3>1. q \in Nat /\ r \in Nat /\ lread \in Nat /\ readCache \in Nat /\ q - r <= readCache
      BY <1>2, <1>6, <1>7, CacheAssumption
    <3>2. Len(readAhead') = q - (r + lread) /\ down'.at = q
      BY <1>5, <1>9
    <3> QED BY <3>1, <3>2
  <2>2. ASSUME NEW i \in 1 .. Len(readAhead')
        PROVE  readAhead'[i] = down'.data[down'.at - Len(readAhead') + i]
    <3>1. down'.at = q /\ down'.data = d
      BY <1>5
    <3>2. q \in Nat /\ s \in Nat /\ Len(readAhead') = q - s /\ s <= q
      BY <1>2, <1>6, <1>9, <1>10, <1>11
    <3>3. down'.at - Len(readAhead') + i = s + i
      BY <3>1, <3>2
    <3> QED BY <1>9, <1>10, <3>1, <3>3
  <2> QED BY <1>4, <1>8, <1>9, <1>12, <2>1, <2>2 DEF CacheInv
<1>14. Cache!Seen = [data |-> d, at |-> r] /\ Cache!Seen' = [data |-> d, at |-> s]
  <2>1. Cache!Seen = [data |-> d, at |-> r]
    BY <1>1, <1>4, SeenReading
  <2>2. (CacheInv /\ lazyWrite = <<>> =>
           Cache!Seen = [data |-> down.data, at |-> down.at - Len(readAhead)])'
    BY SeenReading, PTL
  <2>3. Cache!Seen' = [data |-> d, at |-> q - (q - s)]
    BY <1>4, <1>5, <1>9, <1>10, <1>13, <2>2
  <2> QED BY <1>11, <2>1, <2>3
<1>15. lread \in 0 .. Len(d) - r /\ (lread = 0 => r = Len(d))
  BY <1>2, <1>6, <1>7
<1>16. (IF s < Len(d) THEN s ELSE Len(d)) = s
  BY <1>2, <1>11
<1>17. result' = SubSeq(d, r + 1, s)
  <2>1. PICK m, t : m = r + 1 /\ t = SubSeq(d, m, s)
    OBVIOUS
  <2>2. m \in Nat \ {0} /\ s \in Int /\ s <= Len(d)
    BY <1>2, <1>11, <1>6, <2>1
  <2>3. /\ t \in Seq(Byte) /\ Len(t) = IF m <= s THEN s - m + 1 ELSE 0
        /\ \A i \in 1 .. s - m + 1 : t[i] = d[m + i - 1]
    BY <1>2, <2>1, <2>2, Piece
  <2>4. Len(t) = lread
    BY <1>2, <1>7, <1>10, <2>1, <2>3
  <2>5. ASSUME NEW i \in 1 .. lread PROVE t[i] = d[r + i]
    <3>1. i \in 1 .. s - m + 1 /\ m + i - 1 = r + i
      BY <1>2, <1>7, <1>10, <2>1
    <3> QED BY <2>3, <3>1
  <2>6. t = result'
    BY <1>8, <2>3, <2>4, <2>5, SeqEqual
  <2> QED BY <2>1, <2>6
<1>18. Cache!File!Read
  <2>1. /\ lread \in 0 .. Len(Cache!Seen.data) - Cache!Seen.at
        /\ lread = 0 => Cache!File!isEOS(Cache!Seen)
    BY <1>14, <1>15 DEF Cache!File!isEOS
  <2>2. result' = Cache!File!ReadBytes(Cache!Seen, lread)
    BY <1>10, <1>14, <1>16, <1>17 DEF Cache!File!ReadBytes, Cache!File!Least
  <2>3. Cache!Seen' = Cache!File!AfterRead(Cache!Seen, lread)
    BY <1>10, <1>14, <1>16 DEF Cache!File!AfterRead, Cache!File!Least
  <2> QED BY <2>1, <2>2, <2>3 DEF Cache!File!Read
<1> QED BY <1>13, <1>18

(* The cached stream and the file it is are written and sought alike.       *)
LEMMA SameWrites ==
  ASSUME NEW stream, NEW bytes
  PROVE  Cache!File!AfterWrite(stream, bytes, FALSE) = Cache!AfterWrite(stream, bytes, FALSE)
BY DEF Cache!File!AfterWrite, Cache!AfterWrite, Cache!File!Accepted, Cache!Accepted,
       Cache!File!Least, Cache!Least

LEMMA SameSeeks ==
  ASSUME NEW stream, NEW distance, NEW method
  PROVE  /\ Cache!File!AfterSeek(stream, distance, method) = Cache!AfterSeek(stream, distance, method)
         /\ Cache!File!CanSeek(distance, method) <=> Cache!CanSeek(distance, method)
         /\ Cache!File!Methods = Cache!Methods
BY DEF Cache!File!AfterSeek, Cache!AfterSeek, Cache!File!Clamped, Cache!Clamped,
       Cache!File!Least, Cache!Least, Cache!File!CanSeek, Cache!CanSeek,
       Cache!File!Methods, Cache!Methods

(* What an empty read-ahead satisfies.                                      *)
LEMMA Emptied ==
  ASSUME NEW stream, InFile(stream)
  PROVE  /\ <<>> \in Seq(Byte) /\ Len(<<>>) <= stream.at
         /\ Len(<<>>) <= readCache /\ Len(<<>>) <= writeCache
         /\ \A i \in 1 .. Len(<<>>) : <<>>[i] = stream.data[stream.at - Len(<<>>) + i]
<1>1. <<>> \in Seq(Byte) /\ Len(<<>>) = 0
  BY EmptySeq
<1>2. stream.at \in Nat
  BY LenProperties DEF InFile
<1> QED BY <1>1, <1>2, CacheAssumption

(* A write lands behind the lazy bytes, which go down first when there is   *)
(* no more room for them.                                                   *)
LEMMA CacheWrites ==
  ASSUME CacheInv, NEW bytes \in Cache!Chunk, Cache!write(bytes)
  PROVE  CacheInv' /\ Cache!File!Write
<1>1. PICK held, k, t : /\ held = IF Len(lazyWrite) = writeCache THEN <<>> ELSE lazyWrite
                        /\ k = Cache!Fits(held, bytes)
                        /\ t = SubSeq(bytes, 1, k)
  OBVIOUS
<1>2. /\ readAhead = <<>> /\ readAhead' = readAhead
      /\ lazyWrite' = held \o t /\ result' = t
      /\ down' = IF Len(lazyWrite) = writeCache
                 THEN Cache!AfterWrite(down, lazyWrite, FALSE) ELSE down
  BY <1>1 DEF Cache!write, Cache!Emptied
<1>3. /\ bytes \in Seq(Byte) /\ Len(bytes) \in Nat \ {0}
      /\ lazyWrite \in Seq(Byte) /\ Len(lazyWrite) \in 0 .. writeCache /\ InFile(down)
      /\ Len(readAhead) = 0 /\ writeCache \in Nat \ {0}
  <2>1. PICK n \in 1 .. MaxChunk : bytes \in [1 .. n -> Byte]
    BY DEF Cache!Chunk
  <2>2. n \in Nat \ {0}
    BY CacheAssumption
  <2>3. bytes \in Seq(Byte) /\ Len(bytes) = n
    BY <2>1, <2>2
  <2>4. lazyWrite \in Seq(Byte) /\ Len(lazyWrite) \in 0 .. writeCache /\ InFile(down)
    BY CacheAssumption, LenProperties DEF CacheInv
  <2>5. Len(readAhead) = 0
    BY <1>2, EmptySeq
  <2> QED BY <2>2, <2>3, <2>4, <2>5, CacheAssumption
<1>4. held \in Seq(Byte) /\ Len(held) \in 0 .. writeCache - 1
  <2>1. CASE Len(lazyWrite) = writeCache
    <3>1. held = <<>>
      BY <1>1, <2>1
    <3> QED BY <1>3, <3>1, EmptySeq
  <2>2. CASE Len(lazyWrite) # writeCache
    <3>1. held = lazyWrite
      BY <1>1, <2>2
    <3> QED BY <1>3, <2>2, <3>1
  <2> QED BY <2>1, <2>2
<1>5. k \in 1 .. Len(bytes) /\ k <= writeCache - Len(held)
  <2>1. k = IF Len(bytes) < writeCache - Len(held) THEN Len(bytes) ELSE writeCache - Len(held)
    BY <1>1 DEF Cache!Fits, Cache!Least
  <2> QED BY <1>3, <1>4, <2>1
<1>6. t \in Seq(Byte) /\ Len(t) = k
  <2>1. t \in Seq(Byte) /\ Len(t) = IF 1 <= k THEN k - 1 + 1 ELSE 0
    BY <1>1, <1>3, <1>5, Piece
  <2> QED BY <1>3, <1>5, <2>1
<1>7. lazyWrite' \in Seq(Byte) /\ Len(lazyWrite') <= writeCache
  <2>1. lazyWrite' \in Seq(Byte) /\ Len(lazyWrite') = Len(held) + Len(t)
    BY <1>2, <1>4, <1>6, ConcatProperties
  <2> QED BY <1>3, <1>4, <1>5, <1>6, <2>1
<1>8. Cache!Seen = Cache!AfterWrite(down, lazyWrite, FALSE) /\ InFile(Cache!Seen)
  BY <1>2, SeenWriting
<1>9. InFile(down') /\ Cache!AfterWrite(down', held, FALSE) = Cache!Seen
  <2>1. CASE Len(lazyWrite) = writeCache
    <3>1. held = <<>> /\ down' = Cache!Seen
      BY <1>1, <1>2, <1>8, <2>1
    <3> QED BY <1>8, <3>1, NothingWritten
  <2>2. CASE Len(lazyWrite) # writeCache
    <3>1. held = lazyWrite /\ down' = down
      BY <1>1, <1>2, <2>2
    <3> QED BY <1>3, <1>8, <3>1
  <2> QED BY <2>1, <2>2
<1>10. CacheInv'
  <2>1. Len(readAhead') = 0 /\ readAhead' \in Seq(Byte) /\ readAhead' = <<>>
    BY <1>2, <1>3, EmptySeq
  <2>2. readCache \in Nat /\ down'.at \in Nat
    <3>1. Len(down'.data) \in Nat /\ down'.at \in 0 .. Len(down'.data)
      BY <1>9, LenProperties DEF InFile
    <3> QED BY <3>1, CacheAssumption
  <2>3. \A i \in 1 .. Len(readAhead') :
          readAhead'[i] = down'.data[down'.at - Len(readAhead') + i]
    BY <2>1
  <2>4. Len(readAhead') <= down'.at /\ Len(readAhead') <= readCache
    BY <2>1, <2>2, CacheAssumption
  <2> QED BY <1>2, <1>6, <1>7, <1>9, <2>1, <2>3, <2>4 DEF CacheInv
<1>11. Cache!Seen' = Cache!AfterWrite(Cache!Seen, t, FALSE)
  <2>1. (CacheInv /\ readAhead = <<>> =>
           Cache!Seen = Cache!AfterWrite(down, lazyWrite, FALSE))'
    BY SeenWriting, PTL
  <2>2. Cache!Seen' = Cache!AfterWrite(down', held \o t, FALSE)
    BY <1>2, <1>10, <2>1
  <2> QED BY <1>4, <1>6, <1>9, <2>2, WrittenTwice
<1>12. Cache!File!Write
  <2>1. result' = SubSeq(bytes, 1, k)
    BY <1>1, <1>2
  <2>2. Cache!Seen' = Cache!File!AfterWrite(Cache!Seen, result', FALSE)
    BY <1>2, <1>11, SameWrites
  <2> QED BY <1>5, <2>1, <2>2 DEF Cache!File!Write
<1> QED BY <1>10, <1>12

(* A flush is nothing the client can see.                                   *)
LEMMA CacheFlushes ==
  ASSUME CacheInv, Cache!flush
  PROVE  CacheInv' /\ UNCHANGED Cache!File!vars
<1>1. PICK w : w = Cache!AfterWrite(down, lazyWrite, FALSE)
  OBVIOUS
<1>2. /\ readAhead = <<>> /\ down' = w /\ readAhead' = <<>> /\ lazyWrite' = <<>> /\ result' = result
  BY <1>1 DEF Cache!flush, Cache!Flushed
<1>3. Cache!Seen = w /\ InFile(w)
  BY <1>1, <1>2, SeenWriting
<1>4. CacheInv'
  BY <1>2, <1>3, Emptied DEF CacheInv
<1>5. Cache!Seen' = w
  <2>1. (CacheInv /\ readAhead = <<>> =>
           Cache!Seen = Cache!AfterWrite(down, lazyWrite, FALSE))'
    BY SeenWriting, PTL
  <2> QED BY <1>2, <1>3, <1>4, <2>1, NothingWritten
<1> QED BY <1>2, <1>3, <1>4, <1>5 DEF Cache!File!vars

(* A seek leaves both caches empty.                                         *)
LEMMA CacheSeeks ==
  ASSUME CacheInv, NEW distance \in Cache!Distances, NEW method \in Cache!Methods,
         Cache!seek(distance, method)
  PROVE  CacheInv' /\ Cache!File!Seek
<1>1. PICK w, s : /\ w = Cache!AfterWrite(down, lazyWrite, FALSE)
                  /\ s = Cache!AfterSeek(w, distance, method)
  OBVIOUS
<1>2. /\ method = "IO_SEEK_CUR" => readAhead = <<>>
      /\ Cache!CanSeek(distance, method)
      /\ down' = s /\ readAhead' = <<>> /\ lazyWrite' = <<>> /\ result' = result
  BY <1>1 DEF Cache!seek, Cache!Flushed
<1>3. InFile(w)
  BY <1>1, Overwritten DEF CacheInv, Over
<1>4. distance \in Int /\ method \in {"IO_SEEK_SET", "IO_SEEK_CUR", "IO_SEEK_END"}
  BY CacheAssumption DEF Cache!Distances, Cache!Methods
<1>5. InFile(s)
  <2>1. PICK n, d : n = Len(w.data) /\ d = w.data
    OBVIOUS
  <2>2. n \in Nat /\ w.at \in 0 .. n /\ d \in Seq(Byte)
    BY <1>3, <2>1, LenProperties DEF InFile
  <2>3. PICK base \in Int : s = [w EXCEPT !.at = Cache!Clamped(base + distance, n)]
    <3>1. CASE method = "IO_SEEK_SET"
      <4>1. s = [w EXCEPT !.at = Cache!Clamped(0 + distance, n)]
        BY <1>1, <2>1, <3>1 DEF Cache!AfterSeek
      <4>2. 0 \in Int
        BY <2>2
      <4> QED BY <4>1, <4>2
    <3>2. CASE method = "IO_SEEK_CUR"
      <4>1. s = [w EXCEPT !.at = Cache!Clamped(w.at + distance, n)]
        BY <1>1, <2>1, <3>2 DEF Cache!AfterSeek
      <4>2. w.at \in Int
        BY <2>2
      <4> QED BY <4>1, <4>2
    <3>3. CASE method = "IO_SEEK_END"
      <4>1. s = [w EXCEPT !.at = Cache!Clamped(n + distance, n)]
        BY <1>1, <2>1, <3>3 DEF Cache!AfterSeek
      <4>2. n \in Int
        BY <2>2
      <4> QED BY <4>1, <4>2
    <3> QED BY <1>4, <3>1, <3>2, <3>3
  <2>4. PICK c : c = Cache!Clamped(base + distance, n)
    OBVIOUS
  <2>5. c \in 0 .. n
    BY <1>4, <2>2, <2>4 DEF Cache!Clamped, Cache!Least
  <2>6. w = [data |-> d, at |-> w.at]
    BY <1>3, <2>1 DEF InFile
  <2>7. s = [data |-> d, at |-> c]
    BY <2>3, <2>4, <2>6
  <2> QED BY <2>1, <2>2, <2>5, <2>7 DEF InFile
<1>6. CacheInv'
  BY <1>2, <1>5, Emptied DEF CacheInv
<1>7. Cache!Seen' = s
  <2>1. (CacheInv /\ readAhead = <<>> =>
           Cache!Seen = Cache!AfterWrite(down, lazyWrite, FALSE))'
    BY SeenWriting, PTL
  <2> QED BY <1>2, <1>5, <1>6, <2>1, NothingWritten
<1>8. Cache!AfterSeek(Cache!Seen, distance, method) = s
  <2>1. CASE readAhead = <<>>
    BY <1>1, <2>1, SeenWriting
  <2>2. CASE readAhead # <<>>
    <3>1. lazyWrite = <<>>
      BY <2>2 DEF CacheInv
    <3>2. w = down
      BY <1>1, <3>1, NothingWritten DEF CacheInv
    <3>3. PICK v : v = Cache!Seen
      OBVIOUS
    <3>4. v = [data |-> w.data, at |-> w.at - Len(readAhead)]
      BY <3>1, <3>2, <3>3, SeenReading
    <3>5. w = [data |-> w.data, at |-> w.at]
      BY <1>3 DEF InFile
    <3>6. v.data = w.data /\ \A c : [v EXCEPT !.at = c] = [w EXCEPT !.at = c]
      BY <3>4, <3>5
    <3>7. CASE method = "IO_SEEK_SET"
      BY <1>1, <3>3, <3>6, <3>7 DEF Cache!AfterSeek
    <3>8. CASE method = "IO_SEEK_END"
      BY <1>1, <3>3, <3>6, <3>8 DEF Cache!AfterSeek
    <3> QED BY <1>2, <1>4, <2>2, <3>7, <3>8
  <2> QED BY <2>1, <2>2
<1>9. Cache!File!Seek
  BY <1>2, <1>7, <1>8, SameSeeks DEF Cache!File!Seek
<1> QED BY <1>6, <1>9
LEMMA CacheSteps ==
  ASSUME CacheInv, [Cache!Next]_(Cache!vars)
  PROVE  CacheInv' /\ [Cache!File!Next]_(Cache!File!vars)
<1>1. ASSUME NEW length \in 1 .. MaxChunk, Cache!read(length)
      PROVE  CacheInv' /\ Cache!File!Next
  BY <1>1, CacheReads DEF Cache!File!Next
<1>2. ASSUME NEW bytes \in Cache!Chunk, Cache!write(bytes)
      PROVE  CacheInv' /\ Cache!File!Next
  BY <1>2, CacheWrites DEF Cache!File!Next
<1>3. ASSUME Cache!flush
      PROVE  CacheInv' /\ UNCHANGED Cache!File!vars
  BY <1>3, CacheFlushes
<1>4. ASSUME NEW distance \in Cache!Distances, NEW method \in Cache!Methods,
             Cache!seek(distance, method)
      PROVE  CacheInv' /\ Cache!File!Next
  BY <1>4, CacheSeeks DEF Cache!File!Next
<1>5. ASSUME UNCHANGED Cache!vars
      PROVE  CacheInv' /\ UNCHANGED Cache!File!vars
  <2>1. /\ down' = down /\ readAhead' = readAhead /\ lazyWrite' = lazyWrite
        /\ result' = result
    BY <1>5 DEF Cache!vars
  <2>2. Cache!Seen' = Cache!Seen
    BY <2>1 DEF Cache!Seen, Cache!AfterWrite, Cache!Accepted, Cache!Least
  <2> QED BY <2>1, <2>2 DEF CacheInv, InFile, Cache!File!vars
<1> QED BY <1>1, <1>2, <1>3, <1>4, <1>5 DEF Cache!Next

LEMMA CacheStarts ==
  ASSUME Cache!Init
  PROVE  CacheInv /\ Cache!File!Init
<1>1. /\ down = [data |-> <<>>, at |-> 0] /\ readAhead = <<>> /\ lazyWrite = <<>> /\ result = <<>>
  BY DEF Cache!Init, Cache!EmptyStream
<1>2. InFile(down)
  BY <1>1, EmptySeq DEF InFile
<1>3. CacheInv
  BY <1>1, <1>2, Emptied DEF CacheInv
<1>4. Cache!Seen = down
  BY <1>1, <1>2, <1>3, SeenWriting, NothingWritten
<1> QED BY <1>1, <1>3, <1>4 DEF Cache!File!Init, Cache!File!EmptyStream

LEMMA CacheAlone ==
  ASSUME [Next]_vars PROVE [Cache!Next]_(Cache!vars)
BY DEF Next, vars, CacheMoves, BitsMove, RleMoves, LzwMoves, PipeMoves, OthersRest,
       SocketMoves, SocketRest, FileMoves, FileRest, MemoryMoves, RecordsMove, CiphersMove,
       filterVars, cacheVars, Cache!vars

(* To a careful client the cached stream is the file it caches, for every   *)
(* size of the two caches, of the stream and of a call: reads give its      *)
(* bytes in order and writes land where they should.                        *)
THEOREM CacheIsItsFile == Spec => CacheIsFile
<1>1. Init => CacheInv /\ Cache!File!Init
  BY CacheStarts DEF Init
<1>2. CacheInv /\ [Next]_vars => CacheInv' /\ [Cache!File!Next]_(Cache!File!vars)
  BY CacheSteps, CacheAlone
<1> QED BY <1>1, <1>2, PTL DEF Spec, CacheIsFile, Cache!CacheIsFile, Cache!File!Spec

LEMMA CacheTypes ==
  ASSUME CacheInv PROVE Cache!TypeOK
BY DEF CacheInv, InFile, Cache!TypeOK

-----------------------------------------------------------------------------
(* The sockets.  What an end has taken and what waits for it is what the    *)
(* other has sent, from the time of the connection to its end; a socket in  *)
(* a call is connected, or is not made; and the pointer of a call is behind *)
(* what has been moved, but where the connection is broken already.         *)
Calling == {"read", "pipeRead", "write", "pipeWrite"}

SocketTypes ==
  /\ m_isInit \in [Socket!End -> BOOLEAN] /\ m_isClosed = [e \in Socket!End |-> FALSE]
  /\ connection \in [Socket!End -> {"none", "waiting", "open", "closed"}]
  /\ broken \in [Socket!End -> {"no", "yes", "told"}]
  /\ queue \in [Socket!End -> Seq(Nat)]
  /\ socketSent \in [Socket!End -> Seq(Nat)] /\ socketReceived \in [Socket!End -> Seq(Nat)]
  /\ socketAt \in [Socket!End -> Calling \cup {"idle", "accept", "killed"}]
  /\ left \in [Socket!End -> Nat] /\ array \in [Socket!End -> Nat]
  /\ threw \in [Socket!End -> BOOLEAN]

SocketInv ==
  /\ SocketTypes
  /\ connection["client"] # "waiting"
  /\ m_isInit["server"] => connection["server"] = "open"
  /\ \A e \in Socket!End :
       /\ m_isInit[e] /\ socketAt[e] \in Calling => connection[e] = "open"
       /\ connection[e] \in {"open", "waiting"} =>
            socketReceived[e] \o queue[e] = socketSent[Socket!Peer(e)]

InPlace(e) ==
  /\ socketSent[e] = [i \in DOMAIN socketSent[e] |-> i]
  /\ m_isInit[e] /\ socketAt[e] \in {"read", "pipeRead"} => array[e] = Len(socketReceived[e])
  /\ m_isInit[e] /\ socketAt[e] \in {"write", "pipeWrite"} /\ broken[e] = "no"
       => array[e] = Len(socketSent[e])
PlaceInv == \A e \in Socket!End : InPlace(e)

LEMMA Ends ==
  /\ Socket!End = {"client", "server"}
  /\ Socket!Peer("client") = "server" /\ Socket!Peer("server") = "client"
  /\ \A e \in Socket!End : Socket!Peer(e) \in Socket!End /\ Socket!Peer(Socket!Peer(e)) = e
                           /\ Socket!Peer(e) # e
BY DEF Socket!End, Socket!Peer

(* What a step does to a pipeRead of an end.                                *)
Wholly(e) ==
  socketAt[e] = "pipeRead" /\ socketAt'[e] = "idle"
    => Len(socketReceived'[e]) = Len(socketReceived[e]) + left[e] \/ threw'[e]
WordKept == \A e \in Socket!End : Wholly(e)

LEMMA SocketRefuses ==
  ASSUME SocketInv, NEW e \in Socket!End, Socket!Refused(e)
  PROVE  SocketInv' /\ WordKept
BY DEF SocketInv, SocketTypes, Calling, Socket!Refused, Socket!Ended, WordKept, Wholly, Socket!Reading, Socket!Writing, Socket!Bytes, Socket!Call, Socket!way, Socket!Peer, Socket!End, Socket!INFINITIE_TIMEOUT

LEMMA SocketTimesOut ==
  ASSUME SocketInv, NEW e \in Socket!End, Socket!TimedOut(e)
  PROVE  SocketInv' /\ WordKept
BY DEF SocketInv, SocketTypes, Calling, Socket!TimedOut, Socket!Ended, WordKept, Wholly, Socket!Reading, Socket!Writing, Socket!Bytes, Socket!Call, Socket!way, Socket!Peer, Socket!End, Socket!INFINITIE_TIMEOUT

LEMMA SocketWaits ==
  ASSUME SocketInv,
         \E e \in Socket!End : \/ Socket!Wait(e)
                              \/ \E k \in {"read", "write"}, t \in Socket!Timeouts : Socket!setTimeout(e, k, t)
  PROVE  SocketInv' /\ WordKept
<1>1. UNCHANGED <<m_isInit, m_isClosed, connection, broken, queue, socketSent, socketReceived,
                  socketAt, left, array, threw>>
  BY DEF Socket!Wait, Socket!setTimeout, Socket!Bytes, Socket!Call
<1> QED BY <1>1 DEF SocketInv, SocketTypes, WordKept, Wholly

LEMMA SocketCalls ==
  ASSUME SocketInv, NEW e \in Socket!End, NEW call \in Calling, NEW length \in Lengths,
         Socket!Calls(e, call, length)
  PROVE  SocketInv' /\ WordKept
<1>1. length \in Nat
  BY SocketAssumption
<1>2. SocketInv'
  BY <1>1 DEF SocketInv, SocketTypes, Calling, Socket!Calls, Socket!Fresh, Socket!Bytes, Socket!Call,
     Socket!Peer, Socket!End
<1>3. ASSUME NEW f \in Socket!End PROVE Wholly(f)
  BY DEF Wholly, SocketInv, SocketTypes, Calling, Socket!Calls, Socket!Fresh,
     Socket!Bytes, Socket!Call, Socket!Peer, Socket!INFINITIE_TIMEOUT
<1> QED BY <1>2, <1>3 DEF WordKept

LEMMA SocketListens ==
  ASSUME SocketInv, Socket!Listen
  PROVE  SocketInv' /\ WordKept
BY DEF SocketInv, SocketTypes, Socket!Listen, WordKept, Wholly,
   Socket!Bytes, Socket!Call, Socket!Peer, Socket!INFINITIE_TIMEOUT

(* An end that is shut down.                                                *)
LEMMA HungUp ==
  ASSUME SocketTypes, NEW e \in Socket!End, Socket!HangUp(e)
  PROVE  /\ connection' \in [Socket!End -> {"none", "waiting", "open", "closed"}]
         /\ broken' \in [Socket!End -> {"no", "yes", "told"}]
         /\ queue' \in [Socket!End -> Seq(Nat)]
<1>1. connection' \in [Socket!End -> {"none", "waiting", "open", "closed"}]
  BY DEF SocketTypes, Socket!HangUp
<1>2. broken' \in [Socket!End -> {"no", "yes", "told"}]
  BY DEF SocketTypes, Socket!HangUp
<1>3. <<>> \in Seq(Nat)
  BY EmptySeq
<1>4. queue' \in [Socket!End -> Seq(Nat)]
  BY <1>3 DEF SocketTypes, Socket!HangUp
<1> QED BY <1>1, <1>2, <1>4

LEMMA SocketCloses ==
  ASSUME SocketInv, NEW e \in Socket!End, Socket!create(e) \/ Socket!close(e)
  PROVE  SocketInv' /\ WordKept
<1>1. UNCHANGED <<m_isClosed, socketSent, socketReceived, socketAt, left, array, threw>>
  BY DEF Socket!create, Socket!close, Socket!Bytes, Socket!Call
<1>2. /\ socketAt[e] = "idle" /\ Socket!HangUp(e)
      /\ (e = "client" /\ m_isInit' = [m_isInit EXCEPT ![e] = TRUE])
           \/ (m_isInit[e] /\ m_isInit' = [m_isInit EXCEPT ![e] = FALSE])
  BY DEF Socket!create, Socket!close
<1>3. SocketTypes'
  BY <1>1, <1>2, HungUp DEF SocketInv, SocketTypes
<1>4. SocketInv'
  <2>1. connection'["client"] # "waiting" /\ (m_isInit'["server"] => connection'["server"] = "open")
    BY <1>2 DEF SocketInv, SocketTypes, Socket!HangUp, Socket!End
  <2>2. ASSUME NEW f \in Socket!End
        PROVE  m_isInit'[f] /\ socketAt'[f] \in Calling => connection'[f] = "open"
    BY <1>1, <1>2 DEF SocketInv, SocketTypes, Calling, Socket!HangUp, Socket!End
  <2>3. ASSUME NEW f \in Socket!End, connection'[f] \in {"open", "waiting"}
        PROVE  socketReceived'[f] \o queue'[f] = socketSent'[Socket!Peer(f)]
    BY <1>1, <1>2, <2>3 DEF SocketInv, SocketTypes, Socket!HangUp, Socket!End
  <2> QED BY <1>3, <2>1, <2>2, <2>3 DEF SocketInv
<1>5. ASSUME NEW f \in Socket!End PROVE Wholly(f)
  BY <1>1, <1>2 DEF Wholly, SocketInv, SocketTypes, Socket!HangUp, Socket!Peer, Socket!End,
    Socket!INFINITIE_TIMEOUT
<1> QED BY <1>4, <1>5 DEF WordKept

LEMMA SocketAccepts ==
  ASSUME SocketInv, Socket!accept
  PROVE  SocketInv' /\ WordKept
<1>1. UNCHANGED <<m_isClosed, socketSent, socketReceived, left, array, threw>>
  BY DEF Socket!accept, Socket!Bytes, Socket!Call
<1>2. /\ socketAt["server"] = "idle" /\ socketAt' = [socketAt EXCEPT !["server"] = "accept"]
      /\ IF m_isInit["server"] THEN Socket!HangUp("server") ELSE UNCHANGED <<connection, queue, broken>>
      /\ m_isInit' = [m_isInit EXCEPT !["server"] = FALSE]
  BY DEF Socket!accept
<1>3. SocketTypes'
  <2>1. /\ connection' \in [Socket!End -> {"none", "waiting", "open", "closed"}]
        /\ broken' \in [Socket!End -> {"no", "yes", "told"}]
        /\ queue' \in [Socket!End -> Seq(Nat)]
    <3>1. CASE m_isInit["server"]
      BY <1>2, <3>1, HungUp, Ends DEF SocketInv
    <3>2. CASE ~m_isInit["server"]
      BY <1>2, <3>2 DEF SocketInv, SocketTypes
    <3> QED BY <3>1, <3>2
  <2>2. m_isInit' \in [Socket!End -> BOOLEAN] /\ socketAt' \in [Socket!End -> Calling \cup {"idle", "accept", "killed"}]
    BY <1>2 DEF SocketInv, SocketTypes
  <2> QED BY <1>1, <2>1, <2>2 DEF SocketInv, SocketTypes
<1>4. SocketInv'
  <2>1. /\ ~m_isInit'["server"] /\ m_isInit'["client"] = m_isInit["client"]
        /\ socketAt'["client"] = socketAt["client"]
    BY <1>2, Ends DEF SocketInv, SocketTypes
  <2>2. /\ connection'["client"] = connection["client"] /\ queue'["client"] = queue["client"]
        /\ connection'["server"] \in {"open", "waiting"} =>
             connection'["server"] = connection["server"] /\ queue'["server"] = queue["server"]
    <3>1. CASE m_isInit["server"]
      <4>1. /\ connection["server"] = "open"
            /\ connection \in [Socket!End -> {"none", "waiting", "open", "closed"}]
            /\ queue \in [Socket!End -> Seq(Nat)]
        BY <3>1 DEF SocketInv, SocketTypes
      <4>2. /\ connection' = [connection EXCEPT !["server"] = "closed"]
            /\ queue' = [queue EXCEPT !["server"] = <<>>]
        BY <1>2, <3>1, <4>1 DEF Socket!HangUp
      <4>3. connection'["server"] = "closed" /\ connection'["client"] = connection["client"]
        BY <4>1, <4>2, Ends
      <4>4. queue'["client"] = queue["client"]
        BY <4>1, <4>2, Ends
      <4> QED BY <4>3, <4>4
    <3>2. CASE ~m_isInit["server"]
      BY <1>2, <3>2
    <3> QED BY <3>1, <3>2
  <2>3. ASSUME NEW e \in Socket!End, connection'[e] \in {"open", "waiting"}
        PROVE  socketReceived[e] \o queue'[e] = socketSent[Socket!Peer(e)]
    <3>1. connection'[e] = connection[e] /\ queue'[e] = queue[e]
      BY <2>2, <2>3, Ends
    <3> QED BY <2>3, <3>1 DEF SocketInv
  <2>4. \A e \in Socket!End : m_isInit'[e] /\ socketAt'[e] \in Calling => connection'[e] = "open"
    BY <2>1, <2>2, Ends DEF SocketInv
  <2>5. connection'["client"] # "waiting" /\ ~m_isInit'["server"]
    BY <2>1, <2>2 DEF SocketInv
  <2> QED BY <1>1, <1>3, <2>3, <2>4, <2>5 DEF SocketInv
<1>5. ASSUME NEW f \in Socket!End PROVE Wholly(f)
  BY <1>1, <1>2 DEF Wholly, SocketInv, SocketTypes, Socket!HangUp, Socket!Peer, Socket!End,
    Socket!INFINITIE_TIMEOUT
<1> QED BY <1>4, <1>5 DEF WordKept

LEMMA SocketAccepted ==
  ASSUME SocketInv, Socket!Accepted
  PROVE  SocketInv' /\ WordKept
<1>1. SocketInv'
  BY DEF SocketInv, SocketTypes, Calling, Socket!Accepted, Socket!Ended, Socket!Bytes, Socket!Call, Socket!Peer, Socket!End
<1>2. ASSUME NEW f \in Socket!End PROVE Wholly(f)
  BY DEF Wholly, SocketInv, SocketTypes, Socket!Accepted, Socket!Ended,
    Socket!Bytes, Socket!Call, Socket!Peer, Socket!End, Socket!INFINITIE_TIMEOUT
<1> QED BY <1>1, <1>2 DEF WordKept

LEMMA SocketConnects ==
  ASSUME SocketInv, Socket!connect
  PROVE  SocketInv' /\ WordKept
<1>1. UNCHANGED <<m_isInit, m_isClosed, socketAt, left, array>>
  BY DEF Socket!connect, Socket!Call
<1>2. /\ socketAt["client"] = "idle" /\ connection["client"] # "open" /\ connection["server"] # "open"
      /\ \/ /\ connection' = [e \in Socket!End |-> IF e = "client" THEN "open" ELSE "waiting"]
            /\ broken' = [e \in Socket!End |-> "no"] /\ queue' = [e \in Socket!End |-> <<>>]
            /\ socketSent' = [e \in Socket!End |-> <<>>] /\ socketReceived' = [e \in Socket!End |-> <<>>]
            /\ threw' = [threw EXCEPT !["client"] = FALSE]
         \/ /\ threw' = [threw EXCEPT !["client"] = TRUE]
            /\ UNCHANGED <<connection, broken, queue, socketSent, socketReceived>>
  BY DEF Socket!connect, Socket!Fresh, Socket!Bytes, Socket!Call, Socket!Both
<1>3. connection' \in [Socket!End -> {"none", "waiting", "open", "closed"}]
  <2>1. [e \in Socket!End |-> IF e = "client" THEN "open" ELSE "waiting"]
          \in [Socket!End -> {"none", "waiting", "open", "closed"}]
    OBVIOUS
  <2>2. connection \in [Socket!End -> {"none", "waiting", "open", "closed"}]
    BY DEF SocketInv, SocketTypes
  <2> QED BY <1>2, <2>1, <2>2
<1>4. SocketTypes'
  <2>1. <<>> \in Seq(Nat)
    BY EmptySeq
  <2>2. /\ [e \in Socket!End |-> "no"] \in [Socket!End -> {"no", "yes", "told"}]
        /\ [e \in Socket!End |-> <<>>] \in [Socket!End -> Seq(Nat)]
        /\ \A b \in BOOLEAN : [threw EXCEPT !["client"] = b] \in [Socket!End -> BOOLEAN]
    BY <2>1 DEF SocketInv, SocketTypes
  <2>3. /\ queue' \in [Socket!End -> Seq(Nat)] /\ broken' \in [Socket!End -> {"no", "yes", "told"}]
        /\ socketSent' \in [Socket!End -> Seq(Nat)] /\ socketReceived' \in [Socket!End -> Seq(Nat)]
        /\ threw' \in [Socket!End -> BOOLEAN]
    <3>1. CASE UNCHANGED <<connection, broken, queue, socketSent, socketReceived>>
               /\ threw' = [threw EXCEPT !["client"] = TRUE]
      BY <2>2, <3>1 DEF SocketInv, SocketTypes
    <3>2. CASE /\ broken' = [e \in Socket!End |-> "no"] /\ queue' = [e \in Socket!End |-> <<>>]
               /\ socketSent' = [e \in Socket!End |-> <<>>] /\ socketReceived' = [e \in Socket!End |-> <<>>]
               /\ threw' = [threw EXCEPT !["client"] = FALSE]
      BY <2>2, <3>2
    <3> QED BY <1>2, <3>1, <3>2
  <2> QED BY <1>1, <1>3, <2>3 DEF SocketInv, SocketTypes
<1>5. SocketInv'
  <2>1. <<>> \o <<>> = <<>>
    BY EmptySeq, ConcatEmptySeq
  <2>2. \A e \in Socket!End : connection'[e] \in {"open", "waiting"} =>
          socketReceived'[e] \o queue'[e] = socketSent'[Socket!Peer(e)]
    <3>1. CASE UNCHANGED <<connection, queue, socketSent, socketReceived>>
      BY <3>1 DEF SocketInv
    <3>2. CASE /\ queue' = [e \in Socket!End |-> <<>>] /\ socketSent' = [e \in Socket!End |-> <<>>]
               /\ socketReceived' = [e \in Socket!End |-> <<>>]
      BY <2>1, <3>2, Ends
    <3> QED BY <1>2, <3>1, <3>2
  <2>3. connection'["client"] # "waiting" /\ ~m_isInit["server"]
    BY <1>2, Ends DEF SocketInv
  <2>4. \A e \in Socket!End : m_isInit[e] /\ socketAt[e] \in Calling => connection'[e] = "open"
    BY <1>2, <2>3, Ends DEF SocketInv
  <2> QED BY <1>1, <1>4, <2>2, <2>3, <2>4 DEF SocketInv
<1>6. ASSUME NEW f \in Socket!End PROVE Wholly(f)
  BY <1>1, <1>2 DEF Wholly, SocketInv, SocketTypes, Socket!Peer, Socket!End,
    Socket!INFINITIE_TIMEOUT
<1> QED BY <1>5, <1>6 DEF WordKept
LEMMA SocketResets ==
  ASSUME SocketInv, NEW e \in Socket!End, Socket!Reset(e)
  PROVE  SocketInv' /\ WordKept
<1>1. SocketInv'
  BY DEF SocketInv, SocketTypes, Calling, Socket!Reset, Socket!Ended, Socket!Bytes, Socket!Call, Socket!Peer, Socket!End
<1>2. ASSUME NEW f \in Socket!End PROVE Wholly(f)
  BY DEF Wholly, SocketInv, SocketTypes, Socket!Reset, Socket!Ended,
    Socket!Bytes, Socket!Call, Socket!Peer, Socket!End, Socket!Reading, Socket!Writing, Socket!INFINITIE_TIMEOUT
<1> QED BY <1>1, <1>2 DEF WordKept

LEMMA SocketKilled ==
  ASSUME SocketInv, NEW e \in Socket!End, Socket!Killed(e)
  PROVE  SocketInv' /\ WordKept
<1>1. UNCHANGED <<m_isClosed, socketSent, socketReceived, left, array, threw>>
  BY DEF Socket!Killed, Socket!Bytes, Socket!Call
<1>2. /\ socketAt[e] \in {"write", "pipeWrite"} /\ m_isInit[e] /\ Socket!HangUp(e)
      /\ socketAt' = [socketAt EXCEPT ![e] = "killed"]
      /\ m_isInit' = [m_isInit EXCEPT ![e] = FALSE]
  BY DEF Socket!Killed, Socket!Writing, Socket!Selected
<1>3. SocketTypes'
  BY <1>1, <1>2, HungUp DEF SocketInv, SocketTypes
<1>4. SocketInv'
  BY <1>1, <1>2, <1>3 DEF SocketInv, SocketTypes, Calling, Socket!HangUp, Socket!Peer, Socket!End
<1>5. ASSUME NEW f \in Socket!End PROVE Wholly(f)
  BY <1>1, <1>2 DEF Wholly, SocketInv, SocketTypes, Socket!HangUp, Socket!Peer, Socket!End,
    Socket!INFINITIE_TIMEOUT
<1> QED BY <1>4, <1>5 DEF WordKept

(* What the calls of an end and its progress are after k bytes.             *)
LEMMA Turned ==
  ASSUME SocketTypes, NEW e \in Socket!End, NEW k \in Nat, k <= left[e], m_isInit[e],
         socketAt[e] \in Calling, Socket!Turn(e, k)
  PROVE  /\ socketAt' \in [Socket!End -> Calling \cup {"idle", "accept", "killed"}]
         /\ left' \in [Socket!End -> Nat] /\ array' \in [Socket!End -> Nat]
         /\ threw' \in [Socket!End -> BOOLEAN]
         /\ \A f \in Socket!End \ {e} : UNCHANGED <<socketAt[f], left[f], array[f], threw[f]>>
         /\ socketAt[e] = "pipeRead" /\ k # left[e] =>
              socketAt'[e] = "pipeRead" /\ left'[e] = left[e] - k
         /\ socketAt'[e] \in Calling => socketAt'[e] = socketAt[e] /\ array'[e] = array[e] + k
<1>1. ~Socket!isEOS(e)
  BY DEF SocketTypes, Socket!isEOS
<1>2. CASE Socket!Ended(e, FALSE) /\ (k = left[e] \/ socketAt[e] \in {"read", "write"})
  BY <1>2 DEF SocketTypes, Socket!Ended, Calling
<1>3. CASE /\ left' = [left EXCEPT ![e] = @ - k] /\ array' = [array EXCEPT ![e] = @ + k]
           /\ UNCHANGED <<socketAt, threw>>
           /\ ~(socketAt[e] \in {"read", "write"} \/ k = left[e])
  <2>1. left[e] - k \in Nat
    BY DEF SocketTypes
  <2>2. left' \in [Socket!End -> Nat] /\ left'[e] = left[e] - k
        /\ \A f \in Socket!End \ {e} : left'[f] = left[f]
    BY <1>3, <2>1 DEF SocketTypes
  <2>3. array' \in [Socket!End -> Nat] /\ array'[e] = array[e] + k
        /\ \A f \in Socket!End \ {e} : array'[f] = array[f]
    BY <1>3 DEF SocketTypes
  <2> QED BY <1>3, <2>2, <2>3 DEF SocketTypes
<1> QED BY <1>1, <1>2, <1>3 DEF Socket!Turn, Socket!Advanced

LEMMA Associative ==
  ASSUME NEW s \in Seq(Nat), NEW t \in Seq(Nat), NEW u \in Seq(Nat)
  PROVE  (s \o t) \o u = s \o (t \o u)
BY ConcatAssociative, SMTT(60)

LEMMA Cut ==
  ASSUME NEW s \in Seq(Nat), NEW k \in 0 .. Len(s)
  PROVE  /\ SubSeq(s, 1, k) \in Seq(Nat) /\ Len(SubSeq(s, 1, k)) = k
         /\ SubSeq(s, k + 1, Len(s)) \in Seq(Nat) /\ Len(SubSeq(s, k + 1, Len(s))) = Len(s) - k
         /\ SubSeq(s, 1, k) \o SubSeq(s, k + 1, Len(s)) = s
<1>1. PICK a, m, b : a = SubSeq(s, 1, k) /\ m = k + 1 /\ b = SubSeq(s, m, Len(s))
  OBVIOUS
<1>2. Len(s) \in Nat /\ m \in Nat \ {0}
  BY <1>1, LenProperties
<1>3. /\ a \in Seq(Nat) /\ Len(a) = IF 1 <= k THEN k - 1 + 1 ELSE 0
      /\ \A i \in 1 .. k - 1 + 1 : a[i] = s[1 + i - 1]
  BY <1>1, <1>2, Piece
<1>4. /\ b \in Seq(Nat) /\ Len(b) = IF m <= Len(s) THEN Len(s) - m + 1 ELSE 0
      /\ \A i \in 1 .. Len(s) - m + 1 : b[i] = s[m + i - 1]
  BY <1>1, <1>2, Piece
<1>5. Len(a) = k /\ Len(b) = Len(s) - k
  BY <1>1, <1>2, <1>3, <1>4
<1>6. PICK c : c = a \o b
  OBVIOUS
<1>7. /\ c \in Seq(Nat) /\ Len(c) = Len(a) + Len(b)
      /\ \A i \in 1 .. Len(a) + Len(b) : c[i] = IF i <= Len(a) THEN a[i] ELSE b[i - Len(a)]
  BY <1>3, <1>4, <1>6, ConcatProperties
<1>8. Len(c) = Len(s)
  BY <1>2, <1>5, <1>7
<1>9. ASSUME NEW i \in 1 .. Len(c) PROVE c[i] = s[i]
  <2>1. i \in 1 .. Len(a) + Len(b) /\ i \in Int
    BY <1>2, <1>7, <1>8
  <2>2. CASE i <= k
    <3>1. i \in 1 .. k - 1 + 1 /\ 1 + i - 1 = i
      BY <1>2, <2>1, <2>2
    <3> QED BY <1>3, <1>5, <1>7, <2>1, <2>2, <3>1
  <2>3. CASE ~(i <= k)
    <3>1. i - k \in 1 .. Len(s) - m + 1 /\ m + (i - k) - 1 = i
      BY <1>1, <1>2, <1>8, <2>1, <2>3
    <3> QED BY <1>4, <1>5, <1>7, <2>1, <2>3, <3>1
  <2> QED BY <2>2, <2>3
<1>10. c = s
  BY <1>7, <1>8, <1>9, SeqEqual
<1> QED BY <1>1, <1>3, <1>4, <1>5, <1>6, <1>10

LEMMA All ==
  ASSUME NEW s \in Seq(Nat) PROVE SubSeq(s, 1, Len(s)) = s
<1>1. PICK a : a = SubSeq(s, 1, Len(s))
  OBVIOUS
<1>2. Len(s) \in Nat /\ Len(s) \in 0 .. Len(s)
  BY LenProperties
<1>3. a \in Seq(Nat) /\ Len(a) = Len(s)
  BY <1>1, <1>2, Cut
<1>4. \A i \in 1 .. Len(s) - 1 + 1 : a[i] = s[1 + i - 1]
  BY <1>1, <1>2, Piece
<1>5. \A i \in 1 .. Len(s) : a[i] = s[i]
  BY <1>2, <1>4
<1> QED BY <1>1, <1>3, <1>5, SeqEqual

(* recv of k bytes.                                                         *)
LEMMA SocketReceives ==
  ASSUME SocketInv, PlaceInv, NEW e \in Socket!End, NEW k \in 0 .. SocketRoom, Socket!Receive(e, k)
  PROVE  SocketInv' /\ PlaceInv' /\ WordKept
<1>1. UNCHANGED <<m_isInit, m_isClosed, connection, broken, socketSent>>
  BY DEF Socket!Receive
<1>2. PICK q, r : q = queue[e] /\ r = socketReceived[e]
  OBVIOUS
<1>3. q \in Seq(Nat) /\ r \in Seq(Nat) /\ Len(q) \in Nat /\ Len(r) \in Nat /\ left[e] \in Nat /\ k \in Nat
  BY <1>2, SocketAssumption, LenProperties DEF SocketInv, SocketTypes
<1>4. k <= left[e] /\ k <= Len(q)
  <2>1. k <= IF left[e] < Len(q) THEN left[e] ELSE Len(q)
    BY <1>2 DEF Socket!Receive, Socket!Least
  <2> QED BY <1>3, <2>1
<1>5. PICK a, b : a = SubSeq(q, 1, k) /\ b = SubSeq(q, k + 1, Len(q))
  OBVIOUS
<1>6. a \in Seq(Nat) /\ Len(a) = k /\ b \in Seq(Nat) /\ Len(b) = Len(q) - k /\ a \o b = q
  <2>1. k \in 0 .. Len(q)
    BY <1>3, <1>4
  <2> QED BY <1>3, <1>5, <2>1, Cut
<1>7. /\ socketReceived' = [socketReceived EXCEPT ![e] = r \o a]
      /\ queue' = [queue EXCEPT ![e] = b]
  <2>1. m_isInit[e] /\ socketAt[e] \in {"read", "pipeRead"}
    BY DEF Socket!Receive, Socket!Selected, Socket!Reading
  <2>2. array[e] = Len(r)
    BY <1>2, <2>1 DEF PlaceInv, InPlace
  <2>3. SubSeq(r, 1, Len(r)) = r
    BY <1>3, All
  <2>4. /\ socketReceived' = [socketReceived EXCEPT ![e] = SubSeq(r, 1, array[e]) \o a]
        /\ queue' = [queue EXCEPT ![e] = b]
    BY <1>2, <1>5 DEF Socket!Receive
  <2> QED BY <2>2, <2>3, <2>4
<1>8. r \o a \in Seq(Nat) /\ Len(r \o a) = Len(r) + k /\ (r \o a) \o b = r \o q
  <2>1. r \o a \in Seq(Nat) /\ Len(r \o a) = Len(r) + Len(a)
    BY <1>3, <1>6, ConcatProperties
  <2>2. (r \o a) \o b = r \o (a \o b)
    BY <1>3, <1>6, Associative
  <2> QED BY <1>6, <2>1, <2>2
<1>9. /\ socketReceived' \in [Socket!End -> Seq(Nat)] /\ queue' \in [Socket!End -> Seq(Nat)]
      /\ socketReceived'[e] = r \o a /\ queue'[e] = b
      /\ \A f \in Socket!End \ {e} : socketReceived'[f] = socketReceived[f] /\ queue'[f] = queue[f]
  BY <1>6, <1>7, <1>8 DEF SocketInv, SocketTypes
<1>10. m_isInit[e] /\ socketAt[e] \in {"read", "pipeRead"}
  BY DEF Socket!Receive, Socket!Selected, Socket!Reading
<1>11. /\ socketAt' \in [Socket!End -> Calling \cup {"idle", "accept", "killed"}]
       /\ left' \in [Socket!End -> Nat] /\ array' \in [Socket!End -> Nat]
       /\ threw' \in [Socket!End -> BOOLEAN]
       /\ \A f \in Socket!End \ {e} : UNCHANGED <<socketAt[f], left[f], array[f], threw[f]>>
       /\ socketAt[e] = "pipeRead" /\ k # left[e] =>
            socketAt'[e] = "pipeRead" /\ left'[e] = left[e] - k
       /\ socketAt'[e] \in Calling => socketAt'[e] = socketAt[e] /\ array'[e] = array[e] + k
  <2>1. Socket!Turn(e, k) /\ socketAt[e] \in Calling
    BY <1>10 DEF Socket!Receive, Calling
  <2> QED BY <1>3, <1>4, <1>10, <2>1, Turned DEF SocketInv
<1>12. SocketTypes'
  BY <1>1, <1>9, <1>11 DEF SocketInv, SocketTypes
<1>13. \A f \in Socket!End : socketReceived'[f] \o queue'[f] = socketReceived[f] \o queue[f]
  BY <1>2, <1>8, <1>9
<1>14. \A f \in Socket!End : socketAt'[f] \in Calling => socketAt'[f] = socketAt[f]
  BY <1>11
<1>15. SocketInv'
  BY <1>1, <1>12, <1>13, <1>14 DEF SocketInv
<1>16. ASSUME NEW f \in Socket!End PROVE Wholly(f)
  <2>1. CASE f = e
    BY <1>2, <1>8, <1>9, <1>11, <2>1 DEF Wholly
  <2>2. CASE f # e
    BY <1>1, <1>9, <1>11, <2>2 DEF Wholly
  <2> QED BY <2>1, <2>2
<1>17. ASSUME NEW f \in Socket!End PROVE InPlace(f)'
  <2>1. InPlace(f) /\ m_isInit'[f] = m_isInit[f] /\ broken'[f] = broken[f] /\ socketSent'[f] = socketSent[f]
    BY <1>1 DEF PlaceInv
  <2>2. CASE f = e
    <3>1. socketAt'[e] \in {"read", "pipeRead"} => array'[e] = array[e] + k
      BY <1>11 DEF Calling
    <3>2. socketAt'[e] \notin {"write", "pipeWrite"}
      BY <1>10, <1>11 DEF Calling
    <3>3. array[e] = Len(r)
      BY <1>2, <1>10, <2>1, <2>2 DEF InPlace
    <3>4. Len(socketReceived'[e]) = Len(r) + k
      BY <1>8, <1>9
    <3> QED BY <2>1, <2>2, <3>1, <3>2, <3>3, <3>4 DEF InPlace
  <2>3. CASE f # e
    BY <1>9, <1>11, <2>1, <2>3 DEF InPlace
  <2> QED BY <2>2, <2>3
<1> QED BY <1>15, <1>16, <1>17 DEF WordKept, PlaceInv

(* send of k bytes.                                                         *)
LEMMA SocketSends ==
  ASSUME SocketInv, PlaceInv, NEW e \in Socket!End, NEW k \in 1 .. SocketRoom, Socket!Send(e, k)
  PROVE  SocketInv' /\ PlaceInv' /\ WordKept
<1>1. UNCHANGED <<m_isInit, m_isClosed, connection, socketReceived>>
  BY DEF Socket!Send
<1>2. PICK p : p = Socket!Peer(e)
  OBVIOUS
<1>3. p \in Socket!End /\ p # e /\ Socket!Peer(p) = e /\ \A f \in Socket!End : f # e => f = p
  BY <1>2, Ends
<1>4. PICK q, s, bytes : /\ q = queue[p] /\ s = socketSent[e]
                         /\ bytes = [i \in 1 .. k |-> array[e] + i]
  OBVIOUS
<1>5. /\ m_isInit[e] /\ socketAt[e] \in {"write", "pipeWrite"} /\ socketAt[e] \in Calling
      /\ k \in Nat /\ k <= left[e] /\ broken[e] = "no" /\ Socket!Turn(e, k)
  BY SocketAssumption DEF Socket!Send, Socket!Selected, Socket!Writing, Calling
<1>6. /\ socketAt' \in [Socket!End -> Calling \cup {"idle", "accept", "killed"}]
      /\ left' \in [Socket!End -> Nat] /\ array' \in [Socket!End -> Nat]
      /\ threw' \in [Socket!End -> BOOLEAN]
      /\ \A f \in Socket!End \ {e} : UNCHANGED <<socketAt[f], left[f], array[f], threw[f]>>
      /\ socketAt'[e] \in Calling => socketAt'[e] = socketAt[e] /\ array'[e] = array[e] + k
  BY <1>5, Turned DEF SocketInv
<1>7. \A f \in Socket!End : socketAt'[f] \in Calling => socketAt'[f] = socketAt[f]
  BY <1>6
<1>8. CASE connection[p] = "closed"
  <2>1. broken' = [broken EXCEPT ![e] = "yes"] /\ UNCHANGED <<queue, socketSent>>
    BY <1>2, <1>8 DEF Socket!Send
  <2>2. SocketTypes'
    BY <1>1, <1>6, <2>1 DEF SocketInv, SocketTypes
  <2>3. SocketInv'
    BY <1>1, <1>7, <2>1, <2>2 DEF SocketInv
  <2>4. ASSUME NEW f \in Socket!End PROVE Wholly(f) /\ InPlace(f)'
    <3>1. InPlace(f)
      BY DEF PlaceInv
    <3>2. CASE f = e
      <4>1. broken'[e] = "yes" /\ socketAt'[e] \notin {"read", "pipeRead"}
        BY <1>5, <1>6, <2>1 DEF SocketInv, SocketTypes, Calling
      <4> QED BY <1>5, <2>1, <3>1, <3>2, <4>1 DEF Wholly, InPlace
    <3>3. CASE f # e
      <4>1. socketAt'[f] = socketAt[f] /\ array'[f] = array[f] /\ broken'[f] = broken[f]
        BY <1>6, <2>1, <3>3 DEF SocketInv, SocketTypes
      <4> QED BY <1>1, <2>1, <3>1, <4>1 DEF Wholly, InPlace
    <3> QED BY <3>2, <3>3
  <2> QED BY <2>3, <2>4 DEF WordKept, PlaceInv
<1>9. CASE connection[p] # "closed"
  <2>1. /\ queue' = [queue EXCEPT ![p] = q \o bytes] /\ socketSent' = [socketSent EXCEPT ![e] = s \o bytes]
        /\ broken' = broken
    BY <1>2, <1>4, <1>9 DEF Socket!Send
  <2>2. q \in Seq(Nat) /\ s \in Seq(Nat) /\ bytes \in Seq(Nat) /\ socketReceived[p] \in Seq(Nat)
    <3>1. q \in Seq(Nat) /\ s \in Seq(Nat) /\ socketReceived[p] \in Seq(Nat)
      BY <1>3, <1>4 DEF SocketInv, SocketTypes
    <3>2. array[e] \in Nat
      BY DEF SocketInv, SocketTypes
    <3>3. bytes \in [1 .. k -> Nat]
      BY <1>4, <1>5, <3>2
    <3>4. bytes \in Seq(Nat)
      BY <1>5, <3>3
    <3> QED BY <3>1, <3>4
  <2>3. q \o bytes \in Seq(Nat) /\ s \o bytes \in Seq(Nat)
    BY <2>2, ConcatProperties
  <2>4. /\ queue' \in [Socket!End -> Seq(Nat)] /\ socketSent' \in [Socket!End -> Seq(Nat)]
        /\ queue'[p] = q \o bytes /\ queue'[e] = queue[e]
        /\ socketSent'[e] = s \o bytes /\ socketSent'[p] = socketSent[p]
    BY <1>3, <2>1, <2>3 DEF SocketInv, SocketTypes
  <2>5. SocketTypes'
    BY <1>1, <1>6, <2>1, <2>4 DEF SocketInv, SocketTypes
  <2>6. ASSUME NEW f \in Socket!End, connection[f] \in {"open", "waiting"}
        PROVE  socketReceived[f] \o queue'[f] = socketSent'[Socket!Peer(f)]
    <3>1. socketReceived[f] \o queue[f] = socketSent[Socket!Peer(f)]
      BY <2>6 DEF SocketInv
    <3>2. CASE f = e
      BY <1>2, <2>4, <3>1, <3>2
    <3>3. CASE f = p
      <4>1. socketReceived[p] \o (q \o bytes) = (socketReceived[p] \o q) \o bytes
        BY <2>2, Associative
      <4> QED BY <1>3, <1>4, <2>4, <3>1, <3>3, <4>1
    <3> QED BY <1>3, <3>2, <3>3
  <2>7. SocketInv'
    BY <1>1, <1>7, <2>5, <2>6 DEF SocketInv
  <2>8. ASSUME NEW f \in Socket!End PROVE Wholly(f) /\ InPlace(f)'
    <3>1. InPlace(f)
      BY DEF PlaceInv
    <3>2. CASE f = e
      <4>1. array[e] = Len(s) /\ s = [i \in DOMAIN s |-> i]
        BY <1>4, <1>5, <3>1, <3>2 DEF InPlace
      <4>2. PICK n : n = Len(s) /\ n \in Nat /\ DOMAIN s = 1 .. n
        BY <2>2, LenProperties
      <4>3. bytes = [i \in 1 .. k |-> n + i]
        BY <1>4, <4>1, <4>2
      <4>4. bytes \in Seq(Nat) /\ Len(bytes) = k
        BY <1>5, <2>2, <4>3
      <4>5. PICK t : t = s \o bytes
        OBVIOUS
      <4>6. /\ t \in Seq(Nat) /\ Len(t) = n + k
            /\ \A i \in 1 .. n + k : t[i] = IF i <= n THEN s[i] ELSE bytes[i - n]
        BY <2>2, <4>2, <4>4, <4>5, ConcatProperties
      <4>7. DOMAIN t = 1 .. n + k /\ t = [i \in DOMAIN t |-> t[i]]
        BY <4>6, LenProperties
      <4>8. ASSUME NEW i \in 1 .. n + k PROVE t[i] = i
        <5>1. CASE i <= n
          <6>1. i \in DOMAIN s
            BY <4>2, <5>1
          <6> QED BY <4>1, <4>6, <5>1, <6>1
        <5>2. CASE ~(i <= n)
          <6>1. i - n \in 1 .. k /\ n + (i - n) = i
            BY <1>5, <4>2, <5>2
          <6> QED BY <4>3, <4>6, <5>2, <6>1
        <5> QED BY <5>1, <5>2
      <4>9. t = [i \in DOMAIN t |-> i]
        BY <4>7, <4>8
      <4>10. /\ socketSent'[e] = t /\ socketAt'[e] \notin {"read", "pipeRead"}
             /\ socketAt'[e] \in {"write", "pipeWrite"} => array'[e] = array[e] + k
        BY <1>5, <1>6, <2>4, <4>5 DEF Calling
      <4>11. array[e] + k = Len(t)
        BY <4>1, <4>2, <4>6
      <4> QED BY <1>5, <3>2, <4>9, <4>10, <4>11 DEF Wholly, InPlace
    <3>3. CASE f # e
      <4>1. /\ f = p /\ socketAt'[f] = socketAt[f] /\ array'[f] = array[f] /\ socketSent'[f] = socketSent[f]
            /\ broken'[f] = broken[f] /\ m_isInit'[f] = m_isInit[f] /\ socketReceived'[f] = socketReceived[f]
        BY <1>1, <1>3, <1>6, <2>1, <2>4, <3>3
      <4> QED BY <3>1, <4>1 DEF Wholly, InPlace
    <3> QED BY <3>2, <3>3
  <2> QED BY <2>7, <2>8 DEF WordKept, PlaceInv
<1> QED BY <1>8, <1>9

(* The steps that move no bytes leave the pointers of calls in place.       *)
Remains(e) ==
  /\ socketSent'[e] = [i \in DOMAIN socketSent'[e] |-> i]
  /\ m_isInit'[e] /\ socketAt'[e] \in Calling =>
       \/ /\ m_isInit[e] /\ socketAt'[e] = socketAt[e] /\ array'[e] = array[e]
          /\ socketSent'[e] = socketSent[e] /\ socketReceived'[e] = socketReceived[e]
          /\ broken'[e] = "no" => broken[e] = "no"
       \/ array'[e] = Len(IF socketAt'[e] \in {"read", "pipeRead"} THEN socketReceived'[e] ELSE socketSent'[e])

LEMMA PlaceRemains ==
  ASSUME PlaceInv, \A e \in Socket!End : Remains(e)
  PROVE  PlaceInv'
BY DEF PlaceInv, InPlace, Remains, Calling

LEMMA HungUpBreaks ==
  ASSUME SocketTypes, NEW e \in Socket!End, Socket!HangUp(e), NEW f \in Socket!End, broken'[f] = "no"
  PROVE  broken[f] = "no"
BY DEF SocketTypes, Socket!HangUp

LEMMA PlaceKept ==
  ASSUME SocketInv, PlaceInv,
         \/ Socket!Listen \/ Socket!connect \/ Socket!accept \/ Socket!Accepted
         \/ \E e \in Socket!End :
              \/ Socket!create(e) \/ Socket!close(e) \/ Socket!Wait(e) \/ Socket!TimedOut(e)
              \/ Socket!Refused(e) \/ Socket!Reset(e) \/ Socket!Killed(e)
              \/ \E k \in {"read", "write"}, t \in Socket!Timeouts : Socket!setTimeout(e, k, t)
              \/ \E call \in Calling, length \in Lengths : Socket!Calls(e, call, length)
  PROVE  PlaceInv'
<1>1. SUFFICES ASSUME NEW f \in Socket!End PROVE Remains(f)
  BY PlaceRemains
<1>2. InPlace(f) /\ SocketTypes
  BY DEF PlaceInv, SocketInv
<1>3. CASE Socket!Listen
  BY <1>2, <1>3 DEF Remains, InPlace, Socket!Listen, Socket!Bytes, Socket!Call
<1>4. CASE Socket!connect
  <2>1. /\ UNCHANGED <<m_isInit, socketAt, array>> /\ socketAt["client"] = "idle" /\ ~m_isInit["server"]
    BY <1>4, Ends DEF Socket!connect, Socket!Call, SocketInv
  <2>2. ~(m_isInit'[f] /\ socketAt'[f] \in Calling)
    BY <2>1, Ends DEF Calling
  <2>3. socketSent' = [e \in Socket!End |-> <<>>] \/ socketSent' = socketSent
    BY <1>4 DEF Socket!connect, Socket!Both, Socket!Bytes
  <2>4. <<>> = [i \in DOMAIN <<>> |-> i]
    OBVIOUS
  <2> QED BY <1>2, <2>2, <2>3, <2>4 DEF Remains, InPlace
<1>5. CASE Socket!accept
  <2>1. /\ UNCHANGED <<socketSent, socketReceived, array>> /\ ~m_isInit'["server"]
        /\ m_isInit'["client"] = m_isInit["client"] /\ socketAt'["client"] = socketAt["client"]
    BY <1>2, <1>5, Ends DEF Socket!accept, Socket!Bytes, SocketTypes
  <2>2. broken'["client"] = "no" => broken["client"] = "no"
    BY <1>2, <1>5, Ends, HungUpBreaks DEF Socket!accept
  <2> QED BY <1>2, <2>1, <2>2, Ends DEF Remains, InPlace
<1>6. CASE Socket!Accepted
  <2>1. /\ UNCHANGED <<socketSent, socketReceived, broken>> /\ socketAt'["server"] = "idle"
        /\ m_isInit'["client"] = m_isInit["client"] /\ socketAt'["client"] = socketAt["client"]
        /\ array'["client"] = array["client"]
    BY <1>2, <1>6, Ends DEF Socket!Accepted, Socket!Ended, Socket!Bytes, SocketTypes
  <2> QED BY <1>2, <2>1, Ends DEF Remains, InPlace, Calling
<1>7. ASSUME NEW e \in Socket!End, Socket!create(e) \/ Socket!close(e) PROVE Remains(f)
  <2>1. /\ UNCHANGED <<socketSent, socketReceived, array, socketAt>> /\ socketAt[e] = "idle"
        /\ Socket!HangUp(e) /\ (f # e => m_isInit'[f] = m_isInit[f])
    BY <1>2, <1>7 DEF Socket!create, Socket!close, Socket!Bytes, Socket!Call, SocketTypes
  <2>2. broken'[f] = "no" => broken[f] = "no"
    BY <1>2, <2>1, HungUpBreaks
  <2> QED BY <1>2, <2>1, <2>2 DEF Remains, InPlace, Calling
<1>8. ASSUME NEW e \in Socket!End,
             \/ Socket!Wait(e)
             \/ \E k \in {"read", "write"}, t \in Socket!Timeouts : Socket!setTimeout(e, k, t)
      PROVE  Remains(f)
  BY <1>2, <1>8 DEF Remains, InPlace, Socket!Wait, Socket!setTimeout, Socket!Bytes, Socket!Call
<1>9. ASSUME NEW e \in Socket!End, Socket!TimedOut(e) \/ Socket!Refused(e) \/ Socket!Reset(e)
      PROVE  Remains(f)
  <2>1. /\ UNCHANGED <<socketSent, socketReceived, m_isInit>> /\ socketAt'[e] = "idle"
        /\ f # e => socketAt'[f] = socketAt[f] /\ array'[f] = array[f] /\ broken'[f] = broken[f]
    BY <1>2, <1>9 DEF Socket!TimedOut, Socket!Refused, Socket!Reset, Socket!Ended, Socket!Bytes, SocketTypes
  <2> QED BY <1>2, <2>1 DEF Remains, InPlace, Calling
<1>10. ASSUME NEW e \in Socket!End, Socket!Killed(e) PROVE Remains(f)
  <2>1. /\ UNCHANGED <<socketSent, socketReceived, array>> /\ socketAt'[e] = "killed" /\ Socket!HangUp(e)
        /\ f # e => socketAt'[f] = socketAt[f] /\ m_isInit'[f] = m_isInit[f]
    BY <1>2, <1>10 DEF Socket!Killed, Socket!Bytes, SocketTypes
  <2>2. broken'[f] = "no" => broken[f] = "no"
    BY <1>2, <2>1, HungUpBreaks
  <2> QED BY <1>2, <2>1, <2>2 DEF Remains, InPlace, Calling
<1>11. ASSUME NEW e \in Socket!End, NEW call \in Calling, NEW length \in Lengths,
              Socket!Calls(e, call, length)
       PROVE  Remains(f)
  <2>1. /\ UNCHANGED <<socketSent, socketReceived, m_isInit, broken>>
        /\ f # e => socketAt'[f] = socketAt[f] /\ array'[f] = array[f]
        /\ socketAt'[e] = call
        /\ array'[e] = Len(IF call \in {"read", "pipeRead"} THEN socketReceived[e] ELSE socketSent[e])
    BY <1>2, <1>11 DEF Socket!Calls, Socket!Bytes, Socket!Reading, SocketTypes
  <2> QED BY <1>2, <2>1 DEF Remains, InPlace
<1> QED BY <1>3, <1>4, <1>5, <1>6, <1>7, <1>8, <1>9, <1>10, <1>11

LEMMA SocketSteps ==
  ASSUME SocketInv, PlaceInv, [Socket!SocketNext]_(Socket!socketVars)
  PROVE  SocketInv' /\ PlaceInv' /\ (UNCHANGED Socket!socketVars \/ WordKept)
<1>1. CASE UNCHANGED Socket!socketVars
  BY <1>1 DEF Socket!socketVars, SocketInv, SocketTypes, PlaceInv, InPlace
<1>2. CASE Socket!Listen \/ Socket!connect \/ Socket!accept \/ Socket!Accepted
  BY <1>2, SocketListens, SocketConnects, SocketAccepts, SocketAccepted, PlaceKept
<1>3. ASSUME NEW e \in Socket!End,
             Socket!create(e) \/ Socket!close(e) \/ Socket!Wait(e) \/ Socket!TimedOut(e)
      PROVE  SocketInv' /\ PlaceInv' /\ WordKept
  BY <1>3, SocketCloses, SocketWaits, SocketTimesOut, PlaceKept
<1>4. ASSUME NEW e \in Socket!End, Socket!Reads(e) \/ Socket!Writes(e)
      PROVE  SocketInv' /\ PlaceInv' /\ WordKept
  BY <1>4, SocketRefuses, SocketResets, SocketReceives, SocketKilled, SocketSends, PlaceKept
  DEF Socket!Reads, Socket!Writes
<1>5. ASSUME NEW e \in Socket!End, NEW k \in {"read", "write"}, NEW t \in Socket!Timeouts,
             Socket!setTimeout(e, k, t)
      PROVE  SocketInv' /\ PlaceInv' /\ WordKept
  BY <1>5, SocketWaits, PlaceKept
<1>6. ASSUME NEW e \in Socket!End, NEW call \in Socket!Reading \cup Socket!Writing, NEW length \in Lengths,
             Socket!Calls(e, call, length)
      PROVE  SocketInv' /\ PlaceInv' /\ WordKept
  <2>1. call \in Calling
    BY DEF Socket!Reading, Socket!Writing, Calling
  <2> QED BY <1>6, <2>1, SocketCalls, PlaceKept
<1> QED BY <1>1, <1>2, <1>3, <1>4, <1>5, <1>6 DEF Socket!SocketNext

LEMMA SocketStarts == ASSUME Socket!SocketInit PROVE SocketInv /\ PlaceInv
<1>1. <<>> \in Seq(Nat) /\ <<>> = [i \in DOMAIN <<>> |-> i]
  BY EmptySeq
<1>2. SocketTypes
  BY <1>1 DEF SocketTypes, Socket!SocketInit, Socket!Both
<1>3. SocketInv
  BY <1>2, Ends DEF SocketInv, Socket!SocketInit, Socket!Both, Calling
<1>4. PlaceInv
  BY <1>1 DEF PlaceInv, InPlace, Socket!SocketInit, Socket!Both
<1> QED BY <1>3, <1>4

LEMMA SocketAlone ==
  ASSUME [Next]_vars PROVE [Socket!SocketNext]_(Socket!socketVars)
BY DEF Next, vars, CacheMoves, BitsMove, RleMoves, LzwMoves, PipeMoves, OthersRest,
       SocketMoves, SocketRest, FileMoves, FileRest, MemoryMoves, RecordsMove, CiphersMove,
       streamVars, socketVars, Socket!socketVars

(* On a connection the bytes of the callers are sent, none left out or sent *)
(* again, and an end takes what the other has sent, in order, whatever the  *)
(* calls, their lengths and the turns they take (basicIO.cpp:69, :508).     *)
THEOREM SocketWordIsKept == Spec => []SocketKeepsItsWord
<1>1. Init => SocketInv /\ PlaceInv
  BY SocketStarts DEF Init
<1>2. SocketInv /\ PlaceInv /\ [Next]_vars => SocketInv' /\ PlaceInv'
  BY SocketSteps, SocketAlone
<1>3. SocketInv /\ PlaceInv => SocketKeepsItsWord
  BY DEF SocketInv, PlaceInv, InPlace, SocketKeepsItsWord, Socket!SocketKeepsItsWord
<1> QED BY <1>1, <1>2, <1>3, PTL DEF Spec

(* A pipeRead ends with all it was asked for, with an exception, or with    *)
(* all that a peer had sent before it closed.                               *)
THEOREM SocketReadsWhole == Spec => PipeReadIsWhole
<1>1. Init => SocketInv /\ PlaceInv
  BY SocketStarts DEF Init
<1>2. SocketInv /\ PlaceInv /\ [Next]_vars => SocketInv' /\ PlaceInv'
  BY SocketSteps, SocketAlone
<1>3. SocketInv /\ PlaceInv /\ [Next]_vars =>
        [\A e \in Socket!End :
           socketAt[e] = "pipeRead" /\ socketAt'[e] = "idle" =>
             \/ Len(socketReceived'[e]) = Len(socketReceived[e]) + left[e]
             \/ threw'[e]
             \/ connection[Socket!Peer(e)] = "closed" /\ queue'[e] = <<>>]_(Socket!socketVars)
  BY SocketSteps, SocketAlone DEF WordKept, Wholly
<1> QED BY <1>1, <1>2, <1>3, PTL DEF Spec, PipeReadIsWhole, Socket!PipeReadIsWhole

-----------------------------------------------------------------------------
(* Proof, for any bytes, sizes and cuts.  A call cuts a sequence in two and *)
(* moves the first part; and when copyStream returns nothing is under way.  *)
PipeInv == Pipe!TypeOK /\ Pipe!CopyIsExact /\ (copyAt = "returned" => chunk = <<>> /\ source = <<>>)

LEMMA CutInTwo ==
  ASSUME NEW bytes \in Seq(Byte), NEW k \in 0 .. Len(bytes)
  PROVE  /\ Pipe!Taken(bytes, k) \in Seq(Byte) /\ Pipe!Rest(bytes, k) \in Seq(Byte)
         /\ Len(Pipe!Taken(bytes, k)) = k /\ Len(Pipe!Rest(bytes, k)) = Len(bytes) - k
         /\ Pipe!Taken(bytes, k) \o Pipe!Rest(bytes, k) = bytes
<1>1. Len(bytes) \in Nat /\ \A i \in 1 .. Len(bytes) : bytes[i] \in Byte
  BY LenProperties
<1>2. Pipe!Taken(bytes, k) \in Seq(Byte) /\ Len(Pipe!Taken(bytes, k)) = k
  <2>1. \A i \in 1 .. k : bytes[i] \in Byte
    BY <1>1
  <2> QED BY <1>1, <2>1, SubSeqProperties DEF Pipe!Taken
<1>3. Pipe!Rest(bytes, k) \in Seq(Byte) /\ Len(Pipe!Rest(bytes, k)) = Len(bytes) - k
  <2>1. \A i \in k + 1 .. Len(bytes) : bytes[i] \in Byte
    BY <1>1
  <2>2. k + 1 \in Int /\ Len(bytes) \in Int
    BY <1>1
  <2> QED BY <1>1, <2>1, <2>2, SubSeqProperties DEF Pipe!Rest
<1>4. Pipe!Taken(bytes, k) \o Pipe!Rest(bytes, k) = SubSeq(bytes, 1, Len(bytes))
  <2>1. 1 \in 1 .. Len(bytes) + 1 /\ k \in 1 - 1 .. Len(bytes) /\ Len(bytes) \in k .. Len(bytes)
    BY <1>1
  <2> QED BY <2>1, ConcatAdjacentSubSeq DEF Pipe!Taken, Pipe!Rest
<1> QED BY <1>2, <1>3, <1>4, SubSeqFull

(* What moves from the front of one sequence to the end of another leaves   *)
(* the two together as they were.                                           *)
LEMMA MovedOver ==
  ASSUME NEW to \in Seq(Byte), NEW bytes \in Seq(Byte), NEW k \in 0 .. Len(bytes)
  PROVE  /\ to \o Pipe!Taken(bytes, k) \in Seq(Byte) /\ Len(to \o Pipe!Taken(bytes, k)) = Len(to) + k
         /\ (to \o Pipe!Taken(bytes, k)) \o Pipe!Rest(bytes, k) = to \o bytes
<1>1. Pipe!Taken(bytes, k) \in Seq(Byte) /\ Pipe!Rest(bytes, k) \in Seq(Byte) /\ Len(Pipe!Taken(bytes, k)) = k
  BY CutInTwo
<1>2. to \o Pipe!Taken(bytes, k) \in Seq(Byte) /\ Len(to \o Pipe!Taken(bytes, k)) = Len(to) + k
  BY <1>1, ConcatProperties
<1>3. to \o (Pipe!Taken(bytes, k) \o Pipe!Rest(bytes, k)) = to \o bytes
  <2>1. Pipe!Taken(bytes, k) \o Pipe!Rest(bytes, k) = bytes
    BY CutInTwo
  <2> QED BY <2>1
<1>4. (to \o Pipe!Taken(bytes, k)) \o Pipe!Rest(bytes, k) = to \o (Pipe!Taken(bytes, k) \o Pipe!Rest(bytes, k))
  BY <1>1, ConcatAssociative, SMTT(30)
<1> QED BY <1>2, <1>3, <1>4

LEMMA PipeReads ==
  ASSUME PipeInv, NEW k \in 0 .. BestRequest, Pipe!pipeRead(k)
  PROVE  PipeInv'
<1>1. k \in 0 .. Len(source) /\ Len(chunk) + k <= BestRequest /\ Len(chunk) \in Nat /\ Len(source) \in Nat
  BY PipeAssumption DEF Pipe!pipeRead, Pipe!ReadLimit, Pipe!Least, PipeInv, Pipe!TypeOK
<1>2. chunk' = chunk \o Pipe!Taken(source, k) /\ source' = Pipe!Rest(source, k) /\ UNCHANGED <<content, copied>>
  BY DEF Pipe!pipeRead
<1>3. chunk' \in Seq(Byte) /\ Len(chunk') = Len(chunk) + k /\ chunk' \o source' = chunk \o source
  BY <1>1, <1>2, MovedOver DEF PipeInv, Pipe!TypeOK
<1>4. source' \in Seq(Byte) /\ Len(source') = Len(source) - k
  BY <1>1, <1>2, CutInTwo DEF PipeInv, Pipe!TypeOK
<1>5. copyAt' \in {"reading", "writing", "returned"}
  BY DEF Pipe!pipeRead
<1>6. Pipe!TypeOK'
  BY <1>1, <1>2, <1>3, <1>4, <1>5 DEF PipeInv, Pipe!TypeOK
<1>7. copied' \o chunk' \o source' = content'
  <2>1. copied \in Seq(Byte) /\ chunk \in Seq(Byte) /\ source \in Seq(Byte)
    BY DEF PipeInv, Pipe!TypeOK
  <2>2. copied \o chunk \o source = copied \o (chunk \o source)
    BY <2>1, ConcatAssociative
  <2>3. copied \o chunk' \o source' = copied \o (chunk' \o source')
    <3> DEFINE c == chunk'
               r == source'
    <3>1. c \in Seq(Byte) /\ r \in Seq(Byte)
      BY <1>3, <1>4
    <3> HIDE DEF c, r
    <3>2. (copied \o c) \o r = copied \o (c \o r)
      BY <2>1, <3>1, ConcatAssociative, SMTT(30)
    <3> QED BY <3>2 DEF c, r
  <2> QED BY <1>2, <1>3, <2>2, <2>3 DEF PipeInv, Pipe!CopyIsExact
<1>8. copyAt' = "returned" => chunk' = <<>> /\ source' = <<>>
  <2> SUFFICES ASSUME copyAt' = "returned" PROVE chunk' = <<>> /\ source' = <<>>
    OBVIOUS
  <2>1. chunk' = <<>> /\ Pipe!ReadEnds(k)
    BY DEF Pipe!pipeRead
  <2>2. Len(chunk') = 0
    BY <2>1
  <2>3. k = Len(source)
    BY <1>1, <1>3, <2>1, <2>2, PipeAssumption DEF Pipe!ReadEnds
  <2>4. Len(source') = 0
    BY <1>1, <1>4, <2>3
  <2> QED BY <1>4, <2>1, <2>4, EmptySeq
<1>9. copyAt' = "returned" => copied' = content'
  <2> SUFFICES ASSUME copyAt' = "returned" PROVE copied' = content'
    OBVIOUS
  <2>1. copied \in Seq(Byte) /\ copied \o <<>> = copied
    BY ConcatEmptySeq DEF PipeInv, Pipe!TypeOK
  <2> QED BY <1>2, <1>7, <1>8, <2>1
<1> QED BY <1>6, <1>7, <1>8, <1>9 DEF PipeInv, Pipe!CopyIsExact

LEMMA PipeWrites ==
  ASSUME PipeInv, NEW k \in 0 .. BestRequest, Pipe!pipeWrite(k)
  PROVE  PipeInv'
<1>1. k \in 0 .. Len(chunk) /\ Len(copied) + k <= Room /\ Len(copied) \in Nat /\ Len(chunk) \in Nat
  BY PipeAssumption DEF Pipe!pipeWrite, Pipe!Least, PipeInv, Pipe!TypeOK
<1>2. copied' = copied \o Pipe!Taken(chunk, k) /\ chunk' = Pipe!Rest(chunk, k) /\ UNCHANGED <<content, source>>
  BY DEF Pipe!pipeWrite, Pipe!LeftUnwritten
<1>3. copied' \in Seq(Byte) /\ Len(copied') = Len(copied) + k /\ copied' \o chunk' = copied \o chunk
  BY <1>1, <1>2, MovedOver DEF PipeInv, Pipe!TypeOK
<1>4. chunk' \in Seq(Byte) /\ Len(chunk') = Len(chunk) - k
  BY <1>1, <1>2, CutInTwo DEF PipeInv, Pipe!TypeOK
<1>5. copyAt' \in {"reading", "writing", "returned"}
  BY DEF Pipe!pipeWrite
<1>6. Pipe!TypeOK'
  <2>1. Len(chunk) <= BestRequest
    BY DEF PipeInv, Pipe!TypeOK
  <2>2. Len(chunk') <= BestRequest /\ Len(copied') <= Room
    BY <1>1, <1>3, <1>4, <2>1, PipeAssumption
  <2> QED BY <1>2, <1>3, <1>4, <1>5, <2>2 DEF PipeInv, Pipe!TypeOK
<1>7. copied' \o chunk' \o source' = content'
  BY <1>2, <1>3 DEF PipeInv, Pipe!CopyIsExact
<1>8. copyAt' = "returned" => chunk' = <<>> /\ source' = <<>>
  BY <1>2 DEF Pipe!pipeWrite, Pipe!sourceIsEOS
<1>9. copyAt' = "returned" => copied' = content'
  <2> SUFFICES ASSUME copyAt' = "returned" PROVE copied' = content'
    OBVIOUS
  <2>1. copied' \o <<>> = copied'
    BY <1>3, ConcatEmptySeq
  <2> QED BY <1>7, <1>8, <2>1
<1> QED BY <1>6, <1>7, <1>8, <1>9 DEF PipeInv, Pipe!CopyIsExact

LEMMA PipeStarts == ASSUME Pipe!Init PROVE PipeInv
<1>1. content \in Seq(Byte) /\ source = content /\ chunk = <<>> /\ copied = <<>> /\ copyAt = "reading"
  BY IsASeq, PipeAssumption DEF Pipe!Init
<1>2. <<>> \in Seq(Byte) /\ Len(<<>>) = 0 /\ <<>> \o <<>> = <<>> /\ <<>> \o content = content
  BY <1>1, EmptySeq, ConcatEmptySeq
<1> QED BY <1>1, <1>2, PipeAssumption DEF PipeInv, Pipe!TypeOK, Pipe!CopyIsExact

LEMMA PipeSteps == ASSUME PipeInv, [Pipe!Next]_(Pipe!vars) PROVE PipeInv'
<1>1. PipeInv /\ UNCHANGED Pipe!vars => PipeInv'
  BY DEF PipeInv, Pipe!TypeOK, Pipe!CopyIsExact, Pipe!vars
<1> QED BY <1>1, PipeReads, PipeWrites, PipeAssumption DEF Pipe!Next

LEMMA PipeAlone ==
  ASSUME [Next]_vars PROVE [Pipe!Next]_(Pipe!vars)
BY DEF Next, vars, CacheMoves, BitsMove, RleMoves, LzwMoves, PipeMoves, OthersRest,
       SocketMoves, SocketRest, FileMoves, FileRest, MemoryMoves, RecordsMove, CiphersMove,
       streamVars, pipeVars, Pipe!vars

-----------------------------------------------------------------------------
(* File streams.  Every open handle has one owner: the program, or one      *)
(* cFile, which all the streams that have it share.                         *)
Streams == {"one", "other"}
HandleOf(s) == cFile[m_file[s]].m_handle
IsHandle(e) == e = [file |-> e.file, pointer |-> e.pointer, reads |-> e.reads, writes |-> e.writes]
Owned(hs, m, c, made, own) ==
  /\ hs = [h \in Handles |-> hs[h]] /\ \A h \in Handles : IsHandle(hs[h])
  /\ m \in [Streams -> 0 .. 3]
  /\ c = [o \in 1 .. 3 |-> c[o]] /\ made = [o \in 1 .. 3 |-> made[o]]
  /\ own \subseteq Handles /\ \A h \in own : hs[h].file # 0
  /\ \A s \in Streams : m[s] # 0 =>
       /\ c[m[s]].m_handle \in Handles \ own
       /\ hs[c[m[s]].m_handle].file # 0 /\ hs[c[m[s]].m_handle].file = made[m[s]]
  /\ \A s, t \in Streams : m[s] # 0 /\ m[t] # 0 /\ c[m[s]].m_handle = c[m[t]].m_handle => m[s] = m[t]
  /\ \A h \in Handles : hs[h].file # 0 =>
       h \in own \/ \E s \in Streams : m[s] # 0 /\ c[m[s]].m_handle = h
FileInv == Owned(handles, m_file, cFile, opened, kept)

LEMMA FileObjects == File!Object = 1 .. 3
<1>1. IsFiniteSet({"one"}) /\ Cardinality({"one"}) = 1
  BY FS_Singleton
<1>2. "other" \notin {"one"} /\ {"one"} \cup {"other"} = {"one", "other"}
  OBVIOUS
<1>3. Cardinality({"one"} \cup {"other"}) = Cardinality({"one"}) + 1
  BY <1>1, <1>2, FS_AddElement, Zenon
<1>4. Cardinality({"one", "other"}) = Cardinality({"one"}) + 1
  BY <1>2, <1>3, Zenon
<1>5. PICK n, a : n = Cardinality({"one", "other"}) /\ a = Cardinality({"one"})
  OBVIOUS
<1>6. n = a + 1 /\ a = 1
  BY <1>1, <1>4, <1>5, Zenon
<1>7. n + 1 = 3
  BY <1>6
<1>8. File!Cardinality({"one", "other"}) = Cardinality({"one", "other"})
  BY DEF File!Cardinality, Cardinality
<1> QED BY <1>5, <1>7, <1>8 DEF File!Object

(* Two streams have two cFile objects at most, and a new one is another.    *)
LEMMA FreshObject ==
  ASSUME FileInv, NEW o, o = File!Lowest({x \in File!Object : File!Idle(x)})
  PROVE  o \in 1 .. 3 /\ \A s \in Streams : m_file[s] # o
<1>1. PICK idle : idle = {x \in File!Object : File!Idle(x)}
  OBVIOUS
<1>2. idle = {x \in 1 .. 3 : m_file["one"] # x /\ m_file["other"] # x}
  BY <1>1, FileObjects DEF File!Idle, File!Holders
<1>3. 1 \in idle \/ 2 \in idle \/ 3 \in idle
  BY <1>2
<1>4. \E x \in idle : \A y \in idle : x <= y
  BY <1>2, <1>3
<1>5. o \in idle
  BY <1>1, <1>4 DEF File!Lowest
<1> QED BY <1>2, <1>5 DEF Streams

(* Reading, writing and seeking move a pointer, and every handle stays on   *)
(* its file.                                                                *)
LEMMA PointersMove ==
  ASSUME FileInv, NEW g, NEW p, handles' = [handles EXCEPT ![g].pointer = p],
         UNCHANGED <<m_file, cFile, opened, kept>>
  PROVE  FileInv'
<1>1. PICK hs : hs = handles'
  OBVIOUS
<1>2. PICK r : r = [handles[g] EXCEPT !.pointer = p]
  OBVIOUS
<1>3. handles = [h \in Handles |-> handles[h]] /\ \A h \in Handles : IsHandle(handles[h])
  BY DEF FileInv, Owned
<1>4. hs = [h \in Handles |-> IF h = g THEN r ELSE handles[h]]
  BY <1>1, <1>2, <1>3
<1>5. g \in Handles => IsHandle(r) /\ r.file = handles[g].file
  <2>1. SUFFICES ASSUME g \in Handles PROVE IsHandle(r) /\ r.file = handles[g].file
    OBVIOUS
  <2>2. PICK file, pointer, reads, writes :
          handles[g] = [file |-> file, pointer |-> pointer, reads |-> reads, writes |-> writes]
    BY <1>3, <2>1 DEF IsHandle
  <2>3. r = [file |-> file, pointer |-> p, reads |-> reads, writes |-> writes]
    BY <1>2, <2>2
  <2> QED BY <2>2, <2>3 DEF IsHandle
<1>6. \A h \in Handles : hs[h].file = handles[h].file /\ IsHandle(hs[h])
  BY <1>3, <1>4, <1>5
<1>7. hs = [h \in Handles |-> hs[h]]
  BY <1>4
<1>8. Owned(hs, m_file, cFile, opened, kept)
  BY <1>6, <1>7 DEF FileInv, Owned
<1> QED BY <1>1, <1>8 DEF FileInv

(* What a stream is to do when it takes a new cFile: it leaves the old one, *)
(* of which the last stream closes the handle.                              *)
LEMMA FileTaken ==
  ASSUME FileInv, NEW s \in Streams, NEW h \in Handles, NEW flags,
         NEW hs, hs = [k \in Handles |-> IF k = h THEN hs[h] ELSE handles[k]],
         IsHandle(hs[h]), hs[h].file # 0,
         \A t \in Streams : m_file[t] # 0 => HandleOf(t) # h,
         kept' = kept \ {h}, File!NewFile(s, h, hs, flags)
  PROVE  FileInv'
<1>1. PICK o : o = File!Lowest({x \in File!Object : File!Idle(x)})
  OBVIOUS
<1>2. o \in 1 .. 3 /\ \A t \in Streams : m_file[t] # o
  BY <1>1, FreshObject
<1>3. PICK m, c, made, new, own :
        m = m_file' /\ c = cFile' /\ made = opened' /\ new = handles' /\ own = kept'
  OBVIOUS
<1>4. m = [m_file EXCEPT ![s] = o] /\ new = File!Released(s, hs)
  BY <1>1, <1>3 DEF File!NewFile
<1>5. /\ c = [File!Without(s, cFile, File!NoFile) EXCEPT ![o] = File!MadeFor(h, flags)]
      /\ made = [File!Without(s, opened, 0) EXCEPT ![o] = hs[h].file]
  BY <1>1, <1>3 DEF File!NewFile
<1>6. own = kept \ {h}
  BY <1>3
<1>7. PICK last \in BOOLEAN : last <=> File!LastGoes(s)
  OBVIOUS
<1>8. PICK g : g = HandleOf(s)
  OBVIOUS
<1>9. /\ last => m_file[s] # 0 /\ g \in Handles \ kept /\ g # h
      /\ \A t \in Streams : last /\ m_file[t] = m_file[s] => t = s
      /\ m_file[s] # 0 /\ ~last => \E t \in Streams \ {s} : m_file[t] = m_file[s]
  BY <1>7, <1>8 DEF File!LastGoes, File!Holders, FileInv, Owned, HandleOf, Streams
<1>10. /\ m_file \in [Streams -> 0 .. 3] /\ kept \subseteq Handles
       /\ cFile = [x \in 1 .. 3 |-> cFile[x]] /\ opened = [x \in 1 .. 3 |-> opened[x]]
       /\ \A k \in Handles : IsHandle(handles[k])
       /\ \A k \in kept : handles[k].file # 0
  BY DEF FileInv, Owned
<1>11. m \in [Streams -> 0 .. 3] /\ m[s] = o /\ \A t \in Streams \ {s} : m[t] = m_file[t]
  BY <1>2, <1>4, <1>10
<1>12. /\ c = [x \in 1 .. 3 |-> c[x]] /\ made = [x \in 1 .. 3 |-> made[x]]
       /\ c[o].m_handle = h /\ made[o] = hs[h].file
       /\ \A x \in 1 .. 3 : x # o /\ ~(last /\ x = m_file[s]) => c[x] = cFile[x] /\ made[x] = opened[x]
  BY <1>2, <1>5, <1>7, <1>10 DEF File!Without, File!MadeFor
<1>13. \A t \in Streams \ {s} : m_file[t] # 0 =>
         c[m[t]] = cFile[m_file[t]] /\ made[m[t]] = opened[m_file[t]]
  BY <1>2, <1>9, <1>10, <1>11, <1>12
<1>14. new = [k \in Handles |-> IF last /\ k = g THEN File!Closed ELSE hs[k]]
  BY <1>4, <1>7, <1>8 DEF File!Released, HandleOf
<1>15. /\ new = [k \in Handles |-> new[k]] /\ \A k \in Handles : IsHandle(new[k])
       /\ \A k \in Handles : last /\ k = g => new[k].file = 0
       /\ \A k \in Handles : k # h /\ ~(last /\ k = g) => new[k] = handles[k]
       /\ new[h] = hs[h]
  BY <1>9, <1>10, <1>14 DEF File!Closed, IsHandle
<1>16. \A k \in own : new[k].file # 0
  BY <1>6, <1>9, <1>10, <1>15
<1>17. ASSUME NEW t \in Streams, m[t] # 0
       PROVE  /\ c[m[t]].m_handle \in Handles \ own
              /\ new[c[m[t]].m_handle].file # 0 /\ new[c[m[t]].m_handle].file = made[m[t]]
              /\ t # s => c[m[t]].m_handle = HandleOf(t) /\ HandleOf(t) # h
  <2>1. CASE t = s
    BY <1>6, <1>11, <1>12, <1>15, <2>1
  <2>2. CASE t # s
    <3>1. m_file[t] # 0 /\ c[m[t]].m_handle = HandleOf(t) /\ made[m[t]] = opened[m_file[t]]
      BY <1>11, <1>13, <1>17, <2>2 DEF HandleOf
    <3>2. HandleOf(t) \in Handles \ kept /\ HandleOf(t) # h
      BY <3>1 DEF FileInv, Owned, HandleOf
    <3>3. handles[HandleOf(t)].file # 0 /\ handles[HandleOf(t)].file = opened[m_file[t]]
      BY <3>1 DEF FileInv, Owned, HandleOf
    <3>4. ~(last /\ HandleOf(t) = g)
      <4>1. HandleOf(t) = HandleOf(s) /\ m_file[s] # 0 => m_file[t] = m_file[s]
        BY <3>1 DEF FileInv, Owned, HandleOf
      <4> QED BY <1>8, <1>9, <2>2, <4>1
    <3> QED BY <1>6, <1>15, <3>1, <3>2, <3>3, <3>4
  <2> QED BY <2>1, <2>2
<1>18. ASSUME NEW t \in Streams, NEW u \in Streams, m[t] # 0, m[u] # 0, c[m[t]].m_handle = c[m[u]].m_handle
       PROVE  m[t] = m[u]
  <2>1. CASE t = s /\ u = s
    BY <2>1
  <2>2. CASE t = s /\ u # s
    BY <1>11, <1>12, <1>17, <1>18, <2>2
  <2>3. CASE t # s /\ u = s
    BY <1>11, <1>12, <1>17, <1>18, <2>3
  <2>4. CASE t # s /\ u # s
    <3>1. HandleOf(t) = HandleOf(u) /\ m_file[t] # 0 /\ m_file[u] # 0
      BY <1>11, <1>17, <1>18, <2>4
    <3>2. m_file[t] = m_file[u]
      BY <3>1 DEF FileInv, Owned, HandleOf
    <3> QED BY <1>11, <2>4, <3>2
  <2> QED BY <2>1, <2>2, <2>3, <2>4
<1>19. ASSUME NEW k \in Handles, new[k].file # 0
       PROVE  k \in own \/ \E t \in Streams : m[t] # 0 /\ c[m[t]].m_handle = k
  <2>1. CASE k = h
    BY <1>2, <1>11, <1>12, <2>1
  <2>2. CASE k # h
    <3>1. ~(last /\ k = g) /\ handles[k].file # 0
      BY <1>15, <1>19, <2>2
    <3>2. k \in kept \/ \E t \in Streams : m_file[t] # 0 /\ HandleOf(t) = k
      BY <3>1 DEF FileInv, Owned, HandleOf
    <3>3. CASE k \in kept
      BY <1>6, <2>2, <3>3
    <3>4. ASSUME NEW t \in Streams, m_file[t] # 0, HandleOf(t) = k
          PROVE  \E u \in Streams : m[u] # 0 /\ c[m[u]].m_handle = k
      <4>1. PICK u \in Streams \ {s} : m_file[u] = m_file[t]
        <5>1. CASE t # s
          BY <5>1
        <5>2. CASE t = s
          BY <1>8, <1>9, <3>1, <3>4, <5>2
        <5> QED BY <5>1, <5>2
      <4>2. HandleOf(u) = k /\ m[u] = m_file[u]
        BY <1>11, <3>4, <4>1 DEF HandleOf
      <4> QED BY <1>13, <3>4, <4>1, <4>2 DEF HandleOf
    <3> QED BY <3>2, <3>3, <3>4
  <2> QED BY <2>1, <2>2
<1>20. own \subseteq Handles
  BY <1>6, <1>10
<1>21. Owned(new, m, c, made, own)
  BY <1>11, <1>12, <1>15, <1>16, <1>17, <1>18, <1>19, <1>20 DEF Owned
<1> QED BY <1>3, <1>21 DEF FileInv

(* A stream leaves its cFile and takes none.                                *)
LEMMA FileLeft ==
  ASSUME FileInv, NEW s \in Streams, File!close(s)
  PROVE  FileInv'
<1>3. PICK m, c, made, new, own :
        m = m_file' /\ c = cFile' /\ made = opened' /\ new = handles' /\ own = kept'
  OBVIOUS
<1>4. /\ m = [m_file EXCEPT ![s] = 0] /\ new = File!Released(s, handles) /\ own = kept
      /\ c = File!Without(s, cFile, File!NoFile) /\ made = File!Without(s, opened, 0)
      /\ m_file[s] # 0
  BY <1>3 DEF File!close
<1>7. PICK last \in BOOLEAN : last <=> File!LastGoes(s)
  OBVIOUS
<1>8. PICK g : g = HandleOf(s)
  OBVIOUS
<1>9. /\ g \in Handles \ kept
      /\ \A t \in Streams : last /\ m_file[t] = m_file[s] => t = s
      /\ ~last => \E t \in Streams \ {s} : m_file[t] = m_file[s]
  BY <1>4, <1>7, <1>8 DEF File!LastGoes, File!Holders, FileInv, Owned, HandleOf, Streams
<1>10. /\ m_file \in [Streams -> 0 .. 3] /\ kept \subseteq Handles
       /\ cFile = [x \in 1 .. 3 |-> cFile[x]] /\ opened = [x \in 1 .. 3 |-> opened[x]]
       /\ handles = [k \in Handles |-> handles[k]] /\ \A k \in Handles : IsHandle(handles[k])
       /\ \A k \in kept : handles[k].file # 0
  BY DEF FileInv, Owned
<1>11. m \in [Streams -> 0 .. 3] /\ m[s] = 0 /\ \A t \in Streams \ {s} : m[t] = m_file[t]
  BY <1>4, <1>10
<1>12. /\ c = [x \in 1 .. 3 |-> c[x]] /\ made = [x \in 1 .. 3 |-> made[x]]
       /\ \A x \in 1 .. 3 : ~(last /\ x = m_file[s]) => c[x] = cFile[x] /\ made[x] = opened[x]
  BY <1>4, <1>7, <1>10 DEF File!Without
<1>14. new = [k \in Handles |-> IF last /\ k = g THEN File!Closed ELSE handles[k]]
  BY <1>4, <1>7, <1>8, <1>10 DEF File!Released, HandleOf
<1>15. /\ new = [k \in Handles |-> new[k]] /\ \A k \in Handles : IsHandle(new[k])
       /\ \A k \in Handles : last /\ k = g => new[k].file = 0
       /\ \A k \in Handles : ~(last /\ k = g) => new[k] = handles[k]
  BY <1>10, <1>14 DEF File!Closed, IsHandle
<1>16. \A k \in own : new[k].file # 0
  BY <1>4, <1>9, <1>10, <1>15
<1>17. ASSUME NEW t \in Streams, m[t] # 0
       PROVE  /\ c[m[t]].m_handle \in Handles \ own
              /\ new[c[m[t]].m_handle].file # 0 /\ new[c[m[t]].m_handle].file = made[m[t]]
              /\ t # s /\ c[m[t]].m_handle = HandleOf(t)
  <2>1. t # s /\ m_file[t] # 0 /\ m[t] = m_file[t] /\ m[t] \in 1 .. 3
    BY <1>10, <1>11, <1>17
  <2>2. c[m[t]].m_handle = HandleOf(t) /\ made[m[t]] = opened[m_file[t]]
    BY <1>9, <1>12, <2>1 DEF HandleOf
  <2>3. /\ HandleOf(t) \in Handles \ kept
        /\ handles[HandleOf(t)].file # 0 /\ handles[HandleOf(t)].file = opened[m_file[t]]
    BY <2>1 DEF FileInv, Owned, HandleOf
  <2>4. ~(last /\ HandleOf(t) = g)
    <3>1. HandleOf(t) = HandleOf(s) => m_file[t] = m_file[s]
      BY <1>4, <2>1 DEF FileInv, Owned, HandleOf
    <3> QED BY <1>8, <1>9, <2>1, <3>1
  <2> QED BY <1>4, <1>15, <2>1, <2>2, <2>3, <2>4
<1>18. ASSUME NEW t \in Streams, NEW u \in Streams, m[t] # 0, m[u] # 0, c[m[t]].m_handle = c[m[u]].m_handle
       PROVE  m[t] = m[u]
  <2>1. HandleOf(t) = HandleOf(u) /\ m_file[t] # 0 /\ m_file[u] # 0 /\ t # s /\ u # s
    BY <1>11, <1>17, <1>18
  <2>2. m_file[t] = m_file[u]
    BY <2>1 DEF FileInv, Owned, HandleOf
  <2> QED BY <1>11, <2>1, <2>2
<1>19. ASSUME NEW k \in Handles, new[k].file # 0
       PROVE  k \in own \/ \E t \in Streams : m[t] # 0 /\ c[m[t]].m_handle = k
  <2>1. ~(last /\ k = g) /\ handles[k].file # 0
    BY <1>15, <1>19
  <2>2. k \in kept \/ \E t \in Streams : m_file[t] # 0 /\ HandleOf(t) = k
    BY <2>1 DEF FileInv, Owned, HandleOf
  <2>3. ASSUME NEW t \in Streams, m_file[t] # 0, HandleOf(t) = k
        PROVE  \E u \in Streams : m[u] # 0 /\ c[m[u]].m_handle = k
    <3>1. PICK u \in Streams \ {s} : m_file[u] = m_file[t]
      <4>1. CASE t # s
        BY <4>1
      <4>2. CASE t = s
        BY <1>8, <1>9, <2>1, <2>3, <4>2
      <4> QED BY <4>1, <4>2
    <3>2. HandleOf(u) = k /\ m[u] = m_file[u] /\ m[u] # 0
      BY <1>11, <2>3, <3>1 DEF HandleOf
    <3> QED BY <1>17, <3>1, <3>2
  <2> QED BY <1>4, <2>2, <2>3
<1>20. own \subseteq Handles
  BY <1>4, <1>10
<1>21. Owned(new, m, c, made, own)
  BY <1>20, <1>11, <1>12, <1>15, <1>16, <1>17, <1>18, <1>19 DEF Owned
<1> QED BY <1>3, <1>21 DEF FileInv

(* A stream beside it takes the same cFile.                                 *)
LEMMA FileShared ==
  ASSUME FileInv, NEW s \in Streams, NEW other \in Streams, File!Shares(s, other)
  PROVE  FileInv'
<1>1. PICK m : m = m_file'
  OBVIOUS
<1>2. /\ m = [m_file EXCEPT ![s] = m_file[other]] /\ m_file[s] = 0 /\ m_file[other] # 0
      /\ UNCHANGED <<handles, cFile, opened, kept>>
  BY <1>1 DEF File!Shares
<1>3. m \in [Streams -> 0 .. 3] /\ m[s] = m_file[other] /\ \A t \in Streams \ {s} : m[t] = m_file[t]
  BY <1>2 DEF FileInv, Owned
<1>4. ASSUME NEW t \in Streams, m[t] # 0
      PROVE  \E u \in Streams : m_file[u] # 0 /\ m[t] = m_file[u]
  BY <1>2, <1>3, <1>4
<1>5. \A t \in Streams : m_file[t] # 0 => m[t] = m_file[t]
  BY <1>2, <1>3
<1>6. ASSUME NEW t \in Streams, NEW u \in Streams, m[t] # 0, m[u] # 0,
             cFile[m[t]].m_handle = cFile[m[u]].m_handle
      PROVE  m[t] = m[u]
  <2>1. PICK v, w \in Streams : m_file[v] # 0 /\ m[t] = m_file[v] /\ m_file[w] # 0 /\ m[u] = m_file[w]
    BY <1>4, <1>6
  <2> QED BY <1>6, <2>1 DEF FileInv, Owned
<1>7. \A t \in Streams : m[t] # 0 =>
        /\ cFile[m[t]].m_handle \in Handles \ kept
        /\ handles[cFile[m[t]].m_handle].file # 0 /\ handles[cFile[m[t]].m_handle].file = opened[m[t]]
  BY <1>4 DEF FileInv, Owned
<1>8. \A k \in Handles : handles[k].file # 0 =>
        k \in kept \/ \E t \in Streams : m[t] # 0 /\ cFile[m[t]].m_handle = k
  BY <1>5 DEF FileInv, Owned
<1>9. Owned(handles, m, cFile, opened, kept)
  BY <1>3, <1>6, <1>7, <1>8, SMTT(30) DEF FileInv, Owned
<1> QED BY <1>1, <1>2, <1>9 DEF FileInv

LEMMA LowestIs ==
  ASSUME NEW S \in SUBSET Nat, S # {}
  PROVE  File!Lowest(S) \in S
<1>1. \E x \in S : \A y \in S : x <= y
  BY LeastOf
<1> QED BY <1>1 DEF File!Lowest

(* The program opens a handle and closes one.                               *)
LEMMA ProgramOpened ==
  ASSUME FileInv, NEW n \in Name, File!ProgramOpens(n)
  PROVE  FileInv'
<1>1. PICK h, e : h = File!Lowest(File!Free) /\ e = File!OpensTo(disk[n], {"READWRITE"})
  OBVIOUS
<1>2. h \in Handles /\ handles[h].file = 0
  BY <1>1, LowestIs, FileAssumption DEF File!ProgramOpens, File!Free
<1>3. IsHandle(e) /\ e.file # 0
  BY <1>1 DEF File!ProgramOpens, File!OpensTo, IsHandle
<1>4. PICK hs, own : hs = handles' /\ own = kept'
  OBVIOUS
<1>5. hs = [k \in Handles |-> IF k = h THEN e ELSE handles[k]] /\ own = kept \cup {h}
  BY <1>1, <1>2, <1>4 DEF File!ProgramOpens, FileInv, Owned
<1>6. /\ hs = [k \in Handles |-> hs[k]] /\ \A k \in Handles : IsHandle(hs[k])
      /\ \A k \in Handles \ {h} : hs[k] = handles[k]
      /\ hs[h].file # 0 /\ own \subseteq Handles /\ \A k \in own : hs[k].file # 0
  BY <1>2, <1>3, <1>5 DEF FileInv, Owned
<1>7. \A s \in Streams : m_file[s] # 0 =>
        /\ HandleOf(s) \in Handles \ kept /\ HandleOf(s) # h
        /\ handles[HandleOf(s)].file # 0 /\ handles[HandleOf(s)].file = opened[m_file[s]]
  BY <1>2 DEF FileInv, Owned, HandleOf
<1>8. \A s \in Streams : m_file[s] # 0 =>
        /\ HandleOf(s) \in Handles \ own
        /\ hs[HandleOf(s)].file # 0 /\ hs[HandleOf(s)].file = opened[m_file[s]]
  BY <1>5, <1>6, <1>7
<1>9. \A k \in Handles : hs[k].file # 0 =>
        k \in own \/ \E s \in Streams : m_file[s] # 0 /\ HandleOf(s) = k
  BY <1>5, <1>6 DEF FileInv, Owned, HandleOf
<1>10. Owned(hs, m_file, cFile, opened, own)
  BY <1>6, <1>8, <1>9 DEF FileInv, Owned, HandleOf
<1>11. m_file' = m_file /\ cFile' = cFile /\ opened' = opened
  BY DEF File!ProgramOpens
<1> QED BY <1>4, <1>10, <1>11 DEF FileInv

LEMMA ProgramClosed ==
  ASSUME FileInv, NEW h \in Handles, File!ProgramCloses(h)
  PROVE  FileInv'
<1>1. PICK hs, own : hs = handles' /\ own = kept'
  OBVIOUS
<1>2. hs = [k \in Handles |-> IF k = h THEN File!Closed ELSE handles[k]] /\ own = kept \ {h} /\ h \in kept
  BY <1>1 DEF File!ProgramCloses, FileInv, Owned
<1>3. IsHandle(File!Closed) /\ File!Closed.file = 0
  BY DEF File!Closed, IsHandle
<1>4. /\ hs = [k \in Handles |-> hs[k]] /\ \A k \in Handles : IsHandle(hs[k])
      /\ \A k \in Handles \ {h} : hs[k] = handles[k]
      /\ hs[h].file = 0 /\ own \subseteq Handles /\ \A k \in own : hs[k].file # 0
  BY <1>2, <1>3 DEF FileInv, Owned
<1>5. \A s \in Streams : m_file[s] # 0 =>
        /\ HandleOf(s) \in Handles \ own
        /\ hs[HandleOf(s)].file # 0 /\ hs[HandleOf(s)].file = opened[m_file[s]]
  BY <1>2, <1>4 DEF FileInv, Owned, HandleOf
<1>6. \A k \in Handles : hs[k].file # 0 =>
        k \in own \/ \E s \in Streams : m_file[s] # 0 /\ HandleOf(s) = k
  BY <1>2, <1>4 DEF FileInv, Owned, HandleOf
<1>7. Owned(hs, m_file, cFile, opened, own)
  BY <1>4, <1>5, <1>6 DEF FileInv, Owned, HandleOf
<1>8. m_file' = m_file /\ cFile' = cFile /\ opened' = opened
  BY DEF File!ProgramCloses
<1> QED BY <1>1, <1>7, <1>8 DEF FileInv

(* open, and openHandle of a handle that the program gives away for good.   *)
LEMMA FileOpens ==
  ASSUME FileInv, NEW s \in Streams, NEW n \in Name, NEW flags \in OpenFlags, File!open(s, n, flags)
  PROVE  FileInv'
<1>1. PICK f : f = (IF "CREATE" \in flags /\ disk[n] = 0 THEN File!Lowest(File!Unused) ELSE disk[n])
  OBVIOUS
<1>2. PICK h, e : h = File!Lowest(File!Free) /\ e = File!OpensTo(f, flags)
  OBVIOUS
<1>3. h \in Handles /\ handles[h].file = 0
  BY <1>2, LowestIs, FileAssumption DEF File!open, File!Free
<1>4. IsHandle(e) /\ e.file # 0
  BY <1>1, <1>2 DEF File!open, File!OpensTo, IsHandle
<1>5. PICK hs : hs = [handles EXCEPT ![h] = e]
  OBVIOUS
<1>6. hs = [k \in Handles |-> IF k = h THEN hs[h] ELSE handles[k]] /\ hs[h] = e
  BY <1>3, <1>5 DEF FileInv, Owned
<1>7. \A t \in Streams : m_file[t] # 0 => HandleOf(t) # h
  BY <1>3 DEF FileInv, Owned, HandleOf
<1>8. h \notin kept /\ kept' = kept \ {h}
  <2>1. h \notin kept
    BY <1>3 DEF FileInv, Owned
  <2>2. kept' = kept
    BY DEF File!open
  <2> QED BY <2>1, <2>2
<1>9. File!NewFile(s, h, hs, flags)
  BY <1>1, <1>2, <1>5 DEF File!open
<1> QED BY <1>3, <1>4, <1>6, <1>7, <1>8, <1>9, FileTaken

LEMMA FileGiven ==
  ASSUME FileInv, NEW s \in Streams, NEW h \in Handles, File!openHandle(s, h, TRUE)
  PROVE  FileInv'
<1>1. h \in kept /\ kept' = kept \ {h} /\ File!NewFile(s, h, handles, {"READWRITE"})
  BY DEF File!openHandle
<1>2. handles = [k \in Handles |-> IF k = h THEN handles[h] ELSE handles[k]]
  BY DEF FileInv, Owned
<1>3. IsHandle(handles[h]) /\ handles[h].file # 0 /\ \A t \in Streams : m_file[t] # 0 => HandleOf(t) # h
  BY <1>1 DEF FileInv, Owned, HandleOf
<1> QED BY <1>1, <1>2, <1>3, FileTaken

LEMMA FileStarts == ASSUME File!FileInit PROVE FileInv
<1>1. PICK o : o = File!Object
  OBVIOUS
<1>2. o = 1 .. 3
  BY <1>1, FileObjects
<1>3. /\ handles = [h \in Handles |-> File!Closed] /\ kept = {} /\ m_file = [s \in Streams |-> 0]
      /\ cFile = [x \in o |-> File!NoFile] /\ opened = [x \in o |-> 0]
  BY <1>1 DEF File!FileInit, Streams
<1>4. IsHandle(File!Closed) /\ File!Closed.file = 0
  BY DEF File!Closed, IsHandle
<1> QED BY <1>2, <1>3, <1>4 DEF FileInv, Owned

LEMMA FileSteps == ASSUME ~Lends, FileInv, [File!FileNext]_(File!fileVars) PROVE FileInv'
<1>1. CASE UNCHANGED File!fileVars
  BY <1>1 DEF File!fileVars, FileInv
<1>2. CASE File!PipeTurn
  BY <1>2, PointersMove DEF File!PipeTurn, File!Moved, File!Rest
<1>3. CASE \E n \in Name : File!ProgramOpens(n)
  BY <1>3, ProgramOpened
<1>4. CASE \E n \in Name : File!deleteFile(n)
  BY <1>4 DEF File!deleteFile, FileInv
<1>5. CASE \E h \in Handles : File!ProgramCloses(h)
  BY <1>5, ProgramClosed
<1>6. ASSUME NEW s \in Streams, File!close(s) PROVE FileInv'
  BY <1>6, FileLeft
<1>7. ASSUME NEW s \in Streams, File!length(s) PROVE FileInv'
  BY <1>7, PointersMove DEF File!length, File!Moved, File!Rest
<1>8. ASSUME NEW s \in Streams, NEW n \in Name, NEW openFlags \in OpenFlags, File!open(s, n, openFlags)
      PROVE  FileInv'
  BY <1>8, FileOpens
<1>9. ASSUME NEW s \in Streams, NEW other \in Streams, File!Shares(s, other) PROVE FileInv'
  BY <1>9, FileShared
<1>10. ASSUME NEW s \in Streams, NEW h \in Handles, NEW closeHandle \in BOOLEAN,
              File!openHandle(s, h, closeHandle)
       PROVE  FileInv'
  BY <1>10, FileGiven DEF File!openHandle
<1>11. ASSUME NEW s \in Streams, NEW k \in 1 .. MaxPlace, File!write(s, k) PROVE FileInv'
  BY <1>11, PointersMove DEF File!write, File!Moved, File!Rest
<1>12. ASSUME NEW s \in Streams, NEW k \in 1 .. MaxPlace, File!pipeRead(s, k) PROVE FileInv'
  BY <1>12 DEF File!pipeRead, File!Rest, FileInv
<1>13. ASSUME NEW s \in Streams, NEW to \in 0 .. MaxPlace, File!seek(s, to) PROVE FileInv'
  BY <1>13, PointersMove DEF File!seek, File!Moved, File!Rest
<1> QED BY <1>1, <1>2, <1>3, <1>4, <1>5, <1>6, <1>7, <1>8, <1>9, <1>10, <1>11, <1>12, <1>13
        DEF File!FileNext, Streams

LEMMA FileAlone ==
  ASSUME [Next]_vars PROVE [File!FileNext]_(File!fileVars)
BY DEF Next, vars, CacheMoves, BitsMove, RleMoves, LzwMoves, PipeMoves, OthersRest,
       SocketMoves, SocketRest, FileMoves, FileRest, MemoryMoves, RecordsMove, CiphersMove,
       streamVars, fileVars, File!fileVars

LEMMA FilesShow == FileInv => File!StreamsStayOnFiles
BY DEF FileInv, Owned, HandleOf, File!StreamsStayOnFiles, File!At, File!m_handle, File!Free, Streams

-----------------------------------------------------------------------------
(* The streams over memory of a run are those of MemoryProofs.              *)
OfMemory == INSTANCE MemoryProofs

LEMMA MemoryOfRun ==
  /\ Memory!MemoryConstants => OfMemory!MemoryConstants
  /\ Memory!MemoryInit => OfMemory!MemoryInit
  /\ Memory!MemoryNext => OfMemory!MemoryNext
  /\ OfMemory!IsMemoryStream => Memory!IsMemoryStream
  /\ OfMemory!AddressesChecked => Memory!AddressesChecked
<1>1. Memory!MemoryConstants => OfMemory!MemoryConstants
  BY DEF Memory!MemoryConstants, OfMemory!MemoryConstants
<1>2. Memory!MemoryInit => OfMemory!MemoryInit
  BY DEF Memory!MemoryInit, OfMemory!MemoryInit, Memory!NewStream, OfMemory!NewStream, Memory!Nothing,
         OfMemory!Nothing, Memory!NoNumber, OfMemory!NoNumber, Memory!zero, OfMemory!zero
<1>3. Memory!MemoryNext => OfMemory!MemoryNext
  <2>1. \A a, n : Memory!Throws(a, n) <=> OfMemory!Throws(a, n)
    BY DEF Memory!Throws, OfMemory!Throws, Memory!getAddressThrows, OfMemory!getAddressThrows,
           Memory!Physical, OfMemory!Physical, Memory!m_startAddress, OfMemory!m_startAddress,
           Memory!m_endAddress, OfMemory!m_endAddress
  <2>2. \A a, n : Memory!memread(a, n) = OfMemory!memread(a, n)
    BY DEF Memory!memread, OfMemory!memread, Memory!Physical, OfMemory!Physical, Memory!m_startAddress,
           OfMemory!m_startAddress
  <2>3. \A a, b : Memory!Written(a, b) = OfMemory!Written(a, b)
    BY DEF Memory!Written, OfMemory!Written, Memory!Physical, OfMemory!Physical, Memory!m_startAddress,
           OfMemory!m_startAddress
  <2>4. \A a, b, p : Memory!Follows(a, b, p) <=> OfMemory!Follows(a, b, p)
    BY DEF Memory!Follows, OfMemory!Follows, Memory!AfterWrite, OfMemory!AfterWrite, Memory!Accepted,
           OfMemory!Accepted, Memory!Least, OfMemory!Least
  <2>5. \A b : Memory!AfterWrite(twin, b, TRUE) = OfMemory!AfterWrite(twin, b, TRUE)
    BY DEF Memory!AfterWrite, OfMemory!AfterWrite, Memory!Accepted, OfMemory!Accepted, Memory!Least,
           OfMemory!Least
  <2>6. \A n : Memory!AfterRead(twin, n) = OfMemory!AfterRead(twin, n)
    BY DEF Memory!AfterRead, OfMemory!AfterRead, Memory!Least, OfMemory!Least
  <2>7. \A s, n : Memory!Sized(s, n) = OfMemory!Sized(s, n)
    BY DEF Memory!Sized, OfMemory!Sized, Memory!Least, OfMemory!Least
  <2>8. \A l : Memory!Strings(l) = OfMemory!Strings(l)
    BY DEF Memory!Strings, OfMemory!Strings
  <2>9. \A s, n : Memory!Advances(s, n) <=> OfMemory!Advances(s, n)
    BY DEF Memory!Advances, OfMemory!Advances
  <2>10. Memory!writeUint => OfMemory!writeUint
    BY <2>1, <2>3, <2>4, <2>8 DEF Memory!writeUint, OfMemory!writeUint, Memory!Nothing, OfMemory!Nothing
  <2>11. ASSUME NEW s, Memory!read(s) PROVE OfMemory!read(s)
    <3>0. PICK rest : rest = IF streams[s].m_ignoreFragments THEN "zero" ELSE "as it was"
      BY Zenon
    <3>1. PICK length \in 1 .. MaxRequest :
            /\ ~Memory!AtEnd(s) /\ ~Memory!Throws(streams[s].m_filePosition, Memory!Sized(s, length))
            /\ Memory!Advances(s, Memory!Sized(s, length))
            /\ buffer' = [stream |-> s, count |-> Memory!Sized(s, length),
                          bytes |-> Memory!memread(streams[s].m_filePosition, Memory!Sized(s, length))
                            \o [k \in 1 .. length - Memory!Sized(s, length) |-> rest]]
            /\ twin' = IF s = 1 THEN Memory!AfterRead(twin, length) ELSE twin
            /\ number' = Memory!NoNumber /\ UNCHANGED <<memory, accesser, overran>>
      BY <2>11, <3>0, Zenon DEF Memory!read
    <3>2. /\ ~OfMemory!AtEnd(s) /\ ~OfMemory!Throws(streams[s].m_filePosition, OfMemory!Sized(s, length))
          /\ OfMemory!Advances(s, OfMemory!Sized(s, length))
          /\ buffer' = [stream |-> s, count |-> OfMemory!Sized(s, length),
                        bytes |-> OfMemory!memread(streams[s].m_filePosition, OfMemory!Sized(s, length))
                          \o [k \in 1 .. length - OfMemory!Sized(s, length) |-> rest]]
          /\ twin' = IF s = 1 THEN OfMemory!AfterRead(twin, length) ELSE twin
          /\ number' = OfMemory!NoNumber /\ UNCHANGED <<memory, accesser, overran>>
      BY <2>1, <2>2, <2>6, <2>7, <2>9, <3>1 DEF Memory!AtEnd, OfMemory!AtEnd, Memory!NoNumber, OfMemory!NoNumber
    <3> QED BY <3>0, <3>2, Zenon DEF OfMemory!read
  <2>12. \A s : Memory!write(s) => OfMemory!write(s)
    BY <2>1, <2>3, <2>4, <2>5, <2>7, <2>8, <2>9
       DEF Memory!write, OfMemory!write, Memory!AtEnd, OfMemory!AtEnd, Memory!Nothing, OfMemory!Nothing,
           Memory!NoNumber, OfMemory!NoNumber
  <2>13. \A s : Memory!seek(s) => OfMemory!seek(s)
    BY DEF Memory!seek, OfMemory!seek, Memory!Sought, OfMemory!Sought, Memory!CanSeek, OfMemory!CanSeek,
           Memory!Methods, OfMemory!Methods, Memory!AfterSeek, OfMemory!AfterSeek, Memory!Clamped,
           OfMemory!Clamped, Memory!Least, OfMemory!Least, Memory!Nothing, OfMemory!Nothing,
           Memory!NoNumber, OfMemory!NoNumber
  <2>14. \A s : Memory!fork(s) => OfMemory!fork(s)
    BY DEF Memory!fork, OfMemory!fork
  <2>15. \A s : Memory!forkRegion(s) => OfMemory!forkRegion(s)
    BY DEF Memory!forkRegion, OfMemory!forkRegion, Memory!NewStream, OfMemory!NewStream
  <2> QED BY <2>10, <2>11, <2>12, <2>13, <2>14, <2>15
      DEF Memory!MemoryNext, OfMemory!MemoryNext, Memory!Nothing, OfMemory!Nothing, Memory!NoNumber,
          OfMemory!NoNumber
<1>4. OfMemory!IsMemoryStream => Memory!IsMemoryStream
  BY DEF Memory!IsMemoryStream, OfMemory!IsMemoryStream, Memory!memread, OfMemory!memread,
         Memory!readUint, OfMemory!readUint, Memory!Physical, OfMemory!Physical, Memory!NoNumber,
         OfMemory!NoNumber, Memory!zero, OfMemory!zero, Memory!m_startAddress, OfMemory!m_startAddress,
         Memory!m_endAddress, OfMemory!m_endAddress
<1>5. OfMemory!AddressesChecked => Memory!AddressesChecked
  BY DEF Memory!AddressesChecked, OfMemory!AddressesChecked, Memory!Throws, OfMemory!Throws,
         Memory!getAddressThrows, OfMemory!getAddressThrows, Memory!Physical, OfMemory!Physical,
         Memory!m_startAddress, OfMemory!m_startAddress, Memory!m_endAddress, OfMemory!m_endAddress
<1> QED BY <1>1, <1>2, <1>3, <1>4, <1>5

LEMMA MemoryAlone ==
  ASSUME [Next]_vars PROVE [OfMemory!MemoryNext]_(OfMemory!memoryVars)
<1>1. Memory!MemoryNext \/ UNCHANGED memoryVars
  BY DEF Next, vars, CacheMoves, BitsMove, RleMoves, LzwMoves, PipeMoves, SocketMoves, FileMoves, MemoryMoves,
         RecordsMove, CiphersMove, OthersRest, SocketRest, FileRest, streamVars
<1> QED BY <1>1, MemoryOfRun DEF memoryVars, OfMemory!memoryVars

(* copyStream gives the destination what it has taken from the source;      *)
(* streams on files read and write their file, at the place the system and  *)
(* the stream agree on; and streams over memory are in their regions, write *)
(* nothing outside of the buffer but the byte behind it, and the first one  *)
(* is the memory stream it looks like.  A program that lends its handles is *)
(* promised nothing of its files.                                           *)
BytesInv == PipeInv /\ (Lends \/ FileInv)

THEOREM BytesAreKept == Spec => []BytesKept
<1>1. Init => BytesInv
  BY PipeStarts, FileStarts DEF Init, BytesInv
<1>2. ASSUME BytesInv, [Next]_vars PROVE BytesInv'
  <2>1. PipeInv'
    BY <1>2, PipeAlone, PipeSteps DEF BytesInv
  <2>2. (Lends \/ FileInv)'
    BY <1>2, FileAlone, FileSteps DEF BytesInv
  <2> QED BY <2>1, <2>2 DEF BytesInv
<1>3. OfMemory!MemoryConstants
  BY MemoryAssumption, MemoryOfRun
<1>4. /\ Init => OfMemory!MemoryInit
      /\ [Next]_vars => [OfMemory!MemoryNext]_(OfMemory!memoryVars)
  BY MemoryOfRun, MemoryAlone DEF Init
<1>5. OfMemory!MemoryInit /\ [][OfMemory!MemoryNext]_(OfMemory!memoryVars)
        => [](OfMemory!IsMemoryStream /\ OfMemory!AddressesChecked)
  BY <1>3, OfMemory!MemoryIsKept
<1>6. ASSUME BytesInv, OfMemory!IsMemoryStream /\ OfMemory!AddressesChecked PROVE BytesKept
  <2>1. Pipe!CopyIsExact
    BY <1>6 DEF BytesInv, PipeInv
  <2>2. File!StreamsStayOnFiles
    BY <1>6, FilesShow DEF BytesInv, File!StreamsStayOnFiles
  <2>3. Memory!IsMemoryStream /\ Memory!AddressesChecked
    BY <1>6, MemoryOfRun
  <2> QED BY <2>1, <2>2, <2>3 DEF BytesKept
<1> QED BY <1>1, <1>2, <1>4, <1>5, <1>6, PTL DEF Spec

=============================================================================
