----------------------------- MODULE ListProofs ------------------------------
(***************************************************************************)
(* The links of the containers for every length and every set of elements: *)
(* a list is as long as it should be, linked both ways and holds what was  *)
(* put into it, sorted if it is an ordered one; an iterator stays on its   *)
(* element; boubbleSort sorts; an index that left an array is known to be  *)
(* outside; and an edge of a graph is in the lists of both its ends.  The  *)
(* lemmas of the first pages are about numbers and sequences and serve the *)
(* theorems of the other containers too.                                   *)
(***************************************************************************)
EXTENDS Containers, WellFoundedInduction, SequenceTheorems, FiniteSetTheorems, TLAPS

(* Division with a remainder. *)
LEMMA DivMod ==
  ASSUME NEW a \in Nat, NEW p \in Nat \ {0}
  PROVE  a \div p \in Nat /\ a % p \in 0 .. p - 1 /\ a = p * (a \div p) + (a % p)
BY SMT

(* A set of numbers that is not empty has a least member. *)
LEMMA LeastOf ==
  ASSUME NEW S \in SUBSET Nat, S # {}
  PROVE  \E b \in S : \A c \in S : b <= c
<1>1. PICK R : IsWellFoundedOn(R, Nat) /\ \A m, n \in Nat : m < n => <<m, n>> \in R
  <2>1. \A m, n \in Nat : m < n => <<m, n>> \in OpToRel(<, Nat)
    BY DEF OpToRel
  <2>2. QED
    BY <2>1, NatLessThanWellFounded, Zenon
<1>2. S \subseteq Nat
  OBVIOUS
<1>3. \E b \in S : \A c \in S : ~(<<c, b>> \in R)
  <2>1. IsWellFoundedOn(R, Nat) /\ S # {}
    BY <1>1
  <2>2. QED
    BY <1>2, <2>1, WFMin, Zenon
<1>4. PICK b \in S : \A c \in S : ~(<<c, b>> \in R)
  BY <1>3
<1>5. ASSUME NEW c \in S PROVE b <= c
  <2>1. b \in Nat /\ c \in Nat /\ ~(<<c, b>> \in R)
    BY <1>2, <1>4
  <2>2. ~(c < b)
    BY <1>1, <2>1
  <2>3. QED
    BY <2>1, <2>2
<1>6. QED
  BY <1>5

(* A number below p added to a multiple of p is a remainder. *)
LEMMA DivIs ==
  ASSUME NEW q \in Nat, NEW p \in Nat \ {0}, NEW r \in 0 .. p - 1
  PROVE  (p * q + r) \div p = q
BY SMTT(30)

(* Multiples in order, and the next one. *)
LEMMA Multiples ==
  ASSUME NEW q \in Nat, NEW r \in Nat, NEW p \in Nat
  PROVE  /\ p * q \in Nat /\ p * q = q * p /\ p * (q + 1) = p * q + p
         /\ q <= r => p * q <= p * r
BY SMTT(30)

(* A function on 1 .. n is a sequence of n. *)
LEMMA FunctionIsSeq ==
  ASSUME NEW S, NEW n \in Nat, NEW f \in [1 .. n -> S]
  PROVE  f \in Seq(S) /\ Len(f) = n
OBVIOUS

(* Induction over 0 .. n, for a set of the numbers that have a property. *)
LEMMA Induction ==
  ASSUME NEW n \in Nat, NEW S, 0 \in S, \A k \in 0 .. n - 1 : k \in S => k + 1 \in S
  PROVE  0 .. n \subseteq S
<1>1. PICK missing : missing = {k \in 0 .. n : k \notin S}
  OBVIOUS
<1>2. CASE missing = {}
  BY <1>1, <1>2
<1>3. CASE missing # {}
  <2>1. missing \in SUBSET Nat
    BY <1>1
  <2>2. PICK k \in missing : \A j \in missing : k <= j
    BY <1>3, <2>1, LeastOf
  <2>3. k \in 0 .. n /\ k \notin S /\ k # 0
    BY <1>1, <2>2
  <2>4. k - 1 \in 0 .. n - 1 /\ (k - 1) + 1 = k
    BY <2>3
  <2>5. k - 1 \in S
    <3>1. k - 1 \notin missing
      BY <2>2, <2>3, <2>4
    <3>2. k - 1 \in 0 .. n
      BY <2>3, <2>4
    <3>3. QED
      BY <1>1, <3>1, <3>2
  <2>6. QED
    BY <2>3, <2>4, <2>5
<1>4. QED
  BY <1>2, <1>3

(* A function on 0 .. n that begins with b and goes on by steps. *)
Recursive(f, n, D, b, step) ==
  f \in [0 .. n -> D] /\ f[0] = b /\ \A k \in 1 .. n : f[k] = step[<<f[k - 1], k>>]

(* There is one. *)
LEMMA Recursion ==
  ASSUME NEW n \in Nat, NEW D, NEW b \in D, NEW step \in [D \X (1 .. n) -> D]
  PROVE  \E f : Recursive(f, n, D, b, step)
<1>1. PICK S : S = {m \in 0 .. n : \E f \in [0 .. m -> D] :
                      f[0] = b /\ \A k \in 1 .. m : f[k] = step[<<f[k - 1], k>>]}
  OBVIOUS
<1>2. 0 \in S
  <2>1. PICK f \in [0 .. 0 -> D] : f[0] = b
    <3>1. [k \in 0 .. 0 |-> b] \in [0 .. 0 -> D] /\ [k \in 0 .. 0 |-> b][0] = b
      OBVIOUS
    <3>2. QED
      BY <3>1
  <2>2. QED
    BY <1>1, <2>1
<1>3. ASSUME NEW m \in 0 .. n - 1, m \in S PROVE m + 1 \in S
  <2>1. PICK f \in [0 .. m -> D] : f[0] = b /\ \A k \in 1 .. m : f[k] = step[<<f[k - 1], k>>]
    BY <1>1, <1>3
  <2>2. PICK x : x = step[<<f[m], m + 1>>]
    OBVIOUS
  <2>3. x \in D
    <3>1. f[m] \in D /\ m + 1 \in 1 .. n
      BY <2>1
    <3>2. QED
      BY <2>2, <3>1
  <2>4. PICK g : g = [j \in 0 .. m + 1 |-> IF j = m + 1 THEN x ELSE f[j]]
    OBVIOUS
  <2>5. g \in [0 .. m + 1 -> D]
    <3>1. ASSUME NEW j \in 0 .. m + 1 PROVE (IF j = m + 1 THEN x ELSE f[j]) \in D
      <4>1. CASE j = m + 1
        BY <2>3, <4>1
      <4>2. CASE j # m + 1
        BY <2>1, <4>2
      <4>3. QED
        BY <4>1, <4>2
    <3>2. QED
      BY <2>4, <3>1
  <2>6. g[0] = b
    BY <2>1, <2>4
  <2>7. ASSUME NEW k \in 1 .. m + 1 PROVE g[k] = step[<<g[k - 1], k>>]
    <3>1. k - 1 \in 0 .. m + 1 /\ k - 1 # m + 1 /\ g[k - 1] = f[k - 1]
      BY <2>4
    <3>2. CASE k = m + 1
      <4>1. k - 1 = m
        BY <3>2
      <4>2. QED
        BY <2>2, <2>4, <3>1, <3>2, <4>1
    <3>3. CASE k # m + 1
      <4>1. k \in 1 .. m
        BY <3>3
      <4>2. QED
        BY <2>1, <2>4, <3>1, <3>3, <4>1
    <3>4. QED
      BY <3>2, <3>3
  <2>8. m + 1 \in 0 .. n
    OBVIOUS
  <2>9. QED
    BY <1>1, <2>5, <2>6, <2>7, <2>8
<1>4. n \in S
  <2>1. 0 .. n \subseteq S
    BY <1>2, <1>3, Induction
  <2>2. QED
    BY <2>1
<1>5. PICK f \in [0 .. n -> D] : f[0] = b /\ \A k \in 1 .. n : f[k] = step[<<f[k - 1], k>>]
  BY <1>1, <1>4
<1>6. Recursive(f, n, D, b, step)
  BY <1>5 DEF Recursive
<1>7. QED
  BY <1>6

LEMMA AppendedSeq ==
  ASSUME NEW S, NEW s \in Seq(S), NEW e \in S
  PROVE  /\ Append(s, e) \in Seq(S) /\ Len(Append(s, e)) = Len(s) + 1
         /\ Append(s, e)[Len(s) + 1] = e
         /\ \A j \in 1 .. Len(s) : Append(s, e)[j] = s[j]
OBVIOUS

(* Where the elements of a sequence are when one is taken out. *)
LEMMA RemovedSeq ==
  ASSUME NEW S, NEW s \in Seq(S), NEW k \in 1 .. Len(s)
  PROVE  /\ Hash!RemoveAt(s, k) \in Seq(S) /\ Len(Hash!RemoveAt(s, k)) = Len(s) - 1
         /\ \A j \in 1 .. Len(s) - 1 : Hash!RemoveAt(s, k)[j] = s[IF j < k THEN j ELSE j + 1]
<1>1. PICK len \in Nat : len = Len(s)
  OBVIOUS
<1>2. PICK a : a = SubSeq(s, 1, k - 1)
  OBVIOUS
<1>3. PICK b : b = SubSeq(s, k + 1, len)
  OBVIOUS
<1>4. a \in Seq(S) /\ Len(a) = k - 1 /\ \A j \in 1 .. k - 1 : a[j] = s[j]
  BY <1>1, <1>2
<1>5. b \in Seq(S) /\ Len(b) = len - k /\ \A j \in 1 .. len - k : b[j] = s[k + j]
  BY <1>1, <1>3
<1>6. PICK c : c = a \o b
  OBVIOUS
<1>7. /\ c \in Seq(S) /\ Len(c) = Len(a) + Len(b)
      /\ \A j \in 1 .. Len(a) + Len(b) : c[j] = IF j <= Len(a) THEN a[j] ELSE b[j - Len(a)]
  BY <1>4, <1>5, <1>6, ConcatProperties
<1>8. Len(c) = len - 1
  BY <1>1, <1>4, <1>5, <1>7
<1>9. ASSUME NEW j \in 1 .. len - 1 PROVE c[j] = s[IF j < k THEN j ELSE j + 1]
  <2>1. j \in 1 .. Len(a) + Len(b)
    BY <1>1, <1>4, <1>5
  <2>2. CASE j < k
    <3>1. j <= Len(a) /\ j \in 1 .. k - 1
      BY <1>1, <1>4, <2>2
    <3>2. QED
      BY <1>4, <1>7, <2>1, <2>2, <3>1
  <2>3. CASE ~(j < k)
    <3>1. ~(j <= Len(a)) /\ j - Len(a) = j - (k - 1) /\ j - (k - 1) \in 1 .. len - k /\ k + (j - (k - 1)) = j + 1
      BY <1>1, <1>4, <2>3
    <3>2. c[j] = b[j - (k - 1)]
      BY <1>7, <2>1, <3>1
    <3>3. b[j - (k - 1)] = s[j + 1]
      BY <1>5, <3>1
    <3>4. QED
      BY <2>3, <3>2, <3>3
  <2>4. QED
    BY <2>2, <2>3
<1>10. Hash!RemoveAt(s, k) = c
  BY <1>1, <1>2, <1>3, <1>6 DEF Hash!RemoveAt
<1>11. QED
  BY <1>1, <1>7, <1>8, <1>9, <1>10

-----------------------------------------------------------------------------
(* The graph.  The lists nb of neighbors hold the edges of E and no others, *)
(* and each of them as often on the one side as on the other.               *)
EntriesOf(nb, a, b) == {k \in DOMAIN nb[a] : nb[a][k] = b}
Matched(S, T) == \E both \in [S -> T] : {both[k] : k \in S} = T
Joined(nb, E) ==
  /\ nb \in [NodeId -> Seq(NodeId)]
  /\ \A a, b \in NodeId : EntriesOf(nb, a, b) # {} <=> (a # b /\ {a, b} \in E)
  /\ \A a, b \in NodeId : Matched(EntriesOf(nb, a, b), EntriesOf(nb, b, a))

LEMMA MatchedItself ==
  ASSUME NEW S
  PROVE  Matched(S, S)
<1>1. PICK f : f = [k \in S |-> k]
  OBVIOUS
<1>2. f \in [S -> S] /\ {f[k] : k \in S} = S
  BY <1>1
<1>3. QED
  BY <1>2 DEF Matched

LEMMA MatchedMore ==
  ASSUME NEW S, NEW T, NEW x, NEW y, Matched(S, T), x \notin S
  PROVE  Matched(S \cup {x}, T \cup {y})
<1>1. PICK f \in [S -> T] : {f[k] : k \in S} = T
  BY DEF Matched
<1>2. PICK g : g = [k \in S \cup {x} |-> IF k = x THEN y ELSE f[k]]
  OBVIOUS
<1>3. \A k \in S : g[k] = f[k] /\ f[k] \in T
  BY <1>1, <1>2
<1>4. g[x] = y
  BY <1>2
<1>5. g \in [S \cup {x} -> T \cup {y}]
  <2>1. \A k \in S \cup {x} : g[k] \in T \cup {y}
    BY <1>3, <1>4
  <2>2. QED
    BY <1>2, <2>1
<1>6. {g[k] : k \in S \cup {x}} = T \cup {y}
  <2>1. \A z \in T : \E k \in S : g[k] = z
    BY <1>1, <1>3
  <2>2. QED
    BY <1>3, <1>4, <2>1
<1>7. QED
  BY <1>5, <1>6 DEF Matched

LEMMA NeighborIs ==
  ASSUME NEW nb, NEW a, NEW b
  PROVE  Nodes!isNeighbor(nb, a, b) <=> EntriesOf(nb, a, b) # {}
BY DEF Nodes!isNeighbor, Nodes!Elements, EntriesOf

(* What two nodes can be connected by a call, wherever they are.            *)
LEMMA WantedIs ==
  ASSUME NEW a, NEW b, NEW pair
  PROVE  pair \in Nodes!Wanted({a, b}) <=>
           pair = {a, b} /\ a # b /\ Nodes!isNodeExists(a) /\ Nodes!isNodeExists(b)
BY DEF Nodes!Wanted, Nodes!isNodeExists

(* One entry more at the end of one list. *)
OneMore(nb, nc, a, b) ==
  /\ nc \in [NodeId -> Seq(NodeId)]
  /\ EntriesOf(nc, a, b) = EntriesOf(nb, a, b) \cup {Len(nb[a]) + 1}
  /\ Len(nb[a]) + 1 \notin EntriesOf(nb, a, b)
  /\ \A c, d \in NodeId : c # a \/ d # b => EntriesOf(nc, c, d) = EntriesOf(nb, c, d)

LEMMA EntryAdded ==
  ASSUME NEW nb \in [NodeId -> Seq(NodeId)], NEW a \in NodeId, NEW b \in NodeId
  PROVE  OneMore(nb, [nb EXCEPT ![a] = Append(nb[a], b)], a, b)
<1>0. PICK nc : nc = [nb EXCEPT ![a] = Append(nb[a], b)]
  OBVIOUS
<1>1. PICK s : s = Append(nb[a], b)
  OBVIOUS
<1>2. PICK m \in Nat : m = Len(nb[a]) /\ DOMAIN nb[a] = 1 .. m /\ nb[a] \in Seq(NodeId)
  OBVIOUS
<1>3. /\ s \in Seq(NodeId) /\ Len(s) = m + 1 /\ s[m + 1] = b
      /\ \A j \in 1 .. m : s[j] = nb[a][j]
  BY <1>1, <1>2, AppendedSeq
<1>4. DOMAIN s = (1 .. m) \cup {m + 1}
  BY <1>3
<1>5. nc = [nb EXCEPT ![a] = s]
  BY <1>0, <1>1
<1>6. nc \in [NodeId -> Seq(NodeId)] /\ nc[a] = s /\ \A c \in NodeId : c # a => nc[c] = nb[c]
  BY <1>3, <1>5
<1>7. EntriesOf(nc, a, b) = EntriesOf(nb, a, b) \cup {m + 1}
  BY <1>2, <1>3, <1>4, <1>6 DEF EntriesOf
<1>8. m + 1 \notin EntriesOf(nb, a, b)
  BY <1>2 DEF EntriesOf
<1>9. ASSUME NEW c \in NodeId, NEW d \in NodeId, c # a \/ d # b
      PROVE  EntriesOf(nc, c, d) = EntriesOf(nb, c, d)
  <2>1. CASE c # a
    BY <1>6, <2>1 DEF EntriesOf
  <2>2. CASE c = a /\ d # b
    BY <1>2, <1>3, <1>4, <1>6, <2>2 DEF EntriesOf
  <2>3. QED
    BY <1>9, <2>1, <2>2
<1>10. OneMore(nb, nc, a, b)
  BY <1>2, <1>6, <1>7, <1>8, <1>9 DEF OneMore
<1>11. QED
  BY <1>0, <1>10

(* Lists of neighbors stay lists. *)
LEMMA ConnectedTyped ==
  ASSUME NEW nb \in [NodeId -> Seq(NodeId)], NEW a \in NodeId, NEW b \in NodeId, NEW dup \in BOOLEAN
  PROVE  Nodes!Connected(nb, a, b, dup) \in [NodeId -> Seq(NodeId)]
<1>1. ASSUME NEW nc \in [NodeId -> Seq(NodeId)], NEW c \in NodeId, NEW d \in NodeId
      PROVE  Nodes!Entered(nc, c, d, dup) \in [NodeId -> Seq(NodeId)]
  <2>1. OneMore(nc, [nc EXCEPT ![c] = Append(nc[c], d)], c, d)
    BY EntryAdded
  <2>2. QED
    BY <2>1 DEF OneMore, Nodes!Entered
<1>2. PICK nc \in [NodeId -> Seq(NodeId)] : nc = Nodes!Entered(nb, a, b, dup)
  BY <1>1
<1>3. Nodes!Entered(nc, b, a, dup) \in [NodeId -> Seq(NodeId)]
  BY <1>1
<1>4. QED
  BY <1>2, <1>3 DEF Nodes!Connected

LEMMA ConnectedJoins ==
  ASSUME NEW nb, NEW E, Joined(nb, E), NEW a \in NodeId, NEW b \in NodeId, NEW dup \in BOOLEAN
  PROVE  Joined(Nodes!Connected(nb, a, b, dup), E \cup Nodes!Wanted({a, b}))
<1>1. nb \in [NodeId -> Seq(NodeId)]
  BY DEF Joined
<1>2. CASE ~(a # b /\ Nodes!isNodeExists(a) /\ Nodes!isNodeExists(b))
  <2>1. Nodes!Wanted({a, b}) = {}
    BY <1>2, WantedIs
  <2>2. Nodes!Connected(nb, a, b, dup) = nb
    BY <1>2 DEF Nodes!Connected
  <2>3. QED
    BY <2>1, <2>2
<1>3. CASE a # b /\ Nodes!isNodeExists(a) /\ Nodes!isNodeExists(b)
  <2>1. Nodes!Wanted({a, b}) = {{a, b}}
    BY <1>3, WantedIs
  <2>2. PICK F : F = E \cup {{a, b}}
    OBVIOUS
  <2>3. Nodes!Connected(nb, a, b, dup) = Nodes!Entered(Nodes!Entered(nb, a, b, dup), b, a, dup)
    BY <1>3 DEF Nodes!Connected
  <2>4. EntriesOf(nb, a, b) # {} <=> EntriesOf(nb, b, a) # {}
    <3>1. {a, b} = {b, a}
      OBVIOUS
    <3>2. QED
      BY <3>1 DEF Joined
  <2>5. CASE ~dup /\ EntriesOf(nb, a, b) # {}
    <3>1. Nodes!Entered(nb, a, b, dup) = nb /\ Nodes!Entered(nb, b, a, dup) = nb
      BY <2>4, <2>5, NeighborIs DEF Nodes!Entered
    <3>2. {a, b} \in E
      BY <2>5 DEF Joined
    <3>3. F = E
      BY <2>2, <3>2
    <3>4. QED
      BY <2>1, <2>2, <2>3, <3>1, <3>3
  <2>6. CASE dup \/ EntriesOf(nb, a, b) = {}
    <3>1. PICK nc : nc = [nb EXCEPT ![a] = Append(nb[a], b)]
      OBVIOUS
    <3>2. /\ nc \in [NodeId -> Seq(NodeId)]
          /\ EntriesOf(nc, a, b) = EntriesOf(nb, a, b) \cup {Len(nb[a]) + 1}
          /\ Len(nb[a]) + 1 \notin EntriesOf(nb, a, b)
          /\ \A c, d \in NodeId : c # a \/ d # b => EntriesOf(nc, c, d) = EntriesOf(nb, c, d)
      <4>1. OneMore(nb, [nb EXCEPT ![a] = Append(nb[a], b)], a, b)
        BY <1>1, EntryAdded
      <4>2. QED
        BY <3>1, <4>1 DEF OneMore
    <3>3. PICK nd : nd = [nc EXCEPT ![b] = Append(nc[b], a)]
      OBVIOUS
    <3>4. /\ nd \in [NodeId -> Seq(NodeId)]
          /\ EntriesOf(nd, b, a) = EntriesOf(nc, b, a) \cup {Len(nc[b]) + 1}
          /\ Len(nc[b]) + 1 \notin EntriesOf(nc, b, a)
          /\ \A c, d \in NodeId : c # b \/ d # a => EntriesOf(nd, c, d) = EntriesOf(nc, c, d)
      <4>1. nc \in [NodeId -> Seq(NodeId)]
        BY <3>2
      <4>2. OneMore(nc, [nc EXCEPT ![b] = Append(nc[b], a)], b, a)
        BY <4>1, EntryAdded
      <4>3. QED
        BY <3>3, <4>2 DEF OneMore
    <3>5. Nodes!Entered(nb, a, b, dup) = nc
      BY <2>6, <3>1, NeighborIs DEF Nodes!Entered
    <3>6. dup \/ EntriesOf(nc, b, a) = {}
      BY <1>3, <2>4, <2>6, <3>2
    <3>7. Nodes!Entered(nc, b, a, dup) = nd
      BY <3>3, <3>6, NeighborIs DEF Nodes!Entered
    <3>8. EntriesOf(nd, a, b) = EntriesOf(nb, a, b) \cup {Len(nb[a]) + 1}
      BY <1>3, <3>2, <3>4
    <3>9. EntriesOf(nc, b, a) = EntriesOf(nb, b, a)
      BY <1>3, <3>2
    <3>10. PICK x, y : /\ EntriesOf(nd, a, b) = EntriesOf(nb, a, b) \cup {x} /\ x \notin EntriesOf(nb, a, b)
                       /\ EntriesOf(nd, b, a) = EntriesOf(nb, b, a) \cup {y} /\ y \notin EntriesOf(nb, b, a)
      BY <3>2, <3>4, <3>8, <3>9
    <3>11. \A c, d \in NodeId : ~(c = a /\ d = b) /\ ~(c = b /\ d = a) =>
              EntriesOf(nd, c, d) = EntriesOf(nb, c, d)
      BY <3>2, <3>4
    <3>12. ASSUME NEW c \in NodeId, NEW d \in NodeId
           PROVE  /\ EntriesOf(nd, c, d) # {} <=> (c # d /\ {c, d} \in F)
                  /\ Matched(EntriesOf(nd, c, d), EntriesOf(nd, d, c))
      <4>1. /\ EntriesOf(nb, c, d) # {} <=> (c # d /\ {c, d} \in E)
            /\ Matched(EntriesOf(nb, c, d), EntriesOf(nb, d, c))
        BY Zenon DEF Joined
      <4>2. CASE c = a /\ d = b
        <5>1. EntriesOf(nd, c, d) # {} /\ c # d /\ {c, d} \in F
          BY <1>3, <2>2, <3>10, <4>2
        <5>2. Matched(EntriesOf(nb, a, b) \cup {x}, EntriesOf(nb, b, a) \cup {y})
          <6>1. Matched(EntriesOf(nb, a, b), EntriesOf(nb, b, a))
            BY <4>1, <4>2
          <6>2. QED
            BY <3>10, <6>1, MatchedMore, Zenon
        <5>3. QED
          BY <3>10, <4>2, <5>1, <5>2
      <4>3. CASE c = b /\ d = a
        <5>1. EntriesOf(nd, c, d) # {} /\ c # d /\ {c, d} \in F
          BY <1>3, <2>2, <3>10, <4>3
        <5>2. Matched(EntriesOf(nb, b, a) \cup {y}, EntriesOf(nb, a, b) \cup {x})
          <6>1. Matched(EntriesOf(nb, b, a), EntriesOf(nb, a, b))
            BY <4>1, <4>3
          <6>2. QED
            BY <3>10, <6>1, MatchedMore, Zenon
        <5>3. QED
          BY <3>10, <4>3, <5>1, <5>2
      <4>4. CASE ~(c = a /\ d = b) /\ ~(c = b /\ d = a)
        <5>1. EntriesOf(nd, c, d) = EntriesOf(nb, c, d) /\ EntriesOf(nd, d, c) = EntriesOf(nb, d, c)
          BY <3>11, <4>4
        <5>2. c # d => {c, d} # {a, b}
          BY <4>4
        <5>3. c # d => ({c, d} \in F <=> {c, d} \in E)
          BY <2>2, <5>2
        <5>4. QED
          BY <4>1, <5>1, <5>3
      <4>5. QED
        BY <4>2, <4>3, <4>4
    <3>13. Joined(nd, F)
      BY <3>4, <3>12 DEF Joined
    <3>14. QED
      BY <2>1, <2>2, <2>3, <3>5, <3>7, <3>13
  <2>7. QED
    BY <2>5, <2>6
<1>4. QED
  BY <1>2, <1>3

(* What a list of nodes can be connected to by makeClique, wherever they are. *)
LEMMA PairsWanted ==
  ASSUME NEW ids, NEW pair
  PROVE  pair \in Nodes!Wanted(ids) <=>
           \E a, b \in ids : /\ pair = {a, b} /\ a # b
                             /\ Nodes!isNodeExists(a) /\ Nodes!isNodeExists(b)
BY DEF Nodes!Wanted, Nodes!isNodeExists

GraphInv ==
  /\ m_nodes \in Seq(NodeId)
  /\ Joined(m_neighbors, edges)
  /\ \A pair \in edges : pair \subseteq Nodes!Elements(m_nodes)

LEMMA GraphStarts == Nodes!GraphInit => GraphInv
<1>1. SUFFICES ASSUME Nodes!GraphInit PROVE GraphInv
  OBVIOUS
<1>2. m_nodes = <<>> /\ edges = {} /\ m_neighbors = [id \in NodeId |-> <<>>]
  BY <1>1 DEF Nodes!GraphInit
<1>3. m_neighbors \in [NodeId -> Seq(NodeId)]
  BY <1>2
<1>4. \A a, b \in NodeId : EntriesOf(m_neighbors, a, b) = {}
  BY <1>2 DEF EntriesOf
<1>5. \A a, b \in NodeId : Matched(EntriesOf(m_neighbors, a, b), EntriesOf(m_neighbors, b, a))
  BY <1>4, MatchedItself
<1>6. QED
  BY <1>2, <1>3, <1>4, <1>5 DEF GraphInv, Joined

(* What is wanted is among the nodes that are there. *)
LEMMA WantedExist ==
  ASSUME GraphInv, NEW ids, edges' = edges \cup Nodes!Wanted(ids),
         UNCHANGED m_nodes, Joined(m_neighbors', edges')
  PROVE  GraphInv'
<1>1. \A pair \in Nodes!Wanted(ids) : pair \subseteq Nodes!Elements(m_nodes)
  BY DEF Nodes!Wanted
<1>2. Nodes!Elements(m_nodes)' = Nodes!Elements(m_nodes)
  BY DEF Nodes!Elements
<1>3. QED
  BY <1>1, <1>2 DEF GraphInv

(* The pairs of a list of n by their numbers, row by row.                   *)
Row(k, n) == ((k - 1) \div n) + 1
Column(k, n) == ((k - 1) % n) + 1
LEMMA PairNumbered ==
  ASSUME NEW n \in Nat \ {0}, NEW m \in Nat, m = n * n
  PROVE  /\ \A k \in 1 .. m : Row(k, n) \in 1 .. n /\ Column(k, n) \in 1 .. n
         /\ \A i, j \in 1 .. n : \E k \in 1 .. m : Row(k, n) = i /\ Column(k, n) = j
<1>1. ASSUME NEW k \in 1 .. m
      PROVE  Row(k, n) \in 1 .. n /\ Column(k, n) \in 1 .. n
  <2>1. PICK a \in Nat : a = k - 1 /\ a < m
    OBVIOUS
  <2>2. PICK q \in Nat, r \in 0 .. n - 1 : q = a \div n /\ r = a % n /\ a = n * q + r
    BY DivMod
  <2>3. ~(n <= q)
    <3>1. n <= q => n * n <= n * q
      BY Multiples
    <3>2. PICK c \in Nat : c = n * q
      BY Multiples
    <3>3. QED
      BY <2>1, <2>2, <3>1, <3>2
  <2>4. QED
    BY <2>1, <2>2, <2>3 DEF Row, Column
<1>2. ASSUME NEW i \in 1 .. n, NEW j \in 1 .. n
      PROVE  \E k \in 1 .. m : Row(k, n) = i /\ Column(k, n) = j
  <2>1. PICK q \in Nat, r \in 0 .. n - 1 : q = i - 1 /\ r = j - 1
    OBVIOUS
  <2>2. PICK c \in Nat : c = n * q
    BY Multiples
  <2>3. c + n <= m
    <3>1. n * (q + 1) = n * q + n /\ q + 1 <= n
      BY <2>1, Multiples
    <3>2. n * (q + 1) <= n * n
      BY <3>1, Multiples
    <3>3. QED
      BY <2>2, <3>1, <3>2
  <2>4. PICK a \in Nat : a = c + r
    OBVIOUS
  <2>5. a \div n = q
    BY <2>2, <2>4, DivIs
  <2>6. a % n = r
    <3>1. a = n * (a \div n) + (a % n) /\ a % n \in 0 .. n - 1
      BY DivMod
    <3>2. QED
      BY <2>2, <2>4, <2>5, <3>1
  <2>7. a + 1 \in 1 .. m /\ (a + 1) - 1 = a
    BY <2>3, <2>4
  <2>8. Row(a + 1, n) = i /\ Column(a + 1, n) = j
    BY <2>1, <2>5, <2>6, <2>7 DEF Row, Column
  <2>9. QED
    BY <2>7, <2>8
<1>3. QED
  BY <1>1, <1>2

(* The edges after the first k pairs of a clique.                           *)
EdgesAfter(ids, n, k) ==
  edges \cup UNION {Nodes!Wanted({ids[Row(j, n)], ids[Column(j, n)]}) : j \in 1 .. k}

LEMMA CliqueWanted ==
  ASSUME NEW n \in Nat \ {0}, NEW ids \in [1 .. n -> NodeId]
  PROVE  EdgesAfter(ids, n, n * n) = edges \cup Nodes!Wanted(Nodes!Elements(ids))
<1>1. PICK m \in Nat : m = n * n
  BY Multiples
<1>2. Nodes!Elements(ids) = {ids[i] : i \in 1 .. n}
  BY DEF Nodes!Elements
<1>3. ASSUME NEW pair, NEW k \in 1 .. m,
             pair \in Nodes!Wanted({ids[Row(k, n)], ids[Column(k, n)]})
      PROVE  pair \in Nodes!Wanted(Nodes!Elements(ids))
  <2>1. PICK i \in 1 .. n, j \in 1 .. n : i = Row(k, n) /\ j = Column(k, n)
    BY <1>1, PairNumbered
  <2>2. pair \in Nodes!Wanted({ids[i], ids[j]})
    BY <1>3, <2>1
  <2>3. QED
    BY <1>2, <2>2, WantedIs, PairsWanted
<1>4. ASSUME NEW pair, pair \in Nodes!Wanted(Nodes!Elements(ids))
      PROVE  \E k \in 1 .. m :
               pair \in Nodes!Wanted({ids[Row(k, n)], ids[Column(k, n)]})
  <2>1. PICK a, b \in Nodes!Elements(ids) :
               pair = {a, b} /\ a # b /\ Nodes!isNodeExists(a) /\ Nodes!isNodeExists(b)
    BY <1>4, PairsWanted
  <2>2. PICK i \in 1 .. n, j \in 1 .. n : a = ids[i] /\ b = ids[j]
    BY <1>2, <2>1
  <2>3. PICK k \in 1 .. m : Row(k, n) = i /\ Column(k, n) = j
    BY <1>1, PairNumbered, ZenonT(40)
  <2>4. pair \in Nodes!Wanted({a, b})
    BY <2>1, WantedIs
  <2>5. QED
    BY <2>2, <2>3, <2>4
<1>5. QED
  BY <1>1, <1>3, <1>4 DEF EdgesAfter

LEMMA CliqueJoins ==
  ASSUME GraphInv, NEW n \in Nat \ {0}, NEW ids \in [1 .. n -> NodeId], Nodes!makeClique(ids)
  PROVE  GraphInv'
<1>1. Len(ids) = n /\ Nodes!Len(ids) = n
  BY FunctionIsSeq
<1>2. PICK m \in Nat : m = n * n
  BY Multiples
<1>3. PICK D : D = [NodeId -> Seq(NodeId)]
  OBVIOUS
<1>4. m_neighbors \in D
  BY <1>3 DEF GraphInv, Joined
<1>5. PICK row, column : /\ row \in [1 .. m -> NodeId] /\ column \in [1 .. m -> NodeId]
                         /\ \A k \in 1 .. m : /\ row[k] = ids[Row(k, n)]
                                              /\ column[k] = ids[Column(k, n)]
  <2>1. \A k \in 1 .. m : /\ ids[Row(k, n)] \in NodeId
                          /\ ids[Column(k, n)] \in NodeId
    BY <1>2, PairNumbered
  <2>2. PICK row : row = [k \in 1 .. m |-> ids[Row(k, n)]]
    OBVIOUS
  <2>3. PICK column : column = [k \in 1 .. m |-> ids[Column(k, n)]]
    OBVIOUS
  <2>4. row \in [1 .. m -> NodeId] /\ \A k \in 1 .. m : row[k] = ids[Row(k, n)]
    BY <2>1, <2>2
  <2>5. column \in [1 .. m -> NodeId] /\ \A k \in 1 .. m : column[k] = ids[Column(k, n)]
    BY <2>1, <2>3
  <2>6. QED
    BY <2>4, <2>5
<1>6. PICK step : step = [x \in D \X (1 .. m) |-> Nodes!Connected(x[1], row[x[2]], column[x[2]], FALSE)]
  OBVIOUS
<1>7. step \in [D \X (1 .. m) -> D]
  <2>1. ASSUME NEW x \in D \X (1 .. m)
        PROVE  Nodes!Connected(x[1], row[x[2]], column[x[2]], FALSE) \in D
    <3>1. PICK nb \in D : nb = x[1]
      OBVIOUS
    <3>2. PICK a \in NodeId, b \in NodeId : a = row[x[2]] /\ b = column[x[2]]
      BY <1>5
    <3>3. Nodes!Connected(nb, a, b, FALSE) \in D
      BY <1>3, ConnectedTyped
    <3>4. QED
      BY <3>1, <3>2, <3>3
  <2>2. QED
    BY <1>6, <2>1
<1>8. PICK f : Recursive(f, m, D, m_neighbors, step)
  BY <1>4, <1>7, Recursion, Zenon
<1>9. f \in [0 .. m -> D] /\ f[0] = m_neighbors /\ \A k \in 1 .. m : f[k] = step[<<f[k - 1], k>>]
  BY <1>8 DEF Recursive
<1>10. ASSUME NEW k \in 1 .. m
       PROVE  /\ f[k - 1] \in D
              /\ f[k] = Nodes!Connected(f[k - 1], row[k], column[k], FALSE)
  <2>1. k - 1 \in 0 .. m
    OBVIOUS
  <2>2. f[k - 1] \in D /\ f[k] = step[<<f[k - 1], k>>]
    BY <1>9, <2>1
  <2>3. QED
    BY <1>6, <2>2
<1>11. f = [k \in 0 .. m |->
              IF k = 0 THEN m_neighbors
              ELSE Nodes!Connected(f[k - 1], ids[((k - 1) \div n) + 1], ids[((k - 1) % n) + 1], FALSE)]
  <2>1. ASSUME NEW k \in 0 .. m
        PROVE  f[k] = IF k = 0 THEN m_neighbors
                      ELSE Nodes!Connected(f[k - 1], ids[((k - 1) \div n) + 1], ids[((k - 1) % n) + 1], FALSE)
    <3>1. CASE k = 0
      BY <1>9, <3>1
    <3>2. CASE k # 0
      <4>1. k \in 1 .. m
        BY <3>2
      <4>2. row[k] = ids[((k - 1) \div n) + 1] /\ column[k] = ids[((k - 1) % n) + 1]
        BY <1>5, <4>1 DEF Row, Column
      <4>3. QED
        BY <1>10, <3>2, <4>1, <4>2
    <3>3. QED
      BY <3>1, <3>2
  <2>2. QED
    BY <1>9, <2>1
<1>12. PICK done :
         /\ done = [k \in 0 .. m |->
              IF k = 0 THEN m_neighbors
              ELSE Nodes!Connected(done[k - 1], ids[((k - 1) \div n) + 1], ids[((k - 1) % n) + 1], FALSE)]
         /\ m_neighbors' = done[m]
  <2>1. PICK done : done = CHOOSE g : g = [k \in 0 .. m |->
              IF k = 0 THEN m_neighbors
              ELSE Nodes!Connected(g[k - 1], ids[((k - 1) \div n) + 1], ids[((k - 1) % n) + 1], FALSE)]
    OBVIOUS
  <2>2. done = [k \in 0 .. m |->
              IF k = 0 THEN m_neighbors
              ELSE Nodes!Connected(done[k - 1], ids[((k - 1) \div n) + 1], ids[((k - 1) % n) + 1], FALSE)]
    BY <1>11, <2>1
  <2>3. m_neighbors' = done[m]
    BY <1>1, <1>2, <2>1 DEF Nodes!makeClique
  <2>4. QED
    BY <2>2, <2>3
<1>13. edges' = edges \cup Nodes!Wanted(Nodes!Elements(ids)) /\ UNCHANGED m_nodes
  BY DEF Nodes!makeClique
<1>14. PICK S : S = {k \in 0 .. m : Joined(done[k], EdgesAfter(ids, n, k))}
  OBVIOUS
<1>15. 0 \in S
  <2>1. EdgesAfter(ids, n, 0) = edges
    BY DEF EdgesAfter
  <2>2. done[0] = m_neighbors /\ 0 \in 0 .. m
    BY <1>12
  <2>3. QED
    BY <1>14, <2>1, <2>2 DEF GraphInv
<1>16. ASSUME NEW k \in 0 .. m - 1, k \in S PROVE k + 1 \in S
  <2>1. k + 1 \in 0 .. m /\ k + 1 # 0 /\ (k + 1) - 1 = k /\ k + 1 \in 1 .. m
    OBVIOUS
  <2>2. PICK nb, E : nb = done[k] /\ E = EdgesAfter(ids, n, k)
    OBVIOUS
  <2>3. PICK a \in NodeId, b \in NodeId : a = ids[(k \div n) + 1] /\ b = ids[(k % n) + 1]
    BY <1>5, <2>1 DEF Row, Column
  <2>4. done[k + 1] = Nodes!Connected(nb, a, b, FALSE)
    BY <1>12, <2>1, <2>2, <2>3
  <2>5. EdgesAfter(ids, n, k + 1) = E \cup Nodes!Wanted({a, b})
    <3>1. 1 .. k + 1 = (1 .. k) \cup {k + 1}
      BY <2>1
    <3>2. QED
      BY <2>1, <2>2, <2>3, <3>1 DEF EdgesAfter, Row, Column
  <2>6. Joined(nb, E)
    BY <1>14, <1>16, <2>2
  <2>7. Joined(Nodes!Connected(nb, a, b, FALSE), E \cup Nodes!Wanted({a, b}))
    BY <2>6, ConnectedJoins
  <2>8. QED
    BY <1>14, <2>1, <2>4, <2>5, <2>7
<1>17. m \in S
  <2>1. 0 .. m \subseteq S
    BY <1>15, <1>16, Induction
  <2>2. QED
    BY <2>1
<1>18. Joined(m_neighbors', edges')
  <2>1. Joined(done[m], EdgesAfter(ids, n, m))
    BY <1>14, <1>17
  <2>2. EdgesAfter(ids, n, m) = edges \cup Nodes!Wanted(Nodes!Elements(ids))
    BY <1>2, CliqueWanted
  <2>3. QED
    BY <1>12, <1>13, <2>1, <2>2
<1>19. QED
  BY <1>13, <1>18, WantedExist

LEMMA GraphNextKeeps == GraphInv /\ [Nodes!GraphNext]_graphVars => GraphInv'
<1> SUFFICES ASSUME GraphInv, [Nodes!GraphNext]_graphVars PROVE GraphInv'
  OBVIOUS
<1>1. ASSUME NEW id \in NodeId, Nodes!addNode(id) PROVE GraphInv'
  <2>1. UNCHANGED <<m_neighbors, edges>>
    BY <1>1 DEF Nodes!addNode
  <2>2. CASE Nodes!isNodeExists(id)
    <3>1. UNCHANGED m_nodes
      BY <1>1, <2>2 DEF Nodes!addNode
    <3>2. QED
      BY <2>1, <3>1 DEF GraphInv, Nodes!Elements
  <2>3. CASE ~Nodes!isNodeExists(id)
    <3>1. m_nodes' = Append(m_nodes, id) /\ m_nodes \in Seq(NodeId)
      BY <1>1, <2>3 DEF Nodes!addNode, GraphInv
    <3>2. PICK n \in Nat : n = Len(m_nodes) /\ DOMAIN m_nodes = 1 .. n
      BY <3>1
    <3>3. m_nodes' \in Seq(NodeId) /\ Len(m_nodes') = n + 1 /\ \A j \in 1 .. n : m_nodes'[j] = m_nodes[j]
      BY <3>1, <3>2, AppendedSeq
    <3>4. DOMAIN m_nodes' = 1 .. n + 1
      BY <3>3
    <3>5. Nodes!Elements(m_nodes) \subseteq Nodes!Elements(m_nodes')
      BY <3>2, <3>3, <3>4 DEF Nodes!Elements
    <3>6. QED
      BY <2>1, <3>3, <3>5 DEF GraphInv
  <2>4. QED
    BY <2>2, <2>3
<1>2. ASSUME NEW id, NEW color, Nodes!setChosenColor(id, color) PROVE GraphInv'
  BY <1>2 DEF GraphInv, Nodes!setChosenColor, Nodes!Elements
<1>3. ASSUME NEW id1 \in NodeId, NEW id2 \in NodeId, NEW dup \in BOOLEAN,
             Nodes!connectNodes(id1, id2, dup)
      PROVE  GraphInv'
  <2>1. /\ m_neighbors' = Nodes!Connected(m_neighbors, id1, id2, dup)
        /\ edges' = edges \cup Nodes!Wanted({id1, id2}) /\ UNCHANGED m_nodes
    BY <1>3 DEF Nodes!connectNodes
  <2>2. Joined(m_neighbors, edges)
    BY DEF GraphInv
  <2>3. Joined(Nodes!Connected(m_neighbors, id1, id2, dup), edges \cup Nodes!Wanted({id1, id2}))
    BY <2>2, ConnectedJoins
  <2>4. QED
    BY <2>1, <2>3, WantedExist
<1>4. ASSUME NEW n \in 1 .. 3, NEW ids \in [1 .. n -> NodeId], Nodes!makeClique(ids) PROVE GraphInv'
  BY <1>4, CliqueJoins
<1>5. CASE UNCHANGED graphVars
  BY <1>5 DEF GraphInv, graphVars, Nodes!Elements
<1>6. QED
  BY <1>1, <1>2, <1>3, <1>4, <1>5 DEF Nodes!GraphNext

LEMMA EdgesShow == GraphInv => Nodes!EdgesHaveTwoEnds
<1>1. SUFFICES ASSUME GraphInv, NEW a \in NodeId, NEW b \in NodeId
      PROVE  /\ Nodes!isConnected(a, b) <=> (a # b /\ {a, b} \in edges)
             /\ Matched(EntriesOf(m_neighbors, a, b), EntriesOf(m_neighbors, b, a))
  BY DEF Nodes!EdgesHaveTwoEnds, Nodes!Entries, Matched, EntriesOf
<1>2. /\ EntriesOf(m_neighbors, a, b) # {} <=> (a # b /\ {a, b} \in edges)
      /\ Matched(EntriesOf(m_neighbors, a, b), EntriesOf(m_neighbors, b, a))
  BY <1>1 DEF GraphInv, Joined
<1>3. {a, b} \in edges => Nodes!isNodeExists(a)
  BY <1>1 DEF GraphInv, Nodes!isNodeExists
<1>4. QED
  BY <1>2, <1>3, NeighborIs DEF Nodes!isConnected

-----------------------------------------------------------------------------
(* The list.  Its nodes are, in their order, at the addresses s, the first  *)
(* n of them hold c, and every one is linked to the ones beside it.         *)
PrevOf(s, k) == IF k = 1 THEN 0 ELSE s[k - 1]
NextOf(s, n, k) == IF k = n + 1 THEN 0 ELSE s[k + 1]
InfoOf(c, n, k) == IF k <= n THEN c[k] ELSE 0
Chain(heap, s, c, n) ==
  /\ s \in [1 .. n + 1 -> List!Address] /\ c \in [1 .. n -> Item]
  /\ \A i, j \in 1 .. n + 1 : s[i] = s[j] => i = j
  /\ heap = [a \in {s[k] : k \in 1 .. n + 1} |-> heap[a]]
  /\ \A k \in 1 .. n + 1 : heap[s[k]] = List!Node(InfoOf(c, n, k), PrevOf(s, k), NextOf(s, n, k))
IsLaid(l, s, c, n) ==
  /\ l = [heap |-> l.heap, m_first |-> s[1], m_last |-> s[n + 1]]
  /\ Chain(l.heap, s, c, n)

(* One more in a sequence before the k-th. *)
OneIn(f, n, k, x) == [j \in 1 .. n + 1 |-> IF j < k THEN f[j] ELSE IF j = k THEN x ELSE f[j - 1]]
(* The k-th taken out of it. *)
OneOut(f, n, k) == [j \in 1 .. n - 1 |-> IF j < k THEN f[j] ELSE f[j + 1]]

LEMMA SomeAddress == \A a \in List!Address : a \in Nat /\ a # 0
  BY ListAssumption DEF List!Address

(* There is an address for a new node. *)
LEMMA NewIs ==
  ASSUME NEW n \in Nat, n <= MaxItems, NEW s, NEW c, NEW l, IsLaid(l, s, c, n)
  PROVE  List!New(l) \in List!Address /\ \A k \in 1 .. n + 1 : List!New(l) # s[k]
<1>1. PICK m \in Nat : m = MaxItems
  BY ListAssumption
<1>2. PICK D : D = {s[k] : k \in 1 .. n + 1}
  OBVIOUS
<1>3. DOMAIN l.heap = D
  BY <1>2 DEF IsLaid, Chain
<1>4. \E a \in 1 .. m + 2 : a \notin D
  <2>1. SUFFICES ASSUME \A a \in 1 .. m + 2 : a \in D PROVE FALSE
    OBVIOUS
  <2>2. PICK f : f = [a \in 1 .. m + 2 |-> CHOOSE k \in 1 .. n + 1 : s[k] = a]
    OBVIOUS
  <2>3. \A a \in 1 .. m + 2 : f[a] \in 1 .. n + 1 /\ s[f[a]] = a
    BY <1>2, <2>1, <2>2
  <2>4. f \in [1 .. m + 2 -> 1 .. n + 1]
    BY <2>2, <2>3
  <2>5. 1 \in Int /\ m + 2 \in Int /\ n + 1 \in Int
    OBVIOUS
  <2>6. IsFiniteSet(1 .. m + 2) /\ Cardinality(1 .. m + 2) = m + 2
    BY <2>5, FS_Interval
  <2>7. IsFiniteSet(1 .. n + 1) /\ Cardinality(1 .. n + 1) = n + 1
    BY <2>5, FS_Interval
  <2>8. Cardinality(1 .. n + 1) < Cardinality(1 .. m + 2)
    BY <1>1, <2>6, <2>7
  <2>9. \E x, y \in 1 .. m + 2 : x # y /\ f[x] = f[y]
    BY <2>4, <2>6, <2>7, <2>8, FS_PigeonHole, Zenon
  <2>10. QED
    BY <2>3, <2>9
<1>5. PICK free : free = List!Address \ DOMAIN l.heap
  OBVIOUS
<1>6. free \in SUBSET Nat /\ free # {}
  BY <1>1, <1>3, <1>4, <1>5 DEF List!Address
<1>7. \E a \in free : \A b \in free : a <= b
  BY <1>6, LeastOf
<1>8. List!New(l) = CHOOSE a \in free : \A b \in free : a <= b
  BY <1>5 DEF List!New
<1>9. List!New(l) \in free
  BY <1>7, <1>8
<1>10. QED
  BY <1>2, <1>3, <1>5, <1>9

(* A list that was just made. *)
LEMMA EmptyShows == IsLaid(List!initList, [k \in 1 .. 1 |-> 1], <<>>, 0)
<1>1. PICK s : s = [k \in 1 .. 1 |-> 1]
  OBVIOUS
<1>2. 0 + 1 = 1 /\ 1 \in List!Address /\ 1 .. 0 = {}
  BY ListAssumption DEF List!Address
<1>3. s \in [1 .. 1 -> List!Address] /\ s[1] = 1 /\ {s[k] : k \in 1 .. 1} = {1}
  BY <1>1, <1>2
<1>4. List!initList.heap = [a \in {1} |-> List!Node(0, 0, 0)]
  BY DEF List!initList, List!Nothing, List!NULL
<1>5. List!initList = [heap |-> List!initList.heap, m_first |-> 1, m_last |-> 1]
  BY DEF List!initList
<1>6. <<>> \in [1 .. 0 -> Item]
  BY <1>2
<1>7. \A k \in 1 .. 1 : k = 1 /\ PrevOf(s, k) = 0 /\ NextOf(s, 0, k) = 0 /\ InfoOf(<<>>, 0, k) = 0
  BY DEF PrevOf, NextOf, InfoOf
<1>8. Chain(List!initList.heap, s, <<>>, 0)
  BY <1>2, <1>3, <1>4, <1>6, <1>7 DEF Chain
<1>9. QED
  BY <1>1, <1>2, <1>3, <1>5, <1>8 DEF IsLaid

(* A new node in its place. *)
LEMMA LinkedShows ==
  ASSUME NEW n \in Nat, n < MaxItems, NEW s, NEW c, NEW l, IsLaid(l, s, c, n),
         NEW k \in 1 .. n + 1, NEW x \in Item
  PROVE  IsLaid(List!Linked(l, s[k], x), OneIn(s, n + 1, k, List!New(l)), OneIn(c, n, k, x), n + 1)
<1>0. PICK m \in Nat : m = n + 1
  OBVIOUS
<1>1. PICK tmp : tmp = List!New(l)
  OBVIOUS
<1>2. tmp \in List!Address /\ \A j \in 1 .. m : tmp # s[j]
  <2>1. n <= MaxItems
    BY ListAssumption
  <2>2. QED
    BY <1>0, <1>1, <2>1, NewIs
<1>3. PICK h : h = l.heap
  OBVIOUS
<1>4. Chain(h, s, c, n)
  BY <1>3 DEF IsLaid
<1>5. /\ s \in [1 .. m -> List!Address] /\ c \in [1 .. n -> Item]
      /\ \A i, j \in 1 .. m : s[i] = s[j] => i = j
      /\ DOMAIN h = {s[j] : j \in 1 .. m}
      /\ \A j \in 1 .. m : h[s[j]] = List!Node(InfoOf(c, n, j), PrevOf(s, j), NextOf(s, n, j))
  BY <1>0, <1>4 DEF Chain
<1>6. \A j \in 1 .. m : s[j] # 0
  BY <1>5, SomeAddress
<1>7. PICK p : p = PrevOf(s, k)
  OBVIOUS
<1>8. h[s[k]].prev = p
  <2>1. h[s[k]] = List!Node(InfoOf(c, n, k), p, NextOf(s, n, k))
    BY <1>0, <1>5, <1>7
  <2>2. QED
    BY <2>1 DEF List!Node
<1>9. PICK g : g = [b \in DOMAIN h \cup {tmp} |-> IF b = tmp THEN List!Node(x, p, s[k]) ELSE h[b]]
  OBVIOUS
<1>10. PICK g1 : g1 = [g EXCEPT ![s[k]].prev = tmp]
  OBVIOUS
<1>11. PICK g2 : g2 = IF p = 0 THEN g1 ELSE [g1 EXCEPT ![p].next = tmp]
  OBVIOUS
<1>12. List!Linked(l, s[k], x) = [heap |-> g2, m_first |-> IF l.m_first = s[k] THEN tmp ELSE l.m_first, m_last |-> l.m_last]
  BY <1>1, <1>3, <1>8, <1>9, <1>10, <1>11 DEF List!Linked, List!With, List!NULL
<1>13. /\ DOMAIN g2 = DOMAIN h \cup {tmp} /\ g2 = [b \in DOMAIN h \cup {tmp} |-> g2[b]]
       /\ DOMAIN g1 = DOMAIN h \cup {tmp}
  BY <1>9, <1>10, <1>11
<1>14. g[tmp] = List!Node(x, p, s[k]) /\ \A j \in 1 .. m : g[s[j]] = h[s[j]]
  BY <1>2, <1>5, <1>9
<1>15. /\ g1[tmp] = g[tmp] /\ g1[s[k]] = List!Node(InfoOf(c, n, k), tmp, NextOf(s, n, k))
       /\ \A j \in 1 .. m : j # k => g1[s[j]] = h[s[j]]
  <2>1. g[s[k]] = List!Node(InfoOf(c, n, k), p, NextOf(s, n, k)) /\ s[k] \in DOMAIN g
    BY <1>0, <1>5, <1>7, <1>9, <1>14
  <2>2. g1[s[k]] = [g[s[k]] EXCEPT !.prev = tmp]
    BY <1>10, <2>1
  <2>3. g1[s[k]] = List!Node(InfoOf(c, n, k), tmp, NextOf(s, n, k))
    BY <2>1, <2>2 DEF List!Node
  <2>4. \A b \in DOMAIN g : b # s[k] => g1[b] = g[b]
    BY <1>10
  <2>5. tmp # s[k] /\ \A j \in 1 .. m : j # k => s[j] # s[k]
    BY <1>0, <1>2, <1>5
  <2>6. tmp \in DOMAIN g /\ \A j \in 1 .. m : s[j] \in DOMAIN g
    BY <1>5, <1>9
  <2>7. QED
    BY <1>14, <2>3, <2>4, <2>5, <2>6
<1>16. /\ g2[tmp] = List!Node(x, p, s[k])
       /\ g2[s[k]] = List!Node(InfoOf(c, n, k), tmp, NextOf(s, n, k))
       /\ k # 1 => g2[s[k - 1]] = List!Node(InfoOf(c, n, k - 1), PrevOf(s, k - 1), tmp)
       /\ \A j \in 1 .. m : j # k /\ j # k - 1 => g2[s[j]] = h[s[j]]
  <2>1. CASE k = 1
    <3>1. p = 0 /\ g2 = g1
      BY <1>7, <1>11, <2>1 DEF PrevOf
    <3>2. QED
      BY <1>14, <1>15, <2>1, <3>1
  <2>2. CASE k # 1
    <3>1. k - 1 \in 1 .. m /\ k \in 1 .. m /\ k - 1 # k
      BY <1>0, <2>2
    <3>2. p = s[k - 1] /\ p # 0
      BY <1>6, <1>7, <2>2, <3>1 DEF PrevOf
    <3>3. g2 = [g1 EXCEPT ![p].next = tmp] /\ p \in DOMAIN g1
      BY <1>5, <1>11, <1>13, <3>1, <3>2
    <3>4. g1[p] = List!Node(InfoOf(c, n, k - 1), PrevOf(s, k - 1), NextOf(s, n, k - 1))
      BY <1>5, <1>15, <3>1, <3>2
    <3>5. g2[p] = [g1[p] EXCEPT !.next = tmp]
      BY <3>3
    <3>6. g2[p] = List!Node(InfoOf(c, n, k - 1), PrevOf(s, k - 1), tmp)
      BY <3>4, <3>5 DEF List!Node
    <3>7. \A b \in DOMAIN g1 : b # p => g2[b] = g1[b]
      BY <3>3
    <3>8. tmp # p /\ \A j \in 1 .. m : j # k - 1 => s[j] # p
      BY <1>2, <1>5, <3>1, <3>2
    <3>9. tmp \in DOMAIN g1 /\ \A j \in 1 .. m : s[j] \in DOMAIN g1
      BY <1>5, <1>13
    <3>10. QED
      BY <1>14, <1>15, <3>1, <3>2, <3>6, <3>7, <3>8, <3>9
  <2>3. QED
    BY <2>1, <2>2
<1>17. PICK r : r = OneIn(s, m, k, tmp)
  OBVIOUS
<1>18. PICK d : d = OneIn(c, n, k, x)
  OBVIOUS
<1>19. /\ r = [j \in 1 .. m + 1 |-> r[j]] /\ r[k] = tmp
       /\ \A j \in 1 .. m + 1 : /\ j < k => j \in 1 .. m /\ r[j] = s[j]
                                /\ j > k => j - 1 \in 1 .. m /\ r[j] = s[j - 1]
  BY <1>0, <1>17 DEF OneIn
<1>20. /\ d = [j \in 1 .. n + 1 |-> d[j]] /\ d[k] = x
       /\ \A j \in 1 .. n + 1 : /\ j < k => j \in 1 .. n /\ d[j] = c[j]
                                /\ j > k => j - 1 \in 1 .. n /\ d[j] = c[j - 1]
  BY <1>18 DEF OneIn
<1>21. d \in [1 .. m -> Item]
  BY <1>0, <1>5, <1>20
<1>22. r \in [1 .. m + 1 -> List!Address]
  BY <1>2, <1>5, <1>19
<1>23. ASSUME NEW i \in 1 .. m + 1, NEW j \in 1 .. m + 1, r[i] = r[j] PROVE i = j
  <2>1. CASE i = k \/ j = k
    BY <1>2, <1>19, <1>23, <2>1
  <2>2. CASE i # k /\ j # k
    <3>1. PICK u \in 1 .. m, v \in 1 .. m : /\ r[i] = s[u] /\ u = IF i < k THEN i ELSE i - 1
                                            /\ r[j] = s[v] /\ v = IF j < k THEN j ELSE j - 1
      BY <1>19, <2>2
    <3>2. u = v
      BY <1>5, <1>23, <3>1
    <3>3. QED
      BY <2>2, <3>1, <3>2
  <2>3. QED
    BY <2>1, <2>2
<1>24. {r[j] : j \in 1 .. m + 1} = DOMAIN h \cup {tmp}
  <2>1. \A j \in 1 .. m + 1 : r[j] \in DOMAIN h \cup {tmp}
    BY <1>5, <1>19
  <2>2. ASSUME NEW j \in 1 .. m PROVE \E i \in 1 .. m + 1 : r[i] = s[j]
    <3>1. CASE j < k
      BY <1>19, <3>1
    <3>2. CASE ~(j < k)
      <4>1. j + 1 \in 1 .. m + 1 /\ j + 1 > k /\ (j + 1) - 1 = j
        BY <1>0, <3>2
      <4>2. QED
        BY <1>19, <4>1
    <3>3. QED
      BY <3>1, <3>2
  <2>3. k \in 1 .. m + 1
    BY <1>0
  <2>4. QED
    BY <1>5, <1>19, <2>1, <2>2, <2>3
<1>25. ASSUME NEW j \in 1 .. m + 1
       PROVE  g2[r[j]] = List!Node(InfoOf(d, m, j), PrevOf(r, j), NextOf(r, m, j))
  <2>1. CASE j = k
    <3>1. InfoOf(d, m, j) = x
      BY <1>0, <1>20, <2>1 DEF InfoOf
    <3>2. PrevOf(r, j) = p
      <4>1. CASE k = 1
        BY <1>7, <2>1, <4>1 DEF PrevOf
      <4>2. CASE k # 1
        <5>1. k - 1 \in 1 .. m + 1 /\ k - 1 < k
          BY <1>0, <4>2
        <5>2. QED
          BY <1>7, <1>19, <2>1, <4>2, <5>1 DEF PrevOf
      <4>3. QED
        BY <4>1, <4>2
    <3>3. NextOf(r, m, j) = s[k]
      <4>1. k + 1 \in 1 .. m + 1 /\ k + 1 > k /\ (k + 1) - 1 = k /\ k # m + 1
        BY <1>0
      <4>2. QED
        BY <1>19, <2>1, <4>1 DEF NextOf
    <3>4. QED
      BY <1>16, <1>19, <2>1, <3>1, <3>2, <3>3
  <2>2. CASE j < k
    <3>1. j \in 1 .. n /\ j \in 1 .. m /\ k - 1 \in 1 .. m /\ k # 1 /\ j + 1 \in 1 .. m + 1 /\ j # m + 1 /\ j # n + 1
      BY <1>0, <2>2
    <3>2. r[j] = s[j] /\ InfoOf(d, m, j) = InfoOf(c, n, j)
      BY <1>0, <1>19, <1>20, <2>2, <3>1 DEF InfoOf
    <3>3. PrevOf(r, j) = PrevOf(s, j)
      <4>1. CASE j = 1
        BY <4>1 DEF PrevOf
      <4>2. CASE j # 1
        <5>1. j - 1 \in 1 .. m + 1 /\ j - 1 < k
          BY <2>2, <3>1, <4>2
        <5>2. QED
          BY <1>19, <4>2, <5>1 DEF PrevOf
      <4>3. QED
        BY <4>1, <4>2
    <3>4. CASE j = k - 1
      <4>1. NextOf(r, m, j) = tmp
        BY <1>19, <3>1, <3>4 DEF NextOf
      <4>2. QED
        BY <1>16, <3>1, <3>2, <3>3, <3>4, <4>1
    <3>5. CASE j # k - 1
      <4>1. j + 1 < k
        BY <2>2, <3>5
      <4>2. NextOf(r, m, j) = NextOf(s, n, j)
        BY <1>19, <3>1, <4>1 DEF NextOf
      <4>3. j # k
        BY <2>2
      <4>4. QED
        BY <1>5, <1>16, <3>1, <3>2, <3>3, <3>5, <4>2, <4>3
    <3>6. QED
      BY <3>4, <3>5
  <2>3. CASE j > k
    <3>1. PICK i \in 1 .. m : i = j - 1 /\ i >= k
      BY <2>3
    <3>2. r[j] = s[i] /\ i # k - 1
      BY <1>19, <2>3, <3>1
    <3>3. InfoOf(d, m, j) = InfoOf(c, n, i)
      <4>1. CASE j <= m
        BY <1>0, <1>20, <2>3, <3>1, <4>1 DEF InfoOf
      <4>2. CASE ~(j <= m)
        BY <1>0, <3>1, <4>2 DEF InfoOf
      <4>3. QED
        BY <4>1, <4>2
    <3>4. NextOf(r, m, j) = NextOf(s, n, i)
      <4>1. CASE j = m + 1
        BY <1>0, <3>1, <4>1 DEF NextOf
      <4>2. CASE j # m + 1
        <5>1. j + 1 \in 1 .. m + 1 /\ j + 1 > k /\ (j + 1) - 1 = i + 1 /\ i # n + 1
          BY <1>0, <2>3, <3>1, <4>2
        <5>2. r[j + 1] = s[i + 1]
          BY <1>19, <5>1
        <5>3. QED
          BY <4>2, <5>1, <5>2 DEF NextOf
      <4>3. QED
        BY <4>1, <4>2
    <3>5. j # 1 /\ PrevOf(r, j) = r[i]
      BY <2>3, <3>1 DEF PrevOf
    <3>6. CASE i = k
      BY <1>16, <1>19, <3>2, <3>3, <3>4, <3>5, <3>6
    <3>7. CASE i # k
      <4>1. i \in 1 .. m + 1 /\ i > k /\ i # 1
        BY <3>1, <3>7
      <4>2. PrevOf(r, j) = PrevOf(s, i)
        BY <1>19, <3>5, <4>1 DEF PrevOf
      <4>3. QED
        BY <1>5, <1>16, <3>2, <3>3, <3>4, <3>7, <4>2
    <3>8. QED
      BY <3>6, <3>7
  <2>4. QED
    BY <2>1, <2>2, <2>3
<1>26. Chain(g2, r, d, m)
  BY <1>13, <1>21, <1>22, <1>23, <1>24, <1>25 DEF Chain
<1>27. l.m_first = s[1] /\ l.m_last = s[m]
  BY <1>0 DEF IsLaid
<1>28. (IF l.m_first = s[k] THEN tmp ELSE l.m_first) = r[1]
  <2>1. 1 \in 1 .. m /\ k \in 1 .. m /\ 1 \in 1 .. m + 1
    BY <1>0
  <2>2. CASE k = 1
    BY <1>19, <1>27, <2>2
  <2>3. CASE k # 1
    <3>1. s[1] # s[k] /\ 1 < k
      BY <1>5, <2>1, <2>3
    <3>2. QED
      BY <1>19, <1>27, <2>1, <3>1
  <2>4. QED
    BY <2>2, <2>3
<1>29. l.m_last = r[m + 1]
  <2>1. m + 1 \in 1 .. m + 1 /\ m + 1 > k /\ (m + 1) - 1 = m
    BY <1>0
  <2>2. QED
    BY <1>19, <1>27, <2>1
<1>30. IsLaid(List!Linked(l, s[k], x), r, d, m)
  BY <1>12, <1>26, <1>28, <1>29 DEF IsLaid
<1>31. QED
  BY <1>0, <1>1, <1>17, <1>18, <1>30

(* A node taken out of its place. *)
LEMMA RemovedShows ==
  ASSUME NEW n \in Nat, NEW s, NEW c, NEW l, IsLaid(l, s, c, n), NEW k \in 1 .. n
  PROVE  IsLaid(List!Removed(l, s[k]), OneOut(s, n + 1, k), OneOut(c, n, k), n - 1)
<1>0. PICK m \in Nat : m = n - 1 /\ n = m + 1
  OBVIOUS
<1>1. PICK h : h = l.heap
  OBVIOUS
<1>2. Chain(h, s, c, n)
  BY <1>1 DEF IsLaid
<1>3. /\ s \in [1 .. n + 1 -> List!Address] /\ c \in [1 .. n -> Item]
      /\ \A i, j \in 1 .. n + 1 : s[i] = s[j] => i = j
      /\ DOMAIN h = {s[j] : j \in 1 .. n + 1}
      /\ \A j \in 1 .. n + 1 : h[s[j]] = List!Node(InfoOf(c, n, j), PrevOf(s, j), NextOf(s, n, j))
  BY <1>2 DEF Chain
<1>4. \A j \in 1 .. n + 1 : s[j] # 0
  BY <1>3, SomeAddress
<1>5. PICK t : t = s[k]
  OBVIOUS
<1>6. PICK p : p = PrevOf(s, k)
  OBVIOUS
<1>7. PICK q : q = s[k + 1]
  OBVIOUS
<1>8. k \in 1 .. n + 1 /\ k + 1 \in 1 .. n + 1 /\ k # n + 1 /\ k + 1 # 1
  OBVIOUS
<1>9. h[t].prev = p /\ h[t].next = q
  <2>1. h[t] = List!Node(InfoOf(c, n, k), p, q)
    BY <1>3, <1>5, <1>6, <1>7, <1>8 DEF NextOf
  <2>2. QED
    BY <2>1 DEF List!Node
<1>10. PICK g : g = [a \in DOMAIN h \ {t} |-> h[a]]
  OBVIOUS
<1>11. PICK g1 : g1 = [g EXCEPT ![q].prev = p]
  OBVIOUS
<1>12. PICK g2 : g2 = IF p = 0 THEN g1 ELSE [g1 EXCEPT ![p].next = q]
  OBVIOUS
<1>13. List!Removed(l, t) = [heap |-> g2, m_first |-> IF p = 0 THEN q ELSE l.m_first, m_last |-> l.m_last]
  BY <1>1, <1>9, <1>10, <1>11, <1>12 DEF List!Removed, List!NULL
<1>14. /\ DOMAIN g2 = DOMAIN h \ {t} /\ g2 = [b \in DOMAIN h \ {t} |-> g2[b]]
       /\ DOMAIN g1 = DOMAIN h \ {t}
  BY <1>10, <1>11, <1>12
<1>15. \A j \in 1 .. n + 1 : j # k => s[j] # t /\ s[j] \in DOMAIN g /\ g[s[j]] = h[s[j]]
  BY <1>3, <1>5, <1>8, <1>10
<1>16. /\ g1[q] = List!Node(InfoOf(c, n, k + 1), p, NextOf(s, n, k + 1))
       /\ \A j \in 1 .. n + 1 : j # k /\ j # k + 1 => g1[s[j]] = h[s[j]]
  <2>1. g[q] = List!Node(InfoOf(c, n, k + 1), PrevOf(s, k + 1), NextOf(s, n, k + 1)) /\ q \in DOMAIN g
    BY <1>3, <1>7, <1>8, <1>15
  <2>2. g1[q] = [g[q] EXCEPT !.prev = p]
    BY <1>11, <2>1
  <2>3. g1[q] = List!Node(InfoOf(c, n, k + 1), p, NextOf(s, n, k + 1))
    BY <2>1, <2>2 DEF List!Node
  <2>4. \A b \in DOMAIN g : b # q => g1[b] = g[b]
    BY <1>11
  <2>5. \A j \in 1 .. n + 1 : j # k + 1 => s[j] # q
    BY <1>3, <1>7, <1>8
  <2>6. QED
    BY <1>15, <2>3, <2>4, <2>5
<1>17. /\ g2[q] = List!Node(InfoOf(c, n, k + 1), p, NextOf(s, n, k + 1))
       /\ k # 1 => g2[s[k - 1]] = List!Node(InfoOf(c, n, k - 1), PrevOf(s, k - 1), q)
       /\ \A j \in 1 .. n + 1 : j # k /\ j # k + 1 /\ j # k - 1 => g2[s[j]] = h[s[j]]
  <2>1. CASE k = 1
    <3>1. p = 0 /\ g2 = g1
      BY <1>6, <1>12, <2>1 DEF PrevOf
    <3>2. QED
      BY <1>16, <2>1, <3>1
  <2>2. CASE k # 1
    <3>1. k - 1 \in 1 .. n + 1 /\ k - 1 # k /\ k - 1 # k + 1
      BY <2>2
    <3>2. p = s[k - 1] /\ p # 0
      BY <1>4, <1>6, <2>2, <3>1 DEF PrevOf
    <3>3. g2 = [g1 EXCEPT ![p].next = q] /\ p \in DOMAIN g1
      BY <1>10, <1>12, <1>14, <1>15, <3>1, <3>2
    <3>4. g1[p] = List!Node(InfoOf(c, n, k - 1), PrevOf(s, k - 1), NextOf(s, n, k - 1))
      BY <1>3, <1>16, <3>1, <3>2
    <3>5. g2[p] = [g1[p] EXCEPT !.next = q]
      BY <3>3
    <3>6. g2[p] = List!Node(InfoOf(c, n, k - 1), PrevOf(s, k - 1), q)
      BY <3>4, <3>5 DEF List!Node
    <3>7. \A b \in DOMAIN g1 : b # p => g2[b] = g1[b]
      BY <3>3
    <3>8. \A j \in 1 .. n + 1 : j # k - 1 => s[j] # p
      BY <1>3, <3>1, <3>2
    <3>9. \A j \in 1 .. n + 1 : j # k => s[j] \in DOMAIN g1
      BY <1>10, <1>14, <1>15
    <3>10. QED
      BY <1>7, <1>8, <1>16, <3>1, <3>2, <3>6, <3>7, <3>8, <3>9
  <2>3. QED
    BY <2>1, <2>2
<1>18. PICK r : r = OneOut(s, n + 1, k)
  OBVIOUS
<1>19. PICK d : d = OneOut(c, n, k)
  OBVIOUS
<1>20. /\ r = [j \in 1 .. n |-> r[j]]
       /\ \A j \in 1 .. n : /\ j < k => j \in 1 .. n + 1 /\ r[j] = s[j]
                            /\ ~(j < k) => j + 1 \in 1 .. n + 1 /\ r[j] = s[j + 1]
  BY <1>0, <1>18 DEF OneOut
<1>21. /\ d = [j \in 1 .. m |-> d[j]]
       /\ \A j \in 1 .. m : /\ j < k => j \in 1 .. n /\ d[j] = c[j]
                            /\ ~(j < k) => j + 1 \in 1 .. n /\ d[j] = c[j + 1]
  BY <1>0, <1>19 DEF OneOut
<1>22. d \in [1 .. m -> Item]
  BY <1>3, <1>21
<1>23. r \in [1 .. n -> List!Address]
  BY <1>3, <1>20
<1>24. ASSUME NEW i \in 1 .. n, NEW j \in 1 .. n, r[i] = r[j] PROVE i = j
  <2>1. PICK u \in 1 .. n + 1, v \in 1 .. n + 1 : /\ r[i] = s[u] /\ u = IF i < k THEN i ELSE i + 1
                                                  /\ r[j] = s[v] /\ v = IF j < k THEN j ELSE j + 1
    BY <1>20
  <2>2. u = v
    BY <1>3, <1>24, <2>1, ZenonT(40)
  <2>3. QED
    BY <2>1, <2>2
<1>25. {r[j] : j \in 1 .. n} = DOMAIN h \ {t}
  <2>1. ASSUME NEW j \in 1 .. n PROVE r[j] \in DOMAIN h \ {t}
    <3>1. PICK u \in 1 .. n + 1 : r[j] = s[u] /\ u = IF j < k THEN j ELSE j + 1
      BY <1>20
    <3>2. u # k
      BY <3>1
    <3>3. QED
      BY <1>3, <1>15, <3>1, <3>2
  <2>2. ASSUME NEW j \in 1 .. n + 1, j # k PROVE \E i \in 1 .. n : r[i] = s[j]
    <3>1. CASE j < k
      BY <1>20, <3>1
    <3>2. CASE ~(j < k)
      <4>1. j - 1 \in 1 .. n /\ ~(j - 1 < k) /\ (j - 1) + 1 = j
        BY <2>2, <3>2
      <4>2. QED
        BY <1>20, <4>1
    <3>3. QED
      BY <3>1, <3>2
  <2>3. ASSUME NEW b \in DOMAIN h \ {t} PROVE \E j \in 1 .. n + 1 : j # k /\ b = s[j]
    BY <1>3, <1>5
  <2>4. QED
    BY <2>1, <2>2, <2>3
<1>26. ASSUME NEW j \in 1 .. n
       PROVE  g2[r[j]] = List!Node(InfoOf(d, m, j), PrevOf(r, j), NextOf(r, m, j))
  <2>1. CASE j < k
    <3>1. j \in 1 .. m /\ j \in 1 .. n + 1 /\ j # n /\ j # n + 1 /\ k # 1 /\ j # k /\ j # k + 1
      BY <1>0, <2>1
    <3>2. r[j] = s[j] /\ InfoOf(d, m, j) = InfoOf(c, n, j)
      <4>1. r[j] = s[j] /\ d[j] = c[j]
        BY <1>20, <1>21, <2>1, <3>1
      <4>2. j <= m /\ j <= n
        BY <1>0, <3>1
      <4>3. QED
        BY <4>1, <4>2 DEF InfoOf
    <3>3. PrevOf(r, j) = PrevOf(s, j)
      <4>1. CASE j = 1
        BY <4>1 DEF PrevOf
      <4>2. CASE j # 1
        <5>1. j - 1 \in 1 .. n /\ j - 1 < k
          BY <2>1, <3>1, <4>2
        <5>2. QED
          BY <1>20, <4>2, <5>1 DEF PrevOf
      <4>3. QED
        BY <4>1, <4>2
    <3>4. j # m + 1 /\ j + 1 \in 1 .. n /\ NextOf(r, m, j) = r[j + 1]
      BY <1>0, <3>1 DEF NextOf
    <3>5. CASE j = k - 1
      <4>1. ~(j + 1 < k) /\ (j + 1) + 1 = k + 1
        BY <3>5
      <4>2. r[j + 1] = q
        BY <1>7, <1>20, <3>4, <4>1
      <4>3. QED
        BY <1>17, <3>1, <3>2, <3>3, <3>4, <3>5, <4>2
    <3>6. CASE j # k - 1
      <4>1. j + 1 < k
        BY <2>1, <3>6
      <4>2. NextOf(r, m, j) = NextOf(s, n, j)
        BY <1>20, <3>1, <3>4, <4>1 DEF NextOf
      <4>3. QED
        BY <1>3, <1>17, <3>1, <3>2, <3>3, <3>6, <4>2
    <3>7. QED
      BY <3>5, <3>6
  <2>2. CASE ~(j < k)
    <3>1. PICK i \in 1 .. n + 1 : i = j + 1 /\ i # k /\ i # k - 1 /\ i # 1
      BY <2>2
    <3>2. r[j] = s[i]
      BY <1>20, <2>2, <3>1
    <3>3. InfoOf(d, m, j) = InfoOf(c, n, i)
      <4>1. CASE j <= m
        <5>1. j \in 1 .. m /\ i <= n
          BY <1>0, <3>1, <4>1
        <5>2. d[j] = c[i]
          BY <1>21, <2>2, <3>1, <5>1
        <5>3. QED
          BY <4>1, <5>1, <5>2 DEF InfoOf
      <4>2. CASE ~(j <= m)
        BY <1>0, <3>1, <4>2 DEF InfoOf
      <4>3. QED
        BY <4>1, <4>2
    <3>4. NextOf(r, m, j) = NextOf(s, n, i)
      <4>1. CASE j = m + 1
        BY <1>0, <3>1, <4>1 DEF NextOf
      <4>2. CASE j # m + 1
        <5>1. j + 1 \in 1 .. n /\ ~(j + 1 < k) /\ (j + 1) + 1 = i + 1 /\ i # n + 1
          BY <1>0, <2>2, <3>1, <4>2
        <5>2. r[j + 1] = s[i + 1]
          BY <1>20, <5>1
        <5>3. QED
          BY <4>2, <5>1, <5>2 DEF NextOf
      <4>3. QED
        BY <4>1, <4>2
    <3>5. CASE j = k
      <4>1. PrevOf(r, j) = p
        <5>1. CASE k = 1
          BY <1>6, <3>5, <5>1 DEF PrevOf
        <5>2. CASE k # 1
          <6>1. k - 1 \in 1 .. n /\ k - 1 < k
            BY <5>2
          <6>2. QED
            BY <1>6, <1>20, <3>5, <5>2, <6>1 DEF PrevOf
        <5>3. QED
          BY <5>1, <5>2
      <4>2. i = k + 1 /\ r[j] = q
        BY <1>7, <3>1, <3>2, <3>5
      <4>3. QED
        BY <1>17, <3>3, <3>4, <4>1, <4>2
    <3>6. CASE j # k
      <4>1. j - 1 \in 1 .. n /\ ~(j - 1 < k) /\ (j - 1) + 1 = j /\ i - 1 = j /\ j # 1 /\ i # k + 1
        BY <2>2, <3>1, <3>6
      <4>2. r[j - 1] = s[j]
        BY <1>20, <4>1
      <4>3. PrevOf(r, j) = PrevOf(s, i)
        BY <3>1, <4>1, <4>2 DEF PrevOf
      <4>4. QED
        BY <1>3, <1>17, <3>1, <3>2, <3>3, <3>4, <4>1, <4>3
    <3>7. QED
      BY <3>5, <3>6
  <2>3. QED
    BY <2>1, <2>2
<1>27. Chain(g2, r, d, m)
  BY <1>0, <1>14, <1>22, <1>23, <1>24, <1>25, <1>26 DEF Chain
<1>28. l.m_first = s[1] /\ l.m_last = s[n + 1]
  BY DEF IsLaid
<1>29. (IF p = 0 THEN q ELSE l.m_first) = r[1]
  <2>1. CASE k = 1
    <3>1. p = 0 /\ ~(1 < k) /\ 1 \in 1 .. n
      BY <1>6, <2>1 DEF PrevOf
    <3>2. QED
      BY <1>7, <1>20, <2>1, <3>1
  <2>2. CASE k # 1
    <3>1. 1 < k /\ 1 \in 1 .. n /\ k - 1 \in 1 .. n + 1
      BY <2>2
    <3>2. p # 0
      BY <1>4, <1>6, <2>2, <3>1 DEF PrevOf
    <3>3. QED
      BY <1>20, <1>28, <3>1, <3>2
  <2>3. QED
    BY <2>1, <2>2
<1>30. l.m_last = r[m + 1]
  <2>1. n \in 1 .. n /\ ~(n < k) /\ m + 1 = n
    BY <1>0
  <2>2. QED
    BY <1>20, <1>28, <2>1
<1>31. IsLaid(List!Removed(l, t), r, d, m)
  BY <1>13, <1>27, <1>29, <1>30 DEF IsLaid
<1>32. QED
  BY <1>0, <1>5, <1>18, <1>19, <1>31

(* What walking the links finds. *)
LEMMA ForwardIs ==
  ASSUME NEW n \in Nat, n <= MaxItems, NEW s, NEW c, NEW l, IsLaid(l, s, c, n)
  PROVE  \A k \in 0 .. MaxItems + 1 : List!Forward(l)[k] = IF k <= n THEN s[k + 1] ELSE 0
<1>1. PICK m \in Nat : m = MaxItems + 1 /\ n < m
  BY ListAssumption
<1>2. /\ l.m_first = s[1] /\ \A j \in 1 .. n + 1 : s[j] \in DOMAIN l.heap /\ s[j] \in List!Address
      /\ \A j \in 1 .. n + 1 : l.heap[s[j]].next = NextOf(s, n, j)
      /\ 0 \notin DOMAIN l.heap
  <2>1. /\ s \in [1 .. n + 1 -> List!Address] /\ DOMAIN l.heap = {s[j] : j \in 1 .. n + 1}
        /\ \A j \in 1 .. n + 1 : l.heap[s[j]] = List!Node(InfoOf(c, n, j), PrevOf(s, j), NextOf(s, n, j))
    BY DEF IsLaid, Chain
  <2>2. \A j \in 1 .. n + 1 : s[j] \in List!Address /\ s[j] # 0
    BY <2>1, SomeAddress
  <2>3. ASSUME NEW j \in 1 .. n + 1 PROVE l.heap[s[j]].next = NextOf(s, n, j)
    <3>1. l.heap[s[j]] = List!Node(InfoOf(c, n, j), PrevOf(s, j), NextOf(s, n, j))
      BY <2>1
    <3>2. QED
      BY <3>1 DEF List!Node
  <2>4. l.m_first = s[1]
    BY DEF IsLaid
  <2>5. QED
    BY <2>1, <2>2, <2>3, <2>4
<1>3. PICK f : f = [k \in 0 .. m |-> IF k <= n THEN s[k + 1] ELSE 0]
  OBVIOUS
<1>4. f[0] = s[1] /\ 0 \in 0 .. m
  BY <1>3
<1>5. ASSUME NEW g, g[0] = s[1], NEW k \in 1 .. m, g[k - 1] = f[k - 1]
      PROVE  (IF g[k - 1] \in DOMAIN l.heap THEN l.heap[g[k - 1]].next ELSE 0) = f[k]
  <2>1. k - 1 \in 0 .. m /\ k \in 0 .. m
    OBVIOUS
  <2>2. CASE k - 1 <= n
    <3>1. g[k - 1] = s[k] /\ k \in 1 .. n + 1
      BY <1>3, <1>5, <2>1, <2>2
    <3>2. (IF g[k - 1] \in DOMAIN l.heap THEN l.heap[g[k - 1]].next ELSE 0) = NextOf(s, n, k)
      BY <1>2, <3>1
    <3>3. f[k] = IF k <= n THEN s[k + 1] ELSE 0
      BY <1>3, <2>1
    <3>4. k <= n <=> k # n + 1
      BY <3>1
    <3>5. QED
      BY <3>2, <3>3, <3>4 DEF NextOf
  <2>3. CASE ~(k - 1 <= n)
    <3>1. g[k - 1] = 0
      BY <1>3, <1>5, <2>1, <2>3
    <3>2. f[k] = 0
      BY <1>3, <2>1, <2>3
    <3>3. QED
      BY <1>2, <3>1, <3>2
  <2>4. QED
    BY <2>2, <2>3
<1>6. f = [k \in 0 .. m |-> IF k = 0 THEN l.m_first
                            ELSE IF f[k - 1] \in DOMAIN l.heap THEN l.heap[f[k - 1]].next ELSE 0]
  <2>1. ASSUME NEW k \in 0 .. m
        PROVE  f[k] = IF k = 0 THEN l.m_first
                      ELSE IF f[k - 1] \in DOMAIN l.heap THEN l.heap[f[k - 1]].next ELSE 0
    <3>1. CASE k = 0
      BY <1>2, <1>4, <3>1
    <3>2. CASE k # 0
      <4>1. k \in 1 .. m
        BY <3>2
      <4>2. (IF f[k - 1] \in DOMAIN l.heap THEN l.heap[f[k - 1]].next ELSE 0) = f[k]
        BY <1>4, <1>5, <4>1
      <4>3. QED
        BY <3>2, <4>2
    <3>3. QED
      BY <3>1, <3>2
  <2>2. QED
    BY <1>3, <2>1
<1>7. PICK at : /\ at = [k \in 0 .. m |-> IF k = 0 THEN l.m_first
                            ELSE IF at[k - 1] \in DOMAIN l.heap THEN l.heap[at[k - 1]].next ELSE 0]
                /\ List!Forward(l) = at
  <2>1. PICK at : at = CHOOSE g : g = [k \in 0 .. m |-> IF k = 0 THEN l.m_first
                            ELSE IF g[k - 1] \in DOMAIN l.heap THEN l.heap[g[k - 1]].next ELSE 0]
    OBVIOUS
  <2>2. at = [k \in 0 .. m |-> IF k = 0 THEN l.m_first
                            ELSE IF at[k - 1] \in DOMAIN l.heap THEN l.heap[at[k - 1]].next ELSE 0]
    BY <1>6, <2>1, Zenon
  <2>3. List!Forward(l) = at
    BY <1>1, <2>1 DEF List!Forward, List!NULL
  <2>4. QED
    BY <2>2, <2>3, Zenon
<1>8. PICK S : S = {k \in 0 .. m : at[k] = f[k]}
  OBVIOUS
<1>9. at[0] = s[1]
  BY <1>2, <1>4, <1>7
<1>10. 0 \in S
  BY <1>4, <1>8, <1>9
<1>11. ASSUME NEW k \in 0 .. m - 1, k \in S PROVE k + 1 \in S
  <2>1. k + 1 \in 0 .. m /\ k + 1 # 0 /\ (k + 1) - 1 = k /\ k + 1 \in 1 .. m
    OBVIOUS
  <2>2. at[k] = f[k]
    BY <1>8, <1>11
  <2>3. at[k + 1] = IF at[k] \in DOMAIN l.heap THEN l.heap[at[k]].next ELSE 0
    BY <1>7, <2>1
  <2>4. (IF at[(k + 1) - 1] \in DOMAIN l.heap THEN l.heap[at[(k + 1) - 1]].next ELSE 0) = f[k + 1]
    BY <1>5, <1>9, <2>1, <2>2
  <2>5. QED
    BY <1>8, <2>1, <2>3, <2>4
<1>12. 0 .. m \subseteq S
  BY <1>10, <1>11, Induction
<1>13. \A k \in 0 .. m : List!Forward(l)[k] = IF k <= n THEN s[k + 1] ELSE 0
  BY <1>3, <1>7, <1>8, <1>12
<1>14. QED
  BY <1>1, <1>13

(* So many nodes as there are addresses. *)
LEMMA LengthIs ==
  ASSUME NEW n \in Nat, NEW s, NEW c, NEW l, IsLaid(l, s, c, n)
  PROVE  List!Length(l) = n
<1>1. PICK D : D = DOMAIN l.heap
  OBVIOUS
<1>2. s \in Bijection(1 .. n + 1, D)
  <2>1. /\ s \in [1 .. n + 1 -> D] /\ \A i, j \in 1 .. n + 1 : s[i] = s[j] => i = j
        /\ \A a \in D : \E k \in 1 .. n + 1 : s[k] = a
    BY <1>1 DEF IsLaid, Chain
  <2>2. QED
    BY <2>1 DEF Bijection, Injection, Surjection, IsInjective
<1>3. 1 \in Int /\ n + 1 \in Int
  OBVIOUS
<1>4. IsFiniteSet(1 .. n + 1) /\ Cardinality(1 .. n + 1) = n + 1
  BY <1>3, FS_Interval
<1>5. Cardinality(D) = Cardinality(1 .. n + 1)
  <2>1. ExistsBijection(1 .. n + 1, D)
    BY <1>2 DEF ExistsBijection
  <2>2. QED
    BY <1>4, <2>1, FS_Bijection, Zenon
<1>6. List!Cardinality(D) = Cardinality(D)
  BY DEF List!Cardinality, Cardinality
<1>7. QED
  BY <1>1, <1>4, <1>5, <1>6 DEF List!Length

(* The first node with an element that is wanted. *)
LEMMA SearchIs ==
  ASSUME NEW n \in Nat, n <= MaxItems, NEW s, NEW c, NEW l, IsLaid(l, s, c, n), NEW wanted
  PROVE  \/ List!Search(l, wanted) = s[n + 1] /\ \A k \in 1 .. n : c[k] \notin wanted
         \/ \E k \in 1 .. n : /\ List!Search(l, wanted) = s[k] /\ c[k] \in wanted
                              /\ \A j \in 1 .. k - 1 : c[j] \notin wanted
<1>1. \A k \in 0 .. n : List!Forward(l)[k] = s[k + 1]
  <2>1. \A k \in 0 .. n : k \in 0 .. MaxItems + 1 /\ k <= n
    BY ListAssumption
  <2>2. QED
    BY <2>1, ForwardIs
<1>2. \A k \in 0 .. n - 1 : l.heap[List!Forward(l)[k]].information = c[k + 1]
  <2>1. ASSUME NEW k \in 0 .. n - 1 PROVE l.heap[List!Forward(l)[k]].information = c[k + 1]
    <3>1. k + 1 \in 1 .. n + 1 /\ k + 1 <= n /\ k \in 0 .. n
      OBVIOUS
    <3>2. l.heap[s[k + 1]] = List!Node(c[k + 1], PrevOf(s, k + 1), NextOf(s, n, k + 1))
      BY <3>1 DEF IsLaid, Chain, InfoOf
    <3>3. QED
      BY <1>1, <3>1, <3>2 DEF List!Node
  <2>2. QED
    BY <2>1
<1>3. l.m_last = s[n + 1]
  BY DEF IsLaid
<1>4. PICK hits : hits = {k \in 0 .. n - 1 : c[k + 1] \in wanted}
  OBVIOUS
<1>5. List!Search(l, wanted) = IF hits = {} THEN s[n + 1]
                               ELSE List!Forward(l)[CHOOSE k \in hits : \A j \in hits : k <= j]
  <2>1. List!Length(l) = n
    BY LengthIs
  <2>2. hits = {k \in 0 .. n - 1 : l.heap[List!Forward(l)[k]].information \in wanted}
    BY <1>2, <1>4
  <2>3. QED
    BY <1>3, <2>1, <2>2 DEF List!Search
<1>6. CASE hits = {}
  <2>1. \A k \in 1 .. n : k - 1 \in 0 .. n - 1 /\ (k - 1) + 1 = k
    OBVIOUS
  <2>2. \A k \in 1 .. n : c[k] \notin wanted
    BY <1>4, <1>6, <2>1
  <2>3. QED
    BY <1>5, <1>6, <2>2
<1>7. CASE hits # {}
  <2>1. hits \in SUBSET Nat
    BY <1>4
  <2>2. \E k \in hits : \A j \in hits : k <= j
    BY <1>7, <2>1, LeastOf
  <2>3. PICK k \in hits : /\ List!Search(l, wanted) = List!Forward(l)[k] /\ \A j \in hits : k <= j
    BY <1>5, <1>7, <2>2
  <2>4. k \in 0 .. n - 1 /\ c[k + 1] \in wanted
    BY <1>4, <2>3
  <2>5. PICK i \in 1 .. n : i = k + 1
    BY <2>4
  <2>6. List!Search(l, wanted) = s[i]
    BY <1>1, <2>3, <2>4, <2>5
  <2>7. ASSUME NEW j \in 1 .. i - 1 PROVE c[j] \notin wanted
    <3>1. j - 1 \in 0 .. n - 1 /\ (j - 1) + 1 = j /\ ~(k <= j - 1)
      BY <2>4, <2>5
    <3>2. j - 1 \notin hits
      BY <2>3, <3>1
    <3>3. QED
      BY <1>4, <3>1, <3>2
  <2>8. QED
    BY <2>4, <2>5, <2>6, <2>7
<1>8. QED
  BY <1>6, <1>7

(* The same of what was put in. *)
LEMMA InsertIs ==
  ASSUME NEW S, NEW c \in Seq(S), NEW n \in Nat, n = Len(c), NEW k \in 1 .. n + 1, NEW x \in S
  PROVE  /\ List!InsertAt(c, k, x) = OneIn(c, n, k, x)
         /\ OneIn(c, n, k, x) \in Seq(S) /\ Len(OneIn(c, n, k, x)) = n + 1
<1>1. PICK a : a = SubSeq(c, 1, k - 1)
  OBVIOUS
<1>2. PICK b : b = SubSeq(c, k, n)
  OBVIOUS
<1>3. a \in Seq(S) /\ Len(a) = k - 1 /\ \A j \in 1 .. k - 1 : a[j] = c[j]
  BY <1>1
<1>4. b \in Seq(S) /\ Len(b) = n + 1 - k /\ \A j \in 1 .. n + 1 - k : b[j] = c[k + j - 1]
  BY <1>2
<1>5. PICK e : e = <<x>>
  OBVIOUS
<1>6. e \in Seq(S) /\ Len(e) = 1 /\ e[1] = x
  BY <1>5
<1>7. PICK d : d = a \o e
  OBVIOUS
<1>8. /\ d \in Seq(S) /\ Len(d) = Len(a) + Len(e)
      /\ \A j \in 1 .. Len(a) + Len(e) : d[j] = IF j <= Len(a) THEN a[j] ELSE e[j - Len(a)]
  BY <1>3, <1>6, <1>7, ConcatProperties
<1>9. PICK f : f = d \o b
  OBVIOUS
<1>10. /\ f \in Seq(S) /\ Len(f) = Len(d) + Len(b)
       /\ \A j \in 1 .. Len(d) + Len(b) : f[j] = IF j <= Len(d) THEN d[j] ELSE b[j - Len(d)]
  <2>1. d \in Seq(S) /\ b \in Seq(S)
    BY <1>4, <1>8
  <2>2. QED
    BY <1>9, <2>1, ConcatProperties
<1>11. Len(d) = k /\ Len(f) = n + 1
  BY <1>3, <1>4, <1>6, <1>8, <1>10
<1>12. ASSUME NEW j \in 1 .. n + 1
       PROVE  f[j] = IF j < k THEN c[j] ELSE IF j = k THEN x ELSE c[j - 1]
  <2>1. j \in 1 .. Len(d) + Len(b)
    BY <1>10, <1>11
  <2>2. CASE j < k
    <3>1. j <= Len(a) /\ j <= Len(d) /\ j \in 1 .. k - 1 /\ j \in 1 .. Len(a) + Len(e)
      BY <1>3, <1>6, <1>11, <2>2
    <3>2. QED
      BY <1>3, <1>8, <1>10, <2>1, <2>2, <3>1
  <2>3. CASE j = k
    <3>1. ~(j <= Len(a)) /\ j <= Len(d) /\ j - Len(a) = 1 /\ j \in 1 .. Len(a) + Len(e)
      BY <1>3, <1>6, <1>11, <2>3
    <3>2. QED
      BY <1>6, <1>8, <1>10, <2>1, <2>3, <3>1
  <2>4. CASE j > k
    <3>1. ~(j <= Len(d)) /\ j - Len(d) = j - k /\ j - k \in 1 .. n + 1 - k /\ k + (j - k) - 1 = j - 1
      BY <1>11, <2>4
    <3>2. f[j] = b[j - k]
      BY <1>10, <2>1, <3>1
    <3>3. b[j - k] = c[j - 1]
      BY <1>4, <3>1
    <3>4. QED
      BY <2>4, <3>2, <3>3
  <2>5. QED
    BY <2>2, <2>3, <2>4
<1>13. f = OneIn(c, n, k, x)
  BY <1>10, <1>11, <1>12 DEF OneIn
<1>14. List!InsertAt(c, k, x) = f
  BY <1>1, <1>2, <1>5, <1>7, <1>9 DEF List!InsertAt
<1>15. QED
  BY <1>10, <1>11, <1>13, <1>14

LEMMA RemoveIs ==
  ASSUME NEW S, NEW c \in Seq(S), NEW n \in Nat, n = Len(c), NEW k \in 1 .. n
  PROVE  /\ List!RemoveAt(c, k) = OneOut(c, n, k)
         /\ OneOut(c, n, k) \in Seq(S) /\ Len(OneOut(c, n, k)) = n - 1
<1>1. PICK d : d = Hash!RemoveAt(c, k)
  OBVIOUS
<1>2. /\ d \in Seq(S) /\ Len(d) = n - 1
      /\ \A j \in 1 .. n - 1 : d[j] = c[IF j < k THEN j ELSE j + 1]
  BY <1>1, RemovedSeq
<1>3. d = OneOut(c, n, k)
  BY <1>2 DEF OneOut
<1>4. List!RemoveAt(c, k) = d
  BY <1>1 DEF List!RemoveAt, Hash!RemoveAt
<1>5. QED
  BY <1>2, <1>3, <1>4

LEMMA EndsAre ==
  ASSUME NEW S, NEW c \in Seq(S), NEW n \in Nat, n = Len(c), NEW x \in S
  PROVE  /\ Append(c, x) = OneIn(c, n, n + 1, x)
         /\ <<x>> \o c = OneIn(c, n, 1, x)
         /\ c # <<>> => n # 0 /\ Tail(c) = OneOut(c, n, 1)
<1>1. Append(c, x) = OneIn(c, n, n + 1, x)
  <2>1. PICK d : d = Append(c, x)
    OBVIOUS
  <2>2. /\ d \in Seq(S) /\ Len(d) = n + 1 /\ d[n + 1] = x /\ \A j \in 1 .. n : d[j] = c[j]
    BY <2>1, AppendedSeq
  <2>3. \A j \in 1 .. n + 1 : j < n + 1 => j \in 1 .. n
    OBVIOUS
  <2>4. d = OneIn(c, n, n + 1, x)
    BY <2>2, <2>3 DEF OneIn
  <2>5. QED
    BY <2>1, <2>4
<1>2. <<x>> \o c = OneIn(c, n, 1, x)
  <2>1. PICK e : e = <<x>>
    OBVIOUS
  <2>2. e \in Seq(S) /\ Len(e) = 1 /\ e[1] = x
    BY <2>1
  <2>3. PICK d : d = e \o c
    OBVIOUS
  <2>4. /\ d \in Seq(S) /\ Len(d) = Len(e) + Len(c)
        /\ \A j \in 1 .. Len(e) + Len(c) : d[j] = IF j <= Len(e) THEN e[j] ELSE c[j - Len(e)]
    BY <2>2, <2>3, ConcatProperties
  <2>5. Len(d) = n + 1 /\ \A j \in 1 .. n + 1 : d[j] = IF j = 1 THEN x ELSE c[j - 1]
    BY <2>2, <2>4
  <2>6. d = OneIn(c, n, 1, x)
    BY <2>4, <2>5 DEF OneIn
  <2>7. QED
    BY <2>1, <2>3, <2>6
<1>3. ASSUME c # <<>> PROVE n # 0 /\ Tail(c) = OneOut(c, n, 1)
  <2>1. n # 0
    BY <1>3
  <2>2. PICK d : d = Tail(c)
    OBVIOUS
  <2>3. d \in Seq(S) /\ Len(d) = n - 1 /\ \A j \in 1 .. n - 1 : d[j] = c[j + 1]
    BY <1>3, <2>2
  <2>4. d = OneOut(c, n, 1)
    BY <2>3 DEF OneOut
  <2>5. QED
    BY <2>1, <2>2, <2>4
<1>4. QED
  BY <1>1, <1>2, <1>3

(* A list to which the elements of another were appended. *)
LEMMA ClonedShows ==
  ASSUME NEW n \in Nat, n <= MaxItems, NEW c \in [1 .. n -> Item]
  PROVE  \E s : IsLaid(List!Cloned(c), s, c, n)
<1>1. Len(c) = n
  BY FunctionIsSeq
<1>2. PICK S : S = {m \in 0 .. n : \E f : f = [k \in 0 .. m |->
                      IF k = 0 THEN List!initList ELSE List!Appended(f[k - 1], c[k])]}
  OBVIOUS
<1>3. 0 \in S
  <2>1. PICK f : f = [k \in 0 .. 0 |-> List!initList]
    OBVIOUS
  <2>2. f = [k \in 0 .. 0 |-> IF k = 0 THEN List!initList ELSE List!Appended(f[k - 1], c[k])]
    BY <2>1
  <2>3. QED
    BY <1>2, <2>2
<1>4. ASSUME NEW m \in 0 .. n - 1, m \in S PROVE m + 1 \in S
  <2>1. PICK f : f = [k \in 0 .. m |-> IF k = 0 THEN List!initList ELSE List!Appended(f[k - 1], c[k])]
    BY <1>2, <1>4
  <2>2. PICK x : x = List!Appended(f[m], c[m + 1])
    OBVIOUS
  <2>3. PICK g : g = [k \in 0 .. m + 1 |-> IF k = m + 1 THEN x ELSE f[k]]
    OBVIOUS
  <2>4. ASSUME NEW k \in 0 .. m + 1
        PROVE  g[k] = IF k = 0 THEN List!initList ELSE List!Appended(g[k - 1], c[k])
    <3>1. CASE k = m + 1
      <4>1. k # 0 /\ k - 1 = m /\ m \in 0 .. m + 1 /\ m # m + 1
        BY <3>1
      <4>2. g[k - 1] = f[m] /\ g[k] = x
        BY <2>3, <3>1, <4>1
      <4>3. QED
        BY <2>2, <3>1, <4>1, <4>2
    <3>2. CASE k # m + 1
      <4>1. k \in 0 .. m /\ (k # 0 => k - 1 \in 0 .. m + 1 /\ k - 1 # m + 1)
        BY <3>2
      <4>2. g[k] = f[k] /\ (k # 0 => g[k - 1] = f[k - 1])
        BY <2>3, <3>2, <4>1
      <4>3. f[k] = IF k = 0 THEN List!initList ELSE List!Appended(f[k - 1], c[k])
        BY <2>1, <4>1
      <4>4. QED
        BY <4>2, <4>3
    <3>3. QED
      BY <3>1, <3>2
  <2>5. g = [k \in 0 .. m + 1 |-> IF k = 0 THEN List!initList ELSE List!Appended(g[k - 1], c[k])]
    BY <2>3, <2>4
  <2>6. m + 1 \in 0 .. n
    OBVIOUS
  <2>7. QED
    BY <1>2, <2>5, <2>6
<1>5. n \in S
  <2>1. 0 .. n \subseteq S
    BY <1>3, <1>4, Induction
  <2>2. QED
    BY <2>1
<1>6. PICK after :
         /\ after = [k \in 0 .. n |-> IF k = 0 THEN List!initList ELSE List!Appended(after[k - 1], c[k])]
         /\ List!Cloned(c) = after[n]
  <2>1. PICK after : after = CHOOSE g : g = [k \in 0 .. n |->
                       IF k = 0 THEN List!initList ELSE List!Appended(g[k - 1], c[k])]
    OBVIOUS
  <2>2. PICK f : f = [k \in 0 .. n |-> IF k = 0 THEN List!initList ELSE List!Appended(f[k - 1], c[k])]
    BY <1>2, <1>5
  <2>3. after = [k \in 0 .. n |-> IF k = 0 THEN List!initList ELSE List!Appended(after[k - 1], c[k])]
    BY <2>1, <2>2
  <2>4. List!Cloned(c) = after[n]
    BY <1>1, <2>1 DEF List!Cloned
  <2>5. QED
    BY <2>3, <2>4
<1>7. PICK cut : cut = [k \in 0 .. n |-> [j \in 1 .. k |-> c[j]]]
  OBVIOUS
<1>8. PICK T : T = {k \in 0 .. n : \E s : IsLaid(after[k], s, cut[k], k)}
  OBVIOUS
<1>9. 0 \in T
  <2>1. cut[0] = <<>> /\ after[0] = List!initList /\ 0 \in 0 .. n
    <3>1. 1 .. 0 = {}
      OBVIOUS
    <3>2. QED
      BY <1>6, <1>7, <3>1
  <2>2. QED
    BY <1>8, <2>1, EmptyShows
<1>10. ASSUME NEW k \in 0 .. n - 1, k \in T PROVE k + 1 \in T
  <2>1. PICK s : IsLaid(after[k], s, cut[k], k)
    BY <1>8, <1>10
  <2>2. k + 1 \in 0 .. n /\ k + 1 # 0 /\ (k + 1) - 1 = k /\ k + 1 \in 1 .. k + 1 /\ k < MaxItems /\ k \in Nat
    BY ListAssumption
  <2>3. after[k + 1] = List!Linked(after[k], after[k].m_last, c[k + 1])
    BY <1>6, <2>2 DEF List!Appended
  <2>4. after[k].m_last = s[k + 1]
    BY <2>1 DEF IsLaid
  <2>5. PICK l, d, x : l = after[k] /\ d = cut[k] /\ x = c[k + 1] /\ x \in Item
    BY <2>2
  <2>6. IsLaid(List!Linked(l, s[k + 1], x), OneIn(s, k + 1, k + 1, List!New(l)), OneIn(d, k, k + 1, x), k + 1)
    BY <2>1, <2>2, <2>5, LinkedShows
  <2>7. OneIn(d, k, k + 1, x) = cut[k + 1]
    <3>1. \A j \in 1 .. k + 1 : ~(j > k + 1) /\ (j < k + 1 => j \in 1 .. k)
      BY <2>2
    <3>2. k \in 0 .. n
      OBVIOUS
    <3>3. cut[k + 1] = [j \in 1 .. k + 1 |-> c[j]] /\ d = [j \in 1 .. k |-> c[j]]
      BY <1>7, <2>2, <2>5, <3>2
    <3>4. ASSUME NEW j \in 1 .. k + 1
          PROVE  c[j] = IF j < k + 1 THEN d[j] ELSE IF j = k + 1 THEN x ELSE d[j - 1]
      BY <2>5, <3>1, <3>3
    <3>5. QED
      BY <3>3, <3>4 DEF OneIn
  <2>8. IsLaid(after[k + 1], OneIn(s, k + 1, k + 1, List!New(l)), cut[k + 1], k + 1)
    BY <2>3, <2>4, <2>5, <2>6, <2>7
  <2>9. QED
    BY <1>8, <2>2, <2>8
<1>11. n \in T
  <2>1. 0 .. n \subseteq T
    BY <1>9, <1>10, Induction
  <2>2. QED
    BY <2>1
<1>12. cut[n] = c
  BY <1>7
<1>13. QED
  BY <1>6, <1>8, <1>11, <1>12

(* What is true of a list whose nodes are where the history says. *)
ListInv ==
  /\ contents \in Seq(Item) /\ Len(contents) <= MaxItems
  /\ ordered \in BOOLEAN /\ (ordered => List!InOrder(contents))
  /\ where \in 0 .. Len(contents)
  /\ \E s : IsLaid(list, s, contents, Len(contents)) /\ cursor = s[where + 1]

Walks(l, s, c, n) ==
  /\ List!Length(l) = n /\ l.m_first = s[1] /\ l.m_last = s[n + 1]
  /\ s \in [1 .. n + 1 -> List!Address] /\ c \in [1 .. n -> Item]
  /\ \A i, j \in 1 .. n + 1 : s[i] = s[j] => i = j
  /\ \A j \in 1 .. n + 1 : s[j] # 0 /\ s[j] \in DOMAIN l.heap
  /\ DOMAIN l.heap = {s[j] : j \in 1 .. n + 1}
  /\ \A k \in 0 .. n : List!Forward(l)[k] = s[k + 1] /\ k \in 0 .. MaxItems + 1
  /\ \A j \in 1 .. n + 1 : /\ l.heap[s[j]].next = NextOf(s, n, j)
                           /\ l.heap[s[j]].prev = PrevOf(s, j)
  /\ \A j \in 1 .. n : l.heap[s[j]].information = c[j]

LEMMA NodesAre ==
  ASSUME NEW n \in Nat, n <= MaxItems, NEW s, NEW c, NEW l, IsLaid(l, s, c, n)
  PROVE  Walks(l, s, c, n)
<1>1. /\ s \in [1 .. n + 1 -> List!Address] /\ c \in [1 .. n -> Item]
      /\ \A i, j \in 1 .. n + 1 : s[i] = s[j] => i = j
      /\ DOMAIN l.heap = {s[j] : j \in 1 .. n + 1}
      /\ \A j \in 1 .. n + 1 : l.heap[s[j]] = List!Node(InfoOf(c, n, j), PrevOf(s, j), NextOf(s, n, j))
  BY DEF IsLaid, Chain
<1>2. l.m_first = s[1] /\ l.m_last = s[n + 1]
  BY DEF IsLaid
<1>3. ASSUME NEW j \in 1 .. n + 1
      PROVE  /\ l.heap[s[j]].next = NextOf(s, n, j)
             /\ l.heap[s[j]].prev = PrevOf(s, j)
             /\ l.heap[s[j]].information = InfoOf(c, n, j)
  <2>1. l.heap[s[j]] = List!Node(InfoOf(c, n, j), PrevOf(s, j), NextOf(s, n, j))
    BY <1>1
  <2>2. QED
    BY <2>1 DEF List!Node
<1>4. \A j \in 1 .. n : l.heap[s[j]].information = c[j]
  BY <1>3 DEF InfoOf
<1>5. \A j \in 1 .. n + 1 : s[j] # 0 /\ s[j] \in DOMAIN l.heap
  BY <1>1, SomeAddress
<1>6. ASSUME NEW k \in 0 .. n PROVE List!Forward(l)[k] = s[k + 1] /\ k \in 0 .. MaxItems + 1
  <2>1. k \in 0 .. MaxItems + 1 /\ k <= n
    BY ListAssumption
  <2>2. QED
    BY <2>1, ForwardIs
<1>7. List!Length(l) = n
  BY LengthIs
<1>8. QED
  BY <1>1, <1>2, <1>3, <1>4, <1>5, <1>6, <1>7 DEF Walks

LEMMA LinksShow == ListInv => List!LinksAgree
<1>1. SUFFICES ASSUME ListInv PROVE List!LinksAgree
  OBVIOUS
<1>2. PICK n \in Nat : n = Len(contents) /\ n <= MaxItems
  BY <1>1 DEF ListInv
<1>3. PICK s : IsLaid(list, s, contents, n)
  BY <1>1, <1>2 DEF ListInv
<1>4. /\ List!Length(list) = n /\ list.m_first = s[1] /\ list.m_last = s[n + 1]
      /\ \A j \in 1 .. n + 1 : s[j] # 0
      /\ DOMAIN list.heap = {s[j] : j \in 1 .. n + 1}
      /\ \A k \in 0 .. n : List!Forward(list)[k] = s[k + 1] /\ k \in 0 .. MaxItems + 1
      /\ \A j \in 1 .. n + 1 : /\ list.heap[s[j]].next = NextOf(s, n, j)
                               /\ list.heap[s[j]].prev = PrevOf(s, j)
  <2>1. Walks(list, s, contents, n)
    BY <1>2, <1>3, NodesAre
  <2>2. QED
    BY <2>1 DEF Walks
<1>5. List!freeList(list) = DOMAIN list.heap
  <2>1. \A k \in 0 .. MaxItems + 1 : List!Forward(list)[k] = IF k <= n THEN s[k + 1] ELSE 0
    BY <1>2, <1>3, ForwardIs
  <2>2. ASSUME NEW k \in 0 .. MaxItems + 1
        PROVE  List!Forward(list)[k] = 0 \/ List!Forward(list)[k] \in DOMAIN list.heap
    <3>1. CASE k <= n
      <4>1. k + 1 \in 1 .. n + 1
        BY <3>1
      <4>2. QED
        BY <1>4, <2>1, <3>1, <4>1
    <3>2. CASE ~(k <= n)
      BY <2>1, <3>2
    <3>3. QED
      BY <3>1, <3>2
  <2>3. ASSUME NEW j \in 1 .. n + 1
        PROVE  \E k \in 0 .. MaxItems + 1 : List!Forward(list)[k] = s[j] /\ s[j] # 0
    <3>1. j - 1 \in 0 .. n /\ (j - 1) + 1 = j
      OBVIOUS
    <3>2. QED
      BY <1>4, <3>1
  <2>4. \A b \in DOMAIN list.heap : \E j \in 1 .. n + 1 : b = s[j]
    BY <1>4
  <2>5. List!freeList(list) = {List!Forward(list)[k] : k \in 0 .. MaxItems + 1} \ {0}
    BY DEF List!freeList, List!NULL
  <2>6. 0 \notin DOMAIN list.heap
    BY <1>4
  <2>7. QED
    BY <2>2, <2>3, <2>4, <2>5, <2>6
<1>6. List!Forward(list)[n] = list.m_last
  BY <1>4
<1>7. list.heap[list.m_last].next = 0 /\ list.heap[list.m_first].prev = 0
  <2>1. 1 \in 1 .. n + 1 /\ n + 1 \in 1 .. n + 1
    OBVIOUS
  <2>2. QED
    BY <1>4, <2>1 DEF NextOf, PrevOf
<1>8. ASSUME NEW k \in 1 .. n
      PROVE  list.heap[List!Forward(list)[k]].prev = List!Forward(list)[k - 1]
  <2>1. k \in 0 .. n /\ k - 1 \in 0 .. n /\ (k - 1) + 1 = k /\ k + 1 \in 1 .. n + 1 /\ k + 1 # 1 /\ (k + 1) - 1 = k
    OBVIOUS
  <2>2. QED
    BY <1>4, <2>1 DEF PrevOf
<1>9. QED
  BY <1>4, <1>5, <1>6, <1>7, <1>8 DEF List!LinksAgree, List!NULL

LEMMA ContentsShow == ListInv => List!ListHasContents
<1>1. SUFFICES ASSUME ListInv PROVE List!ListHasContents
  OBVIOUS
<1>2. PICK n \in Nat : n = Len(contents) /\ n <= MaxItems /\ contents \in Seq(Item)
  BY <1>1 DEF ListInv
<1>3. PICK s : IsLaid(list, s, contents, n)
  BY <1>1, <1>2 DEF ListInv
<1>4. /\ List!Length(list) = n /\ list.m_last = s[n + 1]
      /\ \A i, j \in 1 .. n + 1 : s[i] = s[j] => i = j
      /\ \A k \in 0 .. n : List!Forward(list)[k] = s[k + 1]
      /\ \A j \in 1 .. n : list.heap[s[j]].information = contents[j]
  <2>1. Walks(list, s, contents, n)
    BY <1>2, <1>3, NodesAre
  <2>2. QED
    BY <2>1 DEF Walks
<1>5. ASSUME NEW k \in 1 .. n
      PROVE  list.heap[List!Forward(list)[k - 1]].information = contents[k]
  <2>1. k - 1 \in 0 .. n /\ (k - 1) + 1 = k
    OBVIOUS
  <2>2. QED
    BY <1>4, <2>1
<1>6. ASSUME NEW i \in Item PROVE List!isIn(list, i) <=> i \in List!ToSet(contents)
  <2>1. DOMAIN contents = 1 .. n
    BY <1>2
  <2>2. i \in List!ToSet(contents) <=> \E k \in 1 .. n : contents[k] = i
    BY <2>1 DEF List!ToSet
  <2>3. CASE List!Search(list, {i}) = s[n + 1] /\ \A k \in 1 .. n : contents[k] \notin {i}
    BY <1>4, <2>2, <2>3 DEF List!isIn
  <2>4. ASSUME NEW k \in 1 .. n, List!Search(list, {i}) = s[k], contents[k] \in {i}
        PROVE  List!isIn(list, i) /\ i \in List!ToSet(contents)
    <3>1. k \in 1 .. n + 1 /\ n + 1 \in 1 .. n + 1 /\ k # n + 1
      OBVIOUS
    <3>2. s[k] # s[n + 1]
      BY <1>4, <3>1
    <3>3. QED
      BY <1>4, <2>2, <2>4, <3>2 DEF List!isIn
  <2>5. \/ List!Search(list, {i}) = s[n + 1] /\ \A k \in 1 .. n : contents[k] \notin {i}
        \/ \E k \in 1 .. n : List!Search(list, {i}) = s[k] /\ contents[k] \in {i}
    BY <1>2, <1>3, SearchIs
  <2>6. QED
    BY <2>3, <2>4, <2>5
<1>7. QED
  BY <1>1, <1>2, <1>4, <1>5, <1>6 DEF List!ListHasContents, ListInv

(* Comparison walks on from its own node. *)
LEMMA LessIs ==
  ASSUME NEW n \in Nat, n <= MaxItems, NEW s, NEW c, IsLaid(list, s, c, n),
         NEW w \in 0 .. n, NEW k \in 0 .. n
  PROVE  List!Less(s[w + 1], s[k + 1]) <=> w <= k
<1>0. Walks(list, s, c, n)
  BY NodesAre
<1>1. /\ s \in [1 .. n + 1 -> List!Address]
      /\ \A i, j \in 1 .. n + 1 : s[i] = s[j] => i = j
      /\ \A j \in 1 .. n + 1 : s[j] # 0
      /\ \A j \in 1 .. n + 1 : list.heap[s[j]].next = NextOf(s, n, j)
  BY <1>0 DEF Walks
<1>2. PICK m \in Nat : m = MaxItems + 1 /\ n < m
  BY ListAssumption
<1>3. PICK f : f = [j \in 0 .. m |-> IF w + j <= n THEN s[w + j + 1] ELSE 0]
  OBVIOUS
<1>4. PICK i : i = s[w + 1]
  OBVIOUS
<1>5. f[0] = i
  BY <1>3, <1>4
<1>6. ASSUME NEW j \in 1 .. m PROVE (IF f[j - 1] = 0 THEN 0 ELSE list.heap[f[j - 1]].next) = f[j]
  <2>1. j - 1 \in 0 .. m /\ j \in 0 .. m
    OBVIOUS
  <2>2. CASE w + (j - 1) <= n
    <3>1. PICK u \in 1 .. n + 1 : u = w + j
      BY <2>2
    <3>2. f[j - 1] = s[u]
      BY <1>3, <2>1, <2>2, <3>1
    <3>3. s[u] # 0 /\ list.heap[s[u]].next = NextOf(s, n, u)
      BY <1>1
    <3>4. f[j] = IF u <= n THEN s[u + 1] ELSE 0
      BY <1>3, <2>1, <3>1
    <3>5. u <= n <=> u # n + 1
      OBVIOUS
    <3>6. QED
      BY <3>2, <3>3, <3>4, <3>5 DEF NextOf
  <2>3. CASE ~(w + (j - 1) <= n)
    <3>1. ~(w + j <= n)
      BY <2>3
    <3>2. f[j - 1] = 0 /\ f[j] = 0
      BY <1>3, <2>1, <2>3, <3>1
    <3>3. QED
      BY <3>2
  <2>4. QED
    BY <2>2, <2>3
<1>7. f = [j \in 0 .. m |-> IF j = 0 THEN i ELSE IF f[j - 1] = 0 THEN 0 ELSE list.heap[f[j - 1]].next]
  <2>1. ASSUME NEW j \in 0 .. m
        PROVE  f[j] = IF j = 0 THEN i ELSE IF f[j - 1] = 0 THEN 0 ELSE list.heap[f[j - 1]].next
    <3>1. CASE j = 0
      BY <1>5, <3>1
    <3>2. CASE j # 0
      <4>1. j \in 1 .. m
        BY <3>2
      <4>2. QED
        BY <1>6, <3>2, <4>1
    <3>3. QED
      BY <3>1, <3>2
  <2>2. QED
    BY <1>3, <2>1
<1>8. PICK scan :
         /\ scan = [j \in 0 .. m |-> IF j = 0 THEN i ELSE IF scan[j - 1] = 0 THEN 0 ELSE list.heap[scan[j - 1]].next]
         /\ List!Less(i, s[k + 1]) <=> \E j \in 0 .. m : scan[j] = s[k + 1]
  <2>1. PICK scan : scan = CHOOSE g : g = [j \in 0 .. m |->
                       IF j = 0 THEN i ELSE IF g[j - 1] = 0 THEN 0 ELSE list.heap[g[j - 1]].next]
    OBVIOUS
  <2>2. scan = [j \in 0 .. m |-> IF j = 0 THEN i ELSE IF scan[j - 1] = 0 THEN 0 ELSE list.heap[scan[j - 1]].next]
    BY <1>7, <2>1, Zenon
  <2>3. List!Less(i, s[k + 1]) <=> \E j \in 0 .. m : scan[j] = s[k + 1]
    BY <1>2, <2>1 DEF List!Less, List!NULL
  <2>4. QED
    BY <2>2, <2>3, Zenon
<1>9. PICK S : S = {j \in 0 .. m : scan[j] = f[j]}
  OBVIOUS
<1>10. 0 \in S
  <2>1. scan[0] = i /\ 0 \in 0 .. m
    BY <1>8
  <2>2. QED
    BY <1>5, <1>9, <2>1
<1>11. ASSUME NEW j \in 0 .. m - 1, j \in S PROVE j + 1 \in S
  <2>1. j + 1 \in 0 .. m /\ j + 1 # 0 /\ (j + 1) - 1 = j /\ j + 1 \in 1 .. m
    OBVIOUS
  <2>2. scan[j] = f[j]
    BY <1>9, <1>11
  <2>3. scan[j + 1] = IF scan[j] = 0 THEN 0 ELSE list.heap[scan[j]].next
    BY <1>8, <2>1
  <2>4. (IF f[j] = 0 THEN 0 ELSE list.heap[f[j]].next) = f[j + 1]
    BY <1>6, <2>1
  <2>5. QED
    BY <1>9, <2>1, <2>2, <2>3, <2>4
<1>12. 0 .. m \subseteq S
  BY <1>10, <1>11, Induction
<1>13. \A j \in 0 .. m : scan[j] = IF w + j <= n THEN s[w + j + 1] ELSE 0
  BY <1>3, <1>9, <1>12
<1>14. CASE w <= k
  <2>1. PICK j \in 0 .. m : j = k - w
    BY <1>2, <1>14
  <2>2. w + j <= n /\ w + j + 1 = k + 1
    BY <2>1
  <2>3. scan[j] = s[k + 1]
    BY <1>13, <2>2
  <2>4. QED
    BY <1>4, <1>8, <1>14, <2>3
<1>15. CASE ~(w <= k)
  <2>1. k + 1 \in 1 .. n + 1
    OBVIOUS
  <2>2. ASSUME NEW j \in 0 .. m PROVE scan[j] # s[k + 1]
    <3>1. CASE w + j <= n
      <4>1. w + j + 1 \in 1 .. n + 1 /\ w + j + 1 # k + 1
        BY <1>15, <3>1
      <4>2. scan[j] = s[w + j + 1]
        BY <1>13, <3>1
      <4>3. QED
        BY <1>1, <2>1, <4>1, <4>2
    <3>2. CASE ~(w + j <= n)
      <4>1. scan[j] = 0
        BY <1>13, <3>2
      <4>2. QED
        BY <1>1, <2>1, <4>1
    <3>3. QED
      BY <3>1, <3>2
  <2>3. QED
    BY <1>4, <1>8, <1>15, <2>2
<1>16. QED
  BY <1>14, <1>15

(* The first of the elements from w on that is the object is after p, or   *)
(* there is none.                                                          *)
IsNext(c, n, w, p, object) ==
  /\ p = n \/ c[p + 1] = object
  /\ \A j \in w .. p - 1 : c[j + 1] # object

(* A search walks on to the next such element or the end. *)
LEMMA FindWalks ==
  ASSUME NEW n \in Nat, n <= MaxItems, NEW s, NEW c, IsLaid(list, s, c, n),
         NEW w \in 0 .. n, NEW object, NEW p \in w .. n, IsNext(c, n, w, p, object)
  PROVE  List!find(s[w + 1], s[n + 1], object) = s[p + 1]
<1>0. Walks(list, s, c, n)
  BY NodesAre
<1>1. /\ s \in [1 .. n + 1 -> List!Address]
      /\ \A i, j \in 1 .. n + 1 : s[i] = s[j] => i = j
      /\ \A j \in 1 .. n + 1 : list.heap[s[j]].next = NextOf(s, n, j)
      /\ \A j \in 1 .. n : list.heap[s[j]].information = c[j]
  BY <1>0 DEF Walks
<1>2. PICK m \in Nat : m = MaxItems /\ n <= m
  BY ListAssumption
<1>3. PICK f : f = [j \in 0 .. m |-> IF w + j <= p THEN s[w + j + 1] ELSE s[p + 1]]
  OBVIOUS
<1>4. PICK first, end : first = s[w + 1] /\ end = s[n + 1]
  OBVIOUS
<1>5. f[0] = first
  BY <1>3, <1>4
<1>6. ASSUME NEW j \in 1 .. m
      PROVE  f[j] = IF f[j - 1] = end \/ list.heap[f[j - 1]].information = object
                      THEN f[j - 1] ELSE list.heap[f[j - 1]].next
  <2>1. j - 1 \in 0 .. m /\ j \in 0 .. m
    OBVIOUS
  <2>2. CASE w + (j - 1) < p
    <3>1. PICK u \in 1 .. n : u = w + j /\ u <= p
      BY <2>2
    <3>2. f[j - 1] = s[u] /\ f[j] = s[u + 1]
      BY <1>3, <2>1, <2>2, <3>1
    <3>3. u \in 1 .. n + 1 /\ n + 1 \in 1 .. n + 1 /\ u # n + 1 /\ u - 1 \in w .. p - 1 /\ (u - 1) + 1 = u
      BY <3>1
    <3>4. s[u] # end
      BY <1>1, <1>4, <3>3
    <3>5. list.heap[s[u]].information # object
      <4>1. list.heap[s[u]].information = c[u]
        BY <1>1
      <4>2. c[u] # object
        BY <3>3 DEF IsNext
      <4>3. QED
        BY <4>1, <4>2
    <3>6. list.heap[s[u]].next = s[u + 1]
      BY <1>1, <3>3 DEF NextOf
    <3>7. QED
      BY <3>2, <3>4, <3>5, <3>6
  <2>3. CASE ~(w + (j - 1) < p)
    <3>1. f[j - 1] = s[p + 1] /\ f[j] = s[p + 1]
      <4>1. ~(w + j <= p)
        BY <2>3
      <4>2. w + (j - 1) <= p => w + (j - 1) + 1 = p + 1
        BY <2>3
      <4>3. QED
        BY <1>3, <2>1, <4>1, <4>2
    <3>2. s[p + 1] = end \/ list.heap[s[p + 1]].information = object
      <4>1. CASE p = n
        BY <1>4, <4>1
      <4>2. CASE p # n
        <5>1. p + 1 \in 1 .. n
          BY <4>2
        <5>2. QED
          BY <1>1, <4>2, <5>1 DEF IsNext
      <4>3. QED
        BY <4>1, <4>2
    <3>3. QED
      BY <3>1, <3>2
  <2>4. QED
    BY <2>2, <2>3
<1>7. f = [j \in 0 .. m |->
             IF j = 0 THEN first
             ELSE IF f[j - 1] = end \/ list.heap[f[j - 1]].information = object
               THEN f[j - 1] ELSE list.heap[f[j - 1]].next]
  <2>1. ASSUME NEW j \in 0 .. m
        PROVE  f[j] = IF j = 0 THEN first
                      ELSE IF f[j - 1] = end \/ list.heap[f[j - 1]].information = object
                        THEN f[j - 1] ELSE list.heap[f[j - 1]].next
    <3>1. CASE j = 0
      BY <1>5, <3>1
    <3>2. CASE j # 0
      <4>1. j \in 1 .. m
        BY <3>2
      <4>2. QED
        BY <1>6, <3>2, <4>1
    <3>3. QED
      BY <3>1, <3>2
  <2>2. QED
    BY <1>3, <2>1
<1>8. PICK index :
         /\ index = [j \in 0 .. m |->
              IF j = 0 THEN first
              ELSE IF index[j - 1] = end \/ list.heap[index[j - 1]].information = object
                THEN index[j - 1] ELSE list.heap[index[j - 1]].next]
         /\ List!find(first, end, object) = index[m]
  <2>1. PICK index : index = CHOOSE g : g = [j \in 0 .. m |->
              IF j = 0 THEN first
              ELSE IF g[j - 1] = end \/ list.heap[g[j - 1]].information = object
                THEN g[j - 1] ELSE list.heap[g[j - 1]].next]
    BY Zenon
  <2>2. index = [j \in 0 .. m |->
              IF j = 0 THEN first
              ELSE IF index[j - 1] = end \/ list.heap[index[j - 1]].information = object
                THEN index[j - 1] ELSE list.heap[index[j - 1]].next]
    BY <1>7, <2>1, Zenon
  <2>3. List!find(first, end, object) = index[m]
    BY <1>2, <2>1 DEF List!find
  <2>4. QED
    BY <2>2, <2>3
<1>9. PICK S : S = {j \in 0 .. m : index[j] = f[j]}
  OBVIOUS
<1>10. 0 \in S
  <2>1. index[0] = first /\ 0 \in 0 .. m
    BY <1>8
  <2>2. QED
    BY <1>5, <1>9, <2>1
<1>11. ASSUME NEW j \in 0 .. m - 1, j \in S PROVE j + 1 \in S
  <2>1. j + 1 \in 0 .. m /\ j + 1 # 0 /\ (j + 1) - 1 = j /\ j + 1 \in 1 .. m
    OBVIOUS
  <2>2. index[j] = f[j]
    BY <1>9, <1>11, Zenon
  <2>3. index[j + 1] = IF index[j] = end \/ list.heap[index[j]].information = object
                         THEN index[j] ELSE list.heap[index[j]].next
    BY <1>8, <2>1, Zenon
  <2>4. f[j + 1] = IF f[j] = end \/ list.heap[f[j]].information = object
                     THEN f[j] ELSE list.heap[f[j]].next
    BY <1>6, <2>1
  <2>5. QED
    BY <1>9, <2>1, <2>2, <2>3, <2>4
<1>12. m \in S
  <2>1. 0 .. m \subseteq S
    BY <1>10, <1>11, Induction
  <2>2. QED
    BY <2>1
<1>13. f[m] = s[p + 1]
  <2>1. w + m <= p => w + m + 1 = p + 1
    BY <1>2
  <2>2. QED
    BY <1>3, <2>1
<1>14. QED
  BY <1>4, <1>8, <1>9, <1>12, <1>13

LEMMA IteratorShows == ListInv => List!IteratorStays
<1>1. SUFFICES ASSUME ListInv PROVE List!IteratorStays
  OBVIOUS
<1>2. PICK n \in Nat : n = Len(contents) /\ n <= MaxItems /\ contents \in Seq(Item) /\ where \in 0 .. n
  BY <1>1 DEF ListInv
<1>3. PICK s : IsLaid(list, s, contents, n) /\ cursor = s[where + 1]
  BY <1>1, <1>2 DEF ListInv
<1>4. Walks(list, s, contents, n)
  BY <1>2, <1>3, NodesAre
<1>5. /\ list.m_last = s[n + 1]
      /\ \A i, j \in 1 .. n + 1 : s[i] = s[j] => i = j
      /\ \A k \in 0 .. n : List!NodeAt(k) = s[k + 1]
  BY <1>4 DEF Walks, List!NodeAt
<1>6. cursor = List!NodeAt(where)
  BY <1>2, <1>3, <1>5
<1>7. ASSUME NEW k \in 0 .. n
      PROVE  /\ List!LessEqual(cursor, List!NodeAt(k)) <=> where <= k
             /\ List!Greater(cursor, List!NodeAt(k)) <=> where > k
             /\ k # where => /\ List!Less(cursor, List!NodeAt(k)) <=> where < k
                             /\ List!GreaterEqual(cursor, List!NodeAt(k)) <=> where > k
  <2>1. List!NodeAt(k) = s[k + 1]
    BY <1>5
  <2>2. List!Less(s[where + 1], s[k + 1]) <=> where <= k
    BY <1>2, <1>3, LessIs
  <2>3. List!Equal(s[where + 1], s[k + 1]) <=> where = k
    <3>1. where + 1 \in 1 .. n + 1 /\ k + 1 \in 1 .. n + 1 /\ (where + 1 = k + 1 <=> where = k)
      BY <1>2
    <3>2. QED
      BY <1>5, <3>1 DEF List!Equal
  <2>4. where \in Nat
    BY <1>2
  <2>5. QED
    BY <1>3, <2>1, <2>2, <2>3, <2>4 DEF List!LessEqual, List!Greater, List!GreaterEqual
<1>8. ASSUME NEW object, NEW ahead, ahead = {k \in where .. n - 1 : contents[k + 1] = object}
      PROVE  List!find(cursor, list.m_last, object) =
               List!NodeAt(IF ahead = {} THEN n ELSE List!Min(ahead))
  <2>1. PICK p : p = IF ahead = {} THEN n ELSE List!Min(ahead)
    OBVIOUS
  <2>2. /\ p \in where .. n /\ (p = n \/ contents[p + 1] = object)
        /\ \A j \in where .. p - 1 : contents[j + 1] # object
    <3>1. CASE ahead = {}
      <4>1. p = n /\ \A j \in where .. p - 1 : j \in where .. n - 1
        BY <1>2, <2>1, <3>1
      <4>2. \A j \in where .. n - 1 : j \notin ahead /\ contents[j + 1] # object
        BY <1>8, <3>1
      <4>3. p \in where .. n
        BY <1>2, <4>1
      <4>4. QED
        BY <4>1, <4>2, <4>3
    <3>2. CASE ahead # {}
      <4>1. ahead \in SUBSET Nat
        BY <1>2, <1>8
      <4>2. \E b \in ahead : \A d \in ahead : b <= d
        BY <3>2, <4>1, LeastOf
      <4>3. p \in ahead /\ \A d \in ahead : p <= d
        BY <2>1, <3>2, <4>2 DEF List!Min
      <4>4. p \in where .. n - 1 /\ contents[p + 1] = object
        BY <1>8, <4>3
      <4>5. \A j \in where .. p - 1 : j \in where .. n - 1 /\ ~(p <= j)
        BY <1>2, <4>4
      <4>6. \A j \in where .. p - 1 : j \notin ahead
        BY <4>3, <4>5
      <4>7. \A j \in where .. p - 1 : contents[j + 1] # object
        BY <1>8, <4>5, <4>6
      <4>8. p \in where .. n
        BY <1>2, <4>4
      <4>9. QED
        BY <4>4, <4>7, <4>8
    <3>3. QED
      BY <3>1, <3>2
  <2>3. List!find(s[where + 1], s[n + 1], object) = s[p + 1]
    <3>1. n \in Nat /\ n <= MaxItems /\ where \in 0 .. n /\ IsLaid(list, s, contents, n)
      BY <1>2, <1>3
    <3>2. p \in where .. n
      BY <2>2
    <3>3. IsNext(contents, n, where, p, object)
      BY <2>2 DEF IsNext
    <3>4. QED
      BY <3>1, <3>2, <3>3, FindWalks
  <2>4. p \in 0 .. n
    BY <1>2, <2>2
  <2>5. QED
    BY <1>3, <1>5, <2>1, <2>3, <2>4
<1>9. QED
  BY <1>2, <1>6, <1>7, <1>8 DEF List!IteratorStays

LEMMA ListStarts == List!IteratorInit => ListInv
<1>1. SUFFICES ASSUME List!IteratorInit PROVE ListInv
  OBVIOUS
<1>2. PICK n \in 0 .. MaxItems : \E other \in [1 .. n -> Item] :
         /\ ordered => List!InOrder(other)
         /\ contents = other /\ list = List!Cloned(other)
  BY <1>1 DEF List!IteratorInit, List!ListInit
<1>3. n \in Nat /\ n <= MaxItems
  BY ListAssumption
<1>4. contents \in Seq(Item) /\ Len(contents) = n
  BY <1>2, <1>3, FunctionIsSeq
<1>5. PICK s : IsLaid(list, s, contents, n)
  <2>1. contents \in [1 .. n -> Item] /\ list = List!Cloned(contents)
    BY <1>2
  <2>2. QED
    BY <1>3, <2>1, ClonedShows
<1>6. ordered \in BOOLEAN /\ cursor = list.m_first /\ where = 0
  BY <1>1 DEF List!IteratorInit, List!ListInit
<1>7. cursor = s[where + 1]
  BY <1>5, <1>6 DEF IsLaid
<1>8. QED
  BY <1>2, <1>3, <1>4, <1>5, <1>6, <1>7 DEF ListInv

(* A node more: the iterator stays on its own. *)
LEMMA GrowsKeeps ==
  ASSUME ListInv, NEW n \in Nat, n = Len(contents), n < MaxItems,
         NEW s, IsLaid(list, s, contents, n), cursor = s[where + 1],
         NEW k \in 1 .. n + 1, NEW x \in Item, UNCHANGED <<ordered, cursor>>,
         list' = List!Linked(list, s[k], x), contents' = OneIn(contents, n, k, x),
         where' = IF where >= k - 1 THEN where + 1 ELSE where,
         ordered => List!InOrder(OneIn(contents, n, k, x))
  PROVE  ListInv'
<1>1. contents \in Seq(Item) /\ where \in 0 .. n /\ ordered \in BOOLEAN
  BY DEF ListInv
<1>2. PICK r : r = OneIn(s, n + 1, k, List!New(list))
  OBVIOUS
<1>3. IsLaid(list', r, contents', n + 1)
  BY <1>1, <1>2, LinkedShows
<1>4. contents' \in Seq(Item) /\ Len(contents') = n + 1
  BY <1>1, InsertIs
<1>5. where' \in 0 .. n + 1 /\ cursor' = r[where' + 1]
  <2>1. CASE where >= k - 1
    <3>1. where' = where + 1 /\ where + 2 \in 1 .. (n + 1) + 1 /\ ~(where + 2 < k) /\ where + 2 # k
      BY <1>1, <2>1
    <3>2. r[where + 2] = s[(where + 2) - 1]
      BY <1>2, <3>1 DEF OneIn
    <3>3. (where + 2) - 1 = where + 1 /\ where' + 1 = where + 2 /\ where + 1 \in 0 .. n + 1
      BY <1>1, <3>1
    <3>4. QED
      BY <3>1, <3>2, <3>3
  <2>2. CASE ~(where >= k - 1)
    <3>1. where' = where /\ where + 1 \in 1 .. (n + 1) + 1 /\ where + 1 < k /\ where \in 0 .. n + 1
      BY <1>1, <2>2
    <3>2. r[where + 1] = s[where + 1]
      BY <1>2, <3>1 DEF OneIn
    <3>3. QED
      BY <3>1, <3>2
  <2>3. QED
    BY <2>1, <2>2
<1>6. n + 1 <= MaxItems
  BY ListAssumption
<1>7. (ordered => List!InOrder(contents))'
  BY DEF List!InOrder
<1>8. QED
  BY <1>1, <1>3, <1>4, <1>5, <1>6, <1>7 DEF ListInv

(* A node less: an iterator at another stays, one at this goes on or back.  *)
LEMMA ShrinksKeeps ==
  ASSUME ListInv, NEW n \in Nat, n = Len(contents),
         NEW s, IsLaid(list, s, contents, n), cursor = s[where + 1],
         NEW k \in 1 .. n, UNCHANGED ordered,
         list' = List!Removed(list, s[k]), contents' = OneOut(contents, n, k),
         \/ cursor' = list'.m_first /\ where' = 0
         \/ where = k - 1 /\ cursor' = s[k + 1] /\ where' = where
         \/ where # k - 1 /\ cursor' = cursor /\ where' = IF k - 1 < where THEN where - 1 ELSE where,
         ordered => List!InOrder(OneOut(contents, n, k))
  PROVE  ListInv'
<1>1. contents \in Seq(Item) /\ where \in 0 .. n /\ ordered \in BOOLEAN /\ n <= MaxItems
  BY DEF ListInv
<1>2. PICK r : r = OneOut(s, n + 1, k)
  OBVIOUS
<1>3. IsLaid(list', r, contents', n - 1)
  BY <1>2, RemovedShows
<1>4. contents' \in Seq(Item) /\ Len(contents') = n - 1
  BY <1>1, RemoveIs
<1>5. r = [j \in 1 .. n |-> IF j < k THEN s[j] ELSE s[j + 1]]
  BY <1>2 DEF OneOut
<1>6. where' \in 0 .. n - 1 /\ cursor' = r[where' + 1]
  <2>1. CASE cursor' = list'.m_first /\ where' = 0
    BY <1>3, <2>1 DEF IsLaid
  <2>2. CASE where = k - 1 /\ cursor' = s[k + 1] /\ where' = where
    <3>1. where' + 1 = k /\ k \in 1 .. n /\ where' \in 0 .. n - 1
      BY <2>2
    <3>2. QED
      BY <1>5, <2>2, <3>1
  <2>3. CASE where # k - 1 /\ cursor' = cursor /\ where' = IF k - 1 < where THEN where - 1 ELSE where
    <3>1. CASE k - 1 < where
      <4>1. where' = where - 1 /\ where \in 1 .. n /\ ~(where < k)
        BY <1>1, <2>3, <3>1
      <4>2. where' + 1 = where /\ where' \in 0 .. n - 1
        BY <4>1
      <4>3. QED
        BY <1>5, <2>3, <4>1, <4>2
    <3>2. CASE ~(k - 1 < where)
      <4>1. where' = where /\ where + 1 \in 1 .. n /\ where + 1 < k /\ where \in 0 .. n - 1
        BY <1>1, <2>3, <3>2
      <4>2. QED
        BY <1>5, <2>3, <4>1
    <3>3. QED
      BY <3>1, <3>2
  <2>4. QED
    BY <2>1, <2>2, <2>3
<1>7. n - 1 <= MaxItems
  BY <1>1, ListAssumption
<1>8. (ordered => List!InOrder(contents))'
  BY DEF List!InOrder
<1>9. QED
  BY <1>1, <1>3, <1>4, <1>6, <1>7, <1>8 DEF ListInv

(* A list that begins anew. *)
LEMMA AnewKeeps ==
  ASSUME NEW n \in Nat, n <= MaxItems, contents' \in Seq(Item), Len(contents') = n,
         NEW s, IsLaid(list', s, contents', n), List!begin,
         ordered' \in BOOLEAN, ordered' => List!InOrder(contents')
  PROVE  ListInv'
<1>1. cursor' = list'.m_first /\ where' = 0
  BY DEF List!begin
<1>2. where' \in 0 .. n /\ cursor' = s[where' + 1]
  BY <1>1 DEF IsLaid
<1>3. (ordered => List!InOrder(contents))'
  BY DEF List!InOrder
<1>4. QED
  BY <1>2, <1>3 DEF ListInv

LEMMA InsertedIs ==
  ASSUME NEW n \in Nat, NEW s, NEW c, NEW l, IsLaid(l, s, c, n),
         NEW k \in 1 .. n + 1, NEW x
  PROVE  List!Inserted(l, s[k], x) = List!Linked(l, s[k], x)
<1>1. CASE l.m_first = l.m_last
  <2>1. /\ l.m_first = s[1] /\ l.m_last = s[n + 1]
        /\ \A i, j \in 1 .. n + 1 : s[i] = s[j] => i = j
    BY DEF IsLaid, Chain
  <2>2. 1 \in 1 .. n + 1 /\ n + 1 \in 1 .. n + 1
    OBVIOUS
  <2>3. n = 0
    <3>1. s[1] = s[n + 1]
      BY <1>1, <2>1
    <3>2. 1 = n + 1
      BY <2>1, <2>2, <3>1
    <3>3. QED
      BY <3>2
  <2>4. k = 1 /\ l.m_last = s[k]
    BY <2>1, <2>3
  <2>5. QED
    BY <1>1, <2>4 DEF List!Inserted, List!IsEmpty, List!Appended
<1>2. CASE l.m_first # l.m_last
  BY <1>2 DEF List!Inserted, List!IsEmpty
<1>3. QED
  BY <1>1, <1>2

(* Neighbors in order are all in order. *)
LEMMA AllInOrder ==
  ASSUME NEW n \in Nat, NEW c \in [1 .. n -> Item], \A k \in 2 .. n : c[k - 1] <= c[k]
  PROVE  \A i, j \in 1 .. n : i <= j => c[i] <= c[j]
<1>1. \A k \in 1 .. n : c[k] \in Nat
  BY ListAssumption
<1>2. SUFFICES ASSUME NEW i \in 1 .. n PROVE \A j \in 1 .. n : i <= j => c[i] <= c[j]
  OBVIOUS
<1>3. PICK m \in Nat : m = n - i
  OBVIOUS
<1>4. PICK S : S = {d \in 0 .. m : c[i] <= c[i + d]}
  OBVIOUS
<1>5. 0 \in S
  BY <1>1, <1>4
<1>6. ASSUME NEW d \in 0 .. m - 1, d \in S PROVE d + 1 \in S
  <2>1. i + d \in 1 .. n /\ i + (d + 1) \in 2 .. n /\ (i + (d + 1)) - 1 = i + d /\ d + 1 \in 0 .. m /\ i + (d + 1) \in 1 .. n
    BY <1>3
  <2>2. c[i + d] <= c[i + (d + 1)]
    BY <2>1
  <2>3. c[i] <= c[i + d]
    BY <1>4, <1>6
  <2>4. c[i] <= c[i + (d + 1)]
    BY <1>1, <2>1, <2>2, <2>3
  <2>5. QED
    BY <1>4, <2>1, <2>4
<1>7. 0 .. m \subseteq S
  BY <1>5, <1>6, Induction
<1>8. ASSUME NEW j \in 1 .. n, i <= j PROVE c[i] <= c[j]
  <2>1. j - i \in 0 .. m /\ i + (j - i) = j
    BY <1>3, <1>8
  <2>2. QED
    BY <1>4, <1>7, <2>1
<1>9. QED
  BY <1>8

(* Where an element belongs in a sorted list. *)
LEMMA NotAfterIs ==
  ASSUME NEW n \in Nat, n = Len(contents), contents \in Seq(Item), NEW x \in Item,
         NEW m \in 0 .. n, \A k \in 1 .. n : k <= m <=> ~(x < contents[k])
  PROVE  List!NotAfter(x) = m
<1>1. PICK P : P = {j \in 0 .. n : \A k \in 1 .. n : k <= j <=> ~(x < contents[k])}
  OBVIOUS
<1>2. m \in 0 .. n
  OBVIOUS
<1>3. ASSUME NEW j \in P PROVE j = m
  <2>1. j \in 0 .. n /\ \A k \in 1 .. n : k <= j <=> k <= m
    BY <1>1, <1>3
  <2>2. CASE j < m
    <3>1. m \in 1 .. n /\ m <= m /\ ~(m <= j)
      BY <2>1, <2>2
    <3>2. QED
      BY <2>1, <3>1
  <2>3. CASE m < j
    <3>1. j \in 1 .. n /\ j <= j /\ ~(j <= m)
      BY <2>1, <2>3
    <3>2. QED
      BY <2>1, <3>1
  <2>4. QED
    BY <2>1, <2>2, <2>3
<1>4. List!NotAfter(x) \in P
  <2>1. DOMAIN contents = 1 .. n
    OBVIOUS
  <2>2. List!NotAfter(x) = CHOOSE j \in 0 .. n : \A k \in 1 .. n : k <= j <=> ~(x < contents[k])
    BY <2>1 DEF List!NotAfter, List!GoesBefore
  <2>3. \E j \in 0 .. n : \A k \in 1 .. n : k <= j <=> ~(x < contents[k])
    OBVIOUS
  <2>4. QED
    BY <1>1, <2>2, <2>3
<1>5. QED
  BY <1>3, <1>4

(* The list that an ordered one becomes is in order. *)
LEMMA OrderedGrows ==
  ASSUME NEW n \in Nat, NEW c \in [1 .. n -> Item], List!InOrder(c), NEW x \in Item,
         NEW m \in 0 .. n, \A k \in 1 .. n : k <= m <=> ~(x < c[k])
  PROVE  List!InOrder(OneIn(c, n, m + 1, x))
<1>1. PICK d : d = OneIn(c, n, m + 1, x)
  OBVIOUS
<1>2. Len(c) = n
  BY FunctionIsSeq
<1>3. \A k \in 2 .. n : c[k - 1] <= c[k]
  BY <1>2 DEF List!InOrder
<1>4. x \in Nat /\ \A k \in 1 .. n : c[k] \in Nat
  BY ListAssumption
<1>5. d = [j \in 1 .. n + 1 |-> IF j < m + 1 THEN c[j] ELSE IF j = m + 1 THEN x ELSE c[j - 1]]
  BY <1>1 DEF OneIn
<1>6. ASSUME NEW j \in 1 .. n + 1
      PROVE  d[j] \in Nat /\ d[j] = IF j < m + 1 THEN c[j] ELSE IF j = m + 1 THEN x ELSE c[j - 1]
  <2>1. j < m + 1 => j \in 1 .. n
    OBVIOUS
  <2>2. j > m + 1 => j - 1 \in 1 .. n
    OBVIOUS
  <2>3. QED
    BY <1>4, <1>5, <2>1, <2>2
<1>7. Len(d) = n + 1
  <2>1. d \in [1 .. n + 1 -> Nat]
    BY <1>5, <1>6
  <2>2. QED
    BY <2>1, FunctionIsSeq
<1>8. ASSUME NEW j \in 2 .. n + 1 PROVE d[j - 1] <= d[j]
  <2>1. j - 1 \in 1 .. n + 1 /\ j \in 1 .. n + 1
    OBVIOUS
  <2>2. CASE j < m + 1
    <3>1. j \in 2 .. n /\ j - 1 < m + 1
      BY <2>2
    <3>2. QED
      BY <1>3, <1>6, <2>1, <2>2, <3>1
  <2>3. CASE j = m + 1
    <3>1. j - 1 \in 1 .. n /\ j - 1 <= m /\ j - 1 < m + 1
      BY <2>3
    <3>2. ~(x < c[j - 1])
      BY <3>1
    <3>3. d[j - 1] = c[j - 1] /\ d[j] = x
      BY <1>6, <2>1, <2>3, <3>1
    <3>4. QED
      BY <1>4, <3>1, <3>2, <3>3
  <2>4. CASE j = m + 2
    <3>1. j - 1 = m + 1 /\ j - 1 \in 1 .. n /\ ~(j - 1 <= m)
      BY <2>4
    <3>2. x < c[j - 1]
      BY <3>1
    <3>3. d[j - 1] = x /\ d[j] = c[j - 1]
      BY <1>6, <2>1, <2>4, <3>1
    <3>4. QED
      BY <1>4, <3>1, <3>2, <3>3
  <2>5. CASE j > m + 2
    <3>1. j - 1 \in 2 .. n /\ j - 1 > m + 1 /\ j > m + 1
      BY <2>5
    <3>2. d[j - 1] = c[(j - 1) - 1] /\ d[j] = c[j - 1]
      BY <1>6, <2>1, <3>1
    <3>3. QED
      BY <1>3, <3>1, <3>2
  <2>6. QED
    BY <2>2, <2>3, <2>4, <2>5
<1>9. QED
  BY <1>1, <1>7, <1>8 DEF List!InOrder

(* What the operations of a list do to it and to an iterator on it.        *)
LEMMA AppendItemKeeps ==
  ASSUME ListInv, NEW i \in Item, List!appendItem(i), List!After(Len(contents))
  PROVE  ListInv'
<1>1. PICK n \in Nat : n = Len(contents) /\ n < MaxItems /\ contents \in Seq(Item)
  BY DEF ListInv, List!appendItem, List!Room
<1>2. PICK s : IsLaid(list, s, contents, n) /\ cursor = s[where + 1]
  BY <1>1 DEF ListInv
<1>3. list' = List!Linked(list, s[n + 1], i)
  BY <1>2 DEF List!appendItem, List!Appended, IsLaid
<1>4. contents' = OneIn(contents, n, n + 1, i)
  BY <1>1, EndsAre DEF List!appendItem
<1>5. /\ UNCHANGED <<ordered, cursor>> /\ ~ordered
      /\ where' = IF where >= (n + 1) - 1 THEN where + 1 ELSE where
  BY <1>1 DEF List!appendItem, List!After
<1>6. n + 1 \in 1 .. n + 1
  OBVIOUS
<1>7. QED
  BY <1>1, <1>2, <1>3, <1>4, <1>5, <1>6, GrowsKeeps

LEMMA InsertFirstKeeps ==
  ASSUME ListInv, NEW i \in Item, List!insertFirst(i), List!After(0)
  PROVE  ListInv'
<1>1. PICK n \in Nat : n = Len(contents) /\ n < MaxItems /\ contents \in Seq(Item)
  BY DEF ListInv, List!insertFirst, List!Room
<1>2. PICK s : IsLaid(list, s, contents, n) /\ cursor = s[where + 1]
  BY <1>1 DEF ListInv
<1>3. list' = List!Linked(list, s[1], i)
  BY <1>2 DEF List!insertFirst, IsLaid
<1>4. contents' = OneIn(contents, n, 1, i)
  BY <1>1, EndsAre DEF List!insertFirst
<1>5. /\ UNCHANGED <<ordered, cursor>> /\ ~ordered
      /\ where' = IF where >= 1 - 1 THEN where + 1 ELSE where
  BY DEF List!insertFirst, List!After
<1>6. 1 \in 1 .. n + 1
  OBVIOUS
<1>7. QED
  BY <1>1, <1>2, <1>3, <1>4, <1>5, <1>6, GrowsKeeps

(* Both inserts at a position. *)
LEMMA InsertKeeps ==
  ASSUME ListInv, NEW i \in Item, NEW k \in 0 .. Len(contents), NEW position,
         \A s : IsLaid(list, s, contents, Len(contents)) /\ cursor = s[where + 1] => position = s[k + 1],
         ~ordered, List!Room, list' = List!Inserted(list, position, i),
         contents' = List!InsertAt(contents, k + 1, i), List!After(k), UNCHANGED ordered
  PROVE  ListInv'
<1>1. PICK n \in Nat : n = Len(contents) /\ n < MaxItems /\ contents \in Seq(Item)
  BY DEF ListInv, List!Room
<1>2. PICK s : IsLaid(list, s, contents, n) /\ cursor = s[where + 1]
  BY <1>1 DEF ListInv
<1>3. k + 1 \in 1 .. n + 1 /\ (k + 1) - 1 = k
  BY <1>1
<1>4. list' = List!Linked(list, s[k + 1], i)
  <2>1. position = s[k + 1]
    BY <1>1, <1>2
  <2>2. List!Inserted(list, s[k + 1], i) = List!Linked(list, s[k + 1], i)
    BY <1>2, <1>3, InsertedIs
  <2>3. QED
    BY <2>1, <2>2
<1>5. contents' = OneIn(contents, n, k + 1, i)
  BY <1>1, <1>3, InsertIs
<1>6. UNCHANGED cursor /\ where' = IF where >= (k + 1) - 1 THEN where + 1 ELSE where
  BY <1>3 DEF List!After
<1>7. QED
  BY <1>1, <1>2, <1>3, <1>4, <1>5, <1>6, GrowsKeeps

LEMMA InsertsKeep ==
  ASSUME ListInv, NEW i \in Item,
         List!insertAt(i) \/ \E k \in 0 .. MaxItems : List!insert(k, i) /\ List!After(k)
  PROVE  ListInv'
<1>1. contents \in Seq(Item) /\ Len(contents) \in Nat /\ Len(contents) <= MaxItems /\ where \in 0 .. Len(contents)
  BY DEF ListInv
<1>2. CASE List!insertAt(i)
  BY <1>1, <1>2, InsertKeeps DEF List!insertAt
<1>3. ASSUME NEW k \in 0 .. MaxItems, List!insert(k, i), List!After(k) PROVE ListInv'
  <2>1. k \in 0 .. Len(contents)
    BY <1>1, <1>3 DEF List!insert
  <2>2. ASSUME NEW s, IsLaid(list, s, contents, Len(contents))
        PROVE  List!Forward(list)[k] = s[k + 1]
    <3>1. Walks(list, s, contents, Len(contents))
      BY <1>1, <2>2, NodesAre
    <3>2. QED
      BY <2>1, <3>1 DEF Walks
  <2>3. QED
    BY <1>3, <2>1, <2>2, InsertKeeps DEF List!insert
<1>4. QED
  BY <1>2, <1>3

LEMMA AddKeeps ==
  ASSUME ListInv, NEW i \in Item, List!add(i), List!After(List!NotAfter(i))
  PROVE  ListInv'
<1>1. PICK n \in Nat : n = Len(contents) /\ n < MaxItems /\ contents \in Seq(Item)
  BY DEF ListInv, List!add, List!Room
<1>2. PICK s : IsLaid(list, s, contents, n) /\ cursor = s[where + 1]
  BY <1>1 DEF ListInv
<1>3. PICK wanted : wanted = {next \in Item : List!GoesBefore(i, next)}
  OBVIOUS
<1>4. PICK node : node = List!Search(list, wanted)
  OBVIOUS
<1>5. contents \in [1 .. n -> Item] /\ List!InOrder(contents)
  BY <1>1 DEF ListInv, List!add
<1>6. i \in Nat /\ \A k \in 1 .. n : contents[k] \in Nat /\ (contents[k] \in wanted <=> i < contents[k])
  BY <1>3, <1>5, ListAssumption DEF List!GoesBefore
<1>7. PICK m \in 0 .. n : node = s[m + 1] /\ \A k \in 1 .. n : k <= m <=> ~(i < contents[k])
  <2>1. \/ node = s[n + 1] /\ \A k \in 1 .. n : contents[k] \notin wanted
        \/ \E k \in 1 .. n : /\ node = s[k] /\ contents[k] \in wanted
                             /\ \A j \in 1 .. k - 1 : contents[j] \notin wanted
    <3>1. n <= MaxItems
      BY <1>1, ListAssumption
    <3>2. QED
      BY <1>2, <1>4, <3>1, SearchIs
  <2>2. CASE node = s[n + 1] /\ \A k \in 1 .. n : contents[k] \notin wanted
    <3>1. \A k \in 1 .. n : k <= n <=> ~(i < contents[k])
      BY <1>6, <2>2
    <3>2. n \in 0 .. n
      OBVIOUS
    <3>3. QED
      BY <2>2, <3>1, <3>2
  <2>3. ASSUME NEW k \in 1 .. n, node = s[k], contents[k] \in wanted,
               \A j \in 1 .. k - 1 : contents[j] \notin wanted
        PROVE  \E m \in 0 .. n : node = s[m + 1] /\ \A j \in 1 .. n : j <= m <=> ~(i < contents[j])
    <3>1. PICK m \in 0 .. n : m = k - 1 /\ m + 1 = k
      OBVIOUS
    <3>2. ASSUME NEW j \in 1 .. n PROVE j <= m <=> ~(i < contents[j])
      <4>1. CASE j <= m
        <5>1. j \in 1 .. k - 1
          BY <3>1, <4>1
        <5>2. QED
          BY <1>6, <2>3, <4>1, <5>1
      <4>2. CASE ~(j <= m)
        <5>1. \A u \in 2 .. n : contents[u - 1] <= contents[u]
          BY <1>1, <1>5 DEF List!InOrder
        <5>2. \A u, v \in 1 .. n : u <= v => contents[u] <= contents[v]
          BY <1>5, <5>1, AllInOrder
        <5>3. k <= j
          BY <3>1, <4>2
        <5>4. contents[k] <= contents[j] /\ i < contents[k]
          BY <1>6, <2>3, <5>2, <5>3
        <5>5. contents[k] \in Nat /\ contents[j] \in Nat /\ i \in Nat
          BY <1>6
        <5>6. QED
          BY <4>2, <5>4, <5>5
      <4>3. QED
        BY <4>1, <4>2
    <3>3. QED
      BY <2>3, <3>1, <3>2
  <2>4. QED
    BY <2>1, <2>2, <2>3
<1>8. List!NotAfter(i) = m
  BY <1>1, <1>7, NotAfterIs
<1>9. m + 1 \in 1 .. n + 1 /\ (m + 1) - 1 = m
  OBVIOUS
<1>10. list' = List!Linked(list, s[m + 1], i)
  <2>1. list' = IF node = list.m_last THEN List!Appended(list, i) ELSE List!Inserted(list, node, i)
    BY <1>3, <1>4 DEF List!add
  <2>2. List!Inserted(list, s[m + 1], i) = List!Linked(list, s[m + 1], i)
    BY <1>2, <1>9, InsertedIs
  <2>3. QED
    BY <1>7, <2>1, <2>2 DEF List!Appended
<1>11. contents' = OneIn(contents, n, m + 1, i)
  BY <1>1, <1>8, <1>9, InsertIs DEF List!add
<1>12. /\ UNCHANGED <<ordered, cursor>>
       /\ where' = IF where >= (m + 1) - 1 THEN where + 1 ELSE where
  BY <1>8, <1>9 DEF List!add, List!After
<1>13. List!InOrder(OneIn(contents, n, m + 1, i))
  BY <1>5, <1>7, OrderedGrows
<1>14. QED
  BY <1>1, <1>2, <1>9, <1>10, <1>11, <1>12, <1>13, GrowsKeeps

LEMMA RemoveAtKeeps == ASSUME ListInv, List!removeAt PROVE ListInv'
<1>1. PICK n \in Nat : n = Len(contents) /\ n <= MaxItems /\ contents \in Seq(Item) /\ where \in 0 .. n
  BY DEF ListInv
<1>2. PICK s : IsLaid(list, s, contents, n) /\ cursor = s[where + 1]
  BY <1>1 DEF ListInv
<1>3. PICK k \in 1 .. n : k = where + 1 /\ where = k - 1
  BY <1>1 DEF List!removeAt, List!AtEnd
<1>4. list' = List!Removed(list, s[k]) /\ UNCHANGED <<ordered, where>> /\ ~ordered
  BY <1>2, <1>3 DEF List!removeAt
<1>5. contents' = OneOut(contents, n, k)
  BY <1>1, <1>3, RemoveIs DEF List!removeAt
<1>6. cursor' = s[k + 1]
  <2>1. Walks(list, s, contents, n)
    BY <1>1, <1>2, NodesAre
  <2>2. k \in 1 .. n + 1 /\ k # n + 1
    OBVIOUS
  <2>3. list.heap[s[k]].next = s[k + 1]
    BY <2>1, <2>2 DEF Walks, NextOf
  <2>4. QED
    BY <1>2, <1>3, <2>3 DEF List!removeAt
<1>7. QED
  BY <1>1, <1>2, <1>3, <1>4, <1>5, <1>6, ShrinksKeeps

LEMMA RemoveObjectKeeps ==
  ASSUME ListInv, NEW i \in Item, List!removeObject(i),
         IF List!PlaceOf(i) - 1 = where THEN List!begin
         ELSE UNCHANGED cursor /\ where' = IF List!PlaceOf(i) - 1 < where THEN where - 1 ELSE where
  PROVE  ListInv'
<1>1. PICK n \in Nat : n = Len(contents) /\ n <= MaxItems /\ contents \in Seq(Item) /\ where \in 0 .. n
  BY DEF ListInv
<1>2. PICK s : IsLaid(list, s, contents, n) /\ cursor = s[where + 1]
  BY <1>1 DEF ListInv
<1>3. list.m_last = s[n + 1]
  BY <1>2 DEF IsLaid
<1>4. PICK k \in 1 .. n : /\ List!Search(list, {i}) = s[k] /\ contents[k] = i
                          /\ \A j \in 1 .. k - 1 : contents[j] # i
  <2>1. \/ List!Search(list, {i}) = s[n + 1] /\ \A k \in 1 .. n : contents[k] \notin {i}
        \/ \E k \in 1 .. n : /\ List!Search(list, {i}) = s[k] /\ contents[k] \in {i}
                             /\ \A j \in 1 .. k - 1 : contents[j] \notin {i}
    BY <1>1, <1>2, SearchIs
  <2>2. List!Search(list, {i}) # s[n + 1]
    BY <1>3 DEF List!removeObject
  <2>3. QED
    BY <2>1, <2>2
<1>5. List!PlaceOf(i) = k
  <2>1. DOMAIN contents = 1 .. n
    BY <1>1
  <2>2. PICK P : P = {j \in 1 .. n : contents[j] = i /\ \A u \in 1 .. j - 1 : contents[u] # i}
    OBVIOUS
  <2>3. List!PlaceOf(i) = CHOOSE j \in 1 .. n : contents[j] = i /\ \A u \in 1 .. j - 1 : contents[u] # i
    BY <2>1 DEF List!PlaceOf
  <2>4. List!PlaceOf(i) \in P
    BY <1>4, <2>2, <2>3
  <2>5. ASSUME NEW j \in P PROVE j = k
    <3>1. j \in 1 .. n /\ contents[j] = i /\ \A u \in 1 .. j - 1 : contents[u] # i
      BY <2>2
    <3>2. ~(j \in 1 .. k - 1) /\ ~(k \in 1 .. j - 1)
      BY <1>4, <3>1
    <3>3. QED
      BY <3>1, <3>2
  <2>6. QED
    BY <2>4, <2>5
<1>6. list' = List!Removed(list, s[k]) /\ UNCHANGED ordered /\ ~ordered
  BY <1>4 DEF List!removeObject
<1>7. contents' = OneOut(contents, n, k)
  BY <1>1, <1>5, RemoveIs DEF List!removeObject
<1>8. \/ cursor' = list'.m_first /\ where' = 0
      \/ where # k - 1 /\ cursor' = cursor /\ where' = IF k - 1 < where THEN where - 1 ELSE where
  BY <1>5 DEF List!begin
<1>9. QED
  BY <1>1, <1>2, <1>6, <1>7, <1>8, ShrinksKeeps

LEMMA Pop2nullKeeps ==
  ASSUME ListInv, List!pop2null,
         IF where = 0 THEN List!begin ELSE UNCHANGED cursor /\ where' = where - 1
  PROVE  ListInv'
<1>1. PICK n \in Nat : n = Len(contents) /\ n <= MaxItems /\ contents \in Seq(Item) /\ where \in 0 .. n
  BY DEF ListInv
<1>2. PICK s : IsLaid(list, s, contents, n) /\ cursor = s[where + 1]
  BY <1>1 DEF ListInv
<1>3. contents # <<>> /\ UNCHANGED ordered /\ ordered /\ list' = List!Removed(list, list.m_first)
  BY DEF List!pop2null
<1>4. 1 \in 1 .. n /\ contents' = OneOut(contents, n, 1)
  <2>1. PICK x : x \in Item
    BY <1>1, <1>3
  <2>2. n # 0 /\ Tail(contents) = OneOut(contents, n, 1)
    BY <1>1, <1>3, <2>1, EndsAre
  <2>3. QED
    BY <2>2 DEF List!pop2null
<1>5. list' = List!Removed(list, s[1])
  BY <1>2, <1>3 DEF IsLaid
<1>6. \/ cursor' = list'.m_first /\ where' = 0
      \/ where # 1 - 1 /\ cursor' = cursor /\ where' = IF 1 - 1 < where THEN where - 1 ELSE where
  BY <1>1 DEF List!begin
<1>7. List!InOrder(OneOut(contents, n, 1))
  <2>1. PICK d : d = OneOut(contents, n, 1)
    OBVIOUS
  <2>2. d \in Seq(Item) /\ Len(d) = n - 1
    BY <1>1, <1>4, <2>1, RemoveIs
  <2>3. \A j \in 2 .. n : contents[j - 1] <= contents[j]
    BY <1>1, <1>3 DEF ListInv, List!InOrder
  <2>4. ASSUME NEW j \in 2 .. n - 1 PROVE d[j - 1] <= d[j]
    <3>1. d[j - 1] = contents[(j - 1) + 1] /\ d[j] = contents[j + 1] /\ (j - 1) + 1 = j
      BY <2>1 DEF OneOut
    <3>2. j + 1 \in 2 .. n /\ (j + 1) - 1 = j
      OBVIOUS
    <3>3. QED
      BY <2>3, <3>1, <3>2
  <2>5. QED
    BY <2>1, <2>2, <2>4 DEF List!InOrder
<1>8. QED
  BY <1>1, <1>2, <1>3, <1>4, <1>5, <1>6, <1>7, ShrinksKeeps

LEMMA RemoveAllKeeps == ASSUME ListInv, List!removeAll, List!begin PROVE ListInv'
<1>1. list' = List!initList /\ contents' = <<>> /\ UNCHANGED ordered /\ ordered \in BOOLEAN
  BY DEF List!removeAll, ListInv
<1>2. PICK s : IsLaid(list', s, contents', 0)
  BY <1>1, EmptyShows
<1>3. contents' \in Seq(Item) /\ Len(contents') = 0 /\ 0 \in Nat /\ 0 <= MaxItems /\ List!InOrder(contents')
  BY <1>1, ListAssumption DEF List!InOrder
<1>4. QED
  BY <1>1, <1>2, <1>3, AnewKeeps

LEMMA CloneKeeps ==
  ASSUME ListInv, NEW n \in 0 .. MaxItems, NEW other \in [1 .. n -> Item],
         List!clone(other), List!begin
  PROVE  ListInv'
<1>1. list' = List!Cloned(other) /\ contents' = other /\ UNCHANGED ordered /\ ~ordered
  BY DEF List!clone
<1>2. n \in Nat /\ n <= MaxItems
  BY ListAssumption
<1>3. PICK s : IsLaid(list', s, contents', n)
  BY <1>1, <1>2, ClonedShows
<1>4. contents' \in Seq(Item) /\ Len(contents') = n
  BY <1>1, <1>2, FunctionIsSeq
<1>5. ordered' \in BOOLEAN /\ ~ordered'
  BY <1>1 DEF ListInv
<1>6. QED
  BY <1>2, <1>3, <1>4, <1>5, AnewKeeps

-----------------------------------------------------------------------------
(* Sorting.  One sequence is another rearranged: their elements are paired. *)
Onto(p, n) ==
  /\ p \in [1 .. n -> 1 .. n]
  /\ \A i, j \in 1 .. n : p[i] = p[j] => i = j
  /\ \A j \in 1 .. n : \E k \in 1 .. n : p[k] = j
Rearranged(c, d, n) == \E p : Onto(p, n) /\ d = [k \in 1 .. n |-> c[p[k]]]

LEMMA RearrangedItself ==
  ASSUME NEW n \in Nat, NEW c, c = [k \in 1 .. n |-> c[k]]
  PROVE  Rearranged(c, c, n)
<1>1. PICK p : p = [k \in 1 .. n |-> k]
  OBVIOUS
<1>2. Onto(p, n)
  BY <1>1 DEF Onto
<1>3. c = [k \in 1 .. n |-> c[p[k]]]
  BY <1>1
<1>4. QED
  BY <1>2, <1>3 DEF Rearranged

LEMMA RearrangedTwice ==
  ASSUME NEW n \in Nat, NEW c, NEW d, NEW e, Rearranged(c, d, n), Rearranged(d, e, n)
  PROVE  Rearranged(c, e, n)
<1>1. PICK p : Onto(p, n) /\ d = [k \in 1 .. n |-> c[p[k]]]
  BY DEF Rearranged
<1>2. PICK q : Onto(q, n) /\ e = [k \in 1 .. n |-> d[q[k]]]
  BY DEF Rearranged
<1>3. PICK r : r = [k \in 1 .. n |-> p[q[k]]]
  OBVIOUS
<1>4. p \in [1 .. n -> 1 .. n] /\ q \in [1 .. n -> 1 .. n]
  BY <1>1, <1>2 DEF Onto
<1>5. r \in [1 .. n -> 1 .. n]
  BY <1>3, <1>4
<1>9. ASSUME NEW i \in 1 .. n, NEW j \in 1 .. n, r[i] = r[j] PROVE i = j
  <2>1. p[q[i]] = p[q[j]] /\ q[i] \in 1 .. n /\ q[j] \in 1 .. n
    BY <1>3, <1>4, <1>9
  <2>2. q[i] = q[j]
    BY <1>1, <2>1 DEF Onto
  <2>3. QED
    BY <1>2, <2>2 DEF Onto
<1>6. ASSUME NEW j \in 1 .. n PROVE \E k \in 1 .. n : r[k] = j
  <2>1. PICK i \in 1 .. n : p[i] = j
    BY <1>1 DEF Onto
  <2>2. PICK k \in 1 .. n : q[k] = i
    BY <1>2 DEF Onto
  <2>3. QED
    BY <1>3, <2>1, <2>2
<1>7. e = [k \in 1 .. n |-> c[r[k]]]
  <2>1. ASSUME NEW k \in 1 .. n PROVE d[q[k]] = c[r[k]]
    <3>1. q[k] \in 1 .. n
      BY <1>4
    <3>2. QED
      BY <1>1, <1>3, <3>1
  <2>2. QED
    BY <1>2, <2>1
<1>8. QED
  BY <1>5, <1>6, <1>7, <1>9 DEF Rearranged, Onto

(* The numbers of the elements up to a value, or above it, are what they    *)
(* were before a rearrangement.                                             *)
UpTo(c, n, v) == {k \in 1 .. n : c[k] <= v}
LEMMA CountKept ==
  ASSUME NEW n \in Nat, NEW c \in [1 .. n -> Nat], NEW d, Rearranged(c, d, n), NEW v \in Nat
  PROVE  Cardinality(UpTo(d, n, v)) = Cardinality(UpTo(c, n, v))
<1>1. PICK p : Onto(p, n) /\ d = [k \in 1 .. n |-> c[p[k]]]
  BY DEF Rearranged
<1>2. p \in [1 .. n -> 1 .. n] /\ \A j \in 1 .. n : \E k \in 1 .. n : p[k] = j
  BY <1>1 DEF Onto
<1>3. 1 \in Int /\ n \in Int
  OBVIOUS
<1>4. IsFiniteSet(1 .. n)
  BY <1>3, FS_Interval
<1>5. ASSUME NEW B \in SUBSET (1 .. n), NEW A, A = {k \in 1 .. n : p[k] \in B}
      PROVE  IsFiniteSet(A) /\ IsFiniteSet(B) /\ Cardinality(B) <= Cardinality(A)
  <2>1. A \in SUBSET (1 .. n)
    BY <1>5
  <2>2. IsFiniteSet(A) /\ IsFiniteSet(B)
    BY <1>4, <2>1, FS_Subset
  <2>3. PICK f : f = [k \in A |-> p[k]]
    OBVIOUS
  <2>4. f \in [A -> B]
    BY <1>5, <2>3
  <2>5. \A j \in B : \E k \in A : f[k] = j
    BY <1>2, <1>5, <2>3
  <2>6. f \in Surjection(A, B)
    BY <2>4, <2>5 DEF Surjection
  <2>7. QED
    BY <2>2, <2>6, FS_Surjection
<1>6. PICK B, A : B = UpTo(c, n, v) /\ A = UpTo(d, n, v)
  OBVIOUS
<1>7. \A k \in 1 .. n : p[k] \in 1 .. n /\ d[k] = c[p[k]]
  BY <1>1, <1>2
<1>8. B \in SUBSET (1 .. n) /\ A = {k \in 1 .. n : p[k] \in B}
  BY <1>6, <1>7 DEF UpTo
<1>9. PICK C, D : C = (1 .. n) \ B /\ D = (1 .. n) \ A
  OBVIOUS
<1>10. C \in SUBSET (1 .. n) /\ D = {k \in 1 .. n : p[k] \in C}
  BY <1>7, <1>8, <1>9
<1>11. /\ IsFiniteSet(A) /\ IsFiniteSet(B) /\ Cardinality(B) <= Cardinality(A)
       /\ Cardinality(C) <= Cardinality(D)
  BY <1>5, <1>8, <1>10
<1>12. Cardinality(C) = Cardinality(1 .. n) - Cardinality(B)
  <2>1. (1 .. n) \cap B = B
    BY <1>8
  <2>2. Cardinality(C) = Cardinality(1 .. n) - Cardinality((1 .. n) \cap B)
    BY <1>4, <1>9, FS_Difference
  <2>3. QED
    BY <2>1, <2>2
<1>13. Cardinality(D) = Cardinality(1 .. n) - Cardinality(A)
  <2>1. (1 .. n) \cap A = A
    BY <1>8
  <2>2. Cardinality(D) = Cardinality(1 .. n) - Cardinality((1 .. n) \cap A)
    BY <1>4, <1>9, FS_Difference
  <2>3. QED
    BY <2>1, <2>2
<1>14. Cardinality(1 .. n) \in Nat /\ Cardinality(A) \in Nat /\ Cardinality(B) \in Nat
  BY <1>4, <1>11, FS_CardinalityType
<1>15. Cardinality(A) = Cardinality(B)
  BY <1>11, <1>12, <1>13, <1>14
<1>16. QED
  BY <1>6, <1>15

Sorts(d, n) == \A i, j \in 1 .. n : i <= j => d[i] <= d[j]

(* No element of one is less than that of another that is as sorted.        *)
LEMMA SortedLess ==
  ASSUME NEW n \in Nat, NEW c \in [1 .. n -> Nat], NEW d \in [1 .. n -> Nat], NEW e \in [1 .. n -> Nat],
         Rearranged(c, d, n), Rearranged(c, e, n), Sorts(d, n), Sorts(e, n), NEW k \in 1 .. n
  PROVE  ~(d[k] < e[k])
<1>1. SUFFICES ASSUME d[k] < e[k] PROVE FALSE
  OBVIOUS
<1>2. PICK v \in Nat : v = d[k]
  OBVIOUS
<1>3. Cardinality(UpTo(d, n, v)) = Cardinality(UpTo(e, n, v))
  <2>1. Cardinality(UpTo(d, n, v)) = Cardinality(UpTo(c, n, v))
    BY CountKept, Zenon
  <2>2. Cardinality(UpTo(e, n, v)) = Cardinality(UpTo(c, n, v))
    BY CountKept, Zenon
  <2>3. QED
    BY <2>1, <2>2
<1>4. 1 \in Int /\ n \in Int /\ k \in Int /\ k - 1 \in Int
  OBVIOUS
<1>5. IsFiniteSet(1 .. n) /\ IsFiniteSet(1 .. k - 1) /\ Cardinality(1 .. k - 1) = k - 1 /\ Cardinality(1 .. k) = k
  <2>1. Cardinality(1 .. k - 1) = IF 1 > k - 1 THEN 0 ELSE k - 1 - 1 + 1
    BY <1>4, FS_Interval
  <2>2. Cardinality(1 .. k) = IF 1 > k THEN 0 ELSE k - 1 + 1
    BY <1>4, FS_Interval
  <2>3. IsFiniteSet(1 .. n) /\ IsFiniteSet(1 .. k - 1)
    BY <1>4, FS_Interval
  <2>4. QED
    BY <2>1, <2>2, <2>3
<1>6. 1 .. k \in SUBSET UpTo(d, n, v)
  <2>1. ASSUME NEW j \in 1 .. k PROVE j \in UpTo(d, n, v)
    <3>1. j \in 1 .. n /\ j <= k
      OBVIOUS
    <3>2. QED
      BY <1>2, <3>1 DEF UpTo, Sorts
  <2>2. QED
    BY <2>1
<1>7. UpTo(e, n, v) \in SUBSET (1 .. k - 1)
  <2>1. ASSUME NEW j \in 1 .. n, e[j] <= v PROVE j \in 1 .. k - 1
    <3>1. CASE k <= j
      <4>1. e[k] <= e[j]
        BY <3>1 DEF Sorts
      <4>2. e[k] \in Nat /\ e[j] \in Nat
        OBVIOUS
      <4>3. QED
        BY <1>1, <1>2, <2>1, <4>1, <4>2
    <3>2. CASE ~(k <= j)
      BY <3>2
    <3>3. QED
      BY <3>1, <3>2
  <2>2. QED
    BY <2>1 DEF UpTo
<1>8. UpTo(d, n, v) \in SUBSET (1 .. n)
  BY DEF UpTo
<1>9. IsFiniteSet(UpTo(d, n, v)) /\ IsFiniteSet(UpTo(e, n, v))
  BY <1>5, <1>7, <1>8, FS_Subset
<1>10. Cardinality(1 .. k) <= Cardinality(UpTo(d, n, v))
  BY <1>6, <1>9, FS_Subset
<1>11. Cardinality(UpTo(e, n, v)) <= Cardinality(1 .. k - 1)
  BY <1>5, <1>7, FS_Subset
<1>12. Cardinality(UpTo(d, n, v)) \in Nat
  BY <1>9, FS_CardinalityType
<1>13. QED
  BY <1>3, <1>5, <1>10, <1>11, <1>12

(* Sorted is what a rearrangement in order is. *)
LEMMA SortedIs ==
  ASSUME NEW n \in Nat, NEW c \in [1 .. n -> Item], NEW d \in [1 .. n -> Item],
         Rearranged(c, d, n), Sorts(d, n)
  PROVE  List!Sorted(c) = d
<1>1. PICK P : P = {[k \in 1 .. n |-> c[p[k]]] : p \in List!Bijection(1 .. n, 1 .. n)}
  OBVIOUS
<1>2. ASSUME NEW e PROVE e \in P <=> Rearranged(c, e, n)
  <2>1. PICK all : all = List!Bijection(1 .. n, 1 .. n)
    OBVIOUS
  <2>2. ASSUME NEW p PROVE p \in all <=> Onto(p, n)
    BY <2>1 DEF List!Bijection, List!Injection, List!Surjection, List!IsInjective, Onto
  <2>3. e \in P <=> \E p \in all : e = [k \in 1 .. n |-> c[p[k]]]
    BY <1>1, <2>1
  <2>4. QED
    BY <2>2, <2>3 DEF Rearranged
<1>3. ASSUME NEW e \in P PROVE e \in [1 .. n -> Item]
  <2>1. PICK p : Onto(p, n) /\ e = [k \in 1 .. n |-> c[p[k]]]
    BY <1>2 DEF Rearranged
  <2>2. \A k \in 1 .. n : c[p[k]] \in Item
    BY <2>1 DEF Onto
  <2>3. QED
    BY <2>1, <2>2
<1>4. List!Sorted(c) = CHOOSE e \in P : List!InOrder(e)
  <2>1. DOMAIN c = 1 .. n
    OBVIOUS
  <2>2. QED
    BY <1>1, <2>1 DEF List!Sorted
<1>5. ASSUME NEW e \in P PROVE List!InOrder(e) <=> Sorts(e, n)
  <2>1. e \in [1 .. n -> Item] /\ Len(e) = n
    BY <1>3, FunctionIsSeq
  <2>2. List!InOrder(e) <=> \A k \in 2 .. n : e[k - 1] <= e[k]
    BY <2>1 DEF List!InOrder
  <2>3. List!InOrder(e) => Sorts(e, n)
    BY <2>1, <2>2, AllInOrder DEF Sorts
  <2>4. Sorts(e, n) => List!InOrder(e)
    <3>1. \A k \in 2 .. n : k - 1 \in 1 .. n /\ k \in 1 .. n /\ k - 1 <= k
      OBVIOUS
    <3>2. QED
      BY <2>2, <3>1 DEF Sorts
  <2>5. QED
    BY <2>3, <2>4
<1>6. PICK e \in P : List!InOrder(e) /\ List!Sorted(c) = e
  BY <1>2, <1>4, <1>5
<1>7. e \in [1 .. n -> Item] /\ Rearranged(c, e, n) /\ Sorts(e, n)
  BY <1>2, <1>3, <1>5, <1>6
<1>8. c \in [1 .. n -> Nat] /\ d \in [1 .. n -> Nat] /\ e \in [1 .. n -> Nat]
  BY <1>7, ListAssumption
<1>9. ASSUME NEW k \in 1 .. n PROVE d[k] = e[k]
  <2>1. ~(d[k] < e[k]) /\ ~(e[k] < d[k])
    BY <1>7, <1>8, SortedLess
  <2>2. d[k] \in Nat /\ e[k] \in Nat
    BY <1>8
  <2>3. QED
    BY <2>1, <2>2
<1>10. d = e
  BY <1>8, <1>9
<1>11. QED
  BY <1>6, <1>10

(* The elements after those at i and before it were put in order.          *)
Swapped(c, n, i) == [k \in 1 .. n |-> IF k = i - 1 THEN c[i] ELSE IF k = i THEN c[i - 1] ELSE c[k]]
Put(c, n, i) == IF c[i - 1] > c[i] THEN Swapped(c, n, i) ELSE c

LEMMA PutIs ==
  ASSUME NEW n \in Nat, NEW c \in [1 .. n -> Item], NEW i \in 2 .. n, NEW d, d = Put(c, n, i)
  PROVE  /\ d \in [1 .. n -> Item] /\ Rearranged(c, d, n) /\ d[i - 1] <= d[i]
         /\ \/ d[i - 1] = c[i - 1] /\ d[i] = c[i]
            \/ d[i - 1] = c[i] /\ d[i] = c[i - 1]
         /\ \A k \in 1 .. n : k # i /\ k # i - 1 => d[k] = c[k]
<1>1. i \in 1 .. n /\ i - 1 \in 1 .. n /\ i # i - 1
  OBVIOUS
<1>2. \A k \in 1 .. n : c[k] \in Nat
  BY ListAssumption
<1>3. CASE c[i - 1] > c[i]
  <2>1. d = [k \in 1 .. n |-> IF k = i - 1 THEN c[i] ELSE IF k = i THEN c[i - 1] ELSE c[k]]
    BY <1>3 DEF Put, Swapped
  <2>2. /\ d \in [1 .. n -> Item] /\ d[i - 1] = c[i] /\ d[i] = c[i - 1]
        /\ \A k \in 1 .. n : k # i /\ k # i - 1 => d[k] = c[k]
    BY <1>1, <2>1
  <2>3. d[i - 1] <= d[i]
    BY <1>1, <1>2, <1>3, <2>2
  <2>4. PICK p : p = [k \in 1 .. n |-> IF k = i - 1 THEN i ELSE IF k = i THEN i - 1 ELSE k]
    OBVIOUS
  <2>5. /\ p \in [1 .. n -> 1 .. n] /\ p[i - 1] = i /\ p[i] = i - 1
        /\ \A k \in 1 .. n : k # i /\ k # i - 1 => p[k] = k
    BY <1>1, <2>4
  <2>6. \A u, v \in 1 .. n : p[u] = p[v] => u = v
    BY <1>1, <2>5
  <2>7. \A j \in 1 .. n : \E k \in 1 .. n : p[k] = j
    BY <1>1, <2>5
  <2>8. d = [k \in 1 .. n |-> c[p[k]]]
    BY <1>1, <2>1, <2>5
  <2>9. Rearranged(c, d, n)
    BY <2>5, <2>6, <2>7, <2>8 DEF Rearranged, Onto
  <2>10. QED
    BY <2>2, <2>3, <2>9
<1>4. CASE ~(c[i - 1] > c[i])
  <2>1. d = c
    BY <1>4 DEF Put
  <2>2. Rearranged(c, c, n)
    BY RearrangedItself
  <2>3. c[i - 1] <= c[i]
    BY <1>1, <1>2, <1>4
  <2>4. QED
    BY <2>1, <2>2, <2>3
<1>5. QED
  BY <1>3, <1>4

(* An exchange of the nodes' contents is one of the list's. *)
LEMMA ExchangedShows ==
  ASSUME NEW n \in Nat, NEW s, NEW c, NEW h, Chain(h, s, c, n), NEW i \in 2 .. n
  PROVE  Chain(List!Exchanged(h, s[i]), s, Put(c, n, i), n)
<1>1. PICK u : u = i - 1 /\ u \in 1 .. n /\ u # i /\ i \in 1 .. n /\ u \in 1 .. n + 1 /\ i \in 1 .. n + 1
  OBVIOUS
<1>2. /\ s \in [1 .. n + 1 -> List!Address] /\ c \in [1 .. n -> Item]
      /\ \A k, j \in 1 .. n + 1 : s[k] = s[j] => k = j
      /\ h = [a \in {s[k] : k \in 1 .. n + 1} |-> h[a]]
      /\ \A k \in 1 .. n + 1 : h[s[k]] = List!Node(InfoOf(c, n, k), PrevOf(s, k), NextOf(s, n, k))
  BY DEF Chain
<1>3. h[s[i]] = List!Node(c[i], s[u], NextOf(s, n, i)) /\ h[s[u]] = List!Node(c[u], PrevOf(s, u), NextOf(s, n, u))
  <2>1. InfoOf(c, n, i) = c[i] /\ InfoOf(c, n, u) = c[u] /\ PrevOf(s, i) = s[u]
    BY <1>1 DEF InfoOf, PrevOf
  <2>2. QED
    BY <1>1, <1>2, <2>1
<1>4. h[s[i]].prev = s[u] /\ h[s[i]].information = c[i] /\ h[s[u]].information = c[u]
  BY <1>3 DEF List!Node
<1>5. CASE c[u] > c[i]
  <2>1. PICK g : g = [h EXCEPT ![s[i]].information = c[u], ![s[u]].information = c[i]]
    OBVIOUS
  <2>2. List!Exchanged(h, s[i]) = g
    BY <1>4, <1>5, <2>1 DEF List!Exchanged
  <2>3. s[i] \in DOMAIN h /\ s[u] \in DOMAIN h /\ s[i] # s[u]
    BY <1>1, <1>2
  <2>4. PICK g1 : g1 = [h EXCEPT ![s[i]].information = c[u]]
    OBVIOUS
  <2>5. g = [g1 EXCEPT ![s[u]].information = c[i]] /\ DOMAIN g1 = DOMAIN h
    BY <2>1, <2>4
  <2>6. g1[s[i]] = [h[s[i]] EXCEPT !.information = c[u]] /\ \A a \in DOMAIN h : a # s[i] => g1[a] = h[a]
    BY <2>3, <2>4
  <2>7. g[s[u]] = [h[s[u]] EXCEPT !.information = c[i]] /\ \A a \in DOMAIN h : a # s[u] => g[a] = g1[a]
    BY <2>3, <2>5, <2>6
  <2>8. g[s[i]] = List!Node(c[u], s[u], NextOf(s, n, i))
    <3>1. g[s[i]] = [h[s[i]] EXCEPT !.information = c[u]]
      BY <2>3, <2>6, <2>7
    <3>2. QED
      BY <1>3, <3>1 DEF List!Node
  <2>9. g[s[u]] = List!Node(c[i], PrevOf(s, u), NextOf(s, n, u))
    BY <1>3, <2>7 DEF List!Node
  <2>10. PICK d : d = Put(c, n, i)
    OBVIOUS
  <2>11. /\ d \in [1 .. n -> Item] /\ d[u] = c[i] /\ d[i] = c[u]
         /\ \A k \in 1 .. n : k # i /\ k # u => d[k] = c[k]
    <3>1. d = [k \in 1 .. n |-> IF k = u THEN c[i] ELSE IF k = i THEN c[u] ELSE c[k]]
      BY <1>1, <1>5, <2>10 DEF Put, Swapped
    <3>2. QED
      BY <1>1, <1>2, <3>1
  <2>12. ASSUME NEW k \in 1 .. n + 1
         PROVE  g[s[k]] = List!Node(InfoOf(d, n, k), PrevOf(s, k), NextOf(s, n, k))
    <3>1. CASE k = i
      <4>1. InfoOf(d, n, k) = c[u] /\ PrevOf(s, k) = s[u]
        BY <1>1, <2>11, <3>1 DEF InfoOf, PrevOf
      <4>2. QED
        BY <2>8, <3>1, <4>1
    <3>2. CASE k = u
      <4>1. InfoOf(d, n, k) = c[i]
        BY <1>1, <2>11, <3>2 DEF InfoOf
      <4>2. QED
        BY <2>9, <3>2, <4>1
    <3>3. CASE k # i /\ k # u
      <4>1. s[k] # s[i] /\ s[k] # s[u] /\ s[k] \in DOMAIN h
        BY <1>1, <1>2, <3>3
      <4>2. g[s[k]] = h[s[k]]
        BY <2>6, <2>7, <4>1
      <4>3. InfoOf(d, n, k) = InfoOf(c, n, k)
        BY <2>11, <3>3 DEF InfoOf
      <4>4. QED
        BY <1>2, <4>2, <4>3
    <3>4. QED
      BY <3>1, <3>2, <3>3
  <2>13. g = [a \in {s[k] : k \in 1 .. n + 1} |-> g[a]]
    <3>1. g = [a \in DOMAIN h |-> g[a]]
      BY <2>1
    <3>2. DOMAIN h = {s[k] : k \in 1 .. n + 1}
      BY <1>2
    <3>3. QED
      BY <3>1, <3>2
  <2>14. QED
    BY <1>2, <2>2, <2>10, <2>11, <2>12, <2>13 DEF Chain
<1>6. CASE ~(c[u] > c[i])
  <2>1. List!Exchanged(h, s[i]) = h
    BY <1>4, <1>6 DEF List!Exchanged
  <2>2. Put(c, n, i) = c
    BY <1>1, <1>6 DEF Put
  <2>3. QED
    BY <2>1, <2>2
<1>7. QED
  BY <1>5, <1>6

(* The first i are in their places. *)
Settled(c, n, i) == \A u, v \in 1 .. n : u <= v /\ u <= i => c[u] <= c[v]

(* After m exchanges of a pass the least of the rest has come so far down. *)
Bubbled(c, d, n, i, m) ==
  /\ d \in [1 .. n -> Item] /\ Rearranged(c, d, n)
  /\ Settled(c, n, i) => Settled(d, n, i)
  /\ \A v \in n - m .. n : d[n - m] <= d[v]

LEMMA PutBubbles ==
  ASSUME NEW n \in Nat, NEW c \in [1 .. n -> Item], NEW d, NEW i \in 0 .. n,
         NEW m \in 0 .. n, m + i + 2 <= n, Bubbled(c, d, n, i, m)
  PROVE  Bubbled(c, Put(d, n, n - m), n, i, m + 1)
<1>1. PICK j \in 2 .. n : j = n - m /\ i <= j - 2
  OBVIOUS
<1>2. PICK e : e = Put(d, n, j)
  OBVIOUS
<1>3. d \in [1 .. n -> Item] /\ Rearranged(c, d, n) /\ \A v \in j .. n : d[j] <= d[v]
  BY <1>1 DEF Bubbled
<1>4. /\ e \in [1 .. n -> Item] /\ Rearranged(d, e, n) /\ e[j - 1] <= e[j]
      /\ \/ e[j - 1] = d[j - 1] /\ e[j] = d[j]
         \/ e[j - 1] = d[j] /\ e[j] = d[j - 1]
      /\ \A k \in 1 .. n : k # j /\ k # j - 1 => e[k] = d[k]
  BY <1>2, <1>3, PutIs
<1>5. Rearranged(c, e, n)
  BY <1>3, <1>4, RearrangedTwice
<1>6. \A k \in 1 .. n : d[k] \in Nat /\ e[k] \in Nat
  BY <1>3, <1>4, ListAssumption
<1>7. j \in 1 .. n /\ j - 1 \in 1 .. n
  OBVIOUS
<1>8. ASSUME Settled(d, n, i) PROVE Settled(e, n, i)
  <2>1. SUFFICES ASSUME NEW u \in 1 .. n, NEW v \in 1 .. n, u <= v, u <= i PROVE e[u] <= e[v]
    BY DEF Settled
  <2>2. u # j /\ u # j - 1 /\ u <= j /\ u <= j - 1
    BY <1>1, <2>1
  <2>3. e[u] = d[u] /\ d[u] <= d[v] /\ d[u] <= d[j] /\ d[u] <= d[j - 1]
    BY <1>4, <1>7, <1>8, <2>1, <2>2 DEF Settled
  <2>4. e[v] = d[v] \/ e[v] = d[j] \/ e[v] = d[j - 1]
    BY <1>4
  <2>5. QED
    BY <2>3, <2>4
<1>9. ASSUME NEW v \in j - 1 .. n PROVE e[j - 1] <= e[v]
  <2>1. v \in 1 .. n
    BY <1>7
  <2>2. CASE v = j - 1
    BY <1>6, <1>7, <2>2
  <2>3. CASE v = j
    BY <1>4, <2>3
  <2>4. CASE v # j - 1 /\ v # j
    <3>1. v \in j .. n /\ j \in j .. n
      BY <2>4
    <3>2. e[v] = d[v] /\ d[j] <= d[v]
      BY <1>3, <1>4, <2>1, <2>4, <3>1
    <3>3. e[j - 1] <= d[j]
      <4>1. CASE e[j - 1] = d[j - 1] /\ e[j] = d[j]
        BY <1>4, <4>1
      <4>2. CASE e[j - 1] = d[j]
        BY <1>6, <1>7, <4>2
      <4>3. QED
        BY <1>4, <4>1, <4>2
    <3>4. e[j - 1] \in Nat /\ d[j] \in Nat /\ d[v] \in Nat
      BY <1>6, <1>7, <2>1
    <3>5. QED
      BY <3>2, <3>3, <3>4
  <2>5. QED
    BY <2>2, <2>3, <2>4
<1>10. n - (m + 1) = j - 1
  BY <1>1
<1>11. QED
  BY <1>1, <1>2, <1>4, <1>5, <1>8, <1>9, <1>10 DEF Bubbled

(* A pass leaves the nodes where they are and puts one more in its place. *)
LEMMA PassShows ==
  ASSUME NEW n \in Nat, n <= MaxItems, n = Len(contents),
         NEW s, IsLaid(list, s, contents, n),
         NEW h, NEW c, Chain(h, s, c, n), NEW i \in 0 .. n - 2
  PROVE  \E d : /\ Chain(List!Pass(h, i), s, d, n) /\ Rearranged(c, d, n)
                /\ Settled(c, n, i) => Settled(d, n, i + 1)
<1>1. PICK m \in Nat : m = n - 1 - i /\ m \in 1 .. n - 1
  <2>1. i \in Int /\ 0 <= i /\ i <= n - 2
    OBVIOUS
  <2>2. n - 1 - i \in 1 .. n - 1 /\ n - 1 - i \in Nat
    BY <2>1
  <2>3. QED
    BY <2>2
<1>2. ASSUME NEW k \in 1 .. m PROVE List!NodeAt(n - k) = s[n - (k - 1)]
  <2>1. n - k \in 0 .. MaxItems + 1 /\ n - k <= n /\ (n - k) + 1 = n - (k - 1)
    BY <1>1, ListAssumption
  <2>2. QED
    BY <2>1, ForwardIs DEF List!NodeAt
<1>3. PICK S : S = {q \in 0 .. m : \E f : f = [k \in 0 .. q |->
                      IF k = 0 THEN h ELSE List!Exchanged(f[k - 1], List!NodeAt(n - k))]}
  OBVIOUS
<1>4. 0 \in S
  <2>1. PICK f : f = [k \in 0 .. 0 |-> h]
    OBVIOUS
  <2>2. f = [k \in 0 .. 0 |-> IF k = 0 THEN h ELSE List!Exchanged(f[k - 1], List!NodeAt(n - k))]
    BY <2>1
  <2>3. QED
    BY <1>3, <2>2
<1>5. ASSUME NEW q \in 0 .. m - 1, q \in S PROVE q + 1 \in S
  <2>1. PICK f : f = [k \in 0 .. q |-> IF k = 0 THEN h ELSE List!Exchanged(f[k - 1], List!NodeAt(n - k))]
    BY <1>3, <1>5
  <2>2. PICK x : x = List!Exchanged(f[q], List!NodeAt(n - (q + 1)))
    OBVIOUS
  <2>3. PICK g : g = [k \in 0 .. q + 1 |-> IF k = q + 1 THEN x ELSE f[k]]
    OBVIOUS
  <2>4. ASSUME NEW k \in 0 .. q + 1
        PROVE  g[k] = IF k = 0 THEN h ELSE List!Exchanged(g[k - 1], List!NodeAt(n - k))
    <3>1. CASE k = q + 1
      <4>1. k # 0 /\ k - 1 = q /\ q \in 0 .. q + 1 /\ q # q + 1
        BY <3>1
      <4>2. g[k - 1] = f[q] /\ g[k] = x
        BY <2>3, <3>1, <4>1
      <4>3. QED
        BY <2>2, <3>1, <4>1, <4>2
    <3>2. CASE k # q + 1
      <4>1. k \in 0 .. q /\ (k # 0 => k - 1 \in 0 .. q + 1 /\ k - 1 # q + 1)
        BY <3>2
      <4>2. g[k] = f[k] /\ (k # 0 => g[k - 1] = f[k - 1])
        BY <2>3, <3>2, <4>1
      <4>3. f[k] = IF k = 0 THEN h ELSE List!Exchanged(f[k - 1], List!NodeAt(n - k))
        BY <2>1, <4>1
      <4>4. QED
        BY <4>2, <4>3
    <3>3. QED
      BY <3>1, <3>2
  <2>5. g = [k \in 0 .. q + 1 |-> IF k = 0 THEN h ELSE List!Exchanged(g[k - 1], List!NodeAt(n - k))]
    BY <2>3, <2>4
  <2>6. q + 1 \in 0 .. m
    OBVIOUS
  <2>7. QED
    BY <1>3, <2>5, <2>6
<1>6. m \in S
  <2>1. 0 .. m \subseteq S
    BY <1>4, <1>5, Induction
  <2>2. QED
    BY <2>1
<1>7. PICK after :
         /\ after = [k \in 0 .. m |-> IF k = 0 THEN h ELSE List!Exchanged(after[k - 1], List!NodeAt(n - k))]
         /\ List!Pass(h, i) = after[m]
  <2>1. PICK after : after = CHOOSE g : g = [k \in 0 .. m |->
                       IF k = 0 THEN h ELSE List!Exchanged(g[k - 1], List!NodeAt(n - k))]
    OBVIOUS
  <2>2. PICK f : f = [k \in 0 .. m |-> IF k = 0 THEN h ELSE List!Exchanged(f[k - 1], List!NodeAt(n - k))]
    BY <1>3, <1>6
  <2>3. after = [k \in 0 .. m |-> IF k = 0 THEN h ELSE List!Exchanged(after[k - 1], List!NodeAt(n - k))]
    BY <2>1, <2>2
  <2>4. List!Pass(h, i) = after[m]
    BY <1>1, <2>1 DEF List!Pass
  <2>5. QED
    BY <2>3, <2>4
<1>8. PICK T : T = {k \in 0 .. m : \E d : Chain(after[k], s, d, n) /\ Bubbled(c, d, n, i, k)}
  OBVIOUS
<1>9. 0 \in T
  <2>1. after[0] = h /\ 0 \in 0 .. m
    BY <1>7
  <2>2. c \in [1 .. n -> Item] /\ n \in 1 .. n
    BY <1>1 DEF Chain
  <2>3. Rearranged(c, c, n)
    BY <2>2, RearrangedItself
  <2>4. n - 0 = n /\ \A v \in n .. n : v = n
    OBVIOUS
  <2>5. c[n] \in Nat
    BY <2>2, ListAssumption
  <2>6. Bubbled(c, c, n, i, 0)
    BY <2>2, <2>3, <2>4, <2>5 DEF Bubbled
  <2>7. QED
    BY <1>8, <2>1, <2>6
<1>10. ASSUME NEW k \in 0 .. m - 1, k \in T PROVE k + 1 \in T
  <2>1. PICK d : Chain(after[k], s, d, n) /\ Bubbled(c, d, n, i, k)
    BY <1>8, <1>10
  <2>2. k + 1 \in 0 .. m /\ k + 1 # 0 /\ (k + 1) - 1 = k /\ k + 1 \in 1 .. m
    OBVIOUS
  <2>3. after[k + 1] = List!Exchanged(after[k], s[n - k])
    BY <1>2, <1>7, <2>2
  <2>4. n - k \in 2 .. n /\ k \in 0 .. n /\ i \in 0 .. n /\ k + i + 2 <= n
    BY <1>1
  <2>5. Chain(after[k + 1], s, Put(d, n, n - k), n)
    BY <2>1, <2>3, <2>4, ExchangedShows
  <2>6. c \in [1 .. n -> Item]
    BY DEF Chain
  <2>7. Bubbled(c, Put(d, n, n - k), n, i, k + 1)
    BY <2>1, <2>4, <2>6, PutBubbles
  <2>8. QED
    BY <1>8, <2>2, <2>5, <2>7
<1>11. m \in T
  <2>1. 0 .. m \subseteq T
    BY <1>9, <1>10, Induction
  <2>2. QED
    BY <2>1
<1>12. PICK d : Chain(List!Pass(h, i), s, d, n) /\ Bubbled(c, d, n, i, m)
  BY <1>7, <1>8, <1>11
<1>13. Rearranged(c, d, n) /\ (Settled(c, n, i) => Settled(d, n, i)) /\ \A v \in i + 1 .. n : d[i + 1] <= d[v]
  <2>1. n - m = i + 1
    BY <1>1
  <2>2. QED
    BY <1>12, <2>1 DEF Bubbled
<1>14. ASSUME Settled(c, n, i) PROVE Settled(d, n, i + 1)
  <2>1. SUFFICES ASSUME NEW u \in 1 .. n, NEW v \in 1 .. n, u <= v, u <= i + 1 PROVE d[u] <= d[v]
    BY DEF Settled
  <2>2. CASE u <= i
    BY <1>13, <1>14, <2>1, <2>2 DEF Settled
  <2>3. CASE u = i + 1
    <3>1. v \in i + 1 .. n
      BY <2>1, <2>3
    <3>2. QED
      BY <1>13, <2>3, <3>1
  <2>4. QED
    BY <2>1, <2>2, <2>3
<1>15. QED
  BY <1>12, <1>13, <1>14

LEMMA BoubbleSortKeeps == ASSUME ListInv, List!boubbleSort PROVE ListInv'
<1>1. PICK n \in Nat : n = Len(contents) /\ n <= MaxItems /\ contents \in Seq(Item) /\ where \in 0 .. n
  BY DEF ListInv
<1>2. PICK s : IsLaid(list, s, contents, n) /\ cursor = s[where + 1]
  BY <1>1 DEF ListInv
<1>3. UNCHANGED <<cursor, where, ordered>> /\ ~ordered /\ contents' = List!Sorted(contents)
  BY DEF List!boubbleSort, List!Stands, List!cursorVars
<1>4. contents \in [1 .. n -> Item]
  BY <1>1
<1>5. SUFFICES ASSUME NEW d, Chain(list'.heap, s, d, n), Rearranged(contents, d, n), Sorts(d, n),
                      list' = [heap |-> list'.heap, m_first |-> list.m_first, m_last |-> list.m_last]
               PROVE  ListInv'
  <2>1. SUFFICES \E d : /\ Chain(list'.heap, s, d, n) /\ Rearranged(contents, d, n) /\ Sorts(d, n)
                        /\ list' = [heap |-> list'.heap, m_first |-> list.m_first, m_last |-> list.m_last]
    OBVIOUS
  <2>2. PICK h : h = list.heap
    OBVIOUS
  <2>3. Chain(h, s, contents, n) /\ list = [heap |-> h, m_first |-> s[1], m_last |-> s[n + 1]]
    BY <1>2, <2>2 DEF IsLaid
  <2>4. CASE n < 2
    <3>1. list' = list
      BY <1>1, <2>4 DEF List!boubbleSort
    <3>2. Rearranged(contents, contents, n)
      BY <1>4, RearrangedItself
    <3>3. Sorts(contents, n)
      <4>1. SUFFICES ASSUME NEW u \in 1 .. n, NEW v \in 1 .. n PROVE contents[u] <= contents[v]
        BY DEF Sorts
      <4>2. u = v /\ contents[u] \in Nat
        BY <1>4, <2>4, ListAssumption
      <4>3. QED
        BY <4>2
    <3>4. list' = [heap |-> list'.heap, m_first |-> list.m_first, m_last |-> list.m_last] /\ list'.heap = h
      BY <2>2, <2>3, <3>1
    <3>5. QED
      BY <2>3, <3>2, <3>3, <3>4
  <2>5. CASE ~(n < 2)
    <3>1. PICK m \in Nat : m = n - 1 /\ m \in 1 .. n
      BY <2>5
    <3>2. PICK S : S = {q \in 0 .. m : \E f : f = [i \in 0 .. q |->
                          IF i = 0 THEN h ELSE List!Pass(f[i - 1], i - 1)]}
      OBVIOUS
    <3>3. 0 \in S
      <4>1. PICK f : f = [i \in 0 .. 0 |-> h]
        OBVIOUS
      <4>2. f = [i \in 0 .. 0 |-> IF i = 0 THEN h ELSE List!Pass(f[i - 1], i - 1)]
        BY <4>1
      <4>3. QED
        BY <3>2, <4>2
    <3>4. ASSUME NEW q \in 0 .. m - 1, q \in S PROVE q + 1 \in S
      <4>1. PICK f : f = [i \in 0 .. q |-> IF i = 0 THEN h ELSE List!Pass(f[i - 1], i - 1)]
        BY <3>2, <3>4
      <4>2. PICK x : x = List!Pass(f[q], q)
        OBVIOUS
      <4>3. PICK g : g = [i \in 0 .. q + 1 |-> IF i = q + 1 THEN x ELSE f[i]]
        OBVIOUS
      <4>4. ASSUME NEW i \in 0 .. q + 1
            PROVE  g[i] = IF i = 0 THEN h ELSE List!Pass(g[i - 1], i - 1)
        <5>1. CASE i = q + 1
          <6>1. i # 0 /\ i - 1 = q /\ q \in 0 .. q + 1 /\ q # q + 1
            BY <5>1
          <6>2. g[i - 1] = f[q] /\ g[i] = x
            BY <4>3, <5>1, <6>1
          <6>3. QED
            BY <4>2, <6>1, <6>2
        <5>2. CASE i # q + 1
          <6>1. i \in 0 .. q /\ (i # 0 => i - 1 \in 0 .. q + 1 /\ i - 1 # q + 1)
            BY <5>2
          <6>2. g[i] = f[i] /\ (i # 0 => g[i - 1] = f[i - 1])
            BY <4>3, <5>2, <6>1
          <6>3. f[i] = IF i = 0 THEN h ELSE List!Pass(f[i - 1], i - 1)
            BY <4>1, <6>1
          <6>4. QED
            BY <6>2, <6>3
        <5>3. QED
          BY <5>1, <5>2
      <4>5. g = [i \in 0 .. q + 1 |-> IF i = 0 THEN h ELSE List!Pass(g[i - 1], i - 1)]
        BY <4>3, <4>4
      <4>6. q + 1 \in 0 .. m
        OBVIOUS
      <4>7. QED
        BY <3>2, <4>5, <4>6
    <3>5. 0 .. m \subseteq S
      BY <3>3, <3>4, Induction
    <3>6. PICK after :
             /\ after = [i \in 0 .. m |-> IF i = 0 THEN h ELSE List!Pass(after[i - 1], i - 1)]
             /\ list' = [list EXCEPT !.heap = after[m]]
      <4>1. PICK after : after = CHOOSE g : g = [i \in 0 .. m |->
                           IF i = 0 THEN h ELSE List!Pass(g[i - 1], i - 1)]
        OBVIOUS
      <4>2. PICK f : f = [i \in 0 .. m |-> IF i = 0 THEN h ELSE List!Pass(f[i - 1], i - 1)]
        BY <3>2, <3>5
      <4>3. after = [i \in 0 .. m |-> IF i = 0 THEN h ELSE List!Pass(after[i - 1], i - 1)]
        BY <4>1, <4>2
      <4>4. list' = [list EXCEPT !.heap = after[m]]
        BY <1>1, <2>2, <2>5, <3>1, <4>1 DEF List!boubbleSort
      <4>5. QED
        BY <4>3, <4>4
    <3>7. PICK T : T = {i \in 0 .. m : \E d : /\ Chain(after[i], s, d, n) /\ Rearranged(contents, d, n)
                                             /\ Settled(d, n, i)}
      OBVIOUS
    <3>8. 0 \in T
      <4>1. after[0] = h /\ 0 \in 0 .. m
        BY <3>6
      <4>2. Rearranged(contents, contents, n)
        BY <1>4, RearrangedItself
      <4>3. Settled(contents, n, 0)
        BY DEF Settled
      <4>4. QED
        BY <2>3, <3>7, <4>1, <4>2, <4>3
    <3>9. ASSUME NEW i \in 0 .. m - 1, i \in T PROVE i + 1 \in T
      <4>1. PICK c : Chain(after[i], s, c, n) /\ Rearranged(contents, c, n) /\ Settled(c, n, i)
        BY <3>7, <3>9
      <4>2. i + 1 \in 0 .. m /\ i + 1 # 0 /\ (i + 1) - 1 = i /\ i \in 0 .. n - 2
        BY <3>1
      <4>3. after[i + 1] = List!Pass(after[i], i)
        BY <3>6, <4>2
      <4>4. PICK d : /\ Chain(List!Pass(after[i], i), s, d, n) /\ Rearranged(c, d, n)
                     /\ Settled(c, n, i) => Settled(d, n, i + 1)
        BY <1>1, <1>2, <4>1, <4>2, PassShows
      <4>5. Rearranged(contents, d, n)
        BY <4>1, <4>4, RearrangedTwice
      <4>6. QED
        BY <3>7, <4>1, <4>2, <4>3, <4>4, <4>5
    <3>10. 0 .. m \subseteq T
      BY <3>8, <3>9, Induction
    <3>11. PICK d : Chain(after[m], s, d, n) /\ Rearranged(contents, d, n) /\ Settled(d, n, m)
      BY <3>7, <3>10
    <3>12. Sorts(d, n)
      <4>1. SUFFICES ASSUME NEW u \in 1 .. n, NEW v \in 1 .. n, u <= v PROVE d[u] <= d[v]
        BY DEF Sorts
      <4>2. CASE u <= m
        BY <3>11, <4>1, <4>2 DEF Settled
      <4>3. CASE ~(u <= m)
        <5>1. u = v
          BY <3>1, <4>1, <4>3
        <5>2. d[u] \in Nat
          BY <3>11, ListAssumption DEF Chain
        <5>3. QED
          BY <5>1, <5>2
      <4>4. QED
        BY <4>2, <4>3
    <3>13. list' = [heap |-> list'.heap, m_first |-> list.m_first, m_last |-> list.m_last] /\ list'.heap = after[m]
      BY <2>3, <3>6
    <3>14. QED
      BY <3>11, <3>12, <3>13
  <2>6. QED
    BY <2>4, <2>5
<1>6. d \in [1 .. n -> Item]
  BY <1>5 DEF Chain
<1>7. contents' = d
  BY <1>3, <1>4, <1>5, <1>6, SortedIs
<1>8. contents' \in Seq(Item) /\ Len(contents') = n
  BY <1>6, <1>7, FunctionIsSeq
<1>9. IsLaid(list', s, contents', n)
  <2>1. list.m_first = s[1] /\ list.m_last = s[n + 1]
    BY <1>2 DEF IsLaid
  <2>2. QED
    BY <1>5, <1>7, <2>1 DEF IsLaid
<1>10. ordered' \in BOOLEAN /\ ~ordered'
  BY <1>3 DEF ListInv
<1>11. where' \in 0 .. n /\ cursor' = s[where' + 1]
  BY <1>1, <1>2, <1>3
<1>12. QED
  BY <1>1, <1>8, <1>9, <1>10, <1>11 DEF ListInv

(* The nodes from the iterator on are given one value. *)
LEMMA FillKeeps == ASSUME ListInv, NEW object \in Item, List!fill(object) PROVE ListInv'
<1>1. PICK n \in Nat : n = Len(contents) /\ n <= MaxItems /\ contents \in Seq(Item) /\ where \in 0 .. n
  BY DEF ListInv
<1>2. PICK s : IsLaid(list, s, contents, n) /\ cursor = s[where + 1]
  BY <1>1 DEF ListInv
<1>3. UNCHANGED <<cursor, where, ordered>> /\ ~ordered
  BY DEF List!fill, List!Stands, List!cursorVars
<1>4. PICK h : h = list.heap
  OBVIOUS
<1>5. PICK filled : filled = {List!NodeAt(k) : k \in where .. n - 1}
  OBVIOUS
<1>6. PICK g : g = [a \in DOMAIN h |-> IF a \in filled THEN [h[a] EXCEPT !.information = object] ELSE h[a]]
  OBVIOUS
<1>7. list = [heap |-> h, m_first |-> s[1], m_last |-> s[n + 1]] /\ Chain(h, s, contents, n)
  BY <1>2, <1>4 DEF IsLaid
<1>8. list' = [heap |-> g, m_first |-> s[1], m_last |-> s[n + 1]]
  <2>1. list' = [list EXCEPT !.heap = g]
    BY <1>1, <1>4, <1>5, <1>6 DEF List!fill
  <2>2. QED
    BY <1>7, <2>1
<1>9. PICK d : d = [k \in 1 .. n |-> IF k > where THEN object ELSE contents[k]]
  OBVIOUS
<1>10. contents' = d
  <2>1. DOMAIN contents = 1 .. n
    BY <1>1
  <2>2. QED
    BY <1>9, <2>1 DEF List!fill
<1>11. d \in [1 .. n -> Item]
  BY <1>1, <1>9
<1>12. /\ s \in [1 .. n + 1 -> List!Address]
       /\ \A k, j \in 1 .. n + 1 : s[k] = s[j] => k = j
       /\ h = [a \in {s[k] : k \in 1 .. n + 1} |-> h[a]]
       /\ \A k \in 1 .. n + 1 : h[s[k]] = List!Node(InfoOf(contents, n, k), PrevOf(s, k), NextOf(s, n, k))
  BY <1>7 DEF Chain
<1>13. ASSUME NEW k \in 1 .. n + 1 PROVE s[k] \in filled <=> k \in where + 1 .. n
  <2>1. Walks(list, s, contents, n)
    BY <1>1, <1>2, NodesAre
  <2>2. \A j \in where .. n - 1 : List!NodeAt(j) = s[j + 1] /\ j + 1 \in 1 .. n + 1
    <3>1. \A j \in where .. n - 1 : j \in 0 .. n /\ j + 1 \in 1 .. n + 1
      BY <1>1
    <3>2. QED
      BY <2>1, <3>1 DEF Walks, List!NodeAt
  <2>3. ASSUME s[k] \in filled PROVE k \in where + 1 .. n
    <3>1. PICK j \in where .. n - 1 : s[k] = s[j + 1] /\ j + 1 \in 1 .. n + 1
      BY <1>5, <2>2, <2>3
    <3>2. k = j + 1
      BY <1>12, <3>1
    <3>3. QED
      BY <1>1, <3>1, <3>2
  <2>4. ASSUME k \in where + 1 .. n PROVE s[k] \in filled
    <3>1. k - 1 \in where .. n - 1 /\ (k - 1) + 1 = k
      BY <1>1, <2>4
    <3>2. List!NodeAt(k - 1) = s[k]
      BY <2>2, <3>1
    <3>3. QED
      BY <1>5, <3>1, <3>2
  <2>5. QED
    BY <2>3, <2>4
<1>14. ASSUME NEW k \in 1 .. n + 1
       PROVE  g[s[k]] = List!Node(InfoOf(d, n, k), PrevOf(s, k), NextOf(s, n, k))
  <2>1. h[s[k]] = List!Node(InfoOf(contents, n, k), PrevOf(s, k), NextOf(s, n, k)) /\ s[k] \in DOMAIN h
    BY <1>12
  <2>2. CASE k \in where + 1 .. n
    <3>1. g[s[k]] = [h[s[k]] EXCEPT !.information = object]
      BY <1>6, <1>13, <2>1, <2>2
    <3>2. InfoOf(d, n, k) = object
      <4>1. k \in 1 .. n /\ k > where /\ k <= n
        BY <1>1, <2>2
      <4>2. QED
        BY <1>9, <4>1 DEF InfoOf
    <3>3. QED
      BY <2>1, <3>1, <3>2 DEF List!Node
  <2>3. CASE k \notin where + 1 .. n
    <3>1. g[s[k]] = h[s[k]]
      BY <1>6, <1>13, <2>1, <2>3
    <3>2. InfoOf(d, n, k) = InfoOf(contents, n, k)
      <4>1. CASE k <= n
        <5>1. k \in 1 .. n /\ ~(k > where)
          BY <1>1, <2>3, <4>1
        <5>2. QED
          BY <1>9, <4>1, <5>1 DEF InfoOf
      <4>2. CASE ~(k <= n)
        BY <4>2 DEF InfoOf
      <4>3. QED
        BY <4>1, <4>2
    <3>3. QED
      BY <2>1, <3>1, <3>2
  <2>4. QED
    BY <2>2, <2>3
<1>15. g = [a \in {s[k] : k \in 1 .. n + 1} |-> g[a]]
  <2>1. DOMAIN h = {s[k] : k \in 1 .. n + 1} /\ g = [a \in DOMAIN h |-> g[a]]
    BY <1>6, <1>12
  <2>2. QED
    BY <2>1
<1>16. IsLaid(list', s, contents', n)
  <2>1. Chain(g, s, d, n)
    BY <1>11, <1>12, <1>14, <1>15 DEF Chain
  <2>2. QED
    BY <1>8, <1>10, <2>1 DEF IsLaid
<1>17. contents' \in Seq(Item) /\ Len(contents') = n
  BY <1>10, <1>11, FunctionIsSeq
<1>18. ordered' \in BOOLEAN /\ ~ordered'
  BY <1>3 DEF ListInv
<1>19. where' \in 0 .. n /\ cursor' = s[where' + 1]
  BY <1>1, <1>2, <1>3
<1>20. QED
  BY <1>1, <1>16, <1>17, <1>18, <1>19 DEF ListInv

(* An iterator that goes so many links on, or back. *)
LEMMA LinkingIs ==
  ASSUME NEW n \in Nat, n <= MaxItems, NEW s, NEW c, IsLaid(list, s, c, n),
         NEW w \in 0 .. n, cursor = s[w + 1], NEW count \in Nat
  PROVE  /\ w + count <= n => List!Linking(count, "next") = s[w + count + 1]
         /\ count <= w => List!Linking(count, "prev") = s[w - count + 1]
<1>1. Walks(list, s, c, n)
  BY NodesAre
<1>2. ASSUME NEW link \in {"next", "prev"},
             NEW f, f[0] = cursor, f = [k \in 0 .. count |-> f[k]],
             \A k \in 1 .. count : f[k] = list.heap[f[k - 1]][link]
      PROVE  List!Linking(count, link) = f[count]
  <2>1. f = [k \in 0 .. count |-> IF k = 0 THEN cursor ELSE list.heap[f[k - 1]][link]]
    <3>1. ASSUME NEW k \in 0 .. count PROVE f[k] = IF k = 0 THEN cursor ELSE list.heap[f[k - 1]][link]
      <4>1. CASE k = 0
        BY <1>2, <4>1
      <4>2. CASE k # 0
        <5>1. k \in 1 .. count
          BY <4>2
        <5>2. QED
          BY <1>2, <4>2, <5>1
      <4>3. QED
        BY <4>1, <4>2
    <3>2. QED
      BY <1>2, <3>1
  <2>2. PICK tmp : tmp = CHOOSE g : g = [k \in 0 .. count |-> IF k = 0 THEN cursor ELSE list.heap[g[k - 1]][link]]
    BY Zenon
  <2>3. tmp = [k \in 0 .. count |-> IF k = 0 THEN cursor ELSE list.heap[tmp[k - 1]][link]]
    BY <2>1, <2>2, Zenon
  <2>4. List!Linking(count, link) = tmp[count]
    BY <2>2 DEF List!Linking
  <2>5. PICK S : S = {k \in 0 .. count : tmp[k] = f[k]}
    OBVIOUS
  <2>6. 0 \in S
    <3>1. tmp[0] = cursor /\ 0 \in 0 .. count
      BY <2>3
    <3>2. QED
      BY <1>2, <2>5, <3>1
  <2>7. ASSUME NEW k \in 0 .. count - 1, k \in S PROVE k + 1 \in S
    <3>1. k + 1 \in 0 .. count /\ k + 1 # 0 /\ (k + 1) - 1 = k /\ k + 1 \in 1 .. count
      OBVIOUS
    <3>2. tmp[k] = f[k]
      BY <2>5, <2>7
    <3>3. tmp[k + 1] = list.heap[tmp[k]][link]
      BY <2>3, <3>1
    <3>4. f[k + 1] = list.heap[f[k]][link]
      BY <1>2, <3>1
    <3>5. QED
      BY <2>5, <3>1, <3>2, <3>3, <3>4
  <2>8. 0 .. count \subseteq S
    BY <2>6, <2>7, Induction
  <2>9. count \in S
    BY <2>8
  <2>10. QED
    BY <2>4, <2>5, <2>9
<1>3. ASSUME w + count <= n PROVE List!Linking(count, "next") = s[w + count + 1]
  <2>1. PICK f : f = [k \in 0 .. count |-> s[w + k + 1]]
    OBVIOUS
  <2>2. ASSUME NEW k \in 1 .. count PROVE f[k] = list.heap[f[k - 1]]["next"]
    <3>1. k - 1 \in 0 .. count /\ k \in 0 .. count /\ w + (k - 1) + 1 = w + k
      OBVIOUS
    <3>2. PICK j \in 1 .. n + 1 : j = w + k /\ j # n + 1
      BY <1>3
    <3>3. f[k - 1] = s[j] /\ f[k] = s[j + 1]
      BY <2>1, <3>1, <3>2
    <3>4. list.heap[s[j]].next = NextOf(s, n, j)
      BY <1>1 DEF Walks
    <3>5. QED
      BY <3>2, <3>3, <3>4 DEF NextOf
  <2>3. f[0] = cursor /\ f = [k \in 0 .. count |-> f[k]] /\ f[count] = s[w + count + 1]
    BY <2>1
  <2>4. QED
    BY <1>2, <2>2, <2>3
<1>4. ASSUME count <= w PROVE List!Linking(count, "prev") = s[w - count + 1]
  <2>1. PICK f : f = [k \in 0 .. count |-> s[w - k + 1]]
    OBVIOUS
  <2>2. ASSUME NEW k \in 1 .. count PROVE f[k] = list.heap[f[k - 1]]["prev"]
    <3>1. k - 1 \in 0 .. count /\ k \in 0 .. count /\ w - (k - 1) + 1 = w - k + 2
      OBVIOUS
    <3>2. PICK j \in 1 .. n + 1 : j = w - k + 2 /\ j # 1 /\ j - 1 = w - k + 1
      BY <1>4
    <3>3. f[k - 1] = s[j] /\ f[k] = s[j - 1]
      BY <2>1, <3>1, <3>2
    <3>4. list.heap[s[j]].prev = PrevOf(s, j)
      BY <1>1 DEF Walks
    <3>5. QED
      BY <3>2, <3>3, <3>4 DEF PrevOf
  <2>3. f[0] = cursor /\ f = [k \in 0 .. count |-> f[k]] /\ f[count] = s[w - count + 1]
    BY <2>1
  <2>4. QED
    BY <1>2, <2>2, <2>3
<1>5. QED
  BY <1>3, <1>4

LEMMA MovesKeep == ASSUME ListInv, List!Moves PROVE ListInv'
<1>1. PICK n \in Nat : n = Len(contents) /\ n <= MaxItems /\ contents \in Seq(Item) /\ where \in 0 .. n
  BY DEF ListInv
<1>2. PICK s : IsLaid(list, s, contents, n) /\ cursor = s[where + 1]
  BY <1>1 DEF ListInv
<1>3. UNCHANGED <<list, ordered, contents>>
  BY DEF List!Moves, List!listVars
<1>4. Walks(list, s, contents, n)
  BY <1>1, <1>2, NodesAre
<1>5. SUFFICES where' \in 0 .. n /\ cursor' = s[where' + 1]
  <2>1. (ordered => List!InOrder(contents))'
    BY <1>3 DEF ListInv, List!InOrder
  <2>2. IsLaid(list', s, contents', n)
    BY <1>2, <1>3
  <2>3. ordered' \in BOOLEAN
    BY <1>3 DEF ListInv
  <2>4. QED
    BY <1>1, <1>3, <1>5, <2>1, <2>2, <2>3 DEF ListInv
<1>6. CASE List!next
  <2>1. where + 1 \in 1 .. n + 1 /\ where + 1 # n + 1 /\ where + 1 \in 0 .. n
    BY <1>1, <1>6 DEF List!next, List!AtEnd
  <2>2. list.heap[s[where + 1]].next = s[where + 1 + 1]
    BY <1>4, <2>1 DEF Walks, NextOf
  <2>3. QED
    BY <1>2, <1>6, <2>1, <2>2 DEF List!next
<1>7. CASE List!prev
  <2>1. where + 1 \in 1 .. n + 1 /\ where + 1 # 1 /\ where - 1 \in 0 .. n /\ (where + 1) - 1 = (where - 1) + 1
    BY <1>1, <1>7 DEF List!prev
  <2>2. list.heap[s[where + 1]].prev = s[(where + 1) - 1]
    BY <1>4, <2>1 DEF Walks, PrevOf
  <2>3. QED
    BY <1>2, <1>7, <2>1, <2>2 DEF List!prev
<1>8. ASSUME NEW count \in 2 .. MaxItems, List!plus(count) PROVE where' \in 0 .. n /\ cursor' = s[where' + 1]
  <2>1. count \in Nat /\ where + count <= n /\ where' = where + count /\ cursor' = List!Linking(count, "next")
    BY <1>1, <1>8, ListAssumption DEF List!plus
  <2>2. List!Linking(count, "next") = s[where + count + 1]
    BY <1>1, <1>2, <2>1, LinkingIs
  <2>3. QED
    BY <1>1, <2>1, <2>2
<1>9. ASSUME NEW count \in 2 .. MaxItems, List!minus(count) PROVE where' \in 0 .. n /\ cursor' = s[where' + 1]
  <2>1. count \in Nat /\ where >= count /\ where' = where - count /\ cursor' = List!Linking(count, "prev")
    BY <1>1, <1>9, ListAssumption DEF List!minus
  <2>2. List!Linking(count, "prev") = s[where - count + 1]
    BY <1>1, <1>2, <2>1, LinkingIs
  <2>3. QED
    BY <1>1, <2>1, <2>2
<1>10. QED
  BY <1>6, <1>7, <1>8, <1>9 DEF List!Moves

LEMMA ChangesKeep == ASSUME ListInv, List!Changes PROVE ListInv'
<1>1. ASSUME NEW i \in Item, List!appendItem(i), List!After(Len(contents)) PROVE ListInv'
  BY <1>1, AppendItemKeeps
<1>2. ASSUME NEW i \in Item, List!insertFirst(i), List!After(0) PROVE ListInv'
  BY <1>2, InsertFirstKeeps
<1>3. ASSUME NEW i \in Item, List!add(i), List!After(List!NotAfter(i)) PROVE ListInv'
  BY <1>3, AddKeeps
<1>4. ASSUME NEW i \in Item, List!insertAt(i) \/ \E k \in 0 .. MaxItems : List!insert(k, i) /\ List!After(k)
      PROVE  ListInv'
  BY <1>4, InsertsKeep
<1>5. ASSUME NEW i \in Item, List!fill(i) PROVE ListInv'
  BY <1>5, FillKeeps
<1>6. ASSUME NEW i \in Item, List!removeObject(i),
             IF List!PlaceOf(i) - 1 = where THEN List!begin
             ELSE UNCHANGED cursor /\ where' = IF List!PlaceOf(i) - 1 < where THEN where - 1 ELSE where
      PROVE  ListInv'
  BY <1>6, RemoveObjectKeeps
<1>7. CASE List!removeAt
  BY <1>7, RemoveAtKeeps
<1>8. CASE List!boubbleSort
  BY <1>8, BoubbleSortKeeps
<1>9. CASE List!removeAll /\ List!begin
  BY <1>9, RemoveAllKeeps
<1>10. CASE List!pop2null /\ IF where = 0 THEN List!begin ELSE UNCHANGED cursor /\ where' = where - 1
  BY <1>10, Pop2nullKeeps
<1>11. ASSUME NEW other \in UNION {[1 .. n -> Item] : n \in 0 .. MaxItems}, List!clone(other), List!begin
       PROVE  ListInv'
  <2>1. PICK n \in 0 .. MaxItems : other \in [1 .. n -> Item]
    OBVIOUS
  <2>2. QED
    BY <1>11, <2>1, CloneKeeps
<1>12. QED
  BY <1>1, <1>2, <1>3, <1>4, <1>5, <1>6, <1>7, <1>8, <1>9, <1>10, <1>11 DEF List!Changes

(* A number within one width of those of a remainder has it. *)
LEMMA WidthLess ==
  ASSUME NEW U \in Nat \ {0}, NEW y \in 0 .. U - 1
  PROVE  y % U = y /\ (y + U) % U = y /\ (y - U) % U = y
BY SMTT(30)

(* What is true of the index of an array's iterator. *)
IndexInv ==
  /\ size \in 0 .. MaxSize
  /\ offset \in MaxSize + 1 - UintRange .. UintRange - 1
  /\ m_index = IF offset >= 0 THEN offset ELSE offset + UintRange

LEMMA IndexStarts == List!IteratorInit => IndexInv
<1>1. MaxSize \in Nat /\ UintRange \in Nat /\ UintRange > MaxSize
  BY ArrayAssumption, ListAssumption
<1>2. QED
  BY <1>1 DEF List!IteratorInit, IndexInv

LEMMA GoesKeeps == ASSUME IndexInv, NEW distance \in Int, List!Goes(distance) PROVE IndexInv'
<1>1. PICK U, max \in Nat : U = UintRange /\ max = MaxSize /\ U \in Nat \ {0} /\ U > max
  BY ArrayAssumption, ListAssumption
<1>2. PICK o \in Int : o = offset + distance /\ o \in max + 1 - U .. U - 1 /\ offset' = o
  BY <1>1 DEF List!Goes, IndexInv
<1>3. m_index' = (m_index + distance) % U /\ size' = size
  BY <1>1 DEF List!Goes
<1>4. PICK y \in 0 .. U - 1 : y = IF o >= 0 THEN o ELSE o + U
  BY <1>1, <1>2
<1>5. m_index + distance = y \/ m_index + distance = y + U \/ m_index + distance = y - U
  <2>1. m_index = offset \/ m_index = offset + U
    BY <1>1 DEF IndexInv
  <2>2. offset \in Int /\ (y = o \/ y = o + U)
    BY <1>1, <1>4 DEF IndexInv
  <2>3. QED
    BY <1>1, <1>2, <2>1, <2>2
<1>6. y % U = y /\ (y + U) % U = y /\ (y - U) % U = y
  BY <1>1, WidthLess
<1>7. m_index' = y
  BY <1>3, <1>5, <1>6
<1>8. QED
  BY <1>1, <1>2, <1>3, <1>4, <1>7 DEF IndexInv

LEMMA IndexNextKeeps == IndexInv /\ [List!IndexNext]_indexVars => IndexInv'
<1> SUFFICES ASSUME IndexInv, [List!IndexNext]_indexVars PROVE IndexInv'
  OBVIOUS
<1>1. MaxSize \in Nat /\ UintRange \in Nat /\ UintRange > MaxSize
  BY ArrayAssumption, ListAssumption
<1>2. CASE List!arrayNext
  BY <1>2, GoesKeeps DEF List!arrayNext
<1>3. CASE List!arrayPrev
  BY <1>3, GoesKeeps DEF List!arrayPrev
<1>4. CASE List!arrayPlus
  BY <1>1, <1>4, GoesKeeps DEF List!arrayPlus
<1>5. CASE List!arrayMinus
  BY <1>1, <1>5, GoesKeeps DEF List!arrayMinus
<1>6. CASE List!at
  BY <1>1, <1>6 DEF List!at, IndexInv
<1>7. CASE List!Resizes
  BY <1>7 DEF List!Resizes, IndexInv
<1>8. CASE UNCHANGED indexVars
  BY <1>8 DEF indexVars, IndexInv
<1>9. QED
  BY <1>2, <1>3, <1>4, <1>5, <1>6, <1>7, <1>8 DEF List!IndexNext

LEMMA IndexShows == IndexInv => List!IndexKeepsPlace
<1>1. MaxSize \in Nat /\ UintRange \in Nat /\ UintRange > MaxSize
  BY ArrayAssumption, ListAssumption
<1>2. QED
  BY <1>1 DEF IndexInv, List!IndexKeepsPlace, List!IndexLess, List!IndexEqual, List!Throws, List!hasNext

LEMMA ListNextKeeps == ListInv /\ [List!IteratorNext]_listVars => ListInv'
<1> SUFFICES ASSUME ListInv, [List!IteratorNext]_listVars PROVE ListInv'
  OBVIOUS
<1>1. CASE List!Changes
  BY <1>1, ChangesKeep
<1>2. CASE List!Moves
  BY <1>2, MovesKeep
<1>3. CASE UNCHANGED listVars
  <2>1. /\ list' = list /\ ordered' = ordered /\ contents' = contents
        /\ cursor' = cursor /\ where' = where
    BY <1>3 DEF listVars
  <2>2. (ordered => List!InOrder(contents))'
    BY <2>1 DEF ListInv, List!InOrder
  <2>3. \E s : IsLaid(list', s, contents', Len(contents')) /\ cursor' = s[where' + 1]
    BY <2>1 DEF ListInv
  <2>4. QED
    BY <2>1, <2>2, <2>3 DEF ListInv
<1>4. QED
  BY <1>1, <1>2, <1>3 DEF List!IteratorNext

(* cList, cOrderedList and the iterators, boubbleSort, fill and find on     *)
(* them: for every length of the list and every set of numbers in it, the   *)
(* links agree and reach every node, the elements are those put in and in   *)
(* their order, sorted after a sort, an iterator keeps its element while    *)
(* others come and go, the index of an array's iterator wraps back to its   *)
(* place, and an edge of a graph is in the lists of both nodes.             *)
THEOREM ListsAndGraphsLinked == Spec => []LinksAgree
<1>1. Init => ListInv /\ IndexInv /\ GraphInv
  BY ListStarts, IndexStarts, GraphStarts DEF Init
<1>2. ListInv /\ [Next]_vars => ListInv'
  <2>1. [Next]_vars => [List!IteratorNext]_listVars
    BY DEF Next, TextMoves, OthersRest, vars
  <2>2. QED
    BY <2>1, ListNextKeeps
<1>3. IndexInv /\ [Next]_vars => IndexInv'
  <2>1. [Next]_vars => [List!IndexNext]_indexVars
    BY DEF Next, TextMoves, OthersRest, vars
  <2>2. QED
    BY <2>1, IndexNextKeeps
<1>4. GraphInv /\ [Next]_vars => GraphInv'
  <2>1. [Next]_vars => [Nodes!GraphNext]_graphVars
    BY DEF Next, TextMoves, OthersRest, vars
  <2>2. QED
    BY <2>1, GraphNextKeeps
<1>5. ListInv /\ IndexInv /\ GraphInv => LinksAgree
  BY LinksShow, ContentsShow, IteratorShows, IndexShows, EdgesShow DEF LinksAgree
<1>6. QED
  BY <1>1, <1>2, <1>3, <1>4, <1>5, PTL DEF Spec
=============================================================================
