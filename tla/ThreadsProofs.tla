---------------------------- MODULE ThreadsProofs ----------------------------
(***************************************************************************)
(* The programs of Threads keep what they promise, whatever the numbers of *)
(* threads, objects, locks, variables, texts and printers, the timeouts    *)
(* and the length of a second.                                             *)
(*                                                                         *)
(* Each program has an invariant of its own, one section each, and a step  *)
(* of one program leaves the state of the others alone (ThreadsInv).       *)
(***************************************************************************)
EXTENDS Threads, FiniteSetTheorems, SequenceTheorems, WellFoundedInduction, TLAPS

-----------------------------------------------------------------------------
(* Locks, for any number of threads, nested sections and locks.  Two facts  *)
(* carry mutual exclusion.  The mutex of every lock is held exactly by the  *)
(* thread whose open sections it guards, and as deep as these are many      *)
(* (Guards); this holds whatever getInstance does.  And as long as no two   *)
(* threads have been making the lock at a time, a thread is making it only  *)
(* while the pointer is NULL and every other thread is outside, so that all *)
(* threads inside use the one lock of the process (OneLock).                *)

LockTypes ==
  /\ m_singleton \in 0 .. MaxLocks /\ made \in 0 .. MaxLocks
  /\ m_mutex \in [Lock -> [owner : Thread \cup {NoThread}, depth : Nat]]
  /\ at \in [Thread -> Places] /\ using \in [Thread -> 0 .. MaxLocks]
  /\ m_isLock \in [Thread -> Seq(BOOLEAN)]

Placed ==
  \A t \in Thread :
    /\ at[t] # "inside" => m_isLock[t] = <<>>
    /\ at[t] \in {"return", "inside"} => m_singleton # 0
    /\ at[t] \in {"store", "inside"} => using[t] # 0

Guards ==
  /\ \A t \in Thread : Sections(t) # {} =>
       /\ m_mutex[using[t]].owner = t
       /\ m_mutex[using[t]].depth = Cardinality(Sections(t))
  /\ \A l \in Lock, t \in Thread :
       m_mutex[l].owner = t => Sections(t) # {} /\ using[t] = l
  /\ \A l \in Lock : m_mutex[l].owner = NoThread => m_mutex[l].depth = 0

OneLock ==
  ~raced =>
    /\ Making # {} => m_singleton = 0
    /\ \A t, u \in Making : t = u
    /\ \A t \in Thread : at[t] = "inside" => using[t] = m_singleton

LockInv == LockTypes /\ Placed /\ Guards /\ OneLock
-----------------------------------------------------------------------------
(* A new cLock is one more open section, and an unlock or a destructor      *)
(* takes away the innermost of them.                                        *)
LEMMA OpenAppended ==
  ASSUME NEW s \in Seq(BOOLEAN)
  PROVE  /\ Open(Append(s, TRUE)) = Open(s) \cup {Len(s) + 1}
         /\ Len(s) + 1 \notin Open(s) /\ IsFiniteSet(Open(s))
<1>1. DOMAIN s = 1 .. Len(s) /\ Len(s) \in Nat
  OBVIOUS
<1>2. IsFiniteSet(Open(s))
  <2>1. Open(s) \subseteq 1 .. Len(s)
    BY <1>1 DEF Open
  <2>2. IsFiniteSet(1 .. Len(s))
    BY <1>1, FS_Interval
  <2> QED BY <2>1, <2>2, FS_Subset
<1>3. DOMAIN Append(s, TRUE) = 1 .. Len(s) + 1
  BY <1>1
<1>4. \A k \in 1 .. Len(s) : Append(s, TRUE)[k] = s[k]
  BY <1>1
<1>5. Append(s, TRUE)[Len(s) + 1] = TRUE
  BY <1>1
<1> QED BY <1>1, <1>2, <1>3, <1>4, <1>5 DEF Open

LEMMA OpenClosed ==
  ASSUME NEW s \in Seq(BOOLEAN), s # <<>>
  PROVE  /\ Open([s EXCEPT ![Len(s)] = FALSE]) = Open(s) \ {Len(s)}
         /\ Open(SubSeq(s, 1, Len(s) - 1)) = Open(s) \ {Len(s)}
         /\ [s EXCEPT ![Len(s)] = FALSE] \in Seq(BOOLEAN)
         /\ SubSeq(s, 1, Len(s) - 1) \in Seq(BOOLEAN)
         /\ (SubSeq(s, 1, Len(s) - 1) = <<>> <=> Len(s) = 1)
         /\ (Len(s) \in Open(s) <=> s[Len(s)])
<1>1. DOMAIN s = 1 .. Len(s) /\ Len(s) \in Nat \ {0}
  OBVIOUS
<1>2. Open([s EXCEPT ![Len(s)] = FALSE]) = Open(s) \ {Len(s)}
  BY <1>1 DEF Open
<1>3. DOMAIN SubSeq(s, 1, Len(s) - 1) = 1 .. Len(s) - 1
  BY <1>1
<1>4. \A k \in 1 .. Len(s) - 1 : SubSeq(s, 1, Len(s) - 1)[k] = s[k]
  BY <1>1
<1>5. Open(SubSeq(s, 1, Len(s) - 1)) = Open(s) \ {Len(s)}
  BY <1>1, <1>3, <1>4 DEF Open
<1>6. [s EXCEPT ![Len(s)] = FALSE] \in Seq(BOOLEAN)
  BY <1>1
<1>7. SubSeq(s, 1, Len(s) - 1) \in Seq(BOOLEAN)
  BY <1>1
<1>8. SubSeq(s, 1, Len(s) - 1) = <<>> <=> Len(s) = 1
  <2>1. Len(SubSeq(s, 1, Len(s) - 1)) = Len(s) - 1
    BY <1>1
  <2>2. \A seq \in Seq(BOOLEAN) : seq # <<>> => Len(seq) \in Nat \ {0}
    BY EmptySeq, Zenon
  <2>3. Len(<<>>) = 0
    OBVIOUS
  <2>4. (SubSeq(s, 1, Len(s) - 1) # <<>>) => Len(SubSeq(s, 1, Len(s) - 1)) \in Nat \ {0}
    BY <1>7, <2>2, Zenon
  <2>5. SubSeq(s, 1, Len(s) - 1) = <<>> => Len(SubSeq(s, 1, Len(s) - 1)) = 0
    BY <2>3, Zenon
  <2>6. CASE SubSeq(s, 1, Len(s) - 1) = <<>>
    BY <1>1, <2>1, <2>5, <2>6
  <2>7. CASE SubSeq(s, 1, Len(s) - 1) # <<>>
    BY <1>1, <2>1, <2>4, <2>7
  <2> QED BY <2>6, <2>7
<1>9. Len(s) \in Open(s) <=> s[Len(s)]
  BY <1>1 DEF Open
<1> QED BY <1>2, <1>5, <1>6, <1>7, <1>8, <1>9
-----------------------------------------------------------------------------
LEMMA LocksStart == LocksInit => LockInv
<1> SUFFICES ASSUME LocksInit PROVE LockInv
  OBVIOUS
<1> USE LocksAssumption DEF LocksInit
<1>1. LockTypes
  <2>1. m_isLock \in [Thread -> Seq(BOOLEAN)]
    BY EmptySeq, Zenon
  <2>2. m_mutex \in [Lock -> [owner : Thread \cup {NoThread}, depth : Nat]]
    BY DEF Free
  <2>3. m_singleton \in 0 .. MaxLocks /\ made \in 0 .. MaxLocks
    OBVIOUS
  <2>4. at \in [Thread -> Places] /\ using \in [Thread -> 0 .. MaxLocks]
    BY DEF Places
  <2> QED BY <2>1, <2>2, <2>3, <2>4 DEF LockTypes
<1>2. Placed
  BY DEF Placed
<1>3. \A t \in Thread : Sections(t) = {}
  BY DEF Sections, Open
<1>4. Guards
  BY <1>3 DEF Guards, Free, Lock
<1>5. OneLock
  BY DEF OneLock, Making
<1> QED BY <1>1, <1>2, <1>4, <1>5 DEF LockInv

(* The steps of getInstance and unload leave every mutex and cLock alone.   *)
LEMMA GetsKeepsInv ==
  ASSUME LockInv, NEW t \in Thread, Gets(t)
  PROVE  LockInv'
<1> USE LocksAssumption DEF LockInv
<1>1. m_isLock' = m_isLock /\ m_mutex' = m_mutex /\ m_isLock[t] = <<>> /\ at[t] # "inside"
  BY DEF Gets, Test, Create, Store, Return, Placed, LockTypes
<1>2. \A u \in Thread : Sections(u)' = Sections(u)
  BY <1>1 DEF Sections
<1>3. Sections(t) = {}
  BY <1>1 DEF Sections, Open
<1>4. \A u \in Thread \ {t} : using'[u] = using[u] /\ at'[u] = at[u]
  BY DEF Gets, Test, Create, Store, Return, Goes, LockTypes
<1>5. LockTypes'
  <2>1. at' \in [Thread -> Places]
    BY DEF LockTypes, Gets, Test, Create, Store, Return, Goes, Places
  <2>2. made' \in 0 .. MaxLocks /\ using' \in [Thread -> 0 .. MaxLocks]
    BY DEF LockTypes, Gets, Test, Create, Store, Return
  <2>3. m_singleton' \in 0 .. MaxLocks
    BY DEF LockTypes, Gets, Test, Create, Store, Return
  <2> QED BY <1>1, <2>1, <2>2, <2>3 DEF LockTypes
<1>6. Placed'
  BY DEF Placed, LockTypes, Gets, Test, Create, Store, Return, Goes, Places
<1>7. Guards'
  <2>1. \A u \in Thread : Sections(u)' # {} => u # t /\ using'[u] = using[u]
    BY <1>2, <1>3, <1>4
  <2>2. \A l \in Lock, u \in Thread : m_mutex[l].owner = u => u # t
    BY <1>3 DEF Guards
  <2> QED BY <1>1, <1>2, <1>4, <2>1, <2>2 DEF Guards
<1>8. OneLock'
  <2>1. CASE Test(t)
    BY <2>1 DEF OneLock, Making, Test, Goes, LockTypes, Placed
  <2>2. CASE Create(t)
    BY <2>2 DEF OneLock, Making, Create, Goes, LockTypes, Placed
  <2>3. CASE Store(t)
    BY <2>3 DEF OneLock, Making, Store, Goes, LockTypes, Placed
  <2>4. CASE Return(t)
    BY <2>4 DEF OneLock, Making, Return, Goes, LockTypes, Placed
  <2> QED BY <2>1, <2>2, <2>3, <2>4 DEF Gets
<1> QED BY <1>5, <1>6, <1>7, <1>8

(* So does unload(), which finds every thread outside.                      *)
LEMMA UnloadKeepsInv ==
  ASSUME LockInv, Unload
  PROVE  LockInv'
<1> USE LocksAssumption DEF LockInv, Unload
<1>1. LockTypes'
  BY DEF LockTypes
<1>2. Placed'
  BY DEF Placed
<1>3. \A u \in Thread : Sections(u)' = Sections(u)
  BY DEF Sections
<1>4. Guards'
  BY <1>3 DEF Guards
<1>5. OneLock'
  BY DEF OneLock, Making
<1> QED BY <1>1, <1>2, <1>4, <1>5
-----------------------------------------------------------------------------
(* The state of the mutex that a thread uses, seen from that thread.        *)
LEMMA MayLockMeans ==
  ASSUME LockInv, NEW t \in Thread, using[t] \in Lock, MayLock(t, using[t])
  PROVE  /\ m_mutex[using[t]].depth = Cardinality(Sections(t))
         /\ m_mutex[using[t]].depth \in Nat
         /\ \A u \in Thread \ {t} : m_mutex[using[t]].owner # u
<1> USE LocksAssumption DEF LockInv
<1>1. m_mutex[using[t]].depth \in Nat
  BY DEF LockTypes
<1>2. CASE m_mutex[using[t]].owner = t
  BY <1>1, <1>2 DEF Guards
<1>3. CASE m_mutex[using[t]].owner = NoThread
  <2>1. Sections(t) = {}
    BY <1>3 DEF Guards
  <2>2. Cardinality(Sections(t)) = 0
    BY <2>1, FS_EmptySet
  <2> QED BY <1>1, <1>3, <2>2 DEF Guards
<1> QED BY <1>2, <1>3 DEF MayLock

(* A new cLock takes the mutex once more.                                   *)
LEMMA ConstructKeepsInv ==
  ASSUME LockInv, NEW t \in Thread, Construct(t)
  PROVE  LockInv'
<1> USE LocksAssumption DEF LockInv
<1> DEFINE l == using[t]
           s == m_isLock[t]
<1>1. /\ at[t] = "inside" /\ l \in Lock /\ s \in Seq(BOOLEAN) /\ MayLock(t, l)
      /\ m_mutex' = [m_mutex EXCEPT ![l] = [owner |-> t, depth |-> @.depth + 1]]
      /\ m_isLock' = [m_isLock EXCEPT ![t] = Append(s, TRUE)]
      /\ UNCHANGED <<m_singleton, made, at, using, raced>>
  BY DEF Construct, lock, Others, LockTypes, Placed, Lock
<1>2. /\ Sections(t)' = Sections(t) \cup {Len(s) + 1}
      /\ Len(s) + 1 \notin Sections(t) /\ IsFiniteSet(Sections(t))
  BY <1>1, OpenAppended DEF Sections, LockTypes
<1>3. Cardinality(Sections(t))' = Cardinality(Sections(t)) + 1
  BY <1>2, FS_AddElement
<1>4. \A u \in Thread \ {t} : Sections(u)' = Sections(u)
  BY <1>1 DEF Sections, LockTypes
<1>5. /\ m_mutex[l].depth = Cardinality(Sections(t)) /\ m_mutex[l].depth \in Nat
      /\ \A u \in Thread \ {t} : m_mutex[l].owner # u
  BY <1>1, MayLockMeans
<1>6. m_mutex'[l].owner = t /\ m_mutex'[l].depth = Cardinality(Sections(t)')
  BY <1>1, <1>3, <1>5 DEF LockTypes
<1>7. \A k \in Lock \ {l} : m_mutex'[k] = m_mutex[k]
  BY <1>1 DEF LockTypes
<1>8. LockTypes'
  <2>1. m_isLock' \in [Thread -> Seq(BOOLEAN)]
    BY <1>1 DEF LockTypes
  <2>2. m_mutex' \in [Lock -> [owner : Thread \cup {NoThread}, depth : Nat]]
    BY <1>1, <1>5 DEF LockTypes
  <2> QED BY <1>1, <2>1, <2>2 DEF LockTypes
<1>9. Placed'
  BY <1>1 DEF Placed, LockTypes
<1>10. Guards'
  <2>1. \A u \in Thread \ {t} : Sections(u) # {} => using[u] # l
    BY <1>5 DEF Guards
  <2>2. \A u \in Thread : Sections(u) # {} => using[u] \in Lock
    BY DEF LockTypes, Placed, Sections, Open, Lock
  <2>3. \A u \in Thread : (Sections(u) # {})' =>
           m_mutex'[using'[u]].owner = u /\ m_mutex'[using'[u]].depth = Cardinality(Sections(u)')
    BY <1>1, <1>4, <1>6, <1>7, <2>1, <2>2 DEF Guards
  <2>4. \A k \in Lock, u \in Thread : m_mutex'[k].owner = u => Sections(u)' # {} /\ using'[u] = k
    BY <1>1, <1>2, <1>4, <1>6, <1>7 DEF Guards
  <2>5. \A k \in Lock : m_mutex'[k].owner = NoThread => m_mutex'[k].depth = 0
    BY <1>1, <1>6, <1>7 DEF Guards
  <2> QED BY <2>3, <2>4, <2>5 DEF Guards
<1>11. OneLock'
  BY <1>1 DEF OneLock, Making
<1> QED BY <1>8, <1>9, <1>10, <1>11
-----------------------------------------------------------------------------
(* A finite set without one of its elements.                                *)
LEMMA OneFewer ==
  ASSUME NEW S, IsFiniteSet(S), NEW x \in S
  PROVE  /\ IsFiniteSet(S \ {x}) /\ Cardinality(S) \in Nat \ {0}
         /\ Cardinality(S \ {x}) = Cardinality(S) - 1
         /\ Cardinality(S) = 1 <=> S \ {x} = {}
<1>1. IsFiniteSet(S \ {x}) /\ Cardinality(S \ {x}) = Cardinality(S) - 1
  BY FS_RemoveElement
<1>2. Cardinality(S) \in Nat /\ Cardinality(S) # 0 /\ Cardinality(S \ {x}) \in Nat
  BY <1>1, FS_EmptySet, FS_CardinalityType
<1>3. Cardinality(S \ {x}) = 0 <=> S \ {x} = {}
  BY <1>1, FS_EmptySet
<1> QED BY <1>1, <1>2, <1>3

(* A thread that gives its innermost section back, early or for good,       *)
(* leaves the mutex as deep as its remaining sections, or free.             *)
LEMMA ClosingKeepsGuards ==
  ASSUME LockTypes, Placed, Guards, NEW t \in Thread, NEW k \in Sections(t),
         IsFiniteSet(Sections(t)), UNCHANGED using, unlock(using[t]),
         Sections(t)' = Sections(t) \ {k},
         \A u \in Thread \ {t} : Sections(u)' = Sections(u)
  PROVE  Guards' /\ m_mutex' \in [Lock -> [owner : Thread \cup {NoThread}, depth : Nat]]
<1> DEFINE l == using[t]
           n == Cardinality(Sections(t))
<1>1. \A u \in Thread : Sections(u) # {} => using[u] \in Lock
  BY DEF LockTypes, Placed, Sections, Open, Lock
<1>2. /\ l \in Lock /\ m_mutex[l].owner = t /\ m_mutex[l].depth = n
      /\ m_mutex[l] \in [owner : Thread \cup {NoThread}, depth : Nat]
  BY <1>1 DEF Guards, LockTypes
<1>3. /\ n \in Nat \ {0} /\ Cardinality(Sections(t)') = n - 1
      /\ Sections(t)' = {} <=> n = 1
  BY OneFewer
<1>4. /\ m_mutex' = [m_mutex EXCEPT ![l] =
             IF n = 1 THEN Free ELSE [owner |-> t, depth |-> n - 1]]
      /\ m_mutex'[l] = IF n = 1 THEN Free ELSE [owner |-> t, depth |-> n - 1]
      /\ \A j \in Lock \ {l} : m_mutex'[j] = m_mutex[j]
  BY <1>2 DEF unlock, LockTypes
<1>5. /\ m_mutex'[l] \in [owner : Thread \cup {NoThread}, depth : Nat]
      /\ m_mutex'[l].owner = (IF n = 1 THEN NoThread ELSE t)
      /\ m_mutex'[l].depth = n - 1
  <2>1. CASE n = 1
    BY <1>4, <2>1 DEF Free
  <2>2. CASE n # 1
    <3>1. m_mutex'[l] = [owner |-> t, depth |-> n - 1]
      BY <1>4, <2>2
    <3> QED BY <1>2, <1>3, <2>2, <3>1
  <2> QED BY <2>1, <2>2
<1>6. m_mutex' \in [Lock -> [owner : Thread \cup {NoThread}, depth : Nat]]
  <2>1. \A j \in Lock : m_mutex'[j] \in [owner : Thread \cup {NoThread}, depth : Nat]
    BY <1>4, <1>5 DEF LockTypes
  <2>2. DOMAIN m_mutex' = Lock /\ m_mutex' = [j \in DOMAIN m_mutex' |-> m_mutex'[j]]
    BY <1>4 DEF LockTypes
  <2> QED BY <2>1, <2>2
<1>7. \A u \in Thread \ {t} : Sections(u) # {} => using[u] # l
  BY <1>2 DEF Guards
<1>8. \A u \in Thread : (Sections(u) # {})' =>
         m_mutex'[using'[u]].owner = u /\ m_mutex'[using'[u]].depth = Cardinality(Sections(u)')
  <2>1. ASSUME NEW u \in Thread \ {t}, (Sections(u) # {})'
        PROVE  /\ m_mutex'[using'[u]].owner = u
               /\ m_mutex'[using'[u]].depth = Cardinality(Sections(u)')
    <3>1. Sections(u) # {} /\ Sections(u)' = Sections(u) /\ using[u] \in Lock \ {l}
      BY <2>1, <1>1, <1>7
    <3>2. m_mutex'[using'[u]] = m_mutex[using[u]]
      BY <3>1, <1>4
    <3> QED BY <3>1, <3>2 DEF Guards
  <2>2. (Sections(t) # {})' => m_mutex'[l].owner = t /\ m_mutex'[l].depth = Cardinality(Sections(t)')
    BY <1>3, <1>5
  <2> QED BY <2>1, <2>2
<1>9. \A j \in Lock, u \in Thread : m_mutex'[j].owner = u => Sections(u)' # {} /\ using'[u] = j
  <2> SUFFICES ASSUME NEW j \in Lock, NEW u \in Thread, m_mutex'[j].owner = u
               PROVE  Sections(u)' # {} /\ using[u] = j
    OBVIOUS
  <2>1. CASE j = l
    BY <2>1, <1>3, <1>5, LocksAssumption
  <2>2. CASE j # l
    <3>1. Sections(u) # {} /\ using[u] = j
      BY <2>2, <1>4 DEF Guards
    <3> QED BY <3>1, <2>2
  <2> QED BY <2>1, <2>2
<1>10. \A j \in Lock : m_mutex'[j].owner = NoThread => m_mutex'[j].depth = 0
  BY <1>3, <1>4, <1>5, LocksAssumption DEF Guards
<1> QED BY <1>6, <1>8, <1>9, <1>10 DEF Guards

LEMMA LeavesKeepsInv ==
  ASSUME LockInv, NEW t \in Thread, Leaves(t)
  PROVE  LockInv'
<1> USE LocksAssumption DEF LockInv
<1> DEFINE s == m_isLock[t]
<1>1. /\ s \in Seq(BOOLEAN) /\ s # <<>> /\ at[t] = "inside"
      /\ UNCHANGED <<m_singleton, made, using, raced>>
      /\ \A u \in Thread \ {t} : m_isLock'[u] = m_isLock[u] /\ at'[u] = at[u]
      /\ IF Innermost(t) THEN unlock(using[t]) ELSE UNCHANGED m_mutex
  BY DEF Leaves, UnlockEarly, Destruct, Others, LockTypes, Placed, Goes
<1>2. /\ m_isLock' \in [Thread -> Seq(BOOLEAN)]
      /\ Sections(t)' = Sections(t) \ {Len(s)}
      /\ at' \in [Thread -> Places] /\ at'[t] \in {"inside", "outside"}
      /\ at'[t] # "inside" => m_isLock'[t] = <<>>
  <2>1. CASE UnlockEarly(t)
    <3>1. m_isLock' = [m_isLock EXCEPT ![t] = [s EXCEPT ![Len(s)] = FALSE]] /\ at' = at
      BY <2>1 DEF UnlockEarly, LockTypes
    <3> QED BY <1>1, <3>1, OpenClosed DEF Sections, LockTypes, Places
  <2>2. CASE Destruct(t)
    <3>1. /\ m_isLock' = [m_isLock EXCEPT ![t] = SubSeq(s, 1, Len(s) - 1)]
          /\ at' = [at EXCEPT ![t] = IF Len(s) = 1 THEN "outside" ELSE "inside"]
      BY <2>2 DEF Destruct, Goes
    <3> QED BY <1>1, <3>1, OpenClosed DEF Sections, LockTypes, Places
  <2> QED BY <2>1, <2>2 DEF Leaves
<1>3. Guards' /\ m_mutex' \in [Lock -> [owner : Thread \cup {NoThread}, depth : Nat]]
  <2>1. \A u \in Thread \ {t} : Sections(u)' = Sections(u)
    BY <1>1 DEF Sections
  <2>2. (Len(s) \in Sections(t) <=> Innermost(t)) /\ IsFiniteSet(Sections(t))
    BY <1>1, OpenClosed, OpenAppended DEF Sections, Innermost
  <2>3. CASE Innermost(t)
    BY <1>1, <1>2, <2>1, <2>2, <2>3, ClosingKeepsGuards
  <2>4. CASE ~Innermost(t)
    <3>1. m_mutex' = m_mutex /\ \A u \in Thread : Sections(u)' = Sections(u)
      BY <1>1, <1>2, <2>1, <2>2, <2>4
    <3> QED BY <1>1, <3>1 DEF Guards, LockTypes
  <2> QED BY <2>3, <2>4
<1>4. LockTypes'
  BY <1>1, <1>2, <1>3 DEF LockTypes
<1>5. Placed'
  BY <1>1, <1>2 DEF Placed
<1>6. OneLock'
  BY <1>1, <1>2 DEF OneLock, Making
<1> QED BY <1>3, <1>4, <1>5, <1>6
-----------------------------------------------------------------------------
(* The strengthening says what the property says: open sections put their   *)
(* thread in the only lock there is, and that lock has one owner.           *)
LEMMA LocksMeanOneInside == LockInv => OneInside
<1> SUFFICES ASSUME LockInv PROVE OneInside
  OBVIOUS
<1> USE LocksAssumption DEF LockInv
<1>1. \A t \in Thread : Sections(t) # {} => at[t] = "inside" /\ using[t] \in Lock
  BY DEF Placed, LockTypes, Sections, Open, Lock
<1>2. ~raced => \A t, u \in Thread : Sections(t) # {} /\ Sections(u) # {} => t = u
  BY <1>1 DEF OneLock, Guards
<1>3. \A t \in Thread : m_isLock[t] # <<>> => using[t] \in Lock
  BY DEF Placed, LockTypes, Lock
<1>4. DepthIsSections
  BY <1>3 DEF DepthIsSections, Guards
<1> QED BY <1>2, <1>4 DEF OneInside

LEMMA LocksStep ==
  ASSUME LockInv, LocksNext
  PROVE  LockInv'
<1>1. CASE Unload
  BY <1>1, UnloadKeepsInv
<1>2. ASSUME NEW t \in Thread, ThreadMoves(t) PROVE LockInv'
  BY <1>2, GetsKeepsInv, ConstructKeepsInv, LeavesKeepsInv DEF ThreadMoves
<1> QED BY <1>1, <1>2 DEF LocksNext

LEMMA LocksRest ==
  ASSUME LockInv, UNCHANGED lockVars
  PROVE  LockInv'
BY DEF lockVars, LockInv, LockTypes, Placed, Guards, OneLock, Sections, Making

(* The bound on nested sections, which bounds the depth of every mutex too. *)
Nested == raced \in BOOLEAN /\ \A t \in Thread : Len(m_isLock[t]) <= MaxNested

LEMMA NestedStep ==
  ASSUME LockInv, Nested, LocksNext
  PROVE  Nested'
<1> USE LocksAssumption DEF LockInv, LockTypes, Nested
<1>1. CASE Unload
  BY <1>1 DEF Unload
<1>2. ASSUME NEW t \in Thread, Gets(t) PROVE Nested'
  <2>1. m_isLock' = m_isLock
    BY <1>2 DEF Gets, Test, Create, Store, Return
  <2>2. raced' \in BOOLEAN
    BY <1>2 DEF Gets, Test, Create, Store, Return
  <2> QED BY <2>1, <2>2
<1>3. ASSUME NEW t \in Thread, Construct(t) PROVE Nested'
  <2>1. m_isLock' = [m_isLock EXCEPT ![t] = Append(m_isLock[t], TRUE)] /\ raced' = raced
    BY <1>3 DEF Construct, Others
  <2>2. m_isLock[t] \in Seq(BOOLEAN) /\ Len(m_isLock[t]) < MaxNested
    BY <1>3 DEF Construct
  <2>3. Len(Append(m_isLock[t], TRUE)) = Len(m_isLock[t]) + 1 /\ Len(m_isLock[t]) \in Nat
    BY <2>2, AppendProperties, LenProperties
  <2> QED BY <2>1, <2>2, <2>3
<1>4. ASSUME NEW t \in Thread, Leaves(t) PROVE Nested'
  <2>1. /\ m_isLock[t] \in Seq(BOOLEAN) /\ m_isLock[t] # <<>> /\ raced' = raced
        /\ \A u \in Thread \ {t} : m_isLock'[u] = m_isLock[u]
    BY <1>4 DEF Leaves, UnlockEarly, Destruct, Others
  <2>2. Len(m_isLock[t]) \in Nat \ {0}
    BY <2>1
  <2>3. CASE UnlockEarly(t)
    <3>1. m_isLock'[t] = [m_isLock[t] EXCEPT ![Len(m_isLock[t])] = FALSE]
      BY <2>3 DEF UnlockEarly
    <3>2. Len(m_isLock'[t]) = Len(m_isLock[t])
      BY <2>1, <2>2, <3>1
    <3> QED BY <2>1, <3>2
  <2>4. CASE Destruct(t)
    <3>1. m_isLock'[t] = SubSeq(m_isLock[t], 1, Len(m_isLock[t]) - 1)
      BY <2>4 DEF Destruct
    <3>2. \A s \in Seq(BOOLEAN) : Len(s) \in Nat \ {0} => Len(SubSeq(s, 1, Len(s) - 1)) = Len(s) - 1
      <4> TAKE s \in Seq(BOOLEAN)
      <4> HAVE Len(s) \in Nat \ {0}
      <4>1. \A i \in 1 .. Len(s) - 1 : s[i] \in BOOLEAN
        OBVIOUS
      <4>2. Len(SubSeq(s, 1, Len(s) - 1)) = IF 1 <= Len(s) - 1 THEN (Len(s) - 1) - 1 + 1 ELSE 0
        BY <4>1, SubSeqProperties
      <4>3. \A n \in Nat \ {0} : n - 1 = IF 1 <= n - 1 THEN (n - 1) - 1 + 1 ELSE 0
        OBVIOUS
      <4> QED BY <4>2, <4>3
    <3>3. Len(m_isLock'[t]) = Len(m_isLock[t]) - 1
      BY <2>1, <2>2, <3>1, <3>2
    <3> QED BY <2>1, <2>2, <3>3
  <2> QED BY <1>4, <2>3, <2>4 DEF Leaves
<1> QED BY <1>1, <1>2, <1>3, <1>4 DEF LocksNext, ThreadMoves

LEMMA LocksInRange ==
  ASSUME LockInv, Nested
  PROVE  LocksTypeOK
<1> USE LocksAssumption DEF LockInv, LockTypes, Nested
<1>1. ASSUME NEW l \in Lock PROVE m_mutex[l].depth \in 0 .. MaxNested
  <2>1. m_mutex[l].owner \in Thread \cup {NoThread} /\ m_mutex[l].depth \in Nat
    OBVIOUS
  <2>2. CASE m_mutex[l].owner = NoThread
    BY <2>2 DEF Guards
  <2>3. CASE m_mutex[l].owner \in Thread
    <3>1. PICK t \in Thread : m_mutex[l].owner = t
      BY <2>3
    <3>2. m_mutex[l].depth = Cardinality(Sections(t))
      <4>1. Sections(t) # {} /\ using[t] = l
        BY <3>1 DEF Guards
      <4> QED BY <4>1 DEF Guards
    <3>3. m_isLock[t] \in Seq(BOOLEAN) /\ Len(m_isLock[t]) \in Nat /\ Len(m_isLock[t]) <= MaxNested
      OBVIOUS
    <3>4. Sections(t) \subseteq 1 .. Len(m_isLock[t])
      BY <3>3 DEF Sections, Open
    <3>5. IsFiniteSet(1 .. Len(m_isLock[t])) /\ Cardinality(1 .. Len(m_isLock[t])) = Len(m_isLock[t])
      <4> PICK n \in Nat : n = Len(m_isLock[t])
        BY <3>3
      <4>1. IsFiniteSet(1 .. n) /\ Cardinality(1 .. n) = n
        <5>1. 1 \in Int /\ n \in Int
          OBVIOUS
        <5>2. IsFiniteSet(1 .. n) /\ Cardinality(1 .. n) = IF 1 > n THEN 0 ELSE n - 1 + 1
          BY ONLY <5>1, FS_Interval
        <5> QED BY <5>2
      <4> QED BY <4>1
    <3>6. Cardinality(Sections(t)) <= Len(m_isLock[t])
      BY <3>4, <3>5, FS_Subset
    <3> QED BY <2>1, <3>2, <3>3, <3>6
  <2> QED BY <2>1, <2>2, <2>3
<1>2. m_mutex \in [Lock -> [owner : Thread \cup {NoThread}, depth : 0 .. MaxNested]]
  <2>1. \A l \in Lock : m_mutex[l] \in [owner : Thread \cup {NoThread}, depth : 0 .. MaxNested]
    BY <1>1
  <2> QED BY <2>1
<1> QED BY <1>2 DEF LocksTypeOK

-----------------------------------------------------------------------------
(* Reference counted objects, any number.  The counter of every             *)
(* object, made or not, is the number of its holders (Counts); an object    *)
(* that has a holder, or was dropped, is alive, and no other (Alive); and   *)
(* the source of an assignment keeps its object until it was read (Sourced).*)
Holders(o) == {v \in Variable : m_object[v] = o /\ Rests(v)}

Counts == \A o \in Counted : IsFiniteSet(Holders(o)) /\ counter[o] = Cardinality(Holders(o))
Alive ==
  \A o \in Counted :
    /\ object[o] = "alive" <=> Holders(o) # {} \/ o \in dropped
    /\ o \in dropped => Holders(o) = {}
Sourced ==
  \A v \in Variable : ~Rests(v) => m_object[v] # Gone /\ Holds(assigning[v]) /\ Rests(assigning[v])

RefInv == RefTypeOK /\ Counts /\ Alive /\ Sourced

(* One more holder in an object's count.                                    *)
LEMMA HolderAdded ==
  ASSUME NEW S, IsFiniteSet(S), NEW x, x \notin S
  PROVE  IsFiniteSet(S \cup {x}) /\ Cardinality(S \cup {x}) = Cardinality(S) + 1
BY FS_AddElement

(* A variable that holds nothing and takes what another holds is one more   *)
(* holder of that, and nobody else's holders change.                        *)
LEMMA TakenOnce ==
  ASSUME RefInv, NEW v \in Variable, NEW other \in Variable,
         MaxObjects \in Nat, m_object[v] = Gone \/ ~Rests(v), Holds(other), Rests(other),
         Takes(v, other), assigning' = [assigning EXCEPT ![v] = v], UNCHANGED <<object, dropped>>
  PROVE  RefInv'
<1>0. PICK m \in Counted : m = m_object[other]
  BY DEF Holds
<1>1. m \in Counted /\ other \in Holders(m) /\ other # v /\ v \notin Holders(m)
  BY <1>0 DEF Holds, Holders, Gone, Counted, Rests
<1>2. Holders(m)' = Holders(m) \cup {v}
  BY <1>0, <1>1 DEF Holders, Rests, Takes, RefInv, RefTypeOK
<1>3. \A o \in Counted : o # m => Holders(o)' = Holders(o)
  BY <1>0, <1>1 DEF Holders, Rests, Takes, RefInv, RefTypeOK, Counted, Gone
<1>4. RefTypeOK'
  BY <1>0, <1>1 DEF RefInv, RefTypeOK, Takes, Counted
<1>5. Counts'
  <2>1. IsFiniteSet(Holders(m)') /\ Cardinality(Holders(m)') = Cardinality(Holders(m)) + 1
    BY <1>1, <1>2, HolderAdded DEF RefInv, Counts
  <2>2. counter' = [counter EXCEPT ![m] = counter[m] + 1] /\ counter \in [Counted -> Nat]
    BY <1>0 DEF Takes, RefInv, RefTypeOK
  <2>3. counter'[m] = counter[m] + 1 /\ \A o \in Counted : o # m => counter'[o] = counter[o]
    BY <1>1, <2>2
  <2>4. \A o \in Counted : IsFiniteSet(Holders(o)) /\ counter[o] = Cardinality(Holders(o))
    BY DEF RefInv, Counts
  <2> QED BY <1>1, <1>3, <2>1, <2>3, <2>4 DEF Counts
<1>6. Alive'
  <2>1. \A o \in Counted : Holders(o)' # {} <=> Holders(o) # {}
    BY <1>1, <1>2, <1>3
  <2> QED BY <2>1 DEF RefInv, Alive
<1>7. Sourced'
  BY <1>0, <1>1 DEF RefInv, Sourced, RefTypeOK, Rests, Holds, Takes, Counted, Gone
<1> QED BY <1>4, <1>5, <1>6, <1>7 DEF RefInv

(* After free() of a variable that is left, what it held has a holder less. *)
LEMMA FreedOnce ==
  ASSUME RefInv, NEW v \in Variable, MaxObjects \in Nat, Rests(v), free(v),
         \A o \in Counted : Holders(o)' = Holders(o) \ {v}
  PROVE  /\ Counts' /\ counter' \in [Counted -> Nat]
         /\ \A m \in Counted : m = m_object[v] => (LastOne(v) <=> Holders(m)' = {})
<1>1. CASE ~Holds(v)
  <2>1. \A o \in Counted : v \notin Holders(o)
    BY <1>1 DEF Holds, Holders
  <2>2. \A o \in Counted : Holders(o)' = Holders(o)
    BY <2>1
  <2> QED BY <1>1, <2>2 DEF free, RefInv, RefTypeOK, Counts, Holds
<1>2. CASE Holds(v)
  <2>0. PICK m \in Counted : m = m_object[v]
    BY <1>2 DEF Holds
  <2>1. m \in Counted /\ v \in Holders(m)
    BY <2>0 DEF Holders
  <2>2. \A o \in Counted : o # m => Holders(o)' = Holders(o)
    BY <2>0 DEF Holders
  <2>3. /\ IsFiniteSet(Holders(m)') /\ Cardinality(Holders(m)') = Cardinality(Holders(m)) - 1
        /\ Cardinality(Holders(m)) \in Nat \ {0}
        /\ Cardinality(Holders(m)) = 1 <=> Holders(m)' = {}
    <3>1. IsFiniteSet(Holders(m)) /\ Holders(m)' = Holders(m) \ {v}
      BY <2>1 DEF RefInv, Counts
    <3> QED BY <2>1, <3>1, OneFewer
  <2>4. counter[m] = Cardinality(Holders(m)) /\ counter \in [Counted -> Nat]
    BY <2>1 DEF RefInv, Counts, RefTypeOK
  <2>5. counter' = [counter EXCEPT ![m] = IF counter[m] = 1 THEN 0 ELSE counter[m] - 1]
    BY <1>2, <2>0 DEF free, Idle
  <2>6. counter'[m] = Cardinality(Holders(m)') /\ counter' \in [Counted -> Nat]
    BY <2>1, <2>3, <2>4, <2>5
  <2>7. \A o \in Counted : o # m => counter'[o] = counter[o]
    BY <2>4, <2>5
  <2>8. \A o \in Counted : IsFiniteSet(Holders(o)) /\ counter[o] = Cardinality(Holders(o))
    BY DEF RefInv, Counts
  <2>9. Counts'
    BY <2>1, <2>2, <2>3, <2>6, <2>7, <2>8 DEF Counts
  <2> QED BY <1>2, <2>0, <2>3, <2>4, <2>6, <2>9 DEF LastOne
<1> QED BY <1>1, <1>2

LEMMA ConstructKeeps ==
  ASSUME RefInv, NEW v \in Variable, MaxObjects \in Nat, construct(v)
  PROVE  RefInv'
<1>0. m_object[v] = Gone /\ Rests(v) /\ \A o \in Counted : v \notin Holders(o)
  BY DEF construct, RefInv, Sourced, Holders, Counted, Gone
<1>1. CASE m_object' = [m_object EXCEPT ![v] = Null] /\ UNCHANGED <<counter, object>>
  <2>1. \A o \in Counted : Holders(o)' = Holders(o)
    BY <1>0, <1>1 DEF construct, Holders, Rests, RefInv, RefTypeOK, Counted, Null
  <2>2. RefTypeOK'
    BY <1>1 DEF construct, RefInv, RefTypeOK, Null, Gone
  <2>3. Sourced'
    BY <1>0, <1>1 DEF construct, RefInv, Sourced, RefTypeOK, Rests, Holds, Null, Gone, Counted
  <2>4. Counts' /\ Alive'
    BY <1>1, <2>1 DEF construct, RefInv, Counts, Alive
  <2> QED BY <2>2, <2>3, <2>4 DEF RefInv
<1>2. ASSUME NEW o \in Counted, object[o] = "none",
             m_object' = [m_object EXCEPT ![v] = o], counter' = [counter EXCEPT ![o] = 1],
             object' = [object EXCEPT ![o] = "alive"]
      PROVE  RefInv'
  <2>1. Holders(o) = {} /\ o \notin dropped
    BY <1>2 DEF RefInv, Alive
  <2>2. Holders(o)' = {v}
    BY <1>0, <1>2, <2>1 DEF construct, Holders, Rests, RefInv, RefTypeOK
  <2>3. \A p \in Counted : p # o => Holders(p)' = Holders(p)
    BY <1>0, <1>2 DEF construct, Holders, Rests, RefInv, RefTypeOK, Counted, Gone
  <2>4. RefTypeOK'
    BY <1>2 DEF construct, RefInv, RefTypeOK, Counted, Gone
  <2>5. Counts'
    <3>1. IsFiniteSet(Holders(o)') /\ Cardinality(Holders(o)') = 1
      BY <2>2, FS_Singleton
    <3>2. counter'[o] = 1 /\ \A p \in Counted : p # o => counter'[p] = counter[p]
      BY <1>2 DEF RefInv, RefTypeOK
    <3> QED BY <2>3, <3>1, <3>2 DEF RefInv, Counts
  <2>6. Alive'
    BY <1>2, <2>1, <2>2, <2>3 DEF construct, RefInv, RefTypeOK, Alive
  <2>7. Sourced'
    BY <1>0, <1>2 DEF construct, RefInv, Sourced, RefTypeOK, Rests, Holds, Gone, Counted
  <2> QED BY <2>4, <2>5, <2>6, <2>7 DEF RefInv
<1> QED BY <1>1, <1>2 DEF construct

LEMMA AssignFreeKeeps ==
  ASSUME RefInv, NEW v \in Variable, NEW other \in Variable, MaxObjects \in Nat, assignFree(v, other)
  PROVE  RefInv'
<1>1. v # other /\ m_object[v] # Gone /\ Rests(v) /\ v \notin Source /\ Holds(other) /\ Rests(other)
  BY DEF assignFree, Still
<1>2. ~Rests(v)' /\ \A w \in Variable : w # v => assigning'[w] = assigning[w]
  BY <1>1 DEF assignFree, Rests, RefInv, RefTypeOK
<1>3. \A o \in Counted : Holders(o)' = Holders(o) \ {v}
  BY <1>2 DEF assignFree, Holders, Rests, RefInv, RefTypeOK
<1>4. /\ Counts' /\ counter' \in [Counted -> Nat]
      /\ \A m \in Counted : m = m_object[v] => (LastOne(v) <=> Holders(m)' = {})
  BY <1>1, <1>3, FreedOnce DEF assignFree
<1>5. RefTypeOK'
  BY <1>4 DEF assignFree, RefInv, RefTypeOK, LastOne, Holds
<1>6. Alive'
  <2> SUFFICES ASSUME NEW o \in Counted
               PROVE  (/\ object[o] = "alive" <=> Holders(o) # {} \/ o \in dropped
                       /\ o \in dropped => Holders(o) = {})'
    BY DEF Alive
  <2>0. object' = object /\ (object[o] = "alive" <=> Holders(o) # {} \/ o \in dropped)
        /\ (o \in dropped => Holders(o) = {})
    BY DEF assignFree, RefInv, Alive
  <2>1. CASE o # m_object[v]
    <3>1. Holders(o)' = Holders(o) /\ (o \in dropped' <=> o \in dropped)
      BY <1>3, <2>1 DEF Holders, assignFree
    <3> QED BY <2>0, <3>1
  <2>2. CASE o = m_object[v]
    <3>1. v \in Holders(o) /\ (LastOne(v) <=> Holders(o)' = {})
      BY <1>1, <1>4, <2>2 DEF Holders
    <3>2. o \in dropped' <=> LastOne(v)
      BY <2>0, <2>2, <3>1 DEF assignFree
    <3> QED BY <2>0, <3>1, <3>2
  <2> QED BY <2>1, <2>2
<1>7. Sourced'
  BY <1>1, <1>2 DEF assignFree, RefInv, Sourced, RefTypeOK, Rests, Holds, Source
<1> QED BY <1>4, <1>5, <1>6, <1>7 DEF RefInv

LEMMA DestructKeeps ==
  ASSUME RefInv, NEW v \in Variable, MaxObjects \in Nat, destruct(v)
  PROVE  RefInv'
<1>1. m_object[v] # Gone /\ Rests(v) /\ v \notin Source
  BY DEF destruct, Still
<1>3. \A o \in Counted : Holders(o)' = Holders(o) \ {v}
  BY DEF destruct, Holders, Rests, RefInv, RefTypeOK, Counted, Gone
<1>4. /\ Counts' /\ counter' \in [Counted -> Nat]
      /\ \A m \in Counted : m = m_object[v] => (LastOne(v) <=> Holders(m)' = {})
  BY <1>1, <1>3, FreedOnce DEF destruct
<1>5. RefTypeOK'
  <2>1. object' \in [Counted -> {"none", "alive", "deleted"}]
    BY DEF destruct, RefInv, RefTypeOK, LastOne, Holds
  <2>2. m_object' \in [Variable -> 0 .. Gone]
    BY DEF destruct, RefInv, RefTypeOK, Gone
  <2> QED BY <1>4, <2>1, <2>2 DEF destruct, RefInv, RefTypeOK
<1>6. Alive'
  <2> SUFFICES ASSUME NEW o \in Counted
               PROVE  (/\ object[o] = "alive" <=> Holders(o) # {} \/ o \in dropped
                       /\ o \in dropped => Holders(o) = {})'
    BY DEF Alive
  <2>0. dropped' = dropped /\ (object[o] = "alive" <=> Holders(o) # {} \/ o \in dropped)
        /\ (o \in dropped => Holders(o) = {})
    BY DEF destruct, RefInv, Alive
  <2>1. CASE o # m_object[v]
    <3>1. Holders(o)' = Holders(o) /\ object'[o] = object[o]
      BY <1>3, <2>1 DEF Holders, destruct, RefInv, RefTypeOK
    <3> QED BY <2>0, <3>1
  <2>2. CASE o = m_object[v]
    <3>1. v \in Holders(o) /\ (LastOne(v) <=> Holders(o)' = {})
      BY <1>1, <1>4, <2>2 DEF Holders
    <3>2. object'[o] = IF LastOne(v) THEN "deleted" ELSE object[o]
      BY <2>2 DEF destruct, RefInv, RefTypeOK
    <3> QED BY <2>0, <3>1, <3>2
  <2> QED BY <2>1, <2>2
<1>7. Sourced'
  <2> SUFFICES ASSUME NEW w \in Variable, ~Rests(w)'
               PROVE  (m_object[w] # Gone /\ Holds(assigning[w]) /\ Rests(assigning[w]))'
    BY DEF Sourced
  <2>1. assigning' = assigning /\ ~Rests(w) /\ w # v /\ assigning[w] # v /\ assigning[w] \in Variable
    BY <1>1 DEF destruct, Rests, Source, RefInv, RefTypeOK
  <2>2. m_object'[w] = m_object[w] /\ m_object'[assigning[w]] = m_object[assigning[w]]
    BY <2>1 DEF destruct, RefInv, RefTypeOK
  <2> QED BY <2>1, <2>2 DEF RefInv, Sourced, Rests, Holds, Gone, Counted
<1> QED BY <1>4, <1>5, <1>6, <1>7 DEF RefInv

LEMMA RefsMeanCounted ==
  ASSUME RefInv PROVE ReferencesCounted
<1> SUFFICES ASSUME NEW o \in Counted
             PROVE  /\ Holders(o) # {} => object[o] = "alive" /\ counter[o] = Cardinality(Holders(o))
                    /\ Holders(o) = {} => counter[o] = Idle
                    /\ object[o] = "alive" => Holders(o) # {} \/ o \in dropped
                    /\ o \in dropped => object[o] = "alive" /\ Holders(o) = {}
  BY DEF ReferencesCounted, Holders
<1>1. Cardinality({}) = 0
  BY FS_EmptySet
<1> QED BY <1>1 DEF RefInv, Counts, Alive, Idle

LEMMA RefsStart == ASSUME MaxObjects \in Nat, RefInit PROVE RefInv
<1>1. \A o \in Counted : Holders(o) = {}
  BY DEF RefInit, Holders, Counted, Gone
<1>2. IsFiniteSet({}) /\ Cardinality({}) = 0
  BY FS_EmptySet
<1>3. RefTypeOK
  BY DEF RefInit, RefTypeOK, Idle, Gone
<1>4. Counts /\ Alive /\ Sourced
  BY <1>1, <1>2 DEF RefInit, Counts, Alive, Sourced, Rests, Idle
<1> QED BY <1>3, <1>4 DEF RefInv

LEMMA RefsStep ==
  ASSUME MaxObjects \in Nat, RefInv, RefNext
  PROVE  RefInv'
<1>1. ASSUME NEW v \in Variable, NEW other \in Variable, copy(v, other) PROVE RefInv'
  <2>1. Rests(v) /\ m_object[v] = Gone
    BY <1>1 DEF copy, RefInv, Sourced
  <2>2. assigning' = [assigning EXCEPT ![v] = v]
    BY <1>1, <2>1 DEF copy, Rests, RefInv, RefTypeOK
  <2> QED BY <1>1, <2>1, <2>2, TakenOnce DEF copy
<1>2. ASSUME NEW v \in Variable, assignTake(v) PROVE RefInv'
  <2>1. assigning[v] \in Variable /\ Holds(assigning[v]) /\ Rests(assigning[v])
    BY <1>2 DEF assignTake, RefInv, RefTypeOK, Sourced
  <2> QED BY <1>2, <2>1, TakenOnce DEF assignTake
<1> QED BY <1>1, <1>2, ConstructKeeps, AssignFreeKeeps, DestructKeeps DEF RefNext

LEMMA RefsRest ==
  ASSUME RefInv, UNCHANGED refVars
  PROVE  RefInv'
BY DEF refVars, RefInv, RefTypeOK, Counts, Alive, Sourced, Holders, Rests, Holds

-----------------------------------------------------------------------------
(* Time, for any length of a second and any timeouts.  The seconds counted  *)
(* and the part of one that has passed come to the time elapsed, and less   *)
(* than a second more; a sleep that the system took is one it may take.     *)
TimeInv ==
  /\ phase \in 0 .. Second - 1 /\ seconds \in Nat /\ elapsed \in 0 .. MaxElapsed
  /\ m_timeoutMilliseconds \in Durations \cup {INFINITE_TIMEOUT}
  /\ seconds * Second + phase \in elapsed .. elapsed + Second - 1

SleepInv ==
  /\ asked \in Durations \cup {0} /\ left \in Nat /\ signals \in Nat
  /\ tv_nsec \in 0 .. UintRange - 1 /\ sleeping \in {"no", "called", "asleep", "returned"}
  /\ sleeping = "asleep" => Time!Accepts
  /\ sleeping \in {"called", "asleep"} =>
       /\ asked < Second \/ signals > 0 => Time!Accepts
       /\ Time!Accepts => asked < Second \/ asked * Scale * Scale >= UintRange

LEMMA TickKeepsTime ==
  ASSUME TimeInv, Time!Tick
  PROVE  TimeInv'
<1> USE TimeAssumption DEF Time!Tick, TimeInv
<1>1. phase' \in 0 .. Second - 1
  OBVIOUS
<1>2. CASE m_timeoutMilliseconds = INFINITE_TIMEOUT \/ elapsed = MaxElapsed
  <2>1. m_timeoutMilliseconds' = INFINITE_TIMEOUT /\ seconds' = 0 /\ elapsed' = 0
    BY <1>2
  <2>2. seconds' * Second + phase' = phase'
    <3>1. 0 * Second = 0
      OBVIOUS
    <3>2. seconds' * Second = 0
      BY <2>1, <3>1
    <3>3. phase' \in Int
      BY <1>1
    <3> QED BY <3>2, <3>3
  <2>3. phase' \in 0 .. 0 + Second - 1
    BY <1>1
  <2> QED BY <1>1, <2>1, <2>2, <2>3
<1>3. CASE ~(m_timeoutMilliseconds = INFINITE_TIMEOUT \/ elapsed = MaxElapsed)
  <2>1. /\ phase' = (phase + 1) % Second /\ elapsed' = elapsed + 1
        /\ seconds' = IF phase' = 0 THEN seconds + 1 ELSE seconds
        /\ m_timeoutMilliseconds' = m_timeoutMilliseconds
        /\ elapsed' \in 0 .. MaxElapsed
    BY <1>3
  <2>2. CASE phase = Second - 1
    <3>1. phase' = 0
      BY <2>1, <2>2
    <3>2. (seconds + 1) * Second = seconds * Second + Second
      OBVIOUS
    <3>3. seconds' * Second + phase' = seconds * Second + phase + 1
      BY <2>1, <2>2, <3>1, <3>2
    <3> QED BY <1>1, <2>1, <3>1, <3>3
  <2>3. CASE phase # Second - 1
    <3>1. phase' = phase + 1 /\ phase' # 0
      BY <2>1, <2>3
    <3>2. seconds' * Second + phase' = seconds * Second + phase + 1
      BY <2>1, <3>1
    <3> QED BY <1>1, <2>1, <3>1, <3>2
  <2> QED BY <2>2, <2>3
<1> QED BY <1>2, <1>3

(* What a sleep of d milliseconds is in nanoseconds, of which a uint may    *)
(* keep a part.                                                             *)
LEMMA NanosecondsFit ==
  ASSUME NEW d \in Nat
  PROVE  /\ Time!Nanoseconds(d) \in 0 .. UintRange - 1
         /\ d < Second => Time!Nanoseconds(d) < Second * Scale * Scale
         /\ Time!Nanoseconds(d) < Second * Scale * Scale
              => d < Second \/ d * Scale * Scale >= UintRange
<1> USE TimeAssumption
<1>1. PICK micro \in Nat : micro = d * Scale
  OBVIOUS
<1>2. PICK nano \in Nat : nano = micro * Scale
  OBVIOUS
<1>3. micro <= nano
  BY <1>2
<1>4. d * Scale * Scale = nano
  BY <1>1, <1>2
<1>5. Time!Nanoseconds(d) = (((micro % UintRange) * Scale) % UintRange)
  BY <1>1 DEF Time!Nanoseconds
<1>6. Time!Nanoseconds(d) \in 0 .. UintRange - 1
  <2>1. micro % UintRange \in Nat
    OBVIOUS
  <2>2. (micro % UintRange) * Scale \in Nat
    BY <2>1
  <2> QED BY <1>5, <2>2
<1>7. CASE nano < UintRange
  <2>1. Time!Nanoseconds(d) = nano
    <3>1. micro % UintRange = micro
      BY <1>3, <1>7
    <3>2. nano % UintRange = nano
      BY <1>7
    <3> QED BY <1>2, <1>5, <3>1, <3>2
  <2>2. PICK s \in Nat : s = Second * Scale
    OBVIOUS
  <2>3. Second * Scale * Scale = s * Scale
    BY <2>2
  <2>4. d < Second => micro < s
    BY <1>1, <2>2
  <2>5. d >= Second => micro >= s
    BY <1>1, <2>2
  <2>6. micro < s => nano < s * Scale
    BY <1>2
  <2>7. micro >= s => nano >= s * Scale
    BY <1>2
  <2> QED BY <1>6, <2>1, <2>3, <2>4, <2>5, <2>6, <2>7
<1>8. CASE nano >= UintRange
  <2>1. ~(d < Second)
    <3> SUFFICES ASSUME d < Second PROVE FALSE
      OBVIOUS
    <3>2. PICK s \in Nat : s = Second * Scale
      OBVIOUS
    <3>3. Second * Scale * Scale = s * Scale
      BY <3>2
    <3>4. micro < s
      BY <1>1, <3>2
    <3>6. nano < s * Scale
      BY <1>2, <3>4
    <3> QED BY <1>8, <3>3, <3>6
  <2> QED BY <1>4, <1>6, <1>8, <2>1
<1> QED BY <1>7, <1>8

LEMMA TimeStart == Time!TimeInit => TimeInv /\ SleepInv
<1>1. 0 * Second = 0 /\ 0 \in 0 .. UintRange - 1
  BY TimeAssumption
<1> QED BY <1>1, TimeAssumption DEF Time!TimeInit, TimeInv, SleepInv

LEMMA TimeStep ==
  ASSUME TimeInv, Time!TimeNext
  PROVE  TimeInv'
<1>1. CASE Time!Tick
  BY <1>1, TickKeepsTime
<1>2. CASE UNCHANGED <<phase, m_timeoutMilliseconds, seconds, elapsed>>
  BY <1>2 DEF TimeInv
<1>3. ASSUME NEW d \in Durations, Time!restart(d) PROVE TimeInv'
  <2>1. 0 * Second = 0
    BY TimeAssumption
  <2> QED BY <1>3, <2>1, TimeAssumption DEF Time!restart, TimeInv
<1> QED BY <1>1, <1>2, <1>3
        DEF Time!TimeNext, Time!SleepMoves, Time!nanosleep, Time!Wake, Time!Interrupted,
            Time!sleepMillisecond, Time!monitorVars

LEMMA SleepStep ==
  ASSUME SleepInv, Time!TimeNext
  PROVE  SleepInv'
<1> USE TimeAssumption DEF SleepInv
<1>1. CASE Time!Tick
  <2>1. UNCHANGED <<asked, tv_nsec, signals, sleeping>>
    BY <1>1 DEF Time!Tick
  <2>2. left' \in Nat
    BY <1>1 DEF Time!Tick
  <2> QED BY <2>1, <2>2 DEF Time!Accepts
<1>2. CASE Time!nanosleep
  <2>1. UNCHANGED <<asked, tv_nsec, signals>>
    BY <1>2 DEF Time!nanosleep
  <2>2. /\ sleeping = "called" /\ sleeping' \in {"called", "asleep"}
        /\ sleeping' = "asleep" => Time!Accepts
    BY <1>2 DEF Time!nanosleep
  <2>3. left' \in Nat
    <3>1. PICK milli \in Nat \ {0} : milli = Scale * Scale
      OBVIOUS
    <3>2. PICK n \in Nat : n = tv_nsec + milli - 1
      BY <3>1
    <3>3. n \div milli \in Nat
      OBVIOUS
    <3>4. left' = left \/ left' = n \div milli
      BY <1>2, <3>1, <3>2 DEF Time!nanosleep, Time!RoundedUp
    <3> QED BY <3>3, <3>4
  <2> QED BY <2>1, <2>2, <2>3 DEF Time!Accepts
<1>3. CASE Time!Wake
  BY <1>3 DEF Time!Wake, Time!Accepts
<1>4. CASE Time!Interrupted
  <2>1. /\ sleeping = "asleep" /\ sleeping' = "called" /\ signals' = signals + 1
        /\ UNCHANGED <<asked, left>>
        /\ tv_nsec' = Time!Lesser(tv_nsec, left * Scale * Scale)
    BY <1>4 DEF Time!Interrupted
  <2>2. left * Scale * Scale \in Nat
    OBVIOUS
  <2>3. tv_nsec' \in 0 .. UintRange - 1 /\ tv_nsec' <= tv_nsec
    BY <2>1, <2>2 DEF Time!Lesser
  <2>4. Second * Scale * Scale \in Nat
    OBVIOUS
  <2>5. Time!Accepts /\ Time!Accepts'
    BY <2>1, <2>3, <2>4 DEF Time!Accepts
  <2> QED BY <2>1, <2>3, <2>5
<1>5. ASSUME NEW d \in Durations, Time!sleepMillisecond(d) PROVE SleepInv'
  <2>1. /\ asked' = d /\ sleeping' = "called" /\ left' = 0 /\ signals' = 0
        /\ tv_nsec' = Time!Nanoseconds(d)
    BY <1>5 DEF Time!sleepMillisecond
  <2>2. Time!Accepts' <=> tv_nsec' < Second * Scale * Scale
    BY DEF Time!Accepts
  <2> QED BY <2>1, <2>2, NanosecondsFit
<1>6. ASSUME NEW d \in Durations, Time!restart(d) PROVE SleepInv'
  BY <1>6 DEF Time!restart, Time!sleepVars, Time!Accepts
<1> QED BY <1>1, <1>2, <1>3, <1>4, <1>5, <1>6 DEF Time!TimeNext, Time!SleepMoves

LEMMA TimeRests ==
  ASSUME TimeInv, SleepInv, UNCHANGED timeVars
  PROVE  TimeInv' /\ SleepInv'
BY DEF timeVars, TimeInv, SleepInv, Time!Accepts

LEMMA TimeMeansKept ==
  ASSUME TimeInv, SleepInv
  PROVE  TimesKept /\ Time!TimeTypeOK
<1> USE TimeAssumption DEF TimeInv, SleepInv
<1>1. seconds * Second \in Int /\ m_timeoutMilliseconds \in Nat
  OBVIOUS
<1>2. Time!ExpiresWithinASecond
  BY <1>1 DEF Time!ExpiresWithinASecond, Time!isExpired, Time!getElapsedMilliseconds
<1>3. Time!ShortSleepIsAccepted
  BY DEF Time!ShortSleepIsAccepted
<1>4. Time!TimeTypeOK
  BY DEF Time!TimeTypeOK
<1> QED BY <1>2, <1>3, <1>4 DEF TimesKept

-----------------------------------------------------------------------------
(* The lines of a stream.  What was taken out of the repository and what is *)
(* left in it make up what was printed; a piece is out, or in the hands of  *)
(* one printer; and where lines are waited for, a line that is still in the *)
(* repository has a printer that will look at it again.                     *)
Letter == {"a", "newline"}
Out == Stringer!ToSet(output)
Held == {holds[t] : t \in Stringer!Holding}
IsLine(piece) == Stringer!EndOfLine(piece) = Len(piece)

StringerTypes ==
  /\ m_shouldWaitToNewLine \in BOOLEAN
  /\ m_lineRepository \in Seq(Letter) /\ taken \in Seq(Letter) /\ added \in Seq(Letter)
  /\ pieces \in Seq(Seq(Letter)) /\ output \in Seq(Nat) /\ flushed \subseteq Nat
  /\ printAt \in [Printer -> {"idle", "lines", "print", "last"}] /\ holds \in [Printer -> Nat]

Printing ==
  /\ \A t \in Printer : holds[t] = 0 <=> printAt[t] \in {"idle", "lines"}
  /\ \A t, u \in Stringer!Holding : holds[t] = holds[u] => t = u
  /\ \A i, j \in DOMAIN output : output[i] = output[j] => i = j
  /\ Out \cap Held = {} /\ Out \cup Held = 1 .. Len(pieces)

Gathered ==
  /\ taken \o m_lineRepository = added
  /\ ~m_shouldWaitToNewLine => m_lineRepository = <<>>
  /\ m_shouldWaitToNewLine =>
       /\ \A i \in 1 .. Len(pieces) \ flushed : IsLine(pieces[i])
       /\ Stringer!HasLine(m_lineRepository) =>
            \E t \in Printer : printAt[t] \in {"lines", "print"}

StringerInv == StringerTypes /\ Printing /\ Gathered

LEMMA SmallestOne ==
  ASSUME NEW T, T \subseteq Nat, T # {}
  PROVE  \E x \in T : \A y \in T : x <= y
<1> DEFINE R == {ss \in Nat \X Nat : ss[1] < ss[2]}
<1>1. IsWellFoundedOn(R, Nat)
  BY NatLessThanWellFounded DEF OpToRel
<1>2. \E x \in T : \A y \in T : ~(<<y, x>> \in R)
  <2> HIDE DEF R
  <2> QED BY <1>1, WFMin
<1>3. PICK x \in T : \A y \in T : ~(<<y, x>> \in R)
  BY <1>2
<1>4. ASSUME NEW y \in T PROVE x <= y
  <2>1. <<y, x>> \in Nat \X Nat /\ ~(<<y, x>> \in R)
    BY <1>3
  <2>2. ~(y < x)
    BY <2>1
  <2> QED BY <2>2
<1> QED BY <1>4

(* The first end of line of a text is where it is said to be.               *)
LEMMA FirstEnd ==
  ASSUME NEW s \in Seq(Letter), NEW k \in 1 .. Len(s), s[k] = "newline",
         \A j \in 1 .. k - 1 : s[j] # "newline"
  PROVE  Stringer!EndOfLine(s) = k
<1> DEFINE I == {i \in 1 .. Len(s) : s[i] = "newline"}
<1>1. Stringer!EndOfLine(s) = IF I # {} THEN Stringer!Min(I) ELSE 0
  BY DEF Stringer!EndOfLine, Stringer!SelectInSeq, Stringer!endl
<1>2. k \in I /\ \A i \in I : k <= i
  OBVIOUS
<1>3. I \subseteq Nat
  OBVIOUS
<1> HIDE DEF I
<1>4. \A x \in I : (\A y \in I : x <= y) => x = k
  BY <1>2, <1>3
<1>5. Stringer!Min(I) = k
  BY <1>2, <1>4 DEF Stringer!Min
<1> QED BY <1>1, <1>2, <1>5

LEMMA LineTaken ==
  ASSUME NEW s \in Seq(Letter), Stringer!HasLine(s)
  PROVE  \E k \in 1 .. Len(s) :
           /\ Stringer!EndOfLine(s) = k
           /\ SubSeq(s, 1, k) \in Seq(Letter) /\ SubSeq(s, k + 1, Len(s)) \in Seq(Letter)
           /\ IsLine(SubSeq(s, 1, k))
           /\ SubSeq(s, 1, k) \o SubSeq(s, k + 1, Len(s)) = s
<1> DEFINE I == {i \in 1 .. Len(s) : s[i] = "newline"}
<1>1. I # {} /\ I \subseteq Nat
  BY DEF Stringer!HasLine, Stringer!ToSet, Stringer!endl
<1>2. PICK k \in I : \A y \in I : k <= y
  BY <1>1, SmallestOne
<1>3. k \in 1 .. Len(s) /\ s[k] = "newline" /\ \A j \in 1 .. k - 1 : s[j] # "newline"
  <2>1. ASSUME NEW j \in 1 .. k - 1, s[j] = "newline" PROVE FALSE
    <3>1. j \in I /\ j < k
      BY <2>1, <1>2
    <3> QED BY <3>1, <1>2
  <2> QED BY <2>1, <1>2
<1> HIDE DEF I
<1>4. Stringer!EndOfLine(s) = k
  BY <1>3, FirstEnd
<1>5. Len(s) \in Nat /\ \A i \in 1 .. Len(s) : s[i] \in Letter
  OBVIOUS
<1>6. SubSeq(s, k + 1, Len(s)) \in Seq(Letter)
  BY <1>3, <1>5, SubSeqProperties
<1>7. PICK line \in Seq(Letter) : /\ line = SubSeq(s, 1, k) /\ Len(line) = k
                                  /\ \A i \in 1 .. k : line[i] = s[i]
  <2>1. \A i \in 1 .. k : s[i] \in Letter
    BY <1>3, <1>5
  <2>2. /\ SubSeq(s, 1, k) \in Seq(Letter)
        /\ Len(SubSeq(s, 1, k)) = IF 1 <= k THEN k - 1 + 1 ELSE 0
        /\ \A i \in 1 .. k - 1 + 1 : SubSeq(s, 1, k)[i] = s[1 + i - 1]
    BY <1>3, <2>1, SubSeqProperties
  <2>3. k - 1 + 1 = k /\ (1 <= k) /\ \A i \in 1 .. k : 1 + i - 1 = i
    BY <1>3
  <2> QED BY <2>2, <2>3
<1>8. IsLine(line)
  <2>1. /\ k \in 1 .. Len(line) /\ line[k] = "newline"
        /\ \A j \in 1 .. k - 1 : line[j] # "newline"
    BY <1>3, <1>7
  <2>2. Stringer!EndOfLine(line) = k
    BY <2>1, FirstEnd
  <2> QED BY <1>7, <2>2 DEF IsLine
<1>9. SubSeq(s, 1, k) \o SubSeq(s, k + 1, Len(s)) = s
  <2>1. SubSeq(s, 1, k) \o SubSeq(s, k + 1, Len(s)) = SubSeq(s, 1, Len(s))
    BY <1>3, <1>5, ConcatAdjacentSubSeq
  <2> QED BY <2>1, SubSeqFull
<1> QED BY <1>3, <1>4, <1>6, <1>7, <1>8, <1>9

LEMMA StringerStart == Stringer!StringerInit => StringerInv
<1> SUFFICES ASSUME Stringer!StringerInit PROVE StringerInv
  OBVIOUS
<1> USE DEF Stringer!StringerInit
<1>1. <<>> \in Seq(Letter) /\ <<>> \in Seq(Seq(Letter)) /\ <<>> \in Seq(Nat)
  BY EmptySeq
<1>2. StringerTypes
  BY <1>1 DEF StringerTypes
<1>3. Out = {} /\ Held = {} /\ 1 .. Len(pieces) = {}
  BY DEF Out, Held, Stringer!ToSet, Stringer!Holding
<1>4. Printing
  BY <1>3 DEF Printing, Stringer!Holding
<1>5. ~Stringer!HasLine(m_lineRepository)
  BY DEF Stringer!HasLine, Stringer!ToSet
<1>6. taken \o m_lineRepository = added
  OBVIOUS
<1>7. Gathered
  BY <1>5, <1>6 DEF Gathered
<1> QED BY <1>2, <1>4, <1>7 DEF StringerInv

(* A printer whose hands are empty takes a piece: the one after the last.   *)
LEMMA PieceTaken ==
  ASSUME StringerTypes, Printing, NEW t \in Printer, holds[t] = 0,
         NEW piece \in Seq(Letter), NEW next \in {"print", "last"},
         Stringer!Takes(t, piece, next), output' = output
  PROVE  /\ Printing' /\ taken' = taken \o piece /\ taken' \in Seq(Letter)
         /\ pieces' \in Seq(Seq(Letter)) /\ holds' \in [Printer -> Nat]
         /\ Len(pieces) \in Nat /\ Len(pieces') = Len(pieces) + 1
         /\ pieces'[Len(pieces')] = piece
         /\ \A i \in 1 .. Len(pieces) : pieces'[i] = pieces[i]
         /\ printAt' = [printAt EXCEPT ![t] = next]
<1> PICK n \in Nat : n = Len(pieces) + 1
  BY LenProperties DEF StringerTypes
<1>1. /\ pieces' = Append(pieces, piece) /\ taken' = taken \o piece
      /\ holds' = [holds EXCEPT ![t] = Len(pieces')]
      /\ printAt' = [printAt EXCEPT ![t] = next]
  BY DEF Stringer!Takes
<1>2. /\ Len(pieces) \in Nat /\ Len(pieces') = n /\ pieces' \in Seq(Seq(Letter))
      /\ pieces'[n] = piece /\ \A i \in 1 .. Len(pieces) : pieces'[i] = pieces[i]
  BY <1>1, AppendProperties, LenProperties DEF StringerTypes
<1>3. taken' \in Seq(Letter)
  BY <1>1, ConcatProperties DEF StringerTypes
<1>4. holds' = [holds EXCEPT ![t] = n] /\ n # 0 /\ n \notin 1 .. Len(pieces)
  BY <1>1, <1>2
<1>5. /\ Stringer!Holding' = Stringer!Holding \cup {t} /\ t \notin Stringer!Holding
      /\ holds' \in [Printer -> Nat] /\ holds'[t] = n
      /\ \A u \in Stringer!Holding : holds'[u] = holds[u]
  BY <1>4 DEF Stringer!Holding, StringerTypes
<1>6. Held' = Held \cup {n} /\ Out' = Out
  BY <1>5 DEF Held, Out
<1>7. 1 .. Len(pieces') = (1 .. Len(pieces)) \cup {n}
  BY <1>2
<1>8. Printing'
  <2>1. \A u \in Printer : holds'[u] = 0 <=> printAt'[u] \in {"idle", "lines"}
    BY <1>1, <1>4 DEF Printing, StringerTypes
  <2>2. \A u, w \in Stringer!Holding' : holds'[u] = holds'[w] => u = w
    <3>1. \A u \in Stringer!Holding : holds[u] # n
      BY <1>4 DEF Printing, Held
    <3> QED BY <1>5, <3>1 DEF Printing
  <2>3. Out' \cap Held' = {} /\ Out' \cup Held' = 1 .. Len(pieces')
    BY <1>4, <1>6, <1>7 DEF Printing
  <2> QED BY <2>1, <2>2, <2>3 DEF Printing
<1> QED BY <1>1, <1>2, <1>3, <1>5, <1>8

LEMMA Joined ==
  ASSUME NEW r \in Seq(Letter), NEW s \in Seq(Letter), NEW u \in Seq(Letter)
  PROVE  /\ r \o s \in Seq(Letter) /\ (r \o s) \o u = r \o (s \o u)
         /\ r \o <<>> = r /\ <<>> \o r = r
BY ConcatProperties, ConcatAssociative, ConcatEmptySeq

(* Letters added at the end of the repository.                              *)
LEMMA WritesKeeps ==
  ASSUME StringerInv, NEW t \in Printer, NEW string \in Seq(Letter), Stringer!Writes(t, string)
  PROVE  StringerInv'
<1> USE DEF StringerInv
<1>1. /\ printAt[t] = "idle" /\ holds[t] = 0 /\ added' = added \o string /\ added' \in Seq(Letter)
      /\ UNCHANGED <<m_shouldWaitToNewLine, flushed, output>>
  BY Joined DEF Stringer!Writes, Printing, StringerTypes
<1>2. CASE m_shouldWaitToNewLine
  <2>1. /\ m_lineRepository' = m_lineRepository \o string
        /\ printAt' = [printAt EXCEPT ![t] = "lines"] /\ UNCHANGED <<holds, pieces, taken>>
    BY <1>2 DEF Stringer!Writes
  <2>2. taken' \o m_lineRepository' = added' /\ m_lineRepository' \in Seq(Letter)
    <3>1. taken \o m_lineRepository = added /\ taken \in Seq(Letter) /\ m_lineRepository \in Seq(Letter)
      BY DEF StringerTypes, Gathered
    <3>2. m_lineRepository \o string \in Seq(Letter)
      BY <3>1, ConcatProperties
    <3>3. (taken \o m_lineRepository) \o string = taken \o (m_lineRepository \o string)
      <4>1. \A r, s, u \in Seq(Letter) : (r \o s) \o u = r \o (s \o u)
        BY Joined
      <4> QED BY <3>1, <4>1, Zenon
    <3> QED BY <1>1, <2>1, <3>1, <3>2, <3>3, Zenon
  <2>3. StringerTypes'
    BY <1>1, <2>1, <2>2 DEF StringerTypes
  <2>4. Printing'
    <3>1. Stringer!Holding' = Stringer!Holding /\ Held' = Held /\ Out' = Out
      BY <1>1, <2>1 DEF Stringer!Holding, Held, Out
    <3> QED BY <1>1, <2>1, <3>1 DEF Printing, StringerTypes
  <2>5. printAt'[t] = "lines"
    BY <2>1 DEF StringerTypes
  <2>6. Gathered'
    BY <1>1, <1>2, <2>1, <2>2, <2>5 DEF Gathered, IsLine
  <2> QED BY <2>3, <2>4, <2>6
<1>3. CASE ~m_shouldWaitToNewLine
  <2>1. Stringer!Takes(t, string, "last") /\ m_lineRepository' = m_lineRepository
    BY <1>3 DEF Stringer!Writes
  <2>2. /\ Printing' /\ taken' = taken \o string /\ taken' \in Seq(Letter)
        /\ pieces' \in Seq(Seq(Letter)) /\ holds' \in [Printer -> Nat]
        /\ printAt' = [printAt EXCEPT ![t] = "last"]
    BY <1>1, <2>1, PieceTaken
  <2>3. StringerTypes'
    BY <1>1, <2>1, <2>2 DEF StringerTypes
  <2>4. m_lineRepository = <<>> /\ taken = added
    BY <1>3, Joined DEF Gathered, StringerTypes
  <2>5. taken' \o m_lineRepository' = added'
    BY <1>1, <2>1, <2>2, <2>4, Joined
  <2>6. Gathered'
    BY <1>1, <1>3, <2>1, <2>4, <2>5 DEF Gathered
  <2> QED BY <2>2, <2>3, <2>6
<1> QED BY <1>2, <1>3

LEMMA FlushEndlKeeps ==
  ASSUME StringerInv, NEW t \in Printer, Stringer!flushEndlBuffer(t)
  PROVE  StringerInv'
<1> USE DEF StringerInv
<1>1. /\ printAt[t] = "lines" /\ holds[t] = 0
      /\ UNCHANGED <<m_shouldWaitToNewLine, flushed, output, added>>
  BY DEF Stringer!flushEndlBuffer, Printing
<1>2. CASE Stringer!HasLine(m_lineRepository)
  <2>1. PICK k \in 1 .. Len(m_lineRepository) :
          /\ Stringer!EndOfLine(m_lineRepository) = k
          /\ SubSeq(m_lineRepository, 1, k) \in Seq(Letter)
          /\ SubSeq(m_lineRepository, k + 1, Len(m_lineRepository)) \in Seq(Letter)
          /\ IsLine(SubSeq(m_lineRepository, 1, k))
          /\ SubSeq(m_lineRepository, 1, k) \o SubSeq(m_lineRepository, k + 1, Len(m_lineRepository))
               = m_lineRepository
    BY <1>2, LineTaken DEF StringerTypes
  <2>2. PICK piece \in Seq(Letter) : piece = SubSeq(m_lineRepository, 1, k)
    BY <2>1
  <2>3. /\ Stringer!Takes(t, piece, "print")
        /\ m_lineRepository' = SubSeq(m_lineRepository, k + 1, Len(m_lineRepository))
    BY <1>2, <2>1, <2>2 DEF Stringer!flushEndlBuffer, Stringer!TakesLine
  <2>4. m_lineRepository' \in Seq(Letter) /\ piece \o m_lineRepository' = m_lineRepository /\ IsLine(piece)
    BY <2>1, <2>2, <2>3
  <2>5. /\ Printing' /\ taken' = taken \o piece /\ taken' \in Seq(Letter)
        /\ pieces' \in Seq(Seq(Letter)) /\ holds' \in [Printer -> Nat]
        /\ Len(pieces) \in Nat /\ Len(pieces') = Len(pieces) + 1
        /\ pieces'[Len(pieces')] = piece
        /\ \A i \in 1 .. Len(pieces) : pieces'[i] = pieces[i]
        /\ printAt' = [printAt EXCEPT ![t] = "print"]
    BY <1>1, <2>3, PieceTaken
  <2>6. StringerTypes'
    BY <1>1, <2>4, <2>5 DEF StringerTypes
  <2>7. taken' \o m_lineRepository' = added'
    <3>1. taken' \o m_lineRepository' = taken \o (piece \o m_lineRepository')
      <4>1. PICK rest \in Seq(Letter) : rest = m_lineRepository'
        BY <2>4
      <4>2. taken \in Seq(Letter)
        BY DEF StringerTypes
      <4>3. (taken \o piece) \o rest = taken \o (piece \o rest)
        BY <4>2, Joined
      <4> QED BY <2>5, <4>1, <4>3
    <3> QED BY <1>1, <2>4, <3>1 DEF Gathered
  <2>8. m_shouldWaitToNewLine
    <3>1. m_lineRepository # <<>>
      BY <1>2 DEF Stringer!HasLine, Stringer!ToSet
    <3> QED BY <3>1 DEF Gathered
  <2>9. \A i \in 1 .. Len(pieces') \ flushed' : IsLine(pieces'[i])
    <3> SUFFICES ASSUME NEW i \in 1 .. Len(pieces') \ flushed' PROVE IsLine(pieces'[i])
      OBVIOUS
    <3>1. CASE i = Len(pieces')
      BY <2>4, <2>5, <3>1
    <3>2. CASE i # Len(pieces')
      <4>1. i \in 1 .. Len(pieces) \ flushed /\ pieces'[i] = pieces[i]
        BY <1>1, <2>5, <3>2
      <4> QED BY <2>8, <4>1 DEF Gathered
    <3> QED BY <3>1, <3>2
  <2>10. printAt'[t] = "print"
    BY <2>5 DEF StringerTypes
  <2>11. Gathered'
    BY <1>1, <2>7, <2>8, <2>9, <2>10 DEF Gathered, IsLine
  <2> QED BY <2>5, <2>6, <2>11
<1>3. CASE ~Stringer!HasLine(m_lineRepository)
  <2>1. /\ printAt' = [printAt EXCEPT ![t] = "idle"]
        /\ UNCHANGED <<m_lineRepository, holds, pieces, taken>>
    BY <1>3 DEF Stringer!flushEndlBuffer
  <2>2. StringerTypes'
    BY <1>1, <2>1 DEF StringerTypes
  <2>3. Printing'
    <3>1. Stringer!Holding' = Stringer!Holding /\ Held' = Held /\ Out' = Out
      BY <1>1, <2>1 DEF Stringer!Holding, Held, Out
    <3> QED BY <1>1, <2>1, <3>1 DEF Printing, StringerTypes
  <2>4. ~Stringer!HasLine(m_lineRepository)'
    BY <1>3, <2>1 DEF Stringer!HasLine, Stringer!ToSet
  <2>5. Gathered'
    BY <1>1, <2>1, <2>4 DEF Gathered, IsLine
  <2> QED BY <2>2, <2>3, <2>5
<1> QED BY <1>2, <1>3

(* What a printer held is out, and in its hands no longer.                  *)
LEMMA OutputKeeps ==
  ASSUME StringerInv, NEW t \in Printer, Stringer!outputString(t)
  PROVE  StringerInv'
<1> USE DEF StringerInv
<1>1. /\ printAt[t] \in {"print", "last"} /\ holds[t] # 0 /\ holds[t] \in Nat
      /\ output' = Append(output, holds[t]) /\ holds' = [holds EXCEPT ![t] = 0]
      /\ printAt' = [printAt EXCEPT ![t] = IF printAt[t] = "print" THEN "lines" ELSE "idle"]
      /\ UNCHANGED <<m_shouldWaitToNewLine, m_lineRepository, pieces, taken, flushed, added>>
  BY DEF Stringer!outputString, Printing, StringerTypes
<1>2. /\ output' \in Seq(Nat) /\ Len(output) \in Nat /\ Len(output') = Len(output) + 1
      /\ output'[Len(output) + 1] = holds[t]
      /\ \A i \in 1 .. Len(output) : output'[i] = output[i]
      /\ DOMAIN output = 1 .. Len(output) /\ DOMAIN output' = 1 .. Len(output) + 1
  BY <1>1, AppendProperties, LenProperties DEF StringerTypes
<1>3. StringerTypes'
  BY <1>1, <1>2 DEF StringerTypes
<1>4. /\ Stringer!Holding' = Stringer!Holding \ {t} /\ t \in Stringer!Holding
      /\ \A u \in Stringer!Holding \ {t} : holds'[u] = holds[u] /\ holds[u] # holds[t]
  BY <1>1 DEF Stringer!Holding, Printing, StringerTypes
<1>5. Held' = Held \ {holds[t]} /\ holds[t] \in Held
  BY <1>4 DEF Held
<1>6. Out' = Out \cup {holds[t]}
  BY <1>2 DEF Out, Stringer!ToSet
<1>7. Printing'
  <2>1. \A u \in Printer : holds'[u] = 0 <=> printAt'[u] \in {"idle", "lines"}
    BY <1>1 DEF Printing, StringerTypes
  <2>2. \A u, w \in Stringer!Holding' : holds'[u] = holds'[w] => u = w
    BY <1>4 DEF Printing
  <2>3. \A i, j \in DOMAIN output' : output'[i] = output'[j] => i = j
    <3>1. \A i \in 1 .. Len(output) : output[i] # holds[t]
      BY <1>2, <1>5 DEF Printing, Out, Stringer!ToSet
    <3> QED BY <1>2, <3>1 DEF Printing
  <2>4. Out' \cap Held' = {} /\ Out' \cup Held' = 1 .. Len(pieces')
    BY <1>1, <1>5, <1>6 DEF Printing
  <2> QED BY <2>1, <2>2, <2>3, <2>4 DEF Printing
<1>8. Gathered'
  <2>1. \A u \in Printer : printAt[u] \in {"lines", "print"} => printAt'[u] \in {"lines", "print"}
    BY <1>1 DEF StringerTypes
  <2>2. Stringer!HasLine(m_lineRepository)' = Stringer!HasLine(m_lineRepository)
    BY <1>1 DEF Stringer!HasLine, Stringer!ToSet
  <2> QED BY <1>1, <2>1, <2>2 DEF Gathered, IsLine
<1> QED BY <1>3, <1>7, <1>8

LEMMA FlushKeeps ==
  ASSUME StringerInv, NEW t \in Printer, Stringer!flush(t)
  PROVE  StringerInv'
<1> USE DEF StringerInv
<1>1. /\ printAt[t] = "idle" /\ holds[t] = 0 /\ m_lineRepository # <<>>
      /\ Stringer!Takes(t, m_lineRepository, "last") /\ m_lineRepository' = <<>>
      /\ flushed' = flushed \cup {Len(pieces')}
      /\ UNCHANGED <<m_shouldWaitToNewLine, output, added>>
  BY DEF Stringer!flush, Printing
<1>2. PICK piece \in Seq(Letter) : piece = m_lineRepository
  BY DEF StringerTypes
<1>3. /\ Printing' /\ taken' = taken \o piece /\ taken' \in Seq(Letter)
      /\ pieces' \in Seq(Seq(Letter)) /\ holds' \in [Printer -> Nat]
      /\ Len(pieces) \in Nat /\ Len(pieces') = Len(pieces) + 1
      /\ \A i \in 1 .. Len(pieces) : pieces'[i] = pieces[i]
      /\ printAt' = [printAt EXCEPT ![t] = "last"]
  BY <1>1, <1>2, PieceTaken
<1>4. <<>> \in Seq(Letter) /\ flushed' \subseteq Nat
  BY <1>1, <1>3, EmptySeq DEF StringerTypes
<1>5. StringerTypes'
  BY <1>1, <1>3, <1>4 DEF StringerTypes
<1>6. taken' \o m_lineRepository' = added'
  BY <1>1, <1>2, <1>3, Joined DEF Gathered
<1>7. ~Stringer!HasLine(m_lineRepository)'
  BY <1>1 DEF Stringer!HasLine, Stringer!ToSet
<1>8. \A i \in 1 .. Len(pieces') \ flushed' : i \in 1 .. Len(pieces) \ flushed /\ pieces'[i] = pieces[i]
  <2> TAKE i \in 1 .. Len(pieces') \ flushed'
  <2>1. i \in 1 .. Len(pieces) + 1 /\ i # Len(pieces) + 1 /\ i \notin flushed
    BY <1>1, <1>3
  <2>2. i \in 1 .. Len(pieces)
    BY <1>3, <2>1
  <2> QED BY <1>3, <2>1, <2>2
<1>9. Gathered'
  BY <1>1, <1>6, <1>7, <1>8 DEF Gathered, IsLine
<1> QED BY <1>3, <1>5, <1>9

LEMMA StringerStep ==
  ASSUME StringerInv, Stringer!StringerNext
  PROVE  StringerInv'
<1>1. Printed \subseteq Seq(Letter)
  BY DEF Printed, Letter
<1> QED BY <1>1, WritesKeeps, FlushEndlKeeps, OutputKeeps, FlushKeeps DEF Stringer!StringerNext

LEMMA StringerRests ==
  ASSUME StringerInv, UNCHANGED stringerVars
  PROVE  StringerInv'
<1>1. Stringer!Holding' = Stringer!Holding /\ Held' = Held /\ Out' = Out
  BY DEF stringerVars, Stringer!Holding, Held, Out
<1>2. Stringer!HasLine(m_lineRepository)' = Stringer!HasLine(m_lineRepository)
  BY DEF stringerVars, Stringer!HasLine, Stringer!ToSet
<1> QED BY <1>1, <1>2 DEF stringerVars, StringerInv, StringerTypes, Printing, Gathered, IsLine

LEMMA StringerMeansWhole ==
  ASSUME StringerInv
  PROVE  LinesAreWhole /\ Stringer!StringerTypeOK
<1> USE DEF StringerInv
<1>1. Stringer!StringerTypeOK
  BY DEF Stringer!StringerTypeOK, StringerTypes, Printing
<1>2. Stringer!IsInjective(output)
  BY DEF Stringer!IsInjective, Printing
<1>3. (\A t \in Printer : printAt[t] = "idle") /\ m_shouldWaitToNewLine
        => ~Stringer!HasLine(m_lineRepository)
  BY DEF Gathered
<1>4. Stringer!LinesAreWhole
  BY <1>2, <1>3 DEF Stringer!LinesAreWhole, Printing, Gathered, Out, Held, IsLine
<1> QED BY <1>1, <1>4 DEF LinesAreWhole

-----------------------------------------------------------------------------
(* The exchange of tests/test_event.cpp.  The first setEvent lets the first *)
(* wait of run() through and no other: main passes its poll only when       *)
(* resetEvent has cleared the event, after which it is set by the second    *)
(* setEvent alone.                                                          *)
InWait == {"enterWait", "test", "blocked", "woken"}
InReset == {"enterReset", "clear"}
FirstPassed == kidAt > 2 \/ (kidAt = 2 /\ pc[kid] \notin InWait)
Cleared == kidAt = 4 \/ (kidAt = 3 /\ pc[kid] \notin InReset)
SecondPassed == kidAt = 4 /\ pc[kid] \notin InWait
SetComing == mainAt <= 2 \/ (mainAt = 3 /\ pc[main] \in {"enterSet", "trigger"})
RunOver == {"ran", "threw", "leaving", "exited", "joined"}

TestTypes ==
  /\ triggered \in BOOLEAN /\ mutex \in {main, kid, None}
  /\ mainAt \in 1 .. 6 /\ kidAt \in 1 .. 4
  /\ pc = [t \in {main, kid} |-> pc[t]]
  /\ pc[main] \in {"idle", "enterSet", "trigger", "signal", "unlock"}
  /\ mainAt \notin {3, 5} => pc[main] = "idle"
  /\ pc[kid] \in InWait \cup InReset \cup {"unlock", "idle"}
  /\ kidAt = 1 => pc[kid] = "idle"
  /\ kidAt \in {2, 4} => pc[kid] \notin InReset
  /\ kidAt = 3 => pc[kid] \notin InWait
  /\ child = [o \in {test} |-> child[o]]

TestOrder ==
  /\ SetComing => ~triggered /\ ~FirstPassed
  /\ mainAt = 3 => SetComing \/ (triggered <=> ~Cleared)
  /\ mainAt = 4 => ~triggered /\ Cleared
  /\ SecondPassed => mainAt >= 5
  /\ child[test] \in RunOver => mainAt >= 5

TestInv == TestTypes /\ TestOrder

LEMMA EventLabels ==
  /\ DOMAIN Exchange!Event!AfterLock = {"enterSet", "enterReset", "enterWait", "woken"}
  /\ Exchange!Event!AfterLock["enterSet"] = "trigger"
  /\ Exchange!Event!AfterLock["enterReset"] = "clear"
  /\ Exchange!Event!AfterLock["enterWait"] = "test"
  /\ Exchange!Event!AfterLock["woken"] = "test"
BY DEF Exchange!Event!AfterLock

LEMMA TestStart == Exchange!Init => TestInv
<1> SUFFICES ASSUME Exchange!Init PROVE TestInv
  OBVIOUS
<1>1. /\ triggered = FALSE /\ mutex = None /\ pc = [t \in {main, kid} |-> "idle"]
      /\ child = [o \in {test} |-> "none"] /\ mainAt = 1 /\ kidAt = 1
  BY DEF Exchange!Init, Exchange!Event!Init, Exchange!Class!Init
<1>2. TestTypes
  <2>1. pc = [t \in {main, kid} |-> pc[t]] /\ pc[main] = "idle" /\ pc[kid] = "idle"
    BY <1>1
  <2>2. child = [o \in {test} |-> child[o]]
    BY <1>1
  <2>3. /\ pc[main] \in {"idle", "enterSet", "trigger", "signal", "unlock"}
        /\ pc[kid] \in InWait \cup InReset \cup {"unlock", "idle"}
    BY <2>1
  <2>4. triggered \in BOOLEAN /\ mutex \in {main, kid, None}
    BY <1>1
  <2>5. mainAt \in 1 .. 6 /\ kidAt \in 1 .. 4 /\ kidAt \notin {2, 3, 4}
    BY <1>1
  <2> QED BY <2>1, <2>2, <2>3, <2>4, <2>5 DEF TestTypes
<1>3. TestOrder
  BY <1>1 DEF TestOrder, FirstPassed, Cleared, SecondPassed, SetComing, RunOver
<1> QED BY <1>2, <1>3 DEF TestInv

(* The steps of main and of run() from one call to the next.                *)
LEMMA CallsKeepTest ==
  ASSUME TestInv, Exchange!Main \/ Exchange!Kid
  PROVE  TestInv'
<1> USE EventTestAssumption
    DEF TestInv, TestTypes, TestOrder, FirstPassed, Cleared, SecondPassed, SetComing, RunOver,
        InWait, InReset
<1>1. CASE Exchange!Main
  <2>1. /\ pc[main] = "idle" /\ mainAt' = mainAt + 1 /\ kidAt' = kidAt /\ mainAt \in 1 .. 5
    BY <1>1 DEF Exchange!Main, Exchange!Ready
  <2>2. CASE mainAt \in {1, 5}
    <3>1. UNCHANGED <<triggered, mutex, pc, child>>
      BY <1>1, <2>2 DEF Exchange!Main, Exchange!eventVars, Exchange!Class!start, Exchange!Class!wait,
                        Exchange!Class!flags
    <3> QED BY <2>1, <2>2, <3>1
  <2>3. CASE mainAt \in {2, 4}
    <3>1. pc' = [pc EXCEPT ![main] = "enterSet"] /\ UNCHANGED <<triggered, mutex, child>>
      BY <1>1, <2>3 DEF Exchange!Main, Exchange!Event!setEvent, Exchange!Event!Call, Exchange!classVars
    <3>2. pc'[main] = "enterSet" /\ pc'[kid] = pc[kid] /\ pc' = [t \in {main, kid} |-> pc'[t]]
      BY <3>1
    <3>3. TestTypes'
      BY <2>1, <2>3, <3>1, <3>2
    <3>4. TestOrder'
      BY <2>1, <2>3, <3>1, <3>2
    <3> QED BY <3>3, <3>4
  <2>4. CASE mainAt = 3
    <3>1. ~triggered /\ UNCHANGED <<triggered, mutex, pc, child>>
      BY <1>1, <2>4 DEF Exchange!Main, Exchange!Event!isEventSet, Exchange!eventVars, Exchange!classVars
    <3> QED BY <2>1, <2>4, <3>1
  <2> QED BY <2>1, <2>2, <2>3, <2>4
<1>2. CASE Exchange!Kid
  <2>1. /\ pc[kid] = "idle" /\ kidAt \in 1 .. 3 /\ kidAt' = kidAt + 1
        /\ UNCHANGED <<mainAt, child, triggered, mutex>>
    BY <1>2 DEF Exchange!Kid, Exchange!KidCalls, Exchange!Event!wait, Exchange!Event!resetEvent,
                Exchange!Event!Call, Exchange!classVars
  <2>2. /\ kidAt \in {1, 3} => pc' = [pc EXCEPT ![kid] = "enterWait"]
        /\ kidAt = 2 => pc' = [pc EXCEPT ![kid] = "enterReset"]
    BY <1>2 DEF Exchange!Kid, Exchange!KidCalls, Exchange!Event!wait, Exchange!Event!resetEvent,
                Exchange!Event!Call
  <2> QED BY <2>1, <2>2
<1> QED BY <1>1, <1>2

(* The steps inside the event.                                              *)
LEMMA EventKeepsTest ==
  ASSUME TestInv, NEW t \in {main, kid}, UNCHANGED <<child, mainAt, kidAt>>,
         Exchange!Event!Acquire(t) \/ Exchange!Event!Inside(t) \/ Exchange!Event!SpuriousWake(kid)
  PROVE  TestInv'
<1> USE EventTestAssumption
    DEF TestInv, TestTypes, TestOrder, FirstPassed, Cleared, SecondPassed, SetComing, RunOver,
        InWait, InReset
<1>1. CASE Exchange!Event!Acquire(t)
  BY <1>1, EventLabels, ZenonT(60) DEF Exchange!Event!Acquire
<1>2. CASE Exchange!Event!Trigger(t)
  <2>1. /\ t = main /\ pc[main] = "trigger" /\ triggered' = TRUE /\ mutex' = mutex
        /\ pc' = [pc EXCEPT ![main] = "signal"]
    BY <1>2 DEF Exchange!Event!Trigger
  <2>2. pc'[main] = "signal" /\ pc'[kid] = pc[kid] /\ pc' = [u \in {main, kid} |-> pc'[u]]
    BY <2>1
  <2>3. TestTypes'
    BY <2>1, <2>2
  <2>4. TestOrder'
    BY <2>1, <2>2
  <2> QED BY <2>3, <2>4
<1>3. CASE Exchange!Event!Signal(t)
  <2>1. t = main /\ UNCHANGED <<triggered, mutex>>
    BY <1>3 DEF Exchange!Event!Signal
  <2>2. \/ pc' = [pc EXCEPT ![main] = "unlock"]
        \/ pc[kid] = "blocked" /\ pc' = [pc EXCEPT ![main] = "unlock", ![kid] = "woken"]
    BY <1>3, <2>1 DEF Exchange!Event!Signal, Exchange!Event!Signalled, Exchange!Event!Blocked
  <2>3. pc[main] = "signal"
    BY <1>3, <2>1 DEF Exchange!Event!Signal
  <2> QED BY <2>1, <2>2, <2>3
<1>4. CASE Exchange!Event!Clear(t)
  <2>1. /\ t = kid /\ pc[kid] = "clear" /\ triggered' = FALSE /\ mutex' = mutex
        /\ pc' = [pc EXCEPT ![kid] = "unlock"]
    BY <1>4 DEF Exchange!Event!Clear
  <2>2. pc'[kid] = "unlock" /\ pc'[main] = pc[main] /\ pc' = [u \in {main, kid} |-> pc'[u]]
    BY <2>1
  <2>3. TestTypes'
    BY <2>1, <2>2
  <2>4. TestOrder'
    BY <2>1, <2>2
  <2> QED BY <2>3, <2>4
<1>5. CASE Exchange!Event!Test(t)
  BY <1>5 DEF Exchange!Event!Test, Exchange!Event!Passed, Exchange!Event!Blocking
<1>6. CASE Exchange!Event!Unlock(t)
  BY <1>6 DEF Exchange!Event!Unlock, Exchange!Event!AfterUnlock
<1>7. CASE Exchange!Event!SpuriousWake(kid)
  BY <1>7 DEF Exchange!Event!SpuriousWake
<1> QED BY <1>1, <1>2, <1>3, <1>4, <1>5, <1>6, <1>7 DEF Exchange!Event!Inside

(* The steps of the object's child and of its owner.                        *)
LEMMA ClassKeepsTest ==
  ASSUME TestInv, Exchange!ChildMoves \/ Exchange!OwnerMoves
  PROVE  TestInv'
<1> USE DEF TestInv, TestTypes, TestOrder, FirstPassed, Cleared, SecondPassed, SetComing, RunOver
<1>1. UNCHANGED <<triggered, mutex, pc, mainAt, kidAt>>
  BY DEF Exchange!ChildMoves, Exchange!OwnerMoves, Exchange!eventVars
<1>2. child' = [o \in {test} |-> child'[o]]
  BY DEF Exchange!ChildMoves, Exchange!OwnerMoves, Exchange!Class!Owner, Exchange!Class!Child,
         Exchange!Class!Began, Exchange!Class!Enter, Exchange!Class!RunEnds, Exchange!Class!Unwind,
         Exchange!Class!Done, Exchange!Class!Terminate, Exchange!Class!execute, Exchange!Class!join,
         Exchange!Class!Dispose, Exchange!Class!Kill, Exchange!Class!JoinKilled
<1>3. child'[test] \in RunOver => child[test] \in RunOver \/ mainAt >= 5
  <2>1. CASE Exchange!ChildMoves
    <3>1. child[test] = "run" => SecondPassed
      BY <2>1 DEF Exchange!ChildMoves, InWait
    <3>2. child'[test] \in RunOver => child[test] \in RunOver \cup {"run"}
      BY <2>1 DEF Exchange!ChildMoves, Exchange!Class!Child,
         Exchange!Class!Began, Exchange!Class!Enter, Exchange!Class!RunEnds, Exchange!Class!Unwind,
         Exchange!Class!Done, Exchange!Class!Terminate
    <3> QED BY <3>1, <3>2
  <2>2. CASE Exchange!OwnerMoves
    BY <2>2 DEF Exchange!OwnerMoves, Exchange!Class!Owner, Exchange!Class!execute,
       Exchange!Class!join, Exchange!Class!Dispose, Exchange!Class!Kill, Exchange!Class!JoinKilled,
       Exchange!Class!Killed
  <2> QED BY <2>1, <2>2
<1> QED BY <1>1, <1>2, <1>3

LEMMA TestStep ==
  ASSUME TestInv, Exchange!Next
  PROVE  TestInv'
<1>1. CASE Exchange!Main \/ Exchange!Kid
  BY <1>1, CallsKeepTest
<1>2. CASE Exchange!ChildMoves \/ Exchange!OwnerMoves
  BY <1>2, ClassKeepsTest
<1>3. ASSUME NEW t \in {main, kid}, Exchange!EventMoves(t) \/ Exchange!Spurious PROVE TestInv'
  <2>1. UNCHANGED <<child, mainAt, kidAt>>
    BY <1>3 DEF Exchange!EventMoves, Exchange!Spurious, Exchange!classVars
  <2> QED BY <1>3, <2>1, EventKeepsTest DEF Exchange!EventMoves, Exchange!Spurious
<1> QED BY <1>1, <1>2, <1>3 DEF Exchange!Next

LEMMA TestRests ==
  ASSUME TestInv, UNCHANGED <<triggered, mutex, pc, child, mainAt, kidAt>>
  PROVE  TestInv'
BY DEF TestInv, TestTypes, TestOrder, FirstPassed, Cleared, SecondPassed, SetComing

LEMMA TestMeansOrder ==
  ASSUME TestInv
  PROVE  Exchange!SecondWaitNeedsSecondSet /\ Exchange!Event!TypeOK
<1>1. Exchange!SecondWaitNeedsSecondSet
  BY DEF TestInv, TestOrder, Exchange!SecondWaitNeedsSecondSet, RunOver
<1>2. Exchange!Event!TypeOK
  BY EventLabels, EventTestAssumption
     DEF TestInv, TestTypes, Exchange!Event!TypeOK, Exchange!Event!Outside, Exchange!Event!Critical,
         Exchange!Event!SetterLabels, InWait, InReset
<1> QED BY <1>1, <1>2

-----------------------------------------------------------------------------
(* Proof, for any objects and perils.  What holds of every object: its      *)
(* handle is valid from creation to join; flags and past waits say where    *)
(* its child is (Told); the owner's call says how much of it is left        *)
(* (Lives); and without the peril at hand creation succeeds, and a child is *)
(* over only when it said so or was cancelled (Regular).                    *)
Over == {"none", "leaving", "exited", "joined"}
On(place, o) == owner = [at |-> place, on |-> o]

Typed ==
  /\ m_isStarted \in [Object -> BOOLEAN] /\ m_isDone \in [Object -> BOOLEAN]
  /\ m_isStarted1 \in [Object -> BOOLEAN] /\ m_thread \in [Object -> BOOLEAN]
  /\ child \in [Object -> {"none", "created", "entering", "run", "ran", "threw",
                           "leaving", "exited", "joined"}]
  /\ cancelled \in [Object -> BOOLEAN] /\ waited \in [Object -> BOOLEAN]
  /\ life \in [Object -> {"derived", "base", "freed"}]
  /\ owner = Class!Rest \/ owner \in [at : {"execute", "join", "destroying", "joinKilled"}, on : Object]

Told ==
  \A o \in Object :
    /\ m_thread[o] <=> child[o] \notin {"none", "joined"}
    /\ child[o] # "none" \/ waited[o] => m_isStarted[o]
    /\ m_isDone[o] => child[o] \in Over \ {"none"}
    /\ waited[o] => child[o] \in Over

LivesOf(o) ==
  /\ On("execute", o) => m_isStarted[o] /\ child[o] = "none" /\ ~waited[o] /\ life[o] = "derived"
  /\ On("destroying", o) \/ On("joinKilled", o) => life[o] = "base"
  /\ cancelled[o] => On("joinKilled", o) \/ life[o] = "freed"
  /\ life[o] = "freed" => child[o] \in Over
  /\ "early" \notin perils /\ life[o] # "derived" => child[o] \in Over
Lives == \A o \in Object : LivesOf(o)

RegularOf(o) ==
  /\ "create" \notin perils /\ m_isStarted[o] => child[o] # "none" \/ On("execute", o)
  /\ child[o] = "threw" => "throw" \in perils
  /\ "throw" \notin perils /\ child[o] \in Over \ {"none"} => m_isDone[o] \/ cancelled[o]
Regular == \A o \in Object : RegularOf(o)

ThreadInv == Typed /\ Told /\ Lives /\ Regular /\ Class!NoFault

(* A step of the owner in a call on an object.                              *)
LEMMA OwnerKeepsInv ==
  ASSUME ThreadInv, NEW o \in Object, UNCHANGED perils,
         Class!start(o) \/ Class!wait(o) \/ Class!destroy(o) \/ Class!Owner(o)
  PROVE  ThreadInv'
<1> USE DEF ThreadInv, Typed, Told, Lives, LivesOf, Regular, RegularOf, Class!NoFault, On, Over,
         Class!Rest, Class!flags, Class!Running
<1>1. CASE Class!start(o)
  BY <1>1 DEF Class!start, Class!AtRest, Class!MayStart, Class!Go
<1>2. CASE Class!wait(o)
  <2>1. CASE Class!MustJoin(o)
    <3>1. owner = Class!Rest /\ owner' = [at |-> "join", on |-> o]
      BY <1>2, <2>1 DEF Class!wait, Class!AtRest, Class!Go
    <3>2. UNCHANGED <<m_isStarted, m_isDone, m_isStarted1, m_thread, child,
                      cancelled, life, waited, fault>>
      BY <1>2, <2>1 DEF Class!wait
    <3>3. \A p \in Object : ~On("execute", p) /\ ~On("joinKilled", p)
      BY <3>1
    <3>4. \A p \in Object : ~On("execute", p)' /\ ~On("joinKilled", p)' /\ ~On("destroying", p)'
      BY <3>1
    <3>5. Typed'
      BY <3>1, <3>2
    <3>6. Told' /\ Class!NoFault'
      BY <3>2
    <3>7. Lives'
      BY <3>2, <3>3, <3>4 DEF LivesOf
    <3>8. Regular'
      BY <3>2, <3>3, <3>4
    <3> QED BY <3>5, <3>6, <3>7, <3>8
  <2>2. CASE ~Class!MustJoin(o)
    <3>1. owner = Class!Rest /\ UNCHANGED <<m_isStarted, m_isDone, m_isStarted1, m_thread, child,
                                     cancelled, life, owner, fault>>
      BY <1>2, <2>2 DEF Class!wait, Class!AtRest
    <3>2. waited' = [waited EXCEPT ![o] = m_isStarted[o]]
      BY <1>2, <2>2 DEF Class!wait
    <3>3. m_isStarted[o] => child[o] \in Over
      BY <2>2 DEF Class!MustJoin
    <3>4. Typed' /\ Told'
      BY <3>1, <3>2, <3>3
    <3>5. Lives' /\ Regular' /\ Class!NoFault'
      BY <3>1, <3>2
    <3> QED BY <3>4, <3>5
  <2> QED BY <2>1, <2>2
<1>3. CASE Class!destroy(o)
  BY <1>3 DEF Class!destroy, Class!AtRest, Class!Go
<1>4. CASE Class!execute(o)
  <2>1. owner = [at |-> "execute", on |-> o] /\ owner' = Class!Rest /\ ~m_thread[o]
    BY <1>4 DEF Class!execute, Class!At
  <2>2. CASE m_thread' = [m_thread EXCEPT ![o] = TRUE] /\ child' = [child EXCEPT ![o] = "created"]
    <3>1. Typed' /\ Told'
      BY <1>4, <2>1, <2>2, ZenonT(60) DEF Class!execute
    <3>2. Lives' /\ Class!NoFault'
      BY <1>4, <2>1, <2>2 DEF Class!execute
    <3>3. Regular'
      <4> SUFFICES ASSUME NEW p \in Object PROVE RegularOf(p)'
        OBVIOUS
      <4>1. RegularOf(p) /\ (p # o => ~On("execute", p))
        BY <2>1
      <4>2. UNCHANGED <<m_isStarted, m_isDone, cancelled, perils>>
        BY <1>4 DEF Class!execute
      <4> QED BY <2>2, <4>1, <4>2
    <3> QED BY <3>1, <3>2, <3>3
  <2>3. CASE "create" \in perils /\ UNCHANGED <<m_thread, child>>
    BY <1>4, <2>1, <2>3 DEF Class!execute
  <2> QED BY <1>4, <2>1, <2>2, <2>3 DEF Class!execute
<1>5. CASE Class!join(o)
  BY <1>5 DEF Class!join, Class!At
<1>6. CASE Class!Dispose(o)
  BY <1>6 DEF Class!Dispose, Class!At, Class!Kills
<1>7. CASE Class!Kill(o)
  <2>1. owner = [at |-> "destroying", on |-> o]
    BY <1>7 DEF Class!Kill, Class!At
  <2>2. CASE m_thread[o]
    <3>1. owner' = [at |-> "joinKilled", on |-> o] /\ cancelled' = [cancelled EXCEPT ![o] = TRUE]
      BY <1>7, <2>2 DEF Class!Kill, Class!Go
    <3>2. UNCHANGED <<m_isStarted, m_isDone, m_isStarted1, m_thread, child, life, waited, fault>>
      BY <1>7, <2>2 DEF Class!Kill
    <3>3. Typed'
      BY <3>1, <3>2
    <3>4. Told' /\ Class!NoFault'
      BY <3>2
    <3>5. Lives'
      <4> SUFFICES ASSUME NEW p \in Object PROVE LivesOf(p)'
        OBVIOUS
      <4>1. LivesOf(p) /\ ~On("joinKilled", p) /\ ~On("execute", p)'
        BY <2>1, <3>1
      <4>2. On("joinKilled", o)' /\ ~On("destroying", p)' /\ (On("joinKilled", p)' => p = o)
        BY <3>1
      <4>3. On("destroying", o)
        BY <2>1
      <4> QED BY <3>1, <3>2, <4>1, <4>2, <4>3
    <3>6. Regular'
      <4> SUFFICES ASSUME NEW p \in Object PROVE RegularOf(p)'
        OBVIOUS
      <4>1. RegularOf(p) /\ ~On("execute", p)
        BY <2>1
      <4> QED BY <3>1, <3>2, <4>1
    <3> QED BY <3>3, <3>4, <3>5, <3>6
  <2>3. CASE ~m_thread[o]
    <3>1. perils # {}
      BY <1>7, <2>1, <2>3 DEF Class!Kill, Class!Kills
    <3>2. UNCHANGED <<m_isStarted, m_isDone, m_isStarted1, m_thread, child,
                      cancelled, life, owner, waited>>
      BY <1>7, <2>3 DEF Class!Kill
    <3> QED BY <3>1, <3>2
  <2> QED BY <2>2, <2>3
<1>8. CASE Class!JoinKilled(o)
  BY <1>8 DEF Class!JoinKilled, Class!At, Class!Killed
<1> QED BY <1>1, <1>2, <1>3, <1>4, <1>5, <1>6, <1>7, <1>8 DEF Class!Owner

(* A step of the child of an object.                                        *)
LEMMA ChildKeepsInv ==
  ASSUME ThreadInv, NEW o \in Object, UNCHANGED perils, Class!Child(o) \/ Class!Work(o)
  PROVE  ThreadInv'
<1> USE DEF ThreadInv, Typed, Told, Lives, LivesOf, Regular, RegularOf, Class!NoFault, On, Over,
         Class!Rest, Class!flags, Class!Running
<1>1. CASE Class!Began(o)
  <2>1. life[o] # "freed"
    BY <1>1 DEF Class!Began
  <2>2. Class!NoFault'
    BY <1>1, <2>1 DEF Class!Began, Class!Touch
  <2>3. Typed' /\ Told'
    BY <1>1, ZenonT(60) DEF Class!Began
  <2>4. Lives'
    BY <1>1, ZenonT(60) DEF Class!Began
  <2>5. Regular'
    <3> SUFFICES ASSUME NEW p \in Object PROVE RegularOf(p)'
      BY DEF Regular
    <3>1. RegularOf(p)
      BY DEF Regular
    <3> QED BY <1>1, <3>1, ZenonT(60) DEF Class!Began
  <2> QED BY <2>2, <2>3, <2>4, <2>5
<1>2. CASE Class!Enter(o)
  <2>1. Class!NoFault'
    BY <1>2 DEF Class!Enter
  <2>2. Typed' /\ Told'
    BY <1>2, ZenonT(60) DEF Class!Enter
  <2>3. Lives'
    BY <1>2, ZenonT(60) DEF Class!Enter
  <2>4. Regular'
    <3> SUFFICES ASSUME NEW p \in Object PROVE RegularOf(p)'
      BY DEF Regular
    <3>1. RegularOf(p)
      BY DEF Regular
    <3> QED BY <1>2, <3>1, ZenonT(60) DEF Class!Enter
  <2> QED BY <2>1, <2>2, <2>3, <2>4
<1>3. CASE Class!RunEnds(o)
  BY <1>3 DEF Class!RunEnds, Class!Outcomes
<1>4. CASE Class!Unwind(o)
  BY <1>4 DEF Class!Unwind
<1>5. CASE Class!Done(o)
  <2>1. life[o] # "freed"
    BY <1>5 DEF Class!Done
  <2>2. Class!NoFault'
    BY <1>5, <2>1 DEF Class!Done, Class!Touch
  <2>3. Typed' /\ Told'
    BY <1>5, ZenonT(60) DEF Class!Done
  <2>4. Lives'
    BY <1>5, ZenonT(60) DEF Class!Done
  <2>5. Regular'
    <3> SUFFICES ASSUME NEW p \in Object PROVE RegularOf(p)'
      BY DEF Regular
    <3>1. RegularOf(p)
      BY DEF Regular
    <3> QED BY <1>5, <3>1, ZenonT(60) DEF Class!Done
  <2> QED BY <2>2, <2>3, <2>4, <2>5
<1>6. CASE Class!Terminate(o)
  BY <1>6 DEF Class!Terminate
<1>7. CASE Class!Work(o)
  BY <1>7 DEF Class!Work
<1> QED BY <1>1, <1>2, <1>3, <1>4, <1>5, <1>6, <1>7 DEF Class!Child

(* No step makes a fault that has no name, whatever the state.              *)
LEMMA FaultKeepsType ==
  ASSUME fault \in Class!Faults, NEW o \in Object,

                          Class!start(o) \/ Class!wait(o) \/ Class!destroy(o) \/ Class!Owner(o) \/ Class!Child(o) \/ Class!Work(o)
  PROVE  fault' \in Class!Faults
<1>1. CASE Class!start(o) \/ Class!wait(o) \/ Class!destroy(o)
  BY <1>1 DEF Class!start, Class!wait, Class!destroy
<1>2. CASE Class!Owner(o)
  BY <1>2 DEF Class!Owner, Class!execute, Class!join, Class!Dispose, Class!Kill, Class!JoinKilled, Class!Faults
<1>3. CASE Class!Child(o)
  BY <1>3 DEF Class!Child, Class!Began, Class!Enter, Class!RunEnds, Class!Unwind, Class!Done,
           Class!Terminate, Class!Touch, Class!Faults
<1>4. CASE Class!Work(o)
  BY <1>4 DEF Class!Work, Class!Faults
<1> QED BY <1>1, <1>2, <1>3, <1>4

LEMMA InvMeansTypeOK == ThreadInv /\ fault \in Class!Faults /\ perils \in Perils => Class!TypeOK
BY DEF ThreadInv, Typed, Class!TypeOK

LEMMA ThreadInvHolds == Class!Spec => []ThreadInv
<1>1. Class!Init => ThreadInv
  BY DEF Class!Init, ThreadInv, Typed, Told, Lives, LivesOf, Regular, RegularOf, Class!NoFault, On,
           Over, Class!Rest
<1>2. ThreadInv /\ [Class!Next]_(Class!vars) => ThreadInv'
  <2>1. ThreadInv /\ UNCHANGED Class!vars => ThreadInv'
    BY DEF Class!vars, Class!state, ThreadInv, Typed, Told, Lives, LivesOf, Regular, RegularOf,
             Class!NoFault, On
  <2> QED BY <2>1, OwnerKeepsInv, ChildKeepsInv DEF Class!Next
<1> QED BY <1>1, <1>2, PTL DEF Class!Spec

(* For any objects, and whatever their creation, their runs and their       *)
(* owner do: wait() returns when run() is over; an object whose owner waits *)
(* is whole while its run() executes; and no memory is given back under a   *)
(* child.                                                                   *)
THEOREM ThreadsOutlived ==
  Class!Spec => [](Class!WaitMeansRunIsOver /\ Class!ObjectOutlivesRun /\ Class!MemoryOutlivesChild)
<1>1. ThreadInv => Class!WaitMeansRunIsOver /\ Class!ObjectOutlivesRun /\ Class!MemoryOutlivesChild
  BY DEF ThreadInv, Typed, Told, Lives, LivesOf, Over, Class!WaitMeansRunIsOver,
           Class!ObjectOutlivesRun, Class!MemoryOutlivesChild
<1> QED BY <1>1, ThreadInvHolds, PTL

(* An owner without perils meets no fault, whatever number of objects it    *)
(* starts, polls, waits for and destroys.                                   *)
THEOREM ThreadsNoFault == Class!Spec => []Class!NoFault
<1>1. ThreadInv => Class!NoFault
  BY DEF ThreadInv
<1> QED BY <1>1, ThreadInvHolds, PTL

-----------------------------------------------------------------------------
(* The programs together.  A step is a step of one of them and leaves the   *)
(* state of the others alone.                                               *)
OwnerInv == ThreadInv /\ fault \in Class!Faults /\ perils \in Perils

ThreadsInv ==
  /\ program \in Program
  /\ IF program = "test" THEN TestInv ELSE OwnerInv
  /\ LockInv /\ Nested /\ RefInv /\ TimeInv /\ SleepInv /\ StringerInv

LEMMA OwnerStart == Class!Init => OwnerInv
BY DEF Class!Init, OwnerInv, ThreadInv, Typed, Told, Lives, LivesOf,
       Regular, RegularOf, Class!NoFault, On, Over, Class!Rest, Class!Faults

LEMMA OwnerStep ==
  ASSUME OwnerInv, Class!Next
  PROVE  OwnerInv'
<1>1. PICK o \in Object :
        \/ Class!start(o) \/ Class!wait(o) \/ Class!destroy(o) \/ Class!Owner(o)
        \/ Class!Child(o) \/ Class!Work(o)
  BY DEF Class!Next
<1>2. UNCHANGED perils
  BY DEF Class!Next
<1>3. ThreadInv'
  <2>1. CASE Class!start(o) \/ Class!wait(o) \/ Class!destroy(o) \/ Class!Owner(o)
    BY <1>2, <2>1, OwnerKeepsInv DEF OwnerInv
  <2>2. CASE Class!Child(o) \/ Class!Work(o)
    BY <1>2, <2>2, ChildKeepsInv DEF OwnerInv
  <2> QED BY <1>1, <2>1, <2>2
<1>4. fault' \in Class!Faults
  BY <1>1, FaultKeepsType DEF OwnerInv
<1> QED BY <1>2, <1>3, <1>4 DEF OwnerInv

LEMMA OwnerRests ==
  ASSUME OwnerInv, UNCHANGED classVars
  PROVE  OwnerInv'
BY DEF classVars, OwnerInv, ThreadInv, Typed, Told, Lives, LivesOf,
       Regular, RegularOf, Class!NoFault, On

LEMMA Starts == Init => ThreadsInv
<1> SUFFICES ASSUME Init PROVE ThreadsInv
  OBVIOUS
<1>1. LockInv /\ Nested
  <2>1. Nested
    <3>1. raced = FALSE /\ m_isLock = [t \in Thread |-> <<>>]
      BY DEF Init, LocksInit
    <3>2. \A t \in Thread : Len(m_isLock[t]) = 0
      BY <3>1
    <3>3. 0 <= MaxNested
      BY LocksAssumption
    <3>4. raced \in BOOLEAN
      BY <3>1
    <3>5. \A t \in Thread : Len(m_isLock[t]) <= MaxNested
      BY <3>2, <3>3
    <3> QED BY <3>4, <3>5 DEF Nested
  <2> QED BY <2>1, LocksStart DEF Init
<1>2. RefInv
  BY RefsStart, RefCountAssumption DEF Init
<1>3. TimeInv /\ SleepInv /\ StringerInv
  BY TimeStart, StringerStart DEF Init
<1>4. program \in Program /\ IF program = "test" THEN TestInv ELSE OwnerInv
  BY TestStart, OwnerStart DEF Init
<1> QED BY <1>1, <1>2, <1>3, <1>4 DEF ThreadsInv

LEMMA Steps == ThreadsInv /\ [Next]_vars => ThreadsInv'
<1> SUFFICES ASSUME ThreadsInv, [Next]_vars PROVE ThreadsInv'
  OBVIOUS
<1> USE DEF ThreadsInv
<1>1. program' = program
  BY DEF Next, vars, OwnerRest, TestRest, LockRest, ShareRest, TimeRest, PrintRest
<1>2. (IF program = "test" THEN TestInv ELSE OwnerInv)'
  <2>1. CASE program = "owner" /\ Class!Next
    BY <1>1, <2>1, OwnerStep
  <2>2. CASE program = "test" /\ Exchange!Next
    BY <1>1, <2>2, TestStep
  <2>3. CASE UNCHANGED <<testVars, classVars>>
    <3>1. CASE program = "test"
      <4>1. UNCHANGED <<triggered, mutex, pc, child, mainAt, kidAt>>
        BY <2>3 DEF testVars, classVars
      <4> QED BY <1>1, <3>1, <4>1, TestRests
    <3>2. CASE program # "test"
      BY <1>1, <2>3, <3>2, OwnerRests
    <3> QED BY <3>1, <3>2
  <2> QED BY <2>1, <2>2, <2>3
          DEF Next, vars, LockRest, ShareRest, TimeRest, PrintRest
<1>3. LockInv' /\ Nested'
  <2>1. CASE LocksNext
    BY <2>1, LocksStep, NestedStep
  <2>2. CASE UNCHANGED lockVars
    <3>1. Nested'
      BY <2>2 DEF lockVars, Nested
    <3> QED BY <2>2, <3>1, LocksRest
  <2> QED BY <2>1, <2>2
          DEF Next, vars, OwnerRest, TestRest, NoSharing, ShareRest, TimeRest, PrintRest
<1>4. RefInv'
  <2>1. CASE RefNext
    BY <2>1, RefsStep, RefCountAssumption
  <2>2. CASE UNCHANGED refVars
    BY <2>2, RefsRest
  <2> QED BY <2>1, <2>2
          DEF Next, vars, OwnerRest, TestRest, NoSharing, LockRest, TimeRest, PrintRest
<1>5. TimeInv' /\ SleepInv'
  <2>1. CASE Time!TimeNext
    BY <2>1, TimeStep, SleepStep
  <2>2. CASE UNCHANGED timeVars
    BY <2>2, TimeRests
  <2> QED BY <2>1, <2>2
          DEF Next, vars, OwnerRest, TestRest, NoSharing, LockRest, ShareRest, PrintRest
<1>6. StringerInv'
  <2>1. CASE Stringer!StringerNext
    BY <2>1, StringerStep
  <2>2. CASE UNCHANGED stringerVars
    BY <2>2, StringerRests
  <2> QED BY <2>1, <2>2
          DEF Next, vars, OwnerRest, TestRest, NoSharing, LockRest, ShareRest, TimeRest
<1> QED BY <1>1, <1>2, <1>3, <1>4, <1>5, <1>6

LEMMA ThreadsInvHolds == Spec => []ThreadsInv
BY Starts, Steps, PTL DEF Spec

(* Every program keeps its state in range, whatever the numbers of threads, *)
(* objects, locks, variables, printers and texts.                           *)
THEOREM ThreadsTypeCorrect == Spec => []TypeOK
<1>1. ThreadsInv => TypeOK
  <2> SUFFICES ASSUME ThreadsInv PROVE TypeOK
    OBVIOUS
  <2> USE DEF ThreadsInv
  <2>1. program # "test" => Class!TypeOK
    BY InvMeansTypeOK DEF OwnerInv
  <2>2. program = "test" => Exchange!Event!TypeOK
    BY TestMeansOrder
  <2>3. LocksTypeOK /\ RefTypeOK /\ Time!TimeTypeOK /\ Stringer!StringerTypeOK
    BY LocksInRange, TimeMeansKept, StringerMeansWhole DEF RefInv
  <2> QED BY <2>1, <2>2, <2>3 DEF TypeOK
<1> QED BY <1>1, ThreadsInvHolds, PTL

(* An owner of threaded objects whose threads are created, whose runs do    *)
(* not throw and who waits before it destroys meets no pure virtual call,   *)
(* no destroyed member, no freed object and no invalid handle.              *)
THEOREM OwnerMeetsNoFault == Spec => []NoFault
<1>1. ThreadsInv => NoFault
  BY DEF ThreadsInv, OwnerInv, ThreadInv, NoFault
<1> QED BY <1>1, ThreadsInvHolds, PTL

(* wait() (threadedClass.cpp:60) returns when run() is over, an object      *)
(* whose owner waits is whole while its run() executes, and its memory goes *)
(* after its child.                                                         *)
THEOREM ObjectsOutliveRuns == Spec => []ObjectOutlivesRun
<1>1. ThreadsInv => ObjectOutlivesRun
  BY DEF ThreadsInv, OwnerInv, ThreadInv, Typed, Told, Lives,
         LivesOf, Over, ObjectOutlivesRun, Class!WaitMeansRunIsOver,
         Class!ObjectOutlivesRun, Class!MemoryOutlivesChild
<1> QED BY <1>1, ThreadsInvHolds, PTL

(* In tests/test_event.cpp run() passes its second wait only after the main *)
(* thread began the second setEvent, in every schedule and with spurious    *)
(* wake-ups.                                                                *)
THEOREM SecondSetIsNeeded == Spec => []SecondWaitNeedsSecondSet
<1>1. ThreadsInv => SecondWaitNeedsSecondSet
  BY TestMeansOrder DEF ThreadsInv, SecondWaitNeedsSecondSet
<1> QED BY <1>1, ThreadsInvHolds, PTL

(* Whatever the threads at the lock of the smart pointers do, at most one   *)
(* of them is in a section of a lock that was not made twice, and a mutex   *)
(* is as deep as its open sections.                                         *)
THEOREM LocksExclude == Spec => []OneInside
<1>1. ThreadsInv => OneInside
  BY LocksMeanOneInside DEF ThreadsInv
<1> QED BY <1>1, ThreadsInvHolds, PTL

(* However the variables of any number of threads are made, copied,         *)
(* assigned and destroyed, counters stand for holders, what is held is      *)
(* alive, and only what an assignment dropped is never deleted.             *)
THEOREM RefCounted == Spec => []ReferencesCounted
<1>1. ThreadsInv => ReferencesCounted
  BY RefsMeanCounted DEF ThreadsInv
<1> QED BY <1>1, ThreadsInvHolds, PTL

(* A timeout of TimeoutMonitor (TimeoutMonitor.cpp:49) expires within a     *)
(* second of its time, and a sleep of less than a second is never refused,  *)
(* nor the rest of one that a signal ended, however long a second is.       *)
THEOREM TimesAreKept == Spec => []TimesKept
<1>1. ThreadsInv => TimesKept
  BY TimeMeansKept DEF ThreadsInv
<1> QED BY <1>1, ThreadsInvHolds, PTL

(* What any number of threads print to one stringer stream is put out once, *)
(* every character of it, and in whole lines where lines are waited for.    *)
THEOREM LinesComeWhole == Spec => []LinesAreWhole
<1>1. ThreadsInv => LinesAreWhole
  BY StringerMeansWhole DEF ThreadsInv
<1> QED BY <1>1, ThreadsInvHolds, PTL
=============================================================================
