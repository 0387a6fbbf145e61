-------------------------------- MODULE Locks --------------------------------
(***************************************************************************)
(* The lock of all smart pointers: cSmartPtrLockable::getInstance makes it *)
(* on first use, without synchronisation, and every section is held by a   *)
(* cLock over its recursive cMutex.  The threads take it, take it again in *)
(* a nested section, and give it back early or at the end of a block.      *)
(***************************************************************************)
EXTENDS Naturals, Sequences, FiniteSets

CONSTANTS Thread,       \* the threads that use smart pointers
          NoThread,     \* the owner of a free mutex
          MaxLocks,     \* bound: locks ever made
          MaxNested     \* bound: sections within one another

ASSUME LocksAssumption == NoThread \notin Thread /\ MaxLocks \in Nat \ {0} /\ MaxNested \in Nat \ {0}

VARIABLES m_singleton,  \* the lock of the process, 0 for NULL
          made,         \* how many locks were made
          m_mutex,      \* of every lock the owner and the depth of its mutex
          at,           \* where a thread is
          using,        \* the lock a thread made, or was given by getInstance
          m_isLock,     \* the cLocks of a thread, the innermost last
          raced         \* ghost: two threads were making the lock at a time

lockVars == <<m_singleton, made, m_mutex, at, using, m_isLock, raced>>

Lock == 1 .. MaxLocks
Places == {"outside", "create", "store", "return", "inside"}
Free == [owner |-> NoThread, depth |-> 0]

LocksInit ==
  /\ m_singleton = 0 /\ made = 0 /\ raced = FALSE
  /\ m_mutex = [lock \in Lock |-> Free]
  /\ at = [t \in Thread |-> "outside"]
  /\ using = [t \in Thread |-> 0]
  /\ m_isLock = [t \in Thread |-> <<>>]

Goes(t, place) == at' = [at EXCEPT ![t] = place]
Making == {t \in Thread : at[t] \in {"create", "store"}}

(* getInstance() in its four steps: the test of the pointer, the new lock,  *)
(* the assignment, and the pointer read once more for the return.           *)
Test(t) ==
  /\ at[t] = "outside"
  /\ Goes(t, IF m_singleton = 0 THEN "create" ELSE "return")
  /\ raced' = (raced \/ (m_singleton = 0 /\ Making # {}))
  /\ UNCHANGED <<m_singleton, made, m_mutex, using, m_isLock>>
Create(t) ==
  /\ at[t] = "create" /\ made < MaxLocks /\ Goes(t, "store")
  /\ made' = made + 1 /\ using' = [using EXCEPT ![t] = made + 1]
  /\ UNCHANGED <<m_singleton, m_mutex, m_isLock, raced>>
Store(t) ==
  /\ at[t] = "store" /\ Goes(t, "return")
  /\ m_singleton' = using[t]
  /\ UNCHANGED <<made, m_mutex, using, m_isLock, raced>>
Return(t) ==
  /\ at[t] = "return" /\ Goes(t, "inside")
  /\ using' = [using EXCEPT ![t] = m_singleton]
  /\ UNCHANGED <<m_singleton, made, m_mutex, m_isLock, raced>>

(* The mutex of a lock: free, or a thread's own to be taken once more.      *)
MayLock(t, lock) == m_mutex[lock].owner \in {NoThread, t}
lock(t, l) ==
  m_mutex' = [m_mutex EXCEPT ![l] = [owner |-> t, depth |-> @.depth + 1]]
UnlocksAtOnce(l) == m_mutex' = [m_mutex EXCEPT ![l] = Free]   \* a faulty variant
unlock(l) ==
  m_mutex' = [m_mutex EXCEPT ![l] =
    IF @.depth = 1 THEN Free ELSE [owner |-> @.owner, depth |-> @.depth - 1]]

Others == UNCHANGED <<m_singleton, made, using, raced>>
Innermost(t) == m_isLock[t][Len(m_isLock[t])]

(* The constructor of cLock, its unlock() and its destructor.               *)
Construct(t) ==
  /\ at[t] = "inside" /\ Len(m_isLock[t]) < MaxNested
  /\ MayLock(t, using[t]) /\ lock(t, using[t])
  /\ m_isLock' = [m_isLock EXCEPT ![t] = Append(@, TRUE)]
  /\ UNCHANGED at /\ Others
UnlockEarly(t) ==
  /\ m_isLock[t] # <<>> /\ Innermost(t)
  /\ unlock(using[t])
  /\ m_isLock' = [m_isLock EXCEPT ![t][Len(m_isLock[t])] = FALSE]
  /\ UNCHANGED at /\ Others
Destruct(t) ==
  /\ m_isLock[t] # <<>>
  /\ IF Innermost(t) THEN unlock(using[t]) ELSE UNCHANGED m_mutex
  /\ m_isLock' = [m_isLock EXCEPT ![t] = SubSeq(@, 1, Len(@) - 1)]
  /\ Goes(t, IF Len(m_isLock[t]) = 1 THEN "outside" ELSE "inside")
  /\ Others

(* unload(), which the program calls when no thread is at the lock.         *)
Unload ==
  /\ m_singleton # 0 /\ made < MaxLocks
  /\ \A t \in Thread : at[t] = "outside"
  /\ m_singleton' = 0
  /\ UNCHANGED <<made, m_mutex, at, using, m_isLock, raced>>

(* The end of the outermost block.                                          *)
Departs(t) == Len(m_isLock[t]) = 1 /\ Destruct(t)

Gets(t) == Test(t) \/ Create(t) \/ Store(t) \/ Return(t)
Leaves(t) == UnlockEarly(t) \/ Destruct(t)
ThreadMoves(t) == Gets(t) \/ Construct(t) \/ Leaves(t)
LocksNext == Unload \/ \E t \in Thread : ThreadMoves(t)

LocksSpec == LocksInit /\ [][LocksNext]_lockVars
-----------------------------------------------------------------------------
Open(locks) == {k \in DOMAIN locks : locks[k]}
Sections(t) == Open(m_isLock[t])

LocksTypeOK ==
  /\ m_singleton \in 0 .. MaxLocks /\ made \in 0 .. MaxLocks
  /\ m_mutex \in [Lock -> [owner : Thread \cup {NoThread}, depth : 0 .. MaxNested]]
  /\ at \in [Thread -> Places] /\ using \in [Thread -> 0 .. MaxLocks]
  /\ \A t \in Thread : m_isLock[t] \in Seq(BOOLEAN) /\ Len(m_isLock[t]) <= MaxNested
  /\ raced \in BOOLEAN

(* A mutex is held by the thread whose sections it guards, as often as that *)
(* thread has open sections, those given back early not counted.            *)
DepthIsSections ==
  \A t \in Thread : m_isLock[t] # <<>> =>
    LET mutex == m_mutex[using[t]]
    IN /\ Sections(t) # {} => mutex.owner = t /\ mutex.depth = Cardinality(Sections(t))
       /\ mutex.owner = t => Sections(t) # {}

(* As long as no two threads have been making the lock at a time, one       *)
(* thread at most is in a section, since all work under the same mutex, and *)
(* the mutex is free again when the last section over it has ended.         *)
OneInside ==
  /\ ~raced => \A t, u \in Thread : Sections(t) # {} /\ Sections(u) # {} => t = u
  /\ DepthIsSections

(* A thread that is given the lock gets into its section, if every thread   *)
(* leaves its own.                                                          *)
LockIsGiven ==
  \A t \in Thread : (at[t] = "inside" /\ m_isLock[t] = <<>>) ~> (m_isLock[t] # <<>>)

=============================================================================
