------------------------------ MODULE SmartPtr ------------------------------
(***************************************************************************)
(* cSmartPtr (Include/xStl/data/smartptr.inl) with the cCounter each group *)
(* of smart pointers shares, run by several threads.  A Cell is a heap     *)
(* allocation: the counter c and the object c it counts; cells are reused  *)
(* once both are freed.  Slots are the cSmartPtr variables.  A slot may be *)
(* a member of an object (MemberOf), as the next pointer of a list node.   *)
(*                                                                         *)
(* Each thread runs one call at a time, as a stack of frames: deleting an  *)
(* object runs the destructor of its member slot.                          *)
(***************************************************************************)
EXTENDS Integers, Sequences, FiniteSets

CONSTANTS Thread, Slot, Cell,
          None,         \* no slot, no cell, no thread
          Methods,      \* the DestructionMethods used, of {"delete", "none"}
          MemberOf,     \* [Cell -> Slot \cup {None}]: the member slot of an object
          Exclusive,    \* do callers keep copies of a variable and assignments to it apart?
          Pinned        \* do callers hold the object whose member they copy?

ASSUME SmartPtrAssumption ==
  /\ None \notin Slot \cup Cell \cup Thread
  /\ IsFiniteSet(Slot)
  /\ Methods \subseteq {"delete", "none"}
  /\ MemberOf \in [Cell -> Slot \cup {None}]
  /\ \A c, d \in Cell : MemberOf[c] = MemberOf[d] => c = d \/ MemberOf[c] = None
  /\ Exclusive \in BOOLEAN /\ Pinned \in BOOLEAN

VARIABLES constructed,  \* the slots whose lifetime has begun and not ended
          ptr,          \* the three fields of each slot
          count,        \* m_value of the counter of a cell
          counters,     \* the cells whose counter is allocated
          objects,      \* the cells whose object is allocated
          released,     \* objects left to the caller by SMARTPTR_DESTRUCT_NONE
          lock,         \* the holder of globalSmartPtrLock across steps
          stack,        \* the frames of each thread's call
          fault         \* the first illegal memory access, "none" so far

vars == <<constructed, ptr, count, counters, objects, released, lock, stack, fault>>
heap == <<count, counters, objects, released>>

Members == {MemberOf[c] : c \in Cell} \ {None}
Locals == Slot \ Members

Nowhere == [counter |-> None, object |-> None, method |-> "delete"]
Fields == [counter : Cell \cup {None}, object : Cell \cup {None},
           method : {"delete", "none"}]

Labels == {"decrease", "destroy", "deleteCounter", "clear",
           "lock", "takeCounter", "takeObject", "increase"}
Frame == [at : Labels, ptr : Slot, other : Slot \cup {None}]

(* An object whose member is still being destroyed keeps its cell. *)
Free == {c \in Cell \ (counters \cup objects \cup released) :
           MemberOf[c] \notin constructed}

Init ==
  /\ constructed = {}
  /\ ptr = [s \in Slot |-> Nowhere]
  /\ count = [c \in Cell |-> 0]
  /\ counters = {} /\ objects = {} /\ released = {}
  /\ lock = None
  /\ stack = [t \in Thread |-> <<>>]
  /\ fault = "none"

Idle(t) == fault = "none" /\ stack[t] = <<>>

(* The calls in progress that write the slot s, and those that copy it. *)
Writers(s) == {u \in Thread : \E i \in 1 .. Len(stack[u]) : stack[u][i].ptr = s}
Readers(s) == {u \in Thread : \E i \in 1 .. Len(stack[u]) : stack[u][i].other = s}
Ending(s) == \E u \in Thread : \E i \in 1 .. Len(stack[u]) :
               stack[u][i].ptr = s /\ stack[u][i].other = None

(* Callers never write one variable from two threads at once, nor use it   *)
(* outside its lifetime; an Exclusive caller does not copy it either while *)
(* another thread assigns to it.                                           *)
(* A slot through which another call reached a member is left alone till   *)
(* that call is over.                                                      *)
Unused(s) == Writers(s) = {} /\ Readers(s) = {}
Pinning(s) == ptr[s].object # None /\ MemberOf[ptr[s].object] # None
              /\ ~Unused(MemberOf[ptr[s].object])
MayRead(s) == ~Ending(s) /\ (Exclusive => Writers(s) = {})
MayWrite(s) == Writers(s) = {} /\ (Exclusive => Readers(s) = {}) /\ ~Pinning(s)
MayEnd(s) == Unused(s) /\ ~Pinning(s)

(* A member slot is reached through a local slot that holds its object; a  *)
(* pinned source keeps that object after the destination dropped its own.  *)
Reached(m, except) ==
  m \in Members => \E p \in Locals \ except :
                      /\ p \in constructed /\ Writers(p) = {}
                      /\ ptr[p].object # None
                      /\ MemberOf[ptr[p].object] = m

Enter(t, at, s, other) ==
  stack' = [stack EXCEPT ![t] = <<[at |-> at, ptr |-> s, other |-> other]>>]

(***************************************************************************)
(* The calls                                                               *)
(***************************************************************************)
(* cSmartPtr(): a NULL object with a counter of its own. *)
constructDefault(t, s) ==
  /\ Idle(t) /\ s \in Locals \ constructed /\ MayEnd(s)
  /\ \E c \in Free :
       /\ ptr' = [ptr EXCEPT ![s] = [Nowhere EXCEPT !.counter = c]]
       /\ count' = [count EXCEPT ![c] = 1]
       /\ counters' = counters \cup {c}
  /\ constructed' = constructed \cup {s}
  /\ UNCHANGED <<objects, released, lock, stack, fault>>

(* cSmartPtr(new T): the object's member slot, if it has one, is default   *)
(* constructed with it.                                                    *)
constructObject(t, s, method) ==
  /\ Idle(t) /\ s \in Locals \ constructed /\ MayEnd(s)
  /\ \E c \in Free :
       LET m == MemberOf[c]
           new == [counter |-> c, object |-> c, method |-> method]
       IN  /\ objects' = objects \cup {c}
           /\ IF m = None
              THEN /\ ptr' = [ptr EXCEPT ![s] = new]
                   /\ count' = [count EXCEPT ![c] = 1]
                   /\ counters' = counters \cup {c}
                   /\ constructed' = constructed \cup {s}
              ELSE \E d \in Free \ {c} :
                   /\ ptr' = [ptr EXCEPT ![s] = new,
                                         ![m] = [Nowhere EXCEPT !.counter = d]]
                   /\ count' = [count EXCEPT ![c] = 1, ![d] = 1]
                   /\ counters' = counters \cup {c, d}
                   /\ constructed' = constructed \cup {s, m}
  /\ UNCHANGED <<released, lock, stack, fault>>

copyConstruct(t, s, other) ==
  /\ Idle(t) /\ s \in Locals \ constructed /\ MayEnd(s)
  /\ other \in constructed /\ MayRead(other) /\ Reached(other, {})
  /\ Enter(t, "lock", s, other)
  /\ ptr' = [ptr EXCEPT ![s] = Nowhere]
  /\ UNCHANGED <<constructed, heap, lock, fault>>

(* operator=(const cSmartPtr&) for this != &other; the other case does     *)
(* nothing.                                                                *)
assign(t, s, other) ==
  /\ Idle(t) /\ s # other
  /\ s \in constructed /\ MayWrite(s) /\ Reached(s, {})
  /\ other \in constructed /\ MayRead(other)
  /\ Reached(other, IF Pinned THEN {s} ELSE {})
  /\ Enter(t, "decrease", s, other)
  /\ UNCHANGED <<constructed, ptr, heap, lock, fault>>

destruct(t, s) ==
  /\ Idle(t) /\ s \in Locals \cap constructed /\ MayEnd(s)
  /\ Enter(t, "decrease", s, None)
  /\ UNCHANGED <<constructed, ptr, heap, lock, fault>>

setDestructMethod(t, s, method) ==
  /\ Idle(t) /\ s \in constructed /\ MayWrite(s) /\ Reached(s, {})
  /\ ptr' = [ptr EXCEPT ![s].method = method]
  /\ UNCHANGED <<constructed, heap, lock, stack, fault>>

(* The caller deletes an object that was released to it, and with it the   *)
(* object's member slot.                                                   *)
dispose(t, c) ==
  /\ Idle(t) /\ c \in released /\ (MemberOf[c] # None => Unused(MemberOf[c]))
  /\ released' = released \ {c}
  /\ IF MemberOf[c] = None THEN UNCHANGED stack
     ELSE Enter(t, "decrease", MemberOf[c], None)
  /\ UNCHANGED <<constructed, ptr, count, counters, objects, lock, fault>>

(***************************************************************************)
(* The steps of a call: the top frame of the thread is at a label          *)
(***************************************************************************)
At(t, label) == /\ fault = "none"
                /\ stack[t] # <<>>
                /\ Head(stack[t]).at = label

Self(t) == Head(stack[t]).ptr
Other(t) == Head(stack[t]).other

Goto(t, label) == stack' = [stack EXCEPT ![t][1].at = label]
Return(t) == stack' = [stack EXCEPT ![t] = Tail(@)]

(* An access to memory that is not there ends the run. *)
Crash(what) == /\ fault' = what
               /\ UNCHANGED <<constructed, ptr, heap, lock, stack>>

(* Faulty: the last but one reference destroys the object. *)
AfterDecreaseEager(remaining) == IF remaining <= 1 THEN "destroy" ELSE "clear"
(* Faulty: a reference that is dropped never destroys. *)
AfterDecreaseLeak(remaining) == "clear"

AfterDecrease(remaining) == IF remaining = 0 THEN "destroy" ELSE "clear"

(* decreaseAndTest(): the decrement and its test under the global lock. *)
Decrease(t) ==
  LET c == ptr[Self(t)].counter
  IN  /\ At(t, "decrease") /\ lock = None
      /\ IF c \notin counters THEN Crash("use of a freed counter")
         ELSE /\ count' = [count EXCEPT ![c] = @ - 1]
              /\ Goto(t, AfterDecrease(count'[c]))
              /\ UNCHANGED <<constructed, ptr, counters, objects, released, lock, fault>>

(* free(): delete m_object according to this slot's method, outside the    *)
(* lock; ~T() runs the destructor of its member slot first.                *)
Destroy(t) ==
  LET s == Self(t)
      o == ptr[s].object
      top == [Head(stack[t]) EXCEPT !.at = "deleteCounter"]
      rest == <<top>> \o Tail(stack[t])
  IN  /\ At(t, "destroy")
      /\ \/ /\ o = None
            /\ stack' = [stack EXCEPT ![t] = rest]
            /\ UNCHANGED <<objects, released, fault>>
         \/ /\ o # None /\ ptr[s].method = "none"
            /\ stack' = [stack EXCEPT ![t] = rest]
            /\ objects' = objects \ {o}
            /\ released' = released \cup {o}
            /\ UNCHANGED fault
         \/ /\ o # None /\ ptr[s].method = "delete" /\ o \in objects
            /\ objects' = objects \ {o}
            /\ stack' = [stack EXCEPT ![t] =
                 IF MemberOf[o] = None THEN rest
                 ELSE <<[at |-> "decrease", ptr |-> MemberOf[o], other |-> None]>> \o rest]
            /\ UNCHANGED <<released, fault>>
         \/ /\ o # None /\ ptr[s].method = "delete" /\ o \notin objects
            /\ fault' = "second delete of an object"
            /\ UNCHANGED <<objects, released, stack>>
      /\ UNCHANGED <<constructed, ptr, count, counters, lock>>

DeleteCounter(t) ==
  LET c == ptr[Self(t)].counter
  IN  /\ At(t, "deleteCounter")
      /\ IF c \notin counters THEN Crash("second delete of a counter")
         ELSE /\ counters' = counters \ {c}
              /\ Goto(t, "clear")
              /\ UNCHANGED <<constructed, ptr, count, objects, released, lock, fault>>

(* Faulty: the cleared slot has lost its destruction method. *)
ClearedWithoutMethod(s) == [counter |-> None, object |-> None]

Cleared(s) == [ptr[s] EXCEPT !.counter = None, !.object = None]

(* The fields become NULL; a destructor ends there, an assignment goes on. *)
Clear(t) ==
  LET s == Self(t)
  IN  /\ At(t, "clear")
      /\ ptr' = [ptr EXCEPT ![s] = Cleared(s)]
      /\ IF Other(t) = None
         THEN constructed' = constructed \ {s} /\ Return(t)
         ELSE UNCHANGED constructed /\ Goto(t, "lock")
      /\ UNCHANGED <<heap, lock, fault>>

Lock(t) ==
  /\ At(t, "lock") /\ lock = None
  /\ lock' = t
  /\ Goto(t, "takeCounter")
  /\ UNCHANGED <<constructed, ptr, heap, fault>>

TakeCounter(t) ==
  /\ At(t, "takeCounter")
  /\ IF Other(t) \notin constructed THEN Crash("read of a destroyed slot")
     ELSE /\ ptr' = [ptr EXCEPT ![Self(t)].counter = ptr[Other(t)].counter,
                                ![Self(t)].method = ptr[Other(t)].method]
          /\ Goto(t, "takeObject")
          /\ UNCHANGED <<constructed, heap, lock, fault>>

TakeObject(t) ==
  /\ At(t, "takeObject")
  /\ IF Other(t) \notin constructed THEN Crash("read of a destroyed slot")
     ELSE /\ ptr' = [ptr EXCEPT ![Self(t)].object = ptr[Other(t)].object]
          /\ Goto(t, "increase")
          /\ UNCHANGED <<constructed, heap, lock, fault>>

(* Faulty: the copy is not counted. *)
IncreasedNot(c) == count

Increased(c) == [count EXCEPT ![c] = @ + 1]

(* Faulty: the lock is still held when the copy is done. *)
UnlockedNot == lock

Unlocked == None

Increase(t) ==
  LET c == ptr[Self(t)].counter
  IN  /\ At(t, "increase")
      /\ IF c \notin counters THEN Crash("use of a freed counter")
         ELSE /\ count' = Increased(c)
              /\ lock' = Unlocked
              /\ constructed' = constructed \cup {Self(t)}
              /\ Return(t)
              /\ UNCHANGED <<ptr, counters, objects, released, fault>>

Step(t) == Decrease(t) \/ Destroy(t) \/ DeleteCounter(t) \/ Clear(t)
           \/ Lock(t) \/ TakeCounter(t) \/ TakeObject(t) \/ Increase(t)

Call(t) ==
  \/ \E s \in Slot : constructDefault(t, s) \/ destruct(t, s)
  \/ \E s \in Slot, m \in Methods : constructObject(t, s, m) \/ setDestructMethod(t, s, m)
  \/ \E s, other \in Slot : copyConstruct(t, s, other) \/ assign(t, s, other)
  \/ \E c \in Cell : dispose(t, c)

Next == \E t \in Thread : Call(t) \/ Step(t)

Spec == Init /\ [][Next]_vars

(* A thread inside a call keeps running; a thread waiting for the global   *)
(* lock gets it if it is free again and again.                             *)
FairSpec == Spec /\ \A t \in Thread : SF_vars(Step(t))
-----------------------------------------------------------------------------
Faults == {"none", "use of a freed counter", "second delete of a counter",
           "second delete of an object", "read of a destroyed slot"}

TypeOK ==
  /\ constructed \subseteq Slot
  /\ ptr \in [Slot -> Fields]
  /\ count \in [Cell -> Int]
  /\ counters \subseteq Cell /\ objects \subseteq Cell /\ released \subseteq Cell
  /\ lock \in Thread \cup {None}
  /\ stack \in [Thread -> Seq(Frame)]
  /\ fault \in Faults

(* The slots that own a share of a count: those between their decrement    *)
(* and their clearing have given it back, those being copied into have not *)
(* taken it yet.                                                           *)
Between(s) ==
  \E t \in Thread : \E i \in 1 .. Len(stack[t]) :
     /\ stack[t][i].ptr = s
     /\ stack[t][i].at \in {"destroy", "deleteCounter", "clear",
                            "takeObject", "increase"}

Holders(c) == {s \in Slot : ptr[s].counter = c /\ ~Between(s)}

(* No thread decrements, increments or deletes a counter, deletes an       *)
(* object or reads a slot that is already gone.                            *)
NoFault == fault = "none"

(* Every counter is, at every step of every call, the number of smart      *)
(* pointers that own a share of it.                                        *)
CountIsReferences == \A c \in counters : fault = "none" => count[c] = Cardinality(Holders(c))

(* A smart pointer that owns a share points at an object that still lives: *)
(* no other thread has deleted it, however their releases interleave.      *)
HeldObjectLives ==
  \A s \in constructed :
     ptr[s].object # None /\ ~Between(s) => ptr[s].object \in objects \cup released

(* When no call is in progress, what is allocated is what some smart       *)
(* pointer holds: no release forgot to delete.                             *)
NothingLeaks ==
  (\A t \in Thread : stack[t] = <<>>) =>
     /\ counters = {ptr[s].counter : s \in constructed}
     /\ objects \subseteq {ptr[s].object : s \in constructed}

(* A call that was started ends. *)
CallsEnd == \A t \in Thread : (stack[t] # <<>>) ~> (stack[t] = <<>>)
=============================================================================
