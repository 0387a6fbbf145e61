----------------------------- MODULE UnixEvent ------------------------------
(***************************************************************************)
(* cEvent on Linux (Source/xStl/os/UnixOS/unixEvent.cpp): a flag, a mutex  *)
(* and a condition variable.  Every pthread call is a step.                *)
(***************************************************************************)
EXTENDS Naturals, TLAPS

CONSTANTS Thread,
          Waiters,   \* the threads that call wait
          None

ASSUME EventAssumption == None \notin Thread /\ Waiters \subseteq Thread

VARIABLES triggered,  \* m_handle.triggered
          mutex,      \* the owner of m_handle.mutex
          pc          \* where each thread is inside cEvent

vars == <<triggered, mutex, pc>>

(* Faulty: resetEvent waits for the event before it clears it.             *)
AfterLockResetWaits == [enterSet |-> "trigger", enterReset |-> "test",
                        enterWait |-> "test", woken |-> "test"]

(* Where pthread_mutex_lock, or the return of pthread_cond_wait, leads.    *)
AfterLock == [enterSet |-> "trigger", enterReset |-> "clear",
              enterWait |-> "test", woken |-> "test"]

Outside == {"idle", "blocked"} \cup DOMAIN AfterLock
Critical == {"trigger", "signal", "clear", "test", "unlock"}
SetterLabels == {"idle", "enterSet", "enterReset", "trigger", "signal", "clear", "unlock"}

Init ==
  /\ triggered = FALSE
  /\ mutex = None
  /\ pc = [t \in Thread |-> "idle"]

Blocked == {t \in Thread : pc[t] = "blocked"}

Call(t, entry) ==
  /\ pc[t] = "idle"
  /\ pc' = [pc EXCEPT ![t] = entry]
  /\ UNCHANGED <<triggered, mutex>>

setEvent(t) == Call(t, "enterSet")
resetEvent(t) == Call(t, "enterReset")
wait(t) == Call(t, "enterWait")

(* pthread_mutex_lock, in every call and before pthread_cond_wait returns. *)
Acquire(t) ==
  /\ pc[t] \in DOMAIN AfterLock /\ mutex = None
  /\ mutex' = t
  /\ pc' = [pc EXCEPT ![t] = AfterLock[pc[t]]]
  /\ UNCHANGED triggered

(* isEventSet reads the flag without the mutex. *)
isEventSet == triggered

Trigger(t) ==
  /\ pc[t] = "trigger"
  /\ triggered' = TRUE
  /\ pc' = [pc EXCEPT ![t] = "signal"]
  /\ UNCHANGED mutex

(* Faulty: nobody is woken. *)
SignalledNobody(t) == {[pc EXCEPT ![t] = "unlock"]}

(* pthread_cond_signal wakes one of the blocked threads, if there is one.  *)
Signalled(t) ==
  IF Blocked = {} THEN {[pc EXCEPT ![t] = "unlock"]}
  ELSE {[pc EXCEPT ![t] = "unlock", ![w] = "woken"] : w \in Blocked}

Signal(t) ==
  /\ pc[t] = "signal"
  /\ pc' \in Signalled(t)
  /\ UNCHANGED <<triggered, mutex>>

Clear(t) ==
  /\ pc[t] = "clear"
  /\ triggered' = FALSE
  /\ pc' = [pc EXCEPT ![t] = "unlock"]
  /\ UNCHANGED mutex

(* Faulty: the flag is not tested. *)
PassedUntested(t) == TRUE

Passed(t) == triggered

(* Faulty: pthread_cond_wait sleeps without giving the mutex up. *)
BlockingKeepsMutex == mutex

Blocking == None

(* while (!triggered) pthread_cond_wait: blocking gives the mutex up. *)
Test(t) ==
  /\ pc[t] = "test"
  /\ IF Passed(t)
     THEN pc' = [pc EXCEPT ![t] = "unlock"] /\ UNCHANGED mutex
     ELSE pc' = [pc EXCEPT ![t] = "blocked"] /\ mutex' = Blocking
  /\ UNCHANGED triggered

(* pthread_cond_wait may return although nobody signalled. *)
SpuriousWake(t) ==
  /\ pc[t] = "blocked"
  /\ pc' = [pc EXCEPT ![t] = "woken"]
  /\ UNCHANGED <<triggered, mutex>>

AfterUnlock == None

Unlock(t) ==
  /\ pc[t] = "unlock"
  /\ mutex' = AfterUnlock
  /\ pc' = [pc EXCEPT ![t] = "idle"]
  /\ UNCHANGED triggered

Inside(t) == Trigger(t) \/ Signal(t) \/ Clear(t) \/ Test(t) \/ Unlock(t)

Next ==
  \/ \E t \in Thread : Acquire(t) \/ Inside(t) \/ SpuriousWake(t)
  \/ \E t \in Waiters : wait(t)
  \/ \E t \in Thread \ Waiters : setEvent(t) \/ resetEvent(t)

Spec == Init /\ [][Next]_vars

(* A thread inside the event runs on; one that wants the mutex gets it if it*)
(* is free again and again.  Nothing makes a spurious wake-up happen.      *)
FairSpec == /\ Spec
            /\ \A t \in Thread : WF_vars(Inside(t)) /\ SF_vars(Acquire(t))
-----------------------------------------------------------------------------
TypeOK ==
  /\ triggered \in BOOLEAN
  /\ mutex \in Thread \cup {None}
  /\ pc \in [Thread -> Outside \cup Critical]
  /\ \A t \in Thread \ Waiters : pc[t] \in SetterLabels

(* The one thread inside a critical section owns the mutex: a waiter gives *)
(* it up when it blocks and has it back when it tests again.               *)
MutexOwned ==
  \A t \in Thread :
     pc[t] \in Critical <=> mutex = t

(* No wake-up is lost on a lone waiter: it cannot be left asleep once a    *)
(* setEvent has given up the mutex with the event set.                     *)
NoLostWakeup == triggered /\ mutex = None => Blocked = {}

Event == INSTANCE ManualEvent WITH
           set <- triggered,
           waiting <- {t \in Thread : pc[t] \in {"enterWait", "test", "blocked", "woken"}}

(* cEvent keeps the promise of event.h, its liveness included. *)
ImplementsEvent == Event!Spec

(* "Freeze the current thread until the event will be set" (event.h:95):   *)
(* a thread does not stay frozen when the event is set and remains set.    *)
WaitersFreed == \A t \in Waiters : <>[]triggered => []<>(pc[t] = "idle")
-----------------------------------------------------------------------------
(* Proof, for every set of threads: the critical sections exclude one      *)
(* another, a lone waiter loses no wake-up, and every step is a step of the *)
(* abstract manual-reset event or none.                                     *)

(* The invariant of the critical sections: types and the mutex's owner.    *)
Owned == TypeOK /\ MutexOwned

(* While the event is set, a thread that sleeps in pthread_cond_wait is    *)
(* about to be signalled.                                                  *)
SignalComing == triggered => Blocked = {} \/ \E t \in Thread : pc[t] = "signal"

(* The labels, as the provers need them. *)
LEMMA Labels ==
  /\ DOMAIN AfterLock = {"enterSet", "enterReset", "enterWait", "woken"}
  /\ \A label \in DOMAIN AfterLock : AfterLock[label] \in {"trigger", "clear", "test"}
  /\ AfterLock["enterSet"] = "trigger" /\ AfterLock["enterReset"] = "clear"
  /\ AfterLock["enterWait"] = "test" /\ AfterLock["woken"] = "test"
BY DEF AfterLock

(* A fresh event is typed and unlocked. *)
LEMMA InitOwned == Init => Owned
BY EventAssumption, Labels
   DEF Init, Owned, TypeOK, MutexOwned, Outside, Critical, SetterLabels

(* A call of the public interface enters outside the critical section. *)
LEMMA CallOwned ==
  ASSUME Owned, NEW t \in Thread,
         NEW entry \in {"enterSet", "enterReset", "enterWait"}, Call(t, entry),
         entry = "enterWait" => t \in Waiters
  PROVE  Owned'
BY Labels DEF Owned, TypeOK, MutexOwned, Call, Outside, Critical, SetterLabels

(* A thread takes the mutex only when nobody is inside. *)
LEMMA AcquireOwned ==
  ASSUME Owned, NEW t \in Thread, Acquire(t)
  PROVE  Owned'
BY Labels, EventAssumption
   DEF Owned, TypeOK, MutexOwned, Acquire, Outside, Critical, SetterLabels

(* The signaller stays inside, and whom it wakes is outside still. *)
LEMMA SignalOwned ==
  ASSUME Owned, NEW t \in Thread, Signal(t)
  PROVE  Owned'
<1>1. CASE pc' = [pc EXCEPT ![t] = "unlock"]
  BY <1>1, Labels
     DEF Owned, TypeOK, MutexOwned, Signal, Outside, Critical, SetterLabels
<1>2. CASE \E w \in Blocked : pc' = [pc EXCEPT ![t] = "unlock", ![w] = "woken"]
  <2>1. PICK w \in Blocked : pc' = [pc EXCEPT ![t] = "unlock", ![w] = "woken"]
    BY <1>2
  <2>2. w \in Waiters /\ w \in Thread /\ pc[w] = "blocked" /\ w # t
    BY DEF Owned, TypeOK, Blocked, Signal, SetterLabels
  <2>3. QED
    BY <2>1, <2>2, Labels
       DEF Owned, TypeOK, MutexOwned, Signal, Outside, Critical, SetterLabels
<1>3. QED
  BY <1>1, <1>2 DEF Signal, Signalled

(* The other steps inside a critical section keep it, or leave it and the  *)
(* mutex together.                                                         *)
LEMMA InsideOwned ==
  ASSUME Owned, NEW t \in Thread, Inside(t)
  PROVE  Owned'
<1>1. CASE Trigger(t)
  BY <1>1, Labels DEF Owned, TypeOK, MutexOwned, Trigger, Outside, Critical, SetterLabels
<1>2. CASE Signal(t)
  BY <1>2, SignalOwned
<1>3. CASE Clear(t)
  BY <1>3, Labels DEF Owned, TypeOK, MutexOwned, Clear, Outside, Critical, SetterLabels
<1>4. CASE Test(t)
  BY <1>4, Labels, EventAssumption
     DEF Owned, TypeOK, MutexOwned, Test, Blocking, Outside, Critical, SetterLabels
<1>5. CASE Unlock(t)
  BY <1>5, Labels, EventAssumption
     DEF Owned, TypeOK, MutexOwned, Unlock, AfterUnlock, Outside, Critical, SetterLabels
<1>6. QED
  BY <1>1, <1>2, <1>3, <1>4, <1>5 DEF Inside

(* Owned is inductive. *)
LEMMA NextOwned == Owned /\ [Next]_vars => Owned'
<1> SUFFICES ASSUME Owned, [Next]_vars PROVE Owned'
  OBVIOUS
<1>1. CASE UNCHANGED vars
  BY <1>1 DEF vars, Owned, TypeOK, MutexOwned
<1>2. ASSUME NEW t \in Thread, Acquire(t) PROVE Owned'
  BY <1>2, AcquireOwned
<1>3. ASSUME NEW t \in Thread, Inside(t) PROVE Owned'
  BY <1>3, InsideOwned
<1>4. ASSUME NEW t \in Thread, SpuriousWake(t) PROVE Owned'
  BY <1>4, Labels
     DEF Owned, TypeOK, MutexOwned, SpuriousWake, Outside, Critical, SetterLabels
<1>5. ASSUME NEW t \in Waiters, wait(t) PROVE Owned'
  BY <1>5, CallOwned, EventAssumption DEF wait
<1>6. ASSUME NEW t \in Thread \ Waiters, setEvent(t) \/ resetEvent(t) PROVE Owned'
  BY <1>6, CallOwned DEF setEvent, resetEvent
<1>7. QED
  BY <1>1, <1>2, <1>3, <1>4, <1>5, <1>6 DEF Next

(* cEvent keeps its state in range, for every set of threads. *)
THEOREM EventTypeCorrect == Spec => []TypeOK
<1>1. Owned => TypeOK
  BY DEF Owned
<1>2. QED
  BY <1>1, InitOwned, NextOwned, PTL DEF Spec

(* At most one thread is inside a critical section of cEvent, the owner of *)
(* the mutex, for every set of threads: also across pthread_cond_wait.     *)
THEOREM EventMutexOwned == Spec => []MutexOwned
<1>1. Owned => MutexOwned
  BY DEF Owned
<1>2. QED
  BY <1>1, InitOwned, NextOwned, PTL DEF Spec

(* No step of a lone waiter's event leaves the waiter asleep with the      *)
(* event set and no signal on its way.                                     *)
LEMMA NextSignalComing ==
  ASSUME \A v, w \in Waiters : v = w, Owned, SignalComing, [Next]_vars
  PROVE  SignalComing'
<1>1. Blocked \subseteq Waiters
  BY DEF Owned, TypeOK, Blocked, SetterLabels
<1>2. CASE UNCHANGED vars
  BY <1>2 DEF vars, SignalComing, Blocked
<1>3. ASSUME NEW t \in Thread, Acquire(t) PROVE SignalComing'
  BY <1>3, Labels DEF Owned, TypeOK, SignalComing, Blocked, Acquire
<1>4. ASSUME NEW t \in Thread, Trigger(t) PROVE SignalComing'
  BY <1>4 DEF Owned, TypeOK, SignalComing, Blocked, Trigger
<1>5. ASSUME NEW t \in Thread, Signal(t) PROVE SignalComing'
  <2>1. CASE Blocked = {}
    <3>1. pc' = [pc EXCEPT ![t] = "unlock"]
      BY <1>5, <2>1 DEF Signal, Signalled
    <3>2. Blocked' = {}
      BY <2>1, <3>1 DEF Blocked, Owned, TypeOK
    <3>3. QED
      BY <3>2 DEF SignalComing
  <2>2. CASE Blocked # {}
    <3>1. PICK w \in Blocked : pc' = [pc EXCEPT ![t] = "unlock", ![w] = "woken"]
      BY <1>5, <2>2 DEF Signal, Signalled
    <3>2. \A v \in Thread : v # w => pc[v] # "blocked"
      BY <1>1 DEF Blocked
    <3>3. Blocked' = {}
      BY <3>1, <3>2 DEF Blocked, Owned, TypeOK
    <3>4. QED
      BY <3>3 DEF SignalComing
  <2>3. QED
    BY <2>1, <2>2
<1>6. ASSUME NEW t \in Thread, Clear(t) PROVE SignalComing'
  BY <1>6 DEF SignalComing, Clear
<1>7. ASSUME NEW t \in Thread, Test(t) PROVE SignalComing'
  <2>1. CASE triggered
    <3>1. pc' = [pc EXCEPT ![t] = "unlock"] /\ pc[t] = "test"
      BY <1>7, <2>1 DEF Test, Passed
    <3>2. CASE Blocked = {}
      <4>1. Blocked' = {}
        BY <3>1, <3>2 DEF Owned, TypeOK, Blocked
      <4>2. QED
        BY <4>1 DEF SignalComing
    <3>3. CASE \E s \in Thread : pc[s] = "signal"
      <4>1. \E s \in Thread : pc'[s] = "signal"
        BY <3>1, <3>3 DEF Owned, TypeOK
      <4>2. QED
        BY <4>1 DEF SignalComing
    <3>4. QED
      BY <2>1, <3>2, <3>3 DEF SignalComing
  <2>2. CASE ~triggered
    BY <1>7, <2>2 DEF Test, SignalComing
  <2>3. QED
    BY <2>1, <2>2
<1>8. ASSUME NEW t \in Thread, Unlock(t) PROVE SignalComing'
  BY <1>8 DEF Owned, TypeOK, SignalComing, Blocked, Unlock
<1>9. ASSUME NEW t \in Thread, SpuriousWake(t) PROVE SignalComing'
  BY <1>9 DEF Owned, TypeOK, SignalComing, Blocked, SpuriousWake
<1>10. ASSUME NEW t \in Thread, NEW entry \in {"enterSet", "enterReset", "enterWait"},
              Call(t, entry)
       PROVE  SignalComing'
  BY <1>10 DEF Owned, TypeOK, SignalComing, Blocked, Call
<1>11. QED
  BY <1>2, <1>3, <1>4, <1>5, <1>6, <1>7, <1>8, <1>9, <1>10, EventAssumption
     DEF Next, Inside, wait, setEvent, resetEvent

(* With one waiting thread, whatever the number of threads that set and    *)
(* reset, no wake-up is lost: this is what pthread_cond_signal is enough   *)
(* for.  UnixEventTwo shows that two waiters are too many.                 *)
THEOREM EventNoLostWakeup ==
  ASSUME \A v, w \in Waiters : v = w
  PROVE  Spec => []NoLostWakeup
<1>1. Init => SignalComing
  BY DEF Init, SignalComing
<1>2. Owned /\ SignalComing /\ [Next]_vars => SignalComing'
  BY NextSignalComing
<1>3. Owned /\ SignalComing => NoLostWakeup
  <2> SUFFICES ASSUME Owned, SignalComing, triggered, mutex = None PROVE Blocked = {}
    BY DEF NoLostWakeup
  <2>1. \A t \in Thread : pc[t] # "signal"
    BY EventAssumption DEF Owned, MutexOwned, Critical
  <2>2. QED
    BY <2>1 DEF SignalComing
<1>4. QED
  BY <1>1, <1>2, <1>3, InitOwned, NextOwned, PTL DEF Spec

(* The waiters of the abstract event. *)
Frozen == {t \in Thread : pc[t] \in {"enterWait", "test", "blocked", "woken"}}

(* Every step of cEvent is a step of the manual-reset event, or none: a    *)
(* wait ends only while the event is set, and nothing but resetEvent       *)
(* clears it.                                                              *)
LEMMA StepRefines ==
  ASSUME Owned, [Next]_vars
  PROVE  [Event!Next]_(Event!vars)
<1> DEFINE Refined == [Event!Next]_(Event!vars)
<1>1. ASSUME UNCHANGED <<triggered, Frozen>> PROVE Refined
  BY <1>1 DEF Frozen, Event!vars
<1>2. ASSUME triggered' = TRUE, Frozen' = Frozen PROVE Refined
  BY <1>2 DEF Frozen, Event!Set, Event!Next
<1>3. ASSUME triggered' = FALSE, Frozen' = Frozen PROVE Refined
  BY <1>3 DEF Frozen, Event!Reset, Event!Next
<1>4. ASSUME NEW t \in Thread, t \notin Frozen, Frozen' = Frozen \cup {t}, UNCHANGED triggered
      PROVE  Refined
  BY <1>4 DEF Frozen, Event!BeginWait, Event!Next
<1>5. ASSUME NEW t \in Thread, t \in Frozen, triggered, Frozen' = Frozen \ {t},
             UNCHANGED triggered
      PROVE  Refined
  BY <1>5 DEF Frozen, Event!EndWait, Event!Next
<1> HIDE DEF Refined
<1>6. ASSUME UNCHANGED vars PROVE Refined
  <2>1. UNCHANGED <<triggered, Frozen>>
    BY <1>6 DEF vars, Frozen
  <2>2. QED
    BY <1>1, <2>1
<1>7. ASSUME NEW t \in Thread, Acquire(t) PROVE Refined
  <2>1. UNCHANGED <<triggered, Frozen>>
    BY <1>7, Labels DEF Owned, TypeOK, Acquire, Frozen
  <2>2. QED
    BY <1>1, <2>1
<1>8. ASSUME NEW t \in Thread, Trigger(t) PROVE Refined
  <2>1. triggered' = TRUE /\ Frozen' = Frozen
    BY <1>8 DEF Owned, TypeOK, Trigger, Frozen
  <2>2. QED
    BY <1>2, <2>1
<1>9. ASSUME NEW t \in Thread, Signal(t) PROVE Refined
  <2>1. UNCHANGED <<triggered, Frozen>>
    BY <1>9 DEF Owned, TypeOK, Signal, Signalled, Blocked, Frozen
  <2>2. QED
    BY <1>1, <2>1
<1>10. ASSUME NEW t \in Thread, Clear(t) PROVE Refined
  <2>1. triggered' = FALSE /\ Frozen' = Frozen
    BY <1>10 DEF Owned, TypeOK, Clear, Frozen
  <2>2. QED
    BY <1>3, <2>1
<1>11. ASSUME NEW t \in Thread, Test(t) PROVE Refined
  <2>1. CASE triggered
    <3>1. t \in Frozen /\ Frozen' = Frozen \ {t} /\ UNCHANGED triggered
      BY <1>11, <2>1 DEF Owned, TypeOK, Test, Passed, Frozen
    <3>2. QED
      BY <1>5, <2>1, <3>1
  <2>2. CASE ~triggered
    <3>1. UNCHANGED <<triggered, Frozen>>
      BY <1>11, <2>2 DEF Owned, TypeOK, Test, Passed, Frozen
    <3>2. QED
      BY <1>1, <3>1
  <2>3. QED
    BY <2>1, <2>2
<1>12. ASSUME NEW t \in Thread, Unlock(t) PROVE Refined
  <2>1. UNCHANGED <<triggered, Frozen>>
    BY <1>12 DEF Owned, TypeOK, Unlock, Frozen
  <2>2. QED
    BY <1>1, <2>1
<1>13. ASSUME NEW t \in Thread, SpuriousWake(t) PROVE Refined
  <2>1. UNCHANGED <<triggered, Frozen>>
    BY <1>13 DEF Owned, TypeOK, SpuriousWake, Frozen
  <2>2. QED
    BY <1>1, <2>1
<1>14. ASSUME NEW t \in Waiters, wait(t) PROVE Refined
  <2>1. t \in Thread
    BY EventAssumption
  <2>2. t \notin Frozen /\ Frozen' = Frozen \cup {t} /\ UNCHANGED triggered
    BY <1>14, <2>1 DEF Owned, TypeOK, wait, Call, Frozen
  <2>3. QED
    BY <1>4, <2>1, <2>2
<1>15. ASSUME NEW t \in Thread \ Waiters, setEvent(t) \/ resetEvent(t) PROVE Refined
  <2>1. UNCHANGED <<triggered, Frozen>>
    BY <1>15 DEF Owned, TypeOK, setEvent, resetEvent, Call, Frozen
  <2>2. QED
    BY <1>1, <2>1
<1>16. Refined
  BY <1>6, <1>7, <1>8, <1>9, <1>10, <1>11, <1>12, <1>13, <1>14, <1>15 DEF Next, Inside
<1>17. QED
  BY <1>16 DEF Refined

(* cEvent implements the manual-reset event of event.h, the safety part of *)
(* ImplementsEvent, for every set of threads and of waiters among them.    *)
THEOREM EventRefines == Spec => Event!Init /\ [][Event!Next]_(Event!vars)
<1>1. Init => Event!Init
  BY DEF Init, Event!Init
<1>2. Owned /\ [Next]_vars => [Event!Next]_(Event!vars)
  BY StepRefines
<1>3. QED
  BY <1>1, <1>2, InitOwned, NextOwned, PTL DEF Spec
=============================================================================
