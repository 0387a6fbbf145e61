------------------------------ MODULE RefCount -------------------------------
(***************************************************************************)
(* The members that REFCOUNTABLE and REFCOUNTABLE_COPY give a class: the   *)
(* variables of several threads share an object and its counter.  Every    *)
(* section under the class's lock is one step; an assignment has two.  A   *)
(* caller leaves a variable alone while another is assigned from it, and   *)
(* copies none that was not given an object.                               *)
(***************************************************************************)
EXTENDS Naturals, FiniteSets

CONSTANTS Variable,          \* the reference counted variables
          MaxObjects         \* bound: objects ever made

VARIABLES m_object,          \* what a variable holds: an object, Null, or Gone
          counter,           \* of each object its count, 0 when there is no counter
          object,            \* what became of each object
          assigning,         \* of a variable in an assignment, the source
          dropped            \* ghost: objects whose last holder was assigned

refVars == <<m_object, counter, object, assigning, dropped>>

Null == 0
Gone == MaxObjects + 1       \* no variable: not made yet, or destroyed
Idle == 0                    \* no counter: not made yet, or deleted at 1
Counted == 1 .. MaxObjects
Holds(v) == m_object[v] \in Counted
Source == {assigning[v] : v \in {w \in Variable : assigning[w] # w}}
Rests(v) == assigning[v] = v
Still(v) == Rests(v) /\ v \notin Source

RefInit ==
  /\ m_object = [v \in Variable |-> Gone] /\ assigning = [v \in Variable |-> v]
  /\ counter = [o \in Counted |-> Idle] /\ object = [o \in Counted |-> "none"]
  /\ dropped = {}

(* The constructor of the class: members reset, then init() or not.         *)
construct(v) ==
  /\ m_object[v] = Gone
  /\ \/ /\ m_object' = [m_object EXCEPT ![v] = Null]
        /\ UNCHANGED <<counter, object>>
     \/ \E o \in Counted :
          /\ object[o] = "none" /\ \A p \in 1 .. o - 1 : object[p] # "none"
          /\ m_object' = [m_object EXCEPT ![v] = o]
          /\ counter' = [counter EXCEPT ![o] = 1]
          /\ object' = [object EXCEPT ![o] = "alive"]
  /\ UNCHANGED <<assigning, dropped>>

(* free(): says whether the last reference is gone, and deletes the counter *)
(* then; the pointers of the variable are left as they are.                 *)
LastOne(v) == Holds(v) /\ counter[m_object[v]] = 1
free(v) ==
  counter' = IF ~Holds(v) THEN counter
             ELSE [counter EXCEPT ![m_object[v]] = IF @ = 1 THEN Idle ELSE @ - 1]

(* The counter and the object of another variable, under the lock.          *)
TakesUncounted(v, other) ==                           \* a faulty variant
  m_object' = [m_object EXCEPT ![v] = m_object[other]] /\ UNCHANGED counter
Takes(v, other) ==
  /\ m_object' = [m_object EXCEPT ![v] = m_object[other]]
  /\ counter' = [counter EXCEPT ![m_object[other]] = @ + 1]

copy(v, other) ==
  /\ m_object[v] = Gone /\ Holds(other) /\ Rests(other)
  /\ Takes(v, other) /\ UNCHANGED <<object, assigning, dropped>>

(* operator =: free() under one lock, its answer ignored, and the members   *)
(* of the other under the next.                                             *)
assignFree(v, other) ==
  /\ v # other /\ m_object[v] # Gone /\ Still(v) /\ Holds(other) /\ Rests(other)
  /\ free(v)
  /\ assigning' = [assigning EXCEPT ![v] = other]
  /\ dropped' = IF LastOne(v) THEN dropped \cup {m_object[v]} ELSE dropped
  /\ UNCHANGED <<m_object, object>>
assignTake(v) ==
  /\ ~Rests(v)
  /\ Takes(v, assigning[v]) /\ assigning' = [assigning EXCEPT ![v] = v]
  /\ UNCHANGED <<object, dropped>>

(* The destructor of the class: if (free()) delete getObject().             *)
destruct(v) ==
  /\ m_object[v] # Gone /\ Still(v)
  /\ free(v)
  /\ object' = IF LastOne(v) THEN [object EXCEPT ![m_object[v]] = "deleted"] ELSE object
  /\ m_object' = [m_object EXCEPT ![v] = Gone]
  /\ UNCHANGED <<assigning, dropped>>

RefNext ==
  \E v, other \in Variable :
    \/ construct(v) \/ copy(v, other) \/ assignFree(v, other) \/ assignTake(v) \/ destruct(v)
-----------------------------------------------------------------------------
RefTypeOK ==
  /\ m_object \in [Variable -> 0 .. Gone] /\ assigning \in [Variable -> Variable]
  /\ counter \in [Counted -> Nat] /\ object \in [Counted -> {"none", "alive", "deleted"}]
  /\ dropped \subseteq Counted

(* A counter stands for the variables that hold its object, those in the    *)
(* middle of an assignment not counted; what a variable holds is alive; and *)
(* an object that nothing holds is deleted, but for those whose last holder *)
(* was assigned another, which are never deleted.                           *)
ReferencesCounted ==
  \A o \in Counted :
    LET holders == {v \in Variable : m_object[v] = o /\ Rests(v)}
    IN /\ holders # {} => object[o] = "alive" /\ counter[o] = Cardinality(holders)
       /\ holders = {} => counter[o] = Idle
       /\ object[o] = "alive" => holders # {} \/ o \in dropped
       /\ o \in dropped => object[o] = "alive" /\ holders = {}
=============================================================================
