----------------------------- MODULE EventTest ------------------------------
(***************************************************************************)
(* The two-thread exchange of tests/test_event.cpp: a threaded class whose *)
(* run() waits, resets and waits again on an event that the main thread    *)
(* sets, polls until it is reset, and sets again.  UnixEvent and           *)
(* ThreadedClass run together.                                             *)
(***************************************************************************)
EXTENDS Naturals

CONSTANTS main, kid, test, None

VARIABLES triggered, mutex, pc,
          m_isStarted, m_isDone, m_isStarted1, m_thread, child, cancelled,
          life, owner, waited, fault, perils,
          mainAt,   \* the next statement of testThreads, 6 at its end
          kidAt     \* the next statement of run, 4 at its end

eventVars == <<triggered, mutex, pc>>
classVars == <<m_isStarted, m_isDone, m_isStarted1, m_thread, child, cancelled,
               life, owner, waited, fault, perils>>
vars == <<eventVars, classVars, mainAt, kidAt>>

Event == INSTANCE UnixEvent WITH Thread <- {main, kid}, Waiters <- {kid}
Class == INSTANCE ThreadedClass WITH
           Object <- {test}, Perils <- {{}}

Init == Event!Init /\ Class!Init /\ mainAt = 1 /\ kidAt = 1

Ready == pc[main] = "idle" /\ owner = Class!Rest

(* start(); setEvent(); while (isEventSet()); setEvent(); wait() *)
Main ==
  /\ Ready /\ mainAt' = mainAt + 1 /\ UNCHANGED kidAt
  /\ \/ mainAt = 1 /\ Class!start(test) /\ UNCHANGED <<eventVars, perils>>
     \/ mainAt \in {2, 4} /\ Event!setEvent(main) /\ UNCHANGED classVars
     \/ mainAt = 3 /\ ~Event!isEventSet /\ UNCHANGED <<eventVars, classVars>>
     \/ mainAt = 5 /\ Class!wait(test) /\ UNCHANGED <<eventVars, perils>>

(* Faulty: run() does not reset the event between its two waits. *)
KidCallsWithoutReset == (kidAt = 2 /\ UNCHANGED eventVars) \/ (kidAt # 2 /\ Event!wait(kid))

(* wait(); resetEvent(); wait() *)
KidCalls == \/ kidAt \in {1, 3} /\ Event!wait(kid)
            \/ kidAt = 2 /\ Event!resetEvent(kid)

Kid ==
  /\ child[test] = "run" /\ pc[kid] = "idle" /\ kidAt <= 3
  /\ KidCalls
  /\ kidAt' = kidAt + 1
  /\ UNCHANGED <<classVars, mainAt>>

(* run() returns after its last statement only. *)
ChildMoves ==
  /\ Class!Child(test)
  /\ child[test] = "run" => kidAt = 4 /\ pc[kid] = "idle"
  /\ UNCHANGED <<eventVars, perils, mainAt, kidAt>>

OwnerMoves == Class!Owner(test) /\ UNCHANGED <<eventVars, perils, mainAt, kidAt>>

EventMoves(t) == /\ Event!Acquire(t) \/ Event!Inside(t)
                 /\ UNCHANGED <<classVars, mainAt, kidAt>>

Spurious == Event!SpuriousWake(kid) /\ UNCHANGED <<classVars, mainAt, kidAt>>

Next == \/ Main \/ Kid \/ ChildMoves \/ OwnerMoves \/ Spurious
        \/ EventMoves(main) \/ EventMoves(kid)

Spec == /\ Init /\ [][Next]_vars
        /\ WF_vars(Main) /\ WF_vars(Kid) /\ WF_vars(ChildMoves) /\ WF_vars(OwnerMoves)
        /\ SF_vars(EventMoves(main)) /\ SF_vars(EventMoves(kid))

Finished == mainAt = 6 /\ owner = Class!Rest
-----------------------------------------------------------------------------
(* The first setEvent can only let the first wait through: run() passes    *)
(* its second wait only after the main thread began the second setEvent.   *)
SecondWaitNeedsSecondSet ==
  child[test] \in {"ran", "leaving", "exited", "joined"} => mainAt >= 5

(* The test comes to its end in every schedule. *)
TestEnds == <>Finished
=============================================================================
