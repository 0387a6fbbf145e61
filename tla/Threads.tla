------------------------------- MODULE Threads -------------------------------
(***************************************************************************)
(* What the threads of a program share, one part of it in each behaviour   *)
(* of one run: an owner of several threaded objects (ThreadedClass), the   *)
(* two threads of tests/test_event.cpp (EventTest), threads at the lock of *)
(* the smart pointers (Locks) and threads that share reference counted     *)
(* objects (RefCount), whose modules this one extends, a thread that       *)
(* sleeps and looks at a timeout (Timeouts), and threads that print to one *)
(* stream (StringerStream).  The other parts rest.                         *)
(***************************************************************************)
EXTENDS Locks, RefCount

CONSTANTS Object, Perils,                                      \* ThreadedClass
          main, kid, test, None,                               \* EventTest
          Second, Scale, UintRange, INFINITE_TIMEOUT,          \* Timeouts
          Durations, MaxElapsed, MaxSignals,
          Printer, MaxPrints                                   \* StringerStream

VARIABLES program,
          triggered, mutex, pc, mainAt, kidAt,
          m_isStarted, m_isDone, m_isStarted1, m_thread, child, cancelled,
          life, owner, waited, fault, perils,
          phase, asked, tv_nsec, left, signals, sleeping,
          m_timeoutMilliseconds, seconds, elapsed,
          m_shouldWaitToNewLine, m_lineRepository, printAt, holds,
          pieces, taken, flushed, output, added, prints

Class == INSTANCE ThreadedClass
Exchange == INSTANCE EventTest
Time == INSTANCE Timeouts

(* A text without an end of line, one line, and a text with two ends.       *)
Printed == {<<"a">>, <<"a", "newline">>, <<"newline", "a", "newline">>}
Stringer == INSTANCE StringerStream WITH at <- printAt

ASSUME ThreadedAssumption == Perils # {} /\ Perils \subseteq SUBSET Class!AllPerils

ASSUME EventTestAssumption == main # kid /\ None \notin {main, kid}

ASSUME RefCountAssumption == MaxObjects \in Nat

ASSUME TimeAssumption ==
  /\ Second \in Nat \ {0} /\ Scale \in Nat \ {0} /\ UintRange \in Nat \ {0}
  /\ Second * Scale * Scale <= UintRange /\ INFINITE_TIMEOUT \in Nat
  /\ Durations \subseteq Nat /\ MaxElapsed \in Nat /\ MaxSignals \in Nat

testVars == <<triggered, mutex, pc, mainAt, kidAt>>
classVars == <<m_isStarted, m_isDone, m_isStarted1, m_thread, child, cancelled,
               life, owner, waited, fault, perils>>
timeVars == <<phase, asked, tv_nsec, left, signals, sleeping,
              m_timeoutMilliseconds, seconds, elapsed>>
stringerVars == <<m_shouldWaitToNewLine, m_lineRepository, printAt, holds,
                  pieces, taken, flushed, output, added, prints>>
vars == <<program, testVars, classVars, lockVars, refVars, timeVars, stringerVars>>

Program == {"owner", "test", "lock", "share", "time", "print"}

Init ==
  /\ program \in Program
  /\ program # "print" => m_shouldWaitToNewLine = TRUE
  /\ LocksInit /\ RefInit /\ Time!TimeInit /\ Stringer!StringerInit
  /\ \/ program = "test" /\ Exchange!Init
     \/ /\ program # "test"
        /\ Class!Init
        /\ triggered = FALSE /\ mutex = None /\ pc = <<>> /\ mainAt = 1 /\ kidAt = 1
        /\ program # "owner" =>
             perils = (CHOOSE set \in Perils : TRUE) /\ m_isStarted1 = m_isStarted

NoSharing == UNCHANGED <<lockVars, refVars, timeVars, stringerVars>>
OwnerRest == UNCHANGED <<program, testVars>> /\ NoSharing
TestRest == UNCHANGED program /\ NoSharing
LockRest == UNCHANGED <<program, testVars, classVars, refVars, timeVars, stringerVars>>
ShareRest == UNCHANGED <<program, testVars, classVars, lockVars, timeVars, stringerVars>>
TimeRest == UNCHANGED <<program, testVars, classVars, lockVars, refVars, stringerVars>>
PrintRest == UNCHANGED <<program, testVars, classVars, lockVars, refVars, timeVars>>

Next ==
  \/ program = "owner" /\ Class!Next /\ OwnerRest
  \/ program = "test" /\ Exchange!Next /\ TestRest
  \/ program = "lock" /\ LocksNext /\ LockRest
  \/ program = "share" /\ RefNext /\ ShareRest
  \/ program = "time" /\ Time!TimeNext /\ TimeRest
  \/ program = "print" /\ Stringer!StringerNext /\ PrintRest

ObjectProceeds(o) == program = "owner" /\ Class!Owner(o) /\ UNCHANGED perils /\ OwnerRest
ChildProceeds(o) == program = "owner" /\ Class!Child(o) /\ UNCHANGED perils /\ OwnerRest

Main == program = "test" /\ Exchange!Main /\ TestRest
Kid == program = "test" /\ Exchange!Kid /\ TestRest
ChildMoves == program = "test" /\ Exchange!ChildMoves /\ TestRest
OwnerMoves == program = "test" /\ Exchange!OwnerMoves /\ TestRest
EventMoves(t) == program = "test" /\ Exchange!EventMoves(t) /\ TestRest

LockGets(t) == program = "lock" /\ Gets(t) /\ LockRest
LockLeaves(t) == program = "lock" /\ Leaves(t) /\ LockRest
LockDeparts(t) == program = "lock" /\ Departs(t) /\ LockRest
LockTaken(t) == program = "lock" /\ Construct(t) /\ LockRest

TimeTicks == program = "time" /\ Time!Tick /\ TimeRest
SleepMoves == program = "time" /\ Time!SleepMoves /\ TimeRest

(* The fairness of the programs: threads proceed; a thread that waits for a *)
(* mutex which is free again and again gets it; time goes on.               *)
Spec ==
  /\ Init /\ [][Next]_vars
  /\ \A o \in Object : WF_vars(ObjectProceeds(o)) /\ WF_vars(ChildProceeds(o))
  /\ WF_vars(Main) /\ WF_vars(Kid) /\ WF_vars(ChildMoves) /\ WF_vars(OwnerMoves)
  /\ \A t \in {main, kid} : SF_vars(EventMoves(t))
  /\ \A t \in Thread : WF_vars(LockGets(t)) /\ WF_vars(LockLeaves(t))
  /\ \A t \in Thread : SF_vars(LockDeparts(t)) /\ SF_vars(LockTaken(t))
  /\ WF_vars(TimeTicks) /\ WF_vars(SleepMoves)
-----------------------------------------------------------------------------
(* Every program keeps its state in range. *)
TypeOK == /\ program \in Program
          /\ IF program = "test" THEN Exchange!Event!TypeOK ELSE Class!TypeOK
          /\ LocksTypeOK /\ RefTypeOK /\ Time!TimeTypeOK /\ Stringer!StringerTypeOK

(* An owner without perils meets no fault. *)
NoFault == program = "owner" => Class!NoFault

(* wait() of an object returns when its run() is over; the object is whole  *)
(* while its run() executes, and its memory is given back after its child   *)
(* is gone.                                                                 *)
ObjectOutlivesRun ==
  program = "owner" =>
    Class!WaitMeansRunIsOver /\ Class!ObjectOutlivesRun /\ Class!MemoryOutlivesChild

(* In test_event the second wait needs the second setEvent. *)
SecondWaitNeedsSecondSet == program = "test" => Exchange!SecondWaitNeedsSecondSet

(* A timeout expires within a second of its time, and the system takes the  *)
(* sleeps that are shorter than a second.                                   *)
TimesKept == Time!ExpiresWithinASecond /\ Time!ShortSleepIsAccepted

(* What threads print to a stream is put out once, and in whole lines.      *)
LinesAreWhole == Stringer!LinesAreWhole

(* What returns: the calls of an owner without perils, the two threads of   *)
(* test_event, the wait for the lock, and a sleep of less than a second.    *)
CallsReturn ==
  /\ program = "owner" => Class!OwnerReturns
  /\ program = "test" => Exchange!TestEnds
  /\ program = "lock" => LockIsGiven
  /\ program = "time" => Time!ShortSleepReturns
=============================================================================
