--------------------------- MODULE ThreadedClass ----------------------------
(***************************************************************************)
(* cThreadedClass (Source/xStl/os/threadedClass.cpp) over the pthread      *)
(* cThread (os/UnixOS/unixThread.cpp).  One owner thread starts, polls,    *)
(* waits for and destroys a set of threaded objects; each object has the   *)
(* one child thread that executes its run().                               *)
(***************************************************************************)
EXTENDS Naturals, FiniteSets

CONSTANTS Object,        \* the threaded objects of the owner
          Perils         \* the sets of perils a program may run under

(* "create": pthread_create runs out of resources; "throw": run() throws a *)
(* cException; "early": the owner destroys objects it did not wait for.    *)
AllPerils == {"create", "throw", "early"}

VARIABLES m_isStarted, m_isDone, m_isStarted1,
          m_thread,   \* is the handle of the object's cThread valid?
          child,      \* where the child thread is
          cancelled,  \* has pthread_cancel been sent to it?
          life,       \* "derived", "base" once ~Derived ran, "freed"
          owner,      \* the owner's call, [at |-> place, on |-> object]
          waited,     \* the owner's last wait() on the object has returned
          fault,      \* the first illegal step, "none" so far
          perils      \* the perils of this program; no step changes them

state == <<m_isStarted, m_isDone, m_isStarted1, m_thread, child, cancelled,
           life, owner, waited, fault>>
vars == <<state, perils>>
flags == <<m_isStarted, m_isDone, m_isStarted1>>

Rest == [at |-> "rest"]

(* The constructor leaves m_isStarted1 uninitialised. *)
Init ==
  /\ m_isStarted = [o \in Object |-> FALSE]
  /\ m_isDone = [o \in Object |-> FALSE]
  /\ m_isStarted1 \in [Object -> BOOLEAN]
  /\ m_thread = [o \in Object |-> FALSE]
  /\ child = [o \in Object |-> "none"]
  /\ cancelled = [o \in Object |-> FALSE]
  /\ life = [o \in Object |-> "derived"]
  /\ owner = Rest
  /\ waited = [o \in Object |-> FALSE]
  /\ fault = "none"
  /\ perils \in Perils

Running == fault = "none"

(***************************************************************************)
(* The owner                                                               *)
(***************************************************************************)
AtRest(o) == Running /\ owner = Rest /\ life[o] = "derived"
At(place, o) == Running /\ owner # Rest /\ owner.at = place /\ owner.on = o
Go(place, o) == owner' = [at |-> place, on |-> o]

MayStart(o) == ~m_isStarted[o]

(* start() raises the flag before the thread exists.  On an object that    *)
(* was started the CHECK throws and nothing changes.                       *)
start(o) ==
  /\ AtRest(o) /\ MayStart(o)
  /\ m_isStarted' = [m_isStarted EXCEPT ![o] = TRUE]
  /\ Go("execute", o)
  /\ UNCHANGED <<m_isDone, m_isStarted1, m_thread, child, cancelled, life, waited, fault>>

(* cThread::execute.  When pthread_create fails start() throws and nothing *)
(* takes the flag back.                                                    *)
execute(o) ==
  /\ At("execute", o)
  /\ owner' = Rest
  /\ \/ /\ ~m_thread[o]
        /\ m_thread' = [m_thread EXCEPT ![o] = TRUE]
        /\ child' = [child EXCEPT ![o] = "created"]
     \/ /\ "create" \in perils \/ m_thread[o]
        /\ UNCHANGED <<m_thread, child>>
  /\ UNCHANGED <<flags, cancelled, life, waited, fault>>

(* Faulty: does not look whether run() is over. *)
WaitsNever(o) == FALSE

(* wait() reaches cThread::wait unless the thread was never started or is  *)
(* done, and pthread_join unless the handle was given back already.        *)
MustJoin(o) == m_isStarted[o] /\ ~m_isDone[o] /\ m_thread[o]

wait(o) ==
  /\ AtRest(o)
  /\ IF MustJoin(o)
     THEN Go("join", o) /\ UNCHANGED waited
     ELSE owner' = Rest /\ waited' = [waited EXCEPT ![o] = m_isStarted[o]]
  /\ UNCHANGED <<flags, m_thread, child, cancelled, life, fault>>

join(o) ==
  /\ At("join", o) /\ child[o] = "exited"
  /\ m_thread' = [m_thread EXCEPT ![o] = FALSE]
  /\ child' = [child EXCEPT ![o] = "joined"]
  /\ waited' = [waited EXCEPT ![o] = TRUE]
  /\ owner' = Rest
  /\ UNCHANGED <<flags, cancelled, life, fault>>

(* The destructor of the derived class has run, ~cThreadedClass begins.    *)
destroy(o) ==
  /\ AtRest(o)
  /\ "early" \in perils \/ ~m_isStarted[o] \/ waited[o] \/ child[o] = "none"
  /\ life' = [life EXCEPT ![o] = "base"]
  /\ Go("destroying", o)
  /\ UNCHANGED <<flags, m_thread, child, cancelled, waited, fault>>

(* Faulty: the destructor asks the wrong flag. *)
KillsUnstarted(o) == ~m_isDone[o]

Kills(o) == m_isStarted[o] /\ ~m_isDone[o]

Dispose(o) ==
  /\ At("destroying", o) /\ ~Kills(o)
  /\ life' = [life EXCEPT ![o] = "freed"]
  /\ owner' = Rest
  /\ UNCHANGED <<flags, m_thread, child, cancelled, waited, fault>>

(* while (!m_isStarted1); then kill(), which cancels whatever the handle   *)
(* says.                                                                   *)
Kill(o) ==
  /\ At("destroying", o) /\ Kills(o) /\ m_isStarted1[o]
  /\ IF m_thread[o]
     THEN /\ cancelled' = [cancelled EXCEPT ![o] = TRUE]
          /\ Go("joinKilled", o)
          /\ UNCHANGED fault
     ELSE /\ fault' = "pthread_cancel of an invalid handle"
          /\ UNCHANGED <<cancelled, owner>>
  /\ UNCHANGED <<flags, m_thread, child, life, waited>>

Killed(o) == child[o] = "exited"

(* kill() joins the cancelled thread; the object's memory goes last.       *)
JoinKilled(o) ==
  /\ At("joinKilled", o) /\ Killed(o)
  /\ m_thread' = [m_thread EXCEPT ![o] = FALSE]
  /\ child' = [child EXCEPT ![o] = IF @ = "exited" THEN "joined" ELSE @]
  /\ life' = [life EXCEPT ![o] = "freed"]
  /\ owner' = Rest
  /\ UNCHANGED <<flags, cancelled, waited, fault>>

(***************************************************************************)
(* The child: threadedClassThreadFunction                                  *)
(***************************************************************************)
Touch(o, what) == IF life[o] = "freed" THEN what ELSE fault

Began(o) ==
  /\ Running /\ child[o] = "created"
  /\ m_isStarted1' = [m_isStarted1 EXCEPT ![o] = TRUE]
  /\ child' = [child EXCEPT ![o] = "entering"]
  /\ fault' = Touch(o, "flag of a freed object")
  /\ UNCHANGED <<m_isStarted, m_isDone, m_thread, cancelled, life, owner, waited>>

(* The virtual call: once ~Derived has run it finds the pure run().        *)
Enter(o) ==
  /\ Running /\ child[o] = "entering"
  /\ child' = [child EXCEPT ![o] = "run"]
  /\ fault' = IF life[o] = "derived" THEN fault ELSE "pure virtual call of run"
  /\ UNCHANGED <<flags, m_thread, cancelled, life, owner, waited>>

(* run() uses the members of its own class while it executes. *)
Work(o) ==
  /\ Running /\ child[o] = "run" /\ life[o] # "derived"
  /\ fault' = "run uses members already destroyed"
  /\ UNCHANGED <<flags, m_thread, child, cancelled, life, owner, waited>>

(* Faulty: nothing catches what run() throws. *)
OutcomesUncaught == {"ran", "uncaught"}

Outcomes == IF "throw" \in perils THEN {"ran", "threw"} ELSE {"ran"}

RunEnds(o) ==
  /\ Running /\ child[o] = "run"
  /\ \E outcome \in Outcomes : child' = [child EXCEPT ![o] = outcome]
  /\ UNCHANGED <<flags, m_thread, cancelled, life, owner, waited, fault>>

(* Deferred cancellation, at a cancellation point of run(). *)
Unwind(o) ==
  /\ Running /\ child[o] = "run" /\ cancelled[o]
  /\ child' = [child EXCEPT ![o] = "exited"]
  /\ UNCHANGED <<flags, m_thread, cancelled, life, owner, waited, fault>>

Done(o) ==
  /\ Running /\ child[o] = "ran"
  /\ m_isDone' = [m_isDone EXCEPT ![o] = TRUE]
  /\ child' = [child EXCEPT ![o] = "leaving"]
  /\ fault' = Touch(o, "flag of a freed object")
  /\ UNCHANGED <<m_isStarted, m_isStarted1, m_thread, cancelled, life, owner, waited>>

(* The catch block logs the exception and leaves m_isDone alone; both ways *)
(* end in cThread::terminate.                                              *)
Terminate(o) ==
  /\ Running /\ child[o] \in {"leaving", "threw"}
  /\ child' = [child EXCEPT ![o] = "exited"]
  /\ UNCHANGED <<flags, m_thread, cancelled, life, owner, waited, fault>>

Child(o) == Began(o) \/ Enter(o) \/ RunEnds(o) \/ Unwind(o) \/ Done(o) \/ Terminate(o)
Owner(o) == execute(o) \/ join(o) \/ Dispose(o) \/ Kill(o) \/ JoinKilled(o)

Next == /\ \E o \in Object :
             start(o) \/ wait(o) \/ destroy(o) \/ Owner(o) \/ Child(o) \/ Work(o)
        /\ UNCHANGED perils

Spec == Init /\ [][Next]_vars

(* Threads are scheduled, and every run() comes to its end.                *)
FairSpec == Spec /\ \A o \in Object : WF_vars(Child(o) /\ UNCHANGED perils)
                                       /\ WF_vars(Owner(o) /\ UNCHANGED perils)
-----------------------------------------------------------------------------
Faults == {"none", "pthread_cancel of an invalid handle", "flag of a freed object",
           "pure virtual call of run", "run uses members already destroyed"}

TypeOK ==
  /\ m_isStarted \in [Object -> BOOLEAN]
  /\ m_isDone \in [Object -> BOOLEAN]
  /\ m_isStarted1 \in [Object -> BOOLEAN]
  /\ m_thread \in [Object -> BOOLEAN]
  /\ child \in [Object -> {"none", "created", "entering", "run", "ran", "threw",
                           "leaving", "exited", "joined"}]
  /\ cancelled \in [Object -> BOOLEAN]
  /\ life \in [Object -> {"derived", "base", "freed"}]
  /\ owner = Rest \/ owner \in [at : {"execute", "join", "destroying", "joinKilled"}, on : Object]
  /\ waited \in [Object -> BOOLEAN]
  /\ fault \in Faults
  /\ perils \in Perils

(* In a program without perils: no pure virtual call, no use of destroyed  *)
(* members or of a freed object, no cancellation of an invalid handle.     *)
NoFault == perils = {} => fault = "none"

(* wait() that returned on an object whose thread exists means that run()  *)
(* is over, whatever happened in it.                                       *)
WaitMeansRunIsOver ==
  \A o \in Object : waited[o] => child[o] \notin {"created", "entering", "run"}

(* While the child can still execute run() the object is whole, unless the *)
(* owner destroys early: one that waits first cannot destroy it under the  *)
(* child's feet, though thread creation fails or run() throws.             *)
ObjectOutlivesRun ==
  \A o \in Object : child[o] \in {"created", "entering", "run", "ran"} /\ "early" \notin perils
                   => life[o] = "derived"

(* Even a premature destructor gives the memory of the object back only    *)
(* when its child cannot touch the flags any more.                         *)
MemoryOutlivesChild ==
  \A o \in Object : life[o] = "freed" => child[o] \notin {"created", "entering", "run", "ran"}

(* In a program without perils every call of the owner returns: wait()     *)
(* once run() is over, and the destructor, whose spin on m_isStarted1      *)
(* cannot last.                                                            *)
OwnerReturns == (perils = {} /\ owner # Rest) ~> (owner = Rest)

(* "The internal implementation should guarantee that this cases will not  *)
(* crash the system" (threadedClass.h:134): an object destroyed right      *)
(* after start() does no harm.                                             *)
EarlyDestructionIsSafe == perils = {"early"} => fault = "none"
=============================================================================
