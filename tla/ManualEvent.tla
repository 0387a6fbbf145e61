---------------------------- MODULE ManualEvent -----------------------------
(***************************************************************************)
(* What event.h promises of cEvent: two states, set and reset; wait        *)
(* freezes its caller until the event is set, and the event stays set      *)
(* until resetEvent is called, so every waiter is let through.             *)
(***************************************************************************)
CONSTANT Thread

VARIABLES set,      \* is the event set?
          waiting   \* the threads frozen in wait

Init == set = FALSE /\ waiting = {}

Set == set' = TRUE /\ UNCHANGED waiting
Reset == set' = FALSE /\ UNCHANGED waiting

BeginWait(t) == t \notin waiting /\ waiting' = waiting \cup {t} /\ UNCHANGED set
EndWait(t) == t \in waiting /\ set /\ waiting' = waiting \ {t} /\ UNCHANGED set

Next == Set \/ Reset \/ \E t \in Thread : BeginWait(t) \/ EndWait(t)

vars == <<set, waiting>>

(* A waiter is not left frozen while the event stays set. *)
Spec == Init /\ [][Next]_vars /\ \A t \in Thread : WF_vars(EndWait(t))
=============================================================================
