------------------------------ MODULE SharedWork ------------------------------
(* What a service promises that loads once for all who ask at the same time    *)
(* (single flight): nobody starts what is being done, whoever joins awaits the *)
(* work that is being done, and its end is the answer of all who await it, of  *)
(* those it fails at once, of the others when it was the last they awaited.    *)

CONSTANTS Keys,    \* what can be loaded
          Callers

VARIABLES running, \* the keys somebody works on
          waits    \* the keys each caller awaits

Init ==
    /\ running = {}
    /\ waits = [c \in Callers |-> {}]

\* The caller starts what nobody works on yet, and awaits that with all it
\* joins; or it has its answer at once, and what it started goes on.
Ask(c, started, awaited) ==
    /\ waits[c] = {}
    /\ started \cap running = {}
    /\ running' = running \cup started
    /\ awaited \subseteq running'
    /\ started \subseteq awaited \/ awaited = {}
    /\ waits' = [waits EXCEPT ![c] = awaited]

\* The caller goes away; the work does not.
GiveUp(c) ==
    /\ waits' = [waits EXCEPT ![c] = {}]
    /\ UNCHANGED running

\* Work ends for all who await it.
End(k, failed) ==
    /\ k \in running
    /\ running' = running \ {k}
    /\ waits' = [c \in Callers |-> IF failed /\ k \in waits[c] THEN {} ELSE waits[c] \ {k}]

Next ==
    \/ \E c \in Callers :
         \/ GiveUp(c)
         \/ \E started, awaited \in SUBSET Keys : Ask(c, started, awaited)
    \/ \E k \in Keys, failed \in BOOLEAN : End(k, failed)

Spec == Init /\ [][Next]_<<running, waits>>
=============================================================================
