-------------------------- MODULE KnowledgeHistory --------------------------
(***************************************************************************)
(* What a store with a knowledge axis promises, whatever its records are:  *)
(* stood[t] is all that was believed at knowledge time t.  Learning        *)
(* something at time k changes what is believed from k on and nothing that *)
(* was believed before.                                                    *)
(***************************************************************************)
EXTENDS Integers

CONSTANT MaxTime

VARIABLES stood, clock

Times == 0 .. MaxTime

Init ==
    /\ clock = 0
    /\ \A t \in Times : stood[t] = stood[0]

Learn(k) ==
    /\ k >= clock
    /\ clock' = k
    /\ \A t \in Times : stood'[t] = IF t < k THEN stood[t] ELSE stood'[k]

Next == \E k \in Times : Learn(k)

Spec == Init /\ [][Next]_<<stood, clock>>
=============================================================================
