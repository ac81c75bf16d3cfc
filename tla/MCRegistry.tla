----------------------------- MODULE MCRegistry -----------------------------
(***************************************************************************)
(* Two experiments against one hypothesis, and two sessions: either their  *)
(* operations overlap, on the smaller instance, or they take turns, with   *)
(* more runs, a tree and datasets that move on, and one name.              *)
(***************************************************************************)
EXTENDS Registry, TLC

Design(name, class, oos) ==
    [hyp |-> "h1", name |-> name, created |-> 2, oos |-> oos, class |-> class]

MCDesigns == {Design("a", "confirmatory", FALSE), Design("a", "exploratory", FALSE),
              Design("b", "confirmatory", FALSE)}

\* Bounds of each kind of behaviour
OneName == \A e \in DOMAIN exps : exps[e].design.name = "a"

Overlapping ==
    /\ env.version = 0 /\ \A h \in DOMAIN hyps : hyps[h] = 1
    /\ \A e \in DOMAIN exps : Cardinality(RunsFor(e)) <= 1
    /\ \A p \in Sessions : session[p].pc \in {"execute", "publish"} => session[p].run[2] = 1

MCSpec == Init /\ [][Next /\ IF turns THEN OneName' ELSE Overlapping']_vars

Symmetric == Permutations(Sessions) \cup Permutations(Exps)
=============================================================================
