------------------------- MODULE MCBacktestContext -------------------------
(***************************************************************************)
(* Security "a" may miss prints, "b" never does.  Day 4 is no session.     *)
(***************************************************************************)
EXTENDS BacktestContext

MCSessions == {1, 2, 3, 5, 6}

MCCloses == [s \in Securities |-> [d \in Days |-> IF s = "a" THEN <<8, 9, 4, 4, 5, 6>>[d] ELSE 5]]

Announced(s, kind, ex) ==
    [sid |-> s, kind |-> kind, ex |-> ex, available |-> 0, new |-> 2, old |-> 1,
     amount |-> 2, reason |-> "failure"]

\* Actions of "a"; a delisting is a failure or unexplained.
MCAnnouncements ==
    {Announced("a", "split", 2), Announced("a", "split", 5), Announced("a", "dividend", 3),
     Announced("a", "dividend", 5), Announced("a", "merger", 3), Announced("a", "delisting", 3),
     [Announced("a", "delisting", 3) EXCEPT !.reason = "other"]}

MCMinCoverage == <<3, 5>>
=============================================================================
