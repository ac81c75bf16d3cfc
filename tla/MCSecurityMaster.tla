-------------------------- MODULE MCSecurityMaster --------------------------
(***************************************************************************)
(* Two companies trading since day 1 on the first venue under a ticker     *)
(* each, one of them perhaps on the second venue too.                      *)
(***************************************************************************)
EXTENDS SecurityMaster, Sequences

Founding(secondVenues) ==
    [listings |-> <<NewListing("a", "XLON", 1, None), NewListing("b", "XLON", 1, None)>>
                  \o [i \in DOMAIN secondVenues |-> NewListing("a", secondVenues[i], 1, None)],
     identifiers |-> <<NewTicker("a", "XLON", "A", 1, None), NewTicker("b", "XLON", "B", 1, None)>>
                  \o [i \in DOMAIN secondVenues |-> NewTicker("a", secondVenues[i], "A", 1, None)],
     periods |-> <<NewPeriod("a", "ACTIVE", 1, None), NewPeriod("b", "ACTIVE", 1, None)>>]

MCFoundings == {Founding(<<>>), Founding(<<"XNYS">>)}
=============================================================================
