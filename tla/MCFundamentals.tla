--------------------------- MODULE MCFundamentals ---------------------------
(***************************************************************************)
(* Two facts in two partitions: one restated at will, once in another      *)
(* currency, the other restated once.                                      *)
(***************************************************************************)
EXTENDS Fundamentals

MCFactYear == [f \in Facts |-> IF f = "revenue" THEN 2020 ELSE 2021]

MCKeys == Facts \X (0 .. MaxSequence)

MCYearOf == [k \in Facts \X (0 .. MaxSequence) |-> MCFactYear[k[1]]]

MCObservations ==
    [fact : {"revenue"}, value : {100, 120}, currency : {"GBP"}, available : Times]
    \cup {[fact |-> "revenue", value |-> 120, currency |-> "USD", available |-> MaxTime],
          [fact |-> "equity", value |-> 100, currency |-> "GBP", available |-> 1],
          [fact |-> "equity", value |-> 120, currency |-> "GBP", available |-> 2]}
=============================================================================
