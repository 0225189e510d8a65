------------------------- MODULE MCCorrelationGate -------------------------
(* A small instance of CorrelationGate: a short EUR/USD and a short gold      *)
(* position, which together are too many long dollars; a long EUR/JPY one that *)
(* was open before and, with the other, is too many euros in gross and none in *)
(* net; and a pair the parser refuses.  A EUR/USD costs twice the placeholder  *)
(* and gold may double, so that at the market's prices the gross limit of the  *)
(* euro does break.                                                           *)
EXTENDS CorrelationGate

Pair(base, quote, dir, price) ==
  [base |-> base, quote |-> quote, dir |-> dir, units |-> 1, price |-> price]

MCInfo ==
  [s \in Signals |->
     CASE s = "eur"   -> Pair("EUR", "USD", "SHORT", 2)
       [] s = "gold"  -> Pair("XAU", "USD", "SHORT", 1)
       [] s = "cross" -> Pair("EUR", "JPY", "LONG", 1)
       [] s = "bad"   -> Pair("USD", "ABC", "LONG", 1)]

MCLimits ==
  [c \in Currencies |-> [hardCount |-> 2, hardNet |-> 9,
                         hardGross |-> IF c = "EUR" THEN 2 ELSE 9,
                         softCount |-> 2, softNet |-> 9,
                         softGross |-> IF c = "XAU" THEN 2 ELSE 9]]
=============================================================================
