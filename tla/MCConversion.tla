--------------------------- MODULE MCConversion ---------------------------
(* Conversion with two specs and two types of conditions.                  *)
EXTENDS Conversion

CONSTANTS x, y

TwoSpecs == {x, y}
TwoTypes == {Stalled, "Reconciling"}
Junk == {[text |-> "junk"]}
=============================================================================
