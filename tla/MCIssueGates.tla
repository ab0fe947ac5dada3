---------------------------- MODULE MCIssueGates ----------------------------
(* Small values for the constants of IssueGates.                           *)
EXTENDS IssueGates

CONSTANTS Ana, Luis, ADT, CNN, AA, UA, Y, K, USD, ARS

MCBookedKinds == <<ADT, CNN>>
MCBookedFare == [total |-> 2, currency |-> USD, carrier |-> AA]
=============================================================================
