--------------------------- MODULE MCSearchCalls ---------------------------
(* Small values for the constants of SearchCalls.                          *)
EXTENDS SearchCalls

MCCalls == ((1..Currencies) \X Cabins \X {"primary", "broad"}) \cup Writes
=============================================================================
