------------------------- MODULE MCBookingCreation -------------------------
(* Small values for the constants of BookingCreation.                      *)
EXTENDS BookingCreation, TLC

\* Spread the slots over the processes.
MCHome == CHOOSE f \in [Slots -> Procs] :
            \A p \in Procs : \E s \in Slots : f[s] = p

\* One option with two fares and one with one.
MCTwoOptions == {{<<1, 0>>, <<1, 1>>, <<2, 0>>}}

\* One option with one fare.
MCOneAnswer == {{<<1, 0>>}}

MCSymmetry == Permutations(Slots) \cup Permutations(Keys)
=============================================================================
