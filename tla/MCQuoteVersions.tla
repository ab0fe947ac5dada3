-------------------------- MODULE MCQuoteVersions --------------------------
(* Small values for the constants of QuoteVersions.                        *)
EXTENDS QuoteVersions, TLC

\* Spread the slots over the processes.
MCHome == CHOOSE f \in [Slots -> Procs] :
            \A p \in Procs : \E s \in Slots : f[s] = p

\* No option: for questions the selection has no part in.
MCNoOption == {{}}

\* One option with one fare.
MCOneOption == {{<<1, 0>>}}

\* An agent marks a quote superseded by hand.
MCSupersede == {[client |-> None, status |-> "superseded"]}

\* Workers change places together with their requests.
MCSymmetry ==
    {f @@ g : <<f, g>> \in
        {fg \in Permutations(Slots) \X Permutations(Procs) :
            \A s \in Slots : Home[fg[1][s]] = fg[2][Home[s]]}}
=============================================================================
