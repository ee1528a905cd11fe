------------------------------- MODULE PeerCall -------------------------------
(***************************************************************************)
(* What a delegated call promises the workflow that awaits it: its effect  *)
(* happens at most once, an accepted call has had its effect, a refused    *)
(* one has none and never will, and a call whose outcome is in doubt may   *)
(* still have its effect later.                                            *)
(***************************************************************************)
EXTENDS Naturals

CONSTANT Delegations

VARIABLES
    outcome,    \* "open", then what the caller may conclude
    effects     \* how many times the effect was caused

callVars == <<outcome, effects>>

CallInit ==
    /\ outcome = [d \in Delegations |-> "open"]
    /\ effects = [d \in Delegations |-> 0]

TakeEffect(d) ==
    /\ outcome[d] \in {"open", "doubtful"}
    /\ effects[d] = 0
    /\ effects' = [effects EXCEPT ![d] = 1]
    /\ UNCHANGED outcome

Conclude(d, o) ==
    /\ outcome[d] = "open"
    /\ o = "accepted" => effects[d] = 1
    /\ o = "refused" => effects[d] = 0
    /\ outcome' = [outcome EXCEPT ![d] = o]
    /\ UNCHANGED effects

CallNext ==
    \E d \in Delegations :
        \/ TakeEffect(d)
        \/ \E o \in {"accepted", "refused", "doubtful"} : Conclude(d, o)

CallSpec == CallInit /\ [][CallNext]_callVars

=============================================================================
