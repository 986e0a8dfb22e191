---------------------------- MODULE MCTiersFresh ----------------------------
(* ModelTiers with the count each turn has of its own failed checks, which   *)
(* the code does not keep: a turn may share TierState.failed_on_current with *)
(* the turns before it.                                                      *)
EXTENDS MCModelTiers

VARIABLES
    strikes,  \* checks a turn has failed since its last switch
    early     \* a turn has given its model up with retries to go

(* Turn t stops with a Blocker card. *)
GivesUp(t) ==
    AfterBlocked(t) \/ (AfterEscalate(t) /\ turn'[t].phase = "done")

FreshInit ==
    /\ Init
    /\ strikes = [t \in Turns |-> 0]
    /\ early = FALSE

FreshNext ==
    /\ Next
    /\ strikes' = [t \in Turns |->
                     IF AfterRetry(t) THEN strikes[t] + 1
                     ELSE IF AfterEscalate(t) THEN 0
                     ELSE strikes[t]]
    /\ early' = (early \/ \E t \in Turns :
                     GivesUp(t) /\ strikes[t] < turn[t].prepared.retries)

FreshSpec == FreshInit /\ [][FreshNext]_<<vars, strikes, early>>

(* "A fresh request starts a fresh count" (paddleboard_tiers_hook.rs): a     *)
(* turn gives its model up only after it has itself failed the check once    *)
(* more than the retries.                                                    *)
FreshCount == ~early
=============================================================================
