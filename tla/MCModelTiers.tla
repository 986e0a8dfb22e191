---------------------------- MODULE MCModelTiers ----------------------------
(* Instances of ModelTiers for TLC: four tiers, the first of which names a   *)
(* model that is not configured, and one model outside the tiers.            *)
EXTENDS ModelTiers

CONSTANTS missing, local, fast, deep, other

Setting(escalation, ceiling, active) ==
    [active |-> active, tiers |-> <<missing, local, fast, deep>>, retries |-> 1,
     escalation |-> escalation, ceiling |-> ceiling]

(* Automatic below the strongest tier, and switched off.                     *)
AutoOrInactive == {Setting("Auto", 3, TRUE), Setting("Off", 0, FALSE)}
AskOnly == {Setting("Ask", 0, TRUE)}
AutoOnly == {Setting("Auto", 3, TRUE)}

(* What a provider falls back to when a model refuses: `fast` to the tier    *)
(* below, which automatic escalation leaves again, `deep` to no tier at all. *)
FallsBack ==
    [m \in Models |-> CASE m = fast -> local [] m = deep -> other [] OTHER -> NoModel]
=============================================================================
