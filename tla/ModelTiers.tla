----------------------------- MODULE ModelTiers -----------------------------
(***************************************************************************)
(* Model tiers ("Spotter"): what the agent thread does at the end of every *)
(* turn.  The project's check runs; a failure goes back to the same model, *)
(* then the thread moves to a stronger tier or stops with a Blocker card.  *)
(*                                                                         *)
(* Source: crates/paddleboard_tiers (the settings and the decision), the   *)
(* hook crates/agent/src/thread/paddleboard_tiers_hook.rs, the turn loop   *)
(* of crates/agent/src/thread.rs, and the card of agent_ui.                *)
(*                                                                         *)
(* A turn is a task of its own that awaits the model and the check, while  *)
(* the user goes on: cancelling it, sending the next message, picking a    *)
(* model, editing the settings.  A cancelled turn is not stopped, it only  *)
(* has a flag to look at, so several turns can be alive at once and all of *)
(* them share the thread's model and its TierState.                        *)
(***************************************************************************)
EXTENDS Integers, Sequences, FiniteSets

CONSTANTS
    Models,       \* the models the registry can name
    NoModel,      \* no refusal fallback
    NoCard,       \* TierState.blocker = None
    Configs,      \* the tier settings the user may have
    Available,    \* the models that are configured right now
    Fallback,     \* refusal_fallback_model_id: Models -> Models or NoModel
    EntryPoints,  \* how a message reaches the thread: "execute_prompt" is the
                  \* application's way, "send" is Thread::send, which only
                  \* the tests of the crate call
    MaxTurns,     \* bound: turns started
    MaxRefusals,  \* bound: refusals one turn falls back from, after which
                  \* the thread meets no other
    MaxPicks,     \* bound: models picked by hand
    MaxEdits      \* bound: edits of the settings

Turns == 1..MaxTurns

(* The Settings of a thread.  auto_ceiling is the index of the tier it     *)
(* names, 0 when it is absent or names no tier.                            *)
ASSUME ConfigsAssumption ==
    \A c \in Configs :
        /\ c.active \in BOOLEAN
        /\ c.tiers \in Seq(Models)
        /\ c.retries \in Nat
        /\ c.escalation \in {"Ask", "Auto", "Off"}
        /\ c.ceiling \in Nat

ASSUME ModelsAssumption ==
    /\ NoModel \notin Models
    /\ Available \subseteq Models
    /\ Fallback \in [Models -> Models \cup {NoModel}]
    /\ EntryPoints \subseteq {"execute_prompt", "send"}
    /\ MaxTurns \in Nat /\ MaxRefusals \in Nat
    /\ MaxPicks \in Nat /\ MaxEdits \in Nat

VARIABLES
    model,     \* Thread.model
    settings,  \* TiersSettings::get
    failed,    \* TierState.failed_on_current
    history,   \* TierState.history
    blocker,   \* TierState.blocker
    pending,   \* TierState.escalation_pending
    running,   \* Thread.running_turn: a turn, or 0
    turn,      \* the turn tasks
    chosen,    \* ghost: models the user, or a refusal, has put the thread on
    inForce,   \* ghost: settings that have been in force
    picks,     \* models picked by hand so far
    edits      \* edits of the settings so far

tierState == <<failed, history, blocker, pending>>
ghosts == <<chosen, inForce, picks, edits>>
vars == <<model, settings, tierState, running, turn, ghosts>>

-----------------------------------------------------------------------------
(* The decision, as plain functions of the settings.                       *)

tier_index_for_model(s, m) ==
    IF \E i \in DOMAIN s.tiers : s.tiers[i] = m
    THEN CHOOSE i \in DOMAIN s.tiers :
            s.tiers[i] = m /\ \A j \in 1..(i - 1) : s.tiers[j] # m
    ELSE 0

(* The tiers above the current one; every tier when there is none.         *)
escalation_targets(s, current) == {i \in DOMAIN s.tiers : i > current}

(* Mutant: one tier too many. *)
within_ceilingOffByOne(s, i) == s.ceiling = 0 \/ i <= s.ceiling + 1

within_ceiling(s, i) == s.ceiling = 0 \/ i <= s.ceiling

(* decide() for a failed check; `before` is the count before this one.     *)
(* The first target is the tier after the current one.                     *)
decide(s, current, before) ==
    LET offer == escalation_targets(s, current)
        next  == current + 1
    IN  IF before < s.retries THEN [kind |-> "Retry"]
        ELSE IF s.escalation = "Off" THEN [kind |-> "Blocked", offer |-> {}]
        ELSE IF s.escalation = "Ask" \/ offer = {} THEN [kind |-> "Blocked", offer |-> offer]
        ELSE IF within_ceiling(s, next) THEN [kind |-> "Escalate", to |-> next]
        ELSE [kind |-> "Blocked", offer |-> offer]

(* Mutant: a new model's entry replaces those before it. *)
record_failureLast(h, label) ==
    IF h # <<>> /\ h[Len(h)].label = label
    THEN [h EXCEPT ![Len(h)].failed_checks = @ + 1]
    ELSE <<[label |-> label, failed_checks |-> 1]>>

record_failure(h, label) ==
    IF h # <<>> /\ h[Len(h)].label = label
    THEN [h EXCEPT ![Len(h)].failed_checks = @ + 1]
    ELSE Append(h, [label |-> label, failed_checks |-> 1])

-----------------------------------------------------------------------------
Phases == {"unborn", "asking", "streaming", "checking", "checked", "done"}
Outcomes == {"none", "Passed", "Failed", "Stopped", "Unavailable"}

Attempt == [label : Models, failed_checks : Nat]
Card == [label : Models, offer : SUBSET Nat, tried : Seq(Attempt), allowed : Nat]

TurnTask == [phase     : Phases,
             cancelled : BOOLEAN,                  \* the cancellation watch
             fallback  : Models \cup {NoModel},    \* refusal_fallback_model
             on        : Models \cup {NoModel},    \* the model of the request
             prepared  : Configs,                  \* settings read before the check
             outcome   : Outcomes,
             refusals  : Nat]                      \* refusals it has fallen back from

Init ==
    /\ model \in Available
    /\ settings \in Configs
    /\ failed = 0 /\ history = <<>> /\ blocker = NoCard /\ pending = FALSE
    /\ running = 0
    /\ turn = [t \in Turns |->
                 [phase |-> "unborn", cancelled |-> FALSE, fallback |-> NoModel,
                  on |-> NoModel, prepared |-> settings, outcome |-> "none",
                  refusals |-> 0]]
    /\ chosen = {model} /\ inForce = {settings}
    /\ picks = 0 /\ edits = 0

-----------------------------------------------------------------------------
(* The user.                                                               *)

(* run_turn: raise the running turn's flag, start the next one.            *)
StartTurn(t) ==
    /\ turn[t].phase = "unborn"
    /\ \A u \in Turns : u < t => turn[u].phase # "unborn"
    /\ turn' = [u \in Turns |->
                  IF u = t THEN [turn[u] EXCEPT !.phase = "asking"]
                  ELSE IF u = running THEN [turn[u] EXCEPT !.cancelled = TRUE]
                  ELSE turn[u]]
    /\ running' = t

(* execute_prompt, like the skill, MCP prompt and resume paths, reaches    *)
(* run_turn through send_existing: the TierState is not told.              *)
ExecutePrompt(t) ==
    /\ "execute_prompt" \in EntryPoints
    /\ StartTurn(t)
    /\ UNCHANGED <<model, settings, tierState, ghosts>>

(* Thread::send also calls paddleboard_tiers_note_user_message.            *)
Send(t) ==
    /\ "send" \in EntryPoints
    /\ StartTurn(t)
    /\ blocker' = NoCard
    /\ failed' = 0
    /\ pending' = FALSE
    /\ history' = IF pending THEN history ELSE <<>>
    /\ UNCHANGED <<model, settings, ghosts>>

Cancel ==
    /\ running # 0
    /\ turn' = [turn EXCEPT ![running].cancelled = TRUE]
    /\ running' = 0
    /\ UNCHANGED <<model, settings, tierState, ghosts>>

(* A button of the card: the index is looked up in the settings of now.    *)
(* The message it composes is then sent like a typed one, by a task of the *)
(* view: a later ExecutePrompt.                                            *)
EscalateToTier(i) ==
    /\ blocker # NoCard
    /\ i \in blocker.offer
    /\ i \in DOMAIN settings.tiers
    /\ settings.tiers[i] \in Available
    /\ model' = settings.tiers[i]
    /\ blocker' = NoCard
    /\ failed' = 0
    /\ pending' = TRUE
    /\ chosen' = chosen \cup {settings.tiers[i]}
    /\ UNCHANGED <<settings, history, running, turn, inForce, picks, edits>>

DismissBlocker ==
    /\ blocker # NoCard
    /\ blocker' = NoCard
    /\ UNCHANGED <<model, settings, failed, history, pending, running, turn, ghosts>>

PickModel(m) ==
    /\ picks < MaxPicks
    /\ m # model
    /\ model' = m
    /\ chosen' = chosen \cup {m}
    /\ picks' = picks + 1
    /\ UNCHANGED <<settings, tierState, running, turn, inForce, edits>>

EditSettings(s) ==
    /\ edits < MaxEdits
    /\ s # settings
    /\ settings' = s
    /\ inForce' = inForce \cup {s}
    /\ edits' = edits + 1
    /\ UNCHANGED <<model, tierState, running, turn, chosen, picks>>

-----------------------------------------------------------------------------
(* A turn: run_turn_internal.                                              *)

(* The end of run_turn: a cancelled turn leaves running_turn alone.  What  *)
(* the task held is gone with it.                                          *)
Finish(t, record) ==
    /\ turn' = [turn EXCEPT ![t] = [record EXCEPT !.phase = "done", !.cancelled = FALSE,
                   !.fallback = NoModel, !.on = NoModel, !.outcome = "none"]]
    /\ running' = IF turn[t].cancelled THEN running ELSE 0

Resume(t, record) ==
    /\ turn' = [turn EXCEPT ![t] = [record EXCEPT !.phase = "asking",
                   !.on = NoModel, !.outcome = "none"]]
    /\ UNCHANGED running

Unhooked == UNCHANGED <<settings, tierState, inForce, picks, edits>>

(* The top of the loop, and the cancellation branch of its select.         *)
SeeCancellation(t) ==
    /\ turn[t].phase \in {"asking", "streaming"}
    /\ turn[t].cancelled
    /\ Finish(t, turn[t])
    /\ Unhooked /\ UNCHANGED <<model, chosen>>

(* The refusal fallback, when there is one, hides the thread's model.      *)
SendRequest(t) ==
    /\ turn[t].phase = "asking"
    /\ ~turn[t].cancelled
    /\ turn' = [turn EXCEPT
         ![t] = [@ EXCEPT !.phase = "streaming",
             !.on = IF turn[t].fallback # NoModel THEN turn[t].fallback ELSE model]]
    /\ Unhooked /\ UNCHANGED <<model, chosen, running>>

(* A round of tool calls, or a completion error: the loop goes round, or   *)
(* the turn ends (a steering message waits, the retries are used up).      *)
NextRound(t) ==
    /\ turn[t].phase = "streaming"
    /\ ~turn[t].cancelled
    /\ Resume(t, turn[t]) \/ Finish(t, turn[t])
    /\ Unhooked /\ UNCHANGED <<model, chosen>>

(* Mutant: the fallback is taken without looking it up. *)
RefusedUnchecked(t) ==
    /\ turn[t].phase = "streaming"
    /\ ~turn[t].cancelled
    /\ model' = Fallback[model]
    /\ chosen' = chosen \cup {Fallback[model]}
    /\ Resume(t, [turn[t] EXCEPT !.fallback = Fallback[model]])
    /\ Unhooked

(* The model refuses: the turn goes on with the fallback its provider      *)
(* names, which may be a lower tier, or ends.  Nothing in the code bounds  *)
(* how often; MaxRefusals does here.                                       *)
Refused(t) ==
    LET current == IF turn[t].fallback # NoModel THEN turn[t].fallback ELSE model
        next    == Fallback[current]
    IN  /\ turn[t].phase = "streaming"
        /\ ~turn[t].cancelled
        /\ \/ /\ next \in Available
              /\ \A u \in Turns : turn[u].refusals < MaxRefusals
              /\ model' = next
              /\ chosen' = chosen \cup {next}
              /\ Resume(t, [turn[t] EXCEPT !.fallback = next, !.refusals = @ + 1])
           \/ /\ next \notin Available
              /\ Finish(t, turn[t])
              /\ UNCHANGED <<model, chosen>>
        /\ Unhooked

(* The model ends its turn: the hook reads the settings and starts the     *)
(* check, or the turn is over.                                             *)
BeginCheck(t) ==
    /\ turn[t].phase = "streaming"
    /\ ~turn[t].cancelled
    /\ \/ /\ settings.active
          /\ turn' = [turn EXCEPT ![t] = [@ EXCEPT !.phase = "checking",
                                                   !.on = NoModel, !.prepared = settings]]
          /\ UNCHANGED running
       \/ ~settings.active /\ Finish(t, turn[t])
    /\ Unhooked /\ UNCHANGED <<model, chosen>>

(* The terminal tool ends.  It asks last of all whether it was cancelled,  *)
(* so a cancelled check is Stopped, or Unavailable when it never ran.      *)
CheckEnds(t, o) ==
    /\ turn[t].phase = "checking"
    /\ turn[t].cancelled => o \in {"Stopped", "Unavailable"}
    /\ turn' = [turn EXCEPT ![t] = [@ EXCEPT !.phase = "checked", !.outcome = o]]
    /\ Unhooked /\ UNCHANGED <<model, chosen, running>>

-----------------------------------------------------------------------------
(* The hook's second half, one action per decision.  It runs later than    *)
(* the check and looks neither at the flag nor at the prompt's id.         *)

Decision(t) ==
    decide(turn[t].prepared, tier_index_for_model(turn[t].prepared, model), failed)

Checked(t, outcomes) == turn[t].phase = "checked" /\ turn[t].outcome \in outcomes

AfterDone(t) ==
    /\ Checked(t, {"Passed", "Stopped"})
    /\ history' = <<>>
    /\ failed' = 0
    /\ Finish(t, turn[t])
    /\ UNCHANGED <<model, settings, blocker, pending, ghosts>>

(* Mutant: a check that could not run is handed back to the model. *)
AfterUnavailableAgain(t) ==
    /\ Checked(t, {"Unavailable"})
    /\ Resume(t, turn[t])
    /\ UNCHANGED <<model, settings, tierState, ghosts>>

AfterUnavailable(t) ==
    /\ Checked(t, {"Unavailable"})
    /\ Finish(t, turn[t])
    /\ UNCHANGED <<model, settings, tierState, ghosts>>

AfterRetry(t) ==
    /\ Checked(t, {"Failed"})
    /\ Decision(t).kind = "Retry"
    /\ failed' = failed + 1
    /\ history' = record_failure(history, model)
    /\ Resume(t, turn[t])
    /\ UNCHANGED <<model, settings, blocker, pending, ghosts>>

(* Stop with a card; its buttons are the tiers of `offer` that can be      *)
(* pressed, the others are shown disabled.                                 *)
Block(t, offer) ==
    LET tried == record_failure(history, model)
        s     == turn[t].prepared
    IN  /\ failed' = failed + 1
        /\ history' = tried
        /\ blocker' = [label |-> model, tried |-> tried, allowed |-> s.retries,
                       offer |-> {i \in offer : s.tiers[i] \in Available}]
        /\ Finish(t, turn[t])
        /\ UNCHANGED <<model, settings, pending, ghosts>>

AfterEscalate(t) ==
    LET to == turn[t].prepared.tiers[Decision(t).to]
    IN  /\ Checked(t, {"Failed"})
        /\ Decision(t).kind = "Escalate"
        /\ \/ to \notin Available /\ Block(t, {})
           \/ /\ to \in Available
              /\ history' = record_failure(history, model)
              /\ failed' = 0
              /\ model' = to
              /\ Resume(t, [turn[t] EXCEPT !.fallback = NoModel])
              /\ UNCHANGED <<settings, blocker, pending, ghosts>>

AfterBlocked(t) ==
    /\ Checked(t, {"Failed"})
    /\ Decision(t).kind = "Blocked"
    /\ Block(t, Decision(t).offer)

-----------------------------------------------------------------------------
User ==
    \/ \E t \in Turns : ExecutePrompt(t) \/ Send(t)
    \/ Cancel
    \/ blocker # NoCard /\ \E i \in blocker.offer : EscalateToTier(i)
    \/ DismissBlocker
    \/ \E m \in Available : PickModel(m)
    \/ \E s \in Configs : EditSettings(s)

(* What the turn's own task does, and what it waits for.                   *)
TurnStep(t) ==
    \/ SeeCancellation(t) \/ SendRequest(t) \/ BeginCheck(t)
    \/ \E o \in Outcomes \ {"none"} : CheckEnds(t, o)
    \/ AfterDone(t) \/ AfterUnavailable(t) \/ AfterRetry(t)
    \/ AfterEscalate(t) \/ AfterBlocked(t)

Next ==
    \/ User
    \/ \E t \in Turns : TurnStep(t) \/ NextRound(t) \/ Refused(t)

Spec == Init /\ [][Next]_vars

(* Every task that can run does run, and the check ends (it has a          *)
(* timeout).  A model that is asked again and again ends its turn some     *)
(* time; tool rounds and refusals need not happen.                         *)
Fairness == \A t \in Turns : WF_vars(TurnStep(t)) /\ SF_vars(BeginCheck(t))
FairSpec == Spec /\ Fairness

-----------------------------------------------------------------------------
TypeOK ==
    /\ model \in Models
    /\ settings \in Configs
    /\ failed \in Nat
    /\ history \in Seq(Attempt)
    /\ blocker \in Card \cup {NoCard}
    /\ pending \in BOOLEAN
    /\ running \in Turns \cup {0}
    /\ turn \in [Turns -> TurnTask]
    /\ chosen \subseteq Models
    /\ inForce \subseteq Configs
    /\ picks \in Nat /\ edits \in Nat

(* The models automatic escalation may have moved to.                      *)
AutoReach ==
    {m \in Models : \E c \in inForce :
        /\ c.escalation = "Auto"
        /\ \E i \in DOMAIN c.tiers : c.tiers[i] = m /\ (c.ceiling = 0 \/ i <= c.ceiling)}

(* MODEL_TIERS.md, "the user stays in charge of spend": whatever the       *)
(* interleaving of checks, cancellations, hand picks and edits, the thread *)
(* is on a model, and a request goes to a model, that the user or a        *)
(* refusal chose, or that lies within the ceiling of an "auto" setting the *)
(* user has had.                                                           *)
SpendConsented ==
    /\ model \in chosen \cup AutoReach
    /\ \A t \in Turns :
         turn[t].phase = "streaming" => turn[t].on \in chosen \cup AutoReach

(* The failed checks of a list of attempts, all together.                  *)
FailedChecks(tried) ==
    LET total[n \in 0..Len(tried)] ==
          IF n = 0 THEN 0 ELSE total[n - 1] + tried[n].failed_checks
    IN  total[Len(tried)]

(* "Shown when the project check has failed ... as many times as allowed": *)
(* the attempts a card lists add up to more failed checks than the retries *)
(* the settings allow.  The counter that decides and the history that is   *)
(* shown are two variables, reset in different places by several turns.    *)
CardCounts ==
    blocker # NoCard => FailedChecks(blocker.tried) > blocker.allowed

(* Every turn that starts ends, if refusals do (there are MaxRefusals):    *)
(* failed checks cannot keep the model going for ever, neither on this     *)
(* tier nor on the next ones, nor when a refusal has sent the thread down  *)
(* to a tier from which it climbs with a new count.  A turn that is        *)
(* refused again and again need not end (ClimbedOnce).                     *)
TurnEnds == \A t \in Turns : (turn[t].phase = "asking") ~> (turn[t].phase = "done")

(* MODEL_TIERS.md, "fix attempts on the current tier before stopping": in  *)
(* a thread of one turn, no tier fails the check more often than its       *)
(* retries allow.  It does not hold once a refusal falls back to a tier    *)
(* that the turn has given up: AfterEscalate has reset the count, so every *)
(* further refusal buys the lower tier its retries again.                  *)
ClimbedOnce ==
    \A i \in DOMAIN history : history[i].failed_checks <= settings.retries + 1

(* A cancelled turn, whose check may still be under way when the next turn *)
(* runs, changes neither the thread's model nor its card.                  *)
CancelledTurnsInert ==
    [][\A t \in Turns :
         turn[t].cancelled /\ turn'[t] # turn[t] => UNCHANGED <<model, blocker>>]_vars
=============================================================================
