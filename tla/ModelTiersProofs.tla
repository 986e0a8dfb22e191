-------------------------- MODULE ModelTiersProofs --------------------------
(***************************************************************************)
(* Model tiers for any models, settings and number of turns: the thread is *)
(* only ever on a model the user agreed to, and a Blocker card accounts    *)
(* for more failures than were allowed.                                    *)
(***************************************************************************)
EXTENDS ModelTiers, WellFoundedInduction, TLAPS

-----------------------------------------------------------------------------
(* The decision.                                                           *)

(* A set of naturals that is not empty has a least element. *)
LEMMA LeastNatural ==
  ASSUME NEW S, S \subseteq Nat, S # {}
  PROVE  \E i \in S : \A j \in S : i <= j
  <1> DEFINE R == OpToRel(<, Nat)
  <1>1. IsWellFoundedOn(R, Nat)
    BY NatLessThanWellFounded
  <1> HIDE DEF R
  <1>2. PICK i \in S : \A j \in S : ~ (<<j, i>> \in R)
    BY <1>1, WFMin
  <1>3. \A j \in S : ~ (j < i)
    BY <1>2 DEF R, OpToRel
  <1> QED
    BY <1>3

(* The tier of a model is a tier that names it, or 0. *)
LEMMA TierIndex ==
  ASSUME NEW s \in Configs, NEW m
  PROVE  \/ tier_index_for_model(s, m) = 0
         \/ /\ tier_index_for_model(s, m) \in DOMAIN s.tiers
            /\ s.tiers[tier_index_for_model(s, m)] = m
  <1> DEFINE S == {i \in DOMAIN s.tiers : s.tiers[i] = m}
  <1>1. s.tiers \in Seq(Models) /\ DOMAIN s.tiers \subseteq Nat
    BY ConfigsAssumption
  <1>2. CASE S = {}
    BY <1>2 DEF tier_index_for_model
  <1>3. CASE S # {}
    <2>1. PICK i \in S : \A j \in S : i <= j
      BY <1>1, <1>3, LeastNatural
    <2>2. \A j \in 1..(i - 1) : s.tiers[j] # m
      BY <1>1, <2>1
    <2> QED
      BY <2>1, <2>2 DEF tier_index_for_model
  <1> QED
    BY <1>2, <1>3

(* The decision offers and names tiers of the settings only, and it         *)
(* escalates only where the settings say auto, within their ceiling.        *)
LEMMA DecideSound ==
  ASSUME NEW s \in Configs, NEW m, NEW before \in Nat
  PROVE  LET d == decide(s, tier_index_for_model(s, m), before)
         IN  /\ d.kind = "Blocked" => d.offer \subseteq DOMAIN s.tiers
             /\ d.kind = "Escalate" =>
                  /\ s.escalation = "Auto"
                  /\ d.to \in DOMAIN s.tiers
                  /\ s.ceiling = 0 \/ d.to <= s.ceiling
  <1> DEFINE current == tier_index_for_model(s, m)
             d == decide(s, current, before)
             offer == escalation_targets(s, current)
  <1>1. s.tiers \in Seq(Models) /\ s.escalation \in {"Ask", "Auto", "Off"}
    BY ConfigsAssumption
  <1>2. current \in Nat
    BY <1>1, TierIndex
  <1> HIDE DEF current
  <1>3. offer # {} => current + 1 \in DOMAIN s.tiers
    BY <1>1, <1>2 DEF escalation_targets
  <1>4. offer \subseteq DOMAIN s.tiers
    BY DEF escalation_targets
  <1> HIDE DEF offer
  <1>5. CASE before < s.retries
    BY <1>5 DEF decide
  <1>6. CASE ~ (before < s.retries) /\ s.escalation = "Off"
    BY <1>6 DEF decide
  <1>7. CASE ~ (before < s.retries) /\ s.escalation # "Off" /\ (s.escalation = "Ask" \/ offer = {})
    <2>1. d = [kind |-> "Blocked", offer |-> offer]
      BY <1>7 DEF decide, offer
    <2> QED
      BY <1>4, <2>1 DEF current
  <1>8. CASE /\ ~ (before < s.retries) /\ s.escalation = "Auto" /\ offer # {}
             /\ within_ceiling(s, current + 1)
    <2>1. d = [kind |-> "Escalate", to |-> current + 1]
      BY <1>8 DEF decide, offer
    <2> QED
      BY <1>3, <1>8, <2>1 DEF within_ceiling, current
  <1>9. CASE /\ ~ (before < s.retries) /\ s.escalation = "Auto" /\ offer # {}
             /\ ~ within_ceiling(s, current + 1)
    <2>1. d = [kind |-> "Blocked", offer |-> offer]
      BY <1>9 DEF decide, offer
    <2> QED
      BY <1>4, <2>1 DEF current
  <1> QED
    BY <1>1, <1>5, <1>6, <1>7, <1>8, <1>9 DEF current

(* The list of attempts stays one. *)
LEMMA RecordType ==
  ASSUME NEW h \in Seq(Attempt), NEW m \in Models
  PROVE  record_failure(h, m) \in Seq(Attempt)
  <1>1. CASE h # <<>> /\ h[Len(h)].label = m
    <2> DEFINE a == [h[Len(h)] EXCEPT !.failed_checks = h[Len(h)].failed_checks + 1]
    <2>1. Len(h) \in 1..Len(h) /\ h[Len(h)] \in Attempt /\ h \in [1..Len(h) -> Attempt]
      BY <1>1
    <2>2. a \in Attempt
      BY <2>1 DEF Attempt
    <2>3. record_failure(h, m) = [h EXCEPT ![Len(h)] = a]
      BY <1>1 DEF record_failure
    <2> HIDE DEF a
    <2> QED
      BY <2>1, <2>2, <2>3
  <1>2. CASE ~ (h # <<>> /\ h[Len(h)].label = m)
    <2>1. [label |-> m, failed_checks |-> 1] \in Attempt
      BY DEF Attempt
    <2> QED
      BY <1>2, <2>1 DEF record_failure
  <1> QED
    BY <1>1, <1>2

-----------------------------------------------------------------------------
(* The invariant.                                                          *)

(* A turn's request, the fallback it goes on with and the settings it works *)
(* with were all agreed to.                                                 *)
Agreed(r) ==
    /\ r.phase = "streaming" => r.on \in chosen \cup AutoReach
    /\ r.fallback \in chosen \cup {NoModel}
    /\ r.prepared \in inForce
TurnsAgreed == \A t \in Turns : Agreed(turn[t])

(* The inductive invariant. *)
Inv ==
    /\ TypeOK
    /\ model \in chosen \cup AutoReach
    /\ settings \in inForce
    /\ TurnsAgreed

(* The thread's own variables. *)
ThreadTyped ==
    /\ model \in Models
    /\ settings \in Configs
    /\ failed \in Nat
    /\ history \in Seq(Attempt)
    /\ blocker \in Card \cup {NoCard}
    /\ pending \in BOOLEAN
    /\ running \in Turns \cup {0}
    /\ chosen \subseteq Models
    /\ inForce \subseteq Configs
    /\ picks \in Nat /\ edits \in Nat

(* It and the turn tasks make up the type invariant. *)
LEMMA TypeParts == TypeOK <=> ThreadTyped /\ turn \in [Turns -> TurnTask]
  BY Zenon DEF TypeOK, ThreadTyped

(* A model that automatic escalation could reach stays one. *)
LEMMA ReachGrows ==
  ASSUME inForce \subseteq inForce'
  PROVE  AutoReach \subseteq AutoReach'
  BY DEF AutoReach

(* Agreement lasts. *)
LEMMA AgreementLasts ==
  ASSUME inForce \subseteq inForce', chosen \subseteq chosen', NEW r, Agreed(r)
  PROVE  /\ r.phase = "streaming" => r.on \in chosen' \cup AutoReach'
         /\ r.fallback \in chosen' \cup {NoModel}
         /\ r.prepared \in inForce'
  BY ReachGrows DEF Agreed

(* One turn goes on as r, with the consents of before or more. *)
LEMMA OneTurn ==
  ASSUME Inv, NEW t \in Turns, NEW r \in TurnTask, turn' = [turn EXCEPT ![t] = r],
         inForce \subseteq inForce', chosen \subseteq chosen',
         r.phase = "streaming" => r.on \in chosen' \cup AutoReach',
         r.fallback \in chosen' \cup {NoModel},
         r.prepared \in inForce'
  PROVE  turn' \in [Turns -> TurnTask] /\ TurnsAgreed'
  <1>1. turn \in [Turns -> TurnTask] /\ TurnsAgreed
    BY DEF Inv, TypeOK
  <1>2. \A u \in Turns : turn'[u] = IF u = t THEN r ELSE turn[u]
    BY <1>1
  <1>3. ASSUME NEW u \in Turns PROVE Agreed(turn[u])'
    <2>1. CASE u = t
      BY <1>2, <2>1 DEF Agreed
    <2>2. CASE u # t
      <3>1. turn'[u] = turn[u] /\ Agreed(turn[u])
        BY <1>1, <1>2, <2>2 DEF TurnsAgreed
      <3> QED
        BY <3>1, AgreementLasts DEF Agreed
    <2> QED
      BY <2>1, <2>2
  <1> QED
    BY <1>1, <1>3 DEF TurnsAgreed

(* A turn that has fallen back once more. *)
LEMMA FallenBack ==
  ASSUME NEW r \in TurnTask, NEW m \in Models
  PROVE  LET q == [r EXCEPT !.fallback = m, !.refusals = r.refusals + 1]
         IN  q \in TurnTask /\ q.fallback = m /\ q.prepared = r.prepared
  <1>1. PICK n \in Nat : n = r.refusals + 1
    BY DEF TurnTask
  <1> QED
    BY <1>1 DEF TurnTask

(* The end of a turn, whatever its record was. *)
LEMMA Finished ==
  ASSUME Inv, NEW t \in Turns, NEW record \in TurnTask, Finish(t, record),
         record.prepared \in inForce, inForce' = inForce, chosen' = chosen
  PROVE  turn' \in [Turns -> TurnTask] /\ TurnsAgreed' /\ running' \in Turns \cup {0}
  <1> DEFINE r == [record EXCEPT !.phase = "done", !.cancelled = FALSE, !.fallback = NoModel,
                     !.on = NoModel, !.outcome = "none"]
  <1>1. r \in TurnTask /\ r.phase # "streaming" /\ r.fallback = NoModel
        /\ r.prepared = record.prepared
    BY DEF TurnTask, Phases, Outcomes
  <1>2. turn' = [turn EXCEPT ![t] = r]
    BY DEF Finish
  <1> HIDE DEF r
  <1>3. turn' \in [Turns -> TurnTask] /\ TurnsAgreed'
    BY <1>1, <1>2, OneTurn
  <1>4. running' \in Turns \cup {0}
    BY DEF Finish, Inv, TypeOK
  <1> QED
    BY <1>3, <1>4

(* The next round of a turn. *)
LEMMA Resumed ==
  ASSUME Inv, NEW t \in Turns, NEW record \in TurnTask, Resume(t, record),
         record.prepared \in inForce, inForce' = inForce, chosen \subseteq chosen',
         record.fallback \in chosen' \cup {NoModel}
  PROVE  turn' \in [Turns -> TurnTask] /\ TurnsAgreed' /\ running' \in Turns \cup {0}
  <1> DEFINE r == [record EXCEPT !.phase = "asking", !.on = NoModel, !.outcome = "none"]
  <1>1. r \in TurnTask /\ r.phase # "streaming" /\ r.fallback = record.fallback
        /\ r.prepared = record.prepared
    BY DEF TurnTask, Phases, Outcomes
  <1>2. turn' = [turn EXCEPT ![t] = r]
    BY DEF Resume
  <1> HIDE DEF r
  <1>3. turn' \in [Turns -> TurnTask] /\ TurnsAgreed'
    BY <1>1, <1>2, OneTurn
  <1>4. running' \in Turns \cup {0}
    BY DEF Resume, Inv, TypeOK
  <1> QED
    BY <1>3, <1>4

(* The thread starts on a model the user has chosen. *)
LEMMA InvInit == Init => Inv
  <1> SUFFICES ASSUME Init PROVE Inv
    OBVIOUS
  <1>1. ThreadTyped
    <2>1. pending \in BOOLEAN /\ blocker \in Card \cup {NoCard}
      BY Zenon DEF Init
    <2>2. /\ model \in Models /\ settings \in Configs /\ failed \in Nat
          /\ history \in Seq(Attempt) /\ running \in Turns \cup {0}
          /\ chosen \subseteq Models /\ inForce \subseteq Configs
          /\ picks \in Nat /\ edits \in Nat
      BY ModelsAssumption DEF Init
    <2> QED
      BY <2>1, <2>2, Zenon DEF ThreadTyped
  <1>2. turn \in [Turns -> TurnTask]
    BY DEF Init, TurnTask, Phases, Outcomes
  <1>3. TurnsAgreed
    BY DEF Init, TurnsAgreed, Agreed
  <1>4. model \in chosen /\ settings \in inForce
    BY DEF Init
  <1> QED
    BY <1>1, <1>2, <1>3, <1>4, TypeParts DEF Inv

-----------------------------------------------------------------------------
(* The steps.                                                              *)

(* The parts of the invariant after a step. *)
LEMMA Together ==
  ASSUME ThreadTyped', turn' \in [Turns -> TurnTask], TurnsAgreed',
         model' \in chosen' \cup AutoReach', settings' \in inForce'
  PROVE  Inv'
  <1>1. TypeOK'
    BY Zenon DEF TypeOK, ThreadTyped
  <1> QED
    BY <1>1 DEF Inv

(* The types of the thread's variables, for a step that leaves the tier     *)
(* state alone.                                                             *)
LEMMA ThreadKept ==
  ASSUME Inv, UNCHANGED <<settings, tierState, inForce, picks, edits>>,
         model' \in Models, chosen' \subseteq Models, running' \in Turns \cup {0}
  PROVE  ThreadTyped'
  <1>1. ThreadTyped
    BY TypeParts DEF Inv
  <1>2. /\ settings' = settings /\ failed' = failed /\ history' = history
        /\ blocker' = blocker /\ pending' = pending /\ inForce' = inForce
        /\ picks' = picks /\ edits' = edits
    BY DEF tierState
  <1> QED
    BY <1>1, <1>2, Zenon DEF ThreadTyped

(* A thread that stays on its model stays on one that was agreed to. *)
LEMMA ModelKept ==
  ASSUME Inv, model' = model, chosen \subseteq chosen', inForce \subseteq inForce'
  PROVE  model' \in chosen' \cup AutoReach'
  BY ReachGrows DEF Inv

(* Settings that stay have been in force. *)
LEMMA SettingsKept ==
  ASSUME Inv, settings' = settings, inForce \subseteq inForce'
  PROVE  settings' \in inForce'
  BY DEF Inv

(* The turns, for a step of the user that leaves them alone. *)
LEMMA TurnsKept ==
  ASSUME Inv, turn' = turn, chosen \subseteq chosen', inForce \subseteq inForce'
  PROVE  turn' \in [Turns -> TurnTask] /\ TurnsAgreed'
  <1>1. \A t \in Turns : Agreed(turn[t])
    BY DEF Inv, TurnsAgreed
  <1>2. ASSUME NEW t \in Turns PROVE Agreed(turn[t])'
    BY <1>1, AgreementLasts DEF Agreed
  <1> QED
    BY <1>2 DEF Inv, TypeOK, TurnsAgreed

(* A turn starts: the others are as they were, or carry the flag. *)
LEMMA Started ==
  ASSUME Inv, NEW t \in Turns, StartTurn(t), chosen' = chosen, inForce' = inForce
  PROVE  turn' \in [Turns -> TurnTask] /\ TurnsAgreed' /\ running' \in Turns \cup {0}
  <1>1. ASSUME NEW u \in Turns
        PROVE  /\ turn'[u] \in TurnTask
               /\ turn'[u].fallback = turn[u].fallback /\ turn'[u].prepared = turn[u].prepared
               /\ turn'[u].phase = "streaming" => turn[u].phase = "streaming"
               /\ turn'[u].on = turn[u].on
    <2>1. turn[u] \in TurnTask
      BY DEF Inv, TypeOK
    <2>2. turn'[u] \in {[turn[u] EXCEPT !.phase = "asking"],
                       [turn[u] EXCEPT !.cancelled = TRUE], turn[u]}
      BY DEF StartTurn
    <2> QED
      BY <2>1, <2>2 DEF TurnTask, Phases
  <1>2. turn' \in [Turns -> TurnTask]
    BY <1>1 DEF StartTurn
  <1>3. AutoReach' = AutoReach
    BY DEF AutoReach
  <1>4. ASSUME NEW u \in Turns PROVE Agreed(turn[u])'
    BY <1>1, <1>3 DEF Agreed, Inv, TurnsAgreed
  <1> QED
    BY <1>2, <1>4 DEF TurnsAgreed, StartTurn

(* The steps of the user. *)
LEMMA UserInv ==
  ASSUME Inv, User
  PROVE  Inv'
  <1>1. ThreadTyped
    BY TypeParts DEF Inv
  <1>2. ASSUME NEW t \in Turns, ExecutePrompt(t) PROVE Inv'
    <2>1. StartTurn(t) /\ UNCHANGED <<model, settings, tierState, ghosts>>
      BY <1>2 DEF ExecutePrompt
    <2>2. chosen' = chosen /\ inForce' = inForce /\ picks' = picks /\ edits' = edits
          /\ model' = model /\ model \in Models /\ chosen \subseteq Models
          /\ settings' = settings
      BY <1>1, <2>1 DEF ghosts, ThreadTyped
    <2> QED
      BY <2>1, <2>2, Started, ThreadKept, ModelKept, SettingsKept, Together
  <1>3. ASSUME NEW t \in Turns, Send(t) PROVE Inv'
    <2>1. StartTurn(t) /\ UNCHANGED <<model, settings, ghosts>>
      BY <1>3 DEF Send
    <2>2. chosen' = chosen /\ inForce' = inForce /\ picks' = picks /\ edits' = edits
          /\ model' = model /\ settings' = settings
      BY <2>1 DEF ghosts
    <2>3. turn' \in [Turns -> TurnTask] /\ TurnsAgreed' /\ running' \in Turns \cup {0}
      BY <2>1, <2>2, Started
    <2>4. history' \in Seq(Attempt)
      <3>1. history' = history \/ history' = <<>>
        <4>1. history' = IF pending THEN history ELSE <<>>
          BY <1>3 DEF Send
        <4> QED
          BY <4>1
      <3>2. history \in Seq(Attempt)
        BY <1>1, Zenon DEF ThreadTyped
      <3>3. <<>> \in Seq(Attempt)
        OBVIOUS
      <3> QED
        BY <3>1, <3>2, <3>3, Zenon
    <2>5. failed' \in Nat
      BY <1>3 DEF Send
    <2>6. blocker' = NoCard /\ pending' \in BOOLEAN
      BY <1>3, Zenon DEF Send
    <2>7. ThreadTyped'
      BY <1>1, <2>2, <2>3, <2>4, <2>5, <2>6, Zenon DEF ThreadTyped
    <2> QED
      BY <2>2, <2>3, <2>7, ModelKept, SettingsKept, Together
  <1>4. CASE Cancel
    <2>1. running \in Turns /\ turn[running] \in TurnTask /\ Agreed(turn[running])
      BY <1>1, <1>4 DEF Cancel, ThreadTyped, Inv, TypeOK, TurnsAgreed
    <2>2. chosen' = chosen /\ inForce' = inForce /\ picks' = picks /\ edits' = edits
          /\ model' = model /\ running' \in Turns \cup {0} /\ settings' = settings
      BY <1>4 DEF Cancel, ghosts
    <2> DEFINE r == [turn[running] EXCEPT !.cancelled = TRUE]
    <2>3. r \in TurnTask /\ r.phase = turn[running].phase /\ r.on = turn[running].on
          /\ r.fallback = turn[running].fallback /\ r.prepared = turn[running].prepared
      BY <2>1 DEF TurnTask
    <2>4. turn' = [turn EXCEPT ![running] = r]
      BY <1>4 DEF Cancel
    <2>5. AutoReach' = AutoReach
      BY <2>2 DEF AutoReach
    <2> HIDE DEF r
    <2>6. turn' \in [Turns -> TurnTask] /\ TurnsAgreed'
      BY <2>1, <2>2, <2>3, <2>4, <2>5, OneTurn DEF Agreed
    <2>7. ThreadTyped'
      BY <1>1, <1>4, <2>2, ThreadKept DEF Cancel, ThreadTyped
    <2> QED
      BY <2>2, <2>6, <2>7, ModelKept, SettingsKept, Together
  <1>5. ASSUME NEW i, EscalateToTier(i) PROVE Inv'
    <2>1. /\ model' \in Available /\ chosen' = chosen \cup {model'} /\ turn' = turn
          /\ inForce' = inForce /\ settings' = settings /\ history' = history
          /\ running' = running /\ picks' = picks /\ edits' = edits
          /\ failed' \in Nat
      BY <1>5 DEF EscalateToTier
    <2>2. blocker' = NoCard /\ pending' \in BOOLEAN
      BY <1>5, Zenon DEF EscalateToTier
    <2>3. model' \in Models /\ chosen' \subseteq Models
      BY <1>1, <2>1, ModelsAssumption DEF ThreadTyped
    <2>4. ThreadTyped'
      BY <1>1, <2>1, <2>2, <2>3, Zenon DEF ThreadTyped
    <2> QED
      BY <2>1, <2>4, TurnsKept, SettingsKept, Together
  <1>6. CASE DismissBlocker
    <2>1. /\ model' = model /\ turn' = turn /\ settings' = settings /\ history' = history
          /\ running' = running /\ failed' = failed /\ pending' = pending
          /\ chosen' = chosen /\ inForce' = inForce /\ picks' = picks /\ edits' = edits
          /\ blocker' = NoCard
      BY <1>6 DEF DismissBlocker, ghosts
    <2>2. ThreadTyped'
      BY <1>1, <2>1, Zenon DEF ThreadTyped
    <2> QED
      BY <2>1, <2>2, TurnsKept, ModelKept, SettingsKept, Together
  <1>7. ASSUME NEW m \in Available, PickModel(m) PROVE Inv'
    <2>1. /\ model' = m /\ chosen' = chosen \cup {m} /\ turn' = turn /\ inForce' = inForce
          /\ settings' = settings /\ running' = running /\ edits' = edits
          /\ failed' = failed /\ history' = history /\ blocker' = blocker /\ pending' = pending
      BY <1>7 DEF PickModel, tierState
    <2>2. model' \in Models /\ chosen' \subseteq Models /\ picks' \in Nat
      BY <1>1, <1>7, <2>1, ModelsAssumption DEF ThreadTyped, PickModel
    <2>3. ThreadTyped'
      BY <1>1, <2>1, <2>2, Zenon DEF ThreadTyped
    <2> QED
      BY <2>1, <2>3, TurnsKept, SettingsKept, Together
  <1>8. ASSUME NEW c \in Configs, EditSettings(c) PROVE Inv'
    <2>1. /\ settings' = c /\ inForce' = inForce \cup {c} /\ turn' = turn /\ model' = model
          /\ chosen' = chosen /\ running' = running /\ picks' = picks
          /\ failed' = failed /\ history' = history /\ blocker' = blocker /\ pending' = pending
      BY <1>8 DEF EditSettings, tierState
    <2>2. settings' \in Configs /\ inForce' \subseteq Configs /\ edits' \in Nat
      BY <1>1, <1>8, <2>1 DEF ThreadTyped, EditSettings
    <2>3. ThreadTyped'
      BY <1>1, <2>1, <2>2, Zenon DEF ThreadTyped
    <2> QED
      BY <2>1, <2>3, TurnsKept, ModelKept, Together
  <1> QED
    BY <1>2, <1>3, <1>4, <1>5, <1>6, <1>7, <1>8 DEF User

(* A step of a turn that the hook has no part in. *)
LEMMA UnhookedInv ==
  ASSUME Inv, Unhooked, model' \in Models, chosen' \subseteq Models,
         running' \in Turns \cup {0}, turn' \in [Turns -> TurnTask], TurnsAgreed',
         model' \in chosen' \cup AutoReach'
  PROVE  Inv'
  <1>1. UNCHANGED <<settings, tierState, inForce, picks, edits>>
    BY DEF Unhooked
  <1> QED
    BY <1>1, ThreadKept, SettingsKept, Together

(* The same when the model stays. *)
LEMMA UnhookedSameModel ==
  ASSUME Inv, Unhooked, UNCHANGED <<model, chosen>>,
         running' \in Turns \cup {0}, turn' \in [Turns -> TurnTask], TurnsAgreed'
  PROVE  Inv'
  <1>1. inForce' = inForce
    BY DEF Unhooked
  <1>2. model \in Models /\ chosen \subseteq Models
    BY DEF Inv, TypeOK
  <1>3. model' \in chosen' \cup AutoReach'
    BY <1>1, ModelKept
  <1> QED
    BY <1>2, <1>3, UnhookedInv

(* What is known of the turn that takes a step. *)
LEMMA TurnFacts ==
  ASSUME Inv, NEW t \in Turns
  PROVE  /\ turn[t] \in TurnTask /\ Agreed(turn[t]) /\ turn[t].prepared \in Configs
         /\ turn[t].prepared \in inForce /\ turn[t].fallback \in chosen \cup {NoModel}
         /\ running \in Turns \cup {0} /\ model \in Models /\ chosen \subseteq Models
  BY DEF Inv, TypeOK, TurnsAgreed, Agreed, TurnTask

(* The steps of a turn before the hook's second half. *)
LEMMA RoundInv ==
  ASSUME Inv, NEW t \in Turns,
         \/ SeeCancellation(t) \/ SendRequest(t) \/ NextRound(t) \/ Refused(t)
         \/ BeginCheck(t) \/ \E o \in Outcomes \ {"none"} : CheckEnds(t, o)
  PROVE  Inv'
  <1>1. /\ turn[t] \in TurnTask /\ Agreed(turn[t]) /\ turn[t].prepared \in Configs
        /\ turn[t].prepared \in inForce /\ turn[t].fallback \in chosen \cup {NoModel}
        /\ running \in Turns \cup {0} /\ model \in Models /\ chosen \subseteq Models
    BY TurnFacts
  <1>2. CASE SeeCancellation(t)
    <2>1. Finish(t, turn[t]) /\ Unhooked /\ UNCHANGED <<model, chosen>>
      BY <1>2 DEF SeeCancellation
    <2>2. inForce' = inForce
      BY <2>1 DEF Unhooked
    <2> QED
      BY <1>1, <2>1, <2>2, Finished, UnhookedSameModel
  <1>3. CASE SendRequest(t)
    <2> DEFINE m == IF turn[t].fallback # NoModel THEN turn[t].fallback ELSE model
               r == [turn[t] EXCEPT !.phase = "streaming", !.on = m]
    <2>1. turn' = [turn EXCEPT ![t] = r]
      BY <1>3 DEF SendRequest
    <2>2. Unhooked /\ UNCHANGED <<model, chosen, running>>
      BY <1>3 DEF SendRequest
    <2>3. m \in Models /\ m \in chosen \cup AutoReach
      BY <1>1 DEF Inv
    <2> HIDE DEF m
    <2>4. r \in TurnTask /\ r.on = m /\ r.fallback = turn[t].fallback
          /\ r.prepared = turn[t].prepared
      BY <1>1, <2>3 DEF TurnTask, Phases
    <2>5. inForce' = inForce /\ AutoReach' = AutoReach
      BY <2>2 DEF Unhooked, AutoReach
    <2> HIDE DEF r
    <2>6. turn' \in [Turns -> TurnTask] /\ TurnsAgreed'
      BY <1>1, <2>1, <2>2, <2>3, <2>4, <2>5, OneTurn
    <2> QED
      BY <1>1, <2>2, <2>6, UnhookedSameModel
  <1>4. CASE NextRound(t)
    <2>1. Unhooked /\ UNCHANGED <<model, chosen>>
      BY <1>4 DEF NextRound
    <2>2. inForce' = inForce
      BY <2>1 DEF Unhooked
    <2>3. CASE Resume(t, turn[t])
      BY <1>1, <2>1, <2>2, <2>3, Resumed, UnhookedSameModel
    <2>4. CASE Finish(t, turn[t])
      BY <1>1, <2>1, <2>2, <2>4, Finished, UnhookedSameModel
    <2> QED
      BY <1>4, <2>3, <2>4 DEF NextRound
  <1>5. CASE Refused(t)
    <2> DEFINE m == Fallback[IF turn[t].fallback # NoModel THEN turn[t].fallback ELSE model]
    <2>1. Unhooked /\ inForce' = inForce
      BY <1>5 DEF Refused, Unhooked
    <2>2. CASE m \notin Available
      <3>1. Finish(t, turn[t]) /\ UNCHANGED <<model, chosen>>
        BY <1>5, <2>2 DEF Refused
      <3> QED
        BY <1>1, <2>1, <3>1, Finished, UnhookedSameModel
    <2>3. CASE m \in Available
      <3> DEFINE record == [turn[t] EXCEPT !.fallback = m, !.refusals = turn[t].refusals + 1]
      <3>1. model' = m /\ chosen' = chosen \cup {m} /\ Resume(t, record)
        BY <1>5, <2>3 DEF Refused
      <3>2. m \in Models
        BY <2>3, ModelsAssumption
      <3> HIDE DEF m
      <3>3. record \in TurnTask /\ record.fallback = m
            /\ record.prepared = turn[t].prepared
        BY <1>1, <3>2, FallenBack
      <3> HIDE DEF record
      <3>4. /\ turn' \in [Turns -> TurnTask] /\ TurnsAgreed' /\ running' \in Turns \cup {0}
        BY <1>1, <2>1, <3>1, <3>3, Resumed
      <3> QED
        BY <1>1, <2>1, <3>1, <3>2, <3>4, UnhookedInv
    <2> QED
      BY <2>2, <2>3
  <1>6. CASE BeginCheck(t)
    <2>1. Unhooked /\ UNCHANGED <<model, chosen>>
      BY <1>6 DEF BeginCheck
    <2>2. inForce' = inForce
      BY <2>1 DEF Unhooked
    <2>3. CASE Finish(t, turn[t])
      BY <1>1, <2>1, <2>2, <2>3, Finished, UnhookedSameModel
    <2>4. CASE ~ Finish(t, turn[t])
      <3> DEFINE r == [turn[t] EXCEPT !.phase = "checking", !.on = NoModel,
                                      !.prepared = settings]
      <3>1. turn' = [turn EXCEPT ![t] = r] /\ running' = running
        BY <1>6, <2>4 DEF BeginCheck
      <3>2. settings \in Configs
        BY DEF Inv, TypeOK
      <3>3. r \in TurnTask /\ r.phase = "checking" /\ r.fallback = turn[t].fallback
            /\ r.prepared = settings
        BY <1>1, <3>2 DEF TurnTask, Phases
      <3> HIDE DEF r
      <3>4. settings \in inForce
        BY DEF Inv
      <3>5. turn' \in [Turns -> TurnTask] /\ TurnsAgreed'
        BY <1>1, <2>1, <2>2, <3>1, <3>3, <3>4, OneTurn
      <3> QED
        BY <1>1, <2>1, <3>1, <3>5, UnhookedSameModel
    <2> QED
      BY <2>3, <2>4
  <1>7. ASSUME NEW o \in Outcomes \ {"none"}, CheckEnds(t, o) PROVE Inv'
    <2> DEFINE r == [turn[t] EXCEPT !.phase = "checked", !.outcome = o]
    <2>1. turn' = [turn EXCEPT ![t] = r] /\ Unhooked /\ UNCHANGED <<model, chosen, running>>
      BY <1>7 DEF CheckEnds
    <2>2. inForce' = inForce
      BY <2>1 DEF Unhooked
    <2>3. r \in TurnTask /\ r.phase = "checked" /\ r.fallback = turn[t].fallback
          /\ r.prepared = turn[t].prepared
      BY <1>1, <1>7 DEF TurnTask, Phases
    <2> HIDE DEF r
    <2>4. turn' \in [Turns -> TurnTask] /\ TurnsAgreed'
      BY <1>1, <2>1, <2>2, <2>3, OneTurn
    <2> QED
      BY <1>1, <2>1, <2>4, UnhookedSameModel
  <1> QED
    BY <1>2, <1>3, <1>4, <1>5, <1>6, <1>7

(* The types of the thread's variables after a decision of the hook. *)
LEMMA HookTyped ==
  ASSUME Inv, UNCHANGED <<settings, pending, ghosts>>, model' \in Models,
         failed' \in Nat, history' \in Seq(Attempt), blocker' \in Card \cup {NoCard},
         running' \in Turns \cup {0}
  PROVE  ThreadTyped'
  <1>1. ThreadTyped
    BY TypeParts DEF Inv
  <1>2. /\ settings' = settings /\ pending' = pending /\ chosen' = chosen
        /\ inForce' = inForce /\ picks' = picks /\ edits' = edits
    BY DEF ghosts
  <1> QED
    BY <1>1, <1>2, Zenon DEF ThreadTyped

(* A decision that stays on the model. *)
LEMMA HookSameModel ==
  ASSUME Inv, UNCHANGED <<model, settings, pending, ghosts>>,
         failed' \in Nat, history' \in Seq(Attempt), blocker' \in Card \cup {NoCard},
         running' \in Turns \cup {0}, turn' \in [Turns -> TurnTask], TurnsAgreed'
  PROVE  Inv'
  <1>1. model' = model /\ model \in Models /\ settings' = settings /\ pending' = pending
        /\ chosen' = chosen /\ inForce' = inForce
    BY DEF ghosts, Inv, TypeOK
  <1>2. ThreadTyped'
    BY <1>1, HookTyped
  <1> QED
    BY <1>1, <1>2, ModelKept, SettingsKept, Together

(* The tier state as it was. *)
LEMMA TierFacts ==
  ASSUME Inv
  PROVE  /\ failed \in Nat /\ history \in Seq(Attempt) /\ blocker \in Card \cup {NoCard}
         /\ model \in Models
  BY DEF Inv, TypeOK

(* The turn stops with a card. *)
LEMMA BlockInv ==
  ASSUME Inv, NEW t \in Turns, NEW offer, offer \subseteq DOMAIN turn[t].prepared.tiers,
         Block(t, offer)
  PROVE  Inv'
  <1> DEFINE c == turn[t].prepared
             tried == record_failure(history, model)
             shown == {i \in offer : c.tiers[i] \in Available}
             card == [label |-> model, tried |-> tried, allowed |-> c.retries, offer |-> shown]
  <1>1. /\ turn[t] \in TurnTask /\ c \in Configs /\ c \in inForce
    BY TurnFacts
  <1>2. c.retries \in Nat /\ c.tiers \in Seq(Models)
    BY <1>1, ConfigsAssumption
  <1>3. tried \in Seq(Attempt)
    BY TierFacts, RecordType
  <1>4. shown \in SUBSET Nat
    BY <1>2
  <1>5. /\ failed' = failed + 1 /\ history' = tried /\ blocker' = card
        /\ Finish(t, turn[t]) /\ UNCHANGED <<model, settings, pending, ghosts>>
    BY DEF Block
  <1> HIDE DEF tried, shown
  <1>6. card \in Card
    BY <1>2, <1>3, <1>4, TierFacts DEF Card
  <1> HIDE DEF card
  <1>7. chosen' = chosen /\ inForce' = inForce
    BY <1>5 DEF ghosts
  <1>8. turn' \in [Turns -> TurnTask] /\ TurnsAgreed' /\ running' \in Turns \cup {0}
    BY <1>1, <1>5, <1>7, Finished
  <1>9. failed' \in Nat /\ history' \in Seq(Attempt) /\ blocker' \in Card \cup {NoCard}
    BY <1>3, <1>5, <1>6, TierFacts
  <1> QED
    BY <1>5, <1>8, <1>9, HookSameModel

(* The hook's second half. *)
LEMMA HookInv ==
  ASSUME Inv, NEW t \in Turns,
         \/ AfterDone(t) \/ AfterUnavailable(t) \/ AfterRetry(t)
         \/ AfterEscalate(t) \/ AfterBlocked(t)
  PROVE  Inv'
  <1>1. /\ turn[t] \in TurnTask /\ turn[t].prepared \in Configs
        /\ turn[t].prepared \in inForce /\ turn[t].fallback \in chosen \cup {NoModel}
    BY TurnFacts
  <1>2. /\ failed \in Nat /\ history \in Seq(Attempt) /\ blocker \in Card \cup {NoCard}
        /\ model \in Models
    BY TierFacts
  <1>3. CASE AfterDone(t)
    <2>1. /\ history' = <<>> /\ failed' = 0 /\ Finish(t, turn[t]) /\ blocker' = blocker
          /\ UNCHANGED <<model, settings, pending, ghosts>>
      BY <1>3 DEF AfterDone
    <2>2. chosen' = chosen /\ inForce' = inForce
      BY <2>1 DEF ghosts
    <2>3. history' \in Seq(Attempt) /\ failed' \in Nat /\ blocker' \in Card \cup {NoCard}
      BY <1>2, <2>1
    <2>4. turn' \in [Turns -> TurnTask] /\ TurnsAgreed' /\ running' \in Turns \cup {0}
      BY <1>1, <2>1, <2>2, Finished
    <2> QED
      BY <2>1, <2>3, <2>4, HookSameModel
  <1>4. CASE AfterUnavailable(t)
    <2>1. /\ Finish(t, turn[t]) /\ history' = history /\ failed' = failed
          /\ blocker' = blocker /\ UNCHANGED <<model, settings, pending, ghosts>>
      BY <1>4 DEF AfterUnavailable, tierState
    <2>2. chosen' = chosen /\ inForce' = inForce
      BY <2>1 DEF ghosts
    <2>3. turn' \in [Turns -> TurnTask] /\ TurnsAgreed' /\ running' \in Turns \cup {0}
      BY <1>1, <2>1, <2>2, Finished
    <2> QED
      BY <1>2, <2>1, <2>3, HookSameModel
  <1>5. CASE AfterRetry(t)
    <2>1. /\ failed' = failed + 1 /\ history' = record_failure(history, model)
          /\ Resume(t, turn[t]) /\ blocker' = blocker
          /\ UNCHANGED <<model, settings, pending, ghosts>>
      BY <1>5 DEF AfterRetry
    <2>2. chosen' = chosen /\ inForce' = inForce
      BY <2>1 DEF ghosts
    <2>3. turn' \in [Turns -> TurnTask] /\ TurnsAgreed' /\ running' \in Turns \cup {0}
      BY <1>1, <2>1, <2>2, Resumed
    <2>4. failed' \in Nat /\ history' \in Seq(Attempt) /\ blocker' \in Card \cup {NoCard}
      BY <1>2, <2>1, RecordType
    <2> QED
      BY <2>1, <2>3, <2>4, HookSameModel
  <1>6. CASE AfterEscalate(t)
    <2> DEFINE c == turn[t].prepared
               n == Decision(t).to
               to == c.tiers[n]
    <2>1. /\ c.escalation = "Auto" /\ n \in DOMAIN c.tiers
          /\ c.ceiling = 0 \/ n <= c.ceiling
      BY <1>1, <1>2, <1>6, DecideSound DEF AfterEscalate, Decision
    <2>2. c.tiers \in Seq(Models) /\ to \in Models
      BY <1>1, <2>1, ConfigsAssumption
    <2>3. to \in AutoReach
      BY <1>1, <2>1, <2>2 DEF AutoReach
    <2>4. CASE Block(t, {})
      BY <2>4, BlockInv
    <2>5. CASE ~ Block(t, {})
      <3> DEFINE record == [turn[t] EXCEPT !.fallback = NoModel]
      <3>1. /\ history' = record_failure(history, model) /\ failed' = 0 /\ model' = to
            /\ Resume(t, record) /\ blocker' = blocker
            /\ UNCHANGED <<settings, pending, ghosts>>
        BY <1>6, <2>5 DEF AfterEscalate
      <3>2. chosen' = chosen /\ inForce' = inForce /\ settings' = settings
        BY <3>1 DEF ghosts
      <3>3. record \in TurnTask /\ record.prepared = c /\ record.fallback = NoModel
        BY <1>1 DEF TurnTask
      <3> HIDE DEF record
      <3>4. turn' \in [Turns -> TurnTask] /\ TurnsAgreed' /\ running' \in Turns \cup {0}
        BY <1>1, <3>1, <3>2, <3>3, Resumed
      <3>5. failed' \in Nat /\ history' \in Seq(Attempt) /\ blocker' \in Card \cup {NoCard}
        BY <1>2, <3>1, RecordType
      <3>6. model' \in chosen' \cup AutoReach'
        BY <2>3, <3>1, <3>2, ReachGrows
      <3>7. ThreadTyped'
        BY <2>2, <3>1, <3>4, <3>5, HookTyped
      <3> QED
        BY <3>2, <3>4, <3>6, <3>7, SettingsKept, Together
    <2> QED
      BY <2>4, <2>5
  <1>7. CASE AfterBlocked(t)
    <2>1. Decision(t).offer \subseteq DOMAIN turn[t].prepared.tiers
      BY <1>1, <1>2, <1>7, DecideSound DEF AfterBlocked, Decision
    <2> QED
      BY <1>7, <2>1, BlockInv DEF AfterBlocked
  <1> QED
    BY <1>3, <1>4, <1>5, <1>6, <1>7

(* Every step preserves the invariant. *)
LEMMA InvStep == Inv /\ [Next]_vars => Inv'
  <1> SUFFICES ASSUME Inv, [Next]_vars PROVE Inv'
    OBVIOUS
  <1>1. CASE User
    BY <1>1, UserInv
  <1>2. ASSUME NEW t \in Turns, TurnStep(t) \/ NextRound(t) \/ Refused(t) PROVE Inv'
    <2>1. CASE \/ SeeCancellation(t) \/ SendRequest(t) \/ NextRound(t) \/ Refused(t)
               \/ BeginCheck(t) \/ \E o \in Outcomes \ {"none"} : CheckEnds(t, o)
      BY <2>1, RoundInv
    <2>2. CASE \/ AfterDone(t) \/ AfterUnavailable(t) \/ AfterRetry(t)
               \/ AfterEscalate(t) \/ AfterBlocked(t)
      BY <2>2, HookInv
    <2> QED
      BY <1>2, <2>1, <2>2, Zenon DEF TurnStep
  <1>3. CASE UNCHANGED vars
    <2>1. /\ model' = model /\ chosen' = chosen /\ running' = running /\ turn' = turn
          /\ inForce' = inForce /\ settings' = settings
          /\ UNCHANGED <<settings, tierState, inForce, picks, edits>>
      BY <1>3 DEF vars, ghosts
    <2>2. model \in Models /\ chosen \subseteq Models /\ running \in Turns \cup {0}
      BY DEF Inv, TypeOK
    <2>3. ThreadTyped'
      BY <2>1, <2>2, ThreadKept
    <2> QED
      BY <2>1, <2>3, TurnsKept, ModelKept, SettingsKept, Together
  <1> QED
    BY <1>1, <1>2, <1>3 DEF Next

(* Type correctness, for any models, settings and number of turns. *)
THEOREM TypeCorrect == Spec => []TypeOK
  <1>1. Inv => TypeOK
    BY DEF Inv
  <1> QED
    BY InvInit, InvStep, <1>1, PTL DEF Spec

(* The user stays in charge of spend: for any models, tiers, ceilings and   *)
(* number of overlapping turns, a request goes to a model the user or a     *)
(* refusal chose, or one within the ceiling of automatic settings the user  *)
(* has had.                                                                 *)
THEOREM SpendConsentedCorrect == Spec => []SpendConsented
  <1>1. Inv => SpendConsented
    BY DEF Inv, TurnsAgreed, Agreed, SpendConsented
  <1> QED
    BY InvInit, InvStep, <1>1, PTL DEF Spec

-----------------------------------------------------------------------------
(* What a card adds up to.                                                 *)

(* f holds the running totals of the attempts h, up to the k-th. *)
Totals(f, h, k) ==
    /\ f \in [0..k -> Nat]
    /\ f[0] = 0
    /\ \A i \in 1..k : f[i] = f[i - 1] + h[i].failed_checks

(* There are running totals, by induction on k. *)
LEMMA TotalsExist ==
  ASSUME NEW h \in Seq(Attempt)
  PROVE  \E f : Totals(f, h, Len(h))
  <1> DEFINE T == {k \in 0..Len(h) : ~ \E f : Totals(f, h, k)}
  <1>1. Len(h) \in Nat /\ \A i \in 1..Len(h) : h[i].failed_checks \in Nat
    <2>1. \A i \in 1..Len(h) : h[i] \in Attempt
      OBVIOUS
    <2> QED
      BY <2>1 DEF Attempt
  <1>2. T = {}
    <2> SUFFICES ASSUME T # {} PROVE FALSE
      OBVIOUS
    <2>1. T \subseteq Nat
      BY <1>1
    <2>2. PICK k \in T : \A j \in T : k <= j
      BY <2>1, LeastNatural
    <2>3. k \in 0..Len(h) /\ k \in Nat /\ ~ \E f : Totals(f, h, k)
      BY <2>1, <2>2
    <2>4. CASE k = 0
      <3> DEFINE f == [n \in 0..k |-> 0]
      <3>1. Totals(f, h, k)
        BY <2>4 DEF Totals
      <3> QED
        BY <2>3, <3>1
    <2>5. CASE k # 0
      <3>1. k - 1 \in 0..Len(h) /\ k - 1 \notin T /\ k \in 1..Len(h)
        BY <1>1, <2>2, <2>3, <2>5
      <3>2. PICK g : Totals(g, h, k - 1)
        BY <3>1
      <3> DEFINE f == [n \in 0..k |-> IF n = k THEN g[k - 1] + h[k].failed_checks ELSE g[n]]
      <3>3. /\ g \in [0..(k - 1) -> Nat] /\ g[0] = 0
            /\ \A i \in 1..(k - 1) : g[i] = g[i - 1] + h[i].failed_checks
        BY <3>2 DEF Totals
      <3>4. g[k - 1] \in Nat /\ h[k].failed_checks \in Nat
        BY <1>1, <2>3, <2>5, <3>1, <3>3
      <3>5. \A n \in 0..k : n = k \/ n \in 0..(k - 1)
        BY <2>3
      <3>6. f \in [0..k -> Nat]
        BY <3>3, <3>4, <3>5
      <3>7. f[0] = 0
        BY <2>3, <2>5, <3>3
      <3>8. \A i \in 1..k : f[i] = f[i - 1] + h[i].failed_checks
        <4> SUFFICES ASSUME NEW i \in 1..k PROVE f[i] = f[i - 1] + h[i].failed_checks
          OBVIOUS
        <4>1. f[i - 1] = g[i - 1]
          BY <2>3
        <4>2. CASE i = k
          BY <2>3, <4>1, <4>2
        <4>3. CASE i # k
          <5>1. i \in 1..(k - 1) /\ f[i] = g[i]
            BY <2>3, <4>3
          <5> QED
            BY <3>3, <4>1, <5>1
        <4> QED
          BY <4>2, <4>3
      <3> HIDE DEF f
      <3>9. Totals(f, h, k)
        BY <3>6, <3>7, <3>8 DEF Totals
      <3> QED
        BY <2>3, <3>9
    <2> QED
      BY <2>4, <2>5
  <1>3. Len(h) \notin T
    BY <1>2
  <1> QED
    BY <1>1, <1>3

(* They are the only solution of the recursion, by induction again. *)
LEMMA TotalsUnique ==
  ASSUME NEW h \in Seq(Attempt), NEW f, Totals(f, h, Len(h)),
         NEW g, g = [n \in 0..Len(h) |-> IF n = 0 THEN 0 ELSE g[n - 1] + h[n].failed_checks]
  PROVE  g[Len(h)] = f[Len(h)]
  <1> DEFINE T == {k \in 0..Len(h) : g[k] # f[k]}
  <1>1. Len(h) \in Nat
    OBVIOUS
  <1>2. \A n \in 0..Len(h) : g[n] = IF n = 0 THEN 0 ELSE g[n - 1] + h[n].failed_checks
    OBVIOUS
  <1>3. T = {}
    <2> SUFFICES ASSUME T # {} PROVE FALSE
      OBVIOUS
    <2>1. T \subseteq Nat
      BY <1>1
    <2>2. PICK k \in T : \A j \in T : k <= j
      BY <2>1, LeastNatural
    <2>3. k \in 0..Len(h) /\ k \in Nat /\ g[k] # f[k]
      BY <2>1, <2>2
    <2>4. k # 0
      BY <1>2, <2>3 DEF Totals
    <2>5. k - 1 \in 0..Len(h) /\ k - 1 \notin T /\ k \in 1..Len(h)
      BY <1>1, <2>2, <2>3, <2>4
    <2>6. g[k - 1] = f[k - 1]
      BY <2>5
    <2>7. g[k] = g[k - 1] + h[k].failed_checks
      BY <1>2, <2>3, <2>4
    <2>8. f[k] = f[k - 1] + h[k].failed_checks
      BY <2>5 DEF Totals
    <2> QED
      BY <2>3, <2>6, <2>7, <2>8
  <1> QED
    BY <1>1, <1>3

(* FailedChecks is the last of the running totals. *)
LEMMA FailedChecksTotals ==
  ASSUME NEW h \in Seq(Attempt), NEW f, Totals(f, h, Len(h))
  PROVE  FailedChecks(h) = f[Len(h)]
  <1> DEFINE Solves(g) ==
        g = [n \in 0..Len(h) |-> IF n = 0 THEN 0 ELSE g[n - 1] + h[n].failed_checks]
  <1>1. Solves(f)
    <2>1. f \in [0..Len(h) -> Nat] /\ f[0] = 0
          /\ \A i \in 1..Len(h) : f[i] = f[i - 1] + h[i].failed_checks
      BY DEF Totals
    <2>2. \A n \in 0..Len(h) : f[n] = IF n = 0 THEN 0 ELSE f[n - 1] + h[n].failed_checks
      BY <2>1
    <2> QED
      BY <2>1, <2>2
  <1>2. FailedChecks(h) = (CHOOSE g : Solves(g))[Len(h)]
    BY DEF FailedChecks
  <1> HIDE DEF Solves
  <1>3. PICK g : g = CHOOSE x : Solves(x)
    OBVIOUS
  <1>4. Solves(g)
    BY <1>1, <1>3
  <1>5. g[Len(h)] = f[Len(h)]
    BY <1>4, TotalsUnique DEF Solves
  <1> QED
    BY <1>2, <1>3, <1>5

(* One more failure counts one more. *)
LEMMA RecordCounts ==
  ASSUME NEW h \in Seq(Attempt), NEW m \in Models
  PROVE  /\ FailedChecks(h) \in Nat
         /\ FailedChecks(record_failure(h, m)) = FailedChecks(h) + 1
  <1>1. PICK f : Totals(f, h, Len(h))
    BY TotalsExist
  <1>2. /\ f \in [0..Len(h) -> Nat] /\ f[0] = 0
        /\ \A i \in 1..Len(h) : f[i] = f[i - 1] + h[i].failed_checks
    BY <1>1 DEF Totals
  <1>3. FailedChecks(h) = f[Len(h)] /\ Len(h) \in Nat /\ f[Len(h)] \in Nat
    BY <1>1, <1>2, FailedChecksTotals
  <1>4. PICK r \in Seq(Attempt) : r = record_failure(h, m)
    BY RecordType
  <1>5. CASE h # <<>> /\ h[Len(h)].label = m
    <2> DEFINE n == Len(h)
               g == [f EXCEPT ![n] = f[n] + 1]
    <2>1. n \in 1..n /\ h \in [1..n -> Attempt] /\ n \in Nat
      BY <1>5
    <2>2. r = [h EXCEPT ![n].failed_checks = @ + 1]
      BY <1>4, <1>5 DEF record_failure
    <2>3. Len(r) = n /\ r[n].failed_checks = h[n].failed_checks + 1
          /\ \A i \in 1..n : i # n => r[i] = h[i]
      BY <2>1, <2>2 DEF Attempt
    <2>4. h[n].failed_checks \in Nat
      BY <2>1 DEF Attempt
    <2> HIDE DEF n
    <2>5. f \in [0..n -> Nat] /\ f[0] = 0 /\ f[n] \in Nat
          /\ \A i \in 1..n : f[i] = f[i - 1] + h[i].failed_checks
      BY <1>2, <1>3 DEF n
    <2>6. g \in [0..n -> Nat] /\ g[0] = 0 /\ g[n] = f[n] + 1
      BY <2>1, <2>5
    <2>7. \A i \in 1..n : g[i] = g[i - 1] + r[i].failed_checks
      <3> SUFFICES ASSUME NEW i \in 1..n PROVE g[i] = g[i - 1] + r[i].failed_checks
        OBVIOUS
      <3>1. g[i - 1] = f[i - 1] /\ f[i] = f[i - 1] + h[i].failed_checks /\ f[i - 1] \in Nat
        BY <2>1, <2>5
      <3>2. CASE i = n
        BY <2>3, <2>4, <2>6, <3>1, <3>2
      <3>3. CASE i # n
        <4>1. g[i] = f[i] /\ r[i] = h[i]
          BY <2>1, <2>3, <2>5, <3>3
        <4> QED
          BY <3>1, <4>1
      <3> QED
        BY <3>2, <3>3
    <2> HIDE DEF g
    <2>8. Totals(g, r, Len(r))
      BY <2>3, <2>6, <2>7 DEF Totals
    <2>9. FailedChecks(r) = g[n]
      BY <2>3, <2>8, FailedChecksTotals
    <2> QED
      BY <1>3, <1>4, <2>6, <2>9 DEF n
  <1>6. CASE ~ (h # <<>> /\ h[Len(h)].label = m)
    <2> DEFINE n == Len(h)
               a == [label |-> m, failed_checks |-> 1]
               g == [i \in 0..(n + 1) |-> IF i = n + 1 THEN f[n] + 1 ELSE f[i]]
    <2>1. r = Append(h, a) /\ a \in Attempt /\ a.failed_checks = 1
      BY <1>4, <1>6 DEF record_failure, Attempt
    <2> HIDE DEF a
    <2>2. Len(r) = n + 1 /\ r[n + 1] = a /\ \A i \in 1..n : r[i] = h[i]
      BY <2>1
    <2>3. n \in Nat
      OBVIOUS
    <2> HIDE DEF n
    <2>4. f \in [0..n -> Nat] /\ f[0] = 0 /\ f[n] \in Nat
          /\ \A i \in 1..n : f[i] = f[i - 1] + h[i].failed_checks
      BY <1>2, <1>3 DEF n
    <2>5. g \in [0..(n + 1) -> Nat] /\ g[0] = 0 /\ g[n + 1] = f[n] + 1
      <3>1. \A i \in 0..(n + 1) : i = n + 1 \/ i \in 0..n
        BY <2>3
      <3> QED
        BY <2>3, <2>4, <3>1
    <2>6. \A i \in 1..(n + 1) : g[i] = g[i - 1] + r[i].failed_checks
      <3> SUFFICES ASSUME NEW i \in 1..(n + 1) PROVE g[i] = g[i - 1] + r[i].failed_checks
        OBVIOUS
      <3>1. g[i - 1] = f[i - 1]
        BY <2>3
      <3>2. CASE i = n + 1
        BY <2>1, <2>2, <2>3, <2>5, <3>1, <3>2
      <3>3. CASE i # n + 1
        <4>1. i \in 1..n /\ g[i] = f[i] /\ r[i] = h[i]
          BY <2>2, <2>3, <3>3
        <4> QED
          BY <2>4, <3>1, <4>1
      <3> QED
        BY <3>2, <3>3
    <2> HIDE DEF g
    <2>7. Totals(g, r, Len(r))
      BY <2>2, <2>5, <2>6 DEF Totals
    <2>8. FailedChecks(r) = g[n + 1]
      BY <2>2, <2>7, FailedChecksTotals
    <2> QED
      BY <1>3, <1>4, <2>5, <2>8 DEF n
  <1> QED
    BY <1>3, <1>5, <1>6

(* The inductive invariant: the history the card is made of never counts   *)
(* less than the counter that decides.  They are reset in different places *)
(* but the history only together with the counter.                         *)
CountInv == FailedChecks(history) >= failed /\ CardCounts

(* The model gives up only when its retries are used up. *)
LEMMA GivesUpLate ==
  ASSUME NEW s, NEW current, NEW before, decide(s, current, before).kind # "Retry"
  PROVE  ~ (before < s.retries)
  BY DEF decide

(* A step that leaves the counter, the history and the card alone, or takes *)
(* the card away.                                                          *)
LEMMA CountKept ==
  ASSUME CountInv, failed' = failed, history' = history,
         blocker' = blocker \/ blocker' = NoCard
  PROVE  CountInv'
  BY DEF CountInv, CardCounts

(* A step that resets the counter, and shows no new card. *)
LEMMA CountReset ==
  ASSUME CountInv, Inv', failed' = 0, blocker' = blocker \/ blocker' = NoCard
  PROVE  CountInv'
  <1>1. history' \in Seq(Attempt) /\ model' \in Models
    BY DEF Inv, TypeOK
  <1>2. FailedChecks(history') \in Nat
    BY <1>1, RecordCounts
  <1>3. FailedChecks(history') >= 0
    BY <1>2
  <1> QED
    BY <1>3 DEF CountInv, CardCounts

(* The card shows the failure it is about along with the earlier ones. *)
LEMMA CountBlock ==
  ASSUME Inv, CountInv, NEW t \in Turns, NEW offer, Block(t, offer),
         Decision(t).kind # "Retry"
  PROVE  CountInv'
  <1> DEFINE tried == record_failure(history, model)
             n == FailedChecks(history)
             r == turn[t].prepared.retries
  <1>1. history \in Seq(Attempt) /\ model \in Models /\ failed \in Nat
    BY TierFacts
  <1>2. n \in Nat /\ FailedChecks(tried) = n + 1
    BY <1>1, RecordCounts
  <1>3. r \in Nat /\ ~ (failed < r)
    <2>1. turn[t].prepared \in Configs
      BY TurnFacts
    <2> QED
      BY <2>1, GivesUpLate, ConfigsAssumption DEF Decision
  <1>4. n >= failed
    BY DEF CountInv
  <1>5. /\ failed' = failed + 1 /\ history' = tried
        /\ blocker'.tried = tried /\ blocker'.allowed = r
    BY DEF Block
  <1> HIDE DEF tried, n, r
  <1>6. FailedChecks(history') >= failed'
    BY <1>1, <1>2, <1>4, <1>5
  <1>7. FailedChecks(blocker'.tried) > blocker'.allowed
    BY <1>1, <1>2, <1>3, <1>4, <1>5
  <1> QED
    BY <1>6, <1>7 DEF CountInv, CardCounts

(* Nothing is counted and no card is shown in the beginning. *)
LEMMA CountInit == Init => CountInv
  <1> SUFFICES ASSUME Init PROVE CountInv
    OBVIOUS
  <1>1. history \in Seq(Attempt) /\ model \in Models
    BY InvInit DEF Inv, TypeOK
  <1>2. FailedChecks(history) \in Nat
    BY <1>1, RecordCounts
  <1>3. failed = 0 /\ blocker = NoCard
    BY DEF Init
  <1> QED
    BY <1>2, <1>3 DEF CountInv, CardCounts

(* The steps of the user start a count afresh or leave it alone. *)
LEMMA CountUser ==
  ASSUME Inv', CountInv, User
  PROVE  CountInv'
  <1>1. ASSUME NEW t \in Turns, ExecutePrompt(t) PROVE CountInv'
    BY <1>1, CountKept DEF ExecutePrompt, tierState
  <1>2. ASSUME NEW t \in Turns, Send(t) PROVE CountInv'
    BY <1>2, CountReset DEF Send
  <1>3. CASE Cancel
    BY <1>3, CountKept DEF Cancel, tierState
  <1>4. ASSUME NEW i \in blocker.offer, EscalateToTier(i) PROVE CountInv'
    BY <1>4, CountReset DEF EscalateToTier
  <1>5. CASE DismissBlocker
    BY <1>5, CountKept DEF DismissBlocker
  <1>6. ASSUME NEW m \in Available, PickModel(m) PROVE CountInv'
    BY <1>6, CountKept DEF PickModel, tierState
  <1>7. ASSUME NEW s \in Configs, EditSettings(s) PROVE CountInv'
    BY <1>7, CountKept DEF EditSettings, tierState
  <1> QED
    BY <1>1, <1>2, <1>3, <1>4, <1>5, <1>6, <1>7 DEF User

(* The hook counts the failure, resets, or shows the card. *)
LEMMA CountHook ==
  ASSUME Inv, Inv', CountInv, NEW t \in Turns,
         \/ AfterDone(t) \/ AfterUnavailable(t) \/ AfterRetry(t)
         \/ AfterEscalate(t) \/ AfterBlocked(t)
  PROVE  CountInv'
  <1>1. CASE AfterDone(t)
    BY <1>1, CountReset DEF AfterDone
  <1>2. CASE AfterUnavailable(t)
    BY <1>2, CountKept DEF AfterUnavailable, tierState
  <1>3. CASE AfterRetry(t)
    <2>1. history \in Seq(Attempt) /\ model \in Models /\ failed \in Nat
      BY TierFacts
    <2>2. /\ FailedChecks(history) \in Nat
          /\ FailedChecks(record_failure(history, model)) = FailedChecks(history) + 1
      BY <2>1, RecordCounts
    <2>3. /\ failed' = failed + 1 /\ history' = record_failure(history, model)
          /\ blocker' = blocker
      BY <1>3 DEF AfterRetry
    <2>4. FailedChecks(history) >= failed /\ CardCounts
      BY DEF CountInv
    <2>5. FailedChecks(history') >= failed'
      BY <2>1, <2>2, <2>3, <2>4
    <2> QED
      BY <2>3, <2>4, <2>5 DEF CountInv, CardCounts
  <1>4. CASE AfterEscalate(t)
    <2>1. CASE Block(t, {})
      BY <1>4, <2>1, CountBlock DEF AfterEscalate
    <2>2. CASE ~ Block(t, {})
      BY <1>4, <2>2, CountReset DEF AfterEscalate
    <2> QED
      BY <2>1, <2>2
  <1>5. CASE AfterBlocked(t)
    BY <1>5, CountBlock DEF AfterBlocked
  <1> QED
    BY <1>1, <1>2, <1>3, <1>4, <1>5

(* Every step preserves the count. *)
LEMMA CountStep == Inv /\ CountInv /\ [Next]_vars => CountInv'
  <1> SUFFICES ASSUME Inv, CountInv, [Next]_vars PROVE CountInv'
    OBVIOUS
  <1>1. Inv'
    BY InvStep
  <1>2. CASE User
    BY <1>1, <1>2, CountUser
  <1>3. ASSUME NEW t \in Turns, TurnStep(t) \/ NextRound(t) \/ Refused(t) PROVE CountInv'
    <2>1. CASE \/ SeeCancellation(t) \/ SendRequest(t) \/ NextRound(t) \/ Refused(t)
               \/ BeginCheck(t) \/ \E o \in Outcomes \ {"none"} : CheckEnds(t, o)
      <3>1. Unhooked
        BY <2>1, Zenon DEF SeeCancellation, SendRequest, NextRound, Refused, BeginCheck, CheckEnds
      <3> QED
        BY <3>1, CountKept DEF Unhooked, tierState
    <2>2. CASE \/ AfterDone(t) \/ AfterUnavailable(t) \/ AfterRetry(t)
               \/ AfterEscalate(t) \/ AfterBlocked(t)
      BY <1>1, <2>2, CountHook
    <2> QED
      BY <1>3, <2>1, <2>2, Zenon DEF TurnStep
  <1>4. CASE UNCHANGED vars
    BY <1>4, CountKept DEF vars, tierState
  <1> QED
    BY <1>2, <1>3, <1>4 DEF Next

(* A card is only shown after more failed checks than the settings allowed, *)
(* and the attempts it lists account for them, however the turns that share *)
(* the counter and the history overlap.                                    *)
THEOREM CardCountsCorrect == Spec => []CardCounts
  <1>1. CountInv => CardCounts
    BY DEF CountInv
  <1> QED
    BY InvInit, InvStep, CountInit, CountStep, <1>1, PTL DEF Spec
=============================================================================
