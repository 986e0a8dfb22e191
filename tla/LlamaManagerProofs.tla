-------------------------- MODULE LlamaManagerProofs --------------------------
(***************************************************************************)
(* Proofs about LlamaManager, for any catalog, any ports and any number of  *)
(* starts and stops, whatever the servers do and whatever ids the settings  *)
(* name.  Three groups of facts:                                            *)
(*   Always     - the types, the checked file, no server before its spawn;  *)
(*   Followed   - what the chat slot does is what the user wants now;       *)
(*   Served     - who answers on the port a run polls.                      *)
(***************************************************************************)
EXTENDS LlamaManager, TLAPS

(* A run has no server before it spawned one: the one of the run before it *)
(* was dropped when start_slot began.                                      *)
NoServerYet ==
    \A s \in Slots : run[s].stage \in {"resolving", "verifying", "downloading"} =>
        process[s].life = "none"

(* A run at work and a server each have a model of the catalog. *)
ModelsKnown ==
    \A s \in Slots :
        /\ run[s].stage # "none" => run[s].model \in Models
        /\ process[s].life # "none" => process[s].model \in Models

Always == VariableTypes /\ OwnCatalog /\ ModelsKnown /\ LaunchedVerified /\ NoServerYet

(* The chat run at work is for the model the user wants now. *)
RunWanted ==
    run["chat"].stage # "none" /\ ~ Misnamed("chat") => run["chat"].model = desired

Followed == Always /\ RunWanted /\ DesiredFollowed /\ NoStrayServer

(* A run that polls does so on the port, and for the model, of the server  *)
(* in its own slot.                                                        *)
PollsOwnServer ==
    \A s \in Slots : run[s].stage = "polling" =>
        /\ process[s].life # "none"
        /\ process[s].model = run[s].model
        /\ process[s].port = run[s].port

(* Two slots' servers on one port are both known to share it. *)
SharedKnown ==
    \A q, r \in Slots :
        /\ q # r /\ process[q].life # "none" /\ process[r].life # "none"
        /\ process[q].port = process[r].port
        => process[q].shared /\ process[r].shared

Served == Always /\ PollsOwnServer /\ SharedKnown /\ ReadyServes

-----------------------------------------------------------------------------
(* The run failed: it is over, its slot in Error without a server, or, if it *)
(* was superseded, left alone.                                               *)
Failed(s) ==
    /\ run'[s].stage = "none" /\ run'[s].model = None
    /\ \/ /\ process'[s].life = "none" /\ process'[s].model = None
          /\ status'[s].state = "Error" /\ status'[s].model = None
       \/ process'[s] = process[s] /\ status'[s] = status[s]

(* The run spawned its server on a port that was free. *)
Spawned(s) ==
    /\ run[s].stage \in {"verifying", "downloading"}
    /\ run'[s].stage = "polling" /\ run'[s].model = run[s].model
    /\ process'[s].life = "booting"
    /\ process'[s].model = run[s].model /\ process'[s].port = run'[s].port
    /\ \A q \in Slots \ {s} :
          process[q].life # "none" /\ process[q].port = run'[s].port =>
              process'[q].shared /\ process'[s].shared
    /\ status'[s].state = "Starting" /\ status'[s].model = run[s].model
    /\ cache'[run[s].model] = "verified"

(* A process that goes on as it was, but for the port it may share now. *)
GoesOn(q) ==
    /\ process'[q].life = process[q].life /\ process'[q].model = process[q].model
    /\ process'[q].port = process[q].port
    /\ process[q].shared => process'[q].shared

(* Both touch their own slot only, and spoil no file. *)
SlotStep(s) ==
    /\ UNCHANGED <<supported, desired, generation>>
    /\ cache' \in [Models -> {"absent", "corrupt", "verified"}]
    /\ \A m \in Models : cache[m] = "verified" => cache'[m] = "verified"
    /\ status' \in [Slots -> Statuses]
    /\ run' \in [Slots -> Runs]
    /\ process' \in [Slots -> Processes]
    /\ \A q \in Slots : q # s =>
          run'[q] = run[q] /\ GoesOn(q) /\ status'[q] = status[q]

(* The records the actions build have their types. *)
LEMMA RecordTypes ==
    ASSUME NEW m \in Models \cup {None}, NEW p \in Ports \cup {None}, NEW g \in Nat
    PROVE  /\ \A t \in {"Idle", "Preparing", "Downloading", "Starting", "Ready", "Error",
                        "Unsupported"} : Status(t, m, p) \in Statuses
           /\ \A t \in {"none", "resolving", "verifying", "downloading", "polling"} :
                  Run(t, m, g, p) \in Runs
           /\ \A t \in {"none", "booting", "loading", "serving", "hung", "exited", "crashed"} :
                  \A h \in BOOLEAN : Process(t, m, p, h) \in Processes
           /\ NoRun \in Runs /\ NoProcess \in Processes
BY DEF Status, Statuses, Run, Runs, NoRun, Process, Processes, NoProcess

(* fail ends the run in one of the two ways of Failed, in its own slot. *)
LEMMA FailEffect ==
    ASSUME VariableTypes, NEW s \in Slots, Fail(s), UNCHANGED <<supported, desired, generation>>,
           cache' \in [Models -> {"absent", "corrupt", "verified"}],
           \A m \in Models : cache[m] = "verified" => cache'[m] = "verified"
    PROVE  SlotStep(s) /\ Failed(s)
<1>1. SlotStep(s)
  <2>1. /\ NoRun \in Runs /\ NoProcess \in Processes
        /\ Status("Error", None, None) \in Statuses
    BY RecordTypes, 0 \in Nat
  <2>2. run' = [run EXCEPT ![s] = NoRun]
    BY DEF Fail
  <2>3. CASE IsCurrent(s)
    <3>1. /\ process' = [process EXCEPT ![s] = NoProcess]
          /\ status' = [status EXCEPT ![s] = Status("Error", None, None)]
      BY <2>3 DEF Fail, SetStatus
    <3> QED BY <2>1, <2>2, <3>1 DEF SlotStep, VariableTypes, GoesOn
  <2>4. CASE ~ IsCurrent(s)
    BY <2>1, <2>2, <2>4 DEF Fail, SlotStep, VariableTypes, GoesOn
  <2> QED BY <2>3, <2>4
<1>2. Failed(s)
  BY DEF Fail, SetStatus, Failed, VariableTypes, NoRun, Run, NoProcess, Process, Status
<1> QED BY <1>1, <1>2

(* The launch, with a checked file in place, spawns a server or ends the run. *)
LEMMA LaunchEffect ==
    ASSUME VariableTypes, NEW s \in Slots, Launch(s), run[s].stage \in {"verifying", "downloading"},
           UNCHANGED <<supported, desired, generation>>,
           cache' \in [Models -> {"absent", "corrupt", "verified"}],
           \A m \in Models : cache[m] = "verified" => cache'[m] = "verified",
           cache'[run[s].model] = "verified"
    PROVE  SlotStep(s) /\ (Spawned(s) \/ Failed(s))
<1>1. CASE Fail(s)
  BY <1>1, FailEffect
<1>2. CASE ~ Fail(s)
  <2>1. PICK p \in Ports :
          /\ FreePort(p)
          /\ run' = [run EXCEPT ![s] =
                IF IsCurrent(s) THEN [@ EXCEPT !.stage = "polling", !.port = p] ELSE NoRun]
          /\ IF IsCurrent(s)
             THEN /\ process' = Spawn(s, p)
                  /\ SetStatus(s, Status("Starting", run[s].model, None))
             ELSE UNCHANGED <<process, status>>
    BY <1>2 DEF Launch
  <2>2. CASE IsCurrent(s)
    <3>1. run' = [run EXCEPT ![s] = [@ EXCEPT !.stage = "polling", !.port = p]]
      BY <2>1, <2>2
    <3>2. [run[s] EXCEPT !.stage = "polling", !.port = p] \in Runs
      BY DEF VariableTypes, Runs
    <3>3. run' \in [Slots -> Runs] /\ run'[s] = [run[s] EXCEPT !.stage = "polling", !.port = p]
      BY <3>1, <3>2 DEF VariableTypes
    <3>4. run'[s].stage = "polling" /\ run'[s].model = run[s].model /\ run'[s].port = p
      BY <3>3 DEF VariableTypes, Runs
    <3>5. status' = [status EXCEPT ![s] = Status("Starting", run[s].model, None)]
      BY <2>1, <2>2 DEF SetStatus
    <3>6. run[s].model \in Models \cup {None} /\ Given(s, p) \in BOOLEAN
      BY DEF VariableTypes, Runs, Given
    <3>7. /\ Status("Starting", run[s].model, None) \in Statuses
          /\ Process("booting", run[s].model, p, Given(s, p)) \in Processes
      BY <3>6, RecordTypes, 0 \in Nat
    <3>8. /\ process'[s] = Process("booting", run[s].model, p, Given(s, p))
          /\ \A q \in Slots \ {s} : process'[q] = [process[q] EXCEPT !.shared =
                @ \/ (process[q].life # "none" /\ process[q].port = p)]
          /\ process' = [q \in Slots |-> process'[q]]
      BY <2>1, <2>2 DEF Spawn
    <3>9. ASSUME NEW q \in Slots \ {s}
          PROVE  /\ process'[q] \in Processes /\ GoesOn(q)
                 /\ process[q].life # "none" /\ process[q].port = p =>
                       process'[q].shared /\ Given(s, p)
      <4> DEFINE both == process[q].shared \/ (process[q].life # "none" /\ process[q].port = p)
      <4>1. process[q] \in Processes
        BY DEF VariableTypes
      <4>2. process'[q] = [process[q] EXCEPT !.shared = both]
        BY <3>8
      <4>3. both \in BOOLEAN
        BY <4>1 DEF Processes
      <4>4. process[q].life # "none" /\ process[q].port = p => both /\ Given(s, p)
        BY DEF Given
      <4>5. process[q].shared => both
        OBVIOUS
      <4> HIDE DEF both
      <4>6. /\ process'[q] \in Processes /\ process'[q].shared = both
            /\ process'[q].life = process[q].life /\ process'[q].model = process[q].model
            /\ process'[q].port = process[q].port
        BY <4>1, <4>2, <4>3 DEF Processes
      <4> QED BY <4>4, <4>5, <4>6 DEF GoesOn
    <3>10. process' \in [Slots -> Processes]
      BY <3>7, <3>8, <3>9
    <3>11. SlotStep(s)
      BY <3>1, <3>3, <3>5, <3>7, <3>9, <3>10 DEF SlotStep, VariableTypes, GoesOn
    <3>12. status'[s] = Status("Starting", run[s].model, None)
      BY <3>5 DEF VariableTypes
    <3>13. Spawned(s)
      BY <3>4, <3>8, <3>9, <3>12 DEF Spawned, Process, Status
    <3> QED BY <3>11, <3>13
  <2>3. CASE ~ IsCurrent(s)
    <3>1. run' = [run EXCEPT ![s] = NoRun] /\ UNCHANGED <<process, status>>
      BY <2>1, <2>3
    <3>2. SlotStep(s)
      BY <3>1, RecordTypes, 0 \in Nat DEF SlotStep, VariableTypes, GoesOn
    <3>3. Failed(s)
      BY <3>1 DEF Failed, VariableTypes, NoRun, Run
    <3> QED BY <3>2, <3>3
  <2> QED BY <2>2, <2>3
<1> QED BY <1>1, <1>2

(* A failed run keeps the facts that need no assumption. *)
LEMMA FailedKeepsAlways ==
    ASSUME Always, NEW s \in Slots, SlotStep(s), Failed(s)
    PROVE  Always'
<1>1. VariableTypes'
  BY ConstantsAssumption DEF Always, SlotStep, Failed, VariableTypes, GoesOn
<1>5. OwnCatalog'
  BY ConstantsAssumption DEF Always, SlotStep, Failed, VariableTypes, OwnCatalog, GoesOn
<1>2. ModelsKnown'
  BY ConstantsAssumption DEF Always, SlotStep, Failed, ModelsKnown, GoesOn
<1>3. LaunchedVerified'
  BY ConstantsAssumption DEF Always, SlotStep, Failed, LaunchedVerified, ModelsKnown, GoesOn
<1>4. NoServerYet'
  BY ConstantsAssumption DEF Always, SlotStep, Failed, NoServerYet, GoesOn
<1> QED BY <1>1, <1>5, <1>2, <1>3, <1>4 DEF Always

(* A spawn keeps the facts that need no assumption. *)
LEMMA SpawnedKeepsAlways ==
    ASSUME Always, NEW s \in Slots, SlotStep(s), Spawned(s)
    PROVE  Always'
<1>1. VariableTypes'
  BY ConstantsAssumption DEF Always, SlotStep, Spawned, VariableTypes, GoesOn
<1>5. OwnCatalog'
  BY ConstantsAssumption DEF Always, SlotStep, Spawned, VariableTypes, OwnCatalog, GoesOn
<1>2. ModelsKnown'
  BY ConstantsAssumption DEF Always, SlotStep, Spawned, ModelsKnown, GoesOn
<1>3. LaunchedVerified'
  BY ConstantsAssumption DEF Always, SlotStep, Spawned, LaunchedVerified, ModelsKnown, GoesOn
<1>4. NoServerYet'
  BY ConstantsAssumption DEF Always, SlotStep, Spawned, NoServerYet, GoesOn
<1> QED BY <1>1, <1>5, <1>2, <1>3, <1>4 DEF Always

(* The types of what start and stop touch. *)
SlotTypes ==
    /\ status \in [Slots -> Statuses] /\ generation \in [Slots -> 0 .. MaxGeneration]
    /\ run \in [Slots -> Runs] /\ process \in [Slots -> Processes]

(* start keeps the types, and both slots at models of their own catalogs. *)
LEMMA StartTypes ==
    ASSUME VariableTypes, OwnCatalog, NEW s \in Slots, NEW id, Start(s, id)
    PROVE  SlotTypes' /\ OwnCatalog'
<1>0. /\ SlotTypes
      /\ NoRun \in Runs /\ NoProcess \in Processes
      /\ NoRun.model = None /\ NoProcess.model = None
  BY RecordTypes, 0 \in Nat DEF SlotTypes, VariableTypes, NoRun, Run, NoProcess, Process
<1>1. \A t \in {"Preparing", "Error", "Unsupported"} :
          Status(t, None, None) \in Statuses /\ Status(t, None, None).model = None
  BY RecordTypes, 0 \in Nat DEF Status
<1>2. CASE id \in Catalog[s] /\ supported
  <2> DEFINE g == generation'[s]
             r == Run("resolving", id, g, None)
  <2>1. /\ process' = [process EXCEPT ![s] = NoProcess]
        /\ status' = [status EXCEPT ![s] = Status("Preparing", None, None)]
        /\ generation[s] < MaxGeneration
        /\ generation' = [generation EXCEPT ![s] = @ + 1] /\ run' = [run EXCEPT ![s] = r]
    BY <1>2 DEF Start, StartSlot, SetStatus
  <2>2. generation' \in [Slots -> 0 .. MaxGeneration] /\ g \in Nat
    <3>1. generation[s] + 1 \in 0 .. MaxGeneration
      BY <1>0, <2>1, ConstantsAssumption DEF SlotTypes
    <3> QED BY <1>0, <2>1, <3>1 DEF SlotTypes
  <2>3. id \in Models
    BY <1>2 DEF Models
  <2>4. r \in Runs /\ r.model = id
    BY <2>2, <2>3, RecordTypes DEF Run
  <2> HIDE DEF g, r
  <2>5. SlotTypes'
    BY <1>0, <1>1, <2>1, <2>2, <2>4 DEF SlotTypes
  <2>6. OwnCatalog'
    BY <1>0, <1>1, <1>2, <2>1, <2>4 DEF OwnCatalog, SlotTypes
  <2> QED BY <2>5, <2>6
<1>3. CASE id \in Catalog[s] /\ ~ supported
  <2>1. /\ process' = [process EXCEPT ![s] = NoProcess]
        /\ status' = [status EXCEPT ![s] = Status("Unsupported", None, None)]
        /\ run' = [run EXCEPT ![s] = NoRun] /\ UNCHANGED generation
    BY <1>3 DEF Start, StartSlot, SetStatus
  <2> QED BY <1>0, <1>1, <2>1 DEF OwnCatalog, SlotTypes
<1>4. CASE id \notin Catalog[s]
  <2>1. /\ status' = [status EXCEPT ![s] = Status("Error", None, None)]
        /\ UNCHANGED <<run, process, generation>>
    BY <1>4 DEF Start, SetStatus
  <2> QED BY <1>0, <1>1, <2>1 DEF OwnCatalog, SlotTypes
<1> QED BY <1>2, <1>3, <1>4

(* So does stop. *)
LEMMA StopTypes ==
    ASSUME VariableTypes, OwnCatalog, NEW s \in Slots, Stop(s)
    PROVE  SlotTypes' /\ OwnCatalog'
<1>1. /\ SlotTypes
      /\ NoRun \in Runs /\ NoProcess \in Processes
      /\ NoRun.model = None /\ NoProcess.model = None
      /\ Status("Idle", None, None) \in Statuses /\ Status("Idle", None, None).model = None
  BY RecordTypes, 0 \in Nat DEF SlotTypes, VariableTypes, Status, NoRun, Run, NoProcess, Process
<1>2. /\ process' = [process EXCEPT ![s] = NoProcess]
      /\ status' = [status EXCEPT ![s] = Status("Idle", None, None)]
      /\ run' = [run EXCEPT ![s] = NoRun]
      /\ generation[s] < MaxGeneration /\ generation' = [generation EXCEPT ![s] = @ + 1]
  BY DEF Stop, SetStatus
<1>3. generation' \in [Slots -> 0 .. MaxGeneration]
  BY <1>1, <1>2, ConstantsAssumption DEF SlotTypes
<1>4. SlotTypes'
  BY <1>1, <1>2, <1>3 DEF SlotTypes
<1>5. OwnCatalog'
  BY <1>1, <1>2 DEF OwnCatalog, SlotTypes
<1> QED BY <1>4, <1>5

(* Every step keeps the facts that need no assumption. *)
LEMMA AlwaysPreserved ==
    ASSUME Always, [Next]_vars
    PROVE  Always'
<1> USE ConstantsAssumption DEF Always
<1>1. CASE SetManaged
  <2>1. VariableTypes' /\ OwnCatalog'
    BY <1>1, StartTypes, StopTypes DEF SetManaged, Slots, SlotTypes, VariableTypes, Ids, Models
  <2>2. ModelsKnown'
    BY <1>1 DEF SetManaged, Start, StartSlot, Stop, SetStatus, VariableTypes, Status, Run, NoRun, Process, NoProcess, ModelsKnown, Models, Slots
  <2>3. LaunchedVerified'
    BY <1>1 DEF SetManaged, Start, StartSlot, Stop, SetStatus, VariableTypes, Status, Run, NoRun, Process, NoProcess, ModelsKnown, LaunchedVerified, NoServerYet, Slots
  <2>4. NoServerYet'
    BY <1>1 DEF SetManaged, Start, StartSlot, Stop, SetStatus, VariableTypes, Status, Run, NoRun, Process, NoProcess, NoServerYet, Slots
  <2> QED BY <2>1, <2>2, <2>3, <2>4
<1>2. CASE EnsureRunning
  <2>1. VariableTypes' /\ OwnCatalog'
    BY <1>2, StartTypes DEF EnsureRunning, Slots, SlotTypes, VariableTypes, Ids, Models
  <2>2. ModelsKnown'
    BY <1>2 DEF EnsureRunning, Start, StartSlot, SetStatus, VariableTypes, Status, Run, NoRun, Process, NoProcess, ModelsKnown, Models, Slots
  <2>3. LaunchedVerified'
    BY <1>2 DEF EnsureRunning, Start, StartSlot, SetStatus, VariableTypes, Status, Run, NoRun, Process, NoProcess, ModelsKnown, LaunchedVerified, NoServerYet, Slots
  <2>4. NoServerYet'
    BY <1>2 DEF EnsureRunning, Start, StartSlot, SetStatus, VariableTypes, Status, Run, NoRun, Process, NoProcess, NoServerYet, Slots
  <2> QED BY <2>1, <2>2, <2>3, <2>4
<1>3. CASE EnsureEmbeddingRunning
  <2>1. VariableTypes' /\ OwnCatalog'
    BY <1>3, StartTypes DEF EnsureEmbeddingRunning, Slots, SlotTypes, VariableTypes
  <2>2. ModelsKnown'
    BY <1>3 DEF EnsureEmbeddingRunning, Start, StartSlot, SetStatus, VariableTypes, Status, Run, NoRun, Process, NoProcess, ModelsKnown, Models, Slots
  <2>3. LaunchedVerified'
    BY <1>3 DEF EnsureEmbeddingRunning, Start, StartSlot, SetStatus, VariableTypes, Status, Run, NoRun, Process, NoProcess, ModelsKnown, LaunchedVerified, NoServerYet, Slots
  <2>4. NoServerYet'
    BY <1>3 DEF EnsureEmbeddingRunning, Start, StartSlot, SetStatus, VariableTypes, Status, Run, NoRun, Process, NoProcess, NoServerYet, Slots
  <2> QED BY <2>1, <2>2, <2>3, <2>4
<1>4. CASE StopEmbedding
  <2>1. VariableTypes' /\ OwnCatalog'
    BY <1>4, StopTypes DEF StopEmbedding, Slots, SlotTypes, VariableTypes
  <2>2. ModelsKnown'
    BY <1>4 DEF StopEmbedding, Stop, SetStatus, VariableTypes, Status, Run, NoRun, Process, NoProcess, ModelsKnown, Models, Slots
  <2>3. LaunchedVerified'
    BY <1>4 DEF StopEmbedding, Stop, SetStatus, VariableTypes, Status, Run, NoRun, Process, NoProcess, ModelsKnown, LaunchedVerified, NoServerYet, Slots
  <2>4. NoServerYet'
    BY <1>4 DEF StopEmbedding, Stop, SetStatus, VariableTypes, Status, Run, NoRun, Process, NoProcess, NoServerYet, Slots
  <2> QED BY <2>1, <2>2, <2>3, <2>4
<1>5. CASE \E s \in Slots : Resolve(s)
  <2>0. PICK s \in Slots : Resolve(s)
    BY <1>5
  <2>1. CASE Fail(s)
    <3>1. SlotStep(s) /\ Failed(s)
      BY <2>0, <2>1, FailEffect DEF Resolve, Always, VariableTypes
    <3> QED BY <3>1, FailedKeepsAlways
  <2>2. CASE ~ Fail(s)
    <3>1. VariableTypes'
      BY <2>0, <2>2 DEF Resolve, IsCurrent, VariableTypes, Run, Runs, NoRun, Slots
    <3>5. OwnCatalog'
      BY <2>0, <2>2 DEF Resolve, IsCurrent, VariableTypes, Run, Runs, NoRun, Slots, OwnCatalog
    <3>2. ModelsKnown'
      BY <2>0, <2>2 DEF Resolve, IsCurrent, VariableTypes, Run, Runs, NoRun, ModelsKnown, Models, Slots
    <3>3. LaunchedVerified'
      BY <2>0, <2>2 DEF Resolve, IsCurrent, VariableTypes, Run, Runs, NoRun, ModelsKnown, LaunchedVerified, NoServerYet, Slots
    <3>4. NoServerYet'
      BY <2>0, <2>2 DEF Resolve, IsCurrent, VariableTypes, Run, Runs, NoRun, NoServerYet, Slots
    <3> QED BY <3>1, <3>5, <3>2, <3>3, <3>4
  <2> QED BY <2>1, <2>2
<1>6. CASE \E s \in Slots : Verify(s)
  <2>0. PICK s \in Slots : Verify(s)
    BY <1>6
  <2>1. CASE cache[run[s].model] = "verified" /\ Launch(s) /\ UNCHANGED cache
    <3>1. SlotStep(s) /\ (Spawned(s) \/ Failed(s))
      BY <2>0, <2>1, LaunchEffect DEF Verify, Always, VariableTypes
    <3> QED BY <3>1, SpawnedKeepsAlways, FailedKeepsAlways
  <2>2. CASE /\ cache[run[s].model] # "verified"
             /\ cache' \in {cache, [cache EXCEPT ![run[s].model] = "absent"]}
             /\ run' = [run EXCEPT ![s].stage = "downloading"]
             /\ UNCHANGED <<status, process>>
    <3>1. /\ run[s].stage = "verifying" /\ run[s].model \in Models
          /\ process[s].life = "none"
          /\ UNCHANGED <<supported, desired, generation>>
      BY <2>0 DEF Verify, Always, ModelsKnown, NoServerYet
    <3>2. /\ run' \in [Slots -> Runs]
          /\ run'[s].stage = "downloading" /\ run'[s].model = run[s].model
          /\ \A q \in Slots : q # s => run'[q] = run[q]
      BY <2>2 DEF Always, VariableTypes, Runs
    <3>3. cache' \in [Models -> {"absent", "corrupt", "verified"}]
      BY <2>2, <3>1 DEF Always, VariableTypes
    <3>4. \A m \in Models : cache[m] = "verified" => cache'[m] = "verified"
      BY <2>2, <3>1 DEF Always, VariableTypes
    <3>5. VariableTypes'
      BY <2>2, <3>1, <3>2, <3>3, <3>4 DEF VariableTypes
    <3>9. OwnCatalog'
      BY <2>2, <3>1, <3>2, <3>3, <3>4 DEF VariableTypes, OwnCatalog
    <3>6. ModelsKnown'
      BY <2>2, <3>1, <3>2, <3>3, <3>4 DEF ModelsKnown
    <3>7. LaunchedVerified'
      BY <2>2, <3>1, <3>2, <3>3, <3>4 DEF LaunchedVerified, ModelsKnown
    <3>8. NoServerYet'
      BY <2>2, <3>1, <3>2, <3>3, <3>4 DEF NoServerYet
    <3> QED BY <3>5, <3>9, <3>6, <3>7, <3>8
  <2>3. CASE Fail(s) /\ UNCHANGED cache
    <3>1. SlotStep(s) /\ Failed(s)
      BY <2>0, <2>3, FailEffect DEF Verify, Always, VariableTypes
    <3> QED BY <3>1, FailedKeepsAlways
  <2> QED BY <2>0, <2>1, <2>2, <2>3 DEF Verify
<1>7. CASE \E s \in Slots : DownloadProgress(s)
  <2>0. PICK s \in Slots : DownloadProgress(s)
    BY <1>7
  <2>1. VariableTypes'
    BY <2>0 DEF DownloadProgress, SetStatus, VariableTypes, Status, Runs, Statuses, Slots
  <2>5. OwnCatalog'
    BY <2>0 DEF DownloadProgress, SetStatus, VariableTypes, Status, Runs, Statuses, Slots, OwnCatalog
  <2>2. ModelsKnown'
    BY <2>0 DEF DownloadProgress, SetStatus, VariableTypes, Status, Runs, ModelsKnown, Models, Slots
  <2>3. LaunchedVerified'
    BY <2>0 DEF DownloadProgress, SetStatus, VariableTypes, Status, Runs, ModelsKnown, LaunchedVerified, NoServerYet, Slots
  <2>4. NoServerYet'
    BY <2>0 DEF DownloadProgress, SetStatus, VariableTypes, Status, Runs, NoServerYet, Slots
  <2> QED BY <2>1, <2>5, <2>2, <2>3, <2>4
<1>8. CASE \E s \in Slots : DownloadEnds(s)
  <2>0. PICK s \in Slots : DownloadEnds(s)
    BY <1>8
  <2>1. CASE /\ cache' = [cache EXCEPT ![run[s].model] = "verified"]
             /\ Launch(s)
    <3>1. run[s].model \in Models /\ run[s].stage = "downloading"
      BY <2>0 DEF DownloadEnds, Always, ModelsKnown
    <3>2. /\ cache' \in [Models -> {"absent", "corrupt", "verified"}]
          /\ \A m \in Models : cache[m] = "verified" => cache'[m] = "verified"
          /\ cache'[run[s].model] = "verified"
      BY <2>1, <3>1 DEF Always, VariableTypes
    <3>3. SlotStep(s) /\ (Spawned(s) \/ Failed(s))
      BY <2>0, <2>1, <3>1, <3>2, LaunchEffect DEF DownloadEnds, Always
    <3> QED BY <3>3, SpawnedKeepsAlways, FailedKeepsAlways
  <2>2. CASE Fail(s) /\ UNCHANGED cache
    <3>1. SlotStep(s) /\ Failed(s)
      BY <2>0, <2>2, FailEffect DEF DownloadEnds, Always, VariableTypes
    <3> QED BY <3>1, FailedKeepsAlways
  <2> QED BY <2>0, <2>1, <2>2 DEF DownloadEnds
<1>9. CASE \E s \in Slots : PollUntilReady(s)
  <2>0. PICK s \in Slots : PollUntilReady(s)
    BY <1>9
  <2>1. VariableTypes'
    BY <2>0 DEF PollUntilReady, IsCurrent, SetStatus, VariableTypes, Status, Run, Runs, NoRun, Process, Processes, Statuses, Slots
  <2>5. OwnCatalog'
    BY <2>0 DEF PollUntilReady, IsCurrent, SetStatus, VariableTypes, Status, Run, Runs, NoRun, Process, Processes, Statuses, Slots, OwnCatalog
  <2>2. ModelsKnown'
    BY <2>0 DEF PollUntilReady, IsCurrent, SetStatus, VariableTypes, Status, Run, Runs, NoRun, Process, Processes, ModelsKnown, Models, Slots
  <2>3. LaunchedVerified'
    BY <2>0 DEF PollUntilReady, IsCurrent, SetStatus, VariableTypes, Status, Run, Runs, NoRun, Process, Processes, ModelsKnown, LaunchedVerified, NoServerYet, Slots
  <2>4. NoServerYet'
    BY <2>0 DEF PollUntilReady, IsCurrent, SetStatus, VariableTypes, Status, Run, Runs, NoRun, Process, Processes, NoServerYet, Slots
  <2> QED BY <2>1, <2>5, <2>2, <2>3, <2>4
<1>10. CASE \E s \in Slots : PollTimeout(s)
  <2>0. PICK s \in Slots : PollTimeout(s)
    BY <1>10
  <2>1. SlotStep(s) /\ Failed(s)
    BY <2>0, FailEffect DEF PollTimeout, Always, VariableTypes
  <2> QED BY <2>1, FailedKeepsAlways
<1>11. CASE \E s \in Slots : Bind(s)
  <2>0. PICK s \in Slots : Bind(s)
    BY <1>11
  <2>1. VariableTypes'
    BY <2>0 DEF Bind, Lives, VariableTypes, Processes, Slots
  <2>5. OwnCatalog'
    BY <2>0 DEF Bind, Lives, VariableTypes, Processes, Slots, OwnCatalog
  <2>2. ModelsKnown'
    BY <2>0 DEF Bind, Lives, VariableTypes, Processes, ModelsKnown, Models, Slots
  <2>3. LaunchedVerified'
    BY <2>0 DEF Bind, Lives, VariableTypes, Processes, ModelsKnown, LaunchedVerified, NoServerYet, Slots
  <2>4. NoServerYet'
    BY <2>0 DEF Bind, Lives, VariableTypes, Processes, NoServerYet, Slots
  <2> QED BY <2>1, <2>5, <2>2, <2>3, <2>4
<1>12. CASE \E s \in Slots : Load(s)
  <2>0. PICK s \in Slots : Load(s)
    BY <1>12
  <2>1. VariableTypes'
    BY <2>0 DEF Load, Lives, VariableTypes, Processes, Slots
  <2>5. OwnCatalog'
    BY <2>0 DEF Load, Lives, VariableTypes, Processes, Slots, OwnCatalog
  <2>2. ModelsKnown'
    BY <2>0 DEF Load, Lives, VariableTypes, Processes, ModelsKnown, Models, Slots
  <2>3. LaunchedVerified'
    BY <2>0 DEF Load, Lives, VariableTypes, Processes, ModelsKnown, LaunchedVerified, NoServerYet, Slots
  <2>4. NoServerYet'
    BY <2>0 DEF Load, Lives, VariableTypes, Processes, NoServerYet, Slots
  <2> QED BY <2>1, <2>5, <2>2, <2>3, <2>4
<1>13. CASE \E s \in Slots : Misbehave(s)
  <2>0. PICK s \in Slots : Misbehave(s)
    BY <1>13
  <2>1. VariableTypes'
    BY <2>0 DEF Misbehave, Lives, VariableTypes, Processes, Slots
  <2>5. OwnCatalog'
    BY <2>0 DEF Misbehave, Lives, VariableTypes, Processes, Slots, OwnCatalog
  <2>2. ModelsKnown'
    BY <2>0 DEF Misbehave, Lives, VariableTypes, Processes, ModelsKnown, Models, Slots
  <2>3. LaunchedVerified'
    BY <2>0 DEF Misbehave, Lives, VariableTypes, Processes, ModelsKnown, LaunchedVerified, NoServerYet, Slots
  <2>4. NoServerYet'
    BY <2>0 DEF Misbehave, Lives, VariableTypes, Processes, NoServerYet, Slots
  <2> QED BY <2>1, <2>5, <2>2, <2>3, <2>4
<1>14. CASE UNCHANGED vars
  BY <1>14 DEF vars, VariableTypes, OwnCatalog, ModelsKnown, LaunchedVerified, NoServerYet
<1> QED BY <1>1, <1>2, <1>3, <1>4, <1>5, <1>6, <1>7, <1>8, <1>9, <1>10, <1>11, <1>12, <1>13, <1>14 DEF Next, RunStep

(* A failed run keeps the facts about what the user wants. *)
LEMMA FailedKeepsFollowed ==
    ASSUME Followed, NEW s \in Slots, SlotStep(s), Failed(s)
    PROVE  Followed'
<1>1. Always'
  BY FailedKeepsAlways DEF Followed
<1>2. RunWanted'
  BY ConstantsAssumption DEF Followed, SlotStep, Failed, RunWanted, Slots, Misnamed, GoesOn
<1>3. DesiredFollowed'
  BY ConstantsAssumption DEF Followed, SlotStep, Failed, DesiredFollowed, RunWanted, Slots, Misnamed, GoesOn
<1>4. NoStrayServer'
  BY ConstantsAssumption DEF Followed, SlotStep, Failed, NoStrayServer, Misnamed, GoesOn
<1> QED BY <1>1, <1>2, <1>3, <1>4 DEF Followed

(* A spawn keeps the facts about what the user wants. *)
LEMMA SpawnedKeepsFollowed ==
    ASSUME Followed, NEW s \in Slots, SlotStep(s), Spawned(s)
    PROVE  Followed'
<1>1. Always'
  BY SpawnedKeepsAlways DEF Followed
<1>2. RunWanted'
  BY ConstantsAssumption DEF Followed, SlotStep, Spawned, RunWanted, Slots, Misnamed, GoesOn
<1>3. DesiredFollowed'
  BY ConstantsAssumption DEF Followed, SlotStep, Spawned, DesiredFollowed, RunWanted, Slots, Misnamed, GoesOn
<1>4. NoStrayServer'
  BY ConstantsAssumption DEF Followed, SlotStep, Spawned, NoStrayServer, Misnamed, GoesOn
<1> QED BY <1>1, <1>2, <1>3, <1>4 DEF Followed

(* Every step keeps the facts about what the user wants. *)
LEMMA FollowedPreserved ==
    ASSUME Followed, [Next]_vars
    PROVE  Followed'
<1> USE ConstantsAssumption DEF Followed
<1>0. Always'
  BY AlwaysPreserved
<1>1. CASE SetManaged
  <2>1. RunWanted'
    BY <1>1 DEF SetManaged, Start, StartSlot, Stop, SetStatus, VariableTypes, Status, Run, NoRun, Process, NoProcess, RunWanted, Slots, Always, Misnamed
  <2>2. DesiredFollowed'
    BY <1>1 DEF SetManaged, Start, StartSlot, Stop, SetStatus, VariableTypes, Status, Run, NoRun, Process, NoProcess, RunWanted, DesiredFollowed, Slots, Always, Misnamed
  <2>3. NoStrayServer'
    BY <1>1 DEF SetManaged, Start, StartSlot, Stop, SetStatus, VariableTypes, Status, Run, NoRun, Process, NoProcess, NoStrayServer, NoServerYet, Always, Slots, Misnamed
  <2> QED BY <2>1, <2>2, <2>3, <1>0
<1>2. CASE EnsureRunning
  <2>1. RunWanted'
    BY <1>2 DEF EnsureRunning, Start, StartSlot, SetStatus, VariableTypes, Status, Run, NoRun, Process, NoProcess, RunWanted, Slots, Always, Misnamed
  <2>2. DesiredFollowed'
    BY <1>2 DEF EnsureRunning, Start, StartSlot, SetStatus, VariableTypes, Status, Run, NoRun, Process, NoProcess, RunWanted, DesiredFollowed, Slots, Always, Misnamed
  <2>3. NoStrayServer'
    BY <1>2 DEF EnsureRunning, Start, StartSlot, SetStatus, VariableTypes, Status, Run, NoRun, Process, NoProcess, NoStrayServer, NoServerYet, Always, Slots, Misnamed
  <2> QED BY <2>1, <2>2, <2>3, <1>0
<1>3. CASE EnsureEmbeddingRunning
  <2>1. RunWanted'
    BY <1>3 DEF EnsureEmbeddingRunning, Start, StartSlot, SetStatus, VariableTypes, Status, Run, NoRun, Process, NoProcess, RunWanted, Slots, Always, Misnamed
  <2>2. DesiredFollowed'
    BY <1>3 DEF EnsureEmbeddingRunning, Start, StartSlot, SetStatus, VariableTypes, Status, Run, NoRun, Process, NoProcess, RunWanted, DesiredFollowed, Slots, Always, Misnamed
  <2>3. NoStrayServer'
    BY <1>3 DEF EnsureEmbeddingRunning, Start, StartSlot, SetStatus, VariableTypes, Status, Run, NoRun, Process, NoProcess, NoStrayServer, NoServerYet, Always, Slots, Misnamed
  <2> QED BY <2>1, <2>2, <2>3, <1>0
<1>4. CASE StopEmbedding
  <2>1. RunWanted'
    BY <1>4 DEF StopEmbedding, Stop, SetStatus, VariableTypes, Status, Run, NoRun, Process, NoProcess, RunWanted, Slots, Always, Misnamed
  <2>2. DesiredFollowed'
    BY <1>4 DEF StopEmbedding, Stop, SetStatus, VariableTypes, Status, Run, NoRun, Process, NoProcess, RunWanted, DesiredFollowed, Slots, Always, Misnamed
  <2>3. NoStrayServer'
    BY <1>4 DEF StopEmbedding, Stop, SetStatus, VariableTypes, Status, Run, NoRun, Process, NoProcess, NoStrayServer, NoServerYet, Always, Slots, Misnamed
  <2> QED BY <2>1, <2>2, <2>3, <1>0
<1>5. CASE \E s \in Slots : Resolve(s)
  <2>0. PICK s \in Slots : Resolve(s)
    BY <1>5
  <2>1. CASE Fail(s)
    <3>1. SlotStep(s) /\ Failed(s)
      BY <2>0, <2>1, FailEffect DEF Resolve, Always, VariableTypes
    <3> QED BY <3>1, FailedKeepsFollowed
  <2>2. CASE ~ Fail(s)
    <3>1. RunWanted'
      BY <2>0, <2>2 DEF Resolve, IsCurrent, VariableTypes, Run, Runs, NoRun, RunWanted, Slots, Always, Misnamed
    <3>2. DesiredFollowed'
      BY <2>0, <2>2 DEF Resolve, IsCurrent, VariableTypes, Run, Runs, NoRun, RunWanted, DesiredFollowed, Slots, Always, Misnamed
    <3>3. NoStrayServer'
      BY <2>0, <2>2 DEF Resolve, IsCurrent, VariableTypes, Run, Runs, NoRun, NoStrayServer, NoServerYet, Always, Slots, Misnamed
    <3> QED BY <3>1, <3>2, <3>3, <1>0
  <2> QED BY <2>1, <2>2
<1>6. CASE \E s \in Slots : Verify(s)
  <2>0. PICK s \in Slots : Verify(s)
    BY <1>6
  <2>1. CASE cache[run[s].model] = "verified" /\ Launch(s) /\ UNCHANGED cache
    <3>1. SlotStep(s) /\ (Spawned(s) \/ Failed(s))
      BY <2>0, <2>1, LaunchEffect DEF Verify, Always, VariableTypes
    <3> QED BY <3>1, SpawnedKeepsFollowed, FailedKeepsFollowed
  <2>2. CASE /\ cache[run[s].model] # "verified"
             /\ cache' \in {cache, [cache EXCEPT ![run[s].model] = "absent"]}
             /\ run' = [run EXCEPT ![s].stage = "downloading"]
             /\ UNCHANGED <<status, process>>
    <3>1. /\ run[s].stage = "verifying" /\ run[s].model \in Models
          /\ process[s].life = "none"
          /\ UNCHANGED <<supported, desired, generation>>
      BY <2>0 DEF Verify, Always, ModelsKnown, NoServerYet
    <3>2. /\ run' \in [Slots -> Runs]
          /\ run'[s].stage = "downloading" /\ run'[s].model = run[s].model
          /\ \A q \in Slots : q # s => run'[q] = run[q]
      BY <2>2 DEF Always, VariableTypes, Runs
    <3>3. cache' \in [Models -> {"absent", "corrupt", "verified"}]
      BY <2>2, <3>1 DEF Always, VariableTypes
    <3>4. \A m \in Models : cache[m] = "verified" => cache'[m] = "verified"
      BY <2>2, <3>1 DEF Always, VariableTypes
    <3>5. RunWanted'
      BY <2>2, <3>1, <3>2, <3>3, <3>4 DEF RunWanted, Slots, Always, Misnamed
    <3>6. DesiredFollowed'
      BY <2>2, <3>1, <3>2, <3>3, <3>4 DEF DesiredFollowed, RunWanted, Slots, Always, Misnamed
    <3>7. NoStrayServer'
      BY <2>2, <3>1, <3>2, <3>3, <3>4 DEF NoStrayServer, Always, Misnamed
    <3> QED BY <3>5, <3>6, <3>7, <1>0
  <2>3. CASE Fail(s) /\ UNCHANGED cache
    <3>1. SlotStep(s) /\ Failed(s)
      BY <2>0, <2>3, FailEffect DEF Verify, Always, VariableTypes
    <3> QED BY <3>1, FailedKeepsFollowed
  <2> QED BY <2>0, <2>1, <2>2, <2>3 DEF Verify
<1>7. CASE \E s \in Slots : DownloadProgress(s)
  <2>0. PICK s \in Slots : DownloadProgress(s)
    BY <1>7
  <2>1. RunWanted'
    BY <2>0 DEF DownloadProgress, SetStatus, VariableTypes, Status, Runs, RunWanted, Slots, Always, Misnamed
  <2>2. DesiredFollowed'
    BY <2>0 DEF DownloadProgress, SetStatus, VariableTypes, Status, Runs, RunWanted, DesiredFollowed, Slots, Always, Misnamed
  <2>3. NoStrayServer'
    BY <2>0 DEF DownloadProgress, SetStatus, VariableTypes, Status, Runs, NoStrayServer, NoServerYet, Always, Slots, Misnamed
  <2> QED BY <2>1, <2>2, <2>3, <1>0
<1>8. CASE \E s \in Slots : DownloadEnds(s)
  <2>0. PICK s \in Slots : DownloadEnds(s)
    BY <1>8
  <2>1. CASE /\ cache' = [cache EXCEPT ![run[s].model] = "verified"]
             /\ Launch(s)
    <3>1. run[s].model \in Models /\ run[s].stage = "downloading"
      BY <2>0 DEF DownloadEnds, Always, ModelsKnown
    <3>2. /\ cache' \in [Models -> {"absent", "corrupt", "verified"}]
          /\ \A m \in Models : cache[m] = "verified" => cache'[m] = "verified"
          /\ cache'[run[s].model] = "verified"
      BY <2>1, <3>1 DEF Always, VariableTypes
    <3>3. SlotStep(s) /\ (Spawned(s) \/ Failed(s))
      BY <2>0, <2>1, <3>1, <3>2, LaunchEffect DEF DownloadEnds, Always
    <3> QED BY <3>3, SpawnedKeepsFollowed, FailedKeepsFollowed
  <2>2. CASE Fail(s) /\ UNCHANGED cache
    <3>1. SlotStep(s) /\ Failed(s)
      BY <2>0, <2>2, FailEffect DEF DownloadEnds, Always, VariableTypes
    <3> QED BY <3>1, FailedKeepsFollowed
  <2> QED BY <2>0, <2>1, <2>2 DEF DownloadEnds
<1>9. CASE \E s \in Slots : PollUntilReady(s)
  <2>0. PICK s \in Slots : PollUntilReady(s)
    BY <1>9
  <2>1. RunWanted'
    BY <2>0 DEF PollUntilReady, IsCurrent, SetStatus, VariableTypes, Status, Run, Runs, NoRun, Process, Processes, RunWanted, Slots, Always, Misnamed
  <2>2. DesiredFollowed'
    BY <2>0 DEF PollUntilReady, IsCurrent, SetStatus, VariableTypes, Status, Run, Runs, NoRun, Process, Processes, RunWanted, DesiredFollowed, Slots, Always, Misnamed
  <2>3. NoStrayServer'
    BY <2>0 DEF PollUntilReady, IsCurrent, SetStatus, VariableTypes, Status, Run, Runs, NoRun, Process, Processes, NoStrayServer, NoServerYet, Always, Slots, Misnamed
  <2> QED BY <2>1, <2>2, <2>3, <1>0
<1>10. CASE \E s \in Slots : PollTimeout(s)
  <2>0. PICK s \in Slots : PollTimeout(s)
    BY <1>10
  <2>1. SlotStep(s) /\ Failed(s)
    BY <2>0, FailEffect DEF PollTimeout, Always, VariableTypes
  <2> QED BY <2>1, FailedKeepsFollowed
<1>11. CASE \E s \in Slots : Bind(s)
  <2>0. PICK s \in Slots : Bind(s)
    BY <1>11
  <2>1. RunWanted'
    BY <2>0 DEF Bind, Lives, VariableTypes, Processes, RunWanted, Slots, Always, Misnamed
  <2>2. DesiredFollowed'
    BY <2>0 DEF Bind, Lives, VariableTypes, Processes, RunWanted, DesiredFollowed, Slots, Always, Misnamed
  <2>3. NoStrayServer'
    BY <2>0 DEF Bind, Lives, VariableTypes, Processes, NoStrayServer, NoServerYet, Always, Slots, Misnamed
  <2> QED BY <2>1, <2>2, <2>3, <1>0
<1>12. CASE \E s \in Slots : Load(s)
  <2>0. PICK s \in Slots : Load(s)
    BY <1>12
  <2>1. RunWanted'
    BY <2>0 DEF Load, Lives, VariableTypes, Processes, RunWanted, Slots, Always, Misnamed
  <2>2. DesiredFollowed'
    BY <2>0 DEF Load, Lives, VariableTypes, Processes, RunWanted, DesiredFollowed, Slots, Always, Misnamed
  <2>3. NoStrayServer'
    BY <2>0 DEF Load, Lives, VariableTypes, Processes, NoStrayServer, NoServerYet, Always, Slots, Misnamed
  <2> QED BY <2>1, <2>2, <2>3, <1>0
<1>13. CASE \E s \in Slots : Misbehave(s)
  <2>0. PICK s \in Slots : Misbehave(s)
    BY <1>13
  <2>1. RunWanted'
    BY <2>0 DEF Misbehave, Lives, VariableTypes, Processes, RunWanted, Slots, Always, Misnamed
  <2>2. DesiredFollowed'
    BY <2>0 DEF Misbehave, Lives, VariableTypes, Processes, RunWanted, DesiredFollowed, Slots, Always, Misnamed
  <2>3. NoStrayServer'
    BY <2>0 DEF Misbehave, Lives, VariableTypes, Processes, NoStrayServer, NoServerYet, Always, Slots, Misnamed
  <2> QED BY <2>1, <2>2, <2>3, <1>0
<1>14. CASE UNCHANGED vars
  BY <1>14, <1>0 DEF vars, RunWanted, Slots, DesiredFollowed, NoStrayServer, Misnamed
<1> QED BY <1>1, <1>2, <1>3, <1>4, <1>5, <1>6, <1>7, <1>8, <1>9, <1>10, <1>11, <1>12, <1>13, <1>14 DEF Next, RunStep

(* A failed run keeps the facts about who answers. *)
LEMMA FailedKeepsServed ==
    ASSUME Served, NEW s \in Slots, SlotStep(s), Failed(s)
    PROVE  Served'
<1>1. Always'
  BY FailedKeepsAlways DEF Served
<1>2. PollsOwnServer'
  BY ConstantsAssumption DEF Served, SlotStep, Failed, PollsOwnServer, GoesOn
<1>3. SharedKnown'
  BY ConstantsAssumption DEF Served, SlotStep, Failed, SharedKnown, GoesOn
<1>4. ReadyServes'
  BY ConstantsAssumption DEF Served, SlotStep, Failed, ReadyServes, GoesOn
<1> QED BY <1>1, <1>2, <1>3, <1>4 DEF Served

(* A spawn keeps the facts about who answers. *)
LEMMA SpawnedKeepsServed ==
    ASSUME Served, NEW s \in Slots, SlotStep(s), Spawned(s)
    PROVE  Served'
<1>1. Always'
  BY SpawnedKeepsAlways DEF Served
<1>2. PollsOwnServer'
  BY ConstantsAssumption DEF Served, SlotStep, Spawned, PollsOwnServer, GoesOn
<1>3. SharedKnown'
  BY ConstantsAssumption DEF Served, SlotStep, Spawned, SharedKnown, GoesOn
<1>4. ReadyServes'
  BY ConstantsAssumption DEF Served, SlotStep, Spawned, ReadyServes, GoesOn
<1> QED BY <1>1, <1>2, <1>3, <1>4 DEF Served

(* Every step keeps the facts about who answers. *)
LEMMA ServedPreserved ==
    ASSUME Served, [Next]_vars
    PROVE  Served'
<1> USE ConstantsAssumption DEF Served
<1>0. Always'
  BY AlwaysPreserved
<1>1. CASE SetManaged
  <2>1. PollsOwnServer'
    BY <1>1 DEF SetManaged, Start, StartSlot, Stop, SetStatus, VariableTypes, Status, Run, NoRun, Process, NoProcess, PollsOwnServer, Always, Slots
  <2>2. SharedKnown'
    BY <1>1 DEF SetManaged, Start, StartSlot, Stop, SetStatus, VariableTypes, Status, Run, NoRun, Process, NoProcess, SharedKnown, Always, Slots
  <2>3. ReadyServes'
    BY <1>1 DEF SetManaged, Start, StartSlot, Stop, SetStatus, VariableTypes, Status, Run, NoRun, Process, NoProcess, ReadyServes, PollsOwnServer, SharedKnown, Always, Slots
  <2> QED BY <2>1, <2>2, <2>3, <1>0
<1>2. CASE EnsureRunning
  <2>1. PollsOwnServer'
    BY <1>2 DEF EnsureRunning, Start, StartSlot, SetStatus, VariableTypes, Status, Run, NoRun, Process, NoProcess, PollsOwnServer, Always, Slots
  <2>2. SharedKnown'
    BY <1>2 DEF EnsureRunning, Start, StartSlot, SetStatus, VariableTypes, Status, Run, NoRun, Process, NoProcess, SharedKnown, Always, Slots
  <2>3. ReadyServes'
    BY <1>2 DEF EnsureRunning, Start, StartSlot, SetStatus, VariableTypes, Status, Run, NoRun, Process, NoProcess, ReadyServes, PollsOwnServer, SharedKnown, Always, Slots
  <2> QED BY <2>1, <2>2, <2>3, <1>0
<1>3. CASE EnsureEmbeddingRunning
  <2>1. PollsOwnServer'
    BY <1>3 DEF EnsureEmbeddingRunning, Start, StartSlot, SetStatus, VariableTypes, Status, Run, NoRun, Process, NoProcess, PollsOwnServer, Always, Slots
  <2>2. SharedKnown'
    BY <1>3 DEF EnsureEmbeddingRunning, Start, StartSlot, SetStatus, VariableTypes, Status, Run, NoRun, Process, NoProcess, SharedKnown, Always, Slots
  <2>3. ReadyServes'
    BY <1>3 DEF EnsureEmbeddingRunning, Start, StartSlot, SetStatus, VariableTypes, Status, Run, NoRun, Process, NoProcess, ReadyServes, PollsOwnServer, SharedKnown, Always, Slots
  <2> QED BY <2>1, <2>2, <2>3, <1>0
<1>4. CASE StopEmbedding
  <2>1. PollsOwnServer'
    BY <1>4 DEF StopEmbedding, Stop, SetStatus, VariableTypes, Status, Run, NoRun, Process, NoProcess, PollsOwnServer, Always, Slots
  <2>2. SharedKnown'
    BY <1>4 DEF StopEmbedding, Stop, SetStatus, VariableTypes, Status, Run, NoRun, Process, NoProcess, SharedKnown, Always, Slots
  <2>3. ReadyServes'
    BY <1>4 DEF StopEmbedding, Stop, SetStatus, VariableTypes, Status, Run, NoRun, Process, NoProcess, ReadyServes, PollsOwnServer, SharedKnown, Always, Slots
  <2> QED BY <2>1, <2>2, <2>3, <1>0
<1>5. CASE \E s \in Slots : Resolve(s)
  <2>0. PICK s \in Slots : Resolve(s)
    BY <1>5
  <2>1. CASE Fail(s)
    <3>1. SlotStep(s) /\ Failed(s)
      BY <2>0, <2>1, FailEffect DEF Resolve, Always, VariableTypes
    <3> QED BY <3>1, FailedKeepsServed
  <2>2. CASE ~ Fail(s)
    <3>1. PollsOwnServer'
      BY <2>0, <2>2 DEF Resolve, IsCurrent, VariableTypes, Run, Runs, NoRun, PollsOwnServer, Always, Slots
    <3>2. SharedKnown'
      BY <2>0, <2>2 DEF Resolve, IsCurrent, VariableTypes, Run, Runs, NoRun, SharedKnown, Always, Slots
    <3>3. ReadyServes'
      BY <2>0, <2>2 DEF Resolve, IsCurrent, VariableTypes, Run, Runs, NoRun, ReadyServes, PollsOwnServer, SharedKnown, Always, Slots, Process
    <3> QED BY <3>1, <3>2, <3>3, <1>0
  <2> QED BY <2>1, <2>2
<1>6. CASE \E s \in Slots : Verify(s)
  <2>0. PICK s \in Slots : Verify(s)
    BY <1>6
  <2>1. CASE cache[run[s].model] = "verified" /\ Launch(s) /\ UNCHANGED cache
    <3>1. SlotStep(s) /\ (Spawned(s) \/ Failed(s))
      BY <2>0, <2>1, LaunchEffect DEF Verify, Always, VariableTypes
    <3> QED BY <3>1, SpawnedKeepsServed, FailedKeepsServed
  <2>2. CASE /\ cache[run[s].model] # "verified"
             /\ cache' \in {cache, [cache EXCEPT ![run[s].model] = "absent"]}
             /\ run' = [run EXCEPT ![s].stage = "downloading"]
             /\ UNCHANGED <<status, process>>
    <3>1. /\ run[s].stage = "verifying" /\ run[s].model \in Models
          /\ process[s].life = "none"
          /\ UNCHANGED <<supported, desired, generation>>
      BY <2>0 DEF Verify, Always, ModelsKnown, NoServerYet
    <3>2. /\ run' \in [Slots -> Runs]
          /\ run'[s].stage = "downloading" /\ run'[s].model = run[s].model
          /\ \A q \in Slots : q # s => run'[q] = run[q]
      BY <2>2 DEF Always, VariableTypes, Runs
    <3>3. cache' \in [Models -> {"absent", "corrupt", "verified"}]
      BY <2>2, <3>1 DEF Always, VariableTypes
    <3>4. \A m \in Models : cache[m] = "verified" => cache'[m] = "verified"
      BY <2>2, <3>1 DEF Always, VariableTypes
    <3>5. PollsOwnServer'
      BY <2>2, <3>1, <3>2, <3>3, <3>4 DEF PollsOwnServer, Always
    <3>6. SharedKnown'
      BY <2>2, <3>1, <3>2, <3>3, <3>4 DEF SharedKnown, Always
    <3>7. ReadyServes'
      BY <2>2, <3>1, <3>2, <3>3, <3>4 DEF ReadyServes, Always
    <3> QED BY <3>5, <3>6, <3>7, <1>0
  <2>3. CASE Fail(s) /\ UNCHANGED cache
    <3>1. SlotStep(s) /\ Failed(s)
      BY <2>0, <2>3, FailEffect DEF Verify, Always, VariableTypes
    <3> QED BY <3>1, FailedKeepsServed
  <2> QED BY <2>0, <2>1, <2>2, <2>3 DEF Verify
<1>7. CASE \E s \in Slots : DownloadProgress(s)
  <2>0. PICK s \in Slots : DownloadProgress(s)
    BY <1>7
  <2>1. PollsOwnServer'
    BY <2>0 DEF DownloadProgress, SetStatus, VariableTypes, Status, Runs, PollsOwnServer, Always, Slots
  <2>2. SharedKnown'
    BY <2>0 DEF DownloadProgress, SetStatus, VariableTypes, Status, Runs, SharedKnown, Always, Slots
  <2>3. ReadyServes'
    BY <2>0 DEF DownloadProgress, SetStatus, VariableTypes, Status, Runs, ReadyServes, PollsOwnServer, SharedKnown, Always, Slots, Process
  <2> QED BY <2>1, <2>2, <2>3, <1>0
<1>8. CASE \E s \in Slots : DownloadEnds(s)
  <2>0. PICK s \in Slots : DownloadEnds(s)
    BY <1>8
  <2>1. CASE /\ cache' = [cache EXCEPT ![run[s].model] = "verified"]
             /\ Launch(s)
    <3>1. run[s].model \in Models /\ run[s].stage = "downloading"
      BY <2>0 DEF DownloadEnds, Always, ModelsKnown
    <3>2. /\ cache' \in [Models -> {"absent", "corrupt", "verified"}]
          /\ \A m \in Models : cache[m] = "verified" => cache'[m] = "verified"
          /\ cache'[run[s].model] = "verified"
      BY <2>1, <3>1 DEF Always, VariableTypes
    <3>3. SlotStep(s) /\ (Spawned(s) \/ Failed(s))
      BY <2>0, <2>1, <3>1, <3>2, LaunchEffect DEF DownloadEnds, Always
    <3> QED BY <3>3, SpawnedKeepsServed, FailedKeepsServed
  <2>2. CASE Fail(s) /\ UNCHANGED cache
    <3>1. SlotStep(s) /\ Failed(s)
      BY <2>0, <2>2, FailEffect DEF DownloadEnds, Always, VariableTypes
    <3> QED BY <3>1, FailedKeepsServed
  <2> QED BY <2>0, <2>1, <2>2 DEF DownloadEnds
<1>9. CASE \E s \in Slots : PollUntilReady(s)
  <2>0. PICK s \in Slots : PollUntilReady(s)
    BY <1>9
  <2>1. PollsOwnServer'
    BY <2>0 DEF PollUntilReady, IsCurrent, SetStatus, VariableTypes, Status, Run, Runs, NoRun, Process, Processes, PollsOwnServer, Always, Slots
  <2>2. SharedKnown'
    BY <2>0 DEF PollUntilReady, IsCurrent, SetStatus, VariableTypes, Status, Run, Runs, NoRun, Process, Processes, SharedKnown, Always, Slots
  <2>3. ReadyServes'
    BY <2>0 DEF PollUntilReady, IsCurrent, SetStatus, VariableTypes, Status, Run, Runs, NoRun, Process, Processes, ReadyServes, PollsOwnServer, SharedKnown, Always, Slots
  <2> QED BY <2>1, <2>2, <2>3, <1>0
<1>10. CASE \E s \in Slots : PollTimeout(s)
  <2>0. PICK s \in Slots : PollTimeout(s)
    BY <1>10
  <2>1. SlotStep(s) /\ Failed(s)
    BY <2>0, FailEffect DEF PollTimeout, Always, VariableTypes
  <2> QED BY <2>1, FailedKeepsServed
<1>11. CASE \E s \in Slots : Bind(s)
  <2>0. PICK s \in Slots : Bind(s)
    BY <1>11
  <2>1. PollsOwnServer'
    BY <2>0 DEF Bind, Lives, VariableTypes, Processes, PollsOwnServer, Always, Slots
  <2>2. SharedKnown'
    BY <2>0 DEF Bind, Lives, VariableTypes, Processes, SharedKnown, Always, Slots
  <2>3. ReadyServes'
    BY <2>0 DEF Bind, Lives, VariableTypes, Processes, ReadyServes, PollsOwnServer, SharedKnown, Always, Slots, Process
  <2> QED BY <2>1, <2>2, <2>3, <1>0
<1>12. CASE \E s \in Slots : Load(s)
  <2>0. PICK s \in Slots : Load(s)
    BY <1>12
  <2>1. PollsOwnServer'
    BY <2>0 DEF Load, Lives, VariableTypes, Processes, PollsOwnServer, Always, Slots
  <2>2. SharedKnown'
    BY <2>0 DEF Load, Lives, VariableTypes, Processes, SharedKnown, Always, Slots
  <2>3. ReadyServes'
    BY <2>0 DEF Load, Lives, VariableTypes, Processes, ReadyServes, PollsOwnServer, SharedKnown, Always, Slots, Process
  <2> QED BY <2>1, <2>2, <2>3, <1>0
<1>13. CASE \E s \in Slots : Misbehave(s)
  <2>0. PICK s \in Slots : Misbehave(s)
    BY <1>13
  <2>1. PollsOwnServer'
    BY <2>0 DEF Misbehave, Lives, VariableTypes, Processes, PollsOwnServer, Always, Slots
  <2>2. SharedKnown'
    BY <2>0 DEF Misbehave, Lives, VariableTypes, Processes, SharedKnown, Always, Slots
  <2>3. ReadyServes'
    BY <2>0 DEF Misbehave, Lives, VariableTypes, Processes, ReadyServes, PollsOwnServer, SharedKnown, Always, Slots, Process
  <2> QED BY <2>1, <2>2, <2>3, <1>0
<1>14. CASE UNCHANGED vars
  BY <1>14, <1>0 DEF vars, PollsOwnServer, SharedKnown, ReadyServes
<1> QED BY <1>1, <1>2, <1>3, <1>4, <1>5, <1>6, <1>7, <1>8, <1>9, <1>10, <1>11, <1>12, <1>13, <1>14 DEF Next, RunStep

(* The first state has all three groups of facts. *)
LEMMA InitHolds ==
    ASSUME Init
    PROVE  Always /\ Followed /\ Served
<1>1. VariableTypes
  BY ConstantsAssumption DEF Init, VariableTypes, Status, Statuses, Run, Runs, NoRun, Process, Processes, NoProcess
<1>2. OwnCatalog /\ ModelsKnown /\ LaunchedVerified /\ NoServerYet
  BY DEF Init, OwnCatalog, Status, ModelsKnown, LaunchedVerified, NoServerYet, NoRun, Run, NoProcess, Process
<1>3. RunWanted /\ DesiredFollowed /\ NoStrayServer
  BY DEF Init, RunWanted, DesiredFollowed, NoStrayServer, NoRun, Run, NoProcess, Process, Status, Slots, Misnamed
<1>4. PollsOwnServer /\ SharedKnown /\ ReadyServes
  BY DEF Init, PollsOwnServer, SharedKnown, ReadyServes, NoRun, Run, NoProcess, Process, Status
<1> QED BY <1>1, <1>2, <1>3, <1>4 DEF Always, Followed, Served

-----------------------------------------------------------------------------
(* Every variable keeps its type, for any catalog, ports and bound.          *)
THEOREM TypeCorrect == Spec => []TypeOK
<1>1. Init => Always
  BY InitHolds
<1>2. Always /\ [Next]_vars => Always'
  BY AlwaysPreserved
<1>3. Always => TypeOK
  BY DEF Always, TypeOK
<1> QED BY <1>1, <1>2, <1>3, PTL DEF Spec

(* Whatever crashes, hangs or is misspelt: run never hands a model file to a *)
(* server unless verify_cached_model or the download's digest accepted it,  *)
(* and the file stays that way while the server has it.                     *)
THEOREM LaunchedVerifiedCorrect == Spec => []LaunchedVerified
<1>1. Init => Always
  BY InitHolds
<1>2. Always /\ [Next]_vars => Always'
  BY AlwaysPreserved
<1>3. Always => LaunchedVerified
  BY DEF Always
<1> QED BY <1>1, <1>2, <1>3, PTL DEF Spec

(* While the settings name a model of the catalog, a superseded run never    *)
(* shows or serves what the user no longer wants, and no failure, stop or    *)
(* switch leaves a server behind, whatever the servers do and whatever the   *)
(* settings named before.                                                    *)
THEOREM FollowedCorrect == Spec => [](DesiredFollowed /\ NoStrayServer)
<1>1. Init => Followed
  BY InitHolds
<1>2. Followed /\ [Next]_vars => Followed'
  BY FollowedPreserved
<1>3. Followed => DesiredFollowed /\ NoStrayServer
  BY DEF Followed
<1> QED BY <1>1, <1>2, <1>3, PTL DEF Spec

(* The same for the processes alone: whatever fails or is stopped, no server *)
(* is left running in a slot that does not say so.                           *)
THEOREM NoStrayCorrect == Spec => []NoStrayServer
<1> QED BY FollowedCorrect, PTL

(* Whatever crashes, hangs or takes a port: a Ready slot has a server of its *)
(* own, with that model and that port, which serves or has served there,     *)
(* unless both slots were given the port before either server had bound it.  *)
THEOREM ReadyServesCorrect == Spec => []ReadyServes
<1>1. Init => Served
  BY InitHolds
<1>2. Served /\ [Next]_vars => Served'
  BY ServedPreserved
<1>3. Served => ReadyServes
  BY DEF Served
<1> QED BY <1>1, <1>2, <1>3, PTL DEF Spec
=============================================================================
