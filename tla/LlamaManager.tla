----------------------------- MODULE LlamaManager -----------------------------
(***************************************************************************)
(* The manager of the local model servers (paddleboard_llama_manager): a    *)
(* chat slot driven by the settings and the UI, an embedding slot driven by *)
(* semantic search.  Each slot has a status, a generation, a run task that  *)
(* provisions, downloads, spawns and waits, and the server it stored.       *)
(*                                                                          *)
(* The manager and its runs live on the main thread: one action is what     *)
(* happens between two awaits.  Replacing a run task cancels it at its      *)
(* await; dropping a ServerHandle kills its process.  The processes, the    *)
(* ports they bind and the cached files are the world outside.              *)
(***************************************************************************)
EXTENDS Naturals

CONSTANTS
    Catalog,        \* [Slots -> set of model ids] CATALOG, EMBEDDING_CATALOG
    Unknown,        \* chat model ids a settings file may name without a catalog entry
    Ports,          \* loopback ports the system may hand out
    MaxGeneration,  \* bound: starts and stops of a slot
    None            \* no model, no port

Slots == {"chat", "embedding"}
Models == UNION {Catalog[s] : s \in Slots}
Ids == Models \cup Unknown

ASSUME ConstantsAssumption ==
    /\ Catalog \in [Slots -> SUBSET Models]
    /\ Catalog["chat"] \cap Catalog["embedding"] = {}
    /\ Unknown \cap Models = {}
    /\ MaxGeneration \in Nat
    /\ None \notin Ids \cup Ports

VARIABLES
    supported,   \* platform_supported()
    desired,     \* the chat model the user wants, or None
    status,      \* ManagerStatus of each slot
    generation,  \* generation, embedding_generation
    run,         \* the run task of each slot
    process,     \* the process behind the stored ServerHandle
    cache        \* the file at each model's path

vars == <<supported, desired, status, generation, run, process, cache>>

Status(state, model, port) == [state |-> state, model |-> model, port |-> port]
Statuses ==
    [state : {"Idle", "Preparing", "Downloading", "Starting", "Ready", "Error",
              "Unsupported"},
     model : Models \cup {None}, port : Ports \cup {None}]

Run(stage, model, gen, port) ==
    [stage |-> stage, model |-> model, generation |-> gen, port |-> port]
Runs ==
    [stage : {"none", "resolving", "verifying", "downloading", "polling"},
     model : Models \cup {None}, generation : Nat, port : Ports \cup {None}]
NoRun == Run("none", None, 0, None)

(* llama-server: it binds its port, then loads the model; /health answers   *)
(* 503 until it serves.  A process that ended, before it served (exited) or *)
(* after (crashed), stays in its handle.  The port may be one that the      *)
(* other slot's handle was given too (shared).                              *)
Process(life, model, port, shared) ==
    [life |-> life, model |-> model, port |-> port, shared |-> shared]
Processes ==
    [life : {"none", "booting", "loading", "serving", "hung", "exited", "crashed"},
     model : Models \cup {None}, port : Ports \cup {None}, shared : BOOLEAN]
NoProcess == Process("none", None, None, FALSE)

Init ==
    /\ supported \in BOOLEAN
    /\ desired = None
    /\ status = [s \in Slots |->
                    Status(IF supported THEN "Idle" ELSE "Unsupported", None, None)]
    /\ generation = [s \in Slots |-> 0]
    /\ run = [s \in Slots |-> NoRun]
    /\ process = [s \in Slots |-> NoProcess]
    /\ cache \in [Models -> {"absent", "corrupt", "verified"}]

-----------------------------------------------------------------------------
(* Operations of the manager.                                               *)

(* Mutant: the embedding slot's arm writes the other slot's field. *)
SetStatusChat(s, new) == status' = [status EXCEPT !["chat"] = new]

(* set_slot_status. *)
SetStatus(s, new) == status' = [status EXCEPT ![s] = new]

(* start_slot: a new generation, the old server killed, the old run dropped *)
(* in favour of a new one.                                                  *)
StartSlot(s, model) ==
    IF supported
    THEN /\ generation[s] < MaxGeneration
         /\ generation' = [generation EXCEPT ![s] = @ + 1]
         /\ process' = [process EXCEPT ![s] = NoProcess]
         /\ SetStatus(s, Status("Preparing", None, None))
         /\ run' = [run EXCEPT ![s] = Run("resolving", model, generation'[s], None)]
    ELSE /\ process' = [process EXCEPT ![s] = NoProcess]
         /\ SetStatus(s, Status("Unsupported", None, None))
         /\ run' = [run EXCEPT ![s] = NoRun]
         /\ UNCHANGED generation

(* start: an id that is not in the catalog is an error, and nothing else    *)
(* changes.                                                                 *)
Start(s, id) ==
    IF id \in Catalog[s] THEN StartSlot(s, id)
    ELSE /\ SetStatus(s, Status("Error", None, None))
         /\ UNCHANGED <<generation, run, process>>

(* Mutant: the run goes on. *)
StopKeepsRun(s) ==
    /\ generation[s] < MaxGeneration
    /\ process' = [process EXCEPT ![s] = NoProcess]
    /\ SetStatus(s, Status("Idle", None, None))
    /\ UNCHANGED <<generation, run>>

(* stop, stop_embedding. *)
Stop(s) ==
    /\ generation[s] < MaxGeneration
    /\ generation' = [generation EXCEPT ![s] = @ + 1]
    /\ run' = [run EXCEPT ![s] = NoRun]
    /\ process' = [process EXCEPT ![s] = NoProcess]
    /\ SetStatus(s, Status("Idle", None, None))

(* set_managed: the settings, or the UI ahead of them. *)
SetManaged ==
    \E id \in Catalog["chat"] \cup Unknown \cup {None} :
        /\ desired # id
        /\ desired' = id
        /\ IF id = None THEN Stop("chat") ELSE Start("chat", id)
        /\ UNCHANGED <<supported, cache>>

(* ensure_running: "Download" or "Retry" in the UI, whatever the state, for *)
(* the id the settings select.                                              *)
EnsureRunning ==
    \E id \in Catalog["chat"] \cup Unknown :
        /\ desired' = id
        /\ Start("chat", id)
        /\ UNCHANGED <<supported, cache>>

(* ensure_embedding_running, called by every semantic search. *)
EnsureEmbeddingRunning ==
    \E id \in Catalog["embedding"] :
        /\ ~ (/\ status["embedding"].state \in {"Ready", "Starting", "Downloading"}
              /\ status["embedding"].model = id)
        /\ Start("embedding", id)
        /\ UNCHANGED <<supported, desired, cache>>

StopEmbedding ==
    /\ Stop("embedding")
    /\ UNCHANGED <<supported, desired, cache>>

-----------------------------------------------------------------------------
(* The run task.                                                            *)

IsCurrent(s) == run[s].generation = generation[s]

(* Mutant: the unhealthy server is kept. *)
FailKeepsServer(s) ==
    /\ run' = [run EXCEPT ![s] = NoRun]
    /\ SetStatus(s, Status("Error", None, None))
    /\ UNCHANGED process

(* run returns an error: fail drops the server and reports, if current. *)
Fail(s) ==
    /\ run' = [run EXCEPT ![s] = NoRun]
    /\ IF IsCurrent(s)
       THEN /\ process' = [process EXCEPT ![s] = NoProcess]
            /\ SetStatus(s, Status("Error", None, None))
       ELSE UNCHANGED <<process, status>>

(* resolve_or_install_server. *)
Resolve(s) ==
    /\ run[s].stage = "resolving"
    /\ \/ /\ run' = [run EXCEPT ![s] =
                       IF IsCurrent(s) THEN [@ EXCEPT !.stage = "verifying"] ELSE NoRun]
          /\ UNCHANGED <<status, process>>
       \/ Fail(s)
    /\ UNCHANGED <<supported, desired, generation, cache>>

Bound(q, p) == process[q].port = p /\ process[q].life \in {"loading", "serving", "hung"}

(* find_free_port: bound by nobody now; the listener that found it is gone  *)
(* again, so a port handed out a moment ago may be handed out once more.    *)
FreePort(p) == \A q \in Slots : ~ Bound(q, p)

(* Another slot's handle was given this port.                               *)
Given(s, p) == \E q \in Slots \ {s} : process[q].life # "none" /\ process[q].port = p

(* The processes after the one of slot s was spawned on port p.             *)
Spawn(s, p) ==
    [q \in Slots |->
        IF q = s THEN Process("booting", run[s].model, p, Given(s, p))
        ELSE [process[q] EXCEPT !.shared = @ \/ (process[q].life # "none" /\ process[q].port = p)]]

(* Find a port, spawn, store the handle: all of it at once. *)
Launch(s) ==
    \/ \E p \in Ports :
          /\ FreePort(p)
          /\ run' = [run EXCEPT ![s] =
                       IF IsCurrent(s) THEN [@ EXCEPT !.stage = "polling", !.port = p] ELSE NoRun]
          /\ IF IsCurrent(s)
             THEN /\ process' = Spawn(s, p)
                  /\ SetStatus(s, Status("Starting", run[s].model, None))
             ELSE UNCHANGED <<process, status>>
    \/ Fail(s)

(* Mutant: any file of the right size will do. *)
VerifySizeOnly(s) ==
    LET model == run[s].model IN
    /\ run[s].stage = "verifying"
    /\ \/ cache[model] # "absent" /\ Launch(s)
       \/ /\ cache[model] = "absent"
          /\ run' = [run EXCEPT ![s].stage = "downloading"]
          /\ UNCHANGED <<status, process>>
    /\ UNCHANGED <<supported, desired, generation, cache>>

(* verify_cached_model; a file that fails is removed, if that works, and    *)
(* downloaded again.                                                        *)
Verify(s) ==
    LET model == run[s].model IN
    /\ run[s].stage = "verifying"
    /\ \/ cache[model] = "verified" /\ Launch(s) /\ UNCHANGED cache
       \/ /\ cache[model] # "verified"
          /\ cache' \in {cache, [cache EXCEPT ![model] = "absent"]}
          /\ run' = [run EXCEPT ![s].stage = "downloading"]
          /\ UNCHANGED <<status, process>>
       \/ cache[model] # "absent" /\ Fail(s) /\ UNCHANGED cache
    /\ UNCHANGED <<supported, desired, generation>>

(* on_progress. *)
DownloadProgress(s) ==
    /\ run[s].stage = "downloading"
    /\ IsCurrent(s)
    /\ SetStatus(s, Status("Downloading", run[s].model, None))
    /\ UNCHANGED <<supported, desired, generation, run, process, cache>>

(* The partial file is renamed only when its digest matches; by then the    *)
(* last progress was reported.                                              *)
DownloadEnds(s) ==
    /\ run[s].stage = "downloading"
    /\ \/ /\ status[s].state = "Downloading"
          /\ cache' = [cache EXCEPT ![run[s].model] = "verified"]
          /\ Launch(s)
       \/ Fail(s) /\ UNCHANGED cache
    /\ UNCHANGED <<supported, desired, generation>>

(* Mutant: Ready as soon as the process answers at all. *)
PollUntilReadyAnyAnswer(s) ==
    /\ run[s].stage = "polling"
    /\ \E q \in Slots : process[q].port = run[s].port /\ process[q].life \in {"loading", "serving"}
    /\ run' = [run EXCEPT ![s] = NoRun]
    /\ SetStatus(s, Status("Ready", run[s].model, run[s].port))
    /\ UNCHANGED <<supported, desired, generation, process, cache>>

(* health_ready: whoever answers on the port answers. *)
PollUntilReady(s) ==
    /\ run[s].stage = "polling"
    /\ \E q \in Slots : process[q].port = run[s].port /\ process[q].life = "serving"
    /\ run' = [run EXCEPT ![s] = NoRun]
    /\ IF IsCurrent(s) THEN SetStatus(s, Status("Ready", run[s].model, run[s].port))
       ELSE UNCHANGED status
    /\ UNCHANGED <<supported, desired, generation, process, cache>>

(* READINESS_TIMEOUT is looked at between two probes only, and a probe has  *)
(* no timeout of its own: while a server holds the port and does not answer *)
(* the run waits, however long.                                             *)
PollTimeout(s) ==
    /\ run[s].stage = "polling"
    /\ ~ \E q \in Slots : process[q].port = run[s].port /\ process[q].life = "hung"
    /\ Fail(s)
    /\ UNCHANGED <<supported, desired, generation, cache>>

-----------------------------------------------------------------------------
(* The server processes.                                                    *)

Lives(s, life) == process' = [process EXCEPT ![s].life = life]

(* A port can be bound once: the second process exits. *)
Bind(s) ==
    /\ process[s].life = "booting"
    /\ Lives(s, IF \E q \in Slots : Bound(q, process[s].port) THEN "exited" ELSE "loading")
    /\ UNCHANGED <<supported, desired, status, generation, run, cache>>

(* The model is loaded, or does not fit. *)
Load(s) ==
    /\ process[s].life = "loading"
    /\ \E life \in {"serving", "exited"} : Lives(s, life)
    /\ UNCHANGED <<supported, desired, status, generation, run, cache>>

(* A server may crash, or stop answering without closing its port (once it  *)
(* serves, nobody asks it any more).                                        *)
Misbehave(s) ==
    /\ \/ process[s].life = "serving" /\ Lives(s, "crashed")
       \/ process[s].life = "loading" /\ Lives(s, "hung")
    /\ UNCHANGED <<supported, desired, status, generation, run, cache>>

-----------------------------------------------------------------------------
RunStep(s) ==
    \/ Resolve(s) \/ Verify(s) \/ DownloadProgress(s) \/ DownloadEnds(s)
    \/ PollUntilReady(s) \/ PollTimeout(s)

Next ==
    \/ SetManaged \/ EnsureRunning \/ EnsureEmbeddingRunning \/ StopEmbedding
    \/ \E s \in Slots : RunStep(s) \/ Bind(s) \/ Load(s) \/ Misbehave(s)

Spec == Init /\ [][Next]_vars

(* Timers fire and the poll loop is polled; downloads may stall, and nothing *)
(* is assumed of the processes.                                              *)
Fairness == \A s \in Slots : WF_vars(PollUntilReady(s) \/ PollTimeout(s))
FairSpec == Spec /\ Fairness

-----------------------------------------------------------------------------
(* Each slot works with its own catalog only. *)
OwnCatalog ==
    \A s \in Slots :
        {status[s].model, run[s].model, process[s].model} \subseteq Catalog[s] \cup {None}

VariableTypes ==
    /\ supported \in BOOLEAN
    /\ desired \in Ids \cup {None}
    /\ status \in [Slots -> Statuses]
    /\ generation \in [Slots -> 0 .. MaxGeneration]
    /\ run \in [Slots -> Runs]
    /\ process \in [Slots -> Processes]
    /\ cache \in [Models -> {"absent", "corrupt", "verified"}]

(* Every variable has its type, and no slot shows, prepares or runs a model *)
(* of the other slot's catalog.                                             *)
TypeOK == VariableTypes /\ OwnCatalog

(* "Server is up and serving on `port`": the process in a Ready slot has    *)
(* this model and this port and serves, or did and crashed since, which     *)
(* nobody looks for.  The one exception is a port that both slots were      *)
(* given before either server had bound it.                                 *)
ReadyServes ==
    \A s \in Slots : status[s].state = "Ready" =>
        /\ process[s].model = status[s].model
        /\ process[s].port = status[s].port
        /\ process[s].life \in {"serving", "crashed"} \/ process[s].shared

(* start() with an id that is not in the catalog leaves the run and the     *)
(* server of the model before it as they are.                               *)
Misnamed(s) == s = "chat" /\ desired \in Unknown

(* The chat slot never works on, or serves, a model other than the one the  *)
(* user wants now: whatever was superseded stays quiet.                     *)
DesiredFollowed ==
    status["chat"].state \in {"Downloading", "Starting", "Ready"} /\ ~ Misnamed("chat") =>
        status["chat"].model = desired

(* A server runs only in a slot that says so: no failure and no stop leaves *)
(* one behind.                                                              *)
NoStrayServer ==
    \A s \in Slots : process[s].life # "none" /\ ~ Misnamed(s) =>
        status[s].state \in {"Starting", "Ready"}

(* A server only ever gets a model file that passed its checksum. *)
LaunchedVerified ==
    \A s \in Slots : process[s].life # "none" => cache[process[s].model] = "verified"

-----------------------------------------------------------------------------
(* What comments say and the code does not do.                              *)

(* "if another process steals the port, the server fails to start and the   *)
(* error surfaces through the readiness poll": a slot whose server ended    *)
(* before it served is not Ready.                                           *)
StolenPortSurfaces ==
    \A s \in Slots : process[s].life = "exited" => status[s].state # "Ready"

(* "How long to wait for a freshly spawned server to answer `/health`       *)
(* before giving up": Starting comes to an end.                             *)
StartingSettles ==
    \A s \in Slots : status[s].state = "Starting" ~> status[s].state # "Starting"

(* The same with ids that no catalog has. *)
DesiredFollowedAlways ==
    status["chat"].state \in {"Downloading", "Starting", "Ready"} =>
        status["chat"].model = desired
=============================================================================
