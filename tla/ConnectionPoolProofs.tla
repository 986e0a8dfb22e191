------------------------ MODULE ConnectionPoolProofs ------------------------
(***************************************************************************)
(* The pool for any number of windows, attempts and faults: a connecting   *)
(* task ends on its own entry, and there is one connection.                *)
(***************************************************************************)
EXTENDS ConnectionPool, FiniteSetTheorems, TLAPS

(* Somebody waits for every task that still runs. *)
RunningHeld == \A i \in Ids : task[i] = "running" => Held(i)

(* Only a waiting client has a clone of a task. *)
OnlyWaitingHold == \A c \in Clients : client[c].task # None => client[c].step = "waiting"

(* A connection in use that nobody killed is the one the pool knows. *)
InUse(i) == Referenced(i) /\ link[i] \in {"up", "down"}
InUsePooled == \A i \in Ids : InUse(i) => entry = Entry("Connected", i)

(* The inductive invariant. *)
Inv == TypeOK /\ TaskOwnsEntry /\ RunningHeld /\ OnlyWaitingHold /\ InUsePooled

(* Two numbers per client never use up all of them. *)
LEMMA FreeExists ==
  ASSUME TypeOK
  PROVE  NextId \in Ids /\ NextId \in Free
  <1> DEFINE T == {client[c].task : c \in Clients}
             L == {client[c].link : c \in Clients}
             n == Cardinality(Clients)
  <1>1. IsFiniteSet(Clients) /\ n \in Nat
    BY ClientsAssumption, FS_CardinalityType
  <1>2. IsFiniteSet(T) /\ Cardinality(T) <= n
    <2> DEFINE f == [c \in Clients |-> client[c].task]
    <2>1. f \in Surjection(Clients, T)
      BY DEF Surjection
    <2> HIDE DEF f
    <2> QED
      BY <1>1, <2>1, FS_Surjection
  <1>3. IsFiniteSet(L) /\ Cardinality(L) <= n
    <2> DEFINE f == [c \in Clients |-> client[c].link]
    <2>1. f \in Surjection(Clients, L)
      BY DEF Surjection
    <2> HIDE DEF f
    <2> QED
      BY <1>1, <2>1, FS_Surjection
  <1>4. IsFiniteSet(T \cup L) /\ Cardinality(T \cup L) <= 2 * n
    <2>1. /\ IsFiniteSet(T \cup L) /\ IsFiniteSet(T \cap L)
          /\ Cardinality(T \cup L) = Cardinality(T) + Cardinality(L) - Cardinality(T \cap L)
      BY <1>2, <1>3, FS_Union, FS_Intersection
    <2>2. Cardinality(T) \in Nat /\ Cardinality(L) \in Nat /\ Cardinality(T \cap L) \in Nat
      BY <1>2, <1>3, <2>1, FS_CardinalityType
    <2> QED
      BY <1>1, <1>2, <1>3, <2>1, <2>2
  <1>5. IsFiniteSet(Ids) /\ Cardinality(Ids) = 2 * n + 1
    <2>1. 2 * n + 1 \in Int /\ 1 <= 2 * n + 1
      BY <1>1
    <2> QED
      BY <1>1, <2>1, FS_Interval DEF Ids
  <1>6. ~ (Ids \subseteq T \cup L)
    <2> SUFFICES ASSUME Ids \subseteq T \cup L PROVE FALSE
      OBVIOUS
    <2>1. Cardinality(Ids) <= Cardinality(T \cup L)
      BY <1>4, FS_Subset
    <2>2. Cardinality(T \cup L) \in Nat
      BY <1>4, FS_CardinalityType
    <2> QED
      BY <1>1, <1>4, <1>5, <2>1, <2>2
  <1>7. Free # {}
    <2>1. PICK i \in Ids : i \notin T \cup L
      BY <1>6
    <2>2. i \in Free
      BY <2>1 DEF Free
    <2> QED
      BY <2>2
  <1>8. NextId \in Free
    BY <1>7 DEF NextId
  <1> QED
    BY <1>8 DEF Free

(* Nothing is running, held or in use before the first window opens. *)
LEMMA InvInit == Init => Inv
  <1> SUFFICES ASSUME Init PROVE Inv
    OBVIOUS
  <1>1. TypeOK
    BY BoundsAssumption DEF Init, TypeOK, Entries, NoEntry, Entry, Records, Steps, Closed, None
  <1>2. TaskOwnsEntry /\ RunningHeld /\ InUsePooled
    BY DEF Init, TaskOwnsEntry, RunningHeld, InUsePooled, InUse
  <1>3. OnlyWaitingHold
    BY DEF Init, OnlyWaitingHold, Closed
  <1> QED
    BY <1>1, <1>2, <1>3 DEF Inv

(* What connect does to the caller, who holds no task: it waits for one,    *)
(* and nothing else of it changes.                                          *)
LEMMA PoolConnectInv ==
  ASSUME Inv, NEW c \in Clients, client[c].task = None, PoolConnect(c), UNCHANGED faults
  PROVE  Inv'
  <1> USE DEF Inv
  <1>1. entry \in Entries /\ None \notin Ids
    BY DEF TypeOK, None, Ids
  <1>2. CASE Join(c) \/ Reuse(c)
    <2>1. entry.id \in Ids \cup {None}
      BY <1>1 DEF Entries
    <2>2. /\ client' = [client EXCEPT ![c] = [@ EXCEPT !.step = "waiting", !.task = entry.id]]
          /\ UNCHANGED <<entry, task, link>>
      BY <1>2 DEF Join, Reuse
    <2>3. \/ entry.kind = "Connecting" /\ Held(entry.id)
          \/ entry.kind = "Connected" /\ Referenced(entry.id) /\ link[entry.id] # "killed"
      BY <1>2 DEF Join, Reuse, has_active_connection
    <2> DEFINE r == [client[c] EXCEPT !.step = "waiting", !.task = entry.id]
    <2>4. client' = [client EXCEPT ![c] = r]
      BY <2>2
    <2>5. client[c] \in Records /\ r \in Records /\ r.link = client[c].link
          /\ r.task = entry.id /\ r.step = "waiting"
      BY <2>1 DEF TypeOK, Records, Steps
    <2> HIDE DEF r
    <2>6. /\ client'[c] = r /\ client' \in [Clients -> Records]
          /\ \A d \in Clients \ {c} : client'[d] = client[d]
      BY <2>4, <2>5 DEF TypeOK
    <2>7. TypeOK'
      BY <2>2, <2>6 DEF TypeOK
    <2>13. \A i \in Ids : Held(i) => Held(i)'
      BY <1>1, <2>6 DEF Held
    <2>14. \A i \in Ids : i # entry.id /\ Held(i)' => Held(i)
      BY <2>5, <2>6 DEF Held
    <2>8. TaskOwnsEntry'
      BY <2>2 DEF TaskOwnsEntry
    <2>9. RunningHeld'
      BY <2>2, <2>13 DEF RunningHeld
    <2>10. OnlyWaitingHold'
      BY <2>5, <2>6 DEF OnlyWaitingHold
    <2>11. InUsePooled'
      <3> SUFFICES ASSUME NEW i \in Ids, InUse(i)' PROVE entry = Entry("Connected", i)
        BY <2>2 DEF InUsePooled
      <3>1. link[i] \in {"up", "down"}
        BY <2>2 DEF InUse
      <3>2. CASE Referenced(i)
        BY <3>1, <3>2 DEF InUsePooled, InUse
      <3>3. CASE ~ Referenced(i)
        <4>1. Held(i)' /\ task[i] = "ok" /\ ~ Held(i)
          BY <2>2, <2>5, <2>6, <3>3 DEF InUse, Referenced
        <4>2. i = entry.id
          BY <2>14, <4>1
        <4>3. entry.kind = "Connected" /\ Referenced(entry.id)
          BY <2>3, <4>1, <4>2
        <4> QED
          BY <3>3, <4>2, <4>3
      <3> QED
        BY <3>2, <3>3
    <2> QED
      BY <2>7, <2>8, <2>9, <2>10, <2>11
  <1>3. CASE StartFresh(c)
    <2> DEFINE k == NextId
    <2>1. k \in Ids /\ k \in Free
      BY FreeExists
    <2>2. /\ entry' = Entry("Connecting", k)
          /\ task' = [task EXCEPT ![k] = "running"]
          /\ link' = [link EXCEPT ![k] = "none"]
          /\ client' = [client EXCEPT ![c] = [@ EXCEPT !.step = "waiting", !.task = k]]
          /\ ~ has_active_connection
          /\ ~ (entry.kind = "Connecting" /\ Held(entry.id))
      BY <1>3 DEF StartFresh
    <2> HIDE DEF k
    <2>3. \A d \in Clients : client[d].task # k /\ client[d].link # k
      BY <2>1 DEF Free
    <2> DEFINE r == [client[c] EXCEPT !.step = "waiting", !.task = k]
    <2>4. client' = [client EXCEPT ![c] = r]
      BY <2>2
    <2>5. client[c] \in Records /\ r \in Records /\ r.link = client[c].link
          /\ r.task = k /\ r.step = "waiting"
      BY <2>1 DEF TypeOK, Records, Steps
    <2> HIDE DEF r
    <2>11. /\ client'[c] = r /\ client' \in [Clients -> Records]
           /\ \A d \in Clients \ {c} : client'[d] = client[d]
      BY <2>4, <2>5 DEF TypeOK
    <2>12. TypeOK'
      BY <2>1, <2>2, <2>11 DEF TypeOK, Entries, Entry
    <2>6. \A i \in Ids : task[i] # "running"
      BY <2>2 DEF TaskOwnsEntry, RunningHeld, Entry
    <2>7. TaskOwnsEntry'
      BY <2>1, <2>2, <2>6 DEF TaskOwnsEntry, TypeOK
    <2>8. RunningHeld'
      BY <2>1, <2>2, <2>5, <2>6, <2>11 DEF RunningHeld, Held, TypeOK
    <2>9. OnlyWaitingHold'
      BY <2>5, <2>11 DEF OnlyWaitingHold
    <2>10. InUsePooled'
      <3> SUFFICES ASSUME NEW i \in Ids, InUse(i)' PROVE FALSE
        BY DEF InUsePooled
      <3>1. i # k
        BY <2>1, <2>2 DEF InUse, TypeOK
      <3>2. link[i] \in {"up", "down"} /\ task'[i] = task[i]
        BY <2>1, <2>2, <3>1 DEF InUse, TypeOK
      <3>3. Referenced(i)
        BY <2>5, <2>11, <3>1, <3>2 DEF InUse, Referenced, Held
      <3>4. entry = Entry("Connected", i)
        BY <3>2, <3>3 DEF InUsePooled, InUse
      <3> QED
        BY <2>2, <3>2, <3>3, <3>4 DEF has_active_connection, Entry
    <2> QED
      BY <2>7, <2>8, <2>9, <2>10, <2>12
  <1> QED
    BY <1>2, <1>3 DEF PoolConnect

(* A client goes on, as r says: it may let go of a task that has ended,     *)
(* keep the connection the task made, and kill or lose a connection.        *)
LEMMA ClientGoesOn ==
  ASSUME Inv, NEW c \in Clients, NEW r \in Records,
         client' = [client EXCEPT ![c] = r],
         entry' = entry, task' = task, faults' \in 0..MaxFaults,
         link' \in [Ids -> {"none", "up", "down", "killed"}],
         \A i \in Ids : link'[i] \in {"up", "down"} => link[i] \in {"up", "down"},
         r.task # None => r.step = "waiting",
         \/ r.task = client[c].task
         \/ r.task = None /\ task[client[c].task] # "running",
         \/ r.link \in {client[c].link, None}
         \/ r.link = client[c].task /\ task[client[c].task] = "ok"
  PROVE  Inv'
  <1> USE DEF Inv
  <1>1. /\ client'[c] = r /\ client' \in [Clients -> Records]
        /\ \A d \in Clients \ {c} : client'[d] = client[d]
    BY DEF TypeOK
  <1>2. None \notin Ids
    BY DEF None, Ids
  <1>3. TypeOK'
    BY <1>1 DEF TypeOK
  <1>4. TaskOwnsEntry'
    BY DEF TaskOwnsEntry
  <1>5. RunningHeld'
    BY <1>1, <1>2 DEF RunningHeld, Held
  <1>6. OnlyWaitingHold'
    BY <1>1 DEF OnlyWaitingHold
  <1>7. InUsePooled'
    <2> SUFFICES ASSUME NEW i \in Ids, InUse(i)' PROVE InUse(i)
      BY DEF InUsePooled
    <2>1. Referenced(i)
      BY <1>1, <1>2 DEF InUse, Referenced, Held
    <2> QED
      BY <2>1 DEF InUse
  <1> QED
    BY <1>3, <1>4, <1>5, <1>6, <1>7

(* What the client's record becomes when it starts a reconnect, or fails. *)
LEMMA ReconnectRecords ==
  ASSUME Inv, NEW c \in Clients
  PROVE  \A r \in {Reconnecting(c), Closed} :
            /\ r \in Records /\ r.task = None /\ r.link \in {client[c].link, None}
  <1>1. client[c] \in Records
    BY DEF Inv, TypeOK
  <1>2. Closed \in Records /\ Closed.task = None /\ Closed.link = None
    BY DEF Closed, Records, Steps
  <1>3. CASE client[c].attempts + 1 > MaxAttempts
    BY <1>1, <1>2, <1>3 DEF Reconnecting, Closed, Records, Steps
  <1>4. CASE ~ (client[c].attempts + 1 > MaxAttempts)
    <2> DEFINE r == [client[c] EXCEPT !.step = "killing", !.task = None,
                                      !.attempts = client[c].attempts + 1]
    <2>1. client[c].attempts + 1 \in Nat
      BY <1>1 DEF Records
    <2>2. r \in Records /\ r.task = None /\ r.link = client[c].link
      BY <1>1, <2>1 DEF Records, Steps
    <2>3. Reconnecting(c) = r
      BY <1>4 DEF Reconnecting
    <2> HIDE DEF r
    <2> QED
      BY <1>2, <2>2, <2>3
  <1> QED
    BY <1>3, <1>4

(* The steps of a client. *)
LEMMA ClientStepInv ==
  ASSUME Inv, NEW c \in Clients, ClientStep(c)
  PROVE  Inv'
  <1>1. CASE TakeResult(c)
    <2> DEFINE t == client[c].task
    <2>1. client[c] \in Records /\ faults \in 0..MaxFaults
          /\ link \in [Ids -> {"none", "up", "down", "killed"}]
      BY DEF Inv, TypeOK
    <2>2. CASE task[t] = "ok" /\ client' = [client EXCEPT ![c] = [@ EXCEPT !.step = "proxying",
                                          !.link = t, !.task = None]]
      <3> DEFINE r == [client[c] EXCEPT !.step = "proxying", !.link = t, !.task = None]
      <3>1. r \in Records /\ r.task = None /\ r.link = t
        BY <2>1 DEF Records, Steps
      <3>2. client' = [client EXCEPT ![c] = r]
        BY <2>2
      <3> HIDE DEF r
      <3> QED
        BY <1>1, <2>1, <2>2, <3>1, <3>2, ClientGoesOn DEF TakeResult
    <2>3. CASE task[t] = "failed"
               /\ \E after \in AfterFailure(c) : client' = [client EXCEPT ![c] = after]
      <3>1. PICK r \in {Reconnecting(c), Closed} : client' = [client EXCEPT ![c] = r]
        BY <2>3 DEF AfterFailure
      <3>2. r \in Records /\ r.task = None /\ r.link \in {client[c].link, None}
        BY ReconnectRecords
      <3> QED
        BY <1>1, <2>1, <2>3, <3>1, <3>2, ClientGoesOn DEF TakeResult
    <2> QED
      BY <1>1, <2>2, <2>3 DEF TakeResult
  <1>2. CASE Handshake(c)
    <2> DEFINE r == [client[c] EXCEPT !.step = "connected", !.attempts = 0]
    <2>1. client[c] \in Records /\ faults \in 0..MaxFaults
          /\ link \in [Ids -> {"none", "up", "down", "killed"}]
      BY DEF Inv, TypeOK
    <2>2. client[c].task = None
      BY <1>2 DEF Handshake, Inv, OnlyWaitingHold
    <2>3. r \in Records /\ r.task = None /\ r.link = client[c].link
      BY <2>1, <2>2 DEF Records, Steps
    <2>4. client' = [client EXCEPT ![c] = r]
      BY <1>2 DEF Handshake
    <2> HIDE DEF r
    <2> QED
      BY <1>2, <2>1, <2>2, <2>3, <2>4, ClientGoesOn DEF Handshake
  <1>3. CASE HandshakeFails(c) \/ LoseConnection(c)
    <2>1. PICK r \in {Reconnecting(c), Closed} : client' = [client EXCEPT ![c] = r]
      BY <1>3 DEF HandshakeFails, LoseConnection, AfterFailure
    <2>2. client[c].task = None /\ entry' = entry /\ task' = task /\ link' = link
      BY <1>3 DEF HandshakeFails, LoseConnection, Inv, OnlyWaitingHold
    <2>3. faults' \in 0..MaxFaults /\ link \in [Ids -> {"none", "up", "down", "killed"}]
      BY <1>3, BoundsAssumption DEF HandshakeFails, LoseConnection, Inv, TypeOK
    <2>4. r \in Records /\ r.task = None /\ r.link \in {client[c].link, None}
      BY ReconnectRecords
    <2> QED
      BY <2>1, <2>2, <2>3, <2>4, ClientGoesOn
  <1>4. CASE Kill(c)
    <2>1. client[c] \in Records /\ client[c].task = None /\ client[c].step # "waiting"
      BY <1>4 DEF Kill, Inv, TypeOK, OnlyWaitingHold
    <2>2. faults' \in 0..MaxFaults /\ entry' = entry /\ task' = task
      BY <1>4, BoundsAssumption DEF Kill, Inv, TypeOK
    <2>3. /\ link' \in [Ids -> {"none", "up", "down", "killed"}]
          /\ \A i \in Ids : link'[i] \in {"up", "down"} => link[i] \in {"up", "down"}
      BY <1>4 DEF Kill, Inv, TypeOK
    <2> DEFINE r == [client[c] EXCEPT !.step = "killed"]
    <2>4. r \in Records /\ r.task = None /\ r.link = client[c].link
      BY <2>1 DEF Records, Steps
    <2>5. \/ client' = [client EXCEPT ![c] = r]
          \/ \E s \in {Reconnecting(c), Closed} : client' = [client EXCEPT ![c] = s]
      BY <1>4 DEF Kill, AfterFailure
    <2> HIDE DEF r
    <2>6. CASE client' = [client EXCEPT ![c] = r]
      BY <2>1, <2>2, <2>3, <2>4, <2>6, ClientGoesOn
    <2>7. CASE \E s \in {Reconnecting(c), Closed} : client' = [client EXCEPT ![c] = s]
      <3>1. PICK s \in {Reconnecting(c), Closed} : client' = [client EXCEPT ![c] = s]
        BY <2>7
      <3>2. s \in Records /\ s.task = None /\ s.link \in {client[c].link, None}
        BY ReconnectRecords
      <3> QED
        BY <2>1, <2>2, <2>3, <3>1, <3>2, ClientGoesOn
    <2> QED
      BY <2>5, <2>6, <2>7
  <1>5. CASE ConnectAgain(c)
    BY <1>5, PoolConnectInv DEF ConnectAgain, Inv, OnlyWaitingHold
  <1> QED
    BY <1>1, <1>2, <1>3, <1>4, <1>5 DEF ClientStep

(* Closing a window drops its clone, and a running task with the last one. *)
LEMMA CloseInv ==
  ASSUME Inv, NEW c \in Clients, Close(c)
  PROVE  Inv'
  <1> USE DEF Inv
  <1>1. /\ client'[c] = Closed /\ client' \in [Clients -> Records]
        /\ \A d \in Clients \ {c} : client'[d] = client[d]
    BY DEF Close, TypeOK, Closed, Records, Steps
  <1>2. entry' = entry /\ link' = link /\ faults' = faults
    BY DEF Close
  <1>3. \A i \in Ids :
          /\ task'[i] \in {task[i], "dropped"}
          /\ task'[i] = "running" => \E d \in Clients \ {c} : client[d].task = i
    BY DEF Close
  <1>4. TypeOK'
    <2>1. task' \in [Ids -> {"unborn", "running", "dropped", "ok", "failed"}]
      BY DEF Close, TypeOK
    <2> QED
      BY <1>1, <1>2, <2>1 DEF TypeOK
  <1>5. TaskOwnsEntry' /\ RunningHeld'
    BY <1>1, <1>2, <1>3 DEF TaskOwnsEntry, RunningHeld, Held
  <1>6. OnlyWaitingHold'
    BY <1>1 DEF OnlyWaitingHold, Closed
  <1>7. InUsePooled'
    <2> SUFFICES ASSUME NEW i \in Ids, InUse(i)' PROVE InUse(i)
      BY <1>2 DEF InUsePooled
    <2>1. Closed.link # i /\ Closed.task # i
      BY DEF Closed, None, Ids
    <2>2. Referenced(i)
      BY <1>1, <1>3, <2>1 DEF InUse, Referenced, Held
    <2> QED
      BY <1>2, <2>2 DEF InUse
  <1> QED
    BY <1>4, <1>5, <1>6, <1>7

(* The connecting task ends on its own entry; a link drops. *)
LEMMA TaskInv ==
  ASSUME Inv, NEW i \in Ids, TaskConnects(i) \/ TaskFails(i) \/ LinkDrops(i)
  PROVE  Inv'
  <1> USE DEF Inv
  <1>1. OnlyWaitingHold' /\ \A j \in Ids : Held(j)' <=> Held(j)
    BY DEF TaskConnects, TaskFails, LinkDrops, OnlyWaitingHold, Held
  <1>2. TypeOK'
    BY BoundsAssumption DEF TaskConnects, TaskFails, LinkDrops, TypeOK, Entries, Entry, NoEntry
  <1>3. CASE LinkDrops(i)
    <2>1. \A j \in Ids : InUse(j)' => InUse(j)
      BY <1>1, <1>3 DEF LinkDrops, InUse, Referenced, TypeOK
    <2> QED
      BY <1>1, <1>2, <1>3, <2>1 DEF LinkDrops, TaskOwnsEntry, RunningHeld, InUsePooled
  <1>4. CASE TaskConnects(i) \/ TaskFails(i)
    <2>1. entry = Entry("Connecting", i)
      BY <1>4 DEF TaskConnects, TaskFails, TaskOwnsEntry
    <2>2. \A j \in Ids : ~ InUse(j)
      BY <2>1 DEF InUsePooled, Entry
    <2>3. \A j \in Ids : task[j] = "running" => j = i
      BY <2>1 DEF TaskOwnsEntry, Entry
    <2>4. \A j \in Ids : task'[j] # "running"
      BY <1>4, <2>3 DEF TaskConnects, TaskFails, TypeOK
    <2>5. \A j \in Ids \ {i} : ~ InUse(j)'
      BY <1>1, <1>4, <2>2 DEF TaskConnects, TaskFails, InUse, Referenced, TypeOK
    <2>6. InUse(i)' => TaskConnects(i)
      <3> SUFFICES ASSUME InUse(i)', TaskFails(i) PROVE FALSE
        BY <1>4
      <3>1. Referenced(i)
        BY DEF TaskFails, InUse, Referenced, TypeOK
      <3> QED
        BY <2>2, <3>1 DEF TaskFails, InUse
    <2>7. InUsePooled'
      BY <2>5, <2>6 DEF InUsePooled, TaskConnects
    <2> QED
      BY <1>1, <1>2, <2>4, <2>7 DEF TaskOwnsEntry, RunningHeld
  <1> QED
    BY <1>3, <1>4

(* Every step preserves the invariant. *)
LEMMA InvStep == Inv /\ [Next]_vars => Inv'
  <1> SUFFICES ASSUME Inv, [Next]_vars PROVE Inv'
    OBVIOUS
  <1>1. ASSUME NEW c \in Clients, Open(c) PROVE Inv'
    BY <1>1, PoolConnectInv DEF Open, Inv, OnlyWaitingHold
  <1>2. CASE UNCHANGED vars
    BY <1>2 DEF vars, Inv, TypeOK, TaskOwnsEntry, RunningHeld, OnlyWaitingHold, InUsePooled,
       InUse, Referenced, Held
  <1> QED
    BY <1>1, <1>2, TaskInv, ClientStepInv, CloseInv DEF Next

(* Type correctness, for any number of clients, attempts and faults. *)
THEOREM TypeCorrect == Spec => []TypeOK
  <1>1. Inv => TypeOK
    BY DEF Inv
  <1> QED
    BY InvInit, InvStep, <1>1, PTL DEF Spec

(* The debug_assert of the connecting task never fails. *)
THEOREM TaskOwnsEntryCorrect == Spec => []TaskOwnsEntry
  <1>1. Inv => TaskOwnsEntry
    BY DEF Inv
  <1> QED
    BY InvInit, InvStep, <1>1, PTL DEF Spec

(* However many windows open, close, cancel, kill and reconnect, they never *)
(* have two connections to the host that are not killed.                    *)
THEOREM OneConnectionCorrect == Spec => []OneConnection
  <1>1. Inv => OneConnection
    BY DEF Inv, InUsePooled, InUse, OneConnection, Entry
  <1> QED
    BY InvInit, InvStep, <1>1, PTL DEF Spec
=============================================================================
