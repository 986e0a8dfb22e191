------------------------- MODULE RemoteServerProofs -------------------------
(***************************************************************************)
(* Theorems about RemoteServer, for any number of proxies and crashes.     *)
(***************************************************************************)
EXTENDS RemoteServer, TLAPS

(* A proxy that has not started its daemon yet, or is not connected yet.   *)
BeforeSpawn == {"unborn", "reading", "looking", "killing", "cleaning", "spawning"}
BeforeConnect == BeforeSpawn \cup {"waiting", "naming"}

-----------------------------------------------------------------------------
(* Types, with or without overlapping starts.                              *)

(* A daemon's record is untouched until its proxy spawns it.               *)
NotYetBorn ==
    \A p \in Proxies : proxy[p].step \in BeforeSpawn =>
        /\ daemon[p].life \in {"unborn", "dead"}
        /\ daemon[p].bound = 0
        /\ daemon[p].held = NoSockets
        /\ daemon[p].backlog = [s \in Sockets |-> <<>>]

(* A daemon that is coming up has a socket left to bind.                   *)
BindsLeft ==
    \A d \in Daemons : daemon[d].life \in {"started", "named"} => daemon[d].bound \in 0..2

(* Only a proxy that has ended has an exit code.                           *)
NoCode == \A p \in Proxies : proxy[p].step # "ended" => proxy[p].exit = 0

(* What the types need to be inductive.                                    *)
TypeInv == TypeOK /\ NotYetBorn /\ BindsLeft /\ NoCode

(* The process table has the same numbers on both sides. *)
LEMMA SameNumbers == Proxies = Daemons /\ Nobody \notin Proxies /\ Closed \notin Proxies
  BY BoundsAssumption DEF Proxies, Daemons, Nobody, Closed

(* The fields of the two records. *)
LEMMA DaemonFields ==
  ASSUME NEW r \in DaemonType
  PROVE  /\ r.life \in Lives /\ r.bound \in 0..3
         /\ r.backlog \in [Sockets -> Seq(Proxies)]
         /\ r.held \in [Sockets -> Proxies \cup {Nobody}]
  BY DEF DaemonType

LEMMA ProxyFields ==
  ASSUME NEW r \in ProxyType
  PROVE  /\ r.reconnecting \in BOOLEAN /\ r.step \in Steps
         /\ r.seen \in Daemons \cup {Nobody} /\ r.child \in Daemons \cup {Nobody}
         /\ r.stream \in [Sockets -> Daemons \cup {Nobody, Closed}]
         /\ r.joined \in BOOLEAN /\ r.exit \in {0, 1, 9, 90}
  BY DEF ProxyType

(* A dead daemon. *)
LEMMA GoneRecord ==
  ASSUME NEW r \in DaemonType
  PROVE  /\ Gone(r) \in DaemonType
         /\ Gone(r).life = "dead" /\ Gone(r).bound = 0 /\ Gone(r).held = NoSockets
         /\ Gone(r).backlog = [s \in Sockets |-> <<>>]
  <1> DEFINE empty == [s \in Sockets |-> <<>>]
  <1>1. NoSockets \in [Sockets -> Proxies \cup {Nobody}]
    BY DEF NoSockets
  <1>2. empty \in [Sockets -> Seq(Proxies)]
    OBVIOUS
  <1>3. Gone(r) = [r EXCEPT !.life = "dead", !.bound = 0, !.backlog = empty, !.held = NoSockets]
    BY DEF Gone
  <1> HIDE DEF empty
  <1>4. Gone(r) = [life |-> "dead", bound |-> 0, backlog |-> empty, held |-> NoSockets]
    BY <1>3 DEF DaemonType
  <1>5. Gone(r) \in DaemonType
    BY <1>1, <1>2, <1>4 DEF DaemonType, Lives
  <1> QED
    BY <1>4, <1>5 DEF empty

-----------------------------------------------------------------------------
(* The steps that touch one record, whatever the rest of the state.        *)

(* One daemon goes on as r. *)
LEMMA OneDaemon ==
  ASSUME TypeInv, NEW d \in Daemons, NEW r \in DaemonType,
         daemon' = [daemon EXCEPT ![d] = r], proxy' = proxy,
         pidFile' \in Daemons \cup {Nobody}, sock' \in [Sockets -> Daemons \cup {Nobody}],
         crashes' \in 0..MaxCrashes,
         r.life \in {"started", "named"} => r.bound \in 0..2,
         \/ daemon[d].life \notin {"unborn", "dead"}
         \/ /\ r.life \in {"unborn", "dead"} /\ r.bound = 0 /\ r.held = NoSockets
            /\ r.backlog = [s \in Sockets |-> <<>>]
  PROVE  TypeInv'
  <1>1. daemon \in [Daemons -> DaemonType] /\ proxy \in [Proxies -> ProxyType]
    BY DEF TypeInv, TypeOK
  <1>2. daemon' \in [Daemons -> DaemonType]
        /\ \A e \in Daemons : daemon'[e] = IF e = d THEN r ELSE daemon[e]
    BY <1>1
  <1>3. TypeOK'
    BY <1>1, <1>2 DEF TypeInv, TypeOK
  <1>4. NotYetBorn'
    BY <1>2, SameNumbers DEF TypeInv, NotYetBorn, NoSockets
  <1>5. BindsLeft'
    BY <1>2 DEF TypeInv, BindsLeft
  <1>6. NoCode'
    BY DEF TypeInv, NoCode
  <1> QED
    BY <1>3, <1>4, <1>5, <1>6 DEF TypeInv

(* One proxy goes on as r. *)
LEMMA OneProxy ==
  ASSUME TypeInv, NEW p \in Proxies, NEW r \in ProxyType,
         proxy' = [proxy EXCEPT ![p] = r], daemon' = daemon,
         pidFile' \in Daemons \cup {Nobody}, sock' \in [Sockets -> Daemons \cup {Nobody}],
         crashes' \in 0..MaxCrashes,
         r.step \in BeforeSpawn => proxy[p].step \in BeforeSpawn,
         r.step # "ended" => r.exit = 0
  PROVE  TypeInv'
  <1>1. daemon \in [Daemons -> DaemonType] /\ proxy \in [Proxies -> ProxyType]
    BY DEF TypeInv, TypeOK
  <1>2. proxy' \in [Proxies -> ProxyType]
        /\ \A q \in Proxies : proxy'[q] = IF q = p THEN r ELSE proxy[q]
    BY <1>1
  <1>3. TypeOK'
    BY <1>1, <1>2 DEF TypeInv, TypeOK
  <1>4. NotYetBorn'
    BY <1>2 DEF TypeInv, NotYetBorn, NoSockets
  <1>5. BindsLeft'
    BY DEF TypeInv, BindsLeft
  <1>6. NoCode'
    BY <1>2 DEF TypeInv, NoCode
  <1> QED
    BY <1>3, <1>4, <1>5, <1>6 DEF TypeInv

(* A daemon dies. *)
LEMMA DeathType ==
  ASSUME TypeInv, NEW d \in Daemons, daemon' = [daemon EXCEPT ![d] = Gone(@)],
         UNCHANGED <<pidFile, sock, proxy>>, crashes' \in 0..MaxCrashes
  PROVE  TypeInv'
  <1>1. daemon[d] \in DaemonType
    BY DEF TypeInv, TypeOK
  <1> QED
    BY <1>1, GoneRecord, OneDaemon DEF TypeInv, TypeOK

(* A proxy ends. *)
LEMMA ExitType ==
  ASSUME TypeInv, NEW p \in Proxies, NEW code \in {1, 9, 90}, Exit(p, code),
         UNCHANGED <<sock, daemon, crashes>>, pidFile' \in Daemons \cup {Nobody}
  PROVE  TypeInv'
  <1> DEFINE r == [proxy[p] EXCEPT !.step = "ended", !.exit = code, !.seen = Nobody,
                                   !.child = Nobody, !.stream = NoSockets]
  <1>1. proxy[p] \in ProxyType
    BY DEF TypeInv, TypeOK
  <1>2. NoSockets \in [Sockets -> Daemons \cup {Nobody, Closed}]
    BY DEF NoSockets
  <1>3. r \in ProxyType /\ r.step = "ended"
    BY <1>1, <1>2 DEF ProxyType, Steps
  <1>4. proxy' = [proxy EXCEPT ![p] = r]
    BY DEF Exit
  <1> HIDE DEF r
  <1> QED
    BY <1>3, <1>4, OneProxy DEF TypeInv, TypeOK, BeforeSpawn

(* A proxy goes on to another step. *)
LEMMA GotoType ==
  ASSUME TypeInv, NEW p \in Proxies, NEW step \in Steps \ {"ended"}, Goto(p, step),
         proxy[p].step # "ended",
         step \in BeforeSpawn => proxy[p].step \in BeforeSpawn,
         UNCHANGED <<daemon, crashes>>, pidFile' \in Daemons \cup {Nobody},
         sock' \in [Sockets -> Daemons \cup {Nobody}]
  PROVE  TypeInv'
  <1> DEFINE r == [proxy[p] EXCEPT !.step = step]
  <1>1. proxy[p] \in ProxyType /\ proxy[p].exit = 0
    BY DEF TypeInv, TypeOK, NoCode
  <1>2. r \in ProxyType /\ r.step = step /\ r.exit = 0
    BY <1>1 DEF ProxyType
  <1>3. proxy' = [proxy EXCEPT ![p] = r]
    BY DEF Goto
  <1> HIDE DEF r
  <1> QED
    BY <1>2, <1>3, OneProxy DEF TypeInv, TypeOK

(* No server was found. *)
LEMMA NotRunningType ==
  ASSUME TypeInv, NEW p \in Proxies, NotRunning(p), proxy[p].step \in BeforeSpawn,
         UNCHANGED <<sock, daemon, crashes>>, pidFile' \in Daemons \cup {Nobody}
  PROVE  TypeInv'
  <1>1. CASE Exit(p, 90)
    BY <1>1, ExitType
  <1>2. CASE Goto(p, "spawning")
    <2>1. "spawning" \in Steps \ {"ended"} /\ proxy[p].step # "ended"
      BY DEF Steps, BeforeSpawn
    <2> QED
      BY <1>2, <2>1, GotoType DEF TypeInv, TypeOK
  <1> QED
    BY <1>1, <1>2 DEF NotRunning

(* Every step of a daemon keeps the types. *)
LEMMA DaemonTypeStep ==
  ASSUME TypeInv, NEW d \in Daemons,
         DaemonStep(d) \/ IdleExit(d) \/ Quit(d) \/ Crash(d)
  PROVE  TypeInv'
  <1>0. /\ pidFile \in Daemons \cup {Nobody} /\ sock \in [Sockets -> Daemons \cup {Nobody}]
        /\ daemon[d] \in DaemonType /\ crashes \in 0..MaxCrashes
    BY DEF TypeInv, TypeOK
  <1>1. CASE WritePidFile(d)
    <2> DEFINE r == [daemon[d] EXCEPT !.life = "named"]
    <2>1. r \in DaemonType /\ r.life = "named" /\ r.bound = daemon[d].bound
      BY <1>0 DEF DaemonType, Lives
    <2>2. daemon' = [daemon EXCEPT ![d] = r] /\ daemon[d].bound \in 0..2
          /\ daemon[d].life = "started"
      BY <1>1 DEF WritePidFile, TypeInv, BindsLeft
    <2> HIDE DEF r
    <2> QED
      BY <1>0, <1>1, <2>1, <2>2, OneDaemon DEF WritePidFile
  <1>2. CASE Bind(d)
    <2> DEFINE s == BindOrder[daemon[d].bound + 1]
               life == IF daemon[d].bound = 2 THEN "accepting" ELSE daemon[d].life
               bound == daemon[d].bound + 1
               r == [daemon[d] EXCEPT !.bound = bound, !.life = life]
    <2>1. daemon[d].life = "named" /\ daemon[d].bound \in 0..2
      BY <1>2 DEF Bind, TypeInv, BindsLeft
    <2>2. s \in Sockets
      BY <2>1 DEF BindOrder, Sockets
    <2>3. CASE sock[s] = Nobody
      <3>1. bound \in 0..3 /\ life \in Lives /\ (life = "named" => bound \in 0..2)
            /\ life # "started"
        BY <2>1 DEF Lives
      <3>2. daemon' = [daemon EXCEPT ![d] = r] /\ sock' = [sock EXCEPT ![s] = d]
            /\ UNCHANGED <<pidFile, proxy, crashes>>
        BY <1>2, <2>3 DEF Bind
      <3> HIDE DEF life, bound, s
      <3>3. r \in DaemonType /\ r.bound = bound /\ r.life = life
        BY <1>0, <3>1 DEF DaemonType
      <3> HIDE DEF r
      <3>4. sock' \in [Sockets -> Daemons \cup {Nobody}]
        BY <1>0, <2>2, <3>2
      <3> QED
        BY <1>0, <2>1, <3>1, <3>2, <3>3, <3>4, OneDaemon
    <2>4. CASE sock[s] # Nobody
      BY <1>0, <1>2, <2>4, DeathType DEF Bind
    <2> QED
      BY <2>3, <2>4
  <1>3. CASE ConnectionEnds(d)
    <2> DEFINE r == [daemon[d] EXCEPT !.life = "accepting", !.held = NoSockets]
               cut(p) == [s \in Sockets |-> IF daemon[d].held[s] = p /\ proxy[p].stream[s] = d
                                            THEN Closed ELSE proxy[p].stream[s]]
    <2>1. /\ r \in DaemonType /\ r.life = "accepting" /\ r.bound = daemon[d].bound
          /\ r.held = NoSockets
      <3>1. NoSockets \in [Sockets -> Proxies \cup {Nobody}]
        BY DEF NoSockets
      <3> QED
        BY <1>0, <3>1 DEF DaemonType, Lives
    <2>2. /\ daemon' = [daemon EXCEPT ![d] = r] /\ daemon[d].life = "serving"
          /\ proxy' = [p \in Proxies |-> [proxy[p] EXCEPT !.stream = cut(p)]]
          /\ UNCHANGED <<pidFile, sock, crashes>>
      BY <1>3 DEF ConnectionEnds
    <2> HIDE DEF r
    <2>3. \A p \in Proxies : /\ proxy'[p] \in ProxyType
                              /\ proxy'[p].step = proxy[p].step /\ proxy'[p].exit = proxy[p].exit
      <3> TAKE p \in Proxies
      <3>1. proxy[p] \in ProxyType /\ proxy'[p] = [proxy[p] EXCEPT !.stream = cut(p)]
        BY <2>2 DEF TypeInv, TypeOK
      <3>2. cut(p) \in [Sockets -> Daemons \cup {Nobody, Closed}]
        BY <3>1, ProxyFields
      <3> HIDE DEF cut
      <3> QED
        BY <3>1, <3>2 DEF ProxyType
    <2> HIDE DEF cut
    <2>4. proxy' \in [Proxies -> ProxyType]
      BY <2>2, <2>3
    <2>5. daemon' \in [Daemons -> DaemonType]
          /\ \A e \in Daemons : daemon'[e] = IF e = d THEN r ELSE daemon[e]
      BY <2>1, <2>2 DEF TypeInv, TypeOK
    <2>6. TypeOK'
      BY <1>0, <2>2, <2>4, <2>5 DEF TypeOK
    <2>7. NotYetBorn'
      BY <2>2, <2>3, <2>5, SameNumbers DEF TypeInv, NotYetBorn, NoSockets
    <2>8. BindsLeft'
      BY <2>1, <2>5 DEF TypeInv, BindsLeft
    <2>9. NoCode'
      BY <2>3 DEF TypeInv, NoCode
    <2> QED
      BY <2>6, <2>7, <2>8, <2>9 DEF TypeInv
  <1>4. ASSUME NEW s \in Sockets, Accept(d, s) PROVE TypeInv'
    <2> DEFINE held == [daemon[d].held EXCEPT ![s] = Head(daemon[d].backlog[s])]
               rest == [daemon[d].backlog EXCEPT ![s] = Tail(daemon[d].backlog[s])]
               life == IF \E u \in Sockets : held[u] = Nobody THEN "accepting" ELSE "serving"
               r == [daemon[d] EXCEPT !.backlog = rest, !.held = held, !.life = life]
    <2>1. daemon[d].backlog[s] \in Seq(Proxies) /\ daemon[d].backlog[s] # <<>>
      BY <1>0, <1>4, DaemonFields DEF Accept
    <2>2. held \in [Sockets -> Proxies \cup {Nobody}] /\ rest \in [Sockets -> Seq(Proxies)]
      BY <1>0, <2>1, DaemonFields
    <2>3. daemon' = [daemon EXCEPT ![d] = r] /\ daemon[d].life = "accepting"
      BY <1>4 DEF Accept
    <2>4. life \in {"accepting", "serving"}
      OBVIOUS
    <2> HIDE DEF held, rest, life
    <2>5. r \in DaemonType /\ r.life \in {"accepting", "serving"}
      BY <1>0, <2>2, <2>4 DEF DaemonType, Lives
    <2> HIDE DEF r
    <2> QED
      BY <1>0, <1>4, <2>3, <2>5, OneDaemon DEF Accept
  <1>5. CASE IdleExit(d)
    BY <1>0, <1>5, DeathType DEF IdleExit
  <1>6. CASE Quit(d)
    BY <1>0, <1>6, DeathType DEF Quit
  <1>7. CASE Crash(d)
    <2>1. crashes' \in 0..MaxCrashes
      BY <1>0, <1>7, BoundsAssumption DEF Crash
    <2> QED
      BY <1>7, <2>1, DeathType DEF Crash
  <1> QED
    BY <1>1, <1>2, <1>3, <1>4, <1>5, <1>6, <1>7 DEF DaemonStep

(* A proxy goes on and reads which daemon the pid file names. *)
LEMMA SeeType ==
  ASSUME TypeInv, NEW p \in Proxies, NEW step \in {"looking", "connecting"},
         proxy' = [proxy EXCEPT ![p] = [@ EXCEPT !.step = step, !.seen = pidFile]],
         proxy[p].step # "ended", step = "looking" => proxy[p].step \in BeforeSpawn,
         UNCHANGED <<pidFile, sock, daemon, crashes>>
  PROVE  TypeInv'
  <1> DEFINE r == [proxy[p] EXCEPT !.step = step, !.seen = pidFile]
  <1>1. proxy[p] \in ProxyType /\ proxy[p].exit = 0 /\ pidFile \in Daemons \cup {Nobody}
    BY DEF TypeInv, TypeOK, NoCode
  <1>2. r \in ProxyType /\ r.step = step /\ r.exit = 0
    BY <1>1, ZenonT(60) DEF ProxyType, Steps
  <1> HIDE DEF r
  <1>3. proxy' = [proxy EXCEPT ![p] = r]
    BY DEF r
  <1> QED
    BY <1>1, <1>2, <1>3, OneProxy DEF TypeInv, TypeOK, BeforeSpawn

(* Every step of a proxy keeps the types. *)
LEMMA ProxyTypeStep ==
  ASSUME TypeInv, NEW p \in Proxies,
         ProxyStep(p) \/ ProxyDies(p) \/ (\E re \in BOOLEAN : Launch(p, re))
  PROVE  TypeInv'
  <1>0. /\ pidFile \in Daemons \cup {Nobody} /\ sock \in [Sockets -> Daemons \cup {Nobody}]
        /\ daemon \in [Daemons -> DaemonType] /\ proxy \in [Proxies -> ProxyType]
        /\ proxy[p] \in ProxyType /\ crashes \in 0..MaxCrashes
    BY DEF TypeInv, TypeOK
  <1>1. CASE ReadPidFile(p)
    <2>1. CASE NotRunning(p)
      BY <1>0, <1>1, <2>1, NotRunningType DEF ReadPidFile, BeforeSpawn
    <2>2. CASE proxy' = [proxy EXCEPT ![p] = [@ EXCEPT !.step = "looking", !.seen = pidFile]]
      BY <1>1, <2>2, SeeType DEF ReadPidFile, BeforeSpawn
    <2> QED
      BY <1>1, <2>1, <2>2 DEF ReadPidFile
  <1>2. CASE LookUp(p)
    <2>1. proxy[p].step = "looking" /\ UNCHANGED <<sock, daemon, crashes>>
      BY <1>2 DEF LookUp
    <2>2. pidFile' \in Daemons \cup {Nobody}
      BY <1>0, <1>2 DEF LookUp
    <2>3. CASE Exit(p, 1)
      BY <2>1, <2>2, <2>3, ExitType
    <2>4. CASE NotRunning(p)
      BY <2>1, <2>2, <2>4, NotRunningType DEF BeforeSpawn
    <2>5. CASE Goto(p, "connecting")
      BY <1>0, <2>1, <2>2, <2>5, GotoType DEF BeforeSpawn, Steps
    <2>6. CASE Goto(p, "killing")
      BY <1>0, <2>1, <2>2, <2>6, GotoType DEF BeforeSpawn, Steps
    <2> QED
      BY <1>2, <2>3, <2>4, <2>5, <2>6 DEF LookUp
  <1>3. CASE KillRunningServer(p)
    <2> DEFINE d == proxy[p].seen
               r == [proxy[p] EXCEPT !.step = "cleaning"]
    <2>1. /\ proxy[p].step = "killing" /\ UNCHANGED <<pidFile, sock, crashes>>
          /\ daemon' = [daemon EXCEPT ![d] = Gone(@)] /\ proxy' = [proxy EXCEPT ![p] = r]
      BY <1>3 DEF KillRunningServer, Goto
    <2>2. proxy[p].exit = 0
      BY <2>1 DEF TypeInv, NoCode
    <2>3. r \in ProxyType /\ r.step = "cleaning" /\ r.exit = 0
      BY <1>0, <2>2 DEF ProxyType, Steps
    <2>4. \A e \in Daemons : daemon'[e] = IF e = d THEN Gone(daemon[e]) ELSE daemon[e]
      BY <1>0, <2>1
    <2> HIDE DEF r, d
    <2>5. proxy' \in [Proxies -> ProxyType]
          /\ \A q \in Proxies : proxy'[q] = IF q = p THEN r ELSE proxy[q]
      BY <1>0, <2>1, <2>3
    <2>6. \A e \in Daemons : daemon[e] \in DaemonType
      BY <1>0
    <2>7. daemon' \in [Daemons -> DaemonType]
      BY <1>0, <2>1, <2>4, <2>6, GoneRecord
    <2>8. TypeOK'
      BY <1>0, <2>1, <2>5, <2>7 DEF TypeOK
    <2>9. NotYetBorn'
      BY <2>1, <2>3, <2>4, <2>5, <2>6, GoneRecord, SameNumbers
      DEF TypeInv, NotYetBorn, NoSockets, BeforeSpawn
    <2>10. BindsLeft'
      BY <2>4, <2>6, GoneRecord DEF TypeInv, BindsLeft
    <2>11. NoCode'
      BY <2>3, <2>5 DEF TypeInv, NoCode
    <2> QED
      BY <2>8, <2>9, <2>10, <2>11 DEF TypeInv
  <1>4. CASE CleanUp(p)
    <2>1. "spawning" \in Steps \ {"ended"} /\ NoSockets \in [Sockets -> Daemons \cup {Nobody}]
      BY DEF Steps, NoSockets
    <2> QED
      BY <1>0, <1>4, <2>1, GotoType DEF CleanUp, BeforeSpawn
  <1>5. CASE SpawnServer(p)
    <2> DEFINE b == [daemon[p] EXCEPT !.life = "started"]
               r == [proxy[p] EXCEPT !.step = "waiting", !.child = p]
    <2>1. /\ proxy[p].step = "spawning" /\ UNCHANGED <<pidFile, crashes>> /\ sock' = NoSockets
          /\ daemon' = [daemon EXCEPT ![p] = b] /\ proxy' = [proxy EXCEPT ![p] = r]
      BY <1>5 DEF SpawnServer
    <2>2. proxy[p].exit = 0 /\ daemon[p].bound = 0 /\ daemon[p] \in DaemonType /\ p \in Daemons
      BY <1>0, <2>1, SameNumbers DEF TypeInv, NoCode, NotYetBorn, BeforeSpawn
    <2>3. r \in ProxyType /\ r.step = "waiting" /\ r.exit = 0
      BY <1>0, <2>2 DEF ProxyType, Steps
    <2>4. b \in DaemonType /\ b.life = "started" /\ b.bound = 0
      BY <2>2 DEF DaemonType, Lives
    <2> HIDE DEF b, r
    <2>5. proxy' \in [Proxies -> ProxyType]
          /\ \A q \in Proxies : proxy'[q] = IF q = p THEN r ELSE proxy[q]
      BY <1>0, <2>1, <2>3
    <2>6. daemon' \in [Daemons -> DaemonType]
          /\ \A e \in Daemons : daemon'[e] = IF e = p THEN b ELSE daemon[e]
      BY <1>0, <2>1, <2>4
    <2>7. sock' \in [Sockets -> Daemons \cup {Nobody}]
      BY <2>1 DEF NoSockets
    <2>8. TypeOK'
      BY <1>0, <2>1, <2>5, <2>6, <2>7 DEF TypeOK
    <2>9. NotYetBorn'
      BY <2>3, <2>5, <2>6, SameNumbers DEF TypeInv, NotYetBorn, NoSockets, BeforeSpawn
    <2>10. BindsLeft'
      BY <2>4, <2>6 DEF TypeInv, BindsLeft
    <2>11. NoCode'
      BY <2>3, <2>5 DEF TypeInv, NoCode
    <2> QED
      BY <2>8, <2>9, <2>10, <2>11 DEF TypeInv
  <1>6. CASE SocketsExist(p)
    BY <1>0, <1>6, GotoType DEF SocketsExist, Steps, BeforeSpawn
  <1>7. CASE WaitTimesOut(p)
    BY <1>0, <1>7, ExitType DEF WaitTimesOut
  <1>8. CASE ReadNewPid(p)
    <2>1. CASE Exit(p, 1)
      BY <1>0, <1>8, <2>1, ExitType DEF ReadNewPid
    <2>2. CASE proxy' = [proxy EXCEPT ![p] = [@ EXCEPT !.step = "connecting", !.seen = pidFile]]
      BY <1>8, <2>2, SeeType DEF ReadNewPid
    <2> QED
      BY <1>8, <2>1, <2>2 DEF ReadNewPid
  <1>9. CASE StreamLost(p)
    BY <1>0, <1>9, GotoType DEF StreamLost, Steps, BeforeSpawn
  <1>10. CASE CheckServerRunning(p)
    <2> DEFINE code == IF Alive(proxy[p].seen) THEN 1 ELSE 90
    <2>1. code \in {1, 9, 90} /\ Exit(p, code)
      BY <1>10 DEF CheckServerRunning
    <2> HIDE DEF code
    <2> QED
      BY <1>0, <1>10, <2>1, ExitType DEF CheckServerRunning
  <1>11. ASSUME NEW s \in Sockets, Connect(p, s) PROVE TypeInv'
    <2>1. CASE Goto(p, "failed") /\ UNCHANGED daemon
      BY <1>0, <1>11, <2>1, GotoType DEF Connect, Steps, BeforeSpawn
    <2>2. CASE ~ (Goto(p, "failed") /\ UNCHANGED daemon)
      <3> DEFINE d == sock[s]
                 queue == [daemon[d].backlog EXCEPT ![s] = Append(daemon[d].backlog[s], p)]
                 b == [daemon[d] EXCEPT !.backlog = queue]
                 stream == [proxy[p].stream EXCEPT ![s] = d]
                 joined == Completes(p, s)
                 step == IF Completes(p, s) THEN "forwarding" ELSE proxy[p].step
                 r == [proxy[p] EXCEPT !.stream = stream, !.joined = joined, !.step = step]
      <3>1. /\ Listens(d) /\ proxy[p].step = "connecting" /\ UNCHANGED <<pidFile, sock, crashes>>
            /\ daemon' = [daemon EXCEPT ![d] = b] /\ proxy' = [proxy EXCEPT ![p] = r]
        BY <1>11, <2>2 DEF Connect
      <3>2. d \in Daemons /\ Alive(d) /\ daemon[d] \in DaemonType /\ proxy[p].exit = 0
        BY <1>0, <3>1 DEF Listens, TypeInv, NoCode
      <3>3. queue \in [Sockets -> Seq(Proxies)]
            /\ stream \in [Sockets -> Daemons \cup {Nobody, Closed}]
        BY <1>0, <3>2, DaemonFields, ProxyFields
      <3>4. step \in {"connecting", "forwarding"} /\ joined \in BOOLEAN
        BY <3>1 DEF Completes
      <3> HIDE DEF queue, stream, joined, step
      <3>5. r \in ProxyType /\ r.step = step /\ r.exit = 0
        BY <1>0, <3>2, <3>3, <3>4, ZenonT(60) DEF ProxyType, Steps
      <3>6. b \in DaemonType /\ b.life = daemon[d].life /\ b.bound = daemon[d].bound
        BY <3>2, <3>3 DEF DaemonType
      <3> HIDE DEF b, r, d
      <3>7. proxy' \in [Proxies -> ProxyType]
            /\ \A q \in Proxies : proxy'[q] = IF q = p THEN r ELSE proxy[q]
        BY <1>0, <3>1, <3>5
      <3>8. daemon' \in [Daemons -> DaemonType]
            /\ \A e \in Daemons : daemon'[e] = IF e = d THEN b ELSE daemon[e]
        BY <1>0, <3>1, <3>6
      <3>9. TypeOK'
        BY <1>0, <3>1, <3>7, <3>8 DEF TypeOK
      <3>10. NotYetBorn'
        BY <3>1, <3>2, <3>4, <3>5, <3>7, <3>8, SameNumbers
        DEF TypeInv, NotYetBorn, NoSockets, BeforeSpawn, Alive
      <3>11. BindsLeft'
        BY <3>2, <3>6, <3>8 DEF TypeInv, BindsLeft
      <3>12. NoCode'
        BY <3>5, <3>7 DEF TypeInv, NoCode
      <3> QED
        BY <3>9, <3>10, <3>11, <3>12 DEF TypeInv
    <2> QED
      BY <2>1, <2>2
  <1>12. CASE ProxyDies(p)
    BY <1>0, <1>12, ExitType DEF ProxyDies
  <1>13. ASSUME NEW re \in BOOLEAN, Launch(p, re) PROVE TypeInv'
    <2> DEFINE r == [proxy[p] EXCEPT !.step = "reading", !.reconnecting = re]
    <2>1. proxy[p].step = "unborn" /\ proxy' = [proxy EXCEPT ![p] = r]
          /\ UNCHANGED <<pidFile, sock, daemon, crashes>>
      BY <1>13 DEF Launch
    <2>2. proxy[p].exit = 0
      BY <2>1 DEF TypeInv, NoCode
    <2>3. r \in ProxyType /\ r.step = "reading" /\ r.exit = 0
      BY <1>0, <2>2, ZenonT(60) DEF ProxyType, Steps
    <2> HIDE DEF r
    <2> QED
      BY <1>0, <2>1, <2>3, OneProxy DEF BeforeSpawn
  <1> QED
    BY <1>1, <1>2, <1>3, <1>4, <1>5, <1>6, <1>7, <1>8, <1>9, <1>10, <1>11, <1>12, <1>13
    DEF ProxyStep

(* Every behaviour keeps the types, and a daemon binds no fourth socket.   *)
LEMMA TypeInvariant == Spec => []TypeInv
  <1>1. Init => TypeInv
    <2> SUFFICES ASSUME Init PROVE TypeInv
      OBVIOUS
    <2>1. TypeOK
      <3>1. daemon \in [Daemons -> DaemonType]
        BY DEF Init, DaemonType, Lives
      <3>2. proxy \in [Proxies -> ProxyType]
        BY DEF Init, ProxyType, Steps
      <3>3. /\ pidFile \in Daemons \cup {Nobody} /\ sock \in [Sockets -> Daemons \cup {Nobody}]
            /\ crashes \in 0..MaxCrashes
        BY BoundsAssumption DEF Init
      <3> QED
        BY <3>1, <3>2, <3>3 DEF TypeOK
    <2>2. NotYetBorn /\ BindsLeft
      BY SameNumbers DEF Init, NotYetBorn, BindsLeft, NoSockets
    <2>3. NoCode
      BY DEF Init, NoCode
    <2> QED
      BY <2>1, <2>2, <2>3 DEF TypeInv
  <1>2. TypeInv /\ [Next]_vars => TypeInv'
    <2> SUFFICES ASSUME TypeInv, [Next]_vars PROVE TypeInv'
      OBVIOUS
    <2>1. CASE UNCHANGED vars
      BY <2>1 DEF vars, TypeInv, TypeOK, NotYetBorn, BindsLeft, NoCode, NoSockets
    <2>2. CASE Next
      BY <2>2, DaemonTypeStep, ProxyTypeStep DEF Next
    <2> QED
      BY <2>1, <2>2
  <1> QED
    BY <1>1, <1>2, PTL DEF Spec

(* The types hold for any number of proxies and crashes, overlapping or    *)
(* not.                                                                    *)
THEOREM TypeCorrect == Spec => []TypeOK
  <1>1. TypeInv => TypeOK
    BY DEF TypeInv
  <1> QED
    BY <1>1, TypeInvariant, PTL

-----------------------------------------------------------------------------
(* The files, when starts do not overlap.                                  *)

(* The steps of a proxy on its way to a server.                            *)
Coming == {"reading", "looking", "killing", "cleaning", "spawning", "waiting",
           "naming", "connecting"}

Up == {"accepting", "serving"}

(* One proxy is on its way, and one daemon alive, at a time.               *)
OneComing ==
    \A p, q \in Proxies : proxy[p].step \in Coming /\ proxy[q].step \in Coming => p = q
OneAlive == \A d, e \in Daemons : Alive(d) /\ Alive(e) => d = e

(* Only its own proxy can be on its way, waiting, while a daemon is coming *)
(* up, and the files are those the daemon has written so far.              *)
ComingUp ==
    \A d \in Daemons : daemon[d].life \in {"started", "named"} =>
        /\ \A p \in Proxies : proxy[p].step \in Coming => p = d /\ proxy[p].step = "waiting"
        /\ daemon[d].life = "named" => pidFile = d
        /\ sock["stdin"] = IF daemon[d].bound > 0 THEN d ELSE Nobody
        /\ sock["stdout"] = IF daemon[d].bound > 1 THEN d ELSE Nobody
        /\ sock["stderr"] = Nobody

(* The pid file still names the daemon a proxy read in it.                 *)
SeenNamed ==
    \A p \in Proxies : proxy[p].step \in {"looking", "killing"} =>
        proxy[p].seen = pidFile /\ pidFile # Nobody

(* A proxy removes files and spawns only when no daemon is alive.          *)
Cleared ==
    \A p \in Proxies : proxy[p].step \in {"cleaning", "spawning"} =>
        \A d \in Daemons : ~ Alive(d)

FilesInv ==
    /\ OneComing /\ OneAlive /\ NoOrphan /\ ComingUp
    /\ SeenNamed /\ Cleared

(* The daemons go on or die, and nothing else changes. *)
LEMMA FewerDaemons ==
  ASSUME FilesInv, UNCHANGED <<pidFile, sock>>,
         \A p \in Proxies : /\ proxy'[p].step = proxy[p].step
                            /\ proxy'[p].seen = proxy[p].seen,
         \A d \in Daemons :
            \/ daemon'[d].life = daemon[d].life /\ daemon'[d].bound = daemon[d].bound
            \/ daemon'[d].life = "dead"
            \/ daemon[d].life \in Up /\ daemon'[d].life \in Up
  PROVE  FilesInv'
  <1>1. \A d \in Daemons : Alive(d)' => Alive(d)
    BY DEF Alive, Up
  <1>2. OneComing'
    BY DEF FilesInv, OneComing
  <1>3. OneAlive'
    BY <1>1 DEF FilesInv, OneAlive
  <1>4. NoOrphan'
    BY DEF FilesInv, NoOrphan, Reachable, Up
  <1>5. ComingUp'
    BY SameNumbers DEF FilesInv, ComingUp, Up
  <1>6. SeenNamed'
    BY DEF FilesInv, SeenNamed
  <1>7. Cleared'
    BY <1>1 DEF FilesInv, Cleared
  <1> QED
    BY <1>2, <1>3, <1>4, <1>5, <1>6, <1>7 DEF FilesInv

(* One proxy goes on, and the files and the daemons' lives stay. *)
LEMMA ProxyMoves ==
  ASSUME FilesInv, UNCHANGED <<pidFile, sock>>, NEW p \in Proxies,
         \A d \in Daemons : daemon'[d].life = daemon[d].life /\ daemon'[d].bound = daemon[d].bound,
         \A q \in Proxies \ {p} : proxy'[q] = proxy[q],
         proxy'[p].step \in Coming =>
            proxy[p].step \in Coming \/ \A q \in Proxies : proxy[q].step \notin Coming,
         proxy'[p].step \in Coming => \A d \in Daemons : daemon[d].life \notin {"started", "named"},
         proxy'[p].step \in {"looking", "killing"} => proxy'[p].seen = pidFile /\ pidFile # Nobody,
         proxy'[p].step \in {"cleaning", "spawning"} => \A d \in Daemons : ~ Alive(d)
  PROVE  FilesInv'
  <1>1. \A d \in Daemons : Alive(d)' <=> Alive(d)
    BY DEF Alive
  <1>2. OneComing'
    BY DEF FilesInv, OneComing
  <1>3. OneAlive'
    BY <1>1 DEF FilesInv, OneAlive
  <1>4. NoOrphan'
    BY DEF FilesInv, NoOrphan, Reachable
  <1>5. ComingUp'
    BY SameNumbers DEF FilesInv, ComingUp
  <1>6. SeenNamed'
    BY DEF FilesInv, SeenNamed
  <1>7. Cleared'
    BY <1>1 DEF FilesInv, Cleared
  <1> QED
    BY <1>2, <1>3, <1>4, <1>5, <1>6, <1>7 DEF FilesInv

(* What Exit, Goto and the death of a daemon do, field by field. *)
LEMMA ExitFields ==
  ASSUME TypeInv, NEW p \in Proxies, NEW code, Exit(p, code)
  PROVE  /\ proxy'[p].step = "ended" /\ proxy'[p].exit = code
         /\ proxy'[p].reconnecting = proxy[p].reconnecting
         /\ \A q \in Proxies \ {p} : proxy'[q] = proxy[q]
  <1>1. proxy \in [Proxies -> ProxyType] /\ proxy[p] \in ProxyType
    BY DEF TypeInv, TypeOK
  <1> QED
    BY <1>1 DEF Exit, ProxyType

LEMMA GotoFields ==
  ASSUME TypeInv, NEW p \in Proxies, NEW step, Goto(p, step)
  PROVE  /\ proxy'[p].step = step /\ proxy'[p].exit = proxy[p].exit
         /\ proxy'[p].reconnecting = proxy[p].reconnecting
         /\ proxy'[p].seen = proxy[p].seen /\ proxy'[p].child = proxy[p].child
         /\ proxy'[p].stream = proxy[p].stream
         /\ \A q \in Proxies \ {p} : proxy'[q] = proxy[q]
  <1>1. proxy \in [Proxies -> ProxyType] /\ proxy[p] \in ProxyType
    BY DEF TypeInv, TypeOK
  <1> QED
    BY <1>1 DEF Goto, ProxyType

LEMMA SeeFields ==
  ASSUME TypeInv, NEW p \in Proxies, NEW step,
         proxy' = [proxy EXCEPT ![p] = [@ EXCEPT !.step = step, !.seen = pidFile]]
  PROVE  /\ proxy'[p].step = step /\ proxy'[p].exit = proxy[p].exit
         /\ proxy'[p].seen = pidFile /\ proxy'[p].child = proxy[p].child
         /\ proxy'[p].stream = proxy[p].stream
         /\ \A q \in Proxies \ {p} : proxy'[q] = proxy[q]
  <1>1. proxy \in [Proxies -> ProxyType] /\ proxy[p] \in ProxyType
    BY DEF TypeInv, TypeOK
  <1> QED
    BY <1>1 DEF ProxyType

LEMMA DeathFields ==
  ASSUME TypeInv, NEW d \in Daemons \cup {Nobody}, daemon' = [daemon EXCEPT ![d] = Gone(@)]
  PROVE  \A e \in Daemons :
            daemon'[e] = IF e = d THEN Gone(daemon[e]) ELSE daemon[e]
  BY DEF TypeInv, TypeOK

(* The fields of a daemon that dies. *)
LEMMA DeathLives ==
  ASSUME TypeInv, NEW d \in Daemons \cup {Nobody}, daemon' = [daemon EXCEPT ![d] = Gone(@)]
  PROVE  /\ d \in Daemons => daemon'[d].life = "dead"
         /\ \A e \in Daemons \ {d} : daemon'[e] = daemon[e]
  <1>1. \A e \in Daemons : daemon[e] \in DaemonType
    BY DEF TypeInv, TypeOK
  <1>2. \A e \in Daemons : daemon'[e] = IF e = d THEN Gone(daemon[e]) ELSE daemon[e]
    BY DeathFields
  <1>3. \A e \in Daemons : Gone(daemon[e]).life = "dead"
    BY <1>1, GoneRecord
  <1> QED
    BY <1>2, <1>3

(* What a daemon does keeps the files in order. *)
LEMMA DaemonFilesStep ==
  ASSUME TypeInv, FilesInv, NEW d \in Daemons,
         DaemonStep(d) \/ IdleExit(d) \/ Quit(d) \/ Crash(d)
  PROVE  FilesInv'
  <1>0. /\ daemon \in [Daemons -> DaemonType] /\ daemon[d] \in DaemonType
        /\ proxy \in [Proxies -> ProxyType]
        /\ sock \in [Sockets -> Daemons \cup {Nobody}]
        /\ \A e \in Daemons : e # Nobody
    BY SameNumbers DEF TypeInv, TypeOK
  <1>1. CASE daemon' = [daemon EXCEPT ![d] = Gone(@)] /\ UNCHANGED <<pidFile, sock, proxy>>
    BY <1>1, DeathLives, FewerDaemons
  <1>2. CASE WritePidFile(d)
    <2>1. /\ daemon[d].life = "started" /\ pidFile' = d /\ UNCHANGED <<sock, proxy>>
          /\ daemon'[d].life = "named" /\ daemon'[d].bound = daemon[d].bound
          /\ \A e \in Daemons \ {d} : daemon'[e] = daemon[e]
      BY <1>0, <1>2 DEF WritePidFile, DaemonType
    <2>2. \A e \in Daemons : Alive(e) => e = d
      BY <2>1 DEF FilesInv, OneAlive, Alive
    <2>3. \A e \in Daemons : Alive(e)' => e = d
      BY <2>1, <2>2 DEF Alive
    <2>4. OneComing'
      BY <2>1 DEF FilesInv, OneComing
    <2>5. OneAlive'
      BY <2>3 DEF OneAlive
    <2>6. NoOrphan'
      BY <2>1, <2>3 DEF NoOrphan, Alive
    <2>7. ComingUp'
      BY <2>1, <2>3 DEF FilesInv, ComingUp, Alive
    <2>8. SeenNamed'
      BY <2>1, SameNumbers DEF FilesInv, SeenNamed, ComingUp, OneComing, Coming
    <2>9. Cleared'
      BY <2>1, SameNumbers DEF FilesInv, Cleared, ComingUp, OneComing, Coming
    <2> QED
      BY <2>4, <2>5, <2>6, <2>7, <2>8, <2>9 DEF FilesInv
  <1>3. CASE Bind(d) /\ daemon' # [daemon EXCEPT ![d] = Gone(@)]
    <2> DEFINE s == BindOrder[daemon[d].bound + 1]
               life == IF daemon[d].bound = 2 THEN "accepting" ELSE daemon[d].life
               bound == daemon[d].bound + 1
    <2>1. /\ daemon[d].life = "named" /\ daemon[d].bound \in 0..2
          /\ UNCHANGED <<pidFile, proxy>> /\ sock' = [sock EXCEPT ![s] = d]
          /\ daemon' = [daemon EXCEPT ![d] = [@ EXCEPT !.bound = bound, !.life = life]]
      BY <1>3 DEF Bind, TypeInv, BindsLeft
    <2> HIDE DEF s, life, bound
    <2>2. /\ daemon'[d].life = life /\ daemon'[d].bound = bound
          /\ \A e \in Daemons \ {d} : daemon'[e] = daemon[e]
      BY <1>0, <2>1 DEF DaemonType
    <2>3. s = IF daemon[d].bound = 0 THEN "stdin"
              ELSE IF daemon[d].bound = 1 THEN "stdout" ELSE "stderr"
      BY <2>1 DEF s, BindOrder
    <2>4. \A u \in Sockets : sock'[u] = IF u = s THEN d ELSE sock[u]
      BY <1>0, <2>1
    <2>5. "stdin" \in Sockets /\ "stdout" \in Sockets /\ "stderr" \in Sockets
          /\ \A u \in Sockets : u = "stdin" \/ u = "stdout" \/ u = "stderr"
      BY DEF Sockets
    <2>6. \A e \in Daemons : Alive(e) => e = d
      BY <2>1 DEF FilesInv, OneAlive, Alive
    <2>7. \A e \in Daemons : Alive(e)' => e = d
      BY <2>2, <2>6 DEF Alive
    <2>8. /\ \A q \in Proxies : proxy[q].step \in Coming => q = d /\ proxy[q].step = "waiting"
          /\ pidFile = d
          /\ sock["stdin"] = IF daemon[d].bound > 0 THEN d ELSE Nobody
          /\ sock["stdout"] = IF daemon[d].bound > 1 THEN d ELSE Nobody
          /\ sock["stderr"] = Nobody
      BY <2>1 DEF FilesInv, ComingUp
    <2>9. life = IF daemon[d].bound = 2 THEN "accepting" ELSE "named"
      BY <2>1 DEF life
    <2>10. OneComing' /\ SeenNamed'
      BY <2>1 DEF FilesInv, OneComing, SeenNamed
    <2>11. OneAlive'
      BY <2>7 DEF OneAlive
    <2>12. ASSUME daemon[d].bound = 2 PROVE \A u \in Sockets : sock'[u] = d
      BY <2>3, <2>4, <2>5, <2>8, <2>12
    <2>13. NoOrphan'
      <3> SUFFICES ASSUME NEW e \in Daemons, daemon'[e].life \in Up
                   PROVE  pidFile' = e /\ \A u \in Sockets : sock'[u] = e
        BY DEF NoOrphan, Reachable, Up
      <3>1. e = d
        BY <2>7 DEF Alive, Up
      <3>2. daemon[d].bound = 2
        BY <2>2, <2>9, <3>1 DEF Up
      <3> QED
        BY <2>1, <2>8, <2>12, <3>1, <3>2
    <2>14. ComingUp'
      <3> SUFFICES ASSUME NEW e \in Daemons, daemon'[e].life \in {"started", "named"}
                   PROVE  /\ \A q \in Proxies : proxy'[q].step \in Coming =>
                                q = e /\ proxy'[q].step = "waiting"
                          /\ pidFile' = e
                          /\ sock'["stdin"] = IF daemon'[e].bound > 0 THEN e ELSE Nobody
                          /\ sock'["stdout"] = IF daemon'[e].bound > 1 THEN e ELSE Nobody
                          /\ sock'["stderr"] = Nobody
        BY Zenon DEF ComingUp
      <3>1. e = d
        BY <2>7 DEF Alive
      <3>2. daemon[d].bound = 0 \/ daemon[d].bound = 1
        BY <2>1, <2>2, <2>9, <3>1
      <3>3. CASE daemon[d].bound = 0
        BY <1>0, <2>1, <2>2, <2>3, <2>4, <2>5, <2>8, <3>1, <3>3 DEF bound
      <3>4. CASE daemon[d].bound = 1
        BY <1>0, <2>1, <2>2, <2>3, <2>4, <2>5, <2>8, <3>1, <3>4 DEF bound
      <3> QED
        BY <3>2, <3>3, <3>4
    <2>15. Cleared'
      BY <2>1, <2>7, <2>8, SameNumbers DEF FilesInv, Cleared, Coming, Alive
    <2> QED
      BY <2>10, <2>11, <2>13, <2>14, <2>15 DEF FilesInv
  <1>4. CASE ConnectionEnds(d)
    <2>1. /\ daemon[d].life \in Up /\ daemon'[d].life \in Up
          /\ \A e \in Daemons \ {d} : daemon'[e] = daemon[e]
          /\ UNCHANGED <<pidFile, sock>>
      BY <1>0, <1>4 DEF ConnectionEnds, DaemonType, Up
    <2>2. \A p \in Proxies : /\ proxy'[p].step = proxy[p].step
                             /\ proxy'[p].seen = proxy[p].seen
      BY <1>0, <1>4 DEF ConnectionEnds, ProxyType
    <2> QED
      BY <2>1, <2>2, FewerDaemons
  <1>5. ASSUME NEW s \in Sockets, Accept(d, s) PROVE FilesInv'
    <2>1. /\ daemon[d].life \in Up /\ daemon'[d].life \in Up
          /\ \A e \in Daemons \ {d} : daemon'[e] = daemon[e]
          /\ UNCHANGED <<pidFile, sock, proxy>>
      BY <1>0, <1>5 DEF Accept, DaemonType, Up
    <2> QED
      BY <2>1, FewerDaemons
  <1>6. IdleExit(d) \/ Quit(d) \/ Crash(d) =>
          daemon' = [daemon EXCEPT ![d] = Gone(@)] /\ UNCHANGED <<pidFile, sock, proxy>>
    BY DEF IdleExit, Quit, Crash
  <1>7. Bind(d) /\ daemon' = [daemon EXCEPT ![d] = Gone(@)] => UNCHANGED <<pidFile, sock, proxy>>
    <2> SUFFICES ASSUME Bind(d), daemon' = [daemon EXCEPT ![d] = Gone(@)] PROVE sock' = sock
      BY DEF Bind
    <2>1. daemon'[d].life = "dead" /\ daemon[d].life = "named"
      BY DeathLives DEF Bind
    <2>2. CASE sock' = sock
      BY <2>2
    <2>3. CASE sock' # sock
      <3> DEFINE life == IF daemon[d].bound = 2 THEN "accepting" ELSE daemon[d].life
                 bound == daemon[d].bound + 1
      <3>1. daemon' = [daemon EXCEPT ![d] = [@ EXCEPT !.bound = bound, !.life = life]]
        BY <2>3 DEF Bind
      <3>2. life # "dead"
        BY <2>1
      <3> HIDE DEF life, bound
      <3>3. daemon'[d].life = life
        BY <1>0, <3>1 DEF DaemonType
      <3> QED
        BY <2>1, <3>2, <3>3
    <2> QED
      BY <2>2, <2>3
  <1> QED
    BY <1>1, <1>2, <1>3, <1>4, <1>5, <1>6, <1>7 DEF DaemonStep

(* What a proxy does keeps the files in order, when starts do not overlap. *)
LEMMA ProxyFilesStep ==
  ASSUME Overlap = FALSE, TypeInv, FilesInv, NEW p \in Proxies,
         ProxyStep(p) \/ ProxyDies(p) \/ (\E re \in BOOLEAN : Launch(p, re))
  PROVE  FilesInv'
  <1>0. /\ daemon \in [Daemons -> DaemonType] /\ proxy \in [Proxies -> ProxyType]
        /\ proxy[p] \in ProxyType /\ p \in Daemons
        /\ pidFile \in Daemons \cup {Nobody}
        /\ sock \in [Sockets -> Daemons \cup {Nobody}]
    BY SameNumbers DEF TypeInv, TypeOK
  <1>a1. ASSUME proxy[p].step # "waiting", proxy[p].step \in Coming
         PROVE  \A d \in Daemons : daemon[d].life \notin {"started", "named"}
    BY <1>0, <1>a1, SameNumbers DEF FilesInv, ComingUp, OneComing, Coming
  <1>a2. ASSUME NEW code, Exit(p, code), UNCHANGED <<pidFile, sock, daemon>>
         PROVE  FilesInv'
    BY <1>a2, ExitFields, ProxyMoves DEF Coming
  <1>a3. ASSUME NEW step, Goto(p, step), UNCHANGED <<pidFile, sock, daemon>>,
                step \notin BeforeSpawn \cup {"waiting"},
                proxy[p].step \in Coming \/ step \notin Coming,
                step \in Coming => \A d \in Daemons : daemon[d].life \notin {"started", "named"}
         PROVE  FilesInv'
    BY <1>a3, GotoFields, ProxyMoves DEF BeforeSpawn
  <1>a4. ASSUME \/ proxy[p].step = "reading" /\ pidFile = Nobody
                \/ proxy[p].step = "looking" /\ ~ Alive(proxy[p].seen)
         PROVE  \A d \in Daemons : ~ Alive(d)
    <2>1. \A d \in Daemons : daemon[d].life \notin {"started", "named"}
      BY <1>a1, <1>a4 DEF Coming
    <2>2. \A d \in Daemons : daemon[d].life \in Up => pidFile = d /\ d # Nobody
      BY SameNumbers DEF FilesInv, NoOrphan, Reachable, Up
    <2>3. \A d \in Daemons : daemon[d].life \in Up => Alive(d)
      BY DEF Up, Alive
    <2>4. \A d \in Daemons : daemon[d].life \notin Up
      BY <1>a4, <2>2, <2>3 DEF FilesInv, SeenNamed
    <2>5. \A d \in Daemons : daemon[d].life \in Lives
      BY <1>0, DaemonFields
    <2> QED
      BY <2>1, <2>4, <2>5 DEF Alive, Up, Lives
  <1>1. CASE ReadPidFile(p)
    <2>0. proxy[p].step = "reading" /\ UNCHANGED <<pidFile, sock, daemon>>
      BY <1>1 DEF ReadPidFile
    <2>1. CASE Exit(p, 90)
      BY <1>a2, <2>0, <2>1
    <2>2. CASE pidFile = Nobody /\ Goto(p, "spawning")
      <3>0. proxy[p].step = "reading" /\ pidFile = Nobody
        BY <2>0, <2>2
      <3>1. \A d \in Daemons : ~ Alive(d)
        BY <1>a4, <3>0
      <3> QED
        BY <1>a1, <2>0, <2>2, <3>1, GotoFields, ProxyMoves DEF Coming
    <2>3. CASE /\ pidFile # Nobody
               /\ proxy' = [proxy EXCEPT ![p] = [@ EXCEPT !.step = "looking", !.seen = pidFile]]
      <3>1. /\ proxy'[p].step = "looking" /\ proxy'[p].seen = pidFile
            /\ \A q \in Proxies \ {p} : proxy'[q] = proxy[q]
        BY <2>3, SeeFields
      <3> QED
        BY <1>a1, <2>0, <2>3, <3>1, ProxyMoves DEF Coming
    <2> QED
      BY <1>1, <2>1, <2>2, <2>3 DEF ReadPidFile, NotRunning
  <1>2. CASE LookUp(p)
    <2>0. proxy[p].step = "looking" /\ UNCHANGED <<sock, daemon>>
      BY <1>2 DEF LookUp
    <2>1. CASE Alive(proxy[p].seen)
      <3>0. pidFile' = pidFile
        BY <1>2, <2>1 DEF LookUp
      <3>1. CASE Goto(p, "connecting")
        BY <1>a1, <1>a3, <2>0, <3>0, <3>1 DEF BeforeSpawn, Coming
      <3>2. CASE Goto(p, "killing")
        BY <1>a1, <2>0, <3>0, <3>2, GotoFields, ProxyMoves DEF Coming, FilesInv, SeenNamed
      <3> QED
        BY <1>2, <2>1, <3>1, <3>2 DEF LookUp
    <2>2. CASE ~ Alive(proxy[p].seen)
      <3>1. \A d \in Daemons : ~ Alive(d)
        BY <1>a4, <2>0, <2>2
      <3>2. \A d \in Daemons : ~ Alive(d)'
        BY <2>0, <3>1 DEF Alive
      <3>3. \A d \in Daemons : daemon'[d].life \notin Up \cup {"started", "named"}
        BY <3>2 DEF Alive, Up
      <3>4. /\ proxy'[p].step \in {"ended", "spawning"}
            /\ \A q \in Proxies \ {p} : proxy'[q] = proxy[q]
        <4>1. Exit(p, 1) \/ Exit(p, 90) \/ Goto(p, "spawning")
          BY <1>2, <2>2 DEF LookUp, NotRunning
        <4> QED
          BY <4>1, ExitFields, GotoFields
      <3>5. OneComing'
        BY <2>0, <3>4 DEF FilesInv, OneComing, Coming
      <3>6. OneAlive' /\ Cleared'
        BY <3>2 DEF OneAlive, Cleared
      <3>7. NoOrphan' /\ ComingUp'
        BY <3>3 DEF NoOrphan, ComingUp, Up
      <3>8. SeenNamed'
        BY <2>0, <3>4 DEF FilesInv, SeenNamed, OneComing, Coming
      <3> QED
        BY <3>5, <3>6, <3>7, <3>8 DEF FilesInv
    <2> QED
      BY <2>1, <2>2
  <1>3. CASE KillRunningServer(p)
    <2>1. /\ proxy[p].step = "killing" /\ Goto(p, "cleaning") /\ UNCHANGED <<pidFile, sock>>
          /\ daemon' = [daemon EXCEPT ![proxy[p].seen] = Gone(@)]
          /\ proxy[p].seen = pidFile /\ pidFile \in Daemons
      BY <1>0, <1>3 DEF KillRunningServer, FilesInv, SeenNamed
    <2>2. /\ daemon'[pidFile].life = "dead"
          /\ \A e \in Daemons \ {pidFile} : daemon'[e] = daemon[e]
      <3>1. proxy[p].seen \in Daemons \cup {Nobody}
        BY <2>1
      <3> QED
        BY <2>1, <3>1, DeathLives
    <2>3. \A d \in Daemons : daemon[d].life \notin {"started", "named"}
      BY <1>a1, <2>1 DEF Coming
    <2>4. \A d \in Daemons : daemon[d].life \in Up => pidFile = d
      BY DEF FilesInv, NoOrphan, Reachable, Up
    <2>5. \A d \in Daemons : daemon[d].life \in Lives
      BY <1>0, DaemonFields
    <2>6. \A d \in Daemons : daemon'[d].life \in {"unborn", "dead"}
      BY <2>2, <2>3, <2>4, <2>5 DEF Lives, Up
    <2>7. /\ proxy'[p].step = "cleaning" /\ \A q \in Proxies \ {p} : proxy'[q] = proxy[q]
      BY <2>1, GotoFields
    <2>8. OneComing'
      BY <2>1, <2>7 DEF FilesInv, OneComing, Coming
    <2>9. OneAlive' /\ Cleared'
      BY <2>6 DEF OneAlive, Cleared, Alive
    <2>10. NoOrphan' /\ ComingUp'
      BY <2>6 DEF NoOrphan, ComingUp
    <2>11. SeenNamed'
      BY <2>1, <2>7 DEF FilesInv, SeenNamed
    <2> QED
      BY <2>8, <2>9, <2>10, <2>11 DEF FilesInv
  <1>4. CASE CleanUp(p)
    <2>1. /\ proxy[p].step = "cleaning" /\ Goto(p, "spawning") /\ UNCHANGED daemon
      BY <1>4 DEF CleanUp
    <2>2. \A d \in Daemons : daemon'[d].life \in {"unborn", "dead"}
      BY <2>1 DEF FilesInv, Cleared, Alive
    <2>3. /\ proxy'[p].step = "spawning" /\ \A q \in Proxies \ {p} : proxy'[q] = proxy[q]
      BY <2>1, GotoFields
    <2>4. OneComing'
      BY <2>1, <2>3 DEF FilesInv, OneComing, Coming
    <2>5. OneAlive' /\ Cleared'
      BY <2>2 DEF OneAlive, Cleared, Alive
    <2>6. NoOrphan' /\ ComingUp'
      BY <2>2 DEF NoOrphan, ComingUp
    <2>7. SeenNamed'
      BY <2>1, <2>3 DEF FilesInv, SeenNamed, OneComing, Coming
    <2> QED
      BY <2>4, <2>5, <2>6, <2>7 DEF FilesInv
  <1>5. CASE SpawnServer(p)
    <2>1. /\ proxy[p].step = "spawning" /\ sock' = NoSockets /\ UNCHANGED pidFile
          /\ daemon'[p].life = "started" /\ daemon'[p].bound = daemon[p].bound
          /\ \A e \in Daemons \ {p} : daemon'[e] = daemon[e]
          /\ proxy'[p].step = "waiting"
          /\ \A q \in Proxies \ {p} : proxy'[q] = proxy[q]
      BY <1>0, <1>5 DEF SpawnServer, DaemonType, ProxyType
    <2>2. daemon[p].bound = 0
      BY <2>1 DEF TypeInv, NotYetBorn, BeforeSpawn
    <2>3. \A d \in Daemons \ {p} : daemon'[d].life \in {"unborn", "dead"}
      BY <2>1 DEF FilesInv, Cleared, Alive
    <2>4. OneComing'
      BY <2>1 DEF FilesInv, OneComing, Coming
    <2>5. OneAlive'
      BY <2>3 DEF OneAlive, Alive
    <2>6. Cleared'
      BY <2>1 DEF FilesInv, Cleared, OneComing, Coming
    <2>7. NoOrphan'
      BY <2>1, <2>3 DEF NoOrphan
    <2>8. ComingUp'
      <3>1. sock'["stdin"] = Nobody /\ sock'["stdout"] = Nobody /\ sock'["stderr"] = Nobody
        BY <2>1 DEF NoSockets, Sockets
      <3>2. \A d \in Daemons : daemon'[d].life \in {"started", "named"} => d = p
        BY <2>3
      <3>3. /\ proxy'[p].step = "waiting" /\ daemon'[p].life # "named"
            /\ ~ (daemon'[p].bound > 0) /\ ~ (daemon'[p].bound > 1)
        BY <2>1, <2>2
      <3>4. \A q \in Proxies : proxy'[q].step \in Coming => q = p
        BY <2>1, <2>4 DEF OneComing, Coming
      <3> QED
        BY <3>1, <3>2, <3>3, <3>4 DEF ComingUp
    <2>9. SeenNamed'
      BY <2>1 DEF FilesInv, SeenNamed
    <2> QED
      BY <2>4, <2>5, <2>6, <2>7, <2>8, <2>9 DEF FilesInv
  <1>6. CASE SocketsExist(p)
    <2>1. /\ proxy[p].step = "waiting" /\ Goto(p, "naming") /\ UNCHANGED <<pidFile, sock, daemon>>
          /\ sock["stderr"] # Nobody
      BY <1>6 DEF SocketsExist, Sockets
    <2>2. \A d \in Daemons : daemon[d].life \notin {"started", "named"}
      BY <2>1 DEF FilesInv, ComingUp
    <2> QED
      BY <1>a3, <2>1, <2>2 DEF BeforeSpawn, Coming
  <1>7. CASE WaitTimesOut(p)
    BY <1>7, <1>a2 DEF WaitTimesOut
  <1>8. CASE ReadNewPid(p)
    <2>0. proxy[p].step = "naming" /\ UNCHANGED <<pidFile, sock, daemon>>
      BY <1>8 DEF ReadNewPid
    <2>1. CASE Exit(p, 1)
      BY <1>a2, <2>0, <2>1
    <2>2. CASE proxy' = [proxy EXCEPT ![p] = [@ EXCEPT !.step = "connecting", !.seen = pidFile]]
      <3>1. /\ proxy'[p].step = "connecting"
            /\ \A q \in Proxies \ {p} : proxy'[q] = proxy[q]
        BY <2>2, SeeFields
      <3> QED
        BY <1>a1, <2>0, <3>1, ProxyMoves DEF Coming
    <2> QED
      BY <1>8, <2>1, <2>2 DEF ReadNewPid
  <1>9. CASE StreamLost(p)
    BY <1>9, <1>a3 DEF StreamLost, Coming, BeforeSpawn
  <1>10. CASE CheckServerRunning(p)
    BY <1>10, <1>a2 DEF CheckServerRunning
  <1>11. ASSUME NEW s \in Sockets, Connect(p, s) PROVE FilesInv'
    <2>0. proxy[p].step = "connecting" /\ UNCHANGED <<pidFile, sock>>
      BY <1>11 DEF Connect
    <2>1. CASE Goto(p, "failed") /\ UNCHANGED daemon
      BY <1>a3, <2>0, <2>1 DEF Coming, BeforeSpawn
    <2>2. CASE ~ (Goto(p, "failed") /\ UNCHANGED daemon)
      <3> DEFINE joined == Completes(p, s)
                 step == IF Completes(p, s) THEN "forwarding" ELSE proxy[p].step
      <3>1. /\ daemon' = [daemon EXCEPT ![sock[s]].backlog[s] = Append(@, p)]
            /\ proxy' = [proxy EXCEPT ![p] = [@ EXCEPT !.stream[s] = sock[s], !.joined = joined,
                                                       !.step = step]]
        BY <1>11, <2>2 DEF Connect
      <3>2. step \in {"connecting", "forwarding"}
        BY <2>0
      <3> HIDE DEF joined, step
      <3>3. \A d \in Daemons : daemon'[d].life = daemon[d].life /\ daemon'[d].bound = daemon[d].bound
        BY <1>0, <3>1 DEF DaemonType
      <3>4. proxy'[p].step = step /\ \A q \in Proxies \ {p} : proxy'[q] = proxy[q]
        BY <1>0, <3>1 DEF ProxyType
      <3> QED
        BY <1>a1, <2>0, <3>2, <3>3, <3>4, ProxyMoves DEF Coming
    <2> QED
      BY <2>1, <2>2
  <1>12. CASE ProxyDies(p)
    BY <1>12, <1>a2 DEF ProxyDies
  <1>13. ASSUME NEW re \in BOOLEAN, Launch(p, re) PROVE FilesInv'
    <2>1. /\ proxy[p].step = "unborn" /\ Settled /\ UNCHANGED <<pidFile, sock, daemon>>
          /\ proxy'[p].step = "reading" /\ \A q \in Proxies \ {p} : proxy'[q] = proxy[q]
      BY <1>0, <1>13 DEF Launch, ProxyType
    <2>2. \A q \in Proxies : proxy[q].step \notin Coming
      BY <2>1 DEF Settled, Coming
    <2> QED
      BY <2>1, <2>2, ProxyMoves DEF Settled
  <1> QED
    BY <1>1, <1>2, <1>3, <1>4, <1>5, <1>6, <1>7, <1>8, <1>9, <1>10, <1>11, <1>12, <1>13
    DEF ProxyStep

(* Without overlapping starts the files are always in order.               *)
LEMMA FilesInvariant ==
  ASSUME Overlap = FALSE
  PROVE  Spec => [](TypeInv /\ FilesInv)
  <1>1. Init => FilesInv
    BY SameNumbers
    DEF Init, FilesInv, OneComing, OneAlive, NoOrphan, ComingUp, SeenNamed, Cleared,
        Coming, Alive
  <1>2. TypeInv /\ FilesInv /\ [Next]_vars => FilesInv'
    <2> SUFFICES ASSUME TypeInv, FilesInv, [Next]_vars PROVE FilesInv'
      OBVIOUS
    <2>1. CASE UNCHANGED vars
      BY <2>1, FewerDaemons DEF vars
    <2>2. CASE Next
      BY <2>2, DaemonFilesStep, ProxyFilesStep DEF Next
    <2> QED
      BY <2>1, <2>2
  <1> QED
    BY <1>1, <1>2, TypeInvariant, PTL DEF Spec

(* When starts do not overlap, a daemon that is up can be found, whatever  *)
(* crashed, idled out or was left behind.                                  *)
THEOREM NoOrphanCorrect ==
  ASSUME Overlap = FALSE
  PROVE  Spec => []NoOrphan
  <1>1. FilesInv => NoOrphan
    BY DEF FilesInv
  <1> QED
    BY <1>1, FilesInvariant, PTL

(* When starts do not overlap, a reconnecting proxy that says that no      *)
(* server is running is right.                                             *)
THEOREM NotRunningHonestCorrect ==
  ASSUME Overlap = FALSE
  PROVE  Spec => NotRunningHonest
  <1> DEFINE Honest ==
        \A p \in Proxies :
           /\ proxy[p].step \in {"reading", "looking"}
           /\ proxy'[p].exit = 90
           => \A d \in Daemons : daemon[d].life \notin {"accepting", "serving"}
  <1>1. TypeInv /\ FilesInv /\ [Next]_vars => [Honest]_vars
    <2> SUFFICES ASSUME TypeInv, FilesInv, Next,
                        NEW p \in Proxies, proxy[p].step \in {"reading", "looking"},
                        proxy'[p].exit = 90, NEW d \in Daemons,
                        daemon[d].life \in {"accepting", "serving"}
                 PROVE  FALSE
      OBVIOUS
    <2>0. /\ proxy \in [Proxies -> ProxyType] /\ proxy[p] \in ProxyType /\ proxy[p].exit = 0
      BY DEF TypeInv, TypeOK, NoCode
    <2>1. pidFile = d /\ d # Nobody /\ Alive(d)
      BY SameNumbers DEF FilesInv, NoOrphan, Reachable, Alive
    <2>2. proxy[p].step = "looking" => proxy[p].seen = d
      BY <2>1 DEF FilesInv, SeenNamed
    <2>3. proxy'[p] # proxy[p] /\ proxy'[p].exit # proxy[p].exit
      BY <2>0
    <2>4. ASSUME NEW e \in Daemons, DaemonStep(e) \/ IdleExit(e) \/ Quit(e) \/ Crash(e)
          PROVE  FALSE
      <3>1. CASE ConnectionEnds(e)
        BY <2>0, <2>3, <3>1 DEF ConnectionEnds, ProxyType
      <3>2. CASE ~ ConnectionEnds(e)
        <4>1. proxy' = proxy
          BY <2>4, <3>2
          DEF DaemonStep, WritePidFile, Bind, Accept, IdleExit, Quit, Crash
        <4> QED
          BY <2>3, <4>1
      <3> QED
        BY <3>1, <3>2
    <2>5. ASSUME NEW q \in Proxies,
                 ProxyStep(q) \/ ProxyDies(q) \/ (\E re \in BOOLEAN : Launch(q, re))
          PROVE  q = p
      <3> SUFFICES \E r : proxy' = [proxy EXCEPT ![q] = r]
        BY <2>0, <2>3
      <3>1. CASE \E s \in Sockets : Connect(q, s)
        BY <3>1, Zenon DEF Connect, Goto
      <3>2. CASE SpawnServer(q) \/ (\E re \in BOOLEAN : Launch(q, re))
        BY <3>2, Zenon DEF SpawnServer, Launch
      <3>3. CASE ReadPidFile(q) \/ ReadNewPid(q) \/ LookUp(q)
        BY <3>3, Zenon DEF ReadPidFile, ReadNewPid, LookUp, NotRunning, Exit, Goto
      <3>4. CASE \/ KillRunningServer(q) \/ CleanUp(q) \/ SocketsExist(q) \/ WaitTimesOut(q)
                 \/ StreamLost(q) \/ CheckServerRunning(q) \/ ProxyDies(q)
        BY <3>4, Zenon
        DEF KillRunningServer, CleanUp, SocketsExist, WaitTimesOut, StreamLost,
            CheckServerRunning, ProxyDies, Exit, Goto
      <3> QED
        BY <2>5, <3>1, <3>2, <3>3, <3>4 DEF ProxyStep
    <2>6. ReadPidFile(p) \/ LookUp(p)
      <3>1. ProxyStep(p) \/ ProxyDies(p) \/ (\E re \in BOOLEAN : Launch(p, re))
        BY <2>4, <2>5 DEF Next
      <3>2. ~ ProxyDies(p)
        BY ExitFields DEF ProxyDies
      <3> QED
        BY <3>1, <3>2
        DEF ProxyStep, KillRunningServer, CleanUp, SpawnServer, SocketsExist, WaitTimesOut,
            ReadNewPid, StreamLost, CheckServerRunning, Connect, Launch
    <2>7. CASE ReadPidFile(p)
      <3>1. proxy' = [proxy EXCEPT ![p] = [@ EXCEPT !.step = "looking", !.seen = pidFile]]
        BY <2>1, <2>7 DEF ReadPidFile
      <3> QED
        BY <2>3, <3>1, SeeFields
    <2>8. CASE LookUp(p)
      <3>1. Goto(p, "connecting") \/ Goto(p, "killing")
        BY <2>1, <2>2, <2>8 DEF LookUp
      <3> QED
        BY <2>3, <3>1, GotoFields
    <2> QED
      BY <2>6, <2>7, <2>8
  <1> QED
    BY <1>1, FilesInvariant, PTL DEF Spec, NotRunningHonest

-----------------------------------------------------------------------------
(* The streams, when starts do not overlap.                                *)

(* What a listener was asked for and has not finished: the stream it holds *)
(* and the backlog behind it.                                              *)
QueueOf(r, s) ==
    IF r.held[s] = Nobody THEN r.backlog[s] ELSE <<r.held[s]>> \o r.backlog[s]
Queue(d, s) == QueueOf(daemon[d], s)

(* The shape of a queue. *)
LEMMA QueueShape ==
  ASSUME NEW r \in DaemonType, NEW s \in Sockets
  PROVE  /\ QueueOf(r, s) \in Seq(Proxies) /\ Len(QueueOf(r, s)) \in Nat
         /\ r.backlog[s] \in Seq(Proxies) /\ Len(r.backlog[s]) \in Nat
         /\ r.held[s] = Nobody => QueueOf(r, s) = r.backlog[s]
         /\ r.held[s] # Nobody =>
              /\ Len(QueueOf(r, s)) = Len(r.backlog[s]) + 1
              /\ QueueOf(r, s)[1] = r.held[s]
              /\ \A i \in 1..Len(r.backlog[s]) : QueueOf(r, s)[i + 1] = r.backlog[s][i]
  <1>1. r.backlog[s] \in Seq(Proxies) /\ r.held[s] \in Proxies \cup {Nobody}
    BY DaemonFields
  <1>2. CASE r.held[s] = Nobody
    BY <1>1, <1>2 DEF QueueOf
  <1>3. CASE r.held[s] # Nobody
    <2> DEFINE h == r.held[s]
               b == r.backlog[s]
    <2>1. h \in Proxies /\ b \in Seq(Proxies) /\ QueueOf(r, s) = <<h>> \o b
      BY <1>1, <1>3 DEF QueueOf
    <2> HIDE DEF h, b
    <2>2. /\ <<h>> \o b \in Seq(Proxies) /\ Len(<<h>> \o b) = Len(b) + 1 /\ Len(b) \in Nat
          /\ (<<h>> \o b)[1] = h
          /\ \A i \in 1..Len(b) : (<<h>> \o b)[i + 1] = b[i]
      BY <2>1
    <2> QED
      BY <1>3, <2>1, <2>2 DEF h, b
  <1> QED
    BY <1>2, <1>3

(* Accepting moves a stream from the backlog to the hand. *)
LEMMA AcceptQueue ==
  ASSUME NEW r \in DaemonType, NEW q \in DaemonType, NEW s \in Sockets,
         r.held[s] = Nobody, r.backlog[s] # <<>>,
         q.held[s] = Head(r.backlog[s]), q.backlog[s] = Tail(r.backlog[s])
  PROVE  QueueOf(q, s) = QueueOf(r, s)
  <1> DEFINE b == r.backlog[s]
  <1>1. b \in Seq(Proxies) /\ b # <<>> /\ QueueOf(r, s) = b
    BY QueueShape
  <1>2. Head(b) \in Proxies /\ Head(b) # Nobody
    BY <1>1, SameNumbers
  <1>3. QueueOf(q, s) = <<Head(b)>> \o Tail(b)
    BY <1>2 DEF QueueOf
  <1> HIDE DEF b
  <1>4. <<Head(b)>> \o Tail(b) = b
    BY <1>1
  <1> QED
    BY <1>1, <1>3, <1>4

(* A proxy that connects comes last. *)
LEMMA ConnectQueue ==
  ASSUME NEW r \in DaemonType, NEW q \in DaemonType, NEW s \in Sockets, NEW p \in Proxies,
         q.held = r.held, q.backlog[s] = Append(r.backlog[s], p)
  PROVE  /\ Len(QueueOf(q, s)) = Len(QueueOf(r, s)) + 1
         /\ \A i \in 1..Len(QueueOf(r, s)) : QueueOf(q, s)[i] = QueueOf(r, s)[i]
         /\ QueueOf(q, s)[Len(QueueOf(r, s)) + 1] = p
  <1> DEFINE b == r.backlog[s]
             c == q.backlog[s]
  <1>1. b \in Seq(Proxies) /\ Len(b) \in Nat
    BY QueueShape
  <1>2. /\ Len(c) = Len(b) + 1 /\ c[Len(b) + 1] = p
        /\ \A i \in 1..Len(b) : c[i] = b[i]
    BY <1>1
  <1>3. CASE r.held[s] = Nobody
    <2>1. QueueOf(r, s) = b /\ QueueOf(q, s) = c
      BY <1>3 DEF QueueOf
    <2> QED
      BY <1>1, <1>2, <2>1
  <1>4. CASE r.held[s] # Nobody
    <2> DEFINE x == QueueOf(r, s)
               y == QueueOf(q, s)
    <2>1. /\ Len(x) = Len(b) + 1 /\ x[1] = r.held[s]
          /\ \A i \in 1..Len(b) : x[i + 1] = b[i]
      BY <1>4, QueueShape
    <2>2. /\ Len(y) = Len(c) + 1 /\ y[1] = r.held[s]
          /\ \A i \in 1..Len(c) : y[i + 1] = c[i]
      <3>1. q.held[s] # Nobody /\ q.held[s] = r.held[s]
        BY <1>4
      <3>2. /\ Len(QueueOf(q, s)) = Len(q.backlog[s]) + 1 /\ QueueOf(q, s)[1] = q.held[s]
            /\ \A i \in 1..Len(q.backlog[s]) : QueueOf(q, s)[i + 1] = q.backlog[s][i]
        BY <3>1, QueueShape
      <3> QED
        BY <3>1, <3>2
    <2> HIDE DEF x, y, b, c
    <2>3. Len(y) = Len(x) + 1
      BY <1>1, <1>2, <2>1, <2>2
    <2>4. y[Len(x) + 1] = p
      BY <1>1, <1>2, <2>1, <2>2
    <2>5. ASSUME NEW i \in 1..Len(x) PROVE y[i] = x[i]
      <3>1. CASE i = 1
        BY <2>1, <2>2, <3>1
      <3>2. CASE i # 1
        <4>1. i - 1 \in 1..Len(b) /\ (i - 1) + 1 = i
          BY <1>1, <2>1, <3>2
        <4>2. x[i] = b[i - 1] /\ y[i] = c[i - 1]
          BY <1>1, <1>2, <2>1, <2>2, <4>1
        <4> QED
          BY <1>2, <4>1, <4>2
      <3> QED
        BY <3>1, <3>2
    <2> QED
      BY <2>3, <2>4, <2>5 DEF x, y
  <1> QED
    BY <1>3, <1>4

InQueue(p, d, s) == \E i \in 1..Len(Queue(d, s)) : Queue(d, s)[i] = p

(* A proxy with streams.                                                   *)
Streaming == {"connecting", "forwarding"}

(* Proxies are launched in the order of their numbers, the next one when   *)
(* the one before is no longer on its way.                                 *)
LaunchOrder ==
    \A p, q \in Proxies : p < q /\ proxy[p].step \in Coming \cup {"unborn"} =>
        proxy[q].step = "unborn"

(* A proxy has no streams before it connects, all three when it forwards.  *)
Unconnected ==
    \A p \in Proxies : proxy[p].step \in BeforeConnect =>
        \A s \in Sockets : proxy[p].stream[s] = Nobody
Connected ==
    \A p \in Proxies : proxy[p].step = "forwarding" =>
        \A s \in Sockets : proxy[p].stream[s] # Nobody

(* Its streams are to one daemon, which its own proxy has spawned, and,    *)
(* while it connects, to the daemon that is alive.                         *)
OneServer ==
    \A p \in Proxies : proxy[p].step \in Streaming =>
        \A s, u \in Sockets :
            proxy[p].stream[s] \in Daemons /\ proxy[p].stream[u] \in Daemons =>
                proxy[p].stream[s] = proxy[p].stream[u]
Spawned ==
    \A p \in Proxies : \A s \in Sockets : proxy[p].stream[s] \in Daemons =>
        proxy[proxy[p].stream[s]].step \notin BeforeSpawn
LiveServer ==
    \A p \in Proxies : proxy[p].step = "connecting" =>
        \A s \in Sockets : proxy[p].stream[s] \in Daemons =>
            \A d \in Daemons : Alive(d) => proxy[p].stream[s] = d

(* A proxy is in no queue it has not joined, in the queue of a live daemon *)
(* that it has a stream to, and has a stream, if not a closed one, to a    *)
(* daemon in whose queue it is.                                            *)
Absent ==
    \A p \in Proxies : proxy[p].step \in Coming \cup {"unborn"} =>
        \A s \in Sockets : proxy[p].stream[s] = Nobody =>
            \A d \in Daemons : ~ InQueue(p, d, s)
Placed ==
    \A p \in Proxies : proxy[p].step \in Streaming =>
        \A s \in Sockets : \A d \in Daemons :
            proxy[p].stream[s] = d /\ Alive(d) => InQueue(p, d, s)
Owned ==
    \A p \in Proxies : proxy[p].step \in Streaming =>
        \A s \in Sockets : \A d \in Daemons :
            InQueue(p, d, s) => proxy[p].stream[s] \in {d, Closed}

(* A queue, dead proxies and all, is in the order of launch.               *)
Sorted ==
    \A d \in Daemons : \A s \in Sockets : \A i, j \in 1..Len(Queue(d, s)) :
        i < j => Queue(d, s)[i] < Queue(d, s)[j]

AllHeld ==
    \A d \in Daemons : daemon[d].life = "serving" => \A s \in Sockets : daemon[d].held[s] # Nobody

StreamInv ==
    /\ LaunchOrder /\ Unconnected /\ Connected /\ OneServer /\ Spawned /\ LiveServer
    /\ Absent /\ Placed /\ Owned /\ Sorted /\ AllHeld

(* A daemon's queues are sequences of proxies. *)
LEMMA QueueType ==
  ASSUME TypeInv, NEW d \in Daemons, NEW s \in Sockets
  PROVE  Queue(d, s) \in Seq(Proxies) /\ Len(Queue(d, s)) \in Nat
  <1>1. daemon[d] \in DaemonType
    BY DEF TypeInv, TypeOK
  <1> QED
    BY <1>1, QueueShape DEF Queue

(* What a daemon that serves holds is at the head of its queues. *)
LEMMA HeldFirst ==
  ASSUME TypeInv, StreamInv, NEW d \in Daemons, daemon[d].life = "serving", NEW s \in Sockets
  PROVE  /\ daemon[d].held[s] \in Proxies /\ 1 \in 1..Len(Queue(d, s))
         /\ Queue(d, s)[1] = daemon[d].held[s]
  <1>1. daemon[d] \in DaemonType /\ daemon[d].held[s] # Nobody
    BY DEF TypeInv, TypeOK, StreamInv, AllHeld
  <1>2. daemon[d].held[s] \in Proxies /\ Len(Queue(d, s)) \in Nat
    BY <1>1, DaemonFields, QueueType
  <1> QED
    BY <1>1, <1>2, QueueShape DEF Queue

(* Two proxies at work are not both at the head of a daemon's queues: the  *)
(* earlier one has its three streams, and is in all of its queues before   *)
(* the later one.                                                          *)
LEMMA NotCrossed ==
  ASSUME TypeInv, StreamInv, NEW d \in Daemons, daemon[d].life = "serving",
         NEW s \in Sockets, NEW u \in Sockets,
         AtWork(daemon[d].held[s]), AtWork(daemon[d].held[u])
  PROVE  ~ (daemon[d].held[s] < daemon[d].held[u])
  <1>1. PICK p \in Proxies : p = daemon[d].held[s]
    BY HeldFirst
  <1>2. PICK q \in Proxies : q = daemon[d].held[u]
    BY HeldFirst
  <1> SUFFICES ASSUME p < q PROVE FALSE
    BY <1>1, <1>2
  <1>3. /\ proxy[p].step \in Streaming /\ proxy[q].step \in Streaming
        /\ \A t \in Sockets : proxy[p].stream[t] # Closed
    BY <1>1, <1>2 DEF AtWork, Streaming
  <1>4. proxy[p].step = "forwarding"
    BY <1>3 DEF StreamInv, LaunchOrder, Streaming, Coming
  <1>5. InQueue(p, d, s) /\ Alive(d)
    BY <1>1, HeldFirst DEF InQueue, Alive
  <1>6. proxy[p].stream[s] = d
    BY <1>3, <1>5 DEF StreamInv, Owned
  <1>7. proxy[p].stream[u] \in Daemons
    <2>1. proxy[p] \in ProxyType
      BY DEF TypeInv, TypeOK
    <2> QED
      BY <1>3, <1>4, <2>1, ProxyFields DEF StreamInv, Connected
  <1>8. proxy[p].stream[u] = d
    BY <1>3, <1>6, <1>7 DEF StreamInv, OneServer
  <1>9. PICK i \in 1..Len(Queue(d, u)) : Queue(d, u)[i] = p
    BY <1>3, <1>5, <1>8 DEF StreamInv, Placed, InQueue
  <1>10. 1 \in 1..Len(Queue(d, u)) /\ Queue(d, u)[1] = q
    BY <1>2, HeldFirst
  <1>11. p \in Int /\ q \in Int /\ i # 1
    BY <1>9, <1>10 DEF Proxies
  <1>12. q < p
    BY <1>9, <1>10, <1>11, QueueType DEF StreamInv, Sorted
  <1> QED
    BY <1>11, <1>12

(* The steps of the proxies that launch nothing. *)
LEMMA NobodyLaunched ==
  ASSUME LaunchOrder,
         \A p \in Proxies :
            /\ proxy'[p].step \in Coming \cup {"unborn"} => proxy[p].step \in Coming \cup {"unborn"}
            /\ proxy[p].step = "unborn" => proxy'[p].step = "unborn"
  PROVE  LaunchOrder'
  BY DEF LaunchOrder

(* A proxy that stays as it is, or moves without joining a queue. *)
Kept(p) == proxy'[p].step = proxy[p].step /\ proxy'[p].stream = proxy[p].stream
Moved(p) ==
    /\ proxy'[p].step \notin {"unborn", "forwarding"}
    /\ proxy'[p].step \in Coming =>
          proxy[p].step \in BeforeConnect /\ proxy'[p].stream = proxy[p].stream
    /\ proxy'[p].step \in BeforeSpawn => proxy[p].step \in BeforeSpawn
    /\ \A s \in Sockets : proxy'[p].stream[s] \in Daemons =>
          proxy'[p].stream[s] = proxy[p].stream[s]

(* Nobody joins or leaves a queue, but the queues of a daemon that dies    *)
(* are emptied and a new daemon has nobody connected to it.                *)
LEMMA QuietStep ==
  ASSUME StreamInv, LaunchOrder', AllHeld',
         \A p \in Proxies : Kept(p) \/ Moved(p),
         \A d \in Daemons : \A s \in Sockets : Queue(d, s)' = Queue(d, s) \/ Queue(d, s)' = <<>>,
         \A d \in Daemons : Alive(d)' =>
            \/ Alive(d) /\ \A s \in Sockets : Queue(d, s)' = Queue(d, s)
            \/ /\ \A p \in Proxies : \A s \in Sockets : proxy'[p].stream[s] # d
               /\ \A p \in Proxies : proxy'[p].step # "connecting"
  PROVE  StreamInv'
  <1>0. Nobody \notin Daemons
    BY SameNumbers
  <1>1. \A p \in Proxies : \A d \in Daemons : \A s \in Sockets :
            InQueue(p, d, s)' => InQueue(p, d, s) /\ Queue(d, s)' = Queue(d, s)
    <2> SUFFICES ASSUME NEW p \in Proxies, NEW d \in Daemons, NEW s \in Sockets,
                        NEW i \in 1..Len(Queue(d, s)'), Queue(d, s)'[i] = p
                 PROVE  InQueue(p, d, s) /\ Queue(d, s)' = Queue(d, s)
      BY DEF InQueue
    <2>1. CASE Queue(d, s)' = Queue(d, s)
      BY <2>1 DEF InQueue
    <2>2. CASE Queue(d, s)' = <<>>
      BY <2>2
    <2> QED
      BY <2>1, <2>2
  <1>2. \A p \in Proxies : Moved(p) /\ proxy'[p].step \in Coming =>
            /\ proxy[p].step \in Coming \cup {"unborn"}
            /\ \A s \in Sockets : proxy[p].stream[s] = Nobody /\ proxy'[p].stream[s] = Nobody
    BY DEF Moved, StreamInv, Unconnected, BeforeConnect, BeforeSpawn, Coming
  <1>3. Unconnected'
    <2> SUFFICES ASSUME NEW p \in Proxies, proxy'[p].step \in BeforeConnect, NEW s \in Sockets
                 PROVE  proxy'[p].stream[s] = Nobody
      BY DEF Unconnected
    <2>1. CASE Kept(p)
      BY <2>1 DEF Kept, StreamInv, Unconnected
    <2>2. CASE Moved(p)
      BY <1>2, <2>2 DEF Moved, BeforeConnect, BeforeSpawn, Coming
    <2> QED
      BY <2>1, <2>2
  <1>4. Connected'
    BY DEF StreamInv, Connected, Kept, Moved
  <1>5. OneServer'
    <2> SUFFICES ASSUME NEW p \in Proxies, proxy'[p].step \in Streaming,
                        NEW s \in Sockets, NEW u \in Sockets,
                        proxy'[p].stream[s] \in Daemons, proxy'[p].stream[u] \in Daemons
                 PROVE  proxy'[p].stream[s] = proxy'[p].stream[u]
      BY DEF OneServer
    <2>1. CASE Kept(p)
      BY <2>1 DEF Kept, StreamInv, OneServer
    <2>2. CASE Moved(p)
      BY <1>0, <1>2, <2>2 DEF Moved, Streaming, Coming
    <2> QED
      BY <2>1, <2>2
  <1>6. Spawned'
    <2> SUFFICES ASSUME NEW p \in Proxies, NEW s \in Sockets, proxy'[p].stream[s] \in Daemons
                 PROVE  proxy'[proxy'[p].stream[s]].step \notin BeforeSpawn
      BY DEF Spawned
    <2>1. proxy'[p].stream[s] = proxy[p].stream[s]
      BY DEF Kept, Moved
    <2>2. PICK q \in Proxies : q = proxy[p].stream[s]
      BY <2>1, SameNumbers
    <2>3. proxy[q].step \notin BeforeSpawn
      BY <2>1, <2>2 DEF StreamInv, Spawned
    <2> QED
      BY <2>1, <2>2, <2>3 DEF Kept, Moved
  <1>7. LiveServer'
    <2> SUFFICES ASSUME NEW p \in Proxies, proxy'[p].step = "connecting", NEW s \in Sockets,
                        proxy'[p].stream[s] \in Daemons, NEW d \in Daemons, Alive(d)'
                 PROVE  proxy'[p].stream[s] = d
      BY DEF LiveServer
    <2>1. Alive(d)
      OBVIOUS
    <2>2. CASE Kept(p)
      BY <2>1, <2>2 DEF Kept, StreamInv, LiveServer
    <2>3. CASE Moved(p)
      BY <1>0, <1>2, <2>3 DEF Coming
    <2> QED
      BY <2>2, <2>3
  <1>8. Absent'
    <2> SUFFICES ASSUME NEW p \in Proxies, proxy'[p].step \in Coming \cup {"unborn"},
                        NEW s \in Sockets, proxy'[p].stream[s] = Nobody,
                        NEW d \in Daemons, InQueue(p, d, s)'
                 PROVE  FALSE
      BY DEF Absent
    <2>1. CASE Kept(p)
      BY <1>1, <2>1 DEF Kept, StreamInv, Absent
    <2>2. CASE Moved(p)
      <3>1. proxy'[p].step \in Coming
        BY <2>2 DEF Moved
      <3> QED
        BY <1>1, <1>2, <2>2, <3>1 DEF StreamInv, Absent
    <2> QED
      BY <2>1, <2>2
  <1>9. Placed'
    <2> SUFFICES ASSUME NEW p \in Proxies, proxy'[p].step \in Streaming, NEW s \in Sockets,
                        NEW d \in Daemons, proxy'[p].stream[s] = d, Alive(d)'
                 PROVE  InQueue(p, d, s)'
      BY DEF Placed
    <2>1. Alive(d) /\ Queue(d, s)' = Queue(d, s)
      OBVIOUS
    <2>2. CASE Kept(p)
      BY <2>1, <2>2 DEF Kept, StreamInv, Placed, InQueue
    <2>3. CASE Moved(p)
      BY <1>0, <1>2, <2>3 DEF Moved, Streaming, Coming
    <2> QED
      BY <2>2, <2>3
  <1>10. Owned'
    <2> SUFFICES ASSUME NEW p \in Proxies, proxy'[p].step \in Streaming, NEW s \in Sockets,
                        NEW d \in Daemons, InQueue(p, d, s)'
                 PROVE  proxy'[p].stream[s] \in {d, Closed}
      BY DEF Owned
    <2>1. CASE Kept(p)
      BY <1>1, <2>1 DEF Kept, StreamInv, Owned
    <2>2. CASE Moved(p)
      <3>1. proxy'[p].step \in Coming
        BY <2>2 DEF Moved, Streaming, Coming
      <3> QED
        BY <1>1, <1>2, <2>2, <3>1 DEF StreamInv, Absent
    <2> QED
      BY <2>1, <2>2
  <1>11. Sorted'
    <2> SUFFICES ASSUME NEW d \in Daemons, NEW s \in Sockets,
                        NEW i \in 1..Len(Queue(d, s)'), NEW j \in 1..Len(Queue(d, s)'), i < j
                 PROVE  Queue(d, s)'[i] < Queue(d, s)'[j]
      BY DEF Sorted
    <2>1. CASE Queue(d, s)' = Queue(d, s)
      BY <2>1 DEF StreamInv, Sorted
    <2>2. CASE Queue(d, s)' = <<>>
      BY <2>2
    <2> QED
      BY <2>1, <2>2
  <1> QED
    BY <1>3, <1>4, <1>5, <1>6, <1>7, <1>8, <1>9, <1>10, <1>11 DEF StreamInv

(* The queues of a daemon that died are empty. *)
LEMMA DeathQueues ==
  ASSUME TypeInv, NEW d \in Daemons \cup {Nobody}, daemon' = [daemon EXCEPT ![d] = Gone(@)]
  PROVE  /\ \A e \in Daemons : \A s \in Sockets :
              Queue(e, s)' = IF e = d THEN <<>> ELSE Queue(e, s)
         /\ \A e \in Daemons : Alive(e)' => e # d /\ Alive(e)
         /\ \A e \in Daemons : daemon'[e].life = "serving" =>
              daemon[e].life = "serving" /\ daemon'[e] = daemon[e]
  <1>1. \A e \in Daemons : daemon[e] \in DaemonType
    BY DEF TypeInv, TypeOK
  <1>2. \A e \in Daemons : daemon'[e] = IF e = d THEN Gone(daemon[e]) ELSE daemon[e]
    BY DeathFields
  <1>3. \A e \in Daemons : /\ Gone(daemon[e]).life = "dead"
                            /\ \A s \in Sockets : QueueOf(Gone(daemon[e]), s) = <<>>
    <2> TAKE e \in Daemons
    <2>1. /\ Gone(daemon[e]).life = "dead" /\ Gone(daemon[e]).held = NoSockets
          /\ Gone(daemon[e]).backlog = [s \in Sockets |-> <<>>]
      BY <1>1, GoneRecord
    <2> QED
      BY <2>1 DEF QueueOf, NoSockets
  <1>4. \A e \in Daemons : \A s \in Sockets : Queue(e, s)' = QueueOf(daemon'[e], s)
    BY DEF Queue
  <1> QED
    BY <1>2, <1>3, <1>4 DEF Queue, Alive

(* The end of a connection takes the first proxy out of each of the three  *)
(* queues, and closes its stream.                                          *)
LEMMA ConnectionEndsStreams ==
  ASSUME TypeInv, StreamInv, NEW d \in Daemons, ConnectionEnds(d)
  PROVE  StreamInv'
  <1>0. /\ daemon \in [Daemons -> DaemonType] /\ daemon[d] \in DaemonType
        /\ proxy \in [Proxies -> ProxyType] /\ daemon[d].life = "serving" /\ Alive(d)
        /\ Nobody \notin Daemons /\ Closed \notin Daemons /\ Closed # Nobody
    BY SameNumbers DEF TypeInv, TypeOK, ConnectionEnds, Alive, Nobody, Closed
  <1>1. /\ daemon'[d].life = "accepting" /\ daemon'[d].held = NoSockets
        /\ daemon'[d].backlog = daemon[d].backlog
        /\ \A e \in Daemons \ {d} : daemon'[e] = daemon[e]
    BY <1>0 DEF ConnectionEnds, DaemonType
  <1>2. \A p \in Proxies : /\ proxy'[p].step = proxy[p].step
                           /\ \A s \in Sockets : proxy'[p].stream[s] =
                                IF daemon[d].held[s] = p /\ proxy[p].stream[s] = d
                                THEN Closed ELSE proxy[p].stream[s]
    BY <1>0 DEF ConnectionEnds, ProxyType
  <1>3. \A p \in Proxies : \A s \in Sockets :
            /\ proxy'[p].stream[s] = Nobody <=> proxy[p].stream[s] = Nobody
            /\ proxy'[p].stream[s] \in Daemons => proxy'[p].stream[s] = proxy[p].stream[s]
    BY <1>0, <1>2
  <1>4. \A e \in Daemons : Alive(e)' <=> Alive(e)
    BY <1>0, <1>1 DEF Alive
  <1>5. \A e \in Daemons \ {d} : \A s \in Sockets : Queue(e, s)' = Queue(e, s)
    BY <1>1 DEF Queue
  <1>6. ASSUME NEW s \in Sockets
        PROVE  /\ Len(Queue(d, s)') = Len(Queue(d, s)) - 1
               /\ Len(Queue(d, s)) \in Nat /\ Len(Queue(d, s)) > 0
               /\ Queue(d, s)[1] = daemon[d].held[s]
               /\ \A i \in 1..Len(Queue(d, s)') : Queue(d, s)'[i] = Queue(d, s)[i + 1]
    <2>1. daemon[d].held[s] # Nobody
      BY <1>0 DEF StreamInv, AllHeld
    <2>2. Queue(d, s)' = daemon[d].backlog[s]
      BY <1>1 DEF Queue, QueueOf, NoSockets
    <2>3. /\ Len(Queue(d, s)) = Len(daemon[d].backlog[s]) + 1 /\ Len(daemon[d].backlog[s]) \in Nat
          /\ Queue(d, s)[1] = daemon[d].held[s]
          /\ \A i \in 1..Len(daemon[d].backlog[s]) : Queue(d, s)[i + 1] = daemon[d].backlog[s][i]
      BY <1>0, <2>1, QueueShape DEF Queue
    <2> QED
      BY <2>2, <2>3
  <1>7. ASSUME NEW p \in Proxies, NEW e \in Daemons, NEW s \in Sockets, InQueue(p, e, s)'
        PROVE  InQueue(p, e, s)
    <2>1. PICK i \in 1..Len(Queue(e, s)') : Queue(e, s)'[i] = p
      BY <1>7 DEF InQueue
    <2>2. CASE e # d
      BY <1>5, <2>1, <2>2 DEF InQueue
    <2>3. CASE e = d
      <3>1. i + 1 \in 1..Len(Queue(d, s)) /\ Queue(d, s)[i + 1] = p
        BY <1>6, <2>1, <2>3
      <3> QED
        BY <2>3, <3>1 DEF InQueue
    <2> QED
      BY <2>2, <2>3
  <1>8. LaunchOrder'
    BY <1>2, NobodyLaunched DEF StreamInv
  <1>9. Unconnected' /\ Connected'
    BY <1>2, <1>3 DEF StreamInv, Unconnected, Connected
  <1>10. OneServer' /\ LiveServer'
    BY <1>2, <1>3, <1>4 DEF StreamInv, OneServer, LiveServer
  <1>11. Spawned'
    BY <1>2, <1>3, SameNumbers DEF StreamInv, Spawned
  <1>12. Absent'
    BY <1>2, <1>3, <1>7 DEF StreamInv, Absent
  <1>13. Placed'
    <2> SUFFICES ASSUME NEW p \in Proxies, proxy[p].step \in Streaming, NEW s \in Sockets,
                        NEW e \in Daemons, proxy'[p].stream[s] = e, Alive(e)
                 PROVE  InQueue(p, e, s)'
      BY <1>2, <1>4 DEF Placed
    <2>1. proxy[p].stream[s] = e
      BY <1>3
    <2>2. PICK i \in 1..Len(Queue(e, s)) : Queue(e, s)[i] = p
      BY <2>1 DEF StreamInv, Placed, InQueue
    <2>3. CASE e # d
      BY <1>5, <2>2, <2>3 DEF InQueue
    <2>4. CASE e = d
      <3>1. i # 1
        BY <1>0, <1>2, <1>6, <2>1, <2>2, <2>4
      <3>2. i - 1 \in 1..Len(Queue(d, s)') /\ (i - 1) + 1 = i
        BY <1>6, <2>2, <2>4, <3>1
      <3>3. Queue(d, s)'[i - 1] = p
        BY <1>6, <2>2, <2>4, <3>2
      <3> QED
        BY <2>4, <3>2, <3>3 DEF InQueue
    <2> QED
      BY <2>3, <2>4
  <1>14. Owned'
    <2> SUFFICES ASSUME NEW p \in Proxies, proxy[p].step \in Streaming, NEW s \in Sockets,
                        NEW e \in Daemons, InQueue(p, e, s)
                 PROVE  proxy'[p].stream[s] \in {e, Closed}
      BY <1>2, <1>7 DEF Owned
    <2>1. proxy[p].stream[s] \in {e, Closed}
      BY DEF StreamInv, Owned
    <2> QED
      BY <1>2, <2>1
  <1>15. Sorted'
    <2> SUFFICES ASSUME NEW e \in Daemons, NEW s \in Sockets,
                        NEW i \in 1..Len(Queue(e, s)'), NEW j \in 1..Len(Queue(e, s)'), i < j
                 PROVE  Queue(e, s)'[i] < Queue(e, s)'[j]
      BY DEF Sorted
    <2>1. CASE e # d
      BY <1>5, <2>1 DEF StreamInv, Sorted
    <2>2. CASE e = d
      <3>1. i + 1 \in 1..Len(Queue(d, s)) /\ j + 1 \in 1..Len(Queue(d, s)) /\ i + 1 < j + 1
        BY <1>6, <2>2
      <3>2. Queue(d, s)[i + 1] < Queue(d, s)[j + 1]
        BY <3>1 DEF StreamInv, Sorted
      <3> QED
        BY <1>6, <2>2, <3>2
    <2> QED
      BY <2>1, <2>2
  <1>16. AllHeld'
    BY <1>1 DEF StreamInv, AllHeld
  <1> QED
    BY <1>8, <1>9, <1>10, <1>11, <1>12, <1>13, <1>14, <1>15, <1>16 DEF StreamInv

(* The daemons that stay alive keep their queues, and no proxy moves. *)
LEMMA QuietDaemons ==
  ASSUME StreamInv, AllHeld', proxy' = proxy,
         \A d \in Daemons : Alive(d)' => Alive(d),
         \A d \in Daemons : Alive(d)' => \A s \in Sockets : Queue(d, s)' = Queue(d, s),
         \A d \in Daemons : \A s \in Sockets : Queue(d, s)' = Queue(d, s) \/ Queue(d, s)' = <<>>
  PROVE  StreamInv'
  <1>1. LaunchOrder'
    BY NobodyLaunched DEF StreamInv
  <1>2. \A p \in Proxies : Kept(p)
    BY DEF Kept
  <1> QED
    BY <1>1, <1>2, QuietStep

(* What a daemon does keeps its queues in step. *)
LEMMA DaemonStreamStep ==
  ASSUME TypeInv, TypeInv', StreamInv, NEW d \in Daemons,
         DaemonStep(d) \/ IdleExit(d) \/ Quit(d) \/ Crash(d)
  PROVE  StreamInv'
  <1>0. /\ daemon \in [Daemons -> DaemonType] /\ daemon[d] \in DaemonType
        /\ daemon'[d] \in DaemonType
    BY DEF TypeInv, TypeOK
  <1>1. CASE daemon' = [daemon EXCEPT ![d] = Gone(@)] /\ proxy' = proxy
    <2>1. AllHeld'
      BY <1>1, DeathQueues DEF StreamInv, AllHeld
    <2>2. /\ \A e \in Daemons : \A s \in Sockets :
                Queue(e, s)' = IF e = d THEN <<>> ELSE Queue(e, s)
          /\ \A e \in Daemons : Alive(e)' => e # d /\ Alive(e)
      BY <1>1, DeathQueues
    <2> QED
      BY <1>1, <2>1, <2>2, QuietDaemons
  <1>2. ASSUME proxy' = proxy, Alive(d), daemon'[d].life # "serving",
               daemon'[d].held = daemon[d].held, daemon'[d].backlog = daemon[d].backlog,
               \A e \in Daemons \ {d} : daemon'[e] = daemon[e]
        PROVE  StreamInv'
    <2>1. AllHeld'
      BY <1>2 DEF StreamInv, AllHeld
    <2>2. \A e \in Daemons : \A s \in Sockets : Queue(e, s)' = Queue(e, s)
      BY <1>2 DEF Queue, QueueOf
    <2>3. \A e \in Daemons : Alive(e)' => Alive(e)
      BY <1>2 DEF Alive
    <2> QED
      BY <1>2, <2>1, <2>2, <2>3, QuietDaemons
  <1>3. CASE WritePidFile(d)
    <2>1. /\ proxy' = proxy /\ daemon[d].life = "started" /\ daemon'[d].life = "named"
          /\ daemon'[d].held = daemon[d].held /\ daemon'[d].backlog = daemon[d].backlog
          /\ \A e \in Daemons \ {d} : daemon'[e] = daemon[e]
      BY <1>0, <1>3 DEF WritePidFile, DaemonType
    <2> QED
      BY <1>2, <2>1 DEF Alive
  <1>4. CASE Bind(d) /\ daemon' # [daemon EXCEPT ![d] = Gone(@)]
    <2> DEFINE life == IF daemon[d].bound = 2 THEN "accepting" ELSE daemon[d].life
               bound == daemon[d].bound + 1
    <2>1. /\ daemon[d].life = "named" /\ proxy' = proxy
          /\ daemon' = [daemon EXCEPT ![d] = [@ EXCEPT !.bound = bound, !.life = life]]
      BY <1>4 DEF Bind
    <2>2. life # "serving"
      BY <2>1
    <2> HIDE DEF life, bound
    <2>3. /\ daemon'[d].life = life
          /\ daemon'[d].held = daemon[d].held /\ daemon'[d].backlog = daemon[d].backlog
          /\ \A e \in Daemons \ {d} : daemon'[e] = daemon[e]
      BY <1>0, <2>1 DEF DaemonType
    <2> QED
      BY <1>2, <2>1, <2>2, <2>3 DEF Alive
  <1>5. ASSUME NEW s \in Sockets, Accept(d, s) PROVE StreamInv'
    <2> DEFINE held == [daemon[d].held EXCEPT ![s] = Head(daemon[d].backlog[s])]
               rest == [daemon[d].backlog EXCEPT ![s] = Tail(daemon[d].backlog[s])]
               life == IF \E u \in Sockets : held[u] = Nobody THEN "accepting" ELSE "serving"
    <2>1. /\ daemon[d].life = "accepting" /\ daemon[d].held[s] = Nobody
          /\ daemon[d].backlog[s] # <<>> /\ proxy' = proxy
          /\ daemon' = [daemon EXCEPT ![d] = [@ EXCEPT !.backlog = rest, !.held = held, !.life = life]]
      BY <1>5 DEF Accept
    <2>2. life = "serving" => \A u \in Sockets : held[u] # Nobody
      OBVIOUS
    <2>3. /\ held[s] = Head(daemon[d].backlog[s]) /\ rest[s] = Tail(daemon[d].backlog[s])
          /\ \A u \in Sockets \ {s} : held[u] = daemon[d].held[u] /\ rest[u] = daemon[d].backlog[u]
      BY <1>0, DaemonFields
    <2> HIDE DEF held, rest, life
    <2>4. /\ daemon'[d].life = life /\ daemon'[d].held = held /\ daemon'[d].backlog = rest
          /\ \A e \in Daemons \ {d} : daemon'[e] = daemon[e]
      BY <1>0, <2>1 DEF DaemonType
    <2>5. QueueOf(daemon'[d], s) = QueueOf(daemon[d], s)
      <3>1. /\ daemon'[d].held[s] = Head(daemon[d].backlog[s])
            /\ daemon'[d].backlog[s] = Tail(daemon[d].backlog[s])
        BY <2>3, <2>4
      <3> DEFINE a == daemon[d]
                 b == daemon'[d]
      <3>2. /\ a \in DaemonType /\ b \in DaemonType /\ a.held[s] = Nobody /\ a.backlog[s] # <<>>
            /\ b.held[s] = Head(a.backlog[s]) /\ b.backlog[s] = Tail(a.backlog[s])
        BY <1>0, <2>1, <3>1
      <3> HIDE DEF a, b
      <3>3. QueueOf(b, s) = QueueOf(a, s)
        BY <3>2, AcceptQueue
      <3> QED
        BY <3>3 DEF a, b
    <2>6. \A u \in Sockets \ {s} : QueueOf(daemon'[d], u) = QueueOf(daemon[d], u)
      BY <2>3, <2>4 DEF QueueOf
    <2>7. \A e \in Daemons : \A u \in Sockets : Queue(e, u)' = Queue(e, u)
      BY <2>4, <2>5, <2>6 DEF Queue
    <2>8. \A e \in Daemons : Alive(e)' => Alive(e)
      BY <2>1, <2>4 DEF Alive
    <2>9. AllHeld'
      BY <2>2, <2>4 DEF StreamInv, AllHeld
    <2> QED
      BY <2>1, <2>7, <2>8, <2>9, QuietDaemons
  <1>6. IdleExit(d) \/ Quit(d) \/ Crash(d) =>
          daemon' = [daemon EXCEPT ![d] = Gone(@)] /\ proxy' = proxy
    BY DEF IdleExit, Quit, Crash
  <1>7. Bind(d) => proxy' = proxy
    BY DEF Bind
  <1> QED
    BY <1>1, <1>3, <1>4, <1>5, <1>6, <1>7, ConnectionEndsStreams DEF DaemonStep

(* A proxy joins one more queue, at its end, where it is the latest. *)
LEMMA ConnectStreams ==
  ASSUME TypeInv, TypeInv', FilesInv, StreamInv, NEW p \in Proxies, NEW s \in Sockets,
         Connect(p, s), Listens(sock[s])
  PROVE  StreamInv'
  <1>a. sock[s] \in Daemons /\ sock[s] # Nobody /\ Alive(sock[s])
    BY SameNumbers DEF TypeInv, TypeOK, Listens
  <1>b. PICK d \in Daemons : d = sock[s]
    BY <1>a
  <1> DEFINE queue == [daemon[d].backlog EXCEPT ![s] = Append(daemon[d].backlog[s], p)]
             stream == [proxy[p].stream EXCEPT ![s] = d]
             joined == Completes(p, s)
             step == IF Completes(p, s) THEN "forwarding" ELSE "connecting"
  <1>0. /\ daemon \in [Daemons -> DaemonType] /\ proxy \in [Proxies -> ProxyType]
        /\ d \in Daemons /\ d # Nobody /\ Alive(d) /\ proxy[p] \in ProxyType
        /\ daemon[d] \in DaemonType /\ daemon'[d] \in DaemonType
    BY <1>a, <1>b DEF TypeInv, TypeOK
  <1>1. /\ proxy[p].step = "connecting" /\ proxy[p].stream[s] = Nobody
        /\ daemon' = [daemon EXCEPT ![d] = [@ EXCEPT !.backlog = queue]]
        /\ proxy' = [proxy EXCEPT ![p] = [@ EXCEPT !.stream = stream, !.joined = joined, !.step = step]]
    BY <1>b DEF Connect
  <1>2. /\ queue[s] = Append(daemon[d].backlog[s], p)
        /\ \A u \in Sockets \ {s} : queue[u] = daemon[d].backlog[u]
        /\ stream[s] = d /\ \A u \in Sockets \ {s} : stream[u] = proxy[p].stream[u]
    BY <1>0, DaemonFields, ProxyFields
  <1>3. /\ step \in Streaming
        /\ step = "forwarding" => \A u \in Sockets \ {s} : proxy[p].stream[u] # Nobody
    BY DEF Completes, Streaming
  <1> HIDE DEF queue, stream, joined, step
  <1>4. /\ daemon'[d].life = daemon[d].life /\ daemon'[d].held = daemon[d].held
        /\ daemon'[d].backlog = queue
        /\ \A e \in Daemons \ {d} : daemon'[e] = daemon[e]
    BY <1>0, <1>1 DEF DaemonType
  <1>5. /\ proxy'[p].step = step /\ proxy'[p].stream = stream
        /\ \A q \in Proxies \ {p} : proxy'[q] = proxy[q]
    BY <1>0, <1>1 DEF ProxyType
  <1>6. \A e \in Daemons : (Alive(e)' <=> Alive(e)) /\ (Alive(e) => e = d)
    BY <1>0, <1>4 DEF Alive, FilesInv, OneAlive
  <1>7. \A q \in Proxies \ {p} : proxy[q].step \notin Coming
    BY <1>1 DEF FilesInv, OneComing, Coming
  <1>8. \A e \in Daemons : \A u \in Sockets : e # d \/ u # s => Queue(e, u)' = Queue(e, u)
    BY <1>2, <1>4 DEF Queue, QueueOf
  <1>9. /\ Len(Queue(d, s)) \in Nat /\ Len(Queue(d, s)') = Len(Queue(d, s)) + 1
        /\ \A i \in 1..Len(Queue(d, s)) : Queue(d, s)'[i] = Queue(d, s)[i]
        /\ Queue(d, s)'[Len(Queue(d, s)) + 1] = p
    <2> DEFINE a == daemon[d]
               b == daemon'[d]
    <2>1. a \in DaemonType /\ b \in DaemonType /\ b.held = a.held
          /\ b.backlog[s] = Append(a.backlog[s], p)
      BY <1>0, <1>2, <1>4
    <2> HIDE DEF a, b
    <2>2. /\ Len(QueueOf(b, s)) = Len(QueueOf(a, s)) + 1
          /\ \A i \in 1..Len(QueueOf(a, s)) : QueueOf(b, s)[i] = QueueOf(a, s)[i]
          /\ QueueOf(b, s)[Len(QueueOf(a, s)) + 1] = p
      BY <2>1, ConnectQueue
    <2>3. Queue(d, s)' = QueueOf(b, s) /\ Queue(d, s) = QueueOf(a, s)
      BY DEF Queue, a, b
    <2> QED
      BY <1>0, <2>2, <2>3, QueueType
  <1>10. \A q \in Proxies : \A e \in Daemons : \A u \in Sockets :
            InQueue(q, e, u)' <=> InQueue(q, e, u) \/ (q = p /\ e = d /\ u = s)
    <2> TAKE q \in Proxies
    <2> TAKE e \in Daemons
    <2> TAKE u \in Sockets
    <2>1. CASE e # d \/ u # s
      BY <1>8, <2>1 DEF InQueue
    <2>2. CASE e = d /\ u = s
      <3>1. InQueue(q, d, s)' => InQueue(q, d, s) \/ q = p
        <4> SUFFICES ASSUME NEW i \in 1..Len(Queue(d, s)'), Queue(d, s)'[i] = q, q # p
                     PROVE  InQueue(q, d, s)
          BY DEF InQueue
        <4>1. i \in 1..Len(Queue(d, s))
          BY <1>9
        <4> QED
          BY <1>9, <4>1 DEF InQueue
      <3>2. InQueue(q, d, s) => InQueue(q, d, s)'
        <4> SUFFICES ASSUME NEW i \in 1..Len(Queue(d, s)), Queue(d, s)[i] = q
                     PROVE  InQueue(q, d, s)'
          BY DEF InQueue
        <4>1. i \in 1..Len(Queue(d, s)')
          BY <1>9
        <4> QED
          BY <1>9, <4>1 DEF InQueue
      <3>3. InQueue(p, d, s)'
        <4>1. Len(Queue(d, s)) + 1 \in 1..Len(Queue(d, s)')
          BY <1>9
        <4> QED
          BY <1>9, <4>1 DEF InQueue
      <3> QED
        BY <2>2, <3>1, <3>2, <3>3
    <2> QED
      BY <2>1, <2>2
  <1>11. \A u \in Sockets : stream[u] = Nobody => u # s /\ proxy[p].stream[u] = Nobody
    BY <1>0, <1>2
  <1>12. \A u \in Sockets : stream[u] \in Daemons => stream[u] = d
    BY <1>0, <1>1, <1>2 DEF StreamInv, LiveServer
  <1>13. LaunchOrder'
    BY <1>1, <1>3, <1>5, NobodyLaunched DEF StreamInv, Coming, Streaming
  <1>14. Unconnected'
    BY <1>3, <1>5 DEF StreamInv, Unconnected, BeforeConnect, BeforeSpawn, Streaming
  <1>15. Connected'
    BY <1>0, <1>2, <1>3, <1>5 DEF StreamInv, Connected
  <1>16. OneServer'
    <2> SUFFICES ASSUME NEW q \in Proxies, proxy'[q].step \in Streaming,
                        NEW t \in Sockets, NEW u \in Sockets,
                        proxy'[q].stream[t] \in Daemons, proxy'[q].stream[u] \in Daemons
                 PROVE  proxy'[q].stream[t] = proxy'[q].stream[u]
      BY DEF OneServer
    <2>1. CASE q = p
      BY <1>5, <1>12, <2>1
    <2>2. CASE q # p
      BY <1>5, <2>2 DEF StreamInv, OneServer
    <2> QED
      BY <2>1, <2>2
  <1>17. Spawned'
    <2> SUFFICES ASSUME NEW q \in Proxies, NEW u \in Sockets, proxy'[q].stream[u] \in Daemons
                 PROVE  proxy'[proxy'[q].stream[u]].step \notin BeforeSpawn
      BY DEF Spawned
    <2>1. PICK e \in Proxies : e = proxy'[q].stream[u]
      BY SameNumbers
    <2>2. proxy[e].step \notin BeforeSpawn
      <3>1. CASE q = p
        <4>1. e = d
          BY <1>5, <1>12, <2>1, <3>1
        <4> QED
          BY <1>0, <4>1 DEF TypeInv, NotYetBorn, Alive
      <3>2. CASE q # p
        BY <1>5, <2>1, <3>2 DEF StreamInv, Spawned
      <3> QED
        BY <3>1, <3>2
    <2>3. e = p => proxy'[e].step \notin BeforeSpawn
      BY <1>3, <1>5 DEF Streaming, BeforeSpawn
    <2>4. e # p => proxy'[e].step \notin BeforeSpawn
      BY <1>5, <2>2
    <2> QED
      BY <2>1, <2>3, <2>4
  <1>18. LiveServer'
    <2>1. \A q \in Proxies \ {p} : proxy'[q].step # "connecting"
      BY <1>5, <1>7 DEF Coming
    <2> QED
      BY <1>5, <1>6, <1>12, <2>1 DEF LiveServer
  <1>19. Absent'
    <2> SUFFICES ASSUME NEW q \in Proxies, proxy'[q].step \in Coming \cup {"unborn"},
                        NEW u \in Sockets, proxy'[q].stream[u] = Nobody,
                        NEW e \in Daemons, InQueue(q, e, u)'
                 PROVE  FALSE
      BY DEF Absent
    <2>1. CASE q = p
      <3>1. u # s /\ proxy[p].stream[u] = Nobody
        BY <1>5, <1>11, <2>1
      <3>2. InQueue(p, e, u)
        BY <1>10, <2>1, <3>1
      <3> QED
        BY <1>1, <3>1, <3>2 DEF StreamInv, Absent, Coming
    <2>2. CASE q # p
      BY <1>5, <1>10, <2>2 DEF StreamInv, Absent
    <2> QED
      BY <2>1, <2>2
  <1>20. Placed'
    <2> SUFFICES ASSUME NEW q \in Proxies, proxy'[q].step \in Streaming, NEW u \in Sockets,
                        NEW e \in Daemons, proxy'[q].stream[u] = e, Alive(e)
                 PROVE  InQueue(q, e, u)'
      BY <1>6 DEF Placed
    <2>1. CASE q = p /\ u = s
      <3>1. e = d
        BY <1>6
      <3> QED
        BY <1>10, <2>1, <3>1
    <2>2. CASE q = p /\ u # s
      <3>1. proxy[p].stream[u] = e /\ proxy[p].step \in Streaming
        BY <1>1, <1>2, <1>5, <2>2 DEF Streaming
      <3>2. InQueue(p, e, u)
        BY <3>1 DEF StreamInv, Placed
      <3> QED
        BY <1>10, <2>2, <3>2
    <2>3. CASE q # p
      <3>1. InQueue(q, e, u)
        BY <1>5, <2>3 DEF StreamInv, Placed
      <3> QED
        BY <1>10, <3>1
    <2> QED
      BY <2>1, <2>2, <2>3
  <1>21. Owned'
    <2> SUFFICES ASSUME NEW q \in Proxies, proxy'[q].step \in Streaming, NEW u \in Sockets,
                        NEW e \in Daemons, InQueue(q, e, u)'
                 PROVE  proxy'[q].stream[u] \in {e, Closed}
      BY DEF Owned
    <2>1. CASE q = p /\ u = s
      <3>1. ~ InQueue(p, e, s)
        BY <1>1 DEF StreamInv, Absent, Coming
      <3>2. e = d
        BY <1>10, <2>1, <3>1
      <3> QED
        BY <1>2, <1>5, <2>1, <3>2
    <2>2. CASE q = p /\ u # s
      <3>1. InQueue(p, e, u) /\ proxy[p].step \in Streaming
        BY <1>1, <1>10, <2>2 DEF Streaming
      <3>2. proxy[p].stream[u] \in {e, Closed}
        BY <3>1 DEF StreamInv, Owned
      <3> QED
        BY <1>2, <1>5, <2>2, <3>2
    <2>3. CASE q # p
      <3>1. InQueue(q, e, u)
        BY <1>10, <2>3
      <3> QED
        BY <1>5, <2>3, <3>1 DEF StreamInv, Owned
    <2> QED
      BY <2>1, <2>2, <2>3
  <1>22. ASSUME NEW i \in 1..Len(Queue(d, s)) PROVE Queue(d, s)[i] < p
    <2>1. PICK q \in Proxies : q = Queue(d, s)[i]
      BY <1>0, <1>22, QueueType
    <2>2. InQueue(q, d, s)
      BY <2>1 DEF InQueue
    <2>3. q # p
      BY <1>0, <1>1, <2>2 DEF StreamInv, Absent, Coming
    <2>4. proxy[q].step # "unborn"
      BY <1>0, <2>2 DEF StreamInv, Absent, Unconnected, BeforeConnect, BeforeSpawn
    <2>5. ~ (p < q)
      BY <1>1, <2>4 DEF StreamInv, LaunchOrder, Coming
    <2> QED
      BY <2>1, <2>3, <2>5 DEF Proxies
  <1>23. Sorted'
    <2> SUFFICES ASSUME NEW e \in Daemons, NEW u \in Sockets,
                        NEW i \in 1..Len(Queue(e, u)'), NEW j \in 1..Len(Queue(e, u)'), i < j
                 PROVE  Queue(e, u)'[i] < Queue(e, u)'[j]
      BY DEF Sorted
    <2>1. CASE e # d \/ u # s
      BY <1>8, <2>1 DEF StreamInv, Sorted
    <2>2. CASE e = d /\ u = s
      <3>1. i \in 1..Len(Queue(d, s)) /\ Queue(d, s)'[i] = Queue(d, s)[i]
        BY <1>9, <2>2
      <3>2. CASE j = Len(Queue(d, s)) + 1
        BY <1>9, <1>22, <2>2, <3>1, <3>2
      <3>3. CASE j # Len(Queue(d, s)) + 1
        <4>1. j \in 1..Len(Queue(d, s)) /\ Queue(d, s)'[j] = Queue(d, s)[j]
          BY <1>9, <2>2, <3>3
        <4> QED
          BY <2>2, <3>1, <4>1 DEF StreamInv, Sorted
      <3> QED
        BY <3>2, <3>3
    <2> QED
      BY <2>1, <2>2
  <1>24. AllHeld'
    BY <1>4 DEF StreamInv, AllHeld
  <1> QED
    BY <1>13, <1>14, <1>15, <1>16, <1>17, <1>18, <1>19, <1>20, <1>21, <1>23, <1>24 DEF StreamInv

(* One proxy that is under way moves without joining a queue. *)
LEMMA MoveStreams ==
  ASSUME StreamInv, NEW p \in Proxies, daemon' = daemon, Moved(p), proxy[p].step # "unborn",
         \A q \in Proxies \ {p} : proxy'[q] = proxy[q]
  PROVE  StreamInv'
  <1>1. LaunchOrder'
    <2>1. proxy'[p].step \in Coming \cup {"unborn"} => proxy[p].step \in Coming \cup {"unborn"}
      BY DEF Moved, BeforeConnect, BeforeSpawn, Coming
    <2> QED
      BY <2>1, NobodyLaunched DEF StreamInv
  <1>2. AllHeld'
    BY DEF StreamInv, AllHeld
  <1>3. \A q \in Proxies : Kept(q) \/ Moved(q)
    BY DEF Kept
  <1>4. \A d \in Daemons : \A s \in Sockets : Queue(d, s)' = Queue(d, s)
    BY DEF Queue
  <1>5. \A d \in Daemons : Alive(d)' => Alive(d)
    BY DEF Alive
  <1> QED
    BY <1>1, <1>2, <1>3, <1>4, <1>5, QuietStep

(* A new daemon has nobody connected to it. *)
LEMMA SpawnStreams ==
  ASSUME TypeInv, FilesInv, StreamInv, NEW p \in Proxies, SpawnServer(p)
  PROVE  StreamInv'
  <1>0. /\ daemon \in [Daemons -> DaemonType] /\ proxy \in [Proxies -> ProxyType]
        /\ daemon[p] \in DaemonType /\ proxy[p] \in ProxyType /\ p \in Daemons
    BY SameNumbers DEF TypeInv, TypeOK
  <1>1. /\ proxy[p].step = "spawning" /\ proxy'[p].step = "waiting"
        /\ proxy'[p].stream = proxy[p].stream
        /\ \A q \in Proxies \ {p} : proxy'[q] = proxy[q]
    BY <1>0 DEF SpawnServer, ProxyType
  <1>2. /\ daemon'[p].life = "started"
        /\ daemon'[p].held = daemon[p].held /\ daemon'[p].backlog = daemon[p].backlog
        /\ \A e \in Daemons \ {p} : daemon'[e] = daemon[e]
    BY <1>0 DEF SpawnServer, DaemonType
  <1>3. Moved(p)
    BY <1>1 DEF Moved, BeforeConnect, BeforeSpawn, Coming
  <1>4. \A q \in Proxies : Kept(q) \/ Moved(q)
    BY <1>1, <1>3 DEF Kept
  <1>5. LaunchOrder'
    BY <1>1, NobodyLaunched DEF StreamInv, Coming
  <1>6. AllHeld'
    BY <1>2 DEF StreamInv, AllHeld
  <1>7. \A d \in Daemons : \A s \in Sockets : Queue(d, s)' = Queue(d, s)
    BY <1>2 DEF Queue, QueueOf
  <1>8. \A d \in Daemons \ {p} : Alive(d)' => Alive(d)
    BY <1>2 DEF Alive
  <1>9. \A q \in Proxies : \A s \in Sockets : proxy'[q].stream[s] # p
    <2> SUFFICES ASSUME NEW q \in Proxies, NEW s \in Sockets, proxy[q].stream[s] = p PROVE FALSE
      BY <1>1
    <2>1. proxy[p].step \notin BeforeSpawn
      BY <1>0 DEF StreamInv, Spawned
    <2> QED
      BY <1>1, <2>1 DEF BeforeSpawn
  <1>10. \A q \in Proxies : proxy'[q].step # "connecting"
    BY <1>1 DEF FilesInv, OneComing, Coming
  <1> QED
    BY <1>4, <1>5, <1>6, <1>7, <1>8, <1>9, <1>10, QuietStep

(* A proxy that ends is in nobody's way: it keeps its places in the queues *)
(* and has no streams.                                                     *)
LEMMA ExitMoves ==
  ASSUME TypeInv, NEW p \in Proxies, NEW code, Exit(p, code)
  PROVE  Moved(p) /\ \A q \in Proxies \ {p} : proxy'[q] = proxy[q]
  <1>0. proxy \in [Proxies -> ProxyType] /\ proxy[p] \in ProxyType
    BY DEF TypeInv, TypeOK
  <1>1. /\ proxy'[p].step = "ended" /\ proxy'[p].stream = NoSockets
        /\ \A q \in Proxies \ {p} : proxy'[q] = proxy[q]
    BY <1>0 DEF Exit, ProxyType
  <1>2. \A s \in Sockets : proxy'[p].stream[s] \notin Daemons
    BY <1>1, SameNumbers DEF NoSockets
  <1> QED
    BY <1>1, <1>2 DEF Moved, Coming, BeforeSpawn

(* What a proxy does keeps the queues in order, when starts do not overlap. *)
LEMMA ProxyStreamStep ==
  ASSUME Overlap = FALSE, TypeInv, TypeInv', FilesInv, StreamInv, NEW p \in Proxies,
         ProxyStep(p) \/ ProxyDies(p) \/ (\E re \in BOOLEAN : Launch(p, re))
  PROVE  StreamInv'
  <1>0. /\ daemon \in [Daemons -> DaemonType] /\ proxy \in [Proxies -> ProxyType]
        /\ proxy[p] \in ProxyType /\ p \in Daemons
    BY SameNumbers DEF TypeInv, TypeOK
  <1>a. ASSUME NEW code, Exit(p, code), daemon' = daemon, proxy[p].step # "unborn"
        PROVE  StreamInv'
    BY <1>a, ExitMoves, MoveStreams
  <1>b. ASSUME NEW step, Goto(p, step), daemon' = daemon, proxy[p].step # "unborn",
               step \notin {"unborn", "forwarding"},
               step \in Coming => proxy[p].step \in BeforeConnect,
               step \in BeforeSpawn => proxy[p].step \in BeforeSpawn
        PROVE  StreamInv'
    <2>1. Moved(p) /\ \A q \in Proxies \ {p} : proxy'[q] = proxy[q]
      BY <1>b, GotoFields DEF Moved
    <2> QED
      BY <1>b, <2>1, MoveStreams
  <1>c. ASSUME NEW step \in {"looking", "connecting"},
               proxy' = [proxy EXCEPT ![p] = [@ EXCEPT !.step = step, !.seen = pidFile]],
               daemon' = daemon, proxy[p].step \in {"reading", "naming"},
               step = "looking" => proxy[p].step = "reading"
        PROVE  StreamInv'
    <2>1. /\ proxy'[p].step = step /\ proxy'[p].stream = proxy[p].stream
          /\ \A q \in Proxies \ {p} : proxy'[q] = proxy[q]
      BY <1>c, SeeFields
    <2>2. Moved(p)
      BY <1>c, <2>1 DEF Moved, BeforeConnect, BeforeSpawn, Coming
    <2> QED
      BY <1>c, <2>1, <2>2, MoveStreams
  <1>1. CASE ReadPidFile(p)
    <2>0. proxy[p].step = "reading" /\ daemon' = daemon
      BY <1>1 DEF ReadPidFile
    <2>1. CASE Exit(p, 90)
      BY <1>a, <2>0, <2>1
    <2>2. CASE Goto(p, "spawning")
      BY <1>b, <2>0, <2>2 DEF BeforeConnect, BeforeSpawn
    <2>3. CASE proxy' = [proxy EXCEPT ![p] = [@ EXCEPT !.step = "looking", !.seen = pidFile]]
      BY <1>c, <2>0, <2>3
    <2> QED
      BY <1>1, <2>1, <2>2, <2>3 DEF ReadPidFile, NotRunning
  <1>2. CASE LookUp(p)
    <2>0. proxy[p].step = "looking" /\ daemon' = daemon
      BY <1>2 DEF LookUp
    <2>1. CASE Exit(p, 1) \/ Exit(p, 90)
      BY <1>a, <2>0, <2>1
    <2>2. ASSUME NEW step \in {"spawning", "connecting", "killing"}, Goto(p, step) PROVE StreamInv'
      BY <1>b, <2>0, <2>2 DEF BeforeConnect, BeforeSpawn
    <2> QED
      BY <1>2, <2>1, <2>2 DEF LookUp, NotRunning
  <1>3. CASE KillRunningServer(p)
    <2>1. /\ proxy[p].step = "killing" /\ Goto(p, "cleaning")
          /\ daemon' = [daemon EXCEPT ![proxy[p].seen] = Gone(@)]
          /\ proxy[p].seen \in Daemons \cup {Nobody}
      BY <1>0, <1>3, ProxyFields DEF KillRunningServer
    <2>2. /\ proxy'[p].step = "cleaning" /\ proxy'[p].stream = proxy[p].stream
          /\ \A q \in Proxies \ {p} : proxy'[q] = proxy[q]
      BY <2>1, GotoFields
    <2>3. Moved(p)
      BY <2>1, <2>2 DEF Moved, BeforeConnect, BeforeSpawn, Coming
    <2>4. \A q \in Proxies : Kept(q) \/ Moved(q)
      BY <2>2, <2>3 DEF Kept
    <2>5. LaunchOrder'
      BY <2>1, <2>2, NobodyLaunched DEF StreamInv, Coming
    <2>6. PICK k \in Daemons \cup {Nobody} : k = proxy[p].seen
      BY <2>1
    <2>7. /\ \A e \in Daemons : \A s \in Sockets :
                Queue(e, s)' = IF e = k THEN <<>> ELSE Queue(e, s)
          /\ \A e \in Daemons : Alive(e)' => e # k /\ Alive(e)
          /\ \A e \in Daemons : daemon'[e].life = "serving" =>
                daemon[e].life = "serving" /\ daemon'[e] = daemon[e]
      BY <2>1, <2>6, DeathQueues
    <2>8. AllHeld'
      BY <2>7 DEF StreamInv, AllHeld
    <2> QED
      BY <2>4, <2>5, <2>7, <2>8, QuietStep
  <1>4. CASE CleanUp(p)
    BY <1>4, <1>b DEF CleanUp, BeforeConnect, BeforeSpawn
  <1>5. CASE SpawnServer(p)
    BY <1>5, SpawnStreams
  <1>6. CASE SocketsExist(p)
    BY <1>6, <1>b DEF SocketsExist, BeforeConnect, BeforeSpawn
  <1>7. CASE WaitTimesOut(p)
    BY <1>7, <1>a DEF WaitTimesOut
  <1>8. CASE ReadNewPid(p)
    <2>0. proxy[p].step = "naming" /\ daemon' = daemon
      BY <1>8 DEF ReadNewPid
    <2>1. CASE Exit(p, 1)
      BY <1>a, <2>0, <2>1
    <2>2. CASE proxy' = [proxy EXCEPT ![p] = [@ EXCEPT !.step = "connecting", !.seen = pidFile]]
      BY <1>c, <2>0, <2>2
    <2> QED
      BY <1>8, <2>1, <2>2 DEF ReadNewPid
  <1>9. CASE StreamLost(p)
    BY <1>9, <1>b DEF StreamLost, Coming, BeforeSpawn
  <1>10. CASE CheckServerRunning(p)
    BY <1>10, <1>a DEF CheckServerRunning
  <1>11. ASSUME NEW s \in Sockets, Connect(p, s) PROVE StreamInv'
    <2>1. CASE Listens(sock[s])
      BY <1>11, <2>1, ConnectStreams
    <2>2. CASE ~ Listens(sock[s])
      BY <1>11, <1>b, <2>2 DEF Connect, Coming, BeforeSpawn
    <2> QED
      BY <2>1, <2>2
  <1>12. CASE ProxyDies(p)
    BY <1>12, <1>a DEF ProxyDies
  <1>13. ASSUME NEW re \in BOOLEAN, Launch(p, re) PROVE StreamInv'
    <2>1. /\ proxy[p].step = "unborn" /\ Settled /\ daemon' = daemon
          /\ \A q \in Proxies : q < p => proxy[q].step # "unborn"
          /\ proxy'[p].step = "reading" /\ proxy'[p].stream = proxy[p].stream
          /\ \A q \in Proxies \ {p} : proxy'[q] = proxy[q]
      BY <1>0, <1>13, Zenon DEF Launch, ProxyType
    <2>2. Moved(p)
      BY <2>1 DEF Moved, BeforeConnect, BeforeSpawn, Coming
    <2>3. \A q \in Proxies : Kept(q) \/ Moved(q)
      BY <2>1, <2>2 DEF Kept
    <2>4. LaunchOrder'
      <3> SUFFICES ASSUME NEW q \in Proxies, NEW r \in Proxies, q < r,
                          proxy'[q].step \in Coming \cup {"unborn"}
                   PROVE  proxy'[r].step = "unborn"
        BY DEF LaunchOrder
      <3>1. q \in Int /\ r \in Int /\ p \in Int
        BY DEF Proxies
      <3>2. CASE q = p
        <4>1. proxy[r].step = "unborn"
          BY <2>1, <3>2 DEF StreamInv, LaunchOrder
        <4> QED
          BY <2>1, <3>1, <3>2, <4>1
      <3>3. CASE q # p
        <4>1. proxy[q].step = "unborn"
          BY <2>1, <3>3 DEF Settled, Coming
        <4>2. proxy[r].step = "unborn" /\ r # p
          BY <2>1, <4>1 DEF StreamInv, LaunchOrder
        <4> QED
          BY <2>1, <4>2
      <3> QED
        BY <3>2, <3>3
    <2>5. AllHeld'
      BY <2>1 DEF StreamInv, AllHeld
    <2>6. \A d \in Daemons : \A s \in Sockets : Queue(d, s)' = Queue(d, s)
      BY <2>1 DEF Queue
    <2>7. \A d \in Daemons : Alive(d)' => Alive(d)
      BY <2>1 DEF Alive
    <2> QED
      BY <2>3, <2>4, <2>5, <2>6, <2>7, QuietStep
  <1> QED
    BY <1>1, <1>2, <1>3, <1>4, <1>5, <1>6, <1>7, <1>8, <1>9, <1>10, <1>11, <1>12, <1>13
    DEF ProxyStep

(* Without overlapping starts the queues are in the order of launch.       *)
LEMMA StreamInvariant ==
  ASSUME Overlap = FALSE
  PROVE  Spec => [](TypeInv /\ StreamInv)
  <1>1. Init => StreamInv
    <2> SUFFICES ASSUME Init PROVE StreamInv
      OBVIOUS
    <2>1. /\ \A p \in Proxies : proxy[p].step = "unborn"
          /\ \A p \in Proxies : \A s \in Sockets : proxy[p].stream[s] = Nobody
          /\ \A d \in Daemons : daemon[d].life = "unborn"
          /\ \A d \in Daemons : \A s \in Sockets : Queue(d, s) = <<>>
      BY DEF Init, Queue, QueueOf
    <2>2. LaunchOrder /\ Unconnected /\ Connected /\ LiveServer /\ AllHeld
      BY <2>1 DEF LaunchOrder, Unconnected, Connected, LiveServer, AllHeld
    <2>3. OneServer /\ Spawned
      BY <2>1, SameNumbers DEF OneServer, Spawned
    <2>4. \A p \in Proxies : \A d \in Daemons : \A s \in Sockets : ~ InQueue(p, d, s)
      BY <2>1 DEF InQueue
    <2>5. Absent /\ Placed /\ Owned
      BY <2>1, <2>4 DEF Absent, Placed, Owned, Streaming
    <2>6. Sorted
      BY <2>1 DEF Sorted
    <2> QED
      BY <2>2, <2>3, <2>5, <2>6 DEF StreamInv
  <1>2. TypeInv /\ TypeInv' /\ FilesInv /\ StreamInv /\ [Next]_vars => StreamInv'
    <2> SUFFICES ASSUME TypeInv, TypeInv', FilesInv, StreamInv, [Next]_vars PROVE StreamInv'
      OBVIOUS
    <2>1. CASE UNCHANGED vars
      <3>1. proxy' = proxy /\ daemon' = daemon
        BY <2>1 DEF vars
      <3>2. AllHeld'
        BY <3>1 DEF StreamInv, AllHeld
      <3>3. \A d \in Daemons : \A s \in Sockets : Queue(d, s)' = Queue(d, s)
        BY <3>1 DEF Queue
      <3>4. \A d \in Daemons : Alive(d)' => Alive(d)
        BY <3>1 DEF Alive
      <3> QED
        BY <3>1, <3>2, <3>3, <3>4, QuietDaemons
    <2>2. CASE Next
      BY <2>2, DaemonStreamStep, ProxyStreamStep DEF Next
    <2> QED
      BY <2>1, <2>2
  <1> QED
    BY <1>1, <1>2, FilesInvariant, PTL DEF Spec

(* When starts do not overlap, the streams a daemon serves as one          *)
(* connection never come from two proxies that are both at work, wherever  *)
(* proxies were cut off, between two of their connects as well.            *)
THEOREM StreamsNotCrossedCorrect ==
  ASSUME Overlap = FALSE
  PROVE  Spec => []StreamsNotCrossed
  <1>1. TypeInv /\ StreamInv => StreamsNotCrossed
    <2> SUFFICES ASSUME TypeInv, StreamInv, NEW d \in Daemons, daemon[d].life = "serving",
                        NEW s \in Sockets, NEW u \in Sockets,
                        AtWork(daemon[d].held[s]), AtWork(daemon[d].held[u])
                 PROVE  daemon[d].held[s] = daemon[d].held[u]
      BY DEF StreamsNotCrossed
    <2>1. daemon[d].held[s] \in Int /\ daemon[d].held[u] \in Int
      <3>1. daemon[d].held[s] \in Proxies /\ daemon[d].held[u] \in Proxies
        BY HeldFirst
      <3> QED
        BY <3>1 DEF Proxies
    <2>2. ~ (daemon[d].held[s] < daemon[d].held[u]) /\ ~ (daemon[d].held[u] < daemon[d].held[s])
      BY NotCrossed
    <2> QED
      BY <2>1, <2>2
  <1> QED
    BY <1>1, StreamInvariant, PTL
=============================================================================
