---------------------------- MODULE RemoteServer ----------------------------
(***************************************************************************)
(* The remote side of a connection: the daemon (`paddleboard-remote-server *)
(* run`), which outlives connections, and the proxies (`... proxy`) the    *)
(* client starts over SSH, one per connection, which find the daemon       *)
(* through a pid file and three Unix sockets.                              *)
(*                                                                         *)
(* Source: crates/remote_server/src/server.rs.  All processes are those of *)
(* one identifier, so they share the pid file and the socket paths.  The   *)
(* files are all that connects them: a process that ends removes nothing,  *)
(* and every check of a file can be out of date when it is acted upon.     *)
(***************************************************************************)
EXTENDS Integers, Sequences, FiniteSets

CONSTANTS
    MaxProxies,  \* bound: proxies the client starts
    MaxCrashes,  \* bound: daemon crashes
    Overlap      \* may a proxy be started while an earlier one, or the daemon
                 \* it spawned, is still on its way?

ASSUME BoundsAssumption ==
    MaxProxies \in Nat /\ MaxCrashes \in Nat /\ Overlap \in BOOLEAN

Proxies == 1..MaxProxies
Daemons == 1..MaxProxies     \* a proxy spawns at most one
Sockets == {"stdin", "stdout", "stderr"}
Nobody == 0                  \* no pid file, no socket file, no stream
Closed == -1                 \* a stream whose other end is gone

(* ServerListeners::new binds in this order.                               *)
BindOrder == <<"stdin", "stdout", "stderr">>

VARIABLES
    pidFile,  \* the daemon the pid file names
    sock,     \* the daemon that bound each socket file
    daemon,
    proxy,
    crashes

vars == <<pidFile, sock, daemon, proxy, crashes>>

Lives == {"unborn", "started", "named", "accepting", "serving", "dead"}
Steps == {"unborn", "reading", "looking", "killing", "cleaning", "spawning",
          "waiting", "naming", "connecting", "forwarding", "failed", "ended"}

(* Exit codes: 0 for none yet, 1 for an error, 90 for ServerNotRunning, and *)
(* 9 for a proxy that its transport took down.                              *)
DaemonType == [life    : Lives,
               bound   : 0..3,
               backlog : [Sockets -> Seq(Proxies)],
               held    : [Sockets -> Proxies \cup {Nobody}]]
ProxyType == [reconnecting : BOOLEAN,
              step   : Steps,
              seen   : Daemons \cup {Nobody},     \* server_pid
              child  : Daemons \cup {Nobody},     \* the daemon it spawned
              stream : [Sockets -> Daemons \cup {Nobody, Closed}],
              joined : BOOLEAN,                   \* it has had all three streams
              exit   : {0, 1, 9, 90}]

Init ==
    /\ pidFile = Nobody
    /\ sock = [s \in Sockets |-> Nobody]
    /\ daemon = [d \in Daemons |->
         [life |-> "unborn", bound |-> 0,
          backlog |-> [s \in Sockets |-> <<>>], held |-> [s \in Sockets |-> Nobody]]]
    /\ proxy = [p \in Proxies |->
         [reconnecting |-> FALSE, step |-> "unborn", seen |-> Nobody,
          child |-> Nobody, stream |-> [s \in Sockets |-> Nobody],
          joined |-> FALSE, exit |-> 0]]
    /\ crashes = 0

-----------------------------------------------------------------------------
Alive(d) == daemon[d].life \notin {"unborn", "dead"}

(* A daemon listens behind this socket file.                               *)
Listens(d) == d # Nobody /\ Alive(d)

NoSockets == [s \in Sockets |-> Nobody]

(* A process that is gone keeps no streams.                                *)
Gone(record) == [record EXCEPT !.life = "dead", !.bound = 0,
                    !.backlog = [s \in Sockets |-> <<>>], !.held = NoSockets]

(* Mutant: a killed process is reported the way a shell does. *)
ExitAsShell(p, code) ==
    proxy' = [proxy EXCEPT ![p] = [@ EXCEPT !.step = "ended",
                                            !.exit = IF code = 9 THEN 137 ELSE code,
                                            !.seen = Nobody, !.child = Nobody,
                                            !.stream = NoSockets]]

Exit(p, code) ==
    proxy' = [proxy EXCEPT ![p] = [@ EXCEPT !.step = "ended", !.exit = code,
                                            !.seen = Nobody, !.child = Nobody,
                                            !.stream = NoSockets]]

Goto(p, step) == proxy' = [proxy EXCEPT ![p].step = step]

-----------------------------------------------------------------------------
(* The daemon: execute_run and the accept loop of start_server.            *)

(* The pid file is written before the sockets are bound.                   *)
WritePidFile(d) ==
    /\ daemon[d].life = "started"
    /\ pidFile' = d
    /\ daemon' = [daemon EXCEPT ![d].life = "named"]
    /\ UNCHANGED <<sock, proxy, crashes>>

(* One bind.  A socket file that exists, whoever bound it, ends the daemon. *)
Bind(d) ==
    /\ daemon[d].life = "named"
    /\ LET s == BindOrder[daemon[d].bound + 1]
       IN  \/ /\ sock[s] = Nobody
              /\ sock' = [sock EXCEPT ![s] = d]
              /\ daemon' = [daemon EXCEPT
                   ![d] = [@ EXCEPT !.bound = daemon[d].bound + 1,
                       !.life = IF daemon[d].bound = 2 THEN "accepting"
                                ELSE daemon[d].life]]
           \/ /\ sock[s] # Nobody
              /\ daemon' = [daemon EXCEPT ![d] = Gone(@)]
              /\ UNCHANGED sock
    /\ UNCHANGED <<pidFile, proxy, crashes>>

(* Mutant: a listener with a new connection takes it over on its own. *)
AcceptTakesOver(d, s) ==
    /\ daemon[d].life \in {"accepting", "serving"}
    /\ daemon[d].backlog[s] # <<>>
    /\ LET held == [daemon[d].held EXCEPT ![s] = Head(daemon[d].backlog[s])]
       IN  daemon' = [daemon EXCEPT
             ![d] = [@ EXCEPT !.backlog[s] = Tail(daemon[d].backlog[s]),
                              !.held = held,
                              !.life = IF \E u \in Sockets : held[u] = Nobody
                                          THEN "accepting" ELSE "serving"]]
    /\ UNCHANGED <<pidFile, sock, proxy, crashes>>

(* The three listeners are accepted from side by side (join3); the         *)
(* connection is served once all three have one, whoever is at their ends. *)
Accept(d, s) ==
    /\ daemon[d].life = "accepting"
    /\ daemon[d].held[s] = Nobody
    /\ daemon[d].backlog[s] # <<>>
    /\ LET held == [daemon[d].held EXCEPT ![s] = Head(daemon[d].backlog[s])]
       IN  daemon' = [daemon EXCEPT
             ![d] = [@ EXCEPT !.backlog[s] = Tail(daemon[d].backlog[s]),
                              !.held = held,
                              !.life = IF \E u \in Sockets : held[u] = Nobody
                                          THEN "accepting" ELSE "serving"]]
    /\ UNCHANGED <<pidFile, sock, proxy, crashes>>

(* The proxy behind stdin or stdout is gone: the streams are dropped, also *)
(* those that another proxy is at the end of, and the loop accepts again.  *)
ConnectionEnds(d) ==
    /\ daemon[d].life = "serving"
    /\ \E s \in {"stdin", "stdout"} : proxy[daemon[d].held[s]].step = "ended"
    /\ daemon' = [daemon EXCEPT ![d] = [@ EXCEPT !.life = "accepting", !.held = NoSockets]]
    /\ proxy' = [p \in Proxies |->
         [proxy[p] EXCEPT !.stream = [s \in Sockets |->
            IF daemon[d].held[s] = p /\ proxy[p].stream[s] = d THEN Closed ELSE @[s]]]]
    /\ UNCHANGED <<pidFile, sock, crashes>>

(* IDLE_TIMEOUT, ten minutes without a connection.  It is far longer than  *)
(* the ten seconds a proxy waits for the daemon it spawned.                *)
IdleExit(d) ==
    /\ daemon[d].life = "accepting"
    /\ ~\E p \in Proxies : proxy[p].child = d /\ proxy[p].step \in {"waiting", "naming", "connecting"}
    /\ daemon' = [daemon EXCEPT ![d] = Gone(@)]
    /\ UNCHANGED <<pidFile, sock, proxy, crashes>>

(* The client asks the daemon it is connected to to shut down.             *)
Quit(d) ==
    /\ daemon[d].life = "serving"
    /\ proxy[daemon[d].held["stdin"]].step = "forwarding"
    /\ daemon' = [daemon EXCEPT ![d] = Gone(@)]
    /\ UNCHANGED <<pidFile, sock, proxy, crashes>>

Crash(d) ==
    /\ crashes < MaxCrashes
    /\ Alive(d)
    /\ crashes' = crashes + 1
    /\ daemon' = [daemon EXCEPT ![d] = Gone(@)]
    /\ UNCHANGED <<pidFile, sock, proxy>>

-----------------------------------------------------------------------------
(* A proxy: execute_proxy.                                                 *)

(* Assumed of the client without Overlap: RemoteClient kills a connection  *)
(* before it starts the next proxy, one at a time, so the proxy before it  *)
(* has ended or, its end not noticed yet, still forwards; and connecting   *)
(* anew takes longer than a daemon takes to come up.                       *)
Settled ==
    /\ \A p \in Proxies : proxy[p].step \in {"unborn", "forwarding", "ended"}
    /\ \A d \in Daemons : daemon[d].life \notin {"started", "named"}

(* Only a session that was connected since its last start is reconnected.  *)
Established(p) ==
    \E q \in Proxies :
        /\ q < p /\ proxy[q].joined
        /\ \A r \in Proxies : q < r /\ r < p => proxy[r].reconnecting

Launch(p, reconnecting) ==
    /\ proxy[p].step = "unborn"
    /\ \A q \in Proxies : q < p => proxy[q].step # "unborn"
    /\ reconnecting => Established(p)
    /\ Overlap \/ Settled
    /\ proxy' = [proxy EXCEPT ![p] = [@ EXCEPT !.step = "reading",
                                              !.reconnecting = reconnecting]]
    /\ UNCHANGED <<pidFile, sock, daemon, crashes>>

(* check_pid_file found no server.                                         *)
NotRunning(p) ==
    IF proxy[p].reconnecting THEN Exit(p, 90) ELSE Goto(p, "spawning")

ReadPidFile(p) ==
    /\ proxy[p].step = "reading"
    /\ \/ pidFile = Nobody /\ NotRunning(p)
       \/ /\ pidFile # Nobody
          /\ proxy' = [proxy EXCEPT ![p] = [@ EXCEPT !.step = "looking", !.seen = pidFile]]
    /\ UNCHANGED <<pidFile, sock, daemon, crashes>>

(* Mutant: the pid file is removed before the process is looked up. *)
LookUpRemoves(p) ==
    /\ proxy[p].step = "looking"
    /\ IF Alive(proxy[p].seen)
       THEN Goto(p, IF proxy[p].reconnecting THEN "connecting" ELSE "killing")
       ELSE NotRunning(p)
    /\ pidFile' = Nobody
    /\ UNCHANGED <<sock, daemon, crashes>>

(* The process table.  The pid file of a dead process is removed; if it is *)
(* gone by now, that is an error.                                          *)
LookUp(p) ==
    /\ proxy[p].step = "looking"
    /\ \/ /\ Alive(proxy[p].seen)
          /\ Goto(p, IF proxy[p].reconnecting THEN "connecting" ELSE "killing")
          /\ UNCHANGED pidFile
       \/ /\ ~Alive(proxy[p].seen)
          /\ IF pidFile = Nobody THEN Exit(p, 1) ELSE NotRunning(p)
          /\ pidFile' = Nobody
    /\ UNCHANGED <<sock, daemon, crashes>>

(* Mutant: the signal is not sent. *)
KillRunningServerNot(p) ==
    /\ proxy[p].step = "killing"
    /\ Goto(p, "cleaning")
    /\ UNCHANGED <<pidFile, sock, daemon, crashes>>

KillRunningServer(p) ==
    /\ proxy[p].step = "killing"
    /\ daemon' = [daemon EXCEPT ![proxy[p].seen] = Gone(@)]
    /\ Goto(p, "cleaning")
    /\ UNCHANGED <<pidFile, sock, crashes>>

CleanUp(p) ==
    /\ proxy[p].step = "cleaning"
    /\ pidFile' = Nobody
    /\ sock' = NoSockets
    /\ Goto(p, "spawning")
    /\ UNCHANGED <<daemon, crashes>>

(* Mutant: the socket files of a dead server are left in place. *)
SpawnServerKeepsSockets(p) ==
    /\ proxy[p].step = "spawning"
    /\ daemon' = [daemon EXCEPT ![p].life = "started"]
    /\ proxy' = [proxy EXCEPT ![p] = [@ EXCEPT !.step = "waiting", !.child = p]]
    /\ UNCHANGED <<pidFile, sock, crashes>>

(* spawn_server removes the socket files, then starts the daemon.          *)
SpawnServer(p) ==
    /\ proxy[p].step = "spawning"
    /\ sock' = NoSockets
    /\ daemon' = [daemon EXCEPT ![p].life = "started"]
    /\ proxy' = [proxy EXCEPT ![p] = [@ EXCEPT !.step = "waiting", !.child = p]]
    /\ UNCHANGED <<pidFile, crashes>>

SocketsExist(p) ==
    /\ proxy[p].step = "waiting"
    /\ \A s \in Sockets : sock[s] # Nobody
    /\ Goto(p, "naming")
    /\ UNCHANGED <<pidFile, sock, daemon, crashes>>

(* Mutant: the wait has no limit. *)
WaitTimesOutNever(p) == proxy[p].step = "waiting" /\ FALSE /\ UNCHANGED vars

(* Ten seconds have passed: a healthy daemon is up by then.                *)
WaitTimesOut(p) ==
    /\ proxy[p].step = "waiting"
    /\ \E s \in Sockets : sock[s] = Nobody
    /\ Overlap \/ ~Alive(proxy[p].child)
    /\ Exit(p, 1)
    /\ UNCHANGED <<pidFile, sock, daemon, crashes>>

ReadNewPid(p) ==
    /\ proxy[p].step = "naming"
    /\ \/ pidFile = Nobody /\ Exit(p, 1)
       \/ /\ pidFile # Nobody
          /\ proxy' = [proxy EXCEPT ![p] = [@ EXCEPT !.step = "connecting", !.seen = pidFile]]
    /\ UNCHANGED <<pidFile, sock, daemon, crashes>>

(* The other two of a proxy's streams are connected.                       *)
Completes(p, s) == \A u \in Sockets \ {s} : proxy[p].stream[u] # Nobody

(* The three tasks connect in any order; a socket file without a live      *)
(* daemon behind it refuses.                                               *)
Connect(p, s) ==
    /\ proxy[p].step = "connecting"
    /\ proxy[p].stream[s] = Nobody
    /\ LET d == sock[s]
       IN  \/ /\ Listens(d)
              /\ daemon' = [daemon EXCEPT ![d].backlog[s] = Append(@, p)]
              /\ proxy' = [proxy EXCEPT
                   ![p] = [@ EXCEPT !.stream[s] = d, !.joined = Completes(p, s),
                       !.step = IF Completes(p, s) THEN "forwarding" ELSE proxy[p].step]]
           \/ /\ ~Listens(d)
              /\ Goto(p, "failed")
              /\ UNCHANGED daemon
    /\ UNCHANGED <<pidFile, sock, crashes>>

(* A forwarding task reads the end of its stream.                          *)
StreamLost(p) ==
    /\ proxy[p].step \in {"connecting", "forwarding"}
    /\ \E s \in Sockets :
         LET d == proxy[p].stream[s]
         IN  d = Closed \/ (d \in Daemons /\ ~Alive(d))
    /\ Goto(p, "failed")
    /\ UNCHANGED <<pidFile, sock, daemon, crashes>>

(* check_server_running: kill -0.                                          *)
CheckServerRunning(p) ==
    /\ proxy[p].step = "failed"
    /\ Exit(p, IF Alive(proxy[p].seen) THEN 1 ELSE 90)
    /\ UNCHANGED <<pidFile, sock, daemon, crashes>>

(* The transport ends the proxy at any step, between two of its three      *)
(* connects as well: the SSH session dropped, or the client closed it.     *)
ProxyDies(p) ==
    /\ proxy[p].step \notin {"unborn", "ended"}
    /\ Exit(p, 9)
    /\ UNCHANGED <<pidFile, sock, daemon, crashes>>

-----------------------------------------------------------------------------
DaemonStep(d) ==
    \/ WritePidFile(d) \/ Bind(d) \/ ConnectionEnds(d)
    \/ \E s \in Sockets : Accept(d, s)

ProxyStep(p) ==
    \/ ReadPidFile(p) \/ LookUp(p) \/ KillRunningServer(p) \/ CleanUp(p)
    \/ SpawnServer(p) \/ SocketsExist(p) \/ WaitTimesOut(p) \/ ReadNewPid(p)
    \/ StreamLost(p) \/ CheckServerRunning(p)
    \/ \E s \in Sockets : Connect(p, s)

Next ==
    \/ \E d \in Daemons : DaemonStep(d) \/ IdleExit(d) \/ Quit(d) \/ Crash(d)
    \/ \E p \in Proxies :
         \/ ProxyStep(p) \/ ProxyDies(p)
         \/ \E r \in BOOLEAN : Launch(p, r)

Spec == Init /\ [][Next]_vars

(* Processes run; nobody has to crash, quit, idle out or be cut off.       *)
Fairness ==
    /\ \A d \in Daemons : WF_vars(DaemonStep(d))
    /\ \A p \in Proxies : WF_vars(ProxyStep(p))
FairSpec == Spec /\ Fairness

-----------------------------------------------------------------------------
TypeOK ==
    /\ pidFile \in Daemons \cup {Nobody}
    /\ sock \in [Sockets -> Daemons \cup {Nobody}]
    /\ daemon \in [Daemons -> DaemonType]
    /\ proxy \in [Proxies -> ProxyType]
    /\ crashes \in 0..MaxCrashes

Reachable(d) == pidFile = d /\ \A s \in Sockets : sock[s] = d

(* A daemon that is up can be found: the pid file and the sockets are its  *)
(* own.  One that cannot be found keeps the session's unsaved buffers and  *)
(* processes to itself until it idles out.                                 *)
NoOrphan ==
    \A d \in Daemons : daemon[d].life \in {"accepting", "serving"} => Reachable(d)

(* A proxy at work: it connects or forwards, and has lost no stream.       *)
AtWork(p) ==
    /\ proxy[p].step \in {"connecting", "forwarding"}
    /\ \A s \in Sockets : proxy[p].stream[s] # Closed

(* Of the three streams a daemon serves as one connection, no two come     *)
(* from different proxies that are both at work, whatever connections of   *)
(* dead proxies are left in the three backlogs: one connection's requests  *)
(* are never answered on another's output.                                 *)
StreamsNotCrossed ==
    \A d \in Daemons : daemon[d].life = "serving" =>
        \A s, u \in Sockets :
            AtWork(daemon[d].held[s]) /\ AtWork(daemon[d].held[u])
                => daemon[d].held[s] = daemon[d].held[u]

(* "reconnect to it if it is [running].  This way when your connection     *)
(* drops and is restarted, you can continue to work": a daemon does not    *)
(* close the streams of a proxy that has reconnected to it.                *)
ReconnectionKept ==
    \A p \in Proxies : proxy[p].reconnecting =>
        \A s \in Sockets : proxy[p].stream[s] # Closed

(* "attempted to reconnect, but no server running": a reconnecting proxy   *)
(* that says so, after which the client gives the session up, found no     *)
(* server that is up.                                                      *)
NotRunningHonest ==
    [][\A p \in Proxies :
         /\ proxy[p].step \in {"reading", "looking"}
         /\ proxy'[p].exit = 90
         => \A d \in Daemons : daemon[d].life \notin {"accepting", "serving"}]_vars

(* Whatever crashes, idle exits and dead proxies left behind, the next     *)
(* start gets its server and is connected to it, unless the transport ends *)
(* it on the way.                                                          *)
StartRecovers ==
    \A p \in Proxies :
        (proxy[p].step = "reading" /\ ~proxy[p].reconnecting /\ crashes = MaxCrashes)
            ~> (proxy[p].step = "forwarding" \/ proxy[p].exit = 9)

(* A proxy that starts does not hang: it forwards or ends with a code.     *)
ProxySettles ==
    \A p \in Proxies :
        (proxy[p].step = "reading") ~> (proxy[p].step \in {"forwarding", "ended"})
=============================================================================
