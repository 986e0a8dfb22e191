-------------------------- MODULE SandboxRecovery ---------------------------
(***************************************************************************)
(* What is left when PaddleBoard dies in the middle of a sandboxed         *)
(* command, and what the next launch makes of it: records of the commands  *)
(* that were running, which are reported, and their containers, which are  *)
(* removed.                                                                *)
(*                                                                         *)
(* Source: crates/paddleboard_sandbox_recovery, the sandbox tool that      *)
(* writes the records (crates/agent/src/tools/sandbox_tool.rs), and the    *)
(* startup that takes them (crates/paddleboard/src/sandbox_recovery.rs).   *)
(* Processes share nothing but the journal directory, podman and the       *)
(* process table, and a process may die between any two steps.             *)
(***************************************************************************)
EXTENDS Integers, FiniteSets

CONSTANTS
    Pids,      \* process ids; one that is free is used again
    Commands,  \* sandboxed commands, each run at most once
    None       \* no process, no record at hand

ASSUME SandboxAssumption == None \notin Pids /\ None \notin Commands

VARIABLES
    single,     \* one PaddleBoard at a time.  The check is one of a release
                \* channel, and skipped by Dev and PADDLEBOARD_STATELESS,
                \* while all channels share the journal directory
    app,        \* the process of each pid
    record,     \* the files of the journal directory
    container,  \* what podman runs
    cmd,        \* the commands
    shown,      \* history: how often a command was reported, 2 for more
    unseen,     \* history: commands whose report died with its process
    faulty      \* history: commands whose record could not be read or removed

vars == <<single, app, record, container, cmd, shown, unseen, faulty>>

(* taking: take_interrupted_commands goes through the records `todo`; `at` *)
(*         is the current one, `read` what was read of it, and "remove"    *)
(*         once it is to be removed                                        *)
(* open:   the records are taken; windows, tools                           *)
(* other:  the pid is that of another program                              *)
App == [phase   : {"off", "taking", "open", "other"},
        todo    : SUBSET Commands,
        at      : Commands \cup {None},
        read    : {"none", "torn", "whole", "remove"},
        pending : SUBSET Commands,       \* for the first window's toast
        reaper  : {"waiting", "listed", "condemned", "done"},
        listed  : SUBSET Commands]       \* containers, by their command
Off == [phase |-> "off", todo |-> {}, at |-> None, read |-> "none",
        pending |-> {}, reaper |-> "waiting", listed |-> {}]

(* recording:   begin_command writes the record                            *)
(* prepared:    the record is written, or begin_command failed; the        *)
(*              terminal is next                                           *)
(* running:     podman run was started                                     *)
(* ended:       the tool's task is over                                    *)
(* cut:         the process died before it started the command             *)
(* interrupted: the process died while the command ran                     *)
Command == [step  : {"unborn", "recording", "prepared", "running", "ended",
                     "cut", "interrupted"},
            owner : Pids \cup {None},
            noted : BOOLEAN,    \* begin_command succeeded
            orphan : BOOLEAN]   \* history: its process is dead
Unborn == [step |-> "unborn", owner |-> None, noted |-> FALSE, orphan |-> FALSE]

Init ==
    /\ single \in BOOLEAN
    /\ app = [p \in Pids |-> Off]
    /\ record = [c \in Commands |-> "none"]
    /\ container = [c \in Commands |-> "none"]
    /\ cmd = [c \in Commands |-> Unborn]
    /\ shown = [c \in Commands |-> 0]
    /\ unseen = {}
    /\ faulty = {}

PaddleBoard(p) == app[p].phase \in {"taking", "open"}

-----------------------------------------------------------------------------
(* Mutant: all but this process count as gone, as if one PaddleBoard were  *)
(* all there can be. *)
owner_is_goneAlways(p, owner) == owner # p

(* Seen from process p.  A pid that is in use again looks alive.           *)
owner_is_gone(p, owner) == owner # p /\ app[owner].phase = "off"

(* The records that read_dir lists, all, some or none if it fails, are     *)
(* taken before anything else runs; containers are reaped in the           *)
(* background.                                                             *)
Launch(p) ==
    /\ app[p].phase = "off"
    /\ single => \A q \in Pids : ~PaddleBoard(q)
    /\ \E todo \in SUBSET {c \in Commands : record[c] # "none"} :
         app' = [app EXCEPT ![p] = [Off EXCEPT !.phase = "taking", !.todo = todo]]
    /\ UNCHANGED <<single, record, container, cmd, shown, unseen, faulty>>

(* A file that cannot be read looks like one that cannot be parsed.        *)
ReadRecord(p, c) ==
    /\ app[p].phase = "taking" /\ app[p].at = None
    /\ c \in app[p].todo
    /\ \/ /\ app' = [app EXCEPT ![p] = [@ EXCEPT !.todo = app[p].todo \ {c},
                                                 !.at = c, !.read = record[c]]]
          /\ UNCHANGED faulty
       \/ /\ app' = [app EXCEPT ![p] = [@ EXCEPT !.todo = app[p].todo \ {c},
                                                 !.at = c, !.read = "none"]]
          /\ faulty' = faulty \cup {c}
    /\ UNCHANGED <<single, record, container, cmd, shown, unseen>>

(* What was read is skipped if its owner is alive, kept for the report if  *)
(* it is not, and forgotten if it cannot be parsed.                        *)
JudgeRecord(p) ==
    /\ app[p].phase = "taking" /\ app[p].at # None /\ app[p].read # "remove"
    /\ LET c == app[p].at IN
       \/ /\ app[p].read = "whole" /\ ~owner_is_gone(p, cmd[c].owner)
          /\ app' = [app EXCEPT ![p] = [@ EXCEPT !.at = None, !.read = "none"]]
       \/ /\ app[p].read = "whole" /\ owner_is_gone(p, cmd[c].owner)
          /\ app' = [app EXCEPT ![p] = [@ EXCEPT !.read = "remove",
                                              !.pending = app[p].pending \cup {c}]]
       \/ /\ app[p].read # "whole"
          /\ app' = [app EXCEPT ![p].read = "remove"]
    /\ UNCHANGED <<single, record, container, cmd, shown, unseen, faulty>>

(* Mutant: records stay in the journal. *)
RemoveRecordNot(p) ==
    /\ app[p].phase = "taking" /\ app[p].read = "remove"
    /\ app' = [app EXCEPT ![p] = [@ EXCEPT !.at = None, !.read = "none"]]
    /\ UNCHANGED <<single, record, container, cmd, shown, unseen, faulty>>

(* A record that cannot be removed is logged and left.                     *)
RemoveRecord(p) ==
    /\ app[p].phase = "taking" /\ app[p].read = "remove"
    /\ app' = [app EXCEPT ![p] = [@ EXCEPT !.at = None, !.read = "none"]]
    /\ \/ record' = [record EXCEPT ![app[p].at] = "none"] /\ UNCHANGED faulty
       \/ faulty' = faulty \cup {app[p].at} /\ UNCHANGED record
    /\ UNCHANGED <<single, container, cmd, shown, unseen>>

Taken(p) ==
    /\ app[p].phase = "taking" /\ app[p].at = None
    /\ app[p].todo = {}
    /\ app' = [app EXCEPT ![p].phase = "open"]
    /\ UNCHANGED <<single, record, container, cmd, shown, unseen, faulty>>

(* The first window shows the toast.                                       *)
ShowToast(p) ==
    /\ app[p].phase = "open"
    /\ app[p].pending # {}
    /\ shown' = [c \in Commands |->
         IF c \in app[p].pending /\ shown[c] < 2 THEN shown[c] + 1 ELSE shown[c]]
    /\ app' = [app EXCEPT ![p].pending = {}]
    /\ UNCHANGED <<single, record, container, cmd, unseen, faulty>>

-----------------------------------------------------------------------------
(* reap_orphaned_containers: podman ps, the owners, podman rm.             *)

Reaping(p, step) == PaddleBoard(p) /\ app[p].reaper = step

ListContainers(p) ==
    /\ Reaping(p, "waiting")
    /\ app' = [app EXCEPT ![p] = [@ EXCEPT !.reaper = "listed",
                                           !.listed = {c \in Commands : container[c] = "up"}]]
    /\ UNCHANGED <<single, record, container, cmd, shown, unseen, faulty>>

orphaned_container_ids(p) ==
    /\ Reaping(p, "listed")
    /\ app' = [app EXCEPT ![p] = [@ EXCEPT !.reaper = "condemned",
         !.listed = {c \in app[p].listed : owner_is_gone(p, cmd[c].owner)}]]
    /\ UNCHANGED <<single, record, container, cmd, shown, unseen, faulty>>

(* podman rm may fail with some of them removed.                           *)
RemoveContainers(p) ==
    /\ Reaping(p, "condemned")
    /\ \E removed \in SUBSET app[p].listed :
         container' = [c \in Commands |->
           IF c \in removed THEN "gone" ELSE container[c]]
    /\ app' = [app EXCEPT ![p] = [@ EXCEPT !.reaper = "done", !.listed = {}]]
    /\ UNCHANGED <<single, record, cmd, shown, unseen, faulty>>

(* Podman is absent or stopped, or its output cannot be parsed.            *)
ReapFails(p) ==
    /\ Reaping(p, "waiting") \/ Reaping(p, "listed")
    /\ app' = [app EXCEPT ![p] = [@ EXCEPT !.reaper = "done", !.listed = {}]]
    /\ UNCHANGED <<single, record, container, cmd, shown, unseen, faulty>>

-----------------------------------------------------------------------------
(* The sandbox tool.                                                       *)

(* fs::write creates the file and then writes it.  If begin_command fails, *)
(* before the file is there or after, the command runs all the same.       *)
BeginCommand(p, c) ==
    /\ app[p].phase = "open"
    /\ cmd[c].step = "unborn"
    /\ \/ /\ record' = [record EXCEPT ![c] = "torn"]
          /\ cmd' = [cmd EXCEPT ![c] = [@ EXCEPT !.step = "recording", !.owner = p]]
       \/ /\ cmd' = [cmd EXCEPT ![c] = [@ EXCEPT !.step = "prepared", !.owner = p]]
          /\ UNCHANGED record
    /\ UNCHANGED <<single, app, container, shown, unseen, faulty>>

(* Mutant: begin_command returns before the content is written. *)
RecordedLate(c) ==
    /\ cmd[c].step = "recording"
    /\ cmd' = [cmd EXCEPT ![c] = [@ EXCEPT !.step = "prepared", !.noted = TRUE]]
    /\ UNCHANGED <<single, app, record, container, shown, unseen, faulty>>

(* The file may have been removed meanwhile; what is written then is lost. *)
Recorded(c) ==
    /\ cmd[c].step = "recording"
    /\ \/ /\ record' = [record EXCEPT ![c] = IF @ = "torn" THEN "whole" ELSE @]
          /\ cmd' = [cmd EXCEPT ![c] = [@ EXCEPT !.step = "prepared", !.noted = TRUE]]
       \/ /\ cmd' = [cmd EXCEPT ![c].step = "prepared"]
          /\ UNCHANGED record
    /\ UNCHANGED <<single, app, container, shown, unseen, faulty>>

(* create_terminal: podman run.                                            *)
StartCommand(c) ==
    /\ cmd[c].step = "prepared"
    /\ cmd' = [cmd EXCEPT ![c].step = "running"]
    /\ container' = [container EXCEPT ![c] = "starting"]
    /\ UNCHANGED <<single, app, record, shown, unseen, faulty>>

(* podman run is a process of its own: it, and the container, may outlive  *)
(* PaddleBoard and the terminal.                                           *)
ContainerStarts(c) ==
    /\ container[c] = "starting"
    /\ container' = [container EXCEPT ![c] = "up"]
    /\ UNCHANGED <<single, app, record, cmd, shown, unseen, faulty>>

ContainerExits(c) ==
    /\ container[c] \in {"starting", "up"}
    /\ container' = [container EXCEPT ![c] = "gone"]
    /\ UNCHANGED <<single, app, record, cmd, shown, unseen, faulty>>

(* Mutant: the record of a command that has ended stays. *)
ToolEndsKeeps(c) ==
    /\ cmd[c].step \in {"prepared", "running"}
    /\ cmd' = [cmd EXCEPT ![c].step = "ended"]
    /\ UNCHANGED <<single, app, record, container, shown, unseen, faulty>>

(* The tool's task ends or is dropped, and with it the InFlightCommand, if *)
(* there is one, which removes its file, if it can.                        *)
ToolEnds(c) ==
    /\ cmd[c].step \in {"prepared", "running"}
    /\ cmd' = [cmd EXCEPT ![c].step = "ended"]
    /\ \/ /\ record' = [record EXCEPT ![c] = IF cmd[c].noted THEN "none" ELSE @]
          /\ UNCHANGED faulty
       \/ /\ cmd[c].noted
          /\ faulty' = faulty \cup {c}
          /\ UNCHANGED record
    /\ UNCHANGED <<single, app, container, shown, unseen>>

-----------------------------------------------------------------------------
(* A crash, a force-quit, a kill: no destructor runs.                      *)
Died(k) == CASE k.step = "running" -> "interrupted"
             [] k.step = "ended" -> "ended"
             [] OTHER -> "cut"

Dies(p) ==
    /\ PaddleBoard(p)
    /\ app' = [app EXCEPT ![p] = Off]
    /\ cmd' = [c \in Commands |->
         IF cmd[c].owner = p /\ ~cmd[c].orphan
         THEN [cmd[c] EXCEPT !.orphan = TRUE, !.step = Died(cmd[c])]
         ELSE cmd[c]]
    /\ unseen' = unseen \cup app[p].pending
    /\ UNCHANGED <<single, record, container, shown, faulty>>

(* Another program gets, and gives back, a free pid.                       *)
OtherProgram(p) ==
    /\ \/ app[p].phase = "off" /\ app' = [app EXCEPT ![p].phase = "other"]
       \/ app[p].phase = "other" /\ app' = [app EXCEPT ![p] = Off]
    /\ UNCHANGED <<single, record, container, cmd, shown, unseen, faulty>>

-----------------------------------------------------------------------------
Next ==
    \/ \E p \in Pids :
         \/ Launch(p) \/ JudgeRecord(p) \/ RemoveRecord(p) \/ Taken(p) \/ ShowToast(p)
         \/ ListContainers(p) \/ orphaned_container_ids(p) \/ RemoveContainers(p)
         \/ ReapFails(p) \/ Dies(p) \/ OtherProgram(p)
         \/ \E c \in Commands : ReadRecord(p, c) \/ BeginCommand(p, c)
    \/ \E c \in Commands :
         \/ Recorded(c) \/ StartCommand(c) \/ ToolEnds(c)
         \/ ContainerStarts(c) \/ ContainerExits(c)

Spec == Init /\ [][Next]_vars

-----------------------------------------------------------------------------
(* Every variable has its type.                                            *)
TypeOK ==
    /\ single \in BOOLEAN
    /\ app \in [Pids -> App]
    /\ record \in [Commands -> {"none", "torn", "whole"}]
    /\ container \in [Commands -> {"none", "starting", "up", "gone"}]
    /\ cmd \in [Commands -> Command]
    /\ shown \in [Commands -> 0..2]
    /\ unseen \subseteq Commands
    /\ faulty \subseteq Commands

(* A command that was running when its process died, and whose record was  *)
(* written, is reported sooner or later: its record is still there, or a   *)
(* launch has it at hand, or it was shown, or the process that was to show *)
(* it died too (take_interrupted_commands removes records long before the  *)
(* first window).  Unless the file system fails, with one PaddleBoard at a *)
(* time.                                                                   *)
NotForgotten(c) ==
    cmd[c].step = "interrupted" /\ cmd[c].noted /\ c \notin faulty =>
      \/ record[c] = "whole" \/ shown[c] > 0 \/ c \in unseen
      \/ \E p \in Pids : c \in app[p].pending
InterruptedNotForgotten == single => \A c \in Commands : NotForgotten(c)

(* The same with several PaddleBoards at once: "Records owned by a live    *)
(* process ... are left in place" (take_interrupted_commands).             *)
InterruptedNeverForgotten == \A c \in Commands : NotForgotten(c)

(* take_interrupted_commands "removes their records so each is reported    *)
(* once": no command is shown twice, though launches may die between its   *)
(* reading and its removal.  Unless the file system fails, with one        *)
(* PaddleBoard at a time.                                                  *)
ReportedOnce == single => \A c \in Commands \ faulty : shown[c] <= 1

(* What is reported, or about to be, is a command that its process did not *)
(* see the end of: never one that has ended or still runs.  Unless the     *)
(* file system fails, with one PaddleBoard at a time: with several, what   *)
(* was read can be out of date when the owner is looked up.                *)
ReportsHonest ==
    single => \A c \in Commands \ faulty :
      (shown[c] > 0 \/ \E p \in Pids : c \in app[p].pending)
        => cmd[c].step \in {"cut", "interrupted"}

(* However many PaddleBoards there are, and however pids are used again    *)
(* between the listing, the look at the owners and podman rm, the          *)
(* container of a process that is alive is never removed.                  *)
LiveContainersKept ==
    [][\A p \in Pids : RemoveContainers(p) =>
         \A c \in app[p].listed : cmd[c].orphan]_vars
=============================================================================
