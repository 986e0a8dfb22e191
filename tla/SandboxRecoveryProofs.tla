----------------------- MODULE SandboxRecoveryProofs ------------------------
(***************************************************************************)
(* Proofs about SandboxRecovery, for any set of pids and of commands.      *)
(***************************************************************************)
EXTENDS SandboxRecovery, TLAPS

(* What every process keeps: only a launch takes records, and only a       *)
(* PaddleBoard has something to report.                                    *)
ProcessInv(p) ==
    /\ ~PaddleBoard(p) => app[p].pending = {}
    /\ app[p].phase # "taking" => app[p].at = None
    /\ app[p].at = None => app[p].read = "none"

(* The life of a command: as long as its process is not known dead it is   *)
(* open, and none of its steps is one that needs a death.                  *)
CommandInv(c) ==
    /\ cmd[c].step = "unborn" =>
         /\ cmd[c].owner = None /\ ~cmd[c].orphan /\ ~cmd[c].noted
         /\ record[c] = "none" /\ container[c] = "none"
    /\ cmd[c].step # "unborn" => cmd[c].owner \in Pids
    /\ cmd[c].step # "unborn" /\ ~cmd[c].orphan => app[cmd[c].owner].phase = "open"
    /\ cmd[c].orphan => cmd[c].step \in {"ended", "cut", "interrupted"}
    /\ cmd[c].step \in {"cut", "interrupted"} => cmd[c].orphan
    /\ record[c] = "whole" => cmd[c].noted
    /\ cmd[c].step = "recording" => ~cmd[c].noted
    /\ cmd[c].step = "ended" /\ c \notin faulty => record[c] # "whole"

(* What a reaper has listed, and what it has condemned.                    *)
ReaperInv(p, c) ==
    c \in app[p].listed =>
      /\ cmd[c].step # "unborn"
      /\ app[p].reaper = "condemned" => cmd[c].orphan

(* With one PaddleBoard at a time.  Nobody takes a record while a command  *)
(* runs, so that what was read is what is there; a command at hand or      *)
(* shown has lost its record, or is about to.                              *)
One == \A p, q \in Pids : PaddleBoard(p) /\ PaddleBoard(q) => p = q

TakeInv(p) ==
    app[p].at # None =>
      /\ app[p].read # "remove" =>
           app[p].read = record[app[p].at] \/ app[p].at \in faulty
      /\ app[p].read = "remove" =>
           \/ app[p].at \in app[p].pending \/ record[app[p].at] # "whole"
           \/ app[p].at \in faulty

PendingInv(p, c) ==
    c \in app[p].pending /\ c \notin faulty =>
      /\ cmd[c].step \in {"cut", "interrupted"}
      /\ shown[c] = 0
      /\ record[c] = "none" \/ (app[p].at = c /\ app[p].read = "remove")

ReportInv(c) ==
    /\ cmd[c].noted /\ cmd[c].step \in {"prepared", "running"} => record[c] = "whole"
    /\ cmd[c].step = "recording" => record[c] = "torn"
    /\ NotForgotten(c)
    /\ shown[c] > 0 /\ c \notin faulty =>
         /\ cmd[c].step \in {"cut", "interrupted"}
         /\ shown[c] = 1 /\ record[c] = "none"

(* The inductive invariant.                                                *)
Shared ==
    /\ \A p \in Pids : ProcessInv(p)
    /\ \A c \in Commands : CommandInv(c)
    /\ \A p \in Pids, c \in Commands : ReaperInv(p, c)
Alone ==
    single =>
      /\ One
      /\ \A p \in Pids : TakeInv(p)
      /\ \A p \in Pids, c \in Commands : PendingInv(p, c)
      /\ \A c \in Commands : ReportInv(c)
IInv == TypeOK /\ Shared /\ Alone

-----------------------------------------------------------------------------
(* Every initial state satisfies the invariant.                            *)
LEMMA InitInv == Init => IInv
BY SandboxAssumption
DEF Init, IInv, TypeOK, Shared, Alone, One, ProcessInv, CommandInv, ReaperInv,
    TakeInv, PendingInv, ReportInv, NotForgotten, PaddleBoard, App, Command, Off, Unborn

(* Each action preserves it.                                               *)

LEMMA LaunchInv ==
    ASSUME NEW p \in Pids, IInv, Launch(p)
    PROVE  IInv'
<1> USE SandboxAssumption DEF Launch, PaddleBoard, Off
<1>1. TypeOK'
  <2>1. PICK todo \in SUBSET Commands :
          app' = [app EXCEPT ![p] = [Off EXCEPT !.phase = "taking", !.todo = todo]]
    OBVIOUS
  <2>2. [Off EXCEPT !.phase = "taking", !.todo = todo] \in App
    BY DEF App
  <2>3. app' \in [Pids -> App]
    BY <2>1, <2>2 DEF IInv, TypeOK
  <2> QED
    BY <2>3 DEF IInv, TypeOK
<1>2. \A q \in Pids : ProcessInv(q)'
  BY DEF IInv, TypeOK, Shared, ProcessInv, PaddleBoard, App
<1>3. \A d \in Commands : CommandInv(d)'
  BY DEF IInv, TypeOK, Shared, CommandInv, App, Command
<1>4. \A q \in Pids, d \in Commands : ReaperInv(q, d)'
  BY DEF IInv, TypeOK, Shared, ReaperInv, CommandInv, App, Command
<1>5. ASSUME single' PROVE Alone'
  <2>1. single /\ Alone
    BY <1>5 DEF IInv
  <2>2. One'
    BY <2>1 DEF IInv, TypeOK, Alone, One, PaddleBoard, App
  <2>3. \A q \in Pids : TakeInv(q)'
    BY <2>1 DEF IInv, TypeOK, Shared, Alone, One, ProcessInv, CommandInv, TakeInv,
                PaddleBoard, App, Command
  <2>4. \A q \in Pids, d \in Commands : PendingInv(q, d)'
    BY <2>1 DEF IInv, TypeOK, Shared, Alone, One, ProcessInv, CommandInv, TakeInv,
                PendingInv, ReportInv, PaddleBoard, App, Command
  <2>5. \A d \in Commands : ReportInv(d)'
    BY <2>1 DEF IInv, TypeOK, Shared, Alone, One, ProcessInv, CommandInv, TakeInv,
                PendingInv, ReportInv, NotForgotten, PaddleBoard, App, Command
  <2> QED
    BY <2>2, <2>3, <2>4, <2>5 DEF Alone
<1> QED
  BY <1>1, <1>2, <1>3, <1>4, <1>5 DEF IInv, Shared, Alone

LEMMA ReadRecordInv ==
    ASSUME NEW p \in Pids, NEW c \in Commands, IInv, ReadRecord(p, c)
    PROVE  IInv'
<1>0. /\ app' \in [Pids -> App]
      /\ \A q \in Pids : q # p => app'[q] = app[q]
      /\ app[p].phase = "taking" /\ app'[p].phase = "taking"
      /\ app[p].at = None /\ app'[p].at = c
      /\ app'[p].pending = app[p].pending
      /\ app'[p].listed = app[p].listed /\ app'[p].reaper = app[p].reaper
      /\ \/ app'[p].read = record[c] /\ faulty' = faulty
         \/ app'[p].read = "none" /\ faulty' = faulty \cup {c}
      /\ UNCHANGED <<single, record, container, cmd, shown, unseen>>
  <2>1. app \in [Pids -> App] /\ app[p] \in App /\ record[c] \in {"none", "torn", "whole"}
    BY DEF IInv, TypeOK
  <2>2. PICK r \in {"none", "torn", "whole"} :
          /\ app' = [app EXCEPT ![p] = [@ EXCEPT !.todo = app[p].todo \ {c},
                                                 !.at = c, !.read = r]]
          /\ \/ r = record[c] /\ faulty' = faulty
             \/ r = "none" /\ faulty' = faulty \cup {c}
    BY <2>1 DEF ReadRecord
  <2>3. [app[p] EXCEPT !.todo = app[p].todo \ {c}, !.at = c, !.read = r] \in App
    BY <2>1 DEF App
  <2> QED
    BY <2>1, <2>2, <2>3 DEF ReadRecord, App
<1>1. TypeOK'
  BY <1>0 DEF IInv, TypeOK
<1>2. \A q \in Pids : ProcessInv(q)'
  BY <1>0, SandboxAssumption DEF IInv, Shared, ProcessInv, PaddleBoard
<1>3. \A d \in Commands : CommandInv(d)'
  <2>1. \A q \in Pids : app'[q].phase = app[q].phase
    BY <1>0
  <2> QED
    BY <1>0, <2>1 DEF IInv, Shared, CommandInv
<1>4. \A q \in Pids, d \in Commands : ReaperInv(q, d)'
  BY <1>0 DEF IInv, Shared, ReaperInv
<1>5. ASSUME single' PROVE Alone'
  <2>1. single /\ Alone
    BY <1>0, <1>5 DEF IInv
  <2>2. One'
    BY <1>0, <2>1 DEF Alone, One, PaddleBoard
  <2>3. \A q \in Pids : TakeInv(q)'
    BY <1>0, <2>1 DEF IInv, TypeOK, Alone, TakeInv
  <2>4. \A q \in Pids, d \in Commands : PendingInv(q, d)'
    BY <1>0, <2>1, SandboxAssumption DEF Alone, PendingInv
  <2>5. \A d \in Commands : ReportInv(d)'
    <3>1. \A q \in Pids : app'[q].pending = app[q].pending
      BY <1>0
    <3> QED
      BY <1>0, <2>1, <3>1 DEF Alone, ReportInv, NotForgotten
  <2> QED
    BY <2>2, <2>3, <2>4, <2>5 DEF Alone
<1> QED
  BY <1>1, <1>2, <1>3, <1>4, <1>5 DEF IInv, Shared, Alone

LEMMA JudgeRecordInv ==
    ASSUME NEW p \in Pids, IInv, JudgeRecord(p)
    PROVE  IInv'
<1> DEFINE c == app[p].at
<1>0. /\ c \in Commands
      /\ app' \in [Pids -> App]
      /\ \A q \in Pids : q # p => app'[q] = app[q]
      /\ app[p].phase = "taking" /\ app'[p].phase = "taking" /\ app[p].read # "remove"
      /\ app'[p].listed = app[p].listed /\ app'[p].reaper = app[p].reaper
      /\ \/ /\ app'[p].at = None /\ app'[p].read = "none"
            /\ app'[p].pending = app[p].pending
         \/ /\ app[p].read = "whole" /\ owner_is_gone(p, cmd[c].owner)
            /\ app'[p].at = c /\ app'[p].read = "remove"
            /\ app'[p].pending = app[p].pending \cup {c}
         \/ /\ app[p].read # "whole"
            /\ app'[p].at = c /\ app'[p].read = "remove"
            /\ app'[p].pending = app[p].pending
      /\ UNCHANGED <<single, record, container, cmd, shown, unseen, faulty>>
  <2>1. /\ app \in [Pids -> App] /\ app[p] \in App /\ c \in Commands
        /\ app[p].phase = "taking" /\ app[p].read # "remove"
        /\ UNCHANGED <<single, record, container, cmd, shown, unseen, faulty>>
    BY DEF IInv, TypeOK, App, JudgeRecord
  <2>2. CASE app' = [app EXCEPT ![p] = [@ EXCEPT !.at = None, !.read = "none"]]
    <3>1. [app[p] EXCEPT !.at = None, !.read = "none"] \in App
      BY <2>1 DEF App
    <3> QED
      BY <2>1, <2>2, <3>1 DEF App
  <2>3. CASE /\ app[p].read = "whole" /\ owner_is_gone(p, cmd[c].owner)
             /\ app' = [app EXCEPT ![p] = [@ EXCEPT !.read = "remove",
                                             !.pending = app[p].pending \cup {c}]]
    <3>1. [app[p] EXCEPT !.read = "remove", !.pending = app[p].pending \cup {c}] \in App
      BY <2>1 DEF App
    <3> QED
      BY <2>1, <2>3, <3>1 DEF App
  <2>4. CASE app[p].read # "whole" /\ app' = [app EXCEPT ![p].read = "remove"]
    BY <2>1, <2>4 DEF App
  <2> QED
    BY <2>2, <2>3, <2>4 DEF JudgeRecord
<1> HIDE DEF c
<1>c. c = app[p].at
  BY DEF c
<1>1. TypeOK'
  BY <1>0 DEF IInv, TypeOK
<1>2. \A q \in Pids : ProcessInv(q)'
  BY <1>0, SandboxAssumption DEF IInv, Shared, ProcessInv, PaddleBoard
<1>3. \A d \in Commands : CommandInv(d)'
  <2>1. \A q \in Pids : app'[q].phase = app[q].phase
    BY <1>0
  <2> QED
    BY <1>0, <2>1 DEF IInv, Shared, CommandInv
<1>4. \A q \in Pids, d \in Commands : ReaperInv(q, d)'
  BY <1>0 DEF IInv, Shared, ReaperInv
<1>5. ASSUME single' PROVE Alone'
  <2>1. single /\ Alone
    BY <1>0, <1>5 DEF IInv
  <2>2. One'
    BY <1>0, <2>1 DEF Alone, One, PaddleBoard
  <2>3. \A q \in Pids : TakeInv(q)'
    BY <1>0, <1>c, <2>1 DEF Alone, TakeInv
  <2>4. \A q \in Pids, d \in Commands : PendingInv(q, d)'
    <3> SUFFICES ASSUME NEW q \in Pids, NEW d \in Commands,
                        d \in app'[q].pending, d \notin faulty
                 PROVE  /\ cmd[d].step \in {"cut", "interrupted"} /\ shown[d] = 0
                        /\ record[d] = "none" \/ (app'[q].at = d /\ app'[q].read = "remove")
      BY <1>0 DEF PendingInv
    <3>1. CASE d \in app[q].pending
      \* d's record is gone: it was not the one that has just been read.
      BY <1>0, <1>c, <2>1, <3>1 DEF Alone, PendingInv
    <3>2. CASE d \notin app[q].pending
      <4>1. /\ q = p /\ d = c /\ app[p].read = "whole" /\ owner_is_gone(p, cmd[c].owner)
            /\ app'[p].at = c /\ app'[p].read = "remove"
        BY <1>0, <3>2
      <4>2. record[d] = "whole"
        BY <1>0, <1>c, <2>1, <4>1, SandboxAssumption DEF Alone, TakeInv
      <4>3. cmd[d].orphan
        BY <1>0, <4>1, <4>2 DEF IInv, Shared, CommandInv, owner_is_gone
      <4>4. cmd[d].step \in {"cut", "interrupted"}
        BY <4>2, <4>3 DEF IInv, Shared, CommandInv
      <4>5. shown[d] = 0
        BY <2>1, <4>2 DEF IInv, TypeOK, Alone, ReportInv
      <4> QED
        BY <4>1, <4>4, <4>5
    <3> QED
      BY <3>1, <3>2
  <2>5. \A d \in Commands : ReportInv(d)'
    <3>1. \A q \in Pids : app[q].pending \subseteq app'[q].pending
      BY <1>0
    <3> QED
      BY <1>0, <2>1, <3>1 DEF Alone, ReportInv, NotForgotten
  <2> QED
    BY <2>2, <2>3, <2>4, <2>5 DEF Alone
<1> QED
  BY <1>1, <1>2, <1>3, <1>4, <1>5 DEF IInv, Shared, Alone

LEMMA RemoveRecordInv ==
    ASSUME NEW p \in Pids, IInv, RemoveRecord(p)
    PROVE  IInv'
<1> DEFINE c == app[p].at
<1>0. /\ c \in Commands
      /\ app' \in [Pids -> App]
      /\ \A q \in Pids : /\ q # p => app'[q] = app[q]
                         /\ app'[q].phase = app[q].phase
                         /\ app'[q].pending = app[q].pending
                         /\ app'[q].listed = app[q].listed
                         /\ app'[q].reaper = app[q].reaper
      /\ app[p].phase = "taking" /\ app[p].read = "remove"
      /\ app'[p].at = None /\ app'[p].read = "none"
      /\ record' \in [Commands -> {"none", "torn", "whole"}]
      /\ \/ /\ record'[c] = "none" /\ \A d \in Commands : d # c => record'[d] = record[d]
            /\ faulty' = faulty
         \/ record' = record /\ faulty' = faulty \cup {c}
      /\ UNCHANGED <<single, container, cmd, shown, unseen>>
  <2>1. /\ app \in [Pids -> App] /\ app[p] \in App
        /\ app[p].phase = "taking" /\ app[p].read = "remove"
        /\ record \in [Commands -> {"none", "torn", "whole"}]
        /\ UNCHANGED <<single, container, cmd, shown, unseen>>
    BY DEF IInv, TypeOK, RemoveRecord
  <2>2. c \in Commands
    BY <2>1 DEF IInv, Shared, ProcessInv, App
  <2>3. [app[p] EXCEPT !.at = None, !.read = "none"] \in App
    BY <2>1 DEF App
  <2>4. app' = [app EXCEPT ![p] = [@ EXCEPT !.at = None, !.read = "none"]]
    BY DEF RemoveRecord
  <2>5. /\ app' \in [Pids -> App]
        /\ \A q \in Pids : /\ q # p => app'[q] = app[q]
                           /\ app'[q].phase = app[q].phase
                           /\ app'[q].pending = app[q].pending
                           /\ app'[q].listed = app[q].listed
                           /\ app'[q].reaper = app[q].reaper
        /\ app'[p].at = None /\ app'[p].read = "none"
    BY <2>1, <2>3, <2>4 DEF App
  <2>6. /\ record' \in [Commands -> {"none", "torn", "whole"}]
        /\ \/ /\ record'[c] = "none" /\ \A d \in Commands : d # c => record'[d] = record[d]
              /\ faulty' = faulty
           \/ record' = record /\ faulty' = faulty \cup {c}
    BY <2>1, <2>2 DEF RemoveRecord
  <2> QED
    BY <2>1, <2>2, <2>5, <2>6
<1> HIDE DEF c
<1>c. c = app[p].at
  BY DEF c
<1>1. TypeOK'
  BY <1>0 DEF IInv, TypeOK
<1>2. \A q \in Pids : ProcessInv(q)'
  BY <1>0 DEF IInv, Shared, ProcessInv, PaddleBoard
<1>3. \A d \in Commands : CommandInv(d)'
  BY <1>0 DEF IInv, Shared, CommandInv
<1>4. \A q \in Pids, d \in Commands : ReaperInv(q, d)'
  BY <1>0 DEF IInv, Shared, ReaperInv
<1>5. ASSUME single' PROVE Alone'
  <2>1. single /\ Alone
    BY <1>0, <1>5 DEF IInv
  <2>2. One'
    BY <1>0, <2>1 DEF Alone, One, PaddleBoard
  <2>3. \A q \in Pids : TakeInv(q)'
    <3>1. \A q \in Pids : q # p => app[q].at = None
      BY <1>0, <2>1 DEF IInv, Shared, ProcessInv, Alone, One, PaddleBoard
    <3> QED
      BY <1>0, <3>1 DEF TakeInv
  <2>4. \A q \in Pids, d \in Commands : PendingInv(q, d)'
    <3>1. \A q \in Pids : q # p => app[q].at = None
      BY <1>0, <2>1 DEF IInv, Shared, ProcessInv, Alone, One, PaddleBoard
    <3> QED
      BY <1>0, <1>c, <2>1, <3>1, SandboxAssumption DEF Alone, PendingInv
  <2>5. ASSUME NEW d \in Commands PROVE ReportInv(d)'
    <3>1. ReportInv(d) /\ CommandInv(d) /\ TakeInv(p)
      BY <2>1 DEF IInv, Alone, Shared
    <3>2. NotForgotten(d)'
      BY <1>0, <1>c, <3>1, SandboxAssumption DEF ReportInv, NotForgotten, TakeInv
    <3>3. cmd[d].step \notin {"recording", "prepared", "running"}
      \* Its process would be open, and p, the only one, is not.
      BY <1>0, <2>1, <3>1 DEF Alone, One, CommandInv, PaddleBoard
    <3> QED
      BY <1>0, <3>1, <3>2, <3>3 DEF ReportInv
  <2> QED
    BY <2>2, <2>3, <2>4, <2>5 DEF Alone
<1> QED
  BY <1>1, <1>2, <1>3, <1>4, <1>5 DEF IInv, Shared, Alone

LEMMA TakenInv ==
    ASSUME NEW p \in Pids, IInv, Taken(p)
    PROVE  IInv'
<1> USE SandboxAssumption DEF Taken
<1>1. TypeOK'
  <2>1. app \in [Pids -> App] /\ app[p] \in App
    BY DEF IInv, TypeOK
  <2>2. app' \in [Pids -> App]
    BY <2>1 DEF App
  <2> QED
    BY <2>2 DEF IInv, TypeOK
<1>2. \A q \in Pids : ProcessInv(q)'
  BY DEF IInv, TypeOK, Shared, ProcessInv, PaddleBoard, App
<1>3. \A d \in Commands : CommandInv(d)'
  BY DEF IInv, TypeOK, Shared, CommandInv, App, Command
<1>4. \A q \in Pids, d \in Commands : ReaperInv(q, d)'
  BY DEF IInv, TypeOK, Shared, ReaperInv, CommandInv, App, Command
<1>5. ASSUME single' PROVE Alone'
  <2>1. single /\ Alone
    BY <1>5 DEF IInv
  <2>2. One'
    BY <2>1 DEF IInv, TypeOK, Alone, One, PaddleBoard, App
  <2>3. \A q \in Pids : TakeInv(q)'
    BY <2>1 DEF IInv, TypeOK, Shared, Alone, One, ProcessInv, CommandInv, TakeInv,
                PaddleBoard, App, Command
  <2>4. \A q \in Pids, d \in Commands : PendingInv(q, d)'
    BY <2>1 DEF IInv, TypeOK, Shared, Alone, One, ProcessInv, CommandInv, TakeInv,
                PendingInv, ReportInv, PaddleBoard, App, Command
  <2>5. \A d \in Commands : ReportInv(d)'
    BY <2>1 DEF IInv, TypeOK, Shared, Alone, One, ProcessInv, CommandInv, TakeInv,
                PendingInv, ReportInv, NotForgotten, PaddleBoard, App, Command
  <2> QED
    BY <2>2, <2>3, <2>4, <2>5 DEF Alone
<1> QED
  BY <1>1, <1>2, <1>3, <1>4, <1>5 DEF IInv, Shared, Alone

LEMMA ShowToastInv ==
    ASSUME NEW p \in Pids, IInv, ShowToast(p)
    PROVE  IInv'
<1> USE SandboxAssumption DEF ShowToast
<1>1. TypeOK'
  <2>1. app \in [Pids -> App] /\ app[p] \in App
    BY DEF IInv, TypeOK
  <2>2. app' \in [Pids -> App]
    BY <2>1 DEF App
  <2> QED
    BY <2>2 DEF IInv, TypeOK
<1>2. \A q \in Pids : ProcessInv(q)'
  BY DEF IInv, TypeOK, Shared, ProcessInv, PaddleBoard, App
<1>3. \A d \in Commands : CommandInv(d)'
  BY DEF IInv, TypeOK, Shared, CommandInv, App, Command
<1>4. \A q \in Pids, d \in Commands : ReaperInv(q, d)'
  BY DEF IInv, TypeOK, Shared, ReaperInv, CommandInv, App, Command
<1>5. ASSUME single' PROVE Alone'
  <2>1. single /\ Alone
    BY <1>5 DEF IInv
  <2>2. One'
    BY <2>1 DEF IInv, TypeOK, Alone, One, PaddleBoard, App
  <2>3. \A q \in Pids : TakeInv(q)'
    BY <2>1 DEF IInv, TypeOK, Shared, Alone, One, ProcessInv, CommandInv, TakeInv,
                PaddleBoard, App, Command
  <2>4. \A q \in Pids, d \in Commands : PendingInv(q, d)'
    BY <2>1 DEF IInv, TypeOK, Shared, Alone, One, ProcessInv, CommandInv, TakeInv,
                PendingInv, ReportInv, PaddleBoard, App, Command
  <2>5. \A d \in Commands : ReportInv(d)'
    BY <2>1 DEF IInv, TypeOK, Shared, Alone, One, ProcessInv, CommandInv, TakeInv,
                PendingInv, ReportInv, NotForgotten, PaddleBoard, App, Command
  <2> QED
    BY <2>2, <2>3, <2>4, <2>5 DEF Alone
<1> QED
  BY <1>1, <1>2, <1>3, <1>4, <1>5 DEF IInv, Shared, Alone

LEMMA ListContainersInv ==
    ASSUME NEW p \in Pids, IInv, ListContainers(p)
    PROVE  IInv'
<1> USE SandboxAssumption DEF ListContainers, Reaping, PaddleBoard
<1>1. TypeOK'
  <2>1. app \in [Pids -> App] /\ app[p] \in App
    BY DEF IInv, TypeOK
  <2>2. app' \in [Pids -> App]
    BY <2>1 DEF App
  <2> QED
    BY <2>2 DEF IInv, TypeOK
<1>2. \A q \in Pids : ProcessInv(q)'
  BY DEF IInv, TypeOK, Shared, ProcessInv, PaddleBoard, App
<1>3. \A d \in Commands : CommandInv(d)'
  BY DEF IInv, TypeOK, Shared, CommandInv, App, Command
<1>4. \A q \in Pids, d \in Commands : ReaperInv(q, d)'
  BY DEF IInv, TypeOK, Shared, ReaperInv, CommandInv, App, Command
<1>5. ASSUME single' PROVE Alone'
  <2>1. single /\ Alone
    BY <1>5 DEF IInv
  <2>2. One'
    BY <2>1 DEF IInv, TypeOK, Alone, One, PaddleBoard, App
  <2>3. \A q \in Pids : TakeInv(q)'
    BY <2>1 DEF IInv, TypeOK, Shared, Alone, One, ProcessInv, CommandInv, TakeInv,
                PaddleBoard, App, Command
  <2>4. \A q \in Pids, d \in Commands : PendingInv(q, d)'
    BY <2>1 DEF IInv, TypeOK, Shared, Alone, One, ProcessInv, CommandInv, TakeInv,
                PendingInv, ReportInv, PaddleBoard, App, Command
  <2>5. \A d \in Commands : ReportInv(d)'
    BY <2>1 DEF IInv, TypeOK, Shared, Alone, One, ProcessInv, CommandInv, TakeInv,
                PendingInv, ReportInv, NotForgotten, PaddleBoard, App, Command
  <2> QED
    BY <2>2, <2>3, <2>4, <2>5 DEF Alone
<1> QED
  BY <1>1, <1>2, <1>3, <1>4, <1>5 DEF IInv, Shared, Alone

LEMMA orphaned_container_idsInv ==
    ASSUME NEW p \in Pids, IInv, orphaned_container_ids(p)
    PROVE  IInv'
<1> USE SandboxAssumption DEF orphaned_container_ids, Reaping, PaddleBoard, owner_is_gone
<1>1. TypeOK'
  <2>1. app \in [Pids -> App] /\ app[p] \in App
    BY DEF IInv, TypeOK
  <2>2. app' \in [Pids -> App]
    BY <2>1 DEF App
  <2> QED
    BY <2>2 DEF IInv, TypeOK
<1>2. \A q \in Pids : ProcessInv(q)'
  BY DEF IInv, TypeOK, Shared, ProcessInv, PaddleBoard, App
<1>3. \A d \in Commands : CommandInv(d)'
  BY DEF IInv, TypeOK, Shared, CommandInv, App, Command
<1>4. \A q \in Pids, d \in Commands : ReaperInv(q, d)'
  BY DEF IInv, TypeOK, Shared, ReaperInv, CommandInv, App, Command
<1>5. ASSUME single' PROVE Alone'
  <2>1. single /\ Alone
    BY <1>5 DEF IInv
  <2>2. One'
    BY <2>1 DEF IInv, TypeOK, Alone, One, PaddleBoard, App
  <2>3. \A q \in Pids : TakeInv(q)'
    BY <2>1 DEF IInv, TypeOK, Shared, Alone, One, ProcessInv, CommandInv, TakeInv,
                PaddleBoard, App, Command
  <2>4. \A q \in Pids, d \in Commands : PendingInv(q, d)'
    BY <2>1 DEF IInv, TypeOK, Shared, Alone, One, ProcessInv, CommandInv, TakeInv,
                PendingInv, ReportInv, PaddleBoard, App, Command
  <2>5. \A d \in Commands : ReportInv(d)'
    BY <2>1 DEF IInv, TypeOK, Shared, Alone, One, ProcessInv, CommandInv, TakeInv,
                PendingInv, ReportInv, NotForgotten, PaddleBoard, App, Command
  <2> QED
    BY <2>2, <2>3, <2>4, <2>5 DEF Alone
<1> QED
  BY <1>1, <1>2, <1>3, <1>4, <1>5 DEF IInv, Shared, Alone

LEMMA RemoveContainersInv ==
    ASSUME NEW p \in Pids, IInv, RemoveContainers(p)
    PROVE  IInv'
<1> USE SandboxAssumption DEF RemoveContainers, Reaping, PaddleBoard
<1>1. TypeOK'
  <2>1. app \in [Pids -> App] /\ app[p] \in App
    BY DEF IInv, TypeOK
  <2>2. app' \in [Pids -> App]
    BY <2>1 DEF App
  <2> QED
    BY <2>2 DEF IInv, TypeOK
<1>2. \A q \in Pids : ProcessInv(q)'
  BY DEF IInv, TypeOK, Shared, ProcessInv, PaddleBoard, App
<1>3. \A d \in Commands : CommandInv(d)'
  <2>1. \A q \in Pids : app'[q].phase = app[q].phase
    BY DEF IInv, TypeOK, App
  <2>2. \A d \in Commands : cmd[d].step = "unborn" => container'[d] = "none"
    BY DEF IInv, TypeOK, Shared, CommandInv, ReaperInv, App
  <2> QED
    BY <2>1, <2>2 DEF IInv, Shared, CommandInv
<1>4. \A q \in Pids, d \in Commands : ReaperInv(q, d)'
  BY DEF IInv, TypeOK, Shared, ReaperInv, CommandInv, App, Command
<1>5. ASSUME single' PROVE Alone'
  <2>1. single /\ Alone
    BY <1>5 DEF IInv
  <2>2. One'
    BY <2>1 DEF IInv, TypeOK, Alone, One, PaddleBoard, App
  <2>3. \A q \in Pids : TakeInv(q)'
    BY <2>1 DEF IInv, TypeOK, Shared, Alone, One, ProcessInv, CommandInv, TakeInv,
                PaddleBoard, App, Command
  <2>4. \A q \in Pids, d \in Commands : PendingInv(q, d)'
    BY <2>1 DEF IInv, TypeOK, Shared, Alone, One, ProcessInv, CommandInv, TakeInv,
                PendingInv, ReportInv, PaddleBoard, App, Command
  <2>5. \A d \in Commands : ReportInv(d)'
    BY <2>1 DEF IInv, TypeOK, Shared, Alone, One, ProcessInv, CommandInv, TakeInv,
                PendingInv, ReportInv, NotForgotten, PaddleBoard, App, Command
  <2> QED
    BY <2>2, <2>3, <2>4, <2>5 DEF Alone
<1> QED
  BY <1>1, <1>2, <1>3, <1>4, <1>5 DEF IInv, Shared, Alone

LEMMA ReapFailsInv ==
    ASSUME NEW p \in Pids, IInv, ReapFails(p)
    PROVE  IInv'
<1> USE SandboxAssumption DEF ReapFails, Reaping, PaddleBoard
<1>1. TypeOK'
  <2>1. app \in [Pids -> App] /\ app[p] \in App
    BY DEF IInv, TypeOK
  <2>2. app' \in [Pids -> App]
    BY <2>1 DEF App
  <2> QED
    BY <2>2 DEF IInv, TypeOK
<1>2. \A q \in Pids : ProcessInv(q)'
  BY DEF IInv, TypeOK, Shared, ProcessInv, PaddleBoard, App
<1>3. \A d \in Commands : CommandInv(d)'
  BY DEF IInv, TypeOK, Shared, CommandInv, App, Command
<1>4. \A q \in Pids, d \in Commands : ReaperInv(q, d)'
  BY DEF IInv, TypeOK, Shared, ReaperInv, CommandInv, App, Command
<1>5. ASSUME single' PROVE Alone'
  <2>1. single /\ Alone
    BY <1>5 DEF IInv
  <2>2. One'
    BY <2>1 DEF IInv, TypeOK, Alone, One, PaddleBoard, App
  <2>3. \A q \in Pids : TakeInv(q)'
    BY <2>1 DEF IInv, TypeOK, Shared, Alone, One, ProcessInv, CommandInv, TakeInv,
                PaddleBoard, App, Command
  <2>4. \A q \in Pids, d \in Commands : PendingInv(q, d)'
    BY <2>1 DEF IInv, TypeOK, Shared, Alone, One, ProcessInv, CommandInv, TakeInv,
                PendingInv, ReportInv, PaddleBoard, App, Command
  <2>5. \A d \in Commands : ReportInv(d)'
    BY <2>1 DEF IInv, TypeOK, Shared, Alone, One, ProcessInv, CommandInv, TakeInv,
                PendingInv, ReportInv, NotForgotten, PaddleBoard, App, Command
  <2> QED
    BY <2>2, <2>3, <2>4, <2>5 DEF Alone
<1> QED
  BY <1>1, <1>2, <1>3, <1>4, <1>5 DEF IInv, Shared, Alone

LEMMA BeginCommandInv ==
    ASSUME NEW p \in Pids, NEW c \in Commands, IInv, BeginCommand(p, c)
    PROVE  IInv'
<1>0. /\ cmd' \in [Commands -> Command]
      /\ record' \in [Commands -> {"none", "torn", "whole"}]
      /\ \A d \in Commands : d # c => cmd'[d] = cmd[d] /\ record'[d] = record[d]
      /\ app[p].phase = "open" /\ cmd[c].step = "unborn" /\ cmd'[c].owner = p
      /\ cmd'[c].noted = cmd[c].noted /\ cmd'[c].orphan = cmd[c].orphan
      /\ \/ cmd'[c].step = "recording" /\ record'[c] = "torn"
         \/ cmd'[c].step = "prepared" /\ record'[c] = record[c]
      /\ UNCHANGED <<single, app, container, shown, unseen, faulty>>
  <2>1. /\ cmd \in [Commands -> Command] /\ cmd[c] \in Command
        /\ record \in [Commands -> {"none", "torn", "whole"}]
    BY DEF IInv, TypeOK
  <2>2. PICK step \in {"recording", "prepared"} :
          /\ cmd' = [cmd EXCEPT ![c] = [@ EXCEPT !.step = step, !.owner = p]]
          /\ \/ step = "recording" /\ record' = [record EXCEPT ![c] = "torn"]
             \/ step = "prepared" /\ record' = record
    BY DEF BeginCommand
  <2>3. [cmd[c] EXCEPT !.step = step, !.owner = p] \in Command
    BY <2>1 DEF Command
  <2>4. /\ cmd' \in [Commands -> Command]
        /\ \A d \in Commands : d # c => cmd'[d] = cmd[d]
        /\ cmd'[c].owner = p /\ cmd'[c].step = step
        /\ cmd'[c].noted = cmd[c].noted /\ cmd'[c].orphan = cmd[c].orphan
    BY <2>1, <2>2, <2>3 DEF Command
  <2>5. /\ record' \in [Commands -> {"none", "torn", "whole"}]
        /\ \A d \in Commands : d # c => record'[d] = record[d]
        /\ \/ step = "recording" /\ record'[c] = "torn"
           \/ step = "prepared" /\ record'[c] = record[c]
    BY <2>1, <2>2
  <2> QED
    BY <2>4, <2>5 DEF BeginCommand
<1>c. CommandInv(c)
  BY DEF IInv, Shared
<1>1. TypeOK'
  BY <1>0 DEF IInv, TypeOK
<1>2. \A q \in Pids : ProcessInv(q)'
  BY <1>0 DEF IInv, Shared, ProcessInv, PaddleBoard
<1>3. \A d \in Commands : CommandInv(d)'
  BY <1>0, <1>c DEF IInv, Shared, CommandInv
<1>4. \A q \in Pids, d \in Commands : ReaperInv(q, d)'
  BY <1>0 DEF IInv, Shared, ReaperInv
<1>5. ASSUME single' PROVE Alone'
  <2>1. single /\ Alone
    BY <1>0, <1>5 DEF IInv
  <2>2. One'
    BY <1>0, <2>1 DEF Alone, One, PaddleBoard
  <2>3. \A q \in Pids : TakeInv(q)'
    <3>1. \A q \in Pids : app[q].at = None
      BY <1>0, <2>1 DEF IInv, Shared, ProcessInv, Alone, One, PaddleBoard
    <3> QED
      BY <1>0, <3>1 DEF TakeInv
  <2>4. \A q \in Pids, d \in Commands : PendingInv(q, d)'
    BY <1>0, <2>1 DEF Alone, PendingInv
  <2>5. \A d \in Commands : ReportInv(d)'
    BY <1>0, <1>c, <2>1 DEF Alone, ReportInv, NotForgotten, CommandInv
  <2> QED
    BY <2>2, <2>3, <2>4, <2>5 DEF Alone
<1> QED
  BY <1>1, <1>2, <1>3, <1>4, <1>5 DEF IInv, Shared, Alone

LEMMA RecordedInv ==
    ASSUME NEW c \in Commands, IInv, Recorded(c)
    PROVE  IInv'
<1>0. /\ cmd' \in [Commands -> Command]
      /\ record' \in [Commands -> {"none", "torn", "whole"}]
      /\ \A d \in Commands : d # c => cmd'[d] = cmd[d] /\ record'[d] = record[d]
      /\ cmd[c].step = "recording" /\ cmd'[c].step = "prepared"
      /\ cmd'[c].owner = cmd[c].owner /\ cmd'[c].orphan = cmd[c].orphan
      /\ \/ /\ cmd'[c].noted
            /\ record'[c] = IF record[c] = "torn" THEN "whole" ELSE record[c]
         \/ cmd'[c].noted = cmd[c].noted /\ record'[c] = record[c]
      /\ UNCHANGED <<single, app, container, shown, unseen, faulty>>
  <2>1. /\ cmd \in [Commands -> Command] /\ cmd[c] \in Command
        /\ record \in [Commands -> {"none", "torn", "whole"}]
    BY DEF IInv, TypeOK
  <2>2. CASE /\ cmd' = [cmd EXCEPT ![c] = [@ EXCEPT !.step = "prepared", !.noted = TRUE]]
             /\ record' = [record EXCEPT ![c] = IF @ = "torn" THEN "whole" ELSE @]
    <3>1. [cmd[c] EXCEPT !.step = "prepared", !.noted = TRUE] \in Command
      BY <2>1 DEF Command
    <3>2. /\ cmd' \in [Commands -> Command]
          /\ \A d \in Commands : d # c => cmd'[d] = cmd[d]
          /\ cmd'[c] = [cmd[c] EXCEPT !.step = "prepared", !.noted = TRUE]
      BY <2>1, <2>2, <3>1
    <3>3. /\ record' \in [Commands -> {"none", "torn", "whole"}]
          /\ \A d \in Commands : d # c => record'[d] = record[d]
          /\ record'[c] = IF record[c] = "torn" THEN "whole" ELSE record[c]
      BY <2>1, <2>2
    <3> QED
      BY <2>1, <3>2, <3>3 DEF Recorded, Command
  <2>3. CASE cmd' = [cmd EXCEPT ![c].step = "prepared"] /\ record' = record
    BY <2>1, <2>3 DEF Recorded, Command
  <2> QED
    BY <2>2, <2>3 DEF Recorded
<1>c. CommandInv(c)
  BY DEF IInv, Shared
<1>1. TypeOK'
  BY <1>0 DEF IInv, TypeOK
<1>2. \A q \in Pids : ProcessInv(q)'
  BY <1>0 DEF IInv, Shared, ProcessInv, PaddleBoard
<1>3. \A d \in Commands : CommandInv(d)'
  BY <1>0, <1>c DEF IInv, Shared, CommandInv
<1>4. \A q \in Pids, d \in Commands : ReaperInv(q, d)'
  BY <1>0 DEF IInv, Shared, ReaperInv
<1>5. ASSUME single' PROVE Alone'
  <2>1. single /\ Alone
    BY <1>0, <1>5 DEF IInv
  <2>2. One'
    BY <1>0, <2>1 DEF Alone, One, PaddleBoard
  <2>3. \A q \in Pids : TakeInv(q)'
    <3>1. \A q \in Pids : app[q].at = None
      \* c's process is open, and the only one.
      BY <1>0, <1>c, <2>1 DEF IInv, Shared, ProcessInv, CommandInv, Alone, One, PaddleBoard
    <3> QED
      BY <1>0, <3>1 DEF TakeInv
  <2>4. \A q \in Pids, d \in Commands : PendingInv(q, d)'
    BY <1>0, <2>1 DEF Alone, PendingInv
  <2>5. \A d \in Commands : ReportInv(d)'
    BY <1>0, <1>c, <2>1 DEF Alone, ReportInv, NotForgotten, CommandInv
  <2> QED
    BY <2>2, <2>3, <2>4, <2>5 DEF Alone
<1> QED
  BY <1>1, <1>2, <1>3, <1>4, <1>5 DEF IInv, Shared, Alone

LEMMA StartCommandInv ==
    ASSUME NEW c \in Commands, IInv, StartCommand(c)
    PROVE  IInv'
<1> USE SandboxAssumption DEF StartCommand
<1>1. TypeOK'
  BY DEF IInv, TypeOK, App, Command
<1>2. \A q \in Pids : ProcessInv(q)'
  BY DEF IInv, TypeOK, Shared, ProcessInv, PaddleBoard, App
<1>3. \A d \in Commands : CommandInv(d)'
  BY DEF IInv, TypeOK, Shared, CommandInv, App, Command
<1>4. \A q \in Pids, d \in Commands : ReaperInv(q, d)'
  BY DEF IInv, TypeOK, Shared, ReaperInv, CommandInv, App, Command
<1>5. ASSUME single' PROVE Alone'
  <2>1. single /\ Alone
    BY <1>5 DEF IInv
  <2>2. One'
    BY <2>1 DEF IInv, TypeOK, Alone, One, PaddleBoard, App
  <2>3. \A q \in Pids : TakeInv(q)'
    BY <2>1 DEF IInv, TypeOK, Shared, Alone, One, ProcessInv, CommandInv, TakeInv,
                PaddleBoard, App, Command
  <2>4. \A q \in Pids, d \in Commands : PendingInv(q, d)'
    BY <2>1 DEF IInv, TypeOK, Shared, Alone, One, ProcessInv, CommandInv, TakeInv,
                PendingInv, ReportInv, PaddleBoard, App, Command
  <2>5. \A d \in Commands : ReportInv(d)'
    BY <2>1 DEF IInv, TypeOK, Shared, Alone, One, ProcessInv, CommandInv, TakeInv,
                PendingInv, ReportInv, NotForgotten, PaddleBoard, App, Command
  <2> QED
    BY <2>2, <2>3, <2>4, <2>5 DEF Alone
<1> QED
  BY <1>1, <1>2, <1>3, <1>4, <1>5 DEF IInv, Shared, Alone

LEMMA ContainerStartsInv ==
    ASSUME NEW c \in Commands, IInv, ContainerStarts(c)
    PROVE  IInv'
<1> USE SandboxAssumption DEF ContainerStarts
<1>1. TypeOK'
  BY DEF IInv, TypeOK, App, Command
<1>2. \A q \in Pids : ProcessInv(q)'
  BY DEF IInv, TypeOK, Shared, ProcessInv, PaddleBoard, App
<1>3. \A d \in Commands : CommandInv(d)'
  BY DEF IInv, TypeOK, Shared, CommandInv, App, Command
<1>4. \A q \in Pids, d \in Commands : ReaperInv(q, d)'
  BY DEF IInv, TypeOK, Shared, ReaperInv, CommandInv, App, Command
<1>5. ASSUME single' PROVE Alone'
  <2>1. single /\ Alone
    BY <1>5 DEF IInv
  <2>2. One'
    BY <2>1 DEF IInv, TypeOK, Alone, One, PaddleBoard, App
  <2>3. \A q \in Pids : TakeInv(q)'
    BY <2>1 DEF IInv, TypeOK, Shared, Alone, One, ProcessInv, CommandInv, TakeInv,
                PaddleBoard, App, Command
  <2>4. \A q \in Pids, d \in Commands : PendingInv(q, d)'
    BY <2>1 DEF IInv, TypeOK, Shared, Alone, One, ProcessInv, CommandInv, TakeInv,
                PendingInv, ReportInv, PaddleBoard, App, Command
  <2>5. \A d \in Commands : ReportInv(d)'
    BY <2>1 DEF IInv, TypeOK, Shared, Alone, One, ProcessInv, CommandInv, TakeInv,
                PendingInv, ReportInv, NotForgotten, PaddleBoard, App, Command
  <2> QED
    BY <2>2, <2>3, <2>4, <2>5 DEF Alone
<1> QED
  BY <1>1, <1>2, <1>3, <1>4, <1>5 DEF IInv, Shared, Alone

LEMMA ContainerExitsInv ==
    ASSUME NEW c \in Commands, IInv, ContainerExits(c)
    PROVE  IInv'
<1> USE SandboxAssumption DEF ContainerExits
<1>1. TypeOK'
  BY DEF IInv, TypeOK, App, Command
<1>2. \A q \in Pids : ProcessInv(q)'
  BY DEF IInv, TypeOK, Shared, ProcessInv, PaddleBoard, App
<1>3. \A d \in Commands : CommandInv(d)'
  BY DEF IInv, TypeOK, Shared, CommandInv, App, Command
<1>4. \A q \in Pids, d \in Commands : ReaperInv(q, d)'
  BY DEF IInv, TypeOK, Shared, ReaperInv, CommandInv, App, Command
<1>5. ASSUME single' PROVE Alone'
  <2>1. single /\ Alone
    BY <1>5 DEF IInv
  <2>2. One'
    BY <2>1 DEF IInv, TypeOK, Alone, One, PaddleBoard, App
  <2>3. \A q \in Pids : TakeInv(q)'
    BY <2>1 DEF IInv, TypeOK, Shared, Alone, One, ProcessInv, CommandInv, TakeInv,
                PaddleBoard, App, Command
  <2>4. \A q \in Pids, d \in Commands : PendingInv(q, d)'
    BY <2>1 DEF IInv, TypeOK, Shared, Alone, One, ProcessInv, CommandInv, TakeInv,
                PendingInv, ReportInv, PaddleBoard, App, Command
  <2>5. \A d \in Commands : ReportInv(d)'
    BY <2>1 DEF IInv, TypeOK, Shared, Alone, One, ProcessInv, CommandInv, TakeInv,
                PendingInv, ReportInv, NotForgotten, PaddleBoard, App, Command
  <2> QED
    BY <2>2, <2>3, <2>4, <2>5 DEF Alone
<1> QED
  BY <1>1, <1>2, <1>3, <1>4, <1>5 DEF IInv, Shared, Alone

LEMMA ToolEndsInv ==
    ASSUME NEW c \in Commands, IInv, ToolEnds(c)
    PROVE  IInv'
<1> USE SandboxAssumption DEF ToolEnds
<1>1. TypeOK'
  <2>1. cmd \in [Commands -> Command] /\ cmd[c] \in Command
    BY DEF IInv, TypeOK
  <2>2. cmd' \in [Commands -> Command]
    BY <2>1 DEF Command
  <2>3. record' \in [Commands -> {"none", "torn", "whole"}]
    BY DEF IInv, TypeOK
  <2> QED
    BY <2>2, <2>3 DEF IInv, TypeOK
<1>2. \A q \in Pids : ProcessInv(q)'
  BY DEF IInv, TypeOK, Shared, ProcessInv, PaddleBoard, App
<1>3. \A d \in Commands : CommandInv(d)'
  BY DEF IInv, TypeOK, Shared, CommandInv, App, Command
<1>4. \A q \in Pids, d \in Commands : ReaperInv(q, d)'
  BY DEF IInv, TypeOK, Shared, ReaperInv, CommandInv, App, Command
<1>5. ASSUME single' PROVE Alone'
  <2>1. single /\ Alone
    BY <1>5 DEF IInv
  <2>2. One'
    BY <2>1 DEF IInv, TypeOK, Alone, One, PaddleBoard, App
  <2>3. \A q \in Pids : TakeInv(q)'
    BY <2>1 DEF IInv, TypeOK, Shared, Alone, One, ProcessInv, CommandInv, TakeInv,
                PaddleBoard, App, Command
  <2>4. \A q \in Pids, d \in Commands : PendingInv(q, d)'
    BY <2>1 DEF IInv, TypeOK, Shared, Alone, One, ProcessInv, CommandInv, TakeInv,
                PendingInv, ReportInv, PaddleBoard, App, Command
  <2>5. \A d \in Commands : ReportInv(d)'
    BY <2>1 DEF IInv, TypeOK, Shared, Alone, One, ProcessInv, CommandInv, TakeInv,
                PendingInv, ReportInv, NotForgotten, PaddleBoard, App, Command
  <2> QED
    BY <2>2, <2>3, <2>4, <2>5 DEF Alone
<1> QED
  BY <1>1, <1>2, <1>3, <1>4, <1>5 DEF IInv, Shared, Alone

LEMMA DiesInv ==
    ASSUME NEW p \in Pids, IInv, Dies(p)
    PROVE  IInv'
<1> USE SandboxAssumption DEF Dies, PaddleBoard, Off, Died
<1>1. TypeOK'
  BY ZenonT(60) DEF IInv, TypeOK, App, Command
<1>2. app'[p] = Off /\ \A q \in Pids : q # p => app'[q] = app[q]
  BY DEF IInv, TypeOK
<1>3. \A d \in Commands :
         \/ /\ cmd[d].owner # p \/ cmd[d].orphan
            /\ cmd'[d] = cmd[d]
         \/ /\ cmd[d].owner = p /\ ~cmd[d].orphan /\ cmd[d].step # "unborn"
            /\ cmd'[d].owner = p /\ cmd'[d].noted = cmd[d].noted /\ cmd'[d].orphan
            /\ \/ cmd[d].step = "running" /\ cmd'[d].step = "interrupted"
               \/ cmd[d].step = "ended" /\ cmd'[d].step = "ended"
               \/ cmd[d].step \in {"recording", "prepared"} /\ cmd'[d].step = "cut"
  <2> SUFFICES ASSUME NEW d \in Commands, cmd[d].owner = p, ~cmd[d].orphan
              PROVE  /\ cmd[d].step # "unborn"
                     /\ cmd'[d].owner = p /\ cmd'[d].noted = cmd[d].noted /\ cmd'[d].orphan
                     /\ \/ cmd[d].step = "running" /\ cmd'[d].step = "interrupted"
                        \/ cmd[d].step = "ended" /\ cmd'[d].step = "ended"
                        \/ cmd[d].step \in {"recording", "prepared"} /\ cmd'[d].step = "cut"
    OBVIOUS
  <2>1. cmd[d] \in Command /\ CommandInv(d)
    BY DEF IInv, TypeOK, Shared
  <2>2. cmd[d].step \in {"recording", "prepared", "running", "ended"}
    BY <2>1 DEF CommandInv, Command
  <2>3. cmd'[d] = [cmd[d] EXCEPT !.orphan = TRUE, !.step = Died(cmd[d])]
    OBVIOUS
  <2> QED
    BY <2>1, <2>2, <2>3 DEF Command
<1> HIDE DEF Died, Dies
<1>4. UNCHANGED <<single, record, container, shown, faulty>> /\ PaddleBoard(p)
      /\ unseen' = unseen \cup app[p].pending
  BY DEF Dies, PaddleBoard
<1>5. \A q \in Pids : ProcessInv(q)'
  BY <1>2 DEF IInv, Shared, ProcessInv, PaddleBoard, Off
<1>6. \A d \in Commands : CommandInv(d)'
  BY <1>2, <1>3, <1>4 DEF IInv, Shared, CommandInv
<1>7. \A q \in Pids, d \in Commands : ReaperInv(q, d)'
  <2>1. \A d \in Commands : /\ cmd[d].orphan => cmd'[d].orphan
                            /\ cmd[d].step # "unborn" => cmd'[d].step # "unborn"
    BY <1>3
  <2> QED
    BY <1>2, <2>1 DEF IInv, Shared, ReaperInv, Off
<1>8. ASSUME single' PROVE Alone'
  <2>1. single /\ Alone
    BY <1>4, <1>8 DEF IInv
  <2>2. One'
    BY <1>2, <2>1 DEF Alone, One, PaddleBoard, Off
  <2>3. \A q \in Pids : TakeInv(q)'
    BY <1>2, <1>4, <2>1 DEF Alone, TakeInv, Off
  <2>4. \A q \in Pids, d \in Commands : PendingInv(q, d)'
    <3>1. \A d \in Commands : cmd[d].step \in {"cut", "interrupted"}
                               => cmd'[d].step \in {"cut", "interrupted"}
      BY <1>3 DEF IInv, Shared, CommandInv
    <3> QED
      BY <1>2, <1>4, <2>1, <3>1 DEF Alone, PendingInv, Off
  <2>5. ASSUME NEW d \in Commands PROVE ReportInv(d)'
    <3>1. ReportInv(d) /\ CommandInv(d)
      BY <2>1 DEF IInv, Alone, Shared
    <3>2. NotForgotten(d)'
      BY <1>2, <1>3, <1>4, <3>1 DEF ReportInv, NotForgotten, Off
    <3> QED
      BY <1>3, <1>4, <3>1, <3>2 DEF ReportInv, CommandInv
  <2> QED
    BY <2>2, <2>3, <2>4, <2>5 DEF Alone
<1> QED
  BY <1>1, <1>5, <1>6, <1>7, <1>8 DEF IInv, Shared, Alone

LEMMA OtherProgramInv ==
    ASSUME NEW p \in Pids, IInv, OtherProgram(p)
    PROVE  IInv'
<1> USE SandboxAssumption DEF OtherProgram, Off
<1>1. TypeOK'
  <2>1. app \in [Pids -> App] /\ app[p] \in App
    BY DEF IInv, TypeOK
  <2>2. app' \in [Pids -> App]
    BY <2>1 DEF App
  <2> QED
    BY <2>2 DEF IInv, TypeOK
<1>2. \A q \in Pids : ProcessInv(q)'
  BY DEF IInv, TypeOK, Shared, ProcessInv, PaddleBoard, App
<1>3. \A d \in Commands : CommandInv(d)'
  BY DEF IInv, TypeOK, Shared, CommandInv, App, Command
<1>4. \A q \in Pids, d \in Commands : ReaperInv(q, d)'
  BY DEF IInv, TypeOK, Shared, ReaperInv, CommandInv, App, Command
<1>5. ASSUME single' PROVE Alone'
  <2>1. single /\ Alone
    BY <1>5 DEF IInv
  <2>2. One'
    BY <2>1 DEF IInv, TypeOK, Alone, One, PaddleBoard, App
  <2>3. \A q \in Pids : TakeInv(q)'
    BY <2>1 DEF IInv, TypeOK, Shared, Alone, One, ProcessInv, CommandInv, TakeInv,
                PaddleBoard, App, Command
  <2>4. \A q \in Pids, d \in Commands : PendingInv(q, d)'
    <3>1. app'[p].pending = {} /\ \A q \in Pids : q # p => app'[q] = app[q]
      BY DEF IInv, TypeOK, Shared, ProcessInv, PaddleBoard, App
    <3> QED
      BY <2>1, <3>1 DEF Alone, PendingInv
  <2>5. \A d \in Commands : ReportInv(d)'
    BY <2>1 DEF IInv, TypeOK, Shared, Alone, One, ProcessInv, CommandInv, TakeInv,
                PendingInv, ReportInv, NotForgotten, PaddleBoard, App, Command
  <2> QED
    BY <2>2, <2>3, <2>4, <2>5 DEF Alone
<1> QED
  BY <1>1, <1>2, <1>3, <1>4, <1>5 DEF IInv, Shared, Alone

-----------------------------------------------------------------------------
(* The invariant is inductive.                                             *)
LEMMA NextInv == IInv /\ [Next]_vars => IInv'
<1> SUFFICES ASSUME IInv, [Next]_vars PROVE IInv'
  OBVIOUS
<1>1. ASSUME NEW p \in Pids, NEW c \in Commands, ReadRecord(p, c) \/ BeginCommand(p, c)
      PROVE  IInv'
  BY <1>1, ReadRecordInv, BeginCommandInv
<1>2. ASSUME NEW p \in Pids,
             \/ Launch(p) \/ JudgeRecord(p) \/ RemoveRecord(p) \/ Taken(p) \/ ShowToast(p)
             \/ ListContainers(p) \/ orphaned_container_ids(p) \/ RemoveContainers(p)
             \/ ReapFails(p) \/ Dies(p) \/ OtherProgram(p)
      PROVE  IInv'
  BY <1>2, LaunchInv, JudgeRecordInv, RemoveRecordInv, TakenInv, ShowToastInv,
     ListContainersInv, orphaned_container_idsInv, RemoveContainersInv, ReapFailsInv,
     DiesInv, OtherProgramInv
<1>3. ASSUME NEW c \in Commands,
             \/ Recorded(c) \/ StartCommand(c) \/ ToolEnds(c)
             \/ ContainerStarts(c) \/ ContainerExits(c)
      PROVE  IInv'
  BY <1>3, RecordedInv, StartCommandInv, ToolEndsInv, ContainerStartsInv,
     ContainerExitsInv
<1>4. CASE UNCHANGED vars
  BY <1>4 DEF vars, IInv, TypeOK, Shared, Alone, One, ProcessInv, CommandInv, ReaperInv,
              TakeInv, PendingInv, ReportInv, NotForgotten, PaddleBoard
<1> QED
  BY <1>1, <1>2, <1>3, <1>4 DEF Next

(* It holds throughout.                                                    *)
THEOREM Invariance == Spec => []IInv
BY InitInv, NextInv, PTL DEF Spec

(* Every variable keeps its type.                                          *)
THEOREM TypeCorrect == Spec => []TypeOK
<1>1. IInv => TypeOK
  BY DEF IInv
<1> QED
  BY <1>1, Invariance, PTL

(* With one PaddleBoard at a time and a sound file system, a command cut   *)
(* off by a crash whose record was written is not forgotten by any         *)
(* sequence of launches and further crashes.                               *)
THEOREM NotForgottenCorrect == Spec => []InterruptedNotForgotten
<1>1. IInv => InterruptedNotForgotten
  BY DEF IInv, Alone, ReportInv, InterruptedNotForgotten
<1> QED
  BY <1>1, Invariance, PTL

(* With one PaddleBoard at a time, no command is reported twice, unless    *)
(* its record could not be read or removed.                                *)
THEOREM ReportedOnceCorrect == Spec => []ReportedOnce
<1>1. IInv => ReportedOnce
  BY DEF IInv, TypeOK, Alone, ReportInv, ReportedOnce
<1> QED
  BY <1>1, Invariance, PTL

(* With one PaddleBoard at a time, only commands that their process did    *)
(* not see the end of are reported, unless a record could not be removed.  *)
THEOREM ReportsHonestCorrect == Spec => []ReportsHonest
<1>1. IInv => ReportsHonest
  BY DEF IInv, TypeOK, Alone, ReportInv, PendingInv, ReportsHonest
<1> QED
  BY <1>1, Invariance, PTL

(* With any number of PaddleBoards, only containers of dead processes are  *)
(* removed.                                                                *)
THEOREM LiveContainersKeptCorrect == Spec => LiveContainersKept
<1>1. IInv /\ [Next]_vars =>
        [\A p \in Pids : RemoveContainers(p) =>
           \A c \in app[p].listed : cmd[c].orphan]_vars
  <2>1. ASSUME IInv, NEW p \in Pids, RemoveContainers(p), NEW c \in app[p].listed
        PROVE  cmd[c].orphan
    <3>1. c \in Commands
      BY <2>1 DEF IInv, TypeOK, App
    <3> QED
      BY <2>1, <3>1 DEF IInv, Shared, ReaperInv, RemoveContainers, Reaping
  <2> QED
    BY <2>1
<1> QED
  BY <1>1, Invariance, PTL DEF Spec, LiveContainersKept
=============================================================================
