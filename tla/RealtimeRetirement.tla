-------------------------- MODULE RealtimeRetirement --------------------------
(***************************************************************************)
(* The controlled retirement of the service POKER_REALTIME ("R6"): an      *)
(* evidence chain of write-once reports (preflight, replay, parity), a     *)
(* suspension of at least Window, sampled by checks, and a rollback drill  *)
(* that resumes the service; and the recovery path that rebuilds the       *)
(* evidence from the service's lifecycle timestamps when the reports are   *)
(* gone.                                                                   *)
(*                                                                         *)
(* A command is a sequence of steps (snapshots, the clock, ALTER SERVICE,  *)
(* waits, the report); between two of them time passes, operators and      *)
(* other services act, and the command can be killed.  One snapshot, of    *)
(* all that it reads, is one step.  A report is a record; as every         *)
(* command refuses to overwrite a file, reports only accumulate until the  *)
(* directory is purged.  A report that no command accepts (failed, or a    *)
(* check in progress) is left out.  A hash that binds a report to another  *)
(* is that report itself.                                                  *)
(***************************************************************************)
EXTENDS Integers, FiniteSets

CONSTANTS
  Window,      \* MINIMUM_SUSPENSION_HOURS
  MaxTime,     \* bound on the clock
  MaxHands,    \* bound on the hands of the legacy topic
  MaxOutside,  \* bound: deeds of operators, other services and purges
  MaxFaults,   \* bound: commands killed, and calls of a command that raise
  MaxReports   \* bound: reports kept

ASSUME RetirementAssumption ==
  /\ Window \in Nat \ {0}
  /\ MaxTime \in Nat /\ MaxHands \in Nat /\ MaxOutside \in Nat /\ MaxFaults \in Nat
  /\ MaxReports \in Nat

VARIABLES
  clock,
  service,    \* what SHOW SERVICES says of POKER_REALTIME
  legacy,     \* hands.raw and the group realtime-processor
  canonical,  \* "ok": sink and admin are ready and the sink has no lag
  dead,       \* rows of POKER_SINK_DEAD_LETTERS
  commit,     \* HEAD of the controller's clean worktree
  reports,    \* the evidence on disk
  command,    \* the command that runs, and what it read so far
  ran,        \* history: the ticks in which the service ran
  stranded,   \* history: a start ended before it could undo its suspension
  outside, faults

vars == <<clock, service, legacy, canonical, dead, commit, reports, command, ran, stranded,
          outside, faults>>
world == <<service, legacy, canonical, dead, commit>>

NoTime == -1
Idle   == [pc |-> "idle"]

\* The contract the recovery script has written in: spec digest, dead letters and
\* the offset after the replayed hand.
Expected == [spec |-> 1, dead |-> 0, offset |-> 1]

Init ==
  /\ clock = 0
  /\ service = [status |-> "RUNNING", spec |-> 1, suspended_on |-> NoTime,
                resumed_on |-> NoTime, updated_on |-> 0]
  /\ legacy = [end |-> 0, committed |-> 0, active |-> TRUE, foreign |-> FALSE]
  /\ canonical = "ok" /\ dead = 0 /\ commit = 1
  /\ reports = {} /\ command = Idle
  /\ ran = {0} /\ stranded = FALSE /\ outside = 0 /\ faults = 0

\* A command is killed, or a call of it raises.
Raise == faults < MaxFaults /\ faults' = faults + 1

Of(phase) == {r \in reports : r.phase = phase}

Write(r) == /\ reports' = reports \cup {r}
            /\ Cardinality(reports') <= MaxReports
WriteIf(accepted, r) == IF accepted THEN Write(r) ELSE UNCHANGED reports

\* active_dependencies without the legacy group's own: suspended, nobody may read.
NoDependency == ~legacy.active /\ ~legacy.foreign

-----------------------------------------------------------------------------
(* ALTER SERVICE, and what follows it. *)

\* What Snowflake makes of it.
Suspended == [service EXCEPT !.status = "SUSPENDED",
                             !.suspended_on = clock, !.updated_on = clock]
Resumed   == [service EXCEPT !.status = "RUNNING",
                             !.resumed_on = clock, !.updated_on = clock]

\* A statement that changes nothing leaves the timestamps.
Alter(state) ==
  /\ service' = CASE state = "SUSPEND" /\ service.status = "RUNNING"  -> Suspended
                  [] state = "RESUME"  /\ service.status = "SUSPENDED" -> Resumed
                  [] OTHER -> service
  /\ ran' = IF service'.status = "RUNNING" THEN ran \cup {clock} ELSE ran

\* The container becomes ready and its consumer joins the group; once the service is
\* gone, the broker drops the consumer.
Membership ==
  /\ legacy.active # (service.status = "RUNNING")
  /\ legacy' = [legacy EXCEPT !.active = ~@]
  /\ UNCHANGED <<clock, service, canonical, dead, commit, reports, command, ran, stranded, outside, faults>>

Consume ==
  /\ service.status = "RUNNING" /\ legacy.active /\ legacy.committed < legacy.end
  /\ legacy' = [legacy EXCEPT !.committed = legacy.end]
  /\ UNCHANGED <<clock, service, canonical, dead, commit, reports, command, ran, stranded, outside, faults>>

-----------------------------------------------------------------------------
(* The evidence chain: audit, replay, parity. *)

Preflight ==
  /\ command = Idle
  /\ service.status = "RUNNING" /\ legacy.active /\ ~legacy.foreign
  /\ Write([phase |-> "preflight", commit |-> commit, spec |-> service.spec])
  /\ UNCHANGED <<clock, world, command, ran, stranded, outside, faults>>

\* The sealed hands are published one by one; the report is written after the last
\* acknowledgement, and a replay that is killed before leaves its hands behind.
Replay(finishes) ==
  /\ command = Idle /\ legacy.end < MaxHands
  /\ legacy' = [legacy EXCEPT !.end = @ + 1]
  /\ IF finishes
     THEN /\ Write([phase |-> "replay", commit |-> commit, offset |-> legacy.end + 1])
          /\ UNCHANGED faults
     ELSE /\ Raise
          /\ UNCHANGED reports
  /\ UNCHANGED <<clock, service, canonical, dead, commit, command, ran, stranded, outside>>

\* Waits for the replay's commits, then compares the rows: every published hand that
\* is committed has its rows (module RealTimeProcessor).
Parity(p, r) ==
  /\ command = Idle
  /\ p.commit = r.commit
  /\ legacy.committed >= r.offset
  /\ canonical = "ok"
  /\ Write([phase |-> "parity", commit |-> r.commit, committed |-> r.offset])
  /\ UNCHANGED <<clock, world, command, ran, stranded, outside, faults>>

-----------------------------------------------------------------------------
(* start *)

RunningBaseline(p, q) ==
  /\ service.status = "RUNNING" /\ service.spec = p.spec
  /\ canonical = "ok"
  /\ legacy.active /\ ~legacy.foreign
  /\ legacy.committed = legacy.end /\ legacy.committed >= q.committed

\* The chain of reports, then the snapshot "before".
Start(p, q) ==
  /\ command = Idle
  /\ p.commit = q.commit
  /\ RunningBaseline(p, q)
  /\ command' = [pc |-> "stamp", preflight |-> p, parity |-> q, before |-> legacy.committed]
  /\ UNCHANGED <<clock, world, reports, ran, stranded, outside, faults>>

\* started_at is taken after the snapshot and before the ALTER.
StartStamps ==
  /\ command.pc = "stamp"
  /\ command' = [pc |-> "suspend", preflight |-> command.preflight, parity |-> command.parity,
                 before |-> command.before, started_at |-> clock]
  /\ UNCHANGED <<clock, world, reports, ran, stranded, outside, faults>>

\* From here on an exception leads to the except clause: "undo".
StartSuspends ==
  /\ command.pc = "suspend"
  /\ \/ /\ Alter("SUSPEND") /\ UNCHANGED faults
        /\ command' = [command EXCEPT !.pc = "verify"]
     \/ /\ Raise /\ UNCHANGED <<service, ran>>
        /\ command' = [command EXCEPT !.pc = "undo"]
  /\ UNCHANGED <<clock, legacy, canonical, dead, commit, reports, stranded, outside>>

AfterSuspension ==
  /\ service.status = "SUSPENDED"
  /\ canonical = "ok"
  /\ NoDependency
  /\ legacy.committed >= command.before

\* The waits and the snapshot "after".  A wait that times out, a snapshot that is not as it
\* should be, or a call that raises, leads to the except clause.
StartVerifies ==
  /\ command.pc = "verify"
  /\ \/ /\ AfterSuspension
        /\ command' = [pc |-> "report", preflight |-> command.preflight,
                       parity |-> command.parity, before |-> command.before,
                       started_at |-> command.started_at,
                       after |-> legacy.committed, dead |-> dead]
        /\ UNCHANGED faults
     \/ /\ (~AfterSuspension /\ UNCHANGED faults) \/ Raise
        /\ command' = [command EXCEPT !.pc = "undo"]
  /\ UNCHANGED <<clock, world, reports, ran, stranded, outside>>

\* The report hashes the files of its chain, outside the try: if they are gone, the
\* command ends without a report and leaves the service suspended.
\* (Mutant first: the end of the window is kept as its start.)
StartReportsEnd ==
  /\ command.pc = "report"
  /\ WriteIf({command.preflight, command.parity} \subseteq reports,
             [phase |-> "start", preflight |-> command.preflight, parity |-> command.parity,
              started_at |-> command.started_at + Window, before |-> command.before,
              after |-> command.after, dead |-> command.dead])
  /\ command' = Idle
  /\ UNCHANGED <<clock, world, ran, stranded, outside, faults>>
StartReports ==
  /\ command.pc = "report"
  /\ WriteIf({command.preflight, command.parity} \subseteq reports,
             [phase |-> "start", preflight |-> command.preflight, parity |-> command.parity,
              started_at |-> command.started_at, before |-> command.before,
              after |-> command.after, dead |-> command.dead])
  /\ command' = Idle
  /\ UNCHANGED <<clock, world, ran, stranded, outside, faults>>

\* Mutant: the except clause only raises.
StartGivesUp ==
  /\ command.pc = "undo"
  /\ command' = Idle
  /\ UNCHANGED <<clock, world, reports, ran, stranded, outside, faults>>
\* The except clause.  What it waits for afterwards changes nothing; its own ALTER may
\* raise as well, and then nobody resumes the service.
StartResumes ==
  /\ command.pc = "undo"
  /\ command' = Idle
  /\ \/ Alter("RESUME") /\ UNCHANGED <<stranded, faults>>
     \/ Raise /\ stranded' = TRUE /\ UNCHANGED <<service, ran>>
  /\ UNCHANGED <<clock, legacy, canonical, dead, commit, reports, outside>>

\* _validate_start_report: the files that the start report binds are there.
Valid(s) == s \in Of("start") /\ {s.preflight, s.parity} \subseteq reports

-----------------------------------------------------------------------------
(* check: a snapshot against the start report; then the clock is read, and the report  *)
(* says whether the window is over.                                                    *)

Healthy(s) ==
  /\ service.status = "SUSPENDED"
  /\ canonical = "ok" /\ dead = s.dead
  /\ NoDependency
  /\ legacy.committed >= s.after

Check(s) ==
  /\ command = Idle
  /\ Valid(s) /\ Healthy(s)
  /\ command' = [pc |-> "check", start |-> s, sampled_at |-> clock]
  /\ UNCHANGED <<clock, world, reports, ran, stranded, outside, faults>>

CheckReports ==
  /\ command.pc = "check"
  /\ WriteIf(clock >= command.start.started_at + Window,
             [phase |-> "check", start |-> command.start,
              sampled_at |-> command.sampled_at, at |-> clock])
  /\ command' = Idle
  /\ UNCHANGED <<clock, world, ran, stranded, outside, faults>>

-----------------------------------------------------------------------------
(* rollback: resume, wait, verify, report. *)

\* _validate_completed_check: the report must be bound to this very start.
\* (Mutant first: any completed check will do.)
AnyCompletedCheck(s) == Of("check") # {}
CompletedCheck(s) == \E c \in Of("check") : c.start = s

Rollback(s, early) ==
  /\ command = Idle
  /\ Valid(s)
  /\ early \/ (clock >= s.started_at + Window /\ CompletedCheck(s))
  /\ command' = [pc |-> "resume",
                 drill |-> [phase |-> "rollback", source |-> s, early |-> early]]
  /\ UNCHANGED <<clock, world, reports, ran, stranded, outside, faults>>

\* (An ALTER that raises ends the command here: Kill.)
RollbackResumes ==
  /\ command.pc = "resume"
  /\ Alter("RESUME")
  /\ command' = [command EXCEPT !.pc = "ready"]
  /\ UNCHANGED <<clock, legacy, canonical, dead, commit, reports, stranded, outside, faults>>

\* _wait_for_realtime: the service is ready; its specification is kept for the verdict.
RollbackReady ==
  /\ command.pc = "ready"
  /\ service.status = "RUNNING"
  /\ command' = [pc |-> "drain", drill |-> command.drill, spec |-> service.spec]
  /\ UNCHANGED <<clock, world, reports, ran, stranded, outside, faults>>

\* What the drill expects: of the start report, or of the recovery contract.
Contract(source) == IF source.phase = "start"
                    THEN [spec |-> source.preflight.spec, offset |-> source.before]
                    ELSE [spec |-> Expected.spec, offset |-> Expected.offset]

\* _wait_for_legacy_kafka.
CaughtUp == legacy.active /\ legacy.committed = legacy.end

\* The recovered rollback verifies the canonical path as well.
RollbackVerifies ==
  /\ command.pc = "drain"
  /\ CaughtUp
  /\ LET contract == Contract(command.drill.source)
     IN WriteIf(/\ command.spec = contract.spec
                /\ legacy.committed >= contract.offset
                /\ \/ command.drill.phase = "rollback"
                   \/ canonical = "ok" /\ dead = Expected.dead,
                command.drill)
  /\ command' = Idle
  /\ UNCHANGED <<clock, world, ran, stranded, outside, faults>>

\* A wait gives up: no report, and the service stays resumed.
RollbackTimesOut ==
  /\ \/ command.pc = "ready" /\ service.status # "RUNNING"
     \/ command.pc = "drain" /\ ~CaughtUp
  /\ command' = Idle
  /\ UNCHANGED <<clock, world, reports, ran, stranded, outside, faults>>

-----------------------------------------------------------------------------
(* The recovery script.  capture takes the time, reads the lifecycle, and then the     *)
(* snapshot; rollback reads the lifecycle, the snapshot, and then the time.            *)

Lifecycle == [status |-> service.status, suspended_on |-> service.suspended_on,
              resumed_on |-> service.resumed_on, updated_on |-> service.updated_on]

\* evaluate_recovery: the blockers that the lifecycle shows, and those of the snapshot.
\* (Mutant first: the age of the suspension is not looked at.)
LifecycleClearUntimed(life, observed_at) ==
  /\ life.status = "SUSPENDED"
  /\ life.suspended_on # NoTime /\ life.updated_on = life.suspended_on
LifecycleClear(life, observed_at) ==
  /\ life.status = "SUSPENDED"
  /\ life.suspended_on # NoTime
  /\ observed_at - life.suspended_on >= Window
  /\ life.resumed_on < life.suspended_on
  /\ life.updated_on = life.suspended_on

SnapshotClear ==
  /\ service.status = "SUSPENDED"
  /\ service.spec = Expected.spec
  /\ canonical = "ok" /\ dead = Expected.dead
  /\ NoDependency
  /\ legacy.committed = Expected.offset /\ legacy.end = Expected.offset

Capture ==
  /\ command = Idle
  /\ command' = [pc |-> "observe", commit |-> commit, observed_at |-> clock]
  /\ UNCHANGED <<clock, world, reports, ran, stranded, outside, faults>>

CaptureObserves ==
  /\ command.pc = "observe"
  /\ command' = [pc |-> "evaluate", commit |-> command.commit,
                 observed_at |-> command.observed_at, life |-> Lifecycle]
  /\ UNCHANGED <<clock, world, reports, ran, stranded, outside, faults>>

CaptureReports ==
  /\ command.pc = "evaluate"
  /\ WriteIf(LifecycleClear(command.life, command.observed_at) /\ SnapshotClear,
             [phase |-> "recovery", commit |-> command.commit,
              observed_at |-> command.observed_at])
  /\ command' = Idle
  /\ UNCHANGED <<clock, world, ran, stranded, outside, faults>>

RecoveredRollback(r) ==
  /\ command = Idle
  /\ r.commit = commit
  /\ command' = [pc |-> "reevaluate", source |-> r, life |-> Lifecycle]
  /\ UNCHANGED <<clock, world, reports, ran, stranded, outside, faults>>

\* Live again, before the service is touched: a blocker ends the command.
Reevaluate ==
  /\ command.pc = "reevaluate"
  /\ command' = IF SnapshotClear THEN [command EXCEPT !.pc = "decide"] ELSE Idle
  /\ UNCHANGED <<clock, world, reports, ran, stranded, outside, faults>>

Decide ==
  /\ command.pc = "decide"
  /\ command' = IF LifecycleClear(command.life, clock)
                THEN [pc |-> "resume",
                      drill |-> [phase |-> "recovered_rollback", source |-> command.source,
                                 early |-> FALSE]]
                ELSE Idle
  /\ UNCHANGED <<clock, world, reports, ran, stranded, outside, faults>>

-----------------------------------------------------------------------------
(* The world around the commands. *)

Outside ==
  /\ outside < MaxOutside /\ outside' = outside + 1
  /\ UNCHANGED <<clock, stranded, faults>>

OperatorAlters(state) ==
  /\ Outside /\ Alter(state)
  /\ UNCHANGED <<legacy, canonical, dead, commit, reports, command>>

\* deploy.py puts another specification on the service.
Redeploy ==
  /\ Outside
  /\ service' = [service EXCEPT !.spec = 2, !.updated_on = clock]
  /\ UNCHANGED <<legacy, canonical, dead, commit, reports, command, ran>>

PurgeReports ==
  /\ Outside /\ reports # {} /\ reports' = {}
  /\ UNCHANGED <<world, command, ran>>

NewCommit ==
  /\ Outside /\ commit' = commit + 1
  /\ UNCHANGED <<service, legacy, canonical, dead, reports, command, ran>>

CanonicalTrouble ==
  /\ Outside /\ canonical' = IF canonical = "ok" THEN "lagging" ELSE "ok"
  /\ UNCHANGED <<service, legacy, dead, commit, reports, command, ran>>

DeadLetter ==
  /\ Outside /\ dead' = dead + 1
  /\ UNCHANGED <<service, legacy, canonical, commit, reports, command, ran>>

ForeignGroup ==
  /\ Outside /\ legacy' = [legacy EXCEPT !.foreign = ~@]
  /\ UNCHANGED <<service, canonical, dead, commit, reports, command, ran>>

\* The controller is killed between two steps, or raises where nobody catches it: what it
\* altered stays altered.
Kill ==
  /\ command # Idle
  /\ Raise
  /\ command' = Idle
  /\ stranded' = IF command.pc = "undo" THEN TRUE ELSE stranded
  /\ UNCHANGED <<clock, world, reports, ran, outside>>

Tick ==
  /\ clock < MaxTime /\ clock' = clock + 1
  /\ ran' = IF service.status = "RUNNING" THEN ran \cup {clock'} ELSE ran
  /\ UNCHANGED <<world, reports, command, stranded, outside, faults>>

CommandStep ==
  \/ StartStamps \/ StartSuspends \/ StartVerifies \/ StartReports \/ StartResumes
  \/ CheckReports
  \/ RollbackResumes \/ RollbackReady \/ RollbackVerifies \/ RollbackTimesOut
  \/ CaptureObserves \/ CaptureReports \/ Reevaluate \/ Decide

Next ==
  \/ Preflight
  \/ \E finishes \in BOOLEAN : Replay(finishes)
  \/ \E p \in Of("preflight"), r \in Of("replay") : Parity(p, r)
  \/ \E p \in Of("preflight"), q \in Of("parity") : Start(p, q)
  \/ \E s \in Of("start") : Check(s)
  \/ \E s \in Of("start"), early \in BOOLEAN : Rollback(s, early)
  \/ Capture
  \/ \E r \in Of("recovery") : RecoveredRollback(r)
  \/ CommandStep
  \/ Membership \/ Consume
  \/ \E state \in {"SUSPEND", "RESUME"} : OperatorAlters(state)
  \/ Redeploy \/ PurgeReports \/ NewCommit \/ CanonicalTrouble \/ DeadLetter \/ ForeignGroup
  \/ Kill \/ Tick

\* A command that runs goes on; nothing else is promised.
Spec == Init /\ [][Next]_vars /\ WF_vars(CommandStep)

-----------------------------------------------------------------------------

Digest == {1, 2}
Offset == 0..MaxHands
Time   == 0..MaxTime
Stamp  == Time \cup {NoTime}
Commit == 1..MaxOutside + 1

PreflightReport == [phase : {"preflight"}, commit : Commit, spec : Digest]
ReplayReport    == [phase : {"replay"}, commit : Commit, offset : Offset]
ParityReport    == [phase : {"parity"}, commit : Commit, committed : Offset]
StartReport     == [phase : {"start"}, preflight : PreflightReport, parity : ParityReport,
                    started_at : Time, before : Offset, after : Offset, dead : 0..MaxOutside]
CheckReport     == [phase : {"check"}, start : StartReport, sampled_at : Time, at : Time]
RecoveryReport  == [phase : {"recovery"}, commit : Commit, observed_at : Time]
RollbackReport  == [phase : {"rollback"}, source : StartReport, early : BOOLEAN]
                   \cup [phase : {"recovered_rollback"}, source : RecoveryReport, early : {FALSE}]

Report == PreflightReport \cup ReplayReport \cup ParityReport \cup StartReport
          \cup CheckReport \cup RecoveryReport \cup RollbackReport

Life == [status : {"RUNNING", "SUSPENDED"}, suspended_on : Stamp, resumed_on : Stamp,
         updated_on : Stamp]

StampCommand   == [pc : {"stamp"}, preflight : PreflightReport, parity : ParityReport,
                   before : Offset]
SuspendCommand == [pc : {"suspend", "verify", "undo"}, preflight : PreflightReport,
                   parity : ParityReport, before : Offset, started_at : Time]
ReportCommand  == [pc : {"report"}, preflight : PreflightReport, parity : ParityReport,
                   before : Offset, started_at : Time, after : Offset, dead : 0..MaxOutside]
CheckCommand   == [pc : {"check"}, start : StartReport, sampled_at : Time]
ResumeCommand  == [pc : {"resume", "ready"}, drill : RollbackReport]
DrainCommand   == [pc : {"drain"}, drill : RollbackReport, spec : Digest]
ObserveCommand == [pc : {"observe"}, commit : Commit, observed_at : Time]
CaptureCommand == [pc : {"evaluate"}, commit : Commit, observed_at : Time, life : Life]
RecoverCommand == [pc : {"reevaluate", "decide"}, source : RecoveryReport, life : Life]

Command == {Idle} \cup StampCommand \cup SuspendCommand \cup ReportCommand \cup CheckCommand
           \cup ResumeCommand \cup DrainCommand
           \cup ObserveCommand \cup CaptureCommand \cup RecoverCommand

\* Every variable keeps its type, no timestamp of the service, of a report or of a command
\* lies in the future, and the service's status agrees with its last ALTER.
TypeOK ==
  /\ clock \in Time
  /\ service \in [status : {"RUNNING", "SUSPENDED"}, spec : Digest,
                  suspended_on : Stamp, resumed_on : Stamp, updated_on : Stamp]
  /\ service.suspended_on <= clock /\ service.resumed_on <= clock
  /\ service.status = "SUSPENDED" => service.suspended_on >= service.resumed_on
  /\ legacy \in [end : Offset, committed : Offset, active : BOOLEAN, foreign : BOOLEAN]
  /\ legacy.committed <= legacy.end
  /\ canonical \in {"ok", "lagging"}
  /\ dead \in 0..outside /\ commit \in 1..outside + 1
  /\ reports \subseteq Report /\ command \in Command
  /\ \A s \in Of("start") : s.started_at <= clock
  /\ \A c \in Of("check") : c.sampled_at <= c.at /\ c.at <= clock
  /\ \A r \in Of("recovery") : r.observed_at <= clock
  /\ command.pc \in {"suspend", "verify", "undo", "report"} => command.started_at <= clock
  /\ command.pc = "check" => command.sampled_at <= clock
  /\ command.pc \in {"observe", "evaluate"} => command.observed_at <= clock
  /\ ran \subseteq 0..clock /\ stranded \in BOOLEAN
  /\ outside \in 0..MaxOutside /\ faults \in 0..MaxFaults

\* A passed recovery report proves what no check samples: in the whole Window before
\* its observation the service did not run at any time, whoever resumed or suspended
\* it, or redeployed it, meanwhile (evaluate_recovery on the timestamps of SHOW SERVICES).
CaptureProvesSuspension ==
  \A r \in Of("recovery") :
    \A t \in r.observed_at - Window + 1 .. r.observed_at - 1 : t \notin ran

\* A drill that was not asked to be early rests on evidence of its own suspension: a check
\* bound to its own start, whose snapshot was healthy and taken after that start, and whose
\* report was written at least Window after it (rollback, check).  The snapshot itself may be
\* older than the end of the window: check reads the clock after the world.  A start report
\* that has been purged since binds nobody.
DrillAfterWindow ==
  \A r \in Of("rollback") :
    ~r.early /\ r.source \in reports =>
      \E c \in Of("check") :
        /\ c.start = r.source
        /\ c.sampled_at >= r.source.started_at
        /\ c.at >= r.source.started_at + Window

\* A start that has touched the service and cannot verify the suspension ends with the
\* service running again, unless its controller is killed or its own RESUME raises first
\* (the except clause of start, whose ALTER nothing guards).
FailedStartResumes ==
  command.pc = "undo" ~> service.status = "RUNNING" \/ stranded
=============================================================================
