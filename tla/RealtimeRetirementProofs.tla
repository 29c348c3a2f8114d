----------------------- MODULE RealtimeRetirementProofs -----------------------
(***************************************************************************)
(* Theorems of RealtimeRetirement, for every length of the window and any   *)
(* number of deeds by operators, faults and reports.                       *)
(***************************************************************************)
EXTENDS RealtimeRetirement, TLAPS

Service == [status : {"RUNNING", "SUSPENDED"}, spec : Digest,
            suspended_on : Stamp, resumed_on : Stamp, updated_on : Stamp]

\* What an ALTER SERVICE or the clock may do to the service and to its history.
ServiceOK ==
  /\ service \in Service
  /\ service.suspended_on <= clock /\ service.resumed_on <= clock
  /\ service.status = "SUSPENDED" => service.suspended_on >= service.resumed_on
  /\ ran \subseteq 0..clock

LegacyOK ==
  /\ legacy \in [end : Offset, committed : Offset, active : BOOLEAN, foreign : BOOLEAN]
  /\ legacy.committed <= legacy.end

CountersOK ==
  /\ canonical \in {"ok", "lagging"}
  /\ dead \in 0..outside /\ commit \in 1..outside + 1
  /\ stranded \in BOOLEAN
  /\ outside \in 0..MaxOutside /\ faults \in 0..MaxFaults

RecordsOK == reports \subseteq Report /\ command \in Command

DatesOK ==
  /\ \A s \in Of("start") : s.started_at <= clock
  /\ \A c \in Of("check") : c.sampled_at <= c.at /\ c.at <= clock
  /\ \A r \in Of("recovery") : r.observed_at <= clock

CommandDatesOK ==
  /\ command.pc \in {"suspend", "verify", "undo", "report"} => command.started_at <= clock
  /\ command.pc = "check" => command.sampled_at <= clock
  /\ command.pc \in {"observe", "evaluate"} => command.observed_at <= clock

\* TypeOK in parts that a step changes together.
LEMMA TypeParts ==
  TypeOK <=> /\ clock \in Time /\ ServiceOK /\ LegacyOK /\ CountersOK
             /\ RecordsOK /\ DatesOK /\ CommandDatesOK
BY DEF TypeOK, ServiceOK, Service, LegacyOK, CountersOK, RecordsOK, DatesOK, CommandDatesOK

\* An ALTER SERVICE leaves a service whose timestamps are those of its last change.
LEMMA AlterKeepsService ==
  ASSUME ServiceOK, clock \in Time, NEW state \in {"SUSPEND", "RESUME"}, Alter(state),
         clock' = clock
  PROVE  ServiceOK'
<1>1. service' \in {service, Suspended, Resumed}
  BY DEF Alter
<1>2. ran' \subseteq 0..clock
  BY RetirementAssumption DEF Alter, ServiceOK, Time, RetirementAssumption
<1>3. service \in Service /\ clock \in Stamp /\ clock \in Int
      /\ service.suspended_on <= clock /\ service.resumed_on <= clock
      /\ service.suspended_on \in Int /\ service.resumed_on \in Int
  BY RetirementAssumption DEF ServiceOK, Service, Stamp, Time, NoTime, RetirementAssumption
<1>4. /\ Suspended \in Service
      /\ Suspended.suspended_on = clock /\ Suspended.resumed_on = service.resumed_on
  BY <1>3 DEF Suspended, Service
<1>5. /\ Resumed \in Service /\ Resumed.status = "RUNNING"
      /\ Resumed.suspended_on = service.suspended_on /\ Resumed.resumed_on = clock
  BY <1>3 DEF Resumed, Service
<1>6. CASE service' = service
  BY <1>2, <1>6 DEF ServiceOK
<1>7. CASE service' = Suspended
  BY <1>2, <1>3, <1>4, <1>7 DEF ServiceOK
<1>8. CASE service' = Resumed
  BY <1>2, <1>3, <1>5, <1>8 DEF ServiceOK
<1> QED
  BY <1>1, <1>6, <1>7, <1>8

\* The step of a command is told by its pc.
LEMMA CommandKinds ==
  ASSUME NEW c \in Command
  PROVE  /\ c.pc = "stamp" => c \in StampCommand
         /\ c.pc \in {"suspend", "verify", "undo"} => c \in SuspendCommand
         /\ c.pc = "report" => c \in ReportCommand
         /\ c.pc = "check" => c \in CheckCommand
         /\ c.pc \in {"resume", "ready"} => c \in ResumeCommand
         /\ c.pc = "drain" => c \in DrainCommand
         /\ c.pc = "observe" => c \in ObserveCommand
         /\ c.pc = "evaluate" => c \in CaptureCommand
         /\ c.pc \in {"reevaluate", "decide"} => c \in RecoverCommand
<1>1. CASE c = Idle
  BY <1>1 DEF Idle
<1>2. CASE c \in StampCommand
  BY <1>2 DEF StampCommand
<1>3. CASE c \in SuspendCommand
  BY <1>3 DEF SuspendCommand
<1>4. CASE c \in ReportCommand
  BY <1>4 DEF ReportCommand
<1>5. CASE c \in CheckCommand
  BY <1>5 DEF CheckCommand
<1>6. CASE c \in ResumeCommand
  BY <1>6 DEF ResumeCommand
<1>7. CASE c \in DrainCommand
  BY <1>7 DEF DrainCommand
<1>8. CASE c \in ObserveCommand
  BY <1>8 DEF ObserveCommand
<1>9. CASE c \in CaptureCommand
  BY <1>9 DEF CaptureCommand
<1>10. CASE c \in RecoverCommand
  BY <1>10 DEF RecoverCommand
<1> QED
  BY <1>1, <1>2, <1>3, <1>4, <1>5, <1>6, <1>7, <1>8, <1>9, <1>10 DEF Command

\* The kind of a report is told by its phase.
LEMMA ReportKinds ==
  ASSUME RecordsOK
  PROVE  /\ Of("preflight") \subseteq PreflightReport /\ Of("parity") \subseteq ParityReport
         /\ Of("replay") \subseteq ReplayReport /\ Of("start") \subseteq StartReport
         /\ Of("check") \subseteq CheckReport /\ Of("recovery") \subseteq RecoveryReport
         /\ Of("rollback") \subseteq RollbackReport
<1> SUFFICES ASSUME NEW r \in reports
             PROVE  /\ r.phase = "preflight" => r \in PreflightReport
                    /\ r.phase = "parity" => r \in ParityReport
                    /\ r.phase = "replay" => r \in ReplayReport
                    /\ r.phase = "start" => r \in StartReport
                    /\ r.phase = "check" => r \in CheckReport
                    /\ r.phase = "recovery" => r \in RecoveryReport
                    /\ r.phase = "rollback" => r \in RollbackReport
  BY DEF Of
<1>1. CASE r \in PreflightReport
  BY <1>1 DEF PreflightReport
<1>2. CASE r \in ReplayReport
  BY <1>2 DEF ReplayReport
<1>3. CASE r \in ParityReport
  BY <1>3 DEF ParityReport
<1>4. CASE r \in StartReport
  BY <1>4 DEF StartReport
<1>5. CASE r \in CheckReport
  BY <1>5 DEF CheckReport
<1>6. CASE r \in RecoveryReport
  BY <1>6 DEF RecoveryReport
<1>7. CASE r \in RollbackReport
  BY <1>7 DEF RollbackReport
<1> QED
  BY <1>1, <1>2, <1>3, <1>4, <1>5, <1>6, <1>7 DEF RecordsOK, Report

\* The numbers that the model counts with.
LEMMA Numbers ==
  ASSUME TypeOK
  PROVE  /\ clock \in Time /\ clock \in Nat /\ ran \subseteq 0..clock /\ service \in Service
         /\ service.suspended_on \in Int /\ service.resumed_on \in Int
         /\ legacy.end \in Offset /\ legacy.committed \in Offset
         /\ dead \in 0..MaxOutside /\ commit \in Commit
         /\ Lifecycle \in Life
BY RetirementAssumption
   DEF TypeOK, RetirementAssumption, Time, Stamp, NoTime, Commit, Service, Lifecycle, Life

\* A step that changes the command into a command of the right kind.
LEMMA CommandStepTypes ==
  ASSUME TypeOK, [Next]_vars
  PROVE  command' \in Command
<1> USE Numbers, CommandKinds, ReportKinds
<1>t. RecordsOK /\ command \in Command
  BY TypeParts DEF RecordsOK
<1>1. CASE command' \in {command, Idle}
  BY <1>1, <1>t DEF Command
<1>2. ASSUME NEW p \in Of("preflight"), NEW q \in Of("parity"), Start(p, q)
      PROVE  command' \in Command
  <2>1. p \in PreflightReport /\ q \in ParityReport
    BY <1>t
  <2> QED
    BY <1>2, <2>1 DEF Start, StampCommand, Command
<1>3. CASE StartStamps
  <2>1. command \in StampCommand
    BY <1>3, <1>t DEF StartStamps
  <2> QED
    BY <1>3, <2>1 DEF StartStamps, StampCommand, SuspendCommand, Command
<1>4. CASE StartSuspends
  <2>1. command \in SuspendCommand
    BY <1>4, <1>t DEF StartSuspends
  <2>2. PICK pc \in {"verify", "undo"} : command' = [command EXCEPT !.pc = pc]
    BY <1>4 DEF StartSuspends
  <2> QED
    BY <2>1, <2>2 DEF SuspendCommand, Command
<1>5. CASE StartVerifies
  <2>1. command \in SuspendCommand
    BY <1>5, <1>t DEF StartVerifies
  <2>2. CASE command' = [command EXCEPT !.pc = "undo"]
    BY <2>1, <2>2 DEF SuspendCommand, Command
  <2>3. CASE command' = [pc |-> "report", preflight |-> command.preflight,
                         parity |-> command.parity, before |-> command.before,
                         started_at |-> command.started_at,
                         after |-> legacy.committed, dead |-> dead]
    BY <2>1, <2>3 DEF SuspendCommand, ReportCommand, Command
  <2> QED
    BY <1>5, <2>2, <2>3 DEF StartVerifies
<1>6. ASSUME NEW s \in Of("start"), Check(s) PROVE command' \in Command
  <2>1. s \in StartReport
    BY <1>t
  <2> QED
    BY <1>6, <2>1 DEF Check, CheckCommand, Command
<1>7. ASSUME NEW s \in Of("start"), NEW early \in BOOLEAN, Rollback(s, early)
      PROVE  command' \in Command
  <2>1. s \in StartReport
    BY <1>t
  <2> DEFINE drill == [phase |-> "rollback", source |-> s, early |-> early]
  <2>2. drill \in RollbackReport
    BY <2>1 DEF RollbackReport
  <2> HIDE DEF drill
  <2>3. command' = [pc |-> "resume", drill |-> drill]
    BY <1>7 DEF Rollback, drill
  <2> QED
    BY <2>2, <2>3 DEF ResumeCommand, Command
<1>8. CASE RollbackResumes
  <2>1. command \in ResumeCommand
    BY <1>8, <1>t DEF RollbackResumes
  <2> QED
    BY <1>8, <2>1 DEF RollbackResumes, ResumeCommand, Command
<1>9. CASE RollbackReady
  <2>1. command \in ResumeCommand
    BY <1>9, <1>t DEF RollbackReady
  <2> QED
    BY <1>9, <2>1 DEF RollbackReady, ResumeCommand, DrainCommand, Command, Service
<1>10. CASE Capture
  BY <1>10 DEF Capture, ObserveCommand, Command
<1>11. CASE CaptureObserves
  <2>1. command \in ObserveCommand
    BY <1>11, <1>t DEF CaptureObserves
  <2> QED
    BY <1>11, <2>1 DEF CaptureObserves, ObserveCommand, CaptureCommand, Command
<1>12. ASSUME NEW r \in Of("recovery"), RecoveredRollback(r) PROVE command' \in Command
  <2>1. r \in RecoveryReport
    BY <1>t
  <2> QED
    BY <1>12, <2>1 DEF RecoveredRollback, RecoverCommand, Command
<1>13. CASE Reevaluate
  <2>1. command \in RecoverCommand
    BY <1>13, <1>t DEF Reevaluate
  <2>2. [command EXCEPT !.pc = "decide"] \in RecoverCommand
    BY <2>1 DEF RecoverCommand
  <2> QED
    BY <1>13, <2>2 DEF Reevaluate, Command
<1>14. CASE Decide
  <2>1. command.source \in RecoveryReport
    BY <1>14, <1>t DEF Decide, RecoverCommand
  <2> DEFINE drill == [phase |-> "recovered_rollback", source |-> command.source,
                       early |-> FALSE]
  <2>2. drill \in RollbackReport
    BY <2>1 DEF RollbackReport
  <2> HIDE DEF drill
  <2>3. command' \in {Idle, [pc |-> "resume", drill |-> drill]}
    BY <1>14 DEF Decide, drill
  <2> QED
    BY <2>2, <2>3 DEF ResumeCommand, Command
<1> QED
  BY <1>1, <1>2, <1>3, <1>4, <1>5, <1>6, <1>7, <1>8, <1>9, <1>10, <1>11, <1>12, <1>13, <1>14
     DEF Next, vars, CommandStep, Preflight, Replay, Parity, StartReports, StartResumes,
         CheckReports, RollbackVerifies, RollbackTimesOut, CaptureReports, Membership, Consume,
         OperatorAlters, Redeploy, PurgeReports, NewCommit, CanonicalTrouble, DeadLetter,
         ForeignGroup, Kill, Tick

\* The clock does not go back, and the service runs in no tick but the present one.
LEMMA TicksPass ==
  ASSUME TypeOK, [Next]_vars
  PROVE  /\ clock' \in Time /\ clock' \in Nat /\ clock <= clock' /\ ran' \subseteq 0..clock'
         /\ \A t \in ran' : t \in ran \/ t >= clock
<1>1. clock \in Nat /\ clock \in Time /\ ran \subseteq 0..clock
  BY Numbers
<1>2. CASE Tick
  BY <1>1, <1>2, RetirementAssumption DEF Tick, Time, RetirementAssumption
<1>3. CASE clock' = clock /\ ran' \subseteq ran \cup {clock}
  BY <1>1, <1>3
<1>4. Tick \/ (clock' = clock /\ ran' \subseteq ran \cup {clock})
  BY DEF Next, vars, world, CommandStep, Preflight, Replay, Parity, Start, StartStamps,
         Check, CheckReports, Rollback, Capture, CaptureObserves, RecoveredRollback,
         StartSuspends, StartVerifies, StartReports, StartResumes, RollbackResumes,
         RollbackReady, RollbackVerifies, RollbackTimesOut, CaptureReports, Reevaluate, Decide,
         Membership, Consume, OperatorAlters, Redeploy, PurgeReports, NewCommit,
         CanonicalTrouble, DeadLetter, ForeignGroup, Kill, Outside, Alter
<1> QED
  BY <1>2, <1>3, <1>4

\* What a step does to the timestamps of the command.
LEMMA CommandDates ==
  ASSUME TypeOK, [Next]_vars
  PROVE  CommandDatesOK'
<1>t. CommandDatesOK /\ command \in Command /\ clock \in Nat /\ clock' \in Nat /\ clock <= clock'
  BY TypeParts, Numbers, TicksPass DEF RecordsOK
<1>k. /\ \A c \in SuspendCommand \cup ReportCommand : c.started_at \in Int
      /\ \A c \in CheckCommand : c.sampled_at \in Int
      /\ \A c \in ObserveCommand \cup CaptureCommand : c.observed_at \in Int
  BY RetirementAssumption
     DEF SuspendCommand, ReportCommand, CheckCommand, ObserveCommand, CaptureCommand, Time,
         RetirementAssumption
<1>1. CASE command' = command
  BY <1>1, <1>t, <1>k, CommandKinds DEF CommandDatesOK
<1>2. CASE command'.pc \notin {"suspend", "verify", "undo", "report", "check", "observe",
                               "evaluate"}
  BY <1>2 DEF CommandDatesOK
<1>3. CASE command' = Idle
  BY <1>2, <1>3 DEF Idle
<1>4. CASE StartStamps
  BY <1>4, <1>t DEF StartStamps, CommandDatesOK
<1>5. CASE StartSuspends \/ StartVerifies
  <2>1. command \in SuspendCommand /\ command.started_at <= clock
    BY <1>5, <1>t, CommandKinds DEF StartSuspends, StartVerifies, CommandDatesOK
  <2>2. /\ command'.started_at = command.started_at
        /\ command'.pc \in {"verify", "undo", "report"} /\ clock' = clock
    BY <1>5, <2>1 DEF StartSuspends, StartVerifies, SuspendCommand
  <2> QED
    BY <2>1, <2>2 DEF CommandDatesOK
<1>6. ASSUME NEW s, Check(s) PROVE CommandDatesOK'
  BY <1>6, <1>t DEF Check, CommandDatesOK
<1>7. CASE Capture
  BY <1>7, <1>t DEF Capture, CommandDatesOK
<1>8. CASE CaptureObserves
  BY <1>8, <1>t DEF CaptureObserves, CommandDatesOK
<1>9. ASSUME NEW p, NEW q, Start(p, q) PROVE CommandDatesOK'
  BY <1>2, <1>9 DEF Start
<1>10. ASSUME NEW s, NEW early, Rollback(s, early) PROVE CommandDatesOK'
  BY <1>2, <1>10 DEF Rollback
<1>11. CASE RollbackResumes
  <2>1. command'.pc = "ready"
    BY <1>11, <1>t, CommandKinds DEF RollbackResumes, ResumeCommand
  <2> QED
    BY <1>2, <2>1
<1>12. CASE RollbackReady
  BY <1>2, <1>12 DEF RollbackReady
<1>13. ASSUME NEW r, RecoveredRollback(r) PROVE CommandDatesOK'
  BY <1>2, <1>13 DEF RecoveredRollback
<1>14. CASE Reevaluate
  <2>1. command' = Idle \/ command'.pc = "decide"
    BY <1>14, <1>t, CommandKinds DEF Reevaluate, RecoverCommand
  <2> QED
    BY <1>2, <1>3, <2>1
<1>15. CASE Decide
  BY <1>2, <1>3, <1>15 DEF Decide
<1> QED
  BY <1>1, <1>3, <1>4, <1>5, <1>6, <1>7, <1>8, <1>9, <1>10, <1>11, <1>12, <1>13, <1>14, <1>15
     DEF Next, vars, CommandStep, Preflight, Replay, Parity, StartReports, StartResumes,
         CheckReports, RollbackVerifies, RollbackTimesOut, CaptureReports, Membership, Consume,
         OperatorAlters, Redeploy, PurgeReports, NewCommit, CanonicalTrouble, DeadLetter,
         ForeignGroup, Kill, Tick

\* Every report that is written is of its kind and not dated in the future.
LEMMA ReportStepTypes ==
  ASSUME TypeOK, [Next]_vars
  PROVE  reports' \subseteq Report /\ DatesOK'
<1> USE Numbers, CommandKinds, ReportKinds
<1>t. RecordsOK /\ command \in Command /\ DatesOK /\ CommandDatesOK /\ clock \in Nat
  BY TypeParts DEF RecordsOK
<1> DEFINE Dated(r) == /\ r.phase = "start" => r.started_at <= clock
                       /\ r.phase = "check" => r.sampled_at <= r.at /\ r.at <= clock
                       /\ r.phase = "recovery" => r.observed_at <= clock
           Kept == reports' \subseteq Report /\ DatesOK'
<1>d. \A r \in reports : r \in Report /\ Dated(r)
  BY <1>t DEF RecordsOK, DatesOK, Of
<1>0. CASE reports' \subseteq reports /\ clock' \in Nat /\ clock <= clock'
  <2>1. \A r \in StartReport : r.started_at \in Int
    BY RetirementAssumption DEF StartReport, Time, RetirementAssumption
  <2>2. \A r \in CheckReport : r.at \in Int /\ r.sampled_at \in Int
    BY RetirementAssumption DEF CheckReport, Time, RetirementAssumption
  <2>3. \A r \in RecoveryReport : r.observed_at \in Int
    BY RetirementAssumption DEF RecoveryReport, Time, RetirementAssumption
  <2>4. /\ Of("start")' \subseteq Of("start") /\ Of("check")' \subseteq Of("check")
        /\ Of("recovery")' \subseteq Of("recovery")
    BY <1>0 DEF Of
  <2> QED
    BY <1>0, <1>t, <2>1, <2>2, <2>3, <2>4 DEF DatesOK, RecordsOK
<1>w. ASSUME NEW new \in Report, Dated(new), reports' \subseteq reports \cup {new}, clock' = clock
      PROVE  Kept
  BY <1>d, <1>w DEF DatesOK, Of
<1>1. CASE Preflight
  <2> DEFINE new == [phase |-> "preflight", commit |-> commit, spec |-> service.spec]
  <2>1. new \in Report /\ Dated(new)
    BY DEF PreflightReport, Report, Service
  <2> QED
    BY <1>1, <1>w, <2>1 DEF Preflight, Write
<1>2. ASSUME NEW finishes \in BOOLEAN, Replay(finishes) PROVE Kept
  <2> DEFINE new == [phase |-> "replay", commit |-> commit, offset |-> legacy.end + 1]
  <2>1. new \in Report /\ Dated(new)
    BY <1>2, RetirementAssumption
       DEF Replay, ReplayReport, Report, Offset, RetirementAssumption
  <2> QED
    BY <1>2, <1>w, <2>1 DEF Replay, Write
<1>3. ASSUME NEW p \in Of("preflight"), NEW r \in Of("replay"), Parity(p, r) PROVE Kept
  <2> DEFINE new == [phase |-> "parity", commit |-> r.commit, committed |-> r.offset]
  <2>1. new \in Report /\ Dated(new)
    BY <1>t DEF ReplayReport, ParityReport, Report
  <2> QED
    BY <1>3, <1>w, <2>1 DEF Parity, Write
<1>4. CASE StartReports
  <2> DEFINE new == [phase |-> "start", preflight |-> command.preflight,
                     parity |-> command.parity, started_at |-> command.started_at,
                     before |-> command.before, after |-> command.after,
                     dead |-> command.dead]
  <2>1. command \in ReportCommand /\ command.started_at <= clock
    BY <1>4, <1>t DEF StartReports, CommandDatesOK
  <2>2. new \in Report /\ Dated(new)
    BY <2>1 DEF ReportCommand, StartReport, Report
  <2> QED
    BY <1>0, <1>4, <1>w, <2>2 DEF StartReports, WriteIf, Write
<1>5. CASE CheckReports
  <2> DEFINE new == [phase |-> "check", start |-> command.start,
                     sampled_at |-> command.sampled_at, at |-> clock]
  <2>1. command \in CheckCommand /\ command.sampled_at <= clock
    BY <1>5, <1>t DEF CheckReports, CommandDatesOK
  <2>2. new \in Report /\ Dated(new)
    BY <2>1 DEF CheckCommand, CheckReport, Report
  <2> QED
    BY <1>0, <1>5, <1>w, <2>2 DEF CheckReports, WriteIf, Write
<1>6. CASE RollbackVerifies
  <2>1. command.drill \in RollbackReport
    BY <1>6, <1>t DEF RollbackVerifies, DrainCommand
  <2>2. command.drill \in Report /\ Dated(command.drill)
    BY <2>1 DEF RollbackReport, Report
  <2> QED
    BY <1>0, <1>6, <1>w, <2>2 DEF RollbackVerifies, WriteIf, Write
<1>7. CASE CaptureReports
  <2> DEFINE new == [phase |-> "recovery", commit |-> command.commit,
                     observed_at |-> command.observed_at]
  <2>1. command \in CaptureCommand /\ command.observed_at <= clock
    BY <1>7, <1>t DEF CaptureReports, CommandDatesOK
  <2>2. new \in Report /\ Dated(new)
    BY <2>1 DEF CaptureCommand, RecoveryReport, Report
  <2> QED
    BY <1>0, <1>7, <1>w, <2>2 DEF CaptureReports, WriteIf, Write
<1>8. CASE reports' \in {reports, {}}
  BY <1>0, <1>8, TicksPass
<1> QED
  BY <1>1, <1>2, <1>3, <1>4, <1>5, <1>6, <1>7, <1>8
     DEF Next, vars, world, CommandStep, Start, StartStamps, StartSuspends, StartVerifies,
         StartResumes, Check, Rollback, RollbackResumes, RollbackReady, RollbackTimesOut,
         Capture, CaptureObserves, RecoveredRollback, Reevaluate, Decide, Membership, Consume,
         OperatorAlters, Redeploy, PurgeReports, NewCommit, CanonicalTrouble, DeadLetter,
         ForeignGroup, Kill, Tick

\* The service and its history.
LEMMA ServiceStep == ASSUME TypeOK, [Next]_vars PROVE ServiceOK'
<1>t. ServiceOK /\ clock \in Time /\ clock \in Nat /\ service \in Service
  BY TypeParts, Numbers
<1>1. CASE UNCHANGED <<clock, service, ran>>
  BY <1>1, <1>t DEF ServiceOK
<1>2. CASE StartSuspends \/ StartResumes \/ RollbackResumes
           \/ \E state \in {"SUSPEND", "RESUME"} : OperatorAlters(state)
  <2>1. UNCHANGED <<clock, service, ran>>
        \/ \E state \in {"SUSPEND", "RESUME"} : Alter(state) /\ clock' = clock
    BY <1>2 DEF StartSuspends, StartResumes, RollbackResumes, OperatorAlters, Outside
  <2> QED
    BY <1>1, <1>t, <2>1, AlterKeepsService
<1>3. CASE Redeploy
  <2> DEFINE other == 2
  <2> DEFINE changed == [service EXCEPT !.spec = other, !.updated_on = clock]
  <2>1. clock \in Stamp /\ other \in Digest
    BY <1>t DEF Stamp, Digest
  <2>2. /\ changed \in Service /\ changed.status = service.status
        /\ changed.suspended_on = service.suspended_on
        /\ changed.resumed_on = service.resumed_on
    <3> HIDE DEF other
    <3> QED BY <1>t, <2>1 DEF Service
  <2>3. service' = changed /\ UNCHANGED <<clock, ran>>
    BY <1>3 DEF Redeploy, Outside
  <2> HIDE DEF changed
  <2> QED
    BY <1>t, <2>2, <2>3 DEF ServiceOK
<1>4. CASE Tick
  <2>1. service' = service /\ clock' \in Nat /\ clock <= clock' /\ ran' \subseteq 0..clock'
    BY <1>4, TicksPass DEF Tick, world
  <2> QED
    BY <1>t, <2>1, Numbers DEF ServiceOK
<1> QED
  BY <1>1, <1>2, <1>3, <1>4
     DEF Next, vars, world, CommandStep, Preflight, Replay, Parity, Start, StartStamps,
         StartVerifies, StartReports, Check, CheckReports, Rollback, RollbackReady,
         RollbackVerifies, RollbackTimesOut, Capture, CaptureObserves, CaptureReports,
         RecoveredRollback, Reevaluate, Decide, Membership, Consume, PurgeReports, NewCommit,
         CanonicalTrouble, DeadLetter, ForeignGroup, Kill, Outside

\* The legacy topic and its consumer.
LEMMA LegacyStep == ASSUME TypeOK, [Next]_vars PROVE LegacyOK'
<1>t. LegacyOK /\ MaxHands \in Nat
  BY TypeParts, RetirementAssumption DEF RetirementAssumption
<1>1. CASE legacy' = legacy
  BY <1>1, <1>t DEF LegacyOK
<1>2. ASSUME NEW finishes \in BOOLEAN, Replay(finishes) PROVE LegacyOK'
  BY <1>2, <1>t DEF Replay, LegacyOK, Offset
<1>3. CASE Membership
  BY <1>3, <1>t DEF Membership, LegacyOK, Offset
<1>4. CASE Consume
  BY <1>4, <1>t DEF Consume, LegacyOK, Offset
<1>5. CASE ForeignGroup
  BY <1>5, <1>t DEF ForeignGroup, LegacyOK, Offset
<1> QED
  BY <1>1, <1>2, <1>3, <1>4, <1>5
     DEF Next, vars, world, CommandStep, Preflight, Parity, Start, StartStamps, StartSuspends,
         StartVerifies, StartReports, StartResumes, Check, CheckReports, Rollback,
         RollbackResumes, RollbackReady, RollbackVerifies, RollbackTimesOut, Capture,
         CaptureObserves, CaptureReports, RecoveredRollback, Reevaluate, Decide,
         OperatorAlters, Redeploy, PurgeReports, NewCommit, CanonicalTrouble, DeadLetter, Kill,
         Tick

\* The bounded counters and flags.
LEMMA CountersStep == ASSUME TypeOK, [Next]_vars PROVE CountersOK'
<1>t. CountersOK /\ MaxOutside \in Nat /\ MaxFaults \in Nat
  BY TypeParts, RetirementAssumption DEF RetirementAssumption
<1>1. CASE /\ UNCHANGED <<canonical, dead, commit, outside>>
           /\ stranded' \in BOOLEAN
           /\ UNCHANGED faults \/ Raise
  BY <1>1, <1>t DEF CountersOK, Raise
<1>2. CASE Outside /\ UNCHANGED <<canonical, dead, commit>>
  BY <1>2, <1>t DEF CountersOK, Outside
<1>3. CASE NewCommit \/ CanonicalTrouble \/ DeadLetter
  BY <1>3, <1>t DEF CountersOK, Outside, NewCommit, CanonicalTrouble, DeadLetter
<1>4. stranded \in BOOLEAN
  BY <1>t DEF CountersOK
<1> QED
  BY <1>1, <1>2, <1>3, <1>4
     DEF Next, vars, world, CommandStep, Preflight, Replay, Parity, Start, StartStamps,
         StartSuspends, StartVerifies, StartReports, StartResumes, Check, CheckReports,
         Rollback, RollbackResumes, RollbackReady, RollbackVerifies, RollbackTimesOut, Capture,
         CaptureObserves, CaptureReports, RecoveredRollback, Reevaluate, Decide, Membership,
         Consume, OperatorAlters, Redeploy, PurgeReports, ForeignGroup, Kill, Tick

\* Before the retirement every variable has its type.
LEMMA InitTypes == Init => TypeOK
<1> SUFFICES ASSUME Init PROVE TypeOK
  OBVIOUS
<1>1. reports = {} /\ command = Idle
  BY DEF Init
<1>2. RecordsOK /\ DatesOK
  BY <1>1 DEF RecordsOK, DatesOK, Of, Command
<1>4. CommandDatesOK
  <2>1. command.pc = "idle"
    BY <1>1 DEF Idle
  <2> QED
    BY <2>1 DEF CommandDatesOK
<1>6. stranded \in BOOLEAN
  BY DEF Init
<1>7. clock \in Time /\ CountersOK
  BY <1>6, RetirementAssumption DEF RetirementAssumption, Init, CountersOK, Time
<1>8. LegacyOK
  BY RetirementAssumption DEF RetirementAssumption, Init, LegacyOK, Offset
<1>3. clock \in Time /\ LegacyOK /\ CountersOK
  BY <1>7, <1>8
<1>5. ServiceOK
  BY RetirementAssumption
     DEF RetirementAssumption, Init, ServiceOK, Service, Time, Stamp, Digest, NoTime
<1> QED
  BY <1>2, <1>3, <1>4, <1>5, TypeParts

\* Every step keeps TypeOK.
LEMMA NextTypes == ASSUME TypeOK, [Next]_vars PROVE TypeOK'
<1>1. RecordsOK' /\ DatesOK' /\ CommandDatesOK'
  BY CommandStepTypes, ReportStepTypes, CommandDates DEF RecordsOK
<1>2. clock' \in Time /\ ServiceOK' /\ LegacyOK' /\ CountersOK'
  BY TicksPass, ServiceStep, LegacyStep, CountersStep
<1> QED
  BY <1>1, <1>2
     DEF TypeOK, ServiceOK, Service, LegacyOK, CountersOK, RecordsOK, DatesOK, CommandDatesOK

\* TypeOK holds of every behaviour.
THEOREM TypesKept == Spec => []TypeOK
<1>1. TypeOK /\ [Next]_vars => TypeOK'
  BY NextTypes
<1> QED
  BY InitTypes, <1>1, PTL DEF Spec

-----------------------------------------------------------------------------
(* What a recovery report proves. *)

\* Between the suspension and the next ALTER the service did not run.
SuspendedSince == service.status = "SUSPENDED" => \A t \in ran : t <= service.suspended_on

\* What was read of the lifecycle stays true of the ticks before the time of observation.
ObservationTrue ==
  command.pc = "evaluate" /\ command.life.status = "SUSPENDED" =>
    \A t \in ran : t <= command.life.suspended_on \/ t >= command.observed_at

CaptureInv == TypeOK /\ SuspendedSince /\ ObservationTrue /\ CaptureProvesSuspension

\* A suspended service has not run since the ALTER SERVICE that suspended it.
LEMMA SuspensionStep == ASSUME TypeOK, SuspendedSince, [Next]_vars PROVE SuspendedSince'
<1>1. clock \in Nat /\ ran \subseteq 0..clock /\ service \in Service
  BY Numbers
<1>2. CASE service' = service /\ (service.status = "RUNNING" \/ ran' = ran)
  BY <1>1, <1>2 DEF SuspendedSince, Service
<1>3. ASSUME NEW state, Alter(state) PROVE SuspendedSince'
  <2>1. CASE service' = Suspended
    <3>1. Suspended.suspended_on = clock /\ Suspended.status = "SUSPENDED"
      BY <1>1 DEF Suspended, Service
    <3> QED
      BY <1>1, <1>3, <2>1, <3>1 DEF Alter, SuspendedSince
  <2>2. CASE service' = Resumed
    <3>1. Resumed.status = "RUNNING"
      BY <1>1 DEF Resumed, Service
    <3> QED
      BY <2>2, <3>1 DEF SuspendedSince
  <2>3. CASE service' = service
    BY <1>1, <1>3, <2>3 DEF Alter, SuspendedSince, Service
  <2> QED
    BY <1>3, <2>1, <2>2, <2>3 DEF Alter
<1>4. CASE Redeploy
  <2>1. service'.status = service.status /\ service'.suspended_on = service.suspended_on
    BY <1>1, <1>4 DEF Redeploy, Service
  <2> QED
    BY <1>4, <2>1 DEF Redeploy, SuspendedSince
<1>5. CASE Tick
  BY <1>1, <1>2, <1>5 DEF Tick, world, Service
<1> QED
  BY <1>2, <1>3, <1>4, <1>5
     DEF Next, vars, world, CommandStep, Preflight, Replay, Parity, Start, StartStamps,
         StartSuspends, StartVerifies, StartReports, StartResumes, Check, CheckReports,
         Rollback, RollbackResumes, RollbackReady, RollbackVerifies, RollbackTimesOut, Capture,
         CaptureObserves, CaptureReports, RecoveredRollback, Reevaluate, Decide, Membership,
         Consume, OperatorAlters, PurgeReports, NewCommit, CanonicalTrouble, DeadLetter,
         ForeignGroup, Kill

\* Only CaptureObserves begins an evaluation.
LEMMA EvaluationBegins ==
  ASSUME TypeOK, [Next]_vars, command'.pc = "evaluate"
  PROVE  command' = command \/ CaptureObserves
<1>1. command \in Command
  BY TypeParts DEF RecordsOK
<1>2. CASE StartSuspends \/ StartVerifies
  <2>1. command \in SuspendCommand
    BY <1>1, <1>2, CommandKinds DEF StartSuspends, StartVerifies
  <2> QED
    BY <1>2, <2>1 DEF StartSuspends, StartVerifies, SuspendCommand
<1>3. CASE RollbackResumes
  <2>1. command \in ResumeCommand
    BY <1>1, <1>3, CommandKinds DEF RollbackResumes
  <2> QED
    BY <1>3, <2>1 DEF RollbackResumes, ResumeCommand
<1>4. CASE Reevaluate
  <2>1. command \in RecoverCommand
    BY <1>1, <1>4, CommandKinds DEF Reevaluate
  <2> QED
    BY <1>4, <2>1 DEF Reevaluate, RecoverCommand, Idle
<1>5. CASE Decide
  BY <1>5 DEF Decide, Idle
<1>6. command' # Idle
  BY DEF Idle
<1>7. ~ StartStamps /\ ~ RollbackReady /\ ~ Capture
  BY DEF StartStamps, RollbackReady, Capture
<1>8. \A p, q : ~ Start(p, q) /\ ~ Check(p) /\ ~ Rollback(p, q) /\ ~ RecoveredRollback(p)
  BY DEF Start, Check, Rollback, RecoveredRollback
<1> QED
  BY <1>2, <1>3, <1>4, <1>5, <1>6, <1>7, <1>8
     DEF Next, vars, world, CommandStep, Preflight, Replay, Parity, StartReports, StartResumes,
         CheckReports, RollbackVerifies, RollbackTimesOut, CaptureReports, Membership, Consume,
         OperatorAlters, Redeploy, PurgeReports, NewCommit, CanonicalTrouble, DeadLetter,
         ForeignGroup, Kill, Tick

\* A command that has read the lifecycle may rely on it until it ends.
LEMMA ObservationStep ==
  ASSUME TypeOK, SuspendedSince, ObservationTrue, [Next]_vars
  PROVE  ObservationTrue'
<1>1. /\ clock \in Nat /\ ran \subseteq 0..clock /\ service \in Service /\ command \in Command
      /\ CommandDatesOK
  BY Numbers, TypeParts DEF RecordsOK
<1>2. /\ clock' \in Nat /\ clock <= clock' /\ ran' \subseteq Int
      /\ \A t \in ran' : t \in ran \/ t >= clock
  BY TicksPass
<1>3. CASE command' = command
  <2>1. SUFFICES ASSUME command.pc = "evaluate"
                 PROVE  command.observed_at \in Int /\ command.observed_at <= clock
    BY <1>1, <1>2, <1>3 DEF ObservationTrue
  <2> QED
    BY <1>1, <2>1, CommandKinds, RetirementAssumption
       DEF CommandDatesOK, CaptureCommand, Time, RetirementAssumption
<1>4. CASE CaptureObserves
  <2>1. command'.life = Lifecycle /\ UNCHANGED <<clock, ran>>
    BY <1>4 DEF CaptureObserves
  <2> QED
    BY <1>1, <2>1 DEF ObservationTrue, SuspendedSince, Lifecycle, Service
<1> QED
  BY <1>3, <1>4, EvaluationBegins DEF ObservationTrue

\* Only CaptureReports adds a recovery report.
LEMMA RecoveryReports ==
  ASSUME TypeOK, [Next]_vars
  PROVE  CaptureReports \/ Of("recovery")' \subseteq Of("recovery")
<1>1. ASSUME NEW r, r.phase # "recovery", reports' \subseteq reports \cup {r}
      PROVE  Of("recovery")' \subseteq Of("recovery")
  BY <1>1 DEF Of
<1>2. CASE reports' \in {reports, {}}
  BY <1>2 DEF Of
<1>3. CASE RollbackVerifies
  <2>1. command.drill.phase # "recovery"
    BY <1>3, CommandKinds, TypeParts
       DEF RollbackVerifies, RecordsOK, DrainCommand, RollbackReport
  <2> QED
    BY <1>1, <1>2, <1>3, <2>1 DEF RollbackVerifies, WriteIf, Write
<1> QED
  BY <1>1, <1>2, <1>3
     DEF Next, vars, world, CommandStep, WriteIf, Write, Preflight, Replay, Parity, Start,
         StartStamps, StartSuspends, StartVerifies, StartReports, StartResumes, Check,
         CheckReports, Rollback, RollbackResumes, RollbackReady, RollbackTimesOut, Capture,
         CaptureObserves, RecoveredRollback, Reevaluate, Decide, Membership, Consume,
         OperatorAlters, Redeploy, PurgeReports, NewCommit, CanonicalTrouble, DeadLetter,
         ForeignGroup, Kill, Tick

\* A recovery report keeps proving its window, and a new one proves it.
LEMMA CaptureStep == ASSUME CaptureInv, [Next]_vars PROVE CaptureProvesSuspension'
<1>1. /\ clock \in Nat /\ Window \in Nat /\ clock' \in Nat /\ clock <= clock'
      /\ ran \subseteq 0..clock /\ ran' \subseteq Int /\ TypeOK
      /\ \A t \in ran' : t \in ran \/ t >= clock
  BY TicksPass, Numbers, RetirementAssumption DEF CaptureInv, RetirementAssumption
<1>0. RecordsOK /\ DatesOK /\ command \in Command
  BY <1>1, TypeParts DEF RecordsOK
<1>2. \A r \in Of("recovery") :
        \A t \in r.observed_at - Window + 1 .. r.observed_at - 1 : t \notin ran'
  <2> SUFFICES ASSUME NEW r \in Of("recovery"),
                      NEW t \in r.observed_at - Window + 1 .. r.observed_at - 1
               PROVE  t \notin ran'
    OBVIOUS
  <2>1. r.observed_at \in Int /\ r.observed_at <= clock
    BY <1>0, ReportKinds, RetirementAssumption
       DEF DatesOK, RecoveryReport, Time, RetirementAssumption
  <2>2. t \notin ran /\ t < clock
    BY <1>1, <2>1 DEF CaptureInv, CaptureProvesSuspension
  <2> QED
    BY <1>1, <2>1, <2>2
<1>3. CASE Of("recovery")' \subseteq Of("recovery")
  BY <1>2, <1>3 DEF CaptureProvesSuspension
<1>4. CASE CaptureReports
  <2> DEFINE new == [phase |-> "recovery", commit |-> command.commit,
                     observed_at |-> command.observed_at]
  <2>1. UNCHANGED <<clock, ran>>
    BY <1>4 DEF CaptureReports
  <2>2. \/ Of("recovery")' \subseteq Of("recovery")
        \/ /\ LifecycleClear(command.life, command.observed_at)
           /\ Of("recovery")' \subseteq Of("recovery") \cup {new}
    BY <1>4 DEF CaptureReports, WriteIf, Write, Of
  <2>3. ASSUME LifecycleClear(command.life, command.observed_at)
        PROVE  \A t \in new.observed_at - Window + 1 .. new.observed_at - 1 : t \notin ran
    <3>1. /\ command.observed_at \in Int /\ command.life.suspended_on \in Int
          /\ command.life.status \in {"RUNNING", "SUSPENDED"}
      BY <1>0, <1>4, CommandKinds, RetirementAssumption
         DEF CaptureReports, CaptureCommand, Life, Stamp, Time, NoTime, RetirementAssumption
    <3>2. \A t \in ran : t <= command.life.suspended_on \/ t >= command.observed_at
      BY <1>4, <2>3 DEF CaptureReports, CaptureInv, ObservationTrue, LifecycleClear
    <3>3. command.observed_at - command.life.suspended_on >= Window
      BY <2>3 DEF LifecycleClear
    <3> QED
      BY <1>1, <3>1, <3>2, <3>3
  <2> QED
    BY <1>2, <1>3, <2>1, <2>2, <2>3 DEF CaptureProvesSuspension
<1> QED
  BY <1>1, <1>3, <1>4, RecoveryReports

\* A passed recovery report proves that the service did not run in the whole window before
\* its observation (evaluate_recovery), for every length of the window.
THEOREM RecoveryProvesSuspension == Spec => []CaptureProvesSuspension
<1>1. Init => CaptureInv
  <2>1. ASSUME Init PROVE Of("recovery") = {} /\ command = Idle /\ service.status = "RUNNING"
    BY <2>1 DEF Init, Of
  <2> QED
    BY <2>1, InitTypes
       DEF CaptureInv, Idle, SuspendedSince, ObservationTrue, CaptureProvesSuspension
<1>2. CaptureInv /\ [Next]_vars => CaptureInv'
  BY NextTypes, SuspensionStep, ObservationStep, CaptureStep DEF CaptureInv
<1>3. CaptureInv => CaptureProvesSuspension
  BY DEF CaptureInv
<1> QED
  BY <1>1, <1>2, <1>3, PTL DEF Spec

-----------------------------------------------------------------------------
(* What a rollback drill rests on. *)

Starting == command.pc \in {"suspend", "verify", "undo", "report"}
Rehearsal(r) == r.phase = "rollback" /\ ~ r.early
Drilling == command.pc \in {"resume", "ready", "drain"} /\ Rehearsal(command.drill)

Covers(c, s) == /\ c.start = s
                /\ c.sampled_at >= s.started_at
                /\ c.at >= s.started_at + Window
Sampled(s) == \E c \in Of("check") : Covers(c, s)

\* A start report that a drill may rest on: its window is over.
Elapsed(s) == s \in StartReport /\ s.started_at + Window <= clock

Backed(s) == Elapsed(s) /\ (s \in Of("start") => Sampled(s))

Drills == {r \in reports : Rehearsal(r)}

ChecksBound == \A c \in Of("check") : Covers(c, c.start)

CheckBegun == command.pc = "check" => command.sampled_at >= command.start.started_at

DrillBacked == Drilling => Backed(command.drill.source)

DrillsBacked == \A r \in Drills : Backed(r.source)

\* Commands run one at a time: a start that is under way began after every drill on record,
\* so its report is none that a drill, its reports purged, rested on.
StartsAfterDrills ==
  Starting => \A r \in Drills : r.source.started_at + Window <= command.started_at

DrillInv ==
  /\ TypeOK
  /\ ChecksBound /\ CheckBegun /\ DrillBacked /\ DrillsBacked /\ StartsAfterDrills

\* What the proof needs of the types.
LEMMA DrillTypes ==
  ASSUME DrillInv, [Next]_vars
  PROVE  /\ command \in Command /\ RecordsOK /\ DatesOK
         /\ clock \in Nat /\ clock' \in Nat /\ clock <= clock' /\ Window \in Nat \ {0}
         /\ \A s \in StartReport : s.started_at \in Int
         /\ \A c \in SuspendCommand \cup ReportCommand : c.started_at \in Int
BY Numbers, TicksPass, TypeParts, RetirementAssumption
   DEF DrillInv, RecordsOK, RetirementAssumption, StartReport, SuspendCommand, ReportCommand,
       Time

Quiet == \A phase \in {"start", "check", "rollback"} : Of(phase)' = Of(phase)

\* The steps, by what they do to the command and to the reports that count here.
LEMMA StepKinds ==
  ASSUME TypeOK, [Next]_vars
  PROVE  \/ command' \in {command, Idle} /\ (reports' = {} \/ Quiet)
         \/ StartReports \/ CheckReports \/ RollbackVerifies
         \/ StartStamps \/ StartSuspends \/ StartVerifies \/ RollbackResumes \/ RollbackReady
         \/ Reevaluate \/ Decide
         \/ \E p \in Of("preflight"), q \in Of("parity") : Start(p, q)
         \/ \E s \in Of("start") : Check(s)
         \/ \E s \in Of("start"), early \in BOOLEAN : Rollback(s, early)
         \/ Capture \/ CaptureObserves \/ \E r \in Of("recovery") : RecoveredRollback(r)
<1>1. ASSUME NEW r, r.phase \notin {"start", "check", "rollback"},
             Write(r) \/ reports' = reports
      PROVE Quiet
  BY <1>1 DEF Quiet, Write, Of
<1>2. CASE reports' \in {reports, {}}
  <2>1. reports' = {} \/ Quiet
    BY <1>2 DEF Quiet, Of
  <2> QED
    BY <2>1 DEF Next, vars, world, CommandStep, Preflight, Replay, Parity, StartResumes,
         RollbackTimesOut, CaptureReports, Membership, Consume, OperatorAlters, Redeploy,
         PurgeReports, NewCommit, CanonicalTrouble, DeadLetter, ForeignGroup, Kill, Tick
<1>3. CASE Preflight
  BY <1>1, <1>3 DEF Preflight
<1>4. ASSUME NEW finishes, Replay(finishes) PROVE command' = command /\ Quiet
  <2>1. \/ Write([phase |-> "replay", commit |-> commit, offset |-> legacy.end + 1])
        \/ reports' = reports
    BY <1>4 DEF Replay
  <2> QED
    BY <1>1, <1>4, <2>1 DEF Replay
<1>5. ASSUME NEW p, NEW r, Parity(p, r) PROVE command' = command /\ Quiet
  BY <1>1, <1>5 DEF Parity
<1>6. CASE CaptureReports
  <2>1. \/ Write([phase |-> "recovery", commit |-> command.commit,
                  observed_at |-> command.observed_at])
        \/ reports' = reports
    BY <1>6 DEF CaptureReports, WriteIf
  <2> QED
    BY <1>1, <1>6, <2>1 DEF CaptureReports
<1> QED
  BY <1>2, <1>3, <1>4, <1>5, <1>6
     DEF Next, vars, world, CommandStep, StartResumes, RollbackTimesOut, Membership, Consume,
         OperatorAlters, Redeploy, PurgeReports, NewCommit, CanonicalTrouble, DeadLetter,
         ForeignGroup, Kill, Tick

\* What is said of the reports is kept by a step that writes none of these three kinds.
LEMMA QuietKeeps ==
  ASSUME DrillInv, [Next]_vars, reports' = {} \/ Quiet
  PROVE  /\ ChecksBound' /\ DrillsBacked' /\ Drills' \subseteq Drills
         /\ \A s : Backed(s) => Backed(s)'
<1>1. /\ clock \in Nat /\ clock' \in Nat /\ clock <= clock' /\ Window \in Nat \ {0}
      /\ \A s \in StartReport : s.started_at \in Int
  BY DrillTypes
<1>2. ASSUME NEW s, Elapsed(s) PROVE Elapsed(s)'
  BY <1>1, <1>2 DEF Elapsed
<1>d. Drills = {r \in Of("rollback") : ~ r.early}
      /\ Drills' = {r \in Of("rollback")' : ~ r.early}
  BY DEF Drills, Rehearsal, Of
<1>3. CASE reports' = {}
  <2>1. Of("start")' = {} /\ Of("check")' = {} /\ Drills' = {}
    BY <1>3 DEF Of, Drills
  <2> QED
    BY <1>2, <2>1 DEF ChecksBound, DrillsBacked, Backed
<1>4. CASE Quiet
  <2>1. Of("start")' = Of("start") /\ Of("check")' = Of("check") /\ Drills' = Drills
    BY <1>4, <1>d DEF Quiet
  <2>2. \A s : Backed(s) => Backed(s)'
    BY <1>2, <2>1 DEF Backed, Sampled
  <2> QED
    BY <2>1, <2>2 DEF DrillInv, ChecksBound, DrillsBacked
<1> QED
  BY <1>3, <1>4

\* Starts, checks and drills stay chained by their windows.
LEMMA DrillStep == ASSUME DrillInv, [Next]_vars PROVE DrillInv'
<1> USE CommandKinds, ReportKinds
<1>t. /\ command \in Command /\ RecordsOK /\ DatesOK
      /\ clock \in Nat /\ clock' \in Nat /\ clock <= clock' /\ Window \in Nat \ {0}
      /\ \A s \in StartReport : s.started_at \in Int
      /\ \A c \in SuspendCommand \cup ReportCommand : c.started_at \in Int
  BY DrillTypes
<1>i. TypeOK /\ ChecksBound /\ CheckBegun /\ DrillBacked /\ DrillsBacked /\ StartsAfterDrills
  BY DEF DrillInv
<1> DEFINE Kept == ChecksBound' /\ CheckBegun' /\ DrillBacked' /\ DrillsBacked'
                   /\ StartsAfterDrills'
<1> SUFFICES Kept
  BY <1>i, NextTypes DEF DrillInv
<1>q. ASSUME reports' = reports
      PROVE  /\ ChecksBound' /\ DrillsBacked' /\ Drills' = Drills
             /\ \A s : Backed(s) => Backed(s)'
  <2>1. Quiet
    BY <1>q DEF Quiet, Of
  <2> QED
    BY <1>q, <2>1, QuietKeeps DEF Drills
<1>1. CASE command' \in {command, Idle} /\ (reports' = {} \/ Quiet)
  <2>1. /\ ChecksBound' /\ DrillsBacked' /\ Drills' \subseteq Drills
        /\ \A s : Backed(s) => Backed(s)'
    BY <1>1, QuietKeeps
  <2>2. CASE command' = command
    BY <1>i, <2>1, <2>2 DEF CheckBegun, DrillBacked, Drilling, StartsAfterDrills, Starting
  <2>3. CASE command' = Idle
    BY <2>1, <2>3 DEF Idle, CheckBegun, DrillBacked, Drilling, StartsAfterDrills, Starting
  <2> QED
    BY <1>1, <2>2, <2>3
<1>2. ASSUME reports' = reports,
             command'.pc \notin {"suspend", "verify", "undo", "report", "check", "resume",
                                 "ready", "drain"}
      PROVE  Kept
  BY <1>2, <1>q DEF CheckBegun, DrillBacked, Drilling, StartsAfterDrills, Starting
<1>3. ASSUME NEW p, NEW q, Start(p, q) PROVE Kept
  BY <1>2, <1>3 DEF Start
<1>4. CASE StartStamps
  <2>1. /\ UNCHANGED <<clock, reports>> /\ command'.pc = "suspend"
        /\ command'.started_at = clock
    BY <1>4 DEF StartStamps
  <2>2. \A r \in Drills : r.source.started_at + Window <= clock
    BY <1>i DEF DrillsBacked, Backed, Elapsed
  <2> QED
    BY <1>q, <2>1, <2>2 DEF CheckBegun, DrillBacked, Drilling, StartsAfterDrills
<1>5. CASE StartSuspends \/ StartVerifies
  <2>1. command \in SuspendCommand
    BY <1>5, <1>t DEF StartSuspends, StartVerifies
  <2>2. /\ UNCHANGED <<clock, reports>> /\ Starting
        /\ command'.started_at = command.started_at
        /\ command'.pc \in {"verify", "undo", "report"}
    BY <1>5, <2>1 DEF StartSuspends, StartVerifies, Starting, SuspendCommand
  <2> QED
    BY <1>i, <1>q, <2>2 DEF CheckBegun, DrillBacked, Drilling, StartsAfterDrills
<1>6. CASE StartReports
  <2> DEFINE new == [phase |-> "start", preflight |-> command.preflight,
                     parity |-> command.parity, started_at |-> command.started_at,
                     before |-> command.before, after |-> command.after,
                     dead |-> command.dead]
  <2>1. command \in ReportCommand /\ Starting
    BY <1>6, <1>t DEF StartReports, Starting
  <2>2. clock' = clock /\ command' = Idle
        /\ (reports' = reports \/ reports' = reports \cup {new})
    BY <1>6 DEF StartReports, WriteIf, Write
  <2>3. command'.pc = "idle" /\ new.phase = "start" /\ new.started_at = command.started_at
    BY <2>2 DEF Idle
  <2> HIDE DEF new
  <2>4. CASE reports' = reports
    BY <1>2, <2>3, <2>4
  <2>5. CASE reports' = reports \cup {new}
    <3>1. Of("check")' = Of("check") /\ Drills' = Drills
          /\ Of("start")' = Of("start") \cup {new}
      BY <2>3, <2>5 DEF Of, Drills, Rehearsal
    <3>2. \A r \in Drills : r.source # new
      <4> SUFFICES ASSUME NEW r \in Drills, r.source = new PROVE FALSE
        OBVIOUS
      <4>1. r.source.started_at + Window <= command.started_at
        BY <1>i, <2>1 DEF StartsAfterDrills
      <4> QED
        BY <1>t, <2>1, <2>3, <4>1
    <3>3. DrillsBacked'
      BY <1>i, <2>2, <3>1, <3>2 DEF DrillsBacked, Backed, Elapsed, Sampled
    <3> QED
      BY <1>i, <2>3, <3>1, <3>3
         DEF ChecksBound, CheckBegun, DrillBacked, Drilling, StartsAfterDrills, Starting
  <2> QED
    BY <2>2, <2>4, <2>5
<1>7. ASSUME NEW s \in Of("start"), Check(s) PROVE Kept
  <2>1. /\ reports' = reports /\ command'.pc = "check"
        /\ command'.start = s /\ command'.sampled_at = clock
    BY <1>7 DEF Check
  <2>2. s.started_at <= clock
    BY <1>t DEF DatesOK
  <2>3. CheckBegun'
    BY <2>1, <2>2 DEF CheckBegun
  <2> QED
    BY <1>q, <2>1, <2>3 DEF DrillBacked, Drilling, StartsAfterDrills, Starting
<1>8. CASE CheckReports
  <2> DEFINE new == [phase |-> "check", start |-> command.start,
                     sampled_at |-> command.sampled_at, at |-> clock]
  <2>1. command \in CheckCommand
    BY <1>8, <1>t DEF CheckReports
  <2>2. /\ clock' = clock /\ command' = Idle
        /\ \/ reports' = reports
           \/ clock >= command.start.started_at + Window /\ reports' = reports \cup {new}
    BY <1>8 DEF CheckReports, WriteIf, Write
  <2>3. /\ command'.pc = "idle" /\ new.phase = "check" /\ new.start = command.start
        /\ new.sampled_at = command.sampled_at /\ new.at = clock
        /\ command.sampled_at >= command.start.started_at
    BY <1>8, <1>i, <2>2 DEF Idle, CheckReports, CheckBegun
  <2> HIDE DEF new
  <2>4. CASE reports' = reports
    BY <1>2, <2>3, <2>4
  <2>5. CASE clock >= command.start.started_at + Window /\ reports' = reports \cup {new}
    <3>1. Of("start")' = Of("start") /\ Drills' = Drills
          /\ Of("check")' = Of("check") \cup {new}
      BY <2>3, <2>5 DEF Of, Drills, Rehearsal
    <3>2. Covers(new, new.start)
      BY <2>3, <2>5 DEF Covers
    <3>3. ChecksBound'
      BY <1>i, <3>1, <3>2 DEF ChecksBound, Covers
    <3>4. \A s : Backed(s) => Backed(s)'
      BY <2>2, <3>1 DEF Backed, Elapsed, Sampled, Covers
    <3> QED
      BY <1>i, <2>3, <3>1, <3>3, <3>4
         DEF CheckBegun, DrillBacked, Drilling, DrillsBacked, StartsAfterDrills, Starting
  <2> QED
    BY <2>2, <2>4, <2>5
<1>9. ASSUME NEW s \in Of("start"), NEW early \in BOOLEAN, Rollback(s, early) PROVE Kept
  <2> DEFINE drill == [phase |-> "rollback", source |-> s, early |-> early]
  <2>1. /\ UNCHANGED <<clock, reports>> /\ command'.pc = "resume"
        /\ command'.drill = drill
        /\ early \/ (clock >= s.started_at + Window /\ CompletedCheck(s))
    BY <1>9 DEF Rollback
  <2>2. drill.source = s /\ (Rehearsal(drill) => ~ early)
    BY DEF Rehearsal
  <2> HIDE DEF drill
  <2>3. s \in StartReport /\ s.started_at \in Int
    BY <1>t
  <2>4. ~ early => Elapsed(s) /\ Sampled(s)
    BY <1>i, <1>t, <2>1, <2>3 DEF Elapsed, Sampled, CompletedCheck, ChecksBound
  <2>5. DrillBacked'
    BY <1>q, <2>1, <2>2, <2>4 DEF DrillBacked, Drilling, Backed
  <2> QED
    BY <1>q, <2>1, <2>5 DEF CheckBegun, StartsAfterDrills, Starting
<1>10. CASE RollbackResumes \/ RollbackReady
  <2>1. command \in ResumeCommand
    BY <1>10, <1>t DEF RollbackResumes, RollbackReady
  <2>2. /\ UNCHANGED <<clock, reports>> /\ command.pc \in {"resume", "ready"}
        /\ command'.pc \in {"ready", "drain"} /\ command'.drill = command.drill
    BY <1>10, <2>1 DEF RollbackResumes, RollbackReady, ResumeCommand
  <2>3. DrillBacked'
    BY <1>i, <1>q, <2>2 DEF DrillBacked, Drilling
  <2> QED
    BY <1>q, <2>2, <2>3 DEF CheckBegun, StartsAfterDrills, Starting
<1>11. CASE RollbackVerifies
  <2>1. command \in DrainCommand /\ command.drill \in RollbackReport
    BY <1>11, <1>t DEF RollbackVerifies, DrainCommand
  <2>2. /\ clock' = clock /\ command' = Idle /\ command.pc = "drain"
        /\ (reports' = reports \/ reports' = reports \cup {command.drill})
    BY <1>11 DEF RollbackVerifies, WriteIf, Write
  <2>3. command'.pc = "idle" /\ command.drill.phase \in {"rollback", "recovered_rollback"}
    BY <2>1, <2>2 DEF Idle, RollbackReport
  <2>4. CASE reports' = reports
    BY <1>2, <2>3, <2>4
  <2>5. CASE reports' = reports \cup {command.drill}
    <3>1. Of("start")' = Of("start") /\ Of("check")' = Of("check")
      BY <2>3, <2>5 DEF Of
    <3>2. \A r \in Drills' : r \in Drills \/ (r = command.drill /\ Drilling)
      BY <2>2, <2>5 DEF Drills, Drilling
    <3>3. \A s : Backed(s) => Backed(s)'
      BY <2>2, <3>1 DEF Backed, Elapsed, Sampled
    <3>4. DrillsBacked'
      BY <1>i, <3>2, <3>3 DEF DrillsBacked, DrillBacked
    <3> QED
      BY <1>i, <2>3, <3>1, <3>4
         DEF ChecksBound, CheckBegun, DrillBacked, Drilling, StartsAfterDrills, Starting
  <2> QED
    BY <2>2, <2>4, <2>5
<1>12. CASE Capture \/ CaptureObserves \/ \E r \in Of("recovery") : RecoveredRollback(r)
  BY <1>2, <1>12 DEF Capture, CaptureObserves, RecoveredRollback
<1>13. CASE Reevaluate
  <2>1. command \in RecoverCommand
    BY <1>13, <1>t DEF Reevaluate
  <2>2. reports' = reports /\ command'.pc \in {"decide", "idle"}
    BY <1>13, <2>1 DEF Reevaluate, RecoverCommand, Idle
  <2> QED
    BY <1>2, <2>2
<1>14. CASE Decide
  <2>1. reports' = reports /\ (command'.pc = "idle" \/
          (command'.pc = "resume" /\ command'.drill.phase = "recovered_rollback"))
    BY <1>14 DEF Decide, Idle
  <2> QED
    BY <1>q, <2>1 DEF CheckBegun, DrillBacked, Drilling, Rehearsal, StartsAfterDrills, Starting
<1> QED
  BY <1>i, <1>1, <1>3, <1>4, <1>5, <1>6, <1>7, <1>8, <1>9, <1>10, <1>11, <1>12, <1>13, <1>14,
     StepKinds

\* A rollback that was not asked to be early rests on a check bound to its own start, whose
\* healthy snapshot was taken after that start and whose report was written a whole window
\* after it, as long as that start's report is kept (rollback, check), for every length of
\* the window.
THEOREM DrillsRestOnEvidence == Spec => []DrillAfterWindow
<1>1. Init => DrillInv
  <2>1. ASSUME Init PROVE reports = {} /\ command.pc = "idle"
    BY <2>1 DEF Init, Idle
  <2> QED
    BY <2>1, InitTypes
       DEF DrillInv, ChecksBound, CheckBegun, DrillBacked, DrillsBacked, StartsAfterDrills,
           Starting, Drilling, Drills, Of
<1>2. DrillInv /\ [Next]_vars => DrillInv'
  BY DrillStep
<1>3. ASSUME DrillInv PROVE DrillAfterWindow
  <2> SUFFICES ASSUME NEW r \in Of("rollback"), ~ r.early, r.source \in reports
               PROVE  Sampled(r.source)
    BY DEF DrillAfterWindow, Sampled, Covers
  <2>1. r \in Drills
    BY DEF Drills, Rehearsal, Of
  <2>2. r.source \in StartReport /\ (r.source \in Of("start") => Sampled(r.source))
    BY <1>3, <2>1 DEF DrillInv, DrillsBacked, Backed, Elapsed
  <2> QED
    BY <2>2 DEF StartReport, Of
<1> QED
  BY <1>1, <1>2, <1>3, PTL DEF Spec
=============================================================================
