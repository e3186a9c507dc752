---------------------------- MODULE PipelineProofs ----------------------------
(***************************************************************************)
(* Proofs about Pipeline, for every graph, number of runs, tasks and       *)
(* requests: the type invariant, and the invariants of the gates and of    *)
(* the tasks; then, of each run until work on it meets other work, those   *)
(* of the loop, of what the stages put out, and of what the run reports,   *)
(* and that Pipeline implements RunLifecycle.                              *)
(***************************************************************************)
EXTENDS Pipeline, TLAPS, FiniteSetTheorems, SequenceTheorems, WellFoundedInduction

(* What the type invariant rests on *)

\* A task has a stage exactly while it starts or executes one, and the draft it
\* holds is a version of that stage made for its run.
TaskOK(t) ==
  /\ task[t].pc \in {"start", "exec"} <=> task[t].cur \in Stages
  /\ At(t, "exec") /\ task[t].draft # 0 =>
       /\ task[t].draft \in 1..Len(artifact[task[t].cur])
       /\ artifact[task[t].cur][task[t].draft].by = task[t].run
  /\ At(t, "conclude") =>
       task[t].verdict \in {"completed", "needs_review", "failed"}

TaskInv == \A t \in Tasks : TaskOK(t)

\* The safety limit of the loop (orchestrator.py:207-208) is a natural number.
LEMMA MaxIterationsType == MaxIterations \in Nat
  BY StagesAssumption, FS_CardinalityType DEF MaxIterations

\* Before the first request every table is empty and every task idle, in their types.
LEMMA InitType == Init => TypeOK /\ TaskInv
<1>1. SUFFICES ASSUME Init PROVE TypeOK /\ TaskInv
  OBVIOUS
<1>2. NoTask \in TaskState /\ NoReq \in ReqState
  BY MaxIterationsType, BoundsAssumption
     DEF NoTask, NoReq, TaskState, ReqState, Runs, RunStatus, StageStatus
<1>3. \A s \in Stages : artifact[s] \in Seq(Artifact)
  BY <1>1 DEF Init
<1>4. TypeOK
  BY <1>1, <1>2, <1>3, BoundsAssumption DEF Init, TypeOK, ProjectStatus, RunStatus, StageStatus
<1>5. TaskInv
  BY <1>1, StagesAssumption DEF Init, TaskInv, TaskOK, NoTask, At
<1> QED BY <1>4, <1>5

-----------------------------------------------------------------------------
(* The artifact table: versions are appended and never change hands *)

ArtifactsGrow ==
  \A s \in Stages :
    /\ Len(artifact'[s]) >= Len(artifact[s])
    /\ \A v \in 1..Len(artifact[s]) : artifact'[s][v].by = artifact[s][v].by

\* create_artifact adds a version at the end and changes no other.
LEMMA AppendDraft ==
  ASSUME TypeOK, NEW s \in Stages, NEW c \in {"partial", "final"}, NEW r \in Runs,
         artifact' = [artifact EXCEPT ![s] = Draft(s, c, r)]
  PROVE  /\ artifact' \in [Stages -> Seq(Artifact)]
         /\ ArtifactsGrow
         /\ Len(artifact'[s]) = Len(artifact[s]) + 1
         /\ \A v \in 1..Len(artifact[s]) : artifact'[s][v] = artifact[s][v]
         /\ artifact'[s][Len(artifact[s]) + 1] =
              [status |-> "draft", content |-> c, by |-> r]
<1> DEFINE new == [status |-> "draft", content |-> c, by |-> r]
<1>1. new \in Artifact
  BY DEF Artifact
<1>2. artifact[s] \in Seq(Artifact) /\ artifact'[s] = Append(artifact[s], new)
  BY DEF TypeOK, Draft
<1> HIDE DEF new
<1>3. /\ artifact'[s] \in Seq(Artifact)
      /\ Len(artifact'[s]) = Len(artifact[s]) + 1
      /\ \A v \in 1..Len(artifact[s]) : artifact'[s][v] = artifact[s][v]
      /\ artifact'[s][Len(artifact[s]) + 1] = new
  <2>1. artifact'[s] \in Seq(Artifact) /\ Len(artifact'[s]) = Len(artifact[s]) + 1
    BY <1>1, <1>2
  <2>2. \A v \in 1..Len(artifact[s]) : artifact'[s][v] = artifact[s][v]
    BY <1>1, <1>2
  <2>3. artifact'[s][Len(artifact[s]) + 1] = new
    BY <1>1, <1>2
  <2> QED BY <2>1, <2>2, <2>3
<1>4. \A q \in Stages : artifact[q] \in Seq(Artifact) /\ (q # s => artifact'[q] = artifact[q])
  BY DEF TypeOK
<1>5. artifact' \in [Stages -> Seq(Artifact)]
  BY <1>3, <1>4 DEF TypeOK, Draft
<1>6. ArtifactsGrow
  <2>1. \A q \in Stages : Len(artifact[q]) \in Nat
    BY <1>4
  <2> QED BY <1>3, <1>4, <2>1 DEF ArtifactsGrow
<1> QED BY <1>3, <1>5, <1>6 DEF new

\* Rewriting the status or payload of one version changes no other.
LEMMA RewriteVersion ==
  ASSUME TypeOK, NEW s \in Stages, NEW v \in 1..Len(artifact[s]), NEW a \in Artifact,
         a.by = artifact[s][v].by,
         artifact' = [artifact EXCEPT ![s] = [@ EXCEPT ![v] = a]]
  PROVE  /\ artifact' \in [Stages -> Seq(Artifact)]
         /\ ArtifactsGrow
         /\ \A q \in Stages : Len(artifact'[q]) = Len(artifact[q])
         /\ artifact'[s][v] = a
         /\ \A q \in Stages : \A w \in 1..Len(artifact[q]) :
              q # s \/ w # v => artifact'[q][w] = artifact[q][w]
<1>1. /\ artifact[s] \in Seq(Artifact)
      /\ artifact'[s] = [artifact[s] EXCEPT ![v] = a]
      /\ \A q \in Stages : artifact[q] \in Seq(Artifact) /\ (q # s => artifact'[q] = artifact[q])
  BY DEF TypeOK
<1>2. /\ artifact'[s] \in Seq(Artifact)
      /\ Len(artifact'[s]) = Len(artifact[s])
      /\ artifact'[s][v] = a
      /\ \A w \in 1..Len(artifact[s]) : w # v => artifact'[s][w] = artifact[s][w]
  BY <1>1, ExceptSeq
<1>3. artifact' \in [Stages -> Seq(Artifact)]
  BY <1>1, <1>2 DEF TypeOK
<1>4. \A q \in Stages : Len(artifact'[q]) = Len(artifact[q]) /\ Len(artifact[q]) \in Nat
  BY <1>1, <1>2
<1>5. \A q \in Stages : \A w \in 1..Len(artifact[q]) :
        q # s \/ w # v => artifact'[q][w] = artifact[q][w]
  BY <1>1, <1>2
<1>6. ArtifactsGrow
  BY <1>2, <1>4, <1>5 DEF ArtifactsGrow
<1> QED BY <1>2, <1>3, <1>4, <1>5, <1>6

\* A step that leaves the artifacts alone adds no version to them.
LEMMA SameArtifacts ==
  ASSUME TypeOK, UNCHANGED artifact
  PROVE  artifact' \in [Stages -> Seq(Artifact)] /\ ArtifactsGrow
<1>1. \A q \in Stages : Len(artifact[q]) \in Nat
  BY DEF TypeOK
<1> QED BY <1>1 DEF TypeOK, ArtifactsGrow

-----------------------------------------------------------------------------
(* Every step keeps the types *)

\* A session that is closed has the type of one.
LEMMA NoTaskType == NoTask \in TaskState
  BY MaxIterationsType, BoundsAssumption
     DEF NoTask, TaskState, Runs, RunStatus, StageStatus

\* A task that ends leaves the others in their types.
LEMMA ExitType ==
  ASSUME TypeOK, NEW t \in Tasks, Exit(t)
  PROVE  task' \in [Tasks -> TaskState]
  BY NoTaskType DEF TypeOK, Exit

\* A task that BackgroundTasks starts is of the type of a task.
LEMMA ScheduleType ==
  ASSUME TypeOK, NEW r \in Runs, NEW k \in {"run", "resume", "worker"}, Schedule(k, r)
  PROVE  task' \in [Tasks -> TaskState]
<1>1. [NoTask EXCEPT !.pc = "scheduled", !.kind = k, !.run = r] \in TaskState
  BY NoTaskType DEF NoTask, TaskState
<1> QED BY <1>1 DEF TypeOK, Schedule

\* The steps of a task that change no more than its own session.
LEMMA TaskLocalType ==
  ASSUME TypeOK, TaskInv, NEW t \in Tasks,
         Refresh(t) \/ Exhaust(t) \/ LoadStages(t) \/ MidRefresh(t) \/ MidLoad(t)
  PROVE  task' \in [Tasks -> TaskState]
<1> USE MaxIterationsType
<1>0. task \in [Tasks -> TaskState] /\ task[t] \in TaskState /\ task[t].run \in Runs
  BY DEF TypeOK, TaskState
<1>a. stage[task[t].run] \in [Stages -> StageStatus] /\ runStatus[task[t].run] \in RunStatus
  BY <1>0 DEF TypeOK
<1>1. CASE Refresh(t)
  <2>1. CASE Exit(t)
    BY <2>1, ExitType
  <2>2. CASE task' = [task EXCEPT ![t].pc = "load", ![t].rs = runStatus[task[t].run],
                                  ![t].iter = @ + 1]
    BY <1>0, <1>a, <1>1, <2>2 DEF TaskState, Refresh, Exhausted
  <2> QED BY <1>1, <2>1, <2>2 DEF Refresh
<1>2. CASE Exhaust(t)
  BY <1>0, <1>2 DEF Exhaust, TaskState, RunStatus
<1>3. CASE LoadStages(t)
  <2>1. Verdict(stage[task[t].run]) \in RunStatus
    BY DEF Verdict, RunStatus
  <2>2. Ready(stage[task[t].run]) \subseteq Stages
    BY DEF Ready
  <2>3. CASE task' = [task EXCEPT ![t].pc = "conclude", ![t].verdict = "failed"]
    BY <1>0, <2>3 DEF TaskState, RunStatus
  <2>4. ASSUME NEW s \in Stages,
               task' = [task EXCEPT ![t].pc = "start", ![t].cur = s,
                          ![t].seen = stage[task[t].run][s],
                          ![t].batch = Ready(stage[task[t].run]) \ {s}]
        PROVE  task' \in [Tasks -> TaskState]
    BY <1>0, <1>a, <2>2, <2>4 DEF TaskState
  <2>5. CASE task' = [task EXCEPT ![t].pc = "conclude",
                                  ![t].verdict = Verdict(stage[task[t].run])]
    BY <1>0, <2>1, <2>5 DEF TaskState
  <2> QED BY <1>3, <2>2, <2>3, <2>4, <2>5 DEF LoadStages
<1>4. CASE MidRefresh(t)
  <2>1. CASE Exit(t)
    BY <2>1, ExitType
  <2>2. CASE task' = [task EXCEPT ![t].pc = "midload", ![t].rs = runStatus[task[t].run]]
    BY <1>0, <1>a, <2>2 DEF TaskState
  <2> QED BY <1>4, <2>1, <2>2 DEF MidRefresh
<1>5. CASE MidLoad(t)
  <2>1. task[t].batch \subseteq Stages
    BY <1>0 DEF TaskState
  <2>2. CASE task' = [task EXCEPT ![t].pc = "conclude", ![t].verdict = "failed",
                                  ![t].batch = {}]
    BY <1>0, <2>2 DEF TaskState, RunStatus
  <2>3. ASSUME NEW s \in Stages,
               task' = [task EXCEPT ![t].pc = "start", ![t].cur = s,
                          ![t].seen = stage[task[t].run][s],
                          ![t].batch = task[t].batch \ {s}]
        PROVE  task' \in [Tasks -> TaskState]
    BY <1>0, <1>a, <2>3 DEF TaskState
  <2>4. CASE task' = [task EXCEPT ![t].pc = "refresh"]
    BY <1>0, <2>4 DEF TaskState
  <2> QED BY <1>5, <2>1, <2>2, <2>3, <2>4 DEF MidLoad
<1> QED BY <1>1, <1>2, <1>3, <1>4, <1>5


\* A task that an action leaves alone keeps TaskOK while versions are appended.
LEMMA TaskKept ==
  ASSUME TypeOK, TaskInv, ArtifactsGrow, NEW u \in Tasks, task'[u] = task[u]
  PROVE  TaskOK(u)'
<1>1. TaskOK(u) /\ task[u] \in TaskState
  BY DEF TaskInv, TypeOK
<1>2. \A q \in Stages : Len(artifact[q]) \in Nat /\ Len(artifact'[q]) >= Len(artifact[q])
  BY DEF TypeOK, ArtifactsGrow
<1>3. ASSUME At(u, "exec"), task[u].draft # 0
      PROVE  /\ task[u].draft \in 1..Len(artifact'[task[u].cur])
             /\ artifact'[task[u].cur][task[u].draft].by = task[u].run
  <2>1. /\ task[u].cur \in Stages
        /\ task[u].draft \in 1..Len(artifact[task[u].cur])
        /\ artifact[task[u].cur][task[u].draft].by = task[u].run
    BY <1>1, <1>3 DEF TaskOK, At
  <2>2. Len(artifact'[task[u].cur]) \in Int
    BY <1>2, <2>1, <1>3 DEF ArtifactsGrow
  <2> QED BY <1>2, <2>1 DEF ArtifactsGrow
<1> QED BY <1>1, <1>3 DEF TaskOK, At

\* The step of a task that only changes its own entry.
LEMMA TaskMoves ==
  ASSUME TypeOK, TaskInv, ArtifactsGrow, NEW t \in Tasks,
         \A u \in Tasks \ {t} : task'[u] = task[u], TaskOK(t)'
  PROVE  TaskInv'
BY TaskKept DEF TaskInv

\* A task that ends leaves no stage in hand.
LEMMA ExitTaskInv ==
  ASSUME TypeOK, TaskInv, ArtifactsGrow, NEW t \in Tasks, Exit(t)
  PROVE  TaskInv'
<1>1. task'[t] = NoTask /\ \A u \in Tasks \ {t} : task'[u] = task[u]
  BY DEF Exit, TypeOK
<1>2. TaskOK(t)'
  BY <1>1, StagesAssumption DEF TaskOK, NoTask, At
<1> QED BY <1>1, <1>2, TaskMoves

\* A task that is started has no stage in hand.
LEMMA ScheduleTaskInv ==
  ASSUME TypeOK, TaskInv, ArtifactsGrow, NEW r \in Runs, NEW k \in {"run", "resume", "worker"},
         Schedule(k, r)
  PROVE  TaskInv'
<1>1. PICK t \in Tasks : task' = [task EXCEPT ![t] =
          [NoTask EXCEPT !.pc = "scheduled", !.kind = k, !.run = r]]
  BY DEF Schedule
<1>2. /\ task'[t] = [NoTask EXCEPT !.pc = "scheduled", !.kind = k, !.run = r]
      /\ \A u \in Tasks \ {t} : task'[u] = task[u]
  BY <1>1 DEF TypeOK
<1>3. TaskOK(t)'
  BY <1>2, StagesAssumption DEF TaskOK, NoTask, At
<1> QED BY <1>2, <1>3, TaskMoves


Typed == TypeOK /\ TaskInv

\* The steps of a task that leave the tables alone.
LEMMA LocalStep ==
  ASSUME Typed, NEW t \in Tasks,
         WorkerSkips(t) \/ Refresh(t) \/ Exhaust(t) \/ LoadStages(t)
           \/ MidRefresh(t) \/ MidLoad(t)
  PROVE  Typed' /\ ArtifactsGrow
<1> USE DEF Typed
<1>1. UNCHANGED <<tables, req, budget, crossed, died>>
  BY DEF WorkerSkips, Refresh, Exhaust, LoadStages, MidRefresh, MidLoad, history
<1>2. ArtifactsGrow
  BY <1>1, SameArtifacts DEF tables
<1>3. task' \in [Tasks -> TaskState]
  BY TaskLocalType, ExitType DEF WorkerSkips
<1>4. TypeOK'
  BY <1>1, <1>3 DEF TypeOK, tables
<1>0. task \in [Tasks -> TaskState] /\ task[t] \in TaskState /\ TaskOK(t)
  BY DEF TypeOK, TaskInv
<1>5. CASE WorkerSkips(t)
  BY <1>2, <1>4, <1>5, ExitTaskInv DEF WorkerSkips
<1>6. CASE Refresh(t) \/ MidRefresh(t)
  <2>1. CASE Exit(t)
    BY <1>2, <1>4, <2>1, ExitTaskInv
  <2>2. CASE ~ Exit(t)
    <3>1. /\ \A u \in Tasks \ {t} : task'[u] = task[u]
          /\ task'[t].pc \in {"load", "midload"} /\ task'[t].cur = task[t].cur
      BY <1>0, <1>6, <2>2 DEF Refresh, MidRefresh, TaskState
    <3>2. task[t].cur \notin Stages
      BY <1>0, <1>6 DEF Refresh, MidRefresh, TaskOK, At
    <3>3. TaskOK(t)'
      BY <3>1, <3>2 DEF TaskOK, At
    <3> QED BY <1>2, <1>4, <3>1, <3>3, TaskMoves
  <2> QED BY <2>1, <2>2
<1>7. CASE Exhaust(t) \/ LoadStages(t) \/ MidLoad(t)
  <2>1. \A u \in Tasks \ {t} : task'[u] = task[u]
    BY <1>0, <1>7 DEF Exhaust, LoadStages, MidLoad
  <2>2. task[t].cur \notin Stages
    BY <1>0, <1>7 DEF Exhaust, LoadStages, MidLoad, TaskOK, At
  <2>3. Verdict(stage[task[t].run]) \in {"completed", "needs_review", "failed"}
    BY DEF Verdict
  <2>4. \A s \in task[t].batch \cup Ready(stage[task[t].run]) : s \in Stages
    BY <1>0 DEF Ready, TaskState
  <2>5. \/ /\ task'[t].pc = "conclude" /\ task'[t].cur = task[t].cur
           /\ task'[t].verdict \in {"completed", "needs_review", "failed"}
        \/ task'[t].pc = "start" /\ task'[t].cur \in Stages
        \/ task'[t].pc = "refresh" /\ task'[t].cur = task[t].cur
    <3>1. CASE Exhaust(t)
      BY <1>0, <3>1 DEF Exhaust, TaskState
    <3>2. CASE LoadStages(t)
      <4>1. CASE task' = [task EXCEPT ![t].pc = "conclude", ![t].verdict = "failed"]
        BY <1>0, <4>1 DEF TaskState
      <4>2. ASSUME NEW s \in Ready(stage[task[t].run]),
                   task' = [task EXCEPT ![t].pc = "start", ![t].cur = s,
                              ![t].seen = stage[task[t].run][s],
                              ![t].batch = Ready(stage[task[t].run]) \ {s}]
            PROVE  task'[t].pc = "start" /\ task'[t].cur \in Stages
        BY <1>0, <2>4, <4>2 DEF TaskState
      <4>3. CASE task' = [task EXCEPT ![t].pc = "conclude",
                                      ![t].verdict = Verdict(stage[task[t].run])]
        BY <1>0, <2>3, <4>3 DEF TaskState
      <4> QED BY <3>2, <4>1, <4>2, <4>3 DEF LoadStages
    <3>3. CASE MidLoad(t)
      <4>1. CASE task' = [task EXCEPT ![t].pc = "conclude", ![t].verdict = "failed",
                                      ![t].batch = {}]
        BY <1>0, <4>1 DEF TaskState
      <4>2. ASSUME NEW s \in task[t].batch,
                   task' = [task EXCEPT ![t].pc = "start", ![t].cur = s,
                              ![t].seen = stage[task[t].run][s],
                              ![t].batch = task[t].batch \ {s}]
            PROVE  task'[t].pc = "start" /\ task'[t].cur \in Stages
        BY <1>0, <2>4, <4>2 DEF TaskState
      <4>3. CASE task' = [task EXCEPT ![t].pc = "refresh"]
        BY <1>0, <4>3 DEF TaskState
      <4> QED BY <3>3, <4>1, <4>2, <4>3 DEF MidLoad
    <3> QED BY <1>7, <3>1, <3>2, <3>3
  <2>6. TaskOK(t)'
    BY <2>2, <2>5 DEF TaskOK, At
  <2> QED BY <1>2, <1>4, <2>1, <2>6, TaskMoves
<1> QED BY <1>5, <1>6, <1>7

\* The steps of a task that write the rows of its run.
LEMMA RowStep ==
  ASSUME Typed, NEW t \in Tasks,
         Load(t) \/ InitializeRun(t) \/ StartStage(t) \/ FailStage(t) \/ Conclude(t)
  PROVE  Typed' /\ ArtifactsGrow
<1> USE DEF Typed
<1>1. UNCHANGED <<project, out, artifact, approvals, req, budget, crossed, died>>
  BY DEF Load, InitializeRun, StartStage, FailStage, Conclude, history
<1>2. ArtifactsGrow
  BY <1>1, SameArtifacts
<1>0. /\ task \in [Tasks -> TaskState] /\ task[t] \in TaskState /\ TaskOK(t)
      /\ task[t].run \in Runs /\ task[t].rs \in RunStatus /\ task[t].verdict \in RunStatus
      /\ task[t].seen \in StageStatus
      /\ runStatus \in [Runs -> RunStatus] /\ stage \in [Runs -> [Stages -> StageStatus]]
  BY DEF TypeOK, TaskInv, TaskState
<1>3. CASE Conclude(t)
  <2>1. runStatus' \in [Runs -> RunStatus] /\ UNCHANGED stage
    BY <1>0, <1>3 DEF Conclude, Flush
  <2>2. task' \in [Tasks -> TaskState] /\ TaskInv'
    BY <1>2, <1>3, ExitType, ExitTaskInv DEF Conclude
  <2> QED BY <1>1, <1>2, <2>1, <2>2 DEF TypeOK
<1>4. CASE Load(t) \/ InitializeRun(t) \/ StartStage(t) \/ FailStage(t)
  <2>1. runStatus' \in [Runs -> RunStatus]
    BY <1>0, <1>4 DEF Load, InitializeRun, StartStage, FailStage, Flush, RunStatus
  <2>2. stage' \in [Runs -> [Stages -> StageStatus]]
    <3>1. CASE Load(t)
      BY <1>0, <3>1 DEF Load, StageStatus
    <3>2. CASE InitializeRun(t)
      BY <1>0, <3>2 DEF InitializeRun, StageStatus
    <3>3. CASE StartStage(t)
      BY <1>0, <3>3 DEF StartStage, StageStatus, Flush
    <3>4. CASE FailStage(t)
      BY <1>0, <3>4 DEF FailStage, StageStatus
    <3> QED BY <1>4, <3>1, <3>2, <3>3, <3>4
  <2>3. /\ task' \in [Tasks -> TaskState]
        /\ \A u \in Tasks \ {t} : task'[u] = task[u]
    <3>1. CASE Load(t)
      BY <1>0, <3>1 DEF Load, TaskState
    <3>2. CASE InitializeRun(t)
      BY <1>0, <3>2 DEF InitializeRun, TaskState, RunStatus
    <3>3. CASE StartStage(t)
      BY <1>0, <3>3 DEF StartStage, TaskState, StageStatus
    <3>4. CASE FailStage(t)
      BY <1>0, <3>4 DEF FailStage, TaskState
    <3> QED BY <1>4, <3>1, <3>2, <3>3, <3>4
  <2>4. TaskOK(t)'
    <3>1. CASE Load(t)
      BY <1>0, <3>1 DEF Load, TaskOK, At, TaskState
    <3>2. CASE InitializeRun(t)
      BY <1>0, <3>2 DEF InitializeRun, TaskOK, At, TaskState
    <3>3. CASE StartStage(t)
      BY <1>0, <3>3 DEF StartStage, TaskOK, At, TaskState
    <3>4. CASE FailStage(t)
      BY <1>0, <3>4, StagesAssumption DEF FailStage, TaskOK, At, TaskState
    <3> QED BY <1>4, <3>1, <3>2, <3>3, <3>4
  <2>5. TaskInv'
    BY <1>2, <2>3, <2>4, TaskMoves
  <2> QED BY <1>1, <1>2, <2>1, <2>2, <2>3, <2>5 DEF TypeOK
<1> QED BY <1>3, <1>4


\* The steps of a task that write artifacts.
LEMMA ArtifactStep ==
  ASSUME Typed, NEW t \in Tasks, Progress(t) \/ FinishStage(t)
  PROVE  Typed' /\ ArtifactsGrow
<1> USE DEF Typed
<1> DEFINE r == task[t].run
           s == task[t].cur
           d == task[t].draft
<1>0. /\ task \in [Tasks -> TaskState] /\ task[t] \in TaskState /\ TaskOK(t)
      /\ r \in Runs /\ d \in Nat /\ artifact \in [Stages -> Seq(Artifact)]
      /\ stage \in [Runs -> [Stages -> StageStatus]] /\ out \in [Runs -> [Stages -> Nat]]
  BY DEF TypeOK, TaskInv, TaskState
<1>1. At(t, "exec") /\ s \in Stages
  BY <1>0 DEF Progress, FinishStage, TaskOK, At
<1>2. Len(artifact[s]) \in Nat
  BY <1>0, <1>1
<1> HIDE DEF r, s, d
<1>3. ASSUME NEW c \in {"partial", "final"},
             artifact' = IF d = 0 THEN [artifact EXCEPT ![s] = Draft(s, c, r)]
                                  ELSE [artifact EXCEPT ![s][d].content = c]
      PROVE  /\ artifact' \in [Stages -> Seq(Artifact)] /\ ArtifactsGrow
             /\ d = 0 => /\ Len(artifact'[s]) = Len(artifact[s]) + 1
                         /\ artifact'[s][Len(artifact[s]) + 1].by = r
  <2>1. CASE d = 0
    <3>1. artifact' = [artifact EXCEPT ![s] = Draft(s, c, r)]
      BY <1>3, <2>1
    <3>2. /\ artifact' \in [Stages -> Seq(Artifact)] /\ ArtifactsGrow
          /\ Len(artifact'[s]) = Len(artifact[s]) + 1
          /\ \A v \in 1..Len(artifact[s]) : artifact'[s][v] = artifact[s][v]
          /\ artifact'[s][Len(artifact[s]) + 1] =
               [status |-> "draft", content |-> c, by |-> r]
      <4>1. TypeOK /\ s \in Stages /\ r \in Runs
        BY <1>0, <1>1
      <4> HIDE DEF Typed
      <4> QED BY <4>1, <3>1, AppendDraft, ZenonT(60)
    <3>3. [status |-> "draft", content |-> c, by |-> r].by = r
      OBVIOUS
    <3> QED BY <3>2, <3>3, Zenon
  <2>2. CASE d # 0
    <3>1. d \in 1..Len(artifact[s])
      BY <1>0, <1>1, <2>2 DEF TaskOK, d, s
    <3>2. artifact[s][d] \in Artifact
      BY <1>0, <1>1, <3>1
    <3> DEFINE a == [artifact[s][d] EXCEPT !.content = c]
    <3>3. a \in Artifact /\ a.by = artifact[s][d].by
      BY <3>2 DEF Artifact
    <3>4. artifact' = [artifact EXCEPT ![s] = [@ EXCEPT ![d] = a]]
      BY <1>0, <1>1, <1>3, <2>2
    <3> HIDE DEF a
    <3>5. artifact' \in [Stages -> Seq(Artifact)] /\ ArtifactsGrow
      BY <1>1, <3>1, <3>3, <3>4, RewriteVersion
    <3> QED BY <2>2, <3>5
  <2> QED BY <2>1, <2>2
<1>4. CASE Progress(t)
  <2>1. /\ artifact' \in [Stages -> Seq(Artifact)] /\ ArtifactsGrow
        /\ d = 0 => /\ Len(artifact'[s]) = Len(artifact[s]) + 1
                    /\ artifact'[s][Len(artifact[s]) + 1].by = r
    BY <1>3, <1>4 DEF Progress, r, s, d
  <2>2. CASE d = 0
    <3>1. task' = [task EXCEPT ![t].draft = Len(artifact[s]) + 1]
      BY <1>4, <2>2 DEF Progress, s, d
    <3> DEFINE n == Len(artifact[s]) + 1
    <3>a. n \in Nat
      BY <1>2
    <3> HIDE DEF n
    <3>b. task' = [task EXCEPT ![t].draft = n]
      BY <3>1 DEF n
    <3>2. task' \in [Tasks -> TaskState] /\ \A u \in Tasks \ {t} : task'[u] = task[u]
      BY <1>0, <3>a, <3>b DEF TaskState
    <3>3. task'[t] = [task[t] EXCEPT !.draft = Len(artifact[s]) + 1]
      BY <1>0, <3>1
    <3>4. /\ task'[t].pc = "exec" /\ task'[t].cur = s /\ task'[t].run = r
          /\ task'[t].draft = Len(artifact[s]) + 1
      BY <1>0, <1>1, <3>3 DEF At, TaskState, s, r
    <3>5. task'[t].draft \in 1..Len(artifact'[s])
      BY <1>2, <2>1, <2>2, <3>4
    <3>6. TaskOK(t)'
      BY <1>1, <2>1, <2>2, <3>4, <3>5 DEF TaskOK, At
    <3>7. TaskInv'
      BY <2>1, <3>2, <3>6, TaskMoves
    <3> QED BY <1>4, <2>1, <3>2, <3>7 DEF Progress, TypeOK, history
  <2>3. CASE d # 0
    <3>1. UNCHANGED task
      BY <1>4, <2>3 DEF Progress, d
    <3>2. TaskInv'
      BY <2>1, <3>1, TaskKept DEF TaskInv
    <3> QED BY <1>4, <2>1, <3>1, <3>2 DEF Progress, TypeOK, history
  <2> QED BY <2>2, <2>3
<1>5. CASE FinishStage(t)
  <2>1. artifact' \in [Stages -> Seq(Artifact)] /\ ArtifactsGrow
    BY <1>3, <1>5 DEF FinishStage, r, s, d
  <2>2. /\ stage' \in [Runs -> [Stages -> StageStatus]]
        /\ out' \in [Runs -> [Stages -> Nat]]
    <3>1. stage' = [stage EXCEPT ![r][s] = IF s \in Gates THEN "needs_review" ELSE "completed"]
      BY <1>5 DEF FinishStage, r, s
    <3>2. out' = [out EXCEPT ![r][s] = IF d = 0 THEN Len(artifact[s]) + 1 ELSE d]
      BY <1>5 DEF FinishStage, r, s, d
    <3>3. (IF d = 0 THEN Len(artifact[s]) + 1 ELSE d) \in Nat
      BY <1>0, <1>2
    <3> QED BY <1>0, <1>1, <3>1, <3>2, <3>3 DEF StageStatus
  <2>3. /\ task' \in [Tasks -> TaskState] /\ \A u \in Tasks \ {t} : task'[u] = task[u]
        /\ task'[t].pc = "midrefresh" /\ task'[t].cur = NoStage
    BY <1>0, <1>5 DEF FinishStage, TaskState
  <2>4. TaskOK(t)'
    BY <2>3, StagesAssumption DEF TaskOK, At
  <2>5. TaskInv'
    BY <2>1, <2>3, <2>4, TaskMoves
  <2> QED BY <1>5, <2>1, <2>2, <2>3, <2>5 DEF FinishStage, TypeOK, history
<1> QED BY <1>4, <1>5

\* Every step of a background task keeps the types.
LEMMA TaskStepTyped ==
  ASSUME Typed, NEW t \in Tasks, TaskStep(t)
  PROVE  Typed' /\ ArtifactsGrow
BY LocalStep, RowStep, ArtifactStep DEF TaskStep

\* The death of a task keeps the types.
LEMMA DeathTyped ==
  ASSUME Typed, NEW t \in Tasks, TaskDies(t)
  PROVE  Typed' /\ ArtifactsGrow
<1> USE DEF Typed
<1>1. ArtifactsGrow
  BY SameArtifacts DEF TaskDies, tables
<1>2. task' \in [Tasks -> TaskState] /\ TaskInv'
  BY <1>1, ExitType, ExitTaskInv DEF TaskDies
<1>3. budget' \in [Ops -> Nat]
  BY DEF TaskDies, TypeOK, Ops
<1>4. task[t].run \in Runs
  BY DEF TypeOK, TaskState
<1> QED BY <1>1, <1>2, <1>3, <1>4 DEF TaskDies, TypeOK, tables

\* The history of meetings names runs only.
LEMMA MeetsType ==
  ASSUME TypeOK, NEW r \in Runs, NEW stale, Meets(r, stale)
  PROVE  crossed' \subseteq Runs
BY DEF TypeOK, Meets


\* A budget that is spent stays a natural number.
LEMMA SpendType ==
  ASSUME TypeOK, NEW op \in Ops, Spend(op)
  PROVE  budget' \in [Ops -> Nat]
BY DEF TypeOK, Spend

\* The requests about a run, and what they commit.
LEMMA ControlTyped ==
  ASSUME Typed, NEW c \in Clients, NEW r \in Runs,
         RequestPause(c, r) \/ RequestResume(c, r) \/ RequestCancel(c, r) \/ RequestRetry(c, r)
  PROVE  Typed' /\ ArtifactsGrow
<1> USE DEF Typed
<1>1. UNCHANGED tables /\ UNCHANGED task /\ UNCHANGED <<crossed, died>>
  BY DEF RequestPause, RequestResume, RequestCancel, RequestRetry, Accept, history
<1>2. ArtifactsGrow /\ TaskInv'
  BY <1>1, SameArtifacts, TaskKept DEF tables, TaskInv
<1>3. PICK op \in {"pause", "resume", "cancel", "retry"}, m \in SUBSET Stages, d \in SUBSET Stages :
        Accept(c, op, r, m, d)
  <2>1. CASE RequestPause(c, r) \/ RequestResume(c, r)
    BY <2>1 DEF RequestPause, RequestResume
  <2>2. CASE RequestCancel(c, r)
    BY <2>2 DEF RequestCancel
  <2>3. CASE RequestRetry(c, r)
    <3>1. PICK m \in SUBSET Stages : Accept(c, "retry", r, m, {s \in m : out[r][s] # 0})
      BY <2>3 DEF RequestRetry
    <3> QED BY <3>1
  <2> QED BY <2>1, <2>2, <2>3
<1>4. req' \in [Clients -> ReqState] /\ budget' \in [Ops -> Nat]
  BY SMTT(60), <1>3 DEF TypeOK, Accept, Spend, ReqState, Ops
<1> QED BY <1>1, <1>2, <1>4 DEF TypeOK, tables

\* What a control request commits keeps the types.
LEMMA CommitTyped ==
  ASSUME Typed, NEW c \in Clients, Commit(c)
  PROVE  Typed' /\ ArtifactsGrow
<1> USE DEF Typed
<1>0. /\ req \in [Clients -> ReqState] /\ req[c].run \in Runs
      /\ runStatus \in [Runs -> RunStatus] /\ stage \in [Runs -> [Stages -> StageStatus]]
      /\ out \in [Runs -> [Stages -> Nat]]
  BY DEF TypeOK, ReqState
<1>1. UNCHANGED <<project, artifact, approvals, budget>>
  BY DEF Commit, CommitPause, CommitResume, CommitCancel, CommitRetry, WakePausedRun, tables
<1>2. ArtifactsGrow
  BY <1>1, SameArtifacts
<1>3. NoReq \in ReqState
  BY BoundsAssumption DEF NoReq, ReqState, Runs
<1>4. req' \in [Clients -> ReqState]
  BY <1>0, <1>3 DEF Commit, CommitPause, CommitResume, CommitCancel, CommitRetry,
                    WakePausedRun, Finished
<1>5. task' \in [Tasks -> TaskState] /\ TaskInv'
  <2>1. \/ UNCHANGED task
        \/ \E r \in Runs : Schedule("resume", r)
    BY <1>0 DEF Commit, CommitPause, CommitResume, CommitCancel, CommitRetry, WakePausedRun
  <2>2. CASE UNCHANGED task
    BY <1>2, <2>2, TaskKept DEF TaskInv, TypeOK
  <2>3. CASE \E r \in Runs : Schedule("resume", r)
    BY <1>2, <2>3, ScheduleType, ScheduleTaskInv
  <2> QED BY <2>1, <2>2, <2>3
<1>6. runStatus' \in [Runs -> RunStatus]
  BY <1>0 DEF Commit, CommitPause, CommitResume, CommitCancel, CommitRetry, WakePausedRun,
              SetStatus, RunStatus, tables
<1>7. stage' \in [Runs -> [Stages -> StageStatus]]
  <2>1. CASE UNCHANGED stage
    BY <1>0, <2>1
  <2>2. CASE SetStages(req[c].run, req[c].marked, "skipped")
    BY <1>0, <2>2 DEF SetStages, StageStatus
  <2>3. CASE SetStages(req[c].run, req[c].marked, "pending")
    BY <1>0, <2>3 DEF SetStages, StageStatus
  <2> QED BY <2>1, <2>2, <2>3 DEF Commit, CommitPause, CommitResume, CommitCancel,
                                  CommitRetry, WakePausedRun, tables
<1>8. out' \in [Runs -> [Stages -> Nat]]
  <2>1. CASE UNCHANGED out
    BY <1>0, <2>1
  <2>2. CASE CommitRetry(c)
    BY <1>0, <2>2 DEF CommitRetry
  <2> QED BY <2>1, <2>2 DEF Commit, CommitPause, CommitResume, CommitCancel, WakePausedRun, tables
<1>9. crossed' \subseteq Runs /\ died' \subseteq Runs
  <2>1. CASE UNCHANGED <<crossed, died>>
    BY <2>1 DEF TypeOK
  <2>2. CASE \E r \in Runs, stale \in BOOLEAN : Meets(r, stale) /\ UNCHANGED died
    BY <2>2, MeetsType DEF TypeOK
  <2>3. IsFresh(c) \in BOOLEAN
    BY DEF IsFresh
  <2> QED BY <1>0, <2>1, <2>2, <2>3 DEF Commit, CommitPause, CommitResume, CommitCancel, CommitRetry,
                                 WakePausedRun, history
<1> QED BY <1>1, <1>2, <1>4, <1>5, <1>6, <1>7, <1>8, <1>9 DEF TypeOK

\* The requests about an artifact.
LEMMA ReviewTyped ==
  ASSUME Typed, NEW s \in Stages, NEW v \in 1..Len(artifact[s]),
         RejectArtifact(s, v) \/ EditArtifact(s, v)
           \/ \E c \in Clients : ApproveArtifact(c, s, v)
  PROVE  Typed' /\ ArtifactsGrow
<1> USE DEF Typed
<1>0. /\ artifact \in [Stages -> Seq(Artifact)] /\ artifact[s][v] \in Artifact
      /\ req \in [Clients -> ReqState] /\ v \in Nat
  BY DEF TypeOK
<1>1. PICK a \in Artifact :
        /\ a.by = artifact[s][v].by
        /\ artifact' = [artifact EXCEPT ![s] = [@ EXCEPT ![v] = a]]
  <2>1. CASE RejectArtifact(s, v)
    <3>1. [artifact[s][v] EXCEPT !.status = "rejected"] \in Artifact
      BY <1>0 DEF Artifact
    <3> QED BY <1>0, <2>1, <3>1 DEF RejectArtifact, Artifact
  <2>2. CASE EditArtifact(s, v)
    <3> DEFINE a == [artifact[s][v] EXCEPT !.status = "draft", !.content = "final"]
    <3>1. a \in Artifact /\ a.by = artifact[s][v].by
      BY <1>0 DEF Artifact
    <3>2. artifact' = [artifact EXCEPT ![s] = [@ EXCEPT ![v] = a]]
      BY <1>0, <2>2 DEF EditArtifact
    <3> QED BY <3>1, <3>2
  <2>3. CASE \E c \in Clients : ApproveArtifact(c, s, v)
    <3>1. [artifact[s][v] EXCEPT !.status = "approved"] \in Artifact
      BY <1>0 DEF Artifact
    <3> QED BY <1>0, <2>3, <3>1 DEF ApproveArtifact, Artifact
  <2> QED BY <2>1, <2>2, <2>3
<1>2. artifact' \in [Stages -> Seq(Artifact)] /\ ArtifactsGrow
  BY <1>1, RewriteVersion
<1>3. UNCHANGED <<project, runStatus, stage, out, task, crossed, died>>
  BY DEF RejectArtifact, EditArtifact, ApproveArtifact, history
<1>4. TaskInv'
  BY <1>2, <1>3, TaskKept DEF TaskInv
<1>5. budget' \in [Ops -> Nat]
  BY SpendType DEF RejectArtifact, EditArtifact, ApproveArtifact, Ops
<1>6. req' \in [Clients -> ReqState] /\ approvals' \subseteq (Stages \X Nat \X {"partial", "final"})
  <2>1. artifact[s][v].content \in {"partial", "final"}
    BY <1>0 DEF Artifact
  <2>2. CASE RejectArtifact(s, v) \/ EditArtifact(s, v)
    BY <1>0, <2>2 DEF RejectArtifact, EditArtifact, TypeOK
  <2>3. ASSUME NEW c \in Clients, ApproveArtifact(c, s, v)
        PROVE  /\ req' \in [Clients -> ReqState]
               /\ approvals' \subseteq (Stages \X Nat \X {"partial", "final"})
    <3>1. req' \in [Clients -> ReqState]
      <4>1. req' = [req EXCEPT ![c].op = "wake"]
        BY <2>3 DEF ApproveArtifact
      <4> QED BY <1>0, <4>1 DEF ReqState
    <3>2. <<s, v, artifact[s][v].content>> \in Stages \X Nat \X {"partial", "final"}
      BY <1>0, <2>1
    <3>3. /\ approvals \subseteq (Stages \X Nat \X {"partial", "final"})
          /\ approvals' = approvals \cup {<<s, v, artifact[s][v].content>>}
      BY <2>3 DEF ApproveArtifact, TypeOK
    <3> QED BY <3>1, <3>2, <3>3, Zenon
  <2> QED BY <2>2, <2>3
<1>7. TypeOK'
  BY <1>2, <1>3, <1>5, <1>6 DEF TypeOK
<1> QED BY <1>2, <1>4, <1>7

\* The requests that start something.
LEMMA CreationTyped ==
  ASSUME Typed, SubmitOnboarding \/ CreateRun \/ \E r \in Runs : StartWorker(r)
  PROVE  Typed' /\ ArtifactsGrow
<1> USE DEF Typed
<1>1. UNCHANGED <<stage, out, artifact, approvals, req>>
  BY DEF SubmitOnboarding, CreateRun, StartWorker, tables
<1>2. ArtifactsGrow
  BY <1>1, SameArtifacts
<1>3. task' \in [Tasks -> TaskState] /\ TaskInv'
  <2>1. \/ UNCHANGED task
        \/ \E r \in Runs : Schedule("run", r) \/ Schedule("worker", r)
    BY DEF SubmitOnboarding, CreateRun, StartWorker
  <2>2. CASE UNCHANGED task
    BY <1>2, <2>2, TaskKept DEF TaskInv, TypeOK
  <2>3. CASE \E r \in Runs : Schedule("run", r) \/ Schedule("worker", r)
    BY <1>2, <2>3, ScheduleType, ScheduleTaskInv
  <2> QED BY <2>1, <2>2, <2>3
<1>4. budget' \in [Ops -> Nat]
  BY SpendType DEF SubmitOnboarding, CreateRun, StartWorker, Ops
<1>5. project' \in ProjectStatus /\ runStatus' \in [Runs -> RunStatus]
  BY DEF SubmitOnboarding, CreateRun, StartWorker, TypeOK, tables, ProjectStatus, RunStatus
<1>6. crossed' \subseteq Runs /\ died' \subseteq Runs
  <2>1. UNCHANGED died
    BY DEF SubmitOnboarding, CreateRun, StartWorker, history
  <2>2. UNCHANGED crossed \/ \E r \in Runs : Meets(r, FALSE)
    BY DEF SubmitOnboarding, CreateRun, StartWorker, history
  <2> QED BY <2>1, <2>2, MeetsType DEF TypeOK
<1>7. TypeOK'
  BY <1>1, <1>3, <1>4, <1>5, <1>6 DEF TypeOK
<1> QED BY <1>2, <1>3, <1>7

\* Every step keeps the types and what they rest on, and appends versions only.
LEMMA StepTyped ==
  ASSUME Typed, Next
  PROVE  Typed' /\ ArtifactsGrow
<1>1. ASSUME NEW c \in Clients, ControlStep(c) PROVE Typed' /\ ArtifactsGrow
  BY <1>1, ControlTyped, ReviewTyped DEF ControlStep
<1> QED BY <1>1, TaskStepTyped, DeathTyped, CommitTyped, ReviewTyped, CreationTyped DEF Next

\* The variables keep their types, whatever the graph and the number of runs,
\* tasks and requests.
THEOREM TypeCorrect == Spec => []TypeOK
<1>1. Init => Typed
  BY InitType DEF Typed
<1>2. Typed /\ [Next]_vars => Typed'
  <2>1. Typed /\ Next => Typed'
    BY StepTyped
  <2>2. Typed /\ UNCHANGED vars => Typed'
    BY DEF Typed, TypeOK, TaskInv, TaskOK, At, vars
  <2> QED BY <2>1, <2>2
<1>3. Typed => TypeOK
  BY DEF Typed
<1> QED BY <1>1, <1>2, <1>3, PTL DEF Spec

-----------------------------------------------------------------------------
(***************************************************************************)
(* The approval gates hold, for every graph and any number of runs, tasks  *)
(* and requests: a stage behind a gate is started only after the approval  *)
(* of an artifact that its own run made for the gate.                      *)
(*                                                                         *)
(* The argument is split by tables.  StepArtifacts, StepStages, StepOut    *)
(* and StepTasks say what a step may do to each of them; the theorems at   *)
(* the end only use these four.                                            *)
(***************************************************************************)

IsApproved(s, v) == \E a \in approvals : a[1] = s /\ a[2] = v

\* A version with status "approved" has its row in the approval table.
ApprovedIsRecorded ==
  \A s \in Stages : \A v \in 1..Len(artifact[s]) :
    artifact[s][v].status = "approved" => IsApproved(s, v)

\* An approval is of a version that exists.
ApprovalsExist == \A a \in approvals : a[1] \in Stages /\ a[2] \in 1..Len(artifact[a[1]])

\* The output of a stage is a version that its run made.
OutputIsOwn ==
  \A r \in Runs : \A s \in Stages :
    out[r][s] # 0 => /\ out[r][s] \in 1..Len(artifact[s])
                     /\ artifact[s][out[r][s]].by = r

\* A retry only clears the output of a stage that it resets.
RetryResets == \A c \in Clients : req[c].cleared \subseteq req[c].marked

GateInv ==
  /\ Typed
  /\ ApprovedIsRecorded /\ ApprovalsExist /\ OutputIsOwn /\ RetryResets
  /\ GateNeedsApproval /\ GatesHoldBack

-----------------------------------------------------------------------------
(* What a step may do to the artifacts and the approvals *)

ArtifactsMove ==
  /\ approvals \subseteq approvals'
  /\ \A a \in approvals' \ approvals : a[1] \in Stages /\ a[2] \in 1..Len(artifact[a[1]])
  /\ \A s \in Stages : \A v \in 1..Len(artifact'[s]) :
       artifact'[s][v].status = "approved" =>
         \/ v \in 1..Len(artifact[s]) /\ artifact[s][v].status = "approved"
         \/ IsApproved(s, v)'

\* A new version is a draft, so no version becomes approved by it.
LEMMA DraftMoves ==
  ASSUME Typed, NEW s \in Stages, NEW c \in {"partial", "final"}, NEW r \in Runs,
         artifact' = [artifact EXCEPT ![s] = Draft(s, c, r)], UNCHANGED approvals
  PROVE  ArtifactsMove
<1>1. /\ Len(artifact'[s]) = Len(artifact[s]) + 1
      /\ \A v \in 1..Len(artifact[s]) : artifact'[s][v] = artifact[s][v]
      /\ artifact'[s][Len(artifact[s]) + 1] = [status |-> "draft", content |-> c, by |-> r]
  <2>1. TypeOK /\ s \in Stages /\ c \in {"partial", "final"} /\ r \in Runs
    BY DEF Typed
  <2>2. artifact' = [artifact EXCEPT ![s] = Draft(s, c, r)]
    OBVIOUS
  <2> QED BY <2>1, <2>2, AppendDraft, ZenonT(60)
<1>2. artifact'[s][Len(artifact[s]) + 1].status = "draft"
  BY <1>1
<1>3. \A q \in Stages : Len(artifact[q]) \in Nat /\ (q # s => artifact'[q] = artifact[q])
  BY DEF Typed, TypeOK
<1>4. \A v \in 1..Len(artifact'[s]) :
        v \in 1..Len(artifact[s]) \/ v = Len(artifact[s]) + 1
  BY <1>1, <1>3
<1> QED BY <1>1, <1>2, <1>3, <1>4 DEF ArtifactsMove

\* A rewritten version is approved only if it was, or if the decision is recorded.
LEMMA RewriteMoves ==
  ASSUME Typed, NEW s \in Stages, NEW v \in 1..Len(artifact[s]), NEW a \in Artifact,
         a.by = artifact[s][v].by,
         artifact' = [artifact EXCEPT ![s] = [@ EXCEPT ![v] = a]],
         approvals \subseteq approvals',
         \A b \in approvals' \ approvals : b[1] = s /\ b[2] = v,
         a.status = "approved" => artifact[s][v].status = "approved" \/ IsApproved(s, v)'
  PROVE  ArtifactsMove
<1>1. /\ \A q \in Stages : Len(artifact'[q]) = Len(artifact[q])
      /\ artifact'[s][v] = a
      /\ \A q \in Stages : \A w \in 1..Len(artifact[q]) :
           q # s \/ w # v => artifact'[q][w] = artifact[q][w]
  <2>1. TypeOK
    BY DEF Typed
  <2>2. /\ a.by = artifact[s][v].by
        /\ artifact' = [artifact EXCEPT ![s] = [@ EXCEPT ![v] = a]]
    OBVIOUS
  <2>3. \A q \in Stages : Len(artifact'[q]) = Len(artifact[q])
    BY <2>1, <2>2, RewriteVersion
  <2>4. artifact'[s][v] = a
    <3>1. artifact[s] \in Seq(Artifact) /\ artifact'[s] = [artifact[s] EXCEPT ![v] = a]
      BY <2>1, <2>2 DEF TypeOK
    <3> QED BY <3>1, ExceptSeq
  <2>5. \A q \in Stages : \A w \in 1..Len(artifact[q]) :
          q # s \/ w # v => artifact'[q][w] = artifact[q][w]
    BY <2>1, <2>2, RewriteVersion
  <2> QED BY <2>3, <2>4, <2>5
<1>2. ASSUME NEW q \in Stages, NEW w \in 1..Len(artifact'[q]),
             artifact'[q][w].status = "approved"
      PROVE  \/ w \in 1..Len(artifact[q]) /\ artifact[q][w].status = "approved"
             \/ IsApproved(q, w)'
  <2>1. w \in 1..Len(artifact[q])
    BY <1>1, <1>2
  <2>2. CASE q = s /\ w = v
    BY <1>1, <1>2, <2>1, <2>2
  <2>3. CASE q # s \/ w # v
    BY <1>1, <1>2, <2>1, <2>3
  <2> QED BY <2>2, <2>3
<1>3. \A b \in approvals' \ approvals : b[1] \in Stages /\ b[2] \in 1..Len(artifact[b[1]])
  OBVIOUS
<1> QED BY <1>2, <1>3 DEF ArtifactsMove

\* No step takes an approval back, and only approve_artifact (services.py:365-375)
\* makes a version approved, with its row.
LEMMA StepArtifacts ==
  ASSUME Typed, Next
  PROVE  ArtifactsMove
<1>0. artifact \in [Stages -> Seq(Artifact)] /\ \A s \in Stages : Len(artifact[s]) \in Nat
  BY DEF Typed, TypeOK
<1>1. CASE UNCHANGED <<artifact, approvals>>
  BY <1>0, <1>1 DEF ArtifactsMove
<1>2. ASSUME NEW t \in Tasks, Progress(t) \/ FinishStage(t)
      PROVE  ArtifactsMove
  <2> DEFINE r == task[t].run
             s == task[t].cur
             d == task[t].draft
  <2>0. TaskOK(t) /\ task[t] \in TaskState /\ UNCHANGED approvals
    BY <1>2 DEF Typed, TypeOK, TaskInv, Progress, FinishStage
  <2>1. r \in Runs /\ s \in Stages
    BY <1>2, <2>0 DEF TaskOK, TaskState, Progress, FinishStage, At
  <2>2. d # 0 => d \in 1..Len(artifact[s])
    BY <1>2, <2>0 DEF TaskOK, Progress, FinishStage, At
  <2>3. PICK c \in {"partial", "final"} :
          artifact' = IF d = 0 THEN [artifact EXCEPT ![s] = Draft(s, c, r)]
                               ELSE [artifact EXCEPT ![s][d].content = c]
    BY <1>2 DEF Progress, FinishStage
  <2> HIDE DEF r, s, d
  <2>4. CASE d = 0
    <3>1. artifact' = [artifact EXCEPT ![s] = Draft(s, c, r)]
      BY <2>3, <2>4
    <3> QED BY <2>0, <2>1, <3>1, DraftMoves, Zenon
  <2>5. CASE d # 0
    <3> DEFINE a == [artifact[s][d] EXCEPT !.content = c]
    <3>1. artifact[s][d] \in Artifact
      BY <1>0, <2>1, <2>2, <2>5
    <3>2. a \in Artifact /\ a.by = artifact[s][d].by /\ a.status = artifact[s][d].status
      BY <3>1 DEF Artifact
    <3>3. artifact' = [artifact EXCEPT ![s] = [@ EXCEPT ![d] = a]]
      BY <1>0, <2>1, <2>3, <2>5
    <3> HIDE DEF a
    <3> QED BY <2>0, <2>1, <2>2, <2>5, <3>2, <3>3, RewriteMoves
  <2> QED BY <2>4, <2>5
<1>3. ASSUME NEW s \in Stages, NEW v \in 1..Len(artifact[s]),
             RejectArtifact(s, v) \/ EditArtifact(s, v)
      PROVE  ArtifactsMove
  <2>1. artifact[s][v] \in Artifact /\ UNCHANGED approvals
    BY <1>0, <1>3 DEF RejectArtifact, EditArtifact
  <2>2. PICK a \in Artifact :
          /\ a.by = artifact[s][v].by /\ a.status # "approved"
          /\ artifact' = [artifact EXCEPT ![s] = [@ EXCEPT ![v] = a]]
    <3>1. CASE RejectArtifact(s, v)
      <4> DEFINE a == [artifact[s][v] EXCEPT !.status = "rejected"]
      <4>1. a \in Artifact /\ a.by = artifact[s][v].by /\ a.status # "approved"
        BY <2>1 DEF Artifact
      <4>2. artifact' = [artifact EXCEPT ![s] = [@ EXCEPT ![v] = a]]
        BY <1>0, <3>1 DEF RejectArtifact
      <4> QED BY <4>1, <4>2
    <3>2. CASE EditArtifact(s, v)
      <4> DEFINE a == [artifact[s][v] EXCEPT !.status = "draft", !.content = "final"]
      <4>1. a \in Artifact /\ a.by = artifact[s][v].by /\ a.status # "approved"
        BY <2>1 DEF Artifact
      <4>2. artifact' = [artifact EXCEPT ![s] = [@ EXCEPT ![v] = a]]
        BY <1>0, <3>2 DEF EditArtifact
      <4> QED BY <4>1, <4>2
    <3> QED BY <1>3, <3>1, <3>2
  <2> QED BY <2>1, <2>2, RewriteMoves
<1>4. ASSUME NEW c \in Clients, NEW s \in Stages, NEW v \in 1..Len(artifact[s]),
             ApproveArtifact(c, s, v)
      PROVE  ArtifactsMove
  <2> DEFINE a == [artifact[s][v] EXCEPT !.status = "approved"]
             b == <<s, v, artifact[s][v].content>>
  <2>1. artifact[s][v] \in Artifact
    BY <1>0
  <2>2. a \in Artifact /\ a.by = artifact[s][v].by
    BY <2>1 DEF Artifact
  <2>3. artifact' = [artifact EXCEPT ![s] = [@ EXCEPT ![v] = a]]
    BY <1>0, <1>4 DEF ApproveArtifact
  <2>4. approvals' = approvals \cup {b} /\ b[1] = s /\ b[2] = v
    BY <1>4 DEF ApproveArtifact
  <2>5. IsApproved(s, v)'
    BY <2>4 DEF IsApproved
  <2> HIDE DEF a, b
  <2> QED BY <2>2, <2>3, <2>4, <2>5, RewriteMoves
<1>5. ASSUME NEW t \in Tasks, TaskStep(t)
      PROVE  (Progress(t) \/ FinishStage(t)) \/ UNCHANGED <<artifact, approvals>>
  BY <1>5 DEF TaskStep, Load, WorkerSkips, InitializeRun, Refresh, Exhaust, LoadStages,
     StartStage, FailStage, MidRefresh, MidLoad, Conclude, tables
<1>6. ASSUME NEW c \in Clients, Commit(c)
      PROVE  UNCHANGED <<artifact, approvals>>
  BY <1>6 DEF Commit, CommitPause, CommitResume, CommitCancel, CommitRetry, WakePausedRun, tables
<1>7. ASSUME NEW c \in Clients, ControlStep(c)
      PROVE  \/ UNCHANGED <<artifact, approvals>>
             \/ \E s \in Stages : \E v \in 1..Len(artifact[s]) : ApproveArtifact(c, s, v)
  BY <1>7 DEF ControlStep, RequestPause, RequestResume, RequestCancel, RequestRetry, Accept, tables
<1>8. (\E t \in Tasks : TaskDies(t)) \/ SubmitOnboarding \/ CreateRun
        \/ (\E r \in Runs : StartWorker(r)) => UNCHANGED <<artifact, approvals>>
  BY DEF TaskDies, SubmitOnboarding, CreateRun, StartWorker, tables
<1> QED BY <1>1, <1>2, <1>3, <1>4, <1>5, <1>6, <1>7, <1>8 DEF Next

-----------------------------------------------------------------------------
(* What a step may do to the stages of a run and to their outputs *)

StagesMove ==
  \A r \in Runs : \A s \in Stages :
    \/ stage'[r][s] = stage[r][s]
    \/ stage'[r][s] \in {"pending", "skipped"}
    \/ s \in Promoted(r)
    \/ /\ \E t \in Tasks : task[t].run = r /\ task[t].cur = s
       /\ s \in Gates => stage'[r][s] # "completed"

\* What a step of a task or a request may do to the stage rows of a run.
LEMMA StepStages ==
  ASSUME Typed, Next
  PROVE  StagesMove
<1>0. /\ stage \in [Runs -> [Stages -> StageStatus]]
      /\ \A t \in Tasks : TaskOK(t) /\ task[t].run \in Runs
      /\ \A c \in Clients : req[c].run \in Runs
  BY DEF Typed, TypeOK, TaskInv, TaskState, ReqState
<1>1. CASE UNCHANGED stage
  BY <1>1 DEF StagesMove
<1>2. ASSUME NEW t \in Tasks, Load(t)
      PROVE  StagesMove
  BY <1>0, <1>2 DEF Load, StagesMove
<1>3. ASSUME NEW t \in Tasks, InitializeRun(t)
      PROVE  StagesMove
  BY <1>0, <1>3 DEF InitializeRun, StagesMove
<1>4. ASSUME NEW t \in Tasks, StartStage(t) \/ FinishStage(t) \/ FailStage(t)
      PROVE  StagesMove
  <2>1. task[t].cur \in Stages
    BY <1>0, <1>4 DEF TaskOK, StartStage, FinishStage, FailStage, At
  <2>2. /\ \A r \in Runs : \A s \in Stages :
             r # task[t].run \/ s # task[t].cur => stage'[r][s] = stage[r][s]
        /\ \/ stage'[task[t].run][task[t].cur] = stage[task[t].run][task[t].cur]
           \/ task[t].cur \in Gates => stage'[task[t].run][task[t].cur] # "completed"
    <3>1. CASE StartStage(t)
      BY <1>0, <2>1, <3>1 DEF StartStage, Flush
    <3>2. CASE FinishStage(t)
      BY <1>0, <2>1, <3>2 DEF FinishStage
    <3>3. CASE FailStage(t)
      BY <1>0, <2>1, <3>3 DEF FailStage
    <3> QED BY <1>4, <3>1, <3>2, <3>3
  <2> QED BY <2>1, <2>2 DEF StagesMove
<1>5. ASSUME NEW c \in Clients, CommitCancel(c) \/ CommitRetry(c)
      PROVE  StagesMove
  <2>1. \E status \in {"pending", "skipped"} : SetStages(req[c].run, req[c].marked, status)
    BY <1>5 DEF CommitCancel, CommitRetry
  <2> QED BY <1>0, <2>1 DEF SetStages, StagesMove
<1>6. ASSUME NEW t \in Tasks, TaskStep(t)
      PROVE  \/ Load(t) \/ InitializeRun(t) \/ StartStage(t) \/ FinishStage(t) \/ FailStage(t)
             \/ UNCHANGED stage
  BY <1>6 DEF TaskStep, WorkerSkips, Refresh, Exhaust, LoadStages, Progress, MidRefresh,
     MidLoad, Conclude, tables
<1>7. ASSUME NEW c \in Clients, Commit(c)
      PROVE  CommitCancel(c) \/ CommitRetry(c) \/ UNCHANGED stage
  BY <1>7 DEF Commit, CommitPause, CommitResume, WakePausedRun, tables
<1>8. (\E t \in Tasks : TaskDies(t)) \/ (\E c \in Clients : ControlStep(c)) \/ SubmitOnboarding
        \/ CreateRun \/ (\E r \in Runs : StartWorker(r)) => UNCHANGED stage
  BY DEF TaskDies, ControlStep, RequestPause, RequestResume, RequestCancel, RequestRetry, Accept,
     ApproveArtifact, SubmitOnboarding, CreateRun, StartWorker, tables
<1>9. (\E s \in Stages : \E v \in 1..Len(artifact[s]) : RejectArtifact(s, v) \/ EditArtifact(s, v))
        => UNCHANGED stage
  BY DEF RejectArtifact, EditArtifact
<1> QED BY <1>1, <1>2, <1>3, <1>4, <1>5, <1>6, <1>7, <1>8, <1>9 DEF Next

OutMoves ==
  \A r \in Runs : \A s \in Stages :
    \/ out'[r][s] = out[r][s]
    \/ out'[r][s] = 0 /\ stage'[r][s] = "pending"
    \/ /\ s \in Gates => stage'[r][s] # "completed"
       /\ out'[r][s] \in 1..Len(artifact'[s])
       /\ artifact'[s][out'[r][s]].by = r

\* A stage gets an output only from the execution that made it, and loses it only
\* by a retry (services.py:252-299).
LEMMA StepOut ==
  ASSUME Typed, RetryResets, Next
  PROVE  OutMoves
<1>0. /\ stage \in [Runs -> [Stages -> StageStatus]] /\ out \in [Runs -> [Stages -> Nat]]
      /\ artifact \in [Stages -> Seq(Artifact)]
      /\ \A t \in Tasks : TaskOK(t) /\ task[t] \in TaskState
      /\ \A c \in Clients : req[c].run \in Runs
  BY DEF Typed, TypeOK, TaskInv, ReqState
<1>1. CASE UNCHANGED out
  BY <1>1 DEF OutMoves
<1>2. ASSUME NEW t \in Tasks, FinishStage(t)
      PROVE  OutMoves
  <2> DEFINE r == task[t].run
             s == task[t].cur
             d == task[t].draft
             o == IF d = 0 THEN Len(artifact[s]) + 1 ELSE d
  <2>0. TaskOK(t) /\ r \in Runs /\ s \in Stages /\ d \in Nat /\ Len(artifact[s]) \in Nat
    <3>1. r \in Runs /\ d \in Nat /\ s \in Stages
      BY <1>0, <1>2 DEF FinishStage, TaskOK, At, TaskState
    <3> QED BY <1>0, <3>1
  <2>1. d # 0 => d \in 1..Len(artifact[s]) /\ artifact[s][d].by = r
    BY <1>2, <2>0 DEF TaskOK, FinishStage, At
  <2>2. /\ out' = [out EXCEPT ![r][s] = o]
        /\ stage' = [stage EXCEPT ![r][s] = IF s \in Gates THEN "needs_review" ELSE "completed"]
        /\ artifact' = IF d = 0 THEN [artifact EXCEPT ![s] = Draft(s, "final", r)]
                                ELSE [artifact EXCEPT ![s][d].content = "final"]
    BY <1>2 DEF FinishStage
  <2>3. Typed' /\ ArtifactsGrow
    BY ArtifactStep, <1>2
  <2> HIDE DEF r, s, d
  <2>4. o \in 1..Len(artifact'[s]) /\ artifact'[s][o].by = r
    <3>1. CASE d = 0
      <4>1. artifact' = [artifact EXCEPT ![s] = Draft(s, "final", r)] /\ TypeOK
        BY <2>2, <3>1 DEF Typed
      <4>2. /\ Len(artifact'[s]) = Len(artifact[s]) + 1
            /\ artifact'[s][Len(artifact[s]) + 1] =
                 [status |-> "draft", content |-> "final", by |-> r]
        BY <2>0, <4>1, AppendDraft, ZenonT(60)
      <4> QED BY <2>0, <3>1, <4>2
    <3>2. CASE d # 0
      <4>1. d \in 1..Len(artifact[s]) /\ artifact[s][d].by = r
        BY <2>1, <3>2
      <4>2. Len(artifact'[s]) >= Len(artifact[s]) /\ artifact'[s][d].by = r
        BY <2>0, <2>3, <4>1 DEF ArtifactsGrow
      <4>3. Len(artifact'[s]) \in Nat
        BY <2>0, <2>3 DEF Typed, TypeOK
      <4> QED BY <2>0, <3>2, <4>1, <4>2, <4>3
    <3> QED BY <3>1, <3>2
  <2> HIDE DEF o
  <2>5. /\ out'[r][s] = o /\ stage'[r][s] = IF s \in Gates THEN "needs_review" ELSE "completed"
        /\ \A p \in Runs : \A q \in Stages : p # r \/ q # s => out'[p][q] = out[p][q]
    BY <1>0, <2>0, <2>2
  <2> QED BY <2>4, <2>5 DEF OutMoves
<1>3. ASSUME NEW c \in Clients, CommitRetry(c)
      PROVE  OutMoves
  BY <1>0, <1>3 DEF CommitRetry, SetStages, RetryResets, OutMoves
<1>4. (\E t \in Tasks : TaskStep(t)) =>
        (\E t \in Tasks : FinishStage(t)) \/ UNCHANGED out
  BY ZenonT(60) DEF TaskStep, Load, WorkerSkips, InitializeRun, Refresh, Exhaust, LoadStages,
     StartStage, Progress, FailStage, MidRefresh, MidLoad, Conclude, tables
<1>5. ASSUME NEW c \in Clients, Commit(c)
      PROVE  CommitRetry(c) \/ UNCHANGED out
  BY <1>5 DEF Commit, CommitPause, CommitResume, CommitCancel, WakePausedRun, tables
<1>6. (\E t \in Tasks : TaskDies(t)) \/ (\E c \in Clients : ControlStep(c)) \/ SubmitOnboarding
        \/ CreateRun \/ (\E r \in Runs : StartWorker(r)) => UNCHANGED out
  BY DEF TaskDies, ControlStep, RequestPause, RequestResume, RequestCancel, RequestRetry, Accept,
     ApproveArtifact, SubmitOnboarding, CreateRun, StartWorker, tables
<1>7. (\E s \in Stages : \E v \in 1..Len(artifact[s]) : RejectArtifact(s, v) \/ EditArtifact(s, v))
        => UNCHANGED out
  BY DEF RejectArtifact, EditArtifact
<1> QED BY <1>1, <1>2, <1>3, <1>4, <1>5, <1>6, <1>7 DEF Next

\* A retry that was read keeps its list of outputs to clear within its stages.
LEMMA StepRetry ==
  ASSUME Typed, RetryResets, Next
  PROVE  RetryResets'
<1>0. req \in [Clients -> ReqState]
  BY DEF Typed, TypeOK
<1>1. CASE UNCHANGED req
  BY <1>1 DEF RetryResets
<1>2. ASSUME NEW c \in Clients, Finished(c)
      PROVE  RetryResets'
  BY <1>0, <1>2 DEF Finished, NoReq, RetryResets
<1>3. ASSUME NEW c \in Clients, NEW op, NEW r, NEW m, NEW d, d \subseteq m, Accept(c, op, r, m, d)
      PROVE  RetryResets'
  BY <1>0, <1>3 DEF Accept, RetryResets
<1>4. ASSUME NEW c \in Clients, ControlStep(c)
      PROVE  RetryResets'
  <2>1. ASSUME NEW r \in Runs, RequestRetry(c, r)
        PROVE  RetryResets'
    BY <1>3, <2>1 DEF RequestRetry
  <2>2. ASSUME NEW s \in Stages, NEW v, ApproveArtifact(c, s, v)
        PROVE  RetryResets'
    BY <1>0, <2>2 DEF ApproveArtifact, RetryResets, ReqState
  <2>3. ASSUME NEW r \in Runs, RequestPause(c, r) \/ RequestResume(c, r) \/ RequestCancel(c, r)
        PROVE  RetryResets'
    BY <1>3, <2>3 DEF RequestPause, RequestResume, RequestCancel
  <2> QED BY <1>4, <2>1, <2>2, <2>3 DEF ControlStep
<1>5. ASSUME NEW c \in Clients, Commit(c)
      PROVE  RetryResets'
  BY <1>2, <1>5 DEF Commit, CommitPause, CommitResume, CommitCancel, CommitRetry, WakePausedRun
<1>6. (\E t \in Tasks : TaskStep(t) \/ TaskDies(t)) \/ SubmitOnboarding
        \/ CreateRun \/ (\E r \in Runs : StartWorker(r)) => UNCHANGED req
  BY ZenonT(60) DEF TaskStep, TaskDies, Load, WorkerSkips, InitializeRun, Refresh, Exhaust, LoadStages,
     StartStage, Progress, FinishStage, FailStage, MidRefresh, MidLoad, Conclude,
     SubmitOnboarding, CreateRun, StartWorker, tables
<1>7. (\E s \in Stages : \E v \in 1..Len(artifact[s]) : RejectArtifact(s, v) \/ EditArtifact(s, v))
        => UNCHANGED req
  BY DEF RejectArtifact, EditArtifact
<1> QED BY <1>1, <1>4, <1>5, <1>6, <1>7 DEF Next

-----------------------------------------------------------------------------
(* What a step may do to the stages that a task has in hand *)

InHand(t, s) == s = task[t].cur \/ s \in task[t].batch

TasksMove ==
  \A t \in Tasks : \A s \in Stages :
    InHand(t, s)' =>
      /\ task'[t].run = task[t].run
      /\ InHand(t, s) \/ s \in Ready(stage[task[t].run])

\* A task takes a stage in hand only from the list of ready stages.
LEMMA StepTasks ==
  ASSUME Typed, Next
  PROVE  TasksMove
<1>0. /\ task \in [Tasks -> TaskState] /\ NoStage \notin Stages
      /\ \A t \in Tasks : task[t] \in TaskState
  BY StagesAssumption DEF Typed, TypeOK
<1>1. CASE UNCHANGED task
  BY <1>1 DEF TasksMove, InHand
<1>2. ASSUME NEW t \in Tasks, \A u \in Tasks \ {t} : task'[u] = task[u],
             \/ task'[t].cur = NoStage /\ task'[t].batch = {}
             \/ /\ task'[t].run = task[t].run
                /\ \A s \in Stages : s = task'[t].cur \/ s \in task'[t].batch =>
                     InHand(t, s) \/ s \in Ready(stage[task[t].run])
      PROVE  TasksMove
  BY <1>0, <1>2 DEF TasksMove, InHand
<1>3. ASSUME NEW t \in Tasks, Exit(t)
      PROVE  TasksMove
  <2>1. task'[t] = NoTask /\ \A u \in Tasks \ {t} : task'[u] = task[u]
    BY <1>0, <1>3 DEF Exit
  <2>2. task'[t].cur = NoStage /\ task'[t].batch = {}
    BY <2>1 DEF NoTask
  <2> QED BY <1>2, <2>1, <2>2
<1>4. ASSUME NEW k, NEW r, Schedule(k, r)
      PROVE  TasksMove
  <2>1. PICK t \in Tasks : task' = [task EXCEPT ![t] =
          [NoTask EXCEPT !.pc = "scheduled", !.kind = k, !.run = r]]
    BY <1>4 DEF Schedule
  <2>2. /\ task'[t] = [NoTask EXCEPT !.pc = "scheduled", !.kind = k, !.run = r]
        /\ \A u \in Tasks \ {t} : task'[u] = task[u]
    BY <1>0, <2>1
  <2>3. task'[t].cur = NoStage /\ task'[t].batch = {}
    BY <2>2 DEF NoTask
  <2> QED BY <1>2, <2>2, <2>3
<1>5. ASSUME NEW t \in Tasks, \A u \in Tasks \ {t} : task'[u] = task[u],
             task'[t].run = task[t].run, task'[t].batch = task[t].batch,
             task'[t].cur \in {task[t].cur, NoStage}
      PROVE  TasksMove
  BY <1>0, <1>2, <1>5 DEF InHand
<1>6. ASSUME NEW t \in Tasks, TaskStep(t)
      PROVE  TasksMove
  <2>0. task[t] \in TaskState /\ Ready(stage[task[t].run]) \subseteq Stages
    BY <1>0 DEF Ready
  <2>1. CASE Load(t) \/ InitializeRun(t) \/ Exhaust(t) \/ StartStage(t)
    BY <1>0, <1>5, <2>0, <2>1 DEF Load, InitializeRun, Exhaust, StartStage, TaskState
  <2>2. CASE Progress(t)
    BY <1>0, <1>1, <1>5, <2>0, <2>2 DEF Progress, TaskState
  <2>3. CASE FinishStage(t) \/ FailStage(t)
    <3>1. task' = [task EXCEPT ![t].pc = "midrefresh", ![t].draft = 0, ![t].cur = NoStage]
      BY <2>3 DEF FinishStage, FailStage
    <3> QED BY <1>0, <1>5, <2>0, <3>1 DEF TaskState
  <2>4. CASE WorkerSkips(t) \/ Conclude(t)
    BY <1>3, <2>4 DEF WorkerSkips, Conclude
  <2>5. CASE Refresh(t) \/ MidRefresh(t)
    <3>1. CASE Exit(t)
      BY <1>3, <3>1
    <3>2. CASE ~ Exit(t)
      BY <1>0, <1>5, <2>0, <2>5, <3>2 DEF Refresh, MidRefresh, TaskState
    <3> QED BY <3>1, <3>2
  <2>6. CASE LoadStages(t)
    <3>1. CASE task' = [task EXCEPT ![t].pc = "conclude", ![t].verdict = "failed"]
      BY <1>0, <1>5, <2>0, <3>1 DEF TaskState
    <3>2. ASSUME NEW s \in Ready(stage[task[t].run]),
                 task' = [task EXCEPT ![t].pc = "start", ![t].cur = s,
                            ![t].seen = stage[task[t].run][s],
                            ![t].batch = Ready(stage[task[t].run]) \ {s}]
          PROVE  TasksMove
      <4>1. /\ task'[t].run = task[t].run /\ task'[t].cur = s
            /\ task'[t].batch = Ready(stage[task[t].run]) \ {s}
            /\ \A u \in Tasks \ {t} : task'[u] = task[u]
        BY <1>0, <2>0, <3>2 DEF TaskState
      <4> QED BY <1>2, <3>2, <4>1
    <3>3. CASE task' = [task EXCEPT ![t].pc = "conclude",
                                    ![t].verdict = Verdict(stage[task[t].run])]
      BY <1>0, <1>5, <2>0, <3>3 DEF TaskState
    <3> QED BY <2>6, <3>1, <3>2, <3>3 DEF LoadStages
  <2>7. CASE MidLoad(t)
    <3>1. CASE task' = [task EXCEPT ![t].pc = "conclude", ![t].verdict = "failed",
                                    ![t].batch = {}]
      <4>1. /\ task'[t].run = task[t].run /\ task'[t].cur = task[t].cur
            /\ task'[t].batch = {} /\ \A u \in Tasks \ {t} : task'[u] = task[u]
        BY <1>0, <2>0, <3>1 DEF TaskState
      <4> QED BY <1>2, <4>1 DEF InHand
    <3>2. ASSUME NEW s \in task[t].batch,
                 task' = [task EXCEPT ![t].pc = "start", ![t].cur = s,
                            ![t].seen = stage[task[t].run][s],
                            ![t].batch = task[t].batch \ {s}]
          PROVE  TasksMove
      <4>1. /\ task'[t].run = task[t].run /\ task'[t].cur = s
            /\ task'[t].batch = task[t].batch \ {s}
            /\ \A u \in Tasks \ {t} : task'[u] = task[u]
        BY <1>0, <2>0, <3>2 DEF TaskState
      <4> QED BY <1>2, <3>2, <4>1 DEF InHand
    <3>3. CASE task' = [task EXCEPT ![t].pc = "refresh"]
      BY <1>0, <1>5, <2>0, <3>3 DEF TaskState
    <3> QED BY <2>7, <3>1, <3>2, <3>3 DEF MidLoad
  <2> QED BY <1>6, <2>1, <2>2, <2>3, <2>4, <2>5, <2>6, <2>7 DEF TaskStep
<1>7. ASSUME NEW c \in Clients, ControlStep(c) \/ Commit(c)
      PROVE  TasksMove
  <2>1. CASE ControlStep(c)
    BY <1>1, <2>1 DEF ControlStep, RequestPause, RequestResume, RequestCancel, RequestRetry,
       Accept, ApproveArtifact
  <2>2. CASE Commit(c)
    BY <1>1, <1>4, <2>2 DEF Commit, CommitPause, CommitResume, CommitCancel, CommitRetry,
       WakePausedRun
  <2> QED BY <1>7, <2>1, <2>2
<1>8. CASE SubmitOnboarding \/ CreateRun \/ \E r \in Runs : StartWorker(r)
  BY <1>1, <1>4, <1>8 DEF SubmitOnboarding, CreateRun, StartWorker
<1>9. CASE \E s \in Stages : \E v \in 1..Len(artifact[s]) : RejectArtifact(s, v) \/ EditArtifact(s, v)
  BY <1>1, <1>9 DEF RejectArtifact, EditArtifact
<1>10. ASSUME NEW t \in Tasks, TaskDies(t)
       PROVE  TasksMove
  BY <1>3, <1>10 DEF TaskDies
<1> QED BY <1>6, <1>7, <1>8, <1>9, <1>10 DEF Next

-----------------------------------------------------------------------------
(* The invariant and the theorems *)

\* Before the first request the gate invariant holds of the empty tables.
LEMMA GateInit == Init => GateInv
<1>1. SUFFICES ASSUME Init PROVE GateInv
  OBVIOUS
<1>2. Typed
  BY <1>1, InitType DEF Typed
<1>3. /\ \A s \in Stages : artifact[s] = <<>> /\ Len(artifact[s]) = 0
      /\ approvals = {}
      /\ \A r \in Runs : \A s \in Stages : out[r][s] = 0 /\ stage[r][s] = "absent"
      /\ \A c \in Clients : req[c].cleared = {}
      /\ \A t \in Tasks : task[t].cur = NoStage /\ task[t].batch = {}
  BY <1>1 DEF Init, NoReq, NoTask
<1> QED BY <1>2, <1>3, StagesAssumption DEF GateInv, ApprovedIsRecorded, ApprovalsExist,
           OutputIsOwn, RetryResets, GateNeedsApproval, GatesHoldBack

\* The relations between artifacts, approvals and outputs are kept.
LEMMA TablesStep ==
  ASSUME Typed, ApprovedIsRecorded, ApprovalsExist, OutputIsOwn,
         ArtifactsGrow, ArtifactsMove, OutMoves
  PROVE  ApprovedIsRecorded' /\ ApprovalsExist' /\ OutputIsOwn'
<1>0. \A s \in Stages : Len(artifact[s]) \in Nat /\ Len(artifact'[s]) >= Len(artifact[s])
  BY DEF Typed, TypeOK, ArtifactsGrow
<1>1. ApprovedIsRecorded'
  BY DEF ApprovedIsRecorded, ArtifactsMove, IsApproved
<1>2. ApprovalsExist'
  BY <1>0 DEF ApprovalsExist, ArtifactsMove, ArtifactsGrow
<1>3. OutputIsOwn'
  BY <1>0, SMTT(60) DEF OutputIsOwn, OutMoves, ArtifactsGrow
<1> QED BY <1>1, <1>2, <1>3

\* A gate stage becomes completed only by the promotion of its approved output.
LEMMA NeedsApprovalStep ==
  ASSUME Typed, ApprovedIsRecorded, OutputIsOwn, GateNeedsApproval,
         ArtifactsMove, StagesMove, OutMoves, NEW r \in Runs, NEW s \in Gates,
         stage'[r][s] = "completed"
  PROVE  \E a \in approvals' : a[1] = s /\ a[2] = out'[r][s]
<1>0. s \in Stages /\ approvals \subseteq approvals'
  BY StagesAssumption DEF ArtifactsMove
<1>1. \/ out'[r][s] = out[r][s]
      \/ out'[r][s] = 0 /\ stage'[r][s] = "pending"
      \/ stage'[r][s] # "completed"
  BY <1>0 DEF OutMoves
<1>2. stage[r][s] = "completed" \/ s \in Promoted(r)
  BY <1>0 DEF StagesMove
<1>3. CASE stage[r][s] = "completed"
  BY <1>0, <1>1, <1>3 DEF GateNeedsApproval
<1>4. CASE s \in Promoted(r)
  BY <1>0, <1>1, <1>4 DEF Promoted, OutputIsOwn, ApprovedIsRecorded, IsApproved
<1> QED BY <1>2, <1>3, <1>4

\* A stage is not ready before the gates it depends on have been approved.
LEMMA ReadyIsApproved ==
  ASSUME Typed, ApprovalsExist, OutputIsOwn, GateNeedsApproval,
         NEW r \in Runs, NEW s \in Ready(stage[r]), NEW d \in DependsOn[s] \cap Gates
  PROVE  WasApproved(r, d)
<1>1. s \in Stages /\ d \in Stages /\ stage[r][d] = "completed"
  BY StagesAssumption DEF Ready
<1>2. PICK a \in approvals : a[1] = d /\ a[2] = out[r][d]
  BY <1>1 DEF GateNeedsApproval
<1>3. out[r][d] \in 1..Len(artifact[d])
  BY <1>2 DEF ApprovalsExist
<1>4. out[r][d] # 0
  BY <1>1, <1>3 DEF Typed, TypeOK
<1> QED BY <1>1, <1>2, <1>4 DEF OutputIsOwn, WasApproved

\* No step starts or takes in hand a stage behind a gate that is not approved.
LEMMA HoldBackStep ==
  ASSUME GateInv, ArtifactsGrow, ArtifactsMove, StagesMove, TasksMove
  PROVE  GatesHoldBack'
<1> USE DEF GateInv
<1>1. SUFFICES ASSUME NEW r \in Runs, NEW s \in Stages, NEW d \in DependsOn[s] \cap Gates,
                      ~ WasApproved(r, d)'
               PROVE  /\ stage'[r][s] \in {"absent", "pending", "skipped"}
                      /\ \A t \in Tasks : task'[t].run = r =>
                           s # task'[t].cur /\ s \notin task'[t].batch
  BY Zenon DEF GatesHoldBack
<1>2. ~ WasApproved(r, d)
  BY <1>1 DEF WasApproved, ArtifactsMove, ArtifactsGrow, ApprovalsExist
<1>3. /\ stage[r][s] \in {"absent", "pending", "skipped"}
      /\ \A t \in Tasks : task[t].run = r => ~ InHand(t, s)
  BY <1>2 DEF GatesHoldBack, InHand
<1>4. s \notin Ready(stage[r])
  BY <1>2, ReadyIsApproved
<1>5. stage'[r][s] \in {"absent", "pending", "skipped"}
  BY <1>3 DEF StagesMove, Promoted, InHand
<1>6. ASSUME NEW t \in Tasks, task'[t].run = r
      PROVE  s # task'[t].cur /\ s \notin task'[t].batch
  BY <1>3, <1>4, <1>6 DEF TasksMove, InHand
<1> QED BY <1>5, <1>6

\* The gate invariant is inductive.
LEMMA GateStep == GateInv /\ [Next]_vars => GateInv'
<1>1. ASSUME GateInv, Next PROVE GateInv'
  <2>1. Typed' /\ ArtifactsGrow /\ ArtifactsMove /\ StagesMove /\ OutMoves /\ TasksMove
    BY <1>1, StepTyped, StepArtifacts, StepStages, StepOut, StepTasks DEF GateInv
  <2>2. ApprovedIsRecorded' /\ ApprovalsExist' /\ OutputIsOwn'
    BY <1>1, <2>1, TablesStep DEF GateInv
  <2>3. RetryResets'
    BY <1>1, StepRetry DEF GateInv
  <2>4. GateNeedsApproval'
    BY <1>1, <2>1, NeedsApprovalStep DEF GateInv, GateNeedsApproval
  <2>5. GatesHoldBack'
    BY <1>1, <2>1, HoldBackStep
  <2> QED BY <2>1, <2>2, <2>3, <2>4, <2>5 DEF GateInv
<1>2. GateInv /\ UNCHANGED vars => GateInv'
  BY DEF GateInv, Typed, TypeOK, TaskInv, TaskOK, At, vars, ApprovedIsRecorded, IsApproved,
         ApprovalsExist, OutputIsOwn, RetryResets, GateNeedsApproval, GatesHoldBack, WasApproved
<1> QED BY <1>1, <1>2

\* A gate stage is completed only by the approval of the version it has put out.
THEOREM GatesAreApproved == Spec => []GateNeedsApproval
<1>1. GateInv => GateNeedsApproval
  BY DEF GateInv
<1> QED BY <1>1, GateInit, GateStep, PTL DEF Spec

\* No stage behind a gate is started, nor taken in hand by a task, before the
\* user has approved an artifact that its run made for the gate.
THEOREM GatesHold == Spec => []GatesHoldBack
<1>1. GateInv => GatesHoldBack
  BY DEF GateInv
<1> QED BY <1>1, GateInit, GateStep, PTL DEF Spec

-----------------------------------------------------------------------------
(***************************************************************************)
(* Until one of its tasks dies, no run is forgotten: while it is active it  *)
(* has a task, and its running stage is being executed, for every graph    *)
(* and any number of runs, tasks and requests.                             *)
(*                                                                         *)
(* That a run has some task is not inductive: a task that is about to end  *)
(* would do.  Serving strengthens it to a task that has yet to look at the *)
(* status of the run, or that has seen it active and so will overwrite it  *)
(* when it ends (a task that saw another status may write nothing, Flush). *)
(***************************************************************************)

Serving(t, r) ==
  /\ task[t].run = r
  /\ \/ task[t].pc \in {"scheduled", "init", "start", "exec", "midrefresh"}
     \/ task[t].pc = "refresh" /\ ~ Exhausted(t)
     \/ task[t].pc \in {"refresh", "load", "midload", "conclude"} /\ task[t].rs \in Active

ActiveRunIsServed ==
  \A r \in Runs \ died : runStatus[r] \in Active => \E t \in Tasks : Serving(t, r)

Executing(t, r, s) == At(t, "exec") /\ task[t].run = r /\ task[t].cur = s

StageIsExecuted ==
  \A r \in Runs \ died : \A s \in Stages :
    stage[r][s] = "running" => \E t \in Tasks : Executing(t, r, s)

ServedInv == Typed /\ ActiveRunIsServed /\ StageIsExecuted

-----------------------------------------------------------------------------
(* The steps of a task *)

\* A task that serves an active run goes on serving it, or ends the run.
LEMMA ServingStep ==
  ASSUME Typed, NEW t \in Tasks, TaskStep(t), NEW r \in Runs, Serving(t, r),
         runStatus[r] \in Active, runStatus'[r] \in Active
  PROVE  Serving(t, r)'
<1>0. /\ task \in [Tasks -> TaskState] /\ task[t] \in TaskState /\ TaskOK(t)
      /\ runStatus \in [Runs -> RunStatus] /\ task[t].run = r
      /\ runStatus[r] \notin {"paused", "cancelled"}
  BY DEF Typed, TypeOK, TaskInv, Serving, Active
<1> DEFINE q == task'[t]
<1>1. CASE Load(t)
  <2>1. q.run = r /\ q.pc = "init"
    BY <1>0, <1>1 DEF Load, TaskState
  <2> QED BY <2>1 DEF Serving
<1>2. CASE WorkerSkips(t)
  BY <1>0, <1>2 DEF WorkerSkips, Active
<1>3. CASE InitializeRun(t)
  <2>1. q.run = r /\ q.pc = "refresh" /\ q.rs = "running"
    BY <1>0, <1>3 DEF InitializeRun, TaskState
  <2> QED BY <2>1 DEF Serving, Active
<1>4. CASE Refresh(t)
  <2>1. task' = [task EXCEPT ![t].pc = "load", ![t].rs = runStatus[r], ![t].iter = @ + 1]
    BY <1>0, <1>4 DEF Refresh
  <2>2. q.run = r /\ q.pc = "load" /\ q.rs = runStatus[r]
    BY <1>0, <2>1 DEF TaskState
  <2> QED BY <2>2 DEF Serving
<1>5. CASE Exhaust(t)
  <2>1. task[t].rs \in Active
    BY <1>5 DEF Exhaust, At, Serving
  <2>2. q.run = r /\ q.pc = "conclude" /\ q.rs = task[t].rs
    BY <1>0, <1>5 DEF Exhaust, TaskState
  <2> QED BY <2>1, <2>2 DEF Serving
<1>6. CASE LoadStages(t) \/ MidLoad(t)
  <2>1. task[t].rs \in Active
    BY <1>6 DEF LoadStages, MidLoad, At, Serving
  <2>2. q.run = r /\ q.rs = task[t].rs /\ q.pc \in {"conclude", "start", "refresh"}
    <3>1. CASE LoadStages(t)
      <4>1. CASE task' = [task EXCEPT ![t].pc = "conclude", ![t].verdict = "failed"]
        BY <1>0, <4>1 DEF TaskState
      <4>2. ASSUME NEW s, task' = [task EXCEPT ![t].pc = "start", ![t].cur = s,
                              ![t].seen = stage[task[t].run][s],
                              ![t].batch = Ready(stage[task[t].run]) \ {s}]
            PROVE  q.run = r /\ q.rs = task[t].rs /\ q.pc = "start"
        BY <1>0, <4>2 DEF TaskState
      <4>3. CASE task' = [task EXCEPT ![t].pc = "conclude",
                                      ![t].verdict = Verdict(stage[task[t].run])]
        BY <1>0, <4>3 DEF TaskState
      <4> HIDE DEF q
      <4> QED BY <3>1, <4>1, <4>2, <4>3 DEF LoadStages
    <3>2. CASE MidLoad(t)
      <4>1. CASE task' = [task EXCEPT ![t].pc = "conclude", ![t].verdict = "failed",
                                      ![t].batch = {}]
        BY <1>0, <4>1 DEF TaskState
      <4>2. ASSUME NEW s, task' = [task EXCEPT ![t].pc = "start", ![t].cur = s,
                              ![t].seen = stage[task[t].run][s],
                              ![t].batch = task[t].batch \ {s}]
            PROVE  q.run = r /\ q.rs = task[t].rs /\ q.pc = "start"
        BY <1>0, <4>2 DEF TaskState
      <4>3. CASE task' = [task EXCEPT ![t].pc = "refresh"]
        BY <1>0, <4>3 DEF TaskState
      <4> HIDE DEF q
      <4> QED BY <3>2, <4>1, <4>2, <4>3 DEF MidLoad
    <3> QED BY <1>6, <3>1, <3>2
  <2> QED BY <2>1, <2>2 DEF Serving
<1>7. CASE StartStage(t)
  <2>1. q.run = r /\ q.pc = "exec"
    BY <1>0, <1>7 DEF StartStage, TaskState
  <2> QED BY <2>1 DEF Serving
<1>8. CASE Progress(t)
  <2>1. q.run = r /\ q.pc = "exec"
    BY <1>0, <1>8 DEF Progress, TaskState, At
  <2> QED BY <2>1 DEF Serving
<1>9. CASE FinishStage(t) \/ FailStage(t)
  <2>1. task' = [task EXCEPT ![t].pc = "midrefresh", ![t].draft = 0, ![t].cur = NoStage]
    BY <1>9 DEF FinishStage, FailStage
  <2>2. q.run = r /\ q.pc = "midrefresh"
    BY <1>0, <2>1 DEF TaskState
  <2> QED BY <2>2 DEF Serving
<1>10. CASE MidRefresh(t)
  <2>1. task' = [task EXCEPT ![t].pc = "midload", ![t].rs = runStatus[r]]
    BY <1>0, <1>10 DEF MidRefresh
  <2>2. q.run = r /\ q.pc = "midload" /\ q.rs = runStatus[r]
    BY <1>0, <2>1 DEF TaskState
  <2> QED BY <2>2 DEF Serving
<1>11. CASE Conclude(t)
  <2>1. task[t].rs \in Active /\ task[t].verdict \in {"completed", "needs_review", "failed"}
    BY <1>0, <1>11 DEF Conclude, At, Serving, TaskOK
  <2>2. runStatus'[r] = task[t].verdict
    BY <1>0, <1>11, <2>1 DEF Conclude, Flush, Active
  <2> QED BY <2>1, <2>2 DEF Active
<1> QED BY <1>1, <1>2, <1>3, <1>4, <1>5, <1>6, <1>7, <1>8, <1>9, <1>10, <1>11 DEF TaskStep

\* A task only makes its own run active, and serves it then.
LEMMA TaskActivates ==
  ASSUME Typed, NEW t \in Tasks, TaskStep(t), NEW r \in Runs,
         runStatus'[r] \in Active, runStatus[r] \notin Active
  PROVE  Serving(t, r)'
<1>0. /\ task \in [Tasks -> TaskState] /\ task[t] \in TaskState /\ TaskOK(t)
      /\ runStatus \in [Runs -> RunStatus]
  BY DEF Typed, TypeOK, TaskInv
<1>1. CASE InitializeRun(t)
  <2>1. task[t].run = r
    BY <1>0, <1>1 DEF InitializeRun
  <2>2. task'[t].run = r /\ task'[t].pc = "refresh" /\ task'[t].rs = "running"
    BY <1>0, <1>1, <2>1 DEF InitializeRun, TaskState
  <2> QED BY <2>2 DEF Serving, Active
<1>2. CASE Conclude(t)
  BY <1>0, <1>2 DEF Conclude, Flush, TaskOK, Active
<1>3. CASE UNCHANGED runStatus
  BY <1>3
<1> QED BY <1>1, <1>2, <1>3 DEF TaskStep, Load, WorkerSkips, Refresh, Exhaust, LoadStages,
        StartStage, Progress, FinishStage, FailStage, MidRefresh, MidLoad, tables

\* A step of a task leaves what the other tasks hold alone.
LEMMA OthersStay ==
  ASSUME Typed, NEW t \in Tasks, TaskStep(t), NEW u \in Tasks \ {t}
  PROVE  task'[u] = task[u]
BY DEF Typed, TypeOK, TaskStep, Load, WorkerSkips, InitializeRun, Refresh, Exhaust, LoadStages,
   StartStage, Progress, FinishStage, FailStage, MidRefresh, MidLoad, Conclude, Exit

\* A step of a task adds nothing to the history.
LEMMA TaskKeepsHistory ==
  ASSUME NEW t \in Tasks, TaskStep(t)
  PROVE  UNCHANGED <<crossed, died>>
BY DEF TaskStep, Load, WorkerSkips, InitializeRun, Refresh, Exhaust, LoadStages, StartStage,
   Progress, FinishStage, FailStage, MidRefresh, MidLoad, Conclude, history

\* A step of a task leaves every active run served.
LEMMA TaskKeepsServed ==
  ASSUME Typed, ActiveRunIsServed, NEW t \in Tasks, TaskStep(t)
  PROVE  ActiveRunIsServed'
<1>1. SUFFICES ASSUME NEW r \in Runs \ died, runStatus'[r] \in Active
               PROVE  \E u \in Tasks : Serving(u, r)'
  BY TaskKeepsHistory DEF ActiveRunIsServed
<1>2. CASE runStatus[r] \notin Active
  BY <1>1, <1>2, TaskActivates
<1>3. CASE runStatus[r] \in Active
  <2>1. PICK u \in Tasks : Serving(u, r)
    BY <1>3 DEF ActiveRunIsServed
  <2>2. CASE u = t
    BY <1>1, <1>3, <2>1, <2>2, ServingStep
  <2>3. CASE u # t
    BY <2>1, <2>3, OthersStay DEF Serving, Exhausted
  <2> QED BY <2>2, <2>3
<1> QED BY <1>2, <1>3


\* A step of a task marks a stage running only to execute it, and leaves it when it
\* finishes or fails.
LEMMA TaskKeepsExecuted ==
  ASSUME Typed, StageIsExecuted, NEW t \in Tasks, TaskStep(t)
  PROVE  StageIsExecuted'
<1>0. /\ task \in [Tasks -> TaskState] /\ task[t] \in TaskState /\ TaskOK(t)
      /\ stage \in [Runs -> [Stages -> StageStatus]] /\ task[t].run \in Runs
  BY DEF Typed, TypeOK, TaskInv, TaskState
<1>1. SUFFICES ASSUME NEW r \in Runs \ died, NEW s \in Stages, stage'[r][s] = "running"
               PROVE  \E u \in Tasks : Executing(u, r, s)'
  BY TaskKeepsHistory DEF StageIsExecuted
<1>2. stage[r][s] = "running" \/ (StartStage(t) /\ r = task[t].run /\ s = task[t].cur)
  <2>1. CASE UNCHANGED stage
    BY <1>1, <2>1
  <2>2. CASE Load(t)
    BY <1>0, <1>1, <2>2 DEF Load
  <2>3. CASE InitializeRun(t)
    BY <1>0, <1>1, <2>3 DEF InitializeRun
  <2>4. CASE StartStage(t)
    BY <1>0, <1>1, <2>4 DEF StartStage
  <2>5. CASE FinishStage(t)
    BY <1>0, <1>1, <2>5 DEF FinishStage
  <2>6. CASE FailStage(t)
    BY <1>0, <1>1, <2>6 DEF FailStage
  <2> QED BY <2>1, <2>2, <2>3, <2>4, <2>5, <2>6 DEF TaskStep, WorkerSkips, Refresh, Exhaust,
             LoadStages, Progress, MidRefresh, MidLoad, Conclude, tables
<1>3. CASE StartStage(t) /\ r = task[t].run /\ s = task[t].cur
  <2>1. task'[t].pc = "exec" /\ task'[t].run = r /\ task'[t].cur = s
    BY <1>0, <1>3 DEF StartStage, TaskState
  <2> QED BY <2>1 DEF Executing, At
<1>4. CASE stage[r][s] = "running" /\ ~ StartStage(t)
  <2>1. PICK u \in Tasks : Executing(u, r, s)
    BY <1>4 DEF StageIsExecuted
  <2>2. CASE u # t
    BY <2>1, <2>2, OthersStay DEF Executing, At
  <2>3. CASE u = t
    <3>1. Progress(t) \/ FinishStage(t) \/ FailStage(t)
      BY <2>1, <2>3 DEF Executing, At, TaskStep, Load, WorkerSkips, InitializeRun, Refresh,
         Exhaust, LoadStages, StartStage, MidRefresh, MidLoad, Conclude
    <3>2. ~ (FinishStage(t) \/ FailStage(t))
      BY <1>0, <1>1, <2>1, <2>3 DEF FinishStage, FailStage, Executing
    <3>3. task'[t].pc = "exec" /\ task'[t].run = r /\ task'[t].cur = s
      BY <1>0, <2>1, <2>3, <3>1, <3>2 DEF Progress, Executing, At, TaskState
    <3> QED BY <3>3 DEF Executing, At
  <2> QED BY <2>2, <2>3
<1>5. CASE StartStage(t) /\ stage[r][s] = "running" /\ ~ (r = task[t].run /\ s = task[t].cur)
  <2>1. PICK u \in Tasks : Executing(u, r, s)
    BY <1>5 DEF StageIsExecuted
  <2>2. u # t
    BY <1>5, <2>1 DEF Executing, StartStage, At
  <2> QED BY <2>1, <2>2, OthersStay DEF Executing, At
<1> QED BY <1>2, <1>3, <1>4, <1>5

-----------------------------------------------------------------------------
(* The requests *)

Request ==
  \/ \E c \in Clients : ControlStep(c) \/ Commit(c)
  \/ SubmitOnboarding \/ CreateRun
  \/ \E r \in Runs : StartWorker(r)
  \/ \E s \in Stages : \E v \in 1..Len(artifact[s]) : RejectArtifact(s, v) \/ EditArtifact(s, v)

\* A new task is put where none was, and serves its run.
LEMMA ScheduleServes ==
  ASSUME Typed, NEW k, NEW r, Schedule(k, r)
  PROVE  /\ \A u \in Tasks : ~ At(u, "idle") => task'[u] = task[u]
         /\ \E u \in Tasks : Serving(u, r)'
<1>1. PICK t \in Tasks : /\ At(t, "idle")
                         /\ task' = [task EXCEPT ![t] =
                              [NoTask EXCEPT !.pc = "scheduled", !.kind = k, !.run = r]]
  BY DEF Schedule
<1>2. /\ task'[t] = [NoTask EXCEPT !.pc = "scheduled", !.kind = k, !.run = r]
      /\ \A u \in Tasks \ {t} : task'[u] = task[u]
  BY <1>1 DEF Typed, TypeOK
<1>3. task'[t].pc = "scheduled" /\ task'[t].run = r
  BY <1>2 DEF NoTask
<1>4. Serving(t, r)'
  BY <1>3 DEF Serving
<1> QED BY <1>1, <1>2, <1>4

\* A request makes a run active only together with a task for it.
LEMMA RequestSchedules ==
  ASSUME Typed, Request
  PROVE  /\ \A u \in Tasks : ~ At(u, "idle") => task'[u] = task[u]
         /\ \A r \in Runs : runStatus'[r] \in Active /\ runStatus[r] \notin Active =>
              \E u \in Tasks : Serving(u, r)'
         /\ \A r \in Runs : \A s \in Stages : stage'[r][s] = "running" => stage[r][s] = "running"
<1> DEFINE Goal == /\ \A u \in Tasks : ~ At(u, "idle") => task'[u] = task[u]
                   /\ \A r \in Runs : runStatus'[r] \in Active /\ runStatus[r] \notin Active =>
                        \E u \in Tasks : Serving(u, r)'
                   /\ \A r \in Runs : \A s \in Stages :
                        stage'[r][s] = "running" => stage[r][s] = "running"
<1>0. /\ runStatus \in [Runs -> RunStatus] /\ stage \in [Runs -> [Stages -> StageStatus]]
      /\ \A c \in Clients : req[c].run \in Runs
  BY DEF Typed, TypeOK, ReqState
<1>1. ASSUME UNCHANGED <<runStatus, stage, task>> PROVE Goal
  BY <1>1
<1>2. ASSUME NEW c \in Clients, Commit(c) PROVE Goal
  <2>1. CASE CommitPause(c)
    BY <1>0, <2>1 DEF CommitPause, SetStatus, Active
  <2>2. CASE CommitCancel(c)
    BY <1>0, <2>2 DEF CommitCancel, SetStatus, SetStages, Active
  <2>3. CASE CommitResume(c)
    <3>1. Schedule("resume", req[c].run) /\ UNCHANGED stage
      BY <2>3 DEF CommitResume
    <3>2. \A r \in Runs : r # req[c].run => runStatus'[r] = runStatus[r]
      BY <1>0, <2>3 DEF CommitResume, SetStatus
    <3> QED BY <3>1, <3>2, ScheduleServes
  <2>4. CASE CommitRetry(c)
    <3>1. Schedule("resume", req[c].run)
      BY <2>4 DEF CommitRetry
    <3>2. \A r \in Runs : r # req[c].run => runStatus'[r] = runStatus[r]
      BY <1>0, <2>4 DEF CommitRetry, SetStatus
    <3>3. \A r \in Runs : \A s \in Stages : stage'[r][s] = "running" => stage[r][s] = "running"
      BY <1>0, <2>4 DEF CommitRetry, SetStages
    <3> QED BY <3>1, <3>2, <3>3, ScheduleServes
  <2>5. CASE WakePausedRun(c)
    <3>1. UNCHANGED <<runStatus, stage>>
      BY <2>5 DEF WakePausedRun, tables
    <3>2. UNCHANGED task \/ \E r \in Runs : Schedule("resume", r)
      BY <2>5 DEF WakePausedRun
    <3> QED BY <3>1, <3>2, ScheduleServes
  <2> QED BY <1>2, <2>1, <2>2, <2>3, <2>4, <2>5 DEF Commit
<1>3. ASSUME CreateRun PROVE Goal
  <2>1. PICK r \in Runs : Schedule("run", r) /\ runStatus' = [runStatus EXCEPT ![r] = "queued"]
    BY <1>3 DEF CreateRun
  <2>2. UNCHANGED stage /\ \A q \in Runs : q # r => runStatus'[q] = runStatus[q]
    BY <1>0, <1>3, <2>1 DEF CreateRun
  <2> QED BY <2>1, <2>2, ScheduleServes
<1>4. ASSUME NEW r \in Runs, StartWorker(r) PROVE Goal
  <2>1. UNCHANGED <<runStatus, stage>> /\ Schedule("worker", r)
    BY <1>4 DEF StartWorker, tables
  <2> QED BY <2>1, ScheduleServes
<1>5. ASSUME NEW c \in Clients, ControlStep(c) PROVE Goal
  BY <1>1, <1>5 DEF ControlStep, RequestPause, RequestResume, RequestCancel, RequestRetry, Accept,
     ApproveArtifact, tables
<1>6. ASSUME SubmitOnboarding PROVE Goal
  BY <1>1, <1>6 DEF SubmitOnboarding
<1>7. ASSUME \E s \in Stages : \E v \in 1..Len(artifact[s]) :
               RejectArtifact(s, v) \/ EditArtifact(s, v)
      PROVE  Goal
  BY <1>1, <1>7 DEF RejectArtifact, EditArtifact
<1> HIDE DEF Goal
<1>8. Goal
  BY <1>2, <1>3, <1>4, <1>5, <1>6, <1>7 DEF Request
<1> QED BY <1>8 DEF Goal

\* A request leaves every active run served and every running stage executed.
LEMMA RequestKeepsServed ==
  ASSUME Typed, ActiveRunIsServed, StageIsExecuted, Request
  PROVE  ActiveRunIsServed' /\ StageIsExecuted'
<1>0. UNCHANGED died
  BY DEF Request, ControlStep, RequestPause, RequestResume, RequestCancel, RequestRetry, Accept,
     ApproveArtifact, Commit, CommitPause, CommitResume, CommitCancel, CommitRetry, WakePausedRun,
     SubmitOnboarding, CreateRun, StartWorker, RejectArtifact, EditArtifact, history
<1>1. ASSUME NEW r \in Runs \ died, runStatus'[r] \in Active
      PROVE  \E u \in Tasks : Serving(u, r)'
  <2>1. CASE runStatus[r] \notin Active
    BY <1>1, <2>1, RequestSchedules
  <2>2. CASE runStatus[r] \in Active
    <3>1. PICK u \in Tasks : Serving(u, r)
      BY <2>2 DEF ActiveRunIsServed
    <3>2. ~ At(u, "idle")
      BY <3>1 DEF Serving, At
    <3>3. task'[u] = task[u]
      BY <3>2, RequestSchedules
    <3> QED BY <3>1, <3>3 DEF Serving, Exhausted
  <2> QED BY <2>1, <2>2
<1>2. ASSUME NEW r \in Runs \ died, NEW s \in Stages, stage'[r][s] = "running"
      PROVE  \E u \in Tasks : Executing(u, r, s)'
  <2>1. stage[r][s] = "running"
    BY <1>2, RequestSchedules
  <2>2. PICK u \in Tasks : Executing(u, r, s)
    BY <2>1 DEF StageIsExecuted
  <2>3. task'[u] = task[u]
    BY <2>2, RequestSchedules DEF Executing, At
  <2> QED BY <2>2, <2>3 DEF Executing, At
<1> QED BY <1>0, <1>1, <1>2 DEF ActiveRunIsServed, StageIsExecuted

-----------------------------------------------------------------------------
(* The invariant and the theorems *)

\* Before the first request nothing is active and nothing is running.
LEMMA ServedInit == Init => ServedInv
<1>1. SUFFICES ASSUME Init PROVE ServedInv
  OBVIOUS
<1>2. Typed
  BY <1>1, InitType DEF Typed
<1>4. /\ \A r \in Runs : runStatus[r] = "none"
      /\ \A r \in Runs : \A s \in Stages : stage[r][s] = "absent"
  BY <1>1 DEF Init
<1> QED BY <1>2, <1>4 DEF ServedInv, ActiveRunIsServed, StageIsExecuted, Active

\* The death of a task concerns its run alone.
LEMMA DeathKeepsServed ==
  ASSUME Typed, ActiveRunIsServed, StageIsExecuted, NEW t \in Tasks, TaskDies(t)
  PROVE  ActiveRunIsServed' /\ StageIsExecuted'
<1>1. /\ UNCHANGED <<runStatus, stage>> /\ died' = died \cup {task[t].run}
      /\ \A u \in Tasks \ {t} : task'[u] = task[u]
  BY DEF TaskDies, tables, Exit, Typed, TypeOK
<1>2. ASSUME NEW r \in Runs \ died', runStatus'[r] \in Active
      PROVE  \E u \in Tasks : Serving(u, r)'
  <2>1. PICK u \in Tasks : Serving(u, r)
    BY <1>1, <1>2 DEF ActiveRunIsServed
  <2>2. task'[u] = task[u]
    BY <1>1, <1>2, <2>1 DEF Serving
  <2> QED BY <2>1, <2>2 DEF Serving, Exhausted
<1>3. ASSUME NEW r \in Runs \ died', NEW s \in Stages, stage'[r][s] = "running"
      PROVE  \E u \in Tasks : Executing(u, r, s)'
  <2>1. PICK u \in Tasks : Executing(u, r, s)
    BY <1>1, <1>3 DEF StageIsExecuted
  <2>2. task'[u] = task[u]
    BY <1>1, <1>3, <2>1 DEF Executing
  <2> QED BY <2>1, <2>2 DEF Executing, At
<1> QED BY <1>2, <1>3 DEF ActiveRunIsServed, StageIsExecuted

\* The invariant of the tasks is inductive.
LEMMA ServedStep == ServedInv /\ [Next]_vars => ServedInv'
<1>1. ASSUME ServedInv, Next PROVE ServedInv'
  <2>1. Typed' /\ Typed /\ ActiveRunIsServed /\ StageIsExecuted
    BY <1>1, StepTyped DEF ServedInv
  <2>2. (\E t \in Tasks : TaskStep(t) \/ TaskDies(t)) \/ Request
    BY <1>1 DEF Next, Request
  <2>3. ActiveRunIsServed' /\ StageIsExecuted'
    BY <2>1, <2>2, TaskKeepsServed, TaskKeepsExecuted, DeathKeepsServed, RequestKeepsServed
  <2> QED BY <2>1, <2>3 DEF ServedInv
<1>2. ServedInv /\ UNCHANGED vars => ServedInv'
  BY DEF ServedInv, Typed, TypeOK, TaskInv, TaskOK, At, vars,
         ActiveRunIsServed, Serving, Exhausted, StageIsExecuted, Executing
<1> QED BY <1>1, <1>2

\* A run that is queued or running has a task, as long as no task of it dies.
THEOREM ActiveRunsAreServed == Spec => []ActiveRunHasTask
<1>1. ServedInv => ActiveRunHasTask
  BY DEF ServedInv, ActiveRunIsServed, ActiveRunHasTask, Serving, Serves, At
<1> QED BY <1>1, ServedInit, ServedStep, PTL DEF Spec

\* A stage that is marked running is being executed, as long as no task of its run dies.
THEOREM RunningStagesAreExecuted == Spec => []RunningStageHasTask
<1>1. ServedInv => RunningStageHasTask
  BY DEF ServedInv, StageIsExecuted, RunningStageHasTask, Executing
<1> QED BY <1>1, ServedInit, ServedStep, PTL DEF Spec

-----------------------------------------------------------------------------
(***************************************************************************)
(* The rows of a run tell its progress truly until work on it meets other  *)
(* work on it: a second task, a retry of rows that have moved on, or a     *)
(* cancel, none of which the code prevents.  Any number of tasks, runs and *)
(* clients may be at work, pauses, resumes, approvals, edits, fresh        *)
(* retries, workers and deaths of tasks included; the invariant is about   *)
(* each run on its own, and LoopOK says what it says of one.               *)
(***************************************************************************)

\* At most one task serves the run.
OneServes(r) == \A t, u \in Tasks : Serves(t, r) /\ Serves(u, r) => t = u

\* The statuses of a run that a task may be about to take up, and of one that a
\* task in its loop works on.
Open == {"queued", "running", "paused", "needs_review"}
Going == {"running", "paused"}
InLoop == {"refresh", "load", "start", "exec", "midrefresh", "midload", "conclude"}

\* What a session p knows of the status of its run: a loop that has seen it
\* running overwrites a pause at most, and a task does not come to an ended run.
StatusInHand(p, status) ==
  /\ p.pc = "scheduled" /\ p.kind # "worker" => status \in Open
  /\ p.pc = "init" => status \in Open /\ (p.rs = "running" => status \in Going)
  /\ p.pc \in InLoop => status \in Going /\ p.rs = "running"

Done(view) == {s \in Stages : view[s] \in {"completed", "needs_review"}}

Behind(view, s) == \A d \in DependsOn[s] : view[d] = "completed"

InOrder(view) ==
  \A s \in Stages :
    view[s] \in {"running", "needs_review", "completed", "failed"} => Behind(view, s)

\* What a session p knows of the stages: the batch it has read is still pending,
\* and what it depends on still done.
StagesInHand(p, view) ==
  /\ p.pc \notin {"start", "exec", "midrefresh", "midload"} => p.batch = {}
  /\ \A s \in p.batch : view[s] = "pending" /\ Behind(view, s)
  /\ p.pc = "start" => /\ view[p.cur] = "pending" /\ Behind(view, p.cur)
                       /\ p.seen = "pending" /\ p.cur \notin p.batch
  /\ p.pc = "exec" => view[p.cur] = "running" /\ Behind(view, p.cur)

\* Every iteration that comes to an end has finished a stage.
LimitIsFar(p, view) ==
  /\ p.pc \in {"scheduled", "init"} => p.iter = 0
  /\ p.pc = "refresh" => p.iter <= Cardinality(Done(view))
  /\ p.pc \in {"load", "start", "exec"} => p.iter <= Cardinality(Done(view)) + 1
  /\ p.pc \in {"midrefresh", "midload"} =>
       HasFailed(view) \/ p.iter <= Cardinality(Done(view))

InHandOK(p, status, view) ==
  StatusInHand(p, status) /\ StagesInHand(p, view) /\ LimitIsFar(p, view)

\* No cancel has touched the run, its stages follow the graph, and what the one session
\* that serves it has read is still so.
LoopOK(r) ==
  /\ runStatus[r] # "cancelled" /\ \A s \in Stages : stage[r][s] # "skipped"
  /\ InOrder(stage[r])
  /\ OneServes(r)
  /\ \A t \in Tasks : Serves(t, r) => InHandOK(task[t], runStatus[r], stage[r])

LoopInv == \A r \in Runs \ crossed : LoopOK(r)

-----------------------------------------------------------------------------
(* Moves of the stages of a run *)

\* Seeding, promotion and retry: nothing is finished, started or undone by them.
Quiet(view, w) ==
  \A s \in Stages : \/ w[s] = view[s]
                    \/ view[s] = "absent" /\ w[s] = "pending"
                    \/ view[s] = "needs_review" /\ w[s] = "completed"
                    \/ view[s] = "failed" /\ w[s] = "pending"

\* The stages that are done are finitely many, and no more than there are stages.
LEMMA DoneIsFinite ==
  ASSUME NEW view
  PROVE  /\ IsFiniteSet(Done(view))
         /\ Cardinality(Done(view)) \in Nat /\ Cardinality(Stages) \in Nat
         /\ Cardinality(Done(view)) <= Cardinality(Stages)
<1>1. Done(view) \subseteq Stages
  BY DEF Done
<1>2. IsFiniteSet(Stages)
  BY StagesAssumption
<1>3. IsFiniteSet(Done(view)) /\ Cardinality(Done(view)) <= Cardinality(Stages)
  BY <1>1, <1>2, FS_Subset
<1> QED BY <1>2, <1>3, FS_CardinalityType

\* A quiet move leaves the stages that are done and the order of the graph alone.
LEMMA QuietKeeps ==
  ASSUME NEW view, NEW w, InOrder(view), Quiet(view, w)
  PROVE  /\ InOrder(w) /\ Done(w) = Done(view)
         /\ \A s \in Stages : Behind(view, s) => Behind(w, s)
<1>1. \A s \in Stages : \A d \in DependsOn[s] : d \in Stages
  BY StagesAssumption
<1>2. \A s \in Stages : Behind(view, s) => Behind(w, s)
  BY <1>1 DEF Behind, Quiet
<1>3. InOrder(w)
  BY <1>2 DEF InOrder, Quiet
<1>4. Done(w) = Done(view)
  BY DEF Done, Quiet
<1> QED BY <1>2, <1>3, <1>4

\* The row of stage s changes, and no other row of the run.
OnlyMoves(view, w, s) == \A d \in Stages : d # s => w[d] = view[d]

\* A stage that is not completed moves on: the order of the graph is kept, as
\* nothing behind it was started.
LEMMA MoveKeeps ==
  ASSUME NEW view, NEW w, NEW s \in Stages, OnlyMoves(view, w, s),
         InOrder(view), Behind(view, s), view[s] # "completed"
  PROVE  /\ InOrder(w)
         /\ \A d \in Stages : Behind(view, d) => Behind(w, d)
<1>1. \A d \in Stages : \A e \in DependsOn[d] : e \in Stages
  BY StagesAssumption
<1>2. \A d \in Stages : Behind(view, d) => Behind(w, d)
  BY <1>1 DEF Behind, OnlyMoves
<1>3. InOrder(w)
  BY <1>2 DEF InOrder, OnlyMoves
<1> QED BY <1>2, <1>3

\* A stage that is finished is one more.
LEMMA FinishCounts ==
  ASSUME NEW view, NEW w, NEW s \in Stages, OnlyMoves(view, w, s),
         view[s] = "running", w[s] \in {"completed", "needs_review"}
  PROVE  Cardinality(Done(w)) = Cardinality(Done(view)) + 1
<1>1. Done(w) = Done(view) \cup {s}
  BY DEF Done, OnlyMoves
<1>2. s \notin Done(view)
  BY DEF Done
<1> QED BY <1>1, <1>2, DoneIsFinite, FS_AddElement

\* Until then the number stays.
LEMMA UndoneCounts ==
  ASSUME NEW view, NEW w, NEW s \in Stages, OnlyMoves(view, w, s),
         view[s] \in {"pending", "running"}, w[s] \in {"running", "failed"}
  PROVE  Done(w) = Done(view)
BY DEF Done, OnlyMoves

-----------------------------------------------------------------------------
(* The steps of the task *)

\* What a step of task t does to its run and its session, as far as the loop goes.
LoopMoves(t) ==
  LET r == task[t].run
  IN  /\ \/ task'[t] = NoTask
         \/ task'[t].run = r /\ InHandOK(task'[t], runStatus'[r], stage'[r])
      /\ InOrder(stage'[r]) /\ Done(stage[r]) \subseteq Done(stage'[r])
      /\ runStatus'[r] # "cancelled"
      /\ \A s \in Stages : stage'[r][s] # "skipped"

\* A task that takes a step serves its run.
LEMMA StepServes ==
  ASSUME NEW t \in Tasks, TaskStep(t)
  PROVE  Serves(t, task[t].run)
BY DEF Serves, At, TaskStep, Load, WorkerSkips, InitializeRun, Refresh, Exhaust, LoadStages,
   StartStage, Progress, FinishStage, FailStage, MidRefresh, MidLoad, Conclude

\* Taking up a run: the promotion and the seeding are quiet, and the status is
\* one of a run that has not ended.
LEMMA StartKeepsLoop ==
  ASSUME Typed, NEW t \in Tasks, LoopOK(task[t].run), Load(t) \/ InitializeRun(t) \/ WorkerSkips(t)
  PROVE  LoopMoves(t)
<1> DEFINE p == task[t]
           q == task'[t]
           r == task[t].run
<1>0. /\ task \in [Tasks -> TaskState] /\ p \in TaskState /\ r \in Runs
      /\ runStatus \in [Runs -> RunStatus] /\ stage \in [Runs -> [Stages -> StageStatus]]
      /\ InHandOK(p, runStatus[r], stage[r]) /\ InOrder(stage[r])
      /\ runStatus[r] # "cancelled" /\ \A s \in Stages : stage[r][s] # "skipped"
  BY StepServes DEF Typed, TypeOK, TaskState, LoopOK, TaskStep
<1>1. CASE Load(t)
  <2>1. /\ q.pc = "init" /\ q.run = r /\ q.rs = runStatus[r] /\ q.batch = p.batch
        /\ q.iter = p.iter /\ UNCHANGED runStatus
    BY <1>0, <1>1 DEF Load, TaskState
  <2>2. runStatus[r] \in Open
    BY <1>0, <1>1 DEF Load, At, InHandOK, StatusInHand, Open, TaskState
  <2>3. Quiet(stage[r], stage'[r]) /\ \A s \in Stages : stage'[r][s] # "skipped"
    BY <1>0, <1>1 DEF Load, Quiet, Promoted
  <2>4. InOrder(stage'[r]) /\ Done(stage'[r]) = Done(stage[r])
    BY <1>0, <2>3, QuietKeeps
  <2>5. StatusInHand(q, runStatus'[r])
    BY <2>1, <2>2 DEF StatusInHand, InLoop, Going
  <2>6. p.batch = {} /\ p.iter = 0
    BY <1>0, <1>1 DEF Load, At, InHandOK, StagesInHand, LimitIsFar
  <2>7. StagesInHand(q, stage'[r]) /\ LimitIsFar(q, stage'[r])
    BY <2>1, <2>6 DEF StagesInHand, LimitIsFar
  <2> QED BY <1>0, <2>1, <2>2, <2>3, <2>4, <2>5, <2>7 DEF LoopMoves, InHandOK
<1>2. CASE InitializeRun(t)
  <2>1. /\ q.pc = "refresh" /\ q.run = r /\ q.rs = "running" /\ q.batch = p.batch
        /\ q.iter = p.iter
    BY <1>0, <1>2 DEF InitializeRun, TaskState
  <2>2. runStatus[r] \in Open /\ runStatus'[r] \in Going
    BY <1>0, <1>2 DEF InitializeRun, At, InHandOK, StatusInHand, Flush, Going
  <2>3. Quiet(stage[r], stage'[r]) /\ \A s \in Stages : stage'[r][s] # "skipped"
    BY <1>0, <1>2 DEF InitializeRun, Quiet
  <2>4. InOrder(stage'[r]) /\ Done(stage'[r]) = Done(stage[r])
    BY <1>0, <2>3, QuietKeeps
  <2>5. StatusInHand(q, runStatus'[r])
    BY <2>1, <2>2 DEF StatusInHand
  <2>6. p.batch = {} /\ p.iter = 0
    BY <1>0, <1>2 DEF InitializeRun, At, InHandOK, StagesInHand, LimitIsFar
  <2>7. StagesInHand(q, stage'[r])
    BY <2>1, <2>6 DEF StagesInHand
  <2>8. LimitIsFar(q, stage'[r])
    BY <2>1, <2>6, DoneIsFinite DEF LimitIsFar
  <2> QED BY <1>0, <2>1, <2>2, <2>3, <2>4, <2>5, <2>7, <2>8 DEF LoopMoves, InHandOK, Going
<1>3. CASE WorkerSkips(t)
  BY <1>0, <1>3 DEF WorkerSkips, Exit, tables, LoopMoves
<1> QED BY <1>1, <1>2, <1>3

\* The reads of the loop: of the status, and of the stages.
LEMMA ReadsKeepLoop ==
  ASSUME Typed, NEW t \in Tasks, LoopOK(task[t].run),
         Refresh(t) \/ Exhaust(t) \/ LoadStages(t) \/ MidRefresh(t) \/ MidLoad(t)
  PROVE  LoopMoves(t)
<1> DEFINE p == task[t]
           q == task'[t]
           r == task[t].run
           view == stage[r]
<1>0. /\ task \in [Tasks -> TaskState] /\ p \in TaskState /\ r \in Runs
      /\ runStatus \in [Runs -> RunStatus] /\ view \in [Stages -> StageStatus]
      /\ InHandOK(p, runStatus[r], view) /\ InOrder(view)
      /\ runStatus[r] # "cancelled" /\ \A s \in Stages : view[s] # "skipped"
  BY StepServes DEF Typed, TypeOK, TaskState, LoopOK, TaskStep
<1>1. UNCHANGED <<stage, runStatus>>
  BY DEF Refresh, Exhaust, LoadStages, MidRefresh, MidLoad, tables
<1>2. p.pc \in InLoop /\ p.rs = "running" /\ runStatus[r] \in Going
  BY <1>0 DEF Refresh, Exhaust, LoadStages, MidRefresh, MidLoad, At, InHandOK, StatusInHand, InLoop
<1>3. SUFFICES \/ q = NoTask
               \/ q.run = r /\ StatusInHand(q, runStatus[r]) /\ StagesInHand(q, view)
                  /\ LimitIsFar(q, view)
  BY <1>0, <1>1 DEF LoopMoves, InHandOK
<1>n. p.iter \in Nat /\ Cardinality(Done(view)) \in Nat
  BY <1>0, DoneIsFinite DEF TaskState
<1>4. CASE Refresh(t)
  <2>1. CASE runStatus[r] \in {"paused", "cancelled"}
    BY <1>0, <1>4, <2>1 DEF Refresh, Exit
  <2>2. CASE runStatus[r] \notin {"paused", "cancelled"}
    <3>1. /\ q.pc = "load" /\ q.run = r /\ q.rs = runStatus[r] /\ q.batch = p.batch
          /\ q.iter = p.iter + 1
      BY <1>0, <1>4, <2>2 DEF Refresh, TaskState
    <3>2. StatusInHand(q, runStatus[r])
      BY <1>2, <2>2, <3>1 DEF StatusInHand, Going
    <3>3. p.batch = {} /\ p.iter <= Cardinality(Done(view))
      BY <1>0, <1>4 DEF Refresh, At, InHandOK, StagesInHand, LimitIsFar
    <3>4. StagesInHand(q, view)
      BY <3>1, <3>3 DEF StagesInHand
    <3>5. LimitIsFar(q, view)
      BY <1>n, <3>1, <3>3 DEF LimitIsFar
    <3> QED BY <3>1, <3>2, <3>4, <3>5
  <2> QED BY <2>1, <2>2
<1>5. CASE Exhaust(t)
  <2>1. q.pc = "conclude" /\ q.run = r /\ q.rs = p.rs /\ q.batch = p.batch
    BY <1>0, <1>5 DEF Exhaust, TaskState
  <2>2. p.batch = {}
    BY <1>0, <1>5 DEF Exhaust, At, InHandOK, StagesInHand
  <2> QED BY <1>2, <2>1, <2>2 DEF StatusInHand, StagesInHand, LimitIsFar
<1>6. CASE LoadStages(t)
  <2>1. p.batch = {} /\ p.iter <= Cardinality(Done(view)) + 1
    BY <1>0, <1>6 DEF LoadStages, At, InHandOK, StagesInHand, LimitIsFar
  <2>2. CASE \E v : task' = [task EXCEPT ![t].pc = "conclude", ![t].verdict = v]
    <3>1. q.pc = "conclude" /\ q.run = r /\ q.rs = p.rs /\ q.batch = p.batch
      BY <1>0, <2>2 DEF TaskState
    <3> QED BY <1>2, <2>1, <3>1 DEF StatusInHand, StagesInHand, LimitIsFar
  <2>3. ASSUME NEW s \in Ready(view),
               task' = [task EXCEPT ![t].pc = "start", ![t].cur = s,
                          ![t].seen = view[s], ![t].batch = Ready(view) \ {s}]
        PROVE  q.run = r /\ StatusInHand(q, runStatus[r]) /\ StagesInHand(q, view)
               /\ LimitIsFar(q, view)
    <3>1. /\ q.pc = "start" /\ q.run = r /\ q.rs = p.rs /\ q.cur = s /\ q.seen = view[s]
          /\ q.batch = Ready(view) \ {s} /\ q.iter = p.iter
      BY <1>0, <2>3 DEF TaskState
    <3>2. \A d \in Ready(view) : view[d] = "pending" /\ Behind(view, d)
      BY DEF Ready, Behind
    <3>3. StatusInHand(q, runStatus[r])
      BY <1>2, <3>1 DEF StatusInHand
    <3>4. StagesInHand(q, view)
      BY <2>3, <3>1, <3>2 DEF StagesInHand
    <3>5. LimitIsFar(q, view)
      BY <2>1, <3>1 DEF LimitIsFar
    <3> QED BY <3>1, <3>3, <3>4, <3>5
  <2> QED BY <1>6, <2>2, <2>3 DEF LoadStages
<1>7. CASE MidRefresh(t)
  <2>1. CASE runStatus[r] \in {"paused", "cancelled"}
    BY <1>0, <1>7, <2>1 DEF MidRefresh, Exit
  <2>2. CASE runStatus[r] \notin {"paused", "cancelled"}
    <3>1. /\ q.pc = "midload" /\ q.run = r /\ q.rs = runStatus[r] /\ q.batch = p.batch
          /\ q.iter = p.iter
      BY <1>0, <1>7, <2>2 DEF MidRefresh, TaskState
    <3>2. StatusInHand(q, runStatus[r])
      BY <1>2, <2>2, <3>1 DEF StatusInHand, Going
    <3>3. /\ \A s \in p.batch : view[s] = "pending" /\ Behind(view, s)
          /\ HasFailed(view) \/ p.iter <= Cardinality(Done(view))
      BY <1>0, <1>7 DEF MidRefresh, At, InHandOK, StagesInHand, LimitIsFar
    <3>4. StagesInHand(q, view)
      BY <3>1, <3>3 DEF StagesInHand
    <3>5. LimitIsFar(q, view)
      BY <3>1, <3>3 DEF LimitIsFar
    <3> QED BY <3>1, <3>2, <3>4, <3>5
  <2> QED BY <2>1, <2>2
<1>8. CASE MidLoad(t)
  <2>1. /\ \A s \in p.batch : view[s] = "pending" /\ Behind(view, s)
        /\ HasFailed(view) \/ p.iter <= Cardinality(Done(view))
    BY <1>0, <1>8 DEF MidLoad, At, InHandOK, StagesInHand, LimitIsFar
  <2>2. CASE task' = [task EXCEPT ![t].pc = "conclude", ![t].verdict = "failed", ![t].batch = {}]
    <3>1. q.pc = "conclude" /\ q.run = r /\ q.rs = p.rs /\ q.batch = {}
      BY <1>0, <2>2 DEF TaskState
    <3> QED BY <1>2, <3>1 DEF StatusInHand, StagesInHand, LimitIsFar
  <2>3. ASSUME ~ HasFailed(view), NEW s \in p.batch,
               task' = [task EXCEPT ![t].pc = "start", ![t].cur = s,
                          ![t].seen = view[s], ![t].batch = p.batch \ {s}]
        PROVE  q.run = r /\ StatusInHand(q, runStatus[r]) /\ StagesInHand(q, view)
               /\ LimitIsFar(q, view)
    <3>1. /\ q.pc = "start" /\ q.run = r /\ q.rs = p.rs /\ q.cur = s /\ q.seen = view[s]
          /\ q.batch = p.batch \ {s} /\ q.iter = p.iter
      BY <1>0, <2>3 DEF TaskState
    <3>2. StatusInHand(q, runStatus[r])
      BY <1>2, <3>1 DEF StatusInHand
    <3>3. StagesInHand(q, view)
      BY <2>1, <2>3, <3>1 DEF StagesInHand
    <3>4. q.iter <= Cardinality(Done(view)) + 1
      <4>1. p.iter <= Cardinality(Done(view))
        BY <2>1, <2>3
      <4> HIDE DEF p, q, view
      <4> QED BY <1>n, <3>1, <4>1
    <3>5. LimitIsFar(q, view)
      BY <3>1, <3>4 DEF LimitIsFar
    <3> QED BY <3>1, <3>2, <3>3, <3>5
  <2>4. CASE ~ HasFailed(view) /\ p.batch = {} /\ task' = [task EXCEPT ![t].pc = "refresh"]
    <3>1. q.pc = "refresh" /\ q.run = r /\ q.rs = p.rs /\ q.batch = {} /\ q.iter = p.iter
      BY <1>0, <2>4 DEF TaskState
    <3> QED BY <1>2, <2>1, <2>4, <3>1 DEF StatusInHand, StagesInHand, LimitIsFar
  <2> QED BY <1>8, <2>2, <2>3, <2>4 DEF MidLoad
<1> QED BY <1>4, <1>5, <1>6, <1>7, <1>8

\* The execution of a stage, and the end of the loop.
LEMMA WritesKeepLoop ==
  ASSUME Typed, NEW t \in Tasks, LoopOK(task[t].run),
         StartStage(t) \/ Progress(t) \/ FinishStage(t) \/ FailStage(t) \/ Conclude(t)
  PROVE  LoopMoves(t)
<1> DEFINE p == task[t]
           q == task'[t]
           r == task[t].run
           view == stage[r]
<1>0. /\ task \in [Tasks -> TaskState] /\ p \in TaskState /\ r \in Runs /\ TaskOK(t)
      /\ runStatus \in [Runs -> RunStatus] /\ view \in [Stages -> StageStatus]
      /\ stage \in [Runs -> [Stages -> StageStatus]]
      /\ InHandOK(p, runStatus[r], view) /\ InOrder(view)
      /\ runStatus[r] # "cancelled" /\ \A s \in Stages : view[s] # "skipped"
  BY StepServes DEF Typed, TypeOK, TaskInv, TaskState, LoopOK, TaskStep
<1>1. p.pc \in InLoop /\ p.rs = "running" /\ runStatus[r] \in Going
  BY <1>0 DEF StartStage, Progress, FinishStage, FailStage, Conclude, At, InHandOK, StatusInHand,
     InLoop
<1>n. p.iter \in Nat /\ Cardinality(Done(view)) \in Nat
  BY <1>0, DoneIsFinite DEF TaskState
<1>2. CASE Conclude(t)
  <2>1. q = NoTask /\ UNCHANGED stage
    BY <1>0, <1>2 DEF Conclude, Exit
  <2>2. runStatus'[r] # "cancelled"
    BY <1>0, <1>2 DEF Conclude, At, TaskOK, Flush
  <2> QED BY <1>0, <1>1, <2>1, <2>2 DEF LoopMoves, Open, Going
<1>3. CASE StartStage(t) \/ Progress(t) \/ FinishStage(t) \/ FailStage(t)
  <2> DEFINE s == p.cur
  <2>1. /\ UNCHANGED runStatus /\ s \in Stages /\ Behind(view, s)
        /\ \A d \in p.batch : view[d] = "pending" /\ Behind(view, d)
        /\ p.iter <= Cardinality(Done(view)) + 1
        /\ \/ p.pc = "start" /\ view[s] = "pending" /\ p.seen = "pending" /\ s \notin p.batch
           \/ p.pc = "exec" /\ view[s] = "running"
    <3>1. UNCHANGED runStatus /\ p.pc \in {"start", "exec"}
      BY <1>3 DEF StartStage, Progress, FinishStage, FailStage, At
    <3> QED BY <1>0, <3>1 DEF TaskOK, InHandOK, StagesInHand, LimitIsFar
  <2>2. p.batch \subseteq Stages
    BY <1>0 DEF TaskState
  <2>3. CASE StartStage(t)
    <3>1. stage'[r] = [view EXCEPT ![s] = "running"]
      BY <1>0, <2>1, <2>3 DEF StartStage, At, Flush
    <3>2. /\ q.pc = "exec" /\ q.run = r /\ q.rs = p.rs /\ q.cur = s /\ q.batch = p.batch
          /\ q.iter = p.iter
      BY <1>0, <2>3 DEF StartStage, TaskState
    <3>p. view[s] = "pending" /\ s \notin p.batch
      BY <2>1, <2>3 DEF StartStage, At
    <3>3. stage'[r][s] = "running" /\ OnlyMoves(view, stage'[r], s)
      BY <1>0, <2>1, <3>1 DEF OnlyMoves
    <3>4. /\ InOrder(stage'[r])
          /\ \A d \in Stages : Behind(view, d) => Behind(stage'[r], d)
      <4> HIDE DEF p, q, view, s
      <4> QED BY <1>0, <2>1, <3>3, <3>p, MoveKeeps
    <3>5. Done(stage'[r]) = Done(view)
      <4> HIDE DEF p, q, view, s
      <4> QED BY <2>1, <3>3, <3>p, UndoneCounts
    <3>6. StatusInHand(q, runStatus'[r])
      BY <1>1, <2>1, <3>2 DEF StatusInHand
    <3>7. StagesInHand(q, stage'[r])
      <4> HIDE DEF p, q, view, s
      <4> QED BY <2>1, <2>2, <3>2, <3>3, <3>4, <3>p DEF StagesInHand, OnlyMoves
    <3>8. LimitIsFar(q, stage'[r])
      BY <2>1, <3>2, <3>5 DEF LimitIsFar
    <3>9. \A d \in Stages : stage'[r][d] # "skipped"
      BY <1>0, <3>3 DEF OnlyMoves
    <3> QED BY <1>0, <1>1, <2>1, <3>2, <3>4, <3>5, <3>6, <3>7, <3>8, <3>9
         DEF LoopMoves, InHandOK, Open, Going
  <2>4. CASE Progress(t)
    <3>1. /\ q.pc = p.pc /\ q.run = r /\ q.rs = p.rs /\ q.cur = s /\ q.batch = p.batch
          /\ q.iter = p.iter /\ q.seen = p.seen /\ q.kind = p.kind /\ UNCHANGED stage
      BY <1>0, <2>4 DEF Progress, TaskState
    <3>2. InHandOK(q, runStatus'[r], stage'[r])
      BY <1>0, <2>1, <3>1 DEF InHandOK, StatusInHand, StagesInHand, LimitIsFar
    <3> QED BY <1>0, <1>1, <2>1, <3>1, <3>2 DEF LoopMoves, Open, Going
  <2>5. CASE FinishStage(t) \/ FailStage(t)
    <3>1. task' = [task EXCEPT ![t].pc = "midrefresh", ![t].draft = 0, ![t].cur = NoStage]
      BY <2>5 DEF FinishStage, FailStage
    <3>2. /\ q.pc = "midrefresh" /\ q.run = r /\ q.rs = p.rs /\ q.batch = p.batch
          /\ q.iter = p.iter
      BY <1>0, <3>1 DEF TaskState
    <3>3. PICK x \in {"completed", "needs_review", "failed"} :
            /\ stage'[r] = [view EXCEPT ![s] = x]
            /\ FailStage(t) => x = "failed"
            /\ FinishStage(t) => x # "failed"
      <4>1. CASE FinishStage(t)
        <5>1. stage'[r] = [view EXCEPT ![s] = IF s \in Gates THEN "needs_review" ELSE "completed"]
          BY <1>0, <4>1 DEF FinishStage
        <5>2. ~ FailStage(t)
          <6>1. stage'[r][s] \in {"needs_review", "completed"}
            BY <1>0, <2>1, <5>1
          <6> QED BY <1>0, <2>1, <6>1 DEF FailStage
        <5> QED BY <5>1, <5>2
      <4>2. CASE ~ FinishStage(t)
        BY <1>0, <2>5, <4>2 DEF FailStage
      <4> QED BY <4>1, <4>2
    <3>e. view[s] = "running"
      BY <2>1, <2>5 DEF FinishStage, FailStage, At
    <3>4. stage'[r][s] = x /\ OnlyMoves(view, stage'[r], s)
      BY <1>0, <2>1, <3>3 DEF OnlyMoves
    <3>5. /\ InOrder(stage'[r])
          /\ \A d \in Stages : Behind(view, d) => Behind(stage'[r], d)
      <4> HIDE DEF p, q, view, s
      <4> QED BY <1>0, <2>1, <3>4, <3>e, MoveKeeps
    <3>6. HasFailed(stage'[r]) \/ p.iter <= Cardinality(Done(stage'[r]))
      <4>1. CASE x = "failed"
        BY <2>1, <3>4, <4>1 DEF HasFailed
      <4>2. CASE x # "failed"
        <5>1. Cardinality(Done(stage'[r])) = Cardinality(Done(view)) + 1
          <6> HIDE DEF view, s, p, q
          <6> QED BY <2>1, <3>4, <3>e, <4>2, FinishCounts
        <5> QED BY <2>1, <5>1
      <4> QED BY <4>1, <4>2
    <3>7. StatusInHand(q, runStatus'[r])
      BY <1>1, <2>1, <3>2 DEF StatusInHand
    <3>8. StagesInHand(q, stage'[r])
      <4> HIDE DEF p, q, view, s
      <4> QED BY <2>1, <2>2, <3>2, <3>4, <3>5, <3>e DEF StagesInHand, OnlyMoves
    <3>9. LimitIsFar(q, stage'[r])
      BY <3>2, <3>6 DEF LimitIsFar
    <3>10. \A d \in Stages : stage'[r][d] # "skipped"
      BY <1>0, <3>4 DEF OnlyMoves
    <3>11. Done(view) \subseteq Done(stage'[r])
      BY <3>4, <3>e DEF Done, OnlyMoves
    <3> QED BY <1>0, <1>1, <2>1, <3>2, <3>5, <3>7, <3>8, <3>9, <3>10, <3>11
         DEF LoopMoves, InHandOK, Open, Going
  <2> QED BY <1>3, <2>3, <2>4, <2>5
<1> QED BY <1>2, <1>3

\* A task keeps to its run until it ends.
LEMMA StepKeepsRun ==
  ASSUME Typed, NEW t \in Tasks, TaskStep(t)
  PROVE  task'[t] = NoTask \/ task'[t].run = task[t].run
<1>0. task \in [Tasks -> TaskState] /\ task[t] \in TaskState
  BY DEF Typed, TypeOK
<1>1. CASE LoadStages(t)
  <2>1. ASSUME NEW v, task' = [task EXCEPT ![t].pc = "conclude", ![t].verdict = v]
        PROVE  task'[t].run = task[t].run
    BY <1>0, <2>1 DEF TaskState
  <2>2. ASSUME NEW s, NEW x, NEW b,
               task' = [task EXCEPT ![t].pc = "start", ![t].cur = s, ![t].seen = x,
                                    ![t].batch = b]
        PROVE  task'[t].run = task[t].run
    BY <1>0, <2>2 DEF TaskState
  <2> QED BY <1>1, <2>1, <2>2 DEF LoadStages
<1>2. CASE MidLoad(t)
  <2>1. CASE task' = [task EXCEPT ![t].pc = "conclude", ![t].verdict = "failed", ![t].batch = {}]
    BY <1>0, <2>1 DEF TaskState
  <2>2. ASSUME NEW s, task' = [task EXCEPT ![t].pc = "start", ![t].cur = s,
                              ![t].seen = stage[task[t].run][s],
                              ![t].batch = task[t].batch \ {s}]
        PROVE  task'[t].run = task[t].run
    BY <1>0, <2>2 DEF TaskState
  <2>3. CASE task' = [task EXCEPT ![t].pc = "refresh"]
    BY <1>0, <2>3 DEF TaskState
  <2> QED BY <1>2, <2>1, <2>2, <2>3 DEF MidLoad
<1>3. CASE Refresh(t) \/ MidRefresh(t)
  BY <1>0, <1>3 DEF Refresh, MidRefresh, Exit, TaskState
<1>4. CASE Load(t) \/ InitializeRun(t) \/ StartStage(t) \/ Exhaust(t)
  BY <1>0, <1>4 DEF Load, InitializeRun, StartStage, Exhaust, TaskState
<1>5. CASE Progress(t) \/ FinishStage(t) \/ FailStage(t)
  BY <1>0, <1>5 DEF Progress, FinishStage, FailStage, TaskState
<1>6. CASE WorkerSkips(t) \/ Conclude(t)
  BY <1>0, <1>6 DEF WorkerSkips, Conclude, Exit
<1> QED BY <1>1, <1>2, <1>3, <1>4, <1>5, <1>6 DEF TaskStep

\* What serves run r is left alone.
HandsStay(r) ==
  \A t \in Tasks : /\ Serves(t, r)' <=> Serves(t, r)
                   /\ Serves(t, r) => task'[t] = task[t]

\* A step of a task leaves the other runs and the requests alone.
LEMMA OtherRunsStay ==
  ASSUME Typed, NEW t \in Tasks, TaskStep(t)
  PROVE  /\ UNCHANGED <<req, budget>>
         /\ \A r \in Runs : r # task[t].run =>
              /\ stage'[r] = stage[r] /\ runStatus'[r] = runStatus[r] /\ out'[r] = out[r]
              /\ HandsStay(r)
<1>0. /\ stage \in [Runs -> [Stages -> StageStatus]] /\ runStatus \in [Runs -> RunStatus]
      /\ out \in [Runs -> [Stages -> Nat]] /\ task \in [Tasks -> TaskState]
  BY DEF Typed, TypeOK
<1>1. /\ UNCHANGED <<req, budget>>
      /\ \A r \in Runs : r # task[t].run =>
           stage'[r] = stage[r] /\ runStatus'[r] = runStatus[r] /\ out'[r] = out[r]
  BY <1>0 DEF TaskStep, Load, WorkerSkips, InitializeRun, Refresh, Exhaust, LoadStages,
     StartStage, Progress, FinishStage, FailStage, MidRefresh, MidLoad, Conclude, tables
<1>2. task'[t].pc # "idle" => task'[t].run = task[t].run
  BY StepKeepsRun DEF NoTask
<1>3. \A u \in Tasks \ {t} : task'[u] = task[u]
  BY OthersStay
<1>4. ASSUME NEW r \in Runs, r # task[t].run PROVE HandsStay(r)
  BY <1>2, <1>3, <1>4 DEF HandsStay, Serves, At
<1> QED BY <1>1, <1>4

\* A session that is closed asks nothing.
LEMMA NoTaskInHand == \A status, view : InHandOK(NoTask, status, view)
BY DEF InHandOK, StatusInHand, StagesInHand, LimitIsFar, NoTask, InLoop

\* A step of a task keeps the invariant of the loop: of its own run if that has not
\* crossed, and of the others, which it leaves alone.
LEMMA TaskKeepsLoop ==
  ASSUME Typed, LoopInv, NEW t \in Tasks, TaskStep(t)
  PROVE  /\ LoopInv'
         /\ \A r \in Runs \ crossed : Done(stage[r]) \subseteq Done(stage'[r])
<1>1. UNCHANGED crossed
  BY TaskKeepsHistory
<1>2. ASSUME NEW r \in Runs \ crossed, r # task[t].run
      PROVE  LoopOK(r)' /\ Done(stage[r]) \subseteq Done(stage'[r])
  <2>1. LoopOK(r)
    BY DEF LoopInv
  <2>2. stage'[r] = stage[r] /\ runStatus'[r] = runStatus[r] /\ HandsStay(r)
    BY <1>2, OtherRunsStay
  <2> QED BY <2>1, <2>2 DEF LoopOK, OneServes, HandsStay
<1>3. ASSUME NEW r \in Runs \ crossed, r = task[t].run
      PROVE  LoopOK(r)' /\ Done(stage[r]) \subseteq Done(stage'[r])
  <2>1. LoopOK(r) /\ LoopOK(task[t].run)
    BY <1>3 DEF LoopInv
  <2>2. LoopMoves(t)
    BY <2>1, StartKeepsLoop, ReadsKeepLoop, WritesKeepLoop DEF TaskStep
  <2>3. \A u \in Tasks \ {t} : task'[u] = task[u] /\ ~ Serves(u, r)
    BY <1>3, <2>1, StepServes, OthersStay DEF LoopOK, OneServes
  <2>4. \A u \in Tasks : Serves(u, r)' => u = t
    BY <2>3 DEF Serves, At
  <2>5. Serves(t, r)' => InHandOK(task'[t], runStatus'[r], stage'[r])
    BY <1>3, <2>2, NoTaskInHand DEF LoopMoves
  <2> QED BY <1>3, <2>2, <2>4, <2>5 DEF LoopOK, OneServes, LoopMoves
<1> QED BY <1>1, <1>2, <1>3 DEF LoopInv

-----------------------------------------------------------------------------
(* The requests *)

\* A task has been started for run r, which none served.
TakenUp(r, kind) ==
  /\ \A t \in Tasks : ~ Serves(t, r)
  /\ \E t \in Tasks :
       /\ task'[t].pc = "scheduled" /\ task'[t].kind = kind
       /\ task'[t].batch = {} /\ task'[t].iter = 0
       /\ \A u \in Tasks : Serves(u, r)' => u = t

RowsKept(r) == stage'[r] = stage[r] /\ out'[r] = out[r]

\* Failed and cancelled stages are reset, and nothing else is.
Retried(r) ==
  /\ runStatus[r] \in {"failed", "cancelled"} /\ runStatus'[r] = "running"
  /\ \A s \in Stages :
       IF stage[r][s] \in {"failed", "skipped"}
       THEN stage'[r][s] = "pending"
       ELSE stage'[r][s] = stage[r][s] /\ out'[r][s] = out[r][s]

\* What a request, or a task that dies, may do to a run on which it meets no work.
RequestMoves(r) ==
  \/ HandsStay(r) /\ RowsKept(r) /\ runStatus'[r] \in {runStatus[r], "paused"}
  \/ \E kind \in {"run", "resume", "worker"} :
       /\ TakenUp(r, kind) /\ RowsKept(r)
       /\ \/ kind = "worker" /\ runStatus'[r] = runStatus[r]
          \/ kind = "run" /\ runStatus[r] = "none" /\ runStatus'[r] = "queued"
          \/ kind = "resume" /\ runStatus[r] = "needs_review" /\ runStatus'[r] = "needs_review"
          \/ kind = "resume" /\ runStatus'[r] = "running"
  \/ TakenUp(r, "resume") /\ Retried(r)

\* A task that is started takes up its run, or crosses work on it; the others go on.
LEMMA ScheduleTakes ==
  ASSUME Typed, NEW kind, NEW q \in Runs, NEW stale \in BOOLEAN,
         Schedule(kind, q), Meets(q, stale), NEW r \in Runs \ crossed'
  PROVE  /\ r # q => HandsStay(r)
         /\ r = q => TakenUp(r, kind) /\ ~ stale
<1>1. PICK t \in Tasks : /\ At(t, "idle")
                         /\ task' = [task EXCEPT ![t] =
                              [NoTask EXCEPT !.pc = "scheduled", !.kind = kind, !.run = q]]
  BY DEF Schedule
<1>2. /\ task'[t] = [NoTask EXCEPT !.pc = "scheduled", !.kind = kind, !.run = q]
      /\ \A u \in Tasks \ {t} : task'[u] = task[u]
  BY <1>1 DEF Typed, TypeOK
<1>3. /\ task'[t].pc = "scheduled" /\ task'[t].kind = kind /\ task'[t].run = q
      /\ task'[t].batch = {} /\ task'[t].iter = 0
  BY <1>2 DEF NoTask
<1>4. CASE r # q
  BY <1>1, <1>2, <1>3, <1>4 DEF HandsStay, Serves, At
<1>5. CASE r = q
  <2>1. ~ stale /\ \A u \in Tasks : ~ Serves(u, r)
    BY <1>5 DEF Meets
  <2>2. \A u \in Tasks : Serves(u, r)' => u = t
    BY <1>2, <2>1 DEF Serves, At
  <2> QED BY <1>1, <1>3, <1>5, <2>1, <2>2 DEF TakenUp
<1> QED BY <1>4, <1>5

\* What every request does to a run that has not crossed.
LEMMA RequestShape ==
  ASSUME Typed, RetryResets, Request, NEW r \in Runs \ crossed'
  PROVE  RequestMoves(r)
<1>0. /\ stage \in [Runs -> [Stages -> StageStatus]] /\ runStatus \in [Runs -> RunStatus]
      /\ out \in [Runs -> [Stages -> Nat]]
      /\ \A c \in Clients : req[c].run \in Runs
  BY DEF Typed, TypeOK, ReqState
<1>1. ASSUME UNCHANGED task PROVE HandsStay(r)
  BY <1>1 DEF HandsStay, Serves, At
<1>2. CASE UNCHANGED <<task, runStatus, stage, out>>
  BY <1>1, <1>2 DEF RequestMoves, RowsKept
<1>3. ASSUME NEW c \in Clients, Commit(c) PROVE RequestMoves(r)
  <2> DEFINE q == req[c].run
  <2>0. q \in Runs
    BY <1>0
  <2>1. CASE CommitPause(c)
    <3>1. RowsKept(r) /\ UNCHANGED task /\ runStatus'[r] \in {runStatus[r], "paused"}
      BY <1>0, <2>1 DEF CommitPause, SetStatus, RowsKept
    <3> QED BY <1>1, <3>1 DEF RequestMoves
  <2>2. CASE CommitResume(c)
    <3>1. /\ RowsKept(r) /\ Schedule("resume", q) /\ Meets(q, FALSE)
          /\ runStatus'[r] = IF r = q THEN "running" ELSE runStatus[r]
      BY <1>0, <2>2 DEF CommitResume, SetStatus, RowsKept
    <3>2. /\ r # q => HandsStay(r)
          /\ r = q => TakenUp(r, "resume")
      BY <2>0, <3>1, ScheduleTakes
    <3> QED BY <3>1, <3>2 DEF RequestMoves
  <2>3. CASE CommitCancel(c)
    <3>1. r # q /\ UNCHANGED <<task, out>>
      BY <2>3 DEF CommitCancel, Meets
    <3>2. RowsKept(r) /\ runStatus'[r] = runStatus[r]
      BY <1>0, <2>3, <3>1 DEF CommitCancel, SetStatus, SetStages, RowsKept
    <3> QED BY <1>1, <3>1, <3>2 DEF RequestMoves
  <2>4. CASE CommitRetry(c)
    <3>1. Schedule("resume", q) /\ Meets(q, ~ IsFresh(c)) /\ (~ IsFresh(c)) \in BOOLEAN
      BY <2>4 DEF CommitRetry, IsFresh
    <3>2. /\ r # q => HandsStay(r)
          /\ r = q => TakenUp(r, "resume") /\ IsFresh(c)
      BY <2>0, <3>1, ScheduleTakes
    <3>3. CASE r # q
      <4>1. RowsKept(r) /\ runStatus'[r] = runStatus[r]
        BY <1>0, <2>4, <3>3 DEF CommitRetry, SetStatus, SetStages, RowsKept
      <4> QED BY <3>2, <3>3, <4>1 DEF RequestMoves
    <3>4. CASE r = q
      <4>1. /\ runStatus[r] \in {"failed", "cancelled"}
            /\ req[c].marked = {s \in Stages : stage[r][s] \in {"failed", "skipped"}}
        BY <3>2, <3>4 DEF IsFresh
      <4>2. /\ runStatus'[r] = "running"
            /\ \A s \in Stages :
                 /\ stage'[r][s] = IF s \in req[c].marked THEN "pending" ELSE stage[r][s]
                 /\ s \notin req[c].cleared => out'[r][s] = out[r][s]
        BY <1>0, <2>4, <3>4 DEF CommitRetry, SetStatus, SetStages
      <4>3. req[c].cleared \subseteq req[c].marked
        BY DEF RetryResets
      <4>4. Retried(r)
        BY <4>1, <4>2, <4>3 DEF Retried
      <4> QED BY <3>2, <3>4, <4>4 DEF RequestMoves
    <3> QED BY <3>3, <3>4
  <2>5. CASE WakePausedRun(c)
    <3>1. RowsKept(r) /\ runStatus'[r] = runStatus[r]
      BY <2>5 DEF WakePausedRun, tables, RowsKept
    <3>2. \/ UNCHANGED task
          \/ \E p \in Runs : runStatus[p] = "needs_review" /\ Schedule("resume", p) /\ Meets(p, FALSE)
      BY <2>5 DEF WakePausedRun
    <3>3. CASE UNCHANGED task
      BY <1>1, <3>1, <3>3 DEF RequestMoves
    <3>4. ASSUME NEW p \in Runs, runStatus[p] = "needs_review", Schedule("resume", p),
                 Meets(p, FALSE)
          PROVE  RequestMoves(r)
      <4>1. /\ r # p => HandsStay(r)
            /\ r = p => TakenUp(r, "resume")
        BY <3>4, ScheduleTakes
      <4> QED BY <3>1, <3>4, <4>1 DEF RequestMoves
    <3> QED BY <3>2, <3>3, <3>4
  <2> QED BY <1>3, <2>1, <2>2, <2>3, <2>4, <2>5 DEF Commit
<1>4. CASE CreateRun
  <2>1. PICK p \in Runs : /\ runStatus[p] = "none" /\ Schedule("run", p) /\ Meets(p, FALSE)
                          /\ runStatus' = [runStatus EXCEPT ![p] = "queued"]
    BY <1>4 DEF CreateRun
  <2>2. RowsKept(r) /\ runStatus'[r] = IF r = p THEN "queued" ELSE runStatus[r]
    BY <1>0, <1>4, <2>1 DEF CreateRun, RowsKept
  <2>3. /\ r # p => HandsStay(r)
        /\ r = p => TakenUp(r, "run")
    BY <2>1, ScheduleTakes
  <2> QED BY <2>1, <2>2, <2>3 DEF RequestMoves
<1>5. ASSUME NEW p \in Runs, StartWorker(p) PROVE RequestMoves(r)
  <2>1. RowsKept(r) /\ runStatus'[r] = runStatus[r] /\ Schedule("worker", p) /\ Meets(p, FALSE)
    BY <1>5 DEF StartWorker, tables, RowsKept
  <2>2. /\ r # p => HandsStay(r)
        /\ r = p => TakenUp(r, "worker")
    BY <2>1, ScheduleTakes
  <2> QED BY <2>1, <2>2 DEF RequestMoves
<1>6. (\E c \in Clients : ControlStep(c)) \/ SubmitOnboarding
        \/ (\E s \in Stages : \E v \in 1..Len(artifact[s]) :
               RejectArtifact(s, v) \/ EditArtifact(s, v))
      => UNCHANGED <<task, runStatus, stage, out>>
  BY DEF ControlStep, RequestPause, RequestResume, RequestCancel, RequestRetry, Accept,
     ApproveArtifact, tables, SubmitOnboarding, RejectArtifact, EditArtifact
<1> QED BY <1>2, <1>3, <1>4, <1>5, <1>6 DEF Request

\* Once crossed, a run stays so.
LEMMA HistoryGrows ==
  ASSUME Next
  PROVE  crossed \subseteq crossed' /\ died \subseteq died'
<1>1. ASSUME NEW r, NEW stale, Meets(r, stale) PROVE crossed \subseteq crossed'
  BY <1>1 DEF Meets
<1> QED BY <1>1, TaskKeepsHistory DEF Next, TaskDies, ControlStep, RequestPause, RequestResume,
    RequestCancel, RequestRetry, Accept, ApproveArtifact, Commit, CommitPause, CommitResume,
    CommitCancel, CommitRetry, WakePausedRun, SubmitOnboarding, CreateRun, StartWorker,
    RejectArtifact, EditArtifact, history

\* A request that meets no work on a run keeps the invariant of the loop for it.
LEMMA RequestKeepsLoop ==
  ASSUME Typed, NEW r \in Runs, LoopOK(r), RequestMoves(r)
  PROVE  LoopOK(r)' /\ Done(stage[r]) = Done(stage'[r])
<1>1. CASE HandsStay(r) /\ RowsKept(r) /\ runStatus'[r] \in {runStatus[r], "paused"}
  <2>1. \A t \in Tasks : Serves(t, r) =>
          StatusInHand(task[t], runStatus[r]) /\ StagesInHand(task[t], stage[r])
            /\ LimitIsFar(task[t], stage[r])
    BY DEF LoopOK, InHandOK
  <2>2. \A t \in Tasks : Serves(t, r) => StatusInHand(task[t], runStatus'[r])
    BY <1>1, <2>1 DEF StatusInHand, Open, Going
  <2>3. \A t \in Tasks : Serves(t, r)' => InHandOK(task'[t], runStatus'[r], stage'[r])
    BY <1>1, <2>1, <2>2 DEF HandsStay, RowsKept, InHandOK
  <2> QED BY <1>1, <2>3 DEF LoopOK, OneServes, HandsStay, RowsKept
<1>2. ASSUME NEW kind, TakenUp(r, kind), kind # "worker" => runStatus'[r] \in Open,
             Quiet(stage[r], stage'[r]), \A s \in Stages : stage'[r][s] # "skipped",
             runStatus'[r] # "cancelled"
      PROVE  LoopOK(r)' /\ Done(stage[r]) = Done(stage'[r])
  <2>1. InOrder(stage'[r]) /\ Done(stage'[r]) = Done(stage[r])
    BY <1>2, QuietKeeps DEF LoopOK
  <2>2. OneServes(r)'
    BY <1>2 DEF TakenUp, OneServes
  <2>3. \A t \in Tasks : Serves(t, r)' => InHandOK(task'[t], runStatus'[r], stage'[r])
    BY <1>2 DEF TakenUp, InHandOK, StatusInHand, StagesInHand, LimitIsFar, InLoop
  <2> QED BY <1>2, <2>1, <2>2, <2>3 DEF LoopOK
<1>3. ASSUME NEW kind \in {"run", "resume", "worker"}, TakenUp(r, kind), RowsKept(r),
             \/ kind = "worker" /\ runStatus'[r] = runStatus[r]
             \/ runStatus'[r] \in {"queued", "needs_review", "running"}
      PROVE  LoopOK(r)' /\ Done(stage[r]) = Done(stage'[r])
  BY <1>2, <1>3 DEF RowsKept, Quiet, LoopOK, Open
<1>4. CASE TakenUp(r, "resume") /\ Retried(r)
  <2>1. /\ Quiet(stage[r], stage'[r]) /\ \A s \in Stages : stage'[r][s] # "skipped"
        /\ runStatus'[r] = "running"
    BY <1>4 DEF Retried, Quiet, LoopOK
  <2> QED BY <1>2, <1>4, <2>1 DEF Open
<1> QED BY <1>1, <1>3, <1>4 DEF RequestMoves

-----------------------------------------------------------------------------
(* The invariant of the loop, and its theorems *)

\* Before the first request nothing is in hand.
LEMMA LoopInit == Init => LoopInv
<1>1. SUFFICES ASSUME Init PROVE LoopInv
  OBVIOUS
<1>2. /\ \A r \in Runs : runStatus[r] = "none"
      /\ \A r \in Runs : \A s \in Stages : stage[r][s] = "absent"
      /\ \A t \in Tasks : At(t, "idle")
  BY <1>1 DEF Init, NoTask, At
<1> QED BY <1>2 DEF LoopInv, LoopOK, OneServes, Serves, InOrder

\* The death of a task leaves the rows, and the other tasks, alone.
LEMMA DeathStays ==
  ASSUME Typed, NEW t \in Tasks, TaskDies(t)
  PROVE  /\ UNCHANGED <<tables, req, crossed>> /\ died' = died \cup {task[t].run}
         /\ task'[t] = NoTask /\ \A u \in Tasks \ {t} : task'[u] = task[u]
         /\ \A r \in Runs : \A u \in Tasks : Serves(u, r)' => Serves(u, r) /\ task'[u] = task[u]
         /\ \A r \in Runs : r # task[t].run => HandsStay(r)
<1>1. /\ UNCHANGED <<tables, req, crossed>> /\ died' = died \cup {task[t].run}
      /\ task'[t] = NoTask /\ \A u \in Tasks \ {t} : task'[u] = task[u]
  BY DEF TaskDies, Exit, Typed, TypeOK
<1>2. task'[t].pc = "idle"
  BY <1>1 DEF NoTask
<1> QED BY <1>1, <1>2 DEF Serves, At, HandsStay

\* Every step keeps the invariant of the loop, and what is done stays done.
LEMMA LoopStep ==
  ASSUME Typed, RetryResets, LoopInv, Next
  PROVE  /\ LoopInv'
         /\ \A r \in Runs \ crossed' : Done(stage[r]) \subseteq Done(stage'[r])
<1>1. ASSUME NEW t \in Tasks, TaskDies(t)
      PROVE  LoopInv' /\ UNCHANGED stage
  <2>1. /\ UNCHANGED <<runStatus, stage, crossed>>
        /\ \A r \in Runs : \A u \in Tasks : Serves(u, r)' => Serves(u, r) /\ task'[u] = task[u]
    BY <1>1, DeathStays DEF tables
  <2> QED BY <2>1 DEF LoopInv, LoopOK, OneServes
<1>2. ASSUME Request
      PROVE  /\ LoopInv'
             /\ \A r \in Runs \ crossed' : Done(stage[r]) \subseteq Done(stage'[r])
  BY <1>2, HistoryGrows, RequestShape, RequestKeepsLoop DEF LoopInv
<1>3. (\E t \in Tasks : TaskStep(t) \/ TaskDies(t)) \/ Request
  BY DEF Next, Request
<1> QED BY <1>1, <1>2, <1>3, TaskKeepsLoop, HistoryGrows

LoopsInv == Typed /\ RetryResets /\ LoopInv

\* The invariant of the loop is inductive together with the types.
LEMMA LoopIsInductive == LoopsInv /\ [Next]_vars => LoopsInv'
<1>1. LoopsInv /\ Next => LoopsInv'
  BY StepTyped, StepRetry, LoopStep DEF LoopsInv
<1>2. LoopsInv /\ UNCHANGED vars => LoopsInv'
  BY DEF LoopsInv, RetryResets, Typed, TypeOK, TaskInv, TaskOK, At, vars, LoopInv, LoopOK,
     OneServes, Serves
<1> QED BY <1>1, <1>2

\* It holds before the first request.
LEMMA LoopsInit == Init => LoopsInv
<1>1. Init => RetryResets
  BY DEF Init, NoReq, RetryResets
<1> QED BY <1>1, InitType, LoopInit DEF LoopsInv, Typed

\* The safety limit of the loop (orchestrator.py:205-207, 286-290) is never what ends
\* the work on a run, however many tasks, runs and clients there are and whichever tasks
\* die, until work on the run meets other work: an iteration that goes on has finished a
\* stage, and nobody undoes it.
THEOREM LimitIsNeverReached == Spec => []LimitIsSlack
<1>1. LoopsInv => LimitIsSlack
  <2>1. SUFFICES ASSUME LoopsInv, NEW t \in Tasks, task[t].run \notin crossed,
                        At(t, "refresh"), Exhausted(t)
                 PROVE  FALSE
    BY DEF LimitIsSlack
  <2>2. task[t].run \in Runs \ crossed /\ Serves(t, task[t].run)
    BY <2>1 DEF LoopsInv, Typed, TypeOK, TaskState, Serves, At
  <2>3. InHandOK(task[t], runStatus[task[t].run], stage[task[t].run])
    BY <2>1, <2>2 DEF LoopsInv, LoopInv, LoopOK
  <2>4. task[t].iter <= Cardinality(Done(stage[task[t].run]))
    BY <2>1, <2>3 DEF InHandOK, LimitIsFar, At
  <2>5. Cardinality(Stages) # 0
    BY StagesAssumption, FS_EmptySet
  <2> QED BY <2>1, <2>4, <2>5, DoneIsFinite DEF Exhausted, MaxIterations
<1> QED BY <1>1, LoopsInit, LoopIsInductive, PTL DEF Spec

\* A finished stage of a run is not executed again by a resume, a retry, an approval, a
\* worker or a death (orchestrator.py:190-290, services.py:252-299), until work on the
\* run meets other work.
THEOREM FinishedForGood == Spec => FinishedStaysFinished
<1>1. LoopsInv /\ [Next]_vars =>
        [\A r \in Runs \ crossed', s \in Stages :
           stage[r][s] \in {"completed", "needs_review"} =>
             stage'[r][s] \in {"completed", "needs_review"}]_vars
  BY LoopStep DEF Done, LoopsInv
<1> QED BY <1>1, LoopsInit, LoopIsInductive, PTL DEF Spec, FinishedStaysFinished

-----------------------------------------------------------------------------
(***************************************************************************)
(* What the stages have put out.  The newest version that a run has made   *)
(* of a type is the output of its stage, and it is finished: leftovers of  *)
(* executions of the run that failed or died are never the input of a      *)
(* stage.  Other runs write versions of the same types meanwhile.          *)
(***************************************************************************)

\* What a stage has put out is the newest version the run has made, and finished.
FinishedIsNewest(r) ==
  \A s \in Done(stage[r]) :
    /\ out[r][s] \in MadeBy(r, s)
    /\ \A v \in MadeBy(r, s) : v <= out[r][s]
    /\ artifact[s][out[r][s]].content = "final"

\* So is the draft of the stage that is being executed, finished or not.
DraftIsNewest(r) ==
  \A t \in Tasks : Serves(t, r) /\ At(t, "exec") /\ task[t].draft # 0 =>
    \A v \in MadeBy(r, task[t].cur) : v <= task[t].draft

NewestOK(r) == FinishedIsNewest(r) /\ DraftIsNewest(r)

NewestInv == \A r \in Runs \ crossed : NewestOK(r)

-----------------------------------------------------------------------------
(* Writes of artifacts *)

\* The versions that run r has made are the same, and those that are finished stay so.
OwnStays(r) ==
  \A s \in Stages : /\ MadeBy(r, s)' = MadeBy(r, s)
                    /\ \A v \in MadeBy(r, s) :
                         artifact[s][v].content = "final" => artifact'[s][v].content = "final"

\* A version that is rewritten stays its run's.
LEMMA RewriteOwn ==
  ASSUME TypeOK, NEW s \in Stages, NEW v \in 1..Len(artifact[s]), NEW a \in Artifact, NEW r \in Runs,
         a.by = artifact[s][v].by,
         artifact' = [artifact EXCEPT ![s] = [@ EXCEPT ![v] = a]],
         a.by # r \/ a.content \in {artifact[s][v].content, "final"}
  PROVE  OwnStays(r)
<1>1. /\ \A q \in Stages : Len(artifact'[q]) = Len(artifact[q])
      /\ artifact'[s][v] = a
      /\ \A q \in Stages : \A w \in 1..Len(artifact[q]) :
           q # s \/ w # v => artifact'[q][w] = artifact[q][w]
  <2>1. /\ artifact[s] \in Seq(Artifact)
        /\ artifact'[s] = [artifact[s] EXCEPT ![v] = a]
        /\ \A q \in Stages : q # s => artifact'[q] = artifact[q]
    BY DEF TypeOK
  <2>2. /\ Len(artifact'[s]) = Len(artifact[s])
        /\ artifact'[s][v] = a
        /\ \A w \in 1..Len(artifact[s]) : w # v => artifact'[s][w] = artifact[s][w]
    BY <2>1, ExceptSeq
  <2> QED BY <2>1, <2>2
<1>2. \A q \in Stages : \A w \in 1..Len(artifact[q]) : artifact'[q][w].by = artifact[q][w].by
  BY <1>1
<1>3. ASSUME NEW q \in Stages PROVE MadeBy(r, q)' = MadeBy(r, q)
  BY <1>1, <1>2 DEF MadeBy
<1>4. ASSUME NEW q \in Stages, NEW w \in MadeBy(r, q), artifact[q][w].content = "final"
      PROVE  artifact'[q][w].content = "final"
  BY <1>1, <1>4 DEF MadeBy
<1> QED BY <1>3, <1>4 DEF OwnStays

\* A new version belongs to the run that makes it.
LEMMA DraftOwn ==
  ASSUME TypeOK, NEW s \in Stages, NEW c \in {"partial", "final"}, NEW q \in Runs, NEW r \in Runs,
         artifact' = [artifact EXCEPT ![s] = Draft(s, c, q)], q # r
  PROVE  OwnStays(r)
<1>0. artifact \in [Stages -> Seq(Artifact)] /\ Len(artifact[s]) \in Nat
  BY DEF TypeOK
<1>1. /\ Len(artifact'[s]) = Len(artifact[s]) + 1
      /\ \A v \in 1..Len(artifact[s]) : artifact'[s][v] = artifact[s][v]
      /\ artifact'[s][Len(artifact[s]) + 1] = [status |-> "draft", content |-> c, by |-> q]
  BY AppendDraft, ZenonT(60)
<1>2. \A p \in Stages : p # s => artifact'[p] = artifact[p]
  BY <1>0
<1>3. ASSUME NEW p \in Stages, p # s
      PROVE  /\ MadeBy(r, p)' = MadeBy(r, p)
             /\ \A v \in MadeBy(r, p) : artifact'[p][v] = artifact[p][v]
  BY <1>2, <1>3 DEF MadeBy
<1>4. artifact'[s][Len(artifact[s]) + 1].by # r
  BY <1>1
<1>5. /\ MadeBy(r, s)' = MadeBy(r, s)
      /\ \A v \in MadeBy(r, s) : artifact'[s][v] = artifact[s][v]
  <2>1. \A v : v \in 1..Len(artifact'[s]) <=> v \in 1..Len(artifact[s]) \/ v = Len(artifact[s]) + 1
    BY <1>0, <1>1
  <2> QED BY <1>1, <1>4, <2>1 DEF MadeBy
<1> QED BY <1>3, <1>5 DEF OwnStays

\* The artifact of stage s is written, and that of no other stage.
OnlyWrites(s) == \A d \in Stages : d # s => artifact'[d] = artifact[d]

\* Run r writes its draft d of stage s, or a new version when there is none.
Writes(r, s, d, c) ==
  artifact' = IF d = 0 THEN [artifact EXCEPT ![s] = Draft(s, c, r)]
                       ELSE [artifact EXCEPT ![s][d].content = c]

\* No version that run r has made of stage s is newer than n.
NewestOf(r, s, n) == n \in MadeBy(r, s) /\ \A v \in MadeBy(r, s) : v <= n

Written(s, d) == IF d = 0 THEN Len(artifact[s]) + 1 ELSE d

\* What on_progress and the end of a stage make of the newest version of its run.
LEMMA WriteIsNewest ==
  ASSUME Typed, NEW s \in Stages, NEW c \in {"partial", "final"}, NEW r \in Runs, NEW d \in Nat,
         d # 0 => NewestOf(r, s, d), Writes(r, s, d, c), NEW n, n = Written(s, d)
  PROVE  /\ OnlyWrites(s)
         /\ n \in MadeBy(r, s)' /\ \A v \in MadeBy(r, s)' : v <= n
         /\ artifact'[s][n].content = c
<1>0. /\ artifact \in [Stages -> Seq(Artifact)] /\ Len(artifact[s]) \in Nat /\ TypeOK
      /\ d # 0 => d \in MadeBy(r, s) /\ \A v \in MadeBy(r, s) : v <= d
      /\ artifact' = IF d = 0 THEN [artifact EXCEPT ![s] = Draft(s, c, r)]
                              ELSE [artifact EXCEPT ![s][d].content = c]
      /\ n = IF d = 0 THEN Len(artifact[s]) + 1 ELSE d
  BY DEF Typed, TypeOK, Writes, Written, NewestOf
<1>1. OnlyWrites(s)
  BY <1>0 DEF OnlyWrites
<1>2. CASE d = 0
  <2>1. artifact' = [artifact EXCEPT ![s] = Draft(s, c, r)]
    BY <1>0, <1>2
  <2>2. /\ Len(artifact'[s]) = Len(artifact[s]) + 1
        /\ artifact'[s][Len(artifact[s]) + 1] = [status |-> "draft", content |-> c, by |-> r]
    <3>1. TypeOK /\ s \in Stages /\ r \in Runs /\ c \in {"partial", "final"}
      BY <1>0
    <3> QED BY <2>1, <3>1, AppendDraft, ZenonT(60)
  <2>3. Len(artifact'[s]) = n /\ artifact'[s][n].by = r /\ artifact'[s][n].content = c
    BY <1>0, <1>2, <2>2
  <2> QED BY <1>0, <1>1, <1>2, <2>3 DEF MadeBy
<1>3. CASE d # 0
  <2>1. d \in 1..Len(artifact[s]) /\ artifact[s][d].by = r
    BY <1>0, <1>3 DEF MadeBy
  <2>2. artifact[s] \in Seq(Artifact) /\ artifact[s][d] \in Artifact
    BY <1>0, <2>1
  <2> DEFINE a == [artifact[s][d] EXCEPT !.content = c]
  <2>3. a \in Artifact /\ a.content = c /\ a.by = artifact[s][d].by
    BY <2>2 DEF Artifact
  <2>4. artifact' = [artifact EXCEPT ![s] = [@ EXCEPT ![d] = a]]
    BY <1>0, <1>3, <2>1
  <2> HIDE DEF a
  <2>5. /\ \A q \in Stages : Len(artifact'[q]) = Len(artifact[q])
        /\ artifact'[s][d] = a
        /\ \A q \in Stages : \A w \in 1..Len(artifact[q]) :
             q # s \/ w # d => artifact'[q][w] = artifact[q][w]
    BY <1>0, <2>1, <2>3, <2>4, RewriteVersion
  <2>6. MadeBy(r, s)' = MadeBy(r, s)
    <3>1. \A w \in 1..Len(artifact[s]) : artifact'[s][w].by = artifact[s][w].by
      BY <2>3, <2>5
    <3> QED BY <2>5, <3>1 DEF MadeBy
  <2> QED BY <1>0, <1>1, <1>3, <2>3, <2>5, <2>6
<1> QED BY <1>2, <1>3

-----------------------------------------------------------------------------
(* The steps *)

\* A step that finishes no stage of the run and writes none of its versions.
LEMMA NothingNewest ==
  ASSUME Typed, NEW r \in Runs, NewestOK(r), OwnStays(r),
         \A s \in Done(stage'[r]) : s \in Done(stage[r]) /\ out'[r][s] = out[r][s],
         \A t \in Tasks : Serves(t, r)' /\ At(t, "exec")' /\ task'[t].draft # 0 =>
           Serves(t, r) /\ task'[t] = task[t]
  PROVE  NewestOK(r)'
<1>1. FinishedIsNewest(r)'
  <2>1. SUFFICES ASSUME NEW s \in Done(stage'[r])
                 PROVE  /\ out'[r][s] \in MadeBy(r, s)'
                        /\ \A v \in MadeBy(r, s)' : v <= out'[r][s]
                        /\ artifact'[s][out'[r][s]].content = "final"
    BY DEF FinishedIsNewest
  <2>2. s \in Stages /\ s \in Done(stage[r]) /\ out'[r][s] = out[r][s]
    BY DEF Done
  <2>3. MadeBy(r, s)' = MadeBy(r, s)
    BY <2>2 DEF OwnStays
  <2> QED BY <2>2, <2>3 DEF NewestOK, FinishedIsNewest, OwnStays
<1>2. DraftIsNewest(r)'
  <2>1. SUFFICES ASSUME NEW t \in Tasks, Serves(t, r)', At(t, "exec")', task'[t].draft # 0
                 PROVE  \A v \in MadeBy(r, task[t].cur)' : v <= task'[t].draft
    BY DEF DraftIsNewest
  <2>2. Serves(t, r) /\ task'[t] = task[t] /\ At(t, "exec")
    BY <2>1 DEF At
  <2>3. task[t].cur \in Stages
    BY <2>2 DEF Typed, TaskInv, TaskOK, At
  <2>4. \A s \in Stages : MadeBy(r, s)' = MadeBy(r, s)
    BY DEF OwnStays
  <2>5. \A v \in MadeBy(r, task[t].cur) : v <= task[t].draft
    BY <2>1, <2>2 DEF NewestOK, DraftIsNewest
  <2>6. MadeBy(r, task[t].cur)' = MadeBy(r, task[t].cur)
    BY <2>2, <2>3, <2>4 DEF MadeBy
  <2> QED BY <2>2, <2>5, <2>6
<1> QED BY <1>1, <1>2 DEF NewestOK

\* An agent writes the newest version of its run, of a stage that is not done.
LEMMA AgentKeepsNewest ==
  ASSUME Typed, NEW t \in Tasks, NEW r \in Runs, r = task[t].run, LoopOK(r), NewestOK(r),
         Progress(t) \/ FinishStage(t)
  PROVE  NewestOK(r)'
<1>0. /\ task \in [Tasks -> TaskState] /\ task[t] \in TaskState /\ TaskOK(t)
      /\ task[t].draft \in Nat
      /\ out \in [Runs -> [Stages -> Nat]] /\ stage \in [Runs -> [Stages -> StageStatus]]
      /\ Serves(t, r) /\ task[t].pc = "exec"
  BY DEF Typed, TypeOK, TaskInv, TaskState, Progress, FinishStage, Serves, At
<1> SUFFICES ASSUME NEW s, s = task[t].cur, NEW d, d = task[t].draft
             PROVE  NewestOK(r)'
  OBVIOUS
<1>1. /\ s \in Stages /\ stage[r][s] = "running" /\ d \in Nat
      /\ d # 0 => d \in MadeBy(r, s) /\ \A v \in MadeBy(r, s) : v <= d
  <2>1. s \in Stages /\ d \in Nat /\ stage[r][s] = "running"
    BY <1>0 DEF TaskOK, LoopOK, InHandOK, StagesInHand
  <2>2. d # 0 => d \in MadeBy(r, s)
    BY <1>0 DEF TaskOK, At, MadeBy
  <2>3. d # 0 => \A v \in MadeBy(r, s) : v <= d
    BY <1>0 DEF NewestOK, DraftIsNewest, At
  <2> QED BY <2>1, <2>2, <2>3
<1>2. \A u \in Tasks : Serves(u, r)' => u = t
  <2>1. \A u \in Tasks \ {t} : ~ Serves(u, r) /\ task'[u] = task[u]
    BY <1>0, OthersStay DEF LoopOK, OneServes, TaskStep
  <2> QED BY <2>1 DEF Serves, At
<1>3. Len(artifact[s]) \in Nat
  BY <1>1 DEF Typed, TypeOK
<1>4. PICK n \in Nat : n = IF d = 0 THEN Len(artifact[s]) + 1 ELSE d
  BY <1>1, <1>3
<1>a. n = Written(s, d) /\ (d # 0 => NewestOf(r, s, d))
  BY <1>1, <1>4 DEF Written, NewestOf
<1>5. PICK c \in {"partial", "final"} :
        Writes(r, s, d, c) /\ (FinishStage(t) => c = "final")
  <2>1. CASE FinishStage(t)
    BY <2>1 DEF FinishStage, Writes
  <2>2. CASE ~ FinishStage(t)
    BY <2>2 DEF Progress, Writes
  <2> QED BY <2>1, <2>2
<1>6. /\ OnlyWrites(s)
      /\ n \in MadeBy(r, s)' /\ \A v \in MadeBy(r, s)' : v <= n
      /\ artifact'[s][n].content = c
  BY <1>1, <1>5, <1>a, WriteIsNewest
<1>7. ASSUME NEW x \in Stages, x # s
      PROVE  MadeBy(r, x)' = MadeBy(r, x) /\ artifact'[x] = artifact[x]
  BY <1>6, <1>7 DEF OnlyWrites, MadeBy
<1>8. CASE Progress(t)
  <2>1. UNCHANGED <<out, stage>>
    BY <1>8 DEF Progress
  <2>2. FinishedIsNewest(r)'
    BY <1>1, <1>7, <2>1 DEF NewestOK, FinishedIsNewest, Done
  <2>3. task'[t].cur = s /\ task'[t].draft = n
    <3>1. CASE d = 0
      BY <1>0, <1>4, <1>8, <3>1 DEF Progress, TaskState
    <3>2. CASE d # 0
      BY <1>0, <1>4, <1>8, <3>2 DEF Progress
    <3> QED BY <3>1, <3>2
  <2>4. DraftIsNewest(r)'
    BY <1>2, <1>6, <2>3 DEF DraftIsNewest, MadeBy
  <2> QED BY <2>2, <2>4 DEF NewestOK
<1>9. CASE FinishStage(t)
  <2>1. c = "final"
    BY <1>5, <1>9
  <2>2. /\ out'[r][s] = n
        /\ \A x \in Stages : x # s => out'[r][x] = out[r][x] /\ stage'[r][x] = stage[r][x]
    BY <1>0, <1>1, <1>4, <1>9 DEF FinishStage
  <2>3. FinishedIsNewest(r)'
    <3>1. SUFFICES ASSUME NEW x \in Done(stage'[r])
                   PROVE  /\ out'[r][x] \in MadeBy(r, x)'
                          /\ \A v \in MadeBy(r, x)' : v <= out'[r][x]
                          /\ artifact'[x][out'[r][x]].content = "final"
      BY DEF FinishedIsNewest
    <3>2. CASE x = s
      BY <1>6, <2>1, <2>2, <3>2
    <3>3. CASE x # s
      <4>1. x \in Stages /\ x \in Done(stage[r])
        BY <2>2, <3>3 DEF Done
      <4> QED BY <1>7, <2>2, <3>3, <4>1 DEF NewestOK, FinishedIsNewest
    <3> QED BY <3>2, <3>3
  <2>4. task'[t].pc = "midrefresh"
    BY <1>0, <1>9 DEF FinishStage, TaskState
  <2>5. DraftIsNewest(r)'
    BY <1>2, <2>4 DEF DraftIsNewest, At
  <2> QED BY <2>3, <2>5 DEF NewestOK
<1> QED BY <1>8, <1>9

\* An agent writes nothing of another run.
LEMMA AgentKeepsOwn ==
  ASSUME Typed, NEW t \in Tasks, NEW r \in Runs, r # task[t].run, Progress(t) \/ FinishStage(t)
  PROVE  OwnStays(r)
<1>0. TypeOK /\ TaskOK(t) /\ task[t] \in TaskState
  BY DEF Typed, TypeOK, TaskInv
<1> SUFFICES ASSUME NEW s, s = task[t].cur, NEW d, d = task[t].draft, NEW q, q = task[t].run
             PROVE  OwnStays(r)
  OBVIOUS
<1>1. /\ s \in Stages /\ d \in Nat /\ q \in Runs
      /\ d # 0 => d \in 1..Len(artifact[s]) /\ artifact[s][d].by = q
  BY <1>0 DEF TaskOK, TaskState, Progress, FinishStage, At
<1>2. PICK c \in {"partial", "final"} :
        artifact' = IF d = 0 THEN [artifact EXCEPT ![s] = Draft(s, c, q)]
                             ELSE [artifact EXCEPT ![s][d].content = c]
  BY DEF Progress, FinishStage
<1>3. CASE d = 0
  <2>1. artifact' = [artifact EXCEPT ![s] = Draft(s, c, q)]
    BY <1>2, <1>3
  <2> QED BY <1>0, <1>1, <2>1, DraftOwn
<1>4. CASE d # 0
  <2> DEFINE a == [artifact[s][d] EXCEPT !.content = c]
  <2>0. artifact \in [Stages -> Seq(Artifact)]
    BY <1>0 DEF TypeOK
  <2>1. artifact[s][d] \in Artifact
    BY <1>1, <1>4, <2>0
  <2>2. a \in Artifact /\ a.by = artifact[s][d].by
    BY <2>1 DEF Artifact
  <2>3. artifact' = [artifact EXCEPT ![s] = [@ EXCEPT ![d] = a]]
    BY <1>1, <1>2, <1>4, <2>0
  <2> HIDE DEF a
  <2> QED BY <1>0, <1>1, <1>4, <2>2, <2>3, RewriteOwn
<1> QED BY <1>3, <1>4

\* The other steps of a task.
LEMMA TaskKeepsNewest ==
  ASSUME Typed, LoopInv, NewestInv, NEW t \in Tasks, TaskStep(t), NEW r \in Runs \ crossed
  PROVE  NewestOK(r)'
<1>0. /\ task \in [Tasks -> TaskState] /\ task[t] \in TaskState
      /\ stage \in [Runs -> [Stages -> StageStatus]] /\ TaskOK(t)
      /\ LoopOK(r) /\ NewestOK(r)
  BY DEF Typed, TypeOK, TaskInv, LoopInv, NewestInv
<1>1. CASE r = task[t].run /\ (Progress(t) \/ FinishStage(t))
  BY <1>0, <1>1, AgentKeepsNewest
<1>2. ~ (Progress(t) \/ FinishStage(t)) => UNCHANGED <<artifact, out>>
  BY DEF TaskStep, Load, WorkerSkips, InitializeRun, Refresh, Exhaust, LoadStages,
     StartStage, FailStage, MidRefresh, MidLoad, Conclude, tables
<1>3. CASE r # task[t].run
  <2>1. OwnStays(r)
    <3>1. CASE UNCHANGED artifact
      BY <3>1 DEF OwnStays, MadeBy
    <3> QED BY <1>2, <1>3, <3>1, AgentKeepsOwn
  <2>2. stage'[r] = stage[r] /\ out'[r] = out[r] /\ HandsStay(r)
    BY <1>3, OtherRunsStay
  <2> QED BY <1>0, <2>1, <2>2, NothingNewest DEF HandsStay
<1>4. CASE r = task[t].run /\ ~ (Progress(t) \/ FinishStage(t))
  <2>1. UNCHANGED <<artifact, out>> /\ OwnStays(r)
    BY <1>2, <1>4 DEF OwnStays, MadeBy
  <2>2. \A s \in Stages :
          stage'[r][s] \in {"completed", "needs_review"} =>
            stage[r][s] \in {"completed", "needs_review"}
    <3>1. CASE UNCHANGED stage
      BY <3>1
    <3>2. CASE Load(t)
      BY <1>0, <3>2 DEF Load, Promoted
    <3>3. CASE InitializeRun(t)
      BY <1>0, <3>3 DEF InitializeRun
    <3>4. CASE StartStage(t)
      BY <1>0, <3>4 DEF StartStage, TaskOK, At, Flush
    <3>5. CASE FailStage(t)
      BY <1>0, <3>5 DEF FailStage, TaskOK, At
    <3> QED BY <1>4, <3>1, <3>2, <3>3, <3>4, <3>5 DEF TaskStep, WorkerSkips, Refresh, Exhaust,
               LoadStages, MidRefresh, MidLoad, Conclude, tables
  <2>3. task'[t].pc = "exec" => task'[t].draft = 0
    <3>1. CASE StartStage(t)
      BY <1>0, <3>1 DEF StartStage, TaskState
    <3>2. CASE Load(t) \/ InitializeRun(t) \/ Exhaust(t)
      BY <1>0, <3>2 DEF Load, InitializeRun, Exhaust, TaskState
    <3>3. CASE FailStage(t)
      BY <1>0, <3>3 DEF FailStage, TaskState
    <3>4. CASE Exit(t)
      BY <1>0, <3>4 DEF Exit, NoTask
    <3>5. CASE Refresh(t) \/ MidRefresh(t)
      <4>1. CASE ~ Exit(t)
        BY <1>0, <3>5, <4>1 DEF Refresh, MidRefresh, TaskState
      <4> QED BY <3>4, <4>1
    <3>6. CASE LoadStages(t)
      <4>1. CASE \E v : task' = [task EXCEPT ![t].pc = "conclude", ![t].verdict = v]
        BY <1>0, <4>1 DEF TaskState
      <4>2. CASE \E s, x, b : task' = [task EXCEPT ![t].pc = "start", ![t].cur = s,
                                          ![t].seen = x, ![t].batch = b]
        BY <1>0, <4>2 DEF TaskState
      <4> QED BY <3>6, <4>1, <4>2 DEF LoadStages
    <3>7. CASE MidLoad(t)
      <4> DEFINE b == task[t].batch
                 view == stage[task[t].run]
      <4>1. CASE task' = [task EXCEPT ![t].pc = "conclude", ![t].verdict = "failed",
                                      ![t].batch = {}]
        BY <1>0, <4>1 DEF TaskState
      <4>2. ASSUME NEW s \in b,
                   task' = [task EXCEPT ![t].pc = "start", ![t].cur = s,
                              ![t].seen = view[s], ![t].batch = b \ {s}]
            PROVE  task'[t].pc = "start"
        BY <1>0, <4>2 DEF TaskState
      <4>3. CASE task' = [task EXCEPT ![t].pc = "refresh"]
        BY <1>0, <4>3 DEF TaskState
      <4> QED BY <3>7, <4>1, <4>2, <4>3 DEF MidLoad
    <3> QED BY <1>4, <3>1, <3>2, <3>3, <3>4, <3>5, <3>6, <3>7 DEF TaskStep, WorkerSkips, Conclude
  <2>4. \A u \in Tasks : Serves(u, r)' /\ u # t => Serves(u, r) /\ task'[u] = task[u]
    BY OthersStay DEF Serves, At
  <2> QED BY <1>0, <2>1, <2>2, <2>3, <2>4, NothingNewest DEF Done, At
<1> QED BY <1>1, <1>3, <1>4

\* A request rewrites a version at most, and leaves a finished one finished.
LEMMA RequestKeepsOwn ==
  ASSUME Typed, Request, NEW r \in Runs
  PROVE  OwnStays(r)
<1>0. TypeOK /\ artifact \in [Stages -> Seq(Artifact)]
  BY DEF Typed, TypeOK
<1>1. CASE UNCHANGED artifact
  BY <1>1 DEF OwnStays, MadeBy
<1>2. ASSUME NEW s \in Stages, NEW v \in 1..Len(artifact[s]),
             \/ RejectArtifact(s, v) \/ EditArtifact(s, v)
             \/ \E c \in Clients : ApproveArtifact(c, s, v)
      PROVE  OwnStays(r)
  <2>1. artifact[s][v] \in Artifact
    BY <1>0
  <2>2. CASE RejectArtifact(s, v)
    <3> DEFINE a == [artifact[s][v] EXCEPT !.status = "rejected"]
    <3>1. a \in Artifact /\ a.by = artifact[s][v].by /\ a.content = artifact[s][v].content
      BY <2>1 DEF Artifact
    <3>2. artifact' = [artifact EXCEPT ![s] = [@ EXCEPT ![v] = a]]
      BY <1>0, <2>2 DEF RejectArtifact
    <3> HIDE DEF a
    <3> QED BY <1>0, <3>1, <3>2, RewriteOwn
  <2>3. CASE EditArtifact(s, v)
    <3> DEFINE a == [artifact[s][v] EXCEPT !.status = "draft", !.content = "final"]
    <3>1. a \in Artifact /\ a.by = artifact[s][v].by /\ a.content = "final"
      BY <2>1 DEF Artifact
    <3>2. artifact' = [artifact EXCEPT ![s] = [@ EXCEPT ![v] = a]]
      BY <1>0, <2>1, <2>3 DEF EditArtifact
    <3> HIDE DEF a
    <3> QED BY <1>0, <3>1, <3>2, RewriteOwn
  <2>4. CASE \E c \in Clients : ApproveArtifact(c, s, v)
    <3> DEFINE a == [artifact[s][v] EXCEPT !.status = "approved"]
    <3>1. a \in Artifact /\ a.by = artifact[s][v].by /\ a.content = artifact[s][v].content
      BY <2>1 DEF Artifact
    <3>2. artifact' = [artifact EXCEPT ![s] = [@ EXCEPT ![v] = a]]
      BY <1>0, <2>4 DEF ApproveArtifact
    <3> HIDE DEF a
    <3> QED BY <1>0, <3>1, <3>2, RewriteOwn
  <2> QED BY <1>2, <2>2, <2>3, <2>4
<1>3. ASSUME NEW c \in Clients, ControlStep(c)
      PROVE  \/ UNCHANGED artifact
             \/ \E s \in Stages : \E v \in 1..Len(artifact[s]) : ApproveArtifact(c, s, v)
  BY <1>3 DEF ControlStep, RequestPause, RequestResume, RequestCancel, RequestRetry, Accept, tables
<1>4. (\E c \in Clients : Commit(c)) \/ SubmitOnboarding \/ CreateRun
        \/ (\E q \in Runs : StartWorker(q)) => UNCHANGED artifact
  BY DEF Commit, CommitPause, CommitResume, CommitCancel, CommitRetry, WakePausedRun,
     SubmitOnboarding, CreateRun, StartWorker, tables
<1> QED BY <1>1, <1>2, <1>3, <1>4 DEF Request

\* The requests: a retry clears the outputs of failed stages only.
LEMMA RequestKeepsNewest ==
  ASSUME Typed, RetryResets, Request, NEW r \in Runs \ crossed', LoopOK(r), NewestOK(r)
  PROVE  NewestOK(r)'
<1>1. OwnStays(r) /\ RequestMoves(r)
  BY RequestKeepsOwn, RequestShape
<1>2. \A s \in Done(stage'[r]) : s \in Done(stage[r]) /\ out'[r][s] = out[r][s]
  BY <1>1 DEF RequestMoves, RowsKept, Retried, Done
<1>3. \A t \in Tasks : Serves(t, r)' /\ At(t, "exec")' => Serves(t, r) /\ task'[t] = task[t]
  BY <1>1 DEF RequestMoves, HandsStay, TakenUp, At
<1> QED BY <1>1, <1>2, <1>3, NothingNewest

\* The versions that are newest stay so.
LEMMA NewestStep ==
  ASSUME Typed, LoopInv, RetryResets, NewestInv, Next
  PROVE  NewestInv'
<1>0. crossed \subseteq crossed'
  BY HistoryGrows
<1>1. ASSUME NEW t \in Tasks, TaskDies(t), NEW r \in Runs \ crossed'
      PROVE  NewestOK(r)'
  <2>1. UNCHANGED <<artifact, stage, out>>
        /\ \A u \in Tasks : Serves(u, r)' => Serves(u, r) /\ task'[u] = task[u]
    BY <1>1, DeathStays DEF tables
  <2>2. OwnStays(r) /\ NewestOK(r)
    BY <1>0, <2>1 DEF OwnStays, MadeBy, NewestInv
  <2> QED BY <2>1, <2>2, NothingNewest
<1>2. ASSUME NEW t \in Tasks, TaskStep(t), NEW r \in Runs \ crossed'
      PROVE  NewestOK(r)'
  BY <1>0, <1>2, TaskKeepsNewest
<1>3. ASSUME Request, NEW r \in Runs \ crossed'
      PROVE  NewestOK(r)'
  BY <1>0, <1>3, RequestKeepsNewest DEF LoopInv, NewestInv
<1>4. (\E t \in Tasks : TaskStep(t) \/ TaskDies(t)) \/ Request
  BY DEF Next, Request
<1> QED BY <1>1, <1>2, <1>3, <1>4 DEF NewestInv

OutputInv == GateInv /\ LoopInv /\ NewestInv

\* What is put out stays newest along the run, given the gates and the loop.
LEMMA OutputIsInductive == OutputInv /\ [Next]_vars => OutputInv'
<1>1. OutputInv /\ Next => OutputInv'
  <2>1. OutputInv /\ Next => GateInv' /\ Typed /\ RetryResets
    BY GateStep DEF OutputInv, GateInv
  <2> QED BY <2>1, LoopStep, NewestStep DEF OutputInv
<1>2. OutputInv /\ UNCHANGED vars => OutputInv'
  <2>1. OutputInv /\ UNCHANGED vars => GateInv'
    BY GateStep DEF OutputInv
  <2>2. OutputInv /\ UNCHANGED vars => LoopInv' /\ NewestInv'
    BY DEF OutputInv, vars, LoopInv, LoopOK, OneServes, Serves, NewestInv, NewestOK,
           FinishedIsNewest, DraftIsNewest, MadeBy, At
  <2> QED BY <2>1, <2>2 DEF OutputInv
<1> QED BY <1>1, <1>2

\* Before the first request nothing has been put out.
LEMMA OutputInit == Init => OutputInv
<1>1. SUFFICES ASSUME Init PROVE OutputInv
  OBVIOUS
<1>2. GateInv /\ LoopInv
  BY <1>1, GateInit, LoopInit
<1>3. /\ \A r \in Runs : \A s \in Stages : stage[r][s] = "absent"
      /\ \A t \in Tasks : task[t].pc = "idle"
  BY <1>1 DEF Init, NoTask
<1> QED BY <1>2, <1>3 DEF OutputInv, NewestInv, NewestOK, FinishedIsNewest, DraftIsNewest, Done, At

\* The newest version of a type that a run has made is what its stage has put out
\* (stage_runner.py:66-172): executions that failed or died leave theirs behind it, and
\* other runs, however many, do not come between, until work on the run meets other work.
THEOREM OutputsAreNewest == Spec => []OutputIsNewest
<1>1. OutputInv => OutputIsNewest
  BY DEF OutputInv, NewestInv, NewestOK, FinishedIsNewest, OutputIsNewest, Done
<1> QED BY <1>1, OutputInit, OutputIsInductive, PTL DEF Spec

\* The greatest of some numbers up to n.
LEMMA GreatestExists ==
  ASSUME NEW n \in Nat, NEW S \in SUBSET (1..n), S # {}
  PROVE  \E v \in S : \A w \in S : w <= v
<1> DEFINE T == {n - v : v \in S}
           below == {pair \in Nat \X Nat : pair[1] < pair[2]}
<1>1. IsWellFoundedOn(below, Nat)
  BY NatLessThanWellFounded DEF OpToRel
<1>2. T \subseteq Nat /\ T # {}
  <2>1. \A v \in S : n - v \in Nat
    OBVIOUS
  <2> QED BY <2>1
<1>3. PICK i \in T : \A j \in T : ~ (<<j, i>> \in below)
  <2> HIDE DEF T, below
  <2> QED BY <1>1, <1>2, WFMin
<1>4. PICK v \in S : i = n - v
  OBVIOUS
<1>5. ASSUME NEW w \in S PROVE w <= v
  <2>1. n - w \in T /\ n - w \in Nat /\ i \in Nat
    BY <1>2
  <2>2. ~ (n - w < i)
    BY <1>3, <2>1
  <2> QED BY <1>4, <2>1, <2>2
<1> QED BY <1>5

\* The version a stage is given is an approved one, if there is any.
LEMMA InputIsApproved ==
  ASSUME Typed, NEW d \in Stages
  PROVE  \/ Input(d) = Len(artifact[d])
         \/ Input(d) \in 1..Len(artifact[d]) /\ artifact[d][Input(d)].status = "approved"
<1> DEFINE approved == {v \in 1..Len(artifact[d]) : artifact[d][v].status = "approved"}
<1>1. Len(artifact[d]) \in Nat
  BY DEF Typed, TypeOK
<1>2. CASE approved = {}
  BY <1>2 DEF Input
<1>3. CASE approved # {}
  <2>1. \E v \in approved : \A w \in approved : w <= v
    <3>1. approved \in SUBSET (1..Len(artifact[d]))
      OBVIOUS
    <3> HIDE DEF approved
    <3> QED BY <1>1, <1>3, <3>1, GreatestExists
  <2>2. Input(d) = CHOOSE v \in approved : \A w \in approved : w <= v
    BY <1>3 DEF Input
  <2>3. Input(d) \in approved
    <3> HIDE DEF approved
    <3> QED BY <2>1, <2>2
  <2> QED BY <2>3
<1> QED BY <1>2, <1>3

\* A stage is started when all it depends on is completed, and what it is given
\* (load_input_artifacts, stage_runner.py:44-62) is finished, or approved as it is, or the
\* work of another run: of its own run a stage never gets a leftover, however many runs
\* and tasks there are, until work on the run meets other work.
THEOREM StartsAfterDependencies == Spec => []StartedAfterDependencies
<1>1. OutputInv => StartedAfterDependencies
  <2>1. SUFFICES ASSUME OutputInv PROVE StartedAfterDependencies
    OBVIOUS
  <2>2. \A r \in Runs \ crossed : LoopOK(r) /\ NewestOK(r)
    BY <2>1 DEF OutputInv, LoopInv, NewestInv
  <2>3. ASSUME NEW t \in Tasks, task[t].pc \in {"start", "exec"}, task[t].run \notin crossed,
               NEW d \in DependsOn[task[t].cur]
        PROVE  /\ Input(d) # 0
               /\ \/ artifact[d][Input(d)].content = "final"
                  \/ artifact[d][Input(d)].by # task[t].run
                  \/ \E a \in approvals : a[1] = d /\ a[2] = Input(d)
    <3> SUFFICES ASSUME NEW r, r = task[t].run
                 PROVE  /\ Input(d) # 0
                        /\ \/ artifact[d][Input(d)].content = "final"
                           \/ artifact[d][Input(d)].by # r
                           \/ \E a \in approvals : a[1] = d /\ a[2] = Input(d)
      OBVIOUS
    <3>1. task[t].cur \in Stages /\ r \in Runs \ crossed /\ Typed
      BY <2>1, <2>3 DEF OutputInv, GateInv, Typed, TypeOK, TaskState, TaskInv, TaskOK
    <3>2. LoopOK(r) /\ NewestOK(r) /\ Serves(t, r)
      BY <2>2, <2>3, <3>1 DEF Serves, At
    <3>3. d \in Stages /\ stage[r][d] = "completed"
      BY <2>3, <3>1, <3>2, StagesAssumption DEF LoopOK, InHandOK, StagesInHand, Behind
    <3>4. /\ out[r][d] \in MadeBy(r, d)
          /\ \A v \in MadeBy(r, d) : v <= out[r][d]
          /\ artifact[d][out[r][d]].content = "final"
      BY <3>2, <3>3 DEF NewestOK, FinishedIsNewest, Done
    <3>5. Len(artifact[d]) \in Nat \ {0} /\ out[r][d] \in 1..Len(artifact[d])
      <4>1. Len(artifact[d]) \in Nat
        BY <3>1, <3>3 DEF Typed, TypeOK
      <4> QED BY <3>4, <4>1 DEF MadeBy
    <3>6. CASE Input(d) = Len(artifact[d])
      <4>1. CASE artifact[d][Input(d)].by = r
        <5>1. Len(artifact[d]) \in MadeBy(r, d)
          BY <3>5, <3>6, <4>1 DEF MadeBy
        <5>2. Len(artifact[d]) = out[r][d]
          BY <3>4, <3>5, <5>1
        <5> QED BY <3>4, <3>5, <3>6, <5>2
      <4> QED BY <3>5, <3>6, <4>1
    <3>7. CASE Input(d) \in 1..Len(artifact[d]) /\ artifact[d][Input(d)].status = "approved"
      BY <2>1, <3>3, <3>7 DEF OutputInv, GateInv, ApprovedIsRecorded, IsApproved
    <3> QED BY <3>1, <3>3, <3>6, <3>7, InputIsApproved
  <2> QED BY <2>2, <2>3 DEF StartedAfterDependencies, WorksOnFinishedWork, LoopOK, InOrder, Behind
<1> QED BY <1>1, OutputInit, OutputIsInductive, PTL DEF Spec

-----------------------------------------------------------------------------
(***************************************************************************)
(* What a run reports.  A task concludes from the rows as it has read them *)
(* and overwrites the status only of a run that goes on, so that a run     *)
(* nobody works on reports what its stages say.  A task that dies leaves a *)
(* stage running that nobody executes: of its run nothing is said.  With a *)
(* cycle in the graph a run would wait for a gate it has not.              *)
(***************************************************************************)

Reports == {"completed", "failed", "needs_review"}

\* What a status says of the stages.
Tells(status, view) ==
  /\ status = "completed" => \A s \in Stages : view[s] = "completed"
  /\ status = "failed" => HasFailed(view)
  /\ status = "needs_review" => /\ \E s \in Gates : view[s] = "needs_review"
                                /\ ~ HasFailed(view)
                                /\ Ready(view) = {}

ReviewsAreGates(view) == \A s \in Stages : view[s] = "needs_review" => s \in Gates

\* A task in its loop has seeded the stages, works on none after a failure, and what it
\* is about to report is so.
ReportInHand(p, view) ==
  /\ p.pc \in InLoop => \A s \in Stages : view[s] # "absent"
  /\ p.pc \in {"start", "exec"} => ~ HasFailed(view)
  /\ p.pc = "conclude" => p.verdict \in Reports /\ Tells(p.verdict, view)

\* No task works on the run yet, or any more.
Resting(r) == \A t \in Tasks : Serves(t, r) => At(t, "scheduled")

TellsOK(r) ==
  /\ ReviewsAreGates(stage[r])
  /\ \A t \in Tasks : Serves(t, r) => ReportInHand(task[t], stage[r])
  /\ Resting(r) => Tells(runStatus[r], stage[r])

TellsInv == \A r \in Runs \ (crossed \cup died) : TellsOK(r)

ReportInv == ServedInv /\ RetryResets /\ LoopInv /\ TellsInv

\* A stage of the run that is marked running is executed by the task that serves it.
LEMMA OneIsExecuted ==
  ASSUME ServedInv, NEW t \in Tasks, NEW r \in Runs \ died, OneServes(r), Serves(t, r)
  PROVE  \A s \in Stages : stage[r][s] = "running" => Executing(t, r, s)
<1>1. \A u \in Tasks : \A s \in Stages : Executing(u, r, s) => Serves(u, r)
  BY DEF Executing, Serves, At
<1> QED BY <1>1 DEF ServedInv, StageIsExecuted, OneServes

\* A run with nothing to start, nothing running and nothing failed is completed or
\* waits for a gate: otherwise the first pending stage of the graph could start.
LEMMA VerdictTells ==
  ASSUME NEW view \in [Stages -> StageStatus], ReviewsAreGates(view),
         \A s \in Stages : view[s] \notin {"absent", "running", "skipped"},
         ~ HasFailed(view), Ready(view) = {}
  PROVE  Verdict(view) \in Reports /\ Tells(Verdict(view), view)
<1> DEFINE waiting == {s \in Stages : view[s] = "pending"}
           all == {view[s] : s \in Stages}
<1>1. \A s \in Stages : view[s] \in {"pending", "needs_review", "completed"}
  BY DEF StageStatus, HasFailed
<1>2. "running" \notin all
  OBVIOUS
<1>3. CASE all \subseteq {"completed", "skipped"}
  <2>1. Verdict(view) = "completed"
    BY <1>2, <1>3 DEF Verdict
  <2>2. \A s \in Stages : view[s] = "completed"
    BY <1>3
  <2> QED BY <2>1, <2>2 DEF Tells, Reports
<1>4. CASE ~ (all \subseteq {"completed", "skipped"})
  <2>1. Verdict(view) = "needs_review"
    BY <1>2, <1>4 DEF Verdict
  <2>2. PICK s \in Stages : view[s] # "completed"
    BY <1>4
  <2>3. CASE \E d \in Stages : view[d] = "needs_review"
    BY <2>1, <2>3 DEF Tells, ReviewsAreGates, Reports
  <2>4. CASE \A d \in Stages : view[d] # "needs_review"
    <3>1. s \in waiting /\ waiting \in SUBSET Stages
      BY <1>1, <2>2, <2>4
    <3>2. PICK x \in waiting : DependsOn[x] \cap waiting = {}
      BY <3>1, GraphAssumption
    <3>3. \A d \in DependsOn[x] : view[d] = "completed"
      BY <1>1, <2>4, <3>2, StagesAssumption
    <3>4. x \in Ready(view)
      BY <3>2, <3>3 DEF Ready
    <3> QED BY <3>4
  <2> QED BY <2>3, <2>4
<1> QED BY <1>3, <1>4

\* What a step of task t does to its run and its session, as far as reports go.
ReportMoves(t) ==
  LET r == task[t].run
  IN  /\ ReviewsAreGates(stage'[r])
      /\ \/ task'[t].run = r /\ task'[t].pc \notin {"idle", "scheduled"}
            /\ ReportInHand(task'[t], stage'[r])
         \/ task'[t] = NoTask /\ Tells(runStatus'[r], stage'[r])

\* The limit of the loop is not reached.
LEMMA LoopGoesOn ==
  ASSUME Typed, NEW t \in Tasks, LoopOK(task[t].run)
  PROVE  ~ Exhaust(t)
<1>1. SUFFICES ASSUME At(t, "refresh"), Exhausted(t)
               PROVE  FALSE
  BY DEF Exhaust
<1>2. InHandOK(task[t], runStatus[task[t].run], stage[task[t].run])
  BY <1>1 DEF LoopOK, Serves, At
<1>3. task[t].iter <= Cardinality(Done(stage[task[t].run]))
  BY <1>1, <1>2 DEF InHandOK, LimitIsFar, At
<1>4. Cardinality(Stages) # 0
  BY StagesAssumption, FS_EmptySet
<1> QED BY <1>1, <1>3, <1>4, DoneIsFinite DEF Exhausted, MaxIterations

\* The step of a task that comes to a report, or gives it.
LEMMA EndsTell ==
  ASSUME ServedInv, NEW t \in Tasks, task[t].run \notin died,
         LoopOK(task[t].run), TellsOK(task[t].run),
         LoadStages(t) \/ MidLoad(t) \/ Conclude(t) \/ Exhaust(t)
  PROVE  ReportMoves(t)
<1> DEFINE p == task[t]
           q == task'[t]
           r == task[t].run
           view == stage[r]
<1>0. /\ task \in [Tasks -> TaskState] /\ p \in TaskState /\ r \in Runs
      /\ runStatus \in [Runs -> RunStatus] /\ view \in [Stages -> StageStatus]
      /\ ReviewsAreGates(view) /\ ReportInHand(p, view)
      /\ InHandOK(p, runStatus[r], view)
      /\ \A s \in Stages : view[s] # "skipped"
      /\ Serves(t, r) /\ OneServes(r)
  BY StepServes DEF ServedInv, Typed, TypeOK, TaskState, TellsOK, LoopOK, TaskStep
<1>1. UNCHANGED stage
  BY DEF LoadStages, MidLoad, Conclude, Exhaust, tables
<1>2. ~ Exhaust(t)
  BY LoopGoesOn DEF ServedInv
<1>3. p.pc \in InLoop /\ \A s \in Stages : view[s] # "absent"
  BY <1>0, <1>2 DEF LoadStages, MidLoad, Conclude, At, InLoop, ReportInHand
<1>4. ASSUME NEW v \in Reports, q.run = r, q.pc = "conclude", q.verdict = v, Tells(v, view)
      PROVE  ReportMoves(t)
  BY <1>0, <1>1, <1>3, <1>4 DEF ReportMoves, ReportInHand
<1>5. ASSUME q.run = r, q.pc = "refresh" \/ (q.pc = "start" /\ ~ HasFailed(view))
      PROVE  ReportMoves(t)
  BY <1>0, <1>1, <1>3, <1>5 DEF ReportMoves, ReportInHand
<1>6. "failed" \in Reports /\ (HasFailed(view) => Tells("failed", view))
  BY DEF Tells, Reports
<1>7. CASE LoadStages(t)
  <2>1. CASE HasFailed(view) /\ task' = [task EXCEPT ![t].pc = "conclude", ![t].verdict = "failed"]
    <3>1. q.run = r /\ q.pc = "conclude" /\ q.verdict = "failed"
      BY <1>0, <2>1 DEF TaskState
    <3> QED BY <1>4, <1>6, <2>1, <3>1
  <2>2. ASSUME NEW s \in Ready(view), ~ HasFailed(view),
               task' = [task EXCEPT ![t].pc = "start", ![t].cur = s,
                          ![t].seen = view[s], ![t].batch = Ready(view) \ {s}]
        PROVE  ReportMoves(t)
    <3>1. q.run = r /\ q.pc = "start"
      BY <1>0, <2>2 DEF TaskState
    <3> QED BY <1>5, <2>2, <3>1
  <2>3. CASE /\ ~ HasFailed(view) /\ Ready(view) = {}
             /\ task' = [task EXCEPT ![t].pc = "conclude", ![t].verdict = Verdict(view)]
    <3>1. q.run = r /\ q.pc = "conclude" /\ q.verdict = Verdict(view)
      BY <1>0, <2>3 DEF TaskState
    <3>2. \A s \in Stages : view[s] # "running"
      <4>1. \A s \in Stages : stage[r][s] = "running" => Executing(t, r, s)
        <5>1. r \in Runs \ died
          BY <1>0
        <5> HIDE DEF r
        <5> QED BY <1>0, <5>1, OneIsExecuted
      <4>2. p.pc = "load"
        BY <1>7 DEF LoadStages, At
      <4> QED BY <4>1, <4>2 DEF At, Executing
    <3>3. Verdict(view) \in Reports /\ Tells(Verdict(view), view)
      <4>1. \A s \in Stages : view[s] \notin {"absent", "running", "skipped"}
        BY <1>0, <1>3, <3>2
      <4> HIDE DEF view
      <4> QED BY <1>0, <2>3, <4>1, VerdictTells
    <3> QED BY <1>4, <3>1, <3>3
  <2> QED BY <1>7, <2>1, <2>2, <2>3 DEF LoadStages
<1>8. CASE MidLoad(t)
  <2>1. CASE /\ HasFailed(view)
             /\ task' = [task EXCEPT ![t].pc = "conclude", ![t].verdict = "failed", ![t].batch = {}]
    <3>1. q.run = r /\ q.pc = "conclude" /\ q.verdict = "failed"
      BY <1>0, <2>1 DEF TaskState
    <3> QED BY <1>4, <1>6, <2>1, <3>1
  <2>2. ASSUME NEW s \in p.batch, ~ HasFailed(view),
               task' = [task EXCEPT ![t].pc = "start", ![t].cur = s,
                          ![t].seen = view[s], ![t].batch = p.batch \ {s}]
        PROVE  ReportMoves(t)
    <3>1. q.run = r /\ q.pc = "start"
      BY <1>0, <2>2 DEF TaskState
    <3> QED BY <1>5, <2>2, <3>1
  <2>3. CASE task' = [task EXCEPT ![t].pc = "refresh"]
    <3>1. q.run = r /\ q.pc = "refresh"
      BY <1>0, <2>3 DEF TaskState
    <3> QED BY <1>5, <3>1
  <2> QED BY <1>8, <2>1, <2>2, <2>3 DEF MidLoad
<1>9. CASE Conclude(t)
  <2>1. q = NoTask /\ runStatus'[r] = Flush(p.rs, p.verdict, runStatus[r])
    BY <1>0, <1>9 DEF Conclude, Exit
  <2>2. runStatus[r] \in Going /\ p.verdict \in Reports /\ Tells(p.verdict, view)
    BY <1>0, <1>3, <1>9 DEF Conclude, At, ReportInHand, InHandOK, StatusInHand
  <2>3. Tells(runStatus'[r], view)
    <3>1. CASE p.rs = p.verdict
      BY <2>1, <2>2, <3>1 DEF Flush, Going, Tells
    <3>2. CASE p.rs # p.verdict
      BY <2>1, <2>2, <3>2 DEF Flush
    <3> QED BY <3>1, <3>2
  <2> QED BY <1>0, <1>1, <2>1, <2>3 DEF ReportMoves
<1> QED BY <1>2, <1>7, <1>8, <1>9

\* The other steps of a task.
LEMMA WorkTells ==
  ASSUME ServedInv, NEW t \in Tasks, LoopOK(task[t].run), TellsOK(task[t].run),
         \/ Load(t) \/ WorkerSkips(t) \/ InitializeRun(t) \/ Refresh(t) \/ MidRefresh(t)
         \/ StartStage(t) \/ Progress(t) \/ FinishStage(t) \/ FailStage(t)
  PROVE  ReportMoves(t)
<1> DEFINE p == task[t]
           q == task'[t]
           r == task[t].run
           view == stage[r]
<1>0. /\ task \in [Tasks -> TaskState] /\ p \in TaskState /\ r \in Runs /\ TaskOK(t)
      /\ runStatus \in [Runs -> RunStatus] /\ stage \in [Runs -> [Stages -> StageStatus]]
      /\ view \in [Stages -> StageStatus]
      /\ ReviewsAreGates(view) /\ ReportInHand(p, view)
      /\ InHandOK(p, runStatus[r], view)
      /\ Resting(r) => Tells(runStatus[r], view)
      /\ runStatus[r] # "cancelled"
      /\ Serves(t, r) /\ OneServes(r)
  BY StepServes DEF ServedInv, Typed, TypeOK, TaskInv, TaskState, TellsOK, LoopOK, TaskStep
<1>1. CASE Load(t)
  <2>1. q.run = r /\ q.pc = "init"
    BY <1>0, <1>1 DEF Load, TaskState
  <2>2. ReviewsAreGates(stage'[r])
    BY <1>0, <1>1 DEF Load, ReviewsAreGates
  <2> QED BY <2>1, <2>2 DEF ReportMoves, ReportInHand, InLoop
<1>2. CASE InitializeRun(t)
  <2>1. q.run = r /\ q.pc = "refresh"
    BY <1>0, <1>2 DEF InitializeRun, TaskState
  <2>2. ReviewsAreGates(stage'[r]) /\ \A s \in Stages : stage'[r][s] # "absent"
    BY <1>0, <1>2 DEF InitializeRun, ReviewsAreGates
  <2> QED BY <2>1, <2>2 DEF ReportMoves, ReportInHand
<1>3. CASE Refresh(t) \/ MidRefresh(t)
  <2>1. UNCHANGED <<stage, runStatus>>
    BY <1>3 DEF Refresh, MidRefresh, tables
  <2>2. CASE runStatus[r] \in {"paused", "cancelled"}
    <3>1. q = NoTask
      BY <1>0, <1>3, <2>2 DEF Refresh, MidRefresh, Exit
    <3>2. Tells(runStatus[r], view)
      BY <1>0, <2>2 DEF Tells
    <3> QED BY <1>0, <2>1, <3>1, <3>2 DEF ReportMoves
  <2>3. CASE runStatus[r] \notin {"paused", "cancelled"}
    <3>1. q.run = r /\ q.pc \in {"load", "midload"}
      BY <1>0, <1>3, <2>3 DEF Refresh, MidRefresh, TaskState
    <3>2. p.pc \in InLoop
      BY <1>3 DEF Refresh, MidRefresh, At, InLoop
    <3> QED BY <1>0, <2>1, <3>1, <3>2 DEF ReportMoves, ReportInHand
  <2> QED BY <2>2, <2>3
<1>4. CASE WorkerSkips(t)
  <2>1. q = NoTask /\ UNCHANGED <<stage, runStatus>>
    BY <1>0, <1>4 DEF WorkerSkips, Exit, tables
  <2>2. Resting(r)
    BY <1>0, <1>4 DEF WorkerSkips, Resting, OneServes
  <2> QED BY <1>0, <2>1, <2>2 DEF ReportMoves
<1>5. CASE StartStage(t) \/ Progress(t) \/ FinishStage(t) \/ FailStage(t)
  <2>1. /\ p.pc \in InLoop /\ p.cur \in Stages
    BY <1>0, <1>5 DEF StartStage, Progress, FinishStage, FailStage, At, InLoop, TaskOK
  <2>2. q.run = r /\ q.pc \in {"exec", "midrefresh"}
    <3>1. CASE StartStage(t)
      BY <1>0, <3>1 DEF StartStage, TaskState
    <3>2. CASE Progress(t)
      BY <1>0, <3>2 DEF Progress, TaskState, At
    <3>3. CASE FinishStage(t)
      BY <1>0, <3>3 DEF FinishStage, TaskState
    <3>4. CASE FailStage(t)
      BY <1>0, <3>4 DEF FailStage, TaskState
    <3> QED BY <1>5, <3>1, <3>2, <3>3, <3>4
  <2>3. /\ \A s \in Stages : stage'[r][s] = view[s] \/ stage'[r][s] \notin {"absent", "needs_review"}
                             \/ (s \in Gates /\ stage'[r][s] = "needs_review")
    <3>1. CASE StartStage(t)
      BY <1>0, <2>1, <3>1 DEF StartStage, Flush
    <3>2. CASE Progress(t)
      BY <3>2 DEF Progress
    <3>3. CASE FinishStage(t)
      BY <1>0, <2>1, <3>3 DEF FinishStage
    <3>4. CASE FailStage(t)
      BY <1>0, <2>1, <3>4 DEF FailStage
    <3> QED BY <1>5, <3>1, <3>2, <3>3, <3>4
  <2>4. q.pc = "exec" => ~ HasFailed(stage'[r])
    <3>1. CASE StartStage(t)
      BY <1>0, <2>1, <3>1 DEF StartStage, Flush, HasFailed, ReportInHand, At
    <3>2. CASE Progress(t)
      BY <1>0, <3>2 DEF Progress, HasFailed, ReportInHand, At
    <3>3. CASE FinishStage(t) \/ FailStage(t)
      BY <1>0, <3>3 DEF FinishStage, FailStage, TaskState
    <3> QED BY <1>5, <3>1, <3>2, <3>3
  <2> QED BY <1>0, <2>1, <2>2, <2>3, <2>4 DEF ReportMoves, ReportInHand, ReviewsAreGates
<1> QED BY <1>1, <1>2, <1>3, <1>4, <1>5

\* A step that leaves the rows of a run, and what serves it, alone.
LEMMA RestTells ==
  ASSUME NEW r \in Runs, TellsOK(r), stage'[r] = stage[r], HandsStay(r),
         runStatus'[r] \in {runStatus[r], "paused"}
  PROVE  TellsOK(r)'
<1>1. Resting(r)' => Resting(r)
  BY DEF Resting, Serves, At, HandsStay
<1>2. Tells("paused", stage[r])
  BY DEF Tells
<1>3. \A t \in Tasks : Serves(t, r)' => ReportInHand(task'[t], stage'[r])
  BY DEF TellsOK, HandsStay
<1> QED BY <1>1, <1>2, <1>3 DEF TellsOK

\* A step of a task that ends or starts its work leaves the reports true.
LEMMA TaskTells ==
  ASSUME ServedInv, LoopInv, TellsInv, NEW t \in Tasks, TaskStep(t)
  PROVE  TellsInv'
<1>1. SUFFICES ASSUME NEW r \in Runs \ (crossed \cup died) PROVE TellsOK(r)'
  BY TaskKeepsHistory DEF TellsInv
<1>2. LoopOK(r) /\ TellsOK(r) /\ Typed
  BY DEF LoopInv, TellsInv, ServedInv
<1>3. CASE r # task[t].run
  <2>1. stage'[r] = stage[r] /\ runStatus'[r] = runStatus[r] /\ HandsStay(r)
    BY <1>2, <1>3, OtherRunsStay
  <2> QED BY <1>2, <2>1, RestTells
<1>4. CASE r = task[t].run
  <2>1. LoopOK(task[t].run) /\ TellsOK(task[t].run) /\ task[t].run \notin died
    BY <1>2, <1>4
  <2>2. ReportMoves(t)
    BY <2>1, EndsTell, WorkTells DEF TaskStep
  <2>3. \A u \in Tasks \ {t} : task'[u] = task[u] /\ ~ Serves(u, r)
    BY <1>2, <1>4, StepServes, OthersStay DEF LoopOK, OneServes
  <2>4. \A u \in Tasks : Serves(u, r)' => u = t
    BY <2>3 DEF Serves, At
  <2>5. CASE /\ task'[t].run = r /\ task'[t].pc \notin {"idle", "scheduled"}
             /\ ReportInHand(task'[t], stage'[r])
    <3>1. ~ Resting(r)'
      BY <2>5 DEF Resting, Serves, At
    <3> QED BY <1>4, <2>2, <2>4, <2>5, <3>1 DEF TellsOK, ReportMoves
  <2>6. CASE task'[t] = NoTask /\ Tells(runStatus'[r], stage'[r])
    <3>1. ~ Serves(t, r)'
      BY <2>6 DEF Serves, At, NoTask
    <3> QED BY <1>4, <2>2, <2>4, <2>6, <3>1 DEF TellsOK, ReportMoves
  <2> QED BY <1>4, <2>2, <2>5, <2>6 DEF ReportMoves
<1> QED BY <1>3, <1>4

\* The requests: a pause and a start are reports in themselves, the others report nothing.
LEMMA RequestTells ==
  ASSUME NEW r \in Runs, TellsOK(r), RequestMoves(r)
  PROVE  TellsOK(r)'
<1>1. ASSUME NEW kind, TakenUp(r, kind), ReviewsAreGates(stage'[r]),
             Tells(runStatus'[r], stage'[r])
      PROVE  TellsOK(r)'
  <2>1. \A t \in Tasks : Serves(t, r)' => task'[t].pc = "scheduled"
    BY <1>1 DEF TakenUp
  <2> QED BY <1>1, <2>1 DEF TellsOK, ReportInHand, InLoop
<1>2. ASSUME NEW kind, TakenUp(r, kind) PROVE Tells(runStatus[r], stage[r])
  BY <1>2 DEF TakenUp, TellsOK, Resting
<1>3. \A view : Tells("queued", view) /\ Tells("running", view)
  BY DEF Tells
<1>4. CASE HandsStay(r) /\ RowsKept(r) /\ runStatus'[r] \in {runStatus[r], "paused"}
  BY <1>4, RestTells DEF RowsKept
<1>5. ASSUME NEW kind, TakenUp(r, kind), RowsKept(r),
             runStatus'[r] \in {runStatus[r], "queued", "running"}
      PROVE  TellsOK(r)'
  <2>1. Tells(runStatus'[r], stage'[r])
    BY <1>2, <1>3, <1>5 DEF RowsKept
  <2>2. ReviewsAreGates(stage'[r])
    BY <1>5 DEF RowsKept, TellsOK
  <2> QED BY <1>1, <1>5, <2>1, <2>2
<1>6. CASE TakenUp(r, "resume") /\ Retried(r)
  <2>1. ReviewsAreGates(stage'[r]) /\ runStatus'[r] = "running"
    BY <1>6 DEF Retried, TellsOK, ReviewsAreGates
  <2> QED BY <1>1, <1>3, <1>6, <2>1
<1> QED BY <1>4, <1>5, <1>6 DEF RequestMoves

\* The invariant of the reports is inductive: a run that work has met on, or of which a
\* task has died, is out of it for good.
LEMMA ReportIsInductive == ReportInv /\ [Next]_vars => ReportInv'
<1>1. ASSUME ReportInv, Next PROVE ReportInv'
  <2>1. ServedInv' /\ RetryResets' /\ LoopInv' /\ Typed
    BY <1>1, ServedStep, StepRetry, LoopStep DEF ReportInv, ServedInv
  <2>2. CASE \E t \in Tasks : TaskStep(t)
    BY <1>1, <2>1, <2>2, TaskTells DEF ReportInv
  <2>3. ASSUME NEW t \in Tasks, TaskDies(t) PROVE TellsInv'
    <3>1. SUFFICES ASSUME NEW r \in Runs \ (crossed' \cup died') PROVE TellsOK(r)'
      BY DEF TellsInv
    <3>2. /\ stage'[r] = stage[r] /\ runStatus'[r] = runStatus[r]
          /\ r # task[t].run /\ r \notin crossed /\ r \notin died
      BY <2>1, <2>3, DeathStays DEF tables
    <3>3. HandsStay(r)
      BY <2>1, <2>3, <3>2, DeathStays
    <3>4. TellsOK(r)
      BY <1>1, <3>2 DEF ReportInv, TellsInv
    <3> QED BY <3>2, <3>3, <3>4, RestTells
  <2>4. ASSUME Request PROVE TellsInv'
    <3>1. SUFFICES ASSUME NEW r \in Runs \ (crossed' \cup died') PROVE TellsOK(r)'
      BY DEF TellsInv
    <3>2. RequestMoves(r)
      BY <1>1, <2>1, <2>4, RequestShape DEF ReportInv
    <3>3. TellsOK(r)
      BY <1>1, HistoryGrows DEF ReportInv, TellsInv
    <3> QED BY <3>2, <3>3, RequestTells
  <2>5. (\E t \in Tasks : TaskStep(t) \/ TaskDies(t)) \/ Request
    BY <1>1 DEF Next, Request
  <2> QED BY <1>1, <2>1, <2>2, <2>3, <2>4, <2>5 DEF ReportInv
<1>2. ReportInv /\ UNCHANGED vars => ReportInv'
  <2>1. ReportInv /\ UNCHANGED vars => ServedInv' /\ RetryResets'
    BY ServedStep DEF ReportInv, RetryResets, vars
  <2>2. ReportInv /\ UNCHANGED vars => LoopInv' /\ TellsInv'
    BY DEF ReportInv, vars, LoopInv, LoopOK, OneServes, TellsInv, TellsOK, Resting, Serves, At
  <2> QED BY <2>1, <2>2 DEF ReportInv
<1> QED BY <1>1, <1>2

\* Before the first request there is nothing to report.
LEMMA ReportInit == Init => ReportInv
<1>1. SUFFICES ASSUME Init PROVE ReportInv
  OBVIOUS
<1>2. /\ \A r \in Runs : runStatus[r] = "none"
      /\ \A r \in Runs : \A s \in Stages : stage[r][s] = "absent"
      /\ \A t \in Tasks : At(t, "idle")
  BY <1>1 DEF Init, NoTask, At
<1>3. TellsInv
  BY <1>2 DEF TellsInv, TellsOK, ReviewsAreGates, Serves, Tells
<1> QED BY <1>1, <1>3, ServedInit, LoopsInit DEF ReportInv, LoopsInv

\* What a run nobody works on reports is what its stages say (the verdicts of
\* orchestrator.py:222-290): completed if all are, failed if one is, under review if a
\* gate waits; until work on the run meets other work or a task of it dies.
THEOREM StatusIsTrue == Spec => []StatusTellsStages
<1>1. ReportInv => StatusTellsStages
  BY DEF ReportInv, TellsInv, TellsOK, Resting, Tells, HasFailed, StatusTellsStages
<1> QED BY <1>1, ReportInit, ReportIsInductive, PTL DEF Spec

-----------------------------------------------------------------------------
(***************************************************************************)
(* The promise of RunLifecycle.  Each commit of a task or of a request is  *)
(* a step of a run as its user sees it, or changes nothing that she sees.  *)
(* The guards of that step are what the code knows no more by the time it  *)
(* commits: they were checked when it read, and the invariants say what is *)
(* left of it, of a run that has not come loose.                           *)
(***************************************************************************)

Loose == crossed \cup died

Stutters == UNCHANGED <<runStatus, Rows, Asked>>

Follows == Lifecycle!Next \/ (Stutters /\ UNCHANGED Loose)

\* A step of the task that serves run r, seen from outside.
Shows(r) == Lifecycle!Step(r) \/ Stutters

\* A row of the abstract table, in one state and in two.
LEMMA RowIs ==
  \A r \in Runs : \A s \in Stages :
    Rows[r][s] = IF stage[r][s] = "absent" THEN "pending" ELSE stage[r][s]
BY DEF Rows

\* The table follows from the stages.
LEMMA RowsStay == UNCHANGED stage => UNCHANGED Rows
BY DEF Rows

\* What is asked follows from the requests.
LEMMA AskedStays == UNCHANGED req => UNCHANGED Asked
BY DEF Asked

\* One row changes: so does the abstract table.
LEMMA RowMoves ==
  ASSUME stage \in [Runs -> [Stages -> StageStatus]], NEW r \in Runs, NEW s \in Stages,
         NEW new \in StageStatus \ {"absent"}, stage' = [stage EXCEPT ![r][s] = new]
  PROVE  Rows' = [Rows EXCEPT ![r][s] = new]
<1>1. Rows' = [q \in Runs |-> [d \in Stages |->
                IF stage'[q][d] = "absent" THEN "pending" ELSE stage'[q][d]]]
  BY DEF Rows
<1>2. \A q \in Runs : \A d \in Stages :
        stage'[q][d] = IF q = r /\ d = s THEN new ELSE stage[q][d]
  OBVIOUS
<1>3. \A q \in Runs : \A d \in Stages :
        (IF stage'[q][d] = "absent" THEN "pending" ELSE stage'[q][d])
          = IF q = r /\ d = s THEN new ELSE Rows[q][d]
  BY <1>2, RowIs
<1>4. [Rows EXCEPT ![r][s] = new]
        = [q \in Runs |-> [d \in Stages |-> IF q = r /\ d = s THEN new ELSE Rows[q][d]]]
  BY DEF Rows
<1> QED BY <1>1, <1>3, <1>4

\* Some rows of run r become `new`.
RowsBecome(r, set, new) ==
  stage' = [stage EXCEPT ![r] = [s \in Stages |-> IF s \in set THEN new ELSE stage[r][s]]]

\* So do those of the abstract table.
LEMMA SomeRowsMove ==
  ASSUME stage \in [Runs -> [Stages -> StageStatus]], NEW r \in Runs, NEW set \in SUBSET Stages,
         NEW new \in StageStatus \ {"absent"}, RowsBecome(r, set, new)
  PROVE  Rows' = [Rows EXCEPT ![r] =
                   [s \in Stages |-> IF s \in set THEN new ELSE Rows[r][s]]]
<1>1. \A q \in Runs : \A d \in Stages :
        stage'[q][d] = IF q = r /\ d \in set THEN new ELSE stage[q][d]
  BY DEF RowsBecome
<1>2. \A q \in Runs : \A d \in Stages :
        Rows'[q][d] = IF stage'[q][d] = "absent" THEN "pending" ELSE stage'[q][d]
  BY DEF Rows
<1>3. \A q \in Runs : \A d \in Stages :
        Rows'[q][d] = IF q = r /\ d \in set THEN new ELSE Rows[q][d]
  BY <1>1, <1>2, RowIs
<1>4. /\ Rows = [q \in Runs |-> [d \in Stages |-> Rows[q][d]]]
      /\ Rows' = [q \in Runs |-> [d \in Stages |-> Rows'[q][d]]]
  BY DEF Rows
<1> QED BY SMTT(60), <1>3, <1>4

\* Those that are promoted, for one.
LEMMA RowsComplete ==
  ASSUME stage \in [Runs -> [Stages -> StageStatus]], NEW r \in Runs, NEW set \in SUBSET Stages,
         RowsBecome(r, set, "completed")
  PROVE  Rows' = [Rows EXCEPT ![r] =
                   [s \in Stages |-> IF s \in set THEN "completed" ELSE Rows[r][s]]]
<1>1. "completed" \in StageStatus \ {"absent"}
  BY DEF StageStatus
<1> QED BY <1>1, SomeRowsMove

\* A step of a run is one of the lifecycle.
LEMMA StepFollows ==
  ASSUME NEW r \in Runs, Lifecycle!Step(r) \/ Stutters, UNCHANGED Loose
  PROVE  Follows
BY DEF Follows, Loose, Lifecycle!Next

\* So is what becomes of a run that comes loose.
LEMMA LooseIsNext ==
  ASSUME NEW r \in Runs, Lifecycle!GoesLoose(r)
  PROVE  Follows
BY DEF Follows, Lifecycle!Next

\* What is asked of the runs other than r stays.
AskedElsewhereStays(r) == {a \in Asked' : a[2] # r} = {a \in Asked : a[2] # r}

\* Whatever happens to a run that comes loose, or is so, leaves the others alone.
LEMMA LooseFollows ==
  ASSUME TypeOK, TypeOK', NEW r \in Runs, Loose' = Loose \cup {r}, AskedElsewhereStays(r),
         \A q \in Runs : q # r => runStatus'[q] = runStatus[q] /\ stage'[q] = stage[q]
  PROVE  Follows
<1>1. runStatus' = [runStatus EXCEPT ![r] = runStatus'[r]]
  BY DEF TypeOK
<1>2. Rows' = [Rows EXCEPT ![r] = Rows'[r]]
  <2>1. \A q \in Runs : q # r => Rows'[q] = Rows[q]
    BY DEF Rows
  <2>2. Rows = [q \in Runs |-> Rows[q]] /\ Rows' = [q \in Runs |-> Rows'[q]]
    BY DEF Rows
  <2> QED BY <2>1, <2>2
<1>3. Lifecycle!GoesLoose(r)
  BY <1>1, <1>2 DEF Lifecycle!GoesLoose, Loose, AskedElsewhereStays
<1> QED BY <1>3, LooseIsNext

\* The task that serves a run executes no stage of it unless it is at that.
LEMMA NothingRuns ==
  ASSUME ServedInv, NEW t \in Tasks, NEW r \in Runs \ died, OneServes(r), Serves(t, r),
         ~ At(t, "exec")
  PROVE  Lifecycle!Quiescent(r)
<1>1. \A s \in Stages : stage[r][s] # "running"
  BY OneIsExecuted DEF Executing
<1> QED BY <1>1, RowIs DEF Lifecycle!Quiescent, Lifecycle!Has

\* A task takes up a run, or starts to work on it.
LEMMA BeginFollows ==
  ASSUME ServedInv, NEW t \in Tasks, task[t].run \notin died, LoopOK(task[t].run), TellsOK(task[t].run),
         Load(t) \/ InitializeRun(t)
  PROVE  Shows(task[t].run)
<1> DEFINE p == task[t]
           r == task[t].run
<1>0. /\ p \in TaskState /\ r \in Runs
      /\ runStatus \in [Runs -> RunStatus] /\ stage \in [Runs -> [Stages -> StageStatus]]
      /\ StatusInHand(p, runStatus[r])
      /\ Serves(t, r) /\ OneServes(r) /\ r \in Runs \ died
  BY StepServes DEF ServedInv, Typed, TypeOK, TaskState, LoopOK, InHandOK, TaskStep
<1>1. UNCHANGED Asked
  BY AskedStays DEF Load, InitializeRun
<1>2. Lifecycle!Quiescent(r)
  <2>1. ~ At(t, "exec")
    BY DEF Load, InitializeRun, At
  <2> HIDE DEF r
  <2> QED BY <1>0, <2>1, NothingRuns
<1>3. CASE Load(t)
  <2>1. UNCHANGED runStatus
    BY <1>3 DEF Load
  <2>2. CASE p.kind # "resume"
    <3>1. UNCHANGED stage
      BY <1>3, <2>2 DEF Load
    <3> QED BY <1>1, <2>1, <3>1, RowsStay DEF Shows, Stutters
  <2>3. CASE p.kind = "resume"
    <3> DEFINE approved == Promoted(r)
    <3>0. r \in Runs /\ "completed" \in StageStatus \ {"absent"}
      BY <1>0 DEF StageStatus
    <3>1. RowsBecome(r, approved, "completed")
      BY <1>3, <2>3 DEF Load, RowsBecome
    <3>2. approved \in SUBSET {s \in Stages : Rows[r][s] = "needs_review"}
      BY <1>0, RowIs DEF Promoted
    <3> HIDE DEF approved
    <3>3. Rows' = [Rows EXCEPT ![r] = [s \in Stages |->
                     IF s \in approved THEN "completed" ELSE Rows[r][s]]]
      <4>1. approved \in SUBSET Stages
        BY <3>2
      <4> HIDE DEF r
      <4> QED BY <1>0, <3>0, <3>1, <4>1, RowsComplete
    <3>4. runStatus[r] \in Open
      BY <1>0, <1>3, <2>3 DEF Load, At, StatusInHand
    <3>5. Lifecycle!Approve(r)
      BY <1>1, <1>2, <2>1, <3>2, <3>3, <3>4 DEF Lifecycle!Approve, Open
    <3> QED BY <3>0, <3>5 DEF Shows, Lifecycle!Step
  <2> QED BY <2>2, <2>3
<1>4. CASE InitializeRun(t)
  <2>1. UNCHANGED Rows
    <3>1. stage' = [stage EXCEPT ![r] = [s \in Stages |->
                      IF stage[r][s] = "absent" THEN "pending" ELSE stage[r][s]]]
      BY <1>4 DEF InitializeRun
    <3>2. \A q \in Runs : \A d \in Stages :
            (IF stage'[q][d] = "absent" THEN "pending" ELSE stage'[q][d])
              = IF stage[q][d] = "absent" THEN "pending" ELSE stage[q][d]
      BY <1>0, <3>1
    <3> QED BY <3>2 DEF Rows
  <2>2. runStatus' = [runStatus EXCEPT ![r] = Flush(p.rs, "running", runStatus[r])]
        /\ runStatus[r] \in Open
    BY <1>0, <1>4 DEF InitializeRun, At, StatusInHand
  <2>3. CASE p.rs = "running"
    BY <1>0, <1>1, <2>1, <2>2, <2>3 DEF Flush, Shows, Stutters
  <2>4. CASE p.rs # "running"
    <3>1. Lifecycle!Begin(r)
      BY <1>1, <1>2, <2>1, <2>2, <2>4 DEF Lifecycle!Begin, Lifecycle!SetStatus, Flush, Open
    <3> QED BY <1>0, <3>1 DEF Shows, Lifecycle!Step
  <2> QED BY <2>3, <2>4
<1> QED BY <1>3, <1>4

\* A task starts a stage: nothing has failed before, and all that it depends on is done.
LEMMA StartFollows ==
  ASSUME ServedInv, NEW t \in Tasks, task[t].run \notin died, LoopOK(task[t].run), TellsOK(task[t].run),
         StartStage(t)
  PROVE  Shows(task[t].run)
<1> DEFINE p == task[t]
           r == task[t].run
           s == task[t].cur
           view == stage[r]
<1>0. /\ p \in TaskState /\ r \in Runs /\ s \in Stages
      /\ runStatus \in [Runs -> RunStatus] /\ stage \in [Runs -> [Stages -> StageStatus]]
      /\ p.pc = "start" /\ runStatus[r] \in Going
      /\ view[s] = "pending" /\ Behind(view, s) /\ p.seen = "pending" /\ ~ HasFailed(view)
      /\ Serves(t, r) /\ OneServes(r) /\ r \in Runs \ died
  BY StepServes DEF ServedInv, Typed, TypeOK, TaskInv, TaskOK, TaskState, LoopOK, InHandOK,
     StatusInHand, StagesInHand, InLoop, TellsOK, ReportInHand, StartStage, At, TaskStep
<1>1. UNCHANGED <<runStatus, Asked>>
  BY AskedStays DEF StartStage
<1>2. Lifecycle!Quiescent(r)
  <2> HIDE DEF r
  <2> QED BY <1>0, NothingRuns DEF At
<1>3. Rows' = [Rows EXCEPT ![r][s] = "running"]
  <2>1. stage' = [stage EXCEPT ![r][s] = "running"]
    BY <1>0 DEF StartStage, Flush
  <2> HIDE DEF r, s
  <2> QED BY <1>0, <2>1, RowMoves DEF StageStatus
<1>4. Lifecycle!CanStart(r, s)
  BY <1>0, RowIs, StagesAssumption DEF Lifecycle!CanStart, Behind
<1>5. ~ Lifecycle!Has(r, "failed")
  BY <1>0, RowIs DEF Lifecycle!Has, HasFailed
<1>6. Lifecycle!Start(r, s)
  BY <1>0, <1>1, <1>2, <1>3, <1>4, <1>5
  DEF Lifecycle!Start, Lifecycle!SetRow, Lifecycle!GoesOn, Going
<1> QED BY <1>0, <1>6 DEF Shows, Lifecycle!Step

\* The agent of a stage answers or raises.
LEMMA EndFollows ==
  ASSUME ServedInv, NEW t \in Tasks, task[t].run \notin died, LoopOK(task[t].run), TellsOK(task[t].run),
         FinishStage(t) \/ FailStage(t)
  PROVE  Shows(task[t].run)
<1> DEFINE p == task[t]
           r == task[t].run
           s == task[t].cur
<1>0. /\ p \in TaskState /\ r \in Runs /\ s \in Stages
      /\ stage \in [Runs -> [Stages -> StageStatus]]
      /\ runStatus[r] \in Going /\ stage[r][s] = "running"
  BY StepServes DEF ServedInv, Typed, TypeOK, TaskInv, TaskOK, TaskState, LoopOK, InHandOK,
     StatusInHand, StagesInHand, InLoop, FinishStage, FailStage, At, TaskStep
<1>1. UNCHANGED <<runStatus, Asked>>
  BY AskedStays DEF FinishStage, FailStage
<1>2. Rows[r][s] = "running"
  BY <1>0, RowIs
<1>3. ASSUME NEW new \in StageStatus \ {"absent"}, stage' = [stage EXCEPT ![r][s] = new]
      PROVE  Rows' = [Rows EXCEPT ![r][s] = new]
  <2> HIDE DEF r, s
  <2> QED BY <1>0, <1>3, RowMoves
<1>4. CASE FinishStage(t)
  <2>1. stage' = [stage EXCEPT ![r][s] = IF s \in Gates THEN "needs_review" ELSE "completed"]
    BY <1>4 DEF FinishStage
  <2>2. (IF s \in Gates THEN "needs_review" ELSE "completed") \in StageStatus \ {"absent"}
    BY DEF StageStatus
  <2>3. Lifecycle!Finish(r, s)
    BY <1>0, <1>1, <1>2, <1>3, <2>1, <2>2
    DEF Lifecycle!Finish, Lifecycle!SetRow, Lifecycle!GoesOn, Going
  <2> QED BY <1>0, <2>3 DEF Shows, Lifecycle!Step
<1>5. CASE FailStage(t)
  <2>1. stage' = [stage EXCEPT ![r][s] = "failed"]
    BY <1>5 DEF FailStage
  <2>2. Lifecycle!Fail(r, s)
    BY <1>0, <1>1, <1>2, <1>3, <2>1
    DEF Lifecycle!Fail, Lifecycle!SetRow, Lifecycle!GoesOn, Going, StageStatus
  <2> QED BY <1>0, <2>2 DEF Shows, Lifecycle!Step
<1> QED BY <1>4, <1>5

\* What a status says is what justifies it to the user.
LEMMA TellsJustifies ==
  ASSUME NEW r \in Runs, NEW new \in Reports, stage[r] \in [Stages -> StageStatus],
         \A s \in Stages : stage[r][s] # "absent", Tells(new, stage[r])
  PROVE  Lifecycle!Justified(r, new)
<1>1. \A s \in Stages : Rows[r][s] = stage[r][s]
  BY RowIs
<1>2. CASE new = "completed"
  BY <1>1, <1>2 DEF Tells, Lifecycle!Justified
<1>3. CASE new = "failed"
  BY <1>1, <1>3 DEF Tells, HasFailed, Lifecycle!Justified, Lifecycle!Has
<1>4. CASE new = "needs_review"
  <2>1. /\ \E s \in Gates : stage[r][s] = "needs_review"
        /\ ~ HasFailed(stage[r]) /\ Ready(stage[r]) = {}
    BY <1>4 DEF Tells
  <2>2. \E s \in Gates : Rows[r][s] = "needs_review"
    BY <1>1, <2>1, StagesAssumption
  <2>3. ~ Lifecycle!Has(r, "failed")
    BY <1>1, <2>1 DEF Lifecycle!Has, HasFailed
  <2>4. ASSUME NEW s \in Stages, Lifecycle!CanStart(r, s) PROVE FALSE
    <3>1. stage[r][s] = "pending" /\ \A d \in DependsOn[s] : stage[r][d] = "completed"
      BY <1>1, <2>4, StagesAssumption DEF Lifecycle!CanStart
    <3>2. s \in Ready(stage[r])
      BY <3>1 DEF Ready
    <3> QED BY <2>1, <3>2
  <2> QED BY <1>4, <2>2, <2>3, <2>4 DEF Lifecycle!Justified
<1> QED BY <1>2, <1>3, <1>4 DEF Reports

\* A task reports.
LEMMA ReportFollows ==
  ASSUME ServedInv, NEW t \in Tasks, task[t].run \notin died, LoopOK(task[t].run), TellsOK(task[t].run),
         Conclude(t)
  PROVE  Shows(task[t].run)
<1> DEFINE p == task[t]
           r == task[t].run
<1>0. /\ p \in TaskState /\ r \in Runs
      /\ runStatus \in [Runs -> RunStatus] /\ stage[r] \in [Stages -> StageStatus]
      /\ p.pc = "conclude" /\ runStatus[r] \in Going /\ p.rs = "running"
      /\ p.verdict \in Reports /\ Tells(p.verdict, stage[r])
      /\ \A s \in Stages : stage[r][s] # "absent"
      /\ Serves(t, r) /\ OneServes(r) /\ r \in Runs \ died
  BY StepServes DEF ServedInv, Typed, TypeOK, TaskState, LoopOK, InHandOK,
     StatusInHand, InLoop, TellsOK, ReportInHand, Conclude, At, TaskStep
<1>1. UNCHANGED <<Rows, Asked>>
  BY AskedStays, RowsStay DEF Conclude
<1>2. Lifecycle!Quiescent(r)
  <2> HIDE DEF r
  <2> QED BY <1>0, NothingRuns DEF At
<1>3. Lifecycle!Justified(r, p.verdict)
  <2> HIDE DEF r
  <2> QED BY <1>0, TellsJustifies
<1>4. runStatus' = [runStatus EXCEPT ![r] = p.verdict]
  BY <1>0 DEF Conclude, Flush, Reports
<1>5. Lifecycle!Settle(r, p.verdict)
  BY <1>0, <1>1, <1>2, <1>3, <1>4
  DEF Lifecycle!Settle, Lifecycle!SetStatus, Lifecycle!GoesOn, Going
<1> QED BY <1>0, <1>5 DEF Shows, Lifecycle!Step, Reports

\* The steps of a task: those of a run that is loose count for nothing.
LEMMA TaskFollows ==
  ASSUME ReportInv, TypeOK', NEW t \in Tasks, TaskStep(t)
  PROVE  Follows
<1> SUFFICES ASSUME NEW r, r = task[t].run PROVE Follows
  OBVIOUS
<1>0. /\ Typed /\ TypeOK /\ ServedInv /\ r \in Runs
  BY DEF ReportInv, ServedInv, Typed, TypeOK, TaskState
<1>1. UNCHANGED Loose
  BY TaskKeepsHistory DEF Loose
<1>2. UNCHANGED req /\ \A q \in Runs : q # r => runStatus'[q] = runStatus[q] /\ stage'[q] = stage[q]
  BY <1>0, OtherRunsStay
<1>3. CASE r \in Loose
  <2>1. Loose' = Loose \cup {r} /\ AskedElsewhereStays(r)
    BY <1>1, <1>2, <1>3, AskedStays DEF AskedElsewhereStays
  <2> QED BY <1>0, <1>2, <2>1, LooseFollows
<1>4. CASE r \notin Loose
  <2>1. task[t].run \notin died /\ LoopOK(task[t].run) /\ TellsOK(task[t].run)
    BY <1>0, <1>4 DEF Loose, ReportInv, LoopInv, TellsInv
  <2>2. ASSUME \/ WorkerSkips(t) \/ Refresh(t) \/ Exhaust(t) \/ LoadStages(t) \/ Progress(t)
               \/ MidRefresh(t) \/ MidLoad(t)
        PROVE  Shows(task[t].run)
    <3>1. UNCHANGED <<runStatus, stage, req>>
      BY <2>2 DEF WorkerSkips, Refresh, Exhaust, LoadStages, Progress, MidRefresh, MidLoad, tables
    <3> QED BY <3>1, RowsStay, AskedStays DEF Shows, Stutters
  <2>3. Shows(task[t].run)
    BY <1>0, <2>1, <2>2, BeginFollows, StartFollows, EndFollows, ReportFollows DEF TaskStep
  <2> QED BY <1>0, <1>1, <2>3, StepFollows DEF Shows
<1> QED BY <1>3, <1>4

\* A request that is accepted, and one that is none of the two that are seen.
LEMMA AcceptAsks ==
  ASSUME Typed, NEW c \in Clients, NEW op, NEW r \in Runs, NEW m, NEW d,
         Accept(c, op, r, m, d)
  PROVE  /\ op \in {"pause", "resume"} => Asked' = Asked \cup {<<op, r>>}
         /\ op \notin {"pause", "resume"} => UNCHANGED Asked
<1>1. /\ req'[c].op = op /\ req'[c].run = r
      /\ \A d2 \in Clients : d2 # c => req'[d2] = req[d2]
      /\ req[c].op = "idle"
  BY DEF Accept, Idle, Typed, TypeOK
<1>2. \A a \in {"pause", "resume"} \X Runs : a \in Asked' <=> a \in Asked \/ a = <<op, r>>
  BY <1>1 DEF Asked
<1> QED BY <1>2 DEF Asked

\* A request that ends takes away what it has asked for, unless another asks for the same.
LEMMA FinishedAsks ==
  ASSUME Typed, NEW c \in Clients, Finished(c)
  PROVE  /\ Asked' \in {Asked, Asked \ {<<req[c].op, req[c].run>>}}
         /\ req[c].op \in {"pause", "resume"} => <<req[c].op, req[c].run>> \in Asked
         /\ req[c].op \notin {"pause", "resume"} => UNCHANGED Asked
         /\ AskedElsewhereStays(req[c].run)
<1>1. /\ req'[c].op = "idle" /\ req[c].run \in Runs
      /\ \A d \in Clients : d # c => req'[d] = req[d]
  BY DEF Finished, NoReq, Typed, TypeOK, ReqState
<1>2. /\ \A a \in Asked' : a \in Asked
      /\ \A a \in Asked : a # <<req[c].op, req[c].run>> => a \in Asked'
  BY <1>1 DEF Asked
<1>3. req[c].op \in {"pause", "resume"} => <<req[c].op, req[c].run>> \in Asked
  BY <1>1 DEF Asked
<1>4. req[c].op \notin {"pause", "resume"} => <<req[c].op, req[c].run>> \notin Asked
  BY DEF Asked
<1>5. AskedElsewhereStays(req[c].run)
  <2>1. \A a : a \in Asked /\ a[2] # req[c].run => a # <<req[c].op, req[c].run>>
    OBVIOUS
  <2> QED BY <1>2, <2>1 DEF AskedElsewhereStays
<1> QED BY <1>2, <1>3, <1>4, <1>5

\* A task that is started for run r brings it loose or not.
LEMMA MeetsLoose ==
  ASSUME NEW r, NEW stale, Meets(r, stale), UNCHANGED died
  PROVE  /\ r \in Loose' => Loose' = Loose \cup {r}
         /\ r \notin Loose' => Loose' = Loose
BY DEF Meets, Loose

\* The commits of the requests: they take effect, or bring their run loose.
LEMMA CommitFollows ==
  ASSUME ReportInv, TypeOK', NEW c \in Clients, Commit(c), ~ WakePausedRun(c)
  PROVE  Follows
<1> SUFFICES ASSUME NEW r, r = req[c].run PROVE Follows
  OBVIOUS
<1>0. /\ Typed /\ TypeOK /\ r \in Runs /\ runStatus \in [Runs -> RunStatus]
      /\ stage \in [Runs -> [Stages -> StageStatus]]
  BY DEF ReportInv, ServedInv, Typed, TypeOK, ReqState
<1>1. Finished(c)
  BY DEF Commit, CommitPause, CommitResume, CommitCancel, CommitRetry, WakePausedRun
<1>2. /\ Asked' \in {Asked, Asked \ {<<req[c].op, r>>}}
      /\ req[c].op \in {"pause", "resume"} => <<req[c].op, r>> \in Asked
      /\ req[c].op \notin {"pause", "resume"} => UNCHANGED Asked
      /\ AskedElsewhereStays(r)
  BY <1>0, <1>1, FinishedAsks
<1>3. \A q \in Runs : q # r => runStatus'[q] = runStatus[q] /\ stage'[q] = stage[q]
  BY <1>0 DEF Commit, CommitPause, CommitResume, CommitCancel, CommitRetry, SetStatus, SetStages
<1>4. CASE CommitPause(c)
  <2>1. /\ runStatus' = [runStatus EXCEPT ![r] = "paused"] /\ req[c].op = "pause"
        /\ UNCHANGED <<stage, Loose>>
    BY <1>4 DEF CommitPause, SetStatus, history, Loose
  <2>2. Lifecycle!Effect("pause", r)
    BY <1>2, <2>1, RowsStay DEF Lifecycle!Effect, Lifecycle!SetStatus
  <2> QED BY <1>0, <2>1, <2>2, StepFollows DEF Lifecycle!Step
<1>5. CASE CommitResume(c)
  <2>1. /\ runStatus' = [runStatus EXCEPT ![r] = "running"] /\ req[c].op = "resume"
        /\ UNCHANGED stage /\ Meets(r, FALSE) /\ UNCHANGED died
    BY <1>5 DEF CommitResume, SetStatus
  <2>2. CASE r \in Loose'
    BY <1>0, <1>2, <1>3, <2>1, <2>2, MeetsLoose, LooseFollows
  <2>3. CASE r \notin Loose'
    <3>1. Lifecycle!Effect("resume", r)
      BY <1>2, <2>1, RowsStay DEF Lifecycle!Effect, Lifecycle!SetStatus
    <3>2. UNCHANGED Loose
      BY <2>1, <2>3, MeetsLoose
    <3> QED BY <1>0, <3>1, <3>2, StepFollows DEF Lifecycle!Step
  <2> QED BY <2>2, <2>3
<1>6. CASE CommitCancel(c)
  <2>1. Loose' = Loose \cup {r}
    BY <1>6 DEF CommitCancel, Meets, Loose
  <2> QED BY <1>0, <1>2, <1>3, <2>1, LooseFollows
<1>7. CASE CommitRetry(c)
  <2>1. /\ runStatus' = [runStatus EXCEPT ![r] = "running"]
        /\ RowsBecome(r, req[c].marked, "pending")
        /\ req[c].op = "retry" /\ Schedule("resume", r)
        /\ Meets(r, ~ IsFresh(c)) /\ (~ IsFresh(c)) \in BOOLEAN /\ UNCHANGED died
    BY <1>7 DEF CommitRetry, SetStatus, SetStages, RowsBecome, IsFresh
  <2>2. CASE r \in Loose'
    BY <1>0, <1>2, <1>3, <2>1, <2>2, MeetsLoose, LooseFollows
  <2>3. CASE r \notin Loose'
    <3> DEFINE failed == {s \in Stages : stage[r][s] = "failed"}
    <3>0. UNCHANGED Loose /\ r \in Runs \ crossed' /\ r \notin Loose
      BY <1>0, <2>1, <2>3, MeetsLoose DEF Loose
    <3>1. TakenUp(r, "resume") /\ IsFresh(c)
      BY <1>0, <2>1, <3>0, ScheduleTakes
    <3>2. LoopOK(r) /\ TellsOK(r)
      BY <1>0, <3>0 DEF Loose, ReportInv, LoopInv, TellsInv
    <3>3. runStatus[r] = "failed" /\ req[c].marked = failed
      BY <3>1, <3>2 DEF IsFresh, LoopOK
    <3>4. \E s \in Stages : stage[r][s] = "failed"
      BY <3>1, <3>2, <3>3 DEF TakenUp, TellsOK, Resting, Tells, HasFailed
    <3>5. \A s \in Stages : Rows[r][s] = "failed" <=> s \in failed
      BY <1>0, RowIs
    <3>6. Rows' = [Rows EXCEPT ![r] = [s \in Stages |->
                     IF s \in failed THEN "pending" ELSE Rows[r][s]]]
      <4>1. /\ failed \in SUBSET Stages /\ "pending" \in StageStatus \ {"absent"}
            /\ RowsBecome(r, failed, "pending")
        BY <2>1, <3>3 DEF StageStatus
      <4> HIDE DEF failed
      <4> QED BY <1>0, <4>1, SomeRowsMove
    <3>7. [s \in Stages |-> IF s \in failed THEN "pending" ELSE Rows[r][s]]
            = [s \in Stages |-> IF Rows[r][s] = "failed" THEN "pending" ELSE Rows[r][s]]
      BY <3>5
    <3>8. Lifecycle!Has(r, "failed")
      BY <3>4, <3>5 DEF Lifecycle!Has
    <3>9. Lifecycle!Retry(r)
      BY <1>2, <2>1, <3>3, <3>6, <3>7, <3>8 DEF Lifecycle!Retry, Lifecycle!SetStatus
    <3> QED BY <1>0, <3>0, <3>9, StepFollows DEF Lifecycle!Step
  <2> QED BY <2>2, <2>3
<1> QED BY <1>4, <1>5, <1>6, <1>7 DEF Commit

\* A task that is started, with no row written.
LEMMA StartedFollows ==
  ASSUME TypeOK, TypeOK', NEW r \in Runs, UNCHANGED <<runStatus, stage, Asked, died>>,
         Meets(r, FALSE)
  PROVE  Follows
<1>1. UNCHANGED Rows /\ AskedElsewhereStays(r)
  BY RowsStay DEF AskedElsewhereStays
<1>2. CASE r \in Loose'
  BY <1>1, <1>2, MeetsLoose, LooseFollows
<1>3. CASE r \notin Loose'
  BY <1>1, <1>3, MeetsLoose DEF Follows, Stutters
<1> QED BY <1>2, <1>3

\* The requests: reads are accepted, commits take effect or bring a run loose.
LEMMA RequestFollows ==
  ASSUME ReportInv, TypeOK', Request
  PROVE  Follows
<1>0. /\ Typed /\ TypeOK /\ runStatus \in [Runs -> RunStatus]
  BY DEF ReportInv, ServedInv, Typed, TypeOK
<1>s. ASSUME UNCHANGED <<runStatus, stage, Asked, history>> PROVE Follows
  BY <1>s, RowsStay DEF Follows, Stutters, Loose, history
<1>1. ASSUME NEW c \in Clients, NEW r \in Runs, NEW op, NEW m, NEW d, Accept(c, op, r, m, d),
             \/ op = "pause" /\ runStatus[r] \in {"queued", "running"}
             \/ op = "resume" /\ runStatus[r] = "paused"
             \/ op \in {"cancel", "retry"}
      PROVE  Follows
  <2>1. UNCHANGED <<runStatus, stage, history>>
    BY <1>1 DEF Accept, tables
  <2>2. CASE op \in {"pause", "resume"}
    <3>1. Asked' = Asked \cup {<<op, r>>}
      BY <1>0, <1>1, <2>2, AcceptAsks
    <3>2. Lifecycle!Ask(op, r)
      BY <1>1, <2>1, <2>2, <3>1, RowsStay DEF Lifecycle!Ask
    <3> QED BY <2>1, <2>2, <3>2, StepFollows DEF Lifecycle!Step, Loose, history
  <2>3. CASE op \notin {"pause", "resume"}
    BY <1>0, <1>1, <1>s, <2>1, <2>3, AcceptAsks
  <2> QED BY <2>2, <2>3
<1>2. ASSUME NEW c \in Clients, NEW r \in Runs,
             RequestPause(c, r) \/ RequestResume(c, r) \/ RequestCancel(c, r) \/ RequestRetry(c, r)
      PROVE  Follows
  <2>1. CASE RequestPause(c, r)
    BY <1>1, <2>1 DEF RequestPause
  <2>2. CASE RequestResume(c, r)
    BY <1>1, <2>2 DEF RequestResume
  <2>3. CASE RequestCancel(c, r) \/ RequestRetry(c, r)
    <3>1. PICK op \in {"cancel", "retry"}, m \in SUBSET Stages, d \in SUBSET Stages :
            Accept(c, op, r, m, d)
      BY <2>3 DEF RequestCancel, RequestRetry
    <3> QED BY <1>1, <3>1
  <2> QED BY <1>2, <2>1, <2>2, <2>3
<1>3. ASSUME NEW c \in Clients, NEW s \in Stages, NEW v \in 1..Len(artifact[s]),
             ApproveArtifact(c, s, v)
      PROVE  Follows
  <2>1. /\ UNCHANGED <<runStatus, stage, history>> /\ req[c].op = "idle" /\ req'[c].op = "wake"
        /\ \A d \in Clients : d # c => req'[d] = req[d]
    BY <1>0, <1>3 DEF ApproveArtifact, Idle, Typed, TypeOK, ReqState
  <2>2. UNCHANGED Asked
    BY <2>1 DEF Asked
  <2> QED BY <1>s, <2>1, <2>2
<1>4. ASSUME NEW c \in Clients, WakePausedRun(c) PROVE Follows
  <2>1. UNCHANGED <<runStatus, stage, died>> /\ Finished(c) /\ req[c].op = "wake"
    BY <1>4 DEF WakePausedRun, tables
  <2>2. UNCHANGED Asked
    BY <1>0, <2>1, FinishedAsks
  <2>3. UNCHANGED crossed \/ \E r \in Runs : Meets(r, FALSE)
    BY <1>4 DEF WakePausedRun
  <2>4. CASE UNCHANGED crossed
    BY <1>s, <2>1, <2>2, <2>4 DEF history
  <2> QED BY <1>0, <2>1, <2>2, <2>3, <2>4, StartedFollows
<1>5. CASE CreateRun
  <2>1. PICK r \in Runs : /\ runStatus[r] = "none" /\ Meets(r, FALSE)
                          /\ runStatus' = [runStatus EXCEPT ![r] = "queued"]
    BY <1>5 DEF CreateRun
  <2>2. UNCHANGED <<stage, req, died>>
    BY <1>5 DEF CreateRun
  <2>3. UNCHANGED <<Rows, Asked>> /\ AskedElsewhereStays(r)
    BY <2>2, RowsStay, AskedStays DEF AskedElsewhereStays
  <2>4. CASE r \in Loose'
    <3>1. \A q \in Runs : q # r => runStatus'[q] = runStatus[q] /\ stage'[q] = stage[q]
      BY <1>0, <2>1, <2>2
    <3> QED BY <1>0, <2>1, <2>2, <2>3, <2>4, <3>1, MeetsLoose, LooseFollows
  <2>5. CASE r \notin Loose'
    <3>1. Lifecycle!Create(r)
      BY <2>1, <2>3 DEF Lifecycle!Create, Lifecycle!SetStatus
    <3>2. UNCHANGED Loose
      BY <2>1, <2>2, <2>5, MeetsLoose
    <3> QED BY <3>1, <3>2, StepFollows DEF Lifecycle!Step
  <2> QED BY <2>4, <2>5
<1>6. ASSUME NEW r \in Runs, StartWorker(r) PROVE Follows
  <2>1. UNCHANGED <<runStatus, stage, Asked, died>> /\ Meets(r, FALSE)
    BY <1>6, AskedStays DEF StartWorker, tables
  <2> QED BY <1>0, <2>1, StartedFollows
<1>7. CASE \/ SubmitOnboarding
           \/ \E s \in Stages : \E v \in 1..Len(artifact[s]) : RejectArtifact(s, v) \/ EditArtifact(s, v)
  <2>1. UNCHANGED <<runStatus, stage, Asked, history>>
    BY <1>7, AskedStays DEF SubmitOnboarding, RejectArtifact, EditArtifact
  <2> QED BY <1>s, <2>1
<1> QED BY <1>2, <1>3, <1>4, <1>5, <1>6, <1>7, CommitFollows DEF Request, ControlStep

\* Seen from outside, and until work on it meets other work or a task of it dies, a run
\* works along the graph, one stage at a time, stops at the first failure, and settles on
\* the status that its stages justify (orchestrator.py:180-290): Pipeline implements
\* RunLifecycle, for any number of runs, tasks, requests and deaths.
THEOREM RunsFollowLifecycle == Spec => LifecycleSpec
<1>1. Init => Lifecycle!Init
  <2> SUFFICES ASSUME Init PROVE Lifecycle!Init
    OBVIOUS
  <2>1. /\ runStatus = [r \in Runs |-> "none"]
        /\ stage = [r \in Runs |-> [s \in Stages |-> "absent"]]
        /\ \A c \in Clients : req[c].op = "idle"
        /\ crossed \cup died = {}
    BY DEF Init, NoReq
  <2>2. Rows = [r \in Runs |-> [s \in Stages |-> "pending"]]
    BY <2>1 DEF Rows
  <2>3. Asked = {}
    BY <2>1 DEF Asked
  <2> QED BY <2>1, <2>2, <2>3 DEF Lifecycle!Init
<1>2. ReportInv /\ [Next]_vars => [Lifecycle!Next]_Lifecycle!vars
  <2>1. ASSUME ReportInv, Next PROVE Follows
    <3>1. Typed /\ TypeOK /\ TypeOK'
      BY <2>1, StepTyped DEF ReportInv, ServedInv, Typed
    <3>2. ASSUME NEW t \in Tasks, TaskDies(t) PROVE Follows
      <4> SUFFICES ASSUME NEW r, r = task[t].run PROVE Follows
        OBVIOUS
      <4>1. r \in Runs
        BY <3>1 DEF TypeOK, TaskState
      <4>2. UNCHANGED <<runStatus, stage, Asked>> /\ Loose' = Loose \cup {r}
        BY <3>1, <3>2, DeathStays, AskedStays DEF tables, Loose
      <4>3. AskedElsewhereStays(r)
        BY <4>2 DEF AskedElsewhereStays
      <4> QED BY <3>1, <4>1, <4>2, <4>3, LooseFollows
    <3>3. (\E t \in Tasks : TaskStep(t) \/ TaskDies(t)) \/ Request
      BY <2>1 DEF Next, Request
    <3> QED BY <2>1, <3>1, <3>2, <3>3, TaskFollows, RequestFollows
  <2>2. UNCHANGED vars => Stutters /\ UNCHANGED Loose
    BY RowsStay, AskedStays DEF vars, Stutters, Loose
  <2> QED BY <2>1, <2>2 DEF Follows, Stutters, Loose, Lifecycle!vars
<1> QED
  BY <1>1, <1>2, ReportInit, ReportIsInductive, PTL DEF Spec, LifecycleSpec, Lifecycle!Spec

=============================================================================
