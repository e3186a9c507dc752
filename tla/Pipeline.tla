------------------------------- MODULE Pipeline -------------------------------
(***************************************************************************)
(* The generation pipeline: a run of stages over a dependency graph with   *)
(* approval gates, driven by background tasks (app/modules/pipeline) and   *)
(* controlled by HTTP requests (app/modules/projects).  Every background   *)
(* task and every request has a database session of its own; the shared    *)
(* state is the rows they commit.                                          *)
(*                                                                         *)
(* A step of a task is one database read or one commit, so that the        *)
(* requests and the other tasks interleave between a read and the write    *)
(* that rests on it.  The ORM writes a column only when the assigned value *)
(* differs from the one the session loaded (Flush), and the sessions do    *)
(* not expire their rows on commit (app/core/db/session.py:72-77).         *)
(***************************************************************************)
EXTENDS Integers, FiniteSets, Sequences

CONSTANTS
  Stages,         \* the stages of the graph (config.py STAGES)
  DependsOn,      \* DependsOn[s]: the stages s depends on
  Gates,          \* the stages with an approval gate
  Streaming,      \* the stages whose agent publishes partial work
  NoStage,        \* no stage is being executed
  MaxRuns,        \* bound: runs of the project
  Tasks,          \* bound: background tasks alive at the same time
  Clients,        \* bound: requests in flight at the same time
  Budget          \* bound: Budget[op] requests of each kind, and task deaths

Runs == 1..MaxRuns

Ops == {"onboard", "create", "pause", "resume", "cancel", "retry",
        "approve", "reject", "edit", "worker", "die"}

ASSUME StagesAssumption ==
  /\ IsFiniteSet(Stages) /\ Stages # {}
  /\ NoStage \notin Stages
  /\ Gates \subseteq Stages /\ Streaming \subseteq Stages
  /\ DependsOn \in [Stages -> SUBSET Stages]

\* The graph of config.py has no cycle.
ASSUME GraphAssumption ==
  \A S \in SUBSET Stages : S # {} => \E s \in S : DependsOn[s] \cap S = {}

ASSUME BoundsAssumption ==
  /\ MaxRuns \in Nat \ {0}
  /\ Budget \in [Ops -> Nat]

\* Mutant of MaxIterations: the limit counts the stages that can start at once.
MaxIterationsOfRoots == 2 * Cardinality({s \in Stages : DependsOn[s] = {}})

MaxIterations == 2 * Cardinality(Stages)  \* the safety limit of the loop

VARIABLES
  project,        \* Project.status
  runStatus,      \* GenerationRun.status; "none": the run is not created yet
  stage,          \* stage[r][s]: StageRun.status; "absent": no such row yet
  out,            \* out[r][s]: the version StageRun.output_artifact_id names, or 0
  artifact,       \* artifact[s]: the versions of the artifact type of stage s
  approvals,      \* the Approval rows with decision "approved"
  task,           \* the background tasks and what their sessions hold
  req,            \* the requests in flight and what their sessions hold
  budget,         \* what is left of Budget
  crossed,        \* history: the runs on which work has met other work (Meets)
  died            \* history: the runs of which a task has died

vars == <<project, runStatus, stage, out, artifact, approvals, task, req, budget,
          crossed, died>>
history == <<crossed, died>>
tables == <<project, runStatus, stage, out, artifact, approvals>>

ProjectStatus == {"draft", "onboarding", "generating"}
RunStatus == {"none", "queued", "running", "paused", "needs_review",
              "completed", "failed", "cancelled"}
StageStatus == {"absent", "pending", "running", "needs_review", "completed",
                "failed", "skipped"}

\* `by` is not a column: it remembers which run created the version.
Artifact == [status : {"draft", "approved", "rejected"},
             content : {"partial", "final"},
             by : Runs]

TaskState ==
  [pc : {"idle", "scheduled", "init", "refresh", "load", "start", "exec",
         "midrefresh", "midload", "conclude"},
   kind : {"run", "resume", "worker"},
   run : Runs,
   rs : RunStatus,                  \* run.status as the session last read it
   iter : 0..MaxIterations,         \* iteration
   batch : SUBSET Stages,           \* the rest of the list `ready`
   cur : Stages \cup {NoStage},     \* stage_run
   seen : StageStatus,              \* stage_run.status as the session read it
   draft : Nat,                     \* progress_holder["artifact"], or 0
   verdict : RunStatus]             \* the status about to be committed

ReqState ==
  [op : {"idle", "pause", "resume", "cancel", "retry", "wake"},
   run : Runs,
   marked : SUBSET Stages,          \* the stages the request is about to rewrite
   cleared : SUBSET Stages]         \* those of them whose output was read as set

NoTask == [pc |-> "idle", kind |-> "run", run |-> 1, rs |-> "none", iter |-> 0,
           batch |-> {}, cur |-> NoStage, seen |-> "absent", draft |-> 0,
           verdict |-> "none"]
NoReq == [op |-> "idle", run |-> 1, marked |-> {}, cleared |-> {}]

Init ==
  /\ project = "draft"
  /\ runStatus = [r \in Runs |-> "none"]
  /\ stage = [r \in Runs |-> [s \in Stages |-> "absent"]]
  /\ out = [r \in Runs |-> [s \in Stages |-> 0]]
  /\ artifact = [s \in Stages |-> <<>>]
  /\ approvals = {}
  /\ task = [t \in Tasks |-> NoTask]
  /\ req = [c \in Clients |-> NoReq]
  /\ budget = Budget
  /\ crossed = {}
  /\ died = {}

-----------------------------------------------------------------------------
(* Sessions, tasks and the graph *)

\* create_artifact: the next version of the type, a draft.
Draft(s, content, r) ==
  Append(artifact[s], [status |-> "draft", content |-> content, by |-> r])

\* What an assignment leaves in a column: nothing is written when the session
\* already holds the value.
Flush(local, new, db) == IF local = new THEN db ELSE new

At(t, label) == task[t].pc = label

\* BackgroundTasks.add_task: the task runs in a thread of its own.
Schedule(kind, r) ==
  \E t \in Tasks :
    /\ At(t, "idle")
    /\ task' = [task EXCEPT ![t] = [NoTask EXCEPT !.pc = "scheduled",
                                                  !.kind = kind, !.run = r]]

Exit(t) == task' = [task EXCEPT ![t] = NoTask]

Serves(t, r) == ~ At(t, "idle") /\ task[t].run = r

\* Work on run r meets other work on it: another task serves it already, or its rows are
\* no longer what a request has read (`stale`).
Meets(r, stale) ==
  crossed' = IF stale \/ \E t \in Tasks : Serves(t, r) THEN crossed \cup {r} ELSE crossed

\* Mutants of Ready: the gate is forgotten; one dependency is enough; the
\* status of the stage itself is not looked at.
ReadyBehindGate(view) ==
  {s \in Stages : view[s] = "pending"
                  /\ \A d \in DependsOn[s] : view[d] \in {"completed", "needs_review"}}
ReadyTooEarly(view) ==
  {s \in Stages : view[s] = "pending"
                  /\ (DependsOn[s] = {} \/ \E d \in DependsOn[s] : view[d] = "completed")}
ReadyAgain(view) ==
  {s \in Stages : \A d \in DependsOn[s] : view[d] = "completed"}

\* get_ready_stages: pending, every dependency done, none awaiting approval.
Ready(view) ==
  {s \in Stages :
     /\ view[s] = "pending"
     /\ \A d \in DependsOn[s] : view[d] \in {"completed", "needs_review"}
     /\ ~ \E d \in DependsOn[s] : view[d] = "needs_review"}

\* Mutant of Verdict: a gate under review counts as done.
VerdictForgetsReview(view) ==
  IF \E s \in Stages : view[s] = "running" THEN "failed" ELSE "completed"

\* The status the loop gives a run that has no ready stage.
Verdict(view) ==
  LET all == {view[s] : s \in Stages}
  IN  CASE "running" \in all -> "failed"
        [] "running" \notin all /\ all \subseteq {"completed", "skipped"} -> "completed"
        [] OTHER -> "needs_review"

HasFailed(view) == \E s \in Stages : view[s] = "failed"

\* Mutant of Promoted: any approved version of the type will do.
PromotedByType(r) ==
  {s \in Stages : /\ stage[r][s] = "needs_review"
                  /\ \E v \in 1..Len(artifact[s]) : artifact[s][v].status = "approved"}

\* resume: the stages under review whose output artifact is approved by now.
Promoted(r) ==
  {s \in Stages :
     /\ stage[r][s] = "needs_review"
     /\ out[r][s] # 0
     /\ artifact[s][out[r][s]].status = "approved"}

\* load_input_artifacts: the version that a stage behind d works on is the newest
\* approved one, or else the newest; 0 if there is none.
Input(d) ==
  LET approved == {v \in 1..Len(artifact[d]) : artifact[d][v].status = "approved"}
  IN  IF approved = {} THEN Len(artifact[d])
      ELSE CHOOSE v \in approved : \A w \in approved : w <= v

-----------------------------------------------------------------------------
(* Background tasks *)

\* db.get(run); the command-line worker skips a run that is not active, and a
\* resume task promotes the approved stages and commits before the loop.
Load(t) ==
  LET r == task[t].run
  IN  /\ At(t, "scheduled")
      /\ task[t].kind = "worker" => runStatus[r] \in {"queued", "running"}
      /\ task' = [task EXCEPT ![t].pc = "init", ![t].rs = runStatus[r]]
      /\ stage' = IF task[t].kind = "resume"
                  THEN [stage EXCEPT ![r] = [s \in Stages |->
                          IF s \in Promoted(r) THEN "completed" ELSE stage[r][s]]]
                  ELSE stage
      /\ UNCHANGED <<project, runStatus, out, artifact, approvals, req, budget, history>>

WorkerSkips(t) ==
  /\ At(t, "scheduled")
  /\ task[t].kind = "worker"
  /\ runStatus[task[t].run] \notin {"queued", "running"}
  /\ Exit(t)
  /\ UNCHANGED <<tables, req, budget, history>>

\* initialize_run and its commit: seed the missing stage rows and set the run
\* running, whatever was committed since the task read it.
InitializeRun(t) ==
  LET r == task[t].run
  IN  /\ At(t, "init")
      /\ stage' = [stage EXCEPT ![r] = [s \in Stages |->
                     IF stage[r][s] = "absent" THEN "pending" ELSE stage[r][s]]]
      /\ runStatus' = [runStatus EXCEPT ![r] = Flush(task[t].rs, "running", @)]
      /\ task' = [task EXCEPT ![t].pc = "refresh", ![t].rs = "running"]
      /\ UNCHANGED <<project, out, artifact, approvals, req, budget, history>>

\* Mutant of Exhausted: one iteration too many.
ExhaustedLate(t) == task[t].iter > MaxIterations

Exhausted(t) == task[t].iter = MaxIterations

\* Mutant of Refresh: a paused task waits for the resume instead of ending.
RefreshWaits(t) ==
  LET status == runStatus[task[t].run]
  IN  /\ At(t, "refresh")
      /\ ~ Exhausted(t)
      /\ status \notin {"paused", "cancelled"}
      /\ task' = [task EXCEPT ![t].pc = "load", ![t].rs = status, ![t].iter = @ + 1]
      /\ UNCHANGED <<tables, req, budget, history>>

\* db.refresh(run) at the head of an iteration, and the pause/cancel check.
Refresh(t) ==
  LET status == runStatus[task[t].run]
  IN  /\ At(t, "refresh")
      /\ ~ Exhausted(t)
      /\ IF status \in {"paused", "cancelled"}
         THEN Exit(t)
         ELSE task' = [task EXCEPT ![t].pc = "load", ![t].rs = status,
                                   ![t].iter = @ + 1]
      /\ UNCHANGED <<tables, req, budget, history>>

\* The loop ran out of iterations.
Exhaust(t) ==
  /\ At(t, "refresh")
  /\ Exhausted(t)
  /\ task' = [task EXCEPT ![t].pc = "conclude", ![t].verdict = "failed"]
  /\ UNCHANGED <<tables, req, budget, history>>

\* The stage rows, which the refresh of the run expires with it (the cascade of
\* models.py:112-114), are loaded anew and decide what the iteration does: stop
\* on a failure, start a batch, or end the loop.
LoadStages(t) ==
  LET view == stage[task[t].run]
      ready == Ready(view)
  IN  /\ At(t, "load")
      /\ \/ /\ HasFailed(view)
            /\ task' = [task EXCEPT ![t].pc = "conclude", ![t].verdict = "failed"]
         \/ /\ ~ HasFailed(view)
            /\ \E s \in ready :
                 task' = [task EXCEPT ![t].pc = "start", ![t].cur = s,
                                      ![t].seen = view[s], ![t].batch = ready \ {s}]
         \/ /\ ~ HasFailed(view)
            /\ ready = {}
            /\ task' = [task EXCEPT ![t].pc = "conclude", ![t].verdict = Verdict(view)]
      /\ UNCHANGED <<tables, req, budget, history>>

\* mark_stage_running and its commit.
StartStage(t) ==
  LET r == task[t].run
      s == task[t].cur
  IN  /\ At(t, "start")
      /\ stage' = [stage EXCEPT ![r][s] = Flush(task[t].seen, "running", @)]
      /\ task' = [task EXCEPT ![t].pc = "exec", ![t].seen = "absent", ![t].draft = 0]
      /\ UNCHANGED <<project, runStatus, out, artifact, approvals, req, budget, history>>

\* on_progress, of the agents that call it: the first call creates a draft, the next ones rewrite its
\* payload.  They assign status "draft" too, which the session already holds.
Progress(t) ==
  LET s == task[t].cur
      draft == task[t].draft
  IN  /\ At(t, "exec")
      /\ s \in Streaming
      /\ IF draft = 0
         THEN /\ artifact' = [artifact EXCEPT ![s] = Draft(s, "partial", task[t].run)]
              /\ task' = [task EXCEPT ![t].draft = Len(artifact[s]) + 1]
         ELSE /\ artifact' = [artifact EXCEPT ![s][draft].content = "partial"]
              /\ UNCHANGED task
      /\ UNCHANGED <<project, runStatus, stage, out, approvals, req, budget, history>>

\* Mutant of FinishStage: the final payload becomes a version of its own while
\* the stage still names the draft.
FinishStageSplit(t) ==
  LET r == task[t].run
      s == task[t].cur
      draft == task[t].draft
  IN  /\ At(t, "exec")
      /\ artifact' = [artifact EXCEPT ![s] = Draft(s, "final", r)]
      /\ out' = [out EXCEPT ![r][s] = IF draft = 0 THEN Len(artifact[s]) + 1 ELSE draft]
      /\ stage' = [stage EXCEPT ![r][s] = IF s \in Gates THEN "needs_review" ELSE "completed"]
      /\ task' = [task EXCEPT ![t].pc = "midrefresh", ![t].draft = 0, ![t].cur = NoStage]
      /\ UNCHANGED <<project, runStatus, approvals, req, budget, history>>

\* The agent returned: the draft gets the final payload, or a new version is
\* created; the stage is done, or under review when it has a gate.
FinishStage(t) ==
  LET r == task[t].run
      s == task[t].cur
      draft == task[t].draft
  IN  /\ At(t, "exec")
      /\ artifact' = IF draft = 0
                     THEN [artifact EXCEPT ![s] = Draft(s, "final", r)]
                     ELSE [artifact EXCEPT ![s][draft].content = "final"]
      /\ out' = [out EXCEPT ![r][s] = IF draft = 0 THEN Len(artifact[s]) + 1 ELSE draft]
      /\ stage' = [stage EXCEPT ![r][s] =
                     IF s \in Gates THEN "needs_review" ELSE "completed"]
      /\ task' = [task EXCEPT ![t].pc = "midrefresh", ![t].draft = 0,
                              ![t].cur = NoStage]
      /\ UNCHANGED <<project, runStatus, approvals, req, budget, history>>

\* Mutant of FailStage: the failure is logged and not recorded.
FailStageUnmarked(t) ==
  /\ At(t, "exec")
  /\ task' = [task EXCEPT ![t].pc = "midrefresh", ![t].draft = 0, ![t].cur = NoStage]
  /\ UNCHANGED <<tables, req, budget, history>>

\* The agent, or the write of its artifact, raised.
FailStage(t) ==
  /\ At(t, "exec")
  /\ stage' = [stage EXCEPT ![task[t].run][task[t].cur] = "failed"]
  /\ task' = [task EXCEPT ![t].pc = "midrefresh", ![t].draft = 0, ![t].cur = NoStage]
  /\ UNCHANGED <<project, runStatus, out, artifact, approvals, req, budget, history>>

\* db.refresh(run) after each stage of a batch, and the pause/cancel check.
MidRefresh(t) ==
  LET status == runStatus[task[t].run]
  IN  /\ At(t, "midrefresh")
      /\ IF status \in {"paused", "cancelled"}
         THEN Exit(t)
         ELSE task' = [task EXCEPT ![t].pc = "midload", ![t].rs = status]
      /\ UNCHANGED <<tables, req, budget, history>>

\* Mutant of MidLoad: the rest of a batch is executed after a failure.
MidLoadGoesOn(t) ==
  LET view == stage[task[t].run]
      batch == task[t].batch
  IN  /\ At(t, "midload")
      /\ \/ \E s \in batch :
              task' = [task EXCEPT ![t].pc = "start", ![t].cur = s,
                                   ![t].seen = view[s], ![t].batch = batch \ {s}]
         \/ batch = {} /\ task' = [task EXCEPT ![t].pc = "refresh"]
      /\ UNCHANGED <<tables, req, budget, history>>

\* The failure check after each stage; then the next stage of the batch, which
\* is not checked again, or the next iteration.
MidLoad(t) ==
  LET view == stage[task[t].run]
      batch == task[t].batch
  IN  /\ At(t, "midload")
      /\ \/ /\ HasFailed(view)
            /\ task' = [task EXCEPT ![t].pc = "conclude", ![t].verdict = "failed",
                                    ![t].batch = {}]
         \/ /\ ~ HasFailed(view)
            /\ \E s \in batch :
                 task' = [task EXCEPT ![t].pc = "start", ![t].cur = s,
                                      ![t].seen = view[s], ![t].batch = batch \ {s}]
         \/ /\ ~ HasFailed(view)
            /\ batch = {}
            /\ task' = [task EXCEPT ![t].pc = "refresh"]
      /\ UNCHANGED <<tables, req, budget, history>>

\* The commit that ends the loop.
Conclude(t) ==
  LET r == task[t].run
  IN  /\ At(t, "conclude")
      /\ runStatus' = [runStatus EXCEPT ![r] = Flush(task[t].rs, task[t].verdict, @)]
      /\ Exit(t)
      /\ UNCHANGED <<project, stage, out, artifact, approvals, req, budget, history>>

TaskStep(t) ==
  \/ Load(t) \/ WorkerSkips(t) \/ InitializeRun(t)
  \/ Refresh(t) \/ Exhaust(t) \/ LoadStages(t)
  \/ StartStage(t) \/ Progress(t) \/ FinishStage(t) \/ FailStage(t)
  \/ MidRefresh(t) \/ MidLoad(t) \/ Conclude(t)

\* The process of a task ends, or an exception leaves the loop: the task is gone
\* and what it had not committed is lost (routes.py:68-69, 106-107).
TaskDies(t) ==
  /\ ~ At(t, "idle")
  /\ budget["die"] > 0
  /\ budget' = [budget EXCEPT !["die"] = @ - 1]
  /\ died' = died \cup {task[t].run}
  /\ Exit(t)
  /\ UNCHANGED <<tables, req, crossed>>

-----------------------------------------------------------------------------
(* Requests *)

Spend(op) ==
  /\ budget[op] > 0
  /\ budget' = [budget EXCEPT ![op] = @ - 1]

\* POST /projects/{id}/onboarding
SubmitOnboarding ==
  /\ Spend("onboard")
  /\ project' = "onboarding"
  /\ UNCHANGED <<runStatus, stage, out, artifact, approvals, task, req, history>>

\* POST /projects/{id}/runs and POST /artifacts/{id}/regenerate: both queue a
\* run of all the stages and schedule its task.  Runs are numbered by age.
CreateRun ==
  /\ project # "draft"
  /\ Spend("create")
  /\ project' = "generating"
  /\ \E r \in Runs :
       /\ runStatus[r] = "none"
       /\ \A q \in 1..(r - 1) : runStatus[q] # "none"
       /\ runStatus' = [runStatus EXCEPT ![r] = "queued"]
       /\ Schedule("run", r) /\ Meets(r, FALSE)
  /\ UNCHANGED <<stage, out, artifact, approvals, req, died>>

\* python -m app.workers.pipeline_worker <run>
StartWorker(r) ==
  /\ runStatus[r] # "none"
  /\ Spend("worker")
  /\ Schedule("worker", r) /\ Meets(r, FALSE)
  /\ UNCHANGED <<tables, req, died>>

\* The run control requests read the run and, when they rewrite stages, its
\* stages; what they commit rests on that read.
Idle(c) == req[c].op = "idle"

Finished(c) == req' = [req EXCEPT ![c] = NoReq]

Accept(c, op, r, marked, cleared) ==
  /\ Idle(c)
  /\ Spend(op)
  /\ req' = [req EXCEPT ![c] = [op |-> op, run |-> r,
                               marked |-> marked, cleared |-> cleared]]
  /\ UNCHANGED <<tables, task, history>>

RequestPause(c, r) ==
  /\ runStatus[r] \in {"queued", "running"}
  /\ Accept(c, "pause", r, {}, {})

RequestResume(c, r) ==
  /\ runStatus[r] = "paused"
  /\ Accept(c, "resume", r, {}, {})

RequestCancel(c, r) ==
  /\ runStatus[r] \notin {"none", "completed", "cancelled", "failed"}
  /\ Accept(c, "cancel", r, {s \in Stages : stage[r][s] \in {"pending", "running"}}, {})

RequestRetry(c, r) ==
  LET touched == {s \in Stages : stage[r][s] \in {"failed", "skipped"}}
  IN  /\ runStatus[r] \in {"failed", "cancelled"}
      /\ touched # {}
      /\ Accept(c, "retry", r, touched, {s \in touched : out[r][s] # 0})

SetStatus(r, status) == runStatus' = [runStatus EXCEPT ![r] = status]

SetStages(r, marked, status) ==
  stage' = [stage EXCEPT ![r] = [s \in Stages |->
              IF s \in marked THEN status ELSE stage[r][s]]]

CommitPause(c) ==
  /\ req[c].op = "pause"
  /\ SetStatus(req[c].run, "paused")
  /\ Finished(c)
  /\ UNCHANGED <<project, stage, out, artifact, approvals, task, budget, history>>

\* Mutant of CommitResume: the task is not scheduled.
CommitResumeOnly(c) ==
  /\ req[c].op = "resume"
  /\ SetStatus(req[c].run, "running")
  /\ Finished(c)
  /\ UNCHANGED <<project, stage, out, artifact, approvals, task, budget, history>>

CommitResume(c) ==
  /\ req[c].op = "resume"
  /\ SetStatus(req[c].run, "running")
  /\ Schedule("resume", req[c].run) /\ Meets(req[c].run, FALSE)
  /\ Finished(c)
  /\ UNCHANGED <<project, stage, out, artifact, approvals, budget, died>>

\* A cancel meets whatever the task of its run, or a later one, makes of the rows.
CommitCancel(c) ==
  /\ req[c].op = "cancel"
  /\ SetStatus(req[c].run, "cancelled")
  /\ SetStages(req[c].run, req[c].marked, "skipped")
  /\ Meets(req[c].run, TRUE)
  /\ Finished(c)
  /\ UNCHANGED <<project, out, artifact, approvals, task, budget, died>>

\* Mutant of CommitRetry: the stages are reset but the task is not scheduled.
CommitRetryOnly(c) ==
  /\ req[c].op = "retry"
  /\ SetStatus(req[c].run, "running")
  /\ SetStages(req[c].run, req[c].marked, "pending")
  /\ Finished(c)
  /\ UNCHANGED <<project, out, artifact, approvals, task, budget, history>>

\* The rows say still what a retry has read.
IsFresh(c) ==
  LET r == req[c].run
  IN  /\ runStatus[r] \in {"failed", "cancelled"}
      /\ req[c].marked = {s \in Stages : stage[r][s] \in {"failed", "skipped"}}

CommitRetry(c) ==
  LET r == req[c].run
  IN  /\ req[c].op = "retry"
      /\ SetStatus(r, "running")
      /\ SetStages(r, req[c].marked, "pending")
      /\ out' = [out EXCEPT ![r] = [s \in Stages |->
                   IF s \in req[c].cleared THEN 0 ELSE out[r][s]]]
      /\ Schedule("resume", r) /\ Meets(r, ~ IsFresh(c))
      /\ Finished(c)
      /\ UNCHANGED <<project, artifact, approvals, budget, died>>

\* POST /artifacts/{id}/approve with decision "approved": the decision is
\* committed first, then a run to resume is looked up.
ApproveArtifact(c, s, v) ==
  /\ Idle(c)
  /\ v \in 1..Len(artifact[s])
  /\ Spend("approve")
  /\ artifact' = [artifact EXCEPT ![s][v].status = "approved"]
  /\ approvals' = approvals \cup {<<s, v, artifact[s][v].content>>}
  /\ req' = [req EXCEPT ![c].op = "wake"]
  /\ UNCHANGED <<project, runStatus, stage, out, task, history>>

\* get_paused_run_for_project: the newest run under review, if there is one.
WakePausedRun(c) ==
  LET paused == {r \in Runs : runStatus[r] = "needs_review"}
  IN  /\ req[c].op = "wake"
      /\ IF paused = {}
         THEN UNCHANGED <<task, crossed>>
         ELSE \E r \in paused : /\ \A q \in paused : q <= r
                                /\ Schedule("resume", r) /\ Meets(r, FALSE)
      /\ Finished(c)
      /\ UNCHANGED <<tables, budget, died>>

\* The same request with decision "rejected".
RejectArtifact(s, v) ==
  /\ v \in 1..Len(artifact[s])
  /\ Spend("reject")
  /\ artifact' = [artifact EXCEPT ![s][v].status = "rejected"]
  /\ UNCHANGED <<project, runStatus, stage, out, approvals, task, req, history>>

\* PATCH /artifacts/{id}: a new payload, which has to be approved again.
EditArtifact(s, v) ==
  /\ v \in 1..Len(artifact[s])
  /\ Spend("edit")
  /\ artifact' = [artifact EXCEPT ![s][v].status = "draft", ![s][v].content = "final"]
  /\ UNCHANGED <<project, runStatus, stage, out, approvals, task, req, history>>

ControlStep(c) ==
  \/ \E r \in Runs : \/ RequestPause(c, r) \/ RequestResume(c, r)
                    \/ RequestCancel(c, r) \/ RequestRetry(c, r)
  \/ \E s \in Stages : \E v \in 1..Len(artifact[s]) : ApproveArtifact(c, s, v)

Commit(c) ==
  CommitPause(c) \/ CommitResume(c) \/ CommitCancel(c) \/ CommitRetry(c)
    \/ WakePausedRun(c)

Next ==
  \/ \E t \in Tasks : TaskStep(t) \/ TaskDies(t)
  \/ \E c \in Clients : ControlStep(c) \/ Commit(c)
  \/ SubmitOnboarding \/ CreateRun
  \/ \E r \in Runs : StartWorker(r)
  \/ \E s \in Stages : \E v \in 1..Len(artifact[s]) :
        RejectArtifact(s, v) \/ EditArtifact(s, v)

Spec == Init /\ [][Next]_vars

\* A task that is not finished takes its next step (asyncio.run in a thread of
\* its own), the agent of a stage answers or raises, and a request that was
\* accepted commits.  Nothing obliges a user to send a request.
FairSpec ==
  /\ Spec
  /\ \A t \in Tasks : WF_vars(TaskStep(t))
  /\ \A c \in Clients : WF_vars(Commit(c))

-----------------------------------------------------------------------------
(* Properties that hold whatever the tasks and the requests interleave *)

TypeOK ==
  /\ project \in ProjectStatus
  /\ runStatus \in [Runs -> RunStatus]
  /\ stage \in [Runs -> [Stages -> StageStatus]]
  /\ out \in [Runs -> [Stages -> Nat]]
  /\ artifact \in [Stages -> Seq(Artifact)]
  /\ approvals \subseteq (Stages \X Nat \X {"partial", "final"})
  /\ task \in [Tasks -> TaskState]
  /\ req \in [Clients -> ReqState]
  /\ budget \in [Ops -> Nat]
  /\ crossed \subseteq Runs /\ died \subseteq Runs

\* A version of the artifact of stage d that run r created has been approved.
WasApproved(r, d) ==
  \E a \in approvals : a[1] = d /\ artifact[d][a[2]].by = r

\* A gate holds back what is behind it: a stage of a run is started, and is put
\* in the batch of a task, only after the user has approved an artifact that
\* this run made for every gate the stage depends on; also when two tasks
\* execute the run, and when other runs of the project have their own artifacts.
GatesHoldBack ==
  \A r \in Runs, s \in Stages : \A d \in DependsOn[s] \cap Gates :
    \/ WasApproved(r, d)
    \/ /\ stage[r][s] \in {"absent", "pending", "skipped"}
       /\ \A t \in Tasks :
            task[t].run = r => s # task[t].cur /\ s \notin task[t].batch

\* A gate stage is completed only by the approval of the very version it has
\* put out (routes.py:95-102), whatever happens to that version afterwards.
GateNeedsApproval ==
  \A r \in Runs, s \in Gates :
    stage[r][s] = "completed" =>
      \E a \in approvals : a[1] = s /\ a[2] = out[r][s]

Active == {"queued", "running"}

\* A run that is queued or running has a task, unless one of its tasks has died: no
\* interleaving of pauses, resumes, retries and approvals leaves a run active
\* with nobody to end it (orchestrator.py:190-290, services.py:219-299).
ActiveRunHasTask ==
  \A r \in Runs \ died : runStatus[r] \in Active => \E t \in Tasks : Serves(t, r)

\* A stage that is marked running is being executed, unless a task of its run has died,
\* whatever cancellations and retries have done to its row in the meantime.
RunningStageHasTask ==
  \A r \in Runs \ died, s \in Stages :
    stage[r][s] = "running" =>
      \E t \in Tasks : At(t, "exec") /\ task[t].run = r /\ task[t].cur = s

\* Every active run is ended, paused, cancelled or put under review: liveness
\* of the loop, given that agents answer and no task of the run dies.
ActiveRunSettles ==
  \A r \in Runs : runStatus[r] \in Active ~> (runStatus[r] \notin Active \/ r \in died)

\* Every task ends: liveness of the loop, given that agents answer.
TaskEnds == \A t \in Tasks : ~ At(t, "idle") ~> At(t, "idle")

-----------------------------------------------------------------------------
(* Properties of a run until work on it meets other work (Meets), which the *)
(* code does not prevent: whatever happens to the other runs of the project, *)
(* to its artifacts and to the requests                                     *)

\* What a stage works on is there, and is finished unless the user has approved that
\* version while it was being written, or another run makes it: leftovers of executions
\* of the run itself that failed are never its input (stage_runner.py:44-62).
WorksOnFinishedWork ==
  \A t \in Tasks : task[t].pc \in {"start", "exec"} /\ task[t].run \notin crossed =>
    \A d \in DependsOn[task[t].cur] :
      /\ Input(d) # 0
      /\ \/ artifact[d][Input(d)].content = "final"
         \/ artifact[d][Input(d)].by # task[t].run
         \/ \E a \in approvals : a[1] = d /\ a[2] = Input(d)

\* A stage that was started has all the stages it depends on completed, and works on
\* what they have finished.
StartedAfterDependencies ==
  /\ \A r \in Runs \ crossed, s \in Stages :
       stage[r][s] \in {"running", "needs_review", "completed", "failed"} =>
         \A d \in DependsOn[s] : stage[r][d] = "completed"
  /\ WorksOnFinishedWork

\* What a run that nobody works on reports is what its stages say, unless a task of it
\* has died: completed when all are, failed when one is and can be retried, under review
\* when a gate waits.
StatusTellsStages ==
  \A r \in Runs \ (crossed \cup died) : (\A t \in Tasks : ~ Serves(t, r)) =>
    /\ runStatus[r] = "completed" => \A s \in Stages : stage[r][s] = "completed"
    /\ runStatus[r] = "failed" => \E s \in Stages : stage[r][s] = "failed"
    /\ runStatus[r] = "needs_review" => \E s \in Gates : stage[r][s] = "needs_review"

\* The safety limit of the loop is never what ends it.
LimitIsSlack ==
  \A t \in Tasks : task[t].run \notin crossed => ~ (At(t, "refresh") /\ Exhausted(t))

\* The versions of an artifact that a run has made.
MadeBy(r, s) == {v \in 1..Len(artifact[s]) : artifact[s][v].by = r}

\* One execution leaves one version: what a finished stage has put out is the newest
\* version its run has made, whatever executions failed or died before, and whatever
\* versions other runs make meanwhile.
OutputIsNewest ==
  \A r \in Runs \ crossed, s \in Stages :
    stage[r][s] \in {"needs_review", "completed"} =>
      /\ out[r][s] \in MadeBy(r, s)
      /\ \A v \in MadeBy(r, s) : v <= out[r][s]

\* A finished stage is never executed again.
FinishedStaysFinished ==
  [][\A r \in Runs \ crossed', s \in Stages :
       stage[r][s] \in {"completed", "needs_review"} =>
         stage'[r][s] \in {"completed", "needs_review"}]_vars

-----------------------------------------------------------------------------
(* What the pipeline implements *)

\* A stage without a row is as good as pending.
Rows == [r \in Runs |-> [s \in Stages |->
          IF stage[r][s] = "absent" THEN "pending" ELSE stage[r][s]]]

\* The pauses and resumes that a request has accepted and not committed.
Asked == {a \in {"pause", "resume"} \X Runs :
            \E c \in Clients : req[c].op = a[1] /\ req[c].run = a[2]}

Lifecycle == INSTANCE RunLifecycle
  WITH status <- runStatus, rows <- Rows, asked <- Asked, loose <- crossed \cup died

\* Seen from outside, and until work on it meets other work or a task of it dies, each run
\* works along the graph, one stage at a time, stops at the first failure, and settles on
\* the status its stages justify (orchestrator.py:180-290).
LifecycleSpec == Lifecycle!Spec

=============================================================================
