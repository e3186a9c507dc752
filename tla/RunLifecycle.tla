---------------------------- MODULE RunLifecycle ----------------------------
(***************************************************************************)
(* What the pipeline promises of its runs to somebody who looks at their   *)
(* rows only, the status of a run and those of its stages: work goes along *)
(* the graph, one stage at a time, stops at the first failure              *)
(* (orchestrator.py:196-198) and at a gate, and a run settles on the       *)
(* status that its stages justify.  Tasks, sessions and artifacts do not   *)
(* occur; of requests it is visible only that a pause or a resume takes    *)
(* effect later than the user asked for it.  Nothing is promised of a run  *)
(* that came loose, and all of the others.                                 *)
(***************************************************************************)

CONSTANTS
  Runs,
  Stages,         \* the stages of the graph
  DependsOn,      \* DependsOn[s]: the stages s depends on
  Gates           \* the stages with an approval gate

VARIABLES
  status,         \* the status of each run
  rows,           \* rows[r][s]: the status of stage s in run r
  asked,          \* the pauses and resumes on their way
  loose           \* the runs of which nothing is promised any more

vars == <<status, rows, asked, loose>>

Init ==
  /\ status = [r \in Runs |-> "none"]
  /\ rows = [r \in Runs |-> [s \in Stages |-> "pending"]]
  /\ asked = {}
  /\ loose = {}

SetStatus(r, new) == status' = [status EXCEPT ![r] = new]
SetRow(r, s, new) == rows' = [rows EXCEPT ![r][s] = new]

Has(r, row) == \E s \in Stages : rows[r][s] = row

\* Nothing of the run is being executed.
Quiescent(r) == ~ Has(r, "running")

\* A stage of r that has not been executed, while all it depends on is done.
CanStart(r, s) ==
  /\ rows[r][s] = "pending"
  /\ \A d \in DependsOn[s] : rows[r][d] = "completed"

\* A run that was seen running goes on even if it is paused by now.
GoesOn(r) == status[r] \in {"running", "paused"}

-----------------------------------------------------------------------------
(* What users ask for *)

Create(r) ==
  /\ status[r] = "none"
  /\ SetStatus(r, "queued")
  /\ UNCHANGED <<rows, asked>>

Ask(op, r) ==
  /\ \/ op = "pause" /\ status[r] \in {"queued", "running"}
     \/ op = "resume" /\ status[r] = "paused"
  /\ asked' = asked \cup {<<op, r>>}
  /\ UNCHANGED <<status, rows>>

\* The run may have ended meanwhile, and others may have asked for the same.
Effect(op, r) ==
  /\ <<op, r>> \in asked
  /\ SetStatus(r, IF op = "pause" THEN "paused" ELSE "running")
  /\ asked' \in {asked, asked \ {<<op, r>>}}
  /\ UNCHANGED rows

\* Failed stages are executed again, and nothing else is.
Retry(r) ==
  /\ status[r] = "failed"
  /\ Has(r, "failed")
  /\ SetStatus(r, "running")
  /\ rows' = [rows EXCEPT ![r] = [s \in Stages |->
                IF rows[r][s] = "failed" THEN "pending" ELSE rows[r][s]]]
  /\ UNCHANGED asked

\* Stages under review have been approved.
Approve(r) ==
  /\ status[r] \in {"queued", "running", "paused", "needs_review"}
  /\ Quiescent(r)
  /\ \E approved \in SUBSET {s \in Stages : rows[r][s] = "needs_review"} :
       rows' = [rows EXCEPT ![r] = [s \in Stages |->
                 IF s \in approved THEN "completed" ELSE rows[r][s]]]
  /\ UNCHANGED <<status, asked>>

-----------------------------------------------------------------------------
(* What the pipeline does *)

Begin(r) ==
  /\ status[r] \in {"queued", "running", "paused", "needs_review"}
  /\ Quiescent(r)
  /\ SetStatus(r, "running")
  /\ UNCHANGED <<rows, asked>>

Start(r, s) ==
  /\ GoesOn(r)
  /\ Quiescent(r)
  /\ ~ Has(r, "failed")
  /\ CanStart(r, s)
  /\ SetRow(r, s, "running")
  /\ UNCHANGED <<status, asked>>

Finish(r, s) ==
  /\ GoesOn(r)
  /\ rows[r][s] = "running"
  /\ SetRow(r, s, IF s \in Gates THEN "needs_review" ELSE "completed")
  /\ UNCHANGED <<status, asked>>

Fail(r, s) ==
  /\ GoesOn(r)
  /\ rows[r][s] = "running"
  /\ SetRow(r, s, "failed")
  /\ UNCHANGED <<status, asked>>

\* The status that ends the work on a run until somebody asks for more.
Justified(r, new) ==
  \/ new = "completed" /\ \A s \in Stages : rows[r][s] = "completed"
  \/ new = "failed" /\ Has(r, "failed")
  \/ /\ new = "needs_review"
     /\ \E s \in Gates : rows[r][s] = "needs_review"
     /\ ~ Has(r, "failed")
     /\ \A s \in Stages : ~ CanStart(r, s)

Settle(r, new) ==
  /\ GoesOn(r)
  /\ Quiescent(r)
  /\ Justified(r, new)
  /\ SetStatus(r, new)
  /\ UNCHANGED <<rows, asked>>

Step(r) ==
  \/ Create(r) \/ Retry(r) \/ Approve(r) \/ Begin(r)
  \/ \E op \in {"pause", "resume"} : Ask(op, r) \/ Effect(op, r)
  \/ \E s \in Stages : Start(r, s) \/ Finish(r, s) \/ Fail(r, s)
  \/ \E new \in {"completed", "failed", "needs_review"} : Settle(r, new)

\* A run comes loose, or is so: its rows change in any way, and those of the others not.
GoesLoose(r) ==
  /\ loose' = loose \cup {r}
  /\ status' = [status EXCEPT ![r] = status'[r]]
  /\ rows' = [rows EXCEPT ![r] = rows'[r]]
  /\ {a \in asked' : a[2] # r} = {a \in asked : a[2] # r}

Next ==
  \E r \in Runs : \/ Step(r) /\ UNCHANGED loose
                  \/ GoesLoose(r)

Spec == Init /\ [][Next]_vars

=============================================================================
