---------------------------- MODULE StageAgents ----------------------------
(***************************************************************************)
(* One stage of a run from the inside (execute_stage): the agent asks a    *)
(* language model, shows what it has so far through on_progress, asks      *)
(* again or lets a logo be drawn, and the stage keeps what it returns.     *)
(*                                                                         *)
(* Agents are of four kinds.  "single" agents ask once (input normalizer,  *)
(* strategy, QA); "brand" asks for an identity and lets a logo be drawn;   *)
(* "website" asks for a blueprint and for the code; "campaign" asks for    *)
(* the copy and then, concurrently, for the design of every asset of it.   *)
(* Payloads are the sets of parts they contain: Result("first") and        *)
(* Result("second") of the two steps, <<s, "ok">> and <<s, "error">> for   *)
(* the entry of asset s with and without a design.                         *)
(*                                                                         *)
(* The coroutines of a stage share one event loop and one database         *)
(* session.  on_progress does not await anything, so that what a coroutine *)
(* does between two calls of the language model is one step.               *)
(***************************************************************************)
EXTENDS Integers, FiniteSets, Sequences

CONSTANTS
  Kinds,          \* the kinds of agents that occur
  Specs,          \* bound: the assets a campaign can have
  Attempts,       \* stop_after_attempt; the code has 3
  Faults,         \* how writes fail: "flush", "commit", "answer"
  MaxFaults       \* bound: how many writes fail

ASSUME StageAssumption ==
  /\ Kinds \subseteq {"single", "brand", "website", "campaign"}
  /\ Faults \subseteq {"flush", "commit", "answer"}
  /\ Specs \cap {"first", "second"} = {}
  /\ Attempts \in Nat \ {0} /\ MaxFaults \in Nat

VARIABLES
  kind,
  at,             \* what the agent is at: "first", "second", "finish", "ended"
  asked,          \* the assets of the campaign
  retries,        \* how many requests of a call have failed with a passing error
  produced,       \* the payload in memory
  rows,           \* the payloads of the artifact versions the stage has written
  holder,         \* the artifact object of on_progress; row 0: there is none yet
  recommended,    \* the project has a website type: "no", "unsaved", "saved"
  status, output, error,      \* of the stage run; output 0: none
  faults

agent == <<kind, at, asked, retries, produced>>
stageRun == <<status, output, error>>
vars == <<agent, rows, holder, recommended, stageRun, faults>>

Calls == {"first", "second"} \cup Specs
Result(step) == <<step, "ok">>
Parts == {Result("first"), Result("second")} \cup (Specs \X {"ok", "error"})

Init ==
  /\ kind \in Kinds
  /\ at = "first"
  /\ asked = {} /\ produced = {}
  /\ retries = [c \in Calls |-> 0]
  /\ rows = <<>>
  /\ holder = [row |-> 0, attached |-> FALSE]
  /\ recommended \in {"no", "saved"}
  /\ status = "running" /\ output = 0 /\ error = "none"
  /\ faults = MaxFaults

-----------------------------------------------------------------------------
(* Writing *)

\* What the table is like after the object of on_progress has been written: a new
\* version if there is no object yet, and nothing if the object is not part of
\* the session any more.
Rows(payload) ==
  CASE holder.row = 0   -> Append(rows, payload)
    [] holder.attached  -> [rows EXCEPT ![holder.row] = payload]
    [] OTHER            -> rows

Held == IF holder.row = 0 THEN [row |-> Len(rows) + 1, attached |-> TRUE] ELSE holder

\* An object whose insertion has been rolled back leaves the session; it keeps
\* the id it was given.  An object that was in the table before stays.
Detached == IF holder.row = 0 THEN [Held EXCEPT !.attached = FALSE] ELSE holder

Saved(type) == IF type = "unsaved" THEN "saved" ELSE type
Forgotten(type) == IF type = "unsaved" THEN "no" ELSE type

Fail(fault) == fault \in Faults /\ faults > 0 /\ faults' = faults - 1

\* on_progress.  It catches its errors and rolls back.  A failed flush comes before
\* the object is put into the holder, a failed commit after it; the answer to a
\* commit can be lost although the commit has taken place.
Report(payload, type) ==
  \/ /\ rows' = Rows(payload) /\ holder' = Held
     /\ recommended' = Saved(type)
     /\ UNCHANGED faults
  \/ /\ Fail("flush")
     /\ recommended' = Forgotten(type)
     /\ UNCHANGED <<rows, holder>>
  \/ /\ Fail("commit")
     /\ holder' = Detached
     /\ recommended' = Forgotten(type)
     /\ UNCHANGED rows
  \/ /\ Fail("answer")
     /\ rows' = Rows(payload) /\ holder' = Detached
     /\ recommended' = Saved(type)

NoReport(type) == recommended' = type /\ UNCHANGED <<rows, holder, faults>>

-----------------------------------------------------------------------------
(* Calls of the language model *)

\* The entry of an asset has been completed, with or without a design.
Attempted(s) == {<<s, "ok">>, <<s, "error">>} \cap produced # {}

Awaits(c) ==
  \/ at = "first" /\ c = "first"
  \/ at = "second" /\ kind = "website" /\ c = "second"
  \/ at = "second" /\ kind = "campaign" /\ c \in asked /\ ~Attempted(c)

\* A request is refused for its rate, times out or does not get through, and it
\* was not the last one.
TryAgain(c) ==
  /\ Awaits(c)
  /\ retries[c] + 1 < Attempts
  /\ retries' = [retries EXCEPT ![c] = @ + 1]
  /\ UNCHANGED <<kind, at, asked, produced, rows, holder, recommended, stageRun, faults>>

\* The agent raises: the last attempt, another error, or an answer that is empty,
\* not JSON or not what the schema says, for the two calls that are not caught.
\* What the session has not committed is rolled back.
AgentFails ==
  /\ \E c \in {"first", "second"} : Awaits(c)
  /\ at' = "ended"
  /\ status' = "failed" /\ error' = "agent"
  /\ recommended' = Forgotten(recommended)
  /\ UNCHANGED <<kind, asked, retries, produced, rows, holder, output, faults>>

\* The first answer.  The assets are those of the campaign the model has written;
\* the website agent sets the type of the website if there is none.
FirstAnswers ==
  /\ at = "first"
  /\ produced' = {Result("first")}
  /\ asked' \in IF kind = "campaign" THEN SUBSET Specs ELSE {{}}
  /\ at' = IF kind = "single" \/ (kind = "campaign" /\ asked' = {}) THEN "finish" ELSE "second"
  /\ LET type == IF kind = "website" /\ recommended = "no" THEN "unsaved" ELSE recommended
     IN  IF kind = "single" THEN NoReport(type) ELSE Report(produced', type)
  /\ UNCHANGED <<kind, retries, stageRun>>

\* The code of the website.
CodeAnswers ==
  /\ at = "second" /\ kind = "website"
  /\ produced' = produced \cup {Result("second")}
  /\ at' = "finish"
  /\ UNCHANGED <<kind, asked, retries, rows, holder, recommended, stageRun, faults>>

\* The logo has been drawn ...
LogoArrives ==
  /\ at = "second" /\ kind = "brand"
  /\ produced' = produced \cup {Result("second")}
  /\ at' = "finish"
  /\ Report(produced', recommended)
  /\ UNCHANGED <<kind, asked, retries, stageRun>>

\* ... or there is none: drawing is disabled, fails or raises.
LogoIsMissing ==
  /\ at = "second" /\ kind = "brand"
  /\ at' = "finish"
  /\ UNCHANGED <<kind, asked, retries, produced, rows, holder, recommended, stageRun, faults>>

\* Mutant of DesignEnds: every designer has a copy of the campaign as it was.
DesignOfCopy(s) ==
  /\ Awaits(s) /\ s \in Specs
  /\ \E outcome \in {"ok", "error"} : produced' = produced \cup {<<s, outcome>>}
  /\ at' = IF \A other \in asked \ {s} : Attempted(other) THEN "finish" ELSE at
  /\ Report({Result("first")} \cup (produced' \ produced), recommended)
  /\ UNCHANGED <<kind, asked, retries, stageRun>>

\* A designer ends.  It never raises: an error, and an answer that is not a
\* component, complete the entry without a design.  Then the campaign is shown.
DesignEnds(s) ==
  /\ Awaits(s) /\ s \in Specs
  /\ \E outcome \in {"ok", "error"} : produced' = produced \cup {<<s, outcome>>}
  /\ at' = IF \A other \in asked \ {s} : Attempted(other) THEN "finish" ELSE at
  /\ Report(produced', recommended)
  /\ UNCHANGED <<kind, asked, retries, stageRun>>

-----------------------------------------------------------------------------
(* The end of the stage *)

Ended(newStatus, newError) ==
  /\ at' = "ended"
  /\ status' = newStatus /\ error' = newError
  /\ UNCHANGED <<kind, asked, retries, produced, holder>>

\* Mutant of Keep: what has been shown last is kept.
KeepShown ==
  /\ at = "finish" /\ ~(holder.row > Len(rows) /\ ~holder.attached)
  /\ rows' = IF holder.row = 0 THEN Rows(produced) ELSE rows
  /\ output' = Held.row
  /\ recommended' = Saved(recommended)
  /\ Ended("done", "none")
  /\ UNCHANGED faults

\* The object of on_progress, or a new version, gets the payload the agent has
\* returned; the stage names it and is completed or waits for a review.
Keep ==
  /\ at = "finish" /\ ~(holder.row > Len(rows) /\ ~holder.attached)
  /\ rows' = Rows(produced)
  /\ output' = Held.row
  /\ recommended' = Saved(recommended)
  /\ Ended("done", "none")
  /\ UNCHANGED faults

\* The stage names an object that is not in the table: the foreign key of
\* stage_run.output_artifact_id refuses it.
KeepUnknown ==
  /\ at = "finish" /\ holder.row > Len(rows) /\ ~holder.attached
  /\ recommended' = Forgotten(recommended)
  /\ Ended("failed", "reference")
  /\ UNCHANGED <<rows, output, faults>>

\* The write fails: everything of it is rolled back, and the stage fails.
KeepFails ==
  /\ at = "finish"
  /\ Fail("flush") \/ Fail("commit")
  /\ recommended' = Forgotten(recommended)
  /\ Ended("failed", "write")
  /\ UNCHANGED <<rows, output>>

\* The commit has taken place, its answer is lost, and the stage fails.
KeepUnanswered ==
  /\ at = "finish" /\ ~(holder.row > Len(rows) /\ ~holder.attached)
  /\ Fail("answer")
  /\ rows' = Rows(produced)
  /\ output' = Held.row
  /\ recommended' = Saved(recommended)
  /\ Ended("failed", "write")

Next ==
  \/ \E c \in Calls : TryAgain(c)
  \/ AgentFails \/ FirstAnswers \/ CodeAnswers \/ LogoArrives \/ LogoIsMissing
  \/ \E s \in Specs : DesignEnds(s)
  \/ Keep \/ KeepUnknown \/ KeepFails \/ KeepUnanswered

Spec == Init /\ [][Next]_vars

-----------------------------------------------------------------------------
(* Properties *)

\* The types; no call is tried more often than it may be (stop_after_attempt).
TypeOK ==
  /\ kind \in Kinds
  /\ at \in {"first", "second", "finish", "ended"}
  /\ asked \subseteq Specs
  /\ retries \in [Calls -> 0..Attempts - 1]
  /\ produced \subseteq Parts
  /\ rows \in Seq(SUBSET Parts)
  /\ holder \in [row : 0..Len(rows) + 1, attached : BOOLEAN]
  /\ recommended \in {"no", "unsaved", "saved"}
  /\ status \in {"running", "done", "failed"}
  /\ output \in 0..Len(rows)
  /\ error \in {"none", "agent", "write", "reference"}
  /\ faults \in 0..MaxFaults

\* A stage writes one version of its artifact, however often it shows its work and
\* whatever becomes of these writes (orchestrator.py:133-136: "downstream consumers
\* still see a single artifact version for this stage").
OneVersion == Len(rows) <= 1

Whole ==
  /\ output \in DOMAIN rows /\ rows[output] = produced
  /\ \A s \in asked : Attempted(s)

\* The artifact of a stage that has ended well is what its agent has returned, with
\* an entry for every asset of the campaign; unless the session has lost the object
\* of on_progress, whose row was rolled back under it (stage_runner.py:157).
OutputIsWhole == status = "done" /\ (holder.row = 0 \/ holder.attached) => Whole

\* A design that fails costs the campaign nothing else (creative_asset.py:282: "a
\* failed design for one asset shouldn't block the others").
DesignsAreIndependent ==
  kind = "campaign" /\ error = "agent" => produced = {}

\* Whatever calls and writes do, a stage leaves one version or none, and a stage
\* that has ended well leaves the whole of it.
Inv == TypeOK /\ OneVersion /\ OutputIsWhole /\ DesignsAreIndependent

\* Someone who polls the artifact never sees a part of it disappear.
ShownOnlyGrows ==
  [][rows # <<>> => rows[Len(rows)] \subseteq rows'[Len(rows')]]_vars

=============================================================================
