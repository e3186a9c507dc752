-------------------------- MODULE StageAgentsProofs --------------------------
(***************************************************************************)
(* A stage leaves one version or none, it shows more and more, and what it *)
(* leaves when it ends well is whole: for any campaign, any number of      *)
(* attempts and any number of writes that fail.                            *)
(***************************************************************************)
EXTENDS StageAgents, SequenceTheorems, TLAPS

-----------------------------------------------------------------------------
(* The invariant *)

\* There is at most one row.  The object of on_progress is that row, or one whose
\* insertion seemed to fail; without an object there is no row before the end.
HolderInv ==
  /\ Len(rows) <= 1
  /\ holder.row \in {0, 1}
  /\ holder.attached => holder.row = 1 /\ Len(rows) = 1
  /\ holder.row = 0 /\ at # "ended" => Len(rows) = 0

\* What is shown is part of what has been produced.
ShownInv == \A i \in DOMAIN rows : rows[i] \subseteq produced

\* Where an agent is tells what it has done.
AgentInv ==
  /\ at = "first" => produced = {} /\ holder.row = 0
  /\ kind # "campaign" => asked = {}
  /\ at = "finish" => \A s \in asked : Attempted(s)
  /\ status = "running" <=> at # "ended"
  /\ error = "none" \/ at = "ended"

StageInv ==
  TypeOK /\ HolderInv /\ ShownInv /\ AgentInv /\ OutputIsWhole /\ DesignsAreIndependent

-----------------------------------------------------------------------------
(* Writing *)

\* The table after the object of on_progress has been written with a payload that
\* contains what was shown before.
LEMMA RowsOfPayload ==
  ASSUME TypeOK, HolderInv, at # "ended", NEW payload \in SUBSET Parts,
         \A i \in DOMAIN rows : rows[i] \subseteq payload
  PROVE  /\ Rows(payload) \in Seq(SUBSET Parts)
         /\ \A i \in DOMAIN Rows(payload) : Rows(payload)[i] \subseteq payload
         /\ Len(rows) <= Len(Rows(payload)) /\ Len(Rows(payload)) <= 1
         /\ rows # <<>> => rows[1] \subseteq Rows(payload)[1]
         /\ holder.row = 0 \/ holder.attached => Rows(payload) = <<payload>>
         /\ ~(holder.row = 0 \/ holder.attached) => Rows(payload) = rows
<1>1. rows \in Seq(SUBSET Parts) /\ (Len(rows) = 0 \/ Len(rows) = 1)
  <2>1. rows \in Seq(SUBSET Parts) /\ Len(rows) <= 1
    BY DEF TypeOK, HolderInv
  <2>2. Len(rows) \in Nat
    BY <2>1, LenProperties
  <2>3. \A n \in Nat : n <= 1 => n = 0 \/ n = 1
    OBVIOUS
  <2> QED
    BY <2>1, <2>2, <2>3
<1>2. rows = <<>> \/ (Len(rows) = 1 /\ rows[1] \subseteq payload /\ rows = <<rows[1]>>)
  BY <1>1
<1>3. CASE holder.row = 0
  <2>1. rows = <<>> /\ Rows(payload) = <<payload>>
    BY <1>1, <1>3 DEF HolderInv, Rows
  <2> QED
    BY <1>3, <2>1
<1>4. CASE holder.row # 0 /\ holder.attached
  <2>1. holder.row = 1 /\ Len(rows) = 1
    BY <1>4 DEF HolderInv
  <2>2. Rows(payload) = [rows EXCEPT ![1] = payload]
    BY <1>4, <2>1 DEF Rows
  <2>3. Rows(payload) = <<payload>>
    BY <1>1, <1>2, <2>1, <2>2
  <2>4. \A i \in DOMAIN Rows(payload) : Rows(payload)[i] \subseteq payload
    BY <2>3
  <2> QED
    BY <1>2, <1>4, <2>1, <2>3, <2>4
<1>5. CASE holder.row # 0 /\ ~holder.attached
  <2>1. Rows(payload) = rows
    BY <1>5 DEF Rows
  <2> QED
    BY <1>1, <1>2, <1>5, <2>1
<1> QED
  BY <1>3, <1>4, <1>5

\* on_progress leaves at most one row, and shows no less than before.
LEMMA ReportKeepsRows ==
  ASSUME TypeOK, HolderInv, at # "ended", NEW payload \in SUBSET Parts,
         \A i \in DOMAIN rows : rows[i] \subseteq payload,
         NEW type \in {"no", "unsaved", "saved"}, Report(payload, type)
  PROVE  /\ rows' \in Seq(SUBSET Parts)
         /\ holder' \in [row : 0..Len(rows') + 1, attached : BOOLEAN]
         /\ recommended' \in {"no", "unsaved", "saved"} /\ faults' \in 0..MaxFaults
         /\ Len(rows') <= 1 /\ Len(rows) <= Len(rows')
         /\ holder'.row \in {0, 1}
         /\ holder'.attached => holder'.row = 1 /\ Len(rows') = 1
         /\ holder'.row = 0 => Len(rows') = 0
         /\ \A i \in DOMAIN rows' : rows'[i] \subseteq payload
         /\ rows # <<>> => rows[1] \subseteq rows'[1]
<1> DEFINE new == Rows(payload)
<1>1. /\ new \in Seq(SUBSET Parts)
      /\ \A i \in DOMAIN new : new[i] \subseteq payload
      /\ Len(rows) <= Len(new) /\ Len(new) <= 1
      /\ rows # <<>> => rows[1] \subseteq new[1]
      /\ holder.row = 0 \/ holder.attached => new = <<payload>>
      /\ ~(holder.row = 0 \/ holder.attached) => new = rows
  BY RowsOfPayload
<1> HIDE DEF new
<1>2. /\ rows \in Seq(SUBSET Parts) /\ Len(rows) \in Nat /\ Len(rows) <= 1
      /\ holder = [row |-> holder.row, attached |-> holder.attached]
      /\ holder.attached \in BOOLEAN /\ holder \in [row : 0..Len(rows) + 1, attached : BOOLEAN]
      /\ holder.row \in {0, 1}
      /\ holder.attached => holder.row = 1 /\ Len(rows) = 1
      /\ holder.row = 0 => Len(rows) = 0
      /\ faults \in 0..MaxFaults /\ MaxFaults \in Nat
  BY StageAssumption, LenProperties DEF TypeOK, HolderInv
<1>3. /\ Held \in [row : {1}, attached : BOOLEAN]
      /\ Held.attached => holder.row = 0 \/ holder.attached
      /\ Detached \in [row : {1}, attached : BOOLEAN]
      /\ Detached.attached => holder.attached
  <2>1. CASE holder.row = 0
    <3>1. Len(rows) + 1 = 1 /\ holder.attached = FALSE
      BY <1>2, <2>1
    <3>2. Held = [row |-> 1, attached |-> TRUE] /\ Detached = [row |-> 1, attached |-> FALSE]
      BY <2>1, <3>1 DEF Held, Detached
    <3> QED
      BY <2>1, <3>2
  <2>2. CASE holder.row = 1
    <3>1. Held = holder /\ Detached = holder
      BY <2>2 DEF Held, Detached
    <3> QED
      BY <1>2, <2>2, <3>1
  <2> QED
    BY <1>2, <2>1, <2>2
<1>4. Saved(type) \in {"no", "unsaved", "saved"} /\ Forgotten(type) \in {"no", "unsaved", "saved"}
  BY DEF Saved, Forgotten
<1>5. ASSUME NEW fault, Fail(fault)
      PROVE  faults' \in 0..MaxFaults
  BY <1>2, <1>5 DEF Fail
<1>6. Len(new) \in Nat /\ (Len(new) = 1 \/ Len(new) = 0)
  <2>1. \A n \in Nat : n <= 1 => n = 0 \/ n = 1
    OBVIOUS
  <2>2. Len(new) \in Nat
    BY <1>1, LenProperties
  <2> QED
    BY <1>1, <2>1, <2>2
<1>7. CASE rows' = new /\ holder' = Held /\ recommended' = Saved(type) /\ UNCHANGED faults
  BY <1>1, <1>2, <1>3, <1>4, <1>6, <1>7
<1>8. CASE Fail("flush") /\ recommended' = Forgotten(type) /\ UNCHANGED <<rows, holder>>
  <2>1. \A i \in DOMAIN rows : rows[i] \subseteq payload
    OBVIOUS
  <2> QED
    BY <1>2, <1>4, <1>5, <1>8, <2>1
<1>9. CASE Fail("commit") /\ holder' = Detached /\ recommended' = Forgotten(type) /\ UNCHANGED rows
  BY <1>2, <1>3, <1>4, <1>5, <1>9
<1>10. CASE Fail("answer") /\ rows' = new /\ holder' = Detached /\ recommended' = Saved(type)
  BY <1>1, <1>2, <1>3, <1>4, <1>5, <1>6, <1>10
<1> QED
  BY <1>7, <1>8, <1>9, <1>10 DEF Report, new

-----------------------------------------------------------------------------
(* The steps *)

ShowsMore == Len(rows) <= Len(rows') /\ (rows # <<>> => rows[1] \subseteq rows'[1])

LEMMA StageInvInit ==
  Init => StageInv
BY StageAssumption DEF Init, StageInv, TypeOK, HolderInv, ShownInv, AgentInv,
     OutputIsWhole, DesignsAreIndependent, Parts, Calls

\* A step of the agent that lets it show more.
LEMMA WorkKeepsInv ==
  ASSUME StageInv, at # "ended", at' \in {"first", "second", "finish"},
         produced' \in SUBSET Parts, produced \subseteq produced',
         asked' \subseteq Specs, UNCHANGED <<kind, stageRun>>,
         retries' \in [Calls -> 0..Attempts - 1],
         \/ UNCHANGED <<rows, holder, faults>> /\ recommended' \in {"no", "unsaved", "saved"}
         \/ \E type \in {"no", "unsaved", "saved"} : Report(produced', type),
         kind # "campaign" => asked' = {},
         at' = "first" => produced' = {} /\ holder'.row = 0,
         at' = "finish" => \A s \in asked' : Attempted(s)'
  PROVE  StageInv' /\ ShowsMore
<1>1. /\ TypeOK /\ HolderInv /\ \A i \in DOMAIN rows : rows[i] \subseteq produced'
      /\ status = "running" /\ error = "none" /\ UNCHANGED <<status, output, error>>
  BY DEF StageInv, ShownInv, AgentInv, stageRun
<1>2. /\ rows' \in Seq(SUBSET Parts)
      /\ holder' \in [row : 0..Len(rows') + 1, attached : BOOLEAN]
      /\ recommended' \in {"no", "unsaved", "saved"} /\ faults' \in 0..MaxFaults
      /\ Len(rows') <= 1 /\ Len(rows) <= Len(rows')
      /\ holder'.row \in {0, 1}
      /\ holder'.attached => holder'.row = 1 /\ Len(rows') = 1
      /\ holder'.row = 0 => Len(rows') = 0
      /\ \A i \in DOMAIN rows' : rows'[i] \subseteq produced'
      /\ rows # <<>> => rows[1] \subseteq rows'[1]
  <2>1. CASE UNCHANGED <<rows, holder, faults>> /\ recommended' \in {"no", "unsaved", "saved"}
    BY <1>1, <2>1, LenProperties DEF TypeOK, HolderInv
  <2>2. CASE \E type \in {"no", "unsaved", "saved"} : Report(produced', type)
    BY <1>1, <2>2, ReportKeepsRows
  <2> QED
    BY <2>1, <2>2
<1>3. output' \in 0..Len(rows')
  <2>1. Len(rows) \in Nat /\ Len(rows') \in Nat /\ output \in 0..Len(rows) /\ output' = output
    BY <1>1, <1>2, LenProperties DEF TypeOK
  <2> QED
    BY <1>2, <2>1
<1>4. TypeOK'
  BY <1>1, <1>2, <1>3 DEF TypeOK
<1>5. HolderInv' /\ ShownInv'
  BY <1>2 DEF HolderInv, ShownInv
<1>6. AgentInv'
  BY <1>1 DEF AgentInv
<1>7. OutputIsWhole' /\ DesignsAreIndependent'
  BY <1>1 DEF OutputIsWhole, DesignsAreIndependent
<1> QED
  BY <1>2, <1>4, <1>5, <1>6, <1>7 DEF StageInv, ShowsMore

\* The agent raises, or what the stage keeps is refused: the rows stay.
LEMMA FailureKeepsInv ==
  ASSUME StageInv, at # "ended", at' = "ended", status' = "failed",
         error' \in {"agent", "write", "reference"},
         error' = "agent" /\ kind = "campaign" => produced = {},
         faults' \in 0..MaxFaults, recommended' = Forgotten(recommended),
         UNCHANGED <<kind, asked, retries, produced, holder, rows, output>>
  PROVE  StageInv' /\ ShowsMore
<1>1. TypeOK'
  BY DEF StageInv, TypeOK, Forgotten
<1>2. HolderInv' /\ ShownInv' /\ AgentInv'
  BY DEF StageInv, HolderInv, ShownInv, AgentInv
<1>3. OutputIsWhole' /\ DesignsAreIndependent'
  BY DEF OutputIsWhole, DesignsAreIndependent
<1>4. Len(rows) \in Nat
  BY LenProperties DEF StageInv, TypeOK
<1> QED
  BY <1>1, <1>2, <1>3, <1>4 DEF StageInv, ShowsMore

\* What the agent has returned is written, and the stage names it.
LEMMA KeepingKeepsInv ==
  ASSUME StageInv, at = "finish", ~(holder.row > Len(rows) /\ ~holder.attached),
         rows' = Rows(produced), output' = Held.row, recommended' = Saved(recommended),
         \/ status' = "done" /\ error' = "none"
         \/ status' = "failed" /\ error' = "write",
         at' = "ended", faults' \in 0..MaxFaults,
         UNCHANGED <<kind, asked, retries, produced, holder>>
  PROVE  StageInv' /\ ShowsMore
<1>1. /\ rows' \in Seq(SUBSET Parts)
      /\ \A i \in DOMAIN rows' : rows'[i] \subseteq produced
      /\ Len(rows) <= Len(rows') /\ Len(rows') <= 1
      /\ rows # <<>> => rows[1] \subseteq rows'[1]
      /\ holder.row = 0 \/ holder.attached => rows' = <<produced>>
      /\ ~(holder.row = 0 \/ holder.attached) => rows' = rows
  BY RowsOfPayload DEF StageInv, TypeOK, ShownInv
<1>2. /\ Len(rows) \in Nat /\ Len(rows') \in Nat /\ holder.row \in {0, 1}
      /\ holder.attached => holder.row = 1 /\ Len(rows) = 1
      /\ holder.row = 0 => Len(rows) = 0
  BY <1>1, LenProperties DEF StageInv, TypeOK, HolderInv
<1>3. output' = 1 /\ Len(rows') = 1
  <2>1. CASE holder.row = 0
    <3>1. Len(rows) + 1 = 1 /\ rows' = <<produced>>
      BY <1>1, <1>2, <2>1
    <3>2. Held.row = 1
      BY <2>1, <3>1 DEF Held
    <3> QED
      BY <3>1, <3>2
  <2>2. CASE holder.row = 1
    <3>1. Held.row = 1
      BY <2>2 DEF Held
    <3>2. Len(rows') = 1
      <4>1. CASE holder.attached
        BY <1>1, <4>1
      <4>2. CASE ~holder.attached
        <5>1. ~(1 > Len(rows)) /\ rows' = rows
          BY <1>1, <2>2, <4>2
        <5>2. \A n \in Nat : n <= 1 /\ ~(1 > n) => n = 1
          OBVIOUS
        <5> QED
          BY <1>1, <1>2, <5>1, <5>2
      <4> QED
        BY <4>1, <4>2
    <3> QED
      BY <3>1, <3>2
  <2> QED
    BY <1>2, <2>1, <2>2
<1>4. holder' \in [row : 0..Len(rows') + 1, attached : BOOLEAN]
  <2>1. holder' = holder /\ holder \in [row : 0..Len(rows) + 1, attached : BOOLEAN]
    BY DEF StageInv, TypeOK
  <2>2. holder = [row |-> holder.row, attached |-> holder.attached] /\ holder.attached \in BOOLEAN
    BY <2>1
  <2>3. holder.row \in 0..Len(rows') + 1
    BY <1>2, <1>3
  <2> QED
    BY <2>1, <2>2, <2>3
<1>5. TypeOK'
  BY <1>1, <1>3, <1>4 DEF StageInv, TypeOK, Saved
<1>6. HolderInv' /\ ShownInv' /\ AgentInv' /\ DesignsAreIndependent'
  BY <1>1, <1>2, <1>3 DEF StageInv, HolderInv, ShownInv, AgentInv, DesignsAreIndependent
<1>7. OutputIsWhole'
  <2> SUFFICES ASSUME holder.row = 0 \/ holder.attached
               PROVE  Whole'
    BY DEF OutputIsWhole
  <2>1. rows' = <<produced>> /\ produced' = produced
    BY <1>1
  <2>2. \A s \in asked' : Attempted(s)'
    BY DEF StageInv, AgentInv, Attempted
  <2> QED
    BY <1>3, <2>1, <2>2 DEF Whole
<1> QED
  BY <1>1, <1>5, <1>6, <1>7 DEF StageInv, ShowsMore

LEMMA AgentStepKeepsInv ==
  ASSUME StageInv,
         \/ \E c \in Calls : TryAgain(c)
         \/ FirstAnswers \/ CodeAnswers \/ LogoArrives \/ LogoIsMissing
         \/ \E s \in Specs : DesignEnds(s)
  PROVE  StageInv' /\ ShowsMore
<1>1. /\ produced \in SUBSET Parts /\ asked \subseteq Specs
      /\ retries \in [Calls -> 0..Attempts - 1]
      /\ recommended \in {"no", "unsaved", "saved"}
  BY DEF StageInv, TypeOK
<1>2. ASSUME NEW c \in Calls, TryAgain(c)
      PROVE  StageInv' /\ ShowsMore
  <2>1. at \in {"first", "second"} /\ at' = at
    BY <1>2 DEF TryAgain, Awaits
  <2>2. retries' \in [Calls -> 0..Attempts - 1]
    BY <1>1, <1>2, StageAssumption DEF TryAgain
  <2>3. /\ UNCHANGED <<kind, stageRun, asked, produced, rows, holder, faults, recommended>>
        /\ at = "first" => produced = {} /\ holder.row = 0
        /\ kind # "campaign" => asked = {}
    BY <1>2 DEF TryAgain, StageInv, AgentInv
  <2> QED
    BY <1>1, <2>1, <2>2, <2>3, WorkKeepsInv
<1>3. ASSUME FirstAnswers
      PROVE  StageInv' /\ ShowsMore
  <2>1. /\ at = "first" /\ produced = {} /\ produced' = {Result("first")}
        /\ at' \in {"second", "finish"} /\ UNCHANGED <<kind, retries, stageRun>>
        /\ asked' \subseteq Specs /\ (kind # "campaign" => asked' = {})
        /\ at' = "finish" => asked' = {}
    <3>1. /\ at = "first" /\ produced = {} /\ produced' = {Result("first")}
          /\ at' \in {"second", "finish"} /\ UNCHANGED <<kind, retries, stageRun>>
      BY <1>3 DEF FirstAnswers, StageInv, AgentInv
    <3>2. asked' \in IF kind = "campaign" THEN SUBSET Specs ELSE {{}}
      BY <1>3 DEF FirstAnswers
    <3>3. at' = IF kind = "single" \/ (kind = "campaign" /\ asked' = {}) THEN "finish" ELSE "second"
      BY <1>3 DEF FirstAnswers
    <3>4. asked' \subseteq Specs /\ (kind # "campaign" => asked' = {})
      BY <3>2
    <3>5. at' = "finish" => asked' = {}
      BY <3>3, <3>4
    <3> QED
      BY <3>1, <3>4, <3>5
  <2>2. produced' \in SUBSET Parts
    BY <2>1 DEF Parts, Result
  <2>3. \/ UNCHANGED <<rows, holder, faults>> /\ recommended' \in {"no", "unsaved", "saved"}
        \/ \E type \in {"no", "unsaved", "saved"} : Report(produced', type)
    <3> DEFINE type == IF kind = "website" /\ recommended = "no" THEN "unsaved" ELSE recommended
    <3>1. type \in {"no", "unsaved", "saved"}
      BY <1>1
    <3>2. IF kind = "single" THEN NoReport(type) ELSE Report(produced', type)
      BY <1>3 DEF FirstAnswers
    <3> HIDE DEF type
    <3> QED
      BY <3>1, <3>2 DEF NoReport
  <2> QED
    BY <1>1, <2>1, <2>2, <2>3, WorkKeepsInv
<1>4. ASSUME CodeAnswers \/ LogoArrives \/ LogoIsMissing
      PROVE  StageInv' /\ ShowsMore
  <2>1. /\ at = "second" /\ at' = "finish" /\ kind # "campaign" /\ asked' = {}
        /\ UNCHANGED <<kind, retries, stageRun>>
    BY <1>4 DEF CodeAnswers, LogoArrives, LogoIsMissing, StageInv, AgentInv
  <2>2. produced' \in SUBSET Parts /\ produced \subseteq produced'
    BY <1>1, <1>4 DEF CodeAnswers, LogoArrives, LogoIsMissing, Parts
  <2>3. \/ UNCHANGED <<rows, holder, faults>> /\ recommended' \in {"no", "unsaved", "saved"}
        \/ \E type \in {"no", "unsaved", "saved"} : Report(produced', type)
    BY <1>1, <1>4 DEF CodeAnswers, LogoArrives, LogoIsMissing
  <2> QED
    BY <1>1, <2>1, <2>2, <2>3, WorkKeepsInv
<1>5. ASSUME NEW s \in Specs, DesignEnds(s)
      PROVE  StageInv' /\ ShowsMore
  <2>1. at = "second" /\ kind = "campaign" /\ s \in asked /\ UNCHANGED <<kind, asked, retries, stageRun>>
    BY <1>5, StageAssumption DEF DesignEnds, Awaits
  <2>2. PICK outcome \in {"ok", "error"} : produced' = produced \cup {<<s, outcome>>}
    BY <1>5 DEF DesignEnds
  <2>3. produced' \in SUBSET Parts /\ produced \subseteq produced'
    BY <1>1, <2>2 DEF Parts
  <2>4. at' \in {"second", "finish"} /\ (at' = "finish" => \A other \in asked \ {s} : Attempted(other))
    BY <1>5, <2>1 DEF DesignEnds
  <2>5. at' = "finish" => \A other \in asked' : Attempted(other)'
    BY <2>1, <2>2, <2>4 DEF Attempted
  <2>6. Report(produced', recommended)
    BY <1>5 DEF DesignEnds
  <2> QED
    BY <1>1, <2>1, <2>3, <2>4, <2>5, <2>6, WorkKeepsInv
<1> QED
  BY <1>2, <1>3, <1>4, <1>5

LEMMA EndKeepsInv ==
  ASSUME StageInv, AgentFails \/ Keep \/ KeepUnknown \/ KeepFails \/ KeepUnanswered
  PROVE  StageInv' /\ ShowsMore
<1>1. faults \in 0..MaxFaults /\ MaxFaults \in Nat
  BY StageAssumption DEF StageInv, TypeOK
<1>2. ASSUME NEW fault, Fail(fault)
      PROVE  faults' \in 0..MaxFaults
  BY <1>1, <1>2 DEF Fail
<1>3. CASE AgentFails
  <2>1. at # "ended" /\ (kind = "campaign" => produced = {})
    BY <1>3, StageAssumption DEF AgentFails, Awaits, StageInv, AgentInv, TypeOK
  <2> QED
    BY <1>1, <1>3, <2>1, FailureKeepsInv DEF AgentFails
<1>4. CASE KeepUnknown \/ KeepFails
  <2>1. faults' \in 0..MaxFaults
    BY <1>1, <1>2, <1>4 DEF KeepUnknown, KeepFails
  <2> QED
    BY <1>4, <2>1, FailureKeepsInv DEF KeepUnknown, KeepFails, Ended
<1>5. CASE Keep \/ KeepUnanswered
  <2>1. faults' \in 0..MaxFaults
    BY <1>1, <1>2, <1>5 DEF Keep, KeepUnanswered
  <2> QED
    BY <1>5, <2>1, KeepingKeepsInv DEF Keep, KeepUnanswered, Ended
<1> QED
  BY <1>3, <1>4, <1>5

LEMMA StutterKeepsInv ==
  StageInv /\ UNCHANGED vars => StageInv'
BY DEF StageInv, TypeOK, HolderInv, ShownInv, AgentInv, OutputIsWhole, Whole, Attempted,
       DesignsAreIndependent, vars, agent, stageRun

LEMMA StageInvNext ==
  StageInv /\ [Next]_vars => StageInv'
BY AgentStepKeepsInv, EndKeepsInv, StutterKeepsInv DEF Next

-----------------------------------------------------------------------------
(* The theorems *)

\* Whatever the language models answer and whichever writes fail, a stage leaves one
\* version or none; one that has ended well leaves all its agent has returned; and a
\* designer that fails takes nothing with it (execute_stage, creative_asset.py:282).
THEOREM StageLeavesOneWhole ==
  Spec => []Inv
<1>1. StageInv => Inv
  BY DEF StageInv, Inv, HolderInv, OneVersion
<1> QED
  BY <1>1, StageInvInit, StageInvNext, PTL DEF Spec

\* Who polls the artifact of a stage never sees a part of it disappear.
THEOREM StageShowsMore ==
  Spec => ShownOnlyGrows
<1>1. StageInv /\ [Next]_vars =>
        [rows # <<>> => rows[Len(rows)] \subseteq rows'[Len(rows')]]_vars
  <2> SUFFICES ASSUME StageInv, Next, rows # <<>>
               PROVE  rows[Len(rows)] \subseteq rows'[Len(rows')]
    OBVIOUS
  <2>1. StageInv' /\ Len(rows) <= Len(rows') /\ rows[1] \subseteq rows'[1]
    BY AgentStepKeepsInv, EndKeepsInv DEF Next, ShowsMore
  <2>2. Len(rows) = 1 /\ Len(rows') = 1
    <3>1. /\ Len(rows) \in Nat /\ Len(rows) <= 1 /\ Len(rows) # 0
          /\ Len(rows') \in Nat /\ Len(rows') <= 1
      BY <2>1, LenProperties, EmptySeq DEF StageInv, TypeOK, HolderInv
    <3>2. \A n, m \in Nat : n <= 1 /\ n # 0 /\ m <= 1 /\ n <= m => n = 1 /\ m = 1
      OBVIOUS
    <3> QED
      BY <2>1, <3>1, <3>2
  <2> QED
    BY <2>1, <2>2
<1> QED
  BY <1>1, StageInvInit, StageInvNext, PTL DEF Spec, ShownOnlyGrows
=============================================================================
