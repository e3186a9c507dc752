------------------------ MODULE CreativeAssetsProofs ------------------------
(***************************************************************************)
(* Proofs about CreativeAssets, for any number of versions, specs, workers *)
(* and requests, and however their sessions overlap.  StudioInv is about   *)
(* what every session may write; Tended says who works on what is pending  *)
(* in the versions of which nothing unread has been overwritten.           *)
(***************************************************************************)
EXTENDS CreativeAssets, SequenceTheorems, WellFoundedInduction, TLAPS

\* Every imagined spec of a payload that is shown as finished has JSX.
Done(specs) ==
  \A i \in ImagineIds \cap DOMAIN specs : specs[i].status = "ok" => specs[i].jsx # "none"

\* The text a user saved on a spec of the pipeline is kept by a session.
KeepsText(session) ==
  session.id \in AgentIds /\ session.specs[session.id].text = "user" => session.new.text = "user"

\* What a session x is about to write: a design for what it shows as finished.
Writes(x) ==
  /\ x.at \in Versions /\ x.id \in Ids
  /\ Done(x.specs)
  /\ x.id \in ImagineIds /\ x.new.status = "ok" => x.new.jsx # "none"

WorkerOK(w) ==
  LET x == worker[w]
  IN  /\ x.pc # "idle" => x.at \in Versions /\ x.id \in Ids
      /\ x.pc \in {"copy", "design"} => x.id \in ImagineIds
      /\ x.pc = "write" =>
           /\ Writes(x) /\ KeepsText(x) /\ x.id \in DOMAIN x.specs
           /\ x.then = "design" => x.id \in ImagineIds
           /\ x.then = "idle" => x.new.status # "pending"

ReqOK(c) ==
  LET x == req[c]
  IN  /\ x.op # "idle" => Writes(x)
      /\ x.op = "imagine" => x.id \in ImagineIds \ imagined /\ x.new = Placeholder
      /\ x.op = "patch" =>
           /\ KeepsText(x) /\ x.id \in DOMAIN x.specs
           /\ x.new.status = "pending" => x.specs[x.id].status = "pending"

\* No id is given twice.
ImaginesDiffer ==
  \A c, d \in Clients :
    req[c].op = "imagine" /\ req[d].op = "imagine" /\ req[c].id = req[d].id => c = d

\* The stage publishes specs of its own, which are finished or have failed.
AgentOK ==
  /\ agent.at = 0 => agent.todo = {}
  /\ agent.at # 0 => agent.at \in Versions
  /\ DOMAIN agent.specs \subseteq AgentIds
  /\ \A i \in DOMAIN agent.specs : agent.specs[i].status # "pending"

DeathsAreCounted == budget["die"] <= Budget["die"]

StudioInv ==
  /\ TypeOK /\ AgentOK /\ ImaginesDiffer /\ DeathsAreCounted
  /\ \A v \in Versions : Done(campaign[v].specs)
  /\ \A w \in Workers : WorkerOK(w)
  /\ \A c \in Clients : ReqOK(c)

\* Worker w will have settled spec i of version v when it ends.
Tends(w, v, i) ==
  /\ worker[w].pc # "idle" /\ worker[w].at = v /\ worker[w].id = i
  /\ worker[w].pc = "write" /\ worker[w].then = "idle" =>
       worker[w].specs[i].status = "pending"

Tended ==
  NoDeaths => \A v \in Versions \ lost, i \in Ids :
    Pending(v, i) => \E w \in Workers : Tends(w, v, i)

-----------------------------------------------------------------------------
(* Versions and payloads *)

\* A bounded set of numbers that is not empty has a greatest element.
LEMMA Greatest ==
  ASSUME NEW n \in Nat, NEW set \in SUBSET (0..n), set # {}
  PROVE  \E v \in set : \A u \in set : u <= v
<1> DEFINE down == {n - v : v \in set}
           below == {pair \in Nat \X Nat : pair[1] < pair[2]}
<1>1. \A v \in set : v \in Int /\ 0 <= v /\ v <= n
  OBVIOUS
<1>2. down \subseteq Nat /\ down # {}
  <2>1. \A v \in set : n - v \in Nat
    BY <1>1
  <2>2. \A v \in set : n - v \in down
    OBVIOUS
  <2> QED
    BY <2>1, <2>2
<1>3. IsWellFoundedOn(below, Nat)
  BY NatLessThanWellFounded DEF OpToRel
<1>4. PICK x \in down : \A y \in down : ~ (<<y, x>> \in below)
  <2> HIDE DEF down, below
  <2> QED
    BY <1>2, <1>3, WFMin
<1>5. PICK v \in set : x = n - v
  OBVIOUS
<1>6. ASSUME NEW u \in set PROVE u <= v
  <2>1. n - u \in down /\ n - u \in Nat /\ x \in Nat
    BY <1>2
  <2>2. ~ (n - u < x)
    BY <1>4, <2>1
  <2> QED
    BY <1>1, <1>5, <2>2
<1> QED
  BY <1>6

LEMMA VersionsType ==
  ASSUME TypeOK
  PROVE  /\ Len(campaign) \in Nat /\ Versions = 1..Len(campaign)
         /\ \A v \in Versions : /\ v \in Nat /\ v # 0 /\ campaign[v] \in Artifact
                                /\ campaign[v].specs \in Payload
<1>1. campaign \in Seq(Artifact)
  BY DEF TypeOK
<1>2. Len(campaign) \in Nat /\ campaign \in [1..Len(campaign) -> Artifact]
  BY <1>1, LenProperties
<1> QED
  BY <1>2 DEF Versions, Artifact

\* The campaign that is shown is one of the versions.
LEMMA LatestIsVersion ==
  ASSUME TypeOK, campaign # <<>>
  PROVE  Latest \in Versions
<1> DEFINE approved == {v \in Versions : campaign[v].approved}
           among == IF approved = {} THEN Versions ELSE approved
<1>1. Len(campaign) \in Nat /\ Versions = 1..Len(campaign) /\ Len(campaign) # 0
  BY EmptySeq DEF TypeOK, Versions
<1>2. among \in SUBSET (0..Len(campaign)) /\ among # {} /\ among \subseteq Versions
  BY <1>1
<1>3. Latest = CHOOSE v \in among : \A u \in among : u <= v
  BY DEF Latest
<1> HIDE DEF among
<1>4. \E v \in among : \A u \in among : u <= v
  BY <1>1, <1>2, Greatest
<1> QED
  BY <1>2, <1>3, <1>4

LEMMA PayloadType ==
  ASSUME NEW specs \in Payload
  PROVE  /\ DOMAIN specs \in SUBSET Ids
         /\ \A i \in DOMAIN specs : specs[i] \in AssetSpec
         /\ specs \in [DOMAIN specs -> AssetSpec]
  BY DEF Payload

\* A payload with one spec put in or replaced.
LEMMA WithPayload ==
  ASSUME NEW specs \in Payload, NEW i \in Ids, NEW spec \in AssetSpec
  PROVE  /\ With(specs, i, spec) \in Payload
         /\ DOMAIN With(specs, i, spec) = DOMAIN specs \cup {i}
         /\ With(specs, i, spec)[i] = spec
         /\ \A j \in DOMAIN specs : j # i => With(specs, i, spec)[j] = specs[j]
<1> DEFINE dom == DOMAIN specs \cup {i}
<1>1. dom \in SUBSET Ids
  BY PayloadType
<1>2. With(specs, i, spec) = [j \in dom |-> IF j = i THEN spec ELSE specs[j]]
  BY DEF With
<1>3. With(specs, i, spec) \in [dom -> AssetSpec]
  BY <1>2, PayloadType
<1> HIDE DEF dom
<1>4. With(specs, i, spec) \in Payload
  BY <1>1, <1>3 DEF Payload
<1> QED
  BY <1>2, <1>4 DEF dom

\* The payload of one version is written.
LEMMA WrittenPayload ==
  ASSUME TypeOK, NEW v \in Versions, NEW after \in Payload,
         campaign' = [campaign EXCEPT ![v].specs = after]
  PROVE  /\ campaign' \in Seq(Artifact) /\ Len(campaign') = Len(campaign)
         /\ campaign'[v].specs = after
         /\ \A u \in Versions : u # v => campaign'[u] = campaign[u]
<1>1. /\ campaign \in Seq(Artifact) /\ Len(campaign) \in Nat /\ v \in 1..Len(campaign)
      /\ campaign[v] \in Artifact
  BY VersionsType DEF TypeOK
<1> DEFINE new == [campaign[v] EXCEPT !.specs = after]
<1>2. new \in Artifact /\ new.specs = after
  BY <1>1 DEF Artifact
<1>3. campaign' = [campaign EXCEPT ![v] = new]
  OBVIOUS
<1> HIDE DEF new
<1>4. campaign' \in Seq(Artifact) /\ Len(campaign') = Len(campaign)
  BY <1>1, <1>2, <1>3, ExceptSeq
<1>5. campaign'[v] = new /\ \A u \in Versions : u # v => campaign'[u] = campaign[u]
  BY <1>1, <1>3, VersionsType
<1> QED
  BY <1>2, <1>4, <1>5

\* The commit of a session: the payload it has read, with its spec; what it had not read is
\* lost.
LEMMA SavedPayload ==
  ASSUME TypeOK, NEW x, x.at \in Versions, x.id \in Ids, x.specs \in Payload,
         x.new \in AssetSpec, Save(x)
  PROVE  /\ campaign' \in Seq(Artifact) /\ Len(campaign') = Len(campaign)
         /\ \A u \in Versions : u # x.at => campaign'[u] = campaign[u]
         /\ \/ /\ campaign'[x.at].specs = With(x.specs, x.id, x.new)
               /\ x.at \notin lost' => x.specs = campaign[x.at].specs
            \/ campaign' = campaign /\ With(x.specs, x.id, x.new) = x.specs
         /\ lost \subseteq lost' /\ lost' \subseteq Versions
<1> DEFINE after == With(x.specs, x.id, x.new)
<1>1. after \in Payload /\ lost \subseteq Versions
  BY WithPayload DEF TypeOK
<1>2. CASE after = x.specs /\ UNCHANGED <<campaign, lost>>
  BY <1>1, <1>2 DEF TypeOK
<1>3. CASE /\ campaign' = [campaign EXCEPT ![x.at].specs = after]
           /\ lost' = IF campaign[x.at].specs = x.specs THEN lost ELSE lost \cup {x.at}
  <2> HIDE DEF after
  <2>1. /\ campaign' \in Seq(Artifact) /\ Len(campaign') = Len(campaign)
        /\ campaign'[x.at].specs = after
        /\ \A u \in Versions : u # x.at => campaign'[u] = campaign[u]
    BY <1>1, <1>3, WrittenPayload
  <2>2. lost \subseteq lost' /\ lost' \subseteq Versions
    BY <1>1, <1>3
  <2>3. x.at \notin lost' => x.specs = campaign[x.at].specs
    BY <1>3
  <2> QED
    BY <2>1, <2>2, <2>3 DEF after
<1> QED
  BY <1>2, <1>3 DEF Save

-----------------------------------------------------------------------------
(* Whatever sessions overlap *)

\* Specs are finished with a design, after a commit.
LEMMA SavedIsDone ==
  ASSUME StudioInv, NEW x, Writes(x), x.specs \in Payload, x.new \in AssetSpec, Save(x)
  PROVE  /\ campaign' \in Seq(Artifact) /\ Len(campaign') = Len(campaign)
         /\ \A v \in Versions : Done(campaign'[v].specs)
         /\ lost' \subseteq Versions'
<1>1. /\ campaign' \in Seq(Artifact) /\ Len(campaign') = Len(campaign)
      /\ lost' \subseteq Versions
      /\ \A u \in Versions : u # x.at => campaign'[u] = campaign[u]
      /\ \/ campaign'[x.at].specs = With(x.specs, x.id, x.new)
         \/ campaign' = campaign /\ With(x.specs, x.id, x.new) = x.specs
  BY SavedPayload DEF StudioInv, Writes
<1>2. Done(With(x.specs, x.id, x.new))
  <2> DEFINE after == With(x.specs, x.id, x.new)
  <2>1. /\ x.id \in Ids /\ Done(x.specs)
        /\ (x.id \in ImagineIds /\ x.new.status = "ok" => x.new.jsx # "none")
    BY DEF Writes
  <2>2. /\ DOMAIN after = DOMAIN x.specs \cup {x.id} /\ after[x.id] = x.new
        /\ \A j \in DOMAIN x.specs : j # x.id => after[j] = x.specs[j]
    BY DEF With
  <2> HIDE DEF after
  <2>3. Done(after)
    BY <2>1, <2>2 DEF Done
  <2> QED
    BY <2>3 DEF after
<1>3. \A v \in Versions : Done(campaign[v].specs)
  BY DEF StudioInv
<1>4. Versions' = Versions
  BY <1>1 DEF Versions
<1> QED
  BY <1>1, <1>2, <1>3, <1>4

\* What is not touched stays as it is, and versions do not go.
LEMMA WorkerUntouched ==
  ASSUME StudioInv, TypeOK', Len(campaign') >= Len(campaign), NEW w \in Workers,
         worker'[w] = worker[w]
  PROVE  WorkerOK(w)'
<1>1. Versions \subseteq Versions'
  BY VersionsType DEF StudioInv, TypeOK, Versions
<1> QED
  BY <1>1 DEF StudioInv, WorkerOK, Writes, KeepsText

LEMMA ReqUntouched ==
  ASSUME StudioInv, TypeOK', Len(campaign') >= Len(campaign), NEW c \in Clients,
         req'[c] = req[c], req[c].op = "imagine" => req[c].id \notin imagined'
  PROVE  ReqOK(c)'
<1>1. Versions \subseteq Versions'
  BY VersionsType DEF StudioInv, TypeOK, Versions
<1> QED
  BY <1>1 DEF StudioInv, ReqOK, Writes, KeepsText

LEMMA AgentUntouched ==
  ASSUME StudioInv, TypeOK', Len(campaign') >= Len(campaign), agent' = agent
  PROVE  AgentOK'
<1>1. Versions \subseteq Versions'
  BY VersionsType DEF StudioInv, TypeOK, Versions
<1> QED
  BY <1>1 DEF StudioInv, AgentOK

LEMMA SpendCounts ==
  ASSUME StudioInv, NEW op \in Ops, Spend(op)
  PROVE  budget' \in [Ops -> Nat] /\ DeathsAreCounted'
<1>1. /\ budget \in [Ops -> Nat] /\ budget[op] > 0 /\ budget["die"] <= Budget["die"]
      /\ budget' = [budget EXCEPT ![op] = budget[op] - 1]
      /\ Budget \in [Ops -> Nat] /\ "die" \in Ops
  BY LimitsAssumption DEF Spend, StudioInv, TypeOK, DeathsAreCounted, Ops
<1> QED
  BY <1>1 DEF DeathsAreCounted

LEMMA ScheduledWorker ==
  ASSUME TypeOK, NEW pc \in {"copy", "flip"}, NEW v \in Nat, NEW i \in Ids, Schedule(pc, v, i)
  PROVE  /\ worker' \in [Workers -> WorkerState]
         /\ \E w \in Workers :
              /\ worker[w].pc = "idle"
              /\ worker'[w].pc = pc /\ worker'[w].at = v /\ worker'[w].id = i
              /\ \A u \in Workers \ {w} : worker'[u] = worker[u]
<1>1. PICK w \in Workers :
        /\ worker[w].pc = "idle"
        /\ worker' = [worker EXCEPT ![w] = [NoWorker EXCEPT !.pc = pc, !.at = v, !.id = i]]
  BY DEF Schedule
<1> DEFINE new == [NoWorker EXCEPT !.pc = pc, !.at = v, !.id = i]
<1>2. Empty \in Payload
  <2>1. Empty \in [{} -> AssetSpec]
    BY DEF Empty
  <2> QED
    BY <2>1 DEF Payload
<1>3. new \in WorkerState /\ new.pc = pc /\ new.at = v /\ new.id = i
  BY <1>2 DEF NoWorker, WorkerState, Placeholder, AssetSpec
<1> HIDE DEF new
<1>4. worker' = [worker EXCEPT ![w] = new]
  BY <1>1 DEF new
<1>5. /\ worker' \in [Workers -> WorkerState]
      /\ worker'[w] = new /\ \A u \in Workers \ {w} : worker'[u] = worker[u]
  BY <1>3, <1>4 DEF TypeOK
<1> QED
  BY <1>1, <1>3, <1>5

LEMMA ClosedReq ==
  ASSUME TypeOK, NEW c \in Clients, Close(c)
  PROVE  /\ req' \in [Clients -> ReqState] /\ req'[c].op = "idle"
         /\ \A d \in Clients \ {c} : req'[d] = req[d]
<1>1. Empty \in Payload
  <2>1. Empty \in [{} -> AssetSpec]
    BY DEF Empty
  <2> QED
    BY <2>1 DEF Payload
<1>2. NoReq \in ReqState /\ NoReq.op = "idle"
  BY <1>1 DEF NoReq, ReqState, Placeholder, AssetSpec
<1> QED
  BY <1>2 DEF Close, TypeOK

LEMMA IdleWorker ==
  ASSUME TypeOK, NEW w \in Workers, worker' = [worker EXCEPT ![w] = NoWorker]
  PROVE  /\ worker' \in [Workers -> WorkerState] /\ worker'[w].pc = "idle"
         /\ \A u \in Workers \ {w} : worker'[u] = worker[u]
<1>1. Empty \in Payload
  <2>1. Empty \in [{} -> AssetSpec]
    BY DEF Empty
  <2> QED
    BY <2>1 DEF Payload
<1>2. NoWorker \in WorkerState /\ NoWorker.pc = "idle"
  BY <1>1 DEF NoWorker, WorkerState, Placeholder, AssetSpec
<1> QED
  BY <1>2 DEF TypeOK

\* A step of the stage, of a request or of the user, seen by those it does not touch.
LEMMA OthersUntouched ==
  ASSUME StudioInv, TypeOK', Len(campaign') >= Len(campaign), imagined' = imagined
  PROVE  /\ \A w \in Workers : worker'[w] = worker[w] => WorkerOK(w)'
         /\ \A c \in Clients : req'[c] = req[c] => ReqOK(c)'
         /\ agent' = agent => AgentOK'
<1>1. \A c \in Clients : req[c].op = "imagine" => req[c].id \notin imagined'
  BY DEF StudioInv, ReqOK
<1> QED
  BY <1>1, WorkerUntouched, ReqUntouched, AgentUntouched

\* The new version the stage publishes, and what it makes of it.
LEMMA CopyPublished ==
  ASSUME StudioInv, PublishCopy
  PROVE  /\ campaign' \in Seq(Artifact) /\ Len(campaign') = Len(campaign) + 1
         /\ \A v \in Versions : campaign'[v] = campaign[v]
         /\ agent' \in [at : Nat, specs : Payload, todo : SUBSET AgentIds]
         /\ agent'.at = Len(campaign) + 1 /\ agent'.specs = campaign'[Len(campaign) + 1].specs
         /\ DOMAIN agent'.specs = AgentIds
         /\ \A i \in AgentIds : agent'.specs[i].status # "pending"
<1> DEFINE spec == [Copied EXCEPT !.status = "ok"]
           specs == [i \in AgentIds |-> spec]
           version == [specs |-> specs, approved |-> FALSE]
<1>0. campaign \in Seq(Artifact) /\ Len(campaign) \in Nat /\ AgentIds \subseteq Ids
  BY VersionsType DEF StudioInv, TypeOK, Ids
<1>1. spec \in AssetSpec /\ spec.status # "pending"
  BY DEF Copied, AssetSpec
<1>2. /\ campaign' = Append(campaign, version)
      /\ agent' = [at |-> Len(campaign) + 1, specs |-> specs, todo |-> AgentIds]
  BY DEF PublishCopy
<1> HIDE DEF spec
<1>3. specs \in [AgentIds -> AssetSpec] /\ DOMAIN specs = AgentIds
  BY <1>1
<1>4. specs \in Payload
  BY <1>0, <1>3 DEF Payload
<1>5. \A i \in AgentIds : specs[i].status # "pending"
  BY <1>1
<1> HIDE DEF specs
<1>6. version \in Artifact /\ version.specs = specs
  BY <1>4 DEF Artifact
<1> HIDE DEF version
<1>7. /\ campaign' \in Seq(Artifact) /\ Len(campaign') = Len(campaign) + 1
      /\ \A v \in Versions : campaign'[v] = campaign[v]
      /\ campaign'[Len(campaign) + 1] = version
  BY <1>0, <1>2, <1>6, AppendProperties DEF Versions
<1>8. /\ agent'.at = Len(campaign) + 1 /\ agent'.specs = specs
      /\ agent' \in [at : Nat, specs : Payload, todo : SUBSET AgentIds]
  BY <1>0, <1>2, <1>4
<1> QED
  BY <1>3, <1>5, <1>6, <1>7, <1>8

\* One version of the campaign, as the agent has it.
LEMMA DesignPublished ==
  ASSUME StudioInv, NEW i \in AgentIds, NEW ok \in BOOLEAN, PublishDesign(i, ok)
  PROVE  /\ agent.at \in Versions
         /\ campaign' \in Seq(Artifact) /\ Len(campaign') = Len(campaign)
         /\ \A v \in Versions : v # agent.at => campaign'[v] = campaign[v]
         /\ agent' \in [at : Nat, specs : Payload, todo : SUBSET AgentIds]
         /\ agent'.at = agent.at /\ agent'.specs = campaign'[agent.at].specs
         /\ DOMAIN agent'.specs \subseteq AgentIds
         /\ \A j \in DOMAIN agent'.specs : agent'.specs[j].status # "pending"
<1> DEFINE specs == With(agent.specs, i, Designed(ok))
<1>0. /\ TypeOK /\ AgentOK /\ agent \in [at : Nat, specs : Payload, todo : SUBSET AgentIds]
      /\ AgentIds \subseteq Ids
  BY DEF StudioInv, TypeOK, Ids
<1>1. /\ campaign' = [campaign EXCEPT ![agent.at].specs = specs]
      /\ agent' = [agent EXCEPT !.specs = specs, !.todo = @ \ {i}]
      /\ i \in agent.todo
  BY DEF PublishDesign
<1>2. Designed(ok) \in AssetSpec /\ Designed(ok).status # "pending"
  BY DEF Designed, AssetSpec
<1>3. /\ DOMAIN specs = DOMAIN agent.specs \cup {i} /\ specs[i] = Designed(ok)
      /\ \A j \in DOMAIN agent.specs : j # i => specs[j] = agent.specs[j]
  BY DEF With
<1>4. specs \in Payload
  BY <1>0, <1>2, WithPayload
<1> HIDE DEF specs
<1>5. /\ DOMAIN specs \subseteq AgentIds
      /\ \A j \in DOMAIN specs : specs[j].status # "pending"
  BY <1>0, <1>2, <1>3 DEF AgentOK
<1>6. agent.at \in Versions
  BY <1>0, <1>1 DEF AgentOK
<1>7. /\ campaign' \in Seq(Artifact) /\ Len(campaign') = Len(campaign)
      /\ campaign'[agent.at].specs = specs
      /\ \A u \in Versions : u # agent.at => campaign'[u] = campaign[u]
  BY <1>0, <1>1, <1>4, <1>6, WrittenPayload
<1>8. /\ agent' \in [at : Nat, specs : Payload, todo : SUBSET AgentIds]
      /\ agent'.at = agent.at /\ agent'.specs = specs
  BY <1>0, <1>1, <1>4
<1> QED
  BY <1>5, <1>6, <1>7, <1>8

\* The stage creative_asset.
LEMMA AgentSteps ==
  ASSUME StudioInv, AgentStep
  PROVE  StudioInv'
<1>0. /\ TypeOK /\ AgentOK /\ agent \in [at : Nat, specs : Payload, todo : SUBSET AgentIds]
      /\ campaign \in Seq(Artifact) /\ Len(campaign) \in Nat /\ AgentIds \subseteq Ids
  BY VersionsType DEF StudioInv, TypeOK, Ids
<1>1. UNCHANGED <<worker, req, imagined, lost, budget>>
  BY DEF AgentStep, PublishCopy, PublishDesign, FinishCampaign
<1>2. ASSUME TypeOK', AgentOK', Len(campaign') >= Len(campaign),
             \A v \in Versions' : Done(campaign'[v].specs)
      PROVE  StudioInv'
  <2>1. /\ \A w \in Workers : WorkerOK(w)'
        /\ \A c \in Clients : ReqOK(c)'
    BY <1>1, <1>2, OthersUntouched
  <2> QED
    BY <1>1, <1>2, <2>1 DEF StudioInv, ImaginesDiffer, DeathsAreCounted
<1>3. ASSUME campaign' \in Seq(Artifact), Len(campaign') \in {Len(campaign), Len(campaign) + 1},
             agent' \in [at : Nat, specs : Payload, todo : SUBSET AgentIds]
      PROVE  TypeOK'
  <2>1. Versions \subseteq Versions'
    BY <1>0, <1>3 DEF Versions
  <2> QED
    BY <1>0, <1>1, <1>3, <2>1 DEF TypeOK
<1>4. CASE PublishCopy
  <2>1. TypeOK'
    BY <1>3, <1>4, CopyPublished
  <2>2. AgentOK'
    BY <1>0, <1>4, CopyPublished DEF AgentOK, Versions
  <2>3. ASSUME NEW v \in Versions' PROVE Done(campaign'[v].specs)
    <3>1. CASE v \in Versions
      BY <1>4, <3>1, CopyPublished DEF StudioInv
    <3>2. CASE v \notin Versions
      <4>1. v = Len(campaign) + 1
        BY <1>0, <1>4, <3>2, CopyPublished DEF Versions
      <4> QED
        BY <1>4, <4>1, CopyPublished, IdsAssumption DEF Done
    <3> QED
      BY <3>1, <3>2
  <2> QED
    BY <1>0, <1>2, <1>4, <2>1, <2>2, <2>3, CopyPublished
<1>5. ASSUME NEW i \in AgentIds, NEW ok \in BOOLEAN, PublishDesign(i, ok)
      PROVE  StudioInv'
  <2>1. TypeOK'
    BY <1>3, <1>5, DesignPublished
  <2>2. AgentOK' /\ Versions' = Versions
    BY <1>0, <1>5, DesignPublished, VersionsType DEF AgentOK, Versions
  <2>3. \A v \in Versions' : Done(campaign'[v].specs)
    <3>1. Done(agent'.specs)
      BY <1>5, DesignPublished, IdsAssumption DEF Done
    <3> QED
      BY <1>5, <2>2, <3>1, DesignPublished DEF StudioInv
  <2> QED
    BY <1>0, <1>2, <1>5, <2>1, <2>2, <2>3, DesignPublished
<1>6. CASE FinishCampaign
  <2>1. agent' = NoAgent /\ campaign' = campaign
    BY <1>6 DEF FinishCampaign
  <2>2. Empty \in Payload /\ DOMAIN Empty = {}
    <3>1. Empty \in [{} -> AssetSpec]
      BY DEF Empty
    <3> QED
      BY <3>1 DEF Payload
  <2>3. /\ NoAgent \in [at : Nat, specs : Payload, todo : SUBSET AgentIds]
        /\ NoAgent.at = 0 /\ NoAgent.todo = {} /\ DOMAIN NoAgent.specs = {}
    BY <2>2 DEF NoAgent
  <2>4. TypeOK' /\ AgentOK'
    BY <1>0, <1>3, <2>1, <2>3 DEF AgentOK
  <2>5. \A v \in Versions' : Done(campaign'[v].specs)
    BY <2>1 DEF StudioInv, Versions
  <2> QED
    BY <1>0, <1>2, <2>1, <2>4, <2>5
<1> QED
  BY <1>4, <1>5, <1>6 DEF AgentStep

\* A request opens a session on the payload of a version.
LEMMA Opens ==
  ASSUME StudioInv, NEW c \in Clients, NEW x \in ReqState, req' = [req EXCEPT ![c] = x],
         UNCHANGED <<campaign, agent, worker, imagined, lost>>,
         budget' \in [Ops -> Nat], DeathsAreCounted',
         Writes(x), x.specs = campaign[x.at].specs,
         \/ /\ x.op = "imagine" /\ x.id \in ImagineIds \ imagined /\ x.new = Placeholder
            /\ \A d \in Clients : req[d].id # x.id
         \/ /\ x.op = "patch" /\ KeepsText(x) /\ x.id \in DOMAIN x.specs
            /\ x.new.status = "pending" => x.specs[x.id].status = "pending"
  PROVE  StudioInv'
<1>1. /\ req' \in [Clients -> ReqState] /\ req'[c] = x
      /\ \A d \in Clients \ {c} : req'[d] = req[d]
  BY DEF StudioInv, TypeOK
<1>2. Len(campaign') >= Len(campaign) /\ Versions' = Versions
  BY VersionsType DEF StudioInv, Versions
<1>3. TypeOK'
  BY <1>1, <1>2 DEF StudioInv, TypeOK
<1>4. /\ \A w \in Workers : WorkerOK(w)'
      /\ \A d \in Clients \ {c} : ReqOK(d)'
      /\ AgentOK'
  BY <1>1, <1>2, <1>3, OthersUntouched
<1>5. ReqOK(c)'
  BY <1>1, <1>2 DEF ReqOK, Writes, KeepsText
<1>6. ImaginesDiffer'
  BY <1>1 DEF StudioInv, ImaginesDiffer
<1>7. \A v \in Versions' : Done(campaign'[v].specs)
  BY <1>2 DEF StudioInv
<1> QED
  BY <1>3, <1>4, <1>5, <1>6, <1>7 DEF StudioInv

LEMMA RequestImagineKeeps ==
  ASSUME StudioInv, NEW c \in Clients, RequestImagine(c)
  PROVE  StudioInv'
<1>1. PICK i \in ImagineIds \ imagined :
        /\ \A d \in Clients : req[d].id # i
        /\ req' = [req EXCEPT ![c] = [op |-> "imagine", at |-> Latest, id |-> i,
                                     specs |-> campaign[Latest].specs, new |-> Placeholder]]
  BY DEF RequestImagine
<1> DEFINE x == [op |-> "imagine", at |-> Latest, id |-> i,
                 specs |-> campaign[Latest].specs, new |-> Placeholder]
<1>2. /\ UNCHANGED <<campaign, agent, worker, imagined, lost>>
      /\ budget' \in [Ops -> Nat] /\ DeathsAreCounted'
  BY SpendCounts DEF RequestImagine, Ops
<1>3. /\ Latest \in Versions /\ Latest \in Nat /\ campaign[Latest].specs \in Payload
      /\ Done(campaign[Latest].specs)
  BY LatestIsVersion, VersionsType DEF RequestImagine, StudioInv
<1>4. Placeholder \in AssetSpec /\ Placeholder.status = "pending" /\ i \in Ids
  BY DEF Placeholder, AssetSpec, Ids
<1>5. /\ x \in ReqState /\ x.op = "imagine" /\ x.id = i /\ x.at = Latest
      /\ x.specs = campaign[Latest].specs /\ x.new = Placeholder
  BY <1>3, <1>4 DEF ReqState
<1> HIDE DEF x
<1>6. Writes(x)
  BY <1>3, <1>4, <1>5 DEF Writes
<1>7. req' = [req EXCEPT ![c] = x]
  BY <1>1 DEF x
<1> QED
  BY <1>1, <1>2, <1>5, <1>6, <1>7, Opens

LEMMA PatchedSpec ==
  ASSUME NEW spec \in AssetSpec, NEW patch \in Patches
  PROVE  LET new == Patched(spec, patch)
         IN  /\ new \in AssetSpec /\ (spec.text = "user" => new.text = "user")
             /\ new.status = "pending" => spec.status = "pending"
             /\ new.status = "ok" => new.jsx = "user" \/ spec.status = "ok"
             /\ spec.jsx # "none" => new.jsx # "none"
  BY DEF Patched, Patches, AssetSpec

LEMMA RequestPatchKeeps ==
  ASSUME StudioInv, NEW c \in Clients, NEW v \in Versions, NEW i \in Ids,
         NEW patch \in Patches, RequestPatch(c, v, i, patch)
  PROVE  StudioInv'
<1> DEFINE spec == campaign[v].specs[i]
           new == Patched(spec, patch)
           x == [op |-> "patch", at |-> v, id |-> i, specs |-> campaign[v].specs, new |-> new]
<1>1. /\ UNCHANGED <<campaign, agent, worker, imagined, lost>>
      /\ i \in DOMAIN campaign[v].specs
      /\ budget' \in [Ops -> Nat] /\ DeathsAreCounted'
  BY SpendCounts DEF RequestPatch, Ops
<1>2. req' = [req EXCEPT ![c] = x]
  BY DEF RequestPatch
<1>3. /\ v \in Nat /\ campaign[v].specs \in Payload /\ Done(campaign[v].specs)
      /\ spec \in AssetSpec
  BY <1>1, VersionsType, PayloadType DEF StudioInv
<1>4. /\ new \in AssetSpec /\ (spec.text = "user" => new.text = "user")
      /\ new.status = "pending" => spec.status = "pending"
      /\ new.status = "ok" => new.jsx = "user" \/ spec.status = "ok"
      /\ spec.jsx # "none" => new.jsx # "none"
  BY <1>3, PatchedSpec
<1> HIDE DEF new
<1>5. /\ x \in ReqState /\ x.op = "patch" /\ x.id = i /\ x.at = v
      /\ x.specs = campaign[v].specs /\ x.new = new
  BY <1>3, <1>4 DEF ReqState
<1> HIDE DEF x
<1>6. Writes(x) /\ KeepsText(x)
  BY <1>1, <1>3, <1>4, <1>5 DEF Writes, KeepsText, Done
<1> QED
  BY <1>1, <1>2, <1>4, <1>5, <1>6, Opens

LEMMA CommitImagineKeeps ==
  ASSUME StudioInv, NEW c \in Clients, CommitImagine(c)
  PROVE  StudioInv'
<1> DEFINE x == req[c]
<1>1. /\ x.op = "imagine" /\ Save(x) /\ Schedule("copy", x.at, x.id)
      /\ imagined' = imagined \cup {x.id} /\ Close(c) /\ UNCHANGED <<agent, budget>>
  BY DEF CommitImagine
<1>2. /\ TypeOK /\ x \in ReqState /\ Writes(x) /\ x.specs \in Payload /\ x.new \in AssetSpec
      /\ x.id \in ImagineIds /\ x.at \in Nat /\ x.id \in Ids
  BY <1>1 DEF StudioInv, TypeOK, ReqState, ReqOK, Writes
<1>3. /\ campaign' \in Seq(Artifact) /\ Len(campaign') = Len(campaign)
      /\ \A v \in Versions : Done(campaign'[v].specs)
      /\ lost' \subseteq Versions'
  BY <1>1, <1>2, SavedIsDone
<1>4. /\ req' \in [Clients -> ReqState] /\ req'[c].op = "idle"
      /\ \A d \in Clients \ {c} : req'[d] = req[d]
  BY <1>1, <1>2, ClosedReq
<1>5. /\ worker' \in [Workers -> WorkerState]
      /\ \E w \in Workers :
           /\ worker[w].pc = "idle"
           /\ worker'[w].pc = "copy" /\ worker'[w].at = x.at /\ worker'[w].id = x.id
           /\ \A u \in Workers \ {w} : worker'[u] = worker[u]
  BY <1>1, <1>2, ScheduledWorker
<1> HIDE DEF x
<1>6. TypeOK'
  BY <1>1, <1>2, <1>3, <1>4, <1>5 DEF TypeOK
<1>7. Versions' = Versions /\ Len(campaign') >= Len(campaign)
  BY <1>2, <1>3, VersionsType DEF Versions
<1>8. ASSUME NEW d \in Clients PROVE ReqOK(d)'
  <2>1. CASE d = c
    BY <1>4, <2>1 DEF ReqOK
  <2>2. CASE d # c
    <3>1. req[d].op = "imagine" => req[d].id # x.id
      BY <1>1, <2>2 DEF StudioInv, ImaginesDiffer, x
    <3>2. req[d].op = "imagine" => req[d].id \notin imagined'
      BY <1>1, <3>1 DEF StudioInv, ReqOK
    <3> QED
      BY <1>4, <1>6, <1>7, <2>2, <3>2, ReqUntouched
  <2> QED
    BY <2>1, <2>2
<1>9. ASSUME NEW u \in Workers PROVE WorkerOK(u)'
  <2>1. CASE worker'[u] = worker[u]
    BY <1>6, <1>7, <2>1, WorkerUntouched
  <2>2. CASE worker'[u].pc = "copy" /\ worker'[u].at = x.at /\ worker'[u].id = x.id
    BY <1>2, <1>7, <2>2 DEF WorkerOK, Writes
  <2> QED
    BY <1>5, <2>1, <2>2
<1>10. AgentOK'
  BY <1>1, <1>6, <1>7, AgentUntouched
<1>11. ImaginesDiffer'
  BY <1>4 DEF StudioInv, ImaginesDiffer
<1> QED
  BY <1>1, <1>3, <1>6, <1>7, <1>8, <1>9, <1>10, <1>11 DEF StudioInv, DeathsAreCounted

LEMMA CommitPatchKeeps ==
  ASSUME StudioInv, NEW c \in Clients, CommitPatch(c)
  PROVE  StudioInv'
<1> DEFINE x == req[c]
<1>1. /\ x.op = "patch" /\ Save(x) /\ Close(c)
      /\ UNCHANGED <<agent, worker, imagined, budget>>
  BY DEF CommitPatch
<1>2. /\ TypeOK /\ x \in ReqState /\ Writes(x) /\ x.specs \in Payload /\ x.new \in AssetSpec
  BY <1>1 DEF StudioInv, TypeOK, ReqState, ReqOK
<1>3. /\ campaign' \in Seq(Artifact) /\ Len(campaign') = Len(campaign)
      /\ \A v \in Versions : Done(campaign'[v].specs)
      /\ lost' \subseteq Versions'
  BY <1>1, <1>2, SavedIsDone
<1>4. /\ req' \in [Clients -> ReqState] /\ req'[c].op = "idle"
      /\ \A d \in Clients \ {c} : req'[d] = req[d]
  BY <1>1, <1>2, ClosedReq
<1>5. TypeOK'
  BY <1>1, <1>2, <1>3, <1>4 DEF TypeOK
<1>6. Versions' = Versions /\ Len(campaign') >= Len(campaign)
  BY <1>2, <1>3, VersionsType DEF Versions
<1>7. /\ \A w \in Workers : WorkerOK(w)'
      /\ \A d \in Clients \ {c} : ReqOK(d)'
      /\ AgentOK'
  BY <1>1, <1>4, <1>5, <1>6, OthersUntouched
<1>8. ReqOK(c)' /\ ImaginesDiffer'
  BY <1>4 DEF StudioInv, ReqOK, ImaginesDiffer
<1> QED
  BY <1>1, <1>3, <1>5, <1>6, <1>7, <1>8 DEF StudioInv, DeathsAreCounted

LEMMA RequestRenderKeeps ==
  ASSUME StudioInv, NEW v \in Versions, NEW i \in Ids, RequestRender(v, i)
  PROVE  StudioInv'
<1>1. /\ UNCHANGED <<campaign, agent, req, imagined, lost>> /\ Schedule("flip", v, i)
      /\ budget' \in [Ops -> Nat] /\ DeathsAreCounted'
  BY SpendCounts DEF RequestRender, Ops
<1>2. /\ worker' \in [Workers -> WorkerState]
      /\ \E w \in Workers :
           /\ worker[w].pc = "idle"
           /\ worker'[w].pc = "flip" /\ worker'[w].at = v /\ worker'[w].id = i
           /\ \A u \in Workers \ {w} : worker'[u] = worker[u]
  BY <1>1, ScheduledWorker, VersionsType DEF StudioInv
<1>3. TypeOK' /\ Versions' = Versions /\ Len(campaign') >= Len(campaign)
  BY <1>1, <1>2, VersionsType DEF StudioInv, TypeOK, Versions
<1>4. ASSUME NEW u \in Workers PROVE WorkerOK(u)'
  <2>1. CASE worker'[u] = worker[u]
    BY <1>3, <2>1, WorkerUntouched
  <2>2. CASE worker'[u].pc = "flip" /\ worker'[u].at = v /\ worker'[u].id = i
    BY <1>3, <2>2 DEF WorkerOK
  <2> QED
    BY <1>2, <2>1, <2>2
<1>5. (\A c \in Clients : ReqOK(c)') /\ AgentOK'
  BY <1>1, <1>3, OthersUntouched
<1> QED
  BY <1>1, <1>3, <1>4, <1>5 DEF StudioInv, ImaginesDiffer

LEMMA ApproveKeeps ==
  ASSUME StudioInv, NEW v \in Versions, Approve(v)
  PROVE  /\ StudioInv' /\ Len(campaign') = Len(campaign)
         /\ \A u \in Versions : campaign'[u].specs = campaign[u].specs
<1>1. /\ campaign' = [campaign EXCEPT ![v].approved = TRUE]
      /\ UNCHANGED <<agent, worker, req, imagined, lost>>
      /\ budget' \in [Ops -> Nat] /\ DeathsAreCounted'
  BY SpendCounts DEF Approve, Ops
<1> DEFINE new == [campaign[v] EXCEPT !.approved = TRUE]
<1>2. /\ campaign \in Seq(Artifact) /\ v \in 1..Len(campaign) /\ Len(campaign) \in Nat
      /\ campaign[v] \in Artifact
  BY VersionsType DEF StudioInv, TypeOK
<1>3. new \in Artifact /\ new.specs = campaign[v].specs
  BY <1>2 DEF Artifact
<1>4. campaign' = [campaign EXCEPT ![v] = new]
  BY <1>1
<1> HIDE DEF new
<1>5. campaign' \in Seq(Artifact) /\ Len(campaign') = Len(campaign)
  BY <1>2, <1>3, <1>4, ExceptSeq
<1>6. \A u \in Versions : campaign'[u].specs = campaign[u].specs
  BY <1>2, <1>3, <1>4, VersionsType DEF StudioInv
<1>7. TypeOK' /\ Versions' = Versions /\ Len(campaign') >= Len(campaign)
  BY <1>1, <1>2, <1>5, VersionsType DEF StudioInv, TypeOK, Versions
<1>8. (\A w \in Workers : WorkerOK(w)') /\ (\A c \in Clients : ReqOK(c)') /\ AgentOK'
  BY <1>1, <1>7, OthersUntouched
<1> QED
  BY <1>1, <1>5, <1>6, <1>7, <1>8 DEF StudioInv, ImaginesDiffer

\* A worker reads the payload and prepares its spec, or finds that the spec is gone.
LEMMA UpdateKeeps ==
  ASSUME StudioInv, NEW w \in Workers, worker[w].pc \notin {"idle", "write"},
         NEW new \in AssetSpec, NEW then \in {"idle", "design", "render"},
         then = "design" => worker[w].id \in ImagineIds,
         then = "idle" => new.status # "pending",
         worker[w].id \in ImagineIds /\ new.status = "ok" => new.jsx # "none",
         worker[w].id \in AgentIds /\ Found(w) =>
           (campaign[worker[w].at].specs[worker[w].id].text = "user" => new.text = "user"),
         Update(w, new, then)
  PROVE  StudioInv'
<1>1. /\ TypeOK /\ worker[w] \in WorkerState /\ worker[w].at \in Versions /\ worker[w].id \in Ids
      /\ UNCHANGED <<campaign, agent, req, imagined, lost, budget>>
  BY DEF StudioInv, TypeOK, WorkerOK, Update
<1>2. ASSUME worker' \in [Workers -> WorkerState], WorkerOK(w)',
             \A u \in Workers \ {w} : worker'[u] = worker[u]
      PROVE  StudioInv'
  <2>1. TypeOK' /\ Len(campaign') >= Len(campaign) /\ Versions' = Versions
    BY <1>1, <1>2, VersionsType DEF TypeOK, Versions
  <2>2. /\ \A u \in Workers \ {w} : WorkerOK(u)'
        /\ \A c \in Clients : ReqOK(c)'
        /\ AgentOK'
    BY <1>1, <1>2, <2>1, OthersUntouched
  <2> QED
    BY <1>1, <1>2, <2>1, <2>2 DEF StudioInv, ImaginesDiffer, DeathsAreCounted
<1>3. CASE Found(w)
  <2> DEFINE specs == campaign[worker[w].at].specs
             x == [worker[w] EXCEPT !.pc = "write", !.then = then, !.specs = specs, !.new = new]
  <2>1. worker' = [worker EXCEPT ![w] = x]
    BY <1>3 DEF Update
  <2>2. specs \in Payload /\ Done(specs)
    BY <1>1, VersionsType DEF StudioInv
  <2>3. worker[w].id \in DOMAIN specs
    BY <1>3 DEF Found
  <2>4. worker[w].id \in AgentIds => (specs[worker[w].id].text = "user" => new.text = "user")
    BY <1>3
  <2> HIDE DEF specs
  <2>5. /\ x \in WorkerState /\ x.pc = "write" /\ x.then = then /\ x.specs = specs /\ x.new = new
        /\ x.at = worker[w].at /\ x.id = worker[w].id
    BY <1>1, <2>2 DEF WorkerState
  <2> HIDE DEF x
  <2>6. /\ worker' \in [Workers -> WorkerState] /\ worker'[w] = x
        /\ \A u \in Workers \ {w} : worker'[u] = worker[u]
    BY <1>1, <2>1, <2>5 DEF TypeOK
  <2>7. Writes(x) /\ KeepsText(x)
    BY <1>1, <2>2, <2>4, <2>5 DEF Writes, KeepsText
  <2>8. WorkerOK(w)'
    <3>1. Versions' = Versions
      BY <1>1 DEF Versions
    <3> QED
      BY <1>1, <2>3, <2>5, <2>6, <2>7, <3>1 DEF WorkerOK, Writes, KeepsText
  <2> QED
    BY <1>2, <2>6, <2>8
<1>4. CASE ~ Found(w) /\ then = "idle"
  <2>1. worker' = [worker EXCEPT ![w] = NoWorker]
    BY <1>4 DEF Update
  <2>2. /\ worker' \in [Workers -> WorkerState] /\ worker'[w].pc = "idle"
        /\ \A u \in Workers \ {w} : worker'[u] = worker[u]
    BY <1>1, <2>1, IdleWorker
  <2>3. WorkerOK(w)'
    BY <2>2 DEF WorkerOK
  <2> QED
    BY <1>2, <2>2, <2>3
<1>5. CASE ~ Found(w) /\ then # "idle"
  <2> DEFINE x == [worker[w] EXCEPT !.pc = then]
  <2>1. worker' = [worker EXCEPT ![w] = x]
    BY <1>5 DEF Update
  <2>2. x \in WorkerState /\ x.pc = then /\ x.at = worker[w].at /\ x.id = worker[w].id
    BY <1>1, <1>5 DEF WorkerState
  <2> HIDE DEF x
  <2>3. /\ worker' \in [Workers -> WorkerState] /\ worker'[w] = x
        /\ \A u \in Workers \ {w} : worker'[u] = worker[u]
    BY <1>1, <2>1, <2>2 DEF TypeOK
  <2>4. Versions' = Versions
    BY <1>1 DEF Versions
  <2>5. WorkerOK(w)'
    BY <1>1, <1>5, <2>2, <2>3, <2>4 DEF WorkerOK
  <2> QED
    BY <1>2, <2>3, <2>5
<1> QED
  BY <1>3, <1>4, <1>5

\* The spec as it is in the database.
LEMMA CurrentSpec ==
  ASSUME StudioInv, NEW w \in Workers, worker[w].pc # "idle"
  PROVE  /\ Current(w) \in AssetSpec
         /\ Found(w) => Current(w) = campaign[worker[w].at].specs[worker[w].id]
<1>1. Placeholder \in AssetSpec
  BY DEF Placeholder, AssetSpec
<1>2. campaign[worker[w].at].specs \in Payload
  BY VersionsType DEF StudioInv, WorkerOK
<1> QED
  BY <1>1, <1>2, PayloadType DEF Current, Found

LEMMA UpdatesKeep ==
  ASSUME StudioInv, NEW w \in Workers,
         \/ CopySpec(w) \/ FailCopy(w) \/ FlipPending(w)
         \/ \E ok \in BOOLEAN : FinishDesign(w, ok) \/ FinishRender(w, ok)
  PROVE  StudioInv'
<1>1. ImagineIds \cap AgentIds = {}
  BY IdsAssumption
<1>2. CASE CopySpec(w)
  <2>1. Copied \in AssetSpec /\ Copied.status = "pending"
    BY DEF Copied, AssetSpec
  <2>2. worker[w].pc = "copy" /\ worker[w].id \in ImagineIds /\ Update(w, Copied, "design")
    BY <1>2 DEF CopySpec, StudioInv, WorkerOK
  <2> QED
    BY <1>1, <2>1, <2>2, UpdateKeeps
<1>3. CASE FailCopy(w)
  <2> DEFINE new == [Current(w) EXCEPT !.status = "error"]
  <2>1. worker[w].pc = "copy" /\ worker[w].id \in ImagineIds /\ Update(w, new, "idle")
    BY <1>3 DEF FailCopy, StudioInv, WorkerOK
  <2>2. new \in AssetSpec /\ new.status = "error"
    BY <2>1, CurrentSpec DEF AssetSpec
  <2> HIDE DEF new
  <2> QED
    BY <1>1, <2>1, <2>2, UpdateKeeps
<1>4. CASE FlipPending(w)
  <2> DEFINE new == [Current(w) EXCEPT !.status = "pending"]
  <2>1. worker[w].pc = "flip" /\ Found(w) /\ Update(w, new, "render")
    BY <1>4 DEF FlipPending
  <2>2. new \in AssetSpec /\ new.status = "pending" /\ new.text = Current(w).text
    BY <2>1, CurrentSpec DEF AssetSpec
  <2>3. Current(w) = campaign[worker[w].at].specs[worker[w].id]
    BY <2>1, CurrentSpec
  <2> HIDE DEF new
  <2> QED
    BY <2>1, <2>2, <2>3, UpdateKeeps
<1>5. ASSUME NEW ok \in BOOLEAN, FinishDesign(w, ok)
      PROVE  StudioInv'
  <2>1. worker[w].pc = "design" /\ worker[w].id \in ImagineIds /\ Update(w, Designed(ok), "idle")
    BY <1>5 DEF FinishDesign, StudioInv, WorkerOK
  <2>2. /\ Designed(ok) \in AssetSpec /\ Designed(ok).status # "pending"
        /\ Designed(ok).status = "ok" => Designed(ok).jsx # "none"
    BY DEF Designed, AssetSpec
  <2> QED
    BY <1>1, <2>1, <2>2, UpdateKeeps
<1>6. ASSUME NEW ok \in BOOLEAN, FinishRender(w, ok)
      PROVE  StudioInv'
  <2> DEFINE new == Rendered(Current(w), ok)
  <2>1. worker[w].pc = "render" /\ Update(w, new, "idle")
    BY <1>6 DEF FinishRender
  <2>2. /\ new \in AssetSpec /\ new.status # "pending" /\ new.text = Current(w).text
        /\ new.status = "ok" => new.jsx # "none"
    BY <2>1, CurrentSpec DEF Rendered, AssetSpec
  <2>3. Found(w) => Current(w) = campaign[worker[w].at].specs[worker[w].id]
    BY <2>1, CurrentSpec
  <2> HIDE DEF new
  <2> QED
    BY <2>1, <2>2, <2>3, UpdateKeeps
<1> QED
  BY <1>2, <1>3, <1>4, <1>5, <1>6

\* A worker that has nothing to do any more, or whose process ends.
LEMMA WorkerExits ==
  ASSUME StudioInv, NEW w \in Workers, SpecNotFound(w) \/ WorkerDies(w)
  PROVE  StudioInv'
<1>1. /\ UNCHANGED <<campaign, agent, req, imagined, lost>> /\ worker' = [worker EXCEPT ![w] = NoWorker]
      /\ budget' \in [Ops -> Nat] /\ DeathsAreCounted'
  BY SpendCounts DEF SpecNotFound, WorkerDies, Exit, Ops, StudioInv, TypeOK, DeathsAreCounted
<1>2. /\ worker' \in [Workers -> WorkerState] /\ worker'[w].pc = "idle"
      /\ \A u \in Workers \ {w} : worker'[u] = worker[u]
  BY <1>1, IdleWorker DEF StudioInv
<1>3. TypeOK' /\ Len(campaign') >= Len(campaign) /\ Versions' = Versions
  BY <1>1, <1>2, VersionsType DEF StudioInv, TypeOK, Versions
<1>4. /\ \A u \in Workers \ {w} : WorkerOK(u)'
      /\ \A c \in Clients : ReqOK(c)'
      /\ AgentOK'
  BY <1>1, <1>2, <1>3, OthersUntouched
<1>5. WorkerOK(w)'
  BY <1>2 DEF WorkerOK
<1> QED
  BY <1>1, <1>3, <1>4, <1>5 DEF StudioInv, ImaginesDiffer

\* A worker after its commit.
LEMMA CommittedWorker ==
  ASSUME StudioInv, NEW w \in Workers, CommitUpdate(w)
  PROVE  /\ worker' \in [Workers -> WorkerState]
         /\ worker'[w].pc = worker[w].then
         /\ worker[w].then # "idle" => worker'[w].at = worker[w].at /\ worker'[w].id = worker[w].id
         /\ \A u \in Workers \ {w} : worker'[u] = worker[u]
<1>1. TypeOK /\ worker[w] \in WorkerState
  BY DEF StudioInv, TypeOK
<1>2. CASE worker[w].then = "idle"
  <2>1. worker' = [worker EXCEPT ![w] = NoWorker]
    BY <1>2 DEF CommitUpdate
  <2> QED
    BY <1>1, <1>2, <2>1, IdleWorker
<1>3. CASE worker[w].then # "idle"
  <2> DEFINE x == [worker[w] EXCEPT !.pc = worker[w].then, !.specs = Empty]
  <2>1. worker' = [worker EXCEPT ![w] = x]
    BY <1>3 DEF CommitUpdate
  <2>2. Empty \in Payload
    <3>1. Empty \in [{} -> AssetSpec]
      BY DEF Empty
    <3> QED
      BY <3>1 DEF Payload
  <2>3. /\ x \in WorkerState /\ x.pc = worker[w].then
        /\ x.at = worker[w].at /\ x.id = worker[w].id
    BY <1>1, <2>2 DEF WorkerState
  <2> HIDE DEF x
  <2> QED
    BY <1>1, <2>1, <2>3 DEF TypeOK
<1> QED
  BY <1>2, <1>3

LEMMA CommitUpdateKeeps ==
  ASSUME StudioInv, NEW w \in Workers, CommitUpdate(w)
  PROVE  StudioInv'
<1> DEFINE x == worker[w]
<1>1. /\ x.pc = "write" /\ Save(x) /\ UNCHANGED <<agent, req, imagined, budget>>
  BY DEF CommitUpdate
<1>2. /\ TypeOK /\ x \in WorkerState /\ Writes(x) /\ x.specs \in Payload /\ x.new \in AssetSpec
      /\ x.then \in {"idle", "design", "render"}
      /\ x.then = "design" => x.id \in ImagineIds
  BY <1>1 DEF StudioInv, TypeOK, WorkerState, WorkerOK
<1>3. /\ campaign' \in Seq(Artifact) /\ Len(campaign') = Len(campaign)
      /\ \A v \in Versions : Done(campaign'[v].specs)
      /\ lost' \subseteq Versions'
  BY <1>1, <1>2, SavedIsDone
<1>4. /\ worker' \in [Workers -> WorkerState]
      /\ worker'[w].pc = x.then
      /\ x.then # "idle" => worker'[w].at = x.at /\ worker'[w].id = x.id
      /\ \A u \in Workers \ {w} : worker'[u] = worker[u]
  BY CommittedWorker
<1> HIDE DEF x
<1>5. TypeOK'
  BY <1>1, <1>2, <1>3, <1>4 DEF TypeOK
<1>6. Versions' = Versions /\ Len(campaign') >= Len(campaign)
  BY <1>2, <1>3, VersionsType DEF Versions
<1>7. /\ \A u \in Workers \ {w} : WorkerOK(u)'
      /\ \A c \in Clients : ReqOK(c)'
      /\ AgentOK'
  BY <1>1, <1>4, <1>5, <1>6, OthersUntouched
<1>8. WorkerOK(w)'
  BY <1>2, <1>4, <1>6 DEF WorkerOK, Writes
<1> QED
  BY <1>1, <1>3, <1>5, <1>6, <1>7, <1>8 DEF StudioInv, ImaginesDiffer, DeathsAreCounted

LEMMA StudioInvInit == Init => StudioInv
<1> SUFFICES ASSUME Init PROVE StudioInv
  OBVIOUS
<1>1. Empty \in Payload /\ DOMAIN Empty = {}
  <2>1. Empty \in [{} -> AssetSpec]
    BY DEF Empty
  <2> QED
    BY <2>1 DEF Payload
<1>2. /\ NoWorker \in WorkerState /\ NoWorker.pc = "idle"
      /\ NoReq \in ReqState /\ NoReq.op = "idle"
  BY <1>1 DEF NoWorker, WorkerState, NoReq, ReqState, Placeholder, AssetSpec
<1>3. /\ NoAgent \in [at : Nat, specs : Payload, todo : SUBSET AgentIds]
      /\ NoAgent.at = 0 /\ NoAgent.todo = {} /\ DOMAIN NoAgent.specs = {}
  BY <1>1 DEF NoAgent
<1>4. /\ campaign = <<>> /\ agent = NoAgent /\ imagined = {} /\ lost = {} /\ budget = Budget
      /\ worker = [w \in Workers |-> NoWorker] /\ req = [c \in Clients |-> NoReq]
  BY DEF Init
<1>5. campaign \in Seq(Artifact) /\ Versions = {}
  BY <1>4, EmptySeq DEF Versions
<1>6. TypeOK
  BY <1>2, <1>3, <1>4, <1>5, LimitsAssumption DEF TypeOK
<1>7. AgentOK
  BY <1>3, <1>4 DEF AgentOK
<1>8. (\A w \in Workers : WorkerOK(w)) /\ (\A c \in Clients : ReqOK(c)) /\ ImaginesDiffer
  BY <1>2, <1>4 DEF WorkerOK, ReqOK, ImaginesDiffer
<1>9. DeathsAreCounted
  BY <1>4, LimitsAssumption DEF DeathsAreCounted, Ops
<1> QED
  BY <1>5, <1>6, <1>7, <1>8, <1>9 DEF StudioInv

LEMMA StudioInvNext == StudioInv /\ [Next]_vars => StudioInv'
<1> SUFFICES ASSUME StudioInv, [Next]_vars PROVE StudioInv'
  OBVIOUS
<1>1. ASSUME NEW c \in Clients, Commit(c)
      PROVE  StudioInv'
  BY <1>1, CommitImagineKeeps, CommitPatchKeeps DEF Commit
<1>2. ASSUME NEW w \in Workers, WorkerStep(w) \/ WorkerDies(w)
      PROVE  StudioInv'
  BY <1>2, UpdatesKeep, WorkerExits, CommitUpdateKeeps DEF WorkerStep
<1>3. CASE UNCHANGED vars
  <2>1. UNCHANGED <<campaign, agent, worker, req, imagined, lost, budget>>
    BY <1>3 DEF vars
  <2> QED
    BY <2>1 DEF StudioInv, TypeOK, AgentOK, ImaginesDiffer, DeathsAreCounted, WorkerOK, ReqOK,
                Writes, KeepsText, Versions
<1> QED
  BY <1>1, <1>2, <1>3, AgentSteps, RequestImagineKeeps, RequestPatchKeeps, RequestRenderKeeps,
     ApproveKeeps DEF Next

\* For any number of versions, specs, workers and requests, and whatever sessions overlap:
\* an imagined spec is shown as finished without a design only when the user has saved blanks
\* over one (_design_single_spec, redesign_creative_asset, the PATCH of a spec).
THEOREM FinishedSpecsAreDesigned == Spec => [](TypeOK /\ FinishedHasDesign)
<1>1. StudioInv => TypeOK /\ FinishedHasDesign
  BY DEF StudioInv, Done, FinishedHasDesign
<1> QED
  BY <1>1, StudioInvInit, StudioInvNext, PTL DEF Spec

-----------------------------------------------------------------------------
(* Who works on what is pending, where nothing unread was overwritten *)

\* A step that leaves the specs of a version alone.
SameSpecs(v) == campaign'[v].specs = campaign[v].specs

\* What a step may do to the specs of the campaign.
RevivesNothing ==
  \A v \in Versions \ lost' :
    (DOMAIN campaign'[v].specs \ DOMAIN campaign[v].specs) \cap imagined = {}

KeepsTexts ==
  \A v \in Versions \ lost' : agent.at # v =>
    \A i \in AgentIds \cap DOMAIN campaign[v].specs :
      campaign[v].specs[i].text = "user" => campaign'[v].specs[i].text = "user"

GoodStep == Tended' /\ RevivesNothing /\ KeepsTexts

\* A spec stays in work: a worker leaves it only when it is not pending any more, and what
\* becomes pending has a worker.
LEMMA TendedKept ==
  ASSUME Tended, lost \subseteq lost', NoDeaths' => NoDeaths,
         NoDeaths' => \A v \in Versions' \ lost', i \in Ids : Pending(v, i)' =>
           Pending(v, i) \/ \E w \in Workers : Tends(w, v, i)',
         NoDeaths' => \A v \in Versions' \ lost', i \in Ids, w \in Workers :
           Tends(w, v, i) /\ Pending(v, i)' => Tends(w, v, i)'
  PROVE  Tended'
<1> SUFFICES ASSUME NoDeaths', NEW v \in Versions' \ lost', NEW i \in Ids, Pending(v, i)'
             PROVE  \E w \in Workers : Tends(w, v, i)'
  BY DEF Tended
<1>1. CASE Pending(v, i)
  <2>1. v \in Versions \ lost
    BY <1>1 DEF Pending
  <2>2. PICK w \in Workers : Tends(w, v, i)
    BY <1>1, <2>1 DEF Tended
  <2> QED
    BY <2>2
<1>2. CASE ~ Pending(v, i)
  BY <1>2
<1> QED
  BY <1>1, <1>2

\* A step that leaves all specs and all busy workers alone.
LEMMA QuietStep ==
  ASSUME Tended, \A v \in Versions : SameSpecs(v), Versions' = Versions, lost' = lost,
         budget["die"] = budget'["die"],
         \A w \in Workers : worker[w].pc # "idle" => worker'[w] = worker[w]
  PROVE  GoodStep
<1>1. NoDeaths' = NoDeaths
  BY DEF NoDeaths
<1>2. \A v \in Versions', i \in Ids : Pending(v, i)' => Pending(v, i)
  BY DEF Pending, SameSpecs
<1>3. \A v \in Versions, i \in Ids, w \in Workers : Tends(w, v, i) => Tends(w, v, i)'
  BY DEF Tends
<1>4. Tended'
  BY <1>1, <1>2, <1>3, TendedKept
<1> QED
  BY <1>4 DEF GoodStep, RevivesNothing, KeepsTexts, SameSpecs

LEMMA AgentIsGood ==
  ASSUME StudioInv, Tended, AgentStep
  PROVE  GoodStep
<1>1. /\ UNCHANGED <<worker, req, imagined, lost, budget>> /\ Len(campaign) \in Nat
      /\ NoDeaths' = NoDeaths
  BY VersionsType DEF StudioInv, AgentStep, PublishCopy, PublishDesign, FinishCampaign, NoDeaths
<1>2. \A v, i, w : Tends(w, v, i)' = Tends(w, v, i)
  BY <1>1 DEF Tends
<1>3. CASE PublishCopy
  <2>1. \A v \in Versions : SameSpecs(v)
    BY <1>3, CopyPublished DEF SameSpecs
  <2>2. ASSUME NEW v \in Versions', NEW i \in Ids, Pending(v, i)'
        PROVE  Pending(v, i)
    <3>1. CASE v \in Versions
      BY <2>1, <2>2, <3>1 DEF Pending, SameSpecs
    <3>2. CASE v \notin Versions
      <4>1. v = Len(campaign) + 1
        BY <1>1, <1>3, <3>2, CopyPublished DEF Versions
      <4> QED
        BY <1>3, <2>2, <4>1, CopyPublished DEF Pending
    <3> QED
      BY <3>1, <3>2
  <2>3. Tended'
    BY <1>1, <1>2, <2>2, TendedKept
  <2> QED
    BY <2>1, <2>3 DEF GoodStep, RevivesNothing, KeepsTexts, SameSpecs
<1>4. ASSUME NEW i \in AgentIds, NEW ok \in BOOLEAN, PublishDesign(i, ok)
      PROVE  GoodStep
  <2>1. \A v \in Versions : v # agent.at => SameSpecs(v)
    BY <1>4, DesignPublished DEF SameSpecs
  <2>2. ASSUME NEW v \in Versions', NEW j \in Ids, Pending(v, j)'
        PROVE  Pending(v, j)
    <3>1. v \in Versions
      BY <1>4, DesignPublished DEF Versions
    <3>2. v # agent.at
      BY <1>4, <2>2, DesignPublished DEF Pending
    <3> QED
      BY <2>1, <2>2, <3>1, <3>2 DEF Pending, SameSpecs
  <2>3. Tended'
    BY <1>1, <1>2, <2>2, TendedKept
  <2>4. imagined \cap AgentIds = {}
    BY IdsAssumption DEF StudioInv, TypeOK
  <2>5. RevivesNothing
    <3>1. DOMAIN campaign'[agent.at].specs \cap imagined = {}
      BY <1>4, <2>4, DesignPublished
    <3> QED
      BY <2>1, <3>1 DEF RevivesNothing, SameSpecs
  <2> QED
    BY <2>1, <2>3, <2>5 DEF GoodStep, KeepsTexts, SameSpecs
<1>5. CASE FinishCampaign
  <2>1. (\A v \in Versions : SameSpecs(v)) /\ Versions' = Versions
    BY <1>5 DEF FinishCampaign, SameSpecs, Versions
  <2> QED
    BY <1>1, <2>1, QuietStep
<1> QED
  BY <1>3, <1>4, <1>5 DEF AgentStep

\* A request opens its session; users ask for a render or approve.
LEMMA RequestsAreGood ==
  ASSUME StudioInv, Tended,
         \/ \E c \in Clients :
              \/ RequestImagine(c)
              \/ \E v \in Versions, i \in Ids, patch \in Patches : RequestPatch(c, v, i, patch)
         \/ \E v \in Versions : Approve(v) \/ \E i \in Ids : RequestRender(v, i)
  PROVE  GoodStep
<1>1. lost' = lost /\ budget'["die"] = budget["die"]
  <2>1. ASSUME NEW op \in Ops \ {"die"}, Spend(op)
        PROVE  budget'["die"] = budget["die"]
    BY <2>1 DEF Spend, StudioInv, TypeOK
  <2> QED
    BY <2>1 DEF RequestImagine, RequestPatch, Approve, RequestRender, Ops
<1>2. ASSUME NEW c \in Clients,
             \/ RequestImagine(c)
             \/ \E v \in Versions, i \in Ids, patch \in Patches : RequestPatch(c, v, i, patch)
      PROVE  GoodStep
  <2>1. UNCHANGED <<campaign, worker>>
    BY <1>2 DEF RequestImagine, RequestPatch
  <2> QED
    BY <1>1, <2>1, QuietStep DEF SameSpecs, Versions
<1>3. ASSUME NEW v \in Versions, Approve(v)
      PROVE  GoodStep
  <2>1. /\ worker' = worker /\ Versions' = Versions
        /\ \A u \in Versions : SameSpecs(u)
    BY <1>3, ApproveKeeps DEF Approve, SameSpecs, Versions
  <2> QED
    BY <1>1, <2>1, QuietStep
<1>4. ASSUME NEW v \in Versions, NEW i \in Ids, RequestRender(v, i)
      PROVE  GoodStep
  <2>1. campaign' = campaign /\ Schedule("flip", v, i)
    BY <1>4 DEF RequestRender
  <2>2. PICK w \in Workers : /\ worker[w].pc = "idle"
                             /\ \A u \in Workers \ {w} : worker'[u] = worker[u]
    BY <2>1, ScheduledWorker, VersionsType DEF StudioInv
  <2>3. (\A u \in Versions : SameSpecs(u)) /\ Versions' = Versions
    BY <2>1 DEF SameSpecs, Versions
  <2> QED
    BY <1>1, <2>2, <2>3, QuietStep
<1> QED
  BY <1>2, <1>3, <1>4

\* The commit of a session x: where nothing is lost it writes over what it has read, and a
\* worker that ends with it has settled its spec.
LEMMA CommitIsGood ==
  ASSUME StudioInv, Tended, NEW x, Writes(x), x.specs \in Payload, x.new \in AssetSpec, Save(x),
         budget' = budget,
         \/ x.id \in DOMAIN x.specs /\ KeepsText(x)
         \/ x.id \in ImagineIds \ imagined,
         \/ x.new.status # "pending"
         \/ x.id \in DOMAIN x.specs /\ x.specs[x.id].status = "pending"
         \/ \E w \in Workers : Tends(w, x.at, x.id)',
         \A w \in Workers : worker[w].pc # "idle" =>
           \/ worker'[w] = worker[w]
           \/ worker[w].at = x.at /\ worker[w].id = x.id /\ Tends(w, x.at, x.id)'
           \/ /\ worker[w].at = x.at /\ worker[w].id = x.id /\ x.id \in DOMAIN x.specs
              /\ x.new.status # "pending"
              /\ Tends(w, x.at, x.id) => x.specs[x.id].status = "pending"
  PROVE  GoodStep
<1>1. x.at \in Versions /\ x.id \in Ids
  BY DEF Writes
<1>2. /\ Len(campaign') = Len(campaign) /\ lost \subseteq lost'
      /\ \A v \in Versions : v # x.at => SameSpecs(v)
      /\ \/ /\ campaign'[x.at].specs = With(x.specs, x.id, x.new)
            /\ x.at \notin lost' => x.specs = campaign[x.at].specs
         \/ campaign' = campaign /\ With(x.specs, x.id, x.new) = x.specs
  BY <1>1, SavedPayload DEF StudioInv, SameSpecs
<1>3. /\ DOMAIN With(x.specs, x.id, x.new) = DOMAIN x.specs \cup {x.id}
      /\ With(x.specs, x.id, x.new)[x.id] = x.new
      /\ \A j \in DOMAIN x.specs : j # x.id => With(x.specs, x.id, x.new)[j] = x.specs[j]
  BY DEF With
<1>4. Versions' = Versions /\ NoDeaths' = NoDeaths
  BY <1>2 DEF Versions, NoDeaths
\* Either nothing is written, or x has read what it writes over.
<1>5. CASE campaign' = campaign /\ With(x.specs, x.id, x.new) = x.specs
  <2>1. x.new = x.specs[x.id] /\ x.id \in DOMAIN x.specs
    BY <1>3, <1>5
  <2>2. \A v, i : Pending(v, i)' = Pending(v, i)
    BY <1>4, <1>5 DEF Pending
  <2>3. ASSUME NEW v \in Versions', NEW i \in Ids, NEW w \in Workers, Tends(w, v, i)
        PROVE  Tends(w, v, i)'
    <3>1. worker[w].pc # "idle" /\ worker[w].at = v /\ worker[w].id = i
      BY <2>3 DEF Tends
    <3>2. CASE worker'[w] = worker[w]
      BY <2>3, <3>2 DEF Tends
    <3>3. CASE worker[w].at = x.at /\ worker[w].id = x.id
      BY <2>1, <2>3, <3>1, <3>2, <3>3
    <3> QED
      BY <3>1, <3>2, <3>3
  <2>4. Tended'
    BY <1>2, <1>4, <2>2, <2>3, TendedKept
  <2> QED
    BY <1>5, <2>4 DEF GoodStep, RevivesNothing, KeepsTexts
<1>6. CASE /\ campaign'[x.at].specs = With(x.specs, x.id, x.new)
           /\ x.at \notin lost' => x.specs = campaign[x.at].specs
  <2>1. ASSUME NEW v \in Versions' \ lost', NEW i \in Ids, Pending(v, i)'
        PROVE  Pending(v, i) \/ \E w \in Workers : Tends(w, v, i)'
    <3>1. CASE v # x.at
      BY <1>2, <1>4, <2>1, <3>1 DEF Pending, SameSpecs
    <3>2. CASE v = x.at /\ i # x.id
      BY <1>3, <1>4, <1>6, <2>1, <3>2 DEF Pending
    <3>3. CASE v = x.at /\ i = x.id
      <4>1. x.new.status = "pending"
        BY <1>3, <1>6, <2>1, <3>3 DEF Pending
      <4> QED
        BY <1>1, <1>6, <2>1, <3>3, <4>1 DEF Pending
    <3> QED
      BY <3>1, <3>2, <3>3
  <2>2. ASSUME NEW v \in Versions' \ lost', NEW i \in Ids, NEW w \in Workers, Tends(w, v, i),
               Pending(v, i)'
        PROVE  Tends(w, v, i)'
    <3>1. worker[w].pc # "idle" /\ worker[w].at = v /\ worker[w].id = i
      BY <2>2 DEF Tends
    <3>2. v = x.at /\ i = x.id => x.new.status = "pending"
      BY <1>3, <1>6, <2>2 DEF Pending
    <3>3. CASE worker'[w] = worker[w]
      BY <2>2, <3>3 DEF Tends
    <3> QED
      BY <3>1, <3>2, <3>3
  <2>3. Tended'
    BY <1>2, <1>4, <2>1, <2>2, TendedKept
  <2>4. RevivesNothing
    BY <1>2, <1>3, <1>6 DEF RevivesNothing, SameSpecs
  <2>5. KeepsTexts
    <3> SUFFICES ASSUME x.at \notin lost', NEW i \in AgentIds \cap DOMAIN campaign[x.at].specs,
                        campaign[x.at].specs[i].text = "user"
                 PROVE  campaign'[x.at].specs[i].text = "user"
      BY <1>2 DEF KeepsTexts, SameSpecs
    <3>1. CASE i # x.id
      BY <1>3, <1>6, <3>1
    <3>2. CASE i = x.id
      <4>1. KeepsText(x)
        BY <3>2, IdsAssumption
      <4> QED
        BY <1>3, <1>6, <3>2, <4>1 DEF KeepsText
    <3> QED
      BY <3>1, <3>2
  <2> QED
    BY <2>3, <2>4, <2>5 DEF GoodStep
<1> QED
  BY <1>2, <1>5, <1>6

LEMMA CommitsAreGood ==
  ASSUME StudioInv, Tended, NEW c \in Clients, Commit(c)
  PROVE  GoodStep
<1> SUFFICES ASSUME NEW x, x = req[c]
             PROVE  GoodStep
  OBVIOUS
<1>1. /\ x.op \in {"imagine", "patch"} /\ Save(x) /\ budget' = budget
  BY DEF Commit, CommitImagine, CommitPatch
<1>2. TypeOK /\ Writes(x) /\ x.specs \in Payload /\ x.new \in AssetSpec /\ x.at \in Nat /\ x.id \in Ids
  BY <1>1 DEF StudioInv, TypeOK, ReqState, ReqOK, Writes
<1>3. CASE CommitImagine(c)
  <2>1. Schedule("copy", x.at, x.id) /\ x.id \in ImagineIds \ imagined
    BY <1>3 DEF CommitImagine, StudioInv, ReqOK
  <2>2. PICK w \in Workers :
          /\ worker[w].pc = "idle"
          /\ worker'[w].pc = "copy" /\ worker'[w].at = x.at /\ worker'[w].id = x.id
          /\ \A u \in Workers \ {w} : worker'[u] = worker[u]
    BY <1>2, <2>1, ScheduledWorker
  <2>3. Tends(w, x.at, x.id)'
    BY <2>2 DEF Tends
  <2>4. \A u \in Workers : worker[u].pc # "idle" => worker'[u] = worker[u]
    BY <2>2
  <2> QED
    BY <1>1, <1>2, <2>1, <2>3, <2>4, CommitIsGood
<1>4. CASE CommitPatch(c)
  <2>1. /\ worker' = worker
        /\ KeepsText(x) /\ x.id \in DOMAIN x.specs
        /\ x.new.status = "pending" => x.specs[x.id].status = "pending"
    BY <1>4 DEF CommitPatch, StudioInv, ReqOK
  <2> QED
    BY <1>1, <1>2, <2>1, CommitIsGood
<1> QED
  BY <1>3, <1>4 DEF Commit

LEMMA CommitUpdateIsGood ==
  ASSUME StudioInv, Tended, NEW w \in Workers, CommitUpdate(w)
  PROVE  GoodStep
<1> SUFFICES ASSUME NEW x, x = worker[w]
             PROVE  GoodStep
  OBVIOUS
<1>1. /\ x.pc = "write" /\ Save(x) /\ budget' = budget
  BY DEF CommitUpdate
<1>2. /\ Writes(x) /\ x.specs \in Payload /\ x.new \in AssetSpec
      /\ KeepsText(x) /\ x.id \in DOMAIN x.specs
      /\ x.then = "idle" => x.new.status # "pending"
      /\ x.then \in {"idle", "design", "render"}
  BY <1>1 DEF StudioInv, TypeOK, WorkerState, WorkerOK
<1>3. /\ worker'[w].pc = x.then
      /\ x.then # "idle" => worker'[w].at = x.at /\ worker'[w].id = x.id
      /\ \A u \in Workers \ {w} : worker'[u] = worker[u]
  BY CommittedWorker
<1>4. x.then # "idle" => Tends(w, x.at, x.id)'
  BY <1>2, <1>3 DEF Tends
<1>5. x.then = "idle" /\ Tends(w, x.at, x.id) => x.specs[x.id].status = "pending"
  BY <1>1 DEF Tends
<1>6. ASSUME NEW u \in Workers
      PROVE  \/ worker'[u] = worker[u]
             \/ worker[u].at = x.at /\ worker[u].id = x.id /\ Tends(u, x.at, x.id)'
             \/ /\ worker[u].at = x.at /\ worker[u].id = x.id /\ x.id \in DOMAIN x.specs
                /\ x.new.status # "pending"
                /\ Tends(u, x.at, x.id) => x.specs[x.id].status = "pending"
  <2>1. CASE u # w
    BY <1>3, <2>1
  <2>2. CASE u = w
    BY <1>2, <1>4, <1>5, <2>2
  <2> QED
    BY <2>1, <2>2
<1>7. x.new.status # "pending" \/ \E u \in Workers : Tends(u, x.at, x.id)'
  BY <1>2, <1>4
<1> QED
  BY <1>1, <1>2, <1>6, <1>7, CommitIsGood

\* A worker reads, finds its spec gone, or ends with its process.
LEMMA WorkersAreGood ==
  ASSUME StudioInv, Tended, NEW w \in Workers,
         \/ CopySpec(w) \/ FailCopy(w) \/ FlipPending(w) \/ SpecNotFound(w) \/ WorkerDies(w)
         \/ \E ok \in BOOLEAN : FinishDesign(w, ok) \/ FinishRender(w, ok)
  PROVE  GoodStep
<1>0. /\ TypeOK /\ worker[w] \in WorkerState
      /\ budget["die"] <= Budget["die"] /\ budget["die"] \in Nat /\ Budget["die"] \in Nat
  BY LimitsAssumption DEF StudioInv, TypeOK, DeathsAreCounted, Ops
<1>1. UNCHANGED <<campaign, lost>>
  BY DEF CopySpec, FailCopy, FlipPending, SpecNotFound, WorkerDies, FinishDesign, FinishRender,
         Update
<1>2. RevivesNothing /\ KeepsTexts
  BY <1>1 DEF RevivesNothing, KeepsTexts
<1>3. Versions' = Versions /\ \A v, i : Pending(v, i)' = Pending(v, i)
  BY <1>1 DEF Pending, Versions
<1>4. ASSUME \A u \in Workers \ {w} : worker'[u] = worker[u], NoDeaths' => NoDeaths,
             NoDeaths' => \A v \in Versions, i \in Ids :
               Tends(w, v, i) /\ Pending(v, i) => Tends(w, v, i)'
      PROVE  GoodStep
  <2>1. \A u \in Workers \ {w}, v \in Versions, i \in Ids : Tends(u, v, i) => Tends(u, v, i)'
    BY <1>4 DEF Tends
  <2>2. Tended'
    BY <1>1, <1>3, <1>4, <2>1, TendedKept
  <2> QED
    BY <1>2, <2>2 DEF GoodStep
<1>5. ASSUME worker' = [worker EXCEPT ![w] = NoWorker], NoDeaths' => NoDeaths,
             NoDeaths' => ~ Found(w)
      PROVE  GoodStep
  <2>1. \A u \in Workers \ {w} : worker'[u] = worker[u]
    BY <1>0, <1>5, IdleWorker
  <2>2. \A v, i : Tends(w, v, i) /\ Pending(v, i) => Found(w)
    BY DEF Tends, Pending, Found
  <2> QED
    BY <1>4, <1>5, <2>1, <2>2
<1>6. ASSUME NEW new, NEW then \in {"idle", "design", "render"}, worker[w].pc # "idle",
             Update(w, new, then)
      PROVE  GoodStep
  <2>1. NoDeaths' = NoDeaths
    BY <1>6 DEF Update, NoDeaths
  <2>2. CASE ~ Found(w) /\ then = "idle"
    BY <1>5, <1>6, <2>1, <2>2 DEF Update
  <2>3. CASE Found(w)
    <3>1. /\ worker'[w].at = worker[w].at /\ worker'[w].id = worker[w].id
          /\ worker'[w].pc = "write" /\ worker'[w].specs = campaign[worker[w].at].specs
          /\ \A u \in Workers \ {w} : worker'[u] = worker[u]
      BY <1>0, <1>6, <2>3 DEF Update, TypeOK, WorkerState
    <3>2. \A v, i : Tends(w, v, i) /\ Pending(v, i) => Tends(w, v, i)'
      BY <3>1 DEF Tends, Pending
    <3> QED
      BY <1>4, <2>1, <3>1, <3>2
  <2>4. CASE ~ Found(w) /\ then # "idle"
    <3>1. /\ worker'[w].at = worker[w].at /\ worker'[w].id = worker[w].id
          /\ worker'[w].pc = then
          /\ \A u \in Workers \ {w} : worker'[u] = worker[u]
      BY <1>0, <1>6, <2>4 DEF Update, TypeOK, WorkerState
    <3>2. \A v, i : Tends(w, v, i) => Tends(w, v, i)'
      BY <2>4, <3>1 DEF Tends
    <3> QED
      BY <1>4, <2>1, <3>1, <3>2
  <2> QED
    BY <2>2, <2>3, <2>4
<1>7. CASE SpecNotFound(w)
  BY <1>5, <1>7 DEF SpecNotFound, Exit, NoDeaths
<1>8. CASE WorkerDies(w)
  <2>1. budget'["die"] = budget["die"] - 1
    BY <1>8 DEF WorkerDies, Spend, StudioInv, TypeOK, Ops
  <2>2. ~ NoDeaths'
    BY <1>0, <2>1 DEF NoDeaths
  <2> QED
    BY <1>5, <1>8, <2>2 DEF WorkerDies, Exit
<1> QED
  BY <1>6, <1>7, <1>8 DEF CopySpec, FailCopy, FlipPending, FinishDesign, FinishRender

TendedInv == StudioInv /\ Tended

LEMMA TendedInvNext == TendedInv /\ [Next]_vars => TendedInv' /\ RevivesNothing /\ KeepsTexts
<1> SUFFICES ASSUME TendedInv, [Next]_vars
             PROVE  GoodStep
  BY StudioInvNext DEF TendedInv, GoodStep
<1> USE DEF TendedInv
<1>1. CASE UNCHANGED vars
  <2>1. UNCHANGED <<campaign, worker, lost, budget>>
    BY <1>1 DEF vars
  <2> QED
    BY <2>1, QuietStep DEF SameSpecs, Versions
<1>2. ASSUME NEW w \in Workers, WorkerStep(w) \/ WorkerDies(w)
      PROVE  GoodStep
  BY <1>2, WorkersAreGood, CommitUpdateIsGood DEF WorkerStep
<1>3. ASSUME NEW c \in Clients, Commit(c)
      PROVE  GoodStep
  BY <1>3, CommitsAreGood
<1> QED
  BY <1>1, <1>2, <1>3, AgentIsGood, RequestsAreGood DEF Next

LEMMA TendedInvInit == Init => TendedInv
<1> SUFFICES ASSUME Init PROVE Tended
  BY StudioInvInit DEF TendedInv
<1>1. Versions = {}
  BY DEF Init, Versions
<1> QED
  BY <1>1 DEF Tended

\* However sessions overlap, in a version of which nothing unread was overwritten, what a tile
\* shows is true, and a spec that is pending has a worker while no process ends
\* (services.py:617-619, 717-720).
THEOREM TilesTellTheTruth == Spec => []Inv
<1>1. TendedInv => Inv
  BY DEF TendedInv, StudioInv, Done, FinishedHasDesign, Inv, Tended, Tends, PendingHasWorker
<1>2. TendedInv /\ [Next]_vars => TendedInv'
  BY TendedInvNext
<1> QED
  BY <1>1, <1>2, TendedInvInit, PTL DEF Spec

\* And a worker that returns late brings no spec back that has disappeared.
THEOREM NothingIsRevived == Spec => NoZombies
<1>1. TendedInv /\ [Next]_vars =>
        [\A v \in Versions \ lost' :
           (DOMAIN campaign'[v].specs \ DOMAIN campaign[v].specs) \cap imagined = {}]_vars
  BY TendedInvNext DEF RevivesNothing
<1>2. TendedInv /\ [Next]_vars => TendedInv'
  BY TendedInvNext
<1> QED
  BY <1>1, <1>2, TendedInvInit, PTL DEF Spec, NoZombies

\* And a render merges into the spec as it is by then: the user's text survives it.
THEOREM TextIsKept == Spec => TextSurvivesRender
<1>1. TendedInv /\ [Next]_vars =>
        [\A v \in Versions \ lost' : agent.at # v =>
           \A i \in AgentIds \cap DOMAIN campaign[v].specs :
             campaign[v].specs[i].text = "user" => campaign'[v].specs[i].text = "user"]_vars
  BY TendedInvNext DEF KeepsTexts
<1>2. TendedInv /\ [Next]_vars => TendedInv'
  BY TendedInvNext
<1> QED
  BY <1>1, <1>2, TendedInvInit, PTL DEF Spec, TextSurvivesRender

=============================================================================
