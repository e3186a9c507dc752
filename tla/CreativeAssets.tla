--------------------------- MODULE CreativeAssets ---------------------------
(***************************************************************************)
(* The creative assets a user imagines, edits and renders on demand        *)
(* (app/modules/projects/services.py:446-797).  All the assets of a        *)
(* campaign live in the JSON payload of one artifact, which every writer   *)
(* reads, changes and writes back as a whole: the requests, the background *)
(* workers that let language models fill a spec in, and the pipeline       *)
(* stage that publishes the campaign while its agent is still designing.   *)
(*                                                                         *)
(* A writer is modelled by two steps, the read and the commit; between the *)
(* two its session is open.  A worker reads anew for every update, since   *)
(* nothing keeps the artifact in its session; the stage never reads back.  *)
(***************************************************************************)
EXTENDS Integers, FiniteSets, Sequences

CONSTANTS
  ImagineIds,     \* the ids of imagined specs (uuid4)
  AgentIds,       \* the ids of the specs an agent makes for a campaign
  NoId,           \* no spec
  Workers,        \* bound: background workers alive at the same time
  Clients,        \* bound: requests in flight at the same time
  MaxVersions,    \* bound: versions of the campaign artifact
  Budget          \* bound: Budget[op] requests of each kind, and deaths

Ids == ImagineIds \cup AgentIds

Ops == {"imagine", "patch", "render", "approve", "die"}

ASSUME IdsAssumption ==
  /\ IsFiniteSet(Ids) /\ NoId \notin Ids
  /\ ImagineIds \cap AgentIds = {}

ASSUME LimitsAssumption ==
  /\ MaxVersions \in Nat
  /\ Budget \in [Ops -> Nat]

VARIABLES
  campaign,       \* the versions of the campaign artifact
  agent,          \* the pipeline stage that is designing a campaign
  worker,         \* the background workers
  req,            \* the requests between their read and their commit
  imagined,       \* the ids given to imagined specs so far
  lost,           \* history: versions of which a session has overwritten what it had not read
  budget          \* what is left of Budget

vars == <<campaign, agent, worker, req, imagined, lost, budget>>

\* AssetSpec, with who wrote the text and the JSX last; emptied: the user has saved
\* blanks over the JSX.
AssetSpec ==
  [status : {"pending", "ok", "error"},
   text : {"prompt", "copywriter", "user"},
   jsx : {"none", "designer", "user", "emptied"}]

\* asset_specs, by id.
Payload == UNION {[S -> AssetSpec] : S \in SUBSET Ids}
Artifact == [specs : Payload, approved : BOOLEAN]

\* `specs` is what the open session has read of version `at`, and `new` what it
\* is about to make of spec `id`; a worker is `then` at its next step.
WorkerState ==
  [pc : {"idle", "copy", "design", "flip", "render", "write"},
   then : {"idle", "design", "render"},
   at : Nat, id : Ids \cup {NoId}, specs : Payload, new : AssetSpec]
ReqState ==
  [op : {"idle", "imagine", "patch"},
   at : Nat, id : Ids \cup {NoId}, specs : Payload, new : AssetSpec]

Empty == [i \in {} |-> NoId]
Placeholder == [status |-> "pending", text |-> "prompt", jsx |-> "none"]
Copied == [status |-> "pending", text |-> "copywriter", jsx |-> "none"]
NoWorker == [pc |-> "idle", then |-> "idle", at |-> 0, id |-> NoId,
             specs |-> Empty, new |-> Placeholder]
NoReq == [op |-> "idle", at |-> 0, id |-> NoId, specs |-> Empty, new |-> Placeholder]
NoAgent == [at |-> 0, specs |-> Empty, todo |-> {}]

Init ==
  /\ campaign = <<>>
  /\ agent = NoAgent
  /\ worker = [w \in Workers |-> NoWorker]
  /\ req = [c \in Clients |-> NoReq]
  /\ imagined = {}
  /\ lost = {}
  /\ budget = Budget

-----------------------------------------------------------------------------
(* Sessions *)

Versions == 1..Len(campaign)

With(specs, i, spec) ==
  [j \in DOMAIN specs \cup {i} |-> IF j = i THEN spec ELSE specs[j]]

\* The commit writes the payload as a whole, unless it equals the one read (two texts of
\* the user are one here, and may differ there): what others have committed since is lost.
Save(session) ==
  LET after == With(session.specs, session.id, session.new)
  IN  \/ after = session.specs /\ UNCHANGED <<campaign, lost>>
      \/ /\ campaign' = [campaign EXCEPT ![session.at].specs = after]
         /\ lost' = IF campaign[session.at].specs = session.specs
                    THEN lost ELSE lost \cup {session.at}

\* BackgroundTasks.add_task
Schedule(pc, v, i) ==
  \E w \in Workers :
    /\ worker[w].pc = "idle"
    /\ worker' = [worker EXCEPT ![w] = [NoWorker EXCEPT !.pc = pc, !.at = v, !.id = i]]

Spend(op) ==
  /\ budget[op] > 0
  /\ budget' = [budget EXCEPT ![op] = @ - 1]

\* The campaign the imagine flow shows: an approved version, or the newest.
Latest ==
  LET approved == {v \in Versions : campaign[v].approved}
      among == IF approved = {} THEN Versions ELSE approved
  IN  CHOOSE v \in among : \A u \in among : u <= v

-----------------------------------------------------------------------------
(* The stage creative_asset of the pipeline *)

Designed(ok) == [status |-> IF ok THEN "ok" ELSE "error", text |-> "copywriter",
                 jsx |-> IF ok THEN "designer" ELSE "none"]

\* The copywriter is done: the first on_progress creates the next version.
PublishCopy ==
  LET specs == [i \in AgentIds |-> [Copied EXCEPT !.status = "ok"]]
  IN  /\ agent.at = 0
      /\ Len(campaign) < MaxVersions
      /\ campaign' = Append(campaign, [specs |-> specs, approved |-> FALSE])
      /\ agent' = [at |-> Len(campaign) + 1, specs |-> specs, todo |-> AgentIds]
      /\ UNCHANGED <<worker, req, imagined, lost, budget>>

\* One spec is designed: on_progress writes the campaign the agent holds.
PublishDesign(i, ok) ==
  LET specs == With(agent.specs, i, Designed(ok))
  IN  /\ i \in agent.todo
      /\ campaign' = [campaign EXCEPT ![agent.at].specs = specs]
      /\ agent' = [agent EXCEPT !.specs = specs, !.todo = @ \ {i}]
      /\ UNCHANGED <<worker, req, imagined, lost, budget>>

\* The final payload is the one published last: nothing is left to write.
FinishCampaign ==
  /\ agent.at # 0
  /\ agent.todo = {}
  /\ agent' = NoAgent
  /\ UNCHANGED <<campaign, worker, req, imagined, lost, budget>>

AgentStep ==
  \/ PublishCopy
  \/ \E i \in AgentIds, ok \in BOOLEAN : PublishDesign(i, ok)
  \/ FinishCampaign

-----------------------------------------------------------------------------
(* Requests *)

Idle(c) == req[c].op = "idle"

Close(c) == req' = [req EXCEPT ![c] = NoReq]

\* POST /projects/{id}/creative-assets: the placeholder is put in the latest
\* campaign, and a worker will design it.
RequestImagine(c) ==
  /\ Idle(c)
  /\ campaign # <<>>
  /\ Spend("imagine")
  /\ \E i \in ImagineIds \ imagined :
       /\ \A d \in Clients : req[d].id # i
       /\ req' = [req EXCEPT ![c] = [op |-> "imagine", at |-> Latest, id |-> i,
                                    specs |-> campaign[Latest].specs,
                                    new |-> Placeholder]]
  /\ UNCHANGED <<campaign, agent, worker, imagined, lost>>

CommitImagine(c) ==
  /\ req[c].op = "imagine"
  /\ Save(req[c])
  /\ Schedule("copy", req[c].at, req[c].id)
  /\ imagined' = imagined \cup {req[c].id}
  /\ Close(c)
  /\ UNCHANGED <<agent, budget>>

\* What a PATCH sends: new text, JSX of the user's own, which may be blank, or both.
Patches == [text : BOOLEAN, jsx : {"unchanged", "user", "blank"}]
             \ {[text |-> FALSE, jsx |-> "unchanged"]}

\* It is merged over the spec, blanks included; JSX counts as a successful render,
\* but blanks leave the status as it is.
Patched(spec, patch) ==
  [status |-> IF patch.jsx = "user" THEN "ok" ELSE spec.status,
   text |-> IF patch.text THEN "user" ELSE spec.text,
   jsx |-> CASE patch.jsx = "user" -> "user"
             [] patch.jsx = "blank" /\ spec.jsx # "none" -> "emptied"
             [] OTHER -> spec.jsx]

\* PATCH .../creative-assets/{spec_id}
RequestPatch(c, v, i, patch) ==
  /\ Idle(c)
  /\ i \in DOMAIN campaign[v].specs
  /\ Spend("patch")
  /\ req' = [req EXCEPT ![c] =
               [op |-> "patch", at |-> v, id |-> i, specs |-> campaign[v].specs,
                new |-> Patched(campaign[v].specs[i], patch)]]
  /\ UNCHANGED <<campaign, agent, worker, imagined, lost>>

CommitPatch(c) ==
  /\ req[c].op = "patch"
  /\ Save(req[c])
  /\ Close(c)
  /\ UNCHANGED <<agent, worker, imagined, budget>>

\* POST .../creative-assets/{spec_id}/render
RequestRender(v, i) ==
  /\ i \in DOMAIN campaign[v].specs
  /\ Spend("render")
  /\ Schedule("flip", v, i)
  /\ UNCHANGED <<campaign, agent, req, imagined, lost>>

\* POST /artifacts/{id}/approve, of a campaign; once more changes nothing.
Approve(v) ==
  /\ ~ campaign[v].approved
  /\ Spend("approve")
  /\ campaign' = [campaign EXCEPT ![v].approved = TRUE]
  /\ UNCHANGED <<agent, worker, req, imagined, lost>>

-----------------------------------------------------------------------------
(* Background workers *)

Exit(w) == worker' = [worker EXCEPT ![w] = NoWorker]

\* The spec of a worker, as the database has it (a placeholder if it has not).
Found(w) == worker[w].id \in DOMAIN campaign[worker[w].at].specs
Current(w) == IF Found(w) THEN campaign[worker[w].at].specs[worker[w].id] ELSE Placeholder

\* Mutant of Update: a spec that has disappeared is put back.
UpdateAnyway(w, new, then) ==
  /\ worker' = [worker EXCEPT ![w].pc = "write", ![w].then = then,
                              ![w].specs = campaign[worker[w].at].specs, ![w].new = new]
  /\ UNCHANGED <<campaign, agent, req, imagined, lost, budget>>

\* _update_spec_in_artifact: read the payload and prepare the update of the
\* spec; when the spec has disappeared, there is nothing to write.
Update(w, new, then) ==
  /\ worker' = IF Found(w)
               THEN [worker EXCEPT ![w].pc = "write", ![w].then = then,
                                   ![w].specs = campaign[worker[w].at].specs,
                                   ![w].new = new]
               ELSE [worker EXCEPT ![w] =
                       IF then = "idle" THEN NoWorker ELSE [@ EXCEPT !.pc = then]]
  /\ UNCHANGED <<campaign, agent, req, imagined, lost, budget>>

\* The copywriter answers: the spec is replaced by the copy, still pending.
CopySpec(w) ==
  /\ worker[w].pc = "copy"
  /\ Update(w, Copied, "design")

\* The copywriter raises: the spec is marked and the worker ends.
FailCopy(w) ==
  /\ worker[w].pc = "copy"
  /\ Update(w, [Current(w) EXCEPT !.status = "error"], "idle")

\* The designer answers, with or without JSX: the spec is replaced as a whole.
FinishDesign(w, ok) ==
  /\ worker[w].pc = "design"
  /\ Update(w, Designed(ok), "idle")

\* redesign_creative_asset: a spec that is there is shown as pending first.
FlipPending(w) ==
  /\ worker[w].pc = "flip"
  /\ Found(w)
  /\ Update(w, [Current(w) EXCEPT !.status = "pending"], "render")

\* The spec is not found: the worker ends (routes.py:165-170).
SpecNotFound(w) ==
  /\ worker[w].pc = "flip"
  /\ ~ Found(w)
  /\ Exit(w)
  /\ UNCHANGED <<campaign, agent, req, imagined, lost, budget>>

Rendered(spec, ok) == IF ok THEN [spec EXCEPT !.jsx = "designer", !.status = "ok"]
                            ELSE [spec EXCEPT !.status = "error"]

\* Mutants of FinishRender: the design is merged into the spec as it was before
\* the model was called; a failure leaves the spec as it is.
FinishRenderStale(w, ok) ==
  /\ worker[w].pc = "render"
  /\ Update(w, Rendered(worker[w].new, ok), "idle")
FinishRenderOnSuccess(w, ok) ==
  /\ worker[w].pc = "render"
  /\ Update(w, IF ok THEN Rendered(Current(w), ok) ELSE Current(w), "idle")

\* The designer answers: its JSX and the status are merged into the spec.
FinishRender(w, ok) ==
  /\ worker[w].pc = "render"
  /\ Update(w, Rendered(Current(w), ok), "idle")

CommitUpdate(w) ==
  /\ worker[w].pc = "write"
  /\ Save(worker[w])
  /\ worker' = [worker EXCEPT ![w] =
                  IF @.then = "idle" THEN NoWorker
                  ELSE [@ EXCEPT !.pc = worker[w].then, !.specs = Empty]]
  /\ UNCHANGED <<agent, req, imagined, budget>>

WorkerStep(w) ==
  \/ CopySpec(w) \/ FailCopy(w) \/ FlipPending(w) \/ SpecNotFound(w)
  \/ \E ok \in BOOLEAN : FinishDesign(w, ok) \/ FinishRender(w, ok)
  \/ CommitUpdate(w)

\* The process ends: what the worker had not committed is lost.
WorkerDies(w) ==
  /\ worker[w].pc # "idle"
  /\ Spend("die")
  /\ Exit(w)
  /\ UNCHANGED <<campaign, agent, req, imagined, lost>>

-----------------------------------------------------------------------------

Commit(c) == CommitImagine(c) \/ CommitPatch(c)

Next ==
  \/ AgentStep
  \/ \E c \in Clients : \/ RequestImagine(c) \/ Commit(c)
                       \/ \E v \in Versions, i \in Ids, patch \in Patches :
                            RequestPatch(c, v, i, patch)
  \/ \E v \in Versions : Approve(v) \/ \E i \in Ids : RequestRender(v, i)
  \/ \E w \in Workers : WorkerStep(w) \/ WorkerDies(w)

Spec == Init /\ [][Next]_vars

-----------------------------------------------------------------------------
(* Properties *)

TypeOK ==
  /\ campaign \in Seq(Artifact)
  /\ agent \in [at : Nat, specs : Payload, todo : SUBSET AgentIds]
  /\ worker \in [Workers -> WorkerState]
  /\ req \in [Clients -> ReqState]
  /\ imagined \subseteq ImagineIds /\ lost \subseteq Versions
  /\ budget \in [Ops -> Nat]

NoDeaths == budget["die"] = Budget["die"]

Pending(v, i) ==
  /\ v \in Versions
  /\ i \in DOMAIN campaign[v].specs
  /\ campaign[v].specs[i].status = "pending"

\* A tile that shows a shimmer is being worked on: no spec stays pending when
\* the workers that could finish it are gone (services.py:617-619, 717-720),
\* unless a session has overwritten what it had not read.
PendingHasWorker ==
  NoDeaths => \A v \in Versions \ lost, i \in Ids :
    Pending(v, i) => \E w \in Workers :
      worker[w].pc # "idle" /\ worker[w].at = v /\ worker[w].id = i

\* Whatever is overwritten, an imagined spec is shown as finished without JSX only
\* if the user has saved blanks over JSX that was there (services.py:584-597): no
\* failed worker or render, no blank PATCH of a spec without JSX, and no mixture
\* of two writes leaves it so.
FinishedHasDesign ==
  \A v \in Versions : \A i \in ImagineIds \cap DOMAIN campaign[v].specs :
    campaign[v].specs[i].status = "ok" => campaign[v].specs[i].jsx # "none"

\* What a tile shows is true: it is designed, or being worked on, or has failed.
Inv == TypeOK /\ PendingHasWorker /\ FinishedHasDesign

\* A spec that has disappeared is not brought back by a worker that was still
\* busy with it (services.py:693-696): only a new id ever enters a campaign, as
\* long as nothing unread is overwritten.
NoZombies ==
  [][\A v \in Versions \ lost' :
       (DOMAIN campaign'[v].specs \ DOMAIN campaign[v].specs) \cap imagined = {}]_vars

\* Text that the user saved on a spec of the pipeline survives the renders that
\* were already on their way (services.py:656-668 merges into the spec as it is
\* by then), once the pipeline is done with the campaign and as long as nothing
\* unread is overwritten.
TextSurvivesRender ==
  [][\A v \in Versions \ lost' : agent.at # v =>
       \A i \in AgentIds \cap DOMAIN campaign[v].specs :
         campaign[v].specs[i].text = "user" => campaign'[v].specs[i].text = "user"]_vars

=============================================================================
