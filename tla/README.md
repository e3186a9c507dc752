# Klarnow backend: TLA+ models and proofs

This directory holds a formal model of the Klarnow backend (`app/`, FastAPI over
PostgreSQL): the generation pipeline with its background tasks and approval gates, what
happens inside one of its stages, the creative assets that users and workers edit in one
JSON payload, sessions and login codes, subscriptions, API keys, the site builder, logos
and their upload, posters, projects, the waitlist, and the shell of middleware, error
handlers and alerts around all of them. TLC checks the models on small instances, TLAPS
proves the most important properties for every instance.

    tlc -workers 2 -config Pipeline_solo.cfg MCPipeline.tla     # one run
    tlapm PipelineProofs.tla                                    # one module of proofs

Paths below are relative to `app/` unless they say otherwise; "orchestrator" is
`modules/pipeline/orchestrator.py`, "services" and "routes" are those of
`modules/projects`.

## 1. The system

A user onboards a project, the backend runs a graph of six *stages*
(`modules/pipeline/config.py`), each of which calls language models and leaves
one versioned *artifact*. Three stages have an approval gate: the run stops
under review until the user approves what the stage put out. Users pause,
resume, cancel and retry runs, edit artifacts, imagine more creative assets, make posters,
and have a website.

| Component | State | Operations | Interacts by |
|---|---|---|---|
| Orchestrator and stage runner (`modules/pipeline`) | rows `generation_run`, `stage_run`, `artifact`; the locals and the session of every task | `run_pipeline`, `resume_after_approval`, `execute_stage`, progress callback | a background task of a request or the command-line worker; rows read and committed while requests do the same |
| Run control and approvals (`modules/projects`) | the same rows, `approval`, `project.status` | onboarding, create, regenerate, pause, resume, cancel, retry, approve, reject, edit | commits rows, then schedules tasks |
| Projects, documents, exports (`modules/projects`) | rows of workspace, project, document, export job | create, list, update, delete | rows of one account, which can be deleted |
| Creative assets on demand (services 446-797) | the `asset_specs` inside the payload of one artifact | imagine, edit, render, two background workers | whole-payload read, change, write |
| Stage agents, model gateway (`modules/pipeline/agents`, `shared/services`) | the payload in memory | ask, show, retry, design at once | coroutines of one loop with one session |
| Database sessions (`core/db/session.py`) | identity maps, pending column changes | refresh, flush, commit | `expire_on_commit=False`; a column is written only when it changed |
| HTTP shell (`main.py`, `core/errors.py`, `core/metrics.py`) | counters | middleware, CORS, exception handlers | around every handler |
| Failure alerts (`core/failure_alerts.py`) | deque of send slots, provider cooldown, one lock | queue, reserve, send, back off | background tasks in the threads of one process |
| Authentication and sessions (`core/auth`) | refresh tokens, login codes, reset links, cookies | login, refresh with rotation, logout, passwords, end of the account | row locks |
| Billing (`modules/billing`) | customer, subscription and tier of a user; customers and subscriptions at Stripe | checkout, portal, webhook | events of Stripe, repeated and out of order |
| Tier gating, API keys | keys with their counters | check, create, use, revoke | the tier of the account |
| Site builder (`modules/builder`), legacy packs (`modules/packs`) | the row of a site | create, edit, publish, unpublish, visit | object storage |
| Logos (`modules/packs/logo_generation.py`) | provider cooldown | ask, decode, make transparent, upload | threads of the process |
| Object storage (`core/storage.py`) | a token and its lock | upload | event loops of several threads |
| Posters, brand context (`modules/creative`, `shared/services`) | assets with version letters | create, regenerate, delete, prompt | streams of language models |
| Waitlist (`modules/waitlist`) | rows by email | subscribe | unique constraint |
| Notifications, logging, configuration, schemas | none | send, format | - |

### What is hard here

* **Tasks are not exclusive.** Nothing keeps two orchestrators from running one
  run: a resume or retry schedules a second one while the first is inside a
  stage, two approvals schedule two, the command-line worker is a third.
* **Reads go stale.** A task decides on the run and the stages it has read and
  writes later. `expire_on_commit=False` keeps rows in the session; the ORM
  leaves a column alone when the assigned value equals the one it holds, so that
  a write over somebody else's update silently does not happen, or does.
* **Requests span two transactions.** An approval is committed before a run to
  resume is looked up; codes, links, keys and rows are looked up and then changed.
* **Whole-payload updates.** All assets of a campaign are one JSON column that
  requests, workers and the streaming stage read and replace.
* **Failing writes.** A progress update can fail in its flush or its commit while the agent,
  and the other designers of the stage, go on.
* **Crashes.** A background task lives in the process of the request. When it
  dies, run, stage and spec stay as they were and nothing restarts them.
* **Clocks and locks.** The alert limiter reads the clock before it takes the
  lock, so that slots are reserved out of order; the storage shares one `asyncio.Lock`
  between threads and event loops, for neither of which it is made.
* **Events of others.** Stripe repeats and reorders; browsers race with one
  refresh token.

The complete list, with lines and the properties that cover each entry, is under
`hazards` in `PROJECT.json`.

### What makes each component correct

* *Pipeline*: a gate holds back what is behind it until the user has approved
  what this run made; a stage starts after its dependencies and is handed finished or
  approved work; the status of a run agrees with its stages; an active run has a task and
  comes to an end; a failed run can be retried; one execution leaves one version.
* *Inside a stage*: whatever writes fail, it leaves one version or none, the whole of it if
  it ends well, and nothing the user has been shown disappears.
* *Creative assets*: a shimmering tile has a worker; a finished tile has a design, unless
  its user has blanked it; a vanished tile is not revived; the text a user saved survives a
  render.
* *Shell and alerts*: every failure of the server is mailed once and nothing else is; a page
  can read its errors; never more than the limit of mails in a window; a retry waits
  as long as the provider asked.
* *Billing*: an event reaches the user who pays, a tier is paid for, and who pays has one.
* *Sessions*: one successor per refresh token, the loser of a race keeps a usable session,
  and what was revoked or used up does not come back.
* *Keys, sites, posters, projects*: an answer stays true whatever was under way when it was
  given; one site per pack; visitors see what was published; letters tell versions apart.
* *Logos*: never half stored; the lock of the storage is not left locked, and who is alone
  in it is never kept waiting; the transparent variant removes the connected background and
  never all of the logo.
* *Waitlist*: one newcomer per person, and nobody's details are undone by another's form.

## 2. Modules

| Module | Models | |
|---|---|---|
| `Pipeline` | orchestrator, stage runner, run control, approvals, sessions | state machine, properties |
| `RunLifecycle` | what a user sees of her runs: their status and that of their stages | abstract specification, implemented by `Pipeline` |
| `StageAgents` | one stage from the inside: agents, progress, failing writes | state machine, properties |
| `CreativeAssets` | the payload of a campaign and all who write it | state machine, properties |
| `FailureAlerts` | the limiter and its senders | state machine, properties |
| `Billing` | requests for checkout and portal, the webhook, and Stripe as the code sees it | state machine, properties |
| `Sessions` | the eleven requests on sessions, codes, links and the account | state machine, properties |
| `Storage` | uploads, the shared token and its lock | state machine, part of `LogoGeneration` |
| `LogoGeneration` | how a logo is drawn and stored | extends `Storage`; liveness |
| `Flood` | what a flood of an image from its edges is | abstract specification |
| `TransparentLogo` | the transparent variant, pixel by pixel | implements `Flood` |
| `Waitlist` | the subscription form | state machine, properties |
| `Requests` | the shell: middleware, CORS, errors, metrics, alerts, the end of the process | composes the next four |
| `ApiKeys` | keys, the table of features and the gate | part of `Requests` |
| `Sites` | the site builder, public pages, legacy packs | part of `Requests` |
| `Posters`, `BrandContext` | poster versions and prompts; where each field of a brand comes from | part of `Requests` |
| `Projects` | workspaces, projects, documents, exports, campaigns, the end of the account | part of `Requests` |
| `PipelineProofs`, `StageAgentsProofs`, `CreativeAssetsProofs`, `BillingProofs`, `SessionsProofs`, `WaitlistProofs` | | proofs about the modules of these names |
| `LogoProofs` | | proofs about `LogoGeneration` with `Storage`, and about `TransparentLogo` and that it implements `Flood` |
| `RequestsProofs` | | proofs about `Requests` with its four parts, and about `FailureAlerts` |
| `MC*` | graphs, budgets, images, forms and symmetry for TLC | |

Conventions. A comment "Mutant of X" marks an operator that is X with a plausible
bug; no specification uses it, and each is there to show that some property
notices (`mutants` in `PROJECT.json`). Bounds are CONSTANTS whose comment begins
with "bound". Requests of `Pipeline` and `CreativeAssets` are limited by a `Budget`, so that
the state space is finite; which requests a run allows is its most important bound, and is
named after the conversation it permits (`SoloBudget`, `GraphBudget`, ...). An invariant
called `Inv` (in `LogoGeneration`: `JobsAreRight`) is the conjunction of the named parts that
section 3 lists.

### Pipeline

`runStatus`, `stage`, `out` and `artifact` are the columns of the tables
(`generation_run.status`, `stage_run.status`, `stage_run.output_artifact_id`, the
versions of each artifact type); `approvals` the approval rows with decision
"approved"; `task` the local variables *and the session contents* of each
background task; `req` what a request has read and not yet committed.

A step of a task is one read or one commit. One pass of the loop is

    Load -> InitializeRun -> Refresh -> LoadStages -> StartStage -> Progress* ->
    FinishStage | FailStage -> MidRefresh -> MidLoad -> ... -> Conclude

with every request and every other task free to act between any two.

| Action | Code |
|---|---|
| `Load`, `WorkerSkips` | `routes.py:52-109`, `workers/pipeline_worker.py:22-41` |
| `InitializeRun` | `orchestrator.py:33-70` and the commit that follows |
| `Refresh`, `Exhaust` | 207-220, 286-290 |
| `LoadStages`, `MidRefresh`, `MidLoad` | 222-284: fail-fast, ready set, batch, and the checks after each stage |
| `StartStage`, `Progress`, `FinishStage`, `FailStage` | 100-173, `stage_runner.py:66-172` |
| `Conclude` | 225-258, 286-290: the commit of the verdict |
| `Request*` / `Commit*` | read and commit of pause, resume, cancel, retry (`services.py:208-299`, `routes.py:349-418`) |
| `ApproveArtifact`, `WakePausedRun` | `services.py:365-375`, then `routes.py:466-472` |
| `CreateRun`, `SubmitOnboarding`, `RejectArtifact`, `EditArtifact`, `StartWorker` | the requests of the same names |
| `TaskDies` | the process ends, or an exception leaves the loop |

`Flush(local, new, db)` is the ORM's rule for a column: nothing is written when
the session already holds the value. `task[t].rs` and `task[t].seen` are the
values it holds. This rule is what several of the behaviours of section 5 rest on.

`crossed` and `died` are history, which no guard reads. `crossed` is the set of runs on which
work has met other work (`Meets`): a second task was scheduled while one served the run, a
cancel was committed, or a retry was committed on rows that are not what it had read
(`IsFresh`). `died` is the set of runs of which a task has died. The code prevents none of
these, and goes on. What it guarantees afterwards is stated without regard to `crossed`
(gates, types, the liveness of the loop, that active runs have tasks); order and truth of
the rows are stated of each run for as long as it is not crossed, whatever the other runs of
the project have come to (section 5 says what breaks them then).

Abstractions. The outcome of an agent is a choice (it streams, answers, or
raises; a failed write of its artifact is the same `FailStage`). Seeding the stage
rows is one step with the commit that follows. A request is a read and a commit;
creating a run, resuming and retrying are one step with the scheduling of the
task, because the response (and with it the background task) follows the commit
at once; a process that dies in between is `TaskDies` of a task that has just
been scheduled. A database error inside the progress callback rolls back and is
no step (`StageAgents` has these). Artifacts and runs are never deleted. `Input` is what
`load_input_artifacts` hands to a stage for one of its dependencies.

`RunLifecycle` is the same without tasks, sessions and artifacts: `status` and `rows` are the
columns a user sees, `asked` the pauses and resumes that were accepted and are not committed
yet. Its guards are what she may rely on: a stage is started (`Start`) when nothing is being
executed and nothing of its run has failed and all it depends on is completed; a run settles
(`Settle`) on the status its rows justify; a retry is of a run with failed stages. Each
step is one of these of one run (`Step`), or a run comes loose (`GoesLoose`): nothing is promised of it any
more, and all of the others, whose rows such a step leaves alone. The refinement maps `rows` to the
stage rows, of which one that is missing counts as pending, `asked` to the requests and `loose`
to `crossed \cup died`; the reads of tasks and requests, the progress of agents and the edits of
artifacts are stutters. `LifecycleSpec` is that instance's specification.

### CreativeAssets

`campaign[v].specs` is `asset_specs` of version v. Of a spec the model keeps its
status, who wrote the text last and who wrote the JSX: what the properties tell
apart. A PATCH sends text, JSX of the user's own, or blanks, which are merged over JSX that
was there and leave the status as it is ("emptied", `Patched`). Writers act in two steps, a read (`Request*`, `CopySpec`, `FinishDesign`,
`FlipPending`, `FinishRender`) and a commit of the whole payload (`Save`). A worker
reads anew for each of its updates: the session's identity map is weak and nobody
holds the artifact across the call of a language model. The stage never reads
back: it writes the campaign its agent holds (`PublishDesign`), and nothing at the
end, since the final payload equals the one published last.

Abstractions. `redesign_creative_asset` checks that the spec exists and then flips
it; both reads are one step. Two designs of the pipeline that end at the same time
are published one after the other (the code serialises them by a lock; one
snapshot may contain both). One stage streams at a time. The client's own PATCH of
a whole campaign is not modelled.

Any number of sessions may be between read and commit, and overlap: the code has no lock. A
commit that overwrites what its session had not read loses an update; the version is then in
`lost`, a history variable that no guard reads. `FinishedHasDesign` holds whatever is lost;
the other properties are stated of the versions that are not in `lost`. They say that reading anew
after a language model has answered is enough *between* windows, and the two lost updates of
section 5 that the windows themselves are not safe.

### FailureAlerts

`slots` is the deque, `cooldown` the provider cooldown, `sender[a]` the local
variables of the background task of alert a. `ReadClock` and `Reserve` are the two
sides of the lock in `_reserve_failure_alert_send_delay`; `SetCooldown` is
`_set_failure_alert_provider_cooldown`. The clock ticks at any time, so a thread may
be late by any amount. `reserved` and `notBefore` are history, which no action
reads. What is limited is the *slots*: a thread that oversleeps may still send late,
as in the code, which leaves that case to the provider's answer. Each process has a
limiter of its own; the model is one process.

### Billing

`user` is the three columns of `packs/models.py:34-36`; `req` a request on its way
through `get_or_create_stripe_customer` (`LoadCustomer`, `CreateCustomer`,
`SaveCustomer`) to its checkout or portal session; `hook` a webhook handler between
its read of the user (`Receive`) and its commit (`CommitTier`). Requests run in the
threads of the pool and overlap. A handler is a coroutine that does not yield once it has
the body of its request, so that two of them overlap only in two processes: the image runs
one `uvicorn` per container (`Dockerfile:12`) and nothing in the code rules out a second
container, if only while a new version is rolled out. What holds with two holds with one. `Assigned` is what
`update_user_tier` and `downgrade_to_free` assign, `Flush` which of it is written.
`get_or_create_stripe_customer` and the handlers re-read the user after their commit
and use nothing of it.

Stripe is external and modelled from how the code uses it: customers and subscriptions
with the metadata they were created with, the plan that is paid for, and `events`, a set
that never shrinks, so that an event may arrive late, again, or never. An event carries
the subscription as it was when it was sent. Payments fail, are made up for or given up
at any time; plans change in the portal of a customer, and the metadata stay.

Abstractions. "trialing" is "active"; "canceled" and "incomplete_expired" are "canceled".
`invoice.payment_failed` changes nothing and is no step. The checkouts of one user,
customer and tier are one until one is paid. A completed checkout sets the customer of a
user who has none (`webhook.py:69-71`): no state of the model has such a user, and
`EventsFindTheirUser` states that.

### StageAgents

The coroutines of a stage share one event loop and one session, and `on_progress` awaits
nothing: what a coroutine does between two calls of a language model is one step. `Report`
is `on_progress` with the three ways in which its write can fail: in the flush, in the
commit (the new object then leaves the session and keeps an id without a row), and after
it (the row is there, the answer is lost). `FirstAnswers`, `CodeAnswers`, `LogoArrives`,
`LogoIsMissing` and `DesignEnds` are the answers of the four kinds of agents, `TryAgain` and
`AgentFails` the retries of a call; the designers of a campaign await their calls at once.
`Keep`, `KeepFails`, `KeepUnknown` and `KeepUnanswered` are the end of `execute_stage`: the
commit of the payload, its failure, a row that is not there, and an answer that is lost.

Abstractions. A payload is the set of its parts. The website type that the first call
recommends is kept or forgotten with the commit it is part of (`recommended`). One task
executes the stage; tasks that overlap are `Pipeline`.

### Sessions

`sessions`, `secrets` and `user` are the rows, `jar` the cookie of each browser, `req` the
requests: each step is one statement, `held` the rows that its transaction has locked, and
a request that needs a locked row waits. `Erase` is a DELETE whose rows were found before
it had to wait: READ COMMITTED looks at a row again after the wait, so that it is deleted
with whatever token it has by then. Of two requests that lock each other's rows the
database aborts one (`AbortDeadlock`).
An answer may be lost and a process may end, which rolls back (`Fail`); sessions, codes and
links expire.
`Clear` and `Keep` say what the answer does to the cookie.

| Action | Code (`core/auth/routes.py`, `sessions.py`) |
|---|---|
| `FindEarlier`, `StoreSecret` | `send_login_code`, `forgot_password` |
| `FindAccount`, `CreateAccount`, `ConsumeCode`, `IssueToken` | `verify_login_code`, `register`, `login`, `google_login` |
| `BeginRefresh`, `CommitRefresh`, `Logout` | `refresh`, `logout` with `SELECT ... FOR UPDATE` |
| `FindLink`, `FindSessions`, `RevokeAll` | `reset_password` |
| `FindOthers`, `LockOthers`, `ChangePassword`, `RevokeAll` | `change_password` |
| `DeleteAccount` | `delete_account` |

Abstractions. One person; her password is right (a wrong one changes nothing). Rate limits
are the shell's. `heirs`, `revoked`, `spent` and `steady` are history, which no step reads.

### Storage and LogoGeneration

`Storage` has what the uploads of a process share: the token, and `_TOKEN_LOCK` with its flag,
its queue of futures and the loop it is bound to. `asyncio.Lock` is plain Python, which other
threads interrupt: its tests (`TestLocked`, `TestWaiters`) and assignments (`Take`,
`AppendWaiter`, `Clear`, `Hand`) are steps of their own. Two uploads may therefore both find the
lock free and both sign in; the second of their releases then raises (`Leave`), or releases the
lock for a third; and a release between the tests of an upload and `AppendWaiter` is lost on
it. A release sets the future of the waiter, which leaves the queue and takes the lock, in two
steps, if its loop has not gone to sleep yet (`Wake`), and never notices if it has (`Sleep`);
whoever has to wait after the lock was bound to a loop raises (`BindRaises`), so that the queue
never has more than one.
`LogoGeneration` adds the jobs of the threads:
`CheckCooldown`, `ProviderAnswers`, `ModalitiesRefused` (the fallback), `QuotaRefused` (which
starts the cooldown of all threads), `ProviderFails`, `Extract` (with one retry and a simpler
prompt), `Decode`, two uploads and `MakeTransparent` between them. `Step` follows the job, so
that fairness of a thread is one formula.

Abstractions. A response is the list of its parts; which field of a part contains the image
is not told apart. An upload that starts signs in at most once. `_wake_up_first`, which looks
at the future and sets it, is one step. Uploads of the main event loop (`projects/routes.py:268`)
are left out: they call the storage with wrong arguments and raise before the lock.

### Flood and TransparentLogo

`Flood` says what the background is: cells that are open and connected with the border. Its
step takes up any marked cell; nothing is said about the order. `TransparentLogo` is the
code: for each of three thresholds, `Fill` enqueues the pixels of the edges, `Grow` takes the
first pixel of the queue and marks its neighbours that match, and when the queue is empty
`Erase` makes what was reached transparent, `TryNext` takes the next threshold, or
`LeaveOpaque` gives up. The refinement maps open cells to the pixels within the threshold,
the marked ones to the mask, the taken-up ones to what is marked and not in the queue:
`FloodSpec` is that instance's specification, with a new flood for every threshold.

Abstractions. A pixel is its distance from the sampled colours. In the run, areas of pixels
share a colour (`Areas`), and the least share of pixels that must be removed is a third and
not a fiftieth, which no 5 x 5 image could miss.

### Waitlist

`table` is a function of emails, as the unique constraint makes it; a request reads
(`LookUp`), inserts or is refused (`Insert`), looks again after a refusal (`LookAgain`), merges
its details into the row as it was read (`Merge`, which writes only columns that differ) and
notifies (`Notify`). `Dies` is a connection that is lost or a process that ends.

### Requests and its parts

`Requests` follows a request from the middleware to the mail about it. `Part` runs the steps
of a handler, which are those of the part's module, instantiated with the requests as its
calls; `Answer` turns what it returned or raised into an answer as `errors.py` and the
exception handlers do, with an alert attached if `ShouldAlert` says so, and counts it. An
exception no handler takes passes the CORS middleware by (`MayRead`). `Stop` ends the process
with all that it had not sent. `AnswerOther` stands for every other handler, and for what is
refused before a handler is reached.

* `ApiKeys`: one step per statement of the handlers of `api_keys/routes.py`; `Stamp` is the
  commit of `validate_api_key` after `LookUp` has validated the row, with only the columns it
  changed (`Stamped`). `CheckFeature` looks the tier up in the table of features.
* `Sites`: `Find`, `Write`, `Refresh`, `Delete` are the handlers of the owner, `Serve` and
  `CaptureLead` those of visitors. `publish_project` and `generate_project` put the pack in
  the variable of the site and raise on a column that only a site has, so `Init` has pages
  that are live from an earlier release. `StoredPage` is what is found in the object storage:
  nothing, as the names asked for are not those that the storage gives. `HandOver` is the
  upload and deletion of pages: coroutines that are never awaited. `ServePack` are the legacy
  routes, of which most raise.
* `Posters`: `List` and `Insert` of `regenerate_asset` compute the letter of the next version from
  rows read earlier. `BeginPrompt`, `Prepare`, `Prime` follow `generate_posters` to its first
  text; `SlotsOf`, `Prompt` and `Brief` say which slots, files, concepts and facts a prompt has.
  `BrandContext` has the order of the sources of every field.
* `Projects`: the rows of one account. `Backfill` gives ids to the specs of an old campaign, with
  a commit of the whole payload; `DeleteAccount` cascades while other handlers are under way.

Abstractions. The rows of different accounts do not meet, so that one account, one pack and
one project are enough; a request for another user's rows ends as one for nobody's (`Stray`,
`not_found`). Columns hold one of two texts.

## 3. What the runs check

| Run | Instance | Shows |
|---|---|---|
| `solo_stage` | one stage, two tasks, a pause, a resume, a cancel, a retry, a rejection; 146 k states | `ActiveRunHasTask`, `RunningStageHasTask`, `ActiveRunSettles`, `TaskEnds`: two overlapping orchestrators never strand a run |
| `two_runs` | a gate and the stage behind it, two runs, an approval, a worker, a death; 2.0 M states | `GatesHoldBack`, `GateNeedsApproval`, `OutputIsNewest`, `FinishedStaysFinished`: artifacts of one run never open a gate of the other, and what it has finished stays, while one task works on it |
| `config_graph` | the graph of `config.py` with its gates, one task; three approvals, pause, resume, retry, edit, a death; 361 k states | `StartedAfterDependencies`, `StatusTellsStages`, `LimitIsSlack`, `LifecycleSpec`: the code implements the life of a run |
| `stages` | an agent of each of four kinds, three designers, three attempts, two failing writes; 118 k states | `Inv` (one version; the whole of it; designs do not disturb each other), `ShownOnlyGrows` |
| `studio` | a spec of the pipeline and an imagined one, two clients, two workers, one death; 858 k states | `Inv` (`PendingHasWorker`, `FinishedHasDesign`), `NoZombies`, `TextSurvivesRender`, with sessions that overlap freely |
| `alerts_burst` | three alerts, two sends per window, two attempts; 3.9 M states | `WindowLimit`, `RetryHonoured`, `ScheduleIsBounded` |
| `billing_events` | two users, two requests, two handlers, two paid tiers, two changes at Stripe; 1.4 M states | `EventsFindTheirUser`, `TierWasBought`, `PayingUserHasTier` |
| `browsers` | two browsers of one person, three of eleven kinds of requests, one fault; 661 k states | `Inv` (`OneHeir`, `RevokedIsGone`), `StaysSignedIn` |
| `threads` | two logos, one cooldown, one loss of the token; 65 k states | `JobsAreRight` (`CallsAreBounded`, `LogoIsWhole`, `LockIsLeft`, `LoneUploadsAreFine`), `LoneJobsEnd` |
| `images` | all 5 x 5 images of five areas in four distances; 44 k states | `Inv` (`ErasesFirstFit`, `LogoRemains`), `FloodSpec`: the code implements the flood |
| `forms` | three forms, two people, one with two spellings, two columns, one fault; 1.1 M states | `Inv` (`OneNewcomer`, `ConflictsRecover`, `NothingIsForgotten`), `OnlyOwnColumns` |
| `requests` | two requests for one part, or one prompt and one other; one end of the process; 936 k states | `Inv` (`NumbersAreRight`, `ErrorsAreReadable`, `CountsAreUses`, `OneSite`, `VisitorsSeeThePublished`, `NoOrphans`), `FailuresAreTold`, `AnswersAreKept`, `LettersTellVersions`, `PromptsAreExact`, `NothingRevives` |

Every `Inv` and every run also has the `TypeOK` of its module. `StartedAfterDependencies`
contains `WorksOnFinishedWork`: what `load_input_artifacts` hands to a stage is a version
the user has approved or the finished output of a stage.

### Bounds, and why they are enough

* *Stages.* The behaviour of the loop depends on a stage only through its status,
  its dependencies and its gate. `config_graph` has the real graph. The runs with
  more concurrency use the smallest graphs with the feature in question: one stage
  for the loop (two iterations, so that its limit is reached), a gate with a stage
  behind it for gates.
* *Tasks.* Two are enough for one to act on what the other changed; `two_runs` has the two on
  one run, or on one each. All safety properties are proved for any number (section 6).
* *Requests.* One of each kind gives every order of two different requests; retry
  after cancel after resume after pause is within `SoloBudget`. Three approvals are
  what the real graph needs to finish.
* *`config_graph` with one task.* Its properties are about what one orchestrator
  does of a run; once two have met on it some are false, as section 5 describes, so that a
  second task adds runs whose properties end there. A death does happen. The batch of the website and the assets
  has a stage that fails while the other is still to come. Two of the three streaming stages
  stream, one with a gate and one without; the third is like the first. Theorems say the same
  for any graph and any streaming stages (section 6).
* *Versions.* A run creates at most two versions of a type in these instances (one
  retry); a third adds no case, since the code only compares with the newest.
* *Studio.* One version is what all meet in: an imagined spec and one of the agent, edited once,
  rendered once and approved once by two clients, against two workers and the agent. Versions
  share nothing but the choice of the latest; the theorems are for any number.
* *Designers.* Three have one whose write fails between one before and one after it; two
  failing writes are one of a progress update and one of the end. Proved for any number.
* *Alerts.* Three alerts with two attempts give six slots, three times the limit;
  `RetryAfters` holds a value below the lower and one above the upper bound of the
  cooldown. Slots beyond the limit of the clock are reserved but not reached.
* *Billing.* Two requests are two customers of one user, or two subscriptions, or one
  of each of two users; two handlers are what it takes to commit over each other. With two
  changes a payment fails and is made up for, or a plan changes and the subscription is
  canceled. Deliveries are not bounded.
* *Sessions.* Three requests are a refresh, a second one with the same token and a third
  that revokes; or a code, and two that use it. Two browsers are two rows, which is what
  it takes to lock crosswise.
* *Logos.* A thread meets at most one other in a lock, and whoever waits behind a waiter
  raises like one that waits behind a holder. The clock passes the cooldown once.
* *Images.* The ring has the cases of the algorithm: a way in that is open for one threshold
  and not for another, background that is cut off, all or nothing reached. The refinement
  is proved for images of any size (section 6).
* *Forms.* Two forms race, the third comes after or before; two columns tell a merge of
  what differs from one of the whole row.
* *Handlers.* Handlers meet in pairs: each reads, and writes what it has read, so that a
  third acts like one of the two. Two requests for one part are every pair of its
  operations; the parts share no rows, so that requests for different ones meet in the shell
  only, which "prompts" and "other" exercise with all results. `MCInit` leaves out rows that
  no request is about, and sites whose published files equal their draft, where no visitor
  could tell the two. `MCNext` lets the process end, and answers wait on their way, while keys
  and other parts are asked for: to rows, a handler that is interrupted is one that takes no
  further step, which every run allows, and an answer on its way touches no row. Two requests
  for a site do not meet when neither writes.

Deadlock is not checked (`CHECK_DEADLOCK FALSE`): users may stop sending requests,
and an alert that is sent, an image that is made and a stage that has ended are done.

## 4. Fairness

`solo_stage` checks liveness under `FairSpec`: weak fairness of every task and
of the commit of every accepted request. A task is `asyncio.run` in a thread of its
own, which the operating system schedules; a request that was read is committed by
its handler. The agent of a stage answers or raises: the client libraries of the
language models end a call that gets no answer. Nothing is assumed about users, and
nothing restarts a task that died, so `ActiveRunSettles` promises that an active run settles or
loses a task by its death. `Progress` is a step of a task, too; an agent that streams without end
is excluded because in this instance no agent streams, and an agent's number of progress
calls is finite in the code.

`threads` checks `LoneJobsEnd` under weak fairness of the steps of each thread: threads are
scheduled, and the clients of the provider and of the storage have timeouts. A waiter that
sleeps in a loop whose lock nobody hands over has no step, so fairness does not wake it,
as nothing in the code does; the property is therefore stated for uploads that do not
overlap, and it is what the code guarantees.

## 5. Where code and documentation disagree, and what else was met

What TLC shows as a short behaviour of the models here, when the claim is stated as a
property:

* *A cancel is lost.* A cancel that commits between the load of a run and `initialize_run`
  is overwritten with "running" (`orchestrator.py:58-66`), and the run is executed.
* *An approval is lost.* An approval that arrives before the orchestrator has committed
  "needs_review" finds no run to resume (`routes.py:464-468`); the run then waits for an
  approval that has been given.
* *An approved draft changes.* A progress draft that was approved early stays approved when
  its payload is replaced: the status assigned is the one the session holds
  (`services.py:380`, `config.py:47-48`). A later stage can be handed such a draft while it is
  still streamed; `WorksOnFinishedWork` excepts versions the user has approved.
* *A cancel undoes what was finished.* A cancel that read its stages before one of them finished
  marks it skipped (`services.py:225`), and a retry executes it once more. A cancel that commits
  after the last check of the task (`orchestrator.py:215`) is overwritten by its verdict: the run is reported
  completed with stages that were skipped.
* *A list of ready stages grows old.* It is executed to its end (`orchestrator.py:261`): with a
  second task on the run, a stage that was finished, cancelled or put under review meanwhile is
  executed again. So do two tasks that read the same list: each makes a version.
* *A run is handed another's draft.* `load_input_artifacts` looks up versions by project and type,
  not by run (`stage_runner.py:44-62`): the newest may be what another run still streams.
* *A resume meets the stage in flight.* The second orchestrator takes the running stage for an
  error and fails the run (`orchestrator.py:239`), with no failed stage, so that a retry is
  refused, against lines 196-198. A crash inside a stage followed by pause and resume ends in
  the same way.
* *An edit undoes a render.* An edit that read the campaign before a render finished writes
  the pending spec back after it (`services.py:700`): the tile shimmers for ever. In the same way
  overlapping windows lose the user's text, and bring back a spec that has disappeared.
* *A finished tile without a picture.* PATCH with `jsx_code=""` is merged over the JSX and leaves
  the status as it is (`services.py:584-597`): an imagined spec stays "ok" without JSX.
* *A plan change is not noticed.* `_resolve_tier_from_subscription` looks at the metadata of the
  checkout before the price (`billing/webhook.py:31`). A change in the portal changes the price
  only, and the user is given the old tier again.
* *A failed progress update fails the stage.* After a failed commit the holder keeps an object
  whose row is gone; the stage ends failed on its foreign key, against "never hurts the
  final artifact" (`stage_runner.py:157-170`).
* *Uploads that overlap may hang or raise.* The token lock of the storage is one
  `asyncio.Lock` for the threads and event loops of all uploads (`core/storage.py:39`). Two
  uploads that find it free at once both sign in, and one of them may raise "Lock is not
  acquired" when it leaves; a release that falls between the test and the queueing of another, or
  comes when its loop sleeps, is lost on it, so that it waits for ever; and once one has waited, each
  later one that has to raises.
* *Overlapping first reads of an old campaign* make up different ids for its specs; one client
  holds ids that are not stored (`services.py:351`).

What was met while reading:

* Two requests with one reset link can both find it before either deletes it
  (`core/auth/routes.py:393`): both set their password.
* Two regenerations of a poster that overlap list the same versions and store the same letter
  (`creative/services.py:89`); nothing in the table forbids it.
* A spec that is imagined into a draft which the pipeline still streams is removed by the
  next snapshot (`services.py:498`), against `services.py:719-720`.
* An approved version beats a newer draft, so that an edit after an approval, or a new run,
  feeds later stages with the older one (`stage_runner.py:56`).
* An "updated" event that arrives after "deleted" grants the tier again
  (`billing/webhook.py:94`), and the deletion of an older subscription takes away the
  tier of a newer one (`webhook.py:112`).
* The portal is opened for the customer in the row; a subscription on a customer that an
  overlapping checkout has replaced cannot be managed there (`billing/services.py:39`).
* `publish_project` and `generate_project` overwrite the site with the pack and always raise;
  `upload_document` calls the storage with wrong arguments and always raises
  (`projects/routes.py:268`).
* `builder/services.py` calls the coroutines of the storage without awaiting them, so that
  nothing is stored or removed, and asks for pages under names that the storage does not give.
  A live page without kept files shows its draft.
* The legacy list of packs always answers 400, as it lacks the total its schema asks for;
  create and delete call their services with wrong arguments (`packs/routes.py:45`, `65`); a pack
  that is missing is a 500.
* `usp_locked_line` of a brand is shadowed by its `usp_statement`.
* The answer to a crash has no `Access-Control-Allow-Credentials`: pages that send cookies
  cannot read it, against the comment at `main.py:100`.
* 405 has the category "validation" by default, so that unexpected client errors do not alert
  as `failure_alerts.py:56-59` says; a plain `ValueError` of a bug is a 400 and does not either.
* A stream that breaks after its first text is counted as a 200 and alerts nobody.
* The numbers of queries in the logs are always 0, as the context variable is set in another
  context.
* A create of an API key that is repeated after a lost answer makes a second key.
* An access token of a deleted account serves until it expires; creating a workspace with one
  is a 500.
* The cache of `verify_token` in Redis never hits: it is read with text and written with bytes
  as keys (`jwt.py:52-53`).
* With `strict=False`, `generate_logo` "returns empty logo fields" on a failure
  (`logo_generation.py:959`); the RuntimeError of a storage lock that is bound to another loop
  passes it.

## 6. What is proved

Theorems hold for every value of the constants that satisfies the assumptions:
any graph (`StagesAssumption` asks for a finite set of stages and for dependencies, gates and
streaming stages among them, `GraphAssumption` that there is no cycle, which the table in
`config.py` has none of and `StatusIsTrue` and the refinement rest on), any number of
runs, tasks, clients and requests (`BoundsAssumption`); any window, limit, number of
attempts and provider answers (`ParametersAssumption`); any set of paid tiers
without "free" (`TiersAssumption`) with any users, requests, handlers and changes; any
agents, assets, attempts and faults (`StageAssumption`); any finite number of browsers
(`BrowsersAssumption`) with any number of requests; any finite sets of workers and clients of the
studio with any budget (`LimitsAssumption`); any spellings of any emails (`NormalAssumption`);
any threads and outages of the storage (`ThreadsAssumption`) and any cooldown and number of
attempts of the provider; any finite number of requests of the shell (`MixesAssumption`) on any
number of keys, sites and versions and with any ends of the process (`BoundsAssumption` of
`Requests`), any texts and letters but the marks for none (`RowsAssumption`, `LettersAssumption`) and
any knowledge of a brand (`KnowledgeAssumption`); images of any size, any areas and distances (`ImageAssumption`). TLC evaluates
every one of these assumptions for the instances of section 3. No theorem has a hypothesis of its own
on how many actors there are or what they do; what the code breaks is excepted in the property,
run by run or version by version (`crossed`, `died`, `lost`), or by what has happened (`NoDeaths`,
`overlapped`, the preconditions of the others).

`PipelineProofs!TypeCorrect`. `TypeOK` is not inductive: that `cur` is a stage when a
stage is started, and that a draft in hand is a version its run made, is `TaskOK`.
`Typed == TypeOK /\ TaskInv` is the invariant the other proofs build on.

`PipelineProofs!GatesAreApproved`, `GatesHold`. A gate stage is completed only by the
approval of the version it has put out, and nothing behind a gate is started or even
taken in hand without. The invariant `GateInv` adds: an approved version has its row in
`approvals`; an approval is of a version that exists; the output of a stage is a
version its own run made; a retry clears only outputs of stages it resets. The last one
is what a retry of a gate needs: otherwise a completed stage could lose the output whose
approval completed it. The steps are grouped by what they
do to each table (`StepArtifacts`, `StepStages`, `StepOut`, `StepTasks`), and the two
theorems only use those four lemmas.

`PipelineProofs!ActiveRunsAreServed`, `RunningStagesAreExecuted`. Of a run of which no task has
died, an active one has a task and a running stage is being executed. "Some task has this run"
is not inductive, because that task may be about to end without a write; `Serving`
strengthens it to a task that has yet to read the status, or has read it as active and
will therefore overwrite it (the `Flush` rule again).

*Until work meets other work.* The next six theorems are about each run for as long as it is not
in `crossed`. They suppose nothing about the rest: any number of tasks, clients and runs are at
work, runs of the same project add versions to the same types, other runs are crossed, tasks of
this run and of others die, and pauses, resumes, fresh retries, approvals, rejections, edits and
command-line workers come in any order. What a run loses when it is crossed is in section 5: two
tasks take each other's running stage for an error, a cancel skips what was finished. The
invariants are therefore quantified over runs (`LoopOK`, `NewestOK`, `TellsOK`), and half of their
proofs is that what happens to one run leaves another alone (`HandsStay`, `RowsKept`,
`OwnStays`) and that a request which could disturb a run puts it in `crossed` by the same step
(`RequestMoves`).

`PipelineProofs!LimitIsNeverReached`, `FinishedForGood`. `LoopInv` is what the one task of a run
that is not crossed knows while it works (`OneServes`, `InHandOK`): its run is running or has been paused since
(`StatusInHand`: a settled run is woken only after its task has gone); its batch is still pending and what
the batch depends on still completed (`StagesInHand`); its iterations are at most the stages that are
finished, and one more while it executes (`LimitIsFar`). A retry resets only what is failed by the time
it commits, or else the run is crossed (`IsFresh`). A task that dies is no harm to these: the run is
served by nobody, and the next one finds rows in order.

`PipelineProofs!OutputsAreNewest`, `StartsAfterDependencies`. `NewestInv`: of the versions of a type
that a run has made (`MadeBy`), the newest is the output of its finished stage, or the draft in the
hands of its task, so that what a failed or killed execution left behind is always older. With `GateInv`,
what `load_input_artifacts` finds is finished, approved, or the work of another run, which the
code does not tell from its own.

`PipelineProofs!StatusIsTrue`. `TellsInv`, of runs that are not crossed and of which no task has died: a task that has
seeded its run leaves no row out, works on nothing after a failure (fail-fast), and concludes with a
status that the rows tell (`Tells`); and a run that nobody works on has such a status, so that a
retry of one that failed is not refused. The verdict "needs_review" is right because of the graph: if
nothing has failed, runs or can start, and not all is completed, the first of the waiting stages would
depend on completed ones only, unless a gate is under review (`VerdictTells`). A death is excepted as the
code is silent about it: the stage stays running, and the next task reports a failure that no stage
has.

`PipelineProofs!RunsFollowLifecycle`. The refinement of `RunLifecycle`, one lemma per kind of
commit (`BeginFollows`, `StartFollows`, `EndFollows`, `ReportFollows`, `RequestFollows`), and one
that a step on a loose run leaves the others alone (`LooseFollows`). The guard of
an abstract step is what the code has checked when it read, and does not check when it commits;
`LoopInv` and `TellsInv` are what is left of it by then.

`RequestsProofs!LimitIsKept`. A window holds at most `MaxSends` slots although
slots are reserved out of order. The deque holds the last `MaxSends` slots
(`SlotsAreLatest`), hence a slot lies a window after the one `MaxSends` places before it,
and by induction along the run after *every* slot whose place is congruent modulo
`MaxSends` (`Spaced`). A window then holds at most one slot of each class, and the map
from slots to classes is injective. `RetriesAreHonoured` needs that the cooldown covers
every answer ever given (`CooldownCovers`); `ScheduleBounded` follows the schedule along
the classes; `AlertsTyped` shows that no delay is negative, because a sender's clock is
never ahead of the real one.

`BillingProofs!EventsReach`, `TiersAreBought`. `CustomerInv` says that every customer that
occurs anywhere, in a row, a request, a checkout or a subscription, was created for the user
it occurs with, and that who has a checkout or a subscription has a customer; it holds
because rows only ever take a customer from a request of their own user. An event is looked
up by a customer that has one owner, or by metadata that name the same user. `EventInv`
carries that to the handlers. `TierWasBought` is then inductive, because subscriptions are
only added and what was ever bought on one (`plans`) only grows (`StepGrows`), and because
`Flush` leaves the row's own value, clears it, or writes one that its event names.

`BillingProofs!PayersHaveTiers`. The argument is over the order in which handlers read and
commit: a handler that read a tier which another has taken away since would write nothing
(the `Flush` rule), and leave a user who pays without one. `PaidInv` says that this cannot be
as long as none of the user's subscriptions has ended: only events about an ended
subscription take a tier away, so what a handler has read of such a user (`Paying`) is still
true, and once the event of a paid checkout was handled the row has a tier.

`SessionsProofs!TokensAreUsedOnce`. `TokenInv` says of every request in flight what its next
statement relies on (`Sound`): the rows it has locked are those it looked up, with the tokens
they had; nobody else has locked them (`LocksExclude`); the numbers it holds were issued; a
code in hand is spent by the same transaction that issues a token. From it follow `OneHeir`, as
a token is exchanged under the lock of its row, and `RevokedIsGone`. A step is judged by whether
it leaves alone what the others rely on (`Respects`, `OthersSound`).

`SessionsProofs!BrowsersStaySignedIn`. `JarInv`: of a browser that nothing should have signed
out, the cookie in the jar is valid or its valid successor is in an answer on its way, and every
other cookie on its way is valid, too. The loser of a race for one token must therefore not
clear the cookie. `CookiesAreNew` (a token is in one answer only) and `OwnersDiffer` keep
browsers apart.

`CreativeAssetsProofs!FinishedSpecsAreDesigned`. However sessions overlap, no version shows an
imagined spec as finished without a design, but where its user has blanked one: status and JSX of a
spec change in one write, so that a lost update loses both, and blanks only count as such over JSX that
was there. `StudioInv` says so of the payloads and of every copy that a worker or a request holds.

`CreativeAssetsProofs!TilesTellTheTruth`, `NothingIsRevived`, `TextIsKept`. Sessions overlap here too. Of a version that
is not in `lost`, a session that commits has read what is stored, or changes nothing: a commit on
anything else puts the version in `lost` by the same step. Whoever has read a pending spec, and will settle
it, is therefore still there (`Tends`); a worker writes a spec that it has found (`WorkerOK`), so that it
revives none; and what it writes has the text it has read (`KeepsText`), which is the user's. The
minutes of a language model between two windows are harmless, for any number of workers,
clients, versions and requests, and what windows that overlap can do is confined to the version they
meet in.

`WaitlistProofs!OneNewcomerEach`, `FormsAddTheirOwn`. The second is an action property: a form
changes the columns it says something about, and only to that, although it commits the row as
it read it. `FormsInv` has for every request what it knows of the table (`RequestOK`), that each
newcomer is mailed once (`Mailed`, `OneNoticeEach`), and that requests which inserted a row
did so for different people (`NewcomersDiffer`), from the unique constraint.

`LogoProofs!LogosAreWhole`. `LockInv` has `LockIsLeft`: if the lock is locked, an upload that will
release it is on its way to do so, however many are inside; and as long as no two uploads were
under way at once, the one there is finds the lock as the last has left it (`Alone`). The lock
excludes nobody: two threads may sign in at once, and nothing here rests on their not doing so. `Sound` bounds
the calls of a job by its attempts, and has both variants of a logo stored before it is one.

`LogoProofs!FloodReachesConnected`. `FloodInv` says that a marked cell is in the frontier or
all of its open neighbours are marked (`TakenUp`), and that marked cells lie in every closed
set. When the frontier is empty, the marked cells are themselves closed, hence the least
closed set: the cells connected with the border.

`LogoProofs!LogoFloods`, `LogoReachesConnected`. The loop over the queue
implements the flood. `LogoInv` says that the queue lists pixels of the mask without
repetition and that `removed` counts those that have left it. The work is in `InOrder`, which
lists a finite set row after row: that the rank of a pixel is a bijection (`RankIsInjective`)
is shown with cardinalities. `TryNext` is a
restart, because thresholds grow (`ThresholdsGrow`). The theorem of `Flood` then holds for the
mask of every image. `LogoIsNeverErased`: what is erased is never everything, as the
count that `Fits` accepts is that of the mask.

`LogoProofs!LogoErasesFirstFit`. The reference `Connected` widens the edges as often as there are
pixels, by a recursive function. The lemma `Induction` replaces the library's induction
theorems, which take an operator as a parameter: a set that has 0 and with each number the next
contains all, since otherwise there is a least counterexample (`WFMin`). With it: the function
exists (`WideExists`), stays within every closed set, and grows by a pixel at each step until it
is closed (`ConnectedIsLeast`); so it is what the flood has reached when the queue is empty
(`MaskIsConnected`). `ErasedInv` says which thresholds were tried in vain.

`StageAgentsProofs!StageLeavesOneWhole`, `StageShowsMore`. `HolderInv` relates the object of
`on_progress` to the rows (it is the one row, or there is none and it is new, or its row was rolled
back), `ShownInv` says that the row contains no more than what is in memory, `AgentInv` that
an agent that waits for designs has some to wait for. Of these follows that a stage leaves
at most one version, all of it if it ends well, for any designers in any order and any faults.

`RequestsProofs!RequestsAreHandled`, `DeadRowsStayDead`, `AnswersHold`. `RequestsInv` has a
conjunct for each part. What a handler holds was read before other handlers wrote, so its share
says for each step what is left of that. A key that was read as dead is dead, and a page that was
read as down is down, because neither revives (`KeyCallOK`, `SiteCallOK`): a commit writes the
columns it has changed and no others, and only `publish`, which raises, would bring a page up. The
count of a key is at most its uses because a stamp writes what it has read and one
more, of which the use is the caller's own. `DeadRowsStayDead` is proved of steps and is used for
the invariant in turn. Of a form, and of the ids of the campaign, the invariant says that they are
what was read or that another request, which is named and overlaps, has changed them since
(`ProjectSeen`, `Excused`); the set `ended` of a request is what it has certainly seen.
`OthersKeep` and `CallsStay` let the shell rely on what a call has answered, as nothing moves a call
that has ended; `ShellMoves`, `ShellAnswers` and `ShellStops` are the three ways in
which a request goes on. `PartsKept` says what a step leaves of the parts' shares.

`RequestsProofs!TeamIsTold`. `ShellOK` and the last conjuncts of `ShellInv`: an alert is attached to
the answers of 500 and above (`AlertsAreForFailures`, over every status an exception has), and a
request with one passes "alerting" before its end, unless the process stops.

`RequestsProofs!LettersAreDistinct`, `PromptsAreHonest`. Who stores a version with the letter that a
request has chosen came after its choice (`PosterCallOK`), since the choice is the first letter
that none of the listed versions has. A prompt is compared with the sources of a field one position
at a time: the first source that is known is what `Coalesce` takes (`Min` of an index set, with the
well-foundedness of the numbers).

Only model-checked: liveness (`ActiveRunSettles`, `TaskEnds`, `LoneJobsEnd`), which is beyond the
prover. All the other properties of the runs are stated by a theorem.

## 7. Not modelled

* *Text*: prompts, the cleaning of answers, mails and their redaction, HTML, ZIP files, logs,
  schemas and configuration have no state that interleaves. What an agent or a provider
  answers is a choice.
* *Code without a caller*: `brand_os/tools.py`, `creative/tools.py`, `render_brand_image`,
  `require_tier`, `get_project_limit`, `ensure_default_workspace`, the onboarding, archive and
  restore functions of `packs/services.py`, and `scripts/run_onboarding_flow.py`, which
  imports a module that does not exist.
* *Code that is never reached*: `add_source_document`, as the upload before it raises; slugs,
  publication and generation of sites, for the same reason.
* *Reads*: the status and tiers of billing, listings of artifacts and runs, `me`.
* *Storage*: download, deletion, and the probe of the CDN, which chooses between two addresses
  of one file.
* *Stage rows that two tasks seed at once* (`orchestrator.py:41`): seeding is one atomic step.
* *PATCH of a whole campaign* by the client while workers write (`CreativeAssets`); in `Projects`
  it is an operation on the campaign and its ids.
* *Rate limits* (`core/rate_limit.py`) are a library's; a request that exceeds one is an answer of 429
  of `AnswerOther`.
* *Migrations, repair scripts, vendored code*: run by hand, or not this program.

## 8. Plan

What is left, most important first:

1. Seeding by two tasks at once, as a step of its own in `Pipeline`.
2. Cancels in `RunLifecycle`: which of them are final. The code lets a cancel that commits late
   be overwritten, so that the promise needs a case for each order of section 5.
3. What is left of `StatusIsTrue` and of the refinement when a task dies: stages of a dead task
   stay running until a later task takes them for an error.
