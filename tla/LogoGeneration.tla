--------------------------- MODULE LogoGeneration ---------------------------
(***************************************************************************)
(* Logos (app/modules/packs/logo_generation.py).  Every thread makes one   *)
(* logo: it asks an image model, with a fallback for the output modalities *)
(* and one retry with a simpler prompt, decodes or downloads the image,    *)
(* and uploads it and a variant with a transparent background through      *)
(* Storage.  A refusal for authentication or quota keeps all threads of    *)
(* the process away from the provider for a while.                         *)
(***************************************************************************)
EXTENDS Storage, FiniteSetsExt

CONSTANTS
  Cooldown,       \* PROVIDER_COOLDOWN_SECONDS, in ticks of the clock
  MaxClock,       \* bound: ticks of the clock
  Attempts,       \* output modalities tried in turn (two for every model)
  Strict          \* the threads whose caller passes strict=True

ASSUME CooldownAssumption == Cooldown \in Nat \ {0} /\ MaxClock \in Nat
ASSUME AttemptsAssumption == Attempts \in Nat \ {0} /\ Strict \subseteq Threads

VARIABLES
  clock,
  until,          \* _PROVIDER_FAILURE_STATE["until"]; 0: no cooldown
  job             \* the logo of each thread

logoVars == <<clock, until, job>>
jobsVars == <<storageVars, logoVars>>

\* What a part of a response may hold: an image (a data URL, base64 data or the
\* address of one), or none.
Parts == {"image", "text"}
Responses == {<<>>, <<"text">>, <<"text", "image">>}

\* `simple` once the simplified prompt is used; image: what was found in the
\* response, or "text"; calls: history, while the job runs.
Job ==
  [at : {"idle", "check", "call", "extract", "decode", "upload", "uploading",
         "transparent", "done"},
   attempt : 1..Attempts, simple : BOOLEAN, image : Parts,
   variant : {"default", "transparent"},
   stored : SUBSET {"default", "transparent"},
   result : {"none", "logo", "empty", "bad_request", "error"}, calls : Nat]

NewJob ==
  [at |-> "idle", attempt |-> 1, simple |-> FALSE, image |-> "text",
   variant |-> "default", stored |-> {}, result |-> "none", calls |-> 0]

JobsInit ==
  /\ StorageInit
  /\ clock = 1 /\ until = 0
  /\ job = [t \in Threads |-> NewJob]

JobAt(t, step) == job[t].at = step
SetJob(t, new) == job' = [job EXCEPT ![t] = new]

\* generate_logo: a BadRequestError is raised when `strict`, an empty result
\* otherwise; every other exception leaves it as it is.
Ended(t, result) ==
  [NewJob EXCEPT !.at = "done", !.stored = job[t].stored,
     !.result = IF result = "bad_request" /\ t \notin Strict THEN "empty" ELSE result]

-----------------------------------------------------------------------------
(* The provider. *)

Start(t) ==
  /\ JobAt(t, "idle")
  /\ SetJob(t, [job[t] EXCEPT !.at = "check"])
  /\ UNCHANGED <<storageVars, clock, until>>

Cooling == until > clock

\* _get_provider_cooldown_reason: a cooldown that is over is cleared.
CheckCooldown(t) ==
  /\ JobAt(t, "check")
  /\ IF Cooling
       THEN SetJob(t, Ended(t, "bad_request")) /\ UNCHANGED until
       ELSE SetJob(t, [job[t] EXCEPT !.at = "call"]) /\ until' = 0
  /\ UNCHANGED <<storageVars, clock>>

Called(t) == [job[t] EXCEPT !.calls = @ + 1]

\* The first part with an image is taken.
FirstImage(response) ==
  LET images == {i \in DOMAIN response : response[i] # "text"}
  IN  IF images = {} THEN "text" ELSE response[Min(images)]

ProviderAnswers(t, response) ==
  /\ JobAt(t, "call")
  /\ SetJob(t, [Called(t) EXCEPT !.at = "extract", !.image = FirstImage(response)])
  /\ UNCHANGED <<storageVars, clock, until>>

\* The model does not support the modalities: the next ones are tried, if any.
ModalitiesRefused(t) ==
  /\ JobAt(t, "call")
  /\ SetJob(t, IF job[t].attempt < Attempts
                 THEN [Called(t) EXCEPT !.attempt = @ + 1]
                 ELSE Ended(t, "bad_request"))
  /\ UNCHANGED <<storageVars, clock, until>>

\* Authentication or quota: all threads are kept away for a while.
\* _set_provider_cooldown reads the clock under its lock.
QuotaRefused(t) ==
  /\ JobAt(t, "call")
  /\ until' = clock + Cooldown
  /\ SetJob(t, Ended(t, "bad_request"))
  /\ UNCHANGED <<storageVars, clock>>

\* Any other failure of the call.
ProviderFails(t) ==
  /\ JobAt(t, "call")
  /\ SetJob(t, Ended(t, "bad_request"))
  /\ UNCHANGED <<storageVars, clock, until>>

\* With an image the calls are over.  Without: once more with the simplified prompt,
\* without another look at the cooldown, and from the first modalities.
Extract(t) ==
  /\ JobAt(t, "extract")
  /\ SetJob(t, CASE job[t].image # "text" -> [NewJob EXCEPT !.at = "decode"]
                 [] job[t].image = "text" /\ ~job[t].simple ->
                      [job[t] EXCEPT !.at = "call", !.simple = TRUE, !.attempt = 1]
                 [] OTHER -> Ended(t, "bad_request"))
  /\ UNCHANGED <<storageVars, clock, until>>

\* The bytes are decoded or downloaded; what they are is not looked at.
Decode(t) ==
  /\ JobAt(t, "decode")
  /\ SetJob(t, [job[t] EXCEPT !.at = "upload"])
  /\ UNCHANGED <<storageVars, clock, until>>

DecodeFails(t) ==
  /\ JobAt(t, "decode")
  /\ SetJob(t, Ended(t, "bad_request"))
  /\ UNCHANGED <<storageVars, clock, until>>

-----------------------------------------------------------------------------
(* The two uploads. *)

BeginUpload(t) ==
  /\ JobAt(t, "upload")
  /\ StartUpload(t)
  /\ SetJob(t, [job[t] EXCEPT !.at = "uploading"])
  /\ UNCHANGED <<clock, until>>

\* Mutant of AfterUpload: a failed upload is not looked at.
AfterUploadUnchecked(t) ==
  LET stored == IF up[t] = "stored" THEN job[t].stored \cup {job[t].variant} ELSE job[t].stored
  IN  IF job[t].variant = "default"
        THEN [job[t] EXCEPT !.at = "transparent", !.stored = stored]
        ELSE [Ended(t, "logo") EXCEPT !.stored = stored]

\* _upload_logo_variant: a falsy key is a BadRequestError.
AfterUpload(t) ==
  LET stored == [job[t] EXCEPT !.stored = @ \cup {job[t].variant}]
  IN  CASE up[t] = "raised" -> Ended(t, "error")
        [] up[t] = "failed" -> Ended(t, "bad_request")
        [] up[t] = "stored" /\ job[t].variant = "default" ->
             [stored EXCEPT !.at = "transparent"]
        [] OTHER -> [Ended(t, "logo") EXCEPT !.stored = stored.stored]

FinishUpload(t) ==
  /\ JobAt(t, "uploading")
  /\ EndUpload(t)
  /\ SetJob(t, AfterUpload(t))
  /\ UNCHANGED <<clock, until>>

\* _create_transparent_png_variant: an image that PIL cannot read raises its
\* own exception, after the first upload.
MakeTransparent(t, readable) ==
  /\ JobAt(t, "transparent")
  /\ SetJob(t, IF readable
                 THEN [job[t] EXCEPT !.at = "upload", !.variant = "transparent"]
                 ELSE Ended(t, "error"))
  /\ UNCHANGED <<storageVars, clock, until>>

-----------------------------------------------------------------------------

\* Everything a thread does once it has started, the provider's answers included.
Step(t) ==
  \/ CheckCooldown(t)
  \/ \E response \in Responses : ProviderAnswers(t, response)
  \/ ModalitiesRefused(t) \/ QuotaRefused(t) \/ ProviderFails(t)
  \/ Extract(t) \/ DecodeFails(t) \/ Decode(t)
  \/ BeginUpload(t) \/ FinishUpload(t) \/ \E readable \in BOOLEAN : MakeTransparent(t, readable)
  \/ UploadStep(t) /\ UNCHANGED logoVars

Tick ==
  /\ clock < MaxClock
  /\ clock' = clock + 1
  /\ UNCHANGED <<storageVars, until, job>>

JobsNext ==
  \/ \E t \in Threads : Start(t) \/ Step(t)
  \/ StorageEnvironment /\ UNCHANGED logoVars
  \/ Tick

\* Threads are scheduled, and the provider and the storage answer or time out.
JobsSpec == JobsInit /\ [][JobsNext]_jobsVars /\ \A t \in Threads : WF_jobsVars(Step(t))

-----------------------------------------------------------------------------
(* Properties *)

JobsTypeOK ==
  /\ StorageTypeOK
  /\ clock \in Nat /\ until \in Nat
  /\ job \in [Threads -> Job]

\* Fallback and retry together ask the provider at most twice per modality.
CallsAreBounded ==
  \A t \in Threads : JobAt(t, "call") => job[t].calls < 2 * Attempts

\* A logo has both of its variants in the storage, whatever the other threads,
\* the token and the server did in between.
LogoIsWhole ==
  \A t \in Threads : job[t].result = "logo" => job[t].stored = {"default", "transparent"}

\* What a caller may rely on: no loop of calls runs away, a logo is whole, nobody leaves
\* the lock locked, and uploads that do not overlap neither wait nor raise.
JobsAreRight ==
  JobsTypeOK /\ CallsAreBounded /\ LogoIsWhole /\ LockIsLeft /\ LoneUploadsAreFine

\* As long as uploads do not overlap, every logo comes to an end.
LoneJobsEnd ==
  []~Overlap => \A t \in Threads : JobAt(t, "check") ~> JobAt(t, "done")

=============================================================================
