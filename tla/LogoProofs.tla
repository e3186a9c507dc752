----------------------------- MODULE LogoProofs -----------------------------
(***************************************************************************)
(* Proofs about logos.  First how they are drawn and stored                *)
(* (LogoGeneration with Storage), for any number of threads, attempts and  *)
(* outages.  Then their transparent variant (TransparentLogo), for images  *)
(* of any size: the loop over a queue implements Flood, and what is erased *)
(* is what a flood reaches.                                                *)
(***************************************************************************)
EXTENDS
  LogoGeneration, TransparentLogo, FiniteSetTheorems, NaturalsInduction, WellFoundedInduction, TLAPS

-----------------------------------------------------------------------------
(* How logos are drawn and stored *)

\* The assumptions of Storage and of LogoGeneration.
LEMMA Limits ==
  /\ Nobody \notin Threads /\ MaxOutages \in Nat
  /\ Cooldown \in Nat \ {0} /\ MaxClock \in Nat
  /\ Attempts \in Nat \ {0} /\ Strict \subseteq Threads
BY ThreadsAssumption, CooldownAssumption, AttemptsAssumption

Inside == {"check", "signin", "leave", "clear"}
Waiting == {"enter", "append", "wait", "asleep", "raised"}

\* As long as no two uploads were under way at once, the one upload there may be finds the
\* lock as the last one has left it.
Alone ==
  /\ \A t, v \in Threads : ~UploadAt(t, "idle") /\ ~UploadAt(v, "idle") => t = v
  /\ waiter = Nobody
  /\ \A t \in Threads : up[t] \notin Waiting /\ (up[t] \in Inside => locked)

LockInv == LockIsLeft /\ (~overlapped => Alone)

\* The calls of a job that were made before those with its present modalities.
CallsBefore(j) == j.attempt - 1 + (IF j.simple THEN Attempts ELSE 0)

\* What is known of a job j at each of its steps.
Sound(j) ==
  /\ j.at \in {"idle", "check"} => j.calls = 0
  /\ j.at = "call" => j.calls <= CallsBefore(j)
  /\ j.at = "extract" => j.calls <= CallsBefore(j) + 1
  /\ j.variant = "transparent" => "default" \in j.stored
  /\ j.at = "transparent" => "default" \in j.stored
  /\ j.result = "logo" => j.at = "done" /\ j.stored = {"default", "transparent"}

JobsInv ==
  /\ JobsTypeOK /\ LockInv
  /\ \A t \in Threads : Sound(job[t])

LEMMA UploadTyped ==
  ASSUME StorageTypeOK, NEW t \in Threads, UploadStep(t) \/ StartUpload(t) \/ EndUpload(t)
  PROVE  StorageTypeOK'
<1> USE DEF StorageTypeOK, UploadAt, Moves, lockVars, UploadState
<1>1. CASE StartUpload(t) \/ EndUpload(t) \/ Take(t) \/ Bind(t) \/ AppendWaiter(t) \/ Wake(t)
  BY <1>1 DEF StartUpload, EndUpload, Take, Bind, AppendWaiter, Wake
<1>2. CASE UseCachedToken(t) \/ SignInSucceeds(t) \/ Clear(t) \/ Hand(t)
  BY <1>2 DEF UseCachedToken, SignInSucceeds, Clear, Hand
<1>3. ASSUME NEW from \in UploadState, NEW to \in UploadState, Goes(t, from, to)
      PROVE  StorageTypeOK'
  BY <1>3 DEF Goes
<1>4. CASE TestLocked(t) \/ TestWaiters(t) \/ BindRaises(t) \/ Sleep(t) \/ BeginSignIn(t)
             \/ SignInFails(t) \/ Leave(t) \/ Post(t)
  BY <1>3, <1>4 DEF TestLocked, TestWaiters, BindRaises, Sleep, BeginSignIn, SignInFails,
     Leave, Post
<1> QED
  BY <1>1, <1>2, <1>4 DEF UploadStep

\* Who leaves the lock has seen it locked and clears it, or has seen it free.
LEMMA LeftKeeps ==
  ASSUME StorageTypeOK, LockIsLeft, NEW t \in Threads,
         UploadStep(t) \/ StartUpload(t) \/ EndUpload(t)
  PROVE  LockIsLeft'
<1> DEFINE inside(s) == s \in Inside
<1>1. ASSUME NEW to \in UploadState, Moves(t, to), locked' = locked,
             ~locked \/ ~inside(up[t]) \/ inside(to)
      PROVE  LockIsLeft'
  BY <1>1 DEF StorageTypeOK, LockIsLeft, Moves, Inside
<1> HIDE DEF inside
<1> USE DEF UploadAt, lockVars
<1>2. \A s \in {"idle", "token", "queue", "enter", "append", "wait", "hand", "post"} : ~inside(s)
  BY DEF inside, Inside
<1>3. inside("check") /\ inside("signin") /\ inside("leave") /\ inside("clear")
  BY DEF inside, Inside
<1>4. UploadState = {"idle", "token", "queue", "take", "enter", "append", "wait", "asleep",
        "check", "signin", "leave", "clear", "hand", "post", "stored", "failed", "raised"}
  BY DEF UploadState
<1>5. CASE StartUpload(t) \/ Bind(t) \/ AppendWaiter(t) \/ Wake(t) \/ UseCachedToken(t)
             \/ SignInSucceeds(t) \/ Hand(t)
  BY <1>1, <1>2, <1>3, <1>4, <1>5 DEF StartUpload, Bind, AppendWaiter, Wake, UseCachedToken,
     SignInSucceeds, Hand
<1>6. CASE EndUpload(t)
  <2>1. ~inside(up[t]) /\ Moves(t, "idle") /\ locked' = locked
    BY <1>6 DEF EndUpload, inside, Inside
  <2> QED
    BY <1>1, <1>4, <2>1
<1>7. CASE Take(t)
  BY <1>7 DEF Take, StorageTypeOK, LockIsLeft, Moves
<1>8. CASE Clear(t)
  BY <1>8 DEF Clear, LockIsLeft
<1>9. CASE TestLocked(t) \/ TestWaiters(t) \/ BindRaises(t) \/ Sleep(t) \/ Post(t)
  BY <1>1, <1>2, <1>4, <1>9 DEF Goes, TestLocked, TestWaiters, BindRaises, Sleep, Post
<1>10. CASE BeginSignIn(t) \/ SignInFails(t) \/ Leave(t)
  BY <1>1, <1>3, <1>4, <1>10 DEF Goes, BeginSignIn, SignInFails, Leave
<1> QED
  BY <1>5, <1>6, <1>7, <1>8, <1>9, <1>10 DEF UploadStep

\* An upload that is alone never finds the lock or the queue occupied.
LEMMA AloneKeeps ==
  ASSUME StorageTypeOK, LockIsLeft, Alone, ~overlapped', NEW t \in Threads,
         UploadStep(t) \/ StartUpload(t) \/ EndUpload(t)
  PROVE  Alone'
<1>0. Nobody \notin Threads /\ up \in [Threads -> UploadState]
  BY Limits DEF StorageTypeOK
<1>1. ASSUME ~UploadAt(t, "idle"), NEW to \in UploadState, Moves(t, to), waiter' = waiter,
             to \notin Waiting, to \in Inside => locked', locked' = locked \/ to \in {"check", "hand"}
      PROVE  Alone'
  <2>1. \A v \in Threads \ {t} : up[v] = "idle" /\ up'[v] = "idle"
    BY <1>0, <1>1 DEF Alone, UploadAt, Moves
  <2>2. up'[t] = to
    BY <1>0, <1>1 DEF Moves
  <2>3. "idle" \notin Waiting /\ "idle" \notin Inside
    BY DEF Waiting, Inside
  <2> QED
    BY <1>1, <2>1, <2>2, <2>3 DEF Alone, UploadAt
<1>2. CASE StartUpload(t)
  <2>0. \A v \in Threads : up[v] = "idle"
    BY <1>2 DEF StartUpload, UploadAt
  <2>1. /\ \A v \in Threads : up'[v] = IF v = t THEN "token" ELSE "idle"
        /\ waiter' = waiter
    BY <1>0, <1>2, <2>0 DEF StartUpload, Moves, lockVars
  <2>2. \A v \in Threads : up'[v] \notin Waiting /\ up'[v] \notin Inside
    BY <2>1 DEF Waiting, Inside
  <2> QED
    BY <2>0, <2>1, <2>2 DEF Alone, UploadAt
<1>3. CASE EndUpload(t)
  BY <1>1, <1>3 DEF EndUpload, UploadAt, lockVars, UploadState, Waiting, Inside
<1>4. ASSUME UploadStep(t)
      PROVE  /\ up[t] \notin Waiting /\ waiter = Nobody
             /\ up[t] \in Inside <=> locked
  <2>1. ~UploadAt(t, "idle")
    BY <1>4 DEF UploadStep, Goes, UploadAt, TestLocked, TestWaiters, Take, Bind, BindRaises,
       AppendWaiter, Sleep, Wake, UseCachedToken, BeginSignIn, SignInSucceeds, SignInFails,
       Leave, Clear, Hand, Post
  <2>2. ASSUME locked
        PROVE  up[t] \in Inside
    <3>1. PICK v \in Threads : up[v] \in Inside
      BY <2>2 DEF LockIsLeft, Inside
    <3>2. ~UploadAt(v, "idle")
      BY <3>1 DEF UploadAt, Inside
    <3> QED
      BY <2>1, <3>1, <3>2 DEF Alone
  <2> QED
    BY <2>2 DEF Alone
<1>5. CASE Bind(t) \/ BindRaises(t) \/ AppendWaiter(t) \/ Sleep(t) \/ Wake(t)
  BY <1>4, <1>5 DEF UploadStep, Bind, BindRaises, AppendWaiter, Sleep, Wake, Goes, UploadAt,
     Waiting
<1> USE DEF UploadAt, lockVars, UploadState, Waiting, Inside
<1>6. CASE TestLocked(t) \/ TestWaiters(t) \/ Leave(t)
  <2>1. \E to \in {"queue", "take", "clear"} :
          /\ Moves(t, to) /\ waiter' = waiter /\ locked' = locked /\ up[t] # "idle"
          /\ to = "clear" => locked
    BY <1>4, <1>6 DEF UploadStep, TestLocked, TestWaiters, Leave, Goes
  <2> QED
    BY <1>1, <2>1
<1>7. CASE Take(t) \/ Clear(t)
  BY <1>1, <1>7 DEF Take, Clear
<1>8. CASE UseCachedToken(t) \/ BeginSignIn(t) \/ SignInSucceeds(t) \/ SignInFails(t)
  <2>1. \E to \in {"signin", "leave"} :
          /\ Moves(t, to) /\ waiter' = waiter /\ locked' = locked /\ up[t] # "idle" /\ locked
    BY <1>4, <1>8 DEF UploadStep, UseCachedToken, BeginSignIn, SignInSucceeds, SignInFails, Goes
  <2> QED
    BY <1>1, <2>1
<1>9. CASE Hand(t) \/ Post(t)
  <2>1. \E to \in {"post", "stored", "failed"} :
          Moves(t, to) /\ waiter' = waiter /\ locked' = locked /\ up[t] # "idle"
    BY <1>9 DEF Hand, Post, Goes
  <2> QED
    BY <1>1, <2>1
<1> QED
  BY <1>2, <1>3, <1>5, <1>6, <1>7, <1>8, <1>9 DEF UploadStep

LEMMA UploadKeeps ==
  ASSUME StorageTypeOK, LockInv, NEW t \in Threads,
         UploadStep(t) \/ StartUpload(t) \/ EndUpload(t)
  PROVE  StorageTypeOK' /\ LockInv'
<1>1. overlapped \in BOOLEAN /\ (overlapped => overlapped')
  BY DEF StorageTypeOK, UploadStep, StartUpload, EndUpload, Goes, lockVars, TestLocked,
     TestWaiters, Take, Bind, BindRaises, AppendWaiter, Sleep, Wake, UseCachedToken,
     BeginSignIn, SignInSucceeds, SignInFails, Leave, Clear, Hand, Post
<1> QED
  BY <1>1, UploadTyped, LeftKeeps, AloneKeeps DEF LockInv

LEMMA EnvironmentKeeps ==
  ASSUME StorageTypeOK, LockInv, StorageEnvironment
  PROVE  StorageTypeOK' /\ LockInv'
<1>1. UNCHANGED <<lockVars, up, overlapped>>
  BY DEF StorageEnvironment, TokenExpires, TokenRefused
<1>2. StorageTypeOK'
  BY <1>1, Limits DEF StorageTypeOK, StorageEnvironment, TokenExpires, TokenRefused, lockVars
<1> QED
  BY <1>1, <1>2 DEF LockInv, LockIsLeft, Alone, UploadAt, lockVars

-----------------------------------------------------------------------------
(* The steps of a job *)

LEMMA SetKeeps ==
  ASSUME job \in [Threads -> Job], \A s \in Threads : Sound(job[s]),
         NEW t \in Threads, NEW new \in Job, Sound(new), SetJob(t, new)
  PROVE  job' \in [Threads -> Job] /\ \A s \in Threads : Sound(job'[s])
BY DEF SetJob

LEMMA NewJobTyped ==
  /\ NewJob \in Job /\ NewJob.at = "idle" /\ NewJob.calls = 0
  /\ NewJob.result = "none" /\ NewJob.variant = "default" /\ NewJob.stored = {}
<1>1. 1 \in 1..Attempts
  BY Limits
<1> QED
  BY <1>1 DEF NewJob, Job, Parts

LEMMA EndedSound ==
  ASSUME NEW t \in Threads, job[t] \in Job, NEW result \in {"bad_request", "error"}
  PROVE  Ended(t, result) \in Job /\ Sound(Ended(t, result))
<1> DEFINE says == IF result = "bad_request" /\ t \notin Strict THEN "empty" ELSE result
<1> DEFINE new == [NewJob EXCEPT !.at = "done", !.stored = job[t].stored, !.result = says]
<1>1. says \in {"bad_request", "empty", "error"}
  OBVIOUS
<1>2. Ended(t, result) = new
  BY DEF Ended
<1> HIDE DEF says
<1>3. /\ new \in Job /\ new.at = "done" /\ new.result = says /\ new.variant = "default"
  BY <1>1, NewJobTyped DEF Job
<1> HIDE DEF new
<1>4. Sound(new)
  BY <1>1, <1>3 DEF Sound
<1> QED
  BY <1>2, <1>3, <1>4

LEMMA ImageFound ==
  ASSUME NEW response \in Responses
  PROVE  FirstImage(response) \in Parts
<1>1. response = <<>> \/ response = <<"text">> \/ response = <<"text", "image">>
  BY DEF Responses
<1>2. CASE response = <<>> \/ response = <<"text">>
  BY <1>2 DEF FirstImage, Parts
<1>3. CASE response = <<"text", "image">>
  <2>1. {i \in DOMAIN response : response[i] # "text"} = {2}
    BY <1>3
  <2>2. Min({2}) = 2
    BY DEF Min
  <2> QED
    BY <1>3, <2>1, <2>2 DEF FirstImage, Parts
<1> QED
  BY <1>1, <1>2, <1>3

\* What a thread does before its uploads.
LEMMA CallSound ==
  ASSUME JobsInv, NEW t \in Threads,
         \/ Start(t) \/ CheckCooldown(t) \/ ModalitiesRefused(t) \/ QuotaRefused(t)
         \/ ProviderFails(t) \/ Extract(t) \/ Decode(t) \/ DecodeFails(t)
         \/ \E response \in Responses : ProviderAnswers(t, response)
         \/ \E readable \in BOOLEAN : MakeTransparent(t, readable)
  PROVE  \E new \in Job : Sound(new) /\ SetJob(t, new)
<1> DEFINE j == job[t]
<1>0. j \in Job /\ Sound(j)
  BY DEF JobsInv, JobsTypeOK
<1>b. /\ Ended(t, "bad_request") \in Job /\ Sound(Ended(t, "bad_request"))
      /\ Ended(t, "error") \in Job /\ Sound(Ended(t, "error"))
  BY <1>0, EndedSound
<1> DEFINE called == [j EXCEPT !.calls = @ + 1]
<1>c. /\ called \in Job /\ called = Called(t) /\ called.at = j.at /\ called.attempt = j.attempt
      /\ called.simple = j.simple /\ called.calls = j.calls + 1 /\ called.result = j.result
      /\ called.variant = j.variant /\ called.stored = j.stored
  BY <1>0 DEF Job, Called
<1> HIDE DEF called
<1>1. ASSUME j.at \in {"idle", "check"}, NEW next \in {"check", "call"},
             SetJob(t, [j EXCEPT !.at = next])
      PROVE  \E new \in Job : Sound(new) /\ SetJob(t, new)
  <2> DEFINE new == [j EXCEPT !.at = next]
  <2>1. /\ new \in Job /\ new.at = next /\ new.attempt = j.attempt /\ new.simple = j.simple
        /\ new.calls = j.calls /\ new.result = j.result
        /\ new.variant = j.variant /\ new.stored = j.stored
    BY <1>0 DEF Job
  <2>2. new.calls = 0 /\ new.attempt >= 1 /\ new.result # "logo"
    BY <1>0, <1>1, <2>1 DEF Sound, Job
  <2>3. SetJob(t, new)
    BY <1>1
  <2> HIDE DEF new
  <2>4. CallsBefore(new) >= 0 /\ CallsBefore(new) \in Int
    BY Limits, <2>1, <2>2 DEF CallsBefore, Job
  <2>5. Sound(new)
    BY <1>0, <2>1, <2>2, <2>4 DEF Sound
  <2> QED
    BY <2>1, <2>3, <2>5
<1>2. CASE Start(t)
  BY <1>1, <1>2 DEF Start, JobAt
<1>3. CASE CheckCooldown(t)
  BY <1>1, <1>3, <1>b DEF CheckCooldown, JobAt
<1>4. ASSUME JobAt(t, "call"), NEW image \in Parts,
             SetJob(t, [Called(t) EXCEPT !.at = "extract", !.image = image])
      PROVE  \E new \in Job : Sound(new) /\ SetJob(t, new)
  <2> DEFINE new == [called EXCEPT !.at = "extract", !.image = image]
  <2>1. /\ new \in Job /\ new.at = "extract" /\ new.attempt = j.attempt
        /\ new.simple = j.simple /\ new.calls = j.calls + 1 /\ new.result = j.result
        /\ new.variant = j.variant /\ new.stored = j.stored
    BY <1>c DEF Job
  <2>2. SetJob(t, new)
    BY <1>4, <1>c
  <2> HIDE DEF new
  <2>3. j.calls <= CallsBefore(j) /\ CallsBefore(j) = CallsBefore(new) /\ j.result # "logo"
    BY <1>0, <1>4, <2>1 DEF Sound, JobAt, CallsBefore
  <2>4. j.calls \in Int /\ CallsBefore(j) \in Int
    BY Limits, <1>0 DEF Job, CallsBefore
  <2>5. Sound(new)
    BY <1>0, <2>1, <2>3, <2>4 DEF Sound
  <2> QED
    BY <2>1, <2>2, <2>5
<1>5. CASE \E response \in Responses : ProviderAnswers(t, response)
  BY <1>4, <1>5, ImageFound DEF ProviderAnswers
<1>6. ASSUME JobAt(t, "call"), j.attempt < Attempts,
             SetJob(t, [Called(t) EXCEPT !.attempt = @ + 1])
      PROVE  \E new \in Job : Sound(new) /\ SetJob(t, new)
  <2> DEFINE new == [called EXCEPT !.attempt = @ + 1]
  <2>1. /\ new \in Job /\ new.at = "call" /\ new.attempt = j.attempt + 1
        /\ new.simple = j.simple /\ new.calls = j.calls + 1 /\ new.result = j.result
        /\ new.variant = j.variant /\ new.stored = j.stored
    <3>1. called.attempt + 1 \in 1..Attempts
      BY Limits, <1>0, <1>6, <1>c DEF Job
    <3>2. called.at = "call"
      BY <1>6, <1>c DEF JobAt
    <3> QED
      BY <1>c, <3>1, <3>2 DEF Job
  <2>2. SetJob(t, new)
    BY <1>6, <1>c
  <2> HIDE DEF new
  <2>3. j.calls <= CallsBefore(j) /\ j.result # "logo"
    BY <1>0, <1>6 DEF Sound, JobAt
  <2>4. j.calls \in Int /\ CallsBefore(j) \in Int /\ CallsBefore(new) = CallsBefore(j) + 1
    BY Limits, <1>0, <2>1 DEF Job, CallsBefore
  <2>5. Sound(new)
    BY <1>0, <2>1, <2>3, <2>4 DEF Sound
  <2> QED
    BY <2>1, <2>2, <2>5
<1>7. CASE ModalitiesRefused(t)
  BY <1>6, <1>7, <1>b DEF ModalitiesRefused
<1>8. CASE QuotaRefused(t) \/ ProviderFails(t) \/ DecodeFails(t)
  BY <1>8, <1>b DEF QuotaRefused, ProviderFails, DecodeFails
<1>9. ASSUME JobAt(t, "extract"), ~j.simple,
             SetJob(t, [j EXCEPT !.at = "call", !.simple = TRUE, !.attempt = 1])
      PROVE  \E new \in Job : Sound(new) /\ SetJob(t, new)
  <2> DEFINE new == [j EXCEPT !.at = "call", !.simple = TRUE, !.attempt = 1]
  <2>1. /\ new \in Job /\ new.at = "call" /\ new.attempt = 1
        /\ new.simple = TRUE /\ new.calls = j.calls /\ new.result = j.result
        /\ new.variant = j.variant /\ new.stored = j.stored
    <3>1. 1 \in 1..Attempts
      BY Limits
    <3> QED
      BY <1>0, <3>1 DEF Job
  <2>2. SetJob(t, new)
    BY <1>9
  <2> HIDE DEF new
  <2>3. j.calls <= CallsBefore(j) + 1 /\ j.result # "logo"
    BY <1>0, <1>9 DEF Sound, JobAt
  <2>4. j.calls \in Int /\ CallsBefore(j) + 1 <= Attempts /\ CallsBefore(j) \in Int
    BY Limits, <1>0, <1>9 DEF Job, CallsBefore
  <2>5. CallsBefore(new) = Attempts
    BY Limits, <2>1 DEF CallsBefore
  <2>6. Sound(new)
    BY Limits, <1>0, <2>1, <2>3, <2>4, <2>5 DEF Sound
  <2> QED
    BY <2>1, <2>2, <2>6
<1>10. ASSUME j.at = "decode", SetJob(t, [j EXCEPT !.at = "upload"])
       PROVE  \E new \in Job : Sound(new) /\ SetJob(t, new)
  <2> DEFINE new == [j EXCEPT !.at = "upload"]
  <2>1. /\ new \in Job /\ new.at = "upload" /\ new.variant = j.variant /\ new.result = j.result
        /\ new.stored = j.stored
    BY <1>0 DEF Job
  <2>2. SetJob(t, new)
    BY <1>10
  <2> HIDE DEF new
  <2>3. Sound(new)
    BY <1>0, <1>10, <2>1 DEF Sound
  <2> QED
    BY <2>1, <2>2, <2>3
<1>11. CASE Extract(t)
  <2>1. CASE job[t].image # "text"
    <3> DEFINE new == [NewJob EXCEPT !.at = "decode"]
    <3>1. /\ new \in Job /\ new.at = "decode" /\ new.variant = "default"
          /\ new.result = "none"
      BY NewJobTyped DEF Job
    <3>2. SetJob(t, new)
      BY <1>11, <2>1 DEF Extract
    <3> HIDE DEF new
    <3>3. Sound(new)
      BY <3>1 DEF Sound
    <3> QED
      BY <3>1, <3>2, <3>3
  <2>2. CASE job[t].image = "text" /\ ~job[t].simple
    BY <1>9, <1>11, <2>2 DEF Extract
  <2>3. CASE job[t].image = "text" /\ job[t].simple
    BY <1>b, <1>11, <2>3 DEF Extract
  <2> QED
    BY <1>0, <2>1, <2>2, <2>3 DEF Job
<1>12. CASE Decode(t)
  BY <1>10, <1>12 DEF Decode, JobAt
<1>13. CASE \E readable \in BOOLEAN : MakeTransparent(t, readable)
  <2> DEFINE new == [j EXCEPT !.at = "upload", !.variant = "transparent"]
  <2>1. /\ new \in Job /\ new.at = "upload" /\ new.variant = "transparent"
        /\ new.stored = j.stored /\ new.result = j.result
    BY <1>0 DEF Job
  <2>2. SetJob(t, new) \/ SetJob(t, Ended(t, "error"))
    BY <1>13 DEF MakeTransparent
  <2>3. j.at = "transparent"
    BY <1>13 DEF MakeTransparent, JobAt
  <2> HIDE DEF new
  <2>4. Sound(new)
    BY <1>0, <2>1, <2>3 DEF Sound
  <2> QED
    BY <1>b, <2>1, <2>2, <2>4
<1> QED
  BY <1>2, <1>3, <1>5, <1>7, <1>8, <1>11, <1>12, <1>13

\* What a thread does around its uploads.
LEMMA UploadSound ==
  ASSUME JobsInv, NEW t \in Threads, BeginUpload(t) \/ FinishUpload(t)
  PROVE  \E new \in Job : Sound(new) /\ SetJob(t, new)
<1> DEFINE j == job[t]
<1>0. j \in Job /\ Sound(j)
  BY DEF JobsInv, JobsTypeOK
<1>1. CASE BeginUpload(t)
  <2> DEFINE new == [j EXCEPT !.at = "uploading"]
  <2>1. /\ new \in Job /\ new.at = "uploading" /\ new.variant = j.variant
        /\ new.stored = j.stored /\ new.result = j.result
    BY <1>0 DEF Job
  <2>2. SetJob(t, new) /\ j.at = "upload"
    BY <1>1 DEF BeginUpload, JobAt
  <2> HIDE DEF new
  <2>3. Sound(new)
    BY <1>0, <2>1, <2>2 DEF Sound
  <2> QED
    BY <2>1, <2>2, <2>3
<1>2. CASE FinishUpload(t)
  <2>0. j.at = "uploading" /\ SetJob(t, AfterUpload(t))
        /\ up[t] \in {"stored", "failed", "raised"}
    BY <1>2 DEF FinishUpload, JobAt, EndUpload
  <2> DEFINE stored == [j EXCEPT !.stored = @ \cup {j.variant}]
  <2> DEFINE first == [stored EXCEPT !.at = "transparent"]
  <2> DEFINE second == [Ended(t, "logo") EXCEPT !.stored = stored.stored]
  <2>1. CASE up[t] = "raised" \/ up[t] = "failed"
    <3>1. AfterUpload(t) \in {Ended(t, "error"), Ended(t, "bad_request")}
      BY <2>1 DEF AfterUpload
    <3> QED
      BY <1>0, <2>0, <3>1, EndedSound
  <2>2. CASE up[t] = "stored" /\ j.variant = "default"
    <3>1. AfterUpload(t) = first
      BY <2>2 DEF AfterUpload
    <3>2. /\ first \in Job /\ first.at = "transparent" /\ "default" \in first.stored
          /\ first.result = j.result
      BY <1>0, <2>2 DEF Job
    <3> HIDE DEF first
    <3>3. Sound(first)
      BY <1>0, <2>0, <3>2 DEF Sound
    <3> QED
      BY <2>0, <3>1, <3>2, <3>3
  <2>3. CASE up[t] = "stored" /\ j.variant # "default"
    <3>1. AfterUpload(t) = second
      BY <2>3 DEF AfterUpload
    <3>2. j.variant = "transparent" /\ "default" \in j.stored
      BY <1>0, <2>0, <2>3 DEF Job, Sound
    <3>3. stored.stored = {"default", "transparent"}
      BY <1>0, <3>2 DEF Job
    <3>4. /\ second \in Job /\ second.at = "done" /\ second.result = "logo"
          /\ second.stored = {"default", "transparent"}
      <4> DEFINE done == [NewJob EXCEPT !.at = "done", !.stored = j.stored, !.result = "logo"]
      <4>1. done = Ended(t, "logo")
        BY DEF Ended
      <4>2. done \in Job /\ done.at = "done" /\ done.result = "logo"
        BY <1>0, NewJobTyped DEF Job
      <4> HIDE DEF done
      <4> QED
        BY <3>3, <4>1, <4>2 DEF Job
    <3> HIDE DEF second
    <3>5. Sound(second)
      BY <3>4 DEF Sound
    <3> QED
      BY <2>0, <3>1, <3>4, <3>5
  <2> QED
    BY <2>0, <2>1, <2>2, <2>3
<1> QED
  BY <1>1, <1>2

LEMMA JobsInvNext ==
  ASSUME JobsInv, [JobsNext]_jobsVars
  PROVE  JobsInv'
<1>0. StorageTypeOK /\ LockInv /\ job \in [Threads -> Job] /\ clock \in Nat /\ until \in Nat
  BY DEF JobsInv, JobsTypeOK
<1>1. ASSUME NEW t \in Threads, NEW new \in Job, Sound(new), SetJob(t, new),
             StorageTypeOK', LockInv', clock' = clock, until' \in Nat
      PROVE  JobsInv'
  BY <1>0, <1>1, SetKeeps DEF JobsInv, JobsTypeOK
<1>2. ASSUME NEW t \in Threads, UploadStep(t), UNCHANGED logoVars
      PROVE  JobsInv'
  BY <1>0, <1>2, UploadKeeps DEF JobsInv, JobsTypeOK, logoVars
<1>3. CASE StorageEnvironment /\ UNCHANGED logoVars
  BY <1>0, <1>3, EnvironmentKeeps DEF JobsInv, JobsTypeOK, logoVars
<1>4. CASE Tick
  BY <1>0, <1>4 DEF Tick, JobsInv, JobsTypeOK, LockInv, LockIsLeft, Alone,
     UploadAt, StorageTypeOK, storageVars, lockVars
<1>5. CASE UNCHANGED jobsVars
  BY <1>0, <1>5 DEF jobsVars, logoVars, JobsInv, JobsTypeOK, LockInv, LockIsLeft, Alone,
     UploadAt, StorageTypeOK, storageVars, lockVars
<1>6. ASSUME NEW t \in Threads, BeginUpload(t) \/ FinishUpload(t)
      PROVE  JobsInv'
  <2>1. /\ StartUpload(t) \/ EndUpload(t)
        /\ UNCHANGED <<clock, until>>
    BY <1>6 DEF BeginUpload, FinishUpload
  <2>2. \E new \in Job : Sound(new) /\ SetJob(t, new)
    BY <1>6, UploadSound
  <2>3. StorageTypeOK' /\ LockInv'
    BY <1>0, <2>1, UploadKeeps
  <2> QED
    BY <1>0, <1>1, <2>1, <2>2, <2>3
<1>7. ASSUME NEW t \in Threads,
             \/ Start(t) \/ CheckCooldown(t) \/ ModalitiesRefused(t) \/ QuotaRefused(t)
             \/ ProviderFails(t) \/ Extract(t) \/ Decode(t) \/ DecodeFails(t)
             \/ \E response \in Responses : ProviderAnswers(t, response)
             \/ \E readable \in BOOLEAN : MakeTransparent(t, readable)
      PROVE  JobsInv'
  <2>1. UNCHANGED storageVars /\ clock' = clock /\ until' \in {until, 0, clock + Cooldown}
    BY <1>7 DEF Start, CheckCooldown, ModalitiesRefused, QuotaRefused, ProviderFails,
       Extract,
       Decode, DecodeFails, ProviderAnswers, MakeTransparent
  <2>2. \E new \in Job : Sound(new) /\ SetJob(t, new)
    BY <1>7, CallSound
  <2>3. StorageTypeOK' /\ LockInv'
    BY <1>0, <2>1 DEF StorageTypeOK, LockInv, LockIsLeft, Alone, UploadAt, storageVars,
       lockVars
  <2>4. until' \in Nat
    BY Limits, <1>0, <2>1
  <2> QED
    BY <1>1, <2>1, <2>2, <2>3, <2>4
<1>8. \/ \E t \in Threads :
           \/ UploadStep(t) /\ UNCHANGED logoVars
           \/ BeginUpload(t) \/ FinishUpload(t)
           \/ Start(t) \/ CheckCooldown(t) \/ ModalitiesRefused(t) \/ QuotaRefused(t)
           \/ ProviderFails(t) \/ Extract(t) \/ Decode(t) \/ DecodeFails(t)
           \/ \E response \in Responses : ProviderAnswers(t, response)
           \/ \E readable \in BOOLEAN : MakeTransparent(t, readable)
      \/ StorageEnvironment /\ UNCHANGED logoVars
      \/ Tick \/ UNCHANGED jobsVars
  BY DEF JobsNext, Step
<1> QED
  BY <1>2, <1>3, <1>4, <1>5, <1>6, <1>7, <1>8

LEMMA JobsInvInit ==
  ASSUME JobsInit
  PROVE  JobsInv
<1> USE DEF JobsInit, StorageInit
<1>1. StorageTypeOK
  <2>1. 0 \in 0..MaxOutages /\ "idle" \in UploadState
    BY Limits DEF UploadState
  <2> QED
    BY <2>1 DEF StorageTypeOK
<1>2. LockInv
  BY DEF LockInv, LockIsLeft, Alone, UploadAt, Waiting, Inside
<1>3. Sound(NewJob)
  BY NewJobTyped DEF Sound
<1> QED
  BY <1>1, <1>2, <1>3, NewJobTyped DEF JobsInv, JobsTypeOK

\* Whatever the other threads, the token, the server and the lock do: a logo has both of its
\* variants, and fallback and retry together ask a bounded number of times; the lock is never
\* left locked, and uploads that never overlap never wait, hang or raise (core/storage.py:39,
\* logo_generation.py).
THEOREM LogosAreWhole == JobsSpec => []JobsAreRight
<1>1. JobsInv => JobsAreRight
  <2> SUFFICES ASSUME JobsInv
               PROVE  CallsAreBounded /\ LogoIsWhole /\ LockIsLeft /\ LoneUploadsAreFine
    BY DEF JobsAreRight, JobsInv
  <2>1. \A t \in Threads : job[t] \in Job /\ Sound(job[t])
    BY DEF JobsInv, JobsTypeOK
  <2>2. CallsAreBounded
    <3> SUFFICES ASSUME NEW t \in Threads, JobAt(t, "call")
                 PROVE  job[t].calls < 2 * Attempts
      BY DEF CallsAreBounded
    <3>1. job[t].calls <= CallsBefore(job[t]) /\ job[t].calls \in Nat
      BY <2>1 DEF Sound, JobAt, Job
    <3>2. CallsBefore(job[t]) < 2 * Attempts /\ CallsBefore(job[t]) \in Int
      BY Limits, <2>1 DEF CallsBefore, Job
    <3> QED
      BY Limits, <3>1, <3>2
  <2>3. LogoIsWhole
    BY <2>1 DEF LogoIsWhole, Sound
  <2>4. LockIsLeft /\ LoneUploadsAreFine
    BY DEF JobsInv, LockInv, Alone, Waiting, LoneUploadsAreFine
  <2> QED
    BY <2>2, <2>3, <2>4
<1>2. JobsInit => JobsInv
  BY JobsInvInit
<1>3. JobsInv /\ [JobsNext]_jobsVars => JobsInv'
  BY JobsInvNext
<1> QED
  BY <1>1, <1>2, <1>3, PTL DEF JobsSpec

-----------------------------------------------------------------------------
(* The order in which pixels are enqueued together *)

Ahead(S, p) == {q \in S : Before(q, p)}
Rank(S, p) == Cardinality(Ahead(S, p))

LEMMA PixelsFinite ==
  IsFiniteSet(Pixels)
<1>1. IsFiniteSet(0..Width - 1) /\ IsFiniteSet(0..Height - 1)
  BY FS_Interval, ImageAssumption
<1> QED
  BY <1>1, FS_Product DEF Pixels

\* Pixels are ordered row after row.
LEMMA BeforeOrders ==
  /\ \A p \in Pixels : ~Before(p, p)
  /\ \A p, q \in Pixels : p # q => Before(p, q) \/ Before(q, p)
  /\ \A p, q, x \in Pixels : Before(x, p) /\ Before(p, q) => Before(x, q)
<1>1. \A p \in Pixels : p = <<p[1], p[2]>> /\ p[1] \in Int /\ p[2] \in Int
  BY ImageAssumption DEF Pixels
<1> QED
  BY <1>1 DEF Before

\* Ranks tell the pixels of a set apart, and are below their number.
LEMMA RankIsInjective ==
  ASSUME NEW S, S \subseteq Pixels
  PROVE  /\ \A p \in S : Rank(S, p) \in 0..Cardinality(S) - 1
         /\ \A p, q \in S : Rank(S, p) = Rank(S, q) => p = q
<1>1. IsFiniteSet(S) /\ Cardinality(S) \in Nat
  BY PixelsFinite, FS_Subset, FS_CardinalityType
<1>2. ASSUME NEW p \in S
      PROVE  /\ IsFiniteSet(Ahead(S, p)) /\ Rank(S, p) \in Nat
             /\ Rank(S, p) < Cardinality(S)
  <2>1. p \notin Ahead(S, p) /\ Ahead(S, p) \subseteq S
    BY BeforeOrders DEF Ahead
  <2>2. IsFiniteSet(Ahead(S, p)) /\ Rank(S, p) \in Nat /\ Rank(S, p) <= Cardinality(S)
    BY <1>1, <2>1, FS_Subset, FS_CardinalityType DEF Rank
  <2>3. Rank(S, p) # Cardinality(S)
    BY <1>1, <2>1, FS_Subset DEF Rank
  <2> QED
    BY <1>1, <2>2, <2>3
<1>3. ASSUME NEW p \in S, NEW q \in S, Before(p, q)
      PROVE  Rank(S, p) # Rank(S, q)
  <2>1. Ahead(S, p) \subseteq Ahead(S, q)
    BY <1>3, BeforeOrders DEF Ahead
  <2>2. p \in Ahead(S, q) /\ p \notin Ahead(S, p)
    BY <1>3, BeforeOrders DEF Ahead
  <2> QED
    BY <1>2, <2>1, <2>2, FS_Subset DEF Rank
<1>4. ASSUME NEW p \in S, NEW q \in S, Rank(S, p) = Rank(S, q)
      PROVE  p = q
  BY <1>3, <1>4, BeforeOrders
<1>5. \A p \in S : Rank(S, p) \in 0..Cardinality(S) - 1
  BY <1>1, <1>2
<1> QED
  BY <1>4, <1>5

\* InOrder lists every pixel of the set once.
LEMMA InOrderLists ==
  ASSUME NEW S, S \subseteq Pixels
  PROVE  /\ Cardinality(S) \in Nat
         /\ InOrder(S) \in [1..Cardinality(S) -> S]
         /\ \A p \in S : \E i \in 1..Cardinality(S) : InOrder(S)[i] = p
         /\ \A i, j \in 1..Cardinality(S) : InOrder(S)[i] = InOrder(S)[j] => i = j
<1> DEFINE n == Cardinality(S)
           f == [p \in S |-> Rank(S, p)]
<1>1. IsFiniteSet(S) /\ n \in Nat
  BY PixelsFinite, FS_Subset, FS_CardinalityType
<1>2. f \in Injection(S, 0..n - 1)
  BY RankIsInjective DEF Injection, IsInjective
<1>3. IsFiniteSet(0..n - 1) /\ Cardinality(0..n - 1) = n
  BY <1>1, FS_Interval
<1>4. f \in Surjection(S, 0..n - 1)
  BY <1>2, <1>3, FS_Injection
<1>5. ASSUME NEW i \in 1..n
      PROVE  InOrder(S)[i] \in S /\ Rank(S, InOrder(S)[i]) = i - 1
  <2>1. i - 1 \in 0..n - 1
    BY <1>1
  <2>2. \E p \in S : Rank(S, p) = i - 1
    BY <1>4, <2>1 DEF Surjection
  <2>3. InOrder(S)[i] = CHOOSE p \in S : Rank(S, p) = i - 1
    BY DEF InOrder, Rank, Ahead
  <2> QED
    BY <2>2, <2>3
<1>6. InOrder(S) \in [1..n -> S]
  BY <1>5 DEF InOrder
<1>7. ASSUME NEW p \in S
      PROVE  \E i \in 1..n : InOrder(S)[i] = p
  <2>1. Rank(S, p) + 1 \in 1..n /\ Rank(S, p) + 1 - 1 = Rank(S, p)
    BY <1>1, RankIsInjective
  <2>2. InOrder(S)[Rank(S, p) + 1] = p
    BY <1>5, <2>1, RankIsInjective
  <2> QED
    BY <2>1, <2>2
<1>8. ASSUME NEW i \in 1..n, NEW j \in 1..n, InOrder(S)[i] = InOrder(S)[j]
      PROVE  i = j
  <2>1. i - 1 = j - 1
    BY <1>5, <1>8
  <2> QED
    BY <1>1, <2>1
<1> QED
  BY <1>1, <1>6, <1>7, <1>8

-----------------------------------------------------------------------------
(* The invariant of the loop *)

Held == {queue[i] : i \in DOMAIN queue}

LogoInv ==
  /\ distance \in [Pixels -> 0..255] /\ spread \in 0..255 /\ tried \in 0..2
  /\ mask \subseteq Background(tried) /\ erased \subseteq Pixels
  /\ queue \in Seq(mask) /\ IsInjective(queue)
  /\ removed \in Nat /\ removed + Len(queue) = Cardinality(mask)

\* A set that is enqueued on its own.
LEMMA InOrderFills ==
  ASSUME NEW S, S \subseteq Pixels
  PROVE  /\ InOrder(S) \in Seq(S) /\ IsInjective(InOrder(S))
         /\ Len(InOrder(S)) = Cardinality(S)
         /\ {InOrder(S)[i] : i \in DOMAIN InOrder(S)} = S
<1>1. /\ Cardinality(S) \in Nat
      /\ InOrder(S) \in [1..Cardinality(S) -> S]
  BY InOrderLists
<1>2. InOrder(S) \in Seq(S) /\ Len(InOrder(S)) = Cardinality(S)
  BY <1>1
<1>3. DOMAIN InOrder(S) = 1..Cardinality(S)
  BY <1>1
<1>4. IsInjective(InOrder(S))
  BY <1>3, InOrderLists DEF IsInjective
<1>5. {InOrder(S)[i] : i \in DOMAIN InOrder(S)} = S
  BY <1>1, <1>3, InOrderLists
<1> QED
  BY <1>2, <1>4, <1>5

\* A set that is enqueued while the head leaves.
LEMMA InOrderFollows ==
  ASSUME NEW M, NEW q \in Seq(M), IsInjective(q), q # <<>>,
         NEW S, S \subseteq Pixels, S \cap M = {}
  PROVE  LET r == Tail(q) \o InOrder(S)
         IN  /\ r \in Seq(M \cup S) /\ IsInjective(r)
             /\ Len(r) = Len(q) - 1 + Cardinality(S)
             /\ {r[i] : i \in DOMAIN r} =
                  ({q[i] : i \in DOMAIN q} \ {Head(q)}) \cup S
<1> DEFINE n == Cardinality(S)
           o == InOrder(S)
           r == Tail(q) \o o
           m == Len(q) - 1
<1>1. /\ n \in Nat /\ o \in Seq(S) /\ Len(o) = n
      /\ \A p \in S : \E i \in 1..n : o[i] = p
      /\ \A i \in 1..n : o[i] \in S
      /\ \A i, j \in 1..n : o[i] = o[j] => i = j
  BY InOrderLists, InOrderFills
<1>2. /\ m \in Nat /\ Tail(q) \in Seq(M) /\ Len(Tail(q)) = m
      /\ \A i \in 1..m : Tail(q)[i] = q[i + 1] /\ q[i + 1] \in M
      /\ Head(q) = q[1] /\ q[1] \in M /\ DOMAIN q = 1..m + 1
  OBVIOUS
<1>3. \A i, j \in 1..m + 1 : q[i] = q[j] => i = j
  BY <1>2 DEF IsInjective
<1> HIDE DEF n, o, m
<1>4. /\ r \in Seq(M \cup S) /\ Len(r) = m + n /\ DOMAIN r = 1..m + n
      /\ \A i \in 1..m : r[i] = q[i + 1]
      /\ \A i \in 1..n : r[m + i] = o[i]
      /\ \A i \in m + 1..m + n : i - m \in 1..n /\ r[i] = o[i - m]
  BY <1>1, <1>2
<1> HIDE DEF r
<1>5. IsInjective(r)
  <2> SUFFICES ASSUME NEW i \in 1..m + n, NEW j \in 1..m + n, r[i] = r[j]
               PROVE  i = j
    BY <1>4 DEF IsInjective
  <2>1. CASE i \in 1..m /\ j \in 1..m
    BY <1>2, <1>3, <1>4, <2>1
  <2>2. CASE i \in m + 1..m + n /\ j \in m + 1..m + n
    BY <1>1, <1>2, <1>4, <2>2
  <2>3. CASE i \in 1..m /\ j \in m + 1..m + n
    BY <1>1, <1>2, <1>4, <2>3
  <2>4. CASE j \in 1..m /\ i \in m + 1..m + n
    BY <1>1, <1>2, <1>4, <2>4
  <2> QED
    BY <1>1, <1>2, <2>1, <2>2, <2>3, <2>4
<1>6. {r[i] : i \in DOMAIN r} = ({q[i] : i \in DOMAIN q} \ {Head(q)}) \cup S
  <2>1. ASSUME NEW i \in 1..m + n
        PROVE  r[i] \in ({q[k] : k \in DOMAIN q} \ {Head(q)}) \cup S
    <3>1. CASE i \in 1..m
      BY <1>2, <1>3, <1>4, <3>1
    <3>2. CASE i \in m + 1..m + n
      BY <1>1, <1>4, <3>2
    <3> QED
      BY <1>1, <1>2, <3>1, <3>2
  <2>2. ASSUME NEW k \in DOMAIN q, q[k] # Head(q)
        PROVE  \E i \in DOMAIN r : r[i] = q[k]
    <3>1. k - 1 \in 1..m /\ (k - 1) + 1 = k
      BY <1>2, <2>2
    <3>2. r[k - 1] = q[k]
      BY <1>4, <3>1
    <3>3. k - 1 \in DOMAIN r
      BY <1>1, <1>2, <1>4, <3>1
    <3> QED
      BY <3>2, <3>3
  <2>3. ASSUME NEW p \in S
        PROVE  \E i \in DOMAIN r : r[i] = p
    <3>1. PICK k \in 1..n : o[k] = p
      BY <1>1
    <3>2. m + k \in 1..m + n
      BY <1>1, <1>2
    <3> QED
      BY <1>4, <3>1, <3>2
  <2> QED
    BY <1>4, <2>1, <2>2, <2>3
<1>7. Len(r) = Len(q) - 1 + Cardinality(S)
  BY <1>4 DEF m, n
<1> QED
  BY <1>4, <1>5, <1>6, <1>7 DEF r, o

-----------------------------------------------------------------------------
(* The steps *)

LEMMA BorderAndNeighbours ==
  /\ Border \subseteq Pixels
  /\ \A n : Background(n) \subseteq Pixels
  /\ \A p : Neighbours(p) \subseteq Pixels
BY DEF Border, Background, Neighbours

\* A further threshold is not below the one before.
LEMMA ThresholdsGrow ==
  ASSUME NEW width \in 0..255, NEW n \in 0..1
  PROVE  /\ Thresholds(width)[n + 1] \in Nat /\ Thresholds(width)[n + 2] \in Nat
         /\ Thresholds(width)[n + 1] <= Thresholds(width)[n + 2]
BY DEF Thresholds, Least, Greatest

LEMMA FillStarts ==
  ASSUME NEW n, Fill(n)
  PROVE  /\ mask' = Border \cap Background(n)
         /\ queue' \in Seq(mask') /\ IsInjective(queue')
         /\ removed' \in Nat /\ removed' + Len(queue') = Cardinality(mask')
         /\ Held' = mask'
<1> DEFINE S == Border \cap Background(n)
<1>1. S \subseteq Pixels
  BY BorderAndNeighbours
<1>2. mask' = S /\ queue' = InOrder(S) /\ removed' = 0
  BY DEF Fill
<1> HIDE DEF S
<1>3. /\ InOrder(S) \in Seq(S) /\ IsInjective(InOrder(S))
      /\ Len(InOrder(S)) = Cardinality(S) /\ Cardinality(S) \in Nat
      /\ {InOrder(S)[i] : i \in DOMAIN InOrder(S)} = S
  BY <1>1, InOrderLists, InOrderFills
<1>4. queue' \in Seq(mask') /\ IsInjective(queue') /\ Held' = mask'
  BY <1>2, <1>3 DEF Held
<1>5. removed' \in Nat /\ removed' + Len(queue') = Cardinality(mask')
  BY <1>2, <1>3
<1> QED
  BY <1>2, <1>4, <1>5 DEF S

LEMMA LogoInvInit ==
  Init => LogoInv /\ mask = Border \cap Background(0) /\ Held = mask
<1> SUFFICES ASSUME Init PROVE LogoInv /\ mask = Border \cap Background(0) /\ Held = mask
  OBVIOUS
<1>1. distance \in [Pixels -> 0..255] /\ spread \in 0..255
  <2>1. PICK colour \in [Areas -> Distances \cup {0}] :
          distance = [p \in Pixels |->
            IF p \in UNION Areas THEN colour[CHOOSE area \in Areas : p \in area] ELSE 0]
    BY DEF Init
  <2>2. \A p \in UNION Areas : (CHOOSE area \in Areas : p \in area) \in Areas
    OBVIOUS
  <2>3. \A area \in Areas : colour[area] \in 0..255
    <3>1. Distances \cup {0} \subseteq 0..255
      BY ImageAssumption
    <3> QED
      BY <3>1
  <2>4. spread \in 0..255
    BY ImageAssumption DEF Init
  <2> QED
    BY <2>1, <2>2, <2>3, <2>4
<1> DEFINE S == Border \cap Background(0)
<1>2. S \subseteq Pixels /\ S \subseteq Background(0)
  BY BorderAndNeighbours
<1>3. mask = S /\ queue = InOrder(S) /\ removed = 0 /\ tried = 0 /\ erased = {}
  BY DEF Init
<1> HIDE DEF S
<1>4. /\ InOrder(S) \in Seq(S) /\ IsInjective(InOrder(S))
      /\ Len(InOrder(S)) = Cardinality(S) /\ Cardinality(S) \in Nat
      /\ {InOrder(S)[i] : i \in DOMAIN InOrder(S)} = S
  BY <1>2, InOrderLists, InOrderFills
<1>5. queue \in Seq(mask) /\ IsInjective(queue) /\ Held = mask
  BY <1>3, <1>4 DEF Held
<1>6. removed \in Nat /\ removed + Len(queue) = Cardinality(mask)
  BY <1>3, <1>4
<1> QED
  BY <1>1, <1>2, <1>3, <1>5, <1>6 DEF LogoInv, S

\* What a turn of the loop does to the mask and to what is queued.
LEMMA GrowTakesUp ==
  ASSUME LogoInv, Grow
  PROVE  /\ LogoInv'
         /\ Head(queue) \in Held
         /\ mask' = mask \cup Reached(Head(queue))
         /\ Held' = (Held \ {Head(queue)}) \cup Reached(Head(queue))
<1> DEFINE reached == Reached(Head(queue))
<1>1. reached \subseteq Pixels /\ reached \cap mask = {} /\ reached \subseteq Background(tried)
  BY BorderAndNeighbours DEF Reached
<1>2. mask \subseteq Pixels /\ queue \in Seq(mask) /\ IsInjective(queue) /\ queue # <<>>
  BY BorderAndNeighbours DEF LogoInv, Grow
<1>3. mask' = mask \cup reached /\ queue' = Tail(queue) \o InOrder(reached)
  BY DEF Grow
<1> HIDE DEF reached
<1>4. /\ queue' \in Seq(mask') /\ IsInjective(queue')
      /\ Len(queue') = Len(queue) - 1 + Cardinality(reached)
      /\ Held' = (Held \ {Head(queue)}) \cup reached
  <2> DEFINE r == Tail(queue) \o InOrder(reached)
  <2>1. /\ r \in Seq(mask \cup reached) /\ IsInjective(r)
        /\ Len(r) = Len(queue) - 1 + Cardinality(reached)
        /\ {r[i] : i \in DOMAIN r} = ({queue[i] : i \in DOMAIN queue} \ {Head(queue)}) \cup reached
    BY <1>1, <1>2, InOrderFollows
  <2>2. queue' = r
    BY <1>3
  <2> HIDE DEF r
  <2> QED
    BY <1>3, <2>1, <2>2 DEF Held
<1>5. Cardinality(mask') = Cardinality(mask) + Cardinality(reached)
  <2>1. IsFiniteSet(mask) /\ IsFiniteSet(reached)
    BY <1>1, <1>2, PixelsFinite, FS_Subset
  <2>2. Cardinality(mask \cap reached) = 0
    <3>1. mask \cap reached = {}
      BY <1>1
    <3> QED
      BY <3>1, FS_EmptySet
  <2>3. Cardinality(mask \cup reached) =
          Cardinality(mask) + Cardinality(reached) - Cardinality(mask \cap reached)
    BY <2>1, FS_Union
  <2>4. Cardinality(mask) \in Nat /\ Cardinality(reached) \in Nat
    BY <2>1, FS_CardinalityType
  <2> QED
    BY <1>3, <2>2, <2>3, <2>4
<1>6. Cardinality(mask) \in Nat /\ Cardinality(reached) \in Nat
  BY <1>1, <1>2, InOrderLists
<1>7. removed' \in Nat /\ removed' + Len(queue') = Cardinality(mask')
  <2>1. removed \in Nat /\ removed + Len(queue) = Cardinality(mask) /\ removed' = removed + 1
    BY DEF LogoInv, Grow
  <2>2. Len(queue) \in Nat
    BY <1>2
  <2> QED
    BY <1>4, <1>5, <1>6, <2>1, <2>2
<1>8. UNCHANGED <<distance, spread, tried, erased>> /\ Background(tried)' = Background(tried)
  BY DEF Grow, Background
<1>9. mask' \subseteq Background(tried)'
  BY <1>1, <1>3, <1>8 DEF LogoInv
<1>10. Head(queue) \in Held
  BY <1>2 DEF Held
<1> QED
  BY <1>3, <1>4, <1>7, <1>8, <1>9, <1>10 DEF LogoInv, reached

\* The next threshold finds more background, and starts from the edges again.
LEMMA TryNextRestarts ==
  ASSUME LogoInv, TryNext
  PROVE  /\ LogoInv'
         /\ Held = {}
         /\ Background(tried) \subseteq Background(tried)'
         /\ mask' = Border \cap Background(tried)' /\ Held' = mask'
<1>1. tried \in 0..1 /\ tried' = tried + 1 /\ tried' \in 0..2
  BY DEF LogoInv, TryNext
<1>2. Fill(tried + 1) /\ UNCHANGED <<distance, spread, erased>>
  BY DEF TryNext
<1>3. Background(tried)' = Background(tried + 1)
  BY <1>1, <1>2 DEF Background
<1>4. Background(tried) \subseteq Background(tried + 1)
  <2>1. /\ Thresholds(spread)[tried + 1] \in Nat /\ Thresholds(spread)[tried + 2] \in Nat
        /\ Thresholds(spread)[tried + 1] <= Thresholds(spread)[tried + 2]
    BY <1>1, ThresholdsGrow DEF LogoInv
  <2>2. \A p \in Pixels : distance[p] \in 0..255
    BY DEF LogoInv
  <2>3. tried + 1 + 1 = tried + 2
    BY <1>1
  <2> QED
    BY <2>1, <2>2, <2>3 DEF Background
<1>5. /\ mask' = Border \cap Background(tried + 1)
      /\ queue' \in Seq(mask') /\ IsInjective(queue')
      /\ removed' \in Nat /\ removed' + Len(queue') = Cardinality(mask')
      /\ Held' = mask'
  BY <1>2, FillStarts
<1>6. Held = {}
  BY DEF TryNext, Held
<1> QED
  BY <1>1, <1>2, <1>3, <1>4, <1>5, <1>6 DEF LogoInv

LEMMA OthersStutter ==
  ASSUME LogoInv, Erase \/ LeaveOpaque \/ UNCHANGED vars
  PROVE  LogoInv' /\ UNCHANGED <<mask, queue>> /\ Background(tried)' = Background(tried)
<1>1. UNCHANGED <<distance, spread, tried, mask, queue, removed>>
  BY DEF Erase, LeaveOpaque, vars
<1>2. erased' \subseteq Pixels
  BY BorderAndNeighbours DEF LogoInv, Erase, LeaveOpaque, vars
<1>3. Background(tried)' = Background(tried)
  BY <1>1 DEF Background
<1> QED
  BY <1>1, <1>2, <1>3 DEF LogoInv

LEMMA LogoInvNext ==
  LogoInv /\ [Next]_vars => LogoInv'
BY GrowTakesUp, TryNextRestarts, OthersStutter DEF Next

-----------------------------------------------------------------------------
(* The theorems *)

\* Every pixel of the mask is queued once and counted once, so that `removed` is the
\* size of the mask when the queue is empty (_build_background_mask).
THEOREM LogoTyped ==
  Spec => []TypeOK
<1>1. LogoInv => TypeOK
  BY BorderAndNeighbours DEF LogoInv, TypeOK
<1> QED
  BY <1>1, LogoInvInit, LogoInvNext, PTL DEF Spec

\* The variant of a logo is never wholly transparent, whatever the image, its size
\* and the share that has to be removed are.
THEOREM LogoIsNeverErased ==
  Spec => []LogoRemains
<1>1. Init => LogoRemains
  <2>1. <<0, 0>> \in Pixels
    BY ImageAssumption DEF Pixels
  <2> QED
    BY <2>1 DEF Init, LogoRemains
<1>2. LogoInv /\ LogoRemains /\ [Next]_vars => LogoRemains'
  <2>1. ASSUME LogoInv, Erase
        PROVE  LogoRemains'
    <3>1. removed = Cardinality(mask) /\ Cardinality(mask) # Cardinality(Pixels)
      <4>1. Len(queue) = 0 /\ removed \in Nat
        BY <2>1 DEF Erase, LogoInv
      <4>2. removed < Cardinality(Pixels) /\ Cardinality(Pixels) \in Nat
        BY <2>1, PixelsFinite, FS_CardinalityType DEF Erase, Fits
      <4> QED
        BY <2>1, <4>1, <4>2 DEF LogoInv
    <3> QED
      BY <2>1, <3>1 DEF Erase, LogoRemains
  <2> QED
    BY <2>1 DEF LogoRemains, Next, vars, Grow, TryNext, LeaveOpaque
<1> QED
  BY <1>1, <1>2, LogoInvInit, LogoInvNext, PTL DEF Spec

\* The loops over thresholds and over the queue are a flood that is started anew, for
\* an image of any size (_create_transparent_png_variant, _build_background_mask).
THEOREM LogoFloods ==
  Spec => FloodSpec
<1>1. Init => Flooding!Init
  BY LogoInvInit, BorderAndNeighbours DEF Flooding!Init, Held, Init
<1>2. LogoInv /\ [Next]_vars => [Flooding!Next]_Flooding!vars
  <2> SUFFICES ASSUME LogoInv, [Next]_vars
               PROVE  [Flooding!Next]_Flooding!vars
    OBVIOUS
  <2>1. CASE Grow
    <3>1. Head(queue) \in Held /\ Head(queue) \in Pixels
      BY <2>1, GrowTakesUp, BorderAndNeighbours DEF LogoInv, Held
    <3>2. Flooding!Found(Head(queue)) = Reached(Head(queue))
      BY <3>1, BorderAndNeighbours DEF Flooding!Found, Reached
    <3>3. Background(tried)' = Background(tried)
      BY <2>1 DEF Grow, Background
    <3>4. \E cell \in Pixels : Flooding!TakeUp(cell)
      BY <2>1, <3>1, <3>2, <3>3, GrowTakesUp DEF Flooding!TakeUp, Held
    <3> QED
      BY <3>4 DEF Flooding!Next
  <2>2. CASE TryNext
    <3>1. /\ Held = {} /\ Background(tried) \subseteq Background(tried)'
          /\ mask' = Border \cap Background(tried)' /\ Held' = mask'
      BY <2>2, TryNextRestarts
    <3>2. Background(tried)' \subseteq Pixels
      BY DEF Background
    <3>3. Flooding!Restart
      BY <3>1, <3>2 DEF Flooding!Restart, Held
    <3> QED
      BY <3>3 DEF Flooding!Next
  <2>3. CASE Erase \/ LeaveOpaque \/ UNCHANGED vars
    <3>1. UNCHANGED <<mask, queue>> /\ Background(tried)' = Background(tried)
      BY <2>3, OthersStutter
    <3>2. Held' = Held
      BY <3>1 DEF Held
    <3>3. UNCHANGED Flooding!vars
      BY <3>1, <3>2 DEF Flooding!vars, Held
    <3> QED
      BY <3>3
  <2> QED
    BY <2>1, <2>2, <2>3 DEF Next
<1> QED
  BY <1>1, <1>2, LogoInvInit, LogoInvNext, PTL DEF Spec, FloodSpec, Flooding!Spec

-----------------------------------------------------------------------------
(* What a flood reaches.  These proofs are about the steps of Flood alone, and use nothing *)
(* of how the loops make them.                                                             *)

Adjacent == {pair \in Pixels \X Pixels : pair[2] \in Neighbours(pair[1])}

\* A cell that has been taken up has no open neighbour that is not marked.
TakenUp ==
  \A cell \in mask \ Held, next \in Background(tried) :
    <<cell, next>> \in Adjacent => next \in mask

FloodInv ==
  /\ Flooding!TypeOK /\ Border \cap Background(tried) \subseteq mask
  /\ TakenUp /\ Flooding!OnlyConnected

LEMMA FloodInvInit ==
  Flooding!Init => FloodInv
BY DEF Flooding!Init, FloodInv, Flooding!TypeOK, TakenUp, Flooding!OnlyConnected,
       Flooding!Closed, Held

LEMMA FloodInvNext ==
  FloodInv /\ [Flooding!Next]_Flooding!vars => FloodInv'
<1> SUFFICES ASSUME FloodInv, [Flooding!Next]_Flooding!vars
             PROVE  FloodInv'
  OBVIOUS
<1>1. ASSUME NEW cell \in Pixels, Flooding!TakeUp(cell)
      PROVE  FloodInv'
  <2>1. Flooding!TypeOK' /\ (Border \cap Background(tried) \subseteq mask)'
    BY <1>1 DEF FloodInv, Flooding!TypeOK, Flooding!TakeUp, Flooding!Found
  <2>2. TakenUp'
    BY <1>1 DEF FloodInv, Flooding!TypeOK, TakenUp, Held, Flooding!TakeUp, Flooding!Found, Adjacent
  <2>3. Flooding!OnlyConnected'
    <3> SUFFICES ASSUME NEW set \in SUBSET Pixels, Flooding!Closed(set)'
                 PROVE  mask' \subseteq set
      BY DEF Flooding!OnlyConnected
    <3>1. Flooding!Closed(set)
      BY <1>1 DEF Flooding!Closed, Flooding!TakeUp
    <3>2. mask \subseteq set /\ cell \in set
      BY <1>1, <3>1 DEF FloodInv, Flooding!OnlyConnected, Flooding!TypeOK, Flooding!TakeUp
    <3>3. Flooding!Found(cell) \subseteq set
      BY <3>1, <3>2 DEF Flooding!Found, Flooding!Closed
    <3> QED
      BY <1>1, <3>2, <3>3 DEF Flooding!TakeUp
  <2> QED
    BY <2>1, <2>2, <2>3 DEF FloodInv
<1>2. ASSUME Flooding!Restart
      PROVE  FloodInv'
  BY <1>2 DEF FloodInv, Flooding!TypeOK, TakenUp, Held, Flooding!OnlyConnected,
     Flooding!Closed, Flooding!Restart
<1>3. ASSUME UNCHANGED Flooding!vars
      PROVE  FloodInv'
  BY <1>3 DEF FloodInv, Flooding!TypeOK, TakenUp, Held, Flooding!OnlyConnected,
     Flooding!Closed, Flooding!vars
<1> QED
  BY <1>1, <1>2, <1>3 DEF Flooding!Next

\* When nothing is left to be taken up, the marked cells are the least set that contains
\* the open cells of the border and that no open neighbour leaves: a flood reaches what it
\* should, in whatever order cells are taken up (_build_background_mask).
THEOREM FloodReachesConnected ==
  FloodSpec => [](Flooding!OnlyConnected /\ Flooding!AllConnected)
<1>1. FloodInv => Flooding!OnlyConnected /\ Flooding!AllConnected
  BY DEF FloodInv, TakenUp, Held, Adjacent, Flooding!AllConnected, Flooding!Closed,
     Flooding!TypeOK
<1> QED
  BY <1>1, FloodInvInit, FloodInvNext, PTL DEF FloodSpec, Flooding!Spec

\* What the loops reach is the background that is connected with the edges and nothing else,
\* and when the queue is empty all of it.
THEOREM LogoReachesConnected ==
  Spec => [](Flooding!OnlyConnected /\ Flooding!AllConnected)
BY LogoFloods, FloodReachesConnected

-----------------------------------------------------------------------------
(* What is erased.  The reference Connected widens the border as often as there are pixels; *)
(* that this is often enough, and that it is what a flood reaches, takes inductions over the *)
(* number of widenings, each by a least counterexample.                                      *)

LEMMA Induction ==
  ASSUME NEW n \in Nat, NEW good, 0 \in good, \A i \in 0..n - 1 : i \in good => i + 1 \in good
  PROVE  0..n \subseteq good
<1> SUFFICES ASSUME 0..n \ good # {}
             PROVE  FALSE
  OBVIOUS
<1> DEFINE bad == 0..n \ good
           below == {pair \in Nat \X Nat : pair[1] < pair[2]}
<1>1. IsWellFoundedOn(below, Nat)
  BY NatLessThanWellFounded DEF OpToRel
<1>2. bad \subseteq Nat
  OBVIOUS
<1>3. PICK i \in bad : \A j \in bad : ~ (<<j, i>> \in below)
  <2> HIDE DEF bad, below
  <2>1. bad # {}
    BY DEF bad
  <2> QED
    BY <1>1, <1>2, <2>1, WFMin
<1>4. i \in 1..n /\ i - 1 \in 0..n - 1
  OBVIOUS
<1>5. <<i - 1, i>> \in below
  <2>1. i \in Nat /\ i - 1 \in Nat /\ i - 1 < i
    BY <1>4
  <2> QED
    BY <2>1
<1>6. i - 1 \notin bad
  <2> HIDE DEF bad, below
  <2> QED
    BY <1>3, <1>5
<1> QED
  BY <1>4, <1>6

Widen(n, cells) ==
  cells \cup {p \in Background(n) : Neighbours(p) \cap cells # {}}

WideUpTo(wide, n, last) ==
  wide = [i \in 0..last |-> IF i = 0 THEN Border \cap Background(n) ELSE Widen(n, wide[i - 1])]

\* The recursive function of Connected exists.
LEMMA WideExists ==
  ASSUME NEW n, NEW last \in Nat
  PROVE  \E wide : WideUpTo(wide, n, last)
<1> DEFINE good == {m \in 0..last : \E wide : WideUpTo(wide, n, m)}
<1>1. 0 \in good
  <2>1. WideUpTo([i \in 0..0 |-> Border \cap Background(n)], n, 0)
    BY DEF WideUpTo
  <2> QED
    BY <2>1
<1>2. ASSUME NEW m \in 0..last - 1, m \in good
      PROVE  m + 1 \in good
  <2>1. PICK wide : WideUpTo(wide, n, m)
    BY <1>2
  <2> DEFINE more == [i \in 0..m + 1 |-> IF i = m + 1 THEN Widen(n, wide[m]) ELSE wide[i]]
  <2>2. \A i \in 0..m : wide[i] = IF i = 0 THEN Border \cap Background(n)
                                           ELSE Widen(n, wide[i - 1])
    BY <2>1 DEF WideUpTo
  <2>3. /\ DOMAIN more = 0..m + 1
        /\ \A i \in 0..m : more[i] = wide[i]
        /\ more[m + 1] = Widen(n, wide[m])
    OBVIOUS
  <2>4. more = [i \in 0..m + 1 |-> more[i]]
    OBVIOUS
  <2> HIDE DEF more
  <2>5. \A i \in 0..m + 1 :
          more[i] = IF i = 0 THEN Border \cap Background(n) ELSE Widen(n, more[i - 1])
    <3> SUFFICES ASSUME NEW i \in 0..m + 1
                 PROVE  more[i] = IF i = 0 THEN Border \cap Background(n)
                                           ELSE Widen(n, more[i - 1])
      OBVIOUS
    <3>1. CASE i = m + 1
      BY <2>3, <3>1
    <3>2. CASE i \in 0..m
      <4>1. i # 0 => i - 1 \in 0..m
        BY <3>2
      <4> QED
        BY <2>2, <2>3, <3>2, <4>1
    <3> QED
      BY <3>1, <3>2
  <2>6. WideUpTo(more, n, m + 1)
    BY <2>4, <2>5 DEF WideUpTo
  <2>7. m + 1 \in 0..last
    OBVIOUS
  <2> QED
    BY <2>6, <2>7
<1> HIDE DEF good
<1>3. 0..last \subseteq good
  BY <1>1, <1>2, Induction
<1> QED
  BY <1>3 DEF good

\* A set of background pixels that the border starts and that no neighbour leaves.
Reaches(n, set) ==
  /\ Border \cap Background(n) \subseteq set
  /\ \A p \in set, q \in Background(n) : q \in Neighbours(p) => q \in set

LEMMA NeighboursSymmetric ==
  ASSUME NEW p \in Pixels, NEW q \in Pixels
  PROVE  q \in Neighbours(p) <=> p \in Neighbours(q)
<1>1. /\ p = <<p[1], p[2]>> /\ p[1] \in Int /\ p[2] \in Int
      /\ q = <<q[1], q[2]>> /\ q[1] \in Int /\ q[2] \in Int
  BY ImageAssumption DEF Pixels
<1>2. \A a, b \in Pixels :
        b \in Neighbours(a) <=>
          \/ b[1] = a[1] - 1 /\ b[2] = a[2]
          \/ b[1] = a[1] + 1 /\ b[2] = a[2]
          \/ b[1] = a[1] /\ b[2] = a[2] - 1
          \/ b[1] = a[1] /\ b[2] = a[2] + 1
  BY DEF Neighbours, Pixels
<1> QED
  BY <1>1, <1>2

\* What is widened often enough reaches no further: as long as it does, it grows.
LEMMA ConnectedIsLeast ==
  ASSUME NEW n
  PROVE  /\ Connected(n) \subseteq Background(n)
         /\ Reaches(n, Connected(n))
         /\ \A set \in SUBSET Pixels : Reaches(n, set) => Connected(n) \subseteq set
<1> DEFINE N == Cardinality(Pixels)
           wide == CHOOSE wide : WideUpTo(wide, n, N)
<1>1. N \in Nat /\ IsFiniteSet(Pixels)
  BY PixelsFinite, FS_CardinalityType
<1>2. Connected(n) = wide[N]
  BY DEF Connected, WideUpTo, Widen
<1>3. WideUpTo(wide, n, N)
  <2> HIDE DEF N
  <2> QED
    BY <1>1, WideExists
<1> HIDE DEF N, wide
<1>4. /\ wide[0] = Border \cap Background(n)
      /\ \A i \in 0..N - 1 : wide[i + 1] = Widen(n, wide[i])
  <2>1. \A i \in 0..N : wide[i] = IF i = 0 THEN Border \cap Background(n)
                                           ELSE Widen(n, wide[i - 1])
    BY <1>3 DEF WideUpTo
  <2>2. 0 \in 0..N
    BY <1>1
  <2>3. \A i \in 0..N - 1 : i + 1 \in 0..N /\ i + 1 # 0 /\ (i + 1) - 1 = i
    BY <1>1
  <2> QED
    BY <2>1, <2>2, <2>3
<1>5. \A i \in 0..N : wide[i] \subseteq Background(n)
  <2> DEFINE good == {i \in 0..N : wide[i] \subseteq Background(n)}
  <2>1. 0 \in good
    BY <1>1, <1>4
  <2>2. \A i \in 0..N - 1 : i \in good => i + 1 \in good
    BY <1>1, <1>4 DEF Widen
  <2> HIDE DEF good
  <2>3. 0..N \subseteq good
    BY <1>1, <2>1, <2>2, Induction
  <2> QED
    BY <2>3 DEF good
<1>6. ASSUME NEW set \in SUBSET Pixels, Reaches(n, set)
      PROVE  wide[N] \subseteq set
  <2> DEFINE good == {i \in 0..N : wide[i] \subseteq set}
  <2>1. 0 \in good
    BY <1>1, <1>4, <1>6 DEF Reaches
  <2>2. ASSUME NEW i \in 0..N - 1, i \in good
        PROVE  i + 1 \in good
    <3>1. Widen(n, wide[i]) \subseteq set
      BY <1>6, <2>2, BorderAndNeighbours, NeighboursSymmetric DEF Widen, Reaches
    <3> QED
      BY <1>1, <1>4, <3>1
  <2> HIDE DEF good
  <2>3. 0..N \subseteq good
    BY <1>1, <2>1, <2>2, Induction
  <2> QED
    BY <1>1, <2>3 DEF good
<1>7. Widen(n, wide[N]) = wide[N]
  <2> SUFFICES ASSUME Widen(n, wide[N]) # wide[N]
               PROVE  FALSE
    OBVIOUS
  <2>1. ASSUME NEW i \in 0..N, Widen(n, wide[i]) = wide[i]
        PROVE  FALSE
    <3> DEFINE good == {j \in 0..N - i : wide[i + j] = wide[i]}
    <3>1. 0 \in good /\ N - i \in Nat
      BY <1>1
    <3>2. ASSUME NEW j \in 0..(N - i) - 1, j \in good
          PROVE  j + 1 \in good
      <4>1. i + j \in 0..N - 1 /\ (i + j) + 1 = i + (j + 1) /\ j + 1 \in 0..N - i
        BY <1>1
      <4> QED
        BY <1>4, <2>1, <3>2, <4>1
    <3> HIDE DEF good
    <3>3. N - i \in good
      BY <3>1, <3>2, Induction
    <3>4. i + (N - i) = N
      BY <1>1
    <3> QED
      BY <2>1, <3>3, <3>4 DEF good
  <2> DEFINE good == {i \in 0..N : Cardinality(wide[i]) >= i + 1}
  <2>2. \A i \in 0..N : IsFiniteSet(wide[i]) /\ Cardinality(wide[i]) \in Nat
    BY <1>1, <1>5, BorderAndNeighbours, FS_Subset, FS_CardinalityType
  <2>3. 0 \in good
    <3>1. wide[0] # {}
      BY <1>1, <2>1 DEF Widen
    <3>2. Cardinality(wide[0]) # 0
      BY <1>1, <2>2, <3>1, FS_EmptySet
    <3> QED
      BY <1>1, <2>2, <3>2
  <2>4. ASSUME NEW i \in 0..N - 1, i \in good
        PROVE  i + 1 \in good
    <3>1. i \in 0..N /\ i + 1 \in 0..N
      BY <1>1
    <3>2. wide[i] \subseteq wide[i + 1] /\ wide[i] # wide[i + 1]
      BY <1>4, <2>1, <3>1 DEF Widen
    <3>3. Cardinality(wide[i]) < Cardinality(wide[i + 1])
      BY <2>2, <3>1, <3>2, FS_Subset
    <3> QED
      BY <2>2, <2>4, <3>1, <3>3
  <2>5. N \in good
    <3> HIDE DEF good
    <3> QED
      BY <1>1, <2>3, <2>4, Induction
  <2>6. Cardinality(wide[N]) <= N
    BY <1>1, <1>5, BorderAndNeighbours, FS_Subset DEF N
  <2> QED
    BY <1>1, <2>2, <2>5, <2>6
<1>8. Reaches(n, wide[N])
  <2>1. wide[0] \subseteq wide[N]
    <3> DEFINE good == {i \in 0..N : wide[0] \subseteq wide[i]}
    <3>1. 0 \in good
      BY <1>1
    <3>2. \A i \in 0..N - 1 : i \in good => i + 1 \in good
      BY <1>1, <1>4 DEF Widen
    <3> HIDE DEF good
    <3>3. 0..N \subseteq good
      BY <1>1, <3>1, <3>2, Induction
    <3> QED
      BY <1>1, <3>3 DEF good
  <2>2. ASSUME NEW p \in wide[N], NEW q \in Background(n), q \in Neighbours(p)
        PROVE  q \in wide[N]
    <3>1. p \in Neighbours(q)
      BY <1>1, <1>5, <2>2, BorderAndNeighbours, NeighboursSymmetric
    <3> QED
      BY <1>7, <2>2, <3>1 DEF Widen
  <2> QED
    BY <1>4, <2>1, <2>2 DEF Reaches
<1> QED
  BY <1>1, <1>2, <1>5, <1>6, <1>8

\* When the queue is empty, the mask is what the reference says.
LEMMA MaskIsConnected ==
  ASSUME LogoInv, FloodInv, queue = <<>>
  PROVE  mask = Connected(tried) /\ removed = Cardinality(mask)
<1>1. Held = {}
  BY DEF Held
<1>2. mask \subseteq Background(tried) /\ Background(tried) \subseteq Pixels
  BY BorderAndNeighbours DEF LogoInv
<1>3. ASSUME NEW set \in SUBSET Pixels
      PROVE  Flooding!Closed(set) <=> Reaches(tried, set)
  BY <1>2 DEF Flooding!Closed, Reaches
<1>4. Reaches(tried, mask)
  BY <1>1, <1>2 DEF FloodInv, TakenUp, Adjacent, Reaches
<1>5. Flooding!Closed(Connected(tried))
  BY <1>2, <1>3, ConnectedIsLeast
<1>6. mask \subseteq Connected(tried)
  BY <1>2, <1>5, ConnectedIsLeast DEF FloodInv, Flooding!OnlyConnected
<1>7. removed = Cardinality(mask)
  BY DEF LogoInv
<1> QED
  BY <1>2, <1>4, <1>6, <1>7, ConnectedIsLeast

FitsAt(n) == Fits(Cardinality(Connected(n)))

\* The thresholds before the present one do not fit; what is erased is of one that does.
ErasedInv ==
  /\ at \in {"fill", "done"}
  /\ at = "fill" => erased = {} /\ opaque /\ \A k \in 0..tried - 1 : ~FitsAt(k)
  /\ at = "done" /\ opaque =>
       \/ /\ erased = Connected(tried) /\ FitsAt(tried)
          /\ \A k \in 0..tried - 1 : ~FitsAt(k)
       \/ erased = {} /\ \A k \in 0..2 : ~FitsAt(k)

LEMMA ErasedInvNext ==
  LogoInv /\ FloodInv /\ ErasedInv /\ [Next]_vars => ErasedInv'
<1> SUFFICES ASSUME LogoInv, FloodInv, ErasedInv, [Next]_vars
             PROVE  ErasedInv'
  OBVIOUS
<1>0. tried \in 0..2
  BY DEF LogoInv
<1>1. UNCHANGED <<distance, spread, opaque>>
  BY DEF Next, vars, Grow, Erase, TryNext, LeaveOpaque
<1>2. \A k : Background(k)' = Background(k)
  BY <1>1 DEF Background
<1>3. \A k : Connected(k)' = Connected(k)
  BY <1>2 DEF Connected
<1>4. \A k : FitsAt(k)' = FitsAt(k)
  BY <1>3 DEF FitsAt, Fits
<1>5. queue = <<>> => (Fits(removed) <=> FitsAt(tried))
  BY MaskIsConnected DEF FitsAt
<1>6. CASE Grow \/ UNCHANGED vars
  <2>1. UNCHANGED <<opaque, tried, at, erased>>
    BY <1>6 DEF Grow, vars
  <2>2. Connected(tried)' = Connected(tried) /\ FitsAt(tried)' = FitsAt(tried)
    BY <1>2, <2>1 DEF Connected, FitsAt, Fits
  <2> QED
    BY <1>4, <2>1, <2>2 DEF ErasedInv
<1>7. CASE Erase
  <2>1. /\ UNCHANGED <<opaque, tried>> /\ at = "fill" /\ at' = "done"
        /\ erased' = mask /\ FitsAt(tried)
    BY <1>5, <1>7 DEF Erase
  <2>2. Connected(tried)' = Connected(tried) /\ FitsAt(tried)' = FitsAt(tried)
    BY <1>2, <2>1 DEF Connected, FitsAt, Fits
  <2>3. mask = Connected(tried)
    BY <1>7, MaskIsConnected DEF Erase
  <2> QED
    BY <1>4, <2>1, <2>2, <2>3 DEF ErasedInv
<1>8. CASE TryNext
  <2>1. /\ UNCHANGED <<opaque, at, erased>> /\ at = "fill" /\ tried' = tried + 1
        /\ ~FitsAt(tried)
    BY <1>5, <1>8 DEF TryNext
  <2>2. \A k \in 0..tried' - 1 : k \in 0..tried - 1 \/ k = tried
    BY <1>0, <2>1
  <2> QED
    BY <1>4, <2>1, <2>2 DEF ErasedInv
<1>9. CASE LeaveOpaque
  <2>1. /\ UNCHANGED <<opaque, tried, erased>> /\ at = "fill" /\ at' = "done"
        /\ tried = 2 /\ ~FitsAt(tried)
    BY <1>5, <1>9 DEF LeaveOpaque
  <2>2. \A k \in 0..2 : k \in 0..tried - 1 \/ k = tried
    BY <2>1
  <2> QED
    BY <1>4, <2>1, <2>2 DEF ErasedInv
<1> QED
  BY <1>6, <1>7, <1>8, <1>9 DEF Next

\* Whatever the image: what is erased is the connected background of the first threshold for
\* which that is neither next to nothing nor all of it (_create_transparent_png_variant), and
\* something of the logo remains.
THEOREM LogoErasesFirstFit ==
  Spec => []Inv
<1>1. Init => ErasedInv
  BY DEF Init, ErasedInv
<1>2. LogoInv /\ ErasedInv => ErasesFirstFit
  <2> SUFFICES ASSUME LogoInv, ErasedInv, at = "done", opaque
               PROVE  LET fit == {n \in 0..2 : FitsAt(n)}
                      IN  IF fit = {} THEN erased = {}
                                      ELSE erased = Connected(CHOOSE n \in fit :
                                                                  \A k \in fit : n <= k)
    BY DEF ErasesFirstFit, FitsAt
  <2> DEFINE fit == {n \in 0..2 : FitsAt(n)}
             first == CHOOSE n \in fit : \A k \in fit : n <= k
  <2>1. CASE erased = {} /\ \A k \in 0..2 : ~FitsAt(k)
    BY <2>1
  <2>2. CASE erased = Connected(tried) /\ FitsAt(tried) /\ \A k \in 0..tried - 1 : ~FitsAt(k)
    <3>1. tried \in 0..2 /\ tried \in fit
      BY <2>2 DEF LogoInv
    <3>2. \A k \in fit : k \in 0..2 /\ tried <= k
      BY <2>2, <3>1
    <3>3. first \in fit /\ \A k \in fit : first <= k
      BY <3>1, <3>2
    <3>4. first = tried
      BY <3>1, <3>2, <3>3
    <3> QED
      BY <2>2, <3>1, <3>4
  <2> QED
    BY <2>1, <2>2 DEF ErasedInv
<1>3. Spec => []LogoInv
  BY LogoInvInit, LogoInvNext, PTL DEF Spec
<1>4. Spec => []FloodInv
  BY LogoFloods, FloodInvInit, FloodInvNext, PTL DEF FloodSpec, Flooding!Spec
<1>5. TypeOK /\ ErasesFirstFit /\ LogoRemains => Inv
  BY DEF Inv
<1> QED
  BY <1>1, <1>2, <1>3, <1>4, <1>5, ErasedInvNext, LogoTyped, LogoIsNeverErased, PTL DEF Spec
=============================================================================
