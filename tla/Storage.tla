------------------------------ MODULE Storage ------------------------------
(***************************************************************************)
(* Uploads to PocketBase (app/core/storage.py).  All uploads of a process  *)
(* share a token and the asyncio.Lock around it, but every upload runs in  *)
(* a thread with an event loop of its own (asyncio.run in                  *)
(* logo_generation.py).  asyncio.Lock is not made for that: it is plain    *)
(* Python that other threads interrupt between any two reads and writes,   *)
(* it belongs to the loop of the first upload that has to wait, and its    *)
(* release does not wake a loop that sleeps in another thread.             *)
(***************************************************************************)
EXTENDS Integers

CONSTANTS
  Threads,        \* threads that upload, one file at a time
  MaxOutages      \* bound: times the token is lost, by age or by the server

VARIABLES
  token,          \* _cached_token: none, valid, or no longer accepted
  locked,         \* _TOKEN_LOCK._locked
  bound,          \* has an upload that waits bound the lock to its loop
  waiter,         \* _waiters: that upload, while it is in the queue, or Nobody
  woken,          \* has the future it waits for been set
  up,             \* the upload of each thread
  got,            \* the token each upload has been given
  outages,
  overlapped      \* history: two uploads were under way at once

lockVars == <<locked, bound, waiter, woken>>
storageVars == <<token, lockVars, up, got, outages, overlapped>>

Nobody == "nobody"
ASSUME ThreadsAssumption == Nobody \notin Threads /\ MaxOutages \in Nat

\* raised: a RuntimeError left upload_file; failed: upload_file returned None.
UploadState ==
  {"idle", "token", "queue", "take", "enter", "append", "wait", "asleep",
   "check", "signin", "leave", "clear", "hand",
   "post", "stored", "failed", "raised"}

StorageInit ==
  /\ token = "none" /\ locked = FALSE /\ waiter = Nobody /\ woken = FALSE
  /\ bound = FALSE /\ outages = 0 /\ overlapped = FALSE
  /\ up = [t \in Threads |-> "idle"]
  /\ got = [t \in Threads |-> "none"]

UploadAt(t, state) == up[t] = state
Moves(t, state) == up' = [up EXCEPT ![t] = state]

\* A step of upload t that changes nothing but where t is.
Goes(t, from, to) ==
  /\ UploadAt(t, from) /\ Moves(t, to)
  /\ UNCHANGED <<token, lockVars, got, outages, overlapped>>

\* upload_file is called in a new event loop.
StartUpload(t) ==
  /\ UploadAt(t, "idle") /\ Moves(t, "token")
  /\ overlapped' = (overlapped \/ \E v \in Threads \ {t} : ~UploadAt(v, "idle"))
  /\ UNCHANGED <<token, lockVars, got, outages>>

-----------------------------------------------------------------------------
(* async with _TOKEN_LOCK: Lock.acquire *)

TestLocked(t) == Goes(t, "token", IF locked THEN "enter" ELSE "queue")

TestWaiters(t) == Goes(t, "queue", IF waiter # Nobody THEN "enter" ELSE "take")

\* Whoever else has taken the lock since the test.
Take(t) ==
  /\ UploadAt(t, "take") /\ Moves(t, "check")
  /\ locked' = TRUE
  /\ UNCHANGED <<token, bound, waiter, woken, got, outages, overlapped>>

\* The first upload that has to wait binds the lock to its loop ...
Bind(t) ==
  /\ UploadAt(t, "enter") /\ ~bound /\ Moves(t, "append")
  /\ bound' = TRUE
  /\ UNCHANGED <<token, locked, waiter, woken, got, outages, overlapped>>

\* ... for good: "is bound to a different event loop" for every later one.
BindRaises(t) == bound /\ Goes(t, "enter", "raised")

\* A release since the test is lost.
AppendWaiter(t) ==
  /\ UploadAt(t, "append") /\ Moves(t, "wait")
  /\ waiter' = t
  /\ UNCHANGED <<token, locked, bound, woken, got, outages, overlapped>>

\* The loop of a waiter has nothing else to run: it sleeps until an event of its
\* own, and the release in another thread is none.
Sleep(t) == ~woken /\ Goes(t, "wait", "asleep")

\* A waiter that was woken before it slept leaves the queue; it takes the lock
\* as a step of its own.
Wake(t) ==
  /\ UploadAt(t, "wait") /\ woken /\ Moves(t, "take")
  /\ waiter' = Nobody
  /\ UNCHANGED <<token, locked, bound, woken, got, outages, overlapped>>

-----------------------------------------------------------------------------
(* _get_pb_token under the lock *)

\* The cached token is used for twelve hours, whatever the server thinks of it.
UseCachedToken(t) ==
  /\ UploadAt(t, "check") /\ token # "none" /\ Moves(t, "leave")
  /\ got' = [got EXCEPT ![t] = token]
  /\ UNCHANGED <<token, lockVars, outages, overlapped>>

BeginSignIn(t) == token = "none" /\ Goes(t, "check", "signin")

SignInSucceeds(t) ==
  /\ UploadAt(t, "signin") /\ Moves(t, "leave")
  /\ token' = "valid"
  /\ got' = [got EXCEPT ![t] = "valid"]
  /\ UNCHANGED <<lockVars, outages, overlapped>>

\* Mutant of SignInFails: the lock is not released on an error.
SignInFailsInside(t) == Goes(t, "signin", "failed")

SignInFails(t) == Goes(t, "signin", "leave")

-----------------------------------------------------------------------------
(* The end of the `async with`: Lock.release *)

\* Another upload that was inside too may have released the lock already:
\* "Lock is not acquired."
Leave(t) == Goes(t, "leave", IF locked THEN "clear" ELSE "raised")

Clear(t) ==
  /\ UploadAt(t, "clear") /\ Moves(t, "hand")
  /\ locked' = FALSE
  /\ UNCHANGED <<token, bound, waiter, woken, got, outages, overlapped>>

\* _wake_up_first: a waiter whose future is not done is woken.  (One step: of two
\* releases that look at the future at once the second would raise, as in Leave.)
Hand(t) ==
  /\ UploadAt(t, "hand")
  /\ Moves(t, IF got[t] = "none" THEN "failed" ELSE "post")
  /\ woken' = (woken \/ waiter # Nobody)
  /\ UNCHANGED <<token, locked, bound, waiter, got, outages, overlapped>>

-----------------------------------------------------------------------------
(* The upload itself. *)

\* An error, or a token that is not accepted any more, makes upload_file return
\* None; the token stays cached.
Post(t) ==
  \/ got[t] = "valid" /\ Goes(t, "post", "stored")
  \/ Goes(t, "post", "failed")

\* The caller takes the result and its loop is closed.
EndUpload(t) ==
  /\ up[t] \in {"stored", "failed", "raised"} /\ Moves(t, "idle")
  /\ got' = [got EXCEPT ![t] = "none"]
  /\ UNCHANGED <<token, lockVars, outages, overlapped>>

-----------------------------------------------------------------------------
(* Time and the server. *)

\* Twelve hours pass.
TokenExpires ==
  /\ outages < MaxOutages /\ outages' = outages + 1
  /\ token' = "none"
  /\ UNCHANGED <<lockVars, up, got, overlapped>>

\* The server stops accepting the tokens it has given.
TokenRefused ==
  /\ outages < MaxOutages /\ outages' = outages + 1
  /\ token = "valid" /\ token' = "refused"
  /\ got' = [t \in Threads |-> IF got[t] = "valid" THEN "refused" ELSE got[t]]
  /\ UNCHANGED <<lockVars, up, overlapped>>

UploadStep(t) ==
  \/ TestLocked(t) \/ TestWaiters(t) \/ Take(t)
  \/ Bind(t) \/ BindRaises(t) \/ AppendWaiter(t) \/ Sleep(t) \/ Wake(t)
  \/ UseCachedToken(t) \/ BeginSignIn(t) \/ SignInSucceeds(t) \/ SignInFails(t)
  \/ Leave(t) \/ Clear(t) \/ Hand(t) \/ Post(t)

StorageEnvironment == TokenExpires \/ TokenRefused

-----------------------------------------------------------------------------
(* Properties *)

StorageTypeOK ==
  /\ token \in {"none", "valid", "refused"}
  /\ locked \in BOOLEAN /\ bound \in BOOLEAN /\ woken \in BOOLEAN
  /\ overlapped \in BOOLEAN
  /\ waiter \in Threads \cup {Nobody} /\ outages \in 0..MaxOutages
  /\ up \in [Threads -> UploadState]
  /\ got \in [Threads -> {"none", "valid", "refused"}]

\* Two uploads may be inside at once, and then one release may serve both; but
\* the lock is never left locked by uploads that have all left (async with
\* _TOKEN_LOCK, storage.py:39): who hangs has missed a release, not the lock.
LockIsLeft ==
  locked => \E t \in Threads : up[t] \in {"check", "signin", "leave", "clear"}

\* Uploads of which no two were ever under way at once never wait for the lock,
\* hang in it, or raise.
LoneUploadsAreFine ==
  ~overlapped =>
    \A t \in Threads : up[t] \notin {"enter", "append", "wait", "asleep", "raised"}

Overlap == \E t, v \in Threads : t # v /\ up[t] # "idle" /\ up[v] # "idle"

=============================================================================
