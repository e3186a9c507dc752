---------------------------- MODULE FailureAlerts ----------------------------
(***************************************************************************)
(* The sending of failure alerts (app/core/failure_alerts.py:49-72 and     *)
(* 133-156, 224-329).  Every failed request leaves one background task     *)
(* that mails an alert.  The tasks run in the threads of one process and   *)
(* share a rate limiter: a deque of the latest send slots and the end of   *)
(* the provider's cooldown, both under one lock.  The clock is read before *)
(* the lock is taken, so that a thread may come with an old time.          *)
(***************************************************************************)
EXTENDS Integers, Sequences, FiniteSets

CONSTANTS
  Alerts,         \* bound: the alerts that are queued
  Window,         \* RATE_LIMIT_WINDOW_SECONDS
  MaxSends,       \* MAX_SENDS_PER_WINDOW
  MaxAttempts,    \* MAX_RETRY_ATTEMPTS
  DefaultRetry,   \* DEFAULT_RETRY_AFTER_SECONDS
  MaxRetry,       \* MAX_RETRY_AFTER_SECONDS
  RetryAfters,    \* what the provider may ask for
  MaxClock        \* bound: the clock

ASSUME ParametersAssumption ==
  /\ Window \in Nat
  /\ MaxSends \in Nat \ {0} /\ MaxAttempts \in Nat \ {0}
  /\ DefaultRetry \in Nat /\ MaxRetry \in Nat /\ DefaultRetry <= MaxRetry
  /\ RetryAfters \subseteq Nat
  /\ MaxClock \in Nat

VARIABLES
  clock,          \* time.monotonic()
  slots,          \* the deque of scheduled send times
  cooldown,       \* PROVIDER_COOLDOWN_UNTIL
  sender,         \* the background task of each alert
  reserved        \* history: every slot reserved so far

alertsVars == <<clock, slots, cooldown, sender, reserved>>

\* `now` is the clock as the sender read it, `until` when its sleep ends, and
\* `notBefore` (history) the earliest retry that the provider allowed it.
Sender ==
  [pc : {"wait", "lock", "sleep", "limited", "done"},
   attempt : 1..MaxAttempts,
   now : Nat, until : Nat, retryAfter : Nat, notBefore : Nat]

NewSender == [pc |-> "wait", attempt |-> 1, now |-> 0, until |-> 0,
              retryAfter |-> 0, notBefore |-> 0]

\* A sender waits for its response to be sent, for a thread and for its first slot.
AlertsInit ==
  /\ clock = 0
  /\ slots = <<>>
  /\ cooldown = 0
  /\ sender = [a \in Alerts |-> NewSender]
  /\ reserved = <<>>

-----------------------------------------------------------------------------

Later(s, t) == IF s < t THEN t ELSE s
Sooner(s, t) == IF s < t THEN s ELSE t

\* deque(maxlen=MaxSends).append
Push(deque, t) ==
  LET longer == Append(deque, t)
  IN  IF Len(longer) > MaxSends THEN Tail(longer) ELSE longer

\* _reserve_failure_alert_send_delay, before the lock ...
ReadClock(a) ==
  /\ sender[a].pc = "wait"
  /\ sender' = [sender EXCEPT ![a] = [@ EXCEPT !.pc = "lock", !.now = clock]]
  /\ UNCHANGED <<clock, slots, cooldown, reserved>>

\* Mutant of Slot: the deque never holds more than MaxSends.
SlotOffByOne(now) ==
  LET free == Later(now, cooldown)
  IN  IF Len(slots) > MaxSends THEN Later(free, slots[1] + Window) ELSE free

\* The slot of a sender that has read the clock at `now`.
Slot(now) ==
  LET free == Later(now, cooldown)
  IN  IF Len(slots) >= MaxSends THEN Later(free, slots[1] + Window) ELSE free

\* ... and under it; then the sleep, for as long as the slot is away from `now`.
Reserve(a) ==
  LET slot == Slot(sender[a].now)
  IN  /\ sender[a].pc = "lock"
      /\ slots' = Push(slots, slot)
      /\ reserved' = Append(reserved, slot)
      /\ sender' = [sender EXCEPT ![a] =
                      [@ EXCEPT !.pc = "sleep", !.now = 0,
                                !.until = clock + (slot - sender[a].now)]]
      /\ UNCHANGED <<clock, cooldown>>

Awake(a) == sender[a].pc = "sleep" /\ sender[a].until <= clock

\* The mail is sent, or fails for good: no rate limit, or no attempt is left.
Settle(a) ==
  /\ Awake(a)
  /\ sender' = [sender EXCEPT ![a] = [NewSender EXCEPT !.pc = "done"]]
  /\ UNCHANGED <<clock, slots, cooldown, reserved>>

\* Mutant of CanRetry: one attempt too many.
CanRetryOnceMore(a) == sender[a].attempt <= MaxAttempts

CanRetry(a) == sender[a].attempt < MaxAttempts

\* The provider answers 429 and says when to try again.
RateLimited(a, retryAfter) ==
  /\ Awake(a)
  /\ CanRetry(a)
  /\ sender' = [sender EXCEPT ![a] =
                  [@ EXCEPT !.pc = "limited", !.until = 0, !.retryAfter = retryAfter]]
  /\ UNCHANGED <<clock, slots, cooldown, reserved>>

\* Mutant of Bounded: the upper bound is forgotten.
BoundedBelow(retryAfter) == Later(DefaultRetry, retryAfter)

Bounded(retryAfter) == Later(DefaultRetry, Sooner(retryAfter, MaxRetry))

\* Mutant of Extended: the latest answer counts, also when it is shorter.
Replaced(until) == until

Extended(until) == Later(cooldown, until)

\* _set_failure_alert_provider_cooldown, and the next attempt.
SetCooldown(a) ==
  LET until == clock + Bounded(sender[a].retryAfter)
  IN  /\ sender[a].pc = "limited"
      /\ cooldown' = Extended(until)
      /\ sender' = [sender EXCEPT ![a] =
                      [@ EXCEPT !.pc = "wait", !.attempt = sender[a].attempt + 1,
                                !.retryAfter = 0, !.notBefore = until]]
      /\ UNCHANGED <<clock, slots, reserved>>

Tick ==
  /\ clock < MaxClock
  /\ clock' = clock + 1
  /\ UNCHANGED <<slots, cooldown, sender, reserved>>

SenderStep(a) ==
  \/ ReadClock(a) \/ Reserve(a) \/ Settle(a) \/ SetCooldown(a)
  \/ \E retryAfter \in RetryAfters : RateLimited(a, retryAfter)

AlertsNext == Tick \/ \E a \in Alerts : SenderStep(a)

AlertsSpec == AlertsInit /\ [][AlertsNext]_alertsVars

-----------------------------------------------------------------------------
(* Properties *)

AlertsTypeOK ==
  /\ clock \in Nat
  /\ slots \in Seq(Nat)
  /\ cooldown \in Nat
  /\ sender \in [Alerts -> Sender]
  /\ reserved \in Seq(Nat)

\* No window contains more than MaxSends slots, in whatever order the threads
\* get the lock and however old the time they bring along.
WindowLimit ==
  \A i \in DOMAIN reserved :
    Cardinality({j \in DOMAIN reserved :
                   reserved[i] <= reserved[j] /\ reserved[j] < reserved[i] + Window})
      <= MaxSends

\* A sender that was told to wait does not try again before, also when another
\* sender is told to wait for a shorter time meanwhile.
RetryHonoured ==
  \A a \in Alerts : sender[a].pc = "sleep" => sender[a].notBefore <= sender[a].until

\* The schedule does not run away: a slot lies at most the longest cooldown
\* ahead, and a window for every MaxSends slots reserved before it.
ScheduleIsBounded ==
  \A i \in DOMAIN reserved :
    reserved[i] <= clock + MaxRetry + Window * ((i - 1) \div MaxSends)

=============================================================================
