--------------------------- MODULE RazorpayClient ---------------------------
(***************************************************************************)
(* antar/signals/razorpay_client.py: RazorpayClient.request, its retry     *)
(* loop and its CircuitBreaker, for the calls that change state at the     *)
(* provider.  The network may lose a request, lose its answer, or deliver  *)
(* it after the client has given up on it.                                 *)
(***************************************************************************)
EXTENDS Integers

CONSTANTS
  Keys,                       \* the idempotency keys of the callers' requests
  MaxAttempts,                \* RetryPolicy.max_attempts
  Threshold, ResetAfter,      \* failure_threshold and reset_after_seconds
  MaxTime, MaxRequests        \* bounds of the model

ASSUME ClientConstants ==
  /\ MaxAttempts \in Nat \ {0} /\ Threshold \in Nat \ {0} /\ ResetAfter \in Nat
  /\ MaxTime \in Nat /\ MaxRequests \in Nat

VARIABLES
  now,              \* time.monotonic()
  failures,         \* breaker._failures
  openedAt,         \* breaker._opened_at, or Never
  stage,            \* idle, or in request: attempt, wire, sleep
  key, attempt,     \* the request in progress
  told,             \* how the last request with each key ended
  lastSent,         \* auxiliary: when the client last used the network
  requests,
  taken, acts,      \* external: tokens acted upon, and effects of each key
  late              \* external: requests the client gave up on, still under way

breaker == <<failures, openedAt>>
loop == <<stage, key, attempt, requests>>
world == <<taken, acts, late>>
vars == <<now, breaker, loop, told, lastSent, world>>

Never == -1
NoKey == "none"
Outcomes == {"nothing", "asked", "ok", "undecodable", "rejected", "failed",
             "circuit_open"}

\* Mutant of Token: every attempt has a key of its own.
TokenPerAttempt(k) == <<k, attempt>>

\* The idempotency header of every attempt of a request with key k.
Token(k) == <<k, "idem">>

Init ==
  /\ now = 0 /\ failures = 0 /\ openedAt = Never
  /\ stage = "idle" /\ key = NoKey /\ attempt = 0 /\ requests = 0
  /\ told = [k \in Keys |-> "nothing"]
  /\ lastSent = Never
  /\ taken = {} /\ acts = [k \in Keys |-> 0] /\ late = {}

-----------------------------------------------------------------------------
(* CircuitBreaker.                                                          *)

Open == openedAt # Never /\ now - openedAt < ResetAfter

RecordSuccess == failures' = 0 /\ openedAt' = Never

RecordFailure ==
  /\ failures' = failures + 1
  /\ openedAt' = IF failures + 1 >= Threshold THEN now ELSE openedAt

-----------------------------------------------------------------------------
(* The provider.                                                            *)

\* external: it acts on a token it has not seen.
Act(t) ==
  /\ t \notin taken
  /\ taken' = taken \cup {t}
  /\ acts' = [acts EXCEPT ![t[1]] = @ + 1]

\* A request the client gave up on arrives after all.
LateArrival(t) ==
  /\ t \in late
  /\ late' = late \ {t}
  /\ Act(t) \/ UNCHANGED <<taken, acts>>
  /\ UNCHANGED <<now, breaker, loop, told, lastSent>>

-----------------------------------------------------------------------------
(* request.                                                                 *)

Request(k) ==
  /\ stage = "idle" /\ requests < MaxRequests
  /\ stage' = "attempt" /\ key' = k /\ attempt' = 1
  /\ requests' = requests + 1
  /\ told' = [told EXCEPT ![k] = "asked"]
  /\ UNCHANGED <<now, breaker, lastSent, world>>

\* The request ends and its outcome reaches the caller.
End(outcome) ==
  /\ stage' = "idle" /\ key' = NoKey /\ attempt' = 0
  /\ told' = [told EXCEPT ![key] = outcome]
  /\ UNCHANGED requests

\* Mutant of CircuitOpen: an open breaker is waited for, without raising.
CircuitOpenWaits ==
  /\ stage = "attempt" /\ Open
  /\ stage' = "sleep" /\ attempt' = attempt - 1
  /\ UNCHANGED <<now, breaker, key, requests, told, lastSent, world>>

\* before_request raises CircuitOpenError, on the first attempt or a later one.
CircuitOpen ==
  /\ stage = "attempt" /\ Open
  /\ End("circuit_open")
  /\ UNCHANGED <<now, breaker, lastSent, world>>

Send ==
  /\ stage = "attempt" /\ ~Open
  /\ stage' = "wire" /\ lastSent' = now
  /\ UNCHANGED <<now, breaker, key, attempt, requests, told, world>>

\* external: a token it has acted on is answered with what it did then (the
\* orders of the test-mode run) or with an error (is_duplicate_charge).
ActOrReplay(t) == Act(t) \/ (t \in taken /\ UNCHANGED <<taken, acts>>)

\* An answer below 400; _decode raises when its body is not JSON.
Success(outcome) ==
  /\ stage = "wire" /\ outcome \in {"ok", "undecodable"}
  /\ ActOrReplay(Token(key)) /\ UNCHANGED late
  /\ RecordSuccess
  /\ End(outcome)
  /\ UNCHANGED <<now, lastSent>>

\* Mutant of Rejected: an error answer passes for a success.
RejectedPasses ==
  /\ stage = "wire"
  /\ RecordSuccess
  /\ End("ok")
  /\ UNCHANGED <<now, lastSent, world>>

\* Any other answer below 500: a genuine refusal, or the error for a token that
\* has been acted on.  Not retried, but counted.
Rejected ==
  /\ stage = "wire"
  /\ RecordFailure
  /\ End("rejected")
  /\ UNCHANGED <<now, lastSent, world>>

\* After a retryable failure: sleep, unless this was the last attempt.
Retry ==
  IF attempt = MaxAttempts THEN End("failed")
  ELSE stage' = "sleep" /\ UNCHANGED <<key, attempt, requests, told>>

\* A 429 or a 5xx, with or without an effect, or no answer at all: then the
\* request may also still be under way.
Failure ==
  /\ stage = "wire"
  /\ \/ UNCHANGED world
     \/ Act(Token(key)) /\ UNCHANGED late
     \/ late' = late \cup {Token(key)} /\ UNCHANGED <<taken, acts>>
  /\ RecordFailure
  /\ Retry
  /\ UNCHANGED <<now, lastSent>>

WakeUp ==
  /\ stage = "sleep"
  /\ stage' = "attempt" /\ attempt' = attempt + 1
  /\ UNCHANGED <<now, breaker, key, requests, told, lastSent, world>>

Tick ==
  /\ now < MaxTime
  /\ now' = now + 1
  /\ UNCHANGED <<breaker, loop, told, lastSent, world>>

Answered == (\E outcome \in Outcomes : Success(outcome)) \/ Rejected \/ Failure

Next ==
  \/ \E k \in Keys : Request(k)
  \/ CircuitOpen \/ Send \/ Answered \/ WakeUp
  \/ \E t \in late : LateArrival(t)
  \/ Tick

Spec == Init /\ [][Next]_vars

\* The loop of request runs on: every attempt ends by the client's timeout and
\* every sleep ends.  Nothing is assumed of the provider or of late requests.
FairSpec == Spec /\ WF_vars(CircuitOpen \/ Send \/ Answered \/ WakeUp)

-----------------------------------------------------------------------------
(* Properties.                                                              *)

\* The type invariant of the client.
TypeOK ==
  /\ now \in 0 .. MaxTime /\ failures \in Nat /\ openedAt \in {Never} \cup 0 .. now
  /\ stage \in {"idle", "attempt", "wire", "sleep"}
  /\ stage = "idle" => key = NoKey /\ attempt = 0
  /\ stage # "idle" => key \in Keys /\ attempt \in 1 .. MaxAttempts
  /\ stage = "sleep" => attempt < MaxAttempts
  /\ told \in [Keys -> Outcomes]
  /\ lastSent \in {Never} \cup 0 .. now
  /\ requests \in 0 .. MaxRequests
  /\ taken \subseteq {Token(k) : k \in Keys} /\ late \subseteq {Token(k) : k \in Keys}
  /\ acts \in [Keys -> Nat]

\* A key has one effect, whatever is retried, re-requested or delivered late.
EffectAtMostOnce == \A k \in Keys : acts[k] <= 1

\* From the failure that opens the breaker until its window has passed, the
\* client does not touch the network - also not for the attempts that remain
\* of the request that opened it.
QuietWhileOpen == Open => lastSent <= openedAt

\* What the caller makes of an outcome: a result, or an exception.
Meaning(o) ==
  CASE o \in {"nothing", "asked"} -> o [] o = "ok" -> "success" [] OTHER -> "error"

\* The client implements RemoteCall.
Call == INSTANCE RemoteCall WITH
  effects <- acts,
  told <- [k \in Keys |-> Meaning(told[k])]

ImplementsRemoteCall == Call!Spec

\* Every request ends, however the network behaves.
RequestsEnd == stage # "idle" ~> stage = "idle"

=============================================================================
