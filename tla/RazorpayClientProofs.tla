------------------------ MODULE RazorpayClientProofs ------------------------
(***************************************************************************)
(* Machine-checked facts about RazorpayClient, for any keys, any retry     *)
(* policy and any breaker.  ClientInv ties the provider's tokens to the    *)
(* effects and to what the callers have been told.                         *)
(***************************************************************************)
EXTENDS RazorpayClient, TLAPS

\* Init establishes the type invariant.
LEMMA InitType == Init => TypeOK
BY ClientConstants DEF Init, TypeOK, Outcomes, Never

\* Ending a request keeps the loop's state and the outcomes in their types.
LEMMA EndType ==
  ASSUME TypeOK, NEW o \in Outcomes, End(o)
  PROVE  /\ stage' = "idle" /\ key' = NoKey /\ attempt' = 0
         /\ requests' = requests /\ told' \in [Keys -> Outcomes]
BY DEF TypeOK, End

\* Acting on the token of a key keeps the provider's state in its type.
LEMMA ActType ==
  ASSUME TypeOK, NEW k \in Keys, Act(Token(k))
  PROVE  /\ taken' \subseteq {Token(j) : j \in Keys}
         /\ acts' \in [Keys -> Nat]
         /\ acts' = [acts EXCEPT ![k] = @ + 1]
BY DEF TypeOK, Act, Token

\* Counting a failure keeps the breaker in its type.
LEMMA FailureType ==
  ASSUME TypeOK, RecordFailure, UNCHANGED now
  PROVE  failures' \in Nat /\ openedAt' \in {Never} \cup 0 .. now'
BY DEF TypeOK, RecordFailure

\* Every step preserves the type invariant.
LEMMA NextType == TypeOK /\ [Next]_vars => TypeOK'
<1> SUFFICES ASSUME TypeOK, [Next]_vars PROVE TypeOK'
  OBVIOUS
<1> USE ClientConstants
<1>1. ASSUME NEW k \in Keys, Request(k) PROVE TypeOK'
  BY <1>1 DEF Request, TypeOK, Outcomes, breaker, world
<1>2. CASE CircuitOpen
  <2>1. End("circuit_open") /\ "circuit_open" \in Outcomes
    BY <1>2 DEF CircuitOpen, Outcomes
  <2>. QED  BY <1>2, <2>1, EndType DEF CircuitOpen, TypeOK, breaker, world
<1>3. CASE Send
  BY <1>3 DEF Send, TypeOK, breaker, world
<1>4. ASSUME NEW o \in Outcomes, Success(o) PROVE TypeOK'
  <2>1. key \in Keys
    BY <1>4 DEF Success, TypeOK
  <2>. QED
    BY <1>4, <2>1, EndType, ActType DEF Success, ActOrReplay, RecordSuccess, TypeOK
<1>5. CASE Rejected
  <2>1. End("rejected") /\ "rejected" \in Outcomes
    BY <1>5 DEF Rejected, Outcomes
  <2>. QED  BY <1>5, <2>1, EndType, FailureType DEF Rejected, TypeOK, world
<1>6. CASE Failure
  <2>1. key \in Keys /\ attempt \in 1 .. MaxAttempts
    BY <1>6 DEF Failure, TypeOK
  <2>2. /\ taken' \subseteq {Token(k) : k \in Keys}
        /\ late' \subseteq {Token(k) : k \in Keys}
        /\ acts' \in [Keys -> Nat]
    BY <1>6, <2>1, ActType DEF Failure, TypeOK, world
  <2>3. failures' \in Nat /\ openedAt' \in {Never} \cup 0 .. now'
    BY <1>6, FailureType DEF Failure
  <2>4. CASE attempt = MaxAttempts
    <3>1. End("failed") /\ "failed" \in Outcomes
      BY <1>6, <2>4 DEF Failure, Retry, Outcomes
    <3>. QED  BY <1>6, <2>2, <2>3, <3>1, EndType DEF Failure, TypeOK
  <2>5. CASE attempt # MaxAttempts
    BY <1>6, <2>1, <2>2, <2>3, <2>5 DEF Failure, Retry, TypeOK
  <2>. QED  BY <2>4, <2>5
<1>7. CASE WakeUp
  BY <1>7 DEF WakeUp, TypeOK, breaker, world
<1>8. ASSUME NEW t \in late, LateArrival(t) PROVE TypeOK'
  <2>1. PICK k \in Keys : t = Token(k)
    BY DEF TypeOK
  <2>. QED
    BY <1>8, <2>1, ActType DEF LateArrival, TypeOK, breaker, loop
<1>9. CASE Tick
  BY <1>9 DEF Tick, TypeOK, breaker, loop, world
<1>10. CASE UNCHANGED vars
  BY <1>10 DEF vars, TypeOK, breaker, loop, world
<1>. QED
  BY <1>1, <1>2, <1>3, <1>4, <1>5, <1>6, <1>7, <1>8, <1>9, <1>10
     DEF Next, Answered

\* The client's state keeps its type in every reachable state.
THEOREM ClientTypeCorrect == Spec => []TypeOK
BY InitType, NextType, PTL DEF Spec

-----------------------------------------------------------------------------
(* The breaker.                                                             *)

\* If a moment is within a window of another, an earlier one is too.
LEMMA EarlierIsNearer ==
  \A a, b, c, r \in Int : a <= b /\ b - c < r => a - c < r
OBVIOUS

\* Nothing is sent between the failure that opens the breaker and the end of
\* its window (razorpay_client.py, before_request inside the retry loop).
THEOREM BreakerKeepsQuiet == Spec => []QuietWhileOpen
<1>1. Init => QuietWhileOpen
  BY DEF Init, QuietWhileOpen, Open
<1>2. TypeOK /\ TypeOK' /\ QuietWhileOpen /\ [Next]_vars => QuietWhileOpen'
  <2> SUFFICES ASSUME TypeOK, TypeOK', QuietWhileOpen, [Next]_vars, Open'
               PROVE  lastSent' <= openedAt'
    BY DEF QuietWhileOpen
  <2>1. /\ now \in Int /\ now' \in Int /\ ResetAfter \in Int
        /\ openedAt \in Int /\ lastSent \in Int /\ lastSent <= now
    BY ClientConstants DEF TypeOK, Never
  <2>2. ASSUME UNCHANGED <<breaker, lastSent>>, now <= now'
        PROVE  lastSent' <= openedAt'
    <3>1. openedAt' = openedAt /\ lastSent' = lastSent
      BY <2>2 DEF breaker
    <3>2. openedAt # Never /\ now' - openedAt < ResetAfter
      BY <3>1 DEF Open
    <3>3. now <= now' /\ now' - openedAt < ResetAfter
      BY <2>2, <3>2
    <3>4. now - openedAt < ResetAfter
      BY <2>1, <3>3, EarlierIsNearer
    <3>. QED  BY <3>1, <3>2, <3>4 DEF QuietWhileOpen, Open
  <2>3. CASE Send
    BY <2>3 DEF Send, Open, breaker
  <2>4. CASE \E o \in Outcomes : Success(o)
    BY <2>4 DEF Success, RecordSuccess, Open
  <2>5. ASSUME RecordFailure, UNCHANGED <<now, lastSent>>
        PROVE  lastSent' <= openedAt'
    BY <2>1, <2>5 DEF RecordFailure, QuietWhileOpen, Open
  <2>6. CASE Rejected \/ Failure
    BY <2>5, <2>6 DEF Rejected, Failure
  <2>7. CASE Tick
    BY <2>1, <2>2, <2>7 DEF Tick
  <2>. QED
    BY <2>1, <2>2, <2>3, <2>4, <2>6, <2>7
       DEF Next, Answered, Request, CircuitOpen, WakeUp, LateArrival, vars
<1>. QED  BY <1>1, <1>2, ClientTypeCorrect, PTL DEF Spec

-----------------------------------------------------------------------------
(* The effects.                                                             *)

\* A key's effect has happened once if the provider has acted on its token and
\* not otherwise; nothing happens, or is under way, for a key nobody asked for.
ClientInv ==
  /\ \A k \in Keys :
       /\ acts[k] = IF Token(k) \in taken THEN 1 ELSE 0
       /\ told[k] = "nothing" => Token(k) \notin taken /\ Token(k) \notin late
  /\ stage # "idle" => told[key] = "asked"

\* Init establishes the inductive invariant.
LEMMA InitClientInv == Init => ClientInv
BY DEF Init, ClientInv

\* Acting on the token of a key that somebody asked for.
LEMMA ActClientInv ==
  ASSUME TypeOK, ClientInv, NEW k \in Keys, told[k] # "nothing", Act(Token(k)),
         late' \subseteq late \cup {Token(k)}
  PROVE  \A j \in Keys :
           /\ acts'[j] = IF Token(j) \in taken' THEN 1 ELSE 0
           /\ told[j] = "nothing" => Token(j) \notin taken' /\ Token(j) \notin late'
<1>1. acts' = [acts EXCEPT ![k] = @ + 1] /\ taken' = taken \cup {Token(k)}
  BY ActType DEF Act
<1>2. Token(k) \notin taken /\ acts[k] = 0
  BY DEF Act, ClientInv
<1>3. TAKE j \in Keys
<1>4. CASE j = k
  BY <1>1, <1>2, <1>4 DEF TypeOK
<1>5. CASE j # k
  <2>1. Token(j) # Token(k)
    BY <1>5 DEF Token
  <2>. QED  BY <1>1, <1>5, <2>1 DEF TypeOK, ClientInv
<1>. QED  BY <1>4, <1>5

\* Every step preserves the inductive invariant.
LEMMA NextClientInv == TypeOK /\ ClientInv /\ [Next]_vars => ClientInv'
<1> SUFFICES ASSUME TypeOK, ClientInv, [Next]_vars PROVE ClientInv'
  OBVIOUS
<1>1. ASSUME \A j \in Keys :
               /\ acts'[j] = IF Token(j) \in taken' THEN 1 ELSE 0
               /\ told[j] = "nothing" => Token(j) \notin taken' /\ Token(j) \notin late',
             \A j \in Keys : told'[j] = "nothing" => told[j] = "nothing",
             stage' # "idle" => told'[key'] = "asked"
      PROVE  ClientInv'
  BY <1>1 DEF ClientInv, Token
<1>2. ASSUME UNCHANGED world,
             \A j \in Keys : told'[j] = "nothing" => told[j] = "nothing",
             stage' # "idle" => told'[key'] = "asked"
      PROVE  ClientInv'
  BY <1>1, <1>2 DEF ClientInv, world
<1>3. ASSUME NEW k \in Keys, Request(k) PROVE ClientInv'
  BY <1>2, <1>3 DEF Request, TypeOK
<1>4. ASSUME NEW o, o # "nothing", End(o)
      PROVE  /\ \A j \in Keys : told'[j] = "nothing" => told[j] = "nothing"
             /\ stage' = "idle"
  BY <1>4 DEF End, TypeOK
<1>5. CASE CircuitOpen
  BY <1>2, <1>4, <1>5 DEF CircuitOpen
<1>6. CASE Send \/ WakeUp \/ Tick
  BY <1>2, <1>6 DEF Send, WakeUp, Tick, loop, ClientInv
<1>7. ASSUME NEW o \in Outcomes, Success(o) PROVE ClientInv'
  <2>1. key \in Keys /\ told[key] = "asked"
    BY <1>7 DEF Success, TypeOK, ClientInv
  <2>2. \A j \in Keys :
          /\ acts'[j] = IF Token(j) \in taken' THEN 1 ELSE 0
          /\ told[j] = "nothing" => Token(j) \notin taken' /\ Token(j) \notin late'
    <3>1. CASE Act(Token(key))
      BY <1>7, <2>1, <3>1, ActClientInv DEF Success
    <3>2. CASE UNCHANGED <<taken, acts>>
      BY <1>7, <3>2 DEF Success, ClientInv
    <3>. QED  BY <1>7, <3>1, <3>2 DEF Success, ActOrReplay
  <2>. QED  BY <1>1, <1>4, <1>7, <2>2 DEF Success
<1>8. CASE Rejected
  BY <1>2, <1>4, <1>8 DEF Rejected
<1>9. CASE Failure
  <2>1. key \in Keys /\ told[key] = "asked"
    BY <1>9 DEF Failure, TypeOK, ClientInv
  <2>2. \A j \in Keys :
          /\ acts'[j] = IF Token(j) \in taken' THEN 1 ELSE 0
          /\ told[j] = "nothing" => Token(j) \notin taken' /\ Token(j) \notin late'
    <3>1. CASE UNCHANGED world
      BY <3>1 DEF ClientInv, world
    <3>2. CASE Act(Token(key)) /\ UNCHANGED late
      BY <2>1, <3>2, ActClientInv
    <3>3. CASE late' = late \cup {Token(key)} /\ UNCHANGED <<taken, acts>>
      BY <2>1, <3>3 DEF ClientInv, Token
    <3>. QED  BY <1>9, <3>1, <3>2, <3>3 DEF Failure
  <2>3. \/ End("failed")
        \/ stage' = "sleep" /\ UNCHANGED <<key, told>>
    BY <1>9 DEF Failure, Retry
  <2>. QED  BY <1>1, <1>4, <2>1, <2>2, <2>3
<1>10. ASSUME NEW t \in late, LateArrival(t) PROVE ClientInv'
  <2>1. PICK k \in Keys : t = Token(k)
    BY DEF TypeOK
  <2>2. told[k] # "nothing"
    BY <2>1 DEF ClientInv
  <2>3. \A j \in Keys :
          /\ acts'[j] = IF Token(j) \in taken' THEN 1 ELSE 0
          /\ told[j] = "nothing" => Token(j) \notin taken' /\ Token(j) \notin late'
    <3>1. CASE Act(t)
      BY <1>10, <2>1, <2>2, <3>1, ActClientInv DEF LateArrival
    <3>2. CASE UNCHANGED <<taken, acts>>
      BY <1>10, <3>2 DEF LateArrival, ClientInv
    <3>. QED  BY <1>10, <3>1, <3>2 DEF LateArrival
  <2>. QED  BY <1>1, <1>10, <2>3 DEF LateArrival, loop, ClientInv
<1>11. CASE UNCHANGED vars
  BY <1>2, <1>11 DEF vars, loop, ClientInv
<1>. QED
  BY <1>3, <1>5, <1>6, <1>7, <1>8, <1>9, <1>10, <1>11 DEF Next, Answered

\* The inductive invariant holds in every reachable state.
THEOREM ClientInvariant == Spec => []ClientInv
BY InitClientInv, NextClientInv, ClientTypeCorrect, PTL DEF Spec

\* A key has at most one effect (razorpay_client.py: the same idempotency
\* header on every attempt).
THEOREM RetriesNeverRepeat == Spec => []EffectAtMostOnce
<1>1. ClientInv => EffectAtMostOnce
  <2> SUFFICES ASSUME ClientInv, NEW k \in Keys PROVE acts[k] <= 1
    BY DEF EffectAtMostOnce
  <2>1. acts[k] = 0 \/ acts[k] = 1
    BY DEF ClientInv
  <2>. QED  BY <2>1
<1>. QED  BY <1>1, ClientInvariant, PTL

-----------------------------------------------------------------------------
(* Refinement.                                                              *)

\* What the caller was told, as RemoteCall sees it.
Said == [k \in Keys |-> Meaning(told[k])]

\* An effect of a key that was asked for is a Happen of RemoteCall.
LEMMA ActHappens ==
  ASSUME TypeOK, ClientInv, NEW k \in Keys, told[k] # "nothing", Act(Token(k))
  PROVE  Call!Happen(k)
<1>1. acts' = [acts EXCEPT ![k] = @ + 1] /\ acts[k] = 0
  BY ActType DEF Act, ClientInv
<1>2. acts' = [acts EXCEPT ![k] = 1]
  BY <1>1
<1>3. Said[k] # "nothing"
  BY DEF Said, Meaning
<1>. QED  BY <1>1, <1>2, <1>3 DEF Call!Happen, Said

\* Ending a request with an outcome tells the caller what it means.
LEMMA EndSaid ==
  ASSUME TypeOK, ClientInv, stage # "idle", NEW o \in Outcomes, End(o)
  PROVE  /\ key \in Keys /\ told[key] = "asked" /\ Said[key] = "asked"
         /\ Said' = [Said EXCEPT ![key] = Meaning(o)]
<1>1. key \in Keys /\ told[key] = "asked"
  BY DEF TypeOK, ClientInv
<1>2. told' = [told EXCEPT ![key] = o]
  BY DEF End
<1>. QED  BY <1>1, <1>2 DEF TypeOK, Said, Meaning

\* The client implements RemoteCall: every step is one of its steps, or is
\* invisible to the caller.
THEOREM ClientImplementsRemoteCall == Spec => ImplementsRemoteCall
<1>1. Init => Call!Init
  BY DEF Init, Call!Init, Meaning
<1>2. TypeOK /\ ClientInv /\ [Next]_vars => [Call!Next]_(Call!absVars)
  <2> SUFFICES ASSUME TypeOK, ClientInv, [Next]_vars
               PROVE  [Call!Next]_(Call!absVars)
    OBVIOUS
  <2>1. ASSUME UNCHANGED acts, UNCHANGED told
        PROVE  [Call!Next]_(Call!absVars)
    <3>1. Said' = Said
      BY <2>1 DEF Said
    <3>. QED  BY <2>1, <3>1 DEF Call!absVars, Said
  <2>2. ASSUME NEW k \in Keys, Request(k)
        PROVE  [Call!Next]_(Call!absVars)
    <3>1. acts' = acts
      BY <2>2 DEF Request, world
    <3>2. Said' = [Said EXCEPT ![k] = "asked"]
      BY <2>2 DEF Request, TypeOK, Said, Meaning
    <3>3. Call!Ask(k)
      BY <3>1, <3>2 DEF Call!Ask, Said
    <3>. QED  BY <3>3 DEF Call!Next
  <2>3. ASSUME NEW o \in {"undecodable", "rejected", "failed", "circuit_open"},
               stage # "idle", End(o), UNCHANGED acts \/ Act(Token(key))
        PROVE  [Call!Next]_(Call!absVars)
    <3>1. /\ key \in Keys /\ told[key] = "asked" /\ Said[key] = "asked"
          /\ Said' = [Said EXCEPT ![key] = "error"]
      BY <2>3, EndSaid DEF Outcomes, Meaning
    <3>2. PICK k \in Keys : k = key
      BY <3>1
    <3>3. Call!Happen(k) \/ acts' = acts
      <4>1. CASE UNCHANGED acts
        BY <4>1
      <4>2. CASE Act(Token(key))
        BY <3>1, <3>2, <4>2, ActHappens
      <4>. QED  BY <2>3, <4>1, <4>2
    <3>4. Call!Fail(k)
      BY <3>1, <3>2, <3>3 DEF Call!Fail, Said
    <3>. QED  BY <3>4 DEF Call!Next
  <2>4. CASE CircuitOpen
    BY <2>3, <2>4 DEF CircuitOpen, world
  <2>5. CASE Rejected
    BY <2>3, <2>5 DEF Rejected, world
  <2>6. CASE Success("undecodable")
    BY <2>3, <2>6 DEF Success, ActOrReplay
  <2>7. CASE Success("ok")
    <3>1. stage # "idle" /\ End("ok") /\ "ok" \in Outcomes
      BY <2>7 DEF Success, Outcomes
    <3>2. /\ key \in Keys /\ told[key] = "asked" /\ Said[key] = "asked"
          /\ Said' = [Said EXCEPT ![key] = "success"]
      BY <3>1, EndSaid DEF Meaning
    <3>3. PICK k \in Keys : k = key
      BY <3>2
    <3>4. Call!Happen(k) \/ (acts[k] = 1 /\ acts' = acts)
      <4>1. CASE Act(Token(key))
        BY <3>2, <3>3, <4>1, ActHappens
      <4>2. CASE Token(key) \in taken /\ UNCHANGED <<taken, acts>>
        BY <3>2, <3>3, <4>2 DEF ClientInv
      <4>. QED  BY <2>7, <4>1, <4>2 DEF Success, ActOrReplay
    <3>5. Call!Succeed(k)
      BY <3>2, <3>3, <3>4 DEF Call!Succeed, Said
    <3>. QED  BY <3>5 DEF Call!Next
  <2>8. ASSUME NEW k \in Keys, told[k] # "nothing", Act(Token(k)), UNCHANGED told
        PROVE  [Call!Next]_(Call!absVars)
    <3>1. Call!Happen(k)
      BY <2>8, ActHappens
    <3>2. Said' = Said
      BY <2>8 DEF Said
    <3>. QED  BY <3>1, <3>2 DEF Call!Next, Said
  <2>9. CASE Failure
    <3>1. stage # "idle" /\ key \in Keys /\ told[key] = "asked"
      BY <2>9 DEF Failure, TypeOK, ClientInv
    <3>2. UNCHANGED acts \/ Act(Token(key))
      BY <2>9 DEF Failure, world
    <3>3. CASE End("failed")
      BY <2>3, <3>1, <3>2, <3>3
    <3>4. CASE UNCHANGED told
      <4>1. CASE UNCHANGED acts
        BY <2>1, <3>4, <4>1
      <4>2. CASE Act(Token(key))
        <5>1. PICK k \in Keys : k = key
          BY <3>1
        <5>. QED  BY <2>8, <3>1, <3>4, <4>2, <5>1
      <4>. QED  BY <3>2, <4>1, <4>2
    <3>. QED  BY <2>9, <3>3, <3>4 DEF Failure, Retry
  <2>10. ASSUME NEW t \in late, LateArrival(t)
         PROVE  [Call!Next]_(Call!absVars)
    <3>1. PICK k \in Keys : t = Token(k)
      BY DEF TypeOK
    <3>2. told[k] # "nothing" /\ UNCHANGED told
      BY <2>10, <3>1 DEF ClientInv, LateArrival
    <3>. QED  BY <2>1, <2>8, <2>10, <3>1, <3>2 DEF LateArrival
  <2>11. ASSUME NEW o \in Outcomes, Success(o)
         PROVE  [Call!Next]_(Call!absVars)
    BY <2>6, <2>7, <2>11 DEF Success
  <2>. QED
    BY <2>1, <2>2, <2>4, <2>5, <2>9, <2>10, <2>11
       DEF Next, Answered, Send, WakeUp, Tick, world, vars
<1>. QED
  BY <1>1, <1>2, ClientInvariant, ClientTypeCorrect, PTL
     DEF Spec, ImplementsRemoteCall, Call!Spec
=============================================================================
