--------------------------- MODULE MandateRegistry ---------------------------
(***************************************************************************)
(* antar/detect/mandate_fsm.py: the state machine of every mandate and the *)
(* registry that folds streams of subscription events into them.  A call   *)
(* of apply_stream works through its events in the order of (at, name); a  *)
(* later call starts from where the earlier ones left the machines.        *)
(***************************************************************************)
EXTENDS Integers, Sequences

CONSTANTS Subscriptions

VARIABLES
  machines,     \* of each subscription, its MandateMachine (get creates it when
                \* first asked, in state ACTIVE)
  stream,       \* the events that the current apply_stream still has to apply
  illegal,      \* illegal_attempts
  applied       \* auxiliary: the events of all streams so far

registry == <<machines, stream, illegal, applied>>

State == {"ACTIVE", "HALTED", "PAUSED", "REVOKED", "COMPLETED"}

\* Mutant of LEGAL: only an active mandate can be cancelled.
LEGALCancelActive ==
  [ACTIVE |-> State,
   HALTED |-> {"HALTED", "ACTIVE", "COMPLETED"},
   PAUSED |-> {"PAUSED", "ACTIVE", "COMPLETED"},
   REVOKED |-> {"REVOKED"},
   COMPLETED |-> {"COMPLETED"}]

LEGAL ==
  [ACTIVE |-> State,
   HALTED |-> {"HALTED", "ACTIVE", "REVOKED", "COMPLETED"},
   PAUSED |-> {"PAUSED", "ACTIVE", "REVOKED", "COMPLETED"},
   REVOKED |-> {"REVOKED"},
   COMPLETED |-> {"COMPLETED"}]

TERMINAL == {"REVOKED", "COMPLETED"}

\* EVENT_TRANSITIONS, without the prefix "subscription." of the names.
Target ==
  [charged |-> "ACTIVE", resumed |-> "ACTIVE", pending |-> "ACTIVE",
   halted |-> "HALTED", paused |-> "PAUSED",
   cancelled |-> "REVOKED", completed |-> "COMPLETED"]

Names == DOMAIN Target

\* The names in alphabetical order, in which apply_stream breaks ties.
Rank ==
  [cancelled |-> 1, charged |-> 2, completed |-> 3, halted |-> 4, paused |-> 5,
   pending |-> 6, resumed |-> 7]

Event == [sub: Subscriptions, name: Names, at: Nat]

Before(e, f) == e.at < f.at \/ (e.at = f.at /\ Rank[e.name] < Rank[f.name])

Fresh == [state |-> "ACTIVE", transitions |-> <<>>, ignored |-> <<>>]

RegistryInit ==
  /\ machines = [s \in Subscriptions |-> Fresh]
  /\ stream = {} /\ illegal = <<>> /\ applied = {}

-----------------------------------------------------------------------------
(* apply_event and apply, for the next event of the stream.                 *)

StateOf(s) == machines[s].state

\* The loop of apply_stream goes on to the least of the remaining events.
Take(e) ==
  /\ e \in stream /\ \A f \in stream : ~Before(f, e)
  /\ stream' = stream \ {e}
  /\ applied' = applied \cup {e}

\* A terminal state absorbs whatever comes.
Absorb(e) ==
  /\ Take(e)
  /\ StateOf(e.sub) \in TERMINAL
  /\ machines' = [machines EXCEPT ![e.sub].ignored =
       IF Target[e.name] = StateOf(e.sub) THEN @
       ELSE Append(@, [at |-> e.at, to |-> Target[e.name]])]
  /\ UNCHANGED illegal

\* apply raises, and apply_stream records the exception and goes on.
IllegalTransition(e) ==
  /\ Take(e)
  /\ StateOf(e.sub) \notin TERMINAL
  /\ Target[e.name] \notin LEGAL[StateOf(e.sub)]
  /\ illegal' = Append(illegal, [sub |-> e.sub, source |-> StateOf(e.sub),
                                 target |-> Target[e.name]])
  /\ UNCHANGED machines

Move(e) ==
  /\ Take(e)
  /\ StateOf(e.sub) \notin TERMINAL
  /\ Target[e.name] \in LEGAL[StateOf(e.sub)]
  /\ machines' = [machines EXCEPT
       ![e.sub].state = Target[e.name],
       ![e.sub].transitions =
         IF Target[e.name] = StateOf(e.sub) THEN @
         ELSE Append(@, [at |-> e.at, to |-> Target[e.name]])]
  /\ UNCHANGED illegal

Fold(e) == Absorb(e) \/ IllegalTransition(e) \/ Move(e)

\* A call of apply_stream.
ApplyStream(batch) ==
  /\ stream = {} /\ batch # {}
  /\ stream' = batch
  /\ UNCHANGED <<machines, illegal, applied>>

-----------------------------------------------------------------------------
(* What the rest of the system reads.                                       *)

\* Mutant of Reached: a transition at the very instant is already seen.
ReachedInclusive(s, when) ==
  LET ts == machines[s].transitions
  IN  CHOOSE n \in 0 .. Len(ts) :
        /\ \A i \in 1 .. n : ts[i].at <= when
        /\ n < Len(ts) => ts[n + 1].at > when

\* How many transitions the loop of state_at passes before it breaks.
Reached(s, when) ==
  LET ts == machines[s].transitions
  IN  CHOOSE n \in 0 .. Len(ts) :
        /\ \A i \in 1 .. n : ts[i].at < when
        /\ n < Len(ts) => ts[n + 1].at >= when

StateAt(s, when) ==
  IF Reached(s, when) = 0 THEN "ACTIVE"
  ELSE machines[s].transitions[Reached(s, when)].to

-----------------------------------------------------------------------------
(* Properties.                                                              *)

Transition == [at: Nat, to: State]

\* Where the recorded transitions lead.
Led(ts) == IF ts = <<>> THEN "ACTIVE" ELSE ts[Len(ts)].to

\* The type invariant of the registry: a machine is where its history leads.
RegistryTypeOK ==
  /\ machines \in [Subscriptions -> [state: State, transitions: Seq(Transition),
                                     ignored: Seq(Transition)]]
  /\ \A s \in Subscriptions : StateOf(s) = Led(machines[s].transitions)
  /\ stream \subseteq Event /\ applied \subseteq Event
  /\ illegal \in Seq([sub: Subscriptions, source: State, target: State])

\* A mandate is over exactly when an event that ends it has been applied, in
\* whatever order, call or state: a cancellation is never lost to a transition
\* that is not legal, and nothing that arrives later brings a mandate back.
EndedForGood ==
  \A s \in Subscriptions :
    StateOf(s) \in TERMINAL <=>
      \E e \in applied : e.sub = s /\ Target[e.name] \in TERMINAL

\* What happened at or after an instant never changes what state_at answers for
\* it: a failure is diagnosed from what could be known when it happened.
NoHindsight ==
  [][\A e \in stream : Fold(e) =>
       \A s \in Subscriptions, when \in 0 .. e.at :
         StateAt(s, when)' = StateAt(s, when)]_registry
=============================================================================
