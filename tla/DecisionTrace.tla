----------------------------- MODULE DecisionTrace -----------------------------
(***************************************************************************)
(* antar/audit/trace.py: which entries of a ledger belong to an event, by  *)
(* the scan of build_trace and by the one pass of TraceIndex, and what the *)
(* narrative of a trace says; antar/audit/replay.py: recorded events are   *)
(* decided again and the decisions compared.  An entry is its kind, the    *)
(* ids that its payload carries and what a trace or a replay reads of the  *)
(* rest; a trace is the set of the positions of its entries.               *)
(***************************************************************************)
EXTENDS Integers, Sequences

STAGES == <<"EVENT", "DIAGNOSIS", "DECISION", "ACTION", "OUTCOME">>

Missing == -1       \* the payload does not have this id

\* _first, on entries in the order of their positions.
HasKind(log, is, kind) == \E i \in is : log[i].kind = kind

FirstOfKind(log, is, kind) ==
  CHOOSE i \in is : log[i].kind = kind /\ \A j \in is : log[j].kind = kind => i <= j

-----------------------------------------------------------------------------
(* _slice_for.                                                              *)

Mentions(log, event) == {i \in DOMAIN log : log[i].event = event}

\* The entries that carry the id of the first decision found.
WithDecision(log, is) ==
  IF ~HasKind(log, is, "DECISION") THEN is
  ELSE LET id == log[FirstOfKind(log, is, "DECISION")].decision
       IN  is \cup {i \in DOMAIN log : id # Missing /\ log[i].decision = id}

\* The entries that carry the id of the first action; what the event names comes
\* before what its decision has brought in.
WithAction(log, own, is) ==
  IF ~HasKind(log, is, "ACTION") THEN is
  ELSE LET from == IF HasKind(log, own, "ACTION") THEN own ELSE is
           id == log[FirstOfKind(log, from, "ACTION")].action
       IN  is \cup {i \in DOMAIN log : id # Missing /\ log[i].action = id}

Slice(log, event) ==
  LET own == Mentions(log, event) IN WithAction(log, own, WithDecision(log, own))

-----------------------------------------------------------------------------
(* TraceIndex._load.                                                        *)

\* Mutant of Owners: entries are grouped by the event they name and by nothing else.
OwnersByEvent(log) == [i \in DOMAIN log |-> log[i].event]

\* The event that each entry joins: the one it names, or else the one that claimed
\* its decision first, or else its action.
Owners(log) ==
  LET owner[i \in DOMAIN log] ==
        LET Claims(field) ==
              {j \in 1 .. i - 1 : log[i][field] # Missing /\ log[j][field] = log[i][field]
                                  /\ owner[j] # Missing}
            First(js) == owner[CHOOSE j \in js : \A k \in js : j <= k]
        IN  IF log[i].event # Missing THEN log[i].event
            ELSE IF Claims("decision") # {} THEN First(Claims("decision"))
            ELSE IF Claims("action") # {} THEN First(Claims("action"))
            ELSE Missing
  IN  owner

Indexed(log, event) == LET owner == Owners(log) IN {i \in DOMAIN log : owner[i] = event}

\* _by_event: the traces of all events in one pass.
Traces(log) ==
  LET owner == Owners(log)
  IN  [event \in {owner[i] : i \in DOMAIN log} \ {Missing} |-> {i \in DOMAIN log : owner[i] = event}]

-----------------------------------------------------------------------------
(* Trace.                                                                   *)

Gaps(log, is) == {STAGES[k] : k \in {m \in DOMAIN STAGES : ~HasKind(log, is, STAGES[m])}}

\* narrate, by what each sentence claims; no gate here runs other than dry.
Narrative(log, is) ==
  LET decided == HasKind(log, is, "DECISION")
      decision == log[FirstOfKind(log, is, "DECISION")]
      binding == decision.constraints \ {"RANDOMISED_HOLDOUT"}
      actions == {log[i] : i \in {j \in is : log[j].kind = "ACTION"}}
  IN  {says \in {"PAYMENT_FAILED"} : HasKind(log, is, "EVENT")}
      \cup {says \in {"CLASSIFIED"} : HasKind(log, is, "DIAGNOSIS")}
      \cup {says \in {"CHOSE_A_CHANNEL"} : decided /\ decision.acts}
      \cup {says \in {"CHOSE_NO_ACTION"} : decided /\ ~decision.acts}
      \cup {says \in {"IN_THE_HOLDOUT"} : decided /\ decision.control}
      \cup {says \in {"CONSTRAINED"} : decided /\ binding # {}}
      \cup {says \in {"BEST_MOMENT"} : decided /\ binding = {} /\ ~decision.control}
      \cup (IF decided /\ ~decision.control THEN {decision.rationale} \ {""} ELSE {})
      \cup {says \in {"GATE_REFUSED"} : \E a \in actions : a.blocked}
      \cup {says \in {"GATE_APPROVED"} : \E a \in actions : ~a.blocked}
      \cup {says \in {"OUTCOME"} : HasKind(log, is, "OUTCOME")}

-----------------------------------------------------------------------------
(* replay.                                                                  *)

\* The position of the decision of a trace.
DecisionOf(log, is) ==
  IF HasKind(log, is, "DECISION") THEN FirstOfKind(log, is, "DECISION") ELSE Missing

\* _comparable, of the decision at a position: what makes two decisions the same one.
Comparable(log, i) ==
  IF i = Missing THEN [acts |-> FALSE, control |-> FALSE, constraints |-> {}, decided |-> FALSE]
  ELSE [acts |-> log[i].acts, control |-> log[i].control, constraints |-> log[i].constraints,
        decided |-> TRUE]

\* Mutant of Replayable: an event without a decision is compared all the same.
ReplayableUndecided(log, is) == HasKind(log, is, "EVENT")

\* What is not skipped.
Replayable(log, is) == HasKind(log, is, "EVENT") /\ HasKind(log, is, "DECISION")

\* Decide has the traces and the payload of an event, and gives the position of a
\* decision.
Replay(log, Decide(_, _)) ==
  LET traces == Traces(log)
      replayed == {e \in DOMAIN traces : Replayable(log, traces[e])}
      Again(e) == Decide(traces, log[FirstOfKind(log, traces[e], "EVENT")].event)
  IN  [replayed |-> replayed, skipped |-> DOMAIN traces \ replayed,
       diverged |-> {e \in replayed :
                       Comparable(log, DecisionOf(log, traces[e])) # Comparable(log, Again(e))}]

\* replay_is_self_consistent: every recorded decision is fed back as its own answer.
NullReplay(log) ==
  Replay(log, LAMBDA traces, event :
                IF event \in DOMAIN traces THEN DecisionOf(log, traces[event]) ELSE Missing)
=============================================================================
