------------------------------- MODULE Drafting -------------------------------
(***************************************************************************)
(* antar/act/drafter.py with templates/ and contamination.py: the template *)
(* that a message is made from, the attempts of a model at its one free    *)
(* slot, the inspection of what comes out, and the fallback.  A text is    *)
(* what the detector finds in it; the facts that fill the other slots are  *)
(* left out.                                                               *)
(***************************************************************************)
EXTENDS Taxonomy, Naturals

CONSTANT RepairAttempts     \* repair_attempts

ASSUME RepairAssumption == RepairAttempts \in Nat

-----------------------------------------------------------------------------
(* The templates.                                                           *)

\* Short messages about a revoked mandate: none of them would be true.
HasTemplate(channel, class) == class = "MANDATE_REVOKED" => channel = "EMAIL"

Promises == {"RETRY", "UPDATE_INSTRUMENT", "AUTHENTICATE", "PAYMENT_LINK"}

\* choose_template, by what the message announces or asks for.
Template(channel, class) ==
  [channel |-> channel,
   promise |-> IF channel = "EMAIL" THEN "PAYMENT_LINK"
               ELSE IF class = "TECHNICAL_DECLINE" THEN "UPDATE_INSTRUMENT"
               ELSE IF class = "AFA_REQUIRED" THEN "AUTHENTICATE"
               ELSE "RETRY"]

\* The templates with a slot that is not filled with facts.
AsksModel(t) ==
  \/ t.channel \in {"SMS", "WHATSAPP"} /\ t.promise # "AUTHENTICATE"
  \/ t.channel = "EMAIL"

-----------------------------------------------------------------------------
(* ContaminationDetector.inspect.                                           *)

\* What a rendered text is: clean, matched by a rule, or scored by the classifier at or
\* above the threshold.
Text == {"CLEAN", "RULE_MATCHED", "SOUNDS_PROMOTIONAL"}

Contaminated(text) == text # "CLEAN"

-----------------------------------------------------------------------------
(* Drafter.draft.                                                           *)

\* A response of the model: the keys of its object, none where there is no object or
\* the call has raised; whether its values have the formats of their slots; and what the
\* text comes to be.
Response == [keys : SUBSET {"reason", "invented"}, valid : BOOLEAN, text : Text]

\* _parse: the keys that were asked for and no others.
Parses(r) == r.keys = {"reason"}

\* Template.render, by the validators of the slots.
Renders(r) == r.valid

\* What an attempt yields: all that goes wrong is treated alike.
Answer == {IF Parses(r) /\ Renders(r) THEN r.text ELSE "FAILED" : r \in Response}

Draft(t, fallback, repairs, scoredHigh) ==
  [template |-> t, fallback |-> fallback, repairs |-> repairs, scoredHigh |-> scoredHigh]

\* _deterministic: the phrase comes from a table, so the text is clean; the score that a
\* contaminated attempt got is kept.
Deterministic(t, repairs, scoredHigh) == Draft(t, TRUE, repairs, scoredHigh)

\* _draft_with_model: one answer per attempt, and the first that fits decides.
DraftWithModel(t, answers) ==
  LET fits == {i \in DOMAIN answers : answers[i] # "FAILED"}
      first == CHOOSE i \in fits : \A j \in fits : i <= j
  IN  IF fits = {} THEN Deterministic(t, RepairAttempts, FALSE)
      ELSE IF Contaminated(answers[first]) THEN Deterministic(t, first, TRUE)
      ELSE Draft(t, FALSE, first, FALSE)

\* The drafts that a template can lead to, with or without a client.
Drafts(t, client) ==
  IF client /\ AsksModel(t)
  THEN {DraftWithModel(t, answers) : answers \in [0 .. RepairAttempts -> Answer]}
  ELSE {Deterministic(t, 0, FALSE)}
=============================================================================
