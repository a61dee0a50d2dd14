---------------------------- MODULE RemoteCall ----------------------------
(***************************************************************************)
(* What a caller may believe about a keyed call to the payment provider.   *)
(* A success means that the effect has happened, in this call or in an     *)
(* earlier one with the same key.  An error means nothing: the effect may  *)
(* be there, may never come, or may still arrive.  No effect happens       *)
(* unasked, and none happens twice.                                        *)
(***************************************************************************)
CONSTANT Keys

VARIABLES
  effects,  \* how often the effect of each key has happened
  told      \* what the caller was last told of each key

absVars == <<effects, told>>

Init == effects = [k \in Keys |-> 0] /\ told = [k \in Keys |-> "nothing"]

Ask(k) ==
  /\ told' = [told EXCEPT ![k] = "asked"]
  /\ UNCHANGED effects

Happen(k) ==
  /\ told[k] # "nothing" /\ effects[k] = 0
  /\ effects' = [effects EXCEPT ![k] = 1]

Succeed(k) ==
  /\ told[k] = "asked"
  /\ Happen(k) \/ (effects[k] = 1 /\ UNCHANGED effects)
  /\ told' = [told EXCEPT ![k] = "success"]

Fail(k) ==
  /\ told[k] = "asked"
  /\ Happen(k) \/ UNCHANGED effects
  /\ told' = [told EXCEPT ![k] = "error"]

Next ==
  \E k \in Keys : \/ Ask(k) \/ Succeed(k) \/ Fail(k)
                  \/ Happen(k) /\ UNCHANGED told

Spec == Init /\ [][Next]_absVars
=============================================================================
