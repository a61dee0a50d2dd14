------------------------------ MODULE MCSignals ------------------------------
(***************************************************************************)
(* One mandate that is halted, paused and cancelled, one outage whose      *)
(* notifications may change places, a body that cannot be parsed and an    *)
(* event that is not consumed.                                             *)
(***************************************************************************)
EXTENDS Signals, TLC

CONSTANTS sub, bank, halt, pause, cancel, down, up, odd, other

MCEnvelopes == {halt, pause, cancel, down, up, odd, other}
MCCreatedAt == halt :> 0 @@ pause :> 1 @@ cancel :> 2 @@ down :> 1 @@ up :> 1
               @@ odd :> 0 @@ other :> 3
MCConsumed == MCEnvelopes \ {other}
MCParseable == MCConsumed \ {odd}
Happened(n, t) == [sub |-> sub, name |-> n, at |-> t]
MCLifecycle == halt :> Happened("halted", 0) @@ pause :> Happened("paused", 1)
                 @@ cancel :> Happened("cancelled", 2)
MCWindow(s, e) == [downtime |-> bank, window |-> [status |-> s, begin |-> 0, end |-> e]]
MCNotice == down :> MCWindow("started", NoEnd) @@ up :> MCWindow("resolved", 1)
MCStreams == {{halt, odd, pause, up}, {odd, down, up}, {pause, cancel, down}, {cancel, other}}
MCOutage == bank :> [begin |-> 0, end |-> 1]
=============================================================================
