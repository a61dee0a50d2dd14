--------------------------- MODULE WebhookReceiver ---------------------------
(***************************************************************************)
(* antar/signals/webhook_receiver.py: receive, dispatch and replay over an *)
(* in-memory event store.  A body reaches dispatch when its signature and  *)
(* its JSON are good, and leaves nothing but a log entry otherwise.        *)
(* dispatch drops what it has seen, records the rest and turns the events  *)
(* it consumes into typed signals.                                         *)
(***************************************************************************)
EXTENDS Integers, FiniteSets

CONSTANTS
  Envelopes,      \* the bodies that can arrive
  CreatedAt,      \* created_at of each
  Consumed,       \* those with a consumed event name
  Parseable,      \* the consumed ones that their parser accepts
  MaxReplays      \* bound: calls of replay

VARIABLES
  recorded,       \* how often each delivery id is in store.order
  replaying,      \* the envelopes the replay in progress has still to dispatch
  replays,
  accepted        \* auxiliary: how often each envelope was accepted

receiver == <<recorded, replaying, replays, accepted>>

\* Razorpay's X-Razorpay-Event-Id header, or a hash of the content where the
\* caller passes no delivery id, as replay does.
DeliveryId == [envelope: Envelopes, by: {"header", "content"}]

Id(e, by) == [envelope |-> e, by |-> by]

ReceiverInit ==
  /\ recorded = [did \in DeliveryId |-> 0]
  /\ replaying = {} /\ replays = 0
  /\ accepted = [e \in Envelopes |-> 0]

-----------------------------------------------------------------------------
(* receive and dispatch.                                                    *)

\* Mutant of Seen: what is looked up is not what is recorded.
SeenByContent(did) == recorded[Id(did.envelope, "content")] > 0

Seen(did) == recorded[did] > 0

Duplicate(did) == Seen(did) /\ UNCHANGED <<recorded, accepted>>

Record(did) == recorded' = [recorded EXCEPT ![did] = @ + 1]

\* An event that is not consumed is recorded, so that a replay is faithful, but
\* not acted on.
Ignore(did) ==
  /\ ~Seen(did) /\ did.envelope \notin Consumed
  /\ Record(did)
  /\ UNCHANGED accepted

\* The parser raises after the delivery was recorded.
ParserRaises(did) ==
  /\ ~Seen(did) /\ did.envelope \in Consumed \ Parseable
  /\ Record(did)
  /\ UNCHANGED accepted

Accept(did) ==
  /\ ~Seen(did) /\ did.envelope \in Parseable
  /\ Record(did)
  /\ accepted' = [accepted EXCEPT ![did.envelope] = @ + 1]

-----------------------------------------------------------------------------
(* replay: a stream in the order of created_at (and of names, which is left *)
(* open), without delivery ids.                                             *)

Replay(batch) ==
  /\ replaying = {} /\ batch # {} /\ replays < MaxReplays
  /\ replaying' = batch /\ replays' = replays + 1
  /\ UNCHANGED <<recorded, accepted>>

NextInReplay(e) ==
  /\ e \in replaying
  /\ \A f \in replaying : CreatedAt[e] <= CreatedAt[f]
  /\ UNCHANGED replays

-----------------------------------------------------------------------------
(* Properties.                                                              *)

\* The type invariant of the receiver.
ReceiverTypeOK ==
  /\ recorded \in [DeliveryId -> Nat] /\ accepted \in [Envelopes -> Nat]
  /\ replaying \subseteq Envelopes /\ replays \in 0 .. MaxReplays

\* Whatever is redelivered, reordered or replayed, a delivery is recorded once,
\* and an event is acted on once for each of the deliveries it is recorded as.
OneEventPerDelivery ==
  /\ \A did \in DeliveryId : recorded[did] <= 1
  /\ \A e \in Envelopes :
       accepted[e] = IF e \in Parseable
                     THEN recorded[Id(e, "header")] + recorded[Id(e, "content")]
                     ELSE 0
=============================================================================
