------------------------------- MODULE Outbox -------------------------------
(***************************************************************************)
(* pkg/outbox: the two tables every service's database has beside its own. *)
(*                                                                         *)
(* outbox            a sequence of rows in insertion order; no code deletes*)
(*                   a row, so its length also numbers the events.         *)
(* processed_events  the set of event ids already handled.                 *)
(*                                                                         *)
(* The operators are values of these tables before and after a statement   *)
(* of a transaction; the services' handlers use them inside their actions. *)
(***************************************************************************)
LOCAL INSTANCE Naturals
LOCAL INSTANCE Sequences

StatusPending == "PENDING"
StatusSent    == "SENT"

(* An outbox row; the payload is the whole event. *)
Rows(P) ==
    [payload : P, status : {StatusPending, StatusSent}, retry_count : Nat]

(* The uuid of the next event a service stores: unlike all earlier ones.   *)
NewEventID(service, outbox) == <<service, Len(outbox) + 1>>

EventIDs(service) == {service} \X Nat

PublishInTx(outbox, event) ==
    Append(outbox, [payload |-> event, status |-> StatusPending, retry_count |-> 0])

(***************************************************************************)
(* CheckAndMark inserts the event id, ON CONFLICT DO NOTHING; no affected  *)
(* row means that the event was handled before.                            *)
(***************************************************************************)
AlreadyProcessed_Never(processed_events, event) == FALSE
AlreadyProcessed(processed_events, event) == event.event_id \in processed_events

MarkProcessed_Forgotten(processed_events, event) == processed_events
MarkProcessed(processed_events, event) == processed_events \cup {event.event_id}
=============================================================================
