----------------------------- MODULE Messaging ------------------------------
(***************************************************************************)
(* pkg/messaging over core NATS.  The broker is external; its behaviour is *)
(* taken from how the code uses it: a queue subscription per service and   *)
(* subject, no JetStream, no acknowledgement.                              *)
(*                                                                         *)
(*  - A message goes to the subscriptions of its subject that exist when   *)
(*    it is published, and to nobody else, ever.                           *)
(*  - The client queues a subscription's messages in memory and calls the  *)
(*    handler for one at a time, in order; different subscriptions have    *)
(*    different goroutines, so nothing orders them against each other.     *)
(*  - A process that ends loses its queues.                                *)
(***************************************************************************)
LOCAL INSTANCE Sequences

CONSTANT Subscriptions   \* pairs <<service, subject>>

VARIABLES
    inbox,   \* subscription -> messages received and not yet handled
    up       \* service -> is its process running and subscribed?

ServiceNames == {s[1] : s \in Subscriptions}

MessagingInit ==
    /\ inbox = [s \in Subscriptions |-> <<>>]
    /\ up = [v \in ServiceNames |-> TRUE]

Publish(subject, event) ==
    /\ inbox' = [s \in Subscriptions |->
                    IF s[2] = subject /\ up[s[1]] THEN Append(inbox[s], event)
                                                  ELSE inbox[s]]
    /\ UNCHANGED up

(* The handler of subscription s is called with this message next. *)
HasMessage(s) == inbox[s] # <<>>

Received(s) == Head(inbox[s])

Take(s) ==
    /\ inbox' = [inbox EXCEPT ![s] = Tail(@)]
    /\ UNCHANGED up

Disconnect(service) ==
    /\ up[service]
    /\ up' = [up EXCEPT ![service] = FALSE]
    /\ inbox' = [s \in Subscriptions |-> IF s[1] = service THEN <<>> ELSE inbox[s]]

Connect(service) ==
    /\ ~up[service]
    /\ up' = [up EXCEPT ![service] = TRUE]
    /\ UNCHANGED inbox
=============================================================================
