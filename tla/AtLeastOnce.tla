---------------------------- MODULE AtLeastOnce -----------------------------
(***************************************************************************)
(* What the outbox promises the services that write to it: a stored        *)
(* message is published one or more times until it is marked as sent, it   *)
(* is marked only after it was published, and after that never again.      *)
(***************************************************************************)
EXTENDS Sequences

CONSTANT Messages   \* the messages that may be stored

VARIABLES
    stored,      \* the messages stored
    published,   \* the messages published, in order
    sent         \* the messages marked as sent

vars == <<stored, published, sent>>

Init == stored = {} /\ published = <<>> /\ sent = {}

Store(i) ==
    /\ stored' = stored \cup {i}
    /\ UNCHANGED <<published, sent>>

Publish(i) ==
    /\ i \in stored \ sent
    /\ published' = Append(published, i)
    /\ UNCHANGED <<stored, sent>>

MarkSent(S) ==
    /\ S \subseteq {published[n] : n \in DOMAIN published}
    /\ sent' = sent \cup S
    /\ UNCHANGED <<stored, published>>

Next ==
    \/ \E i \in Messages \ stored : Store(i)
    \/ \E i \in stored : Publish(i)
    \/ \E S \in SUBSET stored : MarkSent(S)

Spec == Init /\ [][Next]_vars
=============================================================================
