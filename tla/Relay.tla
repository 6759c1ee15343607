------------------------------- MODULE Relay --------------------------------
(***************************************************************************)
(* The outbox relay of pkg/outbox: the goroutine that, every five seconds, *)
(* reads a batch of pending rows and publishes them, in one transaction.   *)
(*                                                                         *)
(* The transaction is not one step here: messages leave one by one while   *)
(* their rows are still PENDING for everybody else, and only Commit makes  *)
(* the new statuses and retry counts visible.  A transaction may be rolled *)
(* back at any point between Poll and Commit: a database error, the        *)
(* context cancelled at shutdown, a crash.                                 *)
(*                                                                         *)
(* PublishMessage says which row is published; the module that composes    *)
(* the relay with a broker says where the message goes.                    *)
(***************************************************************************)
EXTENDS Naturals, Sequences, FiniteSets, Outbox

CONSTANTS
    Relays,          \* the relay goroutines that share the table
    BatchLimit,      \* LIMIT of the query: 100 in the code
    MaxRetryCount    \* publish attempts that may fail: 5 in the code

VARIABLES
    outbox,   \* the table, as committed
    tx        \* relay -> its transaction

ASSUME RelayAssumption == BatchLimit \in Nat \ {0} /\ MaxRetryCount \in Nat \ {0}

NoTx == [open |-> FALSE, todo |-> {}, sent |-> {}, failed |-> {}]

RelayInit == tx = [r \in Relays |-> NoTx]

-----------------------------------------------------------------------------
(* The rows a transaction has locked (FOR UPDATE). *)
Locked(r) == tx[r].todo \cup tx[r].sent \cup tx[r].failed

LockedByOthers_Ignored(r) == {}
LockedByOthers(r) == UNION {Locked(q) : q \in Relays \ {r}}

Eligible_NoRetry(row) == row.status = StatusPending /\ row.retry_count = 0
Eligible_OffByOne(row) == row.status = StatusPending /\ row.retry_count <= MaxRetryCount
Eligible(row) == row.status = StatusPending /\ row.retry_count < MaxRetryCount

(* WHERE ... FOR UPDATE SKIP LOCKED *)
Pending(r) == {i \in DOMAIN outbox : Eligible(outbox[i])} \ LockedByOthers(r)

(* ORDER BY created_at LIMIT BatchLimit *)
Batch_NewestFirst(S) == {i \in S : Cardinality({j \in S : j > i}) < BatchLimit}
Batch(S) == {i \in S : Cardinality({j \in S : j < i}) < BatchLimit}

(* The first message of a batch that is not done. *)
First(S) == CHOOSE i \in S : \A j \in S : i <= j

(* Begin and Query; a poll that finds nothing commits nothing.             *)
Poll(r) ==
    /\ ~tx[r].open
    /\ Pending(r) # {}
    /\ tx' = [tx EXCEPT ![r] = [NoTx EXCEPT !.open = TRUE, !.todo = Batch(Pending(r))]]
    /\ UNCHANGED outbox

(* The broker client accepted message i; the row is marked SENT in the     *)
(* transaction.                                                            *)
PublishMessage(r, i) ==
    /\ tx[r].todo # {}
    /\ i = First(tx[r].todo)
    /\ tx' = [tx EXCEPT ![r].todo = @ \ {i}, ![r].sent = @ \cup {i}]
    /\ UNCHANGED outbox

(* Publishing failed; the row's retry count is increased in the            *)
(* transaction and the loop goes on with the next message.                 *)
PublishFails(r) ==
    /\ tx[r].todo # {}
    /\ LET i == First(tx[r].todo)
       IN  tx' = [tx EXCEPT ![r].todo = @ \ {i}, ![r].failed = @ \cup {i}]
    /\ UNCHANGED outbox

CommitRow_ForgetsFailure(row, sent, failed) ==
    IF sent \/ failed THEN [row EXCEPT !.status = StatusSent] ELSE row
CommitRow(row, sent, failed) ==
    [row EXCEPT !.status = IF sent THEN StatusSent ELSE @,
                !.retry_count = IF failed THEN @ + 1 ELSE @]

Commit(r) ==
    /\ tx[r].open
    /\ tx[r].todo = {}
    /\ outbox' = [i \in DOMAIN outbox |->
                     CommitRow(outbox[i], i \in tx[r].sent, i \in tx[r].failed)]
    /\ tx' = [tx EXCEPT ![r] = NoTx]

Rollback(r) ==
    /\ tx[r].open
    /\ tx' = [tx EXCEPT ![r] = NoTx]
    /\ UNCHANGED outbox
=============================================================================
