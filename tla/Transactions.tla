---------------------------- MODULE Transactions ----------------------------
(***************************************************************************)
(* The database transactions in which goroutines handle events, with       *)
(* PostgreSQL's row locks as the repositories use them: SELECT ... FOR     *)
(* UPDATE waits until no other open transaction has locked one of its rows,*)
(* and a transaction keeps its locks until it ends.  An inserted primary   *)
(* key is locked in the same way: a second INSERT of it waits for the end  *)
(* of the first transaction.                                               *)
(*                                                                         *)
(* The services' modules say what is read and written in between.          *)
(***************************************************************************)
EXTENDS Naturals, Outbox

CONSTANTS
    Workers,       \* the goroutines: one per subscription and process
    MaxRollbacks   \* bound: transactions that fail

VARIABLES
    locks,      \* worker -> the rows its transaction has locked
    tx,         \* worker -> its transaction
    rollbacks   \* how many transactions failed

Idle == [step |-> "idle"]

TransactionsInit ==
    /\ locks = [w \in Workers |-> {}]
    /\ tx = [w \in Workers |-> Idle]
    /\ rollbacks = 0

LockedElsewhere(w) == UNION {locks[v] : v \in Workers \ {w}}

Lock(w, rows) ==
    /\ rows \cap LockedElsewhere(w) = {}
    /\ locks' = [locks EXCEPT ![w] = @ \cup rows]

(* Begin and CheckAndMark: the row of processed_events is inserted; an     *)
(* event handled before ends the handler at once.                          *)
EventRow(event) == {<<"processed_events", event.event_id>>}

BeginTx(w, event, processed_events) ==
    /\ tx[w] = Idle
    /\ ~AlreadyProcessed(processed_events, event)
    /\ Lock(w, EventRow(event))
    /\ tx' = [tx EXCEPT ![w] = [step |-> "marked", event |-> event]]
    /\ UNCHANGED rollbacks

In(w, step, types) == tx[w].step = step /\ tx[w].event.event_type \in types

(* Commit or Rollback: the transaction is over and its locks are free.     *)
EndTx(w) ==
    /\ locks' = [locks EXCEPT ![w] = {}]
    /\ tx' = [tx EXCEPT ![w] = Idle]

(* A statement fails, the context is cancelled or the process dies: the    *)
(* deferred Rollback, or the server, ends the transaction.                 *)
FailTx_LeftOpen(w) ==
    /\ tx[w] # Idle
    /\ rollbacks < MaxRollbacks
    /\ rollbacks' = rollbacks + 1
    /\ tx' = [tx EXCEPT ![w] = Idle]
    /\ UNCHANGED locks
FailTx(w) ==
    /\ tx[w] # Idle
    /\ rollbacks < MaxRollbacks
    /\ rollbacks' = rollbacks + 1
    /\ EndTx(w)
=============================================================================
