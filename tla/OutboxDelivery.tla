--------------------------- MODULE OutboxDelivery ---------------------------
(***************************************************************************)
(* An outbox table, the processes whose relays drain it, each over its own *)
(* NATS connection, a service that keeps storing events, and a broker that *)
(* goes down and comes back.                                               *)
(*                                                                         *)
(* The table is in the order of created_at, which is the time at which the *)
(* writer's transaction began; the relays see a row when that transaction  *)
(* has committed.  Writers overlap, so rows may appear in another order    *)
(* than that in which they are sorted.                                     *)
(***************************************************************************)
EXTENDS Relay, Connection

CONSTANTS
    MaxRows,    \* bound: events stored
    MaxFaults   \* bound: relay transactions rolled back and processes replaced

VARIABLES
    before,      \* row -> the rows committed when its transaction began
    published,   \* the pairs <<relay, row>> that Publish accepted, in order
    rollbacks,   \* how many relay transactions were rolled back
    restarts     \* how many processes were replaced

vars == <<outbox, before, tx, connVars, published, rollbacks, restarts>>

ASSUME OneConnectionEach == Clients = Relays

ASSUME BoundsAssumption == MaxRows \in Nat /\ MaxFaults \in Nat

Init ==
    /\ outbox = <<>>
    /\ before = <<>>
    /\ RelayInit
    /\ ConnectionInit
    /\ published = <<>>
    /\ rollbacks = 0
    /\ restarts = 0

(* The row of a transaction that is open or was rolled back: in its place  *)
(* by created_at, but invisible.                                           *)
Uncommitted == "UNCOMMITTED"

Stored(i) == i \in DOMAIN outbox /\ outbox[i].status # Uncommitted

Committed == {i \in DOMAIN outbox : Stored(i)}

(* A use case begins the transaction that will insert the row; the payload *)
(* is the row's number.                                                    *)
BeginStore ==
    /\ Len(outbox) < MaxRows
    /\ LET i == Len(outbox) + 1
       IN  outbox' = [PublishInTx(outbox, i) EXCEPT ![i].status = Uncommitted]
    /\ before' = Append(before, Committed)
    /\ UNCHANGED <<tx, connVars, published, rollbacks, restarts>>

(* It commits, whichever transactions began before or after it; one that   *)
(* is rolled back never does.                                              *)
CommitStore(i) ==
    /\ outbox[i].status = Uncommitted
    /\ outbox' = [outbox EXCEPT ![i].status = StatusPending]
    /\ UNCHANGED <<before, tx, connVars, published, rollbacks, restarts>>

Writer == BeginStore \/ \E i \in DOMAIN outbox : CommitStore(i)

RelayPoll(r) == Poll(r) /\ UNCHANGED <<before, connVars, published, rollbacks, restarts>>

RelayPublish(r) ==
    /\ \E i \in DOMAIN outbox : /\ PublishMessage(r, i)
                                /\ Accept(r, i)
                                /\ published' = Append(published, <<r, i>>)
    /\ UNCHANGED <<before, rollbacks, restarts>>

RelayPublishFails(r) ==
    /\ Refuse(r)
    /\ PublishFails(r)
    /\ UNCHANGED <<before, published, rollbacks, restarts>>

RelayCommit(r) == Commit(r) /\ UNCHANGED <<before, connVars, published, rollbacks, restarts>>

RelayStep(r) ==
    RelayPoll(r) \/ RelayPublish(r) \/ RelayPublishFails(r) \/ RelayCommit(r)

RelayRollback(r) ==
    /\ rollbacks + restarts < MaxFaults
    /\ rollbacks' = rollbacks + 1
    /\ Rollback(r)
    /\ UNCHANGED <<before, connVars, published, restarts>>

(* The process ends, its open transaction is rolled back and its buffer is *)
(* lost; a new one starts.                                                 *)
Restart(r) ==
    /\ rollbacks + restarts < MaxFaults
    /\ restarts' = restarts + 1
    /\ tx' = [tx EXCEPT ![r] = NoTx]
    /\ Redial(r)
    /\ UNCHANGED <<outbox, before, published, rollbacks>>

(* The broker goes down; it comes back, and the connections react. *)
Outage ==
    /\ BrokerDown
    /\ UNCHANGED <<outbox, before, tx, published, rollbacks, restarts>>

Recovery ==
    /\ BrokerUp \/ \E r \in Relays : ConnectionStep(r)
    /\ UNCHANGED <<outbox, before, tx, published, rollbacks, restarts>>

Next ==
    \/ Writer
    \/ \E r \in Relays : RelayStep(r) \/ RelayRollback(r) \/ Restart(r)
    \/ Outage
    \/ Recovery

Spec == Init /\ [][Next]_vars

(* The ticker keeps firing and a transaction that is not rolled back runs  *)
(* to its end.                                                             *)
RelayFairness == \A r \in Relays : WF_vars(RelayStep(r))

FairSpec == Spec /\ RelayFairness

(* The kindest environment: nothing is rolled back, the broker comes back, *)
(* and an operator then replaces each process whose connection is closed,  *)
(* which nothing in the code does.                                         *)
Repair(r) == broker /\ conn[r].status = "CLOSED" /\ Restart(r)

RepairedSpec ==
    /\ Init
    /\ [][Writer \/ Outage \/ Recovery \/ \E r \in Relays : RelayStep(r) \/ Repair(r)]_vars
    /\ RelayFairness
    /\ WF_vars(Recovery)
    /\ \A r \in Relays : WF_vars(Repair(r))

-----------------------------------------------------------------------------
(* Properties *)

(* The table, the transactions, the connections and the log are well       *)
(* formed; a row is given up after at most MaxRetryCount attempts.         *)
TypeOK ==
    /\ outbox \in Seq([payload : 1 .. MaxRows,
                       status : {Uncommitted, StatusPending, StatusSent},
                       retry_count : 0 .. MaxRetryCount])
    /\ before \in [DOMAIN outbox -> SUBSET DOMAIN outbox]
    /\ tx \in [Relays -> [open : BOOLEAN, todo : SUBSET DOMAIN outbox,
                          sent : SUBSET DOMAIN outbox, failed : SUBSET DOMAIN outbox]]
    /\ conn \in [Relays -> [status : ConnStatuses, attempts : 0 .. MaxReconnects - 1,
                            buffer : SUBSET DOMAIN outbox]]
    /\ arrived \cup dropped \subseteq DOMAIN outbox
    /\ published \in Seq(Relays \X DOMAIN outbox)

Copies(i) == {n \in DOMAIN published : published[n][2] = i}

(* The only source of duplicates is a transaction that published and was   *)
(* rolled back: a message is published at most once more than that,        *)
(* however many relays share the table (FOR UPDATE SKIP LOCKED).           *)
DuplicatesNeedRollback ==
    \A i \in DOMAIN outbox : Cardinality(Copies(i)) <= 1 + rollbacks + restarts

(* A use case that begins when another one's event is stored may rest on   *)
(* it.  As long as nothing is refused or rolled back, no relay publishes   *)
(* such an event and later the one it rests on, across batches of the      *)
(* LIMIT, although another relay takes rows from the same table and        *)
(* although rows appear in the order of the commits and are read in the    *)
(* order of created_at.                                                    *)
CausalOrder ==
    (rollbacks + restarts = 0 /\ \A r \in Relays : conn[r].status # "CLOSED")
        => \A m, n \in DOMAIN published :
              m < n /\ published[m][1] = published[n][1]
                 => published[n][2] \notin before[published[m][2]]

(* What SENT means: the message reached the broker, or a connection that   *)
(* accepted it still has it in its buffer or has lost it.  A refused       *)
(* message is never taken for a sent one, in whichever state of the        *)
(* connection a transaction began and ended.                               *)
Buffered(i) == \E r \in Relays : i \in conn[r].buffer

SentWasAccepted ==
    \A i \in DOMAIN outbox :
        outbox[i].status = StatusSent => i \in arrived \/ Buffered(i) \/ i \in dropped

(* The relays implement at-least-once delivery: SENT only after a publish, *)
(* no publish after SENT, through every crash between publish and commit.  *)
Contract ==
    INSTANCE AtLeastOnce WITH
        Messages  <- 1 .. MaxRows,
        stored    <- Committed,
        published <- [n \in DOMAIN published |-> published[n][2]],
        sent      <- {i \in DOMAIN outbox : outbox[i].status = StatusSent}

ImplementsAtLeastOnce == Contract!Spec

(* No row is forgotten: every stored event is sent or used up its retries, *)
(* whatever becomes of the relays' transactions and connections.           *)
EventuallySettled ==
    \A i \in 1 .. MaxRows :
        Stored(i) ~> /\ i \in DOMAIN outbox
                     /\ \/ outbox[i].status = StatusSent
                        \/ outbox[i].retry_count = MaxRetryCount

(* Every stored event is eventually sent: "the events stored in the outbox *)
(* table are sent to the message broker asynchronously by the relay". It   *)
(* does not hold: a closed connection uses up the retries of every row, and*)
(* the rows are then left alone although the broker and a new process are  *)
(* there.                                                                  *)
EventuallySent ==
    \A i \in 1 .. MaxRows :
        Stored(i) ~> (i \in DOMAIN outbox /\ outbox[i].status = StatusSent)
=============================================================================
