------------------------ MODULE OutboxDeliveryProofs ------------------------
(***************************************************************************)
(* Proofs about the relays, for any number of relays, rows, failed publish *)
(* attempts, rolled back transactions, restarts and outages.               *)
(*                                                                         *)
(* A row that some transaction has locked is eligible and locked by no     *)
(* other (Locks); the log holds one copy more of a row that is done than   *)
(* faults explain (Counted); a row that is done was accepted by a          *)
(* connection (Delivered).  The rows a row may rest on are committed and   *)
(* sorted before it (Earlier).  As long as nothing went wrong (Smooth),    *)
(* those of a published row are done or in the hands of another relay      *)
(* (InOrder), so a batch never holds a row on which one that its relay     *)
(* published before may rest.                                              *)
(***************************************************************************)
EXTENDS OutboxDelivery, FiniteSetTheorems, SequenceTheorems, WellFoundedInduction, TLAPS

RowType ==
    [payload : 1 .. MaxRows, status : {Uncommitted, StatusPending, StatusSent},
     retry_count : 0 .. MaxRetryCount]

TxType(D) == [open : BOOLEAN, todo : SUBSET D, sent : SUBSET D, failed : SUBSET D]

(* Only a connection that is reconnecting buffers anything. *)
ConnType(D) ==
    {c \in [status : ConnStatuses, attempts : 0 .. MaxReconnects - 1, buffer : SUBSET D] :
        c.status # "RECONNECTING" => c.buffer = {}}

ConnTyped(D) ==
    /\ broker \in BOOLEAN
    /\ conn \in [Relays -> ConnType(D)]
    /\ arrived \subseteq D
    /\ dropped \subseteq D

Typed ==
    /\ outbox \in Seq(RowType)
    /\ Len(outbox) <= MaxRows
    /\ tx \in [Relays -> TxType(DOMAIN outbox)]
    /\ ConnTyped(DOMAIN outbox)
    /\ published \in Seq(Relays \X DOMAIN outbox)
    /\ rollbacks \in Nat
    /\ restarts \in Nat

(* The rows committed when a transaction began have an earlier created_at. *)
Earlier ==
    /\ before \in Seq(SUBSET Nat)
    /\ Len(before) = Len(outbox)
    /\ \A m \in DOMAIN outbox : \A i \in before[m] :
          i \in 1 .. m - 1 /\ outbox[i].status # Uncommitted

Locks ==
    /\ \A r \in Relays :
          /\ \A i \in Locked(r) : Eligible(outbox[i])
          /\ tx[r].todo \cap tx[r].sent = {}
          /\ tx[r].todo \cap tx[r].failed = {}
          /\ tx[r].sent \cap tx[r].failed = {}
          /\ ~tx[r].open => Locked(r) = {}
    /\ \A q, r \in Relays : q # r => Locked(q) \cap Locked(r) = {}

(* Row i was published, for all that is committed or is still to commit.   *)
Done(i) == outbox[i].status = StatusSent \/ \E r \in Relays : i \in tx[r].sent

Accepted(i) == i \in arrived \/ Buffered(i) \/ i \in dropped

Delivered == \A i \in DOMAIN outbox : Done(i) => Accepted(i) /\ Copies(i) # {}

Counted ==
    \A i \in DOMAIN outbox :
        /\ IsFiniteSet(Copies(i))
        /\ Cardinality(Copies(i)) <= rollbacks + restarts + 1
        /\ ~Done(i) => Cardinality(Copies(i)) <= rollbacks + restarts

(* Nothing was rolled back and nothing can have been refused. *)
Smooth == rollbacks + restarts = 0 /\ \A r \in Relays : conn[r].status # "CLOSED"

(* Row i is done or a relay of Q will publish it. *)
InHand(i, Q) == Done(i) \/ \E q \in Q : i \in tx[q].todo

Queued == \A r \in Relays : \A m \in tx[r].todo : \A i \in before[m] : InHand(i, Relays)

Logged ==
    \A n \in DOMAIN published :
        /\ Done(published[n][2])
        /\ \A i \in before[published[n][2]] : InHand(i, Relays \ {published[n][1]})

Causal ==
    \A m, n \in DOMAIN published :
        m < n /\ published[m][1] = published[n][1]
           => published[n][2] \notin before[published[m][2]]

NeverFailed ==
    /\ \A r \in Relays : tx[r].failed = {}
    /\ \A i \in DOMAIN outbox : outbox[i].retry_count = 0

InOrder == Smooth => NeverFailed /\ Queued /\ Logged /\ Causal

IInv == Typed /\ Earlier /\ Locks /\ Delivered /\ Counted /\ InOrder

-----------------------------------------------------------------------------
(* The relay's operators *)

(* ORDER BY: the first row is the oldest one. *)
LEMMA FirstLeast ==
    ASSUME NEW S \in SUBSET Nat, S # {}
    PROVE  First(S) \in S /\ \A j \in S : First(S) <= j
<1>1. PICK x \in S : \A y \in S : ~ (<<y, x>> \in OpToRel(<, Nat))
  BY NatLessThanWellFounded, WFMin
<1>2. ASSUME NEW y \in S PROVE x <= y
  <2>1. x \in Nat /\ y \in Nat OBVIOUS
  <2>2. <<y, x>> \in Nat \X Nat /\ <<y, x>>[1] = y /\ <<y, x>>[2] = x BY <2>1
  <2>3. ~(<<y, x>>[1] < <<y, x>>[2]) BY <1>1, <2>2, Zenon DEF OpToRel
  <2> QED BY <2>1, <2>2, <2>3
<1> QED BY <1>2 DEF First

(* LIMIT: whatever is older than a row of the batch is in the batch. *)
LEMMA BatchOldest ==
    ASSUME NEW S, IsFiniteSet(S), S \subseteq Nat, NEW m \in Batch(S), NEW i \in S, i < m
    PROVE  i \in Batch(S)
<1> DEFINE A == {j \in S : j < i}
           B == {j \in S : j < m}
<1> m \in S BY DEF Batch
<1>1. A \subseteq B /\ B \subseteq S
  <2>1. i \in Nat /\ m \in Nat /\ \A j \in S : j \in Nat OBVIOUS
  <2>2. \A j \in S : j < i => j < m BY <2>1
  <2> QED BY <2>2
<1>2. Cardinality(B) < BatchLimit BY DEF Batch
<1> HIDE DEF A, B
<1>3. IsFiniteSet(B) BY <1>1, FS_Subset
<1>4. IsFiniteSet(A) /\ Cardinality(A) <= Cardinality(B) BY <1>1, <1>3, FS_Subset
<1>5. Cardinality(A) \in Nat /\ Cardinality(B) \in Nat BY <1>3, <1>4, FS_CardinalityType
<1>6. Cardinality(A) < BatchLimit BY <1>2, <1>4, <1>5, RelayAssumption
<1> QED BY <1>6 DEF A, Batch

-----------------------------------------------------------------------------
(* What the connections keep, whatever they do *)

(* No accepted message is forgotten, and the table is as before. *)
Kept ==
    /\ UNCHANGED outbox
    /\ conn' \in [Relays -> ConnType(DOMAIN outbox)]
    /\ broker' \in BOOLEAN
    /\ arrived' \subseteq DOMAIN outbox
    /\ dropped' \subseteq DOMAIN outbox
    /\ \A i \in DOMAIN outbox : Accepted(i) => Accepted(i)'

(* A closed connection is not opened again, except by a restart. *)
StaysClosed ==
    \A r \in Relays : conn[r].status = "CLOSED" => conn'[r].status = "CLOSED"

(* A step that touches no connection loses nothing. *)
LEMMA UnchangedKept ==
    ConnTyped(DOMAIN outbox) /\ UNCHANGED <<outbox, connVars>> => Kept /\ StaysClosed
BY DEF ConnTyped, connVars, Kept, StaysClosed, Accepted, Buffered

(* One connection changes: its buffer arrives, is dropped or is kept.      *)
LEMMA OneConnKept ==
    ASSUME ConnTyped(DOMAIN outbox), UNCHANGED <<outbox, broker>>, NEW r \in Relays,
           NEW c \in ConnType(DOMAIN outbox), conn' = [conn EXCEPT ![r] = c],
           arrived \subseteq arrived', dropped \subseteq dropped',
           arrived' \subseteq DOMAIN outbox, dropped' \subseteq DOMAIN outbox,
           conn[r].buffer \subseteq c.buffer \cup arrived' \cup dropped'
    PROVE  Kept /\ ((conn[r].status = "CLOSED" => c.status = "CLOSED") => StaysClosed)
<1>1. /\ conn' \in [Relays -> ConnType(DOMAIN outbox)] /\ conn'[r] = c
      /\ \A q \in Relays : q # r => conn'[q] = conn[q]
  BY DEF ConnTyped
<1>2. ASSUME NEW i \in DOMAIN outbox, Accepted(i) PROVE Accepted(i)'
  <2>1. CASE i \in arrived \/ i \in dropped BY <2>1 DEF Accepted
  <2>2. ASSUME NEW q \in Relays, i \in conn[q].buffer PROVE Accepted(i)'
    BY <1>1, <2>2 DEF Accepted, Buffered
  <2> QED BY <1>2, <2>1, <2>2 DEF Accepted, Buffered
<1> QED BY <1>1, <1>2 DEF Kept, StaysClosed, ConnTyped

(* A message handed to a connection arrives or is buffered, and nothing else moves. *)
LEMMA AcceptKept ==
    ASSUME ConnTyped(DOMAIN outbox), UNCHANGED outbox, NEW r \in Relays,
           NEW i \in DOMAIN outbox, Accept(r, i)
    PROVE  Kept /\ StaysClosed /\ Accepted(i)'
<1>1. conn[r] \in ConnType(DOMAIN outbox) BY DEF ConnTyped
<1>2. CASE conn[r].status = "RECONNECTING"
  <2> DEFINE c == [conn[r] EXCEPT !.buffer = @ \cup {i}]
  <2>1. /\ c \in ConnType(DOMAIN outbox) /\ c.status = conn[r].status
        /\ c.buffer = conn[r].buffer \cup {i}
    BY <1>1, <1>2 DEF ConnType
  <2>2. /\ conn' = [conn EXCEPT ![r] = c] /\ arrived' = arrived /\ dropped' = dropped
        /\ broker' = broker
    BY <1>2 DEF Accept
  <2> HIDE DEF c
  <2>3. Kept /\ StaysClosed BY <2>1, <2>2, OneConnKept DEF ConnTyped
  <2>4. Accepted(i)' BY <2>1, <2>2 DEF Accepted, Buffered, ConnTyped
  <2> QED BY <2>3, <2>4
<1>3. CASE conn[r].status = "CONNECTED" \/ conn[r].status = "BROKEN"
  <2>1. /\ conn' = conn /\ broker' = broker
        /\ i \in arrived' \/ i \in dropped'
        /\ arrived \subseteq arrived' /\ arrived' \subseteq arrived \cup {i}
        /\ dropped \subseteq dropped' /\ dropped' \subseteq dropped \cup {i}
    BY <1>3 DEF Accept
  <2> QED BY <2>1 DEF Kept, StaysClosed, Accepted, Buffered, ConnTyped
<1> QED BY <1>1, <1>2, <1>3 DEF Accept, ConnType, ConnStatuses

(* A new connection takes nothing back that arrived. *)
LEMMA RedialKept ==
    ASSUME ConnTyped(DOMAIN outbox), UNCHANGED outbox, NEW r \in Relays, Redial(r)
    PROVE  Kept
<1>1. conn[r] \in ConnType(DOMAIN outbox) BY DEF ConnTyped
<1>2. Dialled(broker) \in ConnType(DOMAIN outbox)
  <2>1. 0 \in 0 .. MaxReconnects - 1 BY ConnectionAssumption
  <2> QED BY <2>1 DEF Dialled, ConnType, ConnStatuses
<1> QED BY <1>1, <1>2, OneConnKept DEF Redial, ConnType, ConnTyped

(* A connection's own steps deliver, keep or drop, and never reopen. *)
LEMMA StepKept ==
    ASSUME ConnTyped(DOMAIN outbox), UNCHANGED outbox, NEW r \in Relays, ConnectionStep(r)
    PROVE  Kept /\ StaysClosed
<1>1. conn[r] \in ConnType(DOMAIN outbox) BY DEF ConnTyped
<1>2. 0 \in 0 .. MaxReconnects - 1 BY ConnectionAssumption
<1>3. \A b \in BOOLEAN : /\ Dialled(b) \in ConnType(DOMAIN outbox)
                         /\ Dialled(b).buffer = {}
  BY <1>2 DEF Dialled, ConnType, ConnStatuses
<1>4. CASE NoticeDisconnect(r)
  <2>1. conn[r].buffer = {} BY <1>1, <1>4 DEF NoticeDisconnect, ConnType
  <2> QED BY <1>3, <1>4, <2>1, OneConnKept DEF NoticeDisconnect, ConnTyped
<1>5. CASE Reconnected(r)
  BY <1>1, <1>3, <1>5, OneConnKept DEF Reconnected, ConnType, ConnTyped
<1>6. CASE ReconnectFails(r)
  <2>1. CASE /\ conn[r].attempts + 1 < MaxReconnects
             /\ conn' = [conn EXCEPT ![r].attempts = @ + 1]
             /\ UNCHANGED dropped
    <3> DEFINE c == [conn[r] EXCEPT !.attempts = @ + 1]
    <3>1. conn[r].attempts + 1 \in 0 .. MaxReconnects - 1
      BY <1>1, <2>1, ConnectionAssumption DEF ConnType
    <3>2. /\ c \in ConnType(DOMAIN outbox) /\ c.buffer = conn[r].buffer
          /\ c.status = conn[r].status
      BY <1>1, <3>1 DEF ConnType
    <3>3. conn' = [conn EXCEPT ![r] = c] BY <2>1
    <3> HIDE DEF c
    <3> QED BY <1>6, <2>1, <3>2, <3>3, OneConnKept DEF ReconnectFails, ConnTyped
  <2>2. CASE Close(r)
    <3> DEFINE c == [status |-> "CLOSED", attempts |-> 0, buffer |-> {}]
    <3>1. c \in ConnType(DOMAIN outbox) /\ c.status = "CLOSED" /\ c.buffer = {}
      BY <1>2 DEF ConnType, ConnStatuses
    <3>2. conn' = [conn EXCEPT ![r] = c] /\ dropped' = dropped \cup conn[r].buffer
      BY <2>2 DEF Close
    <3> HIDE DEF c
    <3> QED BY <1>1, <1>6, <3>1, <3>2, OneConnKept DEF ReconnectFails, ConnType, ConnTyped
  <2> QED BY <1>6, <2>1, <2>2 DEF ReconnectFails
<1> QED BY <1>4, <1>5, <1>6 DEF ConnectionStep

(* The broker's stops and starts lose nothing that arrived. *)
LEMMA BrokerKept ==
    ASSUME ConnTyped(DOMAIN outbox), UNCHANGED outbox, BrokerDown \/ BrokerUp
    PROVE  Kept /\ StaysClosed
<1>1. CASE BrokerUp
  BY <1>1 DEF BrokerUp, Kept, StaysClosed, Accepted, Buffered, ConnTyped
<1>2. CASE BrokerDown
  <2>1. ASSUME NEW r \in Relays
        PROVE  /\ conn'[r] \in ConnType(DOMAIN outbox) /\ conn'[r].buffer = conn[r].buffer
               /\ conn[r].status = "CLOSED" => conn'[r].status = "CLOSED"
    <3>1. conn[r] \in ConnType(DOMAIN outbox) BY DEF ConnTyped
    <3>2. conn'[r] = IF conn[r].status = "CONNECTED"
                     THEN [conn[r] EXCEPT !.status = "BROKEN"] ELSE conn[r]
      BY <1>2, OneConnectionEach DEF BrokerDown
    <3> QED BY <3>1, <3>2 DEF ConnType, ConnStatuses
  <2>2. conn' \in [Relays -> ConnType(DOMAIN outbox)]
    BY <1>2, <2>1, OneConnectionEach DEF BrokerDown
  <2> QED BY <1>2, <2>1, <2>2 DEF BrokerDown, Kept, StaysClosed, Accepted, Buffered, ConnTyped
<1> QED BY <1>1, <1>2

-----------------------------------------------------------------------------
(* What the invariant says *)

(* The typing of the invariant is TypeOK. *)
LEMMA TypedIsTypeOK == Typed /\ Earlier => TypeOK
<1> SUFFICES ASSUME Typed, Earlier PROVE TypeOK OBVIOUS
<1>1. before \in [DOMAIN outbox -> SUBSET DOMAIN outbox]
  <2>1. DOMAIN before = DOMAIN outbox /\ DOMAIN outbox = 1 .. Len(outbox) /\ Len(outbox) \in Nat
    BY DEF Typed, Earlier
  <2>2. \A m \in DOMAIN outbox : before[m] \subseteq DOMAIN outbox
    BY <2>1 DEF Earlier
  <2> QED BY <2>1, <2>2 DEF Earlier
<1> QED BY <1>1 DEF Typed, TypeOK, RowType, TxType, ConnTyped, ConnType

(* Counting copies by row bounds the duplicates. *)
LEMMA CountedIsBound == Typed /\ Counted => DuplicatesNeedRollback
<1> SUFFICES ASSUME Typed, Counted, NEW i \in DOMAIN outbox
             PROVE  Cardinality(Copies(i)) <= 1 + rollbacks + restarts
  BY DEF DuplicatesNeedRollback
<1>1. Cardinality(Copies(i)) \in Nat BY FS_CardinalityType DEF Counted
<1> QED BY <1>1 DEF Typed, Counted

(* A row marked SENT was handed to a connection that took it. *)
LEMMA DeliveredIsAccepted == Delivered => SentWasAccepted
BY DEF Delivered, SentWasAccepted, Done, Accepted

(* A causal log is what the property asks for. *)
LEMMA InOrderIsCausal == InOrder => CausalOrder
BY DEF InOrder, Smooth, Causal, CausalOrder

(* The rows a row may rest on are rows of the table, and older. *)
LEMMA EarlierRows ==
    ASSUME Typed, Earlier, NEW m \in DOMAIN outbox, NEW i \in before[m]
    PROVE  i \in DOMAIN outbox /\ i \in Nat /\ m \in Nat /\ i < m
<1>1. DOMAIN outbox = 1 .. Len(outbox) /\ Len(outbox) \in Nat BY DEF Typed
<1>2. i \in 1 .. m - 1 BY DEF Earlier
<1> QED BY <1>1, <1>2

-----------------------------------------------------------------------------
(* The invariant holds at the start *)

(* The outbox is empty and no relay has begun. *)
LEMMA InitIInv == Init => IInv
<1> SUFFICES ASSUME Init PROVE IInv OBVIOUS
<1>1. /\ outbox = <<>> /\ before = <<>> /\ published = <<>>
      /\ rollbacks = 0 /\ restarts = 0
      /\ tx = [r \in Relays |-> NoTx]
      /\ conn = [r \in Relays |-> Dialled(broker)] /\ broker \in BOOLEAN
      /\ arrived = {} /\ dropped = {}
  BY OneConnectionEach DEF Init, RelayInit, ConnectionInit
<1>2. 0 \in 0 .. MaxReconnects - 1 BY ConnectionAssumption
<1>3. Dialled(broker) \in ConnType(DOMAIN outbox)
  BY <1>1, <1>2 DEF Dialled, ConnType, ConnStatuses
<1>4. NoTx \in TxType(DOMAIN outbox) /\ NoTx.todo = {} /\ NoTx.sent = {} /\ NoTx.failed = {}
  BY DEF NoTx, TxType
<1>5. Typed BY <1>1, <1>3, <1>4, BoundsAssumption DEF Typed, ConnTyped
<1>6. Locks BY <1>1, <1>4 DEF Locks, Locked
<1>7. Delivered /\ Counted BY <1>1 DEF Delivered, Counted
<1>8. InOrder BY <1>1, <1>4 DEF InOrder, NeverFailed, Queued, Logged, Causal
<1>9. Earlier BY <1>1 DEF Earlier
<1> QED BY <1>5, <1>6, <1>7, <1>8, <1>9 DEF IInv

-----------------------------------------------------------------------------
(* Every step keeps it *)

(* Only the connections changed. *)
LEMMA QuietIInv ==
    ASSUME IInv, Kept, StaysClosed, UNCHANGED <<before, tx, published, rollbacks, restarts>>
    PROVE  IInv'
<1>1. outbox' = outbox BY DEF Kept
<1>2. Typed' BY <1>1 DEF IInv, Typed, Kept, ConnTyped
<1>3. Locks' BY <1>1 DEF IInv, Locks, Locked
<1>4. \A i \in DOMAIN outbox : Done(i)' <=> Done(i) BY <1>1 DEF Done
<1>5. Delivered' BY <1>1, <1>4 DEF IInv, Delivered, Kept, Copies
<1>6. Counted' BY <1>1, <1>4 DEF IInv, Counted, Copies
<1>7. Smooth' => Smooth BY DEF Smooth, StaysClosed
<1>8. InOrder'
  BY <1>1, <1>7 DEF IInv, InOrder, NeverFailed, Queued, Logged, Causal, InHand, Done
<1>9. Earlier' BY <1>1 DEF IInv, Earlier
<1> QED BY <1>2, <1>3, <1>5, <1>6, <1>8, <1>9 DEF IInv

(* A writer begins: an invisible row at the end of the table. *)
LEMMA BeginStoreRows ==
    ASSUME Typed, BeginStore, NEW n, n = Len(outbox) + 1
    PROVE  /\ n \in 1 .. MaxRows
           /\ outbox' \in Seq(RowType) /\ Len(outbox') = n
           /\ \A i \in DOMAIN outbox : outbox'[i] = outbox[i]
           /\ outbox'[n].status = Uncommitted /\ outbox'[n].retry_count = 0
<1>1. outbox \in Seq(RowType) /\ Len(outbox) \in Nat /\ DOMAIN outbox = 1 .. Len(outbox)
  BY DEF Typed
<1>2. n \in 1 .. MaxRows BY <1>1, BoundsAssumption DEF BeginStore
<1> PICK pending : pending = [payload |-> n, status |-> StatusPending, retry_count |-> 0]
  OBVIOUS
<1> PICK row : row = [payload |-> n, status |-> Uncommitted, retry_count |-> 0]
  OBVIOUS
<1>3. 0 \in 0 .. MaxRetryCount BY RelayAssumption
<1>4. pending \in RowType BY <1>2, <1>3 DEF RowType
<1>5. row \in RowType /\ row.status = Uncommitted /\ row.retry_count = 0
  BY <1>2, <1>3 DEF RowType
<1>6. row = [pending EXCEPT !.status = Uncommitted] OBVIOUS
<1> PICK s : s = Append(outbox, pending) OBVIOUS
<1>7. /\ s \in Seq(RowType) /\ Len(s) = n /\ s[n] = pending
      /\ \A i \in 1 .. Len(outbox) : s[i] = outbox[i]
  BY <1>1, <1>4, AppendProperties
<1>8. outbox' = [s EXCEPT ![n] = row]
  <2>1. outbox' = [s EXCEPT ![n].status = Uncommitted] BY DEF BeginStore, PublishInTx
  <2> QED BY <1>6, <1>7, <2>1
<1>9. DOMAIN s = 1 .. n /\ n \in Nat BY <1>1, <1>7
<1>10. outbox' \in Seq(RowType) /\ Len(outbox') = n BY <1>5, <1>7, <1>8, <1>9
<1>11. outbox'[n] = row /\ \A i \in DOMAIN outbox : outbox'[i] = s[i]
  <2>1. n \in DOMAIN s /\ \A i \in DOMAIN outbox : i \in DOMAIN s /\ i # n BY <1>1, <1>9
  <2> QED BY <1>8, <2>1, Zenon
<1> QED BY <1>1, <1>2, <1>5, <1>7, <1>10, <1>11

(* A new row is younger than all rows and invisible: it is nobody's yet.   *)
LEMMA BeginStoreIInv == ASSUME IInv, BeginStore PROVE IInv'
<1> PICK n : n = Len(outbox) + 1 OBVIOUS
<1> DEFINE D == DOMAIN outbox
<1>1. outbox \in Seq(RowType) /\ Len(outbox) \in Nat /\ D = 1 .. Len(outbox)
  BY DEF IInv, Typed
<1>2. /\ n \in 1 .. MaxRows
      /\ outbox' \in Seq(RowType) /\ Len(outbox') = n
      /\ \A i \in D : outbox'[i] = outbox[i]
      /\ outbox'[n].status = Uncommitted /\ outbox'[n].retry_count = 0
  BY BeginStoreRows DEF IInv
<1>3. n <= MaxRows BY <1>2, BoundsAssumption
<1>4. DOMAIN outbox' = D \cup {n} /\ n \notin D BY <1>1, <1>2
<1>5. UNCHANGED <<tx, connVars, published, rollbacks, restarts>> BY DEF BeginStore
<1>6. /\ tx \in [Relays -> TxType(D)] /\ ConnTyped(D)
      /\ published \in Seq(Relays \X D)
  BY DEF IInv, Typed
<1> HIDE DEF D
<1>7. Typed'
  <2>1. tx \in [Relays -> TxType(D \cup {n})] BY <1>6 DEF TxType
  <2>2. conn \in [Relays -> ConnType(D \cup {n})] BY <1>6 DEF ConnTyped, ConnType
  <2>3. published \in Seq(Relays \X (D \cup {n}))
    <3>1. Relays \X D \subseteq Relays \X (D \cup {n}) OBVIOUS
    <3> QED BY <1>6, <3>1
  <2> QED BY <1>2, <1>3, <1>4, <1>5, <1>6, <2>1, <2>2, <2>3
     DEF IInv, Typed, ConnTyped, connVars
<1>8. \A r \in Relays : Locked(r) \subseteq D BY <1>6 DEF Locked, TxType
<1>9. Locks' BY <1>2, <1>5, <1>8 DEF IInv, Locks, Locked
<1>10. \A i \in D : Done(i)' <=> Done(i) BY <1>2, <1>5 DEF Done
<1>11. ~Done(n)' BY <1>2, <1>4, <1>5, <1>8 DEF Done, Locked, StatusSent, Uncommitted
<1>12. Copies(n) = {} BY <1>4, <1>6 DEF Copies
<1>13. \A i : Copies(i)' = Copies(i) BY <1>5 DEF Copies
<1>14. \A i : Accepted(i)' <=> Accepted(i) BY <1>5 DEF connVars, Accepted, Buffered
<1>15. Delivered' BY <1>4, <1>10, <1>11, <1>13, <1>14 DEF IInv, Delivered, D
<1>16. Counted'
  <2>1. IsFiniteSet(Copies(n)) /\ Cardinality(Copies(n)) = 0 BY <1>12, FS_EmptySet
  <2>2. rollbacks \in Nat /\ restarts \in Nat BY DEF IInv, Typed
  <2> QED BY <1>4, <1>5, <1>10, <1>11, <1>13, <2>1, <2>2 DEF IInv, Counted, D
<1> PICK C : C = Committed OBVIOUS
<1>17. /\ before \in Seq(SUBSET Nat) /\ Len(before) = Len(outbox)
       /\ C \subseteq D /\ \A i \in C : outbox[i].status # Uncommitted
       /\ before' = Append(before, C)
  BY DEF IInv, Earlier, Committed, Stored, BeginStore, D
<1>18. /\ before' \in Seq(SUBSET Nat) /\ Len(before') = n
       /\ \A i \in D : before'[i] = before[i]
       /\ before'[n] = C
  <2>1. C \in SUBSET Nat BY <1>1, <1>17
  <2> QED BY <1>1, <1>17, <2>1, AppendProperties
<1>19. \A m \in D : \A i \in before[m] : i \in D
  BY EarlierRows DEF IInv, D
<1>20. Earlier'
  <2>1. ASSUME NEW m \in D \cup {n}, NEW i \in before'[m]
        PROVE  i \in 1 .. m - 1 /\ outbox'[i].status # Uncommitted
    <3>1. CASE m = n
      <4>1. i \in D /\ outbox[i].status # Uncommitted BY <1>17, <1>18, <2>1, <3>1
      <4>2. i \in 1 .. n - 1 BY <1>1, <4>1
      <4> QED BY <1>2, <3>1, <4>1, <4>2
    <3>2. CASE m \in D
      <4>1. i \in before[m] /\ i \in D BY <1>18, <1>19, <2>1, <3>2
      <4>2. i \in 1 .. m - 1 /\ outbox[i].status # Uncommitted
        BY <3>2, <4>1 DEF IInv, Earlier, D
      <4> QED BY <1>2, <4>1, <4>2
    <3> QED BY <2>1, <3>1, <3>2
  <2> QED BY <1>2, <1>4, <1>18, <2>1 DEF Earlier
<1>21. InOrder'
  <2> SUFFICES ASSUME Smooth' PROVE (NeverFailed /\ Queued /\ Logged /\ Causal)'
    BY DEF InOrder
  <2>1. Smooth /\ NeverFailed /\ Queued /\ Logged /\ Causal
    BY <1>5 DEF Smooth, connVars, IInv, InOrder
  <2>2. NeverFailed' BY <1>2, <1>4, <1>5, <2>1 DEF NeverFailed, D
  <2>3. \A m \in D : before'[m] = before[m] /\ \A i \in before[m] : i \in D BY <1>18, <1>19
  <2>4. \A i \in D : \A Q : InHand(i, Q) => InHand(i, Q)' BY <1>5, <1>10 DEF InHand
  <2>5. Queued' BY <1>5, <1>8, <2>1, <2>3, <2>4 DEF Queued, Locked
  <2>6. \A k \in DOMAIN published : published[k][1] \in Relays /\ published[k][2] \in D
    BY <1>6
  <2>7. Logged' BY <1>5, <1>10, <2>1, <2>3, <2>4, <2>6 DEF Logged
  <2>8. Causal' BY <1>5, <2>1, <2>3, <2>6 DEF Causal
  <2> QED BY <2>2, <2>5, <2>7, <2>8
<1> QED BY <1>7, <1>9, <1>15, <1>16, <1>21, <1>20 DEF IInv

(* A writer commits: its row alone changes, and becomes visible. *)
LEMMA CommitStoreRows ==
    ASSUME Typed, NEW n \in DOMAIN outbox, CommitStore(n)
    PROVE  /\ outbox' \in Seq(RowType) /\ Len(outbox') = Len(outbox)
           /\ \A i \in DOMAIN outbox : i # n => outbox'[i] = outbox[i]
           /\ outbox'[n].status = StatusPending
           /\ outbox'[n].retry_count = outbox[n].retry_count
<1>1. outbox \in Seq(RowType) /\ Len(outbox) \in Nat /\ DOMAIN outbox = 1 .. Len(outbox)
  BY DEF Typed
<1> PICK row : row = [outbox[n] EXCEPT !.status = StatusPending] OBVIOUS
<1>2. outbox[n] \in RowType BY <1>1
<1>3. /\ row \in RowType /\ row.status = StatusPending
      /\ row.retry_count = outbox[n].retry_count
  BY <1>2 DEF RowType
<1>4. outbox' = [outbox EXCEPT ![n] = row] BY DEF CommitStore
<1> QED BY <1>1, <1>3, <1>4

(* A writer's commit shows a row that nobody has seen: no lock, no copy,   *)
(* and no row that may be published rests on it.                           *)
LEMMA CommitStoreIInv ==
    ASSUME IInv, NEW n \in DOMAIN outbox, CommitStore(n) PROVE IInv'
<1> DEFINE D == DOMAIN outbox
<1>1. /\ outbox \in Seq(RowType) /\ Len(outbox) \in Nat /\ D = 1 .. Len(outbox)
      /\ tx \in [Relays -> TxType(D)] /\ ConnTyped(D)
      /\ published \in Seq(Relays \X D)
  BY DEF IInv, Typed
<1>2. /\ outbox' \in Seq(RowType) /\ Len(outbox') = Len(outbox)
      /\ \A i \in D : i # n => outbox'[i] = outbox[i]
      /\ outbox'[n].status = StatusPending
      /\ outbox'[n].retry_count = outbox[n].retry_count
  BY CommitStoreRows DEF IInv
<1>3. /\ outbox[n].status = Uncommitted
      /\ UNCHANGED <<before, tx, connVars, published, rollbacks, restarts>>
  BY DEF CommitStore
<1>4. DOMAIN outbox' = D BY <1>1, <1>2
<1> HIDE DEF D
<1>5. Typed' BY <1>1, <1>3, <1>2, <1>4 DEF IInv, Typed, ConnTyped, connVars, D
<1>6. Uncommitted # StatusPending /\ Uncommitted # StatusSent /\ StatusPending # StatusSent
  BY DEF Uncommitted, StatusPending, StatusSent
<1>7. Earlier'
  <2>1. ASSUME NEW m \in D, NEW i \in before[m]
        PROVE  i \in 1 .. m - 1 /\ outbox'[i].status # Uncommitted
    <3>1. i \in 1 .. m - 1 /\ outbox[i].status # Uncommitted /\ i \in D
      BY EarlierRows DEF IInv, Earlier, D
    <3> QED BY <1>2, <1>3, <1>4, <1>6, <3>1
  <2> QED BY <1>3, <1>2, <1>4, <2>1 DEF IInv, Earlier, D
<1>8. \A r \in Relays : Locked(r)' = Locked(r) /\ n \notin Locked(r) /\ Locked(r) \subseteq D
  BY <1>1, <1>3, <1>6 DEF IInv, Locks, Locked, Eligible, TxType
<1>9. Locks'
  <2>1. \A r \in Relays : \A i \in Locked(r) : outbox'[i] = outbox[i] BY <1>2, <1>4, <1>8
  <2> QED BY <1>3, <1>8, <2>1 DEF IInv, Locks
<1>10. \A i \in D : Done(i)' <=> Done(i)
  <2>1. \A i \in D : outbox'[i].status = StatusSent <=> outbox[i].status = StatusSent
    BY <1>2, <1>3, <1>4, <1>6
  <2> QED BY <1>3, <2>1 DEF Done
<1>11. \A i : Copies(i)' = Copies(i) BY <1>3 DEF Copies
<1>12. \A i : Accepted(i)' <=> Accepted(i) BY <1>3 DEF connVars, Accepted, Buffered
<1>13. Delivered' BY <1>2, <1>4, <1>10, <1>11, <1>12 DEF IInv, Delivered, D
<1>14. Counted' BY <1>3, <1>2, <1>4, <1>10, <1>11 DEF IInv, Counted, D
<1>15. InOrder'
  <2> SUFFICES ASSUME Smooth' PROVE (NeverFailed /\ Queued /\ Logged /\ Causal)'
    BY DEF InOrder
  <2>1. NeverFailed /\ Queued /\ Logged /\ Causal
    BY <1>3 DEF Smooth, connVars, IInv, InOrder
  <2>2. NeverFailed' BY <1>2, <1>3, <1>4, <2>1 DEF NeverFailed, D
  <2>3. \A m \in D : \A i \in before[m] : i \in D BY EarlierRows DEF IInv, D
  <2>4. \A i \in D : \A Q : InHand(i, Q) => InHand(i, Q)' BY <1>3, <1>10 DEF InHand
  <2>5. \A r \in Relays : tx[r].todo \subseteq D BY <1>1 DEF TxType
  <2>6. Queued' BY <1>3, <2>1, <2>3, <2>4, <2>5 DEF Queued
  <2>7. \A k \in DOMAIN published : published[k][1] \in Relays /\ published[k][2] \in D
    BY <1>1
  <2>8. Logged' BY <1>3, <1>10, <2>1, <2>3, <2>4, <2>7 DEF Logged
  <2>9. Causal' BY <1>3, <2>1 DEF Causal
  <2> QED BY <2>2, <2>6, <2>8, <2>9
<1> QED BY <1>5, <1>7, <1>9, <1>13, <1>14, <1>15 DEF IInv

(* A relay locks a batch: eligible rows that nobody else has locked.       *)
LEMMA PollIInv == ASSUME IInv, NEW r \in Relays, RelayPoll(r) PROVE IInv'
<1> DEFINE D == DOMAIN outbox
<1> PICK B : B = Batch(Pending(r)) OBVIOUS
<1>1. /\ outbox \in Seq(RowType) /\ D = 1 .. Len(outbox) /\ Len(outbox) \in Nat
      /\ tx \in [Relays -> TxType(D)] /\ ConnTyped(D)
  BY DEF IInv, Typed
<1>2. Locks BY DEF IInv
<1>3. /\ B \subseteq Pending(r) /\ Pending(r) \subseteq D
      /\ \A i \in B : Eligible(outbox[i])
      /\ \A q \in Relays \ {r} : B \cap Locked(q) = {}
  BY DEF Batch, Pending, LockedByOthers
<1>4. /\ ~tx[r].open /\ outbox' = outbox
      /\ UNCHANGED <<before, connVars, published, rollbacks, restarts>>
      /\ tx' = [tx EXCEPT ![r] = [NoTx EXCEPT !.open = TRUE, !.todo = B]]
  BY DEF RelayPoll, Poll
<1> HIDE DEF D
<1>5. /\ tx' \in [Relays -> TxType(D)]
      /\ tx'[r].open /\ tx'[r].todo = B /\ tx'[r].sent = {} /\ tx'[r].failed = {}
      /\ \A q \in Relays : q # r => tx'[q] = tx[q]
  <2> DEFINE new == [NoTx EXCEPT !.open = TRUE, !.todo = B]
  <2>1. NoTx \in TxType(D) /\ NoTx.sent = {} /\ NoTx.failed = {} BY DEF NoTx, TxType
  <2>2. new \in TxType(D) BY <1>3, <2>1 DEF TxType
  <2>3. new.open /\ new.todo = B /\ new.sent = {} /\ new.failed = {}
    BY <2>1 DEF TxType
  <2> HIDE DEF new
  <2> QED BY <1>1, <1>4, <2>2, <2>3 DEF new
<1>6. tx[r].todo = {} /\ tx[r].sent = {} /\ tx[r].failed = {} BY <1>2, <1>4 DEF Locks, Locked
<1>7. Kept BY <1>1, <1>4, UnchangedKept DEF D
<1>8. Typed' BY <1>1, <1>4, <1>5 DEF IInv, Typed, ConnTyped, connVars, D
<1>9. Locks'
  <2>1. Locked(r)' = B BY <1>5 DEF Locked
  <2>2. \A q \in Relays : q # r => Locked(q)' = Locked(q) BY <1>5 DEF Locked
  <2>3. ASSUME NEW q \in Relays
        PROVE  /\ \A i \in Locked(q)' : Eligible(outbox'[i])
               /\ tx'[q].todo \cap tx'[q].sent = {}
               /\ tx'[q].todo \cap tx'[q].failed = {}
               /\ tx'[q].sent \cap tx'[q].failed = {}
               /\ ~tx'[q].open => Locked(q)' = {}
    <3>1. CASE q = r BY <1>3, <1>4, <1>5, <2>1, <3>1
    <3>2. CASE q # r BY <1>2, <1>4, <1>5, <2>2, <3>2 DEF Locks
    <3> QED BY <3>1, <3>2
  <2>4. ASSUME NEW p \in Relays, NEW q \in Relays, p # q
        PROVE  Locked(p)' \cap Locked(q)' = {}
    <3>1. CASE p = r BY <1>3, <2>1, <2>2, <2>4, <3>1
    <3>2. CASE q = r BY <1>3, <2>1, <2>2, <2>4, <3>2
    <3>3. CASE p # r /\ q # r BY <1>2, <2>2, <2>4, <3>3 DEF Locks
    <3> QED BY <3>1, <3>2, <3>3
  <2> QED BY <2>3, <2>4 DEF Locks
<1>10. \A i : Done(i)' <=> Done(i) BY <1>4, <1>5, <1>6 DEF Done
<1>11. \A i : Copies(i)' = Copies(i) BY <1>4 DEF Copies
<1>12. Delivered' BY <1>4, <1>7, <1>10, <1>11 DEF IInv, Delivered, Kept
<1>13. Counted' BY <1>4, <1>10, <1>11 DEF IInv, Counted
<1>14. InOrder'
  <2> SUFFICES ASSUME Smooth' PROVE (NeverFailed /\ Queued /\ Logged /\ Causal)'
    BY DEF InOrder
  <2>1. Smooth /\ NeverFailed /\ Queued /\ Logged /\ Causal
    BY <1>4 DEF Smooth, connVars, IInv, InOrder
  <2>2. NeverFailed' BY <1>4, <1>5, <2>1 DEF NeverFailed
  <2>3. \A i : \A Q \in SUBSET Relays : InHand(i, Q) => InHand(i, Q)'
    BY <1>5, <1>6, <1>10 DEF InHand
  <2>4. Relays \in SUBSET Relays /\ \A q \in Relays : Relays \ {q} \in SUBSET Relays OBVIOUS
  <2>5. ASSUME NEW m \in B, NEW i \in before[m] PROVE InHand(i, Relays)'
    <3>0. m \in D BY <1>3
    <3>1. m \in D /\ i \in D /\ i \in Nat /\ m \in Nat /\ i < m
      BY <3>0, EarlierRows DEF IInv, D
    <3>2. CASE InHand(i, Relays) BY <2>3, <2>4, <3>2
    <3>3. CASE ~InHand(i, Relays)
      <4>1. outbox[i].status = StatusPending /\ outbox[i].retry_count = 0
        <5>1. outbox[i] \in RowType BY <1>1, <3>1 DEF D
        <5>2. outbox[i].status # StatusSent BY <3>3 DEF InHand, Done
        <5>4. outbox[i].status # Uncommitted BY <3>0 DEF IInv, Earlier, D
        <5>3. outbox[i].retry_count = 0 BY <2>1, <3>1 DEF NeverFailed, D
        <5> QED BY <5>1, <5>2, <5>3, <5>4 DEF RowType
      <4>2. Eligible(outbox[i]) BY <4>1, RelayAssumption DEF Eligible
      <4>3. \A q \in Relays : i \notin Locked(q)
        BY <2>1, <3>3 DEF InHand, Done, Locked, NeverFailed
      <4>4. i \in Pending(r) BY <3>1, <4>2, <4>3 DEF Pending, LockedByOthers, D
      <4>5. IsFiniteSet(Pending(r)) /\ Pending(r) \subseteq Nat
        <5>1. IsFiniteSet(D) BY <1>1, FS_Interval
        <5> QED BY <1>1, <1>3, <5>1, FS_Subset
      <4>6. i \in B BY <3>1, <4>4, <4>5, BatchOldest
      <4> QED BY <1>5, <4>6 DEF InHand
    <3> QED BY <3>2, <3>3
  <2>6. ASSUME NEW q \in Relays, NEW m \in tx'[q].todo, NEW i \in before[m]
        PROVE  InHand(i, Relays)'
    <3>1. CASE q = r BY <1>5, <2>5, <3>1
    <3>2. CASE q # r BY <1>5, <2>1, <2>3, <2>4, <3>2 DEF Queued
    <3> QED BY <3>1, <3>2
  <2>7. Queued' BY <1>4, <2>6 DEF Queued
  <2>8. \A k \in DOMAIN published : published[k][1] \in Relays BY DEF IInv, Typed
  <2>9. Logged' BY <1>4, <1>10, <2>1, <2>3, <2>4, <2>8 DEF Logged
  <2>10. Causal' BY <1>4, <2>1 DEF Causal
  <2> QED BY <2>2, <2>7, <2>9, <2>10
<1>15. Earlier' BY <1>4 DEF IInv, Earlier
<1> QED BY <1>8, <1>9, <1>12, <1>13, <1>14, <1>15 DEF IInv

(* A transaction ends without an effect: its rows are as before, and one   *)
(* more fault explains the copies it published.                            *)
LEMMA EndIInv ==
    ASSUME IInv, Kept, NEW r \in Relays, tx' = [tx EXCEPT ![r] = NoTx],
           UNCHANGED <<before, published>>,
           rollbacks' \in Nat, restarts' \in Nat,
           rollbacks' + restarts' = rollbacks + restarts + 1
    PROVE  IInv'
<1>1. outbox' = outbox BY DEF Kept
<1>2. /\ tx \in [Relays -> TxType(DOMAIN outbox)] /\ rollbacks \in Nat /\ restarts \in Nat
      /\ outbox \in Seq(RowType) /\ published \in Seq(Relays \X DOMAIN outbox)
  BY DEF IInv, Typed
<1> PICK f, g : f = rollbacks + restarts /\ g = rollbacks' + restarts' OBVIOUS
<1>0. f \in Nat /\ g = f + 1
  <2>1. f \in Nat BY <1>2
  <2>2. g = f + 1 BY Zenon
  <2> QED BY <2>1, <2>2
<1>3. /\ NoTx \in TxType(DOMAIN outbox) /\ ~NoTx.open
      /\ NoTx.todo = {} /\ NoTx.sent = {} /\ NoTx.failed = {}
  BY DEF NoTx, TxType
<1>4. /\ tx' \in [Relays -> TxType(DOMAIN outbox)] /\ tx'[r] = NoTx
      /\ \A q \in Relays : q # r => tx'[q] = tx[q]
  BY <1>2, <1>3
<1>5. Typed' BY <1>1, <1>2, <1>4 DEF IInv, Typed, Kept, ConnTyped
<1>6. Locks' BY <1>1, <1>3, <1>4 DEF IInv, Locks, Locked
<1>7. \A i : Done(i)' => Done(i) BY <1>1, <1>3, <1>4 DEF Done
<1>8. \A i : Copies(i)' = Copies(i) BY DEF Copies
<1>9. Delivered' BY <1>1, <1>7, <1>8 DEF IInv, Delivered, Kept
<1>10. Counted'
  <2>1. ASSUME NEW i \in DOMAIN outbox
        PROVE  /\ IsFiniteSet(Copies(i))
               /\ Cardinality(Copies(i)) <= g
               /\ Cardinality(Copies(i)) <= g + 1
    <3>1. IsFiniteSet(Copies(i)) /\ Cardinality(Copies(i)) <= f + 1
      BY DEF IInv, Counted
    <3>2. Cardinality(Copies(i)) \in Nat BY <3>1, FS_CardinalityType
    <3> QED BY <1>0, <3>1, <3>2
  <2> QED BY <1>1, <1>8, <2>1 DEF Counted
<1>11. ~Smooth' BY <1>0 DEF Smooth
<1>12. Earlier' BY <1>1 DEF IInv, Earlier
<1> QED BY <1>5, <1>6, <1>9, <1>10, <1>11, <1>12 DEF IInv, InOrder

(* What publishing and failing do to the transaction of a relay: its first *)
(* message moves from todo to where, and the locks stay.                   *)
LEMMA FirstOfTodo ==
    ASSUME Typed, NEW r \in Relays, tx[r].todo # {}
    PROVE  /\ First(tx[r].todo) \in tx[r].todo
           /\ \A j \in tx[r].todo : First(tx[r].todo) <= j
<1>1. DOMAIN outbox \subseteq Nat BY DEF Typed
<1>2. tx[r].todo \in SUBSET Nat BY <1>1 DEF Typed, TxType
<1> QED BY <1>2, FirstLeast

(* Publishing appends one copy of a locked row and moves it to the sent ones. *)
LEMMA PublishIInv ==
    ASSUME IInv, NEW r \in Relays, NEW i \in DOMAIN outbox, PublishMessage(r, i), Accept(r, i),
           published' = Append(published, <<r, i>>), UNCHANGED <<before, rollbacks, restarts>>
    PROVE  IInv'
<1> DEFINE D == DOMAIN outbox
<1> PICK n : n = Len(published) + 1 OBVIOUS
<1>1. /\ outbox \in Seq(RowType) /\ D = 1 .. Len(outbox) /\ Len(outbox) \in Nat
      /\ tx \in [Relays -> TxType(D)] /\ ConnTyped(D)
      /\ published \in Seq(Relays \X D) /\ Len(published) \in Nat
      /\ DOMAIN published = 1 .. Len(published)
      /\ rollbacks \in Nat /\ restarts \in Nat
  BY DEF IInv, Typed
<1>2. Locks BY DEF IInv
<1>3. i \in tx[r].todo /\ \A j \in tx[r].todo : i <= j
  BY FirstOfTodo DEF PublishMessage, IInv
<1>4. outbox' = outbox BY DEF PublishMessage
<1>5. /\ tx' \in [Relays -> TxType(D)]
      /\ tx'[r].todo = tx[r].todo \ {i} /\ tx'[r].sent = tx[r].sent \cup {i}
      /\ tx'[r].failed = tx[r].failed /\ tx'[r].open = tx[r].open
      /\ \A q \in Relays : q # r => tx'[q] = tx[q]
  <2>1. tx' = [tx EXCEPT ![r].todo = @ \ {i}, ![r].sent = @ \cup {i}] BY DEF PublishMessage
  <2> QED BY <1>1, <2>1 DEF TxType
<1>6. Kept /\ StaysClosed /\ Accepted(i)' BY <1>1, <1>4, AcceptKept
<1>7. /\ published' \in Seq(Relays \X D) /\ DOMAIN published' = DOMAIN published \cup {n}
      /\ n \notin DOMAIN published /\ \A k \in DOMAIN published : k < n
      /\ published'[n] = <<r, i>> /\ \A k \in DOMAIN published : published'[k] = published[k]
  <2>1. <<r, i>> \in Relays \X D OBVIOUS
  <2> HIDE DEF D
  <2>2. /\ published' \in Seq(Relays \X D) /\ Len(published') = n
        /\ published'[n] = <<r, i>>
        /\ \A k \in 1 .. Len(published) : published'[k] = published[k]
    BY <1>1, <2>1, AppendProperties
  <2> QED BY <1>1, <2>2
<1>8. Typed' BY <1>1, <1>4, <1>5, <1>6, <1>7 DEF IInv, Typed, Kept, ConnTyped
<1>9. \A q \in Relays : Locked(q)' = Locked(q)
  <2>1. ASSUME NEW q \in Relays PROVE Locked(q)' = Locked(q)
    <3>1. CASE q = r BY <1>3, <1>5, <3>1 DEF Locked
    <3>2. CASE q # r BY <1>5, <3>2 DEF Locked
    <3> QED BY <3>1, <3>2
  <2> QED BY <2>1
<1>10. Locks'
  <2>1. ASSUME NEW q \in Relays
        PROVE  /\ tx'[q].todo \cap tx'[q].sent = {}
               /\ tx'[q].todo \cap tx'[q].failed = {}
               /\ tx'[q].sent \cap tx'[q].failed = {}
               /\ tx'[q].open = tx[q].open
    BY <1>2, <1>3, <1>5 DEF Locks
  <2> QED BY <1>2, <1>4, <1>9, <2>1 DEF Locks
<1>11. ~Done(i)
  <2>1. Eligible(outbox[i]) BY <1>2, <1>3 DEF Locks, Locked
  <2>2. \A q \in Relays : i \notin tx[q].sent BY <1>2, <1>3 DEF Locks, Locked
  <2> QED BY <2>1, <2>2 DEF Done, Eligible, StatusPending, StatusSent
<1>12. \A j : Done(j)' <=> Done(j) \/ j = i BY <1>4, <1>5 DEF Done
<1>13. /\ Copies(i)' = Copies(i) \cup {n} /\ n \notin Copies(i)
       /\ \A j \in D : j # i => Copies(j)' = Copies(j)
  BY <1>7 DEF Copies
<1>14. Delivered'
  BY <1>4, <1>6, <1>12, <1>13 DEF IInv, Delivered, Kept
<1>15. Counted'
  <2>1. ASSUME NEW j \in D
        PROVE  /\ IsFiniteSet(Copies(j)')
               /\ Cardinality(Copies(j)') <= rollbacks + restarts + 1
               /\ ~Done(j)' => Cardinality(Copies(j)') <= rollbacks + restarts
    <3>1. CASE j # i BY <1>12, <1>13, <3>1 DEF IInv, Counted
    <3>2. CASE j = i
      <4>1. IsFiniteSet(Copies(i)) /\ Cardinality(Copies(i)) <= rollbacks + restarts
        BY <1>11 DEF IInv, Counted
      <4>2. /\ IsFiniteSet(Copies(i) \cup {n})
            /\ Cardinality(Copies(i) \cup {n}) = Cardinality(Copies(i)) + 1
        BY <1>13, <4>1, FS_AddElement
      <4>3. Cardinality(Copies(i)) \in Nat BY <4>1, FS_CardinalityType
      <4>4. Cardinality(Copies(i)) + 1 <= rollbacks + restarts + 1 BY <1>1, <4>1, <4>3
      <4>5. /\ IsFiniteSet(Copies(i)')
            /\ Cardinality(Copies(i)') <= rollbacks + restarts + 1
        BY <1>13, <4>2, <4>4
      <4> QED BY <1>12, <3>2, <4>5
    <3> QED BY <3>1, <3>2
  <2> QED BY <1>4, <2>1 DEF Counted
<1>16. InOrder'
  <2> SUFFICES ASSUME Smooth' PROVE (NeverFailed /\ Queued /\ Logged /\ Causal)'
    BY DEF InOrder
  <2>1. NeverFailed /\ Queued /\ Logged /\ Causal
    BY <1>6 DEF Smooth, StaysClosed, IInv, InOrder
  <2>2. NeverFailed' BY <1>4, <1>5, <2>1 DEF NeverFailed
  <2>3. \A j : \A Q \in SUBSET Relays : InHand(j, Q) => InHand(j, Q)'
    BY <1>5, <1>12 DEF InHand
  <2>4. Relays \in SUBSET Relays /\ \A q \in Relays : Relays \ {q} \in SUBSET Relays OBVIOUS
  <2>5. \A q \in Relays : tx'[q].todo \subseteq tx[q].todo BY <1>5
  <2>6. Queued' BY <2>1, <2>3, <2>4, <2>5 DEF Queued
  <2>7. \A j \in before[i] : InHand(j, Relays \ {r})
    <3>1. ASSUME NEW j \in before[i] PROVE InHand(j, Relays \ {r})
      <4>0. j \in Nat /\ i \in Nat /\ j < i BY EarlierRows DEF IInv
      <4>1. j \notin tx[r].todo BY <1>3, <4>0
      <4>2. InHand(j, Relays) BY <1>3, <2>1 DEF Queued
      <4> QED BY <4>1, <4>2 DEF InHand
    <3> QED BY <3>1
  <2>8. \A k \in DOMAIN published : published[k][1] \in Relays /\ published[k][2] \in D
    BY <1>1
  <2>9. ASSUME NEW k \in DOMAIN published', NEW q, NEW m,
               q = published'[k][1], m = published'[k][2]
        PROVE  Done(m)' /\ \A j \in before[m] : InHand(j, Relays \ {q})'
    <3>1. CASE k = n
      <4>1. q = r /\ m = i BY <1>7, <2>9, <3>1
      <4>2. Done(i)' BY <1>12
      <4> QED BY <2>3, <2>4, <2>7, <4>1, <4>2
    <3>2. CASE k \in DOMAIN published
      <4>1. q = published[k][1] /\ m = published[k][2] BY <1>7, <2>9, <3>2
      <4>2. Done(m) /\ \A j \in before[m] : InHand(j, Relays \ {q})
        BY <2>1, <3>2, <4>1 DEF Logged
      <4> QED BY <1>12, <2>3, <2>4, <2>8, <3>2, <4>1, <4>2
    <3> QED BY <1>7, <3>1, <3>2
  <2>10. Logged' BY <2>9 DEF Logged, Done, InHand
  <2>11. ASSUME NEW k \in DOMAIN published, published[k][1] = r
         PROVE  i \notin before[published[k][2]]
    <3>1. \A j \in before[published[k][2]] : InHand(j, Relays \ {r})
      BY <2>1, <2>11 DEF Logged
    <3>2. ~InHand(i, Relays \ {r}) BY <1>2, <1>3, <1>11 DEF InHand, Locks, Locked
    <3> QED BY <3>1, <3>2
  <2>12. Causal'
    <3>1. ASSUME NEW k \in DOMAIN published', NEW l \in DOMAIN published',
                 k < l, published'[k][1] = published'[l][1]
          PROVE  published'[l][2] \notin before[published'[k][2]]
      <4>1. k \in DOMAIN published
        <5>1. CASE k = n BY <1>1, <1>7, <3>1, <5>1
        <5> QED BY <1>7, <5>1
      <4>2. CASE l = n BY <1>7, <2>11, <3>1, <4>1, <4>2
      <4>3. CASE l \in DOMAIN published BY <1>7, <2>1, <3>1, <4>1, <4>3 DEF Causal
      <4> QED BY <1>7, <4>2, <4>3
    <3> QED BY <3>1 DEF Causal
  <2> QED BY <2>2, <2>6, <2>10, <2>12
<1>17. Earlier' BY <1>4 DEF IInv, Earlier
<1> QED BY <1>8, <1>10, <1>14, <1>15, <1>16, <1>17 DEF IInv

(* A refused message: the connection is closed, so the order is not        *)
(* promised any more.                                                      *)
LEMMA FailsIInv == ASSUME IInv, NEW r \in Relays, RelayPublishFails(r) PROVE IInv'
<1> DEFINE D == DOMAIN outbox
<1> PICK i : i = First(tx[r].todo) OBVIOUS
<1>1. tx \in [Relays -> TxType(D)] /\ ConnTyped(D) /\ Locks BY DEF IInv, Typed
<1>2. i \in tx[r].todo BY FirstOfTodo DEF RelayPublishFails, PublishFails, IInv
<1>3. /\ UNCHANGED <<outbox, before, connVars, published, rollbacks, restarts>>
      /\ conn[r].status = "CLOSED"
      /\ tx' = [tx EXCEPT ![r].todo = @ \ {i}, ![r].failed = @ \cup {i}]
  BY DEF RelayPublishFails, PublishFails, Refuse
<1>4. /\ tx' \in [Relays -> TxType(D)]
      /\ tx'[r].todo = tx[r].todo \ {i} /\ tx'[r].failed = tx[r].failed \cup {i}
      /\ tx'[r].sent = tx[r].sent /\ tx'[r].open = tx[r].open
      /\ \A q \in Relays : q # r => tx'[q] = tx[q]
  <2>1. DOMAIN tx = Relays /\ tx[r] \in TxType(D) BY <1>1
  <2>2. tx'[r] = [tx[r] EXCEPT !.todo = @ \ {i}, !.failed = @ \cup {i}]
    BY <1>3, <2>1
  <2>3. /\ tx'[r].todo = tx[r].todo \ {i} /\ tx'[r].failed = tx[r].failed \cup {i}
        /\ tx'[r].sent = tx[r].sent /\ tx'[r].open = tx[r].open
    BY <2>1, <2>2 DEF TxType
  <2>4. tx'[r] \in TxType(D)
    <3>1. /\ tx[r].todo \ {i} \in SUBSET D /\ tx[r].failed \cup {i} \in SUBSET D
          /\ tx[r].open \in BOOLEAN /\ tx[r].sent \in SUBSET D
      BY <1>2, <2>1 DEF TxType
    <3>2. tx'[r] = [open |-> tx[r].open, todo |-> tx[r].todo \ {i}, sent |-> tx[r].sent,
                    failed |-> tx[r].failed \cup {i}]
      BY <2>1, <2>2 DEF TxType
    <3> QED BY <3>1, <3>2 DEF TxType
  <2>5. tx' = [tx EXCEPT ![r] = tx'[r]] BY <1>1, <1>3
  <2> QED BY <1>1, <2>3, <2>4, <2>5
<1>5. Kept BY <1>1, <1>3, UnchangedKept
<1>6. Typed' BY <1>3, <1>4, <1>5 DEF IInv, Typed, Kept, ConnTyped
<1>7. ASSUME NEW q \in Relays
      PROVE  /\ Locked(q)' = Locked(q)
             /\ tx'[q].todo \cap tx'[q].sent = {}
             /\ tx'[q].todo \cap tx'[q].failed = {}
             /\ tx'[q].sent \cap tx'[q].failed = {}
             /\ tx'[q].open = tx[q].open
  <2>1. CASE q = r BY <1>1, <1>2, <1>4, <2>1 DEF Locked, Locks
  <2>2. CASE q # r BY <1>1, <1>4, <2>2 DEF Locked, Locks
  <2> QED BY <2>1, <2>2
<1>8. Locks' BY <1>1, <1>3, <1>7 DEF Locks
<1>9. \A j : Done(j)' <=> Done(j) BY <1>3, <1>4 DEF Done
<1>10. \A j : Copies(j)' = Copies(j) BY <1>3 DEF Copies
<1>11. Delivered' BY <1>3, <1>5, <1>9, <1>10 DEF IInv, Delivered, Kept
<1>12. Counted' BY <1>3, <1>9, <1>10 DEF IInv, Counted
<1>13. ~Smooth' BY <1>3 DEF Smooth, connVars
<1>14. Earlier' BY <1>3 DEF IInv, Earlier
<1> QED BY <1>6, <1>8, <1>11, <1>12, <1>13, <1>14 DEF IInv, InOrder

(* What Commit makes of the table: the rows sent are SENT, the rows that   *)
(* failed count one attempt more, and the rows of others are as before.    *)
LEMMA CommitRows ==
    ASSUME Typed, Locks, NEW r \in Relays, Commit(r)
    PROVE  /\ outbox' \in Seq(RowType) /\ DOMAIN outbox' = DOMAIN outbox
           /\ Len(outbox') = Len(outbox)
           /\ \A i \in DOMAIN outbox :
                 /\ outbox'[i].status = IF i \in tx[r].sent THEN StatusSent ELSE outbox[i].status
                 /\ outbox'[i].retry_count = IF i \in tx[r].failed
                                             THEN outbox[i].retry_count + 1
                                             ELSE outbox[i].retry_count
<1>1. outbox \in Seq(RowType) /\ Len(outbox) \in Nat /\ DOMAIN outbox = 1 .. Len(outbox)
  BY DEF Typed
<1>2. outbox' = [i \in DOMAIN outbox |->
                    CommitRow(outbox[i], i \in tx[r].sent, i \in tx[r].failed)]
  BY DEF Commit
<1>3. ASSUME NEW i \in DOMAIN outbox
      PROVE  /\ outbox'[i] \in RowType
             /\ outbox'[i].status = IF i \in tx[r].sent THEN StatusSent ELSE outbox[i].status
             /\ outbox'[i].retry_count = IF i \in tx[r].failed
                                         THEN outbox[i].retry_count + 1
                                         ELSE outbox[i].retry_count
  <2>1. outbox[i] \in RowType BY <1>1
  <2>2. outbox'[i] = [outbox[i] EXCEPT
                         !.status = IF i \in tx[r].sent THEN StatusSent ELSE @,
                         !.retry_count = IF i \in tx[r].failed THEN @ + 1 ELSE @]
    BY <1>2 DEF CommitRow
  <2>3. i \in tx[r].failed => outbox[i].retry_count + 1 \in 0 .. MaxRetryCount
    <3>1. i \in tx[r].failed => outbox[i].retry_count < MaxRetryCount
      BY DEF Locks, Locked, Eligible
    <3>2. outbox[i].retry_count \in 0 .. MaxRetryCount BY <2>1 DEF RowType
    <3> QED BY <3>1, <3>2, RelayAssumption
  <2> QED BY <2>1, <2>2, <2>3 DEF RowType
<1>4. outbox' \in Seq(RowType) /\ Len(outbox') = Len(outbox) /\ DOMAIN outbox' = DOMAIN outbox
  BY <1>1, <1>2, <1>3
<1> QED BY <1>3, <1>4

(* Commit writes the marks of the rows that were sent or failed, and unlocks. *)
LEMMA CommitIInv == ASSUME IInv, NEW r \in Relays, RelayCommit(r) PROVE IInv'
<1> DEFINE D == DOMAIN outbox
<1>1. /\ Typed /\ Locks /\ Commit(r) /\ tx \in [Relays -> TxType(D)] /\ ConnTyped(D)
      /\ UNCHANGED <<before, connVars, published, rollbacks, restarts>> /\ Earlier
  BY DEF IInv, Typed, RelayCommit
<1>2. /\ outbox' \in Seq(RowType) /\ DOMAIN outbox' = D /\ Len(outbox') = Len(outbox)
      /\ \A i \in D :
            /\ outbox'[i].status = IF i \in tx[r].sent THEN StatusSent ELSE outbox[i].status
            /\ outbox'[i].retry_count = IF i \in tx[r].failed THEN outbox[i].retry_count + 1
                                                              ELSE outbox[i].retry_count
  BY <1>1, CommitRows
<1> HIDE DEF D
<1>3. /\ NoTx \in TxType(D) /\ ~NoTx.open
      /\ NoTx.todo = {} /\ NoTx.sent = {} /\ NoTx.failed = {}
  BY DEF NoTx, TxType
<1>4. /\ tx[r].todo = {} /\ tx' \in [Relays -> TxType(D)] /\ tx'[r] = NoTx
      /\ \A q \in Relays : q # r => tx'[q] = tx[q]
  BY <1>1, <1>3 DEF Commit
<1>5. \A i : Accepted(i)' <=> Accepted(i) BY <1>1 DEF connVars, Accepted, Buffered
<1>6. Typed' BY <1>1, <1>2, <1>4 DEF Typed, ConnTyped, connVars, D
<1>7. Locks'
  <2>1. Locked(r)' = {} BY <1>3, <1>4 DEF Locked
  <2>2. \A q \in Relays : q # r => Locked(q)' = Locked(q) BY <1>4 DEF Locked
  <2>3. ASSUME NEW q \in Relays, q # r, NEW i \in Locked(q) PROVE Eligible(outbox'[i])
    <3>1. i \notin Locked(r) /\ Eligible(outbox[i]) BY <1>1, <2>3 DEF Locks
    <3>2. i \in D BY <1>1 DEF Locked, TxType
    <3>3. /\ outbox'[i].status = outbox[i].status
          /\ outbox'[i].retry_count = outbox[i].retry_count
      BY <1>2, <3>1, <3>2 DEF Locked
    <3> QED BY <3>1, <3>3 DEF Eligible
  <2> QED BY <1>1, <1>3, <1>4, <2>1, <2>2, <2>3 DEF Locks
<1>8. \A i \in D : Done(i)' <=> Done(i) BY <1>2, <1>3, <1>4 DEF Done
<1>9. \A i : Copies(i)' = Copies(i) BY <1>1 DEF Copies
<1>10. Delivered' BY <1>2, <1>5, <1>8, <1>9 DEF IInv, Delivered, D
<1>11. Counted' BY <1>1, <1>2, <1>8, <1>9 DEF IInv, Counted, D
<1>12. InOrder'
  <2> SUFFICES ASSUME Smooth' PROVE (NeverFailed /\ Queued /\ Logged /\ Causal)'
    BY DEF InOrder
  <2>1. NeverFailed /\ Queued /\ Logged /\ Causal
    BY <1>1 DEF Smooth, connVars, IInv, InOrder
  <2>2. NeverFailed' BY <1>2, <1>3, <1>4, <2>1 DEF NeverFailed, D
  <2>3. \A i \in D : \A Q : InHand(i, Q) => InHand(i, Q)'
    <3>1. ASSUME NEW i \in D, NEW Q, NEW q \in Q, i \in tx[q].todo PROVE i \in tx'[q].todo
      <4>1. q # r BY <1>4, <3>1
      <4> QED BY <1>1, <3>1, <4>1 DEF Commit
    <3> QED BY <1>8, <3>1 DEF InHand
  <2>4. \A m \in D : \A i \in before[m] : i \in D BY <1>1, EarlierRows DEF D
  <2>5. \A q \in Relays : tx'[q].todo \subseteq tx[q].todo /\ tx[q].todo \subseteq D
    BY <1>1, <1>3, <1>4 DEF TxType
  <2>6. Queued' BY <1>1, <2>1, <2>3, <2>4, <2>5 DEF Queued
  <2>7. \A k \in DOMAIN published : published[k][1] \in Relays /\ published[k][2] \in D
    BY <1>1 DEF Typed, D
  <2>8. ASSUME NEW k \in DOMAIN published, NEW q, NEW m,
               q = published[k][1], m = published[k][2]
        PROVE  Done(m)' /\ \A i \in before[m] : InHand(i, Relays \ {q})'
    BY <1>8, <2>1, <2>3, <2>4, <2>7, <2>8 DEF Logged
  <2>9. Logged' BY <1>1, <2>8 DEF Logged, Done, InHand
  <2>10. Causal' BY <1>1, <2>1 DEF Causal
  <2> QED BY <2>2, <2>6, <2>9, <2>10
<1>13. Earlier'
  <2>1. ASSUME NEW m \in D, NEW i \in before[m]
        PROVE  i \in 1 .. m - 1 /\ outbox'[i].status # Uncommitted
    <3>1. i \in D BY <1>1, EarlierRows DEF D
    <3>2. i \in 1 .. m - 1 /\ outbox[i].status # Uncommitted BY <1>1 DEF Earlier, D
    <3>3. StatusSent # Uncommitted BY DEF StatusSent, Uncommitted
    <3> QED BY <1>2, <3>1, <3>2, <3>3
  <2> QED BY <1>1, <1>2, <2>1 DEF Earlier
<1> QED BY <1>6, <1>7, <1>10, <1>11, <1>12, <1>13 DEF IInv

(* Every step of relays, connections, broker and processes keeps the invariant. *)
LEMMA StepIInv == IInv /\ [Next]_vars => IInv'
<1> SUFFICES ASSUME IInv, [Next]_vars PROVE IInv' OBVIOUS
<1>1. ConnTyped(DOMAIN outbox) /\ rollbacks \in Nat /\ restarts \in Nat BY DEF IInv, Typed
<1>2. CASE UNCHANGED vars
  <2>1. UNCHANGED <<outbox, before, connVars, tx, published, rollbacks, restarts>> BY <1>2 DEF vars
  <2> QED BY <1>1, <2>1, UnchangedKept, QuietIInv
<1>3. CASE Writer BY <1>3, BeginStoreIInv, CommitStoreIInv DEF Writer
<1>4. ASSUME NEW r \in Relays, RelayStep(r) PROVE IInv'
  <2>1. CASE RelayPoll(r) BY <2>1, PollIInv
  <2>2. CASE RelayPublish(r)
    <3>1. PICK i \in DOMAIN outbox : /\ PublishMessage(r, i) /\ Accept(r, i)
                                     /\ published' = Append(published, <<r, i>>)
      BY <2>2 DEF RelayPublish
    <3>2. UNCHANGED <<before, rollbacks, restarts>> BY <2>2 DEF RelayPublish
    <3> QED BY <3>1, <3>2, PublishIInv
  <2>3. CASE RelayPublishFails(r) BY <2>3, FailsIInv
  <2>4. CASE RelayCommit(r) BY <2>4, CommitIInv
  <2> QED BY <1>4, <2>1, <2>2, <2>3, <2>4 DEF RelayStep
<1>5. ASSUME NEW r \in Relays, RelayRollback(r) PROVE IInv'
  <2>1. Kept BY <1>1, <1>5, UnchangedKept DEF RelayRollback, Rollback
  <2>2. /\ tx' = [tx EXCEPT ![r] = NoTx] /\ published' = published /\ before' = before
        /\ rollbacks' = rollbacks + 1 /\ restarts' = restarts
    BY <1>5 DEF RelayRollback, Rollback
  <2>3. rollbacks' \in Nat /\ restarts' \in Nat BY <1>1, <2>2
  <2>4. rollbacks' + restarts' = rollbacks + restarts + 1 BY <1>1, <2>2
  <2> QED BY <2>1, <2>2, <2>3, <2>4, EndIInv
<1>6. ASSUME NEW r \in Relays, Restart(r) PROVE IInv'
  <2>1. Kept BY <1>1, <1>6, RedialKept DEF Restart
  <2>2. /\ tx' = [tx EXCEPT ![r] = NoTx] /\ published' = published /\ before' = before
        /\ rollbacks' = rollbacks /\ restarts' = restarts + 1
    BY <1>6 DEF Restart
  <2>3. rollbacks' \in Nat /\ restarts' \in Nat BY <1>1, <2>2
  <2>4. rollbacks' + restarts' = rollbacks + restarts + 1 BY <1>1, <2>2
  <2> QED BY <2>1, <2>2, <2>3, <2>4, EndIInv
<1>7. CASE Outage
  <2>1. Kept /\ StaysClosed BY <1>1, <1>7, BrokerKept DEF Outage
  <2> QED BY <1>7, <2>1, QuietIInv DEF Outage
<1>8. CASE Recovery
  <2>1. Kept /\ StaysClosed BY <1>1, <1>8, BrokerKept, StepKept DEF Recovery
  <2> QED BY <1>8, <2>1, QuietIInv DEF Recovery
<1> QED BY <1>2, <1>3, <1>4, <1>5, <1>6, <1>7, <1>8 DEF Next

-----------------------------------------------------------------------------
(* The table, the transactions, the connections and the log stay well      *)
(* formed; no row is tried more than MaxRetryCount times.                  *)
THEOREM TypeCorrect == Spec => []TypeOK
<1>1. IInv => TypeOK BY TypedIsTypeOK DEF IInv
<1> QED BY <1>1, InitIInv, StepIInv, PTL DEF Spec

(* However many relays share the table, a message is published at most     *)
(* once more than transactions were rolled back or processes replaced.     *)
THEOREM OnlyRollbacksDuplicate == Spec => []DuplicatesNeedRollback
<1>1. IInv => DuplicatesNeedRollback BY CountedIsBound DEF IInv
<1> QED BY <1>1, InitIInv, StepIInv, PTL DEF Spec

(* Through every outage, restart and reconnection, a row is SENT only if a *)
(* connection accepted its message.                                        *)
THEOREM SentMeansAccepted == Spec => []SentWasAccepted
<1>1. IInv => SentWasAccepted BY DeliveredIsAccepted DEF IInv
<1> QED BY <1>1, InitIInv, StepIInv, PTL DEF Spec

(* Whatever the LIMIT, the number of relays and the overlap of the writers,*)
(* no relay publishes an event before one that was stored when the event's *)
(* transaction began, as long as nothing is refused or rolled back.        *)
THEOREM RelaysKeepCauses == Spec => []CausalOrder
<1>1. IInv => CausalOrder BY InOrderIsCausal DEF IInv
<1> QED BY <1>1, InitIInv, StepIInv, PTL DEF Spec

-----------------------------------------------------------------------------
(* The relays implement at-least-once delivery *)

Sent == {i \in DOMAIN outbox : outbox[i].status = StatusSent}

Log == [n \in DOMAIN published |-> published[n][2]]

(* A writer's commit is Store, an accepted message is Publish, a relay's   *)
(* commit is MarkSent; everything else is invisible.                       *)
LEMMA InitContract == Init => Contract!Init
<1> SUFFICES ASSUME Init PROVE Contract!Init OBVIOUS
<1>1. outbox = <<>> /\ published = <<>> BY DEF Init
<1>2. Sent = {} /\ Log = <<>> /\ Committed = {} BY <1>1 DEF Sent, Log, Committed
<1> QED BY <1>2 DEF Contract!Init, Sent, Log

(* What changes neither rows nor copies is no step of the contract. *)
LEMMA InvisibleStep ==
    ASSUME UNCHANGED <<outbox, published>>
    PROVE  UNCHANGED Contract!vars
BY DEF Contract!vars, Committed, Stored

(* Every step is a step of the at-least-once contract or none. *)
LEMMA StepContract == IInv /\ [Next]_vars => [Contract!Next]_(Contract!vars)
<1> SUFFICES ASSUME IInv, [Next]_vars PROVE Contract!Next \/ UNCHANGED Contract!vars
  OBVIOUS
<1> DEFINE D == DOMAIN outbox
<1>1. /\ outbox \in Seq(RowType) /\ D = 1 .. Len(outbox) /\ Len(outbox) \in Nat
      /\ published \in Seq(Relays \X D)
      /\ tx \in [Relays -> TxType(D)] /\ Locks
  BY DEF IInv, Typed
<1>2. Uncommitted # StatusPending /\ Uncommitted # StatusSent /\ StatusPending # StatusSent
  BY DEF Uncommitted, StatusPending, StatusSent
<1>3. CASE BeginStore
  <2>1. UNCHANGED published BY <1>3 DEF BeginStore
  <2>2. PICK n : n = Len(outbox) + 1 OBVIOUS
  <2>3. /\ D' = D \cup {n} /\ \A i \in D : outbox'[i] = outbox[i]
        /\ outbox'[n].status = Uncommitted
    <3>1. /\ Len(outbox') = n /\ \A i \in D : outbox'[i] = outbox[i]
          /\ outbox'[n].status = Uncommitted /\ outbox' \in Seq(RowType)
      BY <1>3, <2>2, BeginStoreRows DEF IInv
    <3> QED BY <1>1, <2>2, <3>1
  <2>4. Sent' = Sent BY <1>2, <1>1, <2>2, <2>3 DEF Sent
  <2>5. Committed' = Committed BY <1>1, <2>2, <2>3 DEF Committed, Stored
  <2>6. Log' = Log BY <2>1 DEF Log
  <2> QED BY <2>4, <2>5, <2>6 DEF Contract!vars, Sent, Log
<1>4. ASSUME NEW n \in D, CommitStore(n) PROVE Contract!Next
  <2>1. UNCHANGED published BY <1>4 DEF CommitStore
  <2>2. /\ D' = D /\ \A i \in D : i # n => outbox'[i] = outbox[i]
        /\ outbox[n].status = Uncommitted /\ outbox'[n].status = StatusPending
    <3>1. /\ outbox' \in Seq(RowType) /\ Len(outbox') = Len(outbox)
          /\ \A i \in D : i # n => outbox'[i] = outbox[i]
          /\ outbox'[n].status = StatusPending
      BY <1>4, CommitStoreRows DEF IInv
    <3> QED BY <1>1, <1>4, <3>1 DEF CommitStore
  <2>3. Sent' = Sent BY <1>2, <2>2 DEF Sent
  <2>4. Committed' = Committed \cup {n} /\ n \notin Committed
    BY <1>2, <2>2 DEF Committed, Stored
  <2>5. Log' = Log BY <2>1 DEF Log
  <2>6. n \in 1 .. MaxRows BY <1>1, BoundsAssumption DEF IInv, Typed
  <2>7. Contract!Store(n) BY <2>3, <2>4, <2>5 DEF Contract!Store, Sent, Log
  <2> QED BY <2>4, <2>6, <2>7 DEF Contract!Next
<1>5. ASSUME NEW r \in Relays, RelayPublish(r) PROVE Contract!Next
  <2>1. PICK i \in D : PublishMessage(r, i) /\ published' = Append(published, <<r, i>>)
    BY <1>5 DEF RelayPublish
  <2>2. outbox' = outbox BY <2>1 DEF PublishMessage
  <2>3. i \in tx[r].todo BY <2>1, FirstOfTodo DEF PublishMessage, IInv
  <2>4. Eligible(outbox[i]) BY <1>1, <2>3 DEF Locks, Locked
  <2>5. i \in Committed \ Sent
    BY <1>2, <2>4 DEF Committed, Stored, Sent, Eligible
  <2>6. Log' = Append(Log, i)
    <3>1. Len(published) \in Nat /\ DOMAIN published = 1 .. Len(published) BY <1>1
    <3>2. Log \in Seq(D) /\ Len(Log) = Len(published)
      BY <1>1, <3>1 DEF Log
    <3>3. <<r, i>> \in Relays \X D /\ <<r, i>>[2] = i OBVIOUS
    <3>4. /\ published' \in Seq(Relays \X D) /\ Len(published') = Len(published) + 1
          /\ \A k \in 1 .. Len(published) : published'[k] = published[k]
          /\ published'[Len(published) + 1] = <<r, i>>
      BY <1>1, <2>1, <3>3, AppendProperties
    <3>5. Log' \in Seq(D) /\ Len(Log') = Len(Log) + 1
      BY <3>2, <3>4 DEF Log
    <3>6. /\ Append(Log, i) \in Seq(D) /\ Len(Append(Log, i)) = Len(Log) + 1
          /\ \A k \in 1 .. Len(Log) : Append(Log, i)[k] = Log[k]
          /\ Append(Log, i)[Len(Log) + 1] = i
      BY <3>2, AppendProperties
    <3>7. \A k \in 1 .. Len(Log) + 1 : Log'[k] = Append(Log, i)[k]
      BY <3>1, <3>2, <3>3, <3>4, <3>6 DEF Log
    <3> QED BY <3>5, <3>6, <3>7, SeqEqual
  <2>7. Sent' = Sent /\ Committed' = Committed BY <2>2 DEF Sent, Committed, Stored
  <2>8. Contract!Publish(i) BY <2>2, <2>5, <2>6, <2>7 DEF Contract!Publish, Sent, Log
  <2> QED BY <2>5, <2>8 DEF Contract!Next
<1>6. ASSUME NEW r \in Relays, RelayCommit(r) PROVE Contract!Next
  <2> PICK S : S = tx[r].sent OBVIOUS
  <2>1. Commit(r) /\ UNCHANGED published BY <1>6 DEF RelayCommit
  <2>2. /\ Len(outbox') = Len(outbox) /\ D' = D
        /\ \A i \in D :
              outbox'[i].status = IF i \in S THEN StatusSent ELSE outbox[i].status
    BY <2>1, CommitRows DEF IInv
  <2>3. S \subseteq D BY <1>1 DEF TxType
  <2>4. Sent' = Sent \cup S BY <2>2, <2>3 DEF Sent
  <2>5. Log' = Log BY <2>1 DEF Log
  <2>6. S \subseteq {Log[n] : n \in DOMAIN Log}
    <3>1. ASSUME NEW i \in S PROVE \E n \in DOMAIN Log : Log[n] = i
      <4>1. Copies(i) # {} BY <2>3 DEF IInv, Delivered, Done
      <4> QED BY <4>1 DEF Copies, Log
    <3> QED BY <3>1
  <2>7. \A i \in S : outbox[i].status = StatusPending
    BY <1>1 DEF Locks, Locked, Eligible
  <2>8. Committed' = Committed BY <1>2, <2>2, <2>7 DEF Committed, Stored
  <2>9. Contract!MarkSent(S)
    BY <2>4, <2>5, <2>6, <2>8 DEF Contract!MarkSent, Sent, Log
  <2>10. S \in SUBSET Committed BY <1>2, <2>3, <2>7 DEF Committed, Stored
  <2> QED BY <2>9, <2>10 DEF Contract!Next
<1>7. CASE UNCHANGED <<outbox, published>> BY <1>7, InvisibleStep
<1>8. ASSUME NEW r \in Relays, RelayPoll(r) \/ RelayPublishFails(r) \/ RelayRollback(r) \/ Restart(r)
      PROVE  UNCHANGED <<outbox, published>>
  BY <1>8 DEF RelayPoll, Poll, RelayPublishFails, PublishFails, RelayRollback, Rollback, Restart
<1>9. CASE Outage \/ Recovery \/ UNCHANGED vars
  <2>1. UNCHANGED <<outbox, published>> BY <1>9 DEF Outage, Recovery, vars
  <2> QED BY <1>7, <2>1
<1> QED BY <1>3, <1>5, <1>6, <1>7, <1>8, <1>9, <1>4 DEF Next, Writer, RelayStep

(* The relays, their connections and every fault together implement the    *)
(* outbox's contract: SENT only after a publish, no publish after SENT.    *)
THEOREM RelaysImplementContract == Spec => ImplementsAtLeastOnce
BY InitIInv, StepIInv, InitContract, StepContract, PTL
   DEF Spec, ImplementsAtLeastOnce, Contract!Spec
=============================================================================
