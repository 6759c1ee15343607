----------------------------- MODULE Connection -----------------------------
(***************************************************************************)
(* The NATS connection behind pkg/messaging, one per process, with the     *)
(* options that NewClient passes: RetryOnFailedConnect, MaxReconnects(10)  *)
(* and ReconnectWait.  The client library and the broker are external.     *)
(*                                                                         *)
(*   CONNECTED      a published message reaches the broker                 *)
(*   BROKEN         the link is dead and nobody noticed: what is published *)
(*                  is accepted and lost                                   *)
(*   RECONNECTING   what is published is accepted and buffered             *)
(*   CLOSED         after MaxReconnects failed attempts, for good: what is *)
(*                  published is refused, what was buffered is lost        *)
(*                                                                         *)
(* Publish has no acknowledgement, so its caller sees only CLOSED.         *)
(***************************************************************************)
EXTENDS Naturals

CONSTANTS
    Clients,         \* the processes
    MaxReconnects,   \* attempts to reconnect: 10 in the code
    MaxOutages       \* bound: how often the broker goes down

VARIABLES
    broker,    \* is the broker running?
    conn,      \* client -> its connection
    arrived,   \* the messages that reached the broker
    dropped,   \* the messages a connection accepted and lost
    outages    \* how often the broker went down

connVars == <<broker, conn, arrived, dropped, outages>>

ASSUME ConnectionAssumption == MaxReconnects \in Nat \ {0} /\ MaxOutages \in Nat

ConnStatuses == {"CONNECTED", "BROKEN", "RECONNECTING", "CLOSED"}

(* nats.Connect: with RetryOnFailedConnect it succeeds without a broker.   *)
Dialled(running) ==
    [status |-> IF running THEN "CONNECTED" ELSE "RECONNECTING", attempts |-> 0, buffer |-> {}]

ConnectionInit ==
    /\ broker \in BOOLEAN
    /\ conn = [c \in Clients |-> Dialled(broker)]
    /\ arrived = {}
    /\ dropped = {}
    /\ outages = 0

(* Client.Publish: accepted, whatever becomes of the message ...           *)
Accept_EvenIfClosed(c, msg) ==
    /\ arrived' = IF conn[c].status = "CONNECTED" THEN arrived \cup {msg} ELSE arrived
    /\ dropped' = IF conn[c].status = "BROKEN" THEN dropped \cup {msg} ELSE dropped
    /\ conn' = IF conn[c].status = "RECONNECTING"
               THEN [conn EXCEPT ![c].buffer = @ \cup {msg}] ELSE conn
    /\ UNCHANGED <<broker, outages>>
Accept(c, msg) ==
    /\ conn[c].status # "CLOSED"
    /\ arrived' = IF conn[c].status = "CONNECTED" THEN arrived \cup {msg} ELSE arrived
    /\ dropped' = IF conn[c].status = "BROKEN" THEN dropped \cup {msg} ELSE dropped
    /\ conn' = IF conn[c].status = "RECONNECTING"
               THEN [conn EXCEPT ![c].buffer = @ \cup {msg}] ELSE conn
    /\ UNCHANGED <<broker, outages>>

(* ... or refused with ErrConnectionClosed.                                *)
Refuse(c) ==
    /\ conn[c].status = "CLOSED"
    /\ UNCHANGED connVars

-----------------------------------------------------------------------------
BrokerDown ==
    /\ broker
    /\ outages < MaxOutages
    /\ outages' = outages + 1
    /\ broker' = FALSE
    /\ conn' = [c \in Clients |-> IF conn[c].status = "CONNECTED"
                                  THEN [conn[c] EXCEPT !.status = "BROKEN"] ELSE conn[c]]
    /\ UNCHANGED <<arrived, dropped>>

BrokerUp ==
    /\ ~broker
    /\ broker' = TRUE
    /\ UNCHANGED <<conn, arrived, dropped, outages>>

(* A read fails or a ping is not answered (DisconnectErrHandler logs it).  *)
NoticeDisconnect(c) ==
    /\ conn[c].status = "BROKEN"
    /\ conn' = [conn EXCEPT ![c] = Dialled(FALSE)]
    /\ UNCHANGED <<broker, arrived, dropped, outages>>

Reconnected(c) ==
    /\ conn[c].status = "RECONNECTING"
    /\ broker
    /\ arrived' = arrived \cup conn[c].buffer
    /\ conn' = [conn EXCEPT ![c] = Dialled(TRUE)]
    /\ UNCHANGED <<broker, dropped, outages>>

Close(c) ==
    /\ conn' = [conn EXCEPT ![c] = [status |-> "CLOSED", attempts |-> 0, buffer |-> {}]]
    /\ dropped' = dropped \cup conn[c].buffer

ReconnectFails(c) ==
    /\ conn[c].status = "RECONNECTING"
    /\ ~broker
    /\ \/ /\ conn[c].attempts + 1 < MaxReconnects
          /\ conn' = [conn EXCEPT ![c].attempts = @ + 1]
          /\ UNCHANGED dropped
       \/ /\ conn[c].attempts + 1 = MaxReconnects
          /\ Close(c)
    /\ UNCHANGED <<broker, arrived, outages>>

(* The process is replaced by a new one, which dials again. *)
Redial(c) ==
    /\ conn' = [conn EXCEPT ![c] = Dialled(broker)]
    /\ dropped' = dropped \cup conn[c].buffer
    /\ UNCHANGED <<broker, arrived, outages>>

ConnectionStep(c) == NoticeDisconnect(c) \/ Reconnected(c) \/ ReconnectFails(c)
=============================================================================
