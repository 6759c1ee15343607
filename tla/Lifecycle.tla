----------------------------- MODULE Lifecycle ------------------------------
(***************************************************************************)
(* cmd/main.go: how a service process starts, serves, fails and stops, and *)
(* compose's "restart: on-failure" around it.  The three services have the *)
(* same main, up to names.                                                 *)
(*                                                                         *)
(* Four goroutines matter: main itself, the one that runs the HTTP server, *)
(* the relay and the consumer's callbacks.  They meet at the channel quit, *)
(* the channel serverDone, the context and the pool, whose Close waits for *)
(* open transactions.  os.Exit ends the process without deferred calls.    *)
(***************************************************************************)
EXTENDS Naturals

CONSTANTS
    MaxRetries,   \* attempts of NewPool: 10 in the code
    MaxSignals,   \* bound: SIGTERM and SIGINT received
    MaxBreaks     \* bound: how often something stops working

VARIABLES
    process,   \* the process that runs, or ran last
    broken,    \* what does not work at the moment
    signals,   \* how many signals were sent
    breaks     \* how often something stopped working

vars == <<process, broken, signals, breaks>>

ASSUME LifecycleAssumption ==
    MaxRetries \in Nat \ {0} /\ MaxSignals \in Nat /\ MaxBreaks \in Nat

(* What a process needs: its database, the subscriptions, the HTTP port.   *)
Parts == {"database", "subscription", "listener"}

(* Who runs transactions: the relay and the consumer's callbacks. *)
Goroutines == {"relay", "handler"}

(***************************************************************************)
(* main         where main is: connecting, waiting on a channel, or in one *)
(*              of the deferred calls                                      *)
(* attempts     NewPool's failed attempts                                  *)
(* server       the goroutine of the HTTP server                           *)
(* quit         how many signals the channel quit holds                    *)
(* cancelled    is ctx cancelled?                                          *)
(* busy         the goroutines with an open transaction                    *)
(* cut          those whose transaction was aborted by cancel() or by the  *)
(*              end of the process                                         *)
(* exit         the exit code: 0 is "success", 1 is "failure"              *)
(***************************************************************************)
Started ==
    [main |-> "database", attempts |-> 0, server |-> "none", quit |-> 0,
     cancelled |-> FALSE, startFailed |-> FALSE, subscribed |-> FALSE,
     busy |-> {}, cut |-> {}, exit |-> "none"]

Init ==
    /\ process = Started
    /\ broken \in SUBSET Parts
    /\ signals = 0
    /\ breaks = 0

(* A step of the process leaves the world around it alone. *)
Becomes(p) ==
    /\ process' = p
    /\ UNCHANGED <<broken, signals, breaks>>

At(place) == process.main = place

(* The process ends here and now; PostgreSQL rolls open transactions back. *)
Exited(code) == [process EXCEPT !.main = "exited", !.exit = code,
                                  !.cut = @ \cup process.busy]

-----------------------------------------------------------------------------
(* Start *)

(* NewPool tries again until the last attempt failed. *)
HasRetry_OffByOne(i) == i < MaxRetries
HasRetry(i) == i < MaxRetries - 1

ConnectDatabase ==
    /\ At("database")
    /\ \/ /\ "database" \notin broken
          /\ Becomes([process EXCEPT !.main = "broker"])
       \/ /\ "database" \in broken
          /\ HasRetry(process.attempts)
          /\ Becomes([process EXCEPT !.attempts = @ + 1])
       \/ /\ "database" \in broken
          /\ ~HasRetry(process.attempts)
          /\ Becomes(Exited("failure"))

(* NewClient: with RetryOnFailedConnect the first Connect succeeds, broker *)
(* or not, so its own loop never goes round; then the relay is started.    *)
ConnectBroker ==
    /\ At("broker")
    /\ Becomes([process EXCEPT !.main = "consumer"])

StartConsumer ==
    /\ At("consumer")
    /\ \/ /\ "subscription" \notin broken
          /\ Becomes([process EXCEPT !.main = "http", !.subscribed = TRUE])
       \/ /\ "subscription" \in broken
          /\ Becomes(Exited("failure"))

(* signal.Notify, then the server's goroutine. *)
StartServer ==
    /\ At("http")
    /\ Becomes([process EXCEPT !.main = "quit", !.server = "starting"])

-----------------------------------------------------------------------------
(* The server's goroutine *)

ServerListens ==
    /\ process.server = "starting"
    /\ "listener" \notin broken
    /\ Becomes([process EXCEPT !.server = "serving"])

(* Start returns an error: the flag is set before quit is touched. *)
ServerFails_NoFlag ==
    /\ process.server \in {"starting", "serving"}
    /\ "listener" \in broken
    /\ Becomes([process EXCEPT !.server = "failing"])
ServerFails ==
    /\ process.server \in {"starting", "serving"}
    /\ "listener" \in broken
    /\ Becomes([process EXCEPT !.server = "failing", !.startFailed = TRUE])

(* quit <- SIGTERM waits until the channel has room. *)
QuitCapacity_Unbuffered == 0
QuitCapacity == 1

ServerReportsFailure ==
    /\ process.server = "failing"
    /\ process.quit < QuitCapacity
    /\ Becomes([process EXCEPT !.server = "returned", !.quit = @ + 1])

(* ctx is cancelled: requests are drained and Start returns nil. *)
ServerDrains ==
    /\ process.server = "serving"
    /\ process.cancelled
    /\ Becomes([process EXCEPT !.server = "returned"])

ServerStep == ServerListens \/ ServerFails \/ ServerReportsFailure \/ ServerDrains

-----------------------------------------------------------------------------
(* Stop *)

WaitForQuit_NotAtAll ==
    /\ At("quit")
    /\ Becomes([process EXCEPT !.main = "serverDone", !.cancelled = TRUE])
WaitForQuit ==
    /\ At("quit")
    /\ process.quit > 0
    /\ Becomes([process EXCEPT !.main = "serverDone", !.quit = @ - 1, !.cancelled = TRUE])

(* <-serverDone, then the exit code or the deferred calls. *)
WaitForServer_NotAtAll ==
    /\ At("serverDone")
    /\ Becomes(IF process.startFailed THEN Exited("failure")
                                      ELSE [process EXCEPT !.main = "consumer.Stop"])
WaitForServer ==
    /\ At("serverDone")
    /\ process.server = "returned"
    /\ Becomes(IF process.startFailed THEN Exited("failure")
                                      ELSE [process EXCEPT !.main = "consumer.Stop"])

(* The deferred calls, last one first. *)
StopConsumer ==
    /\ At("consumer.Stop")
    /\ Becomes([process EXCEPT !.main = "natsClient.Close", !.subscribed = FALSE])

CloseClient ==
    /\ At("natsClient.Close")
    /\ Becomes([process EXCEPT !.main = "pool.Close"])

ClosePool ==
    /\ At("pool.Close")
    /\ process.busy = {}
    /\ Becomes(Exited("success"))

MainStep ==
    \/ ConnectDatabase \/ ConnectBroker \/ StartConsumer \/ StartServer
    \/ WaitForQuit \/ WaitForServer \/ StopConsumer \/ CloseClient \/ ClosePool

-----------------------------------------------------------------------------
(* Transactions: none begins with a cancelled context. *)

BeginTx(g) ==
    /\ ~At("exited")
    /\ ~process.cancelled
    /\ g = "relay"   => ~At("database") /\ ~At("broker")
    /\ g = "handler" => process.subscribed
    /\ g \notin process.busy
    /\ Becomes([process EXCEPT !.busy = @ \cup {g}])

(* Committed, or rolled back for a reason of its own. *)
FinishTx(g) ==
    /\ ~At("exited")
    /\ g \in process.busy
    /\ Becomes([process EXCEPT !.busy = @ \ {g}])

(* cancel() came under it: the next statement or Commit returns an error   *)
(* and the transaction is rolled back.                                     *)
AbortTx(g) ==
    /\ ~At("exited")
    /\ g \in process.busy
    /\ process.cancelled
    /\ Becomes([process EXCEPT !.busy = @ \ {g}, !.cut = @ \cup {g}])

EndTx(g) == FinishTx(g) \/ AbortTx(g)

-----------------------------------------------------------------------------
(* The world: signals, compose and what breaks *)

(* Notify drops a signal that finds quit full; without it a signal kills.  *)
Notified == process.server # "none"

Signal ==
    /\ ~At("exited")
    /\ signals < MaxSignals
    /\ signals' = signals + 1
    /\ process' = IF ~Notified THEN Exited("killed")
                  ELSE IF process.quit < QuitCapacity THEN [process EXCEPT !.quit = @ + 1]
                  ELSE process
    /\ UNCHANGED <<broken, breaks>>

(* restart: on-failure; a process that was told to stop stays down. *)
ComposeRestarts ==
    /\ At("exited")
    /\ process.exit = "failure"
    /\ signals = 0
    /\ Becomes(Started)

Break(part) ==
    /\ breaks < MaxBreaks
    /\ part \notin broken
    /\ broken' = broken \cup {part}
    /\ breaks' = breaks + 1
    /\ UNCHANGED <<process, signals>>

Heal(part) ==
    /\ part \in broken
    /\ broken' = broken \ {part}
    /\ UNCHANGED <<process, signals, breaks>>

Next ==
    \/ MainStep
    \/ ServerStep
    \/ \E g \in Goroutines : BeginTx(g) \/ EndTx(g)
    \/ Signal
    \/ ComposeRestarts
    \/ \E part \in Parts : Break(part) \/ Heal(part)

Spec == Init /\ [][Next]_vars

(* Goroutines run when they can, transactions end (a cancelled context     *)
(* ends them too), compose restarts what failed, what is broken is repaired*)
(* at last.                                                                *)
FairSpec ==
    /\ Spec
    /\ WF_vars(MainStep)
    /\ WF_vars(ServerStep)
    /\ \A g \in Goroutines : WF_vars(EndTx(g))
    /\ WF_vars(ComposeRestarts)
    /\ \A part \in Parts : WF_vars(Heal(part))

-----------------------------------------------------------------------------
(* Properties *)

(* The state of a process is well formed: NewPool makes MaxRetries attempts*)
(* at most and quit never holds more than it has room for.                 *)
TypeOK ==
    /\ process.attempts \in 0 .. MaxRetries - 1
    /\ process.quit \in 0 .. QuitCapacity
    /\ process.server \in {"none", "starting", "serving", "failing", "returned"}
    /\ process.cut \subseteq Goroutines /\ process.busy \subseteq Goroutines
    /\ process.exit \in {"none", "success", "failure", "killed"}
    /\ At("exited") <=> process.exit # "none"
    /\ broken \subseteq Parts

(* "A failed start is told by the exit code": however the server's failure *)
(* races with a signal and with main's way through the shutdown, a process *)
(* whose server returned an error does not exit with 0, which compose      *)
(* would take for a wanted end.                                            *)
ExitCodeTellsFailure ==
    process.exit = "success" => process.server = "returned" /\ ~process.startFailed

(* Nothing stops unless told to or because it failed: until a signal came  *)
(* no process exits with 0, which compose would take for a wanted end and  *)
(* leave the service down, and no transaction of the relay or of a handler *)
(* (whose message is then lost) is cut off, by cancel() or by the end of   *)
(* the process, unless the start or the server failed.                     *)
StopsOnlyWhenTold ==
    signals = 0 => /\ process.exit # "success"
                   /\ process.cut # {} => process.startFailed \/ process.exit = "failure"

(* A process that is told to stop stops, wherever the signal meets it: no  *)
(* goroutine waits for main while main waits for it.                       *)
SignalEndsProcess == signals > 0 ~> At("exited")

(* Until it is told to stop, the service serves again and again: whatever  *)
(* fails, at the start or later, ends the process in a way that compose    *)
(* restarts.                                                               *)
ServesUnlessStopped == []<>(process.server = "serving" \/ signals > 0)

(* "So that the process does not stay without accepting HTTP, stop it":    *)
(* once its server failed the process ends.  It does not hold when a       *)
(* second signal takes the room in quit that the server's goroutine needs. *)
FailureEndsProcess == process.startFailed ~> At("exited")
=============================================================================
