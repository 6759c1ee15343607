-------------------------- MODULE LifecycleProofs ---------------------------
(***************************************************************************)
(* The end of a process, for any number of attempts, signals and failures. *)
(*                                                                         *)
(* The exit code is decided at one place, long after the server's failure: *)
(* the invariant says what main knows wherever it is on its way out        *)
(* (Leaving), and that nobody changes it once the server has returned.     *)
(***************************************************************************)
EXTENDS Lifecycle, TLAPS

Deferred == {"consumer.Stop", "natsClient.Close", "pool.Close"}

Places == {"database", "broker", "consumer", "http", "quit", "serverDone", "exited"}
              \cup Deferred

Processes ==
    [main : Places, attempts : 0 .. MaxRetries - 1,
     server : {"none", "starting", "serving", "failing", "returned"},
     quit : 0 .. QuitCapacity, cancelled : BOOLEAN, startFailed : BOOLEAN,
     subscribed : BOOLEAN, busy : SUBSET Goroutines, cut : SUBSET Goroutines,
     exit : {"none", "success", "failure", "killed"}]

(* What holds of a process p by the place where its main is. *)
Leaving(p) ==
    /\ p.main \in Deferred => p.server = "returned" /\ ~p.startFailed
    /\ p.main \in {"serverDone"} \cup Deferred => p.cancelled
    /\ p.main = "exited" <=> p.exit # "none"
    /\ p.main # "exited" /\ p.cut # {} => p.cancelled
    /\ p.server = "failing" => p.startFailed
    /\ p.exit = "success" => p.server = "returned" /\ ~p.startFailed

(* Without a signal only the server's failure fills quit, so only that     *)
(* failure makes main leave and cancel the context.                        *)
Untold(p) ==
    /\ p.quit > 0 \/ p.cancelled => p.startFailed
    /\ p.exit \in {"none", "failure"}

IInv ==
    /\ process \in Processes
    /\ Leaving(process)
    /\ signals = 0 => Untold(process)
    /\ signals \in Nat
    /\ broken \subseteq Parts

(* The invariant implies the three properties. *)
LEMMA InvariantImplies == IInv => TypeOK /\ ExitCodeTellsFailure /\ StopsOnlyWhenTold
BY DEF IInv, Processes, Leaving, Untold, TypeOK, At, ExitCodeTellsFailure, StopsOnlyWhenTold

(* A process has started and nothing else has happened. *)
LEMMA StartedInv == Started \in Processes /\ Leaving(Started) /\ Untold(Started)
BY LifecycleAssumption
   DEF Started, Processes, Places, Deferred, Leaving, Untold, QuitCapacity, Goroutines

(* No process has done anything at the start. *)
LEMMA InitInv == Init => IInv
BY StartedInv DEF Init, IInv

(* Dying of a failure or of a signal, wherever main is. *)
LEMMA DyingInv ==
    ASSUME process \in Processes, Leaving(process), ~At("exited"),
           NEW code \in {"failure", "killed"}
    PROVE  /\ Exited(code) \in Processes /\ Leaving(Exited(code))
           /\ Untold(process) /\ code = "failure" => Untold(Exited(code))
BY DEF Exited, Processes, Places, Deferred, Leaving, Untold, At

(* Each step of main keeps the invariant. *)
LEMMA MainInv == IInv /\ MainStep => IInv'
<1> SUFFICES ASSUME IInv, MainStep PROVE IInv' OBVIOUS
<1> USE LifecycleAssumption
    DEF IInv, Processes, Places, Deferred, Leaving, Untold, Becomes, At, Exited
<1>1. CASE ConnectDatabase
  <2>1. CASE Becomes([process EXCEPT !.main = "broker"]) BY <1>1, <2>1 DEF ConnectDatabase
  <2>2. CASE HasRetry(process.attempts) /\ Becomes([process EXCEPT !.attempts = @ + 1])
    <3>1. process.attempts + 1 \in 0 .. MaxRetries - 1 BY <2>2 DEF HasRetry
    <3> QED BY <1>1, <2>2, <3>1 DEF ConnectDatabase
  <2>3. CASE Becomes(Exited("failure")) BY <1>1, <2>3, DyingInv DEF ConnectDatabase
  <2> QED BY <1>1, <2>1, <2>2, <2>3 DEF ConnectDatabase
<1>2. CASE ConnectBroker BY <1>2 DEF ConnectBroker
<1>3. CASE StartConsumer
  <2>1. CASE Becomes([process EXCEPT !.main = "http", !.subscribed = TRUE])
    BY <1>3, <2>1 DEF StartConsumer
  <2>2. CASE Becomes(Exited("failure")) BY <1>3, <2>2, DyingInv DEF StartConsumer
  <2> QED BY <1>3, <2>1, <2>2 DEF StartConsumer
<1>4. CASE StartServer BY <1>4 DEF StartServer
<1>5. CASE WaitForQuit
  <2>1. process.quit - 1 \in 0 .. QuitCapacity BY <1>5 DEF WaitForQuit, QuitCapacity
  <2> QED BY <1>5, <2>1 DEF WaitForQuit
<1>6. CASE WaitForServer BY <1>6 DEF WaitForServer
<1>7. CASE StopConsumer BY <1>7 DEF StopConsumer
<1>8. CASE CloseClient BY <1>8 DEF CloseClient
<1>9. CASE ClosePool BY <1>9 DEF ClosePool
<1> QED BY <1>1, <1>2, <1>3, <1>4, <1>5, <1>6, <1>7, <1>8, <1>9 DEF MainStep

(* The server's goroutine moves only until it has returned. *)
LEMMA ServerInv == IInv /\ ServerStep => IInv'
<1> SUFFICES ASSUME IInv, ServerStep PROVE IInv' OBVIOUS
<1> USE DEF IInv, Processes, Places, Deferred, Leaving, Untold, Becomes
<1>1. CASE ServerListens BY <1>1 DEF ServerListens
<1>2. CASE ServerFails BY <1>2 DEF ServerFails
<1>3. CASE ServerReportsFailure
  <2>1. process.quit + 1 \in 0 .. QuitCapacity BY <1>3 DEF ServerReportsFailure, QuitCapacity
  <2> QED BY <1>3, <2>1 DEF ServerReportsFailure
<1>4. CASE ServerDrains BY <1>4 DEF ServerDrains
<1> QED BY <1>1, <1>2, <1>3, <1>4 DEF ServerStep

(* So do the transactions and the world around the process. *)
LEMMA WorldInv ==
    ASSUME IInv,
           \/ \E g \in Goroutines : BeginTx(g) \/ EndTx(g)
           \/ Signal
           \/ ComposeRestarts
           \/ \E part \in Parts : Break(part) \/ Heal(part)
    PROVE  IInv'
<1>1. ASSUME NEW g \in Goroutines, BeginTx(g) PROVE IInv'
  BY <1>1 DEF BeginTx, IInv, Processes, Places, Deferred, Leaving, Untold, Becomes, At
<1>2. ASSUME NEW g \in Goroutines, EndTx(g) PROVE IInv'
  <2> USE DEF IInv, Processes, Leaving, Untold, Becomes, At
  <2>1. CASE FinishTx(g)
    <3>1. process' = [process EXCEPT !.busy = @ \ {g}] BY <2>1 DEF FinishTx
    <3> QED BY <2>1, <3>1 DEF FinishTx
  <2>2. CASE AbortTx(g)
    <3>1. PICK b : b = process.busy \ {g} OBVIOUS
    <3>2. PICK c : c = process.cut \cup {g} OBVIOUS
    <3>3. process' = [process EXCEPT !.busy = b, !.cut = c] BY <2>2, <3>1, <3>2 DEF AbortTx
    <3>4. b \in SUBSET Goroutines /\ c \in SUBSET Goroutines BY <3>1, <3>2
    <3> QED BY <2>2, <3>3, <3>4 DEF AbortTx, Deferred
  <2> QED BY <1>2, <2>1, <2>2 DEF EndTx
<1>3. CASE Signal
  <2>1. CASE process' = Exited("killed") BY <1>3, <2>1, DyingInv DEF Signal, IInv
  <2>2. CASE process.quit < QuitCapacity /\ process' = [process EXCEPT !.quit = @ + 1]
    <3>1. process.quit + 1 \in 0 .. QuitCapacity BY <2>2 DEF IInv, Processes, QuitCapacity
    <3> QED BY <1>3, <2>2, <3>1 DEF Signal, IInv, Processes, Places, Deferred, Leaving, Untold
  <2>3. CASE process' = process BY <1>3, <2>3 DEF Signal, IInv
  <2> QED BY <1>3, <2>1, <2>2, <2>3 DEF Signal
<1>4. CASE ComposeRestarts BY <1>4, StartedInv DEF ComposeRestarts, Becomes, IInv
<1>5. ASSUME NEW part \in Parts, Break(part) \/ Heal(part) PROVE IInv'
  BY <1>5 DEF Break, Heal, IInv
<1> QED BY <1>1, <1>2, <1>3, <1>4, <1>5

(* Steps of main, of the server and of the world around them keep the invariant. *)
LEMMA StepInv == IInv /\ [Next]_vars => IInv'
<1> SUFFICES ASSUME IInv, [Next]_vars PROVE IInv' OBVIOUS
<1>1. CASE UNCHANGED vars BY <1>1 DEF vars, IInv
<1> QED BY <1>1, MainInv, ServerInv, WorldInv DEF Next

(* The invariant holds in every behaviour. *)
LEMMA Inductive == Spec => []IInv
BY InitInv, StepInv, PTL DEF Spec

(* However many signals arrive and whatever breaks, a process whose server *)
(* returned an error never exits with 0.                                   *)
THEOREM FailureIsTold == Spec => []ExitCodeTellsFailure
BY Inductive, InvariantImplies, PTL

(* However main, the server's goroutine and the transactions interleave:   *)
(* without a signal no process exits with 0, and no transaction is cut off *)
(* unless the start or the server failed.                                  *)
THEOREM NothingStopsUntold == Spec => []StopsOnlyWhenTold
BY Inductive, InvariantImplies, PTL

(* The state of a process is always well formed. *)
THEOREM TypeCorrect == Spec => []TypeOK
BY Inductive, InvariantImplies, PTL
=============================================================================
