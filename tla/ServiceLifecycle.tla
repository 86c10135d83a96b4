--------------------------- MODULE ServiceLifecycle ---------------------------
(***************************************************************************)
(* One process after the other of the indexer service: IndexerService and  *)
(* main() of src/src/main.py with BlockIndexer.start and stop of           *)
(* src/src/block_indexer.py, under signals, failed starts, a dying sync    *)
(* loop, a shutdown that fails itself, and the container's restarts.       *)
(*                                                                         *)
(* Two coroutines share the event loop: the service (main) and the sync    *)
(* task.  A signal handler may run between any two of their steps, also    *)
(* between the end of the task and its done callback.  The alert service   *)
(* is seen through notify_and_wait alone: its tasks, locks, clock and      *)
(* memory are those of AlertThrottle.  Here a throttle window is open or   *)
(* not; no service alerts on a kind twice, so only the row that is shared  *)
(* by the processes can suppress.                                          *)
(***************************************************************************)
EXTENDS Naturals

CONSTANT MaxRaised  \* where the history raised stops counting

ASSUME CapAssumption == MaxRaised \in Nat /\ MaxRaised > 1

NodeUnreachable == "node_unreachable"
IndexerStopped  == "indexer_stopped"
Kinds == {NodeUnreachable, IndexerStopped}

VARIABLES
  main,      \* what start() and main() await
  task,      \* what the sync task awaits; "ended" until its done callback has run
  error,     \* what the task ended with
  shutdown,  \* shutdown_event
  died,      \* _indexer_died
  running,   \* BlockIndexer.running
  pool,      \* engine and connection pool: none, open, closed
  code,      \* exit status, "none" while the process runs
  window,    \* kinds whose window the alert_last_sent row shows as open
  signalled, \* history: this process was asked to stop
  raised,    \* history: how often this process alerted on each kind, up to MaxRaised
  broken,    \* history: this process failed while it was shutting down
  posted     \* history: kinds that a message was posted on in their window

service == <<main, shutdown, died, code, signalled, broken>>
sync    == <<task, error, running, pool>>
alerts  == <<window, raised, posted>>
vars    == <<service, sync, alerts>>

Never == [k \in Kinds |-> 0]
OneMore(count, k) == [count EXCEPT ![k] = IF @ < MaxRaised THEN @ + 1 ELSE @]

(***************************************************************************)
(* AlertService.notify_and_wait, when it returns.                          *)
(***************************************************************************)
\* A repeat within the window is counted, not posted, if the row tells of it.
Suppress(k) ==
  /\ k \in window
  /\ UNCHANGED <<window, posted>>

\* The row tells of no window, or cannot be read; the webhook accepts; the row is written
\* or not.
Post(k) ==
  /\ posted' = posted \cup {k}
  /\ window' \in {window, window \cup {k}}

\* The webhook refuses or does not answer in time: no window starts.
Lose(k) ==
  UNCHANGED <<window, posted>>

NotifyAndWait(k) ==
  /\ Suppress(k) \/ Post(k) \/ Lose(k)
  /\ raised' = OneMore(raised, k)

WindowEnds(k) ==
  /\ k \in posted
  /\ window' = window \ {k} /\ posted' = posted \ {k}
  /\ UNCHANGED <<service, sync, raised>>

(***************************************************************************)
(* The sync task: BlockIndexer.start.                                      *)
(***************************************************************************)
\* The coroutine is done; the event loop has yet to call _on_indexer_task_done.
EndTask(e) == task' = "ended" /\ error' = e

\* db.connect and create_tables.  An engine or pool may be left behind by a failure.
Connect ==
  /\ task = "connect"
  /\ task' = "health"
  /\ pool' = "open"
  /\ UNCHANGED <<error, running, service, alerts>>

ConnectFails ==
  /\ task = "connect"
  /\ pool' \in {"none", "open"}
  /\ EndTask("plain")
  /\ UNCHANGED <<running, service, alerts>>

HealthCheck ==
  /\ task = "health"
  /\ task' \in {"cursor", "warn"}
  /\ UNCHANGED <<error, running, pool, service, alerts>>

\* The process is about to exit, so the alert is awaited.
WarnNodeUnreachable ==
  /\ task = "warn"
  /\ NotifyAndWait(NodeUnreachable)
  /\ EndTask("alerted")
  /\ UNCHANGED <<running, pool, service>>

ReadCursor ==
  /\ task = "cursor"
  /\ task' = "cycle"
  /\ UNCHANGED <<error, running, pool, service, alerts>>

\* A cycle swallows what its steps raise; the loop then sleeps.
Cycle ==
  /\ task = "cycle"
  /\ task' = "sleep"
  /\ UNCHANGED <<error, running, pool, service, alerts>>

\* while self.running
NextCycle ==
  /\ task = "sleep"
  /\ IF running THEN task' = "cycle" /\ UNCHANGED error ELSE EndTask("none")
  /\ UNCHANGED <<running, pool, service, alerts>>

\* No client object, no cursor to read, or an exception no handler of a cycle catches.
TaskFails ==
  /\ task \in {"health", "cursor", "cycle"}
  /\ EndTask("plain")
  /\ UNCHANGED <<running, pool, service, alerts>>

\* Mutations of OnIndexerTaskDone: the flag is not set; the event is not set.
OnIndexerTaskDoneUnnoticed ==
  /\ task = "ended"
  /\ task' = "done"
  /\ shutdown' = TRUE
  /\ UNCHANGED <<died, error, running, pool, main, code, signalled, broken, alerts>>

OnIndexerTaskDoneSilent ==
  /\ task = "ended"
  /\ task' = "done"
  /\ died' = (died \/ ~ shutdown)
  /\ UNCHANGED <<shutdown, error, running, pool, main, code, signalled, broken, alerts>>

OnIndexerTaskDone ==
  /\ task = "ended"
  /\ task' = "done"
  /\ IF shutdown
     THEN UNCHANGED <<shutdown, died>>
     ELSE shutdown' = TRUE /\ died' = TRUE
  /\ UNCHANGED <<error, running, pool, main, code, signalled, broken, alerts>>

(***************************************************************************)
(* The service: IndexerService.start, stop and main().                     *)
(***************************************************************************)
Boot ==
  /\ main = "boot"
  /\ main' = "wait"
  /\ task' = "connect" /\ running' = TRUE
  /\ UNCHANGED <<error, pool, shutdown, died, code, signalled, broken, alerts>>

\* asyncio.run ends with an exception: it cancels what still runs, and main() has a
\* last word with an alert service of its own.
Escape ==
  /\ main' = "lastcall"
  /\ task' = "none"
  /\ UNCHANGED alerts

\* The port of the monitoring server is taken.
MonitoringFails ==
  /\ main = "boot"
  /\ Escape
  /\ UNCHANGED <<error, running, pool, shutdown, died, code, signalled, broken>>

\* Mutation of BeginStop: the loop is not told.
BeginStopUntold == main' = "closing" /\ UNCHANGED running

\* stop() clears running and begins to close the pool without an await in between.
BeginStop == main' = "closing" /\ running' = FALSE

\* Mutation of ShutdownEventSet: the cause is alerted on again.
ShutdownEventSetAlways ==
  /\ main = "wait" /\ shutdown
  /\ IF died
     THEN main' = "alert" /\ UNCHANGED running
     ELSE BeginStop
  /\ UNCHANGED <<shutdown, died, code, signalled, broken, task, error, pool, alerts>>

\* shutdown_event.wait() returns; _alert_if_indexer_died has nothing to say of a
\* requested stop, nor of an error that was alerted on.
ShutdownEventSet ==
  /\ main = "wait" /\ shutdown
  /\ IF died /\ error # "alerted"
     THEN main' = "alert" /\ UNCHANGED running
     ELSE BeginStop
  /\ UNCHANGED <<shutdown, died, code, signalled, broken, task, error, pool, alerts>>

AlertIndexerDied ==
  /\ main = "alert"
  /\ NotifyAndWait(IndexerStopped)
  /\ BeginStop
  /\ UNCHANGED <<shutdown, died, code, signalled, broken, task, error, pool>>

Disconnect ==
  /\ main = "closing"
  /\ main' = "cancel"
  /\ pool' = IF pool = "open" THEN "closed" ELSE pool
  /\ UNCHANGED <<shutdown, died, code, signalled, broken, task, error, running, alerts>>

\* The exception is no AlertedError, whatever the task died of.
DisconnectFails ==
  /\ main = "closing" /\ pool = "open"
  /\ Escape
  /\ broken' = TRUE
  /\ UNCHANGED <<error, running, pool, shutdown, died, code, signalled>>

\* indexer_task.cancel(): CancelledError at whatever the task awaits.
CancelTask ==
  /\ main = "cancel" /\ task \notin {"ended", "done"}
  /\ EndTask("cancelled")
  /\ UNCHANGED <<running, pool, service, alerts>>

Exit(c) ==
  /\ main' = "gone"
  /\ code' = c
  /\ task' = "none"
  /\ UNCHANGED <<shutdown, died, signalled, broken, error, running, pool, alerts>>

\* start() returns, or raises AlertedError for a loop that died.
Finish ==
  /\ main = "cancel" /\ task \in {"ended", "done"}
  /\ Exit(IF died THEN "failed" ELSE "ok")

\* Mutation of LastCall: main() exits without a word.
LastCallSilent ==
  /\ main = "lastcall"
  /\ main' = "gone" /\ code' = "failed" /\ task' = "none"
  /\ UNCHANGED <<shutdown, died, signalled, broken, error, running, pool, alerts>>

LastCall ==
  /\ main = "lastcall"
  /\ NotifyAndWait(IndexerStopped)
  /\ main' = "gone" /\ code' = "failed" /\ task' = "none"
  /\ UNCHANGED <<shutdown, died, signalled, broken, error, running, pool>>

HandleSignal ==
  /\ main # "gone" /\ ~ signalled
  /\ shutdown' = TRUE /\ signalled' = TRUE
  /\ UNCHANGED <<main, died, code, broken, sync, alerts>>

\* The process is killed, or the machine goes down.
Kill == main # "gone" /\ Exit("killed")

FreshProcess ==
  /\ main' = "boot" /\ task' = "none" /\ error' = "none"
  /\ shutdown' = FALSE /\ died' = FALSE /\ running' = FALSE
  /\ pool' = "none" /\ code' = "none"
  /\ signalled' = FALSE /\ raised' = Never /\ broken' = FALSE

\* A non-zero status makes the container's restart policy act.
Restart ==
  /\ main = "gone" /\ code # "ok"
  /\ FreshProcess
  /\ UNCHANGED <<window, posted>>

\* Somebody starts a container that was stopped.
StartAgain ==
  /\ main = "gone" /\ code = "ok"
  /\ FreshProcess
  /\ UNCHANGED <<window, posted>>

Init ==
  /\ main = "boot" /\ task = "none" /\ error = "none"
  /\ shutdown = FALSE /\ died = FALSE /\ running = FALSE
  /\ pool = "none" /\ code = "none"
  /\ signalled = FALSE /\ broken = FALSE
  /\ window = {} /\ raised = Never /\ posted = {}

Task ==
  \/ Connect \/ HealthCheck \/ WarnNodeUnreachable \/ ReadCursor
  \/ Cycle \/ NextCycle \/ OnIndexerTaskDone

Service ==
  \/ Boot \/ ShutdownEventSet \/ AlertIndexerDied \/ Disconnect
  \/ CancelTask \/ Finish \/ LastCall

Fault == ConnectFails \/ TaskFails \/ MonitoringFails \/ DisconnectFails \/ Kill

Next ==
  \/ Task \/ Service \/ Fault
  \/ HandleSignal \/ Restart \/ StartAgain
  \/ \E k \in Kinds : WindowEnds(k)

Spec == Init /\ [][Next]_vars

\* Both coroutines are resumed when what they await is over, and everything they
\* await ends; the container restarts what did not exit with 0; and time goes by.
FairSpec ==
  /\ Spec /\ WF_vars(Task) /\ WF_vars(Service) /\ WF_vars(Restart)
  /\ \A k \in Kinds : WF_vars(WindowEnds(k))
-----------------------------------------------------------------------------
(* Types, and: a service that is stopping has told its loop to stop.       *)
TypeOK ==
  /\ main \in {"boot", "wait", "alert", "closing", "cancel", "lastcall", "gone"}
  /\ task \in {"none", "connect", "health", "warn", "cursor", "cycle", "sleep",
              "ended", "done"}
  /\ error \in {"none", "plain", "alerted", "cancelled"}
  /\ {shutdown, died, running, signalled, broken} \subseteq BOOLEAN
  /\ pool \in {"none", "open", "closed"}
  /\ code \in {"none", "ok", "failed", "killed"}
  /\ window \subseteq posted /\ posted \subseteq Kinds
  /\ raised \in [Kinds -> 0 .. MaxRaised]
  /\ main \in {"closing", "cancel"} => ~ running

Told == raised[NodeUnreachable] + raised[IndexerStopped]

(* DEPLOYMENT.md:543: the process exits with 0 only when it was asked to,  *)
(* and never after its loop died; it exits with 1 after one alert that     *)
(* tells why, be it of the task or of main(), whatever races with whatever *)
(* else.  Only a shutdown that fails itself adds a second one.             *)
ExitIsToldOnce ==
  main = "gone" =>
     /\ code = "ok" => signalled /\ ~ died
     /\ code = "failed" => Told = 1 \/ (broken /\ Told > 1)

(* main.py:130: a sync loop that ended, and a signal, end the process; no  *)
(* loop is dead in a process that stays up.                                *)
NoZombie == (task = "ended" \/ shutdown) ~> (main = "gone")

(* main.py:121: once faults and signals stop and the node is healthy, the  *)
(* service indexes and goes on to, unless it was stopped on request.       *)
NodeAnswersNot == task = "health" /\ task' = "warn"

ComesBack ==
  (<>[][~ Fault /\ ~ HandleSignal /\ ~ NodeAnswersNot]_vars) =>
     \/ <>[](main = "wait" /\ task \in {"cycle", "sleep"})
     \/ <>[](main = "gone" /\ signalled)

(* DEPLOYMENT.md:529: a restart loop does not spam the channel, but it is  *)
(* not silent either.  If the process fails again and again and no message *)
(* is lost any more, messages are posted again and again, whatever the     *)
(* processes die of and whichever of their three voices speaks.            *)
Unheard == \E k \in Kinds : raised'[k] # raised[k] /\ k \notin window /\ k \notin posted'
Heard   == \E k \in posted' : k \notin posted

CrashLoopIsHeard ==
  (<>[][~ Unheard]_vars /\ []<>(main = "gone" /\ code = "failed")) => []<><<Heard>>_vars
=============================================================================
