--------------------------- MODULE AlertThrottle ---------------------------
(***************************************************************************)
(* AlertService (src/src/alerts.py) with its store AlertThrottleStore      *)
(* (src/src/database.py): each alert is a task that awaits the lock of its *)
(* kind, the store and the webhook, while other alerts are under way, the  *)
(* clock runs, either of the two is out of reach, and the process is       *)
(* restarted.  A message is posted at most once per kind and window.       *)
(***************************************************************************)
EXTENDS Integers

CONSTANTS Kind,           \* AlertKind
          Task, NoTask,   \* asyncio tasks; at most this many alerts at a time
          Window,         \* settings.alert_throttle_sec
          MaxTime,        \* bound on the clock
          MaxSuppressed   \* bound up to which repeats are counted

ASSUME AlertAssumption ==
  /\ Kind # {} /\ NoTask \notin Task
  /\ Window \in Nat \ {0} /\ MaxTime \in Nat /\ MaxSuppressed \in Nat

Never == -1
Time == 0 .. MaxTime

VARIABLES
  now,       \* time.time()
  store,     \* indexer_state: alert_last_sent of each kind
  throttle,  \* _throttle: last_sent and suppressed of each kind
  loaded,    \* _store_loaded
  lock,      \* _locks: the holder of each kind's lock
  task,      \* each task: the await it is at, its kind, the rows its load has read,
             \* the count its message reports (history: it decided without the store)
  sentBy,    \* history: time of the last delivery of each kind, by any process
  here,      \* history: kinds this process has delivered
  untold     \* history: throttled occurrences of each kind no message has reported yet

service == <<throttle, loaded, lock, task>>
history == <<sentBy, here, untold>>
vars    == <<now, store, service, history>>

Unsent == [sent |-> Never, suppressed |-> 0]
Rows == [Kind -> Time \cup {Never}]
NoRows == [k \in Kind |-> Never]
AnyKind == CHOOSE k \in Kind : TRUE
Idle == [at |-> "idle", kind |-> AnyKind, rows |-> NoRows, reports |-> 0,
         blind |-> FALSE]

FreshService ==
  [throttle |-> [k \in Kind |-> Unsent], loaded |-> FALSE,
   lock |-> [k \in Kind |-> NoTask], task |-> [t \in Task |-> Idle]]

Init ==
  /\ now = 0 /\ store = NoRows
  /\ throttle = FreshService.throttle /\ loaded = FreshService.loaded
  /\ lock = FreshService.lock /\ task = FreshService.task
  /\ sentBy = NoRows /\ here = {} /\ untold = [k \in Kind |-> 0]
----------------------------------------------------------------------------
At(t, where) == task[t].at = where
GoesTo(t, where) == task' = [task EXCEPT ![t].at = where]

\* Mutation of Finish: the lock is not released.
FinishHolding(t) == task' = [task EXCEPT ![t] = Idle] /\ UNCHANGED lock

\* The task returns or is cancelled; "async with" releases the lock if it is held.
Finish(t) ==
  /\ task' = [task EXCEPT ![t] = Idle]
  /\ lock' = [k \in Kind |-> IF lock[k] = t THEN NoTask ELSE lock[k]]

\* notify, notify_and_wait
Notify(t, k) ==
  /\ At(t, "idle")
  /\ task' = [task EXCEPT ![t] = [Idle EXCEPT !.at = "lock", !.kind = k]]
  /\ UNCHANGED <<now, store, throttle, loaded, lock, history>>

\* Mutation of Throttled: only the moment of the delivery itself counts.
ThrottledOnlyNow(state) == state.sent = now

Throttled(state) == state.sent # Never /\ now - state.sent < Window

\* The count is only reported; here it stops at a bound.
OneMore(n) == IF n < MaxSuppressed THEN n + 1 ELSE n

\* The decision, without an await after the throttle state is at hand.
Decide(t, states, known) ==
  LET k == task[t].kind
  IN  IF Throttled(states[k])
      THEN /\ throttle' = [states EXCEPT ![k].suppressed = OneMore(@)]
           /\ untold' = [untold EXCEPT ![k] = OneMore(@)]
           /\ Finish(t)
      ELSE /\ throttle' = states
           /\ task' = [task EXCEPT ![t].at = "deliver", ![t].rows = NoRows,
                                   ![t].reports = states[k].suppressed,
                                   ![t].blind = ~ known]
           /\ lock' = [lock EXCEPT ![k] = t]
           /\ UNCHANGED untold

Acquire(t) ==
  /\ At(t, "lock") /\ lock[task[t].kind] = NoTask
  /\ IF loaded
     THEN Decide(t, throttle, TRUE)
     ELSE /\ GoesTo(t, "query")
          /\ lock' = [lock EXCEPT ![task[t].kind] = t]
          /\ UNCHANGED <<throttle, untold>>
  /\ UNCHANGED <<now, store, loaded, sentBy, here>>

\* The store has read its rows; its connection is still to be closed.
Query(t) ==
  /\ At(t, "query")
  /\ task' = [task EXCEPT ![t].at = "rows", ![t].rows = store]
  /\ UNCHANGED <<now, store, throttle, loaded, lock, history>>

\* Mutation of Seeded: what the store had is taken over as it is.
SeededBlindly(states, rows) ==
  [k \in Kind |-> [states[k] EXCEPT !.sent = rows[k]]]

\* _load_throttle, for each kind: never older than what this process knows.
Seeded(states, rows) ==
  [k \in Kind |-> IF rows[k] > states[k].sent THEN [states[k] EXCEPT !.sent = rows[k]]
                                              ELSE states[k]]

LoadDone(t) ==
  /\ At(t, "rows")
  /\ loaded' = TRUE
  /\ Decide(t, Seeded(throttle, task[t].rows), TRUE)
  /\ UNCHANGED <<now, store, sentBy, here>>

\* The store times out or raises: the next alert tries again.
LoadFails(t) ==
  /\ At(t, "query") \/ At(t, "rows")
  /\ Decide(t, throttle, loaded)
  /\ UNCHANGED <<now, store, loaded, sentBy, here>>

\* The webhook has accepted the message, and the answer has arrived.
Delivered(t) ==
  LET k == task[t].kind
  IN  /\ At(t, "deliver")
      /\ throttle' = [throttle EXCEPT ![k] = [Unsent EXCEPT !.sent = now]]
      /\ sentBy' = [sentBy EXCEPT ![k] = now]
      /\ here' = here \cup {k}
      /\ untold' = [untold EXCEPT ![k] = 0]
      /\ GoesTo(t, "save")
      /\ UNCHANGED <<now, store, loaded, lock>>

\* Mutation of DeliveryFails: the throttle state is dropped with the message.
DeliveryFailsForgetting(t) ==
  /\ At(t, "deliver")
  /\ Finish(t)
  /\ throttle' = [throttle EXCEPT ![task[t].kind] = Unsent]
  /\ UNCHANGED <<now, store, loaded, history>>

DeliveryFails(t) ==
  /\ At(t, "deliver")
  /\ Finish(t)
  /\ UNCHANGED <<now, store, throttle, loaded, history>>

Saved(t) ==
  /\ At(t, "save")
  /\ store' = [store EXCEPT ![task[t].kind] = throttle[task[t].kind].sent]
  /\ Finish(t)
  /\ UNCHANGED <<now, throttle, loaded, history>>

SaveFails(t) ==
  /\ At(t, "save")
  /\ Finish(t)
  /\ UNCHANGED <<now, store, throttle, loaded, history>>

\* notify_and_wait times out, or the event loop is closed under the task.
Cancel(t) ==
  /\ ~ At(t, "idle")
  /\ Finish(t)
  /\ UNCHANGED <<now, store, throttle, loaded, history>>

\* A new process has a new AlertService; repeats the old one counted are lost.
Restart ==
  /\ throttle' = FreshService.throttle /\ loaded' = FreshService.loaded
  /\ lock' = FreshService.lock /\ task' = FreshService.task
  /\ here' = {} /\ untold' = [k \in Kind |-> 0]
  /\ UNCHANGED <<now, store, sentBy>>

Tick ==
  /\ now < MaxTime
  /\ now' = now + 1
  /\ UNCHANGED <<store, service, history>>

Ends(t) == Query(t) \/ LoadDone(t) \/ LoadFails(t) \/ Delivered(t) \/ DeliveryFails(t)
           \/ Saved(t) \/ SaveFails(t)

Next ==
  \/ \E t \in Task : \/ \E k \in Kind : Notify(t, k)
                     \/ Acquire(t) \/ Ends(t) \/ Cancel(t)
  \/ Restart \/ Tick

Spec == Init /\ [][Next]_vars

\* Store and webhook have timeouts; asyncio.Lock serves its waiters in order.
FairSpec == Spec /\ \A t \in Task : WF_vars(Ends(t)) /\ SF_vars(Acquire(t))
----------------------------------------------------------------------------
(* Types, and: a lock is held by the task that is past it, which has not   *)
(* forgotten what it loads or reports.                                     *)
TypeOK ==
  /\ now \in Time /\ store \in Rows /\ loaded \in BOOLEAN
  /\ throttle \in [Kind -> [sent : Time \cup {Never}, suppressed : 0 .. MaxSuppressed]]
  /\ task \in [Task -> [at : {"idle", "lock", "query", "rows", "deliver", "save"},
                        kind : Kind, rows : Rows, reports : 0 .. MaxSuppressed,
                        blind : BOOLEAN]]
  /\ \A k \in Kind, t \in Task :
        lock[k] = t <=> task[t].kind = k /\ task[t].at \notin {"idle", "lock"}
  /\ sentBy \in Rows /\ here \subseteq Kind

(* Per kind and window one message (DEPLOYMENT.md:499, 531-541), however   *)
(* the alerts overlap and also across restarts; excused is only a process  *)
(* that could not know: it is not the one that posted last, and its        *)
(* predecessor could not save, or this alert could not load.               *)
OncePerWindow ==
  [][\A t \in Task : LET k == task[t].kind IN
       Delivered(t) /\ sentBy[k] # Never /\ now - sentBy[k] < Window
         => k \notin here /\ (store[k] # sentBy[k] \/ task[t].blind)]_vars

(* A message reports every occurrence that was throttled since the last    *)
(* one: none is lost in a failed delivery or counted twice.                *)
RepeatsAreTold ==
  [][\A t \in Task : Delivered(t) => task[t].reports = untold[task[t].kind]]_vars

(* A load that answers late, after another alert was posted and saved,     *)
(* does not rewind the throttle (alerts.py:234).                           *)
ThrottleNeverBack ==
  [][~ Restart => \A k \in Kind : throttle'[k].sent >= throttle[k].sent]_vars

(* Every alert comes to an end, whatever the store and the webhook do: no  *)
(* alert waits for a lock for ever.                                        *)
AlertsSettle == \A t \in Task : ~ At(t, "idle") ~> At(t, "idle")
=============================================================================
