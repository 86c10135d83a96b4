------------------------ MODULE AlertThrottle_proofs ------------------------
(***************************************************************************)
(* For every number of kinds and tasks, every window and every clock: one  *)
(* message per kind and window, no repeat that goes untold, and a throttle *)
(* that never goes back.                                                   *)
(*                                                                         *)
(* The argument is about who knows what.  The lock of a kind lets one task *)
(* at a time decide about it, but the load writes the throttle of every    *)
(* kind, whoever holds its lock.  That this does no harm rests on the      *)
(* order  rows read <= store <= last delivery  (RowsAreOld) and on the     *)
(* fact that a service which has loaded knows all the store has.           *)
(***************************************************************************)
EXTENDS AlertThrottle, TLAPS

Holds(t, k) == task[t].kind = k /\ task[t].at \notin {"idle", "lock"}

\* Each table of times is older than the next, and none is ahead of the clock.
RowsAreOld ==
  \A k \in Kind :
     /\ \A t \in Task : task[t].rows[k] <= store[k]
     /\ store[k] <= sentBy[k] /\ throttle[k].sent <= sentBy[k] /\ sentBy[k] <= now

\* What the store has, a service that has loaded knows; what was saved after a task read
\* its rows was saved by this process.
LoadIsComplete ==
  \A k \in Kind :
     /\ loaded => store[k] <= throttle[k].sent
     /\ \A t \in Task : At(t, "rows") => store[k] <= throttle[k].sent \/ store[k] = task[t].rows[k]

\* A process knows its own deliveries.
OwnIsKnown ==
  /\ \A k \in here : throttle[k].sent = sentBy[k]
  /\ \A t \in Task : At(t, "save") => task[t].kind \in here

\* A task that delivers may: at the decision the window was over, as far as it knew.
MayDeliver ==
  \A t \in Task : At(t, "deliver") =>
     /\ ~ task[t].blind => loaded
     /\ ~ task[t].blind \/ task[t].kind \in here => ~ Throttled(throttle[task[t].kind])

\* The repeats the service has counted are those no message has told.
RepeatsAreCounted ==
  /\ \A k \in Kind : throttle[k].suppressed = untold[k]
  /\ \A t \in Task : At(t, "deliver") => task[t].reports = untold[task[t].kind]

TaskRecord ==
  [at : {"idle", "lock", "query", "rows", "deliver", "save"}, kind : Kind, rows : Rows,
   reports : 0 .. MaxSuppressed, blind : BOOLEAN]
LocksHeld == \A k \in Kind, t \in Task : lock[k] = t <=> Holds(t, k)
State == [sent : Time \cup {Never}, suppressed : 0 .. MaxSuppressed]

IndInv ==
  /\ TypeOK /\ lock \in [Kind -> Task \cup {NoTask}] /\ untold \in [Kind -> 0 .. MaxSuppressed]
  /\ RowsAreOld /\ LoadIsComplete /\ OwnIsKnown /\ MayDeliver /\ RepeatsAreCounted
----------------------------------------------------------------------------
(* The initial state, and the state a new process starts in.               *)
LEMMA FreshTypes ==
  /\ Idle.at = "idle" /\ Idle.rows = NoRows /\ NoRows \in Rows /\ \A k \in Kind : NoRows[k] = Never
  /\ Idle \in TaskRecord
  /\ Unsent \in State /\ Unsent.sent = Never /\ Unsent.suppressed = 0
<1>1. AnyKind \in Kind
  BY AlertAssumption DEF AnyKind
<1>2. NoRows \in Rows
  BY DEF NoRows, Rows
<1> QED  BY <1>1, <1>2, AlertAssumption DEF Idle, NoRows, Unsent, State, TaskRecord

Fresh ==
  /\ throttle = [k \in Kind |-> Unsent] /\ loaded = FALSE
  /\ lock = [k \in Kind |-> NoTask] /\ task = [t \in Task |-> Idle]
  /\ here = {} /\ untold = [k \in Kind |-> 0]

(* No time of a row is before Never.                                       *)
LEMMA TimesAreNumbers ==
  \A rows \in Rows, k \in Kind : rows[k] \in Int /\ NoRows[k] = Never /\ Never <= rows[k]
BY AlertAssumption DEF Rows, Time, Never, NoRows

(* The two numbers the throttle keeps of a kind.                           *)
LEMMA StateTypes ==
  ASSUME NEW states \in [Kind -> State], NEW k \in Kind
  PROVE  /\ states[k].sent \in Int /\ states[k].suppressed \in 0 .. MaxSuppressed
         /\ OneMore(states[k].suppressed) \in 0 .. MaxSuppressed
BY AlertAssumption DEF State, OneMore, Time, Never

(* A new process, which knows and holds nothing, satisfies the invariant.  *)
LEMMA FreshIndInv ==
  ASSUME Fresh, now \in Time, store \in Rows, sentBy \in Rows,
         \A k \in Kind : store[k] <= sentBy[k] /\ sentBy[k] <= now
  PROVE  IndInv
<1> USE DEF Fresh, IndInv
<1>1. /\ throttle \in [Kind -> State] /\ untold \in [Kind -> 0 .. MaxSuppressed]
      /\ lock \in [Kind -> Task \cup {NoTask}]
      /\ \A t \in Task : task[t] = Idle
  BY FreshTypes, AlertAssumption
<1>2. TypeOK
  BY <1>1, FreshTypes, AlertAssumption DEF TypeOK, State, TaskRecord
<1>3. RowsAreOld
  <2>1. \A k \in Kind : throttle[k].sent = Never /\ \A t \in Task : task[t].rows[k] = Never
    BY <1>1, FreshTypes
  <2> QED  BY <2>1, TimesAreNumbers, FreshTypes DEF RowsAreOld, Never
<1>4. LoadIsComplete /\ OwnIsKnown /\ MayDeliver /\ RepeatsAreCounted
  BY <1>1, FreshTypes DEF LoadIsComplete, OwnIsKnown, MayDeliver, RepeatsAreCounted, At
<1> QED  BY <1>1, <1>2, <1>3, <1>4

LEMMA InitIndInv == Init => IndInv
<1> SUFFICES ASSUME Init PROVE IndInv
  OBVIOUS
<1>1. Fresh /\ store = NoRows /\ sentBy = NoRows /\ now = 0
  BY DEF Init, FreshService, Fresh
<1>2. now \in Time /\ \A k \in Kind : store[k] <= sentBy[k] /\ sentBy[k] <= now
  BY <1>1, FreshTypes, AlertAssumption DEF Time, Never
<1> QED  BY <1>1, <1>2, FreshTypes, FreshIndInv

(* After a restart the store may be behind what was posted, never ahead of *)
(* it.                                                                     *)
LEMMA RestartIndInv == IndInv /\ Restart => IndInv'
<1> SUFFICES ASSUME IndInv, Restart PROVE IndInv'
  OBVIOUS
<1>1. Fresh' /\ UNCHANGED <<now, store, sentBy>>
  BY DEF Restart, FreshService, Fresh
<1>2. (/\ now \in Time /\ store \in Rows /\ sentBy \in Rows
       /\ \A k \in Kind : store[k] <= sentBy[k] /\ sentBy[k] <= now)'
  BY <1>1 DEF IndInv, TypeOK, RowsAreOld
<1>3. ASSUME Fresh', (/\ now \in Time /\ store \in Rows /\ sentBy \in Rows
                     /\ \A k \in Kind : store[k] <= sentBy[k] /\ sentBy[k] <= now)'
      PROVE  IndInv'
  BY <1>3, FreshIndInv, PTL
<1> QED  BY <1>1, <1>2, <1>3

(* Time passes: nothing else changes.                                      *)
LEMMA TickIndInv == IndInv /\ Tick => IndInv'
<1> SUFFICES ASSUME IndInv, Tick PROVE IndInv'
  OBVIOUS
<1> USE DEF Tick, service, history, IndInv
<1>1. TypeOK' /\ (lock \in [Kind -> Task \cup {NoTask}])' /\ (untold \in [Kind -> 0 .. MaxSuppressed])'
  BY AlertAssumption DEF TypeOK, Time
<1>2. RowsAreOld' /\ LoadIsComplete'
  BY DEF RowsAreOld, LoadIsComplete, At, TypeOK, Rows, Time, Never
<1>3. OwnIsKnown' /\ MayDeliver' /\ RepeatsAreCounted'
  BY AlertAssumption
     DEF OwnIsKnown, MayDeliver, RepeatsAreCounted, At, Throttled, TypeOK, Time, Never
<1> QED  BY <1>1, <1>2, <1>3

(* Leaving, in whichever way: the lock is free, the task claims nothing.   *)
LEMMA FinishIndInv ==
  ASSUME IndInv, NEW t \in Task, Finish(t), UNCHANGED <<now, throttle, loaded, history>>,
         \/ UNCHANGED store
         \/ At(t, "save") /\ store' = [store EXCEPT ![task[t].kind] = throttle[task[t].kind].sent]
  PROVE  IndInv'
<1> USE DEF Finish, history, IndInv
<1>1. /\ task' \in [Task -> TaskRecord] /\ task'[t] = Idle
      /\ \A u \in Task \ {t} : task'[u] = task[u]
      /\ lock' \in [Kind -> Task \cup {NoTask}]
  BY FreshTypes DEF TypeOK, TaskRecord
<1>2. LocksHeld'
  BY <1>1, FreshTypes, AlertAssumption DEF TypeOK, LocksHeld, Holds
<1>3. store' \in Rows /\ \A k \in Kind : store[k] <= store'[k] /\ store'[k] <= sentBy[k]
  <2>1. CASE UNCHANGED store
    BY <2>1 DEF TypeOK, RowsAreOld, Rows, Time, Never
  <2>2. CASE At(t, "save") /\ store' = [store EXCEPT ![task[t].kind] = throttle[task[t].kind].sent]
    BY <2>2, AlertAssumption DEF TypeOK, RowsAreOld, OwnIsKnown, Rows, Time, Never
  <2> QED  BY <2>1, <2>2
<1>4. TypeOK'
  BY <1>1, <1>2, <1>3 DEF TypeOK, TaskRecord, LocksHeld, Holds
<1>5. RowsAreOld'
  <2>1. ASSUME NEW k \in Kind, NEW u \in Task PROVE task'[u].rows[k] <= store'[k]
    <3>1. CASE u = t
      BY <1>1, <1>3, <3>1, TimesAreNumbers, FreshTypes
    <3>2. CASE u # t
      <4>1. task[u].rows \in Rows /\ task'[u].rows = task[u].rows /\ task[u].rows[k] <= store[k]
        BY <1>1, <3>2 DEF TypeOK, RowsAreOld
      <4> QED  BY <1>3, <4>1, TimesAreNumbers DEF TypeOK
    <3> QED  BY <3>1, <3>2
  <2> QED  BY <1>3, <2>1 DEF RowsAreOld
<1>6. LoadIsComplete'
  <2> SUFFICES ASSUME NEW k \in Kind
               PROVE  /\ loaded => store'[k] <= throttle[k].sent
                      /\ \A u \in Task \ {t} : task[u].at = "rows" =>
                            store'[k] <= throttle[k].sent \/ store'[k] = task[u].rows[k]
    BY <1>1, FreshTypes DEF LoadIsComplete, At
  <2>1. store'[k] = store[k] \/ store'[k] <= throttle[k].sent
    BY DEF TypeOK, RowsAreOld, Rows, Time, Never
  <2> QED  BY <2>1 DEF LoadIsComplete, At
<1>7. OwnIsKnown' /\ MayDeliver' /\ RepeatsAreCounted'
  BY <1>1, FreshTypes DEF OwnIsKnown, MayDeliver, RepeatsAreCounted, At, Throttled
<1> QED  BY <1>1, <1>4, <1>5, <1>6, <1>7

(* An alert is raised: it waits for the lock of its kind.                  *)
LEMMA NotifyIndInv ==
  ASSUME IndInv, NEW t \in Task, NEW k \in Kind, Notify(t, k)
  PROVE  IndInv'
<1> USE DEF Notify, history, IndInv, At
<1>1. /\ task' \in [Task -> TaskRecord] /\ task'[t].at = "lock" /\ task'[t].rows = NoRows
      /\ \A u \in Task \ {t} : task'[u] = task[u]
  <2> DEFINE new == [Idle EXCEPT !.at = "lock", !.kind = k]
  <2>1. new \in TaskRecord /\ new.at = "lock" /\ new.rows = NoRows
    BY FreshTypes DEF Idle, TaskRecord
  <2>2. task \in [Task -> TaskRecord] /\ task' = [task EXCEPT ![t] = new]
    BY DEF TypeOK, TaskRecord
  <2> HIDE DEF new
  <2> QED  BY <2>1, <2>2
<1>2. TypeOK'
  BY <1>1 DEF TypeOK, TaskRecord
<1>3. RowsAreOld'
  <2>1. ASSUME NEW j \in Kind, NEW u \in Task PROVE task'[u].rows[j] <= store[j]
    BY <1>1, TimesAreNumbers DEF RowsAreOld, TypeOK
  <2> QED  BY <2>1 DEF RowsAreOld
<1>4. LoadIsComplete' /\ OwnIsKnown' /\ MayDeliver' /\ RepeatsAreCounted'
  BY <1>1 DEF LoadIsComplete, OwnIsKnown, MayDeliver, RepeatsAreCounted, Throttled
<1> QED  BY <1>1, <1>2, <1>3, <1>4

(* The first alerts of a process have the store to ask.                    *)
LEMMA LockIndInv ==
  ASSUME IndInv, NEW t \in Task, At(t, "lock"), lock[task[t].kind] = NoTask, GoesTo(t, "query"),
         lock' = [lock EXCEPT ![task[t].kind] = t],
         UNCHANGED <<now, store, throttle, loaded, history>>
  PROVE  IndInv'
<1> USE DEF GoesTo, history, IndInv, At
<1>1. /\ task' \in [Task -> TaskRecord] /\ task'[t].at = "query"
      /\ task'[t].rows = task[t].rows /\ task'[t].kind = task[t].kind
      /\ \A u \in Task \ {t} : task'[u] = task[u]
  BY DEF TypeOK, TaskRecord
<1>2. LocksHeld'
  BY <1>1, AlertAssumption DEF TypeOK, LocksHeld, Holds
<1>3. TypeOK' /\ (lock \in [Kind -> Task \cup {NoTask}])'
  BY <1>1, <1>2 DEF TypeOK, TaskRecord, LocksHeld, Holds
<1>4. RowsAreOld' /\ LoadIsComplete' /\ OwnIsKnown' /\ MayDeliver' /\ RepeatsAreCounted'
  BY <1>1 DEF RowsAreOld, LoadIsComplete, OwnIsKnown, MayDeliver, RepeatsAreCounted, Throttled
<1> QED  BY <1>1, <1>3, <1>4

(* The rows a task reads are those of the store at that moment.            *)
LEMMA QueryIndInv ==
  ASSUME IndInv, NEW t \in Task, Query(t)
  PROVE  IndInv'
<1> USE DEF Query, history, IndInv, At
<1>1. /\ task' \in [Task -> TaskRecord] /\ task'[t].at = "rows"
      /\ task'[t].rows = store /\ task'[t].kind = task[t].kind
      /\ \A u \in Task \ {t} : task'[u] = task[u]
  <2>1. task \in [Task -> TaskRecord] /\ store \in Rows
    BY DEF TypeOK, TaskRecord
  <2>2. task' = [task EXCEPT ![t] = [task[t] EXCEPT !.at = "rows", !.rows = store]]
    BY <2>1
  <2>3. [task[t] EXCEPT !.at = "rows", !.rows = store] \in TaskRecord
    BY <2>1 DEF TaskRecord
  <2> QED  BY <2>1, <2>2, <2>3 DEF TaskRecord
<1>2. LocksHeld'
  BY <1>1, AlertAssumption DEF TypeOK, LocksHeld, Holds
<1>3. TypeOK' /\ (lock \in [Kind -> Task \cup {NoTask}])'
  BY <1>1, <1>2 DEF TypeOK, TaskRecord, LocksHeld, Holds
<1>4. RowsAreOld'
  <2>1. ASSUME NEW j \in Kind, NEW u \in Task PROVE task'[u].rows[j] <= store[j]
    BY <1>1, TimesAreNumbers DEF RowsAreOld, TypeOK
  <2> QED  BY <2>1 DEF RowsAreOld
<1>5. LoadIsComplete' /\ OwnIsKnown' /\ MayDeliver' /\ RepeatsAreCounted'
  BY <1>1 DEF LoadIsComplete, OwnIsKnown, MayDeliver, RepeatsAreCounted, Throttled
<1> QED  BY <1>1, <1>3, <1>4, <1>5

(* The decision, on a throttle that may just have been loaded: it is no    *)
(* older than before, never ahead of what was delivered, and unchanged for *)
(* a service that has loaded.                                              *)
Loads(states) ==
  /\ states \in [Kind -> State]
  /\ \A k \in Kind :
        /\ states[k].suppressed = throttle[k].suppressed
        /\ throttle[k].sent <= states[k].sent /\ states[k].sent <= sentBy[k]
        /\ loaded => states[k].sent = throttle[k].sent
        /\ loaded' => store[k] <= states[k].sent

(* Whatever the process has loaded: a task decides with the lock of its    *)
(* kind, and either counts a repeat and lets go, or goes on to deliver.    *)
LEMMA DecideIndInv ==
  ASSUME IndInv, NEW t \in Task, NEW states, NEW known \in BOOLEAN, Loads(states),
         task[t].at \in {"lock", "query", "rows"}, lock[task[t].kind] \in {t, NoTask},
         Decide(t, states, known), known => loaded', loaded => loaded', loaded' \in BOOLEAN,
         UNCHANGED <<now, store, sentBy, here>>
  PROVE  IndInv'
<1> USE DEF IndInv, At
<1> DEFINE k == task[t].kind
<1>a. /\ states \in [Kind -> State] /\ task \in [Task -> TaskRecord] /\ k \in Kind
      /\ throttle \in [Kind -> State]
      /\ \A j \in Kind : states[j].suppressed = untold[j]
  BY DEF Loads, TypeOK, TaskRecord, State, RepeatsAreCounted
<1>1. /\ throttle' \in [Kind -> State] /\ untold' \in [Kind -> 0 .. MaxSuppressed]
      /\ \A j \in Kind : throttle'[j].sent = states[j].sent
                          /\ throttle'[j].suppressed = untold'[j]
      /\ \A j \in Kind \ {k} : untold'[j] = untold[j]
  <2>1. CASE Throttled(states[k])
    <3> DEFINE more == [states[k] EXCEPT !.suppressed = OneMore(@)]
    <3>1. more \in State /\ more.sent = states[k].sent /\ more.suppressed = OneMore(untold[k])
      BY <1>a, StateTypes DEF State
    <3>2. throttle' = [states EXCEPT ![k] = more] /\ untold' = [untold EXCEPT ![k] = OneMore(@)]
      BY <2>1 DEF Decide
    <3>3. OneMore(untold[k]) \in 0 .. MaxSuppressed
      BY <1>a, StateTypes
    <3> HIDE DEF more
    <3> QED  BY <1>a, <3>1, <3>2, <3>3
  <2>2. CASE ~ Throttled(states[k])
    <3>1. throttle' = states /\ UNCHANGED untold
      BY <2>2 DEF Decide
    <3> QED  BY <1>a, <3>1
  <2> QED  BY <2>1, <2>2
<1>2. /\ task' \in [Task -> TaskRecord] /\ \A u \in Task \ {t} : task'[u] = task[u]
      /\ task'[t].rows = NoRows
      /\ \/ task'[t].at = "idle"
         \/ /\ task'[t].at = "deliver" /\ task'[t].kind = k
            /\ task'[t].blind = ~ known /\ ~ Throttled(states[k])
            /\ task'[t].reports = states[k].suppressed /\ UNCHANGED untold
  <2>1. CASE Throttled(states[k])
    <3>1. task' = [task EXCEPT ![t] = Idle]
      BY <2>1 DEF Decide, Finish
    <3> QED  BY <1>a, <3>1, FreshTypes
  <2>2. CASE ~ Throttled(states[k])
    <3> DEFINE new == [task[t] EXCEPT !.at = "deliver", !.rows = NoRows,
                                      !.reports = states[k].suppressed, !.blind = ~ known]
    <3>1. task' = [task EXCEPT ![t] = new] /\ UNCHANGED untold
      BY <1>a, <2>2 DEF Decide
    <3>2. /\ new \in TaskRecord /\ new.at = "deliver" /\ new.kind = k /\ new.blind = ~ known
          /\ new.rows = NoRows /\ new.reports = states[k].suppressed
      BY <1>a, StateTypes, FreshTypes DEF TaskRecord
    <3> HIDE DEF new
    <3> QED  BY <1>a, <2>2, <3>1, <3>2
  <2> QED  BY <2>1, <2>2
<1>3. lock' \in [Kind -> Task \cup {NoTask}] /\ LocksHeld'
  <2>1. LocksHeld /\ lock \in [Kind -> Task \cup {NoTask}] /\ NoTask \notin Task
    BY AlertAssumption DEF TypeOK, LocksHeld, Holds
  <2>2. CASE Throttled(states[k])
    <3>1. task' = [task EXCEPT ![t] = Idle]
          /\ lock' = [j \in Kind |-> IF lock[j] = t THEN NoTask ELSE lock[j]]
      BY <2>2 DEF Decide, Finish
    <3> QED  BY <1>a, <2>1, <3>1, FreshTypes DEF LocksHeld, Holds
  <2>3. CASE ~ Throttled(states[k])
    <3>1. lock' = [lock EXCEPT ![k] = t] /\ task'[t].at = "deliver" /\ task'[t].kind = k
      BY <1>a, <2>3 DEF Decide, TaskRecord
    <3>2. ASSUME NEW j \in Kind, NEW u \in Task PROVE (lock'[j] = u) <=> Holds(u, j)'
      <4>1. CASE u = t
        BY <1>a, <2>1, <3>1, <4>1 DEF LocksHeld, Holds
      <4>2. CASE u # t
        BY <1>a, <1>2, <2>1, <3>1, <4>2 DEF LocksHeld, Holds
      <4> QED  BY <4>1, <4>2
    <3> QED  BY <1>a, <2>1, <3>1, <3>2 DEF LocksHeld
  <2> QED  BY <2>2, <2>3
<1>4. TypeOK'
  BY <1>1, <1>2, <1>3 DEF TypeOK, TaskRecord, LocksHeld, Holds, State
<1>5. RowsAreOld'
  <2>1. ASSUME NEW j \in Kind, NEW u \in Task PROVE task'[u].rows[j] <= store[j]
    BY <1>2, TimesAreNumbers DEF RowsAreOld, TypeOK
  <2> QED  BY <1>1, <2>1 DEF RowsAreOld, Loads
<1>6. LoadIsComplete'
  <2>1. ASSUME NEW j \in Kind, NEW u \in Task, task'[u].at = "rows"
        PROVE  store[j] <= throttle'[j].sent \/ store[j] = task'[u].rows[j]
    <3>1. u # t /\ (store[j] <= throttle[j].sent \/ store[j] = task[u].rows[j])
      BY <1>2, <2>1 DEF LoadIsComplete
    <3>2. throttle[j].sent <= throttle'[j].sent /\ store[j] \in Int
          /\ throttle[j].sent \in Int /\ throttle'[j].sent \in Int
      BY <1>1, AlertAssumption DEF Loads, TypeOK, State, Rows, Time, Never
    <3> QED  BY <1>2, <3>1, <3>2
  <2> QED  BY <1>1, <2>1 DEF LoadIsComplete, Loads
<1>7. OwnIsKnown'
  <2>1. \A j \in here : throttle'[j].sent = sentBy[j]
    <3> SUFFICES ASSUME NEW j \in here PROVE throttle'[j].sent = sentBy[j]
      OBVIOUS
    <3>1. /\ j \in Kind /\ throttle[j].sent = sentBy[j] /\ throttle'[j].sent = states[j].sent
          /\ throttle[j].sent <= states[j].sent /\ states[j].sent <= sentBy[j]
      BY <1>1 DEF OwnIsKnown, Loads, TypeOK
    <3>2. throttle[j].sent \in Int /\ states[j].sent \in Int
      BY <1>a, <3>1, StateTypes
    <3> QED  BY <3>1, <3>2
  <2> QED  BY <1>2, <2>1 DEF OwnIsKnown
<1>8. MayDeliver'
  <2> SUFFICES ASSUME NEW u \in Task, task'[u].at = "deliver"
               PROVE  /\ ~ task'[u].blind => loaded'
                      /\ ~ task'[u].blind \/ task'[u].kind \in here
                            => ~ Throttled(throttle'[task'[u].kind])
    BY DEF MayDeliver, Throttled
  <2>1. CASE u = t
    <3>1. /\ task'[t].kind = k /\ task'[t].blind = ~ known /\ ~ Throttled(states[k])
          /\ throttle'[k].sent = states[k].sent
      BY <1>a, <1>1, <1>2, <2>1
    <3> QED  BY <2>1, <3>1 DEF Throttled
  <2>2. CASE u # t
    <3>1. task'[u] = task[u] /\ task[u].kind \in Kind /\ task[u].blind \in BOOLEAN
      BY <1>2, <2>2 DEF TypeOK
    <3>2. loaded \/ task[u].kind \in here => throttle'[task[u].kind].sent = throttle[task[u].kind].sent
      <4>1. throttle'[task[u].kind].sent = states[task[u].kind].sent
        BY <1>1, <3>1
      <4>2. CASE loaded
        BY <3>1, <4>1, <4>2 DEF Loads
      <4>3. CASE task[u].kind \in here
        BY <1>7, <4>3 DEF OwnIsKnown
      <4> QED  BY <4>2, <4>3
    <3> QED  BY <3>1, <3>2 DEF MayDeliver, Throttled
  <2> QED  BY <2>1, <2>2
<1>9. RepeatsAreCounted'
  <2> SUFFICES ASSUME NEW u \in Task, task'[u].at = "deliver"
               PROVE  task'[u].reports = untold'[task'[u].kind]
    BY <1>1 DEF RepeatsAreCounted
  <2>1. CASE u = t
    BY <1>1, <1>2, <2>1 DEF Loads, RepeatsAreCounted, TypeOK
  <2>2. CASE u # t
    <3>1. task[u].kind # k
      BY <1>2, <2>2, AlertAssumption DEF TypeOK
    <3> QED  BY <1>1, <1>2, <2>2, <3>1 DEF RepeatsAreCounted, TypeOK
  <2> QED  BY <2>1, <2>2
<1> QED  BY <1>1, <1>3, <1>4, <1>5, <1>6, <1>7, <1>8, <1>9

(* A load that is done has brought in all the store has: what was saved    *)
(* after its rows were read, this process saved itself.                    *)
LEMMA LoadDoneLoads ==
  ASSUME IndInv, NEW t \in Task, At(t, "rows"), loaded' = TRUE
  PROVE  Loads(Seeded(throttle, task[t].rows))
<1> DEFINE rows == task[t].rows
           states == Seeded(throttle, rows)
<1>1. throttle \in [Kind -> State] /\ rows \in Rows /\ store \in Rows /\ sentBy \in Rows
  BY DEF IndInv, TypeOK, State
<1>2. ASSUME NEW k \in Kind
      PROVE  /\ states[k] \in State /\ states[k].suppressed = throttle[k].suppressed
             /\ states[k].sent = IF rows[k] > throttle[k].sent THEN rows[k] ELSE throttle[k].sent
  BY <1>1 DEF Seeded, State, Rows
<1>3. ASSUME NEW k \in Kind
      PROVE  /\ rows[k] <= store[k] /\ store[k] <= sentBy[k] /\ throttle[k].sent <= sentBy[k]
             /\ loaded => store[k] <= throttle[k].sent
             /\ store[k] <= throttle[k].sent \/ store[k] = rows[k]
             /\ rows[k] \in Int /\ store[k] \in Int /\ sentBy[k] \in Int /\ throttle[k].sent \in Int
  BY <1>1, TimesAreNumbers, StateTypes DEF IndInv, RowsAreOld, LoadIsComplete
<1>4. states \in [Kind -> State]
  BY <1>2 DEF Seeded
<1> HIDE DEF states, rows
<1>5. ASSUME NEW k \in Kind
      PROVE  /\ throttle[k].sent <= states[k].sent /\ states[k].sent <= sentBy[k]
             /\ loaded => states[k].sent = throttle[k].sent
             /\ store[k] <= states[k].sent
  BY <1>2, <1>3
<1> QED  BY <1>2, <1>4, <1>5 DEF Loads, states, rows

(* Without a load the throttle stays as it is.                             *)
LEMMA UnloadedLoads ==
  ASSUME IndInv, UNCHANGED loaded
  PROVE  Loads(throttle)
<1>1. throttle \in [Kind -> State] /\ sentBy \in Rows /\ store \in Rows
  BY DEF IndInv, TypeOK, State
<1> QED  BY <1>1, StateTypes DEF Loads, IndInv, RowsAreOld, LoadIsComplete

(* Where an alert holds the lock of its kind, or finds it free.            *)
LEMMA LockIsMine ==
  ASSUME IndInv, NEW t \in Task
  PROVE  /\ task[t].kind \in Kind /\ loaded \in BOOLEAN
         /\ ~ At(t, "idle") /\ ~ At(t, "lock") => lock[task[t].kind] = t
         /\ \A u \in Task : lock[task[t].kind] = t /\ ~ At(u, "idle") /\ ~ At(u, "lock")
                            /\ task[u].kind = task[t].kind => u = t
BY DEF IndInv, TypeOK, At

(* A task that gets the lock decides at once if the process has loaded.    *)
LEMMA AcquireIndInv ==
  ASSUME IndInv, NEW t \in Task, Acquire(t)
  PROVE  IndInv'
<1>1. CASE loaded
  <2>1. Loads(throttle)
    BY UnloadedLoads DEF Acquire
  <2> QED  BY <1>1, <2>1, DecideIndInv, LockIsMine DEF Acquire, At
<1>2. CASE ~ loaded
  BY <1>2, LockIndInv DEF Acquire, history
<1> QED  BY <1>1, <1>2

(* The rows of the store never set a state back to before its last         *)
(* message.                                                                *)
LEMMA LoadDoneIndInv ==
  ASSUME IndInv, NEW t \in Task, LoadDone(t)
  PROVE  IndInv'
<1> DEFINE states == Seeded(throttle, task[t].rows)
<1>1. Loads(states) /\ Decide(t, states, TRUE)
  BY LoadDoneLoads DEF LoadDone
<1>2. task[t].at = "rows" /\ lock[task[t].kind] = t
  BY LockIsMine DEF LoadDone, At
<1> HIDE DEF states
<1> QED  BY <1>1, <1>2, DecideIndInv DEF LoadDone

(* Without the store a task decides by what its process remembers.         *)
LEMMA LoadFailsIndInv ==
  ASSUME IndInv, NEW t \in Task, LoadFails(t)
  PROVE  IndInv'
<1>1. Loads(throttle) /\ Decide(t, throttle, loaded) /\ loaded \in BOOLEAN
  BY UnloadedLoads, LockIsMine DEF LoadFails
<1>2. task[t].at \in {"query", "rows"} /\ lock[task[t].kind] = t
  BY LockIsMine DEF LoadFails, At
<1> QED  BY <1>1, <1>2, DecideIndInv DEF LoadFails

(* The delivery: the only step that starts a window.                       *)
LEMMA DeliveredIndInv ==
  ASSUME IndInv, NEW t \in Task, Delivered(t)
  PROVE  IndInv'
<1> USE DEF IndInv, At
<1> DEFINE k == task[t].kind
<1>1. /\ k \in Kind /\ throttle \in [Kind -> State] /\ task \in [Task -> TaskRecord]
      /\ store \in Rows /\ sentBy \in Rows /\ now \in Time /\ now \in Int
      /\ task[t].at = "deliver"
  BY DEF TypeOK, State, TaskRecord, Time, Delivered
<1>2. \A u \in Task : task[u].at \notin {"idle", "lock"} /\ task[u].kind = k => u = t
  BY <1>1, LockIsMine
<1>3. /\ throttle' \in [Kind -> State] /\ throttle'[k].sent = now /\ throttle'[k].suppressed = 0
      /\ \A j \in Kind \ {k} : throttle'[j] = throttle[j]
  <2> DEFINE new == [Unsent EXCEPT !.sent = now]
  <2>1. new \in State /\ new.sent = now /\ new.suppressed = 0
    BY <1>1, AlertAssumption DEF Unsent, State
  <2>2. throttle' = [throttle EXCEPT ![k] = new]
    BY DEF Delivered
  <2> HIDE DEF new
  <2> QED  BY <1>1, <2>1, <2>2
<1>4. /\ sentBy' \in Rows /\ sentBy'[k] = now /\ \A j \in Kind \ {k} : sentBy'[j] = sentBy[j]
      /\ untold' \in [Kind -> 0 .. MaxSuppressed] /\ untold'[k] = 0
      /\ \A j \in Kind \ {k} : untold'[j] = untold[j]
      /\ here' = here \cup {k} /\ UNCHANGED <<now, store, loaded, lock>>
  BY <1>1, AlertAssumption DEF Delivered, Rows
<1>5. /\ task' \in [Task -> TaskRecord] /\ \A u \in Task \ {t} : task'[u] = task[u]
      /\ task'[t].at = "save" /\ task'[t].kind = k /\ task'[t].rows = task[t].rows
  BY <1>1 DEF Delivered, GoesTo, TaskRecord
<1>6. TypeOK'
  <2>1. LocksHeld'
    BY <1>1, <1>4, <1>5 DEF TypeOK, LocksHeld, Holds
  <2>2. here' \subseteq Kind
    BY <1>1, <1>4 DEF TypeOK
  <2> QED  BY <1>1, <1>3, <1>4, <1>5, <2>1, <2>2 DEF TypeOK, TaskRecord, State, LocksHeld, Holds
<1>7. ASSUME NEW j \in Kind
      PROVE  /\ store[j] <= sentBy[j] /\ sentBy[j] <= now /\ throttle[j].sent <= sentBy[j]
             /\ store[j] \in Int /\ sentBy[j] \in Int /\ throttle[j].sent \in Int
  BY <1>1, TimesAreNumbers, StateTypes DEF RowsAreOld
<1>8. RowsAreOld'
  <2>1. ASSUME NEW j \in Kind, NEW u \in Task PROVE task'[u].rows[j] <= store[j]
    BY <1>5 DEF RowsAreOld
  <2>2. ASSUME NEW j \in Kind
        PROVE  store[j] <= sentBy'[j] /\ throttle'[j].sent <= sentBy'[j] /\ sentBy'[j] <= now
    BY <1>1, <1>3, <1>4, <1>7
  <2> QED  BY <1>4, <2>1, <2>2 DEF RowsAreOld
<1>9. LoadIsComplete'
  <2>1. ASSUME NEW j \in Kind PROVE throttle[j].sent <= throttle'[j].sent
    BY <1>1, <1>3, <1>7
  <2>2. ASSUME NEW j \in Kind PROVE loaded => store[j] <= throttle'[j].sent
    BY <1>1, <1>3, <1>7 DEF LoadIsComplete
  <2>3. ASSUME NEW j \in Kind, NEW u \in Task, task'[u].at = "rows"
        PROVE  store[j] <= throttle'[j].sent \/ store[j] = task'[u].rows[j]
    <3>1. store[j] <= throttle[j].sent \/ store[j] = task'[u].rows[j]
      BY <1>5, <2>3 DEF LoadIsComplete
    <3> QED  BY <1>1, <1>3, <1>7, <3>1
  <2> QED  BY <1>4, <2>2, <2>3 DEF LoadIsComplete
<1>10. OwnIsKnown'
  BY <1>3, <1>4, <1>5 DEF OwnIsKnown, TypeOK
<1>11. MayDeliver' /\ RepeatsAreCounted'
  <2>1. ASSUME NEW u \in Task, task'[u].at = "deliver"
        PROVE  task'[u] = task[u] /\ task[u].at = "deliver" /\ task[u].kind \in Kind \ {k}
    BY <1>1, <1>2, <1>5, <2>1 DEF TaskRecord
  <2>2. MayDeliver'
    BY <1>3, <1>4, <2>1 DEF MayDeliver, Throttled
  <2>3. RepeatsAreCounted'
    BY <1>3, <1>4, <2>1 DEF RepeatsAreCounted
  <2> QED  BY <2>2, <2>3
<1> QED  BY <1>4, <1>6, <1>8, <1>9, <1>10, <1>11

(* Every step.                                                             *)
LEMMA NextIndInv == IndInv /\ [Next]_vars => IndInv'
<1> SUFFICES ASSUME IndInv, [Next]_vars PROVE IndInv'
  OBVIOUS
<1>1. ASSUME NEW t \in Task, NEW k \in Kind, Notify(t, k) PROVE IndInv'
  BY <1>1, NotifyIndInv
<1>2. ASSUME NEW t \in Task, Acquire(t) PROVE IndInv'
  BY <1>2, AcquireIndInv
<1>3. ASSUME NEW t \in Task, Ends(t) PROVE IndInv'
  BY <1>3, QueryIndInv, LoadDoneIndInv, LoadFailsIndInv, DeliveredIndInv, FinishIndInv
     DEF Ends, DeliveryFails, Saved, SaveFails
<1>4. ASSUME NEW t \in Task, Cancel(t) PROVE IndInv'
  BY <1>4, FinishIndInv DEF Cancel
<1>5. CASE UNCHANGED vars
  BY <1>5 DEF vars, service, history, IndInv, TypeOK, RowsAreOld, LoadIsComplete, OwnIsKnown,
              MayDeliver, RepeatsAreCounted, At, Throttled
<1> QED  BY <1>1, <1>2, <1>3, <1>4, <1>5, RestartIndInv, TickIndInv DEF Next

(* The invariant, from which everything below follows.                     *)
LEMMA Invariance == Spec => []IndInv
BY InitIndInv, NextIndInv, PTL DEF Spec
----------------------------------------------------------------------------
(* The tables keep their types, and the lock of a kind is held by exactly  *)
(* the task that decides about, posts or saves it: no way out of _send,    *)
(* cancellation included, leaves a lock behind (alerts.py, "async with").  *)
THEOREM TypeCorrect == Spec => []TypeOK
BY Invariance, PTL DEF IndInv

(* One message per kind and window, however alerts, loads that answer late *)
(* and saves overlap, and across restarts.  A delivery inside the window   *)
(* of the last one would have found that one in the throttle: its own      *)
(* process's always, and another's if it was saved and this alert loaded.  *)
THEOREM DeliversOncePerWindow == Spec => OncePerWindow
<1>1. ASSUME IndInv, NEW t \in Task, Delivered(t), sentBy[task[t].kind] # Never,
             now - sentBy[task[t].kind] < Window
      PROVE  task[t].kind \notin here
             /\ (store[task[t].kind] # sentBy[task[t].kind] \/ task[t].blind)
  <2> DEFINE k == task[t].kind
  <2>1. At(t, "deliver") /\ k \in Kind /\ task[t].blind \in BOOLEAN
    BY <1>1 DEF Delivered, IndInv, TypeOK
  <2>2. ~ task[t].blind \/ k \in here => throttle[k].sent # sentBy[k]
    BY <1>1, <2>1 DEF IndInv, MayDeliver, Throttled
  <2>3. k \notin here
    BY <1>1, <2>2 DEF IndInv, OwnIsKnown
  <2>4. CASE ~ task[t].blind
    <3>1. loaded /\ store[k] <= throttle[k].sent /\ throttle[k].sent <= sentBy[k]
      BY <1>1, <2>1, <2>4 DEF IndInv, MayDeliver, LoadIsComplete, RowsAreOld
    <3>2. store[k] \in Int /\ sentBy[k] \in Int /\ throttle[k].sent \in Int
      BY <1>1, <2>1, TimesAreNumbers, StateTypes DEF IndInv, TypeOK, State
    <3> QED  BY <2>2, <2>3, <2>4, <3>1, <3>2
  <2> QED  BY <2>1, <2>3, <2>4
<1>2. IndInv => [\A t \in Task : LET k == task[t].kind IN
       Delivered(t) /\ sentBy[k] # Never /\ now - sentBy[k] < Window
         => k \notin here /\ (store[k] # sentBy[k] \/ task[t].blind)]_vars
  BY <1>1
<1> QED  BY <1>2, Invariance, PTL DEF OncePerWindow

(* A message tells of every occurrence that was throttled since the last   *)
(* message of its kind, whatever failed, was cancelled or loaded between.  *)
THEOREM TellsEveryRepeat == Spec => RepeatsAreTold
<1>1. IndInv =>
        [\A t \in Task : Delivered(t) => task[t].reports = untold[task[t].kind]]_vars
  BY DEF IndInv, RepeatsAreCounted, Delivered
<1> QED  BY <1>1, Invariance, PTL DEF RepeatsAreTold

(* No step of a process, the seeding with what the store answered late     *)
(* included, sets the time of the last message back.                       *)
THEOREM NeverRewinds == Spec => ThrottleNeverBack
<1> DEFINE Kept == \A k \in Kind : throttle'[k].sent >= throttle[k].sent
<1>1. ASSUME IndInv, NEW t \in Task, NEW states, NEW known, Loads(states), Decide(t, states, known)
      PROVE  Kept
  <2> SUFFICES ASSUME NEW k \in Kind PROVE throttle'[k].sent >= throttle[k].sent
    OBVIOUS
  <2>1. throttle \in [Kind -> State] /\ states \in [Kind -> State]
        /\ throttle[k].sent <= states[k].sent
    BY <1>1 DEF IndInv, TypeOK, State, Loads
  <2>2. throttle'[k].sent = states[k].sent
    BY <1>1, <2>1 DEF Decide, State
  <2> QED  BY <2>1, <2>2, StateTypes
<1>2. ASSUME IndInv, UNCHANGED throttle PROVE Kept
  BY <1>2, StateTypes DEF IndInv, TypeOK, State
<1>3. ASSUME IndInv, NEW t \in Task, Acquire(t) PROVE Kept
  BY <1>1, <1>2, <1>3, UnloadedLoads, LockIsMine DEF Acquire
<1>4. ASSUME IndInv, NEW t \in Task, LoadDone(t) PROVE Kept
  BY <1>1, <1>4, LoadDoneLoads DEF LoadDone
<1>5. ASSUME IndInv, NEW t \in Task, LoadFails(t) PROVE Kept
  BY <1>1, <1>5, UnloadedLoads, LockIsMine DEF LoadFails
<1>6. ASSUME IndInv, NEW t \in Task, Delivered(t) PROVE Kept
  <2> DEFINE j == task[t].kind
  <2>1. throttle \in [Kind -> State] /\ j \in Kind /\ throttle[j].sent <= now /\ now \in Int
    BY <1>6, StateTypes, TimesAreNumbers DEF IndInv, TypeOK, State, RowsAreOld, Time
  <2>2. throttle' = [throttle EXCEPT ![j] = [Unsent EXCEPT !.sent = now]]
        /\ [Unsent EXCEPT !.sent = now].sent = now
    BY <1>6 DEF Delivered, Unsent
  <2> QED  BY <2>1, <2>2, StateTypes
<1>7. IndInv /\ [Next]_vars => [~ Restart => Kept]_vars
  <2> SUFFICES ASSUME IndInv, Next, ~ Restart PROVE Kept
    OBVIOUS
  <2>1. ASSUME NEW t \in Task, NEW k \in Kind, Notify(t, k) PROVE Kept
    BY <1>2, <2>1 DEF Notify
  <2>2. ASSUME NEW t \in Task, Ends(t) \/ Cancel(t) PROVE Kept
    BY <1>2, <1>4, <1>5, <1>6, <2>2
       DEF Ends, Query, DeliveryFails, Saved, SaveFails, Cancel
  <2>3. Tick => Kept
    BY <1>2 DEF Tick, service
  <2> QED  BY <1>3, <2>1, <2>2, <2>3 DEF Next
<1> QED  BY <1>7, Invariance, PTL DEF Spec, ThrottleNeverBack

=============================================================================
