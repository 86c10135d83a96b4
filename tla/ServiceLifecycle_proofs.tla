----------------------- MODULE ServiceLifecycle_proofs -----------------------
(***************************************************************************)
(* Proofs about ServiceLifecycle: its types, and what an exit status       *)
(* tells.                                                                  *)
(*                                                                         *)
(* The exit status is decided in one state and the alerts are raised in    *)
(* others, by two coroutines.  The invariant says, for each state of the   *)
(* service, which alerts are out: the task's own is out just if it ended   *)
(* with an AlertedError; the service's is out from the moment it begins to *)
(* stop, if the loop died of something else; and what the loop died of can *)
(* no longer change by then, as a loop that died is done.                  *)
(***************************************************************************)
EXTENDS ServiceLifecycle, TLAPS

\* TypeOK in its two halves: the alerts, and the rest.
AlertTypes ==
  /\ window \subseteq posted /\ posted \subseteq Kinds
  /\ raised \in [Kinds -> 0 .. MaxRaised]

ProcessTypes ==
  /\ main \in {"boot", "wait", "alert", "closing", "cancel", "lastcall", "gone"}
  /\ task \in {"none", "connect", "health", "warn", "cursor", "cycle", "sleep",
              "ended", "done"}
  /\ error \in {"none", "plain", "alerted", "cancelled"}
  /\ shutdown \in BOOLEAN /\ died \in BOOLEAN /\ running \in BOOLEAN
  /\ signalled \in BOOLEAN /\ broken \in BOOLEAN
  /\ pool \in {"none", "open", "closed"}
  /\ code \in {"none", "ok", "failed", "killed"}
  /\ main \in {"closing", "cancel"} => ~ running

\* The task alerts in its last step and nowhere else.
TaskAlert ==
  /\ raised[NodeUnreachable] = IF error = "alerted" THEN 1 ELSE 0
  /\ task \in {"connect", "health", "warn", "cursor", "cycle", "sleep"} => error = "none"

\* A task that died is done, what it died of is settled, and somebody was told; a
\* process that stops without that was asked to.
Asked ==
  /\ task = "none" <=> main \in {"boot", "lastcall", "gone"}
  /\ died => shutdown /\ task \in {"done", "none"}
  /\ shutdown /\ ~ died => signalled
  /\ main = "boot" => ~ died /\ error = "none"

\* What the service itself has alerted on, by what it is doing.
ServiceAlert ==
  /\ main \in {"boot", "wait", "alert"} => raised[IndexerStopped] = 0
  /\ main = "alert" => died /\ error # "alerted"
  /\ main \in {"closing", "cancel"} =>
       /\ shutdown
       /\ raised[IndexerStopped] = IF died /\ error # "alerted" THEN 1 ELSE 0
  /\ main = "lastcall" /\ ~ broken =>
       raised[IndexerStopped] = 0 /\ error # "alerted"

IndInv ==
  /\ AlertTypes
  /\ ProcessTypes /\ TaskAlert /\ Asked /\ ServiceAlert /\ ExitIsToldOnce
-----------------------------------------------------------------------------
LEMMA KindsDiffer ==
  /\ NodeUnreachable \in Kinds /\ IndexerStopped \in Kinds /\ NodeUnreachable # IndexerStopped
  /\ \A k \in Kinds : k = NodeUnreachable \/ k = IndexerStopped
BY DEF NodeUnreachable, IndexerStopped, Kinds

LEMMA TypesAreTypeOK == TypeOK <=> AlertTypes /\ ProcessTypes
BY DEF TypeOK, AlertTypes, ProcessTypes

\* A history counts up to its cap, and sees the first and the second.
LEMMA Counted ==
  ASSUME NEW count \in [Kinds -> 0 .. MaxRaised], NEW k \in Kinds
  PROVE  /\ OneMore(count, k) \in [Kinds -> 0 .. MaxRaised]
         /\ OneMore(count, k)[k] > 0
         /\ count[k] = 0 => OneMore(count, k)[k] = 1
         /\ \A j \in Kinds : j # k => OneMore(count, k)[j] = count[j]
BY CapAssumption DEF OneMore

\* Whatever becomes of the message, the alert was raised.
LEMMA Notified ==
  ASSUME AlertTypes, NEW k \in Kinds, NotifyAndWait(k)
  PROVE  /\ AlertTypes'
         /\ raised[k] = 0 => raised'[k] = 1
         /\ raised'[k] > 0
         /\ \A j \in Kinds : j # k => raised'[j] = raised[j]
<1>1. /\ raised' \in [Kinds -> 0 .. MaxRaised]
      /\ raised[k] = 0 => raised'[k] = 1
      /\ raised'[k] > 0
      /\ \A j \in Kinds : j # k => raised'[j] = raised[j]
  BY Counted DEF NotifyAndWait, AlertTypes
<1>2. window' \subseteq posted' /\ posted' \subseteq Kinds
  <2>1. CASE Suppress(k) \/ Lose(k)
    BY <2>1 DEF Suppress, Lose, AlertTypes
  <2>2. CASE Post(k)
    BY <2>2 DEF Post, AlertTypes
  <2> QED BY <2>1, <2>2 DEF NotifyAndWait
<1> QED BY <1>1, <1>2 DEF AlertTypes
-----------------------------------------------------------------------------
THEOREM InitIndInv == Init => IndInv
<1> SUFFICES ASSUME Init PROVE IndInv
  OBVIOUS
<1> USE DEF Init, Never
<1>1. AlertTypes
  BY CapAssumption DEF AlertTypes
<1>2. ProcessTypes
  BY DEF ProcessTypes
<1>3. TaskAlert /\ ServiceAlert
  BY KindsDiffer DEF TaskAlert, ServiceAlert
<1>4. Asked /\ ExitIsToldOnce
  BY DEF Asked, ExitIsToldOnce
<1> QED BY <1>1, <1>2, <1>3, <1>4 DEF IndInv
-----------------------------------------------------------------------------
(***************************************************************************)
(* The steps.  What most of them need to know of the alerts is that they   *)
(* raise none; the rest is about the process alone.                        *)
(***************************************************************************)
LEMMA Unchanged == ASSUME AlertTypes, UNCHANGED alerts PROVE AlertTypes'
BY DEF AlertTypes, alerts

LEMMA TaskStep ==
  ASSUME IndInv,
         \/ Connect \/ ConnectFails \/ HealthCheck \/ ReadCursor \/ Cycle \/ NextCycle
         \/ TaskFails \/ OnIndexerTaskDone \/ CancelTask
  PROVE  IndInv'
<1> USE DEF ProcessTypes, TaskAlert, Asked, ServiceAlert, ExitIsToldOnce, Told
<1>1. AlertTypes'
  <2>1. UNCHANGED alerts
    BY DEF Connect, ConnectFails, HealthCheck, ReadCursor, Cycle, NextCycle, TaskFails,
           OnIndexerTaskDone, CancelTask
  <2> QED BY <2>1, Unchanged DEF IndInv
<1>2. CASE Connect
  BY <1>1, <1>2 DEF Connect, IndInv, alerts, service
<1>3. CASE ConnectFails
  BY <1>1, <1>3 DEF ConnectFails, EndTask, IndInv, alerts, service
<1>4. CASE HealthCheck
  BY <1>1, <1>4 DEF HealthCheck, IndInv, alerts, service
<1>5. CASE ReadCursor
  BY <1>1, <1>5 DEF ReadCursor, IndInv, alerts, service
<1>6. CASE Cycle
  BY <1>1, <1>6 DEF Cycle, IndInv, alerts, service
<1>7. CASE NextCycle
  BY <1>1, <1>7 DEF NextCycle, EndTask, IndInv, alerts, service
<1>8. CASE TaskFails
  BY <1>1, <1>8 DEF TaskFails, EndTask, IndInv, alerts, service
<1>9. CASE OnIndexerTaskDone
  BY <1>1, <1>9 DEF OnIndexerTaskDone, IndInv, alerts
<1>10. CASE CancelTask
  BY <1>1, <1>10 DEF CancelTask, EndTask, IndInv, alerts, service
<1> QED BY <1>2, <1>3, <1>4, <1>5, <1>6, <1>7, <1>8, <1>9, <1>10

\* The three places that alert: the task, the service, and main() after it.
LEMMA AlertStep ==
  ASSUME IndInv, WarnNodeUnreachable \/ AlertIndexerDied \/ LastCall
  PROVE  IndInv'
<1> USE DEF ProcessTypes, TaskAlert, Asked, ServiceAlert, ExitIsToldOnce, Told
<1>1. CASE WarnNodeUnreachable
  <2>1. /\ AlertTypes'
        /\ raised[NodeUnreachable] = 0 => raised'[NodeUnreachable] = 1
        /\ raised'[IndexerStopped] = raised[IndexerStopped]
    BY <1>1, Notified, KindsDiffer DEF WarnNodeUnreachable, IndInv
  <2> QED BY <1>1, <2>1 DEF WarnNodeUnreachable, EndTask, IndInv, service
<1>2. CASE AlertIndexerDied
  <2>1. /\ AlertTypes'
        /\ raised[IndexerStopped] = 0 => raised'[IndexerStopped] = 1
        /\ raised'[NodeUnreachable] = raised[NodeUnreachable]
    BY <1>2, Notified, KindsDiffer DEF AlertIndexerDied, IndInv
  <2> QED BY <1>2, <2>1 DEF AlertIndexerDied, BeginStop, IndInv
<1>3. CASE LastCall
  <2>1. /\ AlertTypes'
        /\ raised[IndexerStopped] = 0 => raised'[IndexerStopped] = 1
        /\ raised'[IndexerStopped] > 0
        /\ raised'[NodeUnreachable] = raised[NodeUnreachable]
    BY <1>3, Notified, KindsDiffer DEF LastCall, IndInv
  <2>2. raised'[IndexerStopped] \in Nat /\ raised'[NodeUnreachable] \in Nat
    BY <2>1, KindsDiffer, CapAssumption DEF AlertTypes
  <2> QED BY <1>3, <2>1, <2>2 DEF LastCall, IndInv
<1> QED BY <1>1, <1>2, <1>3

LEMMA ServiceStep ==
  ASSUME IndInv,
         \/ Boot \/ MonitoringFails \/ ShutdownEventSet \/ Disconnect \/ DisconnectFails
         \/ HandleSignal
  PROVE  IndInv'
<1> USE DEF ProcessTypes, TaskAlert, Asked, ServiceAlert, ExitIsToldOnce, Told
<1>1. CASE Boot \/ ShutdownEventSet \/ Disconnect \/ HandleSignal
  <2>1. AlertTypes'
    <3>1. UNCHANGED alerts
      BY <1>1 DEF Boot, ShutdownEventSet, Disconnect, HandleSignal
    <3> QED BY <3>1, Unchanged DEF IndInv
  <2>2. CASE Boot
    BY <2>1, <2>2 DEF Boot, IndInv, alerts
  <2>3. CASE ShutdownEventSet
    <3>1. main = "wait" /\ shutdown /\ raised' = raised
          /\ UNCHANGED <<shutdown, died, code, signalled, broken, task, error, pool>>
      BY <2>3 DEF ShutdownEventSet, alerts
    <3>2. CASE died /\ error # "alerted"
      <4>1. main' = "alert" /\ UNCHANGED running
        BY <2>3, <3>2 DEF ShutdownEventSet
      <4> QED BY <2>1, <3>1, <3>2, <4>1 DEF IndInv
    <3>3. CASE ~ (died /\ error # "alerted")
      <4>1. main' = "closing" /\ running' = FALSE
        BY <2>3, <3>3 DEF ShutdownEventSet, BeginStop
      <4> QED BY <2>1, <3>1, <3>3, <4>1 DEF IndInv
    <3> QED BY <3>2, <3>3
  <2>4. CASE Disconnect
    BY <2>1, <2>4 DEF Disconnect, IndInv, alerts
  <2>5. CASE HandleSignal
    BY <2>1, <2>5 DEF HandleSignal, IndInv, alerts, sync
  <2> QED BY <1>1, <2>2, <2>3, <2>4, <2>5
<1>2. CASE MonitoringFails \/ DisconnectFails
  <2>1. AlertTypes' /\ UNCHANGED raised
    <3>1. UNCHANGED alerts
      BY <1>2 DEF MonitoringFails, DisconnectFails, Escape
    <3> QED BY <3>1, Unchanged DEF IndInv, alerts
  <2>2. CASE MonitoringFails
    BY <2>1, <2>2 DEF MonitoringFails, Escape, IndInv
  <2>3. CASE DisconnectFails
    BY <2>1, <2>3 DEF DisconnectFails, Escape, IndInv
  <2> QED BY <1>2, <2>2, <2>3
<1> QED BY <1>1, <1>2

\* The process ends: here the exit status is read off what went before.
LEMMA ExitStep == ASSUME IndInv, Finish \/ Kill PROVE IndInv'
<1> USE DEF ProcessTypes, TaskAlert, Asked, ServiceAlert, ExitIsToldOnce, Told
<1>1. AlertTypes'
  <2>1. UNCHANGED alerts
    BY DEF Finish, Kill, Exit
  <2> QED BY <2>1, Unchanged DEF IndInv
<1>2. CASE Finish
  BY <1>1, <1>2 DEF Finish, Exit, IndInv, alerts
<1>3. CASE Kill
  BY <1>1, <1>3 DEF Kill, Exit, IndInv, alerts
<1> QED BY <1>2, <1>3

LEMMA RestartStep == ASSUME IndInv, Restart \/ StartAgain PROVE IndInv'
<1>1. FreshProcess /\ UNCHANGED <<window, posted>>
  BY DEF Restart, StartAgain
<1>2. raised' \in [Kinds -> 0 .. MaxRaised] /\ \A k \in Kinds : raised'[k] = 0
  BY <1>1, CapAssumption DEF FreshProcess, Never
<1>3. AlertTypes'
  BY <1>1, <1>2 DEF AlertTypes, IndInv
<1> QED
  BY <1>1, <1>2, <1>3, KindsDiffer
     DEF FreshProcess, IndInv, ProcessTypes, TaskAlert, Asked, ServiceAlert, ExitIsToldOnce

LEMMA WindowStep == ASSUME IndInv, NEW k \in Kinds, WindowEnds(k) PROVE IndInv'
<1>1. AlertTypes'
  BY DEF WindowEnds, IndInv, AlertTypes
<1> QED
  BY <1>1
     DEF WindowEnds, service, sync, IndInv, ProcessTypes, TaskAlert, Asked, ServiceAlert,
         ExitIsToldOnce, Told

THEOREM NextIndInv == IndInv /\ [Next]_vars => IndInv'
<1> SUFFICES ASSUME IndInv, [Next]_vars PROVE IndInv'
  OBVIOUS
<1>1. CASE UNCHANGED vars
  <2>1. AlertTypes'
    BY <1>1, Unchanged DEF vars, IndInv
  <2> QED
    BY <1>1, <2>1
       DEF vars, service, sync, alerts, IndInv, ProcessTypes, TaskAlert, Asked,
           ServiceAlert, ExitIsToldOnce, Told
<1>2. CASE Task
  BY <1>2, TaskStep, AlertStep DEF Task
<1>3. CASE Service
  BY <1>3, TaskStep, AlertStep, ServiceStep, ExitStep DEF Service
<1>4. CASE Fault
  BY <1>4, TaskStep, ServiceStep, ExitStep DEF Fault
<1>5. CASE HandleSignal \/ Restart \/ StartAgain
  BY <1>5, ServiceStep, RestartStep
<1>6. CASE \E k \in Kinds : WindowEnds(k)
  BY <1>6, WindowStep
<1> QED BY <1>1, <1>2, <1>3, <1>4, <1>5, <1>6 DEF Next

\* The invariant of one process after the other.
THEOREM Invariance == Spec => []IndInv
BY InitIndInv, NextIndInv, PTL DEF Spec

\* Type correctness, and that a service that stops has told its loop (BlockIndexer.stop).
THEOREM TypeCorrect == Spec => []TypeOK
<1>1. IndInv => TypeOK
  BY TypesAreTypeOK DEF IndInv
<1> QED BY <1>1, Invariance, PTL

\* The process exits with 0 only when asked to and never after its loop died; it exits
\* with 1 after one alert that tells why, or more if the shutdown failed itself.
THEOREM ToldOnce == Spec => []ExitIsToldOnce
<1>1. IndInv => ExitIsToldOnce
  BY DEF IndInv
<1> QED BY <1>1, Invariance, PTL
=============================================================================
