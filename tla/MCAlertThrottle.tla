-------------------------- MODULE MCAlertThrottle --------------------------
(***************************************************************************)
(* Two kinds and two tasks: alerts of the same kind meet at the lock, and  *)
(* alerts of different kinds share the load of the store.  The clock runs  *)
(* far enough for a message, a throttled repeat and a second window.       *)
(***************************************************************************)
EXTENDS AlertThrottle

CONSTANTS k1, k2, t1, t2

MCKind == {k1, k2}
MCTask == {t1, t2}
=============================================================================
