-------------------------- MODULE MCNetworkMetrics --------------------------
(* NetworkMetrics with two blocks, a deploy and a transfer over six        *)
(* seconds; buckets of two seconds, a lookback of three, and divisions that *)
(* are not a multiple of a bucket.                                         *)
EXTENDS NetworkMetrics

CONSTANTS b1, b2, d1, t1
=============================================================================
