------------------------------ MODULE MCWorker ------------------------------
(***************************************************************************)
(* Instances of Worker: three threads and two partitions, each             *)
(* thread's own one first.                                                 *)
(***************************************************************************)
EXTENDS Worker

TwoParts == <<{<<2>>, <<2, 1>>}, {<<1, 2>>}, {<<2, 1>>}>>

=============================================================================
