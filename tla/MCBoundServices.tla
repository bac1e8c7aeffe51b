-------------------------- MODULE MCBoundServices ---------------------------
(* Two connections, services of two keys with up to two processes, one     *)
(* service of the app and the threads that use it.                         *)
EXTENDS BoundServices

CONSTANTS c1, c2, k1, k2, s1, t1, t2

Renaming == Permutations(Connections) \cup Permutations(Keys)
=============================================================================
