------------------------- MODULE MCLocationConsent --------------------------
(* Two requests: of one session, or of two sessions that share the host.   *)
EXTENDS LocationConsent, TLC

CONSTANTS a, b, r1, r2, p, q

OneSession  == (r1 :> a) @@ (r2 :> a)
TwoSessions == (r1 :> a) @@ (r2 :> b)
OnePackage  == (r1 :> p) @@ (r2 :> p)
=============================================================================
