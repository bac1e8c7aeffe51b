------------------------- MODULE MCHubNotifications -------------------------
(* Two processes that publish, withdraw and wait for one name, each with a *)
(* callback of its own, so that one of two waiters may be dead.            *)
EXTENDS HubNotifications, TLC

CONSTANTS server, client, c1, c2

MCProcs     == {server, client}
MCCallbacks == {c1, c2}
MCHomeOf    == (c1 :> server) @@ (c2 :> client)
=============================================================================
