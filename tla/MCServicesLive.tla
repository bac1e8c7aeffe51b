--------------------------- MODULE MCServicesLive ---------------------------
(***************************************************************************)
(* What must come to its end in arod's services, for TLC, side by side:    *)
(* binds of service processes, the wait for a registration, and the answer *)
(* about the network.  They share no state; a behaviour is of one of them, *)
(* its subject, and the others stay as they started.                       *)
(***************************************************************************)
EXTENDS BoundServices, HostNetwork, TLC

CONSTANTS
    c1, c2, k1, k2,                                       \* binds
    server, client, w1, w2,                               \* waiters
    Names, Procs, Binders, Callbacks, HomeOf, Retired, Keepers, MaxWaiters

MCProcs     == {server, client}
MCCallbacks == {w1, w2}
MCHomeOf    == (w1 :> server) @@ (w2 :> client)

VARIABLES subject, services, reserved, resLock, waiters, txn, todo, heard, alive

Hub == INSTANCE HubNotifications

hubVars == <<services, reserved, resLock, waiters, txn, todo, heard, alive>>
parts   == <<subject, vars, hubVars, netVars>>

LiveInit ==
    /\ subject \in {"binds", "waiters", "network"}
    /\ Init /\ Hub!Init /\ NetInit
    /\ subject # "network" => host_net = NothingRead

LiveNext ==
    /\ UNCHANGED subject
    /\ \/ subject = "binds" /\ Next /\ UNCHANGED <<hubVars, netVars>>
       \/ subject = "waiters" /\ Hub!Next /\ UNCHANGED <<vars, netVars>>
       \/ subject = "network" /\ NetNext /\ UNCHANGED <<vars, hubVars>>

\* The fairness of BoundServices and HubNotifications, and a monitor that goes on.
LiveSpec ==
    /\ LiveInit /\ [][LiveNext]_parts
    /\ Fairness
    /\ \A p \in Procs : WF_hubVars(Hub!HandleStep(p))
    /\ WF_netVars(subject = "network" /\ Monitor)

\* A waiter that is registered when a service is inserted is told of that service.
WaitersAreTold == Hub!WaitersAreTold

\* Once the host stands still, what the app is told of the network is what it is.
AnswersFollowTheHost ==
    /\ []NetTypeOK
    /\ subject = "network" => NetworkFollowsTheHost
=============================================================================
