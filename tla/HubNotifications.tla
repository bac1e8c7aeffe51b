-------------------------- MODULE HubNotifications --------------------------
(***************************************************************************)
(* Clients that wait for a service: registerForNotifications,              *)
(* unregisterForNotifications and the onRegistration calls of addService   *)
(* (src/crates/arod/src/hub.rs), over the registry of ServiceHub.  Any     *)
(* process may publish, withdraw and wait for any name, some of which are  *)
(* reserved for one of them (WorkerSupervision has the reserving).         *)
(***************************************************************************)
EXTENDS ServiceHub

CONSTANTS
    Keepers,      \* the processes a name may be reserved for
    MaxWaiters    \* bound: registrations kept for one name

Init == HubInit /\ alive = Procs /\ reserved \in [Names -> Keepers \cup {Absent}]

Call(p) ==
    \E n \in Names :
       \/ \E b \in Binders : CallAdd(p, n, b) \/ CallUnregister(p, n, b)
       \/ \E c \in Callbacks :
             \/ Len(waiters[n]) < MaxWaiters /\ CallListen(p, n, c)
             \/ CallUnlisten(p, n, c)

Request(p) ==
    /\ Call(p) \/ Return(p)
    /\ UNCHANGED <<registryVars, notifyVars, alive>>

\* A process dies with a transaction queued or not.  The hub does not notice:
\* only the supervisor's own workers are withdrawn.
Die(p) ==
    /\ p \in alive
    /\ alive' = alive \ {p}
    /\ UNCHANGED <<registryVars, notifyVars, txn>>

Next == \E p \in Procs : Request(p) \/ Die(p) \/ HandleStep(p)

Spec == Init /\ [][Next]_hubVars

\* Binder threads run; callers need not call, or take their replies.
FairSpec == Spec /\ \A p \in Procs : WF_hubVars(HandleStep(p))

Waits(c, n) == \E i \in DOMAIN waiters[n] : waiters[n][i] = c

\* A callback that waits for a name when a service is inserted under it is told
\* of that very service, however the waiters change or other registrations
\* interleave afterwards, unless it is forgotten or dies.
WaitersAreTold ==
    \A c \in Callbacks, n \in Names, p \in Procs, b \in Binders :
        (Waits(c, n) /\ At(p, "add", "inserted") /\ txn[p].name = n /\ txn[p].arg = b)
            ~> (<<n, b>> \in heard[c] \/ ~Waits(c, n) \/ HomeOf[c] \notin alive)

\* IServiceManager.aidl:113 "Request a callback when a service is registered":
\* a callback that waits for a name that is published has been told, or will be.
EveryWaiterHears ==
    \A c \in Callbacks, n \in Names :
        (Waits(c, n) /\ Owner(n) # Absent)
            ~> (\/ \E b \in Binders : <<n, b>> \in heard[c]
                \/ ~Waits(c, n) \/ Owner(n) = Absent \/ HomeOf[c] \notin alive)
=============================================================================
