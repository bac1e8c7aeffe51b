-------------------------- MODULE ServiceRegistry ---------------------------
(***************************************************************************)
(* What the service manager promises, as docs/SERVICE-ISOLATION.md tells   *)
(* it: a name that is kept for a process is only ever led to by that       *)
(* process, and a process that was withdrawn takes all its names with it   *)
(* in one step and never comes back.  WorkerSupervision implements it.     *)
(***************************************************************************)
CONSTANTS
    Names, Procs,
    Absent,
    KeeperOf     \* the process a name is kept for, Absent when anybody may publish it

VARIABLES
    owner,       \* the process a client that asks for a name is led to
    gone         \* the processes that were withdrawn

Init ==
    /\ owner = [n \in Names |-> Absent]
    /\ gone = {}

Publish(n, p) ==
    /\ p \notin gone
    /\ KeeperOf[n] \in {Absent, p}
    /\ owner' = [owner EXCEPT ![n] = p]
    /\ UNCHANGED gone

\* A process takes back a name of its own.
Unpublish(n) ==
    /\ owner' = [owner EXCEPT ![n] = Absent]
    /\ UNCHANGED gone

Withdraw(p) ==
    /\ owner' = [n \in Names |-> IF owner[n] = p THEN Absent ELSE owner[n]]
    /\ gone' = gone \cup {p}

Next ==
    \/ \E n \in Names : Unpublish(n) \/ \E p \in Procs : Publish(n, p)
    \/ \E p \in Procs : Withdraw(p)

Spec == Init /\ [][Next]_<<owner, gone>>
=============================================================================
