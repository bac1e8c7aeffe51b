------------------------- MODULE WorkerSupervision --------------------------
(***************************************************************************)
(* Supervised native Binder workers: `Workers` and `serve` of              *)
(* src/crates/arod/src/host_services.rs, driven by the session setup in    *)
(* src/crates/arod/src/main.rs, over the registry of ServiceHub.           *)
(*                                                                         *)
(* Actors: the supervisor's main thread, which starts the workers one by   *)
(* one, launches the apps and finally drops `Workers`; the monitor thread, *)
(* which reaps workers that died; the workers; the apps; the Binder        *)
(* threads of the hub (HandleStep); the kernel, which kills the children   *)
(* of a dead supervisor.                                                   *)
(*                                                                         *)
(* A worker is named by its pid: the supervisor never starts a kind twice  *)
(* and a pid is not used again within a session.                           *)
(***************************************************************************)
EXTENDS ServiceHub

CONSTANTS
    Workers,     \* one worker process per kind
    Apps,        \* the processes of the Android PID namespace
    StartOrder,  \* the order main.rs spawns the workers in
    NamesOf,     \* Kind::names, in the order `serve` publishes them
    Resolved     \* workers whose binders main looks up with Workers::service

WorkerNames(w) == {NamesOf[w][i] : i \in DOMAIN NamesOf[w]}

ASSUME WorkerAssumption ==
    /\ Procs = Workers \cup Apps
    /\ Workers \cap Apps = {}
    /\ StartOrder \in Seq(Workers) /\ StartOrder # <<>>
    /\ \A i, j \in DOMAIN StartOrder : StartOrder[i] = StartOrder[j] => i = j
    /\ \A w \in Workers : \E i \in DOMAIN StartOrder : StartOrder[i] = w
    /\ NamesOf \in [Workers -> Seq(Names)]
    /\ \A v, w \in Workers : v # w => WorkerNames(v) \cap WorkerNames(w) = {}
    /\ Resolved \subseteq Workers

VARIABLES
    stage,       \* how far each worker process has come
    published,   \* how many of its names a worker has published
    mpc, cur, checked, late, victim, dropping,      \* main thread
    mon, scan, suspect,                             \* monitor thread
    children,    \* Arc<Mutex<Vec<Worker>>>
    childLock    \* the thread that holds the mutex of `children`

mainVars   == <<mpc, cur, checked, late, victim, dropping>>
monVars    == <<mon, scan, suspect>>
workerVars == <<stage, published>>
childVars  == <<children, childLock>>
vars       == <<hubVars, workerVars, mainVars, monVars, childVars>>

Running == {"forked", "waiting", "started"}
Stages  == Running \cup {"unborn", "zombie", "reaped", "withdrawn"}
MainPcs == {"spawn", "fork", "go", "poll", "trywait", "push", "resolve", "launch",
            "run", "locking", "next", "kill", "retire", "withdraw", "done", "dead"}

TypeOK ==
    /\ HubTypeOK
    /\ stage \in [Workers -> Stages]
    /\ published \in [Workers -> Nat]
    /\ mpc \in MainPcs
    /\ cur \in 1 .. Len(StartOrder)
    /\ checked \in Nat
    /\ late \in BOOLEAN
    /\ victim \in Workers \cup {Absent}
    /\ dropping \subseteq Workers
    /\ mon \in {"sleep", "scan", "retire", "withdraw"}
    /\ scan \subseteq Workers
    /\ suspect \in Workers \cup {Absent}
    /\ children \subseteq Workers
    /\ childLock \in {"free", "main", "monitor"}

Init ==
    /\ HubInit
    /\ reserved = [n \in Names |-> Absent]
    /\ alive = {}
    /\ stage = [w \in Workers |-> "unborn"]
    /\ published = [w \in Workers |-> 0]
    /\ mpc = "spawn" /\ cur = 1 /\ checked = 0 /\ late = FALSE
    /\ victim = Absent /\ dropping = {}
    /\ mon = "sleep" /\ scan = {} /\ suspect = Absent
    /\ children = {} /\ childLock = "free"

Up      == mpc \notin {"done", "dead"}
Current == StartOrder[cur]
MainAt(pc) == mpc = pc

\* A process ends; its parent has not waited for it yet.
Exits(w) ==
    /\ stage' = [stage EXCEPT ![w] = "zombie"]
    /\ alive' = alive \ {w}

(***************************************************************************)
(* Workers::spawn, on the main thread.                                     *)
(***************************************************************************)
Fork ==
    /\ MainAt("spawn")
    /\ stage' = [stage EXCEPT ![Current] = "forked"]
    /\ alive' = alive \cup {Current}
    /\ mpc' = "fork"
    /\ UNCHANGED <<registryVars, notifyVars, txn, published, cur, checked, late, victim,
                   dropping, monVars, childVars>>

\* `?` before the child exists: main returns and drops Workers.
SpawnFails ==
    /\ MainAt("spawn")
    /\ mpc' = "locking"
    /\ UNCHANGED <<hubVars, workerVars, cur, checked, late, victim, dropping, monVars, childVars>>

\* Command::spawn returns when the child has run pre_exec and executed (or died).
ReserveNames ==
    /\ MainAt("fork")
    /\ stage[Current] # "forked"
    /\ Reserve(WorkerNames(Current), Current)
    /\ mpc' = "go"
    /\ UNCHANGED <<notifyVars, txn, alive, workerVars, cur, checked, late, victim, dropping,
                   monVars, childVars>>

\* Mutant: a worker that is gone before it is let go is left to nobody.
GoWithoutCleanup ==
    /\ MainAt("go")
    /\ IF stage[Current] = "waiting"
       THEN /\ stage' = [stage EXCEPT ![Current] = "started"]
            /\ mpc' = "poll" /\ checked' = 0 /\ late' = FALSE
       ELSE mpc' = "locking" /\ UNCHANGED <<stage, checked, late>>
    /\ UNCHANGED <<hubVars, published, cur, victim, dropping, monVars, childVars>>

\* write_all(b"G"): it fails when nobody is left to read it.
Go ==
    /\ MainAt("go")
    /\ IF stage[Current] = "waiting"
       THEN /\ stage' = [stage EXCEPT ![Current] = "started"]
            /\ mpc' = "poll" /\ checked' = 0 /\ late' = FALSE
            /\ UNCHANGED victim
       ELSE /\ mpc' = "kill" /\ victim' = Current
            /\ UNCHANGED <<stage, checked, late>>
    /\ UNCHANGED <<hubVars, published, cur, dropping, monVars, childVars>>

\* Mutant: a name counts as soon as it is reserved.
PollReservation ==
    /\ MainAt("poll")
    /\ checked < Len(NamesOf[Current])
    /\ IF reserved[NamesOf[Current][checked + 1]] = Current
       THEN checked' = checked + 1 /\ UNCHANGED mpc
       ELSE mpc' = "trywait" /\ UNCHANGED checked
    /\ UNCHANGED <<hubVars, workerVars, cur, late, victim, dropping, monVars, childVars>>

\* One name of the readiness test: `all` stops at the first that is missing.
PollName ==
    /\ MainAt("poll")
    /\ checked < Len(NamesOf[Current])
    /\ IF Owner(NamesOf[Current][checked + 1]) = Current
       THEN checked' = checked + 1 /\ UNCHANGED mpc
       ELSE mpc' = "trywait" /\ UNCHANGED checked
    /\ UNCHANGED <<hubVars, workerVars, cur, late, victim, dropping, monVars, childVars>>

PollReady ==
    /\ MainAt("poll")
    /\ checked = Len(NamesOf[Current])
    /\ mpc' = "push"
    /\ UNCHANGED <<hubVars, workerVars, cur, checked, late, victim, dropping, monVars, childVars>>

\* Mutant: a worker that is late is left running.
TryWaitWithoutKill ==
    /\ MainAt("trywait")
    /\ stage' = [stage EXCEPT ![Current] = IF @ = "zombie" THEN "reaped" ELSE @]
    /\ IF stage[Current] = "zombie"
       THEN mpc' = "kill" /\ victim' = Current /\ UNCHANGED checked
       ELSE IF late
       THEN mpc' = "locking" /\ UNCHANGED <<victim, checked>>
       ELSE mpc' = "poll" /\ checked' = 0 /\ UNCHANGED victim
    /\ UNCHANGED <<hubVars, published, cur, late, dropping, monVars, childVars>>

\* Mutant: no deadline.
TryWaitForEver ==
    /\ MainAt("trywait")
    /\ stage' = [stage EXCEPT ![Current] = IF @ = "zombie" THEN "reaped" ELSE @]
    /\ IF stage[Current] = "zombie"
       THEN mpc' = "kill" /\ victim' = Current /\ UNCHANGED checked
       ELSE mpc' = "poll" /\ checked' = 0 /\ UNCHANGED victim
    /\ UNCHANGED <<hubVars, published, cur, late, dropping, monVars, childVars>>

\* try_wait, then the 30 s deadline, then another round after 20 ms.
TryWait ==
    /\ MainAt("trywait")
    /\ stage' = [stage EXCEPT ![Current] = IF @ = "zombie" THEN "reaped" ELSE @]
    /\ IF stage[Current] = "zombie" \/ late
       THEN mpc' = "kill" /\ victim' = Current /\ UNCHANGED checked
       ELSE mpc' = "poll" /\ checked' = 0 /\ UNCHANGED victim
    /\ UNCHANGED <<hubVars, published, cur, late, dropping, monVars, childVars>>

\* The deadline passes.
Timeout ==
    /\ mpc \in {"poll", "trywait"}
    /\ ~late
    /\ late' = TRUE
    /\ UNCHANGED <<hubVars, workerVars, mpc, cur, checked, victim, dropping, monVars, childVars>>

\* Mutant: the start order has no end.
ContinuePastTheEnd == mpc' = "spawn" /\ cur' = cur + 1

Continue ==
    IF cur = Len(StartOrder)
    THEN mpc' = "launch" /\ UNCHANGED cur
    ELSE mpc' = "spawn" /\ cur' = cur + 1

Push ==
    /\ MainAt("push")
    /\ childLock = "free"
    /\ children' = children \cup {Current}
    /\ checked' = 0
    /\ IF Current \in Resolved THEN mpc' = "resolve" /\ UNCHANGED cur ELSE Continue
    /\ UNCHANGED <<hubVars, workerVars, late, victim, dropping, monVars, childLock>>

\* Workers::service(name)? for every name main needs from the new worker.
Resolve ==
    /\ MainAt("resolve")
    /\ childLock = "free"
    /\ IF checked = Len(NamesOf[Current])
       THEN Continue /\ UNCHANGED checked
       ELSE IF Owner(NamesOf[Current][checked + 1]) \in children
       THEN checked' = checked + 1 /\ UNCHANGED <<mpc, cur>>
       ELSE mpc' = "locking" /\ UNCHANGED <<cur, checked>>
    /\ UNCHANGED <<hubVars, workerVars, late, victim, dropping, monVars, childVars>>

(***************************************************************************)
(* The apps run while main waits for the launcher.                         *)
(***************************************************************************)
Launch ==
    /\ MainAt("launch")
    /\ alive' = alive \cup Apps
    /\ mpc' = "run"
    /\ UNCHANGED <<registryVars, notifyVars, txn, workerVars, cur, checked, late, victim,
                   dropping, monVars, childVars>>

LaunchFails ==
    /\ MainAt("launch")
    /\ mpc' = "locking"
    /\ UNCHANGED <<hubVars, workerVars, cur, checked, late, victim, dropping, monVars, childVars>>

\* The PID namespace of the apps ends with its launcher, whose status main waits for.
AppsExit ==
    /\ MainAt("run")
    /\ alive' = alive \ Apps
    /\ mpc' = "locking"
    /\ UNCHANGED <<registryVars, notifyVars, txn, workerVars, cur, checked, late, victim,
                   dropping, monVars, childVars>>

(***************************************************************************)
(* Drop for Workers, and the failure path of spawn: kill, wait, withdraw.  *)
(* Drop holds the mutex of `children` throughout; the failure path does    *)
(* not hold it and is followed by Drop.                                    *)
(***************************************************************************)
LockChildren ==
    /\ MainAt("locking")
    /\ childLock = "free"
    /\ childLock' = "main"
    /\ dropping' = children
    /\ mpc' = "next"
    /\ UNCHANGED <<hubVars, workerVars, cur, checked, late, victim, monVars, children>>

DropNext ==
    /\ MainAt("next")
    /\ \E w \in dropping :
          /\ victim' = w
          /\ dropping' = dropping \ {w}
    /\ mpc' = "kill"
    /\ UNCHANGED <<hubVars, workerVars, cur, checked, late, monVars, childVars>>

\* Every worker is down: main exits.
DropDone ==
    /\ MainAt("next")
    /\ dropping = {}
    /\ childLock' = "free"
    /\ mpc' = "done"
    /\ UNCHANGED <<hubVars, workerVars, cur, checked, late, victim, dropping, monVars, children>>

\* kill, then wait: the process is gone and collected when wait returns.
KillAndWait ==
    /\ MainAt("kill")
    /\ stage' = [stage EXCEPT ![victim] = "reaped"]
    /\ alive' = alive \ {victim}
    /\ mpc' = "retire"
    /\ UNCHANGED <<registryVars, notifyVars, txn, published, cur, checked, late, victim,
                   dropping, monVars, childVars>>

MainRetire ==
    /\ MainAt("retire")
    /\ RetireReservations("main", victim)
    /\ mpc' = "withdraw"
    /\ UNCHANGED <<notifyVars, txn, alive, workerVars, cur, checked, late, victim, dropping,
                   monVars, childVars>>

MainWithdraw ==
    /\ MainAt("withdraw")
    /\ WithdrawServices("main", victim)
    /\ stage' = [stage EXCEPT ![victim] = "withdrawn"]
    /\ mpc' = IF childLock = "main" THEN "next" ELSE "locking"
    /\ UNCHANGED <<notifyVars, txn, alive, published, cur, checked, late, victim, dropping,
                   monVars, childVars>>

\* The supervisor is killed, or its compositor thread exits the process: what
\* its threads were doing is lost.
SupervisorDies ==
    /\ Up
    /\ mpc' = "dead"
    /\ UNCHANGED <<hubVars, workerVars, cur, checked, late, victim, dropping, monVars, childVars>>

(***************************************************************************)
(* The monitor thread: one pass over `children` every 100 ms, the mutex    *)
(* held from the first try_wait to the last removal.                       *)
(***************************************************************************)
MonitorWake ==
    /\ mon = "sleep"
    /\ childLock = "free"
    /\ childLock' = "monitor"
    /\ scan' = children
    /\ mon' = "scan"
    /\ UNCHANGED <<hubVars, workerVars, mainVars, suspect, children>>

\* Mutant: a worker that died is reaped and not withdrawn.
MonitorReapOnly ==
    /\ mon = "scan"
    /\ \E w \in scan :
          /\ scan' = scan \ {w}
          /\ stage' = [stage EXCEPT ![w] = IF @ = "zombie" THEN "reaped" ELSE @]
    /\ UNCHANGED <<hubVars, published, mainVars, mon, suspect, childVars>>

MonitorTryWait ==
    /\ mon = "scan"
    /\ \E w \in scan :
          /\ scan' = scan \ {w}
          /\ IF stage[w] = "zombie"
             THEN /\ stage' = [stage EXCEPT ![w] = "reaped"]
                  /\ suspect' = w
                  /\ mon' = "retire"
             ELSE UNCHANGED <<stage, suspect, mon>>
    /\ UNCHANGED <<hubVars, published, mainVars, childVars>>

MonitorRetire ==
    /\ mon = "retire"
    /\ RetireReservations("monitor", suspect)
    /\ mon' = "withdraw"
    /\ UNCHANGED <<notifyVars, txn, alive, workerVars, mainVars, scan, suspect, childVars>>

MonitorWithdraw ==
    /\ mon = "withdraw"
    /\ WithdrawServices("monitor", suspect)
    /\ stage' = [stage EXCEPT ![suspect] = "withdrawn"]
    /\ children' = children \ {suspect}
    /\ mon' = "scan"
    /\ UNCHANGED <<notifyVars, txn, alive, published, mainVars, scan, suspect, childLock>>

MonitorSleep ==
    /\ mon = "scan"
    /\ scan = {}
    /\ childLock' = "free"
    /\ mon' = "sleep"
    /\ UNCHANGED <<hubVars, workerVars, mainVars, scan, suspect, children>>

(***************************************************************************)
(* The worker processes: `serve`, and the pre_exec hook before it.         *)
(***************************************************************************)
\* pre_exec: ask for SIGKILL on the parent's death, then check that the parent
\* is still there; a failed check or prctl ends the child.
PreExec(w) ==
    /\ stage[w] = "forked"
    /\ IF Up
       THEN stage' = [stage EXCEPT ![w] = "waiting"] /\ UNCHANGED alive
       ELSE Exits(w)
    /\ UNCHANGED <<registryVars, notifyVars, txn, published, mainVars, monVars, childVars>>

\* publish(name)?: the next of the worker's names, once the last one is accepted.
Publish(w) ==
    /\ stage[w] = "started"
    /\ published[w] < Len(NamesOf[w])
    /\ \E b \in Binders : CallAdd(w, NamesOf[w][published[w] + 1], b)
    /\ UNCHANGED <<registryVars, notifyVars, alive, workerVars, mainVars, monVars, childVars>>

Published(w) ==
    /\ w \in alive
    /\ txn[w].pc = "ok"
    /\ txn' = [txn EXCEPT ![w] = Idle]
    /\ published' = [published EXCEPT ![w] = @ + 1]
    /\ UNCHANGED <<registryVars, notifyVars, alive, stage, mainVars, monVars, childVars>>

\* A refused publication ends `serve`, and any other failure or signal may end
\* the process at any time, with a transaction queued or not.
WorkerExits(w) ==
    /\ stage[w] \in Running
    /\ Exits(w)
    /\ UNCHANGED <<registryVars, notifyVars, txn, published, mainVars, monVars, childVars>>

\* Mutant: the death signal does not outlive exec.
OrphanKilledBeforeExec(w) ==
    /\ ~Up
    /\ stage[w] = "waiting"
    /\ Exits(w)
    /\ UNCHANGED <<registryVars, notifyVars, txn, published, mainVars, monVars, childVars>>

\* PR_SET_PDEATHSIG: the kernel kills the workers of a supervisor that is gone.
OrphanKilled(w) ==
    /\ ~Up
    /\ stage[w] \in {"waiting", "started"}
    /\ Exits(w)
    /\ UNCHANGED <<registryVars, notifyVars, txn, published, mainVars, monVars, childVars>>

(***************************************************************************)
(* The apps may publish, withdraw and wait for any name, and may die.      *)
(***************************************************************************)
AppCalls(a) ==
    /\ \E n \in Names :
          \/ \E b \in Binders : CallAdd(a, n, b) \/ CallUnregister(a, n, b)
          \/ \E c \in Callbacks : CallListen(a, n, c) \/ CallUnlisten(a, n, c)
    /\ UNCHANGED <<registryVars, notifyVars, alive, workerVars, mainVars, monVars, childVars>>

AppReturns(a) ==
    /\ Return(a)
    /\ UNCHANGED <<registryVars, notifyVars, alive, workerVars, mainVars, monVars, childVars>>

AppDies(a) ==
    /\ alive' = alive \ {a}
    /\ a \in alive
    /\ UNCHANGED <<registryVars, notifyVars, txn, workerVars, mainVars, monVars, childVars>>

\* The supervisor's Binder threads.
HubStep(p) == Up /\ HandleStep(p) /\ UNCHANGED <<workerVars, mainVars, monVars, childVars>>

Startup ==
    \/ Fork \/ SpawnFails \/ ReserveNames \/ Go \/ PollName \/ PollReady \/ TryWait
    \/ Push \/ Resolve \/ Launch \/ LaunchFails

Teardown ==
    LockChildren \/ DropNext \/ DropDone \/ KillAndWait \/ MainRetire \/ MainWithdraw

Monitor ==
    /\ Up
    /\ MonitorWake \/ MonitorTryWait \/ MonitorRetire \/ MonitorWithdraw \/ MonitorSleep

Worker(w) == PreExec(w) \/ Publish(w) \/ Published(w) \/ WorkerExits(w) \/ OrphanKilled(w)

App(a) == AppCalls(a) \/ AppReturns(a) \/ AppDies(a)

\* Nothing is left to do once the supervisor and its workers are gone.
Finished ==
    /\ ~Up
    /\ \A w \in Workers : stage[w] \notin Running
    /\ UNCHANGED vars

Next ==
    \/ Startup
    \/ Teardown
    \/ Timeout
    \/ AppsExit
    \/ SupervisorDies
    \/ Monitor
    \/ \E w \in Workers : Worker(w)
    \/ \E a \in Apps : App(a)
    \/ \E p \in Procs : HubStep(p)
    \/ Finished

\* What is scheduled: the supervisor's threads, its Binder threads, the clock
\* and the kernel.  A worker need not answer, an app need not exit, and nobody
\* has to die.  The main thread gets the mutex of `children` although the
\* monitor takes it again and again: the monitor sleeps 100 ms without it.
Fairness ==
    /\ WF_vars(Startup)
    /\ WF_vars(Teardown)
    /\ SF_vars(Push \/ Resolve \/ LockChildren)
    /\ WF_vars(Timeout)
    /\ WF_vars(Monitor)
    /\ \A p \in Procs : WF_vars(HubStep(p))
    /\ \A w \in Workers : WF_vars(PreExec(w)) /\ WF_vars(OrphanKilled(w))

Spec == Init /\ [][Next]_vars

FairSpec == Spec /\ Fairness

-----------------------------------------------------------------------------
(***************************************************************************)
(* The abstract registry                                                   *)
(***************************************************************************)
Keeper(n) == IF \E w \in Workers : n \in WorkerNames(w)
             THEN CHOOSE w \in Workers : n \in WorkerNames(w)
             ELSE Absent

Registry ==
    INSTANCE ServiceRegistry WITH
        owner    <- [n \in Names |-> Owner(n)],
        gone     <- {w \in Workers : stage[w] = "withdrawn"},
        KeeperOf <- [n \in Names |-> Keeper(n)]

\* The two halves of remove_process, the queued transactions and the two
\* threads that withdraw workers show clients one atomic registry.
ImplementsRegistry == Registry!Spec

-----------------------------------------------------------------------------
(***************************************************************************)
(* Safety                                                                  *)
(***************************************************************************)

\* Once the supervisor has withdrawn a worker, none of its binders is in the
\* registry again, although a registration it queued before it died may still
\* be handled afterwards (hub.rs:34).
WithdrawnStayOut ==
    \A w \in Workers : stage[w] = "withdrawn" => \A n \in Names : Owner(n) # w

\* A name reserved for a worker never leads a client to another process,
\* before the worker publishes it, while it runs, and after it is gone.
ReservedNamesExclusive ==
    \A w \in Workers : \A n \in WorkerNames(w) : Owner(n) \in {Absent, w}

\* The apps start only when every worker that still runs has published all of
\* its names and is supervised.
AppsFindServices ==
    mpc = "run" =>
        \A w \in Workers : stage[w] \in Running =>
            /\ w \in children
            /\ \A n \in WorkerNames(w) : Owner(n) = w

\* At any time a worker that was started is supervised, being started, or being
\* torn down: no step loses track of a child.
NoWorkerIsLost ==
    \A w \in Workers :
        stage[w] \in Running \cup {"zombie", "reaped"} =>
            \/ w \in children
            \/ w = Current /\ mpc \in {"fork", "go", "poll", "trywait", "push"}
            \/ w = victim  /\ mpc \in {"kill", "retire", "withdraw"}
            \/ mpc = "dead"

\* When main is done, every worker it started was collected and withdrawn.
DoneMeansCollected ==
    mpc = "done" => \A w \in Workers : stage[w] \in {"unborn", "withdrawn"}

\* What the session promises of its workers: the apps find the services of those that
\* run, none is lost track of, and none is left when main is done.
WorkersAreAccountedFor == AppsFindServices /\ NoWorkerIsLost /\ DoneMeansCollected

\* The hub withdraws nothing that belongs to a worker that still runs
\* (hub.rs:117, "old worker exit does not remove a replacement").
LiveServicesStay ==
    [][\A w \in Workers : (w \in alive /\ w \in alive') =>
         \A n \in Names : Owner(n) = w => Owner(n)' = w]_vars

(***************************************************************************)
(* Liveness                                                                *)
(***************************************************************************)

\* A worker that dies is eventually withdrawn, unless the session ends first.
DeadAreWithdrawn ==
    \A w \in Workers : (stage[w] = "zombie") ~> (stage[w] = "withdrawn" \/ ~Up)

\* Startup always comes to a decision: a worker that never publishes cannot
\* hold it up.
StartupDecides == <>(mpc \in {"run", "done", "dead"})

\* A supervisor that dies, at whatever point of starting a worker, leaves no
\* worker behind.
NoOrphans == (mpc = "dead") ~> (\A w \in Workers : stage[w] \notin Running)

\* The three of them: what dies is withdrawn, startup decides, no orphan stays.
SupervisionProgresses == DeadAreWithdrawn /\ StartupDecides /\ NoOrphans
=============================================================================
