----------------------------- MODULE ServiceHub -----------------------------
(***************************************************************************)
(* ARO's Binder service manager, `Hub` of src/crates/arod/src/hub.rs.      *)
(*                                                                         *)
(* The hub keeps three maps, each behind a mutex of its own: `services`    *)
(* (name to binder and the pid that published it), `reserved` (name to the *)
(* only pid that may publish it) and `waiters` (callbacks to tell about a  *)
(* registration).  Its handlers run on Binder threads, so what matters is  *)
(* where one handler may be overtaken by another: between the insertion of *)
(* a service and the snapshot of the waiters, between the lookup and the   *)
(* push of registerForNotifications, and between the two halves of         *)
(* remove_process, which alone holds a mutex (`reserved`) across a second  *)
(* acquisition.                                                            *)
(*                                                                         *)
(* A transaction of process p is a record txn[p]; it outlives its caller:  *)
(* the driver still delivers what a process queued before it died.  This   *)
(* module has the hub's variables and one action per atomic section of a   *)
(* handler.  HubNotifications and WorkerSupervision compose them with the  *)
(* processes that call the hub.                                            *)
(***************************************************************************)
EXTENDS Naturals, Sequences

CONSTANTS
    Names,       \* service names
    Procs,       \* pids that call the hub
    Binders,     \* the binder objects a process can publish
    Callbacks,   \* IServiceCallback objects
    HomeOf,      \* the process a callback lives in
    Absent,      \* "no such entry" in a map
    Retired      \* pid 0, the owner of a reservation nobody can use

ASSUME HubAssumption ==
    /\ Absent \notin Procs \cup Names \cup Binders \cup Callbacks
    /\ Retired \notin Procs \cup {Absent}
    /\ HomeOf \in [Callbacks -> Procs]

VARIABLES
    services,    \* Mutex<BTreeMap<String, (SIBinder, i32)>>
    reserved,    \* Mutex<BTreeMap<String, i32>>
    resLock,     \* the thread inside remove_process that holds `reserved`
    waiters,     \* Mutex<Vec<(String, callback)>>, per name: it is only read by name
    txn,         \* the transaction each process has outstanding
    todo,        \* callbacks the handler of a process's addService still calls
    heard,       \* what each callback has been told
    alive        \* the processes that run

registryVars == <<services, reserved, resLock>>
notifyVars   == <<waiters, todo, heard>>
hubVars      == <<services, reserved, resLock, waiters, txn, todo, heard, alive>>

Vacant == [pid |-> Absent, binder |-> Absent]
Entry  == [pid : Procs, binder : Binders]
Idle   == [op |-> "none", name |-> Absent, arg |-> Absent, pc |-> "idle"]

Pcs == {"queued", "inserted", "notifying", "pushing", "ok", "denied"}
Transaction ==
    [op : {"add", "unregister"}, name : Names, arg : Binders, pc : Pcs]
        \cup [op : {"listen", "unlisten"}, name : Names, arg : Callbacks, pc : Pcs]

HubTypeOK ==
    /\ services \in [Names -> Entry \cup {Vacant}]
    /\ reserved \in [Names -> Procs \cup {Absent, Retired}]
    /\ resLock \in {"free", "main", "monitor"}
    /\ waiters \in [Names -> Seq(Callbacks)]
    /\ txn \in [Procs -> Transaction \cup {Idle}]
    /\ todo \in [Procs -> Seq(Callbacks)]
    /\ heard \in [Callbacks -> SUBSET (Names \X Binders)]
    /\ alive \subseteq Procs

HubInit ==
    /\ services = [n \in Names |-> Vacant]
    /\ resLock = "free"
    /\ waiters = [n \in Names |-> <<>>]
    /\ txn = [p \in Procs |-> Idle]
    /\ todo = [p \in Procs |-> <<>>]
    /\ heard = [c \in Callbacks |-> {}]

Owner(n) == services[n].pid

(***************************************************************************)
(* The supervisor's calls, made from its own threads.                      *)
(***************************************************************************)
Reserve(ns, p) ==
    /\ resLock = "free"
    /\ reserved' = [n \in Names |-> IF n \in ns THEN p ELSE reserved[n]]
    /\ UNCHANGED <<services, resLock>>

\* Mutant: the reservations are forgotten instead of retired.
ForgetReservations(thread, p) ==
    /\ resLock = "free"
    /\ resLock' = thread
    /\ reserved' = [n \in Names |-> IF reserved[n] = p THEN Absent ELSE reserved[n]]
    /\ UNCHANGED services

\* remove_process, first half: retire the reservations, keeping the mutex.
RetireReservations(thread, p) ==
    /\ resLock = "free"
    /\ resLock' = thread
    /\ reserved' = [n \in Names |-> IF reserved[n] = p THEN Retired ELSE reserved[n]]
    /\ UNCHANGED services

\* Mutant: the predicate of `retain` is inverted.
KeepOnlyDeadServices(thread, p) ==
    /\ resLock = thread
    /\ resLock' = "free"
    /\ services' = [n \in Names |-> IF Owner(n) = p THEN services[n] ELSE Vacant]
    /\ UNCHANGED reserved

\* remove_process, second half: withdraw the services, releasing the mutex.
WithdrawServices(thread, p) ==
    /\ resLock = thread
    /\ resLock' = "free"
    /\ services' = [n \in Names |-> IF Owner(n) = p THEN Vacant ELSE services[n]]
    /\ UNCHANGED reserved

(***************************************************************************)
(* Transactions: a live process sends one; a Binder thread of the          *)
(* supervisor handles it, whether or not the caller still lives.           *)
(***************************************************************************)
Send(p, op, n, a) ==
    /\ p \in alive
    /\ txn[p] = Idle
    /\ txn' = [txn EXCEPT ![p] = [op |-> op, name |-> n, arg |-> a, pc |-> "queued"]]

CallAdd(p, n, b)        == Send(p, "add", n, b)
CallUnregister(p, n, b) == Send(p, "unregister", n, b)
CallListen(p, n, c)     == HomeOf[c] = p /\ Send(p, "listen", n, c)
CallUnlisten(p, n, c)   == HomeOf[c] = p /\ Send(p, "unlisten", n, c)

At(p, op, pc) == txn[p].op = op /\ txn[p].pc = pc

Goto(p, pc) == txn' = [txn EXCEPT ![p].pc = pc]

\* Mutant: only a retired reservation keeps others out.
MayRegisterUnlessRetired(n, p) == reserved[n] # Retired

\* Mutant: a retired reservation keeps nobody out.
MayRegisterIfRetired(n, p) == reserved[n] \in {Absent, Retired, p}

MayRegister(n, p) == reserved[n] \in {Absent, p}

\* register_owned up to `drop(reserved)`: the check and the insertion are one
\* section of the `reserved` mutex.
AddInsert(p) ==
    /\ At(p, "add", "queued")
    /\ resLock = "free"
    /\ MayRegister(txn[p].name, p)
    /\ services' = [services EXCEPT ![txn[p].name] = [pid |-> p, binder |-> txn[p].arg]]
    /\ Goto(p, "inserted")
    /\ UNCHANGED <<reserved, resLock, notifyVars, alive>>

AddReject(p) ==
    /\ At(p, "add", "queued")
    /\ resLock = "free"
    /\ ~MayRegister(txn[p].name, p)
    /\ Goto(p, "denied")
    /\ UNCHANGED <<registryVars, notifyVars, alive>>

\* The waiters of the name, copied under their own mutex.
SnapshotWaiters(p) ==
    /\ At(p, "add", "inserted")
    /\ todo' = [todo EXCEPT ![p] = waiters[txn[p].name]]
    /\ Goto(p, "notifying")
    /\ UNCHANGED <<registryVars, waiters, heard, alive>>

\* onRegistration reaches a callback whose process lives; a failure is only logged.
Tell(c, n, b) ==
    heard' = IF HomeOf[c] \in alive THEN [heard EXCEPT ![c] = @ \cup {<<n, b>>}] ELSE heard

\* Mutant: a callback that fails ends the loop over the waiters.
NotifyUntilFailure(p) ==
    /\ At(p, "add", "notifying")
    /\ todo[p] # <<>>
    /\ Tell(Head(todo[p]), txn[p].name, txn[p].arg)
    /\ todo' = [todo EXCEPT ![p] = IF HomeOf[Head(@)] \in alive THEN Tail(@) ELSE <<>>]
    /\ UNCHANGED <<registryVars, waiters, txn, alive>>

NotifyNext(p) ==
    /\ At(p, "add", "notifying")
    /\ todo[p] # <<>>
    /\ Tell(Head(todo[p]), txn[p].name, txn[p].arg)
    /\ todo' = [todo EXCEPT ![p] = Tail(@)]
    /\ UNCHANGED <<registryVars, waiters, txn, alive>>

AddReply(p) ==
    /\ At(p, "add", "notifying")
    /\ todo[p] = <<>>
    /\ Goto(p, "ok")
    /\ UNCHANGED <<registryVars, notifyVars, alive>>

TryUnregister(p) ==
    /\ At(p, "unregister", "queued")
    /\ services' = IF services[txn[p].name] = [pid |-> p, binder |-> txn[p].arg]
                   THEN [services EXCEPT ![txn[p].name] = Vacant]
                   ELSE services
    /\ Goto(p, "ok")
    /\ UNCHANGED <<reserved, resLock, notifyVars, alive>>

\* registerForNotifications: the lookup, with the callback called at once for
\* a service that is already there (a failing callback ends the call) ...
ListenLookup(p) ==
    /\ At(p, "listen", "queued")
    /\ LET n == txn[p].name
           c == txn[p].arg
       IN  IF services[n] = Vacant
           THEN Goto(p, "pushing") /\ UNCHANGED heard
           ELSE /\ Tell(c, n, services[n].binder)
                /\ Goto(p, IF HomeOf[c] \in alive THEN "pushing" ELSE "denied")
    /\ UNCHANGED <<registryVars, waiters, todo, alive>>

\* ... and the push, under another mutex and after the first is released.
ListenPush(p) ==
    /\ At(p, "listen", "pushing")
    /\ waiters' = [waiters EXCEPT ![txn[p].name] = Append(@, txn[p].arg)]
    /\ Goto(p, "ok")
    /\ UNCHANGED <<registryVars, todo, heard, alive>>

\* unregisterForNotifications forgets every waiter of the name.
Unlisten(p) ==
    /\ At(p, "unlisten", "queued")
    /\ waiters' = [waiters EXCEPT ![txn[p].name] = <<>>]
    /\ Goto(p, "ok")
    /\ UNCHANGED <<registryVars, todo, heard, alive>>

Replied(p) == txn[p].pc \in {"ok", "denied"}

\* The caller takes its reply.
Return(p) ==
    /\ p \in alive
    /\ Replied(p)
    /\ txn' = [txn EXCEPT ![p] = Idle]

HandleStep(p) ==
    \/ AddInsert(p)
    \/ AddReject(p)
    \/ SnapshotWaiters(p)
    \/ NotifyNext(p)
    \/ AddReply(p)
    \/ TryUnregister(p)
    \/ ListenLookup(p)
    \/ ListenPush(p)
    \/ Unlisten(p)
=============================================================================
