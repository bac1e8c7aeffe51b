---------------------- MODULE WorkerSupervisionProofs -----------------------
(***************************************************************************)
(* Proofs about WorkerSupervision: type correctness, an inductive          *)
(* invariant, and from it that a withdrawn worker stays out of the         *)
(* registry, that a reserved name never leads elsewhere, that the          *)
(* supervisor implements ServiceRegistry, and, with a second invariant on  *)
(* top of the first, that every worker is accounted for.                   *)
(***************************************************************************)
EXTENDS WorkerSupervision, SequenceTheorems, TLAPS

(***************************************************************************)
(* The inductive invariant, in parts.                                      *)
(***************************************************************************)

\* A process runs exactly in the stages that say so.
AliveInv == \A w \in Workers : w \in alive <=> stage[w] \in Running

\* The mutex of `reserved` is held between the halves of remove_process.
ResLockInv ==
    /\ resLock = "main"    => mpc \in {"withdraw", "dead"}
    /\ resLock = "monitor" => mon = "withdraw"
    /\ mpc = "withdraw"    => resLock = "main" /\ \A n \in Names : reserved[n] # victim
    /\ mon = "withdraw"    => resLock = "monitor" /\ \A n \in Names : reserved[n] # suspect

\* The mutex of `children`: Drop and the monitor exclude one another.
ChildLockInv ==
    /\ childLock = "main" => mpc \in {"next", "kill", "retire", "withdraw", "dead"}
    /\ mpc = "next"       => childLock = "main"
    /\ childLock = "monitor" <=> mon # "sleep"

\* Where a worker can be while main starts it, or later ones.
StartupInv ==
    /\ \A i \in DOMAIN StartOrder : i > cur => stage[StartOrder[i]] = "unborn"
    /\ mpc = "spawn" => stage[Current] = "unborn"
    /\ mpc \in {"fork", "go", "poll", "trywait", "push"} =>
         /\ stage[Current] \in {"forked", "waiting", "started", "zombie"}
         /\ Current \notin children
    /\ mpc \in {"poll", "trywait", "push"} => stage[Current] # "forked" /\ stage[Current] # "waiting"
    /\ mpc = "go" => stage[Current] # "forked"
    /\ mpc \in {"launch", "run"} => cur = Len(StartOrder)

\* The worker main tears down: the one that failed to start, or a child.
VictimInv ==
    /\ mpc \in {"kill", "retire", "withdraw"} =>
         /\ victim \in Workers
         /\ stage[victim] \in (IF mpc = "kill" THEN {"started", "zombie", "reaped"} ELSE {"reaped"})
         /\ IF childLock = "main"
            THEN victim \in children \ dropping
            ELSE victim \notin children
    /\ childLock = "main" => dropping \subseteq children

\* The worker the monitor withdraws, and the ones it has yet to look at.
SuspectInv ==
    /\ mon \in {"retire", "withdraw"} =>
         /\ suspect \in children \ scan
         /\ stage[suspect] = "reaped"
    /\ mon # "sleep" => scan \subseteq children

\* The children: none has been collected, except by who is withdrawing it.
ChildrenInv ==
    \A w \in children :
        \/ stage[w] \in {"started", "zombie"}
        \/ mon \in {"retire", "withdraw"} /\ w = suspect
        \/ (childLock = "main" \/ ~Up) /\ w \notin dropping

\* The names of a worker are reserved for it, and for nobody else, until retired.
ReservationInv ==
    /\ \A w \in Workers : \A n \in WorkerNames(w) : reserved[n] \in {Absent, w, Retired}
    /\ \A w \in Workers : \A n \in Names : reserved[n] = w => n \in WorkerNames(w)

\* Main has reserved the names of a worker before it lets the worker go, and
\* those of every worker before it launches an app.
ReservedFor(w) == \A n \in WorkerNames(w) : reserved[n] # Absent

ReservedFirstInv ==
    /\ \A i \in DOMAIN StartOrder : i < cur => ReservedFor(StartOrder[i])
    /\ mpc \in {"go", "poll", "trywait", "push", "resolve", "launch", "run"} => ReservedFor(Current)
    /\ mpc \in {"kill", "retire", "withdraw"} => ReservedFor(victim)
    /\ \A w \in Workers :
          (w \in children \/ stage[w] \in {"started", "reaped", "withdrawn"} \/ txn[w] # Idle)
             => ReservedFor(w)
    /\ \A a \in Apps : (a \in alive \/ txn[a] # Idle) => \A w \in Workers : ReservedFor(w)

\* A worker only ever publishes its own names; an app never owns one of them.
PublicationInv ==
    /\ \A w \in Workers : txn[w] # Idle => txn[w].op = "add" /\ txn[w].name \in WorkerNames(w)
    /\ \A n \in Names : \A w \in Workers : Owner(n) = w => n \in WorkerNames(w)

\* A withdrawn worker: nothing in the registry, nothing it can still publish.
WithdrawnInv ==
    \A w \in Workers : stage[w] = "withdrawn" =>
        \A n \in Names : reserved[n] # w /\ Owner(n) # w

StateInv ==
    /\ AliveInv
    /\ ResLockInv
    /\ ChildLockInv
    /\ StartupInv
    /\ VictimInv
    /\ SuspectInv
    /\ ChildrenInv
    /\ ReservationInv
    /\ ReservedFirstInv
    /\ PublicationInv
    /\ WithdrawnInv
    /\ ReservedNamesExclusive

IInv == TypeOK /\ StateInv

-----------------------------------------------------------------------------
(***************************************************************************)
(* Type correctness.                                                       *)
(***************************************************************************)
\* The operation and the arguments of a transaction.
LEMMA TransactionFacts ==
    ASSUME HubTypeOK, NEW p \in Procs, txn[p] # Idle
    PROVE  /\ txn[p].name \in Names
           /\ txn[p].op \in {"add", "unregister"} => txn[p].arg \in Binders
           /\ txn[p].op \in {"listen", "unlisten"} => txn[p].arg \in Callbacks
           /\ txn[p].op \in {"add", "unregister", "listen", "unlisten"}
           /\ txn[p] \in Transaction
BY DEF HubTypeOK, Transaction

\* A handler only moves its own transaction to its next point.
LEMMA GotoFacts ==
    ASSUME HubTypeOK, NEW p \in Procs, txn[p] # Idle, NEW pc \in Pcs, Goto(p, pc)
    PROVE  /\ txn' \in [Procs -> Transaction \cup {Idle}]
           /\ \A q \in Procs : q # p => txn'[q] = txn[q]
           /\ txn'[p].op = txn[p].op /\ txn'[p].name = txn[p].name
           /\ txn'[p].arg = txn[p].arg /\ txn'[p].pc = pc
           /\ txn'[p] # Idle
<1>1. txn[p] \in Transaction
  BY DEF HubTypeOK
<1>2. [txn[p] EXCEPT !.pc = pc] \in Transaction
  BY <1>1 DEF Transaction
<1>3. txn' = [txn EXCEPT ![p] = [txn[p] EXCEPT !.pc = pc]]
  BY DEF Goto, HubTypeOK
<1>4. [txn[p] EXCEPT !.pc = pc].pc = pc
  BY <1>1 DEF Transaction
<1>5. pc # "idle"
  BY DEF Pcs
<1>6. txn'[p] = [txn[p] EXCEPT !.pc = pc]
  BY <1>3 DEF HubTypeOK
<1>7. [txn[p] EXCEPT !.pc = pc] # Idle
  BY <1>4, <1>5 DEF Idle
<1>8. /\ [txn[p] EXCEPT !.pc = pc].op = txn[p].op
      /\ [txn[p] EXCEPT !.pc = pc].name = txn[p].name
      /\ [txn[p] EXCEPT !.pc = pc].arg = txn[p].arg
  BY <1>1 DEF Transaction
<1>9. QED
  BY <1>2, <1>3, <1>4, <1>6, <1>7, <1>8 DEF HubTypeOK

\* A process that is somewhere in a handler is not idle.
LEMMA AtIsNotIdle ==
    ASSUME NEW p, NEW op, NEW pc, At(p, op, pc), op # "none"
    PROVE  txn[p] # Idle
BY DEF At, Idle

\* The handlers of the hub keep the types of the hub.
LEMMA HandleType ==
    ASSUME HubTypeOK, NEW p \in Procs, HandleStep(p)
    PROVE  HubTypeOK'
<1> USE HubAssumption
<1>0. /\ services \in [Names -> Entry \cup {Vacant}]
      /\ waiters \in [Names -> Seq(Callbacks)]
      /\ todo \in [Procs -> Seq(Callbacks)]
      /\ heard \in [Callbacks -> SUBSET (Names \X Binders)]
      /\ Vacant.binder = Absent
  BY DEF HubTypeOK, Vacant
<1>1. CASE AddInsert(p)
  <2>1. txn[p] # Idle
    BY <1>1, AtIsNotIdle DEF AddInsert
  <2>2. txn[p].name \in Names /\ txn[p].arg \in Binders
    BY <1>1, <2>1, TransactionFacts DEF AddInsert, At
  <2>3. txn' \in [Procs -> Transaction \cup {Idle}]
    BY <1>1, <2>1, GotoFacts DEF AddInsert, Pcs
  <2>4. services' \in [Names -> Entry \cup {Vacant}]
    BY <1>1, <1>0, <2>2 DEF AddInsert, Entry
  <2>5. QED
    BY <1>1, <2>3, <2>4 DEF AddInsert, HubTypeOK, notifyVars
<1>2. CASE AddReject(p)
  <2>1. txn[p] # Idle
    BY <1>2, AtIsNotIdle DEF AddReject
  <2>2. txn' \in [Procs -> Transaction \cup {Idle}]
    BY <1>2, <2>1, GotoFacts DEF AddReject, Pcs
  <2>3. QED
    BY <1>2, <2>2 DEF AddReject, HubTypeOK, registryVars, notifyVars
<1>3. CASE SnapshotWaiters(p)
  <2>1. txn[p] # Idle
    BY <1>3, AtIsNotIdle DEF SnapshotWaiters
  <2>2. txn' \in [Procs -> Transaction \cup {Idle}]
    BY <1>3, <2>1, GotoFacts DEF SnapshotWaiters, Pcs
  <2>3. todo' \in [Procs -> Seq(Callbacks)]
    BY <1>3, <1>0, <2>1, TransactionFacts DEF SnapshotWaiters
  <2>4. QED
    BY <1>3, <2>2, <2>3 DEF SnapshotWaiters, HubTypeOK, registryVars
<1>4. CASE NotifyNext(p)
  <2>1. txn[p] # Idle
    BY <1>4, AtIsNotIdle DEF NotifyNext
  <2>2. txn[p].name \in Names /\ txn[p].arg \in Binders
    BY <1>4, <2>1, TransactionFacts DEF NotifyNext, At
  <2>3. todo' \in [Procs -> Seq(Callbacks)] /\ Head(todo[p]) \in Callbacks
    BY <1>4, <1>0, HeadTailProperties DEF NotifyNext
  <2>4. heard' \in [Callbacks -> SUBSET (Names \X Binders)]
    BY <1>4, <1>0, <2>2, <2>3 DEF NotifyNext, Tell
  <2>5. QED
    BY <1>4, <2>3, <2>4 DEF NotifyNext, HubTypeOK, registryVars
<1>5. CASE AddReply(p)
  <2>1. txn[p] # Idle
    BY <1>5, AtIsNotIdle DEF AddReply
  <2>2. txn' \in [Procs -> Transaction \cup {Idle}]
    BY <1>5, <2>1, GotoFacts DEF AddReply, Pcs
  <2>3. QED
    BY <1>5, <2>2 DEF AddReply, HubTypeOK, registryVars, notifyVars
<1>6. CASE TryUnregister(p)
  <2>1. txn[p] # Idle
    BY <1>6, AtIsNotIdle DEF TryUnregister
  <2>2. txn' \in [Procs -> Transaction \cup {Idle}]
    BY <1>6, <2>1, GotoFacts DEF TryUnregister, Pcs
  <2>3. services' \in [Names -> Entry \cup {Vacant}]
    BY <1>6, <1>0 DEF TryUnregister
  <2>4. QED
    BY <1>6, <2>2, <2>3 DEF TryUnregister, HubTypeOK, notifyVars
<1>7. CASE ListenLookup(p)
  <2>1. txn[p] # Idle
    BY <1>7, AtIsNotIdle DEF ListenLookup
  <2>2. txn[p].name \in Names /\ txn[p].arg \in Callbacks
    BY <1>7, <2>1, TransactionFacts DEF ListenLookup, At
  <2>3. txn' \in [Procs -> Transaction \cup {Idle}]
    <3>1. Goto(p, "pushing") \/ Goto(p, "denied")
      BY <1>7 DEF ListenLookup
    <3>2. QED
      BY <3>1, <2>1, GotoFacts DEF Pcs
  <2>4. heard' \in [Callbacks -> SUBSET (Names \X Binders)]
    <3>1. services[txn[p].name] # Vacant => services[txn[p].name].binder \in Binders
      BY <1>0, <2>2 DEF Entry
    <3>2. CASE services[txn[p].name] = Vacant
      BY <1>7, <1>0, <3>2 DEF ListenLookup
    <3>3. CASE services[txn[p].name] # Vacant
      <4>1. Tell(txn[p].arg, txn[p].name, services[txn[p].name].binder)
        BY <1>7, <3>3 DEF ListenLookup
      <4>2. QED
        BY <1>0, <2>2, <3>1, <3>3, <4>1 DEF Tell
    <3>4. QED
      BY <3>2, <3>3
  <2>5. QED
    BY <1>7, <2>3, <2>4 DEF ListenLookup, HubTypeOK, registryVars
<1>8. CASE ListenPush(p)
  <2>1. txn[p] # Idle
    BY <1>8, AtIsNotIdle DEF ListenPush
  <2>2. txn[p].name \in Names /\ txn[p].arg \in Callbacks
    BY <1>8, <2>1, TransactionFacts DEF ListenPush, At
  <2>3. txn' \in [Procs -> Transaction \cup {Idle}]
    BY <1>8, <2>1, GotoFacts DEF ListenPush, Pcs
  <2>4. waiters' \in [Names -> Seq(Callbacks)]
    BY <1>8, <1>0, <2>2 DEF ListenPush
  <2>5. QED
    BY <1>8, <2>3, <2>4 DEF ListenPush, HubTypeOK, registryVars
<1>9. CASE Unlisten(p)
  <2>1. txn[p] # Idle
    BY <1>9, AtIsNotIdle DEF Unlisten
  <2>2. txn' \in [Procs -> Transaction \cup {Idle}]
    BY <1>9, <2>1, GotoFacts DEF Unlisten, Pcs
  <2>3. waiters' \in [Names -> Seq(Callbacks)]
    BY <1>9, <1>0, EmptySeq DEF Unlisten
  <2>4. QED
    BY <1>9, <2>2, <2>3 DEF Unlisten, HubTypeOK, registryVars
<1>10. QED
  BY <1>1, <1>2, <1>3, <1>4, <1>5, <1>6, <1>7, <1>8, <1>9 DEF HandleStep

\* The names of a worker are names, and the start order lists the workers.
LEMMA ConstantFacts ==
    /\ \A w \in Workers : w \in Procs /\ w # Absent /\ WorkerNames(w) \subseteq Names
    /\ \A a \in Apps : a \in Procs /\ a \notin Workers /\ a # Absent
    /\ \A i \in 1 .. Len(StartOrder) : StartOrder[i] \in Workers
    /\ Len(StartOrder) \in Nat /\ Len(StartOrder) > 0
    /\ DOMAIN StartOrder = 1 .. Len(StartOrder)
<1> USE HubAssumption, WorkerAssumption
<1>1. ASSUME NEW w \in Workers
      PROVE  w \in Procs /\ w # Absent /\ WorkerNames(w) \subseteq Names
  <2>1. \A i \in DOMAIN NamesOf[w] : NamesOf[w][i] \in Names
    BY ElementOfSeq, LenProperties
  <2>2. QED
    BY <2>1 DEF WorkerNames
<1>2. /\ \A i \in 1 .. Len(StartOrder) : StartOrder[i] \in Workers
      /\ Len(StartOrder) \in Nat /\ Len(StartOrder) > 0
      /\ DOMAIN StartOrder = 1 .. Len(StartOrder)
  BY ElementOfSeq, LenProperties, EmptySeq
<1>3. QED
  BY <1>1, <1>2

\* What only moves transactions and processes keeps the hub's types.
LEMMA HubTypeFrame ==
    ASSUME HubTypeOK, UNCHANGED <<registryVars, notifyVars>>,
           txn' \in [Procs -> Transaction \cup {Idle}], alive' \subseteq Procs
    PROVE  HubTypeOK'
BY DEF HubTypeOK, registryVars, notifyVars

\* The initial state has the declared types.
LEMMA TypeInit == Init => TypeOK
<1> SUFFICES ASSUME Init PROVE TypeOK
  OBVIOUS
<1>1. HubTypeOK
  BY HubAssumption, EmptySeq DEF Init, HubInit, HubTypeOK, Vacant, Idle
<1>2. cur \in 1 .. Len(StartOrder)
  BY ConstantFacts DEF Init
<1>3. QED
  BY <1>1, <1>2 DEF Init, TypeOK, MainPcs, Stages, Running

\* Every step keeps the types.
LEMMA TypeStep ==
    ASSUME TypeOK, [Next]_vars
    PROVE  TypeOK'
<1> USE DEF hubVars, registryVars, notifyVars, workerVars, mainVars, monVars, childVars
<1>a. HubTypeOK /\ txn \in [Procs -> Transaction \cup {Idle}] /\ alive \subseteq Procs
  BY DEF TypeOK, HubTypeOK
<1>b. Current \in Workers
  BY ConstantFacts DEF Current, TypeOK
<1>c. ASSUME Continue PROVE mpc' \in MainPcs /\ cur' \in 1 .. Len(StartOrder)
  <2>1. CASE cur = Len(StartOrder)
    BY <1>c, <2>1 DEF Continue, TypeOK, MainPcs
  <2>2. CASE cur # Len(StartOrder)
    <3>1. mpc' = "spawn" /\ cur' = cur + 1
      BY <1>c, <2>2 DEF Continue
    <3>2. cur \in 1 .. Len(StartOrder) /\ Len(StartOrder) \in Nat
      BY ConstantFacts DEF TypeOK
    <3>3. cur + 1 \in 1 .. Len(StartOrder)
      BY <2>2, <3>2
    <3>4. QED
      BY <3>1, <3>3 DEF MainPcs
  <2>3. QED
    BY <2>1, <2>2
<1>d. ASSUME UNCHANGED hubVars PROVE HubTypeOK'
  BY <1>d, <1>a, HubTypeFrame
<1>1. CASE Fork
  <2>1. HubTypeOK'
    BY <1>1, <1>a, <1>b, HubTypeFrame, ConstantFacts DEF Fork
  <2>2. QED
    BY <1>1, <1>b, <2>1 DEF Fork, TypeOK, MainPcs, Stages, Running
<1>2. CASE SpawnFails
  BY <1>2, <1>b, <1>d DEF SpawnFails, TypeOK, MainPcs, Stages, Running
<1>3. CASE ReserveNames
  <2>1. HubTypeOK'
    BY <1>3, <1>a, <1>b, HubAssumption, ConstantFacts DEF ReserveNames, Reserve, HubTypeOK, Vacant
  <2>2. QED
    BY <1>3, <1>b, <2>1 DEF ReserveNames, TypeOK, MainPcs, Stages, Running
<1>4. CASE Go
  <2>1. stage' \in [Workers -> Stages]
    BY <1>4, <1>b DEF Go, TypeOK, Stages, Running
  <2>2. CASE stage[Current] = "waiting"
    <3>1. /\ mpc' = "poll" /\ checked' = 0 /\ late' = FALSE
          /\ UNCHANGED <<hubVars, victim, published, cur, dropping, monVars, childVars>>
      BY <1>4, <2>2 DEF Go
    <3>2. QED
      BY <1>d, <2>1, <3>1 DEF TypeOK, MainPcs
  <2>3. CASE stage[Current] # "waiting"
    BY <1>4, <1>b, <1>d, <2>1, <2>3 DEF Go, TypeOK, MainPcs
  <2>4. QED
    BY <2>2, <2>3
<1>5. CASE PollName
  BY <1>5, <1>b, <1>d DEF PollName, TypeOK, MainPcs, Stages, Running
<1>6. CASE PollReady
  BY <1>6, <1>b, <1>d DEF PollReady, TypeOK, MainPcs, Stages, Running
<1>7. CASE TryWait
  BY <1>7, <1>b, <1>d DEF TryWait, TypeOK, MainPcs, Stages, Running
<1>8. CASE Push
  BY <1>8, <1>b, <1>c, <1>d DEF Push, TypeOK, MainPcs, Stages, Running
<1>9. CASE Resolve
  BY <1>9, <1>b, <1>c, <1>d DEF Resolve, TypeOK, MainPcs, Stages, Running
<1>10. CASE Launch
  <2>1. HubTypeOK'
    BY <1>10, <1>a, <1>b, HubTypeFrame, ConstantFacts DEF Launch
  <2>2. QED
    BY <1>10, <1>b, <2>1 DEF Launch, TypeOK, MainPcs, Stages, Running
<1>11. CASE LaunchFails
  BY <1>11, <1>b, <1>d DEF LaunchFails, TypeOK, MainPcs, Stages, Running
<1>12. CASE LockChildren
  BY <1>12, <1>b, <1>d DEF LockChildren, TypeOK, MainPcs, Stages, Running
<1>13. CASE DropNext
  BY <1>13, <1>b, <1>d DEF DropNext, TypeOK, MainPcs, Stages, Running
<1>14. CASE DropDone
  BY <1>14, <1>b, <1>d DEF DropDone, TypeOK, MainPcs, Stages, Running
<1>15. CASE KillAndWait
  <2>1. HubTypeOK'
    BY <1>15, <1>a, <1>b, HubTypeFrame, ConstantFacts DEF KillAndWait
  <2>2. QED
    BY <1>15, <1>b, <2>1 DEF KillAndWait, TypeOK, MainPcs, Stages, Running
<1>16. CASE MainRetire
  <2>1. HubTypeOK'
    BY <1>16, <1>a, <1>b, HubAssumption, ConstantFacts DEF MainRetire, RetireReservations, HubTypeOK, Vacant
  <2>2. QED
    BY <1>16, <1>b, <2>1 DEF MainRetire, TypeOK, MainPcs, Stages, Running
<1>17. CASE MainWithdraw
  <2>1. HubTypeOK'
    BY <1>17, <1>a, <1>b, HubAssumption, ConstantFacts DEF MainWithdraw, WithdrawServices, HubTypeOK, Vacant
  <2>2. QED
    BY <1>17, <1>b, <2>1 DEF MainWithdraw, TypeOK, MainPcs, Stages, Running
<1>18. CASE Timeout
  BY <1>18, <1>b, <1>d DEF Timeout, TypeOK, MainPcs, Stages, Running
<1>19. CASE AppsExit
  <2>1. HubTypeOK'
    BY <1>19, <1>a, <1>b, HubTypeFrame, ConstantFacts DEF AppsExit
  <2>2. QED
    BY <1>19, <1>b, <2>1 DEF AppsExit, TypeOK, MainPcs, Stages, Running
<1>20. CASE SupervisorDies
  BY <1>20, <1>b, <1>d DEF SupervisorDies, TypeOK, MainPcs, Stages, Running
<1>21. CASE MonitorWake
  BY <1>21, <1>b, <1>d DEF MonitorWake, TypeOK, MainPcs, Stages, Running
<1>22. CASE MonitorTryWait
  BY <1>22, <1>b, <1>d DEF MonitorTryWait, TypeOK, MainPcs, Stages, Running
<1>23. CASE MonitorRetire
  <2>1. HubTypeOK'
    BY <1>23, <1>a, <1>b, HubAssumption, ConstantFacts DEF MonitorRetire, RetireReservations, HubTypeOK, Vacant
  <2>2. QED
    BY <1>23, <1>b, <2>1 DEF MonitorRetire, TypeOK, MainPcs, Stages, Running
<1>24. CASE MonitorWithdraw
  <2>1. HubTypeOK'
    BY <1>24, <1>a, <1>b, HubAssumption, ConstantFacts DEF MonitorWithdraw, WithdrawServices, HubTypeOK, Vacant
  <2>2. QED
    BY <1>24, <1>b, <2>1 DEF MonitorWithdraw, TypeOK, MainPcs, Stages, Running
<1>25. CASE MonitorSleep
  BY <1>25, <1>b, <1>d DEF MonitorSleep, TypeOK, MainPcs, Stages, Running
<1>26. ASSUME NEW w \in Workers, Worker(w) PROVE TypeOK'
  <2>1. CASE PreExec(w)
    <3>1. HubTypeOK'
      BY <2>1, <1>a, ConstantFacts, HubTypeFrame DEF PreExec, Exits
    <3>2. QED
      BY <2>1, <3>1 DEF PreExec, Exits, TypeOK, MainPcs, Stages, Running
  <2>2. CASE Publish(w)
    <3>1. PICK b \in Binders : CallAdd(w, NamesOf[w][published[w] + 1], b)
      BY <2>2 DEF Publish
    <3>2. NamesOf[w][published[w] + 1] \in Names
      BY <2>2, WorkerAssumption, ElementOfSeq DEF Publish, TypeOK
    <3>3. [op |-> "add", name |-> NamesOf[w][published[w] + 1], arg |-> b, pc |-> "queued"]
            \in Transaction
      BY <3>2 DEF Transaction, Pcs
    <3>4. txn' \in [Procs -> Transaction \cup {Idle}]
      BY <1>a, <3>1, <3>3 DEF CallAdd, Send
    <3>5. HubTypeOK'
      BY <2>2, <1>a, <3>4, HubTypeFrame DEF Publish
    <3>6. QED
      BY <2>2, <3>5 DEF Publish, TypeOK
  <2>3. CASE Published(w)
    <3>1. HubTypeOK'
      BY <2>3, <1>a, ConstantFacts, HubTypeFrame DEF Published
    <3>2. QED
      BY <2>3, <3>1 DEF Published, TypeOK, MainPcs, Stages, Running
  <2>4. CASE WorkerExits(w)
    <3>1. HubTypeOK'
      BY <2>4, <1>a, ConstantFacts, HubTypeFrame DEF WorkerExits, Exits
    <3>2. QED
      BY <2>4, <3>1 DEF WorkerExits, Exits, TypeOK, MainPcs, Stages, Running
  <2>5. CASE OrphanKilled(w)
    <3>1. HubTypeOK'
      BY <2>5, <1>a, ConstantFacts, HubTypeFrame DEF OrphanKilled, Exits
    <3>2. QED
      BY <2>5, <3>1 DEF OrphanKilled, Exits, TypeOK, MainPcs, Stages, Running
  <2>6. QED
    BY <1>26, <2>1, <2>2, <2>3, <2>4, <2>5 DEF Worker
<1>27. ASSUME NEW a \in Apps, App(a) PROVE TypeOK'
  <2>1. CASE AppCalls(a)
    <3>1. ASSUME NEW op \in {"add", "unregister"}, NEW n \in Names, NEW b \in Binders, Send(a, op, n, b)
          PROVE  txn' \in [Procs -> Transaction \cup {Idle}]
      <4>1. [op |-> op, name |-> n, arg |-> b, pc |-> "queued"] \in Transaction
        BY DEF Transaction, Pcs
      <4>2. QED
        BY <1>a, <3>1, <4>1 DEF Send
    <3>2. ASSUME NEW op \in {"listen", "unlisten"}, NEW n \in Names, NEW c \in Callbacks, Send(a, op, n, c)
          PROVE  txn' \in [Procs -> Transaction \cup {Idle}]
      <4>1. [op |-> op, name |-> n, arg |-> c, pc |-> "queued"] \in Transaction
        BY DEF Transaction, Pcs
      <4>2. QED
        BY <1>a, <3>2, <4>1 DEF Send
    <3>3. txn' \in [Procs -> Transaction \cup {Idle}]
      BY <2>1, <3>1, <3>2 DEF AppCalls, CallAdd, CallUnregister, CallListen, CallUnlisten
    <3>4. HubTypeOK'
      BY <2>1, <1>a, <3>3, HubTypeFrame DEF AppCalls
    <3>5. QED
      BY <2>1, <3>4 DEF AppCalls, TypeOK
  <2>2. CASE AppReturns(a)
    <3>1. HubTypeOK'
      BY <2>2, <1>a, ConstantFacts, HubTypeFrame DEF AppReturns, Return
    <3>2. QED
      BY <2>2, <3>1 DEF AppReturns, Return, TypeOK, MainPcs, Stages, Running
  <2>3. CASE AppDies(a)
    <3>1. HubTypeOK'
      BY <2>3, <1>a, ConstantFacts, HubTypeFrame DEF AppDies
    <3>2. QED
      BY <2>3, <3>1 DEF AppDies, TypeOK, MainPcs, Stages, Running
  <2>4. QED
    BY <1>27, <2>1, <2>2, <2>3 DEF App
<1>28. ASSUME NEW q \in Procs, HubStep(q) PROVE TypeOK'
  <2>1. HubTypeOK'
    BY <1>28, <1>a, HandleType DEF HubStep
  <2>2. QED
    BY <1>28, <2>1 DEF HubStep, TypeOK
<1>29. CASE UNCHANGED vars
  <2>1. HubTypeOK'
    BY <1>29, <1>a, HubTypeFrame DEF vars
  <2>2. QED
    BY <1>29, <2>1 DEF vars, TypeOK
<1>30. QED
  BY <1>1, <1>2, <1>3, <1>4, <1>5, <1>6, <1>7, <1>8, <1>9, <1>10, <1>11, <1>12, <1>13, <1>14,
     <1>15, <1>16, <1>17, <1>18, <1>19, <1>20, <1>21, <1>22, <1>23, <1>24, <1>25, <1>26, <1>27, <1>28, <1>29
  DEF Next, Startup, Teardown, Monitor, Finished

\* The variables of the supervisor and the hub (host_services.rs, hub.rs) keep their types;
\* in particular no step of main leads past the end of startup.
THEOREM TypeCorrect == Spec => []TypeOK
<1>1. QED
  BY TypeInit, TypeStep, PTL DEF Spec

-----------------------------------------------------------------------------
(***************************************************************************)
(* The invariant is inductive.  Each lemma takes the steps of one actor.   *)
(***************************************************************************)
\* The types the steps below rely on.
LEMMA StateTypes ==
    ASSUME IInv
    PROVE  /\ stage \in [Workers -> Stages] /\ txn \in [Procs -> Transaction \cup {Idle}]
           /\ reserved \in [Names -> Procs \cup {Absent, Retired}]
           /\ services \in [Names -> Entry \cup {Vacant}]
           /\ cur \in 1 .. Len(StartOrder) /\ children \subseteq Workers /\ dropping \subseteq Workers
           /\ victim \in Workers \cup {Absent} /\ suspect \in Workers \cup {Absent}
           /\ alive \subseteq Procs /\ scan \subseteq Workers
BY DEF IInv, TypeOK, HubTypeOK

\* Workers, apps and the two special owners are told apart.
LEMMA ProcessFacts ==
    /\ \A w \in Workers : w \in Procs /\ w # Absent /\ w # Retired /\ w \notin Apps
    /\ \A w \in Workers : WorkerNames(w) \subseteq Names
    /\ \A a \in Apps : a \in Procs /\ a # Absent /\ a # Retired /\ a \notin Workers
    /\ Absent # Retired /\ Vacant.pid = Absent
BY ConstantFacts, HubAssumption, WorkerAssumption DEF Vacant

\* The worker main is at, and the others in the start order.
LEMMA StartFacts ==
    ASSUME IInv
    PROVE  /\ Current \in Workers /\ cur \in DOMAIN StartOrder /\ cur \in Nat /\ Current = StartOrder[cur]
           /\ \A i \in DOMAIN StartOrder : StartOrder[i] \in Workers /\ i \in Nat
           /\ \A i \in DOMAIN StartOrder : i # cur => StartOrder[i] # StartOrder[cur]
           /\ UNCHANGED cur => Current' = Current
<1>1. cur \in 1 .. Len(StartOrder) /\ DOMAIN StartOrder = 1 .. Len(StartOrder) /\ Len(StartOrder) \in Nat
      /\ \A i \in 1 .. Len(StartOrder) : StartOrder[i] \in Workers
  BY StateTypes, ConstantFacts
<1>2. \A i \in DOMAIN StartOrder : i # cur => StartOrder[i] # StartOrder[cur]
  BY <1>1, WorkerAssumption
<1>3. QED
  BY <1>1, <1>2 DEF Current

\* Workers::spawn and the session setup.
LEMMA StartStep ==
    ASSUME IInv,
           \/ Fork
           \/ SpawnFails
           \/ ReserveNames
           \/ Go
           \/ PollName
           \/ PollReady
           \/ TryWait
           \/ Push
           \/ Resolve
           \/ Launch
           \/ LaunchFails
           \/ Timeout
    PROVE  StateInv'
<1> USE DEF hubVars, registryVars, notifyVars, workerVars, mainVars, monVars, childVars
<1>i. /\ AliveInv /\ ResLockInv /\ ChildLockInv /\ StartupInv /\ VictimInv /\ SuspectInv /\ ChildrenInv
      /\ ReservationInv /\ ReservedFirstInv /\ PublicationInv /\ WithdrawnInv /\ ReservedNamesExclusive
  BY DEF IInv, StateInv
<1>o. ASSUME Continue
      PROVE  \/ mpc' = "launch" /\ cur' = cur /\ Current' = Current /\ cur = Len(StartOrder)
             \/ mpc' = "spawn" /\ cur' = cur + 1 /\ cur' \in DOMAIN StartOrder /\ Current' = StartOrder[cur']
  <2>1. CASE cur = Len(StartOrder)
    BY <1>o, <2>1 DEF Continue, Current
  <2>2. CASE cur # Len(StartOrder)
    <3>1. mpc' = "spawn" /\ cur' = cur + 1
      BY <1>o, <2>2 DEF Continue
    <3>2. cur \in 1 .. Len(StartOrder) /\ Len(StartOrder) \in Nat
      BY StateTypes, ConstantFacts
    <3>3. cur + 1 \in 1 .. Len(StartOrder)
      BY <2>2, <3>2
    <3>4. QED
      BY <3>1, <3>3, ConstantFacts DEF Current
  <2>3. QED
    BY <2>1, <2>2
<1>1. CASE Fork
  <2>1. AliveInv'
    BY <1>1, StateTypes, ProcessFacts, StartFacts, <1>i DEF AliveInv, VictimInv, SuspectInv, Fork, MainAt, Running
  <2>2. ResLockInv'
    BY <1>1, StateTypes, ProcessFacts, StartFacts, <1>i DEF ResLockInv, Fork, MainAt, Running
  <2>3. ChildLockInv'
    BY <1>1, StateTypes, ProcessFacts, StartFacts, <1>i DEF ChildLockInv, Fork, MainAt, Running
  <2>4. StartupInv'
    <3>1. \A i \in DOMAIN StartOrder : i > cur => i # cur
      BY StartFacts
    <3>2. QED
      BY <1>1, <3>1, StateTypes, StartFacts, <1>i DEF StartupInv, ChildrenInv, ChildLockInv, SuspectInv, Fork, MainAt, Up
  <2>5. VictimInv'
    BY <1>1, StateTypes, ProcessFacts, StartFacts, <1>i DEF VictimInv, StartupInv, ChildLockInv, Fork, MainAt, Running
  <2>6. SuspectInv'
    BY <1>1, StateTypes, ProcessFacts, StartFacts, <1>i DEF SuspectInv, ChildLockInv, StartupInv, VictimInv, Fork, MainAt, Running
  <2>7. ChildrenInv'
    BY <1>1, StateTypes, ProcessFacts, StartFacts, <1>i DEF ChildrenInv, ChildLockInv, SuspectInv, VictimInv, StartupInv, Up, Fork, MainAt, Running
  <2>8. ReservedFirstInv'
    BY <1>1, StateTypes, ProcessFacts, StartFacts, <1>i DEF ReservedFirstInv, ReservedFor, StartupInv, VictimInv, ChildrenInv, Fork, MainAt, Running
  <2>9. WithdrawnInv'
    BY <1>1, StateTypes, ProcessFacts, StartFacts, <1>i DEF WithdrawnInv, Owner, ResLockInv, StartupInv, Fork, MainAt, Running
  <2>10. ReservationInv' /\ PublicationInv' /\ ReservedNamesExclusive'
    BY <1>1, StateTypes, StartFacts, <1>i DEF ReservationInv, PublicationInv, ReservedNamesExclusive, Fork, Owner
  <2>11. QED
    BY <2>1, <2>2, <2>3, <2>4, <2>5, <2>6, <2>7, <2>8, <2>9, <2>10 DEF StateInv
<1>2. CASE SpawnFails
  <2>1. ResLockInv'
    BY <1>2, StateTypes, ProcessFacts, StartFacts, <1>i DEF ResLockInv, SpawnFails, MainAt, Running
  <2>2. ChildLockInv'
    BY <1>2, StateTypes, ProcessFacts, StartFacts, <1>i DEF ChildLockInv, SpawnFails, MainAt, Running
  <2>3. StartupInv'
    BY <1>2, StateTypes, ProcessFacts, StartFacts, <1>i DEF StartupInv, Up, SpawnFails, MainAt, Running
  <2>4. VictimInv'
    BY <1>2, StateTypes, ProcessFacts, StartFacts, <1>i DEF VictimInv, StartupInv, ChildLockInv, SpawnFails, MainAt, Running
  <2>5. ChildrenInv'
    BY <1>2, StateTypes, ProcessFacts, StartFacts, <1>i DEF ChildrenInv, ChildLockInv, SuspectInv, VictimInv, StartupInv, Up, SpawnFails, MainAt, Running
  <2>6. ReservedFirstInv'
    BY <1>2, StateTypes, ProcessFacts, StartFacts, <1>i DEF ReservedFirstInv, ReservedFor, StartupInv, VictimInv, ChildrenInv, SpawnFails, MainAt, Running
  <2>7. AliveInv' /\ SuspectInv' /\ ReservationInv' /\ PublicationInv' /\ WithdrawnInv' /\ ReservedNamesExclusive'
    BY <1>2, StateTypes, StartFacts, <1>i DEF AliveInv, SuspectInv, ReservationInv, PublicationInv, WithdrawnInv, ReservedNamesExclusive, SpawnFails, Owner
  <2>8. QED
    BY <2>1, <2>2, <2>3, <2>4, <2>5, <2>6, <2>7 DEF StateInv
<1>3. CASE ReserveNames
  <2>1. ResLockInv'
    BY <1>3, StateTypes, ProcessFacts, StartFacts, <1>i DEF ResLockInv, ReserveNames, Reserve, MainAt, Running
  <2>2. ChildLockInv'
    BY <1>3, StateTypes, ProcessFacts, StartFacts, <1>i DEF ChildLockInv, ReserveNames, Reserve, MainAt, Running
  <2>3. StartupInv'
    BY <1>3, StateTypes, ProcessFacts, StartFacts, <1>i DEF StartupInv, Up, ReserveNames, Reserve, MainAt, Running
  <2>4. VictimInv'
    BY <1>3, StateTypes, ProcessFacts, StartFacts, <1>i DEF VictimInv, StartupInv, ChildLockInv, ReserveNames, Reserve, MainAt, Running
  <2>5. ChildrenInv'
    BY <1>3, StateTypes, ProcessFacts, StartFacts, <1>i DEF ChildrenInv, ChildLockInv, SuspectInv, VictimInv, StartupInv, Up, ReserveNames, Reserve, MainAt, Running
  <2>6. ReservationInv'
    <3>1. \A w \in Workers : \A n \in WorkerNames(w) : n \in WorkerNames(Current) => w = Current
      BY StartFacts, WorkerAssumption
    <3>2. QED
      BY <1>3, <3>1, StateTypes, ProcessFacts, StartFacts, <1>i DEF ReservationInv, ReserveNames, Reserve
  <2>7. ReservedFirstInv'
    BY <1>3, StateTypes, ProcessFacts, StartFacts, <1>i DEF ReservedFirstInv, ReservedFor, StartupInv, VictimInv, ChildrenInv, ReserveNames, Reserve, MainAt, Running
  <2>8. WithdrawnInv'
    BY <1>3, StateTypes, ProcessFacts, StartFacts, <1>i DEF WithdrawnInv, Owner, ResLockInv, StartupInv, ReserveNames, Reserve, MainAt, Running
  <2>9. AliveInv' /\ SuspectInv' /\ PublicationInv' /\ ReservedNamesExclusive'
    BY <1>3, StateTypes, StartFacts, <1>i DEF AliveInv, SuspectInv, PublicationInv, ReservedNamesExclusive, ReserveNames, Owner, Reserve
  <2>10. QED
    BY <2>1, <2>2, <2>3, <2>4, <2>5, <2>6, <2>7, <2>8, <2>9 DEF StateInv
<1>4. CASE Go
  <2>1. AliveInv'
    BY <1>4, StateTypes, ProcessFacts, StartFacts, <1>i DEF AliveInv, VictimInv, SuspectInv, Go, MainAt, Running
  <2>2. ResLockInv'
    BY <1>4, StateTypes, ProcessFacts, StartFacts, <1>i DEF ResLockInv, Go, MainAt, Running
  <2>3. ChildLockInv'
    BY <1>4, StateTypes, ProcessFacts, StartFacts, <1>i DEF ChildLockInv, Go, MainAt, Running
  <2>4. StartupInv'
    BY <1>4, StateTypes, ProcessFacts, StartFacts, <1>i DEF StartupInv, Up, Go, MainAt, Running
  <2>5. VictimInv'
    BY <1>4, StateTypes, ProcessFacts, StartFacts, <1>i DEF VictimInv, StartupInv, ChildLockInv, Go, MainAt, Running
  <2>6. SuspectInv'
    BY <1>4, StateTypes, ProcessFacts, StartFacts, <1>i DEF SuspectInv, ChildLockInv, StartupInv, VictimInv, Go, MainAt, Running
  <2>7. ChildrenInv'
    BY <1>4, StateTypes, ProcessFacts, StartFacts, <1>i DEF ChildrenInv, ChildLockInv, SuspectInv, VictimInv, StartupInv, Up, Go, MainAt, Running
  <2>8. ReservedFirstInv'
    BY <1>4, StateTypes, ProcessFacts, StartFacts, <1>i DEF ReservedFirstInv, ReservedFor, StartupInv, VictimInv, ChildrenInv, Go, MainAt, Running
  <2>9. WithdrawnInv'
    BY <1>4, StateTypes, ProcessFacts, StartFacts, <1>i DEF WithdrawnInv, Owner, ResLockInv, StartupInv, Go, MainAt, Running
  <2>10. ReservationInv' /\ PublicationInv' /\ ReservedNamesExclusive'
    BY <1>4, StateTypes, StartFacts, <1>i DEF ReservationInv, PublicationInv, ReservedNamesExclusive, Go, Owner
  <2>11. QED
    BY <2>1, <2>2, <2>3, <2>4, <2>5, <2>6, <2>7, <2>8, <2>9, <2>10 DEF StateInv
<1>5. CASE PollName
  <2>1. ResLockInv'
    BY <1>5, StateTypes, ProcessFacts, StartFacts, <1>i DEF ResLockInv, PollName, MainAt, Running
  <2>2. ChildLockInv'
    BY <1>5, StateTypes, ProcessFacts, StartFacts, <1>i DEF ChildLockInv, PollName, MainAt, Running
  <2>3. StartupInv'
    BY <1>5, StateTypes, ProcessFacts, StartFacts, <1>i DEF StartupInv, Up, PollName, MainAt, Running
  <2>4. VictimInv'
    BY <1>5, StateTypes, ProcessFacts, StartFacts, <1>i DEF VictimInv, StartupInv, ChildLockInv, PollName, MainAt, Running
  <2>5. ChildrenInv'
    BY <1>5, StateTypes, ProcessFacts, StartFacts, <1>i DEF ChildrenInv, ChildLockInv, SuspectInv, VictimInv, StartupInv, Up, PollName, MainAt, Running
  <2>6. ReservedFirstInv'
    BY <1>5, StateTypes, ProcessFacts, StartFacts, <1>i DEF ReservedFirstInv, ReservedFor, StartupInv, VictimInv, ChildrenInv, PollName, MainAt, Running
  <2>7. AliveInv' /\ SuspectInv' /\ ReservationInv' /\ PublicationInv' /\ WithdrawnInv' /\ ReservedNamesExclusive'
    BY <1>5, StateTypes, StartFacts, <1>i DEF AliveInv, SuspectInv, ReservationInv, PublicationInv, WithdrawnInv, ReservedNamesExclusive, PollName, Owner
  <2>8. QED
    BY <2>1, <2>2, <2>3, <2>4, <2>5, <2>6, <2>7 DEF StateInv
<1>6. CASE PollReady
  <2>1. ResLockInv'
    BY <1>6, StateTypes, ProcessFacts, StartFacts, <1>i DEF ResLockInv, PollReady, MainAt, Running
  <2>2. ChildLockInv'
    BY <1>6, StateTypes, ProcessFacts, StartFacts, <1>i DEF ChildLockInv, PollReady, MainAt, Running
  <2>3. StartupInv'
    BY <1>6, StateTypes, ProcessFacts, StartFacts, <1>i DEF StartupInv, Up, PollReady, MainAt, Running
  <2>4. VictimInv'
    BY <1>6, StateTypes, ProcessFacts, StartFacts, <1>i DEF VictimInv, StartupInv, ChildLockInv, PollReady, MainAt, Running
  <2>5. ChildrenInv'
    BY <1>6, StateTypes, ProcessFacts, StartFacts, <1>i DEF ChildrenInv, ChildLockInv, SuspectInv, VictimInv, StartupInv, Up, PollReady, MainAt, Running
  <2>6. ReservedFirstInv'
    BY <1>6, StateTypes, ProcessFacts, StartFacts, <1>i DEF ReservedFirstInv, ReservedFor, StartupInv, VictimInv, ChildrenInv, PollReady, MainAt, Running
  <2>7. AliveInv' /\ SuspectInv' /\ ReservationInv' /\ PublicationInv' /\ WithdrawnInv' /\ ReservedNamesExclusive'
    BY <1>6, StateTypes, StartFacts, <1>i DEF AliveInv, SuspectInv, ReservationInv, PublicationInv, WithdrawnInv, ReservedNamesExclusive, PollReady, Owner
  <2>8. QED
    BY <2>1, <2>2, <2>3, <2>4, <2>5, <2>6, <2>7 DEF StateInv
<1>7. CASE TryWait
  <2>1. AliveInv'
    BY <1>7, StateTypes, ProcessFacts, StartFacts, <1>i DEF AliveInv, VictimInv, SuspectInv, TryWait, MainAt, Running
  <2>2. ResLockInv'
    BY <1>7, StateTypes, ProcessFacts, StartFacts, <1>i DEF ResLockInv, TryWait, MainAt, Running
  <2>3. ChildLockInv'
    BY <1>7, StateTypes, ProcessFacts, StartFacts, <1>i DEF ChildLockInv, TryWait, MainAt, Running
  <2>4. StartupInv'
    BY <1>7, StateTypes, ProcessFacts, StartFacts, <1>i DEF StartupInv, Up, TryWait, MainAt, Running
  <2>5. VictimInv'
    BY <1>7, StateTypes, ProcessFacts, StartFacts, <1>i DEF VictimInv, StartupInv, ChildLockInv, TryWait, MainAt, Running
  <2>6. SuspectInv'
    BY <1>7, StateTypes, ProcessFacts, StartFacts, <1>i DEF SuspectInv, ChildLockInv, StartupInv, VictimInv, TryWait, MainAt, Running
  <2>7. ChildrenInv'
    BY <1>7, StateTypes, ProcessFacts, StartFacts, <1>i DEF ChildrenInv, ChildLockInv, SuspectInv, VictimInv, StartupInv, Up, TryWait, MainAt, Running
  <2>8. ReservedFirstInv'
    BY <1>7, StateTypes, ProcessFacts, StartFacts, <1>i DEF ReservedFirstInv, ReservedFor, StartupInv, VictimInv, ChildrenInv, TryWait, MainAt, Running
  <2>9. WithdrawnInv'
    BY <1>7, StateTypes, ProcessFacts, StartFacts, <1>i DEF WithdrawnInv, Owner, ResLockInv, StartupInv, TryWait, MainAt, Running
  <2>10. ReservationInv' /\ PublicationInv' /\ ReservedNamesExclusive'
    BY <1>7, StateTypes, StartFacts, <1>i DEF ReservationInv, PublicationInv, ReservedNamesExclusive, TryWait, Owner
  <2>11. QED
    BY <2>1, <2>2, <2>3, <2>4, <2>5, <2>6, <2>7, <2>8, <2>9, <2>10 DEF StateInv
<1>8. CASE Push
  <2>1. ResLockInv'
    BY <1>8, StateTypes, ProcessFacts, StartFacts, <1>i DEF ResLockInv, Push, Continue, MainAt, Running
  <2>2. ChildLockInv'
    BY <1>8, StateTypes, ProcessFacts, StartFacts, <1>i DEF ChildLockInv, Push, Continue, MainAt, Running
  <2>3. StartupInv'
    <3>1. CASE Continue
      BY <1>8, <1>o, <3>1, StateTypes, StartFacts, <1>i DEF StartupInv, Push, MainAt
    <3>2. CASE ~Continue
      BY <1>8, <3>2, StateTypes, StartFacts, <1>i DEF StartupInv, Push, MainAt
    <3>3. QED
      BY <3>1, <3>2
  <2>4. VictimInv'
    BY <1>8, StateTypes, ProcessFacts, StartFacts, <1>i DEF VictimInv, StartupInv, ChildLockInv, Push, Continue, MainAt, Running
  <2>5. SuspectInv'
    BY <1>8, StateTypes, ProcessFacts, StartFacts, <1>i DEF SuspectInv, ChildLockInv, StartupInv, VictimInv, Push, Continue, MainAt, Running
  <2>6. ChildrenInv'
    BY <1>8, StateTypes, ProcessFacts, StartFacts, <1>i DEF ChildrenInv, ChildLockInv, SuspectInv, VictimInv, StartupInv, Up, Push, Continue, MainAt, Running
  <2>7. ReservedFirstInv'
    BY <1>8, StateTypes, ProcessFacts, StartFacts, <1>i DEF ReservedFirstInv, ReservedFor, StartupInv, VictimInv, ChildrenInv, Push, Continue, MainAt, Running
  <2>8. AliveInv' /\ ReservationInv' /\ PublicationInv' /\ WithdrawnInv' /\ ReservedNamesExclusive'
    BY <1>8, StateTypes, StartFacts, <1>i DEF AliveInv, ReservationInv, PublicationInv, WithdrawnInv, ReservedNamesExclusive, Push, Owner, Continue
  <2>9. QED
    BY <2>1, <2>2, <2>3, <2>4, <2>5, <2>6, <2>7, <2>8 DEF StateInv
<1>9. CASE Resolve
  <2>1. ResLockInv'
    BY <1>9, StateTypes, ProcessFacts, StartFacts, <1>i DEF ResLockInv, Resolve, Continue, MainAt, Running
  <2>2. ChildLockInv'
    BY <1>9, StateTypes, ProcessFacts, StartFacts, <1>i DEF ChildLockInv, Resolve, Continue, MainAt, Running
  <2>3. StartupInv'
    <3>1. CASE Continue
      BY <1>9, <1>o, <3>1, StateTypes, StartFacts, <1>i DEF StartupInv, Resolve, MainAt
    <3>2. CASE ~Continue
      BY <1>9, <3>2, StateTypes, StartFacts, <1>i DEF StartupInv, Resolve, MainAt
    <3>3. QED
      BY <3>1, <3>2
  <2>4. VictimInv'
    BY <1>9, StateTypes, ProcessFacts, StartFacts, <1>i DEF VictimInv, StartupInv, ChildLockInv, Resolve, Continue, MainAt, Running
  <2>5. ChildrenInv'
    BY <1>9, StateTypes, ProcessFacts, StartFacts, <1>i DEF ChildrenInv, ChildLockInv, SuspectInv, VictimInv, StartupInv, Up, Resolve, Continue, MainAt, Running
  <2>6. ReservedFirstInv'
    BY <1>9, StateTypes, ProcessFacts, StartFacts, <1>i DEF ReservedFirstInv, ReservedFor, StartupInv, VictimInv, ChildrenInv, Resolve, Continue, MainAt, Running
  <2>7. AliveInv' /\ SuspectInv' /\ ReservationInv' /\ PublicationInv' /\ WithdrawnInv' /\ ReservedNamesExclusive'
    BY <1>9, StateTypes, StartFacts, <1>i DEF AliveInv, SuspectInv, ReservationInv, PublicationInv, WithdrawnInv, ReservedNamesExclusive, Resolve, Owner, Continue
  <2>8. QED
    BY <2>1, <2>2, <2>3, <2>4, <2>5, <2>6, <2>7 DEF StateInv
<1>10. CASE Launch
  <2>1. AliveInv'
    BY <1>10, StateTypes, ProcessFacts, StartFacts, <1>i DEF AliveInv, VictimInv, SuspectInv, Launch, MainAt, Running
  <2>2. ResLockInv'
    BY <1>10, StateTypes, ProcessFacts, StartFacts, <1>i DEF ResLockInv, Launch, MainAt, Running
  <2>3. ChildLockInv'
    BY <1>10, StateTypes, ProcessFacts, StartFacts, <1>i DEF ChildLockInv, Launch, MainAt, Running
  <2>4. StartupInv'
    BY <1>10, StateTypes, ProcessFacts, StartFacts, <1>i DEF StartupInv, Up, Launch, MainAt, Running
  <2>5. VictimInv'
    BY <1>10, StateTypes, ProcessFacts, StartFacts, <1>i DEF VictimInv, StartupInv, ChildLockInv, Launch, MainAt, Running
  <2>6. ChildrenInv'
    BY <1>10, StateTypes, ProcessFacts, StartFacts, <1>i DEF ChildrenInv, ChildLockInv, SuspectInv, VictimInv, StartupInv, Up, Launch, MainAt, Running
  <2>7. ReservedFirstInv'
    <3>1. \A w \in Workers : ReservedFor(w)
      <4>1. ASSUME NEW w \in Workers PROVE ReservedFor(w)
        <5>1. PICK k \in DOMAIN StartOrder : StartOrder[k] = w
          BY WorkerAssumption
        <5>2. k <= cur
          BY <1>10, <1>i, StateTypes, <5>1, ConstantFacts DEF Launch, MainAt, StartupInv
        <5>3. k = cur \/ k < cur
          BY StartFacts, <5>2
        <5>4. QED
          BY <1>10, <1>i, StartFacts, <5>1, <5>3 DEF Launch, MainAt, ReservedFirstInv
      <4>2. QED
        BY <4>1
    <3>2. QED
      BY <1>10, <3>1, StateTypes, ProcessFacts, StartFacts, <1>i DEF ReservedFirstInv, ReservedFor, Launch, MainAt
  <2>8. SuspectInv' /\ ReservationInv' /\ PublicationInv' /\ WithdrawnInv' /\ ReservedNamesExclusive'
    BY <1>10, StateTypes, StartFacts, <1>i DEF SuspectInv, ReservationInv, PublicationInv, WithdrawnInv, ReservedNamesExclusive, Launch, Owner
  <2>9. QED
    BY <2>1, <2>2, <2>3, <2>4, <2>5, <2>6, <2>7, <2>8 DEF StateInv
<1>11. CASE LaunchFails
  <2>1. ResLockInv'
    BY <1>11, StateTypes, ProcessFacts, StartFacts, <1>i DEF ResLockInv, LaunchFails, MainAt, Running
  <2>2. ChildLockInv'
    BY <1>11, StateTypes, ProcessFacts, StartFacts, <1>i DEF ChildLockInv, LaunchFails, MainAt, Running
  <2>3. StartupInv'
    BY <1>11, StateTypes, ProcessFacts, StartFacts, <1>i DEF StartupInv, Up, LaunchFails, MainAt, Running
  <2>4. VictimInv'
    BY <1>11, StateTypes, ProcessFacts, StartFacts, <1>i DEF VictimInv, StartupInv, ChildLockInv, LaunchFails, MainAt, Running
  <2>5. ChildrenInv'
    BY <1>11, StateTypes, ProcessFacts, StartFacts, <1>i DEF ChildrenInv, ChildLockInv, SuspectInv, VictimInv, StartupInv, Up, LaunchFails, MainAt, Running
  <2>6. ReservedFirstInv'
    BY <1>11, StateTypes, ProcessFacts, StartFacts, <1>i DEF ReservedFirstInv, ReservedFor, StartupInv, VictimInv, ChildrenInv, LaunchFails, MainAt, Running
  <2>7. AliveInv' /\ SuspectInv' /\ ReservationInv' /\ PublicationInv' /\ WithdrawnInv' /\ ReservedNamesExclusive'
    BY <1>11, StateTypes, StartFacts, <1>i DEF AliveInv, SuspectInv, ReservationInv, PublicationInv, WithdrawnInv, ReservedNamesExclusive, LaunchFails, Owner
  <2>8. QED
    BY <2>1, <2>2, <2>3, <2>4, <2>5, <2>6, <2>7 DEF StateInv
<1>12. CASE Timeout
  <2>1. AliveInv' /\ ResLockInv' /\ ChildLockInv' /\ StartupInv' /\ VictimInv' /\ SuspectInv'
    BY <1>12, StateTypes, StartFacts, <1>i DEF AliveInv, ResLockInv, ChildLockInv, StartupInv, VictimInv, SuspectInv, Timeout
  <2>2. ChildrenInv' /\ ReservationInv' /\ ReservedFirstInv' /\ PublicationInv' /\ WithdrawnInv' /\ ReservedNamesExclusive'
    BY <1>12, StateTypes, StartFacts, <1>i DEF ChildrenInv, ReservationInv, ReservedFirstInv, PublicationInv, WithdrawnInv, ReservedNamesExclusive, Timeout, Owner, ReservedFor, Up
  <2>3. QED
    BY <2>1, <2>2 DEF StateInv
<1>13. QED
  BY <1>1, <1>2, <1>3, <1>4, <1>5, <1>6, <1>7, <1>8, <1>9, <1>10, <1>11, <1>12

\* The failure path of spawn, Drop, and the end of the session.
LEMMA TeardownStep ==
    ASSUME IInv,
           \/ AppsExit
           \/ LockChildren
           \/ DropNext
           \/ DropDone
           \/ KillAndWait
           \/ MainRetire
           \/ MainWithdraw
           \/ SupervisorDies
    PROVE  StateInv'
<1> USE DEF hubVars, registryVars, notifyVars, workerVars, mainVars, monVars, childVars
<1>i. /\ AliveInv /\ ResLockInv /\ ChildLockInv /\ StartupInv /\ VictimInv /\ SuspectInv /\ ChildrenInv
      /\ ReservationInv /\ ReservedFirstInv /\ PublicationInv /\ WithdrawnInv /\ ReservedNamesExclusive
  BY DEF IInv, StateInv
<1>1. CASE AppsExit
  <2>1. AliveInv'
    BY <1>1, StateTypes, ProcessFacts, StartFacts, <1>i DEF AliveInv, VictimInv, SuspectInv, AppsExit, MainAt, Running
  <2>2. ResLockInv'
    BY <1>1, StateTypes, ProcessFacts, StartFacts, <1>i DEF ResLockInv, AppsExit, MainAt, Running
  <2>3. ChildLockInv'
    BY <1>1, StateTypes, ProcessFacts, StartFacts, <1>i DEF ChildLockInv, AppsExit, MainAt, Running
  <2>4. StartupInv'
    BY <1>1, StateTypes, ProcessFacts, StartFacts, <1>i DEF StartupInv, Up, AppsExit, MainAt, Running
  <2>5. VictimInv'
    BY <1>1, StateTypes, ProcessFacts, StartFacts, <1>i DEF VictimInv, StartupInv, ChildLockInv, AppsExit, MainAt, Running
  <2>6. ChildrenInv'
    BY <1>1, StateTypes, ProcessFacts, StartFacts, <1>i DEF ChildrenInv, ChildLockInv, SuspectInv, VictimInv, StartupInv, Up, AppsExit, MainAt, Running
  <2>7. ReservedFirstInv'
    BY <1>1, StateTypes, ProcessFacts, StartFacts, <1>i DEF ReservedFirstInv, ReservedFor, StartupInv, VictimInv, ChildrenInv, AppsExit, MainAt, Running
  <2>8. SuspectInv' /\ ReservationInv' /\ PublicationInv' /\ WithdrawnInv' /\ ReservedNamesExclusive'
    BY <1>1, StateTypes, StartFacts, <1>i DEF SuspectInv, ReservationInv, PublicationInv, WithdrawnInv, ReservedNamesExclusive, AppsExit, Owner
  <2>9. QED
    BY <2>1, <2>2, <2>3, <2>4, <2>5, <2>6, <2>7, <2>8 DEF StateInv
<1>2. CASE LockChildren
  <2>1. ResLockInv'
    BY <1>2, StateTypes, ProcessFacts, StartFacts, <1>i DEF ResLockInv, LockChildren, MainAt, Running
  <2>2. ChildLockInv'
    BY <1>2, StateTypes, ProcessFacts, StartFacts, <1>i DEF ChildLockInv, LockChildren, MainAt, Running
  <2>3. StartupInv'
    BY <1>2, StateTypes, ProcessFacts, StartFacts, <1>i DEF StartupInv, Up, LockChildren, MainAt, Running
  <2>4. VictimInv'
    BY <1>2, StateTypes, ProcessFacts, StartFacts, <1>i DEF VictimInv, StartupInv, ChildLockInv, LockChildren, MainAt, Running
  <2>5. ChildrenInv'
    BY <1>2, StateTypes, ProcessFacts, StartFacts, <1>i DEF ChildrenInv, ChildLockInv, SuspectInv, VictimInv, StartupInv, Up, LockChildren, MainAt, Running
  <2>6. ReservedFirstInv'
    BY <1>2, StateTypes, ProcessFacts, StartFacts, <1>i DEF ReservedFirstInv, ReservedFor, StartupInv, VictimInv, ChildrenInv, LockChildren, MainAt, Running
  <2>7. AliveInv' /\ SuspectInv' /\ ReservationInv' /\ PublicationInv' /\ WithdrawnInv' /\ ReservedNamesExclusive'
    BY <1>2, StateTypes, StartFacts, <1>i DEF AliveInv, SuspectInv, ReservationInv, PublicationInv, WithdrawnInv, ReservedNamesExclusive, LockChildren, Owner
  <2>8. QED
    BY <2>1, <2>2, <2>3, <2>4, <2>5, <2>6, <2>7 DEF StateInv
<1>3. CASE DropNext
  <2>1. ResLockInv'
    BY <1>3, StateTypes, ProcessFacts, StartFacts, <1>i DEF ResLockInv, DropNext, MainAt, Running
  <2>2. ChildLockInv'
    BY <1>3, StateTypes, ProcessFacts, StartFacts, <1>i DEF ChildLockInv, DropNext, MainAt, Running
  <2>3. StartupInv'
    BY <1>3, StateTypes, ProcessFacts, StartFacts, <1>i DEF StartupInv, Up, DropNext, MainAt, Running
  <2>4. VictimInv'
    BY <1>3, StateTypes, ProcessFacts, StartFacts, <1>i DEF VictimInv, StartupInv, ChildLockInv, ChildrenInv, SuspectInv, Up, DropNext, MainAt, Running
  <2>5. ChildrenInv'
    BY <1>3, StateTypes, ProcessFacts, StartFacts, <1>i DEF ChildrenInv, ChildLockInv, SuspectInv, VictimInv, StartupInv, Up, DropNext, MainAt, Running
  <2>6. ReservedFirstInv'
    BY <1>3, StateTypes, ProcessFacts, StartFacts, <1>i DEF ReservedFirstInv, ReservedFor, VictimInv, ChildLockInv, DropNext, MainAt, Running
  <2>7. AliveInv' /\ SuspectInv' /\ ReservationInv' /\ PublicationInv' /\ WithdrawnInv' /\ ReservedNamesExclusive'
    BY <1>3, StateTypes, StartFacts, <1>i DEF AliveInv, SuspectInv, ReservationInv, PublicationInv, WithdrawnInv, ReservedNamesExclusive, DropNext, Owner
  <2>8. QED
    BY <2>1, <2>2, <2>3, <2>4, <2>5, <2>6, <2>7 DEF StateInv
<1>4. CASE DropDone
  <2>1. ResLockInv'
    BY <1>4, StateTypes, ProcessFacts, StartFacts, <1>i DEF ResLockInv, DropDone, MainAt, Running
  <2>2. ChildLockInv'
    BY <1>4, StateTypes, ProcessFacts, StartFacts, <1>i DEF ChildLockInv, DropDone, MainAt, Running
  <2>3. StartupInv'
    BY <1>4, StateTypes, ProcessFacts, StartFacts, <1>i DEF StartupInv, Up, DropDone, MainAt, Running
  <2>4. VictimInv'
    BY <1>4, StateTypes, ProcessFacts, StartFacts, <1>i DEF VictimInv, StartupInv, ChildLockInv, DropDone, MainAt, Running
  <2>5. ChildrenInv'
    BY <1>4, StateTypes, ProcessFacts, StartFacts, <1>i DEF ChildrenInv, ChildLockInv, SuspectInv, VictimInv, StartupInv, Up, DropDone, MainAt, Running
  <2>6. ReservedFirstInv'
    BY <1>4, StateTypes, ProcessFacts, StartFacts, <1>i DEF ReservedFirstInv, ReservedFor, StartupInv, VictimInv, ChildrenInv, DropDone, MainAt, Running
  <2>7. AliveInv' /\ SuspectInv' /\ ReservationInv' /\ PublicationInv' /\ WithdrawnInv' /\ ReservedNamesExclusive'
    BY <1>4, StateTypes, StartFacts, <1>i DEF AliveInv, SuspectInv, ReservationInv, PublicationInv, WithdrawnInv, ReservedNamesExclusive, DropDone, Owner
  <2>8. QED
    BY <2>1, <2>2, <2>3, <2>4, <2>5, <2>6, <2>7 DEF StateInv
<1>5. CASE KillAndWait
  <2>1. AliveInv'
    BY <1>5, StateTypes, ProcessFacts, StartFacts, <1>i DEF AliveInv, VictimInv, SuspectInv, KillAndWait, MainAt, Running
  <2>2. ResLockInv'
    BY <1>5, StateTypes, ProcessFacts, StartFacts, <1>i DEF ResLockInv, KillAndWait, MainAt, Running
  <2>3. ChildLockInv'
    BY <1>5, StateTypes, ProcessFacts, StartFacts, <1>i DEF ChildLockInv, KillAndWait, MainAt, Running
  <2>4. StartupInv'
    BY <1>5, StateTypes, ProcessFacts, StartFacts, <1>i DEF StartupInv, VictimInv, KillAndWait, MainAt, Running
  <2>5. VictimInv'
    BY <1>5, StateTypes, ProcessFacts, StartFacts, <1>i DEF VictimInv, StartupInv, ChildLockInv, KillAndWait, MainAt, Running
  <2>6. SuspectInv'
    BY <1>5, StateTypes, ProcessFacts, StartFacts, <1>i DEF SuspectInv, ChildLockInv, StartupInv, VictimInv, KillAndWait, MainAt, Running
  <2>7. ChildrenInv'
    BY <1>5, StateTypes, ProcessFacts, StartFacts, <1>i DEF ChildrenInv, ChildLockInv, SuspectInv, VictimInv, StartupInv, Up, KillAndWait, MainAt, Running
  <2>8. ReservedFirstInv'
    BY <1>5, StateTypes, ProcessFacts, StartFacts, <1>i DEF ReservedFirstInv, ReservedFor, StartupInv, VictimInv, ChildrenInv, KillAndWait, MainAt, Running
  <2>9. WithdrawnInv'
    BY <1>5, StateTypes, ProcessFacts, StartFacts, <1>i DEF WithdrawnInv, Owner, ResLockInv, StartupInv, KillAndWait, MainAt, Running
  <2>10. ReservationInv' /\ PublicationInv' /\ ReservedNamesExclusive'
    BY <1>5, StateTypes, StartFacts, <1>i DEF ReservationInv, PublicationInv, ReservedNamesExclusive, KillAndWait, Owner
  <2>11. QED
    BY <2>1, <2>2, <2>3, <2>4, <2>5, <2>6, <2>7, <2>8, <2>9, <2>10 DEF StateInv
<1>6. CASE MainRetire
  <2>1. ResLockInv'
    BY <1>6, StateTypes, ProcessFacts, StartFacts, <1>i DEF ResLockInv, MainRetire, RetireReservations, MainAt, Running
  <2>2. ChildLockInv'
    BY <1>6, StateTypes, ProcessFacts, StartFacts, <1>i DEF ChildLockInv, MainRetire, RetireReservations, MainAt, Running
  <2>3. StartupInv'
    BY <1>6, StateTypes, ProcessFacts, StartFacts, <1>i DEF StartupInv, Up, MainRetire, RetireReservations, MainAt, Running
  <2>4. VictimInv'
    BY <1>6, StateTypes, ProcessFacts, StartFacts, <1>i DEF VictimInv, StartupInv, ChildLockInv, MainRetire, RetireReservations, MainAt, Running
  <2>5. ChildrenInv'
    BY <1>6, StateTypes, ProcessFacts, StartFacts, <1>i DEF ChildrenInv, ChildLockInv, SuspectInv, VictimInv, StartupInv, Up, MainRetire, RetireReservations, MainAt, Running
  <2>6. ReservationInv'
    BY <1>6, StateTypes, ProcessFacts, StartFacts, <1>i DEF ReservationInv, MainRetire, RetireReservations, MainAt, Running
  <2>7. ReservedFirstInv'
    BY <1>6, StateTypes, ProcessFacts, StartFacts, <1>i DEF ReservedFirstInv, ReservedFor, StartupInv, VictimInv, ChildrenInv, MainRetire, RetireReservations, MainAt, Running
  <2>8. WithdrawnInv'
    BY <1>6, StateTypes, ProcessFacts, StartFacts, <1>i DEF WithdrawnInv, Owner, ResLockInv, StartupInv, MainRetire, RetireReservations, MainAt, Running
  <2>9. AliveInv' /\ SuspectInv' /\ PublicationInv' /\ ReservedNamesExclusive'
    BY <1>6, StateTypes, StartFacts, <1>i DEF AliveInv, SuspectInv, PublicationInv, ReservedNamesExclusive, MainRetire, Owner, RetireReservations
  <2>10. QED
    BY <2>1, <2>2, <2>3, <2>4, <2>5, <2>6, <2>7, <2>8, <2>9 DEF StateInv
<1>7. CASE MainWithdraw
  <2>1. AliveInv'
    BY <1>7, StateTypes, ProcessFacts, StartFacts, <1>i DEF AliveInv, VictimInv, SuspectInv, MainWithdraw, WithdrawServices, MainAt, Running
  <2>2. ResLockInv'
    BY <1>7, StateTypes, ProcessFacts, StartFacts, <1>i DEF ResLockInv, MainWithdraw, WithdrawServices, MainAt, Running
  <2>3. ChildLockInv'
    BY <1>7, StateTypes, ProcessFacts, StartFacts, <1>i DEF ChildLockInv, MainWithdraw, WithdrawServices, MainAt, Running
  <2>4. StartupInv'
    BY <1>7, StateTypes, ProcessFacts, StartFacts, <1>i DEF StartupInv, VictimInv, MainWithdraw, WithdrawServices, MainAt, Running
  <2>5. VictimInv'
    BY <1>7, StateTypes, ProcessFacts, StartFacts, <1>i DEF VictimInv, StartupInv, ChildLockInv, MainWithdraw, WithdrawServices, MainAt, Running
  <2>6. SuspectInv'
    BY <1>7, StateTypes, ProcessFacts, StartFacts, <1>i DEF SuspectInv, ChildLockInv, StartupInv, VictimInv, MainWithdraw, WithdrawServices, MainAt, Running
  <2>7. ChildrenInv'
    BY <1>7, StateTypes, ProcessFacts, StartFacts, <1>i DEF ChildrenInv, ChildLockInv, SuspectInv, VictimInv, StartupInv, Up, MainWithdraw, WithdrawServices, MainAt, Running
  <2>8. ReservedFirstInv'
    BY <1>7, StateTypes, ProcessFacts, StartFacts, <1>i DEF ReservedFirstInv, ReservedFor, StartupInv, VictimInv, ChildrenInv, MainWithdraw, WithdrawServices, MainAt, Running
  <2>9. PublicationInv'
    BY <1>7, StateTypes, ProcessFacts, StartFacts, <1>i DEF PublicationInv, Owner, MainWithdraw, WithdrawServices, MainAt, Running
  <2>10. WithdrawnInv'
    BY <1>7, StateTypes, ProcessFacts, StartFacts, <1>i DEF WithdrawnInv, Owner, ResLockInv, StartupInv, MainWithdraw, WithdrawServices, MainAt, Running
  <2>11. ReservedNamesExclusive'
    BY <1>7, StateTypes, ProcessFacts, StartFacts, <1>i DEF ReservedNamesExclusive, Owner, MainWithdraw, WithdrawServices, MainAt, Running
  <2>12. ReservationInv'
    BY <1>7, StateTypes, StartFacts, <1>i DEF ReservationInv, MainWithdraw, WithdrawServices
  <2>13. QED
    BY <2>1, <2>2, <2>3, <2>4, <2>5, <2>6, <2>7, <2>8, <2>9, <2>10, <2>11, <2>12 DEF StateInv
<1>8. CASE SupervisorDies
  <2>1. ResLockInv'
    BY <1>8, StateTypes, ProcessFacts, StartFacts, <1>i DEF ResLockInv, SupervisorDies, MainAt, Running
  <2>2. ChildLockInv'
    BY <1>8, StateTypes, ProcessFacts, StartFacts, <1>i DEF ChildLockInv, SupervisorDies, MainAt, Running
  <2>3. StartupInv'
    BY <1>8, StateTypes, ProcessFacts, StartFacts, <1>i DEF StartupInv, Up, SupervisorDies, MainAt, Running
  <2>4. VictimInv'
    BY <1>8, StateTypes, ProcessFacts, StartFacts, <1>i DEF VictimInv, StartupInv, ChildLockInv, SupervisorDies, MainAt, Running
  <2>5. ChildrenInv'
    BY <1>8, StateTypes, ProcessFacts, StartFacts, <1>i DEF ChildrenInv, ChildLockInv, SuspectInv, VictimInv, StartupInv, Up, SupervisorDies, MainAt, Running
  <2>6. ReservedFirstInv'
    BY <1>8, StateTypes, ProcessFacts, StartFacts, <1>i DEF ReservedFirstInv, ReservedFor, StartupInv, VictimInv, ChildrenInv, SupervisorDies, MainAt, Running
  <2>7. AliveInv' /\ SuspectInv' /\ ReservationInv' /\ PublicationInv' /\ WithdrawnInv' /\ ReservedNamesExclusive'
    BY <1>8, StateTypes, StartFacts, <1>i DEF AliveInv, SuspectInv, ReservationInv, PublicationInv, WithdrawnInv, ReservedNamesExclusive, SupervisorDies, Owner
  <2>8. QED
    BY <2>1, <2>2, <2>3, <2>4, <2>5, <2>6, <2>7 DEF StateInv
<1>9. QED
  BY <1>1, <1>2, <1>3, <1>4, <1>5, <1>6, <1>7, <1>8

\* The monitor thread.
LEMMA MonitorStep ==
    ASSUME IInv,
           \/ MonitorWake
           \/ MonitorTryWait
           \/ MonitorRetire
           \/ MonitorWithdraw
           \/ MonitorSleep
    PROVE  StateInv'
<1> USE DEF hubVars, registryVars, notifyVars, workerVars, mainVars, monVars, childVars
<1>i. /\ AliveInv /\ ResLockInv /\ ChildLockInv /\ StartupInv /\ VictimInv /\ SuspectInv /\ ChildrenInv
      /\ ReservationInv /\ ReservedFirstInv /\ PublicationInv /\ WithdrawnInv /\ ReservedNamesExclusive
  BY DEF IInv, StateInv
<1>1. CASE MonitorWake
  <2>1. ResLockInv'
    BY <1>1, StateTypes, ProcessFacts, StartFacts, <1>i DEF ResLockInv, MonitorWake, MainAt, Running
  <2>2. ChildLockInv'
    BY <1>1, StateTypes, ProcessFacts, StartFacts, <1>i DEF ChildLockInv, MonitorWake, MainAt, Running
  <2>3. VictimInv'
    BY <1>1, StateTypes, ProcessFacts, StartFacts, <1>i DEF VictimInv, StartupInv, ChildLockInv, MonitorWake, MainAt, Running
  <2>4. SuspectInv'
    BY <1>1, StateTypes, ProcessFacts, StartFacts, <1>i DEF SuspectInv, ChildLockInv, StartupInv, VictimInv, MonitorWake, MainAt, Running
  <2>5. ChildrenInv'
    BY <1>1, StateTypes, ProcessFacts, StartFacts, <1>i DEF ChildrenInv, ChildLockInv, SuspectInv, VictimInv, StartupInv, Up, MonitorWake, MainAt, Running
  <2>6. AliveInv' /\ StartupInv' /\ ReservationInv' /\ ReservedFirstInv' /\ PublicationInv' /\ WithdrawnInv' /\ ReservedNamesExclusive'
    BY <1>1, StateTypes, StartFacts, <1>i DEF AliveInv, StartupInv, ReservationInv, ReservedFirstInv, PublicationInv, WithdrawnInv, ReservedNamesExclusive, MonitorWake, Owner, ReservedFor
  <2>7. QED
    BY <2>1, <2>2, <2>3, <2>4, <2>5, <2>6 DEF StateInv
<1>2. CASE MonitorTryWait
  <2>1. AliveInv'
    BY <1>2, StateTypes, ProcessFacts, StartFacts, <1>i DEF AliveInv, VictimInv, SuspectInv, MonitorTryWait, MainAt, Running
  <2>2. ResLockInv'
    BY <1>2, StateTypes, ProcessFacts, StartFacts, <1>i DEF ResLockInv, MonitorTryWait, MainAt, Running
  <2>3. ChildLockInv'
    BY <1>2, StateTypes, ProcessFacts, StartFacts, <1>i DEF ChildLockInv, MonitorTryWait, MainAt, Running
  <2>4. StartupInv'
    BY <1>2, StateTypes, ProcessFacts, StartFacts, <1>i DEF StartupInv, SuspectInv, MonitorTryWait, MainAt, Running
  <2>5. VictimInv'
    BY <1>2, StateTypes, ProcessFacts, StartFacts, <1>i DEF VictimInv, StartupInv, ChildLockInv, MonitorTryWait, MainAt, Running
  <2>6. SuspectInv'
    BY <1>2, StateTypes, ProcessFacts, StartFacts, <1>i DEF SuspectInv, ChildLockInv, StartupInv, VictimInv, MonitorTryWait, MainAt, Running
  <2>7. ChildrenInv'
    BY <1>2, StateTypes, ProcessFacts, StartFacts, <1>i DEF ChildrenInv, ChildLockInv, SuspectInv, VictimInv, StartupInv, Up, MonitorTryWait, MainAt, Running
  <2>8. ReservedFirstInv'
    BY <1>2, StateTypes, ProcessFacts, StartFacts, <1>i DEF ReservedFirstInv, ReservedFor, SuspectInv, MonitorTryWait, MainAt, Running
  <2>9. WithdrawnInv'
    BY <1>2, StateTypes, ProcessFacts, StartFacts, <1>i DEF WithdrawnInv, Owner, ResLockInv, StartupInv, MonitorTryWait, MainAt, Running
  <2>10. ReservationInv' /\ PublicationInv' /\ ReservedNamesExclusive'
    BY <1>2, StateTypes, StartFacts, <1>i DEF ReservationInv, PublicationInv, ReservedNamesExclusive, MonitorTryWait, Owner
  <2>11. QED
    BY <2>1, <2>2, <2>3, <2>4, <2>5, <2>6, <2>7, <2>8, <2>9, <2>10 DEF StateInv
<1>3. CASE MonitorRetire
  <2>1. ResLockInv'
    BY <1>3, StateTypes, ProcessFacts, StartFacts, <1>i DEF ResLockInv, MonitorRetire, RetireReservations, MainAt, Running
  <2>2. ChildLockInv'
    BY <1>3, StateTypes, ProcessFacts, StartFacts, <1>i DEF ChildLockInv, MonitorRetire, RetireReservations, MainAt, Running
  <2>3. SuspectInv'
    BY <1>3, StateTypes, ProcessFacts, StartFacts, <1>i DEF SuspectInv, ChildLockInv, StartupInv, VictimInv, MonitorRetire, RetireReservations, MainAt, Running
  <2>4. ChildrenInv'
    BY <1>3, StateTypes, ProcessFacts, StartFacts, <1>i DEF ChildrenInv, ChildLockInv, SuspectInv, VictimInv, StartupInv, Up, MonitorRetire, RetireReservations, MainAt, Running
  <2>5. ReservationInv'
    BY <1>3, StateTypes, ProcessFacts, StartFacts, <1>i DEF ReservationInv, MonitorRetire, RetireReservations, MainAt, Running
  <2>6. ReservedFirstInv'
    BY <1>3, StateTypes, ProcessFacts, StartFacts, <1>i DEF ReservedFirstInv, ReservedFor, StartupInv, VictimInv, ChildrenInv, MonitorRetire, RetireReservations, MainAt, Running
  <2>7. WithdrawnInv'
    BY <1>3, StateTypes, ProcessFacts, StartFacts, <1>i DEF WithdrawnInv, Owner, ResLockInv, StartupInv, MonitorRetire, RetireReservations, MainAt, Running
  <2>8. AliveInv' /\ StartupInv' /\ VictimInv' /\ PublicationInv' /\ ReservedNamesExclusive'
    BY <1>3, StateTypes, StartFacts, <1>i DEF AliveInv, StartupInv, VictimInv, PublicationInv, ReservedNamesExclusive, MonitorRetire, Owner, RetireReservations
  <2>9. QED
    BY <2>1, <2>2, <2>3, <2>4, <2>5, <2>6, <2>7, <2>8 DEF StateInv
<1>4. CASE MonitorWithdraw
  <2>1. AliveInv'
    BY <1>4, StateTypes, ProcessFacts, StartFacts, <1>i DEF AliveInv, VictimInv, SuspectInv, MonitorWithdraw, WithdrawServices, MainAt, Running
  <2>2. ResLockInv'
    BY <1>4, StateTypes, ProcessFacts, StartFacts, <1>i DEF ResLockInv, MonitorWithdraw, WithdrawServices, MainAt, Running
  <2>3. ChildLockInv'
    BY <1>4, StateTypes, ProcessFacts, StartFacts, <1>i DEF ChildLockInv, MonitorWithdraw, WithdrawServices, MainAt, Running
  <2>4. StartupInv'
    BY <1>4, StateTypes, ProcessFacts, StartFacts, <1>i DEF StartupInv, SuspectInv, MonitorWithdraw, WithdrawServices, MainAt, Running
  <2>5. VictimInv'
    BY <1>4, StateTypes, ProcessFacts, StartFacts, <1>i DEF VictimInv, StartupInv, ChildLockInv, ChildrenInv, SuspectInv, Up, MonitorWithdraw, WithdrawServices, MainAt, Running
  <2>6. SuspectInv'
    BY <1>4, StateTypes, ProcessFacts, StartFacts, <1>i DEF SuspectInv, ChildLockInv, StartupInv, VictimInv, MonitorWithdraw, WithdrawServices, MainAt, Running
  <2>7. ChildrenInv'
    BY <1>4, StateTypes, ProcessFacts, StartFacts, <1>i DEF ChildrenInv, ChildLockInv, SuspectInv, VictimInv, StartupInv, Up, MonitorWithdraw, WithdrawServices, MainAt, Running
  <2>8. ReservedFirstInv'
    BY <1>4, StateTypes, ProcessFacts, StartFacts, <1>i DEF ReservedFirstInv, ReservedFor, SuspectInv, MonitorWithdraw, WithdrawServices, MainAt, Running
  <2>9. PublicationInv'
    BY <1>4, StateTypes, ProcessFacts, StartFacts, <1>i DEF PublicationInv, Owner, MonitorWithdraw, WithdrawServices, MainAt, Running
  <2>10. WithdrawnInv'
    BY <1>4, StateTypes, ProcessFacts, StartFacts, <1>i DEF WithdrawnInv, Owner, ResLockInv, StartupInv, MonitorWithdraw, WithdrawServices, MainAt, Running
  <2>11. ReservedNamesExclusive'
    BY <1>4, StateTypes, ProcessFacts, StartFacts, <1>i DEF ReservedNamesExclusive, Owner, MonitorWithdraw, WithdrawServices, MainAt, Running
  <2>12. ReservationInv'
    BY <1>4, StateTypes, StartFacts, <1>i DEF ReservationInv, MonitorWithdraw, WithdrawServices
  <2>13. QED
    BY <2>1, <2>2, <2>3, <2>4, <2>5, <2>6, <2>7, <2>8, <2>9, <2>10, <2>11, <2>12 DEF StateInv
<1>5. CASE MonitorSleep
  <2>1. ResLockInv'
    BY <1>5, StateTypes, ProcessFacts, StartFacts, <1>i DEF ResLockInv, MonitorSleep, MainAt, Running
  <2>2. ChildLockInv'
    BY <1>5, StateTypes, ProcessFacts, StartFacts, <1>i DEF ChildLockInv, MonitorSleep, MainAt, Running
  <2>3. VictimInv'
    BY <1>5, StateTypes, ProcessFacts, StartFacts, <1>i DEF VictimInv, StartupInv, ChildLockInv, MonitorSleep, MainAt, Running
  <2>4. SuspectInv'
    BY <1>5, StateTypes, ProcessFacts, StartFacts, <1>i DEF SuspectInv, ChildLockInv, StartupInv, VictimInv, MonitorSleep, MainAt, Running
  <2>5. ChildrenInv'
    BY <1>5, StateTypes, ProcessFacts, StartFacts, <1>i DEF ChildrenInv, ChildLockInv, SuspectInv, VictimInv, StartupInv, Up, MonitorSleep, MainAt, Running
  <2>6. AliveInv' /\ StartupInv' /\ ReservationInv' /\ ReservedFirstInv' /\ PublicationInv' /\ WithdrawnInv' /\ ReservedNamesExclusive'
    BY <1>5, StateTypes, StartFacts, <1>i DEF AliveInv, StartupInv, ReservationInv, ReservedFirstInv, PublicationInv, WithdrawnInv, ReservedNamesExclusive, MonitorSleep, Owner, ReservedFor
  <2>7. QED
    BY <2>1, <2>2, <2>3, <2>4, <2>5, <2>6 DEF StateInv
<1>6. QED
  BY <1>1, <1>2, <1>3, <1>4, <1>5

\* The workers.
LEMMA WorkerStep ==
    ASSUME IInv,
           NEW w \in Workers, Worker(w)
    PROVE  StateInv'
<1> USE DEF hubVars, registryVars, notifyVars, workerVars, mainVars, monVars, childVars
<1>i. /\ AliveInv /\ ResLockInv /\ ChildLockInv /\ StartupInv /\ VictimInv /\ SuspectInv /\ ChildrenInv
      /\ ReservationInv /\ ReservedFirstInv /\ PublicationInv /\ WithdrawnInv /\ ReservedNamesExclusive
  BY DEF IInv, StateInv
<1>1. CASE PreExec(w)
  <2>1. AliveInv'
    BY <1>1, StateTypes, ProcessFacts, StartFacts, <1>i DEF AliveInv, VictimInv, SuspectInv, PreExec, MainAt, Running, Exits
  <2>2. StartupInv'
    BY <1>1, StateTypes, ProcessFacts, StartFacts, <1>i DEF StartupInv, Up, PreExec, MainAt, Running, Exits
  <2>3. VictimInv'
    BY <1>1, StateTypes, ProcessFacts, StartFacts, <1>i DEF VictimInv, StartupInv, ChildLockInv, PreExec, MainAt, Running, Exits
  <2>4. SuspectInv'
    BY <1>1, StateTypes, ProcessFacts, StartFacts, <1>i DEF SuspectInv, ChildLockInv, StartupInv, VictimInv, PreExec, MainAt, Running, Exits
  <2>5. ChildrenInv'
    BY <1>1, StateTypes, ProcessFacts, StartFacts, <1>i DEF ChildrenInv, ChildLockInv, SuspectInv, VictimInv, StartupInv, Up, PreExec, MainAt, Running, Exits
  <2>6. ReservedFirstInv'
    BY <1>1, StateTypes, ProcessFacts, StartFacts, <1>i DEF ReservedFirstInv, ReservedFor, StartupInv, VictimInv, ChildrenInv, PreExec, MainAt, Running, Exits
  <2>7. WithdrawnInv'
    BY <1>1, StateTypes, ProcessFacts, StartFacts, <1>i DEF WithdrawnInv, Owner, ResLockInv, StartupInv, PreExec, MainAt, Running, Exits
  <2>8. ResLockInv' /\ ChildLockInv' /\ ReservationInv' /\ PublicationInv' /\ ReservedNamesExclusive'
    BY <1>1, StateTypes, StartFacts, <1>i DEF ResLockInv, ChildLockInv, ReservationInv, PublicationInv, ReservedNamesExclusive, PreExec, Owner, Exits
  <2>9. QED
    BY <2>1, <2>2, <2>3, <2>4, <2>5, <2>6, <2>7, <2>8 DEF StateInv
<1>2. CASE Publish(w)
  <2>1. ReservedFirstInv'
    <3>1. \A v \in Procs : v # w => txn'[v] = txn[v]
      BY <1>2, StateTypes DEF Publish, CallAdd, Send
    <3>2. QED
      BY <1>2, <3>1, StateTypes, ProcessFacts, StartFacts, <1>i DEF ReservedFirstInv, ReservedFor, Publish
  <2>2. PublicationInv'
    <3>1. PICK b \in Binders : CallAdd(w, NamesOf[w][published[w] + 1], b)
      BY <1>2 DEF Publish
    <3>2. published[w] + 1 \in DOMAIN NamesOf[w]
      BY <1>2, WorkerAssumption, LenProperties DEF Publish, IInv, TypeOK
    <3>3. NamesOf[w][published[w] + 1] \in WorkerNames(w)
      BY <3>2 DEF WorkerNames
    <3>4. txn' = [txn EXCEPT ![w] = [op |-> "add", name |-> NamesOf[w][published[w] + 1],
                                     arg |-> b, pc |-> "queued"]]
      BY <3>1 DEF CallAdd, Send
    <3>5. QED
      BY <1>2, <3>3, <3>4, StateTypes, ProcessFacts, <1>i DEF PublicationInv, Publish, Owner
  <2>3. AliveInv' /\ ResLockInv' /\ ChildLockInv' /\ StartupInv' /\ VictimInv' /\ SuspectInv'
    BY <1>2, StateTypes, StartFacts, <1>i DEF AliveInv, ResLockInv, ChildLockInv, StartupInv, VictimInv, SuspectInv, Publish
  <2>4. ChildrenInv' /\ ReservationInv' /\ WithdrawnInv' /\ ReservedNamesExclusive'
    BY <1>2, StateTypes, StartFacts, <1>i DEF ChildrenInv, ReservationInv, WithdrawnInv, ReservedNamesExclusive, Publish, Owner, Up
  <2>5. QED
    BY <2>1, <2>2, <2>3, <2>4 DEF StateInv
<1>3. CASE Published(w)
  <2>1. ReservedFirstInv'
    BY <1>3, StateTypes, ProcessFacts, StartFacts, <1>i DEF ReservedFirstInv, ReservedFor, StartupInv, VictimInv, ChildrenInv, Published, MainAt, Running
  <2>2. PublicationInv'
    BY <1>3, StateTypes, ProcessFacts, StartFacts, <1>i DEF PublicationInv, Owner, Published, MainAt, Running
  <2>3. AliveInv' /\ ResLockInv' /\ ChildLockInv' /\ StartupInv' /\ VictimInv' /\ SuspectInv'
    BY <1>3, StateTypes, StartFacts, <1>i DEF AliveInv, ResLockInv, ChildLockInv, StartupInv, VictimInv, SuspectInv, Published
  <2>4. ChildrenInv' /\ ReservationInv' /\ WithdrawnInv' /\ ReservedNamesExclusive'
    BY <1>3, StateTypes, StartFacts, <1>i DEF ChildrenInv, ReservationInv, WithdrawnInv, ReservedNamesExclusive, Published, Owner, Up
  <2>5. QED
    BY <2>1, <2>2, <2>3, <2>4 DEF StateInv
<1>4. CASE WorkerExits(w)
  <2>1. AliveInv'
    BY <1>4, StateTypes, ProcessFacts, StartFacts, <1>i DEF AliveInv, VictimInv, SuspectInv, WorkerExits, MainAt, Running, Exits
  <2>2. StartupInv'
    BY <1>4, StateTypes, ProcessFacts, StartFacts, <1>i DEF StartupInv, Up, WorkerExits, MainAt, Running, Exits
  <2>3. VictimInv'
    BY <1>4, StateTypes, ProcessFacts, StartFacts, <1>i DEF VictimInv, StartupInv, ChildLockInv, WorkerExits, MainAt, Running, Exits
  <2>4. SuspectInv'
    BY <1>4, StateTypes, ProcessFacts, StartFacts, <1>i DEF SuspectInv, ChildLockInv, StartupInv, VictimInv, WorkerExits, MainAt, Running, Exits
  <2>5. ChildrenInv'
    BY <1>4, StateTypes, ProcessFacts, StartFacts, <1>i DEF ChildrenInv, ChildLockInv, SuspectInv, VictimInv, StartupInv, Up, WorkerExits, MainAt, Running, Exits
  <2>6. ReservedFirstInv'
    BY <1>4, StateTypes, ProcessFacts, StartFacts, <1>i DEF ReservedFirstInv, ReservedFor, StartupInv, VictimInv, ChildrenInv, WorkerExits, MainAt, Running, Exits
  <2>7. WithdrawnInv'
    BY <1>4, StateTypes, ProcessFacts, StartFacts, <1>i DEF WithdrawnInv, Owner, ResLockInv, StartupInv, WorkerExits, MainAt, Running, Exits
  <2>8. ResLockInv' /\ ChildLockInv' /\ ReservationInv' /\ PublicationInv' /\ ReservedNamesExclusive'
    BY <1>4, StateTypes, StartFacts, <1>i DEF ResLockInv, ChildLockInv, ReservationInv, PublicationInv, ReservedNamesExclusive, WorkerExits, Owner, Exits
  <2>9. QED
    BY <2>1, <2>2, <2>3, <2>4, <2>5, <2>6, <2>7, <2>8 DEF StateInv
<1>5. CASE OrphanKilled(w)
  <2>1. AliveInv'
    BY <1>5, StateTypes, ProcessFacts, StartFacts, <1>i DEF AliveInv, VictimInv, SuspectInv, OrphanKilled, MainAt, Running, Exits
  <2>2. StartupInv'
    BY <1>5, StateTypes, ProcessFacts, StartFacts, <1>i DEF StartupInv, Up, OrphanKilled, MainAt, Running, Exits
  <2>3. VictimInv'
    BY <1>5, StateTypes, ProcessFacts, StartFacts, <1>i DEF VictimInv, StartupInv, ChildLockInv, OrphanKilled, MainAt, Running, Exits
  <2>4. SuspectInv'
    BY <1>5, StateTypes, ProcessFacts, StartFacts, <1>i DEF SuspectInv, ChildLockInv, StartupInv, VictimInv, OrphanKilled, MainAt, Running, Exits
  <2>5. ChildrenInv'
    BY <1>5, StateTypes, ProcessFacts, StartFacts, <1>i DEF ChildrenInv, ChildLockInv, SuspectInv, VictimInv, StartupInv, Up, OrphanKilled, MainAt, Running, Exits
  <2>6. ReservedFirstInv'
    BY <1>5, StateTypes, ProcessFacts, StartFacts, <1>i DEF ReservedFirstInv, ReservedFor, StartupInv, VictimInv, ChildrenInv, OrphanKilled, MainAt, Running, Exits
  <2>7. WithdrawnInv'
    BY <1>5, StateTypes, ProcessFacts, StartFacts, <1>i DEF WithdrawnInv, Owner, ResLockInv, StartupInv, OrphanKilled, MainAt, Running, Exits
  <2>8. ResLockInv' /\ ChildLockInv' /\ ReservationInv' /\ PublicationInv' /\ ReservedNamesExclusive'
    BY <1>5, StateTypes, StartFacts, <1>i DEF ResLockInv, ChildLockInv, ReservationInv, PublicationInv, ReservedNamesExclusive, OrphanKilled, Owner, Exits
  <2>9. QED
    BY <2>1, <2>2, <2>3, <2>4, <2>5, <2>6, <2>7, <2>8 DEF StateInv
<1>6. QED
  BY <1>1, <1>2, <1>3, <1>4, <1>5 DEF Worker

\* The apps.
LEMMA AppStep ==
    ASSUME IInv,
           NEW a \in Apps, App(a)
    PROVE  StateInv'
<1> USE DEF hubVars, registryVars, notifyVars, workerVars, mainVars, monVars, childVars
<1>i. /\ AliveInv /\ ResLockInv /\ ChildLockInv /\ StartupInv /\ VictimInv /\ SuspectInv /\ ChildrenInv
      /\ ReservationInv /\ ReservedFirstInv /\ PublicationInv /\ WithdrawnInv /\ ReservedNamesExclusive
  BY DEF IInv, StateInv
<1>c. ASSUME AppCalls(a)
      PROVE  a \in alive /\ \A p \in Procs : p # a => txn'[p] = txn[p]
  BY <1>c, StateTypes DEF AppCalls, CallAdd, CallUnregister, CallListen, CallUnlisten, Send
<1>1. CASE AppCalls(a)
  <2>1. ReservedFirstInv'
    BY <1>1, <1>c, StateTypes, ProcessFacts, StartFacts, <1>i DEF ReservedFirstInv, ReservedFor, AppCalls
  <2>2. PublicationInv'
    BY <1>1, <1>c, StateTypes, ProcessFacts, <1>i DEF PublicationInv, AppCalls, Owner
  <2>3. AliveInv' /\ ResLockInv' /\ ChildLockInv' /\ StartupInv' /\ VictimInv' /\ SuspectInv'
    BY <1>1, StateTypes, StartFacts, <1>i DEF AliveInv, ResLockInv, ChildLockInv, StartupInv, VictimInv, SuspectInv, AppCalls
  <2>4. ChildrenInv' /\ ReservationInv' /\ WithdrawnInv' /\ ReservedNamesExclusive'
    BY <1>1, StateTypes, StartFacts, <1>i DEF ChildrenInv, ReservationInv, WithdrawnInv, ReservedNamesExclusive, AppCalls, Owner, Up
  <2>5. QED
    BY <2>1, <2>2, <2>3, <2>4 DEF StateInv
<1>2. CASE AppReturns(a)
  <2>1. ReservedFirstInv'
    BY <1>2, StateTypes, ProcessFacts, StartFacts, <1>i DEF ReservedFirstInv, ReservedFor, StartupInv, VictimInv, ChildrenInv, AppReturns, MainAt, Running, Return
  <2>2. PublicationInv'
    BY <1>2, StateTypes, ProcessFacts, StartFacts, <1>i DEF PublicationInv, Owner, AppReturns, MainAt, Running, Return
  <2>3. AliveInv' /\ ResLockInv' /\ ChildLockInv' /\ StartupInv' /\ VictimInv' /\ SuspectInv'
    BY <1>2, StateTypes, StartFacts, <1>i DEF AliveInv, ResLockInv, ChildLockInv, StartupInv, VictimInv, SuspectInv, AppReturns, Return
  <2>4. ChildrenInv' /\ ReservationInv' /\ WithdrawnInv' /\ ReservedNamesExclusive'
    BY <1>2, StateTypes, StartFacts, <1>i DEF ChildrenInv, ReservationInv, WithdrawnInv, ReservedNamesExclusive, AppReturns, Owner, Return, Up
  <2>5. QED
    BY <2>1, <2>2, <2>3, <2>4 DEF StateInv
<1>3. CASE AppDies(a)
  <2>1. AliveInv'
    BY <1>3, StateTypes, ProcessFacts, StartFacts, <1>i DEF AliveInv, VictimInv, SuspectInv, AppDies, MainAt, Running
  <2>2. ReservedFirstInv'
    BY <1>3, StateTypes, ProcessFacts, StartFacts, <1>i DEF ReservedFirstInv, ReservedFor, StartupInv, VictimInv, ChildrenInv, AppDies, MainAt, Running
  <2>3. ResLockInv' /\ ChildLockInv' /\ StartupInv' /\ VictimInv' /\ SuspectInv' /\ ChildrenInv'
    BY <1>3, StateTypes, StartFacts, <1>i DEF ResLockInv, ChildLockInv, StartupInv, VictimInv, SuspectInv, ChildrenInv, AppDies, Up
  <2>4. ReservationInv' /\ PublicationInv' /\ WithdrawnInv' /\ ReservedNamesExclusive'
    BY <1>3, StateTypes, StartFacts, <1>i DEF ReservationInv, PublicationInv, WithdrawnInv, ReservedNamesExclusive, AppDies, Owner
  <2>5. QED
    BY <2>1, <2>2, <2>3, <2>4 DEF StateInv
<1>4. QED
  BY <1>1, <1>2, <1>3 DEF App

\* A handler moves only its own transaction, and changes the owner of a name
\* only by a registration that is allowed or by a withdrawal.
LEMMA HandleFrame ==
    ASSUME HubTypeOK, NEW p \in Procs, HandleStep(p)
    PROVE  /\ UNCHANGED <<reserved, resLock, alive>>
           /\ \A q \in Procs : q # p => txn'[q] = txn[q]
           /\ txn[p] # Idle /\ txn'[p] # Idle
           /\ txn'[p].op = txn[p].op /\ txn'[p].name = txn[p].name
           /\ \A n \in Names :
                 \/ services'[n] = services[n]
                 \/ /\ services'[n] = Vacant
                    /\ services[n].pid = p
                    /\ txn[p].op = "unregister" /\ txn[p].name = n
                 \/ /\ services'[n].pid = p
                    /\ txn[p].op = "add" /\ txn[p].name = n /\ MayRegister(n, p)
<1> USE DEF registryVars, notifyVars
<1>1. CASE AddInsert(p)
  <2>1. txn[p] # Idle
    BY <1>1, AtIsNotIdle DEF AddInsert
  <2>2. Goto(p, "inserted") /\ UNCHANGED <<reserved, resLock, alive>>
    BY <1>1 DEF AddInsert
  <2>3. \A n \in Names : n # txn[p].name => services'[n] = services[n]
    BY <1>1 DEF AddInsert, HubTypeOK
  <2>4. services'[txn[p].name].pid = p /\ txn[p].op = "add" /\ MayRegister(txn[p].name, p)
    BY <1>1, <2>1, TransactionFacts DEF AddInsert, HubTypeOK, At
  <2>5. QED
    BY <2>1, <2>2, <2>3, <2>4, GotoFacts DEF Pcs
<1>2. CASE AddReject(p)
  BY <1>2, AtIsNotIdle, GotoFacts DEF AddReject, Pcs
<1>3. CASE SnapshotWaiters(p)
  BY <1>3, AtIsNotIdle, GotoFacts DEF SnapshotWaiters, Pcs
<1>4. CASE NotifyNext(p)
  BY <1>4, AtIsNotIdle DEF NotifyNext
<1>5. CASE AddReply(p)
  BY <1>5, AtIsNotIdle, GotoFacts DEF AddReply, Pcs
<1>6. CASE TryUnregister(p)
  <2>1. txn[p] # Idle
    BY <1>6, AtIsNotIdle DEF TryUnregister
  <2>2. Goto(p, "ok") /\ UNCHANGED <<reserved, resLock, alive>>
    BY <1>6 DEF TryUnregister
  <2>3. \A n \in Names :
           \/ services'[n] = services[n]
           \/ services'[n] = Vacant /\ services[n].pid = p /\ txn[p].name = n
    BY <1>6 DEF TryUnregister, HubTypeOK
  <2>4. txn[p].op = "unregister"
    BY <1>6 DEF TryUnregister, At
  <2>5. QED
    BY <2>1, <2>2, <2>3, <2>4, GotoFacts DEF Pcs
<1>7. CASE ListenLookup(p)
  <2>1. txn[p] # Idle
    BY <1>7, AtIsNotIdle DEF ListenLookup
  <2>2. (Goto(p, "pushing") \/ Goto(p, "denied")) /\ UNCHANGED <<services, reserved, resLock, alive>>
    BY <1>7 DEF ListenLookup
  <2>3. QED
    BY <2>1, <2>2, GotoFacts DEF Pcs
<1>8. CASE ListenPush(p)
  BY <1>8, AtIsNotIdle, GotoFacts DEF ListenPush, Pcs
<1>9. CASE Unlisten(p)
  BY <1>9, AtIsNotIdle, GotoFacts DEF Unlisten, Pcs
<1>10. QED
  BY <1>1, <1>2, <1>3, <1>4, <1>5, <1>6, <1>7, <1>8, <1>9 DEF HandleStep

\* The hub's Binder threads: this is where a registration that was queued by a
\* worker that has died since meets the reservation that was retired.
LEMMA HubStepInv ==
    ASSUME IInv, NEW p \in Procs, HubStep(p)
    PROVE  StateInv'
<1> USE DEF workerVars, mainVars, monVars, childVars
<1>i. /\ AliveInv /\ ResLockInv /\ ChildLockInv /\ StartupInv /\ VictimInv /\ SuspectInv /\ ChildrenInv
      /\ ReservationInv /\ ReservedFirstInv /\ PublicationInv /\ WithdrawnInv /\ ReservedNamesExclusive
  BY DEF IInv, StateInv
<1>1. HandleStep(p) /\ UNCHANGED <<stage, published, mpc, cur, checked, late, victim, dropping,
                                   mon, scan, suspect, children, childLock>>
  BY DEF HubStep
<1>2. /\ UNCHANGED <<reserved, resLock, alive>>
      /\ \A q \in Procs : q # p => txn'[q] = txn[q]
      /\ txn[p] # Idle /\ txn'[p] # Idle
      /\ txn'[p].op = txn[p].op /\ txn'[p].name = txn[p].name
      /\ \A n \in Names :
            \/ Owner(n)' = Owner(n)
            \/ Owner(n)' = Absent
            \/ Owner(n)' = p /\ txn[p].op = "add" /\ txn[p].name = n /\ MayRegister(n, p)
  BY <1>1, HandleFrame, ProcessFacts DEF IInv, TypeOK, Owner
<1>3. AliveInv' /\ ResLockInv' /\ ChildLockInv' /\ StartupInv' /\ VictimInv' /\ SuspectInv'
  BY <1>1, <1>2, <1>i, StartFacts
  DEF AliveInv, ResLockInv, ChildLockInv, StartupInv, VictimInv, SuspectInv
<1>4. ChildrenInv' /\ ReservationInv'
  BY <1>1, <1>2, <1>i DEF ChildrenInv, ReservationInv, Up
<1>5. ReservedFirstInv'
  BY <1>1, <1>2, <1>i, StartFacts, ProcessFacts DEF ReservedFirstInv, ReservedFor
<1>6. PublicationInv'
  <2>1. \A w \in Workers : txn'[w] # Idle => txn'[w].op = "add" /\ txn'[w].name \in WorkerNames(w)
    BY <1>2, <1>i, ProcessFacts DEF PublicationInv
  <2>2. ASSUME NEW n \in Names, NEW w \in Workers, Owner(n)' = w PROVE n \in WorkerNames(w)
    BY <1>2, <1>i, <2>2, ProcessFacts DEF PublicationInv
  <2>3. QED
    BY <2>1, <2>2 DEF PublicationInv
<1>7. ReservedNamesExclusive'
  <2>1. SUFFICES ASSUME NEW w \in Workers, NEW n \in WorkerNames(w)
                 PROVE  Owner(n)' \in {Absent, w}
    BY DEF ReservedNamesExclusive
  <2>2. n \in Names
    BY ProcessFacts
  <2>3. CASE Owner(n)' = Owner(n) \/ Owner(n)' = Absent
    BY <1>i, <2>3 DEF ReservedNamesExclusive
  <2>4. CASE Owner(n)' = p /\ txn[p].op = "add" /\ txn[p].name = n /\ MayRegister(n, p)
    <3>1. CASE p \in Workers
      <4>1. n \in WorkerNames(p)
        BY <1>2, <1>i, <2>4, <3>1 DEF PublicationInv
      <4>2. p = w
        BY <3>1, <4>1, WorkerAssumption
      <4>3. QED
        BY <2>4, <4>2
    <3>2. CASE p \in Apps
      <4>1. reserved[n] # Absent
        BY <1>2, <1>i, <3>2 DEF ReservedFirstInv, ReservedFor
      <4>2. reserved[n] \in {w, Retired}
        BY <1>i, <4>1 DEF ReservationInv
      <4>3. QED
        BY <2>4, <3>2, <4>1, <4>2, ProcessFacts DEF MayRegister
    <3>3. QED
      BY <3>1, <3>2, WorkerAssumption
  <2>5. QED
    BY <1>2, <2>2, <2>3, <2>4
<1>8. WithdrawnInv'
  <2>1. SUFFICES ASSUME NEW w \in Workers, stage[w] = "withdrawn", NEW n \in Names
                 PROVE  reserved[n] # w /\ Owner(n)' # w
    BY <1>1, <1>2 DEF WithdrawnInv
  <2>2. reserved[n] # w /\ Owner(n) # w
    BY <1>i, <2>1 DEF WithdrawnInv
  <2>3. CASE Owner(n)' = p /\ txn[p].op = "add" /\ txn[p].name = n /\ MayRegister(n, p)
    <3>1. SUFFICES ASSUME p = w PROVE FALSE
      BY <2>2, <2>3
    <3>2. n \in WorkerNames(w)
      BY <1>2, <1>i, <2>3, <3>1 DEF PublicationInv
    <3>3. reserved[n] # Absent
      BY <1>2, <1>i, <3>1, <3>2 DEF ReservedFirstInv, ReservedFor
    <3>4. QED
      BY <2>2, <2>3, <3>1, <3>3 DEF MayRegister
  <2>4. QED
    BY <1>2, <2>2, <2>3, ProcessFacts
<1>9. QED
  BY <1>3, <1>4, <1>5, <1>6, <1>7, <1>8 DEF StateInv

-----------------------------------------------------------------------------
(***************************************************************************)
(* The theorems.                                                           *)
(***************************************************************************)
LEMMA InvInit == Init => IInv
<1> SUFFICES ASSUME Init PROVE IInv
  OBVIOUS
<1>1. TypeOK
  BY TypeInit
<1>2. /\ Current \in Workers /\ cur = 1 /\ DOMAIN StartOrder = 1 .. Len(StartOrder)
      /\ \A i \in DOMAIN StartOrder : StartOrder[i] \in Workers
  BY ConstantFacts DEF Init, Current
<1>3. AliveInv /\ ResLockInv /\ ChildLockInv /\ VictimInv /\ SuspectInv /\ ChildrenInv
  BY DEF Init, HubInit, AliveInv, ResLockInv, ChildLockInv, VictimInv, SuspectInv, ChildrenInv, Running
<1>4. StartupInv
  BY <1>2 DEF Init, StartupInv
<1>5. ReservationInv
  BY ProcessFacts DEF Init, HubInit, ReservationInv
<1>6. ReservedFirstInv
  <2>1. \A i \in DOMAIN StartOrder : ~(i < cur)
    BY <1>2, ConstantFacts
  <2>2. QED
    BY <2>1, ProcessFacts DEF Init, HubInit, ReservedFirstInv
<1>7. PublicationInv /\ WithdrawnInv /\ ReservedNamesExclusive
  BY ProcessFacts DEF Init, HubInit, PublicationInv, WithdrawnInv, ReservedNamesExclusive, Owner
<1>8. QED
  BY <1>1, <1>3, <1>4, <1>5, <1>6, <1>7 DEF IInv, StateInv

\* A stuttering step keeps the invariant.
LEMMA InvStutter ==
    ASSUME IInv, UNCHANGED vars
    PROVE  StateInv'
<1> USE DEF vars, hubVars, workerVars, mainVars, monVars, childVars
<1>i. /\ AliveInv /\ ResLockInv /\ ChildLockInv /\ StartupInv /\ VictimInv /\ SuspectInv /\ ChildrenInv
      /\ ReservationInv /\ ReservedFirstInv /\ PublicationInv /\ WithdrawnInv /\ ReservedNamesExclusive
  BY DEF IInv, StateInv
<1>1. AliveInv' /\ ResLockInv' /\ ChildLockInv' /\ StartupInv' /\ VictimInv' /\ SuspectInv'
  BY <1>i, StartFacts
  DEF AliveInv, ResLockInv, ChildLockInv, StartupInv, VictimInv, SuspectInv
<1>2. /\ ChildrenInv' /\ ReservationInv' /\ ReservedFirstInv' /\ PublicationInv'
      /\ WithdrawnInv' /\ ReservedNamesExclusive'
  BY <1>i, StartFacts
  DEF ChildrenInv, ReservationInv, ReservedFirstInv, ReservedFor, PublicationInv, WithdrawnInv,
      ReservedNamesExclusive, Owner, Up
<1>3. QED
  BY <1>1, <1>2 DEF StateInv

\* Every step keeps the invariant.
LEMMA InvStep ==
    ASSUME IInv, [Next]_vars
    PROVE  IInv'
<1>1. TypeOK'
  BY TypeStep DEF IInv
<1>2. ASSUME Startup \/ Timeout PROVE StateInv'
  BY <1>2, StartStep DEF Startup
<1>3. ASSUME Teardown \/ AppsExit \/ SupervisorDies PROVE StateInv'
  BY <1>3, TeardownStep DEF Teardown
<1>4. ASSUME Monitor PROVE StateInv'
  BY <1>4, MonitorStep DEF Monitor
<1>5. ASSUME \E w \in Workers : Worker(w) PROVE StateInv'
  BY <1>5, WorkerStep
<1>6. ASSUME \E a \in Apps : App(a) PROVE StateInv'
  BY <1>6, AppStep
<1>7. ASSUME \E p \in Procs : HubStep(p) PROVE StateInv'
  BY <1>7, HubStepInv
<1>8. ASSUME UNCHANGED vars PROVE StateInv'
  BY <1>8, InvStutter
<1>9. StateInv'
  BY <1>2, <1>3, <1>4, <1>5, <1>6, <1>7, <1>8 DEF Next, Finished
<1>10. QED
  BY <1>1, <1>9 DEF IInv

\* The inductive invariant of workers and hub: what is reserved, registered and in flight
\* belongs to workers that were not withdrawn (host_services.rs, hub.rs).
THEOREM Invariance == Spec => []IInv
<1>1. QED
  BY InvInit, InvStep, PTL DEF Spec

\* A worker that the supervisor has withdrawn is never found in the registry
\* again, whatever registrations it queued before it died (hub.rs, remove_process).
THEOREM WithdrawnStayOutAlways == Spec => []WithdrawnStayOut
<1>1. IInv => WithdrawnStayOut
  BY DEF IInv, StateInv, WithdrawnInv, WithdrawnStayOut
<1>2. QED
  BY <1>1, Invariance, PTL

\* The names reserved for a worker only ever lead to it (hub.rs, register_owned).
THEOREM ReservedNamesExclusiveAlways == Spec => []ReservedNamesExclusive
<1>1. IInv => ReservedNamesExclusive
  BY DEF IInv, StateInv
<1>2. QED
  BY <1>1, Invariance, PTL

-----------------------------------------------------------------------------
(***************************************************************************)
(* The registry clients see.                                               *)
(***************************************************************************)
Gone == {w \in Workers : stage[w] = "withdrawn"}

\* The second half of remove_process, for a worker that was collected.
Withdraws(w) ==
    /\ stage[w] = "reaped"
    /\ services' = [n \in Names |-> IF Owner(n) = w THEN Vacant ELSE services[n]]
    /\ Gone' = Gone \cup {w}

\* What a step does to the registry: nothing, a withdrawal, or one handler's step.
LEMMA RegistrySteps ==
    ASSUME IInv, [Next]_vars
    PROVE  \/ services' = services /\ Gone' = Gone
           \/ \E w \in Workers : Withdraws(w)
           \/ \E p \in Procs : HubStep(p)
<1> DEFINE Goal == \/ services' = services /\ Gone' = Gone
                   \/ \E w \in Workers : Withdraws(w)
                   \/ \E p \in Procs : HubStep(p)
<1> USE DEF hubVars, registryVars, notifyVars, workerVars, mainVars, monVars, childVars
<1>i. StartupInv /\ VictimInv /\ SuspectInv
  BY DEF IInv, StateInv
<1>t. stage \in [Workers -> Stages] /\ Current \in Workers
  BY StateTypes, StartFacts
<1>1. CASE Fork \/ Go \/ TryWait
  BY <1>1, <1>i, <1>t DEF Fork, Go, TryWait, MainAt, StartupInv, Gone
<1>2. CASE SpawnFails \/ ReserveNames \/ PollName \/ PollReady \/ Push \/ Resolve
  BY <1>2 DEF SpawnFails, ReserveNames, Reserve, PollName, PollReady, Push, Resolve, Gone
<1>3. CASE Launch \/ LaunchFails \/ Timeout \/ AppsExit \/ SupervisorDies
  BY <1>3 DEF Launch, LaunchFails, Timeout, AppsExit, SupervisorDies, Gone
<1>4. CASE LockChildren \/ DropNext \/ DropDone \/ MainRetire
  BY <1>4 DEF LockChildren, DropNext, DropDone, MainRetire, RetireReservations, Gone
<1>5. CASE KillAndWait
  BY <1>5, <1>i, <1>t DEF KillAndWait, MainAt, VictimInv, Gone
<1>6. CASE MainWithdraw
  <2>1. victim \in Workers /\ stage[victim] = "reaped"
    BY <1>6, <1>i DEF MainWithdraw, MainAt, VictimInv
  <2>2. Gone' = Gone \cup {victim}
    BY <1>6, <1>t, <2>1 DEF MainWithdraw, Gone
  <2>3. Withdraws(victim)
    BY <1>6, <2>1, <2>2 DEF MainWithdraw, WithdrawServices, Withdraws
  <2>4. QED
    BY <2>1, <2>3
<1>7. CASE MonitorWithdraw
  <2>1. suspect \in Workers /\ stage[suspect] = "reaped"
    BY <1>7, <1>i, StateTypes DEF MonitorWithdraw, SuspectInv
  <2>2. Gone' = Gone \cup {suspect}
    BY <1>7, <1>t, <2>1 DEF MonitorWithdraw, Gone
  <2>3. Withdraws(suspect)
    BY <1>7, <2>1, <2>2 DEF MonitorWithdraw, WithdrawServices, Withdraws
  <2>4. QED
    BY <2>1, <2>3
<1>8. CASE MonitorWake \/ MonitorTryWait \/ MonitorRetire \/ MonitorSleep
  BY <1>8, <1>t, <1>i, StateTypes
  DEF MonitorWake, MonitorTryWait, MonitorRetire, MonitorSleep, RetireReservations, Gone
<1>9. ASSUME NEW w \in Workers, Worker(w) PROVE Goal
  BY <1>9, <1>t DEF Worker, PreExec, Publish, Published, WorkerExits, OrphanKilled, Exits, Running, Gone
<1>10. ASSUME NEW a \in Apps, App(a) PROVE Goal
  BY <1>10 DEF App, AppCalls, AppReturns, AppDies, Gone
<1>11. CASE UNCHANGED vars
  BY <1>11 DEF vars, Gone
<1>12. QED
  BY <1>1, <1>2, <1>3, <1>4, <1>5, <1>6, <1>7, <1>8, <1>9, <1>10, <1>11
  DEF Next, Startup, Teardown, Monitor, Finished

\* The hub takes nothing away from a worker that still runs: a worker is only
\* withdrawn when it was collected, and nobody else may publish its names.
THEOREM LiveServicesStayAlways == Spec => LiveServicesStay
<1> DEFINE Stays == \A w \in Workers : (w \in alive /\ w \in alive') =>
                      \A n \in Names : Owner(n) = w => Owner(n)' = w
<1>1. ASSUME IInv, [Next]_vars PROVE Stays
  <2>i. /\ AliveInv /\ PublicationInv /\ ReservedNamesExclusive'
    BY <1>1, InvStep DEF IInv, StateInv
  <2>1. SUFFICES ASSUME NEW w \in Workers, w \in alive, NEW n \in Names, Owner(n) = w
                 PROVE  Owner(n)' = w
    OBVIOUS
  <2>2. CASE services' = services
    BY <2>1, <2>2 DEF Owner
  <2>3. ASSUME NEW v \in Workers, Withdraws(v) PROVE Owner(n)' = w
    <3>1. v # w
      BY <2>i, <2>1, <2>3 DEF AliveInv, Running, Withdraws
    <3>2. QED
      BY <2>1, <2>3, <3>1 DEF Withdraws, Owner
  <2>4. ASSUME NEW p \in Procs, HubStep(p) PROVE Owner(n)' = w
    <3>1. HubTypeOK /\ HandleStep(p)
      BY <1>1, <2>4 DEF HubStep, IInv, TypeOK
    <3>2. CASE services'[n] = services[n]
      BY <2>1, <3>2 DEF Owner
    <3>3. CASE services'[n] = Vacant /\ services[n].pid = p /\ txn[p].op = "unregister"
      <4>1. p = w /\ txn[p] # Idle
        BY <2>1, <3>1, <3>3, HandleFrame DEF Owner
      <4>2. QED
        BY <2>i, <3>3, <4>1 DEF PublicationInv
    <3>4. CASE services'[n].pid = p
      <4>1. n \in WorkerNames(w)
        BY <2>i, <2>1 DEF PublicationInv
      <4>2. Owner(n)' \in {Absent, w}
        BY <2>i, <4>1 DEF ReservedNamesExclusive
      <4>3. QED
        BY <3>4, <4>2, HubAssumption DEF Owner
    <3>5. QED
      BY <3>1, <3>2, <3>3, <3>4, HandleFrame
  <2>5. QED
    BY <1>1, RegistrySteps, <2>2, <2>3, <2>4
<1>2. ASSUME IInv, [Next]_vars PROVE [Stays]_vars
  BY <1>1, <1>2
<1>3. QED
  BY <1>2, Invariance, PTL DEF Spec, LiveServicesStay

\* Who a reserved name is kept for.
LEMMA KeeperFacts ==
    ASSUME NEW n \in Names
    PROVE  \/ Keeper(n) = Absent /\ \A w \in Workers : n \notin WorkerNames(w)
           \/ Keeper(n) \in Workers /\ n \in WorkerNames(Keeper(n))
BY DEF Keeper

\* Two half-steps of remove_process, transactions that outlive their callers and
\* two threads that withdraw workers: to clients, one atomic registry.
THEOREM RegistryRefinement == Spec => ImplementsRegistry
<1>1. Init => Registry!Init
  BY DEF Init, HubInit, Owner, Vacant, Registry!Init
<1>2. ASSUME IInv, [Next]_vars
      PROVE  [Registry!Next]_<<[n \in Names |-> Owner(n)], {w \in Workers : stage[w] = "withdrawn"}>>
  <2> DEFINE Own == [n \in Names |-> Owner(n)]
  <2> SUFFICES Registry!Next \/ (Own' = Own /\ Gone' = Gone)
    BY DEF Gone
  <2>t. services \in [Names -> Entry \cup {Vacant}]
    BY <1>2, StateTypes
  <2>1. CASE services' = services /\ Gone' = Gone
    BY <2>1 DEF Owner
  <2>2. ASSUME NEW w \in Workers, Withdraws(w) PROVE Registry!Next
    <3>1. Own' = [n \in Names |-> IF Own[n] = w THEN Absent ELSE Own[n]]
      BY <2>2 DEF Withdraws, Owner, Vacant
    <3>2. Registry!Withdraw(w)
      BY <2>2, <3>1 DEF Withdraws, Gone, Registry!Withdraw
    <3>3. QED
      BY <3>2, ProcessFacts DEF Registry!Next
  <2>3. ASSUME NEW p \in Procs, HubStep(p) PROVE Registry!Next \/ (Own' = Own /\ Gone' = Gone)
    <3>i. /\ HubTypeOK /\ HandleStep(p) /\ Gone' = Gone
          /\ WithdrawnInv' /\ ReservedNamesExclusive' /\ stage' = stage
      BY <1>2, <2>3, InvStep DEF HubStep, IInv, StateInv, TypeOK, workerVars, Gone
    <3>1. CASE \A n \in Names : services'[n] = services[n]
      BY <3>i, <3>1 DEF Owner
    <3>2. CASE \E n \in Names : services'[n] # services[n]
      <4>1. PICK m \in Names : services'[m] # services[m]
        BY <3>2
      <4>2. m = txn[p].name /\ \A n \in Names : n # m => services'[n] = services[n]
        BY <3>i, <4>1, HandleFrame
      <4>3. CASE services'[m] = Vacant
        <5>1. Own' = [Own EXCEPT ![m] = Absent]
          BY <4>2, <4>3, ProcessFacts DEF Owner
        <5>2. Registry!Unpublish(m)
          BY <3>i, <5>1 DEF Gone, Registry!Unpublish
        <5>3. QED
          BY <5>2 DEF Registry!Next
      <4>4. CASE services'[m].pid = p
        <5>1. Own' = [Own EXCEPT ![m] = p]
          BY <4>2, <4>4 DEF Owner
        <5>2. p \notin Gone
          BY <3>i, <4>4 DEF WithdrawnInv, Gone, Owner
        <5>3. Keeper(m) \in {Absent, p}
          BY <3>i, <4>4, KeeperFacts, HubAssumption DEF ReservedNamesExclusive, Owner
        <5>4. Registry!Publish(m, p)
          BY <3>i, <5>1, <5>2, <5>3 DEF Gone, Registry!Publish
        <5>5. QED
          BY <5>4 DEF Registry!Next
      <4>5. QED
        BY <3>i, <4>1, <4>3, <4>4, HandleFrame
    <3>3. QED
      BY <3>1, <3>2
  <2>4. QED
    BY <1>2, RegistrySteps, <2>1, <2>2, <2>3
<1>3. QED
  BY <1>1, <1>2, Invariance, PTL DEF Spec, ImplementsRegistry, Registry!Spec

-----------------------------------------------------------------------------
(***************************************************************************)
(* Every worker is accounted for.                                          *)
(***************************************************************************)
Owns(w) == \A n \in WorkerNames(w) : Owner(n) = w

\* A supervised worker has all of its names until it is withdrawn, and the
\* worker that is being started those that main has seen.
OwnersInv ==
    /\ \A w \in children : stage[w] # "withdrawn" => Owns(w)
    /\ mpc = "poll" => /\ checked <= Len(NamesOf[Current])
                       /\ \A i \in 1 .. checked : Owner(NamesOf[Current][i]) = Current
    /\ mpc = "push" => Owns(Current)

\* Drop has withdrawn the children it is done with.
DroppedInv ==
    childLock = "main" /\ mpc # "dead" =>
        \A w \in children \ dropping :
            \/ stage[w] = "withdrawn"
            \/ mpc \in {"kill", "retire", "withdraw"} /\ w = victim

AccountInv == NoWorkerIsLost /\ DoneMeansCollected /\ DroppedInv /\ OwnersInv

\* A withdrawn worker stays withdrawn.
LEMMA WithdrawnForEver ==
    ASSUME IInv, [Next]_vars, NEW w \in Workers, stage[w] = "withdrawn"
    PROVE  stage'[w] = "withdrawn"
<1>1. CASE Gone' = Gone
  BY <1>1 DEF Gone
<1>2. ASSUME NEW v \in Workers, Withdraws(v) PROVE stage'[w] = "withdrawn"
  BY <1>2 DEF Withdraws, Gone
<1>3. ASSUME NEW p \in Procs, HubStep(p) PROVE stage'[w] = "withdrawn"
  BY <1>3 DEF HubStep, workerVars
<1>4. QED
  BY RegistrySteps, <1>1, <1>2, <1>3

\* A worker keeps its names until it is withdrawn.
LEMMA OwnersStay ==
    ASSUME IInv, [Next]_vars, NEW w \in Workers, NEW n \in Names, Owner(n) = w
    PROVE  Owner(n)' = w \/ stage'[w] = "withdrawn"
<1>i. PublicationInv /\ ReservedNamesExclusive'
  BY InvStep DEF IInv, StateInv
<1>2. CASE services' = services
  BY <1>2 DEF Owner
<1>3. ASSUME NEW v \in Workers, Withdraws(v) PROVE Owner(n)' = w \/ stage'[w] = "withdrawn"
  BY <1>3 DEF Withdraws, Owner, Gone
<1>4. ASSUME NEW p \in Procs, HubStep(p) PROVE Owner(n)' = w
  <2>1. HubTypeOK /\ HandleStep(p)
    BY <1>4 DEF HubStep, IInv, TypeOK
  <2>2. CASE services'[n] = services[n]
    BY <2>2 DEF Owner
  <2>3. CASE services'[n] = Vacant /\ services[n].pid = p /\ txn[p].op = "unregister"
    <3>1. p = w /\ txn[p] # Idle
      BY <2>1, <2>3, HandleFrame DEF Owner
    <3>2. QED
      BY <1>i, <2>3, <3>1 DEF PublicationInv
  <2>4. CASE services'[n].pid = p
    <3>1. n \in WorkerNames(w)
      BY <1>i DEF PublicationInv
    <3>2. Owner(n)' \in {Absent, w}
      BY <1>i, <3>1 DEF ReservedNamesExclusive
    <3>3. QED
      BY <2>4, <3>2, HubAssumption DEF Owner
  <2>5. QED
    BY <2>1, <2>2, <2>3, <2>4, HandleFrame
<1>5. QED
  BY RegistrySteps, <1>2, <1>3, <1>4

\* So does it keep all of them.
LEMMA OwnsStays ==
    ASSUME IInv, [Next]_vars, NEW w \in Workers, Owns(w), stage'[w] # "withdrawn"
    PROVE  Owns(w)'
BY OwnersStay, ConstantFacts DEF Owns

\* The names of a worker by their places.
LEMMA PlacesFacts ==
    ASSUME NEW w \in Workers
    PROVE  /\ Len(NamesOf[w]) \in Nat
           /\ \A i \in 1 .. Len(NamesOf[w]) : NamesOf[w][i] \in Names
           /\ (\A i \in 1 .. Len(NamesOf[w]) : Owner(NamesOf[w][i]) = w) <=> Owns(w)
<1>1. NamesOf[w] \in Seq(Names)
  BY WorkerAssumption
<1>2. DOMAIN NamesOf[w] = 1 .. Len(NamesOf[w]) /\ Len(NamesOf[w]) \in Nat
  BY <1>1, LenProperties
<1>3. QED
  BY <1>1, <1>2, ElementOfSeq DEF Owns, WorkerNames

\* What the steps of main and the monitor do to `children`.
LEMMA ChildSteps ==
    ASSUME IInv, [Next]_vars
    PROVE  \/ children' = children
           \/ MainAt("push") /\ children' = children \cup {Current}
           \/ MonitorWithdraw /\ children' = children \ {suspect}
<1> DEFINE Goal == \/ children' = children
                   \/ MainAt("push") /\ children' = children \cup {Current}
                   \/ MonitorWithdraw /\ children' = children \ {suspect}
<1> USE DEF hubVars, registryVars, notifyVars, workerVars, mainVars, monVars, childVars
<1>1. CASE Startup \/ Timeout \/ AppsExit \/ SupervisorDies
  BY <1>1 DEF Startup, Fork, SpawnFails, ReserveNames, Go, PollName, PollReady, TryWait, Push, Resolve,
              Launch, LaunchFails, Timeout, AppsExit, SupervisorDies
<1>2. CASE Teardown
  BY <1>2 DEF Teardown, LockChildren, DropNext, DropDone, KillAndWait, MainRetire, MainWithdraw
<1>3. CASE Monitor
  BY <1>3 DEF Monitor, MonitorWake, MonitorTryWait, MonitorRetire, MonitorWithdraw, MonitorSleep
<1>4. ASSUME NEW w \in Workers, Worker(w) PROVE Goal
  BY <1>4 DEF Worker, PreExec, Publish, Published, WorkerExits, OrphanKilled
<1>5. ASSUME NEW a \in Apps, App(a) PROVE Goal
  BY <1>5 DEF App, AppCalls, AppReturns, AppDies
<1>6. ASSUME NEW p \in Procs, HubStep(p) PROVE Goal
  BY <1>6 DEF HubStep
<1>7. CASE UNCHANGED vars
  BY <1>7 DEF vars
<1>8. QED
  BY <1>1, <1>2, <1>3, <1>4, <1>5, <1>6, <1>7 DEF Next, Finished

\* How main comes to poll and to push.
LEMMA PollSteps ==
    ASSUME IInv, [Next]_vars, mpc' \in {"poll", "push"}
    PROVE  /\ Current' = Current
           /\ mpc' = "poll" => \/ mpc = "poll" /\ checked' = checked
                               \/ checked' = 0
                               \/ PollName /\ checked' = checked + 1
           /\ mpc' = "push" => mpc = "push" \/ PollReady
<1> DEFINE Goal == /\ Current' = Current
                   /\ mpc' = "poll" => \/ mpc = "poll" /\ checked' = checked
                                       \/ checked' = 0
                                       \/ PollName /\ checked' = checked + 1
                   /\ mpc' = "push" => mpc = "push" \/ PollReady
<1> USE DEF hubVars, registryVars, notifyVars, workerVars, mainVars, monVars, childVars
<1>0. UNCHANGED cur => Current' = Current
  BY StartFacts
<1>1. CASE Startup
  BY <1>0, <1>1 DEF Startup, Fork, SpawnFails, ReserveNames, Go, PollName, PollReady, TryWait, Push,
                    Resolve, Continue, Launch, LaunchFails, MainAt
<1>2. CASE Timeout \/ AppsExit \/ SupervisorDies
  BY <1>0, <1>2 DEF Timeout, AppsExit, SupervisorDies
<1>3. CASE Teardown
  BY <1>3 DEF Teardown, LockChildren, DropNext, DropDone, KillAndWait, MainRetire, MainWithdraw
<1>4. CASE Monitor
  BY <1>0, <1>4 DEF Monitor, MonitorWake, MonitorTryWait, MonitorRetire, MonitorWithdraw, MonitorSleep
<1>5. ASSUME NEW w \in Workers, Worker(w) PROVE Goal
  BY <1>0, <1>5 DEF Worker, PreExec, Publish, Published, WorkerExits, OrphanKilled
<1>6. ASSUME NEW a \in Apps, App(a) PROVE Goal
  BY <1>0, <1>6 DEF App, AppCalls, AppReturns, AppDies
<1>7. ASSUME NEW p \in Procs, HubStep(p) PROVE Goal
  BY <1>0, <1>7 DEF HubStep
<1>8. CASE UNCHANGED vars
  BY <1>0, <1>8 DEF vars
<1>9. QED
  BY <1>1, <1>2, <1>3, <1>4, <1>5, <1>6, <1>7, <1>8 DEF Next, Finished

\* Supervised workers keep their names, and main forgets none that it has seen.
LEMMA OwnersStep ==
    ASSUME IInv, OwnersInv, [Next]_vars
    PROVE  OwnersInv'
<1>t. Current \in Workers /\ children \subseteq Workers /\ checked \in Nat /\ children' \subseteq Workers
  BY StartFacts, StateTypes, InvStep DEF IInv, TypeOK
<1>s. mpc' \in {"poll", "push"} => stage'[Current'] # "withdrawn"
  BY InvStep DEF IInv, StateInv, StartupInv
<1>1. ASSUME NEW w \in children', stage'[w] # "withdrawn" PROVE Owns(w)'
  <2>1. w \in Workers /\ stage[w] # "withdrawn"
    BY <1>t, <1>1, WithdrawnForEver
  <2>2. w \in children \/ (w = Current /\ MainAt("push"))
    BY <1>1, ChildSteps
  <2>3. Owns(w)
    BY <2>1, <2>2 DEF OwnersInv, MainAt
  <2>4. QED
    BY <1>1, <2>1, <2>3, OwnsStays
<1>2. ASSUME mpc' = "push" PROVE Owns(Current)'
  <2>1. Current' = Current /\ (mpc = "push" \/ PollReady)
    BY <1>2, PollSteps
  <2>2. Owns(Current)
    BY <1>t, <2>1, PlacesFacts DEF OwnersInv, PollReady, MainAt
  <2>3. stage'[Current] # "withdrawn"
    BY <1>2, <1>s, <2>1
  <2>4. PICK w \in Workers : w = Current
    BY <1>t
  <2>5. Owns(w)'
    BY <2>2, <2>3, <2>4, OwnsStays
  <2>6. QED
    BY <2>1, <2>4, <2>5
<1>3. ASSUME mpc' = "poll", NEW i \in 1 .. checked' PROVE (Owner(NamesOf[Current][i]) = Current)'
  <2>1. Current' = Current
    BY <1>3, PollSteps
  <2>2. stage'[Current] # "withdrawn"
    BY <1>3, <1>s, <2>1
  <2>3. PICK w \in Workers : w = Current
    BY <1>t
  <2>4. Owner(NamesOf[w][i]) = w /\ NamesOf[w][i] \in Names
    <3>1. CASE mpc = "poll" /\ checked' = checked
      <4>1. i \in 1 .. Len(NamesOf[w]) /\ Owner(NamesOf[w][i]) = w
        BY <1>3, <1>t, <2>3, <3>1, PlacesFacts DEF OwnersInv
      <4>2. QED
        BY <4>1, PlacesFacts
    <3>2. CASE checked' = 0
      BY <1>3, <3>2
    <3>3. CASE PollName /\ checked' = checked + 1
      <4>1. mpc = "poll" /\ checked < Len(NamesOf[w]) /\ Owner(NamesOf[w][checked + 1]) = w
        BY <1>3, <1>t, <2>3, <3>3 DEF PollName, MainAt
      <4>2. i \in 1 .. checked \/ i = checked + 1
        BY <1>3, <1>t, <3>3
      <4>3. QED
        BY <1>t, <2>3, <4>1, <4>2, PlacesFacts DEF OwnersInv
    <3>4. QED
      BY <1>3, <3>1, <3>2, <3>3, PollSteps
  <2>5. PICK n \in Names : n = NamesOf[w][i]
    BY <2>4
  <2>6. Owner(n)' = w
    BY <2>2, <2>3, <2>4, <2>5, OwnersStay
  <2>7. QED
    BY <2>1, <2>3, <2>5, <2>6
<1>4. ASSUME mpc' = "poll" PROVE (checked <= Len(NamesOf[Current]))'
  <2>1. Current' = Current
    BY <1>4, PollSteps
  <2>2. /\ mpc = "poll" => checked <= Len(NamesOf[Current])
        /\ PollName => checked < Len(NamesOf[Current])
        /\ Len(NamesOf[Current]) \in Nat
    BY <1>t, PlacesFacts DEF OwnersInv, PollName
  <2>3. QED
    BY <1>4, <1>t, <2>1, <2>2, PollSteps
<1>5. QED
  BY <1>1, <1>2, <1>3, <1>4 DEF OwnersInv

\* A worker is born by the fork of main, and by nothing else.
LEMMA BornOnce ==
    ASSUME IInv, [Next]_vars, NEW w \in Workers, stage[w] = "unborn"
    PROVE  stage'[w] = "unborn" \/ (Fork /\ w = Current)
<1> DEFINE Goal == stage'[w] = "unborn" \/ (Fork /\ w = Current)
<1> USE DEF hubVars, registryVars, notifyVars, workerVars, mainVars, monVars, childVars
<1>i. StartupInv /\ VictimInv /\ SuspectInv /\ stage \in [Workers -> Stages] /\ Current \in Workers
  BY StateTypes, StartFacts DEF IInv, StateInv
<1>1. CASE Startup
  BY <1>i, <1>1 DEF Startup, Fork, SpawnFails, ReserveNames, Go, PollName, PollReady, TryWait, Push, Resolve,
              Launch, LaunchFails
<1>2. CASE Timeout \/ AppsExit \/ SupervisorDies
  BY <1>2 DEF Timeout, AppsExit, SupervisorDies
<1>3. CASE Teardown
  BY <1>i, <1>3 DEF Teardown, LockChildren, DropNext, DropDone, KillAndWait, MainRetire, MainWithdraw,
              VictimInv, MainAt
<1>4. CASE Monitor
  BY <1>i, <1>4, StateTypes DEF Monitor, MonitorWake, MonitorTryWait, MonitorRetire, MonitorWithdraw,
              MonitorSleep, SuspectInv
<1>5. ASSUME NEW v \in Workers, Worker(v) PROVE Goal
  BY <1>i, <1>5 DEF Worker, PreExec, Publish, Published, WorkerExits, OrphanKilled, Exits, Running
<1>6. ASSUME NEW a \in Apps, App(a) PROVE Goal
  BY <1>6 DEF App, AppCalls, AppReturns, AppDies
<1>7. ASSUME NEW p \in Procs, HubStep(p) PROVE Goal
  BY <1>7 DEF HubStep
<1>8. CASE UNCHANGED vars
  BY <1>8 DEF vars
<1>9. QED
  BY <1>1, <1>2, <1>3, <1>4, <1>5, <1>6, <1>7, <1>8 DEF Next, Finished

Lost(w) ==
    /\ w \notin children
    /\ ~(w = Current /\ mpc \in {"fork", "go", "poll", "trywait", "push"})
    /\ ~(w = victim  /\ mpc \in {"kill", "retire", "withdraw"})
    /\ mpc # "dead"

\* A step that leaves main and the list of children alone loses nobody.
LEMMA LostFrame ==
    ASSUME IInv, UNCHANGED <<mainVars, childVars>>, NEW w, ~Lost(w)
    PROVE  ~Lost(w)'
BY StartFacts DEF Lost, mainVars, childVars

\* The workers that were there before a step are still in somebody's hands.
LEMMA LostSteps ==
    ASSUME IInv, [Next]_vars, NEW w \in Workers, stage[w] # "unborn", stage'[w] # "withdrawn", ~Lost(w)
    PROVE  ~Lost(w)'
<1> USE DEF hubVars, registryVars, notifyVars, workerVars, mainVars, monVars, childVars
<1>i. /\ StartupInv /\ VictimInv /\ SuspectInv /\ stage \in [Workers -> Stages] /\ Current \in Workers
      /\ UNCHANGED cur => Current' = Current
  BY StateTypes, StartFacts DEF IInv, StateInv
<1>1. CASE Fork
  BY <1>i, <1>1 DEF Fork, Lost, MainAt, StartupInv
<1>2. CASE SpawnFails
  BY <1>i, <1>2 DEF SpawnFails, Lost, MainAt
<1>3. CASE ReserveNames \/ PollName \/ PollReady
  BY <1>i, <1>3 DEF ReserveNames, PollName, PollReady, Lost, MainAt
<1>4. CASE Go
  BY <1>i, <1>4 DEF Go, Lost, MainAt
<1>5. CASE TryWait
  BY <1>i, <1>5 DEF TryWait, Lost, MainAt
<1>6. CASE Push
  BY <1>i, <1>6 DEF Push, Lost, MainAt
<1>7. CASE Resolve
  BY <1>i, <1>7 DEF Resolve, Continue, Lost, MainAt
<1>8. CASE Launch \/ LaunchFails \/ Timeout \/ AppsExit \/ SupervisorDies
  BY <1>i, <1>8 DEF Launch, LaunchFails, Timeout, AppsExit, SupervisorDies, Lost, MainAt
<1>9. CASE LockChildren \/ DropNext \/ DropDone \/ KillAndWait \/ MainRetire
  BY <1>i, <1>9 DEF LockChildren, DropNext, DropDone, KillAndWait, MainRetire, Lost, MainAt
<1>10. CASE MainWithdraw
  BY <1>i, <1>10 DEF MainWithdraw, Lost, MainAt, VictimInv
<1>11. CASE Monitor
  BY <1>i, <1>11, StateTypes DEF Monitor, MonitorWake, MonitorTryWait, MonitorRetire, MonitorWithdraw,
     MonitorSleep, Lost, SuspectInv
<1>12. ASSUME NEW v \in Workers, Worker(v) PROVE UNCHANGED <<mainVars, childVars>>
  BY <1>12 DEF Worker, PreExec, Publish, Published, WorkerExits, OrphanKilled
<1>13. ASSUME NEW a \in Apps, App(a) PROVE UNCHANGED <<mainVars, childVars>>
  BY <1>13 DEF App, AppCalls, AppReturns, AppDies
<1>14. ASSUME NEW p \in Procs, HubStep(p) PROVE UNCHANGED <<mainVars, childVars>>
  BY <1>14 DEF HubStep
<1>15. CASE UNCHANGED vars
  BY <1>15, LostFrame DEF vars
<1>16. QED
  BY <1>1, <1>2, <1>3, <1>4, <1>5, <1>6, <1>7, <1>8, <1>9, <1>10, <1>11, <1>12, <1>13, <1>14, <1>15, LostFrame
  DEF Next, Startup, Teardown, Finished

\* No step loses track of a worker.
LEMMA LostStep ==
    ASSUME IInv, NoWorkerIsLost, [Next]_vars
    PROVE  NoWorkerIsLost'
<1>1. SUFFICES ASSUME NEW w \in Workers, (stage[w] \in Running \cup {"zombie", "reaped"})' PROVE ~Lost(w)'
  BY DEF NoWorkerIsLost, Lost
<1>2. stage'[w] # "unborn" /\ stage'[w] # "withdrawn" /\ stage[w] \in Stages
  BY <1>1, StateTypes DEF Running
<1>3. CASE stage[w] = "unborn"
  <2>1. Fork /\ w = Current
    BY <1>2, <1>3, BornOnce
  <2>2. Current' = Current /\ mpc' = "fork"
    BY <2>1, StartFacts DEF Fork
  <2>3. QED
    BY <2>1, <2>2 DEF Lost
<1>4. CASE stage[w] # "unborn"
  <2>1. stage[w] # "withdrawn"
    BY <1>2, WithdrawnForEver
  <2>2. stage[w] \in Running \cup {"zombie", "reaped"}
    BY <1>2, <1>4, <2>1 DEF Stages
  <2>3. ~Lost(w)
    BY <2>2 DEF NoWorkerIsLost, Lost
  <2>4. QED
    BY <1>2, <1>4, <2>3, LostSteps
<1>5. QED
  BY <1>3, <1>4

\* Drop goes through all the children.
LEMMA DroppedStep ==
    ASSUME IInv, DroppedInv, [Next]_vars
    PROVE  DroppedInv'
<1> USE DEF hubVars, registryVars, notifyVars, workerVars, mainVars, monVars, childVars
<1>i. /\ ChildLockInv /\ VictimInv /\ SuspectInv /\ stage \in [Workers -> Stages] /\ children \subseteq Workers
      /\ dropping \subseteq Workers
  BY StateTypes DEF IInv, StateInv
<1>0. \A w \in Workers : stage[w] = "withdrawn" => stage'[w] = "withdrawn"
  BY WithdrawnForEver
<1>1. CASE UNCHANGED <<mpc, victim, dropping, children, childLock>>
  BY <1>i, <1>0, <1>1 DEF DroppedInv
<1>2. CASE Startup
  BY <1>i, <1>0, <1>2 DEF Startup, Fork, SpawnFails, ReserveNames, Go, PollName, PollReady, TryWait, Push,
     Resolve, Continue, Launch, LaunchFails, MainAt, ChildLockInv, DroppedInv
<1>3. CASE Timeout \/ AppsExit \/ SupervisorDies
  BY <1>i, <1>0, <1>3 DEF Timeout, AppsExit, SupervisorDies, MainAt, DroppedInv
<1>4. CASE LockChildren
  BY <1>4 DEF LockChildren, DroppedInv
<1>5. CASE DropNext
  BY <1>i, <1>0, <1>5 DEF DropNext, MainAt, DroppedInv
<1>6. CASE DropDone
  BY <1>6 DEF DropDone, DroppedInv
<1>7. CASE KillAndWait
  BY <1>i, <1>0, <1>7 DEF KillAndWait, MainAt, DroppedInv
<1>8. CASE MainRetire
  BY <1>i, <1>0, <1>8 DEF MainRetire, MainAt, DroppedInv
<1>9. CASE MainWithdraw
  BY <1>i, <1>0, <1>9 DEF MainWithdraw, MainAt, VictimInv, DroppedInv
<1>10. CASE Monitor
  BY <1>i, <1>0, <1>10, StateTypes DEF Monitor, MonitorWake, MonitorTryWait, MonitorRetire, MonitorWithdraw,
     MonitorSleep, ChildLockInv, DroppedInv
<1>11. ASSUME NEW v \in Workers, Worker(v) PROVE UNCHANGED <<mpc, victim, dropping, children, childLock>>
  BY <1>11 DEF Worker, PreExec, Publish, Published, WorkerExits, OrphanKilled
<1>12. ASSUME NEW a \in Apps, App(a) PROVE UNCHANGED <<mpc, victim, dropping, children, childLock>>
  BY <1>12 DEF App, AppCalls, AppReturns, AppDies
<1>13. ASSUME NEW p \in Procs, HubStep(p) PROVE UNCHANGED <<mpc, victim, dropping, children, childLock>>
  BY <1>13 DEF HubStep
<1>14. CASE UNCHANGED vars
  BY <1>1, <1>14 DEF vars
<1>15. QED
  BY <1>1, <1>2, <1>3, <1>4, <1>5, <1>6, <1>7, <1>8, <1>9, <1>10, <1>11, <1>12, <1>13, <1>14
  DEF Next, Teardown, Finished

\* How main comes to be done.
LEMMA DoneSteps ==
    ASSUME [Next]_vars, mpc' = "done"
    PROVE  mpc = "done" \/ DropDone
<1> USE DEF hubVars, registryVars, notifyVars, workerVars, mainVars, monVars, childVars
<1>1. CASE Startup
  BY <1>1 DEF Startup, Fork, SpawnFails, ReserveNames, Go, PollName, PollReady, TryWait, Push,
     Resolve, Continue, Launch, LaunchFails, MainAt
<1>2. CASE Timeout \/ AppsExit \/ SupervisorDies
  BY <1>2 DEF Timeout, AppsExit, SupervisorDies
<1>3. CASE Teardown
  BY <1>3 DEF Teardown, LockChildren, DropNext, KillAndWait, MainRetire, MainWithdraw
<1>4. CASE Monitor
  BY <1>4 DEF Monitor, MonitorWake, MonitorTryWait, MonitorRetire, MonitorWithdraw, MonitorSleep
<1>5. ASSUME NEW v \in Workers, Worker(v) PROVE mpc' = mpc
  BY <1>5 DEF Worker, PreExec, Publish, Published, WorkerExits, OrphanKilled
<1>6. ASSUME NEW a \in Apps, App(a) PROVE mpc' = mpc
  BY <1>6 DEF App, AppCalls, AppReturns, AppDies
<1>7. ASSUME NEW p \in Procs, HubStep(p) PROVE mpc' = mpc
  BY <1>7 DEF HubStep
<1>8. CASE UNCHANGED vars
  BY <1>8 DEF vars
<1>9. QED
  BY <1>1, <1>2, <1>3, <1>4, <1>5, <1>6, <1>7, <1>8 DEF Next, Finished

\* Main is done only when every worker was withdrawn, or never started.
LEMMA DoneStep ==
    ASSUME IInv, NoWorkerIsLost, DroppedInv, DoneMeansCollected, [Next]_vars
    PROVE  DoneMeansCollected'
<1>1. SUFFICES ASSUME mpc' = "done", NEW w \in Workers PROVE stage'[w] \in {"unborn", "withdrawn"}
  BY DEF DoneMeansCollected
<1>2. stage[w] \in {"unborn", "withdrawn"}
  <2>1. CASE mpc = "done"
    BY <2>1 DEF DoneMeansCollected
  <2>2. CASE DropDone
    <3>1. mpc = "next" /\ dropping = {} /\ childLock = "main"
      BY <2>2 DEF DropDone, MainAt, IInv, StateInv, ChildLockInv
    <3>2. \A v \in children : stage[v] = "withdrawn"
      BY <3>1 DEF DroppedInv
    <3>3. stage[w] \in Stages
      BY StateTypes
    <3>4. QED
      BY <3>1, <3>2, <3>3 DEF NoWorkerIsLost, Stages, Running
  <2>3. QED
    BY <1>1, <2>1, <2>2, DoneSteps
<1>3. ~Fork
  BY <1>1 DEF Fork
<1>4. QED
  BY <1>2, <1>3, WithdrawnForEver, BornOnce

\* Whoever holds a running worker when the apps run is the list of children.
LEMMA RunningAreFound ==
    ASSUME IInv, AccountInv
    PROVE  AppsFindServices
<1>1. SUFFICES ASSUME mpc = "run", NEW w \in Workers, stage[w] \in Running PROVE w \in children /\ Owns(w)
  BY DEF AppsFindServices, Owns
<1>2. w \in children
  BY <1>1 DEF AccountInv, NoWorkerIsLost
<1>3. QED
  BY <1>1, <1>2 DEF AccountInv, OwnersInv, Running

\* The apps find the services of the workers that run, no step loses track of a worker,
\* and none is left when main is done: Workers::spawn, the monitor and Drop
\* (host_services.rs) together, whatever dies and whenever.
THEOREM WorkersAreAccountedForAlways == Spec => []WorkersAreAccountedFor
<1>1. Init => AccountInv
  BY DEF Init, AccountInv, NoWorkerIsLost, DoneMeansCollected, DroppedInv, OwnersInv, Running
<1>2. IInv /\ AccountInv /\ [Next]_vars => AccountInv'
  BY LostStep, DroppedStep, DoneStep, OwnersStep DEF AccountInv
<1>3. IInv /\ AccountInv => WorkersAreAccountedFor
  BY RunningAreFound DEF AccountInv, WorkersAreAccountedFor
<1>4. QED
  BY <1>1, <1>2, <1>3, Invariance, PTL DEF Spec
=============================================================================
