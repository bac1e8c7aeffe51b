--------------------------- MODULE BoundServices ----------------------------
(***************************************************************************)
(* Started and bound Android services: the service part of ActivityService *)
(* (src/crates/arod/src/services/activity.rs) and ServiceProcesses         *)
(* (src/crates/arod/src/services/service_processes.rs).                    *)
(*                                                                         *)
(* A service runs either in the app's own process, created on first use,   *)
(* or in a process of its own, launched by the first bind and identified   *)
(* by its start sequence.  Actors: threads of the app (Clients), which     *)
(* call startService, bindService, unbindService and stopServiceToken; the *)
(* service processes, which attach, publish and may die at any moment; the *)
(* threads arod spawns to send BIND_APPLICATION and to reap processes.     *)
(*                                                                         *)
(* The calls about service processes hold the mutex of `processes` from    *)
(* beginning to end, so each is one step; those about services of the app  *)
(* lock `running_services` and `bindings` in turn and are cut where they   *)
(* unlock.  Calls to one IApplicationThread are oneway and arrive in the   *)
(* order they are sent (Binder), so `log` records them per service token.  *)
(***************************************************************************)
EXTENDS Naturals, Sequences, FiniteSets, SequencesExt, VecRetain

CONSTANTS
    Connections,   \* IServiceConnection binders
    Keys,          \* (caller, class, instance) of services with a process
    Classes,       \* services of the app's own process
    Clients,       \* threads of the app that use the services of the app
    MaxSeq,        \* start sequences (1000 in the code, the isolated UIDs)
    MaxLocal,      \* bound: service tokens made for services of the app
    MaxBinds,      \* bound: bind tokens
    Absent

Processes == 1 .. MaxSeq
Locals    == (MaxSeq + 1) .. (MaxSeq + MaxLocal)
Tokens    == Processes \cup Locals
Binds     == 1 .. MaxBinds

ASSUME BoundsAssumption ==
    /\ MaxSeq \in Nat /\ MaxLocal \in Nat /\ MaxBinds \in Nat
    /\ IsFiniteSet(Connections) /\ IsFiniteSet(Clients)
    /\ Absent \notin Connections \cup Locals

VARIABLES
    processes,   \* the map from start sequences to ServiceProcess
    child,       \* what became of the process launched for a sequence
    leaving,     \* the processes a reaper thread waits for
    nextSeq,
    bindings,    \* Vec<ServiceBinding>
    running,     \* running_services
    nextLocal, nextBind,
    log,         \* what each service was told, oldest first
    call,        \* where each client is in startService, bindService, stopServiceToken
    publishing,  \* publishService calls that found their binding
    accepted,    \* history: what bindService answered true for, not unbound since
    connected,   \* history: bind tokens whose connection was told `connected`
    sweepFailed  \* history: the last unbindService returned before its sweep

remoteVars == <<processes, child, leaving, nextSeq>>
localVars  == <<running, nextLocal, call>>
bindVars   == <<bindings, nextBind, log>>
history    == <<accepted, connected, sweepFailed>>
vars       == <<remoteVars, localVars, bindVars, publishing, history>>

Alive     == {"booting", "attaching", "bound", "up"}
Entry     == [key : Keys, attached : BOOLEAN, ready : BOOLEAN, pending : Seq(Connections)]
Binding   == [bind : Binds, token : Tokens, conn : Connections]
ASSUME EntryAssumption == Absent \notin Entry

Message   == [kind : {"create", "bind", "unbind", "stop", "args"}, bind : Binds \cup {0}]
Idle      == [at |-> "idle"]
Use       == [at : {"create", "use"}, token : Locals, conn : Connections \cup {Absent}]
Calls     == {Idle} \cup Use
               \cup [at : {"send"}, binding : Binding] \cup [at : {"stop"}, token : Locals]

TypeOK ==
    /\ processes \in [Processes -> Entry \cup {Absent}]
    /\ child \in [Processes -> Alive \cup {"none", "broken", "exited", "reaped"}]
    /\ leaving \subseteq Processes
    /\ nextSeq \in 1 .. MaxSeq + 1
    /\ bindings \in Seq(Binding)
    /\ running \in [Classes -> Locals \cup {Absent}]
    /\ nextLocal \in 1 .. MaxLocal + 1
    /\ nextBind \in 1 .. MaxBinds + 1
    /\ log \in [Tokens -> Seq(Message)]
    /\ call \in [Clients -> Calls]
    /\ publishing \subseteq Binding
    /\ accepted \subseteq (Connections \X Tokens)
    /\ connected \subseteq Binds
    /\ sweepFailed \in BOOLEAN

Init ==
    /\ processes = [s \in Processes |-> Absent]
    /\ child = [s \in Processes |-> "none"]
    /\ leaving = {} /\ nextSeq = 1
    /\ bindings = <<>> /\ nextBind = 1
    /\ running = [c \in Classes |-> Absent] /\ nextLocal = 1
    /\ log = [t \in Tokens |-> <<>>]
    /\ call = [t \in Clients |-> Idle]
    /\ publishing = {}
    /\ accepted = {} /\ connected = {} /\ sweepFailed = FALSE

Launched == {s \in Processes : processes[s] # Absent}

\* The connections that wait for their process, and the clients on their way to a
\* binding: each is promised a bind token.
Waiting == UNION {{s} \X DOMAIN processes[s].pending : s \in Launched}
Coming  == {t \in Clients : call[t].at \in {"create", "use"} /\ call[t].conn # Absent}

\* Bound: the bind tokens last for everyone who is promised one.
TokensLast == nextBind + Cardinality(Waiting) + Cardinality(Coming) <= MaxBinds

Told(token, msgs) == [log EXCEPT ![token] = @ \o msgs]
Msg(kind)  == <<[kind |-> kind, bind |-> 0]>>
Msgs(kind, bs) == [i \in DOMAIN bs |-> [kind |-> kind, bind |-> bs[i].bind]]

\* The kinds of messages a service was sent.
Heard(token) == {log[token][i].kind : i \in DOMAIN log[token]}

\* Bound: a service of the app is started once while it runs.
StartsLast(c) == running[c] # Absent => "args" \notin Heard(running[c])

\* The bindings send_service_binding makes for the connections cs, in order.
NewBindings(token, cs) ==
    [i \in DOMAIN cs |-> [bind |-> nextBind + i - 1, token |-> token, conn |-> cs[i]]]

-----------------------------------------------------------------------------
(* Services with a process of their own.                                   *)

\* Child::try_wait
Exited(s) == child[s] = "exited"

\* Mutant: only a process that finished attaching is found again.
ExistingReady(k) == {s \in Launched : processes[s].key = k /\ processes[s].ready}

Existing(k) == {s \in Launched : processes[s].key = k}

\* Mutant: BIND is sent without recording who asked for it.
BindReadyUnrecorded(c, s) ==
    /\ processes[s].ready /\ child[s] = "up"
    /\ log' = Told(s, Msgs("bind", NewBindings(s, <<c>>)))
    /\ nextBind' = nextBind + 1
    /\ accepted' = accepted \cup {<<c, s>>}
    /\ UNCHANGED <<remoteVars, bindings>>

\* The existing process is ready: the binding is recorded, then BIND is
\* sent; when that fails the caller is answered false and the binding stays.
BindReady(c, s) ==
    /\ processes[s].ready
    /\ bindings' = bindings \o NewBindings(s, <<c>>)
    /\ nextBind' = nextBind + 1
    /\ \/ /\ child[s] = "up"
          /\ log' = Told(s, Msgs("bind", NewBindings(s, <<c>>)))
          /\ accepted' = accepted \cup {<<c, s>>}
       \/ /\ child[s] # "up"
          /\ UNCHANGED <<log, accepted>>
    /\ UNCHANGED remoteVars

\* The existing process has not attached yet: the connection waits for it.
BindPending(c, s) ==
    /\ ~processes[s].ready
    /\ processes' = [processes EXCEPT ![s].pending = Append(@, c)]
    /\ accepted' = accepted \cup {<<c, s>>}
    /\ UNCHANGED <<child, leaving, nextSeq, bindVars>>

\* Processes of this key that try_wait found dead leave the map.
Forgotten(k) == {s \in Existing(k) : Exited(s)}
Kept(k)   == [s \in Processes |-> IF s \in Forgotten(k) THEN Absent ELSE processes[s]]
Waited(k) == [s \in Processes |-> IF s \in Forgotten(k) THEN "reaped" ELSE child[s]]

\* Mutant: the UID range is not checked.
LaunchUnchecked(c, k) ==
    /\ processes' = [Kept(k) EXCEPT ![nextSeq] =
           [key |-> k, attached |-> FALSE, ready |-> FALSE, pending |-> <<c>>]]
    /\ child' = [Waited(k) EXCEPT ![nextSeq] = "booting"]
    /\ nextSeq' = nextSeq + 1
    /\ accepted' = accepted \cup {<<c, nextSeq>>}
    /\ UNCHANGED <<leaving, bindVars>>

Launch(c, k) ==
    /\ nextSeq <= MaxSeq
    /\ processes' = [Kept(k) EXCEPT ![nextSeq] =
           [key |-> k, attached |-> FALSE, ready |-> FALSE, pending |-> <<c>>]]
    /\ child' = [Waited(k) EXCEPT ![nextSeq] = "booting"]
    /\ nextSeq' = nextSeq + 1
    /\ accepted' = accepted \cup {<<c, nextSeq>>}
    /\ UNCHANGED <<leaving, bindVars>>

\* No UID is left, or the process could not be spawned: the caller is
\* answered false; the sequence number is used up all the same.
LaunchFails(k) ==
    /\ nextSeq' = IF nextSeq <= MaxSeq THEN nextSeq + 1 ELSE nextSeq
    /\ processes' = Kept(k) /\ child' = Waited(k)
    /\ UNCHANGED <<leaving, bindVars, accepted>>

BindRemote(c, k) ==
    /\ TokensLast
    /\ \/ \E s \in Existing(k) : ~Exited(s) /\ (BindReady(c, s) \/ BindPending(c, s))
       \/ /\ \A s \in Existing(k) : Exited(s)
          /\ Launch(c, k) \/ LaunchFails(k)
    /\ UNCHANGED <<localVars, publishing, connected, sweepFailed>>

-----------------------------------------------------------------------------
(* The service process, from its start to its death.                       *)

\* attachApplication with a start sequence; the thread that answers with
\* BIND_APPLICATION exists only if the process is still in the map.
AttachApplication(s) ==
    /\ child[s] = "booting"
    /\ child' = [child EXCEPT ![s] = IF s \in Launched THEN "attaching" ELSE "up"]
    /\ processes' = [processes EXCEPT ![s] = IF s \in Launched THEN [@ EXCEPT !.attached = TRUE] ELSE @]
    /\ UNCHANGED <<leaving, nextSeq, localVars, bindVars, publishing, history>>

BindApplication(s) ==
    /\ child[s] = "attaching"
    /\ child' = [child EXCEPT ![s] = "bound"]
    /\ UNCHANGED <<processes, leaving, nextSeq, localVars, bindVars, publishing, history>>

\* finish_service_attach: CREATE, then BIND for everyone who waited.  The
\* process may die while that goes on: the n-th BIND is the first that fails,
\* the connections after it are forgotten (n = 0: CREATE fails).
FinishAttach(s) ==
    /\ child[s] = "bound" /\ s \in Launched /\ processes[s].attached
    /\ LET all == NewBindings(s, processes[s].pending)
           done == [processes EXCEPT ![s].ready = TRUE, ![s].pending = <<>>]
       IN  \/ /\ processes' = done /\ child' = [child EXCEPT ![s] = "up"]
              /\ bindings' = bindings \o all
              /\ log' = Told(s, Msg("create") \o Msgs("bind", all))
              /\ nextBind' = nextBind + Len(all)
           \/ /\ child' = [child EXCEPT ![s] = "broken"]
              /\ UNCHANGED <<processes, bindVars>>
           \/ \E n \in DOMAIN all :
                /\ processes' = done /\ child' = [child EXCEPT ![s] = "broken"]
                /\ bindings' = bindings \o SubSeq(all, 1, n)
                /\ log' = Told(s, Msg("create") \o Msgs("bind", SubSeq(all, 1, n - 1)))
                /\ nextBind' = nextBind + n
    /\ UNCHANGED <<leaving, nextSeq, localVars, publishing, history>>

\* finishAttachApplication of a process that left the map is an error.
FinishAttachUnknown(s) ==
    /\ child[s] = "bound" /\ s \notin Launched
    /\ child' = [child EXCEPT ![s] = "up"]
    /\ UNCHANGED <<processes, leaving, nextSeq, localVars, bindVars, publishing, history>>

\* The Android process dies; the launcher that try_wait watches ends later.
Die(s) ==
    /\ child[s] \in Alive
    /\ child' = [child EXCEPT ![s] = "broken"]
    /\ UNCHANGED <<processes, leaving, nextSeq, localVars, bindVars, publishing, history>>

LauncherExits(s) ==
    /\ child[s] = "broken"
    /\ child' = [child EXCEPT ![s] = "exited"]
    /\ UNCHANGED <<processes, leaving, nextSeq, localVars, bindVars, publishing, history>>

\* Mutant: the reaper has no deadline.
ReapExited(s) ==
    /\ s \in leaving /\ Exited(s)
    /\ child' = [child EXCEPT ![s] = "reaped"]
    /\ leaving' = leaving \ {s}
    /\ UNCHANGED <<processes, nextSeq, localVars, bindVars, publishing, history>>

\* The reaper thread: waits for the process, kills it at the deadline.
Reap(s) ==
    /\ s \in leaving
    /\ child' = [child EXCEPT ![s] = "reaped"]
    /\ leaving' = leaving \ {s}
    /\ UNCHANGED <<processes, nextSeq, localVars, bindVars, publishing, history>>

-----------------------------------------------------------------------------
(* unbindService: the connection is struck from the waiting lists and the  *)
(* bindings, every service it was bound to is told, and then the processes *)
(* nobody waits for or is bound to are stopped.  A service that cannot be  *)
(* told ends the call on the spot.                                         *)

Withdrawn(c) == [s \in Processes |->
    IF s \in Launched
    THEN [processes[s] EXCEPT !.pending = Retain(@, Connections \ {c})]
    ELSE Absent]

Reachable(b) == b.token \in Processes => child[b.token] \in Alive

\* The bindings whose service is told: all of them, or those before the
\* first whose process is gone.
ToldOf(bs) ==
    LET gone == {i \in DOMAIN bs : ~Reachable(bs[i])}
    IN  IF gone = {} THEN bs ELSE SubSeq(bs, 1, (CHOOSE i \in gone : \A j \in gone : i <= j) - 1)

\* Mutants: waiting connections do not count; only ready processes are stopped.
FinishedWithWaiters(procs, bs) ==
    {s \in Processes : procs[s] # Absent /\ \A i \in DOMAIN bs : bs[i].token # s}
FinishedReady(procs, bs) ==
    {s \in FinishedWithWaiters(procs, bs) : procs[s].pending = <<>> /\ procs[s].ready}

\* Processes nobody waits for and nobody is bound to.
Finished(procs, bs) ==
    {s \in Processes : /\ procs[s] # Absent
                       /\ procs[s].pending = <<>>
                       /\ \A i \in DOMAIN bs : bs[i].token # s}

\* Mutant: STOP goes out before the UNBINDs.
StopThenUnbound(removed, finished) ==
    [t \in Tokens |->
        log[t] \o (IF t \in finished /\ processes[t].attached /\ child[t] \in Alive
                   THEN Msg("stop") ELSE <<>>)
               \o Msgs("unbind", Retain(ToldOf(removed), {b \in Binding : b.token = t}))]

\* STOP goes to the finished processes that have attached.
Unbound(removed, finished) ==
    [t \in Tokens |->
        log[t] \o Msgs("unbind", Retain(ToldOf(removed), {b \in Binding : b.token = t}))
               \o (IF t \in finished /\ processes[t].attached /\ child[t] \in Alive
                   THEN Msg("stop") ELSE <<>>)]

Unbind(c) ==
    LET removed == Retain(bindings, {b \in Binding : b.conn = c})
        kept    == Retain(bindings, {b \in Binding : b.conn # c})
        failed  == ToldOf(removed) # removed
        ended   == IF failed THEN {} ELSE Finished(Withdrawn(c), kept)
    IN  /\ bindings' = kept
        /\ log' = Unbound(removed, ended)
        /\ processes' = [s \in Processes |-> IF s \in ended THEN Absent ELSE Withdrawn(c)[s]]
        /\ leaving' = leaving \cup ended
        /\ accepted' = {a \in accepted : a[1] # c}
        /\ sweepFailed' = failed
        /\ UNCHANGED <<child, nextSeq, nextBind, localVars, publishing, connected>>

-----------------------------------------------------------------------------
(* Services of the app's own process.                                      *)

\* ensure_service, under the lock of `running_services`, for startService
\* (conn = Absent) and bindService.
EnsureService(t, c, conn) ==
    /\ call[t] = Idle
    /\ IF conn = Absent THEN StartsLast(c) ELSE TokensLast
    /\ \/ /\ running[c] # Absent
          /\ call' = [call EXCEPT ![t] = [at |-> "use", token |-> running[c], conn |-> conn]]
          /\ UNCHANGED <<running, nextLocal>>
       \/ /\ running[c] = Absent /\ nextLocal <= MaxLocal
          /\ running' = [running EXCEPT ![c] = MaxSeq + nextLocal]
          /\ nextLocal' = nextLocal + 1
          /\ call' = [call EXCEPT ![t] =
                        [at |-> "create", token |-> MaxSeq + nextLocal, conn |-> conn]]
    /\ UNCHANGED <<remoteVars, bindVars, publishing, history>>

\* CREATE is sent by the caller that found the service missing, after it
\* unlocked `running_services`.
SendCreate(t) ==
    /\ call[t].at = "create"
    /\ log' = Told(call[t].token, Msg("create"))
    /\ call' = [call EXCEPT ![t].at = "use"]
    /\ UNCHANGED <<remoteVars, running, nextLocal, bindings, nextBind, publishing, history>>

\* start_service
SendArgs(t) ==
    /\ call[t].at = "use" /\ call[t].conn = Absent
    /\ log' = Told(call[t].token, Msg("args"))
    /\ call' = [call EXCEPT ![t] = Idle]
    /\ UNCHANGED <<remoteVars, running, nextLocal, bindings, nextBind, publishing, history>>

\* bind_service: send_service_binding records the binding, then sends BIND.
RecordBinding(t) ==
    /\ call[t].at = "use" /\ call[t].conn # Absent
    /\ LET new == NewBindings(call[t].token, <<call[t].conn>>) IN
         /\ bindings' = bindings \o new
         /\ call' = [call EXCEPT ![t] = [at |-> "send", binding |-> new[1]]]
    /\ nextBind' = nextBind + 1
    /\ UNCHANGED <<remoteVars, running, nextLocal, log, publishing, history>>

SendBind(t) ==
    /\ call[t].at = "send"
    /\ LET b == call[t].binding IN
         /\ log' = Told(b.token, Msgs("bind", <<b>>))
         /\ accepted' = accepted \cup {<<b.conn, b.token>>}
    /\ call' = [call EXCEPT ![t] = Idle]
    /\ UNCHANGED <<remoteVars, running, nextLocal, bindings, nextBind,
                   publishing, connected, sweepFailed>>

\* stop_service (stopSelf): refused while somebody is bound to the service.
\* The token of a service process is checked the same way, but its STOP goes
\* to the app, which does not know the token: no step is needed for it.
StopCheck(t, token) ==
    /\ call[t] = Idle
    /\ "create" \in Heard(token) /\ "stop" \notin Heard(token)
    /\ \A i \in DOMAIN bindings : bindings[i].token # token
    /\ call' = [call EXCEPT ![t] = [at |-> "stop", token |-> token]]
    /\ UNCHANGED <<remoteVars, running, nextLocal, bindVars, publishing, history>>

\* Mutant: the stopped service stays in `running_services`.
StopKeepsRunning(t) ==
    /\ call[t].at = "stop"
    /\ log' = Told(call[t].token, Msg("stop"))
    /\ call' = [call EXCEPT ![t] = Idle]
    /\ UNCHANGED <<remoteVars, running, nextLocal, bindings, nextBind, publishing, history>>

StopService(t) ==
    /\ call[t].at = "stop"
    /\ running' = [c \in Classes |-> IF running[c] = call[t].token THEN Absent ELSE running[c]]
    /\ log' = Told(call[t].token, Msg("stop"))
    /\ call' = [call EXCEPT ![t] = Idle]
    /\ UNCHANGED <<remoteVars, nextLocal, bindings, nextBind, publishing, history>>

-----------------------------------------------------------------------------
(* publishService: the service answers a BIND it received.  The binding is *)
(* looked up under the lock; `connected` is sent after it.                 *)

\* A service answers a BIND it hears while it exists: the process is up, and
\* CREATE came before, STOP did not.
Answers(token, b) ==
    /\ token \in Processes => child[token] = "up"
    /\ \E i, j \in DOMAIN log[token] :
         /\ j < i /\ log[token][j].kind = "create"
         /\ log[token][i] = [kind |-> "bind", bind |-> b]
         /\ \A k \in 1 .. i : log[token][k].kind # "stop"

Publish(b) ==
    /\ \E token \in Tokens : Answers(token, b)
    /\ b \notin connected
    /\ \E i \in DOMAIN bindings :
         /\ bindings[i].bind = b
         /\ publishing' = publishing \cup {bindings[i]}
    /\ UNCHANGED <<remoteVars, localVars, bindVars, history>>

SendConnected(b) ==
    /\ b \in publishing
    /\ publishing' = publishing \ {b}
    /\ connected' = connected \cup {b.bind}
    /\ UNCHANGED <<remoteVars, localVars, bindVars, accepted, sweepFailed>>

-----------------------------------------------------------------------------
ClientStep(t) ==
    \/ \E c \in Classes, conn \in Connections \cup {Absent} : EnsureService(t, c, conn)
    \/ SendCreate(t) \/ SendArgs(t) \/ RecordBinding(t) \/ SendBind(t)
    \/ \E token \in Locals : StopCheck(t, token)
    \/ StopService(t)

ProcessStep(s) ==
    \/ AttachApplication(s) \/ BindApplication(s)
    \/ FinishAttach(s) \/ FinishAttachUnknown(s)
    \/ Die(s) \/ LauncherExits(s) \/ Reap(s)

Next ==
    \/ \E c \in Connections, k \in Keys : BindRemote(c, k)
    \/ \E c \in Connections : Unbind(c)
    \/ \E t \in Clients : ClientStep(t)
    \/ \E s \in Processes : ProcessStep(s)
    \/ \E b \in Binds : Publish(b)
    \/ \E b \in publishing : SendConnected(b)

Spec == Init /\ [][Next]_vars

\* A service process that runs attaches, finishes its start and publishes
\* what it is bound for; the threads arod spawned run; Binder threads finish
\* the calls they handle.  Nobody is obliged to bind, unbind, stop or die.
Fairness ==
    /\ \A s \in Processes : /\ WF_vars(AttachApplication(s)) /\ WF_vars(BindApplication(s))
                            /\ WF_vars(FinishAttach(s)) /\ WF_vars(Reap(s))
    /\ \A b \in Binds : WF_vars(Publish(b))
    /\ WF_vars(\E b \in publishing : SendConnected(b))

FairSpec == Spec /\ Fairness

-----------------------------------------------------------------------------
(* Properties.                                                             *)

Attached(c, s) ==
    /\ s \in Launched
    /\ \/ \E i \in DOMAIN processes[s].pending : processes[s].pending[i] = c
       \/ \E i \in DOMAIN bindings : bindings[i].conn = c /\ bindings[i].token = s

\* A bind that was answered true is never lost while the service process is
\* alive: until the connection is unbound, the process is in the map and the
\* connection waits for it or is bound to it, however binds, attaches and
\* unbinds of other connections interleave.
NoConnectionIsForgotten ==
    \A a \in accepted : a[2] \in Processes /\ child[a[2]] \in Alive => Attached(a[1], a[2])

\* The final unbind stops the process: a live process of the map has a
\* connection, unless the last unbindService gave up before its sweep.
IdleProcessesAreStopped ==
    \A s \in Launched : child[s] \in Alive /\ (\A c \in Connections : ~Attached(c, s)) => sweepFailed

\* At most one process is launched for a caller, class and instance at a time,
\* and only the process that is attached has been told anything.
OneProcessPerKey ==
    /\ \A r, s \in Launched : processes[r].key = processes[s].key => r = s
    /\ \A s \in Launched : log[s] # <<>> => processes[s].ready

\* A process follows its binds: no accepted bind is forgotten, none is answered by a
\* second process beside the first, and a process without any is stopped.
ProcessesFollowTheirBinds ==
    NoConnectionIsForgotten /\ OneProcessPerKey /\ IdleProcessesAreStopped

\* What a service process hears is a life: CREATE first, BIND once for each
\* bind token, UNBIND only after its BIND, and nothing after STOP (which a
\* process also hears that was given up before its service was created).
ProcessesHearALife ==
    \A s \in Processes : \A i \in DOMAIN log[s] :
        LET m == log[s][i] IN
        /\ m.kind \in {"bind", "unbind"} => log[s][1].kind = "create"
        /\ m.kind = "create" => i = 1
        /\ m.kind = "stop" => i = Len(log[s])
        /\ m.kind = "unbind" => \E j \in 1 .. i - 1 : log[s][j] = [kind |-> "bind", bind |-> m.bind]
        /\ m.kind = "bind" => \A j \in 1 .. i - 1 : log[s][j].bind # m.bind

\* No bind is taken for a service of the app that was told to stop: a token
\* that was sent STOP never is the running token of its class again.
StoppedServicesAreGone ==
    \A c \in Classes : running[c] # Absent => "stop" \notin Heard(running[c])

\* Services of a process and of the app live once: what they hear is a life, and
\* nothing is bound to one that was told to stop.
ServicesLiveOnce == ProcessesHearALife /\ StoppedServicesAreGone

\* A bind of a service process completes: the connection is told `connected`
\* unless it is unbound or the process dies.
BindsComplete ==
    \A c \in Connections, s \in Processes :
        <<c, s>> \in accepted ~>
            \/ <<c, s>> \notin accepted \/ child[s] \notin Alive
            \/ \E i \in DOMAIN bindings :
                  bindings[i].conn = c /\ bindings[i].token = s /\ bindings[i].bind \in connected

\* A process that was stopped is collected.
StoppedProcessesAreReaped ==
    \A s \in Processes : s \in leaving ~> child[s] = "reaped"

\* What was begun comes to its end: binds complete, stopped processes are collected.
BindsAndStopsComplete == BindsComplete /\ StoppedProcessesAreReaped

\* docs/WEBVIEW.md:103, "the final unbind destroys and terminates the remote
\* service process": a live process of the map always has a connection.
FinalUnbindStopsTheProcess ==
    \A s \in Launched : child[s] \in Alive => \E c \in Connections : Attached(c, s)

\* docs/WEBVIEW.md:105, "stopSelf leaves a service alive while bindings
\* remain": no service that somebody is bound to has been sent STOP.
BoundServicesStayAlive ==
    \A i \in DOMAIN bindings : "stop" \notin Heard(bindings[i].token)
=============================================================================
