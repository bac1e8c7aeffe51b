-------------------------- MODULE LocationConsent ---------------------------
(***************************************************************************)
(* First-use consent for location: the location worker's request threads   *)
(* (src/crates/arod/src/services/location.rs), the private socket to the   *)
(* host helper and the helper itself                                       *)
(* (src/crates/arod/src/location_setup.rs), and the portal request that    *)
(* fetches a fix (src/crates/arod/src/portal.rs).                          *)
(*                                                                         *)
(* Each session has a worker and a helper joined by a socket.  A request   *)
(* thread takes the socket's mutex, sends Request, waits for one Boolean   *)
(* and may send Cancel meanwhile.  The helper's main loop reads messages;  *)
(* a thread of its own per request (the job) asks the user, installs       *)
(* GeoClue and enables location.  Sessions share the host: its packages,   *)
(* its location setting, and the lock file that serializes installations.  *)
(***************************************************************************)
EXTENDS Naturals, Sequences, FiniteSets

CONSTANTS
    Sessions, Requests, Packages,
    Ending,      \* bound: the sessions that may end
    SessionOf,   \* the session a request is made in
    PackageOf,   \* the package it names
    Absent

ASSUME RequestAssumption ==
    /\ PackageOf \in [Requests -> Packages]
    /\ SessionOf \in [Requests -> Sessions]
    /\ Ending \subseteq Sessions
    /\ Absent \notin Sessions \cup Requests

VARIABLES
    pc, canceled, sentCancel, fix,       \* the request threads
    lock, toHelper, toWorker, closed,    \* the socket of each session
    main, job, decisions,                \* the helper of each session
    installed, enabled, installLock,     \* the host
    consented,  \* history: requests the user allowed
    wasOn       \* history: the host offered location at some moment of the session's job

workerVars == <<pc, canceled, sentCancel, fix>>
socketVars == <<lock, toHelper, toWorker, closed>>
helperVars == <<main, job, decisions>>
hostVars   == <<installed, enabled, installLock>>
histories  == <<consented, wasOn>>
vars       == <<workerVars, socketVars, helperVars, hostVars, histories>>

helperSide == <<helperVars, hostVars, histories>>
elsewhere  == <<socketVars, helperSide>>

Pcs     == {"none", "locking", "waiting", "portal", "asking", "answer",
            "told", "silent"}
Places  == {"begin", "looking", "dialog", "allowed", "denied", "lock", "locked",
            "transaction", "installed", "enable", "final", "send", "ended"}
Message == [kind : {"Request", "Cancel"}, req : Requests]
Job     == [req : Requests, at : Places, canceled : BOOLEAN,
            missing : BOOLEAN, off : BOOLEAN, ready : BOOLEAN]

ASSUME JobAssumption == Absent \notin Job

TypeOK ==
    /\ pc \in [Requests -> Pcs]
    /\ canceled \in [Requests -> BOOLEAN] /\ sentCancel \in [Requests -> BOOLEAN]
    /\ fix \in [Requests -> BOOLEAN]
    /\ lock \in [Sessions -> Requests \cup {Absent}]
    /\ toHelper \in [Sessions -> Seq(Message)]
    /\ toWorker \in [Sessions -> Seq([ready : BOOLEAN, req : Requests])]
    /\ \A s \in Sessions : Len(toWorker[s]) <= 1
    /\ closed \in [Sessions -> BOOLEAN]
    /\ main \in [Sessions -> {"serving", "joining", "exiting", "exited"}]
    /\ job \in [Sessions -> Job \cup {Absent}]
    /\ decisions \in [Sessions -> [Packages -> {"unknown", "allow", "deny"}]]
    /\ installed \in BOOLEAN /\ enabled \in BOOLEAN
    /\ installLock \in Sessions \cup {Absent}
    /\ consented \subseteq Requests /\ wasOn \in [Sessions -> BOOLEAN]

Init ==
    /\ pc = [r \in Requests |-> "none"]
    /\ canceled = [r \in Requests |-> FALSE] /\ sentCancel = [r \in Requests |-> FALSE]
    /\ fix = [r \in Requests |-> FALSE]
    /\ lock = [s \in Sessions |-> Absent]
    /\ toHelper = [s \in Sessions |-> <<>>] /\ toWorker = [s \in Sessions |-> <<>>]
    /\ closed = [s \in Sessions |-> FALSE]
    /\ main = [s \in Sessions |-> "serving"]
    /\ job = [s \in Sessions |-> Absent]
    /\ decisions = [s \in Sessions |-> [p \in Packages |-> "unknown"]]
    /\ installed \in BOOLEAN /\ enabled \in BOOLEAN
    /\ installLock = Absent
    /\ consented = {} /\ wasOn = [s \in Sessions |-> FALSE]

-----------------------------------------------------------------------------
(* The request threads of the location worker.                             *)

Goto(r, p) == pc' = [pc EXCEPT ![r] = p]

\* getCurrentLocation: the authority validates the caller before the thread
\* starts; a call it refuses is answered without a fix.
Begin(r) ==
    /\ pc[r] = "none"
    /\ Goto(r, "locking") \/ Goto(r, "answer")
    /\ UNCHANGED <<canceled, sentCancel, fix, elsewhere>>

\* ICancellationSignal.cancel
Cancel(r) ==
    /\ pc[r] \notin {"none", "told", "silent"} /\ ~canceled[r]
    /\ canceled' = [canceled EXCEPT ![r] = TRUE]
    /\ UNCHANGED <<pc, sentCancel, fix, elsewhere>>

\* prepare gives up while it polls for the socket.
GiveUp(r) ==
    /\ pc[r] = "locking" /\ canceled[r]
    /\ Goto(r, "answer")
    /\ UNCHANGED <<canceled, sentCancel, fix, elsewhere>>

Send(s, kind, r) ==
    toHelper' = [toHelper EXCEPT ![s] = Append(@, [kind |-> kind, req |-> r])]

SendRequest(r) ==
    LET s == SessionOf[r] IN
    /\ pc[r] = "locking" /\ ~canceled[r] /\ lock[s] = Absent
    /\ IF closed[s]
       THEN Goto(r, "answer") /\ UNCHANGED <<lock, toHelper>>
       ELSE /\ Goto(r, "waiting")
            /\ lock' = [lock EXCEPT ![s] = r]
            /\ Send(s, "Request", r)
    /\ UNCHANGED <<canceled, sentCancel, fix, toWorker, closed, helperSide>>

\* Mutant: a canceled request returns without reading the answer it asked for.
DropReply(r) ==
    LET s == SessionOf[r] IN
    /\ pc[r] = "waiting" /\ canceled[r] /\ ~sentCancel[r] /\ ~closed[s]
    /\ sentCancel' = [sentCancel EXCEPT ![r] = TRUE]
    /\ Send(s, "Cancel", r)
    /\ lock' = [lock EXCEPT ![s] = Absent]
    /\ Goto(r, "answer")
    /\ UNCHANGED <<canceled, fix, toWorker, closed, helperSide>>

SendCancel(r) ==
    LET s == SessionOf[r] IN
    /\ pc[r] = "waiting" /\ canceled[r] /\ ~sentCancel[r] /\ ~closed[s]
    /\ sentCancel' = [sentCancel EXCEPT ![r] = TRUE]
    /\ Send(s, "Cancel", r)
    /\ UNCHANGED <<pc, canceled, fix, lock, toWorker, closed, helperSide>>

\* prepare returns the helper's answer, unless it asked for cancellation.
ReadReply(r) ==
    LET s == SessionOf[r] IN
    /\ pc[r] = "waiting" /\ toWorker[s] # <<>>
    /\ Goto(r, IF Head(toWorker[s]).ready /\ ~sentCancel[r] THEN "portal" ELSE "answer")
    /\ toWorker' = [toWorker EXCEPT ![s] = Tail(@)]
    /\ lock' = [lock EXCEPT ![s] = Absent]
    /\ UNCHANGED <<canceled, sentCancel, fix, toHelper, closed, helperSide>>

\* Mutant: end of file is taken for a read timeout.
DisconnectedUnnoticed(r) ==
    LET s == SessionOf[r] IN
    /\ pc[r] = "waiting" /\ closed[s] /\ canceled[r] /\ ~sentCancel[r]
    /\ Goto(r, "answer")
    /\ lock' = [lock EXCEPT ![s] = Absent]
    /\ UNCHANGED <<canceled, sentCancel, fix, toHelper, toWorker, closed, helperSide>>

\* The socket is shut down: prepare fails at its next read or send.
Disconnected(r) ==
    LET s == SessionOf[r] IN
    /\ pc[r] = "waiting" /\ closed[s]
    /\ toWorker[s] = <<>> \/ (canceled[r] /\ ~sentCancel[r])
    /\ Goto(r, "answer")
    /\ lock' = [lock EXCEPT ![s] = Absent]
    /\ UNCHANGED <<canceled, sentCancel, fix, toHelper, toWorker, closed, helperSide>>

\* portal::location: the session is opened unless the request is canceled.
PortalStart(r) ==
    /\ pc[r] = "portal"
    /\ Goto(r, IF canceled[r] THEN "answer" ELSE "asking")
    /\ UNCHANGED <<canceled, sentCancel, fix, elsewhere>>

\* The portal answers Start with its own consent, and then an update of this
\* session arrives; an update before the consent waits in the queue.
PortalUpdates(r) ==
    /\ pc[r] = "asking"
    /\ fix' = [fix EXCEPT ![r] = TRUE]
    /\ Goto(r, "answer")
    /\ UNCHANGED <<canceled, sentCancel, elsewhere>>

\* The portal refuses, fails, or the timer closes the connection because of
\* cancellation or after 60 s.
PortalEnds(r) ==
    /\ pc[r] = "asking"
    /\ Goto(r, "answer")
    /\ UNCHANGED <<canceled, sentCancel, fix, elsewhere>>

\* The callback, unless the request is canceled.
Answer(r) ==
    /\ pc[r] = "answer"
    /\ Goto(r, IF canceled[r] THEN "silent" ELSE "told")
    /\ UNCHANGED <<canceled, sentCancel, fix, elsewhere>>

-----------------------------------------------------------------------------
(* The main loop of the helper (serve).                                    *)

Busy(s) == job[s] # Absent /\ job[s].at # "ended"

\* Mutant: the job keeps the cancellation of the request before it.
StartJobKeepingFlag(s) ==
    /\ main[s] = "joining" /\ ~Busy(s)
    /\ job' = [job EXCEPT ![s] = [req |-> Head(toHelper[s]).req, at |-> "begin",
                  canceled |-> job[s] # Absent /\ job[s].canceled,
                  missing |-> FALSE, off |-> FALSE, ready |-> FALSE]]
    /\ wasOn' = [wasOn EXCEPT ![s] = installed /\ enabled]
    /\ toHelper' = [toHelper EXCEPT ![s] = Tail(@)]
    /\ main' = [main EXCEPT ![s] = "serving"]
    /\ UNCHANGED <<workerVars, lock, toWorker, closed, decisions, hostVars, consented>>

\* Cancel hits the job of the request before it, whether it runs or not.
ReadCancel(s) ==
    /\ main[s] = "serving" /\ toHelper[s] # <<>> /\ Head(toHelper[s]).kind = "Cancel"
    /\ toHelper' = [toHelper EXCEPT ![s] = Tail(@)]
    /\ job' = [job EXCEPT ![s] = IF @ = Absent THEN @ ELSE [@ EXCEPT !.canceled = TRUE]]
    /\ UNCHANGED <<workerVars, lock, toWorker, closed, main, decisions>>
    /\ UNCHANGED <<hostVars, histories>>

\* Request joins the previous job before it starts its own.
ReadRequest(s) ==
    /\ main[s] = "serving" /\ toHelper[s] # <<>> /\ Head(toHelper[s]).kind = "Request"
    /\ main' = [main EXCEPT ![s] = "joining"]
    /\ UNCHANGED <<workerVars, socketVars, job, decisions, hostVars, histories>>

StartJob(s) ==
    /\ main[s] = "joining" /\ ~Busy(s)
    /\ job' = [job EXCEPT ![s] = [req |-> Head(toHelper[s]).req, at |-> "begin",
                                  canceled |-> FALSE, missing |-> FALSE, off |-> FALSE,
                                  ready |-> FALSE]]
    /\ wasOn' = [wasOn EXCEPT ![s] = installed /\ enabled]
    /\ toHelper' = [toHelper EXCEPT ![s] = Tail(@)]
    /\ main' = [main EXCEPT ![s] = "serving"]
    /\ UNCHANGED <<workerVars, lock, toWorker, closed, decisions, hostVars, consented>>

\* Mutant: end of file does not wait for the job.
ReadEndQuietly(s) ==
    /\ main[s] = "serving" /\ closed[s] /\ toHelper[s] = <<>>
    /\ main' = [main EXCEPT ![s] = "exited"]
    /\ UNCHANGED <<workerVars, socketVars, job, decisions, hostVars, histories>>

\* End of file cancels the job and waits for it.
ReadEnd(s) ==
    /\ main[s] = "serving" /\ closed[s] /\ toHelper[s] = <<>>
    /\ main' = [main EXCEPT ![s] = "exiting"]
    /\ job' = [job EXCEPT ![s] = IF @ = Absent THEN @ ELSE [@ EXCEPT !.canceled = TRUE]]
    /\ UNCHANGED <<workerVars, socketVars, decisions, hostVars, histories>>

HelperExits(s) ==
    /\ main[s] = "exiting" /\ ~Busy(s)
    /\ main' = [main EXCEPT ![s] = "exited"]
    /\ UNCHANGED <<workerVars, socketVars, job, decisions, hostVars, histories>>

-----------------------------------------------------------------------------
(* The job of a request (prepare with the Desktop backend, then the send). *)

At(s, p)  == job[s] # Absent /\ job[s].at = p
Move(s, p) == job' = [job EXCEPT ![s].at = p]

\* prepare returns; its thread has the answer still to send.
Reply(s, ready) ==
    job' = [job EXCEPT ![s] = [@ EXCEPT !.at = "send", !.ready = ready]]

\* The host changes: every job that runs now may have seen it with location on.
HostBecomes(i, e) ==
    /\ installed' = i /\ enabled' = e
    /\ wasOn' = [s \in Sessions |-> wasOn[s] \/ (Busy(s) /\ i /\ e)]

Decision(s)   == decisions[s][PackageOf[job[s].req]]
Decide(s, d)  == decisions' = [decisions EXCEPT ![s][PackageOf[job[s].req]] = d]
quietHelper   == <<workerVars, socketVars, main>>

\* Mutants: the decision is not looked at; the host is not looked at.
RememberedAsAllowed(s) ==
    /\ At(s, "begin")
    /\ job[s].canceled \/ Decision(s) # "unknown"
    /\ Reply(s, ~job[s].canceled /\ installed /\ enabled)
    /\ UNCHANGED <<quietHelper, decisions, hostVars, histories>>
RememberedForever(s) ==
    /\ At(s, "begin")
    /\ job[s].canceled \/ Decision(s) # "unknown"
    /\ Reply(s, ~job[s].canceled /\ Decision(s) = "allow")
    /\ UNCHANGED <<quietHelper, decisions, hostVars, histories>>

\* A remembered decision answers without asking: an allowance only if the host has
\* GeoClue installed and location enabled.  The two are asked one after the other, here
\* and in Finish; a package is never removed, so what they say together was true at one
\* of the two moments.
Remembered(s) ==
    /\ At(s, "begin")
    /\ job[s].canceled \/ Decision(s) # "unknown"
    /\ Reply(s, ~job[s].canceled /\ Decision(s) = "allow" /\ installed /\ enabled)
    /\ UNCHANGED <<quietHelper, decisions, hostVars, histories>>

\* Mutant: a remembered grant is asked about again.
LookAgain(s) ==
    /\ At(s, "begin") /\ ~job[s].canceled /\ Decision(s) # "deny"
    /\ job' = [job EXCEPT ![s] = [@ EXCEPT !.at = "looking", !.missing = ~installed]]
    /\ UNCHANGED <<quietHelper, decisions, hostVars, histories>>

\* The first request looks for GeoClue, then for the switch, and opens the dialog.
Look(s) ==
    /\ At(s, "begin") /\ ~job[s].canceled /\ Decision(s) = "unknown"
    /\ job' = [job EXCEPT ![s] = [@ EXCEPT !.at = "looking", !.missing = ~installed]]
    /\ UNCHANGED <<quietHelper, decisions, hostVars, histories>>
LookEnabled(s) ==
    /\ At(s, "looking")
    /\ job' = [job EXCEPT ![s] = [@ EXCEPT !.at = "dialog", !.off = ~enabled]]
    /\ UNCHANGED <<quietHelper, decisions, hostVars, histories>>

\* The user answers; dismissal and the 60 s timeout count as Deny.
UserAnswers(s) ==
    /\ At(s, "dialog")
    /\ \/ Move(s, "allowed") /\ consented' = consented \cup {job[s].req}
       \/ Move(s, "denied") /\ UNCHANGED consented
    /\ UNCHANGED <<quietHelper, decisions, hostVars, wasOn>>

\* confirm kills the dialog of a canceled request, or cannot start one.
CloseDialog(s) ==
    /\ At(s, "dialog")
    /\ Reply(s, FALSE)
    /\ UNCHANGED <<quietHelper, decisions, hostVars, histories>>

Denied(s) ==
    /\ At(s, "denied")
    /\ Reply(s, FALSE)
    /\ IF job[s].canceled THEN UNCHANGED decisions ELSE Decide(s, "deny")
    /\ UNCHANGED <<quietHelper, hostVars, histories>>

Allowed(s) ==
    /\ At(s, "allowed")
    /\ IF job[s].canceled THEN Reply(s, FALSE)
       ELSE Move(s, IF job[s].missing THEN "lock" ELSE "installed")
    /\ UNCHANGED <<quietHelper, decisions, hostVars, histories>>

\* install polls for the lock file until it has it, is canceled, or cannot open it.
TakeInstallLock(s) ==
    /\ At(s, "lock")
    /\ \/ Reply(s, FALSE) /\ UNCHANGED installLock
       \/ /\ ~job[s].canceled /\ installLock = Absent
          /\ installLock' = s /\ Move(s, "locked")
    /\ UNCHANGED <<quietHelper, decisions, installed, enabled, histories>>

\* Mutant: no look at the package database after the lock was taken.
InstallUnchecked(s) ==
    /\ At(s, "locked")
    /\ \/ job[s].canceled /\ Reply(s, FALSE) /\ installLock' = Absent
       \/ ~job[s].canceled /\ Move(s, "transaction") /\ UNCHANGED installLock
    /\ UNCHANGED <<quietHelper, decisions, installed, enabled, histories>>

\* Another session may have installed GeoClue meanwhile.
RecheckInstalled(s) ==
    /\ At(s, "locked")
    /\ \/ installed /\ Move(s, "installed") /\ installLock' = Absent
       \/ ~installed /\ job[s].canceled /\ Reply(s, FALSE) /\ installLock' = Absent
       \/ ~installed /\ ~job[s].canceled /\ Move(s, "transaction") /\ UNCHANGED installLock
    /\ UNCHANGED <<quietHelper, decisions, installed, enabled, histories>>

\* The package transaction is never interrupted; it succeeds or fails.
Transact(s) ==
    /\ At(s, "transaction")
    /\ installLock' = Absent
    /\ \/ HostBecomes(TRUE, enabled) /\ Move(s, "installed")
       \/ Reply(s, FALSE) /\ UNCHANGED <<installed, enabled, wasOn>>
    /\ UNCHANGED <<quietHelper, decisions, consented>>

\* Mutant: cancellation during the transaction is not noticed.
InstalledRegardless(s) ==
    /\ At(s, "installed")
    /\ Move(s, IF job[s].off THEN "enable" ELSE "final")
    /\ UNCHANGED <<quietHelper, decisions, hostVars, histories>>

Installed(s) ==
    /\ At(s, "installed")
    /\ IF job[s].canceled THEN Reply(s, FALSE)
       ELSE Move(s, IF job[s].off THEN "enable" ELSE "final")
    /\ UNCHANGED <<quietHelper, decisions, hostVars, histories>>

Enable(s) ==
    /\ At(s, "enable")
    /\ \/ HostBecomes(installed, TRUE) /\ Move(s, "final")
       \/ Reply(s, FALSE) /\ UNCHANGED <<installed, enabled, wasOn>>
    /\ UNCHANGED <<quietHelper, decisions, installLock, consented>>

\* The answer is what the host says now; only a success is remembered.
Finish(s) ==
    /\ At(s, "final")
    /\ Reply(s, installed /\ enabled)
    /\ IF installed /\ enabled THEN Decide(s, "allow") ELSE UNCHANGED decisions
    /\ UNCHANGED <<quietHelper, hostVars, histories>>

\* The thread sends the answer and ends, whatever the host says by now; a send into a
\* closed socket is ignored.
SendReply(s) ==
    /\ At(s, "send")
    /\ Move(s, "ended")
    /\ toWorker' = [toWorker EXCEPT ![s] =
           IF closed[s] THEN @ ELSE Append(@, [ready |-> job[s].ready, req |-> job[s].req])]
    /\ UNCHANGED <<workerVars, lock, toHelper, closed, main, decisions, hostVars, histories>>

-----------------------------------------------------------------------------
\* The session ends, or its location worker died: HostSetup::shutdown.
Shutdown(s) ==
    /\ s \in Ending /\ ~closed[s]
    /\ closed' = [closed EXCEPT ![s] = TRUE]
    /\ UNCHANGED <<workerVars, lock, toHelper, toWorker, helperSide>>

\* The user turns location on or off in the desktop's settings.
HostToggles ==
    /\ HostBecomes(installed, ~enabled)
    /\ UNCHANGED <<workerVars, socketVars, helperVars, installLock, consented>>

RequestStep(r) ==
    \/ Begin(r) \/ Cancel(r) \/ GiveUp(r) \/ SendRequest(r) \/ SendCancel(r)
    \/ ReadReply(r) \/ Disconnected(r) \/ PortalStart(r) \/ PortalUpdates(r) \/ PortalEnds(r)
    \/ Answer(r)

JobStep(s) ==
    \/ Remembered(s) \/ Look(s) \/ LookEnabled(s) \/ UserAnswers(s) \/ CloseDialog(s)
    \/ Denied(s) \/ Allowed(s) \/ TakeInstallLock(s) \/ RecheckInstalled(s)
    \/ Transact(s) \/ Installed(s) \/ Enable(s) \/ Finish(s) \/ SendReply(s)

HelperStep(s) ==
    \/ ReadCancel(s) \/ ReadRequest(s) \/ StartJob(s) \/ ReadEnd(s) \/ HelperExits(s)

Next ==
    \/ \E r \in Requests : RequestStep(r)
    \/ \E s \in Sessions : JobStep(s) \/ HelperStep(s) \/ Shutdown(s)
    \/ HostToggles

Spec == Init /\ [][Next]_vars

\* Threads of the worker and of the helper run; the dialog and the portal
\* request time out after 60 s; a package transaction ends.  Nobody has to
\* make or cancel a request or to touch the settings.
Fairness ==
    /\ \A r \in Requests :
         WF_vars(\/ GiveUp(r) \/ SendRequest(r) \/ SendCancel(r)
                 \/ ReadReply(r) \/ Disconnected(r)
                 \/ PortalStart(r) \/ PortalUpdates(r) \/ PortalEnds(r) \/ Answer(r))
    /\ \A s \in Sessions : WF_vars(JobStep(s)) /\ WF_vars(HelperStep(s))

FairSpec == Spec /\ Fairness

-----------------------------------------------------------------------------
(* Properties.                                                             *)

\* The Boolean a request reads is the answer to that request: whatever is in
\* the socket belongs to the thread that holds its mutex, also after earlier
\* requests were canceled at any moment of their exchange.
RepliesMatch ==
    \A s \in Sessions : \A i \in DOMAIN toWorker[s] :
        toWorker[s][i].req = lock[s] \/ closed[s]

\* A cancellation never reaches the job of another request, however late it
\* is read; only the end of the session cancels a job nobody canceled.
CancelHitsItsOwnRequest ==
    \A s \in Sessions : job[s] # Absent /\ job[s].canceled =>
        canceled[job[s].req] \/ main[s] \in {"exiting", "exited"}

\* The package is installed at most once, by one session at a time, although
\* every session decided on its own that it was missing.
OneInstallation ==
    \A s \in Sessions : At(s, "transaction") => ~installed /\ installLock = s

\* Nobody is asked about a package that was decided in this session, and no
\* installation or enabling happens under a remembered decision.
NobodyIsAskedTwice ==
    \A s \in Sessions :
        job[s] # Absent /\ job[s].at \notin {"begin", "send", "ended"} => Decision(s) = "unknown"

\* Answers, cancellations and decisions keep to the request and package they are for.
AnswersKeepToTheirRequest == RepliesMatch /\ CancelHitsItsOwnRequest /\ NobodyIsAskedTwice

\* Location is switched on only for a request that the user allowed in its
\* own dialog and that was not canceled by the time GeoClue was there.
EnablingNeedsConsent ==
    [][\A s \in Sessions : (~At(s, "enable") /\ At(s, "enable")') =>
            job[s].req \in consented /\ ~job[s].canceled]_vars

\* A fix is only fetched when the user allowed that package in that session.
FixNeedsConsent ==
    \A r \in Requests : fix[r] =>
        \E q \in consented : SessionOf[q] = SessionOf[r] /\ PackageOf[q] = PackageOf[r]

\* A request is told "ready" only if the host had GeoClue installed and location enabled
\* at some moment since its own job began: a switch the user turned off before the
\* request stays off, whatever was allowed earlier.  (A switch turned off between the job's
\* last look and its answer is not noticed by the helper.)
ReadyMeansEnabled ==
    \A s \in Sessions :
        /\ At(s, "send") /\ job[s].ready => wasOn[s]
        /\ \A i \in DOMAIN toWorker[s] : toWorker[s][i].ready => wasOn[s]

\* No step fetches, switches on or calls ready what lacks the consent it needs or the
\* host's own switch.
ConsentRules == EnablingNeedsConsent /\ [][FixNeedsConsent' /\ ReadyMeansEnabled']_vars

\* Every request ends, whatever the user, the other requests, the other
\* session and the end of this session do.
RequestsEnd == \A r \in Requests : pc[r] # "none" ~> pc[r] \in {"told", "silent"}

\* The helper ends after its session, and never before its job: a package
\* transaction that began is waited for.
HelperEndsLast ==
    \A s \in Sessions :
        /\ closed[s] ~> main[s] = "exited"
        /\ [](main[s] = "exited" => ~Busy(s))

\* Requests end, and the helper after them.
EverythingEnds == RequestsEnd /\ HelperEndsLast
=============================================================================
