-------------------------------- MODULE Alarms ------------------------------
(***************************************************************************)
(* The alarms (src/crates/arod/src/services/alarm.rs): set cancels the     *)
(* alarm of the same sender under one lock and enters the new one under    *)
(* another; each alarm has a thread that sleeps, looks whether it was      *)
(* cancelled, and then starts the sender's target.  The calls of several   *)
(* threads of the app interleave.  The clock is left out: an alarm may be  *)
(* due at any time after it was set.                                       *)
(***************************************************************************)
EXTENDS PendingIntents, FiniteSets

CONSTANTS Callers,       \* threads of the app
          MaxAlarms      \* bound: alarms that are set

ASSUME AlarmsAssumption == MaxAlarms \in Nat /\ IsFiniteSet(Callers)

AlarmIds   == 1..MaxAlarms
NoSender == 0

VARIABLES
    armed,           \* alarms so far
    operation,       \* of each, its sender
    active_alarms,   \* those on the list; those that have fired stay on it
    timer,           \* the thread of each: none, sleeps, fires (it has looked), done
    cancelled,       \* those whose flag is set
    caller,          \* the sender a set has still to enter, or NoSender
    silenced         \* history: those that were cancelled before they looked

alarmVars == <<armed, operation, active_alarms, timer, cancelled, caller, silenced>>

AlarmsTypeOK ==
    /\ armed \in 0..MaxAlarms
    /\ operation \in [AlarmIds -> Senders \cup {NoSender}]
    /\ active_alarms \subseteq 1..armed \ cancelled /\ silenced \subseteq cancelled
    /\ timer \in [AlarmIds -> {"none", "sleeps", "fires", "fired", "silent"}]
    /\ caller \in [Callers -> Senders \cup {NoSender}]

AlarmsInit ==
    /\ armed = 0 /\ operation = [n \in AlarmIds |-> NoSender]
    /\ active_alarms = {} /\ cancelled = {} /\ silenced = {}
    /\ timer = [n \in AlarmIds |-> "none"]
    /\ caller = [c \in Callers |-> NoSender]

SameSender(alarms, s) == {n \in alarms : operation[n] = s}

CancelAll(alarms) ==
    /\ cancelled' = cancelled \cup alarms
    /\ active_alarms' = active_alarms \ alarms

\* What a removal promises; see RemovedStaySilent.
Silence(alarms) == silenced' = silenced \cup {n \in alarms : timer[n] = "sleeps"}

AlarmsOf(s) == {n \in active_alarms : operation[n] = s}

\* The first half of set: under the first lock.
SetCancels(c, s) ==
    /\ caller[c] = NoSender /\ s \in Senders
    /\ armed + Cardinality({d \in Callers : caller[d] # NoSender}) < MaxAlarms
    /\ CancelAll(SameSender(active_alarms, s))
    /\ Silence(AlarmsOf(s))
    /\ caller' = [caller EXCEPT ![c] = s]
    /\ UNCHANGED <<armed, operation, timer, intentVars>>

\* The second: under the second lock, and the thread.
SetArms(c) ==
    /\ caller[c] # NoSender
    /\ armed' = armed + 1
    /\ operation' = [operation EXCEPT ![armed + 1] = caller[c]]
    /\ active_alarms' = active_alarms \cup {armed + 1}
    /\ timer' = [timer EXCEPT ![armed + 1] = "sleeps"]
    /\ caller' = [caller EXCEPT ![c] = NoSender]
    /\ UNCHANGED <<cancelled, silenced, intentVars>>

remove_alarm(s) ==
    /\ CancelAll(SameSender(active_alarms, s))
    /\ Silence(AlarmsOf(s))
    /\ UNCHANGED <<armed, operation, timer, caller, intentVars>>

\* Of every package.
removeAll ==
    /\ CancelAll(active_alarms)
    /\ Silence(active_alarms)
    /\ UNCHANGED <<armed, operation, timer, caller, intentVars>>

\* Mutant: one flag for all alarms.
DueOneFlag(n) ==
    /\ timer[n] = "sleeps"
    /\ timer' = [timer EXCEPT ![n] = IF cancelled # {} THEN "silent" ELSE "fires"]
    /\ UNCHANGED <<armed, operation, active_alarms, cancelled, caller, silenced, intentVars>>

\* The thread wakes, and looks.
Due(n) ==
    /\ timer[n] = "sleeps"
    /\ timer' = [timer EXCEPT ![n] = IF n \in cancelled THEN "silent" ELSE "fires"]
    /\ UNCHANGED <<armed, operation, active_alarms, cancelled, caller, silenced, intentVars>>

\* Mutant: what has a class is a service.
ByClass(t) == IF IsService(t) \/ t.class # "none" THEN "service" ELSE "activity"

\* A broadcast that names a class starts it as a service.
AlarmStarts(t) ==
    IF IsService(t) \/ (t.intent_type # 2 /\ t.class # "none") THEN "service" ELSE "activity"

Fires(n) ==
    /\ timer[n] = "fires"
    /\ timer' = [timer EXCEPT ![n] = "fired"]
    /\ StartAs(AlarmStarts(target_for(operation[n])), target_for(operation[n]))
    /\ UNCHANGED <<armed, operation, active_alarms, cancelled, caller, silenced, entries>>

AlarmStep == \E n \in AlarmIds : Due(n) \/ Fires(n)

AlarmsNext ==
    \/ AlarmStep
    \/ \E c \in Callers : SetArms(c) \/ \E s \in Senders : SetCancels(c, s)
    \/ \E s \in Senders : remove_alarm(s)
    \/ removeAll
    \/ IntentsNext /\ UNCHANGED alarmVars

-----------------------------------------------------------------------------
(* Properties.                                                             *)

\* An alarm that a remove, or a later set of its sender, found asleep never fires,
\* although sets of the same sender at the same time leave several.
RemovedStaySilent == \A n \in silenced : timer[n] # "fired"

\* Again and again every alarm that nobody removed has fired.
OthersFire == []<>(\A n \in 1..armed : timer[n] = "fired" \/ n \in cancelled)

\* Alarms and intents: what fires is what was asked for, as what it was made for.
AlarmsAndIntentsKeepTheirWord == IntentsStartAsMade /\ RemovedStaySilent
=============================================================================
