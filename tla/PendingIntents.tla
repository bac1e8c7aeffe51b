--------------------------- MODULE PendingIntents ---------------------------
(***************************************************************************)
(* PendingIntents (src/crates/arod/src/pending_intent.rs, getIntentSender  *)
(* in services/activity.rs, and the fire handler in main.rs): the app      *)
(* makes a sender for an intent, and a send of it, an alarm or a tap in    *)
(* the shade starts what the sender was made for.  The services it starts  *)
(* are in BoundServices, the activities in ActivityTask.                   *)
(*                                                                         *)
(* A class is none, that of a service, or another; whether it is a service *)
(* is seen by its name only, and only when no type was given.              *)
(***************************************************************************)
EXTENDS Naturals, Sequences, SequencesExt

CONSTANTS
    PendingTypes,      \* ActivityManager.INTENT_SENDER_*: 1 broadcast, 2 and 3 activity,
                       \* 4 service, 5 foreground service
    MaxSenders         \* bound: senders that are made

ASSUME IntentsAssumption == PendingTypes \subseteq 1..5 /\ MaxSenders \in Nat

Classes == {"none", "service", "other"}

\* How far an intent can be read: to its end; to its selector or ClipData, before its
\* extras; or to a Uri of an unknown kind, before its component.
Shapes  == {"plain", "clip", "odd"}

PendingTargets == [intent_type : PendingTypes \cup {0}, class : Classes, extras : BOOLEAN]

VARIABLES
    entries,     \* Registry::entries: the target of each sender
    started      \* history: what was started as what

intentVars == <<entries, started>>

IntentsTypeOK ==
    /\ Len(entries) <= MaxSenders /\ \A s \in DOMAIN entries : entries[s] \in PendingTargets
    /\ started \subseteq [what : {"service", "activity"}, target : PendingTargets]

IntentsInit == entries = <<>> /\ started = {}

read_intent_target(class, shape) ==
    [intent_type |-> 0,
     class       |-> IF shape = "odd" THEN "none" ELSE class,
     extras      |-> shape = "plain"]

\* A new sender every time, also for an intent that has one.
getIntentSender(type, class, shape) ==
    /\ Len(entries) < MaxSenders
    /\ entries' = Append(entries, [read_intent_target(class, shape) EXCEPT !.intent_type = type])
    /\ UNCHANGED started

Senders == DOMAIN entries
target_for(s) == entries[s]

IsService(t) == t.intent_type \in {4, 5} \/ (t.intent_type = 0 /\ t.class = "service")

\* An activity is started without the extras.
StartAs(what, t) ==
    started' = started \cup {[what   |-> what,
                              target |-> IF what = "activity" THEN [t EXCEPT !.extras = FALSE] ELSE t]}

\* The fire handler, of a send and of a tap.
fire(t) == StartAs(IF IsService(t) THEN "service" ELSE "activity", t)

send(s) == s \in Senders /\ fire(target_for(s)) /\ UNCHANGED entries

IntentsNext ==
    \/ \E type \in PendingTypes, class \in Classes, shape \in Shapes :
          getIntentSender(type, class, shape)
    \/ \E s \in Senders : send(s)

-----------------------------------------------------------------------------
(* Properties.                                                             *)

\* An intent that was made to start a service starts one, with its extras, and one
\* made to start an activity starts one, whichever way it is fired, and nothing starts
\* that no sender was made for.
IntentsStartAsMade ==
    \A x \in started :
        /\ x.target.intent_type \in {4, 5} => x.what = "service" /\ Contains(entries, x.target)
        /\ x.target.intent_type = 2 => x.what = "activity"
        /\ \E s \in Senders : /\ entries[s].intent_type = x.target.intent_type
                              /\ entries[s].class = x.target.class
=============================================================================
