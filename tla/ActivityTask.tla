---------------------------- MODULE ActivityTask ----------------------------
(***************************************************************************)
(* The app's process and its task of activities: attachApplication,        *)
(* finishAttachApplication, startActivity, OPEN_DOCUMENT, finishActivity   *)
(* and activityDestroyed (src/crates/arod/src/services/activity.rs and     *)
(* activity_task.rs).  arod keeps the classes it believes to run, and each *)
(* transaction to the app is sent by a thread of its own, so that they     *)
(* reach it in any order.  Service processes are in BoundServices.         *)
(*                                                                         *)
(* The app is external: it runs what it is told to launch, ends what it is *)
(* told to destroy, and reports the end in a later call.                   *)
(***************************************************************************)
EXTENDS Naturals, Sequences, FiniteSets, SequencesExt

CONSTANTS
    Names,             \* classes that an intent may name
    Declared,          \* those of the manifest, aliases among them
    target_activity,   \* of each, the activity that is meant: itself, if no alias
    Main,              \* the launcher's
    Manifest,          \* the activities with their intent filters, in their order
    Admits,            \* of a host pattern of a filter, the hosts that match it
    Intents,           \* what activities are started with
    LaunchUrl,         \* the data of `app --url`, or NoData
    Requested,         \* the class of `app --activity`, or Nobody
    Nobody,
    MaxLaunches,       \* bound: launches
    MaxChoosers        \* bound: file choosers

\* What an intent carries: a scheme, with a host in a link, and a type in the Uri of
\* a file or a content provider whose name tells it.
NoData == [scheme |-> "none", host |-> Nobody, mime |-> <<>>]
Links  == {"http", "https", "mailto", "tel", "geo"}

ASSUME TaskAssumption ==
    /\ Declared \subseteq Names /\ Main \in Declared /\ Nobody \notin Names
    /\ target_activity \in [Declared -> Names] /\ Requested \in Names \cup {Nobody}
    /\ DOMAIN Manifest = 1..Len(Manifest) /\ Len(Manifest) \in Nat
    /\ \A i \in DOMAIN Manifest : Manifest[i].name \in Declared
    /\ \A intent \in Intents :
          /\ intent.package \in {"own", "other", "none"}
          /\ intent.class \in Names \cup {Nobody}
          /\ intent.data.mime # <<>> => intent.data.scheme \in {"file", "content"}
    /\ MaxLaunches \in Nat /\ MaxChoosers \in Nat

Launches == 1..MaxLaunches
Choosers  == 1..MaxChoosers

VARIABLES
    process,     \* the app: off, attached, bound (Application.onCreate runs), ready
    activity_stack,  \* the classes arod believes to run, in the order of their launch
    sends,       \* transactions that a thread has still to send
    launched,    \* launches so far
    tasks,       \* of each launch: its class, and whether it is on its way, runs, has
                 \* ended, is reported; or failed
    finishing,   \* history: launches that are to finish
    choosers,     \* file choosers: whether the app was answered
    astray       \* history: arod's list was wrong once (see Strays)

taskVars == <<process, activity_stack, sends, launched, tasks, finishing, choosers, astray>>

Message(kind, n) == [kind |-> kind, n |-> n]
NoTask == [class |-> Nobody, at |-> "none"]

TaskTypeOK ==
    /\ process \in {"off", "attached", "bound", "ready"}
    /\ launched \in 0..MaxLaunches /\ astray \in BOOLEAN
    /\ Len(activity_stack) <= MaxLaunches
    /\ sends \subseteq [kind : {"bind", "link"}, n : {0}] \cup [kind : {"launch", "destroy"}, n : Launches]
                       \cup [kind : {"result"}, n : Choosers]
    /\ \A n \in Launches : tasks[n].at \in {"none", "coming", "runs", "ended", "reported", "failed"}
    /\ finishing \subseteq Launches
    /\ choosers \in [Choosers -> {"none", "open", "sending", "answered", "lost"}]

TaskInit ==
    /\ process = "off" /\ activity_stack = <<>> /\ sends = {} /\ launched = 0
    /\ tasks = [n \in Launches |-> NoTask]
    /\ finishing = {} /\ choosers = [d \in Choosers |-> "none"] /\ astray = FALSE

-----------------------------------------------------------------------------
(* The start of the app.                                                   *)

\* A filter's type is a type, all types of a kind, or all.
matches_mime(filter, mime) == filter \in {<<"*", "*">>, mime, <<mime[1], "*">>}

\* A filter without actions, categories or hosts asks for none.  A file or content
\* Uri with a type needs no scheme in the filter.
Accepts(filter, action, data) ==
    /\ filter.actions = {} \/ action \in filter.actions
    /\ filter.categories = {} \/ "DEFAULT" \in filter.categories
    /\ filter.hosts = {} \/ \E pattern \in filter.hosts : data.host \in Admits[pattern]
    /\ IF data.mime # <<>>
       THEN /\ filter.schemes = {} \/ data.scheme \in filter.schemes
            /\ \E mime \in filter.mimes : matches_mime(mime, data.mime)
       ELSE /\ filter.mimes = {}
            /\ IF data.scheme = "none" THEN filter.schemes = {} ELSE data.scheme \in filter.schemes

\* The first activity of the manifest with a filter that accepts, or Nobody.
resolve(action, data) ==
    LET accepting == {i \in DOMAIN Manifest :
                        \E filter \in Manifest[i].filters : Accepts(filter, action, data)}
    IN  IF accepting = {} THEN Nobody
        ELSE Manifest[CHOOSE i \in accepting : \A j \in accepting : i <= j].name

\* The first process that attaches takes the launch that is pending.
attachApplication ==
    /\ process = "off"
    /\ process' = "attached"
    /\ sends' = sends \cup {Message("bind", 0)}
    /\ UNCHANGED <<activity_stack, launched, tasks, finishing, choosers, astray>>

\* An activity stands for itself, an alias for its activity.
Aliased(class) == IF class \in Declared THEN target_activity[class] ELSE class

\* Mutant: the class is listed when its launch was sent.
ListLater(class) == UNCHANGED activity_stack

Listed(class) == activity_stack' = Append(activity_stack, class)

Launch(class) ==
    /\ launched < MaxLaunches
    /\ launched' = launched + 1
    /\ Listed(class)
    /\ tasks' = [tasks EXCEPT ![launched + 1] = [class |-> class, at |-> "coming"]]
    /\ sends' = sends \cup {Message("launch", launched + 1)}

\* The first activity is launched whatever runs already: Application.onCreate may
\* have started it.
finishAttachApplication ==
    LET deep  == IF Requested # Nobody THEN Requested ELSE resolve("VIEW", LaunchUrl)
        class == Aliased(IF LaunchUrl = NoData \/ deep = Nobody THEN Main ELSE deep)
    IN  /\ process = "bound" /\ process' = "ready"
        /\ Launch(class)
        /\ astray' = (astray \/ Contains(activity_stack, class))
        /\ UNCHANGED <<finishing, choosers>>

-----------------------------------------------------------------------------
(* Starts.                                                                 *)

\* The class an intent names, or Nobody.
TargetOf(intent) ==
    CASE intent.package = "own" -> IF intent.class = Nobody THEN Main ELSE intent.class
      [] intent.package = "none" /\ intent.class # Nobody -> intent.class
      [] intent.package = "none" /\ intent.class = Nobody /\ intent.action # Nobody ->
            resolve(intent.action, intent.data)
      [] OTHER -> Nobody

\* A link that is for another app, or that no activity accepts, is opened on the host.
OpensOnHost(intent) ==
    /\ TargetOf(intent) = Nobody /\ intent.data.scheme \in Links
    /\ intent.package = "other" \/ intent.action # Nobody

\* A start of what is on the list is dropped.
start_activity_target(intent) ==
    LET class == Aliased(TargetOf(intent))
    IN  /\ process # "off"
        /\ \/ /\ class \in Declared /\ ~Contains(activity_stack, class)
              /\ Launch(class)
           \/ /\ OpensOnHost(intent)
              /\ sends' = sends \cup {Message("link", 0)}
              /\ UNCHANGED <<activity_stack, launched, tasks>>
        /\ UNCHANGED <<process, finishing, choosers, astray>>

Runs(n) == n \in Launches /\ tasks[n].at = "runs"

\* A file chooser for a running activity.  A start that names no receiver of the result
\* (resultTo) is dropped without an answer, and so is one before an app is attached:
\* nothing changes, so there is no step for it.
open_document(d) ==
    /\ choosers[d] = "none" /\ \E n \in Launches : Runs(n)
    /\ choosers' = [choosers EXCEPT ![d] = "open"]
    /\ UNCHANGED <<process, activity_stack, sends, launched, tasks, finishing, astray>>

\* Mutant: a chooser that fails is not reported.
OnlyChoices == {"chosen"}

\* The user chooses a file or none, or the portal or the documents worker fails:
\* then no file is the result.
ChooserOutcomes == {"chosen", "none", "failed"}

ChooserEnds(d) ==
    /\ choosers[d] = "open"
    /\ \E outcome \in {"chosen", "none", "failed"} :
          IF outcome \in ChooserOutcomes
          THEN /\ choosers' = [choosers EXCEPT ![d] = "sending"]
               /\ sends' = sends \cup {Message("result", d)}
          ELSE /\ choosers' = [choosers EXCEPT ![d] = "lost"]
               /\ UNCHANGED sends
    /\ UNCHANGED <<process, activity_stack, launched, tasks, finishing, astray>>

\* IActivityTaskManager.startActivity: OPEN_DOCUMENT and GET_CONTENT, and the others.
startActivity ==
    \/ \E d \in Choosers : open_document(d)
    \/ \E intent \in Intents : start_activity_target(intent)

-----------------------------------------------------------------------------
(* Ends.                                                                   *)

destroy_activity(n) ==
    /\ finishing' = finishing \cup {n}
    /\ sends' = sends \cup {Message("destroy", n)}
    /\ UNCHANGED <<process, activity_stack, launched, tasks, choosers, astray>>

\* finishActivity, finishActivityAffinity: of the named one only.
finishActivity(n) == Runs(n) /\ n \notin finishing /\ destroy_activity(n)

Strays(n) == activity_stack = <<>> \/ Last(activity_stack) # tasks[n].class

\* activityDestroyed takes the last of the list, whichever activity ended.
activityDestroyed(n) ==
    /\ n \in Launches /\ tasks[n].at = "ended"
    /\ tasks' = [tasks EXCEPT ![n].at = "reported"]
    /\ activity_stack' = IF activity_stack = <<>> THEN activity_stack ELSE Front(activity_stack)
    /\ astray' = (astray \/ Strays(n))
    /\ UNCHANGED <<process, sends, launched, finishing, choosers>>

-----------------------------------------------------------------------------
(* The threads that send, in any order, and what the app does with it.  A  *)
(* class that is not declared cannot be launched; it stays on the list.    *)

Deliver(s) ==
    /\ s \in sends /\ sends' = sends \ {s}
    /\ CASE s.kind = "bind" -> process' = "bound" /\ UNCHANGED <<tasks, choosers>>
         [] s.kind = "launch" ->
              /\ tasks' = [tasks EXCEPT ![s.n].at =
                             IF tasks[s.n].class \in Declared THEN "runs" ELSE "failed"]
              /\ UNCHANGED <<process, choosers>>
         [] s.kind = "destroy" ->
              tasks' = [tasks EXCEPT ![s.n].at = "ended"] /\ UNCHANGED <<process, choosers>>
         [] s.kind = "link" -> UNCHANGED <<process, tasks, choosers>>
         [] s.kind = "result" ->
              choosers' = [choosers EXCEPT ![s.n] = "answered"] /\ UNCHANGED <<process, tasks>>
    /\ UNCHANGED <<activity_stack, launched, finishing, astray>>

\* What happens once it can: threads run, choosers end, the app goes on.
TaskStep ==
    \/ finishAttachApplication
    \/ \E s \in sends : Deliver(s)
    \/ \E d \in Choosers : ChooserEnds(d)
    \/ \E n \in Launches : activityDestroyed(n)

TaskNext ==
    \/ attachApplication \/ TaskStep \/ startActivity
    \/ \E n \in Launches : finishActivity(n)

-----------------------------------------------------------------------------
(* Properties.                                                             *)

\* No activity is launched while another of its class is on its way or runs, however
\* starts, launches, ends and their reports interleave, as long as activities end
\* from the last one on (and the app does not start its first one itself).
NobodyRunsTwice ==
    ~astray => \A m, n \in Launches :
        m # n /\ tasks[m].at \in {"coming", "runs"} /\ tasks[n].at \in {"coming", "runs"}
            => tasks[m].class # tasks[n].class

\* Again and again nobody waits: an activity that asked for a file, and is named as the
\* receiver, was answered, also when the portal failed, and one that is to finish has
\* ended and was reported.
AppsAreAnswered ==
    []<>(/\ \A d \in Choosers : choosers[d] \in {"none", "answered"}
         /\ \A n \in finishing : tasks[n].at = "reported")

\* activity.rs:32 "Running activities in this task backstack.": when nothing is on its
\* way, the list is what runs.
StackIsWhatRuns ==
    sends = {} /\ (\A n \in Launches : tasks[n].at # "ended") =>
        ToSet(activity_stack) = {tasks[n].class : n \in {m \in Launches : Runs(m)}}
=============================================================================
