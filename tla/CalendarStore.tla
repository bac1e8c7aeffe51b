---------------------------- MODULE CalendarStore ---------------------------
(***************************************************************************)
(* The calendar provider (src/crates/arod/src/services/calendar.rs).  Each *)
(* session (an arod process) has a copy of the calendar behind a mutex and *)
(* answers its app on several Binder threads; all sessions of the user     *)
(* keep it in the same file, calendar.json.  An operation changes the copy *)
(* under the mutex, unlocks, and persists: it locks again, and writes the  *)
(* copy of that moment over the file, in place.  A write that fails is     *)
(* dropped, and the operation answers all the same.                        *)
(*                                                                         *)
(* A process can end at any point: the compositor exits it when the window *)
(* is closed, whatever its other threads are doing.                        *)
(***************************************************************************)
EXTENDS Integers, FiniteSets, Functions

CONSTANTS
    Sessions, Threads,   \* processes, and the Binder threads of each
    MaxOperations,   \* bound: operations
    MaxReminders,    \* bound: reminders of a copy
    Reminded,        \* bound: the event ids that reminders are given
    Spans,           \* bound: the starts and ends that are given to events
    MaxLoads,        \* bound: starts of a session
    Missing, Torn    \* contents of the file: none, and what a write left half done

ASSUME CalendarAssumption ==
    /\ MaxOperations \in Nat /\ MaxReminders \in Nat /\ MaxLoads \in Nat
    /\ Spans \subseteq [start : Int, end : Int] /\ \E x \in Spans : x.start < x.end
    /\ Missing # Torn

Of(s)   == {s} \X Threads[s]
Workers == UNION {Of(s) : s \in Sessions}
Times   == {x.start : x \in Spans} \cup {x.end : x \in Spans}
Event(span, entry) == [span |-> span, entry |-> entry]
EventIds == 1..(2 + MaxOperations)

VARIABLES
    stage,      \* where a session is: down, loaded (and about to save), saving, up
    copy,       \* its CalendarData
    file,       \* calendar.json
    worker,     \* what a thread does: idle, changed (its change is made), write;
                \* the operations of its batch to come; the entry it inserted and its
                \* id; and the copy it is writing
    operations, \* history: operations begun; an event carries the number of its insert,
                \* its entry
    loads,      \* history: starts of sessions
    known,      \* history: what a session has answered for, see NothingKnown
    filed       \* history: what the session that wrote the file had answered for

calendarVars == <<stage, copy, file, worker, operations, loads, known, filed>>

\* Events 1 and 2 of the calendar a session starts with when it finds none.
Sample == Event(CHOOSE x \in Spans : x.start < x.end, 0)
default_data ==
    [events |-> [i \in {1, 2} |-> Sample], reminders |-> {},
     next_event_id |-> 3, next_reminder_id |-> 1]
SampleIds == {1, 2} \X {0}

\* kept: the ids and entries whose insert was answered and that nobody deleted since;
\* given: the ids and entries of all events that were ever answered for.  Both go on
\* from one session to the next that loads what it wrote.
NothingKnown == [kept |-> {}, given |-> SampleIds]

IsCalendar(d) ==
    /\ DOMAIN d.events \subseteq EventIds
    /\ \A i \in DOMAIN d.events :
          d.events[i] \in [span : Spans, entry : 0..MaxOperations]
    /\ d.reminders \subseteq [id : 1..MaxReminders, event_id : Reminded]
    /\ d.next_event_id \in 3..(3 + MaxOperations)
    /\ d.next_reminder_id \in 1..(MaxReminders + 1)

CalendarTypeOK ==
    /\ stage \in [Sessions -> {"down", "loaded", "saving", "up"}]
    /\ \A s \in Sessions : IsCalendar(copy[s])
    /\ file \in {Missing, Torn} \/ IsCalendar(file)
    /\ DOMAIN worker = Workers
    /\ \A w \in Workers :
          /\ worker[w].at \in {"idle", "changed", "write"} /\ worker[w].left \in 0..1
          /\ worker[w].entry \in 0..MaxOperations /\ worker[w].id \in {0} \cup EventIds
          /\ IF worker[w].at = "write" THEN IsCalendar(worker[w].data)
                                      ELSE worker[w].data = Missing
    /\ operations \in 0..MaxOperations /\ loads \in 0..MaxLoads
    /\ DOMAIN known = Sessions
    /\ \A h \in Range(known) \cup {filed} :
          h.kept \cup h.given \subseteq EventIds \X (0..MaxOperations)

Idle == [at |-> "idle", left |-> 0, entry |-> 0, id |-> 0, data |-> Missing]

CalendarInit ==
    /\ stage = [s \in Sessions |-> "down"]
    /\ copy = [s \in Sessions |-> default_data]
    /\ file = Missing
    /\ worker = [w \in Workers |-> Idle]
    /\ operations = 0 /\ loads = 0
    /\ known = [s \in Sessions |-> NothingKnown] /\ filed = NothingKnown

\* Mutant: the copy is unlocked before it is written.
UnlockedWrites(s) == stage[s] # "saving"

\* Only a persist holds the mutex of its session across a step.
MutexFree(s) == stage[s] # "saving" /\ \A w \in Of(s) : worker[w].at # "write"

-----------------------------------------------------------------------------
(* A session starts, and ends.                                             *)

\* A calendar without events gets the two sample events (back).
Refilled(data) ==
    IF DOMAIN data.events = {} THEN [data EXCEPT !.events = default_data.events] ELSE data

\* A file that cannot be read or parsed counts as none.
Load(s) ==
    /\ stage[s] = "down" /\ loads < MaxLoads
    /\ loads' = loads + 1
    /\ stage' = [stage EXCEPT ![s] = "loaded"]
    /\ \/ /\ copy' = [copy EXCEPT ![s] = default_data]
          /\ known' = [known EXCEPT ![s] = NothingKnown]
       \/ /\ file \notin {Missing, Torn}
          /\ copy' = [copy EXCEPT ![s] = Refilled(file)]
          /\ known' = [known EXCEPT ![s] = filed]
    /\ UNCHANGED <<file, worker, operations, filed>>

\* The end of a write of data: it is whole, or it fails (for a full disk) or is mixed
\* with the write of another session and leaves something that does not parse, or it
\* fails before it has written anything.
Written(data, history) ==
    \/ file' = data /\ filed' = history
    \/ file' = Torn /\ filed' = NothingKnown
    \/ UNCHANGED <<file, filed>>

\* fs::write opens the file, which makes it empty.
LoadPersistBegin(s) ==
    /\ stage[s] = "loaded"
    /\ stage' = [stage EXCEPT ![s] = "saving"]
    /\ file' = Torn /\ filed' = NothingKnown
    /\ UNCHANGED <<copy, worker, operations, loads, known>>

LoadPersistEnd(s) ==
    /\ stage[s] = "saving"
    /\ stage' = [stage EXCEPT ![s] = "up"]
    /\ Written(copy[s], known[s])
    /\ UNCHANGED <<copy, worker, operations, loads, known>>

\* The file cannot be opened; it stays as it was.
LoadPersistFails(s) ==
    /\ stage[s] = "loaded"
    /\ stage' = [stage EXCEPT ![s] = "up"]
    /\ UNCHANGED <<copy, file, worker, operations, loads, known, filed>>

\* The process exits, or is killed.
Exit(s) ==
    /\ stage[s] # "down"
    /\ stage' = [stage EXCEPT ![s] = "down"]
    /\ copy' = [copy EXCEPT ![s] = default_data]
    /\ worker' = [w \in Workers |-> IF w \in Of(s) THEN Idle ELSE worker[w]]
    /\ UNCHANGED <<file, operations, loads, known, filed>>

-----------------------------------------------------------------------------
(* The operations: of INSERT, UPDATE and DELETE, and of APPLY_BATCH one by *)
(* one.                                                                    *)

\* The thread of a call, or of a batch with operations to come, may lock the copy.
\* left: operations of its batch after this one.
Operates(w, left) ==
    /\ stage[w[1]] = "up" /\ MutexFree(w[1])
    /\ worker[w].at = "idle"
    /\ worker[w].left = 0 \/ left = 0
    /\ operations < MaxOperations /\ operations' = operations + 1

\* What the copy is after the operation, and how the thread goes on: with its
\* persist, or as it was answered.
Changed(w, data, left, entry, id) ==
    /\ copy' = [copy EXCEPT ![w[1]] = data]
    /\ worker' = [worker EXCEPT ![w] =
                    [Idle EXCEPT !.at = "changed", !.left = left,
                                 !.entry = entry, !.id = id]]
    /\ UNCHANGED <<stage, file, loads, filed>>

\* Mutant: an id by the number of events there are.
CountedId(data) == Cardinality(DOMAIN data.events) + 1

EventId(data) == data.next_event_id

insert_event(w, left) ==
    LET data == copy[w[1]]
        id   == EventId(data)
    IN  /\ Operates(w, left)
        /\ \E span \in Spans :
              Changed(w, [data EXCEPT !.events = [i \in DOMAIN @ \cup {id} |->
                                           IF i = id THEN Event(span, operations + 1) ELSE @[i]],
                             !.next_event_id = @ + 1],
                      left, operations + 1, id)
        /\ UNCHANGED known

\* UPDATE, whatever table the uri names: its last part, if that is the id of an
\* event.  A start or an end it does not carry stays.
update_event(w, left, id) ==
    LET data == copy[w[1]]
    IN  /\ Operates(w, left)
        /\ id \in DOMAIN data.events
        /\ \E span \in Spans :
              Changed(w, [data EXCEPT !.events[id].span = span], left, 0, 0)
        /\ UNCHANGED known

\* DELETE, whatever table the uri names.  The reminders of an id go, also when no
\* event has it; then nothing is written.
delete_event(w, left, id) ==
    LET data == copy[w[1]]
        rest == [data EXCEPT !.events = Restrict(@, DOMAIN @ \ {id}),
                             !.reminders = {r \in @ : r.event_id # id}]
    IN  /\ Operates(w, left)
        /\ IF id \in DOMAIN data.events
           THEN /\ Changed(w, rest, left, 0, 0)
                /\ known' = [known EXCEPT ![w[1]].kept = {g \in @ : g[1] # id}]
           ELSE /\ copy' = [copy EXCEPT ![w[1]] = rest]
                /\ worker' = [worker EXCEPT ![w] = [Idle EXCEPT !.left = left]]
                /\ UNCHANGED <<stage, file, loads, known, filed>>

\* Nobody asks whether the event is there.
insert_reminder(w, left, event) ==
    LET data == copy[w[1]]
    IN  /\ Operates(w, left) /\ data.next_reminder_id <= MaxReminders
        /\ Changed(w, [data EXCEPT !.reminders = @ \cup {[id |-> data.next_reminder_id,
                                                          event_id |-> event]},
                                   !.next_reminder_id = @ + 1],
                   left, 0, 0)
        /\ UNCHANGED known

PersistBegin(w) ==
    /\ worker[w].at = "changed" /\ MutexFree(w[1])
    /\ worker' = [worker EXCEPT ![w].at = "write", ![w].data = copy[w[1]]]
    /\ file' = Torn /\ filed' = NothingKnown
    /\ UNCHANGED <<stage, copy, operations, loads, known>>

\* What is known once the operation of the thread is answered; another thread may
\* have deleted its event by then.
KnownAfter(w) ==
    LET told == IF worker[w].entry = 0 THEN {} ELSE {<<worker[w].id, worker[w].entry>>}
        h    == known[w[1]]
    IN  [kept  |-> h.kept \cup {g \in told : g[1] \in DOMAIN copy[w[1]].events},
         given |-> h.given \cup told]

\* The operation is answered whatever became of its write.
Answer(w) ==
    /\ worker' = [worker EXCEPT ![w] = [Idle EXCEPT !.left = worker[w].left]]
    /\ known' = [known EXCEPT ![w[1]] = KnownAfter(w)]
    /\ UNCHANGED <<stage, copy, operations, loads>>

PersistEnd(w) ==
    /\ worker[w].at = "write"
    /\ Answer(w)
    /\ Written(worker[w].data, KnownAfter(w))

\* The file cannot be opened; it stays as it was.
PersistFails(w) ==
    /\ worker[w].at = "changed" /\ MutexFree(w[1])
    /\ Answer(w)
    /\ UNCHANGED <<file, filed>>

CalendarNext ==
    \/ \E s \in Sessions :
          Load(s) \/ LoadPersistBegin(s) \/ LoadPersistEnd(s) \/ LoadPersistFails(s) \/ Exit(s)
    \/ \E w \in Workers, left \in 0..1 :
          \/ insert_event(w, left)
          \/ \E id \in 0..(2 + MaxOperations) : update_event(w, left, id) \/ delete_event(w, left, id)
          \/ \E event \in Reminded : insert_reminder(w, left, event)
    \/ \E w \in Workers : PersistBegin(w) \/ PersistEnd(w) \/ PersistFails(w)

-----------------------------------------------------------------------------
(* QUERY: the rows of a table, by their ids, and which columns they have   *)
(* left out.                                                               *)

\* Where no id is given, 0 stands.
EventRows(data, id) ==
    IF id = 0 THEN DOMAIN data.events ELSE DOMAIN data.events \cap {id}

\* The window of an instances uri: times, or days, which are widened by one day
\* before and one after, for the time zones.  A day is one unit of time.
InstanceWindow(kind, from, to) ==
    IF kind = "when" THEN [begin |-> from, end |-> to]
                     ELSE [begin |-> from - 1, end |-> to + 2]

\* Mutant: an event without length has no part in any window.
OverlapOnly(e, w) == e.start < w.end /\ e.end > w.begin

\* An event without length is asked for by its start.
InWindow(e, w) ==
    /\ e.start < w.end
    /\ e.end > w.begin \/ (e.end = e.start /\ e.start >= w.begin /\ e.start <= w.end)

InstanceRows(data, w) == {i \in DOMAIN data.events : InWindow(data.events[i].span, w)}

ReminderRows(data) == {r.id : r \in data.reminders}
CalendarRows == {1}
ColorRows    == {1}
PropertyRows == {"timezoneType", "timezoneInstances", "timezoneInstancesPrevious"}

Query(data, table, id, window) ==
    CASE table = "calendars"  -> CalendarRows
      [] table = "instances"  -> InstanceRows(data, window)
      [] table = "events"     -> EventRows(data, id)
      [] table = "colors"     -> ColorRows
      [] table = "reminders"  -> ReminderRows(data)
      [] table = "properties" -> PropertyRows
      [] OTHER                -> {}

-----------------------------------------------------------------------------
(* Properties.                                                             *)

\* While a session is up, an event whose insert it answered is found under its id
\* until it is deleted, through other threads' changes and writes, whether or not the
\* writes come off, and whatever other sessions do.  So is what was kept of the session
\* whose file it loaded.
KeptEventsAreFound ==
    \A s \in Sessions : stage[s] = "up" =>
        \A g \in known[s].kept :
            /\ Query(copy[s], "events", g[1], InstanceWindow("when", 0, 0)) = {g[1]}
            /\ copy[s].events[g[1]].entry = g[2]

\* A file that was written whole has every event that the session which wrote it had
\* answered for and kept: no thread writes over it what the copy was before.
WholeFilesHaveAll ==
    file \notin {Missing, Torn} =>
        \A g \in filed.kept : g[1] \in DOMAIN file.events /\ file.events[g[1]].entry = g[2]

\* Two events that a session answered for never had the same id, also when one of them
\* was deleted before, nor had one of the sessions whose file it went on with.  (Two
\* sessions that are up at the same time do give one id twice.)
IdsAreNotReused ==
    \A s \in Sessions : \A g, h \in known[s].given : g[1] = h[1] => g = h

\* An event that starts in a window is an instance in it, whatever its length, and
\* an instance neither ends before the window nor starts after it.
InstancesAreTheWindows ==
    \A s \in {r \in Sessions : stage[r] = "up"}, from \in Times,
       to \in Times \cup {t + 1 : t \in Times}, kind \in {"when", "whenbyday"} :
        LET w    == InstanceWindow(kind, from, to)
            rows == Query(copy[s], "instances", 0, w)
        IN  \A i \in DOMAIN copy[s].events :
               LET e == copy[s].events[i].span
               IN  /\ (e.start \in w.begin..(w.end - 1) /\ e.start <= e.end) => i \in rows
                   /\ i \in rows => e.start < w.end /\ (e.end > w.begin \/ e.start >= w.begin)

\* The calendar answers for its events: each is found under an id that is its own, in
\* the windows it is part of, and in what the session left whole.
CalendarKnowsItsEvents ==
    KeptEventsAreFound /\ WholeFilesHaveAll /\ IdsAreNotReused /\ InstancesAreTheWindows

\* calendar.rs:5 "Persists calendar data across runs": what was inserted, and not
\* deleted, is in the file whenever nobody is writing it.
InsertsArePersisted ==
    (\A s \in Sessions : stage[s] # "saving") /\ (\A w \in Workers : worker[w].at # "write") =>
        \A s \in Sessions : stage[s] = "up" =>
            \A g \in known[s].kept :
                /\ file \notin {Missing, Torn} /\ g[1] \in DOMAIN file.events
                /\ file.events[g[1]].entry = g[2]
=============================================================================
