-------------------------------- MODULE Shade -------------------------------
(***************************************************************************)
(* The notification shade (src/crates/arod/src/shade.rs) and the calls of  *)
(* the notification service that feed it (services/notification.rs).  arod *)
(* keeps the notes; a widget that connects gets all of them in one line,   *)
(* and then a line for every change, in the order of the changes: a call   *)
(* changes the notes and writes its lines under one lock, and a write to a *)
(* widget that does not read waits, with the lock, for room in its socket. *)
(* A widget answers with taps and dismissals, which threads of their own   *)
(* read; what a tap starts is in PendingIntents.                           *)
(***************************************************************************)
EXTENDS Naturals, Sequences, FiniteSets, SequencesExt, VecRetain

CONSTANTS
    NoteKeys,      \* (package, tag, id) of notifications
    AppOf,         \* of each, its package
    Widgets,       \* connections of the companion widget
    SocketLines,   \* bound: lines a socket holds before a write waits
    MaxNotes,      \* bound: posts
    MaxCommands    \* bound: commands of the widgets

ASSUME ShadeAssumption ==
    /\ SocketLines \in Nat \ {0} /\ MaxNotes \in Nat /\ MaxCommands \in Nat

VARIABLES
    notes,         \* Inner::notes: key, id and content (of which post it is), in order
    next_id,       \* Inner::next_id
    clients,       \* Inner::clients, in order
    writes,        \* lines that the holder of the lock has still to write; none: it is free
    link,          \* of each widget: absent, open, closed
    wire,          \* lines in its socket
    shown,          \* what it shows: notes by id
    commands,      \* commands that a reader has still to handle
    posted, sent,   \* posts and commands so far
    tapped         \* history: the key a tapped note was shown for, and what was opened

shadeVars  == <<notes, next_id, clients, writes>>
widgetVars == <<link, wire, shown>>
shadeAll   == <<shadeVars, widgetVars, commands, posted, sent, tapped>>

Note == [id : 1..MaxNotes, key : NoteKeys, post : 1..MaxNotes]

ShadeTypeOK ==
    /\ ToSet(notes) \subseteq Note /\ next_id \in 1..MaxNotes + 1
    /\ ToSet(clients) \subseteq Widgets
    /\ link \in [Widgets -> {"absent", "open", "closed"}]
    /\ \A c \in Widgets : Len(wire[c]) <= SocketLines /\ shown[c] \subseteq Note
    /\ tapped \subseteq NoteKeys \X NoteKeys

ShadeInit ==
    /\ notes = <<>> /\ next_id = 1 /\ clients = <<>> /\ writes = <<>>
    /\ link = [c \in Widgets |-> "absent"]
    /\ wire = [c \in Widgets |-> <<>>] /\ shown = [c \in Widgets |-> {}]
    /\ commands = {} /\ posted = 0 /\ sent = 0 /\ tapped = {}

-----------------------------------------------------------------------------
(* Lines, and what a widget makes of them.                                 *)

SnapshotLine(list) == [what |-> "snapshot", notes |-> ToSet(list)]
PostedLine(n)      == [what |-> "posted",   notes |-> {n}]
RemovedLine(n)     == [what |-> "removed",  notes |-> {n}]

Ids(set) == {n.id : n \in set}

Show(list, line) ==
    CASE line.what = "snapshot" -> line.notes
      [] line.what = "posted"   -> {n \in list : n.id \notin Ids(line.notes)} \cup line.notes
      [] line.what = "removed"  -> {n \in list : n.id \notin Ids(line.notes)}

LockFree == writes = <<>>

\* broadcast: every line to every client, line by line.
broadcast(lines) ==
    writes' = [i \in 1..Len(lines) * Len(clients) |->
        [to   |-> clients[((i - 1) % Len(clients)) + 1],
         line |-> lines[((i - 1) \div Len(clients)) + 1]]]

-----------------------------------------------------------------------------
(* Calls of the app.                                                       *)

Position(key) == {i \in DOMAIN notes : notes[i].key = key}

\* Mutant: a note is numbered by its place in the list.
NumberInList == Len(notes) + 1

NewId == next_id

\* enqueueNotificationWithTag: a note of the same key is replaced in its place, under
\* its id.
post(key) ==
    /\ LockFree /\ posted < MaxNotes /\ posted' = posted + 1
    /\ LET known == Position(key)
           id    == IF known = {} THEN NewId ELSE notes[CHOOSE i \in known : TRUE].id
           note  == [id |-> id, key |-> key, post |-> posted + 1]
       IN  /\ notes' = IF known = {} THEN Append(notes, note)
                       ELSE [i \in DOMAIN notes |-> IF i \in known THEN note ELSE notes[i]]
           /\ next_id' = IF known = {} THEN next_id + 1 ELSE next_id
           /\ broadcast(<<PostedLine(note)>>)
    /\ UNCHANGED <<clients, widgetVars, commands, sent, tapped>>

NotesOf(keys) == {n \in ToSet(notes) : n.key \in keys}

\* These notes go, with a line for each, in their order.
Withdraw(gone) ==
    /\ notes' = Retain(notes, ToSet(notes) \ gone)
    /\ LET lines == Retain(notes, gone)
       IN  broadcast([i \in DOMAIN lines |-> RemovedLine(lines[i])])
    /\ UNCHANGED <<next_id, clients>>

\* cancelNotificationWithTag
remove(key) ==
    /\ LockFree /\ Withdraw(NotesOf({key}))
    /\ UNCHANGED <<widgetVars, commands, posted, sent, tapped>>

\* cancelAllNotifications
remove_all(app) ==
    /\ LockFree /\ Withdraw(NotesOf({k \in NoteKeys : AppOf[k] = app}))
    /\ UNCHANGED <<widgetVars, commands, posted, sent, tapped>>

\* The calls of INotificationManager that change anything.
NotificationCall ==
    \E key \in NoteKeys : post(key) \/ remove(key) \/ remove_all(AppOf[key])

-----------------------------------------------------------------------------
(* Widgets.                                                                *)

\* The snapshot is written under the lock that the changes are made under.
on_connect(c) ==
    /\ LockFree /\ link[c] = "absent"
    /\ link' = [link EXCEPT ![c] = "open"]
    /\ clients' = Append(clients, c)
    /\ writes' = <<[to |-> c, line |-> SnapshotLine(notes)]>>
    /\ UNCHANGED <<notes, next_id, wire, shown, commands, posted, sent, tapped>>

\* The holder of the lock writes its next line.  A client that is gone is dropped,
\* though not by its snapshot.
WriteLine ==
    /\ writes # <<>> /\ writes' = Tail(writes)
    /\ LET c == Head(writes).to
       IN  IF link[c] = "closed"
           THEN /\ clients' = IF Head(writes).line.what = "snapshot" THEN clients ELSE Retain(clients, Widgets \ {c})
                /\ UNCHANGED wire
           ELSE /\ Len(wire[c]) < SocketLines
                /\ wire' = [wire EXCEPT ![c] = Append(wire[c], Head(writes).line)]
                /\ UNCHANGED clients
    /\ UNCHANGED <<notes, next_id, link, shown, commands, posted, sent, tapped>>

Read(c) ==
    /\ link[c] = "open" /\ wire[c] # <<>>
    /\ shown' = [shown EXCEPT ![c] = Show(shown[c], Head(wire[c]))]
    /\ wire' = [wire EXCEPT ![c] = Tail(wire[c])]
    /\ UNCHANGED <<shadeVars, link, commands, posted, sent, tapped>>

HangUp(c) ==
    /\ link[c] = "open" /\ link' = [link EXCEPT ![c] = "closed"]
    /\ UNCHANGED <<shadeVars, wire, shown, commands, posted, sent, tapped>>

\* The user taps or dismisses a note that the widget shows, or dismisses all.
Ask(c) ==
    /\ link[c] = "open" /\ sent < MaxCommands /\ sent' = sent + 1
    /\ \/ \E n \in shown[c], cmd \in {"invoke", "dismiss"} :
             commands' = commands \cup {[cmd |-> cmd, id |-> n.id, key |-> {n.key}]}
       \/ commands' = commands \cup {[cmd |-> "dismissAll", id |-> 0, key |-> {}]}
    /\ UNCHANGED <<shadeVars, widgetVars, posted, tapped>>

\* A tap opens what the note with that id is for by now, if there is one.
invoke(id, keys) ==
    /\ tapped' = tapped \cup {<<k, notes[i].key>> : k \in keys,
                                i \in {j \in DOMAIN notes : notes[j].id = id}}
    /\ UNCHANGED shadeVars

handle_command(m) ==
    /\ m \in commands /\ commands' = commands \ {m}
    /\ LockFree
    /\ \/ m.cmd = "invoke"     /\ invoke(m.id, m.key)
       \/ m.cmd = "dismiss"    /\ Withdraw({n \in ToSet(notes) : n.id = m.id}) /\ UNCHANGED tapped
       \/ m.cmd = "dismissAll" /\ Withdraw(ToSet(notes)) /\ UNCHANGED tapped
    /\ UNCHANGED <<widgetVars, posted, sent>>

ShadeNext ==
    \/ NotificationCall
    \/ \E c \in Widgets : on_connect(c) \/ Read(c) \/ HangUp(c) \/ Ask(c)
    \/ WriteLine
    \/ \E m \in commands : handle_command(m)

-----------------------------------------------------------------------------
(* Properties.                                                             *)

\* What these lines make of a list in the end: for each id the last line that speaks of
\* it decides.
SpeaksOf(line, id) == line.what = "snapshot" \/ id \in Ids(line.notes)

ShowAll(list, lines, at) ==
    {n \in list : \A i \in at : ~SpeaksOf(lines[i], n.id)}
    \cup UNION {{n \in lines[i].notes : \A j \in at : j > i => ~SpeaksOf(lines[j], n.id)} :
                   i \in {k \in at : lines[k].what # "removed"}}

LinesOf(ws)  == [i \in DOMAIN ws |-> ws[i].line]
Owed(ws, c)  == {i \in DOMAIN ws : ws[i].to = c}

\* A widget that reads its lines shows the notes arod has, also when it connects in
\* the middle of changes or reads late; and a tap on a note opens no other one's
\* target, however old the list is that the user taps.
WidgetsShowTheNotes ==
    /\ \A c \in Widgets :
          link[c] = "open" =>
              ShowAll(ShowAll(shown[c], wire[c], DOMAIN wire[c]), LinesOf(writes), Owed(writes, c))
                  = ToSet(notes)
    /\ \A pair \in tapped : pair[1] = pair[2]
=============================================================================
