--------------------------- MODULE MediaPlayback ----------------------------
(***************************************************************************)
(* A media player (src/crates/arod/src/services/media_player.rs): the      *)
(* app's calls, one at a time, and a thread per playback that starts mpv   *)
(* and watches it.  Calls and threads share the current child, the stop    *)
(* flags, the playing flag and the path of mpv's control socket, each      *)
(* under a lock or an atomic of its own.                                   *)
(*                                                                         *)
(* mpv is external: it plays until it is killed or its file ends, listens  *)
(* at the socket path some time after its start, and the kernel kills it   *)
(* when the thread that started it ends (PR_SET_PDEATHSIG).                *)
(* The data source and the position are left out: a new source touches no  *)
(* process and no flag, and the start time is only read to answer.         *)
(***************************************************************************)
EXTENDS Naturals, FiniteSets

CONSTANTS
    MaxPlays,      \* bound: playbacks of the player
    MaxRounds,     \* bound: times a looping playback starts its file
    NoChild

ASSUME PlaybackAssumption == MaxPlays \in Nat \ {0} /\ MaxRounds \in Nat \ {0}

Plays    == 1..MaxPlays
Children == [play : Plays, round : 1..MaxRounds]

VARIABLES
    call,          \* the app's call in progress: where it is, and for SEEK_TO what it read
    plays,         \* playbacks so far; the last has the current stop flag
    stopped,       \* playbacks whose stop flag is set
    slot,          \* current_child
    thread,        \* where the thread of a playback is
    own,           \* the child it started last
    loops,         \* playbacks that were started with looping on
    playing,       \* the flag
    looping,       \* Inner::looping
    socket,        \* Inner::ipc_socket is set
    running,       \* mpv processes
    paused,        \* those told to pause
    listener,      \* the process that is reached at the socket path
    ended,         \* history: processes that reached the end of their file
    completed,     \* history: playbacks the app was told are complete
    wanted         \* history: the app's last word was START, not STOP or RESET

playerVars   == <<plays, stopped, slot, playing, looping, socket>>
processVars  == <<running, paused, listener, ended>>
threadVars   == <<thread, own, loops, completed>>
playbackVars == <<call, playerVars, threadVars, processVars, wanted>>

PlaybackTypeOK ==
    /\ call \in {"none", "start", "connect", "spawn", "signalled", "run",
                 "seek", "seeked", "stop", "halted"}
    /\ plays \in 0..MaxPlays /\ stopped \subseteq Plays /\ loops \subseteq Plays
    /\ slot \in Children \cup {NoChild}
    /\ thread \in [Plays -> {"none", "loop", "spawned", "poll", "kill", "finish", "again",
                             "was_stopped", "was_over", "quit", "tell", "report", "ended"}]
    /\ own \in [Plays -> Children \cup {NoChild}]
    /\ {playing, looping, socket, wanted} \subseteq BOOLEAN
    /\ running \subseteq Children /\ paused \subseteq running
    /\ listener \in Children \cup {NoChild}
    /\ ended \subseteq Children /\ completed \subseteq Plays

PlaybackInit ==
    /\ call = "none" /\ plays = 0 /\ stopped = {} /\ loops = {}
    /\ slot = NoChild
    /\ thread = [p \in Plays |-> "none"] /\ own = [p \in Plays |-> NoChild]
    /\ playing = FALSE /\ looping = FALSE /\ socket = FALSE
    /\ running = {} /\ paused = {} /\ listener = NoChild
    /\ ended = {} /\ completed = {} /\ wanted = FALSE

\* A call that holds the lock of Inner across more than one step.
InnerFree == call \notin {"signalled", "halted"}

\* The control socket answers: mpv listens at the path and lives.
Reachable == socket /\ listener \in running

Kill(children) ==
    /\ running' = running \ children
    /\ paused' = paused \ children
    /\ UNCHANGED <<listener, ended>>

-----------------------------------------------------------------------------
(* The calls of the app.                                                   *)

Call(op) ==
    /\ call = "none"
    /\ op = "start" => plays < MaxPlays
    /\ call' = op
    /\ UNCHANGED <<playerVars, threadVars, processVars>>
    /\ wanted' = (wanted \/ op = "start")

SetLooping ==
    /\ call = "none"
    /\ looping' = ~looping
    /\ UNCHANGED <<call, plays, stopped, slot, playing, socket,
                   threadVars, processVars, wanted>>

\* START resumes the process it reaches, or starts a playback.
StartConnect ==
    /\ call = "start"
    /\ IF Reachable
       THEN /\ paused' = paused \ {listener}
            /\ playing' = TRUE
            /\ call' = "none"
       ELSE /\ call' = "spawn"
            /\ UNCHANGED <<paused, playing>>
    /\ UNCHANGED <<plays, stopped, slot, looping, socket, running, listener, ended,
                   threadVars, wanted>>

\* Mutant: the path is forgotten, the flag not set.
ForgetCurrent == socket' = FALSE /\ UNCHANGED stopped

\* The stop flag first, out of the lock of the slot.
SignalCurrent ==
    /\ stopped' = IF plays = 0 THEN stopped ELSE stopped \cup {plays}
    /\ socket' = FALSE

\* The new playback's path is that of the last: an older socket there goes.
SpawnSignal ==
    /\ call = "spawn"
    /\ SignalCurrent
    /\ listener' = NoChild
    /\ call' = "signalled"
    /\ UNCHANGED <<plays, slot, playing, looping, threadVars,
                   running, paused, ended, wanted>>

TakeSlot ==
    /\ slot' = NoChild
    /\ Kill({slot} \cap running)

SpawnTake ==
    /\ call = "signalled"
    /\ TakeSlot
    /\ plays' = plays + 1
    /\ loops' = IF looping THEN loops \cup {plays + 1} ELSE loops
    /\ socket' = TRUE
    /\ call' = "run"
    /\ UNCHANGED <<stopped, playing, looping, thread, own, completed, wanted>>

SpawnRun ==
    /\ call = "run"
    /\ playing' = TRUE
    /\ thread' = [thread EXCEPT ![plays] = "loop"]
    /\ call' = "none"
    /\ UNCHANGED <<plays, stopped, slot, looping, socket, own, loops,
                   completed, processVars, wanted>>

\* STOP, RESET and DISCONNECT.  A player that is dropped only takes no more calls: a
\* playback's thread holds its Inner, whose drop comes when the last thread has ended and
\* has left nothing to kill.
StopSignal ==
    /\ call = "stop"
    /\ SignalCurrent
    /\ listener' = IF socket THEN NoChild ELSE listener
    /\ call' = "halted"
    /\ UNCHANGED <<plays, slot, playing, looping, threadVars,
                   running, paused, ended, wanted>>

StopTake ==
    /\ call = "halted"
    /\ TakeSlot
    /\ playing' = FALSE /\ wanted' = FALSE
    /\ call' = "none"
    /\ UNCHANGED <<plays, stopped, looping, socket, threadVars>>

Pause ==
    /\ call = "none"
    /\ playing' = FALSE
    /\ paused' = IF Reachable THEN paused \cup {listener} ELSE paused
    /\ UNCHANGED <<call, plays, stopped, slot, looping, socket, threadVars,
                   running, listener, ended, wanted>>

\* SEEK_TO tells the process it reaches; a playback it cannot reach is replaced.
\* The playing flag is read first and used to the end.
SeekTo ==
    /\ call = "seek"
    /\ paused' = IF Reachable /\ ~playing THEN paused \cup {listener} ELSE paused
    /\ call' = IF playing /\ ~Reachable /\ plays < MaxPlays THEN "spawn" ELSE "none"
    /\ UNCHANGED <<plays, stopped, slot, playing, looping, socket, threadVars,
                   running, listener, ended, wanted>>

-----------------------------------------------------------------------------
(* The thread of playback p.                                               *)

Goto(p, at) == thread' = [thread EXCEPT ![p] = at]

\* The thread is done, and reads the stop flag once more, for whether to report the end:
\* in the step that finds it is done, as nothing that others see comes between the two,
\* and a flag that is set stays so.
Leave(p) == Goto(p, IF p \in stopped THEN "was_stopped" ELSE "was_over")

Round(p) == IF own[p] = NoChild THEN 1 ELSE own[p].round + 1

\* mpv is started, or cannot be.
SpawnChild(p) ==
    /\ thread[p] = "loop"
    /\ IF p \in stopped \/ Round(p) > MaxRounds
       THEN Leave(p) /\ UNCHANGED <<own, running>>
       ELSE \/ /\ Goto(p, "spawned")
               /\ own' = [own EXCEPT ![p] = [play |-> p, round |-> Round(p)]]
               /\ running' = running \cup {[play |-> p, round |-> Round(p)]}
            \/ Leave(p) /\ UNCHANGED <<own, running>>
    /\ UNCHANGED <<call, playerVars, loops, completed, paused, listener, ended, wanted>>

\* Mutant: the flag is not looked at again under the lock of the slot.
StoreAnyChild(p) ==
    /\ thread[p] = "spawned"
    /\ slot' = own[p] /\ Goto(p, "poll")
    /\ UNCHANGED <<call, plays, stopped, playing, looping, socket, own, loops,
                   completed, processVars, wanted>>

StoreChild(p) ==
    /\ thread[p] = "spawned"
    /\ IF p \in stopped
       THEN Kill({own[p]}) /\ Leave(p) /\ UNCHANGED slot
       ELSE slot' = own[p] /\ Goto(p, "poll") /\ UNCHANGED processVars
    /\ UNCHANGED <<call, plays, stopped, playing, looping, socket, own, loops,
                   completed, wanted>>

\* Every 20 ms: the flag, then the slot.  An empty slot counts as finished.
Poll(p) ==
    /\ thread[p] = "poll"
    /\ \/ p \in stopped /\ Goto(p, "kill")
       \/ p \notin stopped /\ slot \notin running /\ Goto(p, "finish")
    /\ UNCHANGED <<call, playerVars, own, loops, completed, processVars, wanted>>

\* Whatever is in the slot by now is killed ...
KillSlot(p) ==
    /\ thread[p] = "kill"
    /\ TakeSlot
    /\ Goto(p, "again")
    /\ UNCHANGED <<call, plays, stopped, playing, looping, socket, own, loops,
                   completed, wanted>>

\* ... or forgotten.
ForgetSlot(p) ==
    /\ thread[p] = "finish"
    /\ slot' = NoChild
    /\ Goto(p, "again")
    /\ UNCHANGED <<call, plays, stopped, playing, looping, socket, own, loops,
                   completed, processVars, wanted>>

Again(p) ==
    /\ thread[p] = "again"
    /\ IF p \in loops /\ p \notin stopped THEN Goto(p, "loop") ELSE Leave(p)
    /\ UNCHANGED <<call, playerVars, own, loops, completed, processVars, wanted>>

\* The end of a thread is the end of the processes it started.
EndThread(p, told) ==
    /\ Goto(p, "ended")
    /\ completed' = completed \cup told
    /\ running' = {c \in running : c.play # p}
    /\ paused' = {c \in paused : c.play # p}
    /\ UNCHANGED ended

\* The flag of the player, also if another playback has set it since.
ClearPlaying(p) ==
    /\ thread[p] \in {"was_stopped", "was_over"}
    /\ playing' = FALSE
    /\ Goto(p, IF thread[p] = "was_stopped" THEN "quit" ELSE "tell")
    /\ UNCHANGED <<call, plays, stopped, slot, looping, socket, own, loops, completed,
                   processVars, wanted>>

\* The socket's path, also if another playback's process listens there by now.
RemoveSocket(p) ==
    /\ thread[p] \in {"quit", "tell"}
    /\ listener' = NoChild
    /\ IF thread[p] = "quit"
       THEN EndThread(p, {})
       ELSE Goto(p, "report") /\ UNCHANGED <<completed, running, paused, ended>>
    /\ UNCHANGED <<call, playerVars, own, loops, wanted>>

\* A playback that nobody had stopped is reported complete.
ReportComplete(p) ==
    /\ thread[p] = "report" /\ InnerFree
    /\ socket' = FALSE
    /\ EndThread(p, {p})
    /\ UNCHANGED <<call, plays, stopped, slot, playing, looping, own, loops,
                   listener, wanted>>

PlayThread(p) ==
    \/ SpawnChild(p) \/ StoreChild(p) \/ Poll(p) \/ KillSlot(p) \/ ForgetSlot(p)
    \/ Again(p) \/ ClearPlaying(p) \/ RemoveSocket(p) \/ ReportComplete(p)

-----------------------------------------------------------------------------
(* mpv.                                                                    *)

Listen(c) ==
    /\ c \in running
    /\ listener' = c
    /\ UNCHANGED <<call, playerVars, threadVars, running, paused, ended, wanted>>

FileEnds(c) ==
    /\ c \in running \ paused
    /\ running' = running \ {c}
    /\ ended' = ended \cup {c}
    /\ UNCHANGED <<call, playerVars, threadVars, paused, listener, wanted>>

CallStep ==
    \/ StartConnect \/ SpawnSignal \/ SpawnTake \/ SpawnRun
    \/ StopSignal \/ StopTake \/ SeekTo

PlaybackNext ==
    \/ \E op \in {"start", "stop", "seek"} : Call(op)
    \/ SetLooping \/ Pause \/ CallStep
    \/ \E p \in Plays : PlayThread(p)
    \/ \E c \in running : Listen(c) \/ FileEnds(c)

PlaybackSpec == PlaybackInit /\ [][PlaybackNext]_playbackVars

-----------------------------------------------------------------------------
(* Properties.                                                             *)

\* A player that was stopped, and not started again, falls silent: also when
\* threads of older playbacks took its process out of the slot and forgot it.
StoppedPlayersFallSilent == ~wanted ~> (running = {} \/ wanted)

\* A stop stops.  A child that is stored in the slot belongs to a playback that nobody
\* stopped, unless the call that stopped it is about to take it: the flag is set before
\* the slot is taken, and looked at after the slot is locked.
StopsAreFinal ==
    slot # NoChild => slot.play \notin stopped \/ call \in {"signalled", "halted"}

\* media_player.rs:321 "MEDIA_PLAYBACK_COMPLETE": what the app is told is complete
\* came to its end, or could not be played.
CompletedPlaybacksEnded == \A p \in completed : own[p] = NoChild \/ own[p] \in ended
=============================================================================
