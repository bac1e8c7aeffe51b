---------------------------- MODULE WindowInput -----------------------------
(***************************************************************************)
(* Where the desktop's input goes: the stack of the app's windows          *)
(* (src/crates/arod/src/services/window_session.rs), the one selected      *)
(* input channel (src/crates/arod/src/input_channel.rs) and the Wayland    *)
(* events of the compositor thread (src/crates/arod/src/compositor.rs).    *)
(*                                                                         *)
(* Binder threads add and remove windows and then select the channel of    *)
(* the top one.  The compositor thread selects the channel of a gesture's  *)
(* window and, after it let go of the stack's lock, sends the event to     *)
(* whatever channel is selected.  Every window is added once.              *)
(***************************************************************************)
EXTENDS Naturals, Sequences, SequencesExt

CONSTANTS Windows, None

ASSUME NoneAssumption == None \notin Windows

VARIABLES
    windows,     \* WindowHost::windows, the top one last
    life,        \* how far the app has come with each window
    channel,     \* InputHub::fd, as the window it leads to
    windowId,    \* InputHub::window_id
    focused,     \* InputHub::focused
    step,        \* where the compositor thread is in an event
    action,      \* the motion it is about to send
    wanted,      \* the focus it is about to report
    pointerDown, \* App::ptr_down
    downLayer,   \* App::down_layer_id
    hasFocus,    \* the last focus message a window got
    touched,     \* whether a window saw a DOWN without its UP or CANCEL
    pinned,      \* history: a gesture selected the channel after the stack did
    disturbed    \* history: the channel was switched in the middle of a send

hub        == <<channel, windowId>>
gesture    == <<pointerDown, downLayer>>
compositor == <<step, action, wanted, gesture>>
app        == <<windows, life>>
vars       == <<app, hub, focused, compositor, hasFocus, touched, pinned, disturbed>>

Actions == {"DOWN", "MOVE", "UP", "CANCEL"}

TypeOK ==
    /\ windows \in Seq(Windows)
    /\ \A i, j \in DOMAIN windows : windows[i] = windows[j] => i = j
    /\ life \in [Windows -> {"absent", "pushed", "shown", "closed", "removed", "gone"}]
    /\ channel \in Windows \cup {None} /\ windowId \in Windows \cup {None}
    /\ focused \in BOOLEAN /\ wanted \in BOOLEAN
    /\ step \in {"idle", "send", "refresh", "again", "resend", "store", "report"}
    /\ action \in Actions
    /\ pointerDown \in BOOLEAN /\ downLayer \in Windows \cup {None}
    /\ hasFocus \in [Windows -> BOOLEAN] /\ touched \in [Windows -> BOOLEAN]
    /\ pinned \in BOOLEAN /\ disturbed \in BOOLEAN

Init ==
    /\ windows = <<>> /\ life = [w \in Windows |-> "absent"]
    /\ channel = None /\ windowId = None /\ focused = FALSE
    /\ step = "idle" /\ action = "UP" /\ wanted = FALSE
    /\ pointerDown = FALSE /\ downLayer = None
    /\ hasFocus = [w \in Windows |-> FALSE] /\ touched = [w \in Windows |-> FALSE]
    /\ pinned = FALSE /\ disturbed = FALSE

-----------------------------------------------------------------------------
(* The hub.                                                                *)

Top     == IF windows = <<>> THEN None ELSE windows[Len(windows)]
Held(w) == \E i \in DOMAIN windows : windows[i] = w

\* The app holds its end of the channel.
Open(w) == w # None /\ life[w] \in {"pushed", "shown"}

\* Mutant: the window that gets the channel is not told.
FocusMovesQuietly(w) ==
    IF windowId # w /\ focused
    THEN [v \in Windows |-> hasFocus[v] /\ ~(v = channel /\ Open(v))]
    ELSE hasFocus

\* select_channel takes the focus from the old window and gives it to the new.
FocusMoves(w) ==
    IF windowId # w /\ focused
    THEN [v \in Windows |-> IF v = w THEN Open(v) \/ hasFocus[v]
                            ELSE hasFocus[v] /\ ~(v = channel /\ Open(v))]
    ELSE hasFocus

Select(w) == hasFocus' = FocusMoves(w) /\ channel' = w /\ windowId' = w

-----------------------------------------------------------------------------
(* The app's calls, each on a Binder thread.                               *)

\* Mutant: a window that is shown may be pushed once more.
AddWindowAgain(w) ==
    /\ life[w] \in {"absent", "shown"}
    /\ windows' = Append(windows, w)
    /\ life' = [life EXCEPT ![w] = "pushed"]
    /\ UNCHANGED <<hub, focused, compositor, hasFocus, touched, pinned, disturbed>>

AddWindow(w) ==
    /\ life[w] = "absent"
    /\ windows' = Append(windows, w)
    /\ life' = [life EXCEPT ![w] = "pushed"]
    /\ UNCHANGED <<hub, focused, compositor, hasFocus, touched, pinned, disturbed>>

\* The app disposes of its end of the channel before it removes the window.
CloseChannel(w) ==
    /\ life[w] = "shown"
    /\ life' = [life EXCEPT ![w] = "closed"]
    /\ UNCHANGED <<windows, hub, focused, compositor, hasFocus, touched, pinned, disturbed>>

RemoveWindow(w) ==
    /\ life[w] \in {"shown", "closed"}
    /\ \E i \in DOMAIN windows : windows[i] = w /\ windows' = RemoveAt(windows, i)
    /\ life' = [life EXCEPT ![w] = "removed"]
    /\ UNCHANGED <<hub, focused, compositor, hasFocus, touched, pinned, disturbed>>

\* Mutant: only an added window changes the channel.
RefreshAdded(w) ==
    /\ life[w] \in {"pushed", "removed"}
    /\ life' = [life EXCEPT ![w] = IF @ = "pushed" THEN "shown" ELSE "gone"]
    /\ IF life[w] = "pushed"
       THEN Select(Top) /\ pinned' = FALSE
            /\ disturbed' = (disturbed \/ (step \in {"send", "resend"} /\ Top # channel))
       ELSE UNCHANGED <<hub, hasFocus, pinned, disturbed>>
    /\ UNCHANGED <<windows, focused, compositor, touched>>

\* Both calls end in refresh_input_fd.
Refresh(w) ==
    /\ life[w] \in {"pushed", "removed"}
    /\ life' = [life EXCEPT ![w] = IF @ = "pushed" THEN "shown" ELSE "gone"]
    /\ Select(Top) /\ pinned' = FALSE
    /\ disturbed' = (disturbed \/ (step \in {"send", "resend"} /\ Top # channel))
    /\ UNCHANGED <<windows, focused, compositor, touched>>

-----------------------------------------------------------------------------
(* Pointer events on the compositor thread.                                *)

\* The stack's lock covers the choice of the window and of its channel.
Aim(w, a, next) ==
    /\ Select(w) /\ pinned' = (w # Top)
    /\ action' = a /\ step' = next

\* ACTION_DOWN goes to the top window; without one it fails.
Press ==
    /\ step = "idle" /\ ~pointerDown
    /\ pointerDown' = TRUE
    /\ IF windows = <<>>
       THEN step' = "refresh" /\ action' = "DOWN"
            /\ UNCHANGED <<hub, hasFocus, pinned, downLayer>>
       ELSE Aim(Top, "DOWN", "send") /\ downLayer' = Top
    /\ UNCHANGED <<app, focused, wanted, touched, disturbed>>

\* A DOWN that failed: select the top channel and try once more.
RefreshForPress ==
    /\ step = "refresh"
    /\ Select(Top) /\ pinned' = FALSE
    /\ step' = "again"
    /\ UNCHANGED <<app, focused, action, wanted, gesture, touched, disturbed>>

PressAgain ==
    /\ step = "again"
    /\ IF windows = <<>>
       THEN step' = "idle" /\ UNCHANGED <<action, hub, hasFocus, pinned, downLayer>>
       ELSE Aim(Top, "DOWN", "resend") /\ downLayer' = Top
    /\ UNCHANGED <<app, focused, wanted, pointerDown, touched, disturbed>>

Ends(a) == a \in {"UP", "CANCEL"}

\* Mutant: every event goes to the top window.
MoveOrEndAtTop(a) ==
    /\ step = "idle" /\ pointerDown
    /\ pointerDown' = ~Ends(a)
    /\ IF windows = <<>> THEN UNCHANGED <<step, action, hub, hasFocus, pinned>>
       ELSE Aim(Top, a, "send")
    /\ downLayer' = IF Ends(a) THEN None ELSE downLayer
    /\ UNCHANGED <<app, focused, wanted, touched, disturbed>>

\* The rest of a gesture goes to the window that got the DOWN, or to nobody
\* once that window is removed; after a DOWN nobody got, to any channel.
MoveOrEnd(a) ==
    /\ step = "idle" /\ pointerDown
    /\ pointerDown' = ~Ends(a)
    /\ \/ /\ downLayer # None /\ Held(downLayer)
          /\ Aim(downLayer, a, "send")
       \/ /\ downLayer # None /\ ~Held(downLayer)
          /\ UNCHANGED <<step, action, hub, hasFocus, pinned>>
       \/ /\ downLayer = None
          /\ step' = "send" /\ action' = a /\ UNCHANGED <<hub, hasFocus, pinned>>
    /\ downLayer' = IF Ends(a) THEN None ELSE downLayer
    /\ UNCHANGED <<app, focused, wanted, touched, disturbed>>

\* send_pointer: into the selected channel; a closed one is given up.
Deliver ==
    /\ step \in {"send", "resend"}
    /\ IF Open(channel)
       THEN /\ touched' = [touched EXCEPT ![channel] = ~Ends(action) /\ (@ \/ action = "DOWN")]
            /\ step' = "idle" /\ UNCHANGED channel
       ELSE /\ channel' = None
            /\ step' = IF action = "DOWN" /\ step = "send" THEN "refresh" ELSE "idle"
            /\ UNCHANGED touched
    /\ UNCHANGED <<app, windowId, focused, action, wanted, gesture, hasFocus, pinned, disturbed>>

\* send_scroll_frame holds the stack's lock while it sends to the top window;
\* a closed channel is given up, as in Deliver.
Scroll ==
    /\ step = "idle" /\ windows # <<>>
    /\ hasFocus' = FocusMoves(Top) /\ windowId' = Top
    /\ channel' = IF Open(Top) THEN Top ELSE None
    /\ pinned' = FALSE
    /\ UNCHANGED <<app, focused, compositor, touched, disturbed>>

-----------------------------------------------------------------------------
(* Keyboard focus on the compositor thread.                                *)

KeyboardEnter ==
    /\ step = "idle" /\ ~wanted
    /\ Select(Top) /\ pinned' = FALSE
    /\ wanted' = TRUE /\ step' = "store"
    /\ UNCHANGED <<app, focused, action, gesture, touched, disturbed>>

KeyboardLeave ==
    /\ step = "idle" /\ wanted
    /\ wanted' = FALSE /\ step' = "store"
    /\ UNCHANGED <<app, hub, focused, action, gesture, hasFocus, touched, pinned, disturbed>>

\* set_focus stores the flag before it takes the channel's lock.
StoreFocus ==
    /\ step = "store"
    /\ focused' = wanted /\ step' = "report"
    /\ UNCHANGED <<app, hub, action, wanted, gesture, hasFocus, touched, pinned, disturbed>>

ReportFocus ==
    /\ step = "report"
    /\ hasFocus' = IF Open(channel) THEN [hasFocus EXCEPT ![channel] = wanted] ELSE hasFocus
    /\ step' = "idle"
    /\ UNCHANGED <<app, hub, focused, action, wanted, gesture, touched, pinned, disturbed>>

Next ==
    \/ \E w \in Windows :
          AddWindow(w) \/ CloseChannel(w) \/ RemoveWindow(w) \/ Refresh(w)
    \/ Press \/ RefreshForPress \/ PressAgain \/ Deliver \/ Scroll
    \/ \E a \in Actions \ {"DOWN"} : MoveOrEnd(a)
    \/ KeyboardEnter \/ KeyboardLeave \/ StoreFocus \/ ReportFocus

Spec == Init /\ [][Next]_vars

-----------------------------------------------------------------------------
(* Properties.                                                             *)

\* While the desktop's keyboard is on the app, the window whose channel is
\* selected knows that it has the focus: otherwise it discards every key.
FocusFollowsChannel ==
    focused /\ step # "report" /\ Open(channel) => hasFocus[channel]

\* Once the app's calls are done, the selected channel is the one of the top
\* window, or of the window that a gesture chose after the last call; it is
\* never that of a removed window.
ChannelIsCurrent ==
    (\A w \in Windows : life[w] \notin {"pushed", "removed"}) =>
        \/ windowId = Top
        \/ pinned /\ Held(windowId)

\* No window keeps a finger down after the gesture is over, although the app
\* opens and closes windows meanwhile; the exception is a switch of the
\* channel between the choice of the window and the send.
GesturesEnd ==
    step = "idle" /\ ~pointerDown /\ ~disturbed =>
        \A w \in Windows : Open(w) => ~touched[w]

\* A channel switch takes the focus from the old window: at any time at most
\* one of the app's windows believes that it has the focus.
OneWindowFocused ==
    \A v, w \in Windows : Open(v) /\ Open(w) /\ hasFocus[v] /\ hasFocus[w] => v = w
=============================================================================
