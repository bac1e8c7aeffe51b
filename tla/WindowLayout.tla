---------------------------- MODULE WindowLayout ----------------------------
(***************************************************************************)
(* How the app's windows learn the size of the desktop window              *)
(* (src/crates/arod/src/services/window_session.rs): the Wayland thread    *)
(* adopts a new size and sends every window a oneway resized; the app's UI *)
(* thread adds, lays out and removes windows, and is sent the frame of the *)
(* window that comes to the top.  Sizes are numbered in the order the      *)
(* desktop chose them; a frame is the size it was computed from.           *)
(***************************************************************************)
EXTENDS Naturals, SequencesExt

CONSTANTS
    AppWindows,
    Dialogs,       \* those that become child windows when a base window is there
    MaxResizes     \* bound: sizes the desktop chooses

ASSUME LayoutAssumption == Dialogs \subseteq AppWindows /\ MaxResizes \in Nat

VARIABLES
    size,          \* WindowHost::size
    host,          \* WindowHost::windows
    resizing,      \* the Wayland thread: idle, the size is set, or the sends left
    uiCall,        \* the UI thread: idle, or in the rest of a remove
    mail,          \* resized messages on their way to a window
    laidOut,       \* what a window was last laid out for
    added,
    told           \* history: the sizes a window was ever sent or answered

layoutVars == <<size, host, resizing, uiCall, mail, laidOut, added, told>>

Extents == 0..MaxResizes
Layout  == [frame : Extents, display : Extents]
NotYet  == [frame |-> 0, display |-> MaxResizes + 1]
Entry   == [win : AppWindows, child : BOOLEAN, frame : Extents]
Letter  == [to : AppWindows, layout : Layout]

LayoutTypeOK ==
    /\ size \in Extents
    /\ host \in Seq(Entry)
    /\ resizing \in [at : {"idle", "set"}, sends : {<<>>}] \cup [at : {"send"}, sends : Seq(Letter)]
    /\ uiCall \in [at : {"idle"}] \cup [at : {"top"}, entry : Entry] \cup [at : {"send"}, letter : Letter]
    /\ mail \in [AppWindows -> Seq(Layout)]
    /\ laidOut \in [AppWindows -> Layout \cup {NotYet}]
    /\ added \subseteq AppWindows
    /\ told \in [AppWindows -> SUBSET Extents]

Idle == [at |-> "idle"]

LayoutInit ==
    /\ size = 0 /\ host = <<>>
    /\ resizing = [at |-> "idle", sends |-> <<>>]
    /\ uiCall = Idle
    /\ mail = [w \in AppWindows |-> <<>>]
    /\ laidOut = [w \in AppWindows |-> NotYet]
    /\ added = {}
    /\ told = [w \in AppWindows |-> {}]

-----------------------------------------------------------------------------
(* The Wayland thread: resize.                                             *)

ResizeAdopt ==
    /\ resizing.at = "idle" /\ size < MaxResizes
    /\ size' = size + 1
    /\ resizing' = [at |-> "set", sends |-> <<>>]
    /\ UNCHANGED <<host, uiCall, mail, laidOut, added, told>>

\* A child window keeps its own frame, any other gets that of the display.
LetterTo(entry, display) ==
    [to |-> entry.win,
     layout |-> [frame |-> IF entry.child THEN entry.frame ELSE display, display |-> display]]

ResizeSnapshot ==
    /\ resizing.at = "set"
    /\ resizing' = [at |-> "send",
                    sends |-> [i \in DOMAIN host |-> LetterTo(host[i], size)]]
    /\ UNCHANGED <<size, host, uiCall, mail, laidOut, added, told>>

Send(letter) ==
    /\ mail' = [mail EXCEPT ![letter.to] = Append(@, letter.layout)]
    /\ told' = [told EXCEPT ![letter.to] = @ \cup {letter.layout.display}]

ResizeSend ==
    /\ resizing.at = "send"
    /\ IF resizing.sends = <<>>
       THEN /\ resizing' = [at |-> "idle", sends |-> <<>>]
            /\ UNCHANGED <<mail, told>>
       ELSE /\ Send(Head(resizing.sends))
            /\ resizing' = [resizing EXCEPT !.sends = Tail(@)]
    /\ UNCHANGED <<size, host, uiCall, laidOut, added>>

\* Mutant: the windows to tell are taken before the size is adopted.
ResizeAdoptLate ==
    \/ /\ resizing.at = "idle" /\ size < MaxResizes
       /\ resizing' = [at |-> "send",
                       sends |-> [i \in DOMAIN host |-> LetterTo(host[i], size + 1)]]
       /\ UNCHANGED <<size, host, uiCall, mail, laidOut, added, told>>
    \/ /\ resizing.at = "send" /\ resizing.sends = <<>>
       /\ size' = size + 1
       /\ resizing' = [at |-> "idle", sends |-> <<>>]
       /\ UNCHANGED <<host, uiCall, mail, laidOut, added, told>>
    \/ resizing.at = "send" /\ resizing.sends # <<>> /\ ResizeSend

Resizer == ResizeAdopt \/ ResizeSnapshot \/ ResizeSend

-----------------------------------------------------------------------------
(* The UI thread.                                                          *)

HasBase(w) == \E i \in DOMAIN host : ~host[i].child /\ host[i].win # w

EnterStack(w) ==
    /\ uiCall = Idle /\ w \notin added
    /\ added' = added \cup {w}
    /\ host' = Append(host, [win |-> w, child |-> w \in Dialogs /\ HasBase(w), frame |-> size])
    /\ UNCHANGED <<size, resizing, uiCall, mail, laidOut, told>>

\* With attributes the kind and the frame of the window are judged again, without
\* them the stored frame is the answer.
LayOut(w, attrs) ==
    /\ uiCall = Idle
    /\ \E i \in DOMAIN host :
          /\ host[i].win = w
          /\ LET entry == IF attrs THEN [win |-> w, child |-> w \in Dialogs /\ HasBase(w), frame |-> size]
                                   ELSE host[i]
             IN  /\ host' = [host EXCEPT ![i] = entry]
                 /\ laidOut' = [laidOut EXCEPT ![w] = [frame |-> entry.frame, display |-> size]]
    /\ told' = [told EXCEPT ![w] = @ \cup {size}]
    /\ UNCHANGED <<size, resizing, uiCall, mail, added>>

\* The message was posted to the UI thread; a dead window has no use for it.
HearResized(w) ==
    /\ uiCall = Idle /\ mail[w] # <<>>
    /\ mail' = [mail EXCEPT ![w] = Tail(@)]
    /\ laidOut' = [laidOut EXCEPT ![w] = Head(mail[w])]
    /\ UNCHANGED <<size, host, resizing, uiCall, added, told>>

LeaveStack(w) ==
    /\ uiCall = Idle
    /\ \E i \in DOMAIN host :
          /\ host[i].win = w
          /\ host' = RemoveAt(host, i)
          /\ uiCall' = IF Len(host) = 1 THEN Idle ELSE [at |-> "top", entry |-> Last(RemoveAt(host, i))]
    /\ UNCHANGED <<size, resizing, mail, laidOut, added, told>>

\* The rest of remove, out of the lock: the size is read, then sent to the top.
RemoveReadSize ==
    /\ uiCall.at = "top"
    /\ uiCall' = [at |-> "send", letter |-> LetterTo(uiCall.entry, size)]
    /\ UNCHANGED <<size, host, resizing, mail, laidOut, added, told>>

RemoveTellTop ==
    /\ uiCall.at = "send"
    /\ Send(uiCall.letter)
    /\ uiCall' = Idle
    /\ UNCHANGED <<size, host, resizing, laidOut, added>>

LayoutNext ==
    \/ Resizer
    \/ \E w \in AppWindows :
          \/ EnterStack(w) \/ HearResized(w) \/ LeaveStack(w)
          \/ \E attrs \in BOOLEAN : LayOut(w, attrs)
    \/ RemoveReadSize \/ RemoveTellTop

LayoutSpec == LayoutInit /\ [][LayoutNext]_layoutVars

-----------------------------------------------------------------------------
(* Properties.                                                             *)

InHost(w) == \E i \in DOMAIN host : host[i].win = w

\* A window that was ever laid out has been told of the newest size, or the
\* Wayland thread is about to tell it: also a window that was added, or laid out,
\* while the size changed.
EveryWindowIsTold ==
    \A w \in AppWindows :
        InHost(w) /\ laidOut[w] # NotYet =>
            \/ size \in told[w]
            \/ resizing.at = "set"
            \/ \E i \in DOMAIN resizing.sends : resizing.sends[i].to = w

\* window_session.rs:69 "adopt the physical size and tell every app window to
\* relayout at it": with nothing under way, every window is laid out at it.
LaidOutAtTheSize ==
    (resizing.at = "idle" /\ uiCall = Idle /\ \A w \in AppWindows : mail[w] = <<>>) =>
        \A w \in AppWindows :
            InHost(w) /\ laidOut[w] # NotYet => laidOut[w].display = size
=============================================================================
