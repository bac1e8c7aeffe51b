------------------------- MODULE WindowComposition --------------------------
(***************************************************************************)
(* What the desktop window shows: the stack of the app's windows           *)
(* (src/crates/arod/src/services/window_session.rs), the tag by which the  *)
(* composer knows a window's buffers                                       *)
(* (src/crates/arod/src/services/surfaceflinger.rs), and the presenter's   *)
(* loop that makes the app's frames into one picture: a base window, an    *)
(* overlay of its popups and dialogs, and SurfaceViews below               *)
(* (src/crates/arod/src/compositor.rs).                                    *)
(*                                                                         *)
(* The loop takes the windows' lock again and again; Binder threads add,   *)
(* change and remove windows in between.  A picture is the frames it was   *)
(* made of; the memory they are in is FrameBuffers' subject.               *)
(***************************************************************************)
EXTENDS Naturals, SequencesExt, VecRetain

CONSTANTS
    Windows,
    TagOf,       \* the tag in the names of a window's surfaces and buffers
    Alike,       \* pairs of tags one of which contains the other
    Looks,       \* what frames look like: RGBA or opaque, of a SurfaceView, made by the GPU
    MaxPosts,    \* bound: frames posted
    Absent

ASSUME WindowAssumption ==
    /\ MaxPosts \in Nat
    /\ Looks \subseteq [clear : BOOLEAN, view : BOOLEAN, gpu : BOOLEAN]
    /\ Absent \notin Windows

VARIABLES
    stack,                       \* WindowHost::windows, the last on top
    opened,                      \* windows the app has ever added
    posts, inbox,                \* frames posted; those not yet taken
    at, taken, target,           \* the loop: its place, its frame, the child it may cover
    base, view, overlay,         \* base_canvas, surface_view_canvas, overlay
    active,                      \* active_base_layer_id
    due,                         \* needs_present
    screen                       \* what was committed last

sceneVars   == <<base, view, overlay, active, due, screen>>
loopVars    == <<at, taken, target>>
windowVars  == <<stack, opened>>
compositionVars == <<windowVars, posts, inbox, loopVars, sceneVars>>

Asks   == {"app", "dim", "panel"}    \* an activity, a dimming or application window, a panel
Sizes  == {"small", "full"}
Tags   == {TagOf[w] : w \in Windows}
Frame  == [win : Windows, n : 1..MaxPosts, child : BOOLEAN, size : Sizes, look : Looks]
Canvas == Frame \cup {Absent}
Window == [id : Windows, asks : Asks, child : BOOLEAN, size : Sizes,
           tag : Tags \cup {Absent}, canvas : Canvas]

CompositionTypeOK ==
    /\ stack \in Seq(Window) /\ opened \subseteq Windows
    /\ posts \in 0..MaxPosts /\ inbox \in Seq(Frame)
    /\ at \in {"drain", "match", "child", "present"}
    /\ taken \in Canvas /\ target \in BOOLEAN
    /\ base \in Canvas /\ view \in Canvas /\ overlay \in Canvas
    /\ active \in Windows \cup {Absent} /\ due \in BOOLEAN
    /\ screen \in [base : Canvas, view : Canvas, overlay : Canvas, direct : BOOLEAN]

CompositionInit ==
    /\ stack = <<>> /\ opened = {}
    /\ posts = 0 /\ inbox = <<>>
    /\ at = "drain" /\ taken = Absent /\ target = FALSE
    /\ base = Absent /\ view = Absent /\ overlay = Absent
    /\ active = Absent /\ due = FALSE
    /\ screen = [base |-> Absent, view |-> Absent, overlay |-> Absent, direct |-> FALSE]

Bases     == Retain(stack, {w \in ToSet(stack) : ~w.child})
HasChild  == \E i \in DOMAIN stack : stack[i].child
TopBase   == IF Bases = <<>> THEN Absent ELSE Last(Bases).id
Place(w)  == CHOOSE i \in DOMAIN stack : stack[i].id = w
InStack(w) == \E i \in DOMAIN stack : stack[i].id = w

-----------------------------------------------------------------------------
(* The window session, in Binder threads.                                  *)

\* A dialog needs a base window to lie over; a panel that is none is a popup.
IsChild(asks, hasBase) == asks = "panel" \/ (asks = "dim" /\ hasBase)

\* A popup has the size it asked for, any other window that of the host.
SizeOf(asks, hasBase, asked) == IF asks = "panel" THEN asked ELSE "full"

AddToDisplay(w) ==
    /\ w \notin opened
    /\ opened' = opened \cup {w}
    /\ \E asks \in Asks, size \in Sizes :
          /\ asks # "panel" => size = "full"
          /\ stack' = Append(stack,
                [id |-> w, asks |-> asks, child |-> IsChild(asks, Bases # <<>>),
                 size |-> SizeOf(asks, Bases # <<>>, size), tag |-> Absent, canvas |-> Absent])
    /\ UNCHANGED <<posts, inbox, loopVars, sceneVars>>

\* The kind of a window is judged again, against the other base windows.
Relayout(w) ==
    /\ InStack(w)
    /\ LET i == Place(w)
           others == \E j \in DOMAIN stack : j # i /\ ~stack[j].child
       IN  stack' = [stack EXCEPT ![i].child = IsChild(stack[i].asks, others),
                                  ![i].size  = SizeOf(stack[i].asks, others, @)]
    /\ stack' # stack
    /\ UNCHANGED <<opened, posts, inbox, loopVars, sceneVars>>

\* A surface of window w is made: the topmost window without a tag gets w's.
CreateSurface(w) ==
    /\ w \in opened
    /\ LET untagged == {i \in DOMAIN stack : stack[i].tag = Absent} IN
       /\ untagged # {}
       /\ stack' = [stack EXCEPT ![Max(untagged)].tag = TagOf[w]]
    /\ UNCHANGED <<opened, posts, inbox, loopVars, sceneVars>>

RemoveWindow(w) ==
    /\ InStack(w)
    /\ stack' = RemoveAt(stack, Place(w))
    /\ UNCHANGED <<opened, posts, inbox, loopVars, sceneVars>>

\* A window draws: its frame reaches the presenter's channel.
Post(w) ==
    /\ InStack(w) /\ posts < MaxPosts
    /\ posts' = posts + 1
    /\ \E look \in Looks :
          inbox' = Append(inbox,
             [win |-> w, n |-> posts + 1, child |-> stack[Place(w)].child,
              size |-> stack[Place(w)].size, look |-> look])
    /\ UNCHANGED <<windowVars, loopVars, sceneVars>>

-----------------------------------------------------------------------------
(* The loop of the presenter.                                              *)

\* Is there a child window that an RGBA frame of this size may be drawn for?
Covers(f) ==
    f.look.clear /\ \E i \in DOMAIN stack :
                  stack[i].child /\ (stack[i].size = "small" => f.size = "small")

TakeFrame ==
    /\ at = "drain" /\ inbox # <<>>
    /\ taken' = Head(inbox) /\ inbox' = Tail(inbox)
    /\ target' = Covers(Head(inbox))
    /\ at' = "match"
    /\ UNCHANGED <<windowVars, posts, sceneVars>>

Done == at' = "drain" /\ taken' = Absent /\ target' = FALSE

ShowOverlay ==
    /\ at = "match" /\ target
    /\ overlay' = taken /\ due' = TRUE
    /\ Done
    /\ UNCHANGED <<windowVars, posts, inbox, base, view, active, screen>>

\* The base window a frame belongs to: by its tag, by a tag that contains or is
\* contained in it, or because there is only one.
Matching(f) ==
    LET tag == TagOf[f.win]
        same == {i \in DOMAIN Bases : Bases[i].tag = tag}
        near == {i \in DOMAIN Bases : <<Bases[i].tag, tag>> \in Alike}
    IN  IF same # {} THEN Bases[Min(same)].id
        ELSE IF near # {} THEN Bases[Min(near)].id
        ELSE IF Len(Bases) = 1 THEN Bases[1].id ELSE Absent

\* A late frame of a child window that is gone.
Orphan(f) == Matching(f) = Absent /\ f.look.clear

DropOrphan ==
    /\ at = "match" /\ ~target /\ Orphan(taken)
    /\ Done
    /\ UNCHANGED <<windowVars, posts, inbox, sceneVars>>

OnTop(f) == Bases # <<>> /\ Matching(f) = TopBase

MayScanOut(f) == f.look.gpu /\ overlay = Absent /\ OnTop(f) /\ ~f.look.view

ScanOut ==
    /\ at = "match" /\ ~target /\ ~Orphan(taken) /\ MayScanOut(taken)
    /\ screen' = [base |-> taken, view |-> Absent, overlay |-> Absent, direct |-> TRUE]
    /\ Done
    /\ UNCHANGED <<windowVars, posts, inbox, base, view, overlay, active, due>>

\* The window's canvas is the frame; if the window is on top, the picture's too.
CopyFrame ==
    /\ at = "match" /\ ~target /\ ~Orphan(taken) /\ ~MayScanOut(taken)
    /\ stack' = IF Matching(taken) = Absent THEN stack
                ELSE [stack EXCEPT ![Place(Matching(taken))].canvas = taken]
    /\ IF OnTop(taken)
       THEN /\ IF taken.look.view THEN view' = taken /\ UNCHANGED base
                             ELSE base' = taken /\ UNCHANGED view
            /\ active' = TopBase /\ due' = TRUE
       ELSE UNCHANGED <<base, view, active, due>>
    /\ Done
    /\ UNCHANGED <<opened, posts, inbox, overlay, screen>>

\* Mutant: the canvas is restored but nothing is presented for it.
CheckTopQuietly ==
    /\ at = "drain" /\ inbox = <<>>
    /\ IF TopBase # active /\ Bases # <<>> /\ Last(Bases).canvas # Absent
       THEN base' = Last(Bases).canvas /\ view' = Absent /\ active' = TopBase
       ELSE UNCHANGED <<base, view, active>>
    /\ at' = "child"
    /\ UNCHANGED <<windowVars, posts, inbox, taken, target, overlay, due, screen>>

\* All frames are taken.  If the top base window changed, its canvas is restored,
\* provided it has one.
CheckTop ==
    /\ at = "drain" /\ inbox = <<>>
    /\ IF TopBase # active /\ Bases # <<>> /\ Last(Bases).canvas # Absent
       THEN /\ base' = Last(Bases).canvas /\ view' = Absent
            /\ active' = TopBase /\ due' = TRUE
       ELSE UNCHANGED <<base, view, active, due>>
    /\ at' = "child"
    /\ UNCHANGED <<windowVars, posts, inbox, taken, target, overlay, screen>>

\* Mutant: the overlay is dropped but nothing is presented for it.
CheckChildQuietly ==
    /\ at = "child"
    /\ overlay' = IF HasChild THEN overlay ELSE Absent
    /\ at' = "present"
    /\ UNCHANGED <<windowVars, posts, inbox, taken, target, base, view, active, due, screen>>

CheckChild ==
    /\ at = "child"
    /\ IF overlay # Absent /\ ~HasChild THEN overlay' = Absent /\ due' = TRUE
                                        ELSE UNCHANGED <<overlay, due>>
    /\ at' = "present"
    /\ UNCHANGED <<windowVars, posts, inbox, taken, target, base, view, active, screen>>

\* The picture is composed and committed, unless there is none yet.
PresentComposite ==
    /\ at = "present"
    /\ IF due /\ (base # Absent \/ view # Absent)
       THEN /\ screen' = [base |-> base, view |-> view, overlay |-> overlay, direct |-> FALSE]
            /\ due' = FALSE
       ELSE UNCHANGED <<screen, due>>
    /\ at' = "drain"
    /\ UNCHANGED <<windowVars, posts, inbox, taken, target, base, view, overlay, active>>

\* No slot of the pool is free: the picture waits for the next round.
AllSlotsBusy ==
    /\ at = "present" /\ due
    /\ at' = "drain"
    /\ UNCHANGED <<windowVars, posts, inbox, taken, target, sceneVars>>

Loop ==
    \/ TakeFrame \/ ShowOverlay \/ DropOrphan \/ ScanOut \/ CopyFrame
    \/ CheckTop \/ CheckChild \/ PresentComposite

CompositionNext ==
    \/ \E w \in Windows :
          AddToDisplay(w) \/ Relayout(w) \/ CreateSurface(w) \/ RemoveWindow(w) \/ Post(w)
    \/ Loop \/ AllSlotsBusy

CompositionSpec == CompositionInit /\ [][CompositionNext]_compositionVars

-----------------------------------------------------------------------------
(* Properties.                                                             *)

\* A popup or dialog that is gone leaves the screen, also when it was removed
\* between the choice of its window and the drawing of its frame: again and again
\* the picture has no overlay, or a window that it is of.
DismissedChildrenVanish == []<>(screen.overlay = Absent \/ HasChild)

\* compositor.rs:580 "dropping orphaned format 1 buffer": the late frame of a
\* popup or dialog that was dismissed is not the picture of the base window.
OrphansAreDropped == base # Absent => ~(base.child /\ base.look.clear)

TopHasCanvas == Bases # <<>> /\ Last(Bases).canvas # Absent

\* When the window whose picture was composed last is closed, the picture of the
\* window below it comes up, whatever frames and changes come in between.
ClosedWindowsLeave ==
    (active # Absent /\ ~InStack(active) /\ TopHasCanvas)
        ~> (\/ ~TopHasCanvas \/ screen.direct
            \/ Last(Bases).canvas \in {screen.base, screen.view})

\* What is closed or dismissed leaves the screen.
ClosedAndDismissedLeave == DismissedChildrenVanish /\ ClosedWindowsLeave

\* compositor.rs:706 "Check if top base window changed (e.g. after a window was
\* closed/removed)": once the loop is done with all frames and changes, the
\* composed picture is the canvas of the window on top.
TopCanvasIsShown ==
    (inbox = <<>> /\ taken = Absent /\ ~due /\ ~screen.direct
       /\ active # Absent /\ active = TopBase /\ TopHasCanvas)
    => Last(Bases).canvas \in {screen.base, screen.view}
=============================================================================
