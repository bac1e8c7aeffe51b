------------------------------- MODULE Desktop ------------------------------
(***************************************************************************)
(* What stands between the app and its desktop, side by side: the four     *)
(* parts of the display path, the app's task, and its alarms.  They share  *)
(* no state; a behaviour is of one of them, its subject, and the others    *)
(* stay as they started.                                                   *)
(***************************************************************************)
EXTENDS FrameBuffers, WindowComposition, VsyncDelivery, WindowLayout,
        ActivityTask, Alarms

VARIABLE subject

alarmAll  == <<alarmVars, intentVars>>
display   == <<frameVars, compositionVars, vsyncVars, layoutVars>>
appVars   == <<taskVars, alarmAll>>
parts     == <<display, appVars, subject>>

Init ==
    /\ subject \in {"buffers", "windows", "vsync", "layout", "task", "alarms"}
    /\ FrameInit /\ CompositionInit /\ VsyncInit /\ LayoutInit
    /\ TaskInit /\ IntentsInit /\ AlarmsInit

DisplayNext ==
    \/ subject = "buffers" /\ FrameNext /\ UNCHANGED <<compositionVars, vsyncVars, layoutVars>>
    \/ subject = "windows" /\ CompositionNext /\ UNCHANGED <<frameVars, vsyncVars, layoutVars>>
    \/ subject = "vsync" /\ VsyncNext /\ UNCHANGED <<frameVars, compositionVars, layoutVars>>
    \/ subject = "layout" /\ LayoutNext /\ UNCHANGED <<frameVars, compositionVars, vsyncVars>>

AppNext ==
    \/ subject = "task" /\ TaskNext /\ UNCHANGED alarmAll
    \/ subject = "alarms" /\ AlarmsNext /\ UNCHANGED taskVars

Next ==
    /\ UNCHANGED subject
    /\ \/ DisplayNext /\ UNCHANGED appVars
       \/ AppNext /\ UNCHANGED display

\* The presenter runs, and the desktop gives back what it no longer shows, so that not
\* every round finds all slots busy; the threads that send run, choosers end, and the
\* app goes on with what it is told; timers run out.
Spec ==
    /\ Init /\ [][Next]_parts
    /\ WF_compositionVars(subject = "windows" /\ Loop)
    /\ SF_compositionVars(subject = "windows" /\ PresentComposite)
    /\ WF_taskVars(subject = "task" /\ finishAttachApplication)
    /\ \A n \in Launches :
          /\ WF_taskVars(subject = "task" /\ Deliver(Message("launch", n)))
          /\ WF_taskVars(subject = "task" /\ Deliver(Message("destroy", n)))
          /\ WF_taskVars(subject = "task" /\ activityDestroyed(n))
    /\ \A d \in Choosers :
          /\ WF_taskVars(subject = "task" /\ ChooserEnds(d))
          /\ WF_taskVars(subject = "task" /\ Deliver(Message("result", d)))
    /\ \A n \in AlarmIds : WF_alarmAll(subject = "alarms" /\ (Due(n) \/ Fires(n)))

\* The types of all of them: those that are not the subject stay as they started.
TypeOK ==
    CASE subject = "buffers" -> FrameTypeOK
      [] subject = "windows" -> CompositionTypeOK
      [] subject = "vsync"   -> VsyncTypeOK
      [] subject = "layout"  -> LayoutTypeOK
      [] subject = "task"    -> TaskTypeOK
      [] subject = "alarms"  -> IntentsTypeOK /\ AlarmsTypeOK

\* What is due happens: what is closed or dismissed leaves the screen, who asked for a
\* document or was told to end is answered, and an alarm nobody removed fires.
DesktopProgresses == ClosedAndDismissedLeave /\ AppsAreAnswered /\ OthersFire
=============================================================================
