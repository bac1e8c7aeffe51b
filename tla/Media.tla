-------------------------------- MODULE Media -------------------------------
(***************************************************************************)
(* The media and provider components, and the property area, side by side: *)
(* one behaviour is about one of them, its subject, and the others stay as *)
(* they started.                                                           *)
(***************************************************************************)
EXTENDS MediaPlayback, MediaRecorder, CalendarStore, SettingsStore, MediaIndex,
        PropertyArea

VARIABLE subject

vars == <<subject, playbackVars, recorderVars, calendarVars, settingsVars, mediaVars, areaVars>>

TheMediaStart == place = CHOOSE p \in Placements : TRUE
TheRootsStart == roots = CHOOSE r \in RootSets : TRUE

Init ==
    /\ subject \in {"player", "recorder", "calendar", "settings", "index", "properties"}
    /\ PlaybackInit /\ RecorderInit /\ CalendarInit /\ SettingsInit /\ MediaInit /\ AreaInit
    /\ subject # "index" => TheMediaStart /\ TheRootsStart

Next ==
    /\ UNCHANGED subject
    /\ \/ /\ subject = "player" /\ PlaybackNext
          /\ UNCHANGED <<recorderVars, calendarVars, settingsVars, mediaVars, areaVars>>
       \/ /\ subject = "recorder" /\ RecorderNext
          /\ UNCHANGED <<playbackVars, calendarVars, settingsVars, mediaVars, areaVars>>
       \/ /\ subject = "calendar" /\ CalendarNext
          /\ UNCHANGED <<playbackVars, recorderVars, settingsVars, mediaVars, areaVars>>
       \/ /\ subject = "settings" /\ SettingsNext
          /\ UNCHANGED <<playbackVars, recorderVars, calendarVars, mediaVars, areaVars>>
       \/ /\ subject = "index" /\ MediaNext
          /\ UNCHANGED <<playbackVars, recorderVars, calendarVars, settingsVars, areaVars>>
       \/ /\ subject = "properties" /\ AreaNext
          /\ UNCHANGED <<playbackVars, recorderVars, calendarVars, settingsVars, mediaVars>>

\* A call that was begun goes on, and so does each thread, which gets every lock it
\* waits for in the end.
Spec ==
    /\ Init /\ [][Next]_vars
    /\ WF_playbackVars(subject = "player" /\ CallStep)
    /\ \A p \in Plays : SF_playbackVars(subject = "player" /\ PlayThread(p))

\* The types of all of them: those that are not the subject stay as they started.
TypeOK ==
    CASE subject = "player"     -> PlaybackTypeOK
      [] subject = "recorder"   -> RecorderTypeOK
      [] subject = "calendar"   -> CalendarTypeOK
      [] subject = "settings"   -> SettingsTypeOK
      [] subject = "index"      -> MediaTypeOK
      [] subject = "properties" -> AreaTypeOK
=============================================================================
