--------------------------- MODULE ProvidersProofs --------------------------
(***************************************************************************)
(* Proofs about five services that keep something for the app: the player  *)
(* and the recorder their processes and the file that is written, the      *)
(* settings provider its map and settings.json, the calendar provider the  *)
(* copy of a session and calendar.json, the media provider its index of    *)
(* the user's files.  Each runs by itself, so each has a specification of  *)
(* its own here; at the end they are side by side with the property area,  *)
(* as in Media.                                                            *)
(***************************************************************************)
EXTENDS Media, PropertyAreaProofs

(***************************************************************************)
(* The player.                                                             *)
(***************************************************************************)

\* A call that starts a playback has room for one, and a playback that was made has a
\* number.
CallInv ==
    /\ call \in {"start", "spawn", "signalled"} => plays < MaxPlays
    /\ call = "run" => plays \in Plays

\* What a thread is about to store is the child it has started itself.
SpawnedInv == \A p \in Plays : thread[p] = "spawned" => own[p] \in Children /\ own[p].play = p

PlaybackInv == PlaybackTypeOK /\ CallInv /\ SpawnedInv /\ StopsAreFinal

\* No player plays yet.
LEMMA PlaybackInitially == PlaybackInit => PlaybackInv
<1> SUFFICES ASSUME PlaybackInit PROVE PlaybackInv
  OBVIOUS
<1>1. {playing, looping, socket, wanted} \subseteq BOOLEAN
  BY DEF PlaybackInit
<1>2. PlaybackTypeOK
  <2>1. plays \in 0..MaxPlays
    BY PlaybackAssumption DEF PlaybackInit
  <2>2. QED
    BY <1>1, <2>1 DEF PlaybackInit, PlaybackTypeOK
<1>3. CallInv /\ SpawnedInv /\ StopsAreFinal
  BY DEF PlaybackInit, CallInv, SpawnedInv, StopsAreFinal
<1>4. QED
  BY <1>2, <1>3 DEF PlaybackInv

\* Taking the slot keeps the types of the processes.
LEMMA KillTyped ==
    ASSUME running \subseteq Children, paused \subseteq running, NEW gone, Kill(gone)
    PROVE  running' \subseteq Children /\ paused' \subseteq running'
BY DEF Kill

\* What is signalled is a playback there has been.
LEMMA SignalTyped ==
    ASSUME plays \in 0..MaxPlays, MaxPlays \in Nat, stopped \subseteq Plays, SignalCurrent
    PROVE  stopped' \subseteq Plays /\ socket' = FALSE
<1>1. CASE plays = 0
  BY <1>1 DEF SignalCurrent
<1>2. CASE plays # 0
  BY <1>2 DEF SignalCurrent, Plays
<1>3. QED
  BY <1>1, <1>2

\* The calls.
LEMMA CallKeeps ==
    ASSUME PlaybackInv,
           \/ \E op \in {"start", "stop", "seek"} : Call(op)
           \/ SetLooping \/ Pause \/ CallStep
    PROVE  PlaybackInv'
<1>t. /\ PlaybackTypeOK /\ CallInv /\ SpawnedInv /\ StopsAreFinal
      /\ MaxPlays \in Nat \ {0} /\ plays \in Nat
  BY PlaybackAssumption DEF PlaybackInv, PlaybackTypeOK
<1> USE DEF PlaybackInv, PlaybackTypeOK, CallInv, SpawnedInv, StopsAreFinal, Plays,
            playerVars, threadVars, processVars
<1>1. ASSUME NEW op \in {"start", "stop", "seek"}, Call(op) PROVE PlaybackInv'
  <2>1. wanted' \in BOOLEAN
    <3>1. CASE op = "start"
      BY <1>1, <3>1 DEF Call
    <3>2. CASE op # "start"
      BY <1>t, <1>1, <3>2 DEF Call
    <3>3. QED
      BY <3>1, <3>2
  <2>2. {playing', looping', socket', wanted'} \subseteq BOOLEAN
    BY <1>t, <1>1, <2>1 DEF Call
  <2>3. PlaybackTypeOK'
    BY <1>t, <1>1, <2>2 DEF Call
  <2>4. CallInv' /\ SpawnedInv' /\ StopsAreFinal'
    BY <1>t, <1>1 DEF Call
  <2>5. QED
    BY <2>3, <2>4
<1>2. CASE SetLooping
  BY <1>t, <1>2 DEF SetLooping
<1>3. CASE Pause
  BY <1>t, <1>3 DEF Pause, Reachable
<1>4. CASE StartConnect
  BY <1>t, <1>4 DEF StartConnect, Reachable
<1>5. CASE SpawnSignal
  <2>1. stopped' \subseteq Plays /\ socket' = FALSE
    BY <1>t, <1>5, SignalTyped DEF SpawnSignal
  <2>2. QED
    BY <1>t, <1>5, <2>1 DEF SpawnSignal
<1>6. CASE SpawnTake
  <2>1. running' \subseteq Children /\ paused' \subseteq running' /\ slot' = NoChild
        /\ UNCHANGED <<listener, ended>>
    BY <1>t, <1>6, KillTyped DEF SpawnTake, TakeSlot, Kill
  <2>2. QED
    BY <1>t, <1>6, <2>1 DEF SpawnTake
<1>7. CASE SpawnRun
  BY <1>t, <1>7 DEF SpawnRun
<1>8. CASE StopSignal
  <2>1. stopped' \subseteq Plays /\ socket' = FALSE
    BY <1>t, <1>8, SignalTyped DEF StopSignal
  <2>2. listener' \in Children \cup {NoChild}
    BY <1>t, <1>8 DEF StopSignal
  <2>3. {playing', looping', socket', wanted'} \subseteq BOOLEAN
    BY <1>t, <1>8, <2>1 DEF StopSignal
  <2>4. PlaybackTypeOK'
    BY <1>t, <1>8, <2>1, <2>2, <2>3 DEF StopSignal
  <2>5. CallInv' /\ SpawnedInv' /\ StopsAreFinal'
    BY <1>t, <1>8 DEF StopSignal
  <2>6. QED
    BY <2>4, <2>5
<1>9. CASE StopTake
  <2>1. running' \subseteq Children /\ paused' \subseteq running' /\ slot' = NoChild
        /\ UNCHANGED <<listener, ended>>
    BY <1>t, <1>9, KillTyped DEF StopTake, TakeSlot, Kill
  <2>2. QED
    BY <1>t, <1>9, <2>1 DEF StopTake
<1>10. CASE SeekTo
  BY <1>t, <1>10 DEF SeekTo, Reachable
<1>11. QED
  BY <1>1, <1>2, <1>3, <1>4, <1>5, <1>6, <1>7, <1>8, <1>9, <1>10 DEF CallStep

\* The threads.
LEMMA ThreadKeeps ==
    ASSUME PlaybackInv, NEW p \in Plays, PlayThread(p)
    PROVE  PlaybackInv'
<1>t. /\ PlaybackTypeOK /\ CallInv /\ SpawnedInv /\ StopsAreFinal
      /\ MaxPlays \in Nat \ {0} /\ MaxRounds \in Nat \ {0}
      /\ plays \in Nat /\ p \in Nat
  BY PlaybackAssumption DEF PlaybackInv, PlaybackTypeOK, Plays
<1> USE DEF PlaybackInv, PlaybackTypeOK, CallInv, SpawnedInv, StopsAreFinal, Plays,
            playerVars, processVars, Goto, Leave
<1>1. CASE SpawnChild(p)
  <2>1. CASE Leave(p) /\ UNCHANGED <<own, running>>
    BY <1>t, <1>1, <2>1 DEF SpawnChild
  <2>2. CASE /\ ~ Round(p) > MaxRounds
             /\ Goto(p, "spawned")
             /\ own' = [own EXCEPT ![p] = [play |-> p, round |-> Round(p)]]
             /\ running' = running \cup {[play |-> p, round |-> Round(p)]}
    <3>1. Round(p) \in 1..MaxRounds
      BY <1>t, <2>2 DEF Round, Children
    <3>2. PICK c \in Children : c = [play |-> p, round |-> Round(p)]
      BY <3>1 DEF Children
    <3>3. c.play = p
      BY <3>2
    <3>4. QED
      BY <1>t, <1>1, <2>2, <3>2, <3>3 DEF SpawnChild
  <2>3. QED
    BY <1>1, <2>1, <2>2 DEF SpawnChild
<1>2. CASE StoreChild(p)
  <2>1. CASE p \in stopped
    <3>1. running' \subseteq Children /\ paused' \subseteq running' /\ UNCHANGED <<listener, ended>>
      BY <1>t, <1>2, <2>1, KillTyped DEF StoreChild, Kill
    <3>2. QED
      BY <1>t, <1>2, <2>1, <3>1 DEF StoreChild
  <2>2. CASE p \notin stopped
    BY <1>t, <1>2, <2>2 DEF StoreChild
  <2>3. QED
    BY <2>1, <2>2
<1>3. CASE Poll(p)
  BY <1>t, <1>3 DEF Poll
<1>4. CASE KillSlot(p)
  <2>1. running' \subseteq Children /\ paused' \subseteq running' /\ slot' = NoChild
        /\ UNCHANGED <<listener, ended>>
    BY <1>t, <1>4, KillTyped DEF KillSlot, TakeSlot, Kill
  <2>2. QED
    BY <1>t, <1>4, <2>1 DEF KillSlot
<1>5. CASE ForgetSlot(p)
  BY <1>t, <1>5 DEF ForgetSlot
<1>6. CASE Again(p)
  BY <1>t, <1>6 DEF Again
<1>7. CASE ClearPlaying(p)
  BY <1>t, <1>7 DEF ClearPlaying
<1>8. CASE RemoveSocket(p)
  BY ZenonT(60), <1>t, <1>8 DEF RemoveSocket, EndThread
<1>9. CASE ReportComplete(p)
  BY <1>t, <1>9 DEF ReportComplete, EndThread
<1>10. QED
  BY <1>1, <1>2, <1>3, <1>4, <1>5, <1>6, <1>7, <1>8, <1>9 DEF PlayThread

\* Every step of the players keeps the invariant.
LEMMA PlaybackStep ==
    ASSUME PlaybackInv, [PlaybackNext]_playbackVars
    PROVE  PlaybackInv'
<1> USE DEF PlaybackInv, PlaybackTypeOK, CallInv, SpawnedInv, StopsAreFinal,
            playerVars, threadVars
<1>1. ASSUME NEW c \in running, Listen(c) PROVE PlaybackInv'
  BY <1>1 DEF Listen
<1>2. ASSUME NEW c \in running, FileEnds(c) PROVE PlaybackInv'
  BY <1>2 DEF FileEnds
<1>3. CASE UNCHANGED playbackVars
  BY <1>3 DEF playbackVars, processVars
<1>4. QED
  BY <1>1, <1>2, <1>3, CallKeeps, ThreadKeeps DEF PlaybackNext

\* A stop is final for the slot: what a thread stores there is never of a playback that
\* was stopped before it looked, in any order of START, STOP and SEEK_TO with the threads
\* of any number of playbacks (media_player.rs, play_at and stop_current).
THEOREM StopsAreFinalAlways == PlaybackSpec => [](PlaybackTypeOK /\ StopsAreFinal)
<1>1. PlaybackInv => PlaybackTypeOK /\ StopsAreFinal
  BY DEF PlaybackInv
<1>2. QED
  BY <1>1, PlaybackInitially, PlaybackStep, PTL DEF PlaybackSpec

-----------------------------------------------------------------------------
(***************************************************************************)
(* The recorder.                                                           *)
(***************************************************************************)
RecorderSpec == RecorderInit /\ [][RecorderNext]_recorderVars

\* The file is the session's while there is one, the session is the last one tried, and
\* no later one has ended.
SessionInv ==
    /\ recorder.session # None => recorder.session = tried /\ recording.of = tried
    /\ \A n \in verdict : n <= tried

RecorderInv == RecorderTypeOK /\ SessionInv /\ RecordingsEndWell

\* Nothing records yet.
LEMMA RecorderInitially == RecorderInit => RecorderInv
BY RecorderAssumption
DEF RecorderInit, RecorderInv, RecorderTypeOK, SessionInv, RecordingsEndWell, StoppedWellIsWhole,
    NoRecordingIsLeftRunning, NoAnswer, None, Recordings

\* What a reap leaves: no process of the session, and a file that is whole when its
\* encoder ended well.
LEMMA ReapFacts ==
    ASSUME RecorderInv, NEW ends \in BOOLEAN, Reap(ends)
    PROVE  /\ captures' = {} /\ encoders' = {}
           /\ verdict' \subseteq Recordings /\ \A n \in verdict' : n <= tried
           /\ recording' \in [of : Recordings \cup {None}, whole : BOOLEAN]
           /\ ends => /\ recorder.session # None
                      /\ recording' = [of |-> recorder.session, whole |-> TRUE]
<1>1. /\ captures \subseteq {recorder.session} /\ encoders \subseteq {recorder.session}
      /\ recorder.session \in Recordings \cup {None} /\ None \notin Recordings
      /\ verdict \subseteq Recordings /\ encoders \subseteq Recordings
      /\ recording \in [of : Recordings \cup {None}, whole : BOOLEAN]
  BY DEF RecorderInv, RecorderTypeOK, RecordingsEndWell, NoRecordingIsLeftRunning, Recordings, None
<1>2. captures' = {} /\ encoders' = {}
  BY <1>1 DEF Reap
<1>3. ends => recorder.session \in Recordings
  BY <1>1 DEF Reap
<1>4. verdict' \subseteq Recordings /\ \A n \in verdict' : n <= tried
  BY <1>1, <1>3, RecorderAssumption DEF Reap, RecorderInv, RecorderTypeOK, SessionInv
<1>5. ends => recording' = [of |-> recorder.session, whole |-> TRUE]
  BY <1>1, <1>3 DEF Reap, RecorderInv, SessionInv
<1>6. recording' \in [of : Recordings \cup {None}, whole : BOOLEAN]
  BY <1>1, <1>3 DEF Reap
<1>7. QED
  BY <1>1, <1>2, <1>3, <1>4, <1>5, <1>6

\* Every step of the recorder keeps the invariant.
LEMMA RecorderStep ==
    ASSUME RecorderInv, [RecorderNext]_recorderVars
    PROVE  RecorderInv'
<1> USE DEF None
<1>t. /\ recorder \in [output : BOOLEAN, format : BOOLEAN, encoder : BOOLEAN,
                       prepared : BOOLEAN, session : Recordings \cup {None}]
      /\ tried \in 0..MaxRecordings
      /\ captures \subseteq Recordings /\ encoders \subseteq Recordings
      /\ verdict \subseteq Recordings \ encoders
      /\ recording \in [of : Recordings \cup {None}, whole : BOOLEAN]
      /\ answer \in [of : Recordings \cup {None}, ok : BOOLEAN]
      /\ NoAnswer \in [of : Recordings \cup {None}, ok : BOOLEAN] /\ ~NoAnswer.ok
      /\ MaxRecordings \in Nat /\ None \notin Recordings
      /\ SessionInv /\ StoppedWellIsWhole /\ NoRecordingIsLeftRunning
  BY RecorderAssumption DEF RecorderInv, RecorderTypeOK, NoAnswer, RecordingsEndWell, Recordings
<1>1. ASSUME NEW what \in {"output", "format", "encoder"}, Configure(what) PROVE RecorderInv'
  <2>1. /\ recorder' \in [output : BOOLEAN, format : BOOLEAN, encoder : BOOLEAN,
                          prepared : BOOLEAN, session : Recordings \cup {None}]
        /\ recorder'.session = recorder.session
    BY <1>t, <1>1 DEF Configure
  <2>2. QED
    BY <1>t, <1>1, <2>1 DEF Configure, RecorderInv, RecorderTypeOK, SessionInv, RecordingsEndWell,
                            StoppedWellIsWhole, NoRecordingIsLeftRunning
<1>2. CASE Prepare
  <2>1. /\ recorder' \in [output : BOOLEAN, format : BOOLEAN, encoder : BOOLEAN,
                          prepared : BOOLEAN, session : Recordings \cup {None}]
        /\ recorder'.session = recorder.session
    BY <1>t, <1>2 DEF Prepare
  <2>2. QED
    BY <1>t, <1>2, <2>1 DEF Prepare, RecorderInv, RecorderTypeOK, SessionInv, RecordingsEndWell,
                            StoppedWellIsWhole, NoRecordingIsLeftRunning
<1>3. CASE Start
  <2>1. /\ tried + 1 \in Recordings /\ tried' = tried + 1 /\ tried' \in 0..MaxRecordings
        /\ recorder.session = None /\ verdict' = verdict /\ captures = {} /\ encoders = {}
        /\ \A n \in verdict : n <= tried'
    BY <1>t, <1>3 DEF Start, MayStart, Recordings, NoRecordingIsLeftRunning, SessionInv
  <2>2. CASE /\ recorder' = [recorder EXCEPT !.session = tried + 1]
             /\ captures' = captures \cup {tried + 1} /\ encoders' = encoders \cup {tried + 1}
             /\ recording' = [of |-> tried + 1, whole |-> FALSE]
             /\ answer' = [of |-> tried + 1, ok |-> TRUE]
    <3>0. tried + 1 \notin verdict
      BY <1>t DEF SessionInv
    <3>1. /\ recorder' \in [output : BOOLEAN, format : BOOLEAN, encoder : BOOLEAN,
                            prepared : BOOLEAN, session : Recordings \cup {None}]
          /\ recorder'.session = tried + 1
      BY <1>t, <2>1, <2>2
    <3>2. QED
      BY <1>t, <2>1, <2>2, <3>0, <3>1 DEF RecorderInv, RecorderTypeOK, SessionInv, RecordingsEndWell,
                              StoppedWellIsWhole, NoRecordingIsLeftRunning
  <2>3. CASE /\ KillCapture(tried + 1)
             /\ UNCHANGED <<recorder, encoders>>
             /\ recording' = [of |-> None, whole |-> FALSE]
             /\ answer' = [of |-> tried + 1, ok |-> FALSE]
    BY <1>t, <2>1, <2>3 DEF KillCapture, RecorderInv, RecorderTypeOK, SessionInv, RecordingsEndWell,
                            StoppedWellIsWhole, NoRecordingIsLeftRunning
  <2>4. QED
    BY <1>3, <2>2, <2>3 DEF Start
<1>4. CASE Stop
  <2>1. PICK ends \in BOOLEAN :
          /\ Reap(ends)
          /\ answer' = [of |-> recorder.session,
                        ok |-> recorder.session # None /\ ExitedWell(recorder.session, ends)]
    BY <1>4 DEF Stop
  <2>2. /\ recorder' \in [output : BOOLEAN, format : BOOLEAN, encoder : BOOLEAN,
                          prepared : BOOLEAN, session : Recordings \cup {None}]
        /\ recorder'.session = None
    BY <1>t, <1>4 DEF Stop
  <2>3. answer' \in [of : Recordings \cup {None}, ok : BOOLEAN] /\ (answer'.ok => ends)
        /\ answer'.of = recorder.session
    BY <1>t, <2>1 DEF ExitedWell
  <2>4. QED
    BY <1>t, <1>4, <2>1, <2>2, <2>3, ReapFacts
    DEF Stop, RecorderInv, RecorderTypeOK, SessionInv, RecordingsEndWell,
        StoppedWellIsWhole, NoRecordingIsLeftRunning
<1>5. CASE Release
  <2>1. PICK ends \in BOOLEAN : Reap(ends)
    BY <1>5 DEF Release
  <2>2. /\ recorder' \in [output : BOOLEAN, format : BOOLEAN, encoder : BOOLEAN,
                          prepared : BOOLEAN, session : Recordings \cup {None}]
        /\ recorder'.session = None
    BY <1>t, <1>5 DEF Release
  <2>3. QED
    BY <1>t, <1>5, <2>1, <2>2, ReapFacts
    DEF Release, RecorderInv, RecorderTypeOK, SessionInv, RecordingsEndWell,
        StoppedWellIsWhole, NoRecordingIsLeftRunning
<1>6. ASSUME NEW n \in Recordings, CaptureEnds(n) PROVE RecorderInv'
  BY <1>t, <1>6 DEF CaptureEnds, RecorderInv, RecorderTypeOK, SessionInv, RecordingsEndWell,
                    StoppedWellIsWhole, NoRecordingIsLeftRunning
<1>7. ASSUME NEW n \in Recordings, EncoderEnds(n) PROVE RecorderInv'
  <2>1. recorder.session = n /\ recorder' = recorder /\ n # None
    BY <1>t, <1>7 DEF EncoderEnds, NoRecordingIsLeftRunning
  <2>2. recording' \in [of : Recordings \cup {None}, whole : BOOLEAN] /\ recording'.of = recording.of
    BY <1>t, <1>7 DEF EncoderEnds
  <2>3. QED
    BY <1>t, <1>7, <2>1, <2>2 DEF EncoderEnds, RecorderInv, RecorderTypeOK, SessionInv, RecordingsEndWell,
                    StoppedWellIsWhole, NoRecordingIsLeftRunning
<1>8. CASE UNCHANGED recorderVars
  BY <1>t, <1>8 DEF recorderVars, RecorderInv, RecorderTypeOK, SessionInv, RecordingsEndWell,
                    StoppedWellIsWhole, NoRecordingIsLeftRunning
<1>9. QED
  BY <1>1, <1>2, <1>3, <1>4, <1>5, <1>6, <1>7, <1>8 DEF RecorderNext

\* A stop that answers 0 leaves a file its encoder wrote to the end, and no process of a
\* session outlives it: stop, release and the failures between the two starts of
\* media_recorder.rs, whatever the two processes do by themselves.
THEOREM RecordingsEndWellAlways == RecorderSpec => [](RecorderTypeOK /\ RecordingsEndWell)
<1>1. RecorderInv => RecorderTypeOK /\ RecordingsEndWell
  BY DEF RecorderInv
<1>2. QED
  BY <1>1, RecorderInitially, RecorderStep, PTL DEF RecorderSpec

-----------------------------------------------------------------------------
(***************************************************************************)
(* The settings.                                                           *)
(***************************************************************************)
SettingsSpec == SettingsInit /\ [][SettingsNext]_settingsVars

\* A map has every value that was answered for.
Has(map, answered) == \A k \in Keys : answered[k] # NoValue => map[k] = answered[k]

\* The map of a running process has what the app was told, and the file what it had been
\* told when it was written; a process that is starting answers nobody; and what is being
\* written is the map as it is, which nobody changes meanwhile.
KeptInv ==
    /\ boot # "down" => Has(settings, last)
    /\ json \in Maps => Has(json, saved)
    /\ boot # "up" => \A c \in Clients : client[c].at = "idle"
    /\ \A c \in Clients : client[c].at = "write" => image[c] = settings

SettingsInv == SettingsTypeOK /\ KeptInv

\* A write keeps the types of the file.
LEMMA MapWrittenTyped ==
    ASSUME NEW map \in Maps, NEW history \in Maps, MapWritten(map, history),
           json \in Maps \cup {HalfFile, NoValue}, saved \in Maps
    PROVE  json' \in Maps \cup {HalfFile, NoValue} /\ saved' \in Maps
<1>1. Nothing \in Maps
  BY DEF Nothing, Maps
<1>2. QED
  BY <1>1 DEF MapWritten

\* A write of a map that has all leaves a file that has what is claimed of it.
LEMMA MapWrittenHas ==
    ASSUME NEW map, NEW history, MapWritten(map, history), Has(map, history),
           json \in Maps => Has(json, saved)
    PROVE  json' \in Maps => Has(json', saved')
<1>1. \A m : Has(m, Nothing)
  BY DEF Has, Nothing
<1>2. QED
  BY <1>1 DEF MapWritten, Has

\* What a client was told, once it is answered, is what the map has.
LEMMA AnsweredFacts ==
    ASSUME SettingsTypeOK, NEW c \in Clients, Answered(c)
    PROVE  /\ last' = LastAfter(c) /\ LastAfter(c) \in Maps
           /\ \A k \in Keys : LastAfter(c)[k] = last[k] \/ LastAfter(c)[k] = settings[k]
           /\ client' \in [Clients -> [at : {"idle", "put", "write"}, key : Keys \cup {NoValue}]]
           /\ image' \in [Clients -> Maps \cup {NoValue}]
           /\ client'[c].at = "idle"
           /\ \A d \in Clients : d # c => client'[d] = client[d] /\ image'[d] = image[d]
<1>1. /\ settings \in Maps /\ last \in Maps /\ image \in [Clients -> Maps \cup {NoValue}]
      /\ client \in [Clients -> [at : {"idle", "put", "write"}, key : Keys \cup {NoValue}]]
  BY DEF SettingsTypeOK
<1>2. PICK k : k = client[c].key
  OBVIOUS
<1>3. LastAfter(c) = last \/ LastAfter(c) = [last EXCEPT ![k] = settings[k]]
  BY <1>2 DEF LastAfter
<1>4. PICK l : l = [last EXCEPT ![k] = settings[k]]
  OBVIOUS
<1>5. k \in Keys => settings[k] \in Values \cup {NoValue}
  BY <1>1 DEF Maps
<1>6. l \in Maps /\ \A m \in Keys : l[m] = last[m] \/ l[m] = settings[m]
  BY <1>1, <1>4, <1>5 DEF Maps
<1>7. NoClient \in [at : {"idle", "put", "write"}, key : Keys \cup {NoValue}]
      /\ NoClient.at = "idle"
  BY DEF NoClient
<1>8. /\ last' = LastAfter(c) /\ client' = [client EXCEPT ![c] = NoClient]
      /\ image' = [image EXCEPT ![c] = NoValue]
  BY DEF Answered
<1>9. QED
  BY <1>1, <1>3, <1>4, <1>6, <1>7, <1>8

\* Every step keeps the types of the settings provider.
LEMMA SettingsTypes ==
    ASSUME SettingsTypeOK, [SettingsNext]_settingsVars
    PROVE  SettingsTypeOK'
<1> DEFINE States == [at : {"idle", "put", "write"}, key : Keys \cup {NoValue}]
<1>t. /\ with_defaults \in Maps /\ NoClient \in States /\ Nothing \in Maps
      /\ settings \in Maps /\ last \in Maps /\ saved \in Maps
      /\ image \in [Clients -> Maps \cup {NoValue}]
      /\ client \in [Clients -> States] /\ boots \in 0..MaxBoots
      /\ json \in Maps \cup {HalfFile, NoValue}
      /\ boot \in {"down", "loaded", "saving", "up"}
  BY SettingsAssumption DEF SettingsTypeOK, with_defaults, NoClient, Nothing, Maps
<1>1. CASE SettingsLoad
  <2>1. json \in Maps => Merged(json) \in Maps
    BY <1>t DEF Merged, Maps
  <2>2. settings' \in Maps /\ last' \in Maps
    BY <1>t, <1>1, <2>1 DEF SettingsLoad
  <2>3. boots' \in 0..MaxBoots
    BY <1>t, <1>1, SettingsAssumption DEF SettingsLoad
  <2>4. QED
    BY <1>t, <1>1, <2>2, <2>3 DEF SettingsLoad, SettingsTypeOK
<1>2. CASE SettingsSave
  <2>1. json' \in Maps \cup {HalfFile, NoValue} /\ saved' \in Maps
    BY <1>t, <1>2, MapWrittenTyped DEF SettingsSave, Opened
  <2>2. QED
    BY <1>t, <1>2, <2>1 DEF SettingsSave, SettingsTypeOK
<1>3. CASE SettingsExit
  BY <1>t, <1>3 DEF SettingsExit, SettingsTypeOK
<1>4. CASE OtherSession
  BY <1>t, <1>4 DEF OtherSession, SettingsTypeOK
<1>5. ASSUME NEW c \in Clients, persist(c) PROVE SettingsTypeOK'
  <2>1. UNCHANGED <<boot, boots, settings>>
    BY <1>5 DEF persist
  <2>2. CASE /\ client' = [client EXCEPT ![c].at = "write"]
             /\ image' = [image EXCEPT ![c] = settings]
             /\ Opened /\ UNCHANGED last
    <3>1. [client[c] EXCEPT !.at = "write"] \in States
      BY <1>t
    <3>2. client' \in [Clients -> States] /\ image' \in [Clients -> Maps \cup {NoValue}]
      BY <1>t, <2>2, <3>1
    <3>3. QED
      BY <1>t, <2>1, <2>2, <3>2 DEF Opened, SettingsTypeOK
  <2>3. CASE /\ client[c].at = "write" /\ Answered(c) /\ image[c] \in Maps
             /\ MapWritten(image[c], LastAfter(c))
    <3>1. json' \in Maps \cup {HalfFile, NoValue} /\ saved' \in Maps
      BY <1>t, <2>3, AnsweredFacts, MapWrittenTyped
    <3>2. QED
      BY <1>t, <2>1, <2>3, <3>1, AnsweredFacts DEF SettingsTypeOK
  <2>4. CASE client[c].at = "write" /\ Answered(c) /\ MapWritten(NoValue, LastAfter(c))
    <3>1. json' \in Maps \cup {HalfFile, NoValue} /\ saved' \in Maps
      BY <1>t, <2>4, AnsweredFacts DEF MapWritten
    <3>2. QED
      BY <1>t, <2>1, <2>4, <3>1, AnsweredFacts DEF SettingsTypeOK
  <2>5. CASE Answered(c) /\ UNCHANGED <<json, saved>>
    BY <1>t, <2>1, <2>5, AnsweredFacts DEF SettingsTypeOK
  <2>6. image[c] \in Maps \/ image[c] = NoValue
    BY <1>t
  <2>7. QED
    BY <1>5, <2>2, <2>3, <2>4, <2>5, <2>6 DEF persist
<1>6. ASSUME NEW c \in Clients, NEW key \in Keys, NEW value \in Values, put(c, key, value)
      PROVE  SettingsTypeOK'
  <2>1. settings' \in Maps /\ last' \in Maps
    BY <1>t, <1>6 DEF put, Maps
  <2>2. client' \in [Clients -> States]
    BY <1>t, <1>6 DEF put
  <2>3. QED
    BY <1>t, <1>6, <2>1, <2>2 DEF put, SettingsTypeOK
<1>7. CASE UNCHANGED settingsVars
  BY <1>t, <1>7 DEF settingsVars, SettingsTypeOK
<1>8. QED
  BY <1>1, <1>2, <1>3, <1>4, <1>5, <1>6, <1>7 DEF SettingsNext

\* Every step keeps what was answered for.
LEMMA SettingsKept ==
    ASSUME SettingsInv, [SettingsNext]_settingsVars
    PROVE  KeptInv'
<1>t. /\ settings \in Maps /\ last \in Maps /\ saved \in Maps
      /\ image \in [Clients -> Maps \cup {NoValue}]
      /\ client \in [Clients -> [at : {"idle", "put", "write"}, key : Keys \cup {NoValue}]]
      /\ json \in Maps \cup {HalfFile, NoValue} /\ SettingsTypeOK
      /\ KeptInv
  BY DEF SettingsInv, SettingsTypeOK
<1>n. \A m : Has(m, Nothing)
  BY DEF Has, Nothing
<1>1. CASE SettingsLoad
  <2>1. /\ boot = "down" /\ boot' = "loaded" /\ UNCHANGED <<json, client, image, saved>>
        /\ \A c \in Clients : client[c].at = "idle"
    BY <1>t, <1>1 DEF SettingsLoad, KeptInv
  <2>2. CASE last' = Nothing
    <3>1. Has(settings', last')
      BY <1>n, <2>2
    <3>2. QED
      BY <1>t, <2>1, <3>1 DEF KeptInv, Has
  <2>3. CASE json \in Maps /\ settings' = Merged(json) /\ last' = saved
    <3>1. \A k \in Keys : saved[k] # NoValue => json[k] = saved[k]
      BY <1>t, <2>3 DEF KeptInv, Has
    <3>2. \A k \in Keys : saved[k] # NoValue => Merged(json)[k] = saved[k]
      BY <3>1 DEF Merged
    <3>3. QED
      BY <1>t, <2>1, <2>3, <3>2 DEF KeptInv, Has
  <2>4. QED
    BY <1>1, <2>2, <2>3 DEF SettingsLoad
<1>2. CASE SettingsSave
  <2>1. UNCHANGED <<settings, client, image, last>> /\ boot # "down" /\ boot' # "down" /\ boot # "up"
    BY <1>2 DEF SettingsSave
  <2>2. Has(settings, last)
    BY <1>t, <2>1 DEF KeptInv
  <2>3. json' \in Maps => Has(json', saved')
    <3>1. CASE Opened
      BY <1>n, <3>1 DEF Opened
    <3>2. CASE MapWritten(settings, last)
      BY <1>t, <2>2, <3>2, MapWrittenHas DEF KeptInv
    <3>3. CASE UNCHANGED <<json, saved>>
      BY <1>t, <3>3 DEF KeptInv, Has
    <3>4. QED
      BY <1>2, <3>1, <3>2, <3>3 DEF SettingsSave
  <2>4. QED
    BY <1>t, <2>1, <2>2, <2>3 DEF KeptInv, Has
<1>3. CASE SettingsExit
  BY <1>t, <1>3 DEF SettingsExit, KeptInv, Has, NoClient
<1>4. CASE OtherSession
  <2>1. Has(json', saved')
    BY <1>n, <1>4 DEF OtherSession
  <2>2. QED
    BY <1>t, <1>4, <2>1 DEF OtherSession, KeptInv, Has
<1>5. ASSUME NEW c \in Clients, persist(c) PROVE KeptInv'
  <2>0. UNCHANGED <<boot, boots, settings>> /\ client[c].at \in {"put", "write"}
    BY <1>5 DEF persist
  <2>1. boot = "up" /\ Has(settings, last)
    BY <1>t, <2>0 DEF KeptInv
  <2>2. CASE /\ client[c].at = "put" /\ SettingsFree
             /\ client' = [client EXCEPT ![c].at = "write"]
             /\ image' = [image EXCEPT ![c] = settings]
             /\ Opened /\ UNCHANGED last
    <3>1. \A d \in Clients : client'[d].at = "write" => image'[d] = settings
      BY <1>t, <2>2 DEF SettingsFree
    <3>2. Has(json', saved')
      BY <1>n, <2>2 DEF Opened
    <3>3. QED
      BY <2>0, <2>1, <2>2, <3>1, <3>2 DEF KeptInv, Has
  <2>3. CASE Answered(c) /\ (\/ client[c].at = "write" /\ MapWritten(image[c], LastAfter(c))
                             \/ UNCHANGED <<json, saved>>)
    <3>1. Has(settings, LastAfter(c)) /\ last' = LastAfter(c)
      BY <1>t, <2>1, <2>3, AnsweredFacts DEF Has
    <3>2. \A d \in Clients : client'[d].at = "write" => image'[d] = settings
      BY <1>t, <2>3, AnsweredFacts DEF KeptInv
    <3>3. json' \in Maps => Has(json', saved')
      <4>1. CASE client[c].at = "write" /\ MapWritten(image[c], LastAfter(c))
        <5>1. image[c] = settings
          BY <1>t, <4>1 DEF KeptInv
        <5>2. QED
          BY <1>t, <3>1, <4>1, <5>1, MapWrittenHas DEF KeptInv
      <4>2. CASE UNCHANGED <<json, saved>>
        BY <1>t, <4>2 DEF KeptInv, Has
      <4>3. QED
        BY <2>3, <4>1, <4>2
    <3>4. Has(settings', last')
      BY <2>0, <3>1
    <3>5. QED
      BY <2>0, <2>1, <3>2, <3>3, <3>4 DEF KeptInv, Has
  <2>4. QED
    BY <1>5, <2>2, <2>3 DEF persist
<1>6. ASSUME NEW c \in Clients, NEW key \in Keys, NEW value \in Values, put(c, key, value)
      PROVE  KeptInv'
  <2>1. /\ \A k \in Keys : k # key => settings'[k] = settings[k] /\ last'[k] = last[k]
        /\ last'[key] = NoValue /\ boot = "up" /\ UNCHANGED <<boot, json, image, saved>>
    BY <1>t, <1>6 DEF put, Maps
  <2>2. \A d \in Clients : client'[d].at # "write"
    BY <1>t, <1>6 DEF put, SettingsFree
  <2>3. QED
    BY <1>t, <2>1, <2>2 DEF KeptInv, Has
<1>7. CASE UNCHANGED settingsVars
  BY <1>t, <1>7 DEF settingsVars, KeptInv, Has
<1>8. QED
  BY <1>1, <1>2, <1>3, <1>4, <1>5, <1>6, <1>7 DEF SettingsNext

\* A first start, with the defaults.
LEMMA SettingsInitially == SettingsInit => SettingsInv
<1>1. SUFFICES ASSUME SettingsInit PROVE SettingsInv
  OBVIOUS
<1>2. with_defaults \in Maps /\ Nothing \in Maps
  BY SettingsAssumption DEF with_defaults, Nothing, Maps
<1>3. SettingsTypeOK
  BY <1>1, <1>2, SettingsAssumption DEF SettingsInit, SettingsTypeOK, NoClient
<1>4. KeptInv
  BY <1>1 DEF SettingsInit, KeptInv, Has, NoClient, Nothing
<1>5. QED
  BY <1>3, <1>4 DEF SettingsInv

\* What the app put, and was answered for, is what GET says, in this session and, as far
\* as it was written whole, in the next: put and persist of settings.rs on any number of
\* threads, writes that fail, whatever other sessions write, the merge of the defaults,
\* and exits between any two steps.
THEOREM PutSettingsStayAlways == SettingsSpec => [](SettingsTypeOK /\ PutSettingsStay)
<1>1. SettingsInit => SettingsInv
  BY SettingsInitially
<1>2. SettingsInv /\ [SettingsNext]_settingsVars => SettingsInv'
  BY SettingsTypes, SettingsKept DEF SettingsInv
<1>3. SettingsInv => SettingsTypeOK /\ PutSettingsStay
  BY DEF SettingsInv, KeptInv, Has, PutSettingsStay, get
<1>4. QED
  BY <1>1, <1>2, <1>3, PTL DEF SettingsSpec

-----------------------------------------------------------------------------
(***************************************************************************)
(* The calendar, of any number of sessions and threads.                    *)
(***************************************************************************)
CalendarSpec == CalendarInit /\ [][CalendarNext]_calendarVars

(* The calendar, 1: what the operations make of the data.                  *)

\* A calendar of events that are numbered up to n, under ids that were given out.
IsData(d, n) ==
    /\ d = [events |-> d.events, reminders |-> d.reminders,
            next_event_id |-> d.next_event_id, next_reminder_id |-> d.next_reminder_id]
    /\ d.events = [i \in DOMAIN d.events |-> d.events[i]]
    /\ d.next_event_id \in Nat /\ d.next_event_id > 2
    /\ \A i \in DOMAIN d.events :
          /\ i \in Nat /\ i > 0 /\ i < d.next_event_id
          /\ d.events[i] \in [span : Spans, entry : 0..n]

\* The data of a first start: two events that arod made, numbered 1 and 2.
LEMMA SampleFacts ==
    /\ Sample \in [span : Spans, entry : {0}] /\ Sample.entry = 0
    /\ DOMAIN default_data.events = {1, 2}
    /\ \A i \in {1, 2} : default_data.events[i] = Sample
    /\ default_data.next_event_id = 3
<1>1. (CHOOSE x \in Spans : x.start < x.end) \in Spans
  BY CalendarAssumption
<1>2. QED
  BY <1>1 DEF Sample, Event, default_data

\* How a calendar is recognised.
LEMMA DataIs ==
    ASSUME NEW e, NEW n, NEW ev, NEW next, e.events = ev, e.next_event_id = next,
           e = [events |-> e.events, reminders |-> e.reminders,
                next_event_id |-> e.next_event_id, next_reminder_id |-> e.next_reminder_id],
           ev = [i \in DOMAIN ev |-> ev[i]], next \in Nat, next > 2,
           \A i \in DOMAIN ev : /\ i \in Nat /\ i > 0 /\ i < next
                                /\ ev[i] \in [span : Spans, entry : 0..n]
    PROVE  IsData(e, n)
BY DEF IsData

\* The calendar a session starts with when it finds none.
LEMMA DefaultFacts ==
    ASSUME NEW n \in Nat
    PROVE  IsData(default_data, n)
<1>1. \A i \in {1, 2} : default_data.events[i] \in [span : Spans, entry : 0..n]
  BY SampleFacts
<1>2. default_data.events = [i \in DOMAIN default_data.events |-> default_data.events[i]]
  BY DEF default_data
<1>3. default_data = [events |-> default_data.events, reminders |-> default_data.reminders,
          next_event_id |-> default_data.next_event_id,
          next_reminder_id |-> default_data.next_reminder_id]
  BY DEF default_data
<1>4. QED
  BY <1>1, <1>2, <1>3, SampleFacts DEF IsData

\* A calendar without events that gets the samples (back).
LEMMA RefillFacts ==
    ASSUME NEW d, NEW n \in Nat, IsData(d, n), DOMAIN d.events = {},
           NEW e, e = [d EXCEPT !.events = default_data.events]
    PROVE  /\ IsData(e, n) /\ e.events = default_data.events
           /\ e.reminders = d.reminders /\ e.next_reminder_id = d.next_reminder_id
           /\ e.next_event_id = d.next_event_id
<1>2. /\ e = [events |-> default_data.events, reminders |-> d.reminders,
              next_event_id |-> d.next_event_id, next_reminder_id |-> d.next_reminder_id]
  BY DEF IsData
<1>3. /\ e.events = default_data.events /\ e.next_event_id = d.next_event_id
      /\ e.reminders = d.reminders /\ e.next_reminder_id = d.next_reminder_id
      /\ e = [events |-> e.events, reminders |-> e.reminders,
              next_event_id |-> e.next_event_id, next_reminder_id |-> e.next_reminder_id]
  BY <1>2
<1>4. \A i \in DOMAIN e.events : i \in {1, 2} /\ e.events[i] \in [span : Spans, entry : 0..n]
                                 /\ e.events[i].entry = 0
  BY <1>3, SampleFacts
<1>5. e.events = [i \in DOMAIN e.events |-> e.events[i]]
  BY <1>3 DEF default_data
<1>6. IsData(e, n)
  BY <1>3, <1>4, <1>5 DEF IsData
<1>7. QED
  BY <1>3, <1>6

\* e has one event more, of the number n, under the next id.
Grown(d, e, n) ==
    /\ e.next_event_id = d.next_event_id + 1
    /\ DOMAIN e.events = DOMAIN d.events \cup {d.next_event_id}
    /\ e.events[d.next_event_id].entry = n
    /\ \A i \in DOMAIN d.events : e.events[i] = d.events[i]

\* A calendar after an insert.
LEMMA InsertFacts ==
    ASSUME NEW d, NEW n \in Nat, IsData(d, n), NEW span \in Spans,
           NEW ev, ev = [i \in DOMAIN d.events \cup {d.next_event_id} |->
                           IF i = d.next_event_id THEN Event(span, n + 1) ELSE d.events[i]],
           NEW e, e = [events |-> ev, reminders |-> d.reminders,
                       next_event_id |-> d.next_event_id + 1,
                       next_reminder_id |-> d.next_reminder_id]
    PROVE  IsData(e, n + 1) /\ Grown(d, e, n + 1)
<1> DEFINE id == d.next_event_id
<1>2. id \in Nat /\ id > 2 /\ id \notin DOMAIN d.events
  BY DEF IsData
<1>4. /\ DOMAIN ev = {id} \cup DOMAIN d.events /\ ev[id] = Event(span, n + 1)
      /\ \A i \in DOMAIN d.events : ev[i] = d.events[i]
  BY <1>2
<1>5. ev = [i \in DOMAIN ev |-> ev[i]]
  OBVIOUS
<1>6. Event(span, n + 1) \in [span : Spans, entry : 0..n + 1] /\ Event(span, n + 1).entry = n + 1
  BY DEF Event
<1>7. \A i \in DOMAIN d.events : /\ i \in Nat /\ i > 0 /\ i < id
                                 /\ d.events[i] \in [span : Spans, entry : 0..n]
  BY DEF IsData
<1>8. e.events = ev /\ e.next_event_id = id + 1
  OBVIOUS
<1>9. IsData(e, n + 1)
  <2>1. \A i \in DOMAIN ev : /\ i \in Nat /\ i > 0 /\ i < id + 1
                             /\ ev[i] \in [span : Spans, entry : 0..n + 1]
    BY <1>2, <1>4, <1>6, <1>7
  <2>2. e = [events |-> e.events, reminders |-> e.reminders,
             next_event_id |-> e.next_event_id, next_reminder_id |-> e.next_reminder_id]
    OBVIOUS
  <2>3. e.next_event_id \in Nat /\ e.next_event_id > 2
    BY <1>2, <1>8
  <2>4. e.events = [i \in DOMAIN e.events |-> e.events[i]]
    BY <1>5, <1>8
  <2>5. QED
    BY <1>8, <2>1, <2>2, <2>3, <2>4 DEF IsData
<1>10. Grown(d, e, n + 1)
  BY <1>4, <1>6, <1>8 DEF Grown
<1>11. QED
  BY <1>9, <1>10

\* A calendar of n events is one of more.
LEMMA DataGrows ==
    ASSUME NEW d, NEW n \in Nat, IsData(d, n)
    PROVE  IsData(d, n + 1)
<1>1. \A i \in DOMAIN d.events : d.events[i] \in [span : Spans, entry : 0..n + 1]
  BY DEF IsData
<1>2. QED
  BY <1>1 DEF IsData

\* e has no event that d has not, and gives ids as d does.
Fewer(d, e) ==
    /\ e.next_event_id = d.next_event_id
    /\ DOMAIN e.events \subseteq DOMAIN d.events
    /\ \A i \in DOMAIN e.events : e.events[i].entry = d.events[i].entry

\* A calendar after an update.
LEMMA UpdateFacts ==
    ASSUME NEW d, NEW n \in Nat, IsData(d, n), NEW span \in Spans, NEW id \in DOMAIN d.events,
           NEW e, e = [d EXCEPT !.events[id].span = span]
    PROVE  IsData(e, n) /\ Fewer(d, e) /\ DOMAIN e.events = DOMAIN d.events
<1> DEFINE ev == [d.events EXCEPT ![id].span = span]
<1>1. e = [events |-> ev, reminders |-> d.reminders,
           next_event_id |-> d.next_event_id, next_reminder_id |-> d.next_reminder_id]
  BY DEF IsData
<1>2. /\ d.events = [i \in DOMAIN d.events |-> d.events[i]]
      /\ d.events[id] \in [span : Spans, entry : 0..n]
  BY DEF IsData
<1>3. [d.events[id] EXCEPT !.span = span] \in [span : Spans, entry : 0..n]
      /\ [d.events[id] EXCEPT !.span = span].entry = d.events[id].entry
  BY <1>2
<1>4. /\ DOMAIN ev = DOMAIN d.events /\ ev = [i \in DOMAIN ev |-> ev[i]]
      /\ ev[id] = [d.events[id] EXCEPT !.span = span]
      /\ \A i \in DOMAIN ev : i # id => ev[i] = d.events[i]
  BY <1>2
<1>5. e.events = ev /\ e.next_event_id = d.next_event_id
  BY <1>1
<1> HIDE DEF ev
<1>6. \A i \in DOMAIN ev : /\ i \in Nat /\ i > 0 /\ i < d.next_event_id
                           /\ ev[i] \in [span : Spans, entry : 0..n]
                           /\ ev[i].entry = d.events[i].entry
  BY <1>3, <1>4 DEF IsData
<1>7. e = [events |-> e.events, reminders |-> e.reminders,
           next_event_id |-> e.next_event_id, next_reminder_id |-> e.next_reminder_id]
  BY <1>1
<1>8. d.next_event_id \in Nat /\ d.next_event_id > 2
  BY DEF IsData
<1>9. IsData(e, n)
  BY SMTT(30), <1>4, <1>5, <1>6, <1>7, <1>8, DataIs
<1>10. QED
  BY <1>4, <1>5, <1>6, <1>9 DEF Fewer

\* A calendar after a delete.
LEMMA DeleteFacts ==
    ASSUME NEW d, NEW n \in Nat, IsData(d, n), NEW id, NEW rs,
           NEW ev, ev = Restrict(d.events, DOMAIN d.events \ {id}),
           NEW e, e = [events |-> ev, reminders |-> rs, next_event_id |-> d.next_event_id,
                       next_reminder_id |-> d.next_reminder_id]
    PROVE  IsData(e, n) /\ Fewer(d, e) /\ DOMAIN e.events = DOMAIN d.events \ {id}
<1>1. /\ DOMAIN ev = DOMAIN d.events \ {id} /\ ev = [i \in DOMAIN ev |-> ev[i]]
      /\ \A i \in DOMAIN ev : ev[i] = d.events[i]
  BY DEF Restrict
<1>2. e.events = ev /\ e.next_event_id = d.next_event_id
  OBVIOUS
<1>3. e = [events |-> e.events, reminders |-> e.reminders,
           next_event_id |-> e.next_event_id, next_reminder_id |-> e.next_reminder_id]
  OBVIOUS
<1>4. /\ d.next_event_id \in Nat /\ d.next_event_id > 2
      /\ \A i \in DOMAIN d.events : /\ i \in Nat /\ i > 0 /\ i < d.next_event_id
                                    /\ d.events[i] \in [span : Spans, entry : 0..n]
  BY DEF IsData
<1>5. \A i \in DOMAIN ev : /\ i \in Nat /\ i > 0 /\ i < d.next_event_id
                           /\ ev[i] \in [span : Spans, entry : 0..n]
  BY <1>1, <1>4
<1>6. ev = [i \in DOMAIN ev |-> ev[i]] /\ d.next_event_id \in Nat /\ d.next_event_id > 2
  BY <1>1, <1>4
<1>7. IsData(e, n)
  BY SMTT(30), <1>2, <1>3, <1>5, <1>6, DataIs
<1>8. QED
  BY <1>1, <1>2, <1>7 DEF Fewer

\* A calendar after a new reminder.
LEMMA ReminderFacts ==
    ASSUME NEW d, NEW n \in Nat, IsData(d, n), NEW rs, NEW k,
           NEW e, e = [events |-> d.events, reminders |-> rs,
                       next_event_id |-> d.next_event_id, next_reminder_id |-> k]
    PROVE  IsData(e, n) /\ Fewer(d, e) /\ DOMAIN e.events = DOMAIN d.events
<1>1. e.events = d.events /\ e.next_event_id = d.next_event_id
      /\ e = [events |-> e.events, reminders |-> e.reminders,
              next_event_id |-> e.next_event_id, next_reminder_id |-> e.next_reminder_id]
  OBVIOUS
<1>2. QED
  BY <1>1 DEF IsData, Fewer

\* The records an insert makes, by their fields.
LEMMA InsertedCalendar ==
    ASSUME NEW d, NEW ev, NEW to,
           d = [events |-> d.events, reminders |-> d.reminders,
                next_event_id |-> d.next_event_id, next_reminder_id |-> d.next_reminder_id],
           NEW e, e = [d EXCEPT !.events = ev, !.next_event_id = to]
    PROVE  e = [events |-> ev, reminders |-> d.reminders,
                next_event_id |-> to, next_reminder_id |-> d.next_reminder_id]
<1>1. DOMAIN d = {"events", "reminders", "next_event_id", "next_reminder_id"}
  OBVIOUS
<1>2. /\ e.events = ev /\ e.reminders = d.reminders /\ e.next_event_id = to
      /\ e.next_reminder_id = d.next_reminder_id
      /\ DOMAIN e = DOMAIN d /\ e = [x \in DOMAIN e |-> e[x]]
  BY <1>1
<1>3. QED
  BY <1>1, <1>2

\* A worker that has inserted an entry and has the lock.
LEMMA InsertingWorker ==
    ASSUME NEW left, NEW entry, NEW id,
           NEW r, r = [Idle EXCEPT !.at = "changed", !.left = left, !.entry = entry, !.id = id]
    PROVE  r = [at |-> "changed", left |-> left, entry |-> entry, id |-> id, data |-> Missing]
<1>1. DOMAIN Idle = {"at", "left", "entry", "id", "data"} /\ Idle.data = Missing
  BY DEF Idle
<1>2. /\ r.at = "changed" /\ r.left = left /\ r.entry = entry /\ r.id = id /\ r.data = Missing
      /\ DOMAIN r = DOMAIN Idle /\ r = [x \in DOMAIN r |-> r[x]]
  BY <1>1
<1>3. QED
  BY <1>1, <1>2

(* The calendar, 2: the types.  What bounds the ids of a calendar is the   *)
(* number of operations of all sessions.                                   *)

\* A calendar after n operations, of all sessions: ids of events and of reminders.
Sized(d, n) ==
    /\ IsData(d, n) /\ d.next_event_id <= 3 + n
    /\ d.reminders \subseteq [id : 1..MaxReminders, event_id : Reminded]
    /\ d.next_reminder_id \in 1..(MaxReminders + 1)

\* A thread after n operations.
Going(r, n) ==
    /\ r = [at |-> r.at, left |-> r.left, entry |-> r.entry, id |-> r.id, data |-> r.data]
    /\ r.at \in {"idle", "changed", "write"} /\ r.left \in 0..1
    /\ r.entry \in 0..n /\ r.id \in {0} \cup EventIds /\ (r.entry # 0 => r.id # 0)
    /\ IF r.at = "write" THEN Sized(r.data, n) ELSE r.data = Missing

\* What is known after n operations.
IsHistory(h, n) ==
    /\ h = [kept |-> h.kept, given |-> h.given]
    /\ h.kept \cup h.given \subseteq EventIds \X (0..n)

SizesInv ==
    /\ stage \in [Sessions -> {"down", "loaded", "saving", "up"}]
    /\ copy = [s \in Sessions |-> copy[s]] /\ worker = [w \in Workers |-> worker[w]]
    /\ known = [s \in Sessions |-> known[s]]
    /\ operations \in 0..MaxOperations /\ loads \in 0..MaxLoads
    /\ \A s \in Sessions : Sized(copy[s], operations) /\ IsHistory(known[s], operations)
    /\ file \in {Missing, Torn} \/ Sized(file, operations)
    /\ IsHistory(filed, operations)
    /\ \A w \in Workers : Going(worker[w], operations)

\* A thread is one of its session.
LEMMA ThreadFacts ==
    /\ \A w \in Workers : w[1] \in Sessions /\ w \in Of(w[1])
    /\ \A s : \A w \in Of(s) : w[1] = s
    /\ \A s \in Sessions : \A w \in Of(s) : w \in Workers
BY DEF Workers, Of

\* The sizes are in the bounds of the types.
LEMMA SizesTyped == SizesInv => CalendarTypeOK
<1> SUFFICES ASSUME SizesInv PROVE CalendarTypeOK
  OBVIOUS
<1>1. operations \in 0..MaxOperations /\ MaxOperations \in Nat
  BY CalendarAssumption DEF SizesInv
<1>2. ASSUME NEW d, Sized(d, operations) PROVE IsCalendar(d)
  <2>1. \A i \in DOMAIN d.events :
          /\ i \in EventIds
          /\ d.events[i] \in [span : Spans, entry : 0..MaxOperations]
    BY <1>1, <1>2 DEF Sized, IsData, EventIds
  <2>2. d.next_event_id \in 3..(3 + MaxOperations)
    BY <1>1, <1>2 DEF Sized, IsData
  <2>3. QED
    BY <1>2, <2>1, <2>2 DEF Sized, IsCalendar
<1>3. \A s \in Sessions : IsCalendar(copy[s])
  BY <1>2 DEF SizesInv
<1>4. file \in {Missing, Torn} \/ IsCalendar(file)
  BY <1>2 DEF SizesInv
<1>5. ASSUME NEW w \in Workers
      PROVE  /\ worker[w].at \in {"idle", "changed", "write"} /\ worker[w].left \in 0..1
             /\ worker[w].entry \in 0..MaxOperations /\ worker[w].id \in {0} \cup EventIds
             /\ IF worker[w].at = "write" THEN IsCalendar(worker[w].data)
                                         ELSE worker[w].data = Missing
  <2>1. Going(worker[w], operations)
    BY DEF SizesInv
  <2>2. QED
    BY <1>1, <1>2, <2>1 DEF Going
<1>6. ASSUME NEW h, IsHistory(h, operations)
      PROVE  h.kept \cup h.given \subseteq EventIds \X (0..MaxOperations)
  BY <1>1, <1>6 DEF IsHistory
<1>7. \A h \in Range(known) \cup {filed} : IsHistory(h, operations)
  BY DEF SizesInv, Range
<1>8. /\ stage \in [Sessions -> {"down", "loaded", "saving", "up"}] /\ DOMAIN worker = Workers
      /\ DOMAIN known = Sessions /\ loads \in 0..MaxLoads
  BY DEF SizesInv
<1>9. QED
  BY <1>1, <1>3, <1>4, <1>5, <1>6, <1>7, <1>8 DEF CalendarTypeOK

\* The sample events have the ids 1 and 2.
LEMMA DefaultSized ==
    ASSUME NEW n \in Nat
    PROVE  Sized(default_data, n)
<1>1. IsData(default_data, n)
  BY DefaultFacts
<1>2. /\ default_data.next_event_id = 3 /\ default_data.reminders = {}
      /\ default_data.next_reminder_id = 1
  BY DEF default_data
<1>3. QED
  BY <1>1, <1>2, CalendarAssumption DEF Sized

\* A session that found no file knows of the samples only.
LEMMA NothingSized ==
    ASSUME NEW n \in Nat
    PROVE  IsHistory(NothingKnown, n)
<1>1. {1, 2} \subseteq EventIds
  BY CalendarAssumption DEF EventIds
<1>2. SampleIds \subseteq EventIds \X (0..n)
  BY <1>1 DEF SampleIds
<1>3. QED
  BY <1>2 DEF NothingKnown, IsHistory

\* What bounds the ids only grows.
LEMMA SizesGrow ==
    ASSUME NEW d, NEW n \in Nat, Sized(d, n)
    PROVE  Sized(d, n + 1)
<1>1. IsData(d, n) /\ d.next_event_id \in Nat
  BY DEF Sized, IsData
<1>2. IsData(d, n + 1)
  BY <1>1, DataGrows
<1>3. QED
  BY <1>1, <1>2 DEF Sized

\* So does what bounds a thread and what is known.
LEMMA GoingGrows ==
    ASSUME NEW n \in Nat
    PROVE  /\ \A r : Going(r, n) => Going(r, n + 1)
           /\ \A h : IsHistory(h, n) => IsHistory(h, n + 1)
<1>1. ASSUME NEW r, Going(r, n) PROVE Going(r, n + 1)
  <2>1. r.at = "write" => Sized(r.data, n + 1)
    BY <1>1, SizesGrow DEF Going
  <2>2. QED
    BY <1>1, <2>1 DEF Going
<1>2. ASSUME NEW h, IsHistory(h, n) PROVE IsHistory(h, n + 1)
  BY <1>2 DEF IsHistory
<1>3. QED
  BY <1>1, <1>2

\* A first start, with no thread at work.
LEMMA SizesInitially == CalendarInit => SizesInv
<1> SUFFICES ASSUME CalendarInit PROVE SizesInv
  OBVIOUS
<1>1. Sized(default_data, 0)
  BY DefaultSized
<1>2. Going(Idle, 0)
  BY DEF Going, Idle
<1>3. IsHistory(NothingKnown, 0)
  BY NothingSized
<1>4. QED
  BY <1>1, <1>2, <1>3, CalendarAssumption DEF CalendarInit, SizesInv

\* A thread has changed the copy of its session to e, and goes on as r.
Edits(w, e, r) ==
    /\ copy' = [copy EXCEPT ![w[1]] = e] /\ worker' = [worker EXCEPT ![w] = r]
    /\ operations < MaxOperations /\ operations' = operations + 1
    /\ UNCHANGED <<stage, file, loads, filed>>
    /\ stage[w[1]] = "up" /\ MutexFree(w[1]) /\ worker[w].at = "idle"

\* So it is after any operation.
LEMMA SizesAfterEdit ==
    ASSUME SizesInv, NEW w \in Workers, NEW e, NEW r, Edits(w, e, r),
           Sized(e, operations + 1), Going(r, operations + 1),
           known' = [s \in Sessions |-> known'[s]],
           \A s \in Sessions : IsHistory(known'[s], operations)
    PROVE  SizesInv'
<1>1. operations \in Nat /\ MaxOperations \in Nat /\ w[1] \in Sessions
  BY CalendarAssumption, ThreadFacts DEF SizesInv
<1>2. /\ \A d : Sized(d, operations) => Sized(d, operations + 1)
      /\ \A q : Going(q, operations) => Going(q, operations + 1)
      /\ \A h : IsHistory(h, operations) => IsHistory(h, operations + 1)
  BY <1>1, SizesGrow, GoingGrows
<1>3. PICK n : n = operations + 1
  OBVIOUS
<1>4. /\ copy' = [s \in Sessions |-> copy'[s]] /\ worker' = [v \in Workers |-> worker'[v]]
      /\ copy'[w[1]] = e /\ \A s \in Sessions : s # w[1] => copy'[s] = copy[s]
      /\ worker'[w] = r /\ \A v \in Workers : v # w => worker'[v] = worker[v]
  BY <1>1 DEF SizesInv, Edits
<1>5. \A s \in Sessions : Sized(copy'[s], n) /\ IsHistory(known'[s], n)
  BY <1>2, <1>3, <1>4 DEF SizesInv
<1>6. \A v \in Workers : Going(worker'[v], n)
  BY <1>2, <1>3, <1>4 DEF SizesInv
<1>7. n \in 0..MaxOperations /\ operations' = n
  BY <1>1, <1>3 DEF SizesInv, Edits
<1>8. (file \in {Missing, Torn} \/ Sized(file, n)) /\ IsHistory(filed, n)
  BY <1>2, <1>3 DEF SizesInv
<1>9. UNCHANGED <<stage, file, loads, filed>>
  BY DEF Edits
<1>10. QED
  BY <1>4, <1>5, <1>6, <1>7, <1>8, <1>9 DEF SizesInv

\* How a thread goes on when nothing is written yet.
LEMMA GoingOn ==
    ASSUME NEW at \in {"idle", "changed"}, NEW left \in 0..1, NEW n \in Nat, NEW entry \in 0..n,
           NEW id \in {0} \cup EventIds, entry # 0 => id # 0, NEW r,
           r = [at |-> at, left |-> left, entry |-> entry, id |-> id, data |-> Missing]
    PROVE  Going(r, n)
<1>1. /\ r.at = at /\ r.left = left /\ r.entry = entry /\ r.id = id /\ r.data = Missing
      /\ at # "write"
  OBVIOUS
<1>2. QED
  BY <1>1 DEF Going

\* A thread that has inserted nothing, and writes nothing.
Quiet(r) == r.at # "write" /\ r.entry = 0

\* How such a thread goes on.
LEMMA GoingOnIdly ==
    ASSUME NEW at \in {"idle", "changed"}, NEW left \in 0..1, NEW n \in Nat, NEW r,
           r = [at |-> at, left |-> left, entry |-> 0, id |-> 0, data |-> Missing]
    PROVE  Going(r, n) /\ Quiet(r) /\ r.at = at
<1>1. /\ r.at = at /\ r.left = left /\ r.entry = 0 /\ r.id = 0 /\ r.data = Missing
      /\ at # "write"
  OBVIOUS
<1>2. QED
  BY <1>1 DEF Going, Quiet

\* What Changed does, by the fields of the thread.
LEMMA ChangedFacts ==
    ASSUME NEW w, NEW e, NEW left, NEW entry, NEW id, Changed(w, e, left, entry, id),
           Operates(w, left),
           NEW r, r = [at |-> "changed", left |-> left, entry |-> entry, id |-> id,
                       data |-> Missing]
    PROVE  Edits(w, e, r)
<1>1. PICK q : q = [Idle EXCEPT !.at = "changed", !.left = left, !.entry = entry, !.id = id]
  OBVIOUS
<1>2. q = r
  BY <1>1, InsertingWorker
<1>3. worker' = [worker EXCEPT ![w] = q]
  BY <1>1 DEF Changed
<1>4. worker' = [worker EXCEPT ![w] = r]
  BY <1>2, <1>3
<1>5. QED
  BY <1>4 DEF Changed, Operates, Edits

\* A thread and the copy of its session.
LEMMA OperationFacts ==
    ASSUME SizesInv, NEW w \in Workers
    PROVE  /\ w[1] \in Sessions /\ Sized(copy[w[1]], operations) /\ IsData(copy[w[1]], operations)
           /\ operations \in Nat /\ Going(worker[w], operations)
BY CalendarAssumption, ThreadFacts DEF SizesInv, Sized

\* An operation that gives no id: what is left is at most what there was.
EditsOnly(w, left, domain) ==
    \E e, r : /\ Edits(w, e, r) /\ Sized(e, operations) /\ Fewer(copy[w[1]], e)
              /\ DOMAIN e.events = domain
              /\ Going(r, operations) /\ Quiet(r)

\* UPDATE: the same events.
LEMMA UpdateEdits ==
    ASSUME SizesInv, NEW w \in Workers, NEW left \in 0..1, NEW id, update_event(w, left, id)
    PROVE  EditsOnly(w, left, DOMAIN copy[w[1]].events) /\ UNCHANGED known
<1>1. w[1] \in Sessions /\ Sized(copy[w[1]], operations) /\ operations \in Nat
  BY OperationFacts
<1>2. PICK span \in Spans : Changed(w, [copy[w[1]] EXCEPT !.events[id].span = span], left, 0, 0)
  BY DEF update_event
<1>d. PICK d : d = copy[w[1]] /\ id \in DOMAIN d.events
  BY DEF update_event
<1>3. PICK e : e = [d EXCEPT !.events[id].span = span]
  OBVIOUS
<1>4. Sized(e, operations) /\ Fewer(d, e) /\ DOMAIN e.events = DOMAIN d.events
  <2>1. IsData(d, operations)
    BY <1>1, <1>d DEF Sized
  <2>2. IsData(e, operations) /\ Fewer(d, e) /\ DOMAIN e.events = DOMAIN d.events
    BY <1>1, <1>d, <1>3, <2>1, UpdateFacts
  <2>3. /\ d = [events |-> d.events, reminders |-> d.reminders,
                next_event_id |-> d.next_event_id, next_reminder_id |-> d.next_reminder_id]
    BY <2>1 DEF IsData
  <2>4. e.reminders = d.reminders /\ e.next_reminder_id = d.next_reminder_id
    BY <1>3, <2>3
  <2>5. QED
    BY <1>1, <1>d, <2>2, <2>4 DEF Sized, Fewer
<1>5. PICK r : r = [at |-> "changed", left |-> left, entry |-> 0, id |-> 0, data |-> Missing]
  OBVIOUS
<1>6. Going(r, operations) /\ Quiet(r)
  BY <1>1, <1>5, GoingOnIdly
<1>7. Changed(w, e, left, 0, 0) /\ Operates(w, left) /\ UNCHANGED known
  BY <1>2, <1>d, <1>3 DEF update_event
<1>8. Edits(w, e, r)
  BY <1>5, <1>7, ChangedFacts
<1>9. QED
  BY <1>d, <1>4, <1>6, <1>7, <1>8 DEF EditsOnly

\* INSERT of a reminder: its id is one that is left.
LEMMA ReminderEdits ==
    ASSUME SizesInv, NEW w \in Workers, NEW left \in 0..1, NEW id \in Reminded,
           insert_reminder(w, left, id)
    PROVE  EditsOnly(w, left, DOMAIN copy[w[1]].events) /\ UNCHANGED known
<1>1. w[1] \in Sessions /\ Sized(copy[w[1]], operations) /\ operations \in Nat
  BY OperationFacts
<1>d. PICK d : d = copy[w[1]]
  OBVIOUS
<1>2. PICK rs, k : /\ rs = d.reminders \cup {[id |-> d.next_reminder_id, event_id |-> id]}
                   /\ k = d.next_reminder_id + 1
  OBVIOUS
<1>3. PICK e : e = [d EXCEPT !.reminders = rs, !.next_reminder_id = k]
  OBVIOUS
<1>c. /\ Changed(w, e, left, 0, 0) /\ Operates(w, left)
      /\ d.next_reminder_id <= MaxReminders /\ UNCHANGED known
  BY <1>d, <1>2, <1>3 DEF insert_reminder
<1>4. Sized(e, operations) /\ Fewer(d, e) /\ DOMAIN e.events = DOMAIN d.events
  <2>1. Sized(d, operations) /\ IsData(d, operations)
    BY <1>1, <1>d DEF Sized
  <2>2. e = [events |-> d.events, reminders |-> rs,
             next_event_id |-> d.next_event_id, next_reminder_id |-> k]
    BY <1>3, <2>1 DEF IsData
  <2>3. IsData(e, operations) /\ Fewer(d, e) /\ DOMAIN e.events = DOMAIN d.events
    BY <1>1, <2>1, <2>2, ReminderFacts
  <2>4. e.reminders = rs /\ e.next_reminder_id = k
    BY <2>2
  <2>5. d.next_reminder_id \in 1..MaxReminders /\ MaxReminders \in Nat
    BY <1>c, <2>1, CalendarAssumption DEF Sized
  <2>6. [id |-> d.next_reminder_id, event_id |-> id] \in [id : 1..MaxReminders, event_id : Reminded]
    BY <2>5
  <2>7. rs \subseteq [id : 1..MaxReminders, event_id : Reminded]
    BY <1>2, <2>1, <2>6 DEF Sized
  <2>8. k \in 1..(MaxReminders + 1)
    BY <1>2, <2>5
  <2>9. e.next_event_id <= 3 + operations
    BY <2>1, <2>3 DEF Sized, Fewer
  <2>10. QED
    BY <2>3, <2>4, <2>7, <2>8, <2>9 DEF Sized
<1>5. PICK r : r = [at |-> "changed", left |-> left, entry |-> 0, id |-> 0, data |-> Missing]
  OBVIOUS
<1>6. Going(r, operations) /\ Quiet(r)
  BY <1>1, <1>5, GoingOnIdly
<1>7. Edits(w, e, r)
  BY <1>5, <1>c, ChangedFacts
<1>8. QED
  BY <1>d, <1>c, <1>4, <1>6, <1>7 DEF EditsOnly

\* DELETE: the event of the id is gone, and no longer kept.
LEMMA DeleteEdits ==
    ASSUME SizesInv, NEW w \in Workers, NEW left \in 0..1, NEW id, delete_event(w, left, id)
    PROVE  /\ EditsOnly(w, left, DOMAIN copy[w[1]].events \ {id})
           /\ \/ known' = [known EXCEPT ![w[1]].kept = {g \in @ : g[1] # id}]
              \/ UNCHANGED known /\ id \notin DOMAIN copy[w[1]].events
<1>1. w[1] \in Sessions /\ Sized(copy[w[1]], operations) /\ operations \in Nat
  BY OperationFacts
<1>d. PICK d : d = copy[w[1]]
  OBVIOUS
<1>2. PICK ev, rs : /\ ev = Restrict(d.events, DOMAIN d.events \ {id})
                    /\ rs = {r \in d.reminders : r.event_id # id}
  OBVIOUS
<1>3. PICK e : e = [d EXCEPT !.events = Restrict(@, DOMAIN @ \ {id}),
                             !.reminders = {r \in @ : r.event_id # id}]
  OBVIOUS
<1>4. Sized(e, operations) /\ Fewer(d, e) /\ DOMAIN e.events = DOMAIN d.events \ {id}
  <2>1. Sized(d, operations) /\ IsData(d, operations)
    BY <1>1, <1>d DEF Sized
  <2>2. e = [events |-> ev, reminders |-> rs, next_event_id |-> d.next_event_id,
             next_reminder_id |-> d.next_reminder_id]
    BY <1>2, <1>3, <2>1 DEF IsData
  <2>3. IsData(e, operations) /\ Fewer(d, e) /\ DOMAIN e.events = DOMAIN d.events \ {id}
    <3>1. operations \in Nat /\ IsData(d, operations)
      BY <1>1, <2>1
    <3>2. ev = Restrict(d.events, DOMAIN d.events \ {id})
      BY <1>2
    <3>3. QED
      BY <2>2, <3>1, <3>2, DeleteFacts
  <2>4. e.reminders = rs /\ e.next_reminder_id = d.next_reminder_id /\ rs \subseteq d.reminders
    BY <1>2, <2>2
  <2>5. QED
    BY <2>1, <2>3, <2>4 DEF Sized, Fewer
<1>5. Operates(w, left)
  BY DEF delete_event
<1>6. CASE id \in DOMAIN d.events
  <2>1. /\ Changed(w, e, left, 0, 0)
        /\ known' = [known EXCEPT ![w[1]].kept = {g \in @ : g[1] # id}]
    BY <1>d, <1>3, <1>6 DEF delete_event
  <2>2. PICK r : r = [at |-> "changed", left |-> left, entry |-> 0, id |-> 0, data |-> Missing]
    OBVIOUS
  <2>3. Going(r, operations) /\ Quiet(r)
    BY <1>1, <2>2, GoingOnIdly
  <2>4. Edits(w, e, r)
    BY <1>5, <2>1, <2>2, ChangedFacts
  <2>5. QED
    BY <1>d, <1>4, <2>1, <2>3, <2>4 DEF EditsOnly
<1>7. CASE id \notin DOMAIN d.events
  <2>1. PICK r : r = [Idle EXCEPT !.left = left]
    OBVIOUS
  <2>2. r = [at |-> "idle", left |-> left, entry |-> 0, id |-> 0, data |-> Missing]
    BY <2>1 DEF Idle
  <2>3. /\ copy' = [copy EXCEPT ![w[1]] = e] /\ worker' = [worker EXCEPT ![w] = r]
        /\ UNCHANGED <<stage, file, loads, known, filed>>
    BY <1>d, <1>3, <1>7, <2>1 DEF delete_event
  <2>4. Going(r, operations) /\ Quiet(r)
    BY <1>1, <2>2, GoingOnIdly
  <2>5. Edits(w, e, r)
    BY <1>5, <2>3 DEF Operates, Edits
  <2>6. QED
    BY <1>d, <1>4, <1>7, <2>3, <2>4, <2>5 DEF EditsOnly
<1>8. QED
  BY <1>6, <1>7

\* INSERT: the new id is one more than what bounded those before.
LEMMA InsertEdits ==
    ASSUME SizesInv, NEW w \in Workers, NEW left \in 0..1, insert_event(w, left)
    PROVE  /\ UNCHANGED known
           /\ \E e, r : /\ Edits(w, e, r) /\ Sized(e, operations + 1)
                        /\ Grown(copy[w[1]], e, operations + 1)
                        /\ Going(r, operations + 1) /\ r.at = "changed"
                        /\ r.entry = operations + 1 /\ r.id = copy[w[1]].next_event_id
<1>d. PICK d, n : d = copy[w[1]] /\ n = operations
  OBVIOUS
<1>1. /\ w[1] \in Sessions /\ Sized(d, n) /\ IsData(d, n) /\ n \in Nat
      /\ n < MaxOperations /\ MaxOperations \in Nat
  BY <1>d, OperationFacts, CalendarAssumption DEF insert_event, Operates
<1>2. PICK span \in Spans :
        Changed(w, [d EXCEPT !.events = [i \in DOMAIN @ \cup {d.next_event_id} |->
                                IF i = d.next_event_id THEN Event(span, n + 1) ELSE @[i]],
                             !.next_event_id = @ + 1],
                left, n + 1, d.next_event_id)
  BY <1>d DEF insert_event, EventId
<1>3. PICK ev, to : /\ ev = [i \in DOMAIN d.events \cup {d.next_event_id} |->
                            IF i = d.next_event_id THEN Event(span, n + 1) ELSE d.events[i]]
                    /\ to = d.next_event_id + 1
  OBVIOUS
<1>4. PICK e : e = [d EXCEPT !.events = ev, !.next_event_id = to]
  OBVIOUS
<1>5. Changed(w, e, left, n + 1, d.next_event_id)
  BY <1>2, <1>3, <1>4
<1>6. e = [events |-> ev, reminders |-> d.reminders,
           next_event_id |-> to, next_reminder_id |-> d.next_reminder_id]
  BY <1>1, <1>4, InsertedCalendar DEF IsData
<1>7. Sized(e, n + 1) /\ Grown(d, e, n + 1)
  <2>1. IsData(e, n + 1) /\ Grown(d, e, n + 1)
    <3>1. n \in Nat /\ IsData(d, n)
      BY <1>1
    <3>2. e = [events |-> ev, reminders |-> d.reminders,
               next_event_id |-> d.next_event_id + 1,
               next_reminder_id |-> d.next_reminder_id]
      BY <1>3, <1>6
    <3>3. ev = [i \in DOMAIN d.events \cup {d.next_event_id} |->
                  IF i = d.next_event_id THEN Event(span, n + 1) ELSE d.events[i]]
      BY <1>3
    <3>4. QED
      BY <3>1, <3>2, <3>3, InsertFacts
  <2>2. /\ e.reminders = d.reminders /\ e.next_reminder_id = d.next_reminder_id
        /\ e.next_event_id = d.next_event_id + 1
    BY <1>3, <1>6
  <2>3. d.next_event_id \in Nat /\ d.next_event_id <= 3 + n
    BY <1>1 DEF Sized, IsData
  <2>4. QED
    BY <1>1, <2>1, <2>2, <2>3 DEF Sized
<1>8. PICK r : r = [at |-> "changed", left |-> left, entry |-> n + 1, id |-> d.next_event_id,
                    data |-> Missing]
  OBVIOUS
<1>9. Going(r, n + 1)
  <2>1. d.next_event_id \in EventIds /\ d.next_event_id # 0
    BY <1>1 DEF Sized, IsData, EventIds
  <2>2. n + 1 \in Nat /\ n + 1 \in 0..n + 1
    BY <1>1
  <2>3. QED
    BY <1>8, <2>1, <2>2, GoingOn
<1>10. Edits(w, e, r)
  <2>1. PICK m, id : m = n + 1 /\ id = d.next_event_id
    OBVIOUS
  <2>2. Changed(w, e, left, m, id) /\ Operates(w, left)
    BY <1>d, <1>5, <2>1 DEF insert_event
  <2>3. r = [at |-> "changed", left |-> left, entry |-> m, id |-> id, data |-> Missing]
    BY <1>8, <2>1
  <2>4. QED
    BY <2>2, <2>3, ChangedFacts
<1>11. UNCHANGED known
  BY DEF insert_event
<1>12. /\ r.at = "changed" /\ r.entry = n + 1 /\ r.id = d.next_event_id
  BY <1>8
<1>13. QED
  BY <1>d, <1>7, <1>9, <1>10, <1>11, <1>12


\* What a session makes of the file it loads.
LEMMA RefilledFacts ==
    ASSUME NEW n \in Nat, NEW d, Sized(d, n), NEW e, e = Refilled(d)
    PROVE  /\ Sized(e, n) /\ e.next_event_id = d.next_event_id
           /\ DOMAIN d.events # {} => e = d
           /\ DOMAIN d.events = {} => e.events = default_data.events
<1>1. CASE DOMAIN d.events # {}
  BY <1>1 DEF Refilled
<1>2. CASE DOMAIN d.events = {}
  <2>1. e = [d EXCEPT !.events = default_data.events] /\ IsData(d, n)
    BY <1>2 DEF Refilled, Sized
  <2>2. /\ IsData(e, n) /\ e.events = default_data.events
        /\ e.reminders = d.reminders /\ e.next_reminder_id = d.next_reminder_id
        /\ e.next_event_id = d.next_event_id
    BY <1>2, <2>1, RefillFacts
  <2>3. QED
    BY <1>2, <2>2 DEF Sized
<1>3. QED
  BY <1>1, <1>2

\* A session that starts has a calendar, and knows of events that had ids.
LEMMA LoadFacts ==
    ASSUME SizesInv, NEW s \in Sessions, Load(s)
    PROVE  \E d, h : /\ copy' = [copy EXCEPT ![s] = d] /\ known' = [known EXCEPT ![s] = h]
                     /\ Sized(d, operations) /\ IsHistory(h, operations)
                     /\ \/ d = default_data /\ h = NothingKnown
                        \/ file \notin {Missing, Torn} /\ d = Refilled(file) /\ h = filed
<1>1. operations \in Nat
  BY CalendarAssumption DEF SizesInv
<1>2. CASE /\ copy' = [copy EXCEPT ![s] = default_data]
           /\ known' = [known EXCEPT ![s] = NothingKnown]
  <2>1. Sized(default_data, operations) /\ IsHistory(NothingKnown, operations)
    BY <1>1, DefaultSized, NothingSized
  <2>2. QED
    BY <1>2, <2>1
<1>3. CASE /\ file \notin {Missing, Torn} /\ copy' = [copy EXCEPT ![s] = Refilled(file)]
           /\ known' = [known EXCEPT ![s] = filed]
  <2>1. Sized(file, operations) /\ IsHistory(filed, operations)
    BY <1>3 DEF SizesInv
  <2>2. PICK d : d = Refilled(file)
    OBVIOUS
  <2>3. Sized(d, operations)
    BY <1>1, <2>1, <2>2, RefilledFacts
  <2>4. QED
    BY <1>3, <2>1, <2>2, <2>3
<1>4. QED
  BY <1>2, <1>3 DEF Load

\* The sizes hold of a session that starts.
LEMMA SizesAfterLoad ==
    ASSUME SizesInv, NEW s \in Sessions, Load(s)
    PROVE  SizesInv'
<1>1. PICK d, h : /\ copy' = [copy EXCEPT ![s] = d] /\ known' = [known EXCEPT ![s] = h]
                  /\ Sized(d, operations) /\ IsHistory(h, operations)
  BY LoadFacts
<1>2. /\ stage' = [stage EXCEPT ![s] = "loaded"] /\ loads < MaxLoads /\ loads' = loads + 1
      /\ UNCHANGED <<file, worker, operations, filed>>
  BY DEF Load
<1>3. loads' \in 0..MaxLoads
  BY <1>2, CalendarAssumption DEF SizesInv
<1>4. /\ copy' = [q \in Sessions |-> copy'[q]] /\ known' = [q \in Sessions |-> known'[q]]
      /\ stage' \in [Sessions -> {"down", "loaded", "saving", "up"}]
      /\ \A q \in Sessions : Sized(copy'[q], operations) /\ IsHistory(known'[q], operations)
  BY <1>1, <1>2 DEF SizesInv
<1>5. QED
  BY <1>2, <1>3, <1>4 DEF SizesInv

\* They hold of what a write leaves.
LEMMA SizesOfWritten ==
    ASSUME SizesInv, NEW d, NEW h, Sized(d, operations), IsHistory(h, operations), Written(d, h)
    PROVE  /\ file' \in {Missing, Torn} \/ Sized(file', operations)
           /\ IsHistory(filed', operations)
<1>1. operations \in Nat
  BY CalendarAssumption DEF SizesInv
<1>2. IsHistory(NothingKnown, operations)
  BY <1>1, NothingSized
<1>3. QED
  BY <1>2 DEF Written, SizesInv

\* They hold of a session that saves what it loaded, and of one that exits.
LEMMA SizesAfterSessionStep ==
    ASSUME SizesInv, NEW s \in Sessions,
           LoadPersistBegin(s) \/ LoadPersistEnd(s) \/ LoadPersistFails(s) \/ Exit(s)
    PROVE  SizesInv'
<1>1. operations \in Nat
  BY CalendarAssumption DEF SizesInv
<1>2. CASE LoadPersistBegin(s)
  <2>1. IsHistory(NothingKnown, operations)
    BY <1>1, NothingSized
  <2>2. /\ UNCHANGED <<copy, worker, operations, loads, known>> /\ file' = Torn
        /\ filed' = NothingKnown /\ stage' = [stage EXCEPT ![s] = "saving"]
    BY <1>2 DEF LoadPersistBegin
  <2>3. QED
    BY <2>1, <2>2 DEF SizesInv
<1>3. CASE LoadPersistEnd(s)
  <2>1. Sized(copy[s], operations) /\ IsHistory(known[s], operations)
    BY DEF SizesInv
  <2>2. /\ UNCHANGED <<copy, worker, operations, loads, known>> /\ Written(copy[s], known[s])
        /\ stage' = [stage EXCEPT ![s] = "up"]
    BY <1>3 DEF LoadPersistEnd
  <2>3. /\ file' \in {Missing, Torn} \/ Sized(file', operations)
        /\ IsHistory(filed', operations)
    BY <2>1, <2>2, SizesOfWritten
  <2>4. QED
    BY <2>2, <2>3 DEF SizesInv
<1>4. CASE LoadPersistFails(s)
  BY <1>4 DEF LoadPersistFails, SizesInv
<1>5. CASE Exit(s)
  <2>1. Sized(default_data, operations) /\ Going(Idle, operations)
    <3>1. Idle = [at |-> "idle", left |-> 0, entry |-> 0, id |-> 0, data |-> Missing]
      BY DEF Idle
    <3>2. QED
      BY <1>1, <3>1, DefaultSized, GoingOnIdly
  <2>2. PICK d, r : d = default_data /\ r = Idle
    OBVIOUS
  <2>3. /\ copy' = [copy EXCEPT ![s] = d] /\ stage' = [stage EXCEPT ![s] = "down"]
        /\ worker' = [w \in Workers |-> IF w \in Of(s) THEN r ELSE worker[w]]
        /\ UNCHANGED <<file, operations, loads, known, filed>>
    BY <1>5, <2>2 DEF Exit
  <2>4. /\ copy' = [q \in Sessions |-> copy'[q]]
        /\ \A q \in Sessions : Sized(copy'[q], operations)
        /\ stage' \in [Sessions -> {"down", "loaded", "saving", "up"}]
    BY <2>1, <2>2, <2>3 DEF SizesInv
  <2>5. /\ worker' = [w \in Workers |-> worker'[w]]
        /\ \A w \in Workers : Going(worker'[w], operations)
    BY <2>1, <2>2, <2>3 DEF SizesInv
  <2>6. QED
    BY <2>3, <2>4, <2>5 DEF SizesInv
<1>6. QED
  BY <1>2, <1>3, <1>4, <1>5

\* A thread that starts to write has the copy of its session.
LEMMA BeginFacts ==
    ASSUME SizesInv, NEW w \in Workers, PersistBegin(w)
    PROVE  \E r : /\ worker' = [worker EXCEPT ![w] = r] /\ Going(r, operations)
                  /\ r.at = "write" /\ r.entry = worker[w].entry /\ r.id = worker[w].id
                  /\ r.data = copy[w[1]]
<1>1. Sized(copy[w[1]], operations) /\ Going(worker[w], operations)
  BY OperationFacts
<1>2. PICK q, d : q = worker[w] /\ d = copy[w[1]]
  OBVIOUS
<1>3. PICK r : r = [at |-> "write", left |-> q.left, entry |-> q.entry, id |-> q.id, data |-> d]
  OBVIOUS
<1>4. q = [at |-> q.at, left |-> q.left, entry |-> q.entry, id |-> q.id, data |-> q.data]
  BY <1>1, <1>2 DEF Going
<1>5. /\ r.at = "write" /\ r.left = q.left /\ r.entry = q.entry /\ r.id = q.id /\ r.data = d
  BY <1>3
<1>6. Going(r, operations)
  BY <1>1, <1>2, <1>3, <1>5 DEF Going
<1>7. PICK x : x = [q EXCEPT !.at = "write", !.data = d]
  OBVIOUS
<1>8. x = r
  <2>1. DOMAIN q = {"at", "left", "entry", "id", "data"}
    BY <1>4
  <2>2. /\ x.at = "write" /\ x.left = q.left /\ x.entry = q.entry /\ x.id = q.id
        /\ x.data = d /\ DOMAIN x = DOMAIN q /\ x = [f \in DOMAIN x |-> x[f]]
    BY <1>7, <2>1
  <2>3. QED
    BY <1>3, <2>1, <2>2
<1>9. worker' = [worker EXCEPT ![w] = x]
  <2>1. worker' = [worker EXCEPT ![w].at = "write", ![w].data = d]
    BY <1>2 DEF PersistBegin
  <2>2. [worker EXCEPT ![w].at = "write", ![w].data = d] = [worker EXCEPT ![w] = x]
    BY <1>2, <1>7 DEF SizesInv
  <2>3. QED
    BY <2>1, <2>2
<1>10. QED
  BY <1>2, <1>5, <1>6, <1>8, <1>9

\* A thread that answers has nothing left to tell.
LEMMA AnswerFacts ==
    ASSUME SizesInv, NEW w \in Workers, Answer(w)
    PROVE  \E r : /\ worker' = [worker EXCEPT ![w] = r] /\ Going(r, operations) /\ Quiet(r)
                  /\ r.at = "idle"
<1>1. Going(worker[w], operations) /\ operations \in Nat
  BY OperationFacts
<1>2. PICK left : left = worker[w].left
  OBVIOUS
<1>3. PICK r : r = [at |-> "idle", left |-> left, entry |-> 0, id |-> 0, data |-> Missing]
  OBVIOUS
<1>4. Going(r, operations) /\ Quiet(r) /\ r.at = "idle"
  <2>1. left \in 0..1 /\ "idle" \in {"idle", "changed"}
    BY <1>1, <1>2 DEF Going
  <2>2. QED
    BY <1>1, <1>3, <2>1, GoingOnIdly
<1>5. worker' = [worker EXCEPT ![w] = r]
  <2>1. PICK x : x = [Idle EXCEPT !.left = left]
    OBVIOUS
  <2>2. x = r
    BY <1>3, <2>1 DEF Idle
  <2>3. worker' = [worker EXCEPT ![w] = x]
    BY <1>2, <2>1 DEF Answer
  <2>4. QED
    BY <2>2, <2>3
<1>6. QED
  BY <1>4, <1>5

Pending(w) == <<worker[w].id, worker[w].entry>>

\* What is known after an answer: at most the event of the thread more, if it is there.
LEMMA KnownAfterFacts ==
    ASSUME SizesInv, NEW w \in Workers, NEW k, k = known[w[1]], NEW h, h = KnownAfter(w)
    PROVE  /\ IsHistory(h, operations)
           /\ worker[w].entry = 0 => h = k
           /\ worker[w].entry # 0 =>
                 /\ h.given = k.given \cup {Pending(w)}
                 /\ h.kept \subseteq k.kept \cup {Pending(w)} /\ k.kept \subseteq h.kept
                 /\ Pending(w) \in h.kept =>
                       Pending(w) \in k.kept \/ worker[w].id \in DOMAIN copy[w[1]].events
<1>1. Going(worker[w], operations) /\ IsHistory(k, operations)
  BY OperationFacts DEF SizesInv
<1>2. PICK told : told = IF worker[w].entry = 0 THEN {} ELSE {Pending(w)}
  OBVIOUS
<1>3. /\ h = [kept  |-> k.kept \cup {g \in told : g[1] \in DOMAIN copy[w[1]].events},
              given |-> k.given \cup told]
  BY <1>2 DEF KnownAfter, Pending
<1>4. /\ h.kept = k.kept \cup {g \in told : g[1] \in DOMAIN copy[w[1]].events}
      /\ h.given = k.given \cup told /\ h = [kept |-> h.kept, given |-> h.given]
  BY <1>3
<1>5. CASE worker[w].entry = 0
  <2>1. h.kept = k.kept /\ h.given = k.given
    BY <1>2, <1>4, <1>5
  <2>2. h = k
    BY <1>1, <1>4, <2>1 DEF IsHistory
  <2>3. QED
    BY <1>1, <1>5, <2>2
<1>6. CASE worker[w].entry # 0
  <2>1. told = {Pending(w)} /\ Pending(w)[1] = worker[w].id
    BY <1>2, <1>6 DEF Pending
  <2>2. worker[w].id \in EventIds /\ worker[w].entry \in 0..operations
    BY <1>1, <1>6 DEF Going
  <2>3. Pending(w) \in EventIds \X (0..operations)
    BY <2>2 DEF Pending
  <2>4. h.kept \cup h.given \subseteq EventIds \X (0..operations)
    BY <1>1, <1>4, <2>1, <2>3 DEF IsHistory
  <2>5. QED
    BY <1>4, <1>6, <2>1, <2>4 DEF IsHistory
<1>7. QED
  BY <1>5, <1>6

\* The sizes hold of a thread that persists.
LEMMA SizesAfterPersist ==
    ASSUME SizesInv, NEW w \in Workers, PersistBegin(w) \/ PersistEnd(w) \/ PersistFails(w)
    PROVE  SizesInv'
<1>1. /\ operations \in Nat /\ w[1] \in Sessions /\ Going(worker[w], operations)
  BY OperationFacts
<1>2. ASSUME NEW r, worker' = [worker EXCEPT ![w] = r], Going(r, operations)
      PROVE  /\ worker' = [v \in Workers |-> worker'[v]]
             /\ \A v \in Workers : Going(worker'[v], operations)
  BY <1>2 DEF SizesInv
<1>3. CASE PersistBegin(w)
  <2>1. PICK r : worker' = [worker EXCEPT ![w] = r] /\ Going(r, operations)
    BY <1>3, BeginFacts
  <2>2. IsHistory(NothingKnown, operations)
    BY <1>1, NothingSized
  <2>3. /\ file' = Torn /\ filed' = NothingKnown /\ UNCHANGED <<stage, copy, operations, loads, known>>
    BY <1>3 DEF PersistBegin
  <2>4. QED
    BY <1>2, <2>1, <2>2, <2>3 DEF SizesInv
<1>4. CASE Answer(w) /\ (\/ UNCHANGED <<file, filed>>
                         \/ Written(worker[w].data, KnownAfter(w)) /\ worker[w].at = "write")
  <2>1. PICK r : worker' = [worker EXCEPT ![w] = r] /\ Going(r, operations)
    BY <1>4, AnswerFacts
  <2>2. PICK h : h = KnownAfter(w) /\ IsHistory(h, operations)
    BY KnownAfterFacts
  <2>3. known' = [known EXCEPT ![w[1]] = h] /\ UNCHANGED <<stage, copy, operations, loads>>
    BY <1>4, <2>2 DEF Answer
  <2>4. /\ file' \in {Missing, Torn} \/ Sized(file', operations)
        /\ IsHistory(filed', operations)
    <3>1. CASE UNCHANGED <<file, filed>>
      BY <3>1 DEF SizesInv
    <3>2. CASE Written(worker[w].data, KnownAfter(w)) /\ worker[w].at = "write"
      <4>1. Sized(worker[w].data, operations) /\ Written(worker[w].data, h)
        BY <1>1, <2>2, <3>2 DEF Going
      <4>2. QED
        BY <2>2, <4>1, SizesOfWritten
    <3>3. QED
      BY <1>4, <3>1, <3>2
  <2>5. /\ known' = [s \in Sessions |-> known'[s]]
        /\ \A s \in Sessions : IsHistory(known'[s], operations)
    BY <2>2, <2>3 DEF SizesInv
  <2>6. QED
    BY <1>2, <2>1, <2>3, <2>4, <2>5 DEF SizesInv
<1>5. QED
  BY <1>3, <1>4 DEF PersistEnd, PersistFails

\* The sizes hold of a thread that operates.
LEMMA SizesAfterOperation ==
    ASSUME SizesInv, NEW w \in Workers, NEW left \in 0..1,
           \/ insert_event(w, left)
           \/ \E id : update_event(w, left, id) \/ delete_event(w, left, id)
           \/ \E id \in Reminded : insert_reminder(w, left, id)
    PROVE  SizesInv'
<1>1. operations \in Nat /\ w[1] \in Sessions
  BY OperationFacts
<1>2. /\ known = [s \in Sessions |-> known[s]]
      /\ \A s \in Sessions : IsHistory(known[s], operations)
  BY DEF SizesInv
<1>3. ASSUME NEW domain, EditsOnly(w, left, domain), known' = [s \in Sessions |-> known'[s]],
             \A s \in Sessions : IsHistory(known'[s], operations)
      PROVE  SizesInv'
  <2>1. PICK e, r : Edits(w, e, r) /\ Sized(e, operations) /\ Going(r, operations)
    BY <1>3 DEF EditsOnly
  <2>2. Sized(e, operations + 1) /\ Going(r, operations + 1)
    BY <1>1, <2>1, SizesGrow, GoingGrows
  <2>3. QED
    BY <1>3, <2>1, <2>2, SizesAfterEdit
<1>4. CASE insert_event(w, left)
  <2>1. PICK e, r : Edits(w, e, r) /\ Sized(e, operations + 1) /\ Going(r, operations + 1)
    BY <1>4, InsertEdits
  <2>2. UNCHANGED known
    BY <1>4, InsertEdits
  <2>3. /\ known' = [s \in Sessions |-> known'[s]]
        /\ \A s \in Sessions : IsHistory(known'[s], operations)
    BY <1>2, <2>2
  <2>4. QED
    BY <2>1, <2>3, SizesAfterEdit
<1>5. ASSUME NEW id, update_event(w, left, id) PROVE SizesInv'
  <2>1. EditsOnly(w, left, DOMAIN copy[w[1]].events) /\ UNCHANGED known
    BY <1>5, UpdateEdits
  <2>2. QED
    BY <1>2, <1>3, <2>1
<1>6. ASSUME NEW id \in Reminded, insert_reminder(w, left, id) PROVE SizesInv'
  <2>1. EditsOnly(w, left, DOMAIN copy[w[1]].events) /\ UNCHANGED known
    BY <1>6, ReminderEdits
  <2>2. QED
    BY <1>2, <1>3, <2>1
<1>7. ASSUME NEW id, delete_event(w, left, id) PROVE SizesInv'
  <2>1. EditsOnly(w, left, DOMAIN copy[w[1]].events \ {id})
    BY <1>7, DeleteEdits
  <2>2. CASE UNCHANGED known
    BY <1>2, <1>3, <2>1, <2>2
  <2>3. CASE known' = [known EXCEPT ![w[1]].kept = {g \in @ : g[1] # id}]
    <3>1. PICK h : h = [known[w[1]] EXCEPT !.kept = {g \in @ : g[1] # id}]
      OBVIOUS
    <3>2. known' = [known EXCEPT ![w[1]] = h]
      BY <2>3, <3>1
    <3>3. IsHistory(h, operations)
      <4>1. PICK k : k = known[w[1]] /\ IsHistory(k, operations)
        BY <1>1, <1>2
      <4>2. h = [kept |-> {g \in k.kept : g[1] # id}, given |-> k.given]
        BY <3>1, <4>1 DEF IsHistory
      <4>3. h.kept \subseteq k.kept /\ h.given = k.given /\ h = [kept |-> h.kept, given |-> h.given]
        BY <4>2
      <4>4. QED
        BY <4>1, <4>3 DEF IsHistory
    <3>4. /\ known' = [s \in Sessions |-> known'[s]]
          /\ \A s \in Sessions : IsHistory(known'[s], operations)
      BY <1>1, <1>2, <3>2, <3>3
    <3>5. QED
      BY <1>3, <2>1, <3>4
  <2>4. QED
    BY <1>7, <2>2, <2>3, DeleteEdits
<1>8. QED
  BY <1>4, <1>5, <1>6, <1>7

\* Every step of any number of sessions keeps the sizes.
LEMMA SizesStep ==
    ASSUME SizesInv, [CalendarNext]_calendarVars
    PROVE  SizesInv'
<1>1. CASE UNCHANGED calendarVars
  BY <1>1 DEF calendarVars, SizesInv
<1>2. QED
  BY <1>1, SizesAfterLoad, SizesAfterSessionStep, SizesAfterOperation, SizesAfterPersist
  DEF CalendarNext

\* For any number of sessions and threads, whatever they write over one another's file: ids
\* stay in the bounds that the operations of all sessions set, and a thread writes a calendar.
THEOREM CalendarTyped == CalendarSpec => []CalendarTypeOK
<1>1. CalendarInit => SizesInv
  BY SizesInitially
<1>2. SizesInv /\ [CalendarNext]_calendarVars => SizesInv'
  BY SizesStep
<1>3. SizesInv => CalendarTypeOK
  BY SizesTyped
<1>4. QED
  BY <1>1, <1>2, <1>3, PTL DEF CalendarSpec

(* The calendar, 3: what a copy knows of the events a session answered     *)
(* for.                                                                    *)

\* No id was given twice.
Unique(ids) == \A g, h \in ids : g[1] = h[1] => g = h

\* The id of g is not given again, and no other event has it.
Knows(d, g) ==
    /\ g[1] < d.next_event_id
    /\ g[1] \in DOMAIN d.events => d.events[g[1]].entry = g[2]

\* A calendar knows all events that were answered for, and has those that are kept.
Answers(d, h) ==
    /\ SampleIds \subseteq h.given /\ Unique(h.given) /\ h.kept \subseteq h.given
    /\ \A g \in h.given : Knows(d, g)
    /\ \A g \in h.kept : g[1] \in DOMAIN d.events

\* A thread has inserted an event and has not answered yet.
Inserting(w) == worker[w].at # "idle" /\ worker[w].entry # 0

\* While its threads work, a session is up; one of them writes at a time, and it writes
\* what the copy is; and the events that threads have inserted have ids of their own.
CopyInv(s) ==
    /\ stage[s] # "down" => Answers(copy[s], known[s])
    /\ Unique(known[s].given)
    /\ \A w \in Of(s) : worker[w].at # "idle" => stage[s] = "up"
    /\ \A w \in Of(s) : worker[w].at = "write" =>
          worker[w].data = copy[s] /\ \A v \in Of(s) : worker[v].at = "write" => v = w
    /\ \A w \in Of(s) : Inserting(w) =>
          /\ Knows(copy[s], Pending(w))
          /\ \A g \in known[s].given : g[1] # worker[w].id
          /\ \A v \in Of(s) : Inserting(v) /\ v # w => worker[v].id # worker[w].id

\* A file that is whole knows what the session which wrote it had answered for.
FileInv == file \notin {Missing, Torn} => Answers(file, filed)

CalendarInv == SizesInv /\ (\A s \in Sessions : CopyInv(s)) /\ FileInv

\* A step of one session leaves the others as they are.
LEMMA OthersStay ==
    ASSUME \A q \in Sessions : CopyInv(q), NEW s \in Sessions, CopyInv(s)',
           \A q \in Sessions : q # s =>
              stage'[q] = stage[q] /\ copy'[q] = copy[q] /\ known'[q] = known[q],
           \A w \in Workers : w[1] # s => worker'[w] = worker[w]
    PROVE  \A q \in Sessions : CopyInv(q)'
<1>1. ASSUME NEW q \in Sessions, q # s PROVE CopyInv(q)'
  <2>1. \A w \in Of(q) : worker'[w] = worker[w]
    BY <1>1, ThreadFacts
  <2>2. \A w \in Of(q) : (Inserting(w)' <=> Inserting(w)) /\ Pending(w)' = Pending(w)
    BY <2>1 DEF Inserting, Pending
  <2>3. stage'[q] = stage[q] /\ copy'[q] = copy[q] /\ known'[q] = known[q] /\ CopyInv(q)
    BY <1>1
  <2>4. QED
    BY <2>1, <2>2, <2>3 DEF CopyInv
<1>2. QED
  BY <1>1

\* The sample events are all that a first start knows of.
LEMMA DefaultAnswers == Answers(default_data, NothingKnown)
<1>1. ASSUME NEW g \in SampleIds PROVE Knows(default_data, g)
  <2>1. (g[1] = 1 \/ g[1] = 2) /\ g[2] = 0
    BY DEF SampleIds
  <2>2. default_data.events[g[1]].entry = 0 /\ g[1] < default_data.next_event_id
    BY <2>1, SampleFacts
  <2>3. QED
    BY <2>1, <2>2 DEF Knows
<1>2. Unique(SampleIds)
  BY DEF Unique, SampleIds
<1>3. NothingKnown.kept = {} /\ NothingKnown.given = SampleIds
  BY DEF NothingKnown
<1>4. QED
  BY <1>1, <1>2, <1>3 DEF Answers

\* The samples that come back have the ids they had.
LEMMA RefilledAnswers ==
    ASSUME NEW n \in Nat, NEW d, Sized(d, n), NEW h, Answers(d, h), NEW e, e = Refilled(d)
    PROVE  Answers(e, h)
<1>1. /\ e.next_event_id = d.next_event_id
      /\ DOMAIN d.events # {} => e = d
      /\ DOMAIN d.events = {} => e.events = default_data.events
  BY RefilledFacts
<1>2. CASE DOMAIN d.events # {}
  BY <1>1, <1>2
<1>3. CASE DOMAIN d.events = {}
  <2>1. ASSUME NEW g \in h.given, g[1] \in {1, 2} PROVE g[2] = 0
    <3>1. <<g[1], 0>> \in h.given
      BY <2>1 DEF Answers, SampleIds
    <3>2. g = <<g[1], 0>>
      BY <3>1 DEF Answers, Unique
    <3>3. QED
      BY <3>2
  <2>2. \A g \in h.given : Knows(e, g)
    BY <1>1, <1>3, <2>1, SampleFacts DEF Answers, Knows
  <2>3. \A g \in h.kept : g[1] \in DOMAIN e.events
    BY <1>3 DEF Answers
  <2>4. QED
    BY <2>2, <2>3 DEF Answers
<1>4. QED
  BY <1>2, <1>3

\* A session starts with what it knows of.
LEMMA LoadStep ==
    ASSUME CalendarInv, NEW s \in Sessions, Load(s)
    PROVE  (\A q \in Sessions : CopyInv(q)') /\ FileInv'
<1>1. PICK d, h : /\ copy' = [copy EXCEPT ![s] = d] /\ known' = [known EXCEPT ![s] = h]
                  /\ \/ d = default_data /\ h = NothingKnown
                     \/ file \notin {Missing, Torn} /\ d = Refilled(file) /\ h = filed
  BY LoadFacts DEF CalendarInv
<1>2. Answers(d, h)
  <2>1. CASE d = default_data /\ h = NothingKnown
    BY <2>1, DefaultAnswers
  <2>2. CASE file \notin {Missing, Torn} /\ d = Refilled(file) /\ h = filed
    <3>1. Sized(file, operations) /\ operations \in Nat /\ Answers(file, filed)
      BY <2>2, CalendarAssumption DEF CalendarInv, SizesInv, FileInv
    <3>2. QED
      BY <2>2, <3>1, RefilledAnswers
  <2>3. QED
    BY <1>1, <2>1, <2>2
<1>3. /\ stage' = [stage EXCEPT ![s] = "loaded"] /\ UNCHANGED <<file, worker, filed>>
      /\ stage[s] = "down"
  BY DEF Load
<1>4. /\ copy'[s] = d /\ known'[s] = h
      /\ \A q \in Sessions : q # s =>
            stage'[q] = stage[q] /\ copy'[q] = copy[q] /\ known'[q] = known[q]
  BY <1>1, <1>3 DEF CalendarInv, SizesInv
<1>5. \A w \in Of(s) : worker[w].at = "idle"
  BY <1>3 DEF CalendarInv, CopyInv
<1>6. CopyInv(s)'
  <2>1. \A w \in Of(s) : worker'[w].at = "idle" /\ ~Inserting(w)'
    BY <1>3, <1>5 DEF Inserting
  <2>2. QED
    BY <1>2, <1>4, <2>1 DEF CopyInv, Answers
<1>7. FileInv'
  BY <1>3 DEF CalendarInv, FileInv
<1>8. QED
  BY <1>3, <1>4, <1>6, <1>7, OthersStay DEF CalendarInv

\* A write leaves what the writer knows, or nothing that can be read.
LEMMA WrittenFile ==
    ASSUME FileInv, NEW d, NEW h, Answers(d, h), Written(d, h)
    PROVE  FileInv'
BY DEF Written, FileInv

\* A session saves what it has loaded.
LEMMA LoadPersistStep ==
    ASSUME CalendarInv, NEW s \in Sessions,
           LoadPersistBegin(s) \/ LoadPersistEnd(s) \/ LoadPersistFails(s)
    PROVE  (\A q \in Sessions : CopyInv(q)') /\ FileInv'
<1>1. PICK at : /\ stage' = [stage EXCEPT ![s] = at] /\ stage[s] \notin {"down", "up"}
  BY DEF LoadPersistBegin, LoadPersistEnd, LoadPersistFails
<1>2. UNCHANGED <<copy, worker, known>>
  BY DEF LoadPersistBegin, LoadPersistEnd, LoadPersistFails
<1>3. CopyInv(s) /\ \A q \in Sessions : q # s => stage'[q] = stage[q]
  BY <1>1 DEF CalendarInv, SizesInv
<1>4. \A w \in Of(s) : worker'[w].at = "idle" /\ ~Inserting(w)'
  BY <1>1, <1>2, <1>3 DEF CopyInv, Inserting
<1>5. CopyInv(s)'
  BY <1>1, <1>2, <1>3, <1>4 DEF CopyInv
<1>6. FileInv'
  <2>1. CASE LoadPersistBegin(s)
    BY <2>1 DEF LoadPersistBegin, FileInv
  <2>2. CASE LoadPersistEnd(s)
    <3>1. Answers(copy[s], known[s]) /\ Written(copy[s], known[s]) /\ FileInv
      BY <1>1, <1>3, <2>2 DEF LoadPersistEnd, CopyInv, CalendarInv
    <3>2. QED
      BY <3>1, WrittenFile
  <2>3. CASE LoadPersistFails(s)
    BY <2>3 DEF LoadPersistFails, CalendarInv, FileInv
  <2>4. QED
    BY <2>1, <2>2, <2>3
<1>7. QED
  BY <1>2, <1>3, <1>5, <1>6, OthersStay DEF CalendarInv

\* The process ends: what its threads were at is lost, the file stays as it is.
LEMMA ExitStep ==
    ASSUME CalendarInv, NEW s \in Sessions, Exit(s)
    PROVE  (\A q \in Sessions : CopyInv(q)') /\ FileInv'
<1>1. PICK d, r : d = default_data /\ r = Idle
  OBVIOUS
<1>2. /\ copy' = [copy EXCEPT ![s] = d] /\ stage' = [stage EXCEPT ![s] = "down"]
      /\ worker' = [w \in Workers |-> IF w \in Of(s) THEN r ELSE worker[w]]
      /\ UNCHANGED <<file, known, filed>>
  BY <1>1 DEF Exit
<1>3. r.at = "idle"
  BY <1>1 DEF Idle
<1>4. /\ stage'[s] = "down"
      /\ \A q \in Sessions : q # s => stage'[q] = stage[q] /\ copy'[q] = copy[q]
  BY <1>2 DEF CalendarInv, SizesInv
<1>5. \A w \in Of(s) : worker'[w].at = "idle" /\ ~Inserting(w)'
  BY <1>2, <1>3, ThreadFacts DEF Inserting
<1>6. \A w \in Workers : w[1] # s => worker'[w] = worker[w]
  BY <1>2, ThreadFacts
<1>7. CopyInv(s)'
  BY <1>2, <1>4, <1>5 DEF CalendarInv, CopyInv
<1>8. FileInv'
  BY <1>2 DEF CalendarInv, FileInv
<1>9. QED
  BY <1>2, <1>4, <1>6, <1>7, <1>8, OthersStay DEF CalendarInv

\* The thread of a change, and the others of its session.
LEMMA EditedSession ==
    ASSUME CalendarInv, NEW w \in Workers, NEW e, NEW r, Edits(w, e, r),
           \A q \in Sessions : q # w[1] => known'[q] = known[q]
    PROVE  /\ stage'[w[1]] = "up" /\ copy'[w[1]] = e /\ worker'[w] = r
           /\ \A v \in Of(w[1]) : worker[v].at # "write" /\ (v # w => worker'[v] = worker[v])
           /\ CopyInv(w[1]) /\ Answers(copy[w[1]], known[w[1]])
           /\ CopyInv(w[1])' => \A q \in Sessions : CopyInv(q)'
           /\ FileInv'
<1>1. PICK s : s = w[1] /\ s \in Sessions /\ w \in Of(s)
  BY ThreadFacts
<1>2. /\ copy' = [copy EXCEPT ![s] = e] /\ worker' = [worker EXCEPT ![w] = r]
      /\ UNCHANGED <<stage, file, filed>>
      /\ stage[s] = "up" /\ MutexFree(s) /\ worker[w].at = "idle"
  BY <1>1 DEF Edits
<1>3. /\ copy'[s] = e /\ worker'[w] = r /\ \A v \in Workers : v # w => worker'[v] = worker[v]
      /\ \A q \in Sessions : q # s => copy'[q] = copy[q]
  BY <1>1, <1>2 DEF CalendarInv, SizesInv
<1>4. \A v \in Of(s) : v \in Workers /\ worker[v].at # "write"
  BY <1>1, <1>2, ThreadFacts DEF MutexFree
<1>5. CopyInv(s) /\ Answers(copy[s], known[s])
  BY <1>1, <1>2 DEF CalendarInv, CopyInv
<1>6. FileInv'
  BY <1>2 DEF CalendarInv, FileInv
<1>7. \A v \in Workers : v[1] # s => worker'[v] = worker[v]
  BY <1>1, <1>3
<1>8. CopyInv(s)' => \A q \in Sessions : CopyInv(q)'
  BY <1>1, <1>2, <1>3, <1>7, OthersStay DEF CalendarInv
<1>9. QED
  BY <1>1, <1>2, <1>3, <1>4, <1>5, <1>6, <1>8

\* What knows an event knows it when there are fewer.
LEMMA FewerKnow ==
    ASSUME NEW d, NEW e, Fewer(d, e), NEW g, Knows(d, g)
    PROVE  Knows(e, g)
BY DEF Fewer, Knows

\* A change that gives no id.
LEMMA EditStep ==
    ASSUME CalendarInv, NEW w \in Workers, NEW left, NEW domain, EditsOnly(w, left, domain),
           NEW h, known'[w[1]] = h, \A q \in Sessions : q # w[1] => known'[q] = known[q],
           h.given = known[w[1]].given, h.kept \subseteq known[w[1]].kept,
           \A g \in h.kept : g[1] \in domain
    PROVE  (\A q \in Sessions : CopyInv(q)') /\ FileInv'
<1>1. PICK e, r : /\ Edits(w, e, r) /\ Fewer(copy[w[1]], e) /\ DOMAIN e.events = domain
                  /\ Quiet(r)
  BY DEF EditsOnly
<1>2. PICK s, d, k : s = w[1] /\ d = copy[s] /\ k = known[s]
  OBVIOUS
<1>3. /\ stage'[s] = "up" /\ copy'[s] = e /\ worker'[w] = r
      /\ \A v \in Of(s) : worker[v].at # "write" /\ (v # w => worker'[v] = worker[v])
      /\ CopyInv(s) /\ Answers(d, k) /\ FileInv'
      /\ CopyInv(s)' => \A q \in Sessions : CopyInv(q)'
  BY <1>1, <1>2, EditedSession
<1>4. \A g : Knows(d, g) => Knows(e, g)
  BY <1>1, <1>2, FewerKnow
<1>5. Answers(e, h) /\ Unique(h.given)
  BY <1>1, <1>2, <1>3, <1>4 DEF Answers
<1>6. \A v \in Of(s) : worker'[v].at # "write"
  BY <1>1, <1>3 DEF Quiet
<1>7. \A v \in Of(s) : Inserting(v)' => v # w /\ worker'[v] = worker[v] /\ Inserting(v)
                                        /\ Pending(v)' = Pending(v)
  BY <1>1, <1>3 DEF Quiet, Inserting, Pending
<1>8. CopyInv(s)'
  <2>1. ASSUME NEW v \in Of(s), Inserting(v)'
        PROVE  /\ Knows(copy[s], Pending(v))'
               /\ \A g \in known'[s].given : g[1] # worker'[v].id
               /\ \A u \in Of(s) : Inserting(u)' /\ u # v => worker'[u].id # worker'[v].id
    <3>1. /\ Knows(d, Pending(v)) /\ \A g \in k.given : g[1] # worker[v].id
          /\ \A u \in Of(s) : Inserting(u) /\ u # v => worker[u].id # worker[v].id
      BY <1>2, <1>3, <1>7, <2>1 DEF CopyInv
    <3>2. QED
      BY <1>2, <1>3, <1>4, <1>7, <2>1, <3>1
  <2>2. Answers(copy[s], known[s])' /\ Unique(known[s].given)'
    BY <1>2, <1>3, <1>5
  <2>3. QED
    BY <1>3, <1>6, <2>1, <2>2 DEF CopyInv
<1>9. QED
  BY <1>3, <1>8

\* What knows an event knows it when a new one has the next id.
LEMMA GrownKnows ==
    ASSUME NEW d, NEW e, NEW n, Grown(d, e, n), d.next_event_id \in Nat, NEW g, g[1] \in Nat,
           Knows(d, g)
    PROVE  Knows(e, g) /\ g[1] # d.next_event_id
<1>1. g[1] < d.next_event_id
  BY DEF Knows
<1>2. g[1] # d.next_event_id
  BY <1>1
<1>3. g[1] < e.next_event_id
  BY <1>1 DEF Grown
<1>4. ASSUME g[1] \in DOMAIN e.events PROVE e.events[g[1]].entry = g[2]
  <2>1. g[1] \in DOMAIN d.events
    BY <1>2, <1>4 DEF Grown
  <2>2. QED
    BY <2>1 DEF Grown, Knows
<1>5. QED
  BY <1>2, <1>3, <1>4 DEF Knows

\* An insert gives an id of its own.
LEMMA InsertStep ==
    ASSUME CalendarInv, NEW w \in Workers, NEW left \in 0..1, insert_event(w, left)
    PROVE  (\A q \in Sessions : CopyInv(q)') /\ FileInv'
<1>0. SizesInv
  BY DEF CalendarInv
<1>1. PICK e, r : /\ Edits(w, e, r) /\ Grown(copy[w[1]], e, operations + 1)
                  /\ r.at = "changed" /\ r.entry = operations + 1
                  /\ r.id = copy[w[1]].next_event_id
  BY <1>0, InsertEdits
<1>2. UNCHANGED known
  BY <1>0, InsertEdits
<1>3. PICK s, d, k, n : s = w[1] /\ d = copy[s] /\ k = known[s] /\ n = operations + 1
  OBVIOUS
<1>4. /\ stage'[s] = "up" /\ copy'[s] = e /\ worker'[w] = r
      /\ \A v \in Of(s) : worker[v].at # "write" /\ (v # w => worker'[v] = worker[v])
      /\ CopyInv(s) /\ Answers(d, k) /\ FileInv'
      /\ CopyInv(s)' => \A q \in Sessions : CopyInv(q)'
  BY <1>1, <1>2, <1>3, EditedSession
<1>5. /\ d.next_event_id \in Nat /\ n # 0
      /\ \A g \in k.given : g[1] \in Nat
      /\ \A v \in Of(s) : worker[v].id \in Nat
  <2>1. s \in Sessions /\ IsData(d, operations) /\ operations \in Nat
    BY <1>0, <1>3, OperationFacts
  <2>2. IsHistory(k, operations)
    BY <1>0, <1>3, <2>1 DEF SizesInv
  <2>3. ASSUME NEW g \in k.given PROVE g[1] \in Nat
    BY <2>2 DEF IsHistory, EventIds
  <2>4. ASSUME NEW v \in Of(s) PROVE worker[v].id \in Nat
    <3>1. Going(worker[v], operations)
      BY <1>0, <2>1, ThreadFacts DEF SizesInv
    <3>2. QED
      BY <3>1 DEF Going, EventIds
  <2>5. d.next_event_id \in Nat /\ n # 0
    BY <1>3, <2>1 DEF IsData
  <2>6. QED
    BY <2>3, <2>4, <2>5
<1>6. Grown(d, e, n) /\ r.at = "changed" /\ r.entry = n /\ r.id = d.next_event_id
  BY <1>1, <1>3
<1>7. \A g \in k.given : Knows(e, g) /\ g[1] # r.id
  <2>1. \A g \in k.given : Knows(d, g)
    BY <1>4 DEF Answers
  <2>2. QED
    BY <1>5, <1>6, <2>1, GrownKnows
<1>8. Answers(e, k)
  <2>1. \A g \in k.kept : g[1] \in DOMAIN e.events
    BY <1>4, <1>6 DEF Answers, Grown
  <2>2. QED
    BY <1>4, <1>7, <2>1 DEF Answers
<1>9. Knows(e, <<r.id, n>>)
  <2>1. r.id < e.next_event_id /\ e.events[r.id].entry = n
    BY <1>5, <1>6 DEF Grown
  <2>2. QED
    BY <2>1 DEF Knows
<1>10. ASSUME NEW v \in Of(s), v # w, Inserting(v)'
       PROVE  /\ Inserting(v) /\ Pending(v)' = Pending(v) /\ worker'[v] = worker[v]
              /\ Knows(e, Pending(v)) /\ worker[v].id # r.id
              /\ \A g \in k.given : g[1] # worker[v].id
              /\ \A u \in Of(s) : Inserting(u) /\ u # v => worker[u].id # worker[v].id
  <2>1. worker'[v] = worker[v]
    BY <1>4, <1>10
  <2>2. Inserting(v) /\ Pending(v)' = Pending(v)
    BY <1>10, <2>1 DEF Inserting, Pending
  <2>3. /\ Knows(d, Pending(v)) /\ \A g \in k.given : g[1] # worker[v].id
        /\ \A u \in Of(s) : Inserting(u) /\ u # v => worker[u].id # worker[v].id
    BY <1>3, <1>4, <2>2 DEF CopyInv
  <2>p. Pending(v)[1] = worker[v].id
    BY DEF Pending
  <2>4. PICK g : g = Pending(v) /\ g[1] = worker[v].id
    BY <2>p
  <2>5. Knows(e, g) /\ g[1] # d.next_event_id
    BY <1>5, <1>6, <2>3, <2>4, GrownKnows
  <2>6. QED
    BY <1>6, <2>1, <2>2, <2>3, <2>4, <2>5
<1>11. Inserting(w)' /\ Pending(w)' = <<r.id, n>> /\ w \in Of(s)
  BY <1>3, <1>4, <1>5, <1>6, ThreadFacts DEF Inserting, Pending
<1>12. ASSUME NEW v \in Of(s), Inserting(v)'
       PROVE  /\ Knows(copy[s], Pending(v))'
              /\ \A g \in known'[s].given : g[1] # worker'[v].id
              /\ \A u \in Of(s) : Inserting(u)' /\ u # v => worker'[u].id # worker'[v].id
  <2>1. known'[s] = k /\ copy'[s] = e
    BY <1>2, <1>3, <1>4
  <2>2. CASE v = w
    <3>1. Knows(copy[s], Pending(v))'
      BY <1>9, <1>11, <2>1, <2>2
    <3>2. worker'[v].id = r.id
      BY <1>4, <2>2
    <3>3. QED
      BY <1>7, <1>10, <2>1, <2>2, <3>1, <3>2
  <2>3. CASE v # w
    <3>1. Knows(copy[s], Pending(v))'
      BY <1>10, <1>12, <2>1, <2>3
    <3>2. \A u \in Of(s) : Inserting(u)' /\ u # v => worker'[u].id # worker'[v].id
      BY <1>4, <1>10, <1>12, <2>3
    <3>3. QED
      BY <1>10, <1>12, <2>1, <2>3, <3>1, <3>2
  <2>4. QED
    BY <2>2, <2>3
<1>13. \A v \in Of(s) : worker'[v].at # "write"
  BY <1>4, <1>6
<1>14. CopyInv(s)'
  <2>1. Answers(copy[s], known[s])' /\ Unique(known[s].given)'
    BY <1>2, <1>3, <1>4, <1>8 DEF Answers
  <2>2. QED
    BY <1>4, <1>12, <1>13, <2>1 DEF CopyInv
<1>15. QED
  BY <1>4, <1>14

\* The other changes: an event that is deleted is no longer kept.
LEMMA OtherEditsStep ==
    ASSUME CalendarInv, NEW w \in Workers, NEW left \in 0..1,
           \/ \E id : update_event(w, left, id) \/ delete_event(w, left, id)
           \/ \E id \in Reminded : insert_reminder(w, left, id)
    PROVE  (\A q \in Sessions : CopyInv(q)') /\ FileInv'
<1>0. SizesInv /\ w[1] \in Sessions
  BY ThreadFacts DEF CalendarInv
<1>1. PICK s, d, k : s = w[1] /\ d = copy[s] /\ k = known[s]
  OBVIOUS
<1>2. ASSUME NEW domain, EditsOnly(w, left, domain) PROVE \A g \in k.kept : g[1] \in DOMAIN d.events
  <2>1. PICK e, r : Edits(w, e, r)
    BY <1>2 DEF EditsOnly
  <2>2. stage[s] = "up"
    BY <1>1, <2>1 DEF Edits
  <2>3. QED
    BY <1>0, <1>1, <2>2 DEF CalendarInv, CopyInv, Answers
<1>3. ASSUME EditsOnly(w, left, DOMAIN d.events), UNCHANGED known
      PROVE  (\A q \in Sessions : CopyInv(q)') /\ FileInv'
  <2>1. PICK h : h = k
    OBVIOUS
  <2>2. /\ known'[w[1]] = h /\ \A q \in Sessions : q # w[1] => known'[q] = known[q]
        /\ h.given = known[w[1]].given /\ h.kept \subseteq known[w[1]].kept
        /\ \A g \in h.kept : g[1] \in DOMAIN d.events
    BY <1>1, <1>2, <1>3, <2>1
  <2>3. QED
    BY <1>3, <2>2, EditStep
<1>4. ASSUME NEW id, delete_event(w, left, id)
      PROVE  (\A q \in Sessions : CopyInv(q)') /\ FileInv'
  <2>1. EditsOnly(w, left, DOMAIN d.events \ {id})
    BY <1>0, <1>1, <1>4, DeleteEdits
  <2>2. CASE UNCHANGED known /\ id \notin DOMAIN d.events
    <3>1. DOMAIN d.events \ {id} = DOMAIN d.events
      BY <2>2
    <3>2. QED
      BY <1>3, <2>1, <2>2, <3>1
  <2>3. CASE known' = [known EXCEPT ![w[1]].kept = {g \in @ : g[1] # id}]
    <3>1. PICK h : h = [k EXCEPT !.kept = {g \in @ : g[1] # id}]
      OBVIOUS
    <3>2. known' = [known EXCEPT ![w[1]] = h]
      BY <1>1, <2>3, <3>1
    <3>3. IsHistory(k, operations)
      BY <1>0, <1>1 DEF SizesInv
    <3>4. h = [kept |-> {g \in k.kept : g[1] # id}, given |-> k.given]
      BY <3>1, <3>3 DEF IsHistory
    <3>5. /\ known'[w[1]] = h /\ \A q \in Sessions : q # w[1] => known'[q] = known[q]
          /\ h.given = known[w[1]].given /\ h.kept \subseteq known[w[1]].kept
          /\ \A g \in h.kept : g[1] \in DOMAIN d.events \ {id}
      BY <1>0, <1>1, <1>2, <2>1, <3>2, <3>4 DEF SizesInv
    <3>6. QED
      BY <2>1, <3>5, EditStep
  <2>4. QED
    BY <1>0, <1>1, <1>4, <2>2, <2>3, DeleteEdits
<1>5. ASSUME NEW id, update_event(w, left, id) \/ (id \in Reminded /\ insert_reminder(w, left, id))
      PROVE  (\A q \in Sessions : CopyInv(q)') /\ FileInv'
  <2>1. EditsOnly(w, left, DOMAIN d.events) /\ UNCHANGED known
    BY <1>0, <1>1, <1>5, UpdateEdits, ReminderEdits
  <2>2. QED
    BY <1>3, <2>1
<1>6. QED
  BY <1>4, <1>5

\* A thread starts to write the copy of its session; it has the mutex until it is done.
LEMMA PersistBeginStep ==
    ASSUME CalendarInv, NEW w \in Workers, PersistBegin(w)
    PROVE  (\A q \in Sessions : CopyInv(q)') /\ FileInv'
<1>0. PICK s : s = w[1] /\ s \in Sessions /\ w \in Of(s) /\ SizesInv /\ CopyInv(s)
  BY ThreadFacts DEF CalendarInv
<1>1. PICK r : /\ worker' = [worker EXCEPT ![w] = r]
               /\ r.at = "write" /\ r.entry = worker[w].entry /\ r.id = worker[w].id
               /\ r.data = copy[s]
  BY <1>0, BeginFacts
<1>2. /\ worker[w].at = "changed" /\ MutexFree(s) /\ file' = Torn
      /\ UNCHANGED <<stage, copy, known>>
  BY <1>0 DEF PersistBegin
<1>3. worker'[w] = r /\ \A v \in Workers : v # w => worker'[v] = worker[v]
  BY <1>1 DEF CalendarInv, SizesInv
<1>4. \A v \in Of(s) : v \in Workers /\ worker[v].at # "write"
  BY <1>0, <1>2, ThreadFacts DEF MutexFree
<1>5. \A v \in Of(s) : /\ Inserting(v)' <=> Inserting(v)
                       /\ Pending(v)' = Pending(v) /\ worker'[v].id = worker[v].id
  BY <1>1, <1>2, <1>3, <1>4 DEF Inserting, Pending
<1>6. \A v \in Of(s) : worker'[v].at = "write" => v = w
  BY <1>3, <1>4
<1>7. \A v \in Of(s) : worker'[v].at # "idle" => stage[s] = "up"
  BY <1>0, <1>2, <1>3, <1>4 DEF CopyInv
<1>8. CopyInv(s)'
  <2>1. \A v \in Of(s) : worker'[v].at = "write" =>
           worker'[v].data = copy'[s] /\ \A u \in Of(s) : worker'[u].at = "write" => u = v
    BY <1>1, <1>2, <1>3, <1>6
  <2>2. \A v \in Of(s) : Inserting(v)' =>
          /\ Knows(copy[s], Pending(v))'
          /\ \A g \in known'[s].given : g[1] # worker'[v].id
          /\ \A u \in Of(s) : Inserting(u)' /\ u # v => worker'[u].id # worker'[v].id
    BY <1>0, <1>2, <1>5 DEF CopyInv
  <2>3. QED
    BY <1>0, <1>2, <1>7, <2>1, <2>2 DEF CopyInv
<1>9. FileInv'
  BY <1>2 DEF FileInv
<1>10. \A v \in Workers : v[1] # s => worker'[v] = worker[v]
  BY <1>0, <1>3
<1>11. QED
  BY <1>0, <1>2, <1>8, <1>9, <1>10, OthersStay DEF CalendarInv

\* What a session knows once a thread has answered, its copy answers for.
LEMMA AnswerKnown ==
    ASSUME CalendarInv, NEW w \in Workers, worker[w].at # "idle", NEW h, h = KnownAfter(w)
    PROVE  /\ Answers(copy[w[1]], h)
           /\ \A g \in h.given : g \in known[w[1]].given \/ (Inserting(w) /\ g = Pending(w))
<1>0. PICK s, d, k : /\ s = w[1] /\ s \in Sessions /\ w \in Of(s) /\ d = copy[s] /\ k = known[s]
                     /\ SizesInv /\ CopyInv(s)
  BY ThreadFacts DEF CalendarInv
<1>1. Answers(d, k)
  BY <1>0 DEF CopyInv
<1>2. /\ worker[w].entry = 0 => h = k
      /\ worker[w].entry # 0 =>
            /\ h.given = k.given \cup {Pending(w)}
            /\ h.kept \subseteq k.kept \cup {Pending(w)}
            /\ Pending(w) \in h.kept =>
                  Pending(w) \in k.kept \/ worker[w].id \in DOMAIN d.events
  BY <1>0, KnownAfterFacts
<1>3. CASE worker[w].entry = 0
  BY <1>0, <1>1, <1>2, <1>3
<1>4. CASE worker[w].entry # 0
  <2>1. Inserting(w) /\ Pending(w)[1] = worker[w].id
    BY <1>4 DEF Inserting, Pending
  <2>2. Knows(d, Pending(w)) /\ \A g \in k.given : g[1] # worker[w].id
    BY <1>0, <2>1 DEF CopyInv
  <2>3. PICK p : p = Pending(w) /\ p[1] = worker[w].id
    BY <2>1
  <2>4. /\ h.given = k.given \cup {p} /\ h.kept \subseteq k.kept \cup {p}
        /\ p \in h.kept => p \in k.kept \/ p[1] \in DOMAIN d.events
        /\ Knows(d, p) /\ \A g \in k.given : g[1] # p[1]
    BY <1>2, <1>4, <2>2, <2>3
  <2>5. SampleIds \subseteq h.given /\ h.kept \subseteq h.given
    BY <1>1, <2>4 DEF Answers
  <2>6. Unique(h.given)
    BY <1>1, <2>4 DEF Answers, Unique
  <2>7. \A g \in h.given : Knows(d, g)
    BY <1>1, <2>4 DEF Answers
  <2>8. \A g \in h.kept : g[1] \in DOMAIN d.events
    BY <1>1, <2>4 DEF Answers
  <2>9. Answers(d, h)
    BY <2>5, <2>6, <2>7, <2>8 DEF Answers
  <2>10. QED
    BY <1>0, <2>1, <2>3, <2>4, <2>9
<1>5. QED
  BY <1>3, <1>4

\* The operation is answered, whatever became of its write.
LEMMA AnswerStep ==
    ASSUME CalendarInv, NEW w \in Workers, PersistEnd(w) \/ PersistFails(w)
    PROVE  (\A q \in Sessions : CopyInv(q)') /\ FileInv'
<1>0. PICK s : s = w[1] /\ s \in Sessions /\ w \in Of(s) /\ SizesInv /\ CopyInv(s)
  BY ThreadFacts DEF CalendarInv
<1>1. /\ Answer(w) /\ worker[w].at # "idle"
      /\ \/ UNCHANGED <<file, filed>>
         \/ Written(worker[w].data, KnownAfter(w)) /\ worker[w].at = "write"
  BY DEF PersistEnd, PersistFails
<1>2. PICK r : worker' = [worker EXCEPT ![w] = r] /\ Quiet(r) /\ r.at = "idle"
  BY <1>0, <1>1, AnswerFacts
<1>3. PICK h : h = KnownAfter(w)
  OBVIOUS
<1>4. known' = [known EXCEPT ![s] = h] /\ UNCHANGED <<stage, copy>>
  BY <1>0, <1>1, <1>3 DEF Answer
<1>5. /\ worker'[w] = r /\ \A v \in Workers : v # w => worker'[v] = worker[v]
      /\ known'[s] = h /\ \A q \in Sessions : q # s => known'[q] = known[q]
  BY <1>0, <1>2, <1>4 DEF SizesInv
<1>6. /\ Answers(copy[s], h)
      /\ \A g \in h.given : g \in known[s].given \/ (Inserting(w) /\ g = Pending(w))
  BY <1>0, <1>1, <1>3, AnswerKnown
<1>7. \A v \in Of(s) : v \in Workers
  BY <1>0, ThreadFacts
<1>8. \A v \in Of(s) : worker'[v].at # "idle" => v # w /\ worker'[v] = worker[v]
  BY <1>2, <1>5, <1>7
<1>9. ASSUME NEW v \in Of(s), Inserting(v)'
      PROVE  /\ Knows(copy[s], Pending(v))'
             /\ \A g \in known'[s].given : g[1] # worker'[v].id
             /\ \A u \in Of(s) : Inserting(u)' /\ u # v => worker'[u].id # worker'[v].id
  <2>1. v # w /\ worker'[v] = worker[v] /\ Inserting(v) /\ Pending(v)' = Pending(v)
    BY <1>8, <1>9 DEF Inserting, Pending
  <2>2. /\ Knows(copy[s], Pending(v)) /\ \A g \in known[s].given : g[1] # worker[v].id
        /\ \A u \in Of(s) : Inserting(u) /\ u # v => worker[u].id # worker[v].id
    BY <1>0, <2>1 DEF CopyInv
  <2>3. \A g \in h.given : g[1] # worker[v].id
    BY <1>0, <1>6, <2>1, <2>2 DEF Pending
  <2>4. \A u \in Of(s) : Inserting(u)' => Inserting(u) /\ worker'[u] = worker[u]
    BY <1>8 DEF Inserting
  <2>5. QED
    BY <1>4, <1>5, <2>1, <2>2, <2>3, <2>4
<1>10. CopyInv(s)'
  <2>1. Answers(copy[s], known[s])' /\ Unique(known[s].given)'
    BY <1>4, <1>5, <1>6 DEF Answers
  <2>2. /\ \A v \in Of(s) : worker'[v].at # "idle" => stage'[s] = "up"
        /\ \A v \in Of(s) : worker'[v].at = "write" =>
             worker'[v].data = copy'[s] /\ \A u \in Of(s) : worker'[u].at = "write" => u = v
    BY <1>0, <1>4, <1>8 DEF CopyInv
  <2>3. QED
    BY <1>9, <2>1, <2>2 DEF CopyInv
<1>11. FileInv'
  <2>1. CASE UNCHANGED <<file, filed>>
    BY <2>1 DEF CalendarInv, FileInv
  <2>2. CASE Written(worker[w].data, KnownAfter(w)) /\ worker[w].at = "write"
    <3>1. worker[w].data = copy[s]
      BY <1>0, <2>2 DEF CopyInv
    <3>2. Answers(worker[w].data, h) /\ Written(worker[w].data, h) /\ FileInv
      BY <1>3, <1>6, <2>2, <3>1 DEF CalendarInv
    <3>3. QED
      BY <3>2, WrittenFile
  <2>3. QED
    BY <1>1, <2>1, <2>2
<1>12. \A v \in Workers : v[1] # s => worker'[v] = worker[v]
  BY <1>0, <1>5
<1>13. QED
  BY <1>0, <1>4, <1>5, <1>10, <1>11, <1>12, OthersStay DEF CalendarInv

\* A first start, with no thread at work.
LEMMA CalendarInitially == CalendarInit => CalendarInv
<1> SUFFICES ASSUME CalendarInit PROVE CalendarInv
  OBVIOUS
<1>1. Unique(NothingKnown.given)
  BY DefaultAnswers DEF Answers
<1>2. ASSUME NEW s \in Sessions PROVE CopyInv(s)
  <2>1. \A w \in Of(s) : worker[w].at = "idle"
    BY ThreadFacts DEF CalendarInit, Idle
  <2>2. stage[s] = "down" /\ known[s] = NothingKnown
    BY DEF CalendarInit
  <2>3. QED
    BY <1>1, <2>1, <2>2 DEF CopyInv, Inserting
<1>3. FileInv
  BY DEF CalendarInit, FileInv
<1>4. QED
  BY <1>2, <1>3, SizesInitially DEF CalendarInv

\* Every step of any number of sessions keeps the invariant.
LEMMA CalendarStep ==
    ASSUME CalendarInv, [CalendarNext]_calendarVars
    PROVE  CalendarInv'
<1>1. SizesInv'
  BY SizesStep DEF CalendarInv
<1>2. (\A q \in Sessions : CopyInv(q)') /\ FileInv'
  <2>1. CASE UNCHANGED calendarVars
    <3>1. UNCHANGED <<stage, copy, file, worker, known, filed>>
      BY <2>1 DEF calendarVars
    <3>2. \A w : (Inserting(w)' <=> Inserting(w)) /\ Pending(w)' = Pending(w)
      BY <3>1 DEF Inserting, Pending
    <3>3. QED
      BY <3>1, <3>2 DEF CalendarInv, CopyInv, FileInv
  <2>2. QED
    BY <2>1, LoadStep, LoadPersistStep, ExitStep, InsertStep, OtherEditsStep, PersistBeginStep,
       AnswerStep
    DEF CalendarNext
<1>3. QED
  BY <1>1, <1>2 DEF CalendarInv

\* What a copy knows of an event is what a query by its id returns.
LEMMA KeptAreFound ==
    ASSUME CalendarInv
    PROVE  KeptEventsAreFound /\ IdsAreNotReused
<1>1. ASSUME NEW s \in Sessions, stage[s] = "up", NEW g \in known[s].kept
      PROVE  /\ Query(copy[s], "events", g[1], InstanceWindow("when", 0, 0)) = {g[1]}
             /\ copy[s].events[g[1]].entry = g[2]
  <2>1. Knows(copy[s], g) /\ g[1] \in DOMAIN copy[s].events
    BY <1>1 DEF CalendarInv, CopyInv, Answers
  <2>2. g[1] # 0
    BY DEF CalendarInv, SizesInv, IsHistory, EventIds
  <2>3. QED
    BY <2>1, <2>2 DEF Knows, Query, EventRows
<1>2. IdsAreNotReused
  BY DEF CalendarInv, CopyInv, Unique, IdsAreNotReused
<1>3. QED
  BY <1>1, <1>2 DEF KeptEventsAreFound

\* A whole file has what it was to keep.
LEMMA FilesHaveAll ==
    ASSUME CalendarInv
    PROVE  WholeFilesHaveAll
BY DEF CalendarInv, FileInv, Answers, Knows, WholeFilesHaveAll

\* The instances in a window, from what the query asks of the start and the end.
LEMMA WindowsAreRight ==
    ASSUME CalendarInv
    PROVE  InstancesAreTheWindows
<1>1. ASSUME NEW s \in Sessions, NEW w, w.begin \in Int, w.end \in Int,
             NEW i \in DOMAIN copy[s].events
      PROVE  LET e    == copy[s].events[i].span
                 rows == Query(copy[s], "instances", 0, w)
             IN  /\ (e.start \in w.begin..(w.end - 1) /\ e.start <= e.end) => i \in rows
                 /\ i \in rows => e.start < w.end /\ (e.end > w.begin \/ e.start >= w.begin)
  <2>1. PICK e : e = copy[s].events[i].span
    OBVIOUS
  <2>2. e.start \in Int /\ e.end \in Int
    <3>1. copy[s].events[i] \in [span : Spans, entry : 0..operations]
      BY DEF CalendarInv, SizesInv, Sized, IsData
    <3>2. e \in Spans
      BY <2>1, <3>1
    <3>3. e \in [start : Int, end : Int]
      BY <3>2, CalendarAssumption
    <3>4. QED
      BY <3>3
  <2>3. i \in Query(copy[s], "instances", 0, w) <=> InWindow(e, w)
    BY <2>1 DEF Query, InstanceRows
  <2>4. QED
    BY <1>1, <2>1, <2>2, <2>3 DEF InWindow
<1>2. ASSUME NEW from \in Times, NEW to \in Times \cup {t + 1 : t \in Times},
             NEW kind \in {"when", "whenbyday"}
      PROVE  InstanceWindow(kind, from, to).begin \in Int /\ InstanceWindow(kind, from, to).end \in Int
  <2>1. Times \subseteq Int
    BY CalendarAssumption DEF Times
  <2>2. from \in Int /\ to \in Int
    BY <2>1
  <2>3. QED
    BY <2>2 DEF InstanceWindow
<1>3. SUFFICES
        ASSUME NEW s \in {r \in Sessions : stage[r] = "up"}, NEW from \in Times,
               NEW to \in Times \cup {t + 1 : t \in Times}, NEW kind \in {"when", "whenbyday"},
               NEW i \in DOMAIN copy[s].events
        PROVE  LET w    == InstanceWindow(kind, from, to)
                   rows == Query(copy[s], "instances", 0, w)
                   e    == copy[s].events[i].span
               IN  /\ (e.start \in w.begin..(w.end - 1) /\ e.start <= e.end) => i \in rows
                   /\ i \in rows => e.start < w.end /\ (e.end > w.begin \/ e.start >= w.begin)
  BY Zenon DEF InstancesAreTheWindows
<1>4. PICK w : w = InstanceWindow(kind, from, to)
  OBVIOUS
<1>5. s \in Sessions /\ w.begin \in Int /\ w.end \in Int
  BY <1>2, <1>4
<1>6. QED
  BY <1>1, <1>4, <1>5


\* For any number of sessions and threads, and whatever becomes of their writes: each
\* session finds the events it answered for, under ids that it gave once, in the windows
\* they are part of, and a file that is whole has what its writer had kept.
THEOREM CalendarKnowsItsEventsAlways == CalendarSpec => []CalendarKnowsItsEvents
<1>1. CalendarInit => CalendarInv
  BY CalendarInitially
<1>2. CalendarInv /\ [CalendarNext]_calendarVars => CalendarInv'
  BY CalendarStep
<1>3. CalendarInv => CalendarKnowsItsEvents
  BY KeptAreFound, FilesHaveAll, WindowsAreRight DEF CalendarKnowsItsEvents
<1>4. QED
  BY <1>1, <1>2, <1>3, PTL DEF CalendarSpec

-----------------------------------------------------------------------------
(***************************************************************************)
(* The media provider: what it finds, what it answers, and the ids.        *)
(***************************************************************************)

(* The index, 1: what is in order.                                         *)

\* below has, for every element, those that come before it.
Ordered(S, below) ==
    /\ below \in [S -> SUBSET S]
    /\ \A x \in S : x \notin below[x]
    /\ \A x \in S : \A y \in below[x] : below[y] \subseteq below[x]
    /\ \A x \in S : \A y \in S : x # y => x \in below[y] \/ y \in below[x]

\* There are elements with 0, 1, 2 and so on elements before them.
EveryRank(S, below) ==
    \A k \in 1 .. Cardinality(S) : \E x \in S : Cardinality(below[x]) = k - 1

\* In a finite order every number of predecessors occurs, once.
LEMMA Ranked ==
    ASSUME NEW S, IsFiniteSet(S), NEW below, Ordered(S, below)
    PROVE  /\ \A x \in S : Cardinality(below[x]) + 1 \in 1 .. Cardinality(S)
           /\ \A x \in S : \A y \in S : Cardinality(below[x]) = Cardinality(below[y]) => x = y
           /\ EveryRank(S, below)
<1>1. Cardinality(S) \in Nat
  BY FS_CardinalityType
<1>2. \A x \in S : below[x] \subseteq S /\ IsFiniteSet(below[x]) /\ Cardinality(below[x]) \in Nat
  BY FS_Subset, FS_CardinalityType DEF Ordered
<1>3. ASSUME NEW x \in S, NEW y \in S, x \in below[y]
      PROVE  Cardinality(below[x]) < Cardinality(below[y])
  <2>1. below[x] \subseteq below[y] /\ x \notin below[x]
    BY <1>3 DEF Ordered
  <2>2. /\ Cardinality(below[x]) <= Cardinality(below[y])
        /\ Cardinality(below[y]) = Cardinality(below[x]) => below[y] = below[x]
    BY <1>2, <2>1, FS_Subset
  <2>3. QED
    BY <1>2, <1>3, <2>1, <2>2
<1>4. \A x \in S : \A y \in S : Cardinality(below[x]) = Cardinality(below[y]) => x = y
  <2> SUFFICES ASSUME NEW x \in S, NEW y \in S, x # y
               PROVE  Cardinality(below[x]) # Cardinality(below[y])
    OBVIOUS
  <2>1. x \in below[y] \/ y \in below[x]
    BY DEF Ordered
  <2>2. QED
    BY <1>2, <1>3, <2>1
<1>5. ASSUME NEW x \in S
      PROVE  Cardinality(below[x]) + 1 \in 1 .. Cardinality(S)
  <2>1. below[x] \subseteq S /\ x \notin below[x]
    BY <1>2 DEF Ordered
  <2>2. /\ Cardinality(below[x]) <= Cardinality(S)
        /\ Cardinality(S) = Cardinality(below[x]) => S = below[x]
    BY <2>1, FS_Subset
  <2>3. QED
    BY <1>1, <1>2, <2>1, <2>2
<1> DEFINE T == 1 .. Cardinality(S)
           f == [x \in S |-> Cardinality(below[x]) + 1]
<1>6. f \in Injection(S, T)
  <2>1. f \in [S -> T]
    BY <1>5
  <2>2. \A x \in S : \A y \in S : f[x] = f[y] => x = y
    BY <1>2, <1>4
  <2>3. QED
    BY <2>1, <2>2 DEF Injection, IsInjective
<1>7. IsFiniteSet(T) /\ Cardinality(T) = Cardinality(S)
  BY <1>1, FS_Interval
<1>8. f \in Surjection(S, T)
  BY <1>6, <1>7, FS_Injection
<1>9. ASSUME NEW k \in 1 .. Cardinality(S)
      PROVE  \E x \in S : Cardinality(below[x]) = k - 1
  <2>1. PICK x \in S : f[x] = k
    BY <1>8 DEF Surjection
  <2>2. QED
    BY <1>1, <1>2, <2>1
<1>10. QED
  BY <1>4, <1>5, <1>9 DEF EveryRank

\* s has every element of S, each once.
Lists(s, S) ==
    /\ s \in Seq(S) /\ Len(s) = Cardinality(S)
    /\ \A x \in S : \E k \in 1 .. Len(s) : s[k] = x
    /\ \A j \in 1 .. Len(s) : \A k \in 1 .. Len(s) : s[j] = s[k] => j = k

\* A sequence of elements with 0, 1, 2 and so on elements before them.
LEMMA RanksList ==
    ASSUME NEW S, IsFiniteSet(S), NEW below, Ordered(S, below),
           NEW s \in Seq(S), Len(s) = Cardinality(S),
           \A k \in 1 .. Cardinality(S) : Cardinality(below[s[k]]) + 1 = k
    PROVE  Lists(s, S)
<1>1. PICK n \in Nat : n = Cardinality(S)
  BY FS_CardinalityType
<1>2. \A k \in 1 .. n : s[k] \in S
  BY <1>1
<1>3. ASSUME NEW x \in S
      PROVE  \E k \in 1 .. n : s[k] = x
  <2>1. Cardinality(below[x]) + 1 \in 1 .. n
    BY <1>1, Ranked
  <2>2. PICK k \in 1 .. n : k = Cardinality(below[x]) + 1
    BY <2>1
  <2>3. /\ Cardinality(below[x]) \in Nat /\ s[k] \in S
        /\ Cardinality(below[s[k]]) \in Nat
    BY <1>2, FS_Subset, FS_CardinalityType DEF Ordered
  <2>4. Cardinality(below[s[k]]) + 1 = k
    BY <1>1
  <2>5. Cardinality(below[s[k]]) = Cardinality(below[x])
    BY <2>2, <2>3, <2>4
  <2>6. s[k] = x
    BY <2>3, <2>5, Ranked
  <2>7. QED
    BY <2>6
<1>4. \A j \in 1 .. n : \A k \in 1 .. n : s[j] = s[k] => j = k
  <2> SUFFICES ASSUME NEW j \in 1 .. n, NEW k \in 1 .. n, s[j] = s[k]
               PROVE  j = k
    OBVIOUS
  <2>1. Cardinality(below[s[j]]) + 1 = j /\ Cardinality(below[s[k]]) + 1 = k
    BY <1>1
  <2>2. QED
    BY <2>1
<1>5. QED
  BY <1>1, <1>3, <1>4 DEF Lists

\* A finite set of numbers is listed.
LEMMA ByNameLists ==
    ASSUME NEW S \in SUBSET Nat, IsFiniteSet(S)
    PROVE  Lists(ByName(S), S)
<1>1. PICK s : s = ByName(S)
  OBVIOUS
<1>2. PICK below : below = [x \in S |-> {y \in S : y < x}]
  OBVIOUS
<1>3. \A x \in S : below[x] = {y \in S : y < x}
  BY <1>2
<1>4. Ordered(S, below)
  <2>1. below \in [S -> SUBSET S]
    BY <1>2
  <2>2. \A x \in S : x \notin below[x]
    BY <1>3
  <2>3. \A x \in S : \A y \in below[x] : below[y] \subseteq below[x]
    <3> SUFFICES ASSUME NEW x \in S, NEW y \in below[x], NEW z \in below[y]
                 PROVE  z \in below[x]
      OBVIOUS
    <3>1. y \in S /\ y < x
      BY <1>3
    <3>2. z \in S /\ z < y
      BY <1>3, <3>1
    <3>3. z < x
      BY <3>1, <3>2
    <3>4. QED
      BY <1>3, <3>2, <3>3
  <2>4. \A x \in S : \A y \in S : x # y => x \in below[y] \/ y \in below[x]
    BY <1>3
  <2>5. QED
    BY <2>1, <2>2, <2>3, <2>4 DEF Ordered
<1>5. PICK n \in Nat : n = Cardinality(S)
  BY FS_CardinalityType
<1>6. s = [k \in 1 .. n |-> CHOOSE x \in S : Cardinality({y \in S : y < x}) = k - 1]
  BY <1>1, <1>5 DEF ByName, InOrder
<1>7. ASSUME NEW k \in 1 .. n
      PROVE  s[k] \in S /\ Cardinality(below[s[k]]) + 1 = k
  <2>1. PICK x \in S : Cardinality(below[x]) = k - 1
    <3>1. EveryRank(S, below)
      BY <1>4, Ranked
    <3>2. QED
      BY <1>5, <3>1 DEF EveryRank
  <2>2. Cardinality({y \in S : y < x}) = k - 1
    BY <1>3, <2>1
  <2>3. s[k] = CHOOSE z \in S : Cardinality({y \in S : y < z}) = k - 1
    BY <1>6
  <2>4. s[k] \in S /\ Cardinality({y \in S : y < s[k]}) = k - 1
    BY <2>2, <2>3
  <2>5. Cardinality(below[s[k]]) = k - 1
    BY <1>3, <2>4
  <2>6. QED
    BY <2>4, <2>5
<1>8. s \in Seq(S) /\ Len(s) = n
  <2>1. s \in [1 .. n -> S]
    BY <1>6, <1>7
  <2>2. QED
    BY <2>1
<1>9. Lists(s, S)
  BY <1>4, <1>5, <1>7, <1>8, RanksList
<1>10. QED
  BY <1>1, <1>9
-----------------------------------------------------------------------------
(* The index, 2: how often a file is in a sequence.                        *)

\* What corresponds element by element is of one size.
LEMMA SameNumber ==
    ASSUME NEW A, IsFiniteSet(A), NEW B, NEW to,
           \A x \in A : to[x] \in B,
           \A x \in A : \A y \in A : to[x] = to[y] => x = y,
           \A z \in B : \E x \in A : to[x] = z
    PROVE  IsFiniteSet(B) /\ Cardinality(B) = Cardinality(A)
<1> DEFINE g == [x \in A |-> to[x]]
<1>1. g \in [A -> B]
  OBVIOUS
<1>2. \A x \in A : g[x] = to[x]
  OBVIOUS
<1> HIDE DEF g
<1>3. g \in Injection(A, B)
  BY <1>1, <1>2 DEF Injection, IsInjective
<1>4. g \in Surjection(A, B)
  BY <1>1, <1>2 DEF Surjection
<1>5. ExistsBijection(A, B)
  BY <1>3, <1>4 DEF Bijection, ExistsBijection
<1>6. QED
  BY <1>5, FS_Bijection

\* Those of the numbers from 1 to n that are in P.
UpTo(P, n) == {i \in 1 .. n : i \in P}

\* They are finitely many, and one more with a number more that is in P.
LEMMA CountOn ==
    ASSUME NEW P, NEW n \in Nat
    PROVE  /\ IsFiniteSet(UpTo(P, n)) /\ Cardinality(UpTo(P, n)) \in Nat
           /\ n + 1 \in P => Cardinality(UpTo(P, n + 1)) = Cardinality(UpTo(P, n)) + 1
           /\ n + 1 \notin P => Cardinality(UpTo(P, n + 1)) = Cardinality(UpTo(P, n))
<1>1. IsFiniteSet(1 .. n)
  BY FS_Interval
<1>2. UpTo(P, n) \subseteq 1 .. n
  BY DEF UpTo
<1>3. IsFiniteSet(UpTo(P, n)) /\ Cardinality(UpTo(P, n)) \in Nat
  BY <1>1, <1>2, FS_Subset, FS_CardinalityType
<1>4. ASSUME n + 1 \in P
      PROVE  Cardinality(UpTo(P, n + 1)) = Cardinality(UpTo(P, n)) + 1
  <2>1. UpTo(P, n + 1) = UpTo(P, n) \cup {n + 1}
    BY <1>4 DEF UpTo
  <2>2. n + 1 \notin UpTo(P, n)
    BY DEF UpTo
  <2>3. QED
    BY <1>3, <2>1, <2>2, FS_AddElement
<1>5. ASSUME n + 1 \notin P
      PROVE  UpTo(P, n + 1) = UpTo(P, n)
  BY <1>5 DEF UpTo
<1>6. QED
  BY <1>3, <1>4, <1>5

\* How often f is in s.
TimesIn(f, s) == Cardinality({i \in 1 .. Len(s) : s[i] = f})

\* A number, for every sequence.
LEMMA TimesIsNatural ==
    ASSUME NEW S, NEW s \in Seq(S), NEW f
    PROVE  /\ IsFiniteSet({i \in 1 .. Len(s) : s[i] = f})
           /\ TimesIn(f, s) \in Nat
<1>1. IsFiniteSet(1 .. Len(s)) /\ {i \in 1 .. Len(s) : s[i] = f} \subseteq 1 .. Len(s)
  BY FS_Interval
<1>2. QED
  BY <1>1, FS_Subset, FS_CardinalityType DEF TimesIn

\* In a sequence that lists a set every element is once, and nothing else is.
LEMMA TimesInList ==
    ASSUME NEW S, NEW s, Lists(s, S), NEW f
    PROVE  /\ f \in S => TimesIn(f, s) = 1
           /\ f \notin S => TimesIn(f, s) = 0
<1> DEFINE I == {i \in 1 .. Len(s) : s[i] = f}
<1>1. ASSUME f \in S
      PROVE  TimesIn(f, s) = 1
  <2>1. PICK k \in 1 .. Len(s) : s[k] = f
    BY <1>1 DEF Lists
  <2>2. I = {k}
    BY <2>1 DEF Lists
  <2>3. QED
    BY <2>2, FS_Singleton DEF TimesIn
<1>2. ASSUME f \notin S
      PROVE  TimesIn(f, s) = 0
  <2>1. s \in Seq(S)
    BY DEF Lists
  <2>2. I = {}
    BY <1>2, <2>1
  <2>3. QED
    BY <2>2, FS_EmptySet DEF TimesIn
<1>3. QED
  BY <1>1, <1>2

\* In two sequences, one after the other.
LEMMA TimesInBoth ==
    ASSUME NEW S, NEW u \in Seq(S), NEW v \in Seq(S), NEW f
    PROVE  /\ u \o v \in Seq(S) /\ Len(u \o v) = Len(u) + Len(v)
           /\ TimesIn(f, u \o v) = TimesIn(f, u) + TimesIn(f, v)
<1>1. PICK w : w = u \o v
  OBVIOUS
<1>2. /\ w \in Seq(S) /\ Len(w) = Len(u) + Len(v)
      /\ \A i \in 1 .. Len(u) : w[i] = u[i]
      /\ \A i \in 1 .. Len(v) : w[Len(u) + i] = v[i]
  BY <1>1
<1> DEFINE A == {i \in 1 .. Len(u) : u[i] = f}
           C == {i \in 1 .. Len(v) : v[i] = f}
           B == {i \in Len(u) + 1 .. Len(w) : w[i] = f}
           to == [i \in C |-> Len(u) + i]
<1>3. PICK m \in Nat, n \in Nat : m = Len(u) /\ n = Len(v)
  OBVIOUS
<1>4. IsFiniteSet(A) /\ Cardinality(A) \in Nat /\ IsFiniteSet(C) /\ Cardinality(C) \in Nat
  BY TimesIsNatural, FS_CardinalityType
<1>5. IsFiniteSet(B) /\ Cardinality(B) = Cardinality(C)
  <2>1. \A x \in C : to[x] = m + x /\ x \in 1 .. n /\ v[x] = f
    BY <1>3
  <2>2. \A x \in C : to[x] \in B
    BY <1>2, <1>3, <2>1
  <2>3. \A x \in C : \A y \in C : to[x] = to[y] => x = y
    BY <1>3, <2>1
  <2>4. ASSUME NEW z \in B
        PROVE  \E x \in C : to[x] = z
    <3>1. PICK x \in 1 .. n : z = m + x
      <4>1. z \in m + 1 .. m + n
        BY <1>2, <1>3
      <4>2. z - m \in 1 .. n /\ z = m + (z - m)
        BY <4>1
      <4>3. QED
        BY <4>2
    <3>2. w[z] = v[x] /\ w[z] = f
      BY <1>2, <1>3, <3>1
    <3>3. x \in C
      BY <1>3, <3>1, <3>2
    <3>4. QED
      BY <2>1, <3>1, <3>3
  <2> HIDE DEF B, C, to
  <2>5. QED
    BY <1>4, <2>2, <2>3, <2>4, SameNumber
<1>6. {i \in 1 .. Len(w) : w[i] = f} = A \cup B /\ A \cap B = {}
  BY <1>2, <1>3
<1>7. Cardinality(A \cup B) = Cardinality(A) + Cardinality(B) - Cardinality(A \cap B)
  BY <1>4, <1>5, FS_Union
<1>8. TimesIn(f, w) = Cardinality(A) + Cardinality(C)
  <2>1. Cardinality(A \cap B) = 0
    BY <1>6, FS_EmptySet
  <2>2. TimesIn(f, w) = Cardinality(A \cup B)
    BY <1>6 DEF TimesIn
  <2> HIDE DEF A, B, C
  <2>3. QED
    BY <1>4, <1>5, <1>7, <2>1, <2>2
<1>9. TimesIn(f, u) = Cardinality(A) /\ TimesIn(f, v) = Cardinality(C)
  BY DEF TimesIn
<1>10. QED
  BY <1>1, <1>2, <1>8, <1>9
-----------------------------------------------------------------------------
(* The index, 3: the functions that walk.                                  *)

\* What was found before, and after each of the directories.
WalkedBy(upTo, walk, dirs, found) ==
    /\ upTo[0] = found
    /\ \A n \in 1 .. Len(dirs) : upTo[n] = walk[dirs[n]][upTo[n - 1]]
    /\ WalkEach(walk, dirs, found) = upTo[Len(dirs)]

\* Directories are walked one after the other.
LEMMA WalkEachSteps ==
    ASSUME NEW walk, NEW dirs, Len(dirs) \in Nat, NEW found
    PROVE  \E upTo : WalkedBy(upTo, walk, dirs, found)
<1> DEFINE Is(g, k) == g = [i \in 0 .. k |->
                              IF i = 0 THEN found ELSE walk[dirs[i]][g[i - 1]]]
           S == {k \in Nat : \E g : Is(g, k)}
<1>1. 0 \in S
  <2>1. Is([i \in 0 .. 0 |-> found], 0)
    OBVIOUS
  <2>2. QED
    BY <2>1
<1>2. ASSUME NEW k \in Nat, k \in S
      PROVE  k + 1 \in S
  <2>1. PICK g : Is(g, k)
    BY <1>2
  <2>2. PICK final : final = walk[dirs[k + 1]][g[k]]
    OBVIOUS
  <2> DEFINE h == [n \in 0 .. k + 1 |-> IF n = k + 1 THEN final ELSE g[n]]
  <2>3. \A n \in 0 .. k : g[n] = IF n = 0 THEN found ELSE walk[dirs[n]][g[n - 1]]
    BY <2>1
  <2>4. \A n \in 0 .. k : n \in 0 .. k + 1 /\ n # k + 1 /\ h[n] = g[n]
    OBVIOUS
  <2>5. \A n \in 1 .. k : n - 1 \in 0 .. k /\ n \in 0 .. k
    OBVIOUS
  <2>6. h[k + 1] = final
    OBVIOUS
  <2>7. (k + 1) - 1 = k /\ k + 1 # 0 /\ k \in 0 .. k /\ 0 \in 0 .. k
    OBVIOUS
  <2>8. \A n \in 0 .. k + 1 : n = 0 \/ n \in 1 .. k \/ n = k + 1
    OBVIOUS
  <2>9. h = [n \in 0 .. k + 1 |-> h[n]]
    OBVIOUS
  <2> HIDE DEF h
  <2>10. \A n \in 0 .. k + 1 : h[n] = IF n = 0 THEN found ELSE walk[dirs[n]][h[n - 1]]
    BY <2>2, <2>3, <2>4, <2>5, <2>6, <2>7, <2>8
  <2>11. Is(h, k + 1)
    BY <2>9, <2>10
  <2> HIDE DEF Is
  <2>12. QED
    BY <2>11
<1> HIDE DEF S
<1>3. Len(dirs) \in S
  BY <1>1, <1>2, Induction
<1>4. PICK f : Is(f, Len(dirs))
  BY <1>3 DEF S
<1> DEFINE upTo == CHOOSE g : Is(g, Len(dirs))
<1>5. WalkEach(walk, dirs, found) = upTo[Len(dirs)]
  BY DEF WalkEach
<1>6. Is(upTo, Len(dirs))
  BY <1>4
<1> HIDE DEF upTo
<1>7. \A n \in 0 .. Len(dirs) : upTo[n] = IF n = 0 THEN found ELSE walk[dirs[n]][upTo[n - 1]]
  BY <1>6
<1>8. upTo[0] = found /\ \A n \in 1 .. Len(dirs) : upTo[n] = walk[dirs[n]][upTo[n - 1]]
  BY <1>7
<1>9. WalkedBy(upTo, walk, dirs, found)
  BY <1>5, <1>8 DEF WalkedBy
<1>10. QED
  BY <1>9

\* What a walk at a depth is, if a level deeper it is next.
WalkAt(depth, next) ==
    [dir \in Directories |-> [found \in Seq(Files) |->
        IF TooDeep(depth) \/ Len(found) >= MAX_VISUAL_ITEMS THEN found
        ELSE LET files == ByName(Pictures(dir))
                 room  == Room(Len(files), Len(found))
             IN  WalkEach(next, ByName(Subdirectories(dir)),
                          found \o SubSeq(files, 1, room))]]

\* At every depth the walk goes on with that of the next depth, until it is too deep.
LEMMA WalkSteps ==
    \A depth \in 0 .. MAX_WALK_DEPTH + 1 :
        walk_visual[depth] = WalkAt(depth, walk_visual[depth + 1])
<1>1. PICK M \in Nat : M = MAX_WALK_DEPTH
  BY MediaAssumption
<1>2. PICK top : top = [dir \in Directories |-> [found \in Seq(Files) |-> found]]
  OBVIOUS
<1>3. ASSUME NEW next
      PROVE  WalkAt(M + 1, next) = top
  <2>1. TooDeep(M + 1) = TRUE
    BY <1>1 DEF TooDeep
  <2>2. QED
    BY <1>2, <2>1 DEF WalkAt
<1> DEFINE Is(h, j) == /\ h[M + 1] = top
                       /\ \A d \in (M + 1) - j .. M : h[d] = WalkAt(d, h[d + 1])
           S == {j \in Nat : j <= M + 1 => \E h : Is(h, j)}
<1>4. 0 \in S
  <2>1. Is([d \in {M + 1} |-> top], 0)
    OBVIOUS
  <2> HIDE DEF Is
  <2>2. QED
    BY <2>1
<1>5. ASSUME NEW j \in Nat, j \in S
      PROVE  j + 1 \in S
  <2> SUFFICES ASSUME j + 1 <= M + 1 PROVE \E h : Is(h, j + 1)
    OBVIOUS
  <2>1. PICK h : Is(h, j)
    BY <1>5
  <2>2. PICK d \in 0 .. M : d = M - j
    OBVIOUS
  <2>3. PICK new : new = WalkAt(d, h[d + 1])
    OBVIOUS
  <2>4. PICK k : k = [n \in d .. M + 1 |-> IF n = d THEN new ELSE h[n]]
    OBVIOUS
  <2>5. k[d] = new /\ \A n \in d + 1 .. M + 1 : k[n] = h[n]
    BY <2>2, <2>4
  <2>6. k[M + 1] = top
    BY <2>1, <2>2, <2>5
  <2>7. ASSUME NEW n \in d .. M
        PROVE  k[n] = WalkAt(n, k[n + 1])
    <3>1. k[n + 1] = h[n + 1]
      BY <2>2, <2>5
    <3>2. CASE n = d
      BY <2>3, <2>5, <3>1, <3>2
    <3>3. CASE n # d
      <4>1. n \in (M + 1) - j .. M /\ n \in d + 1 .. M + 1
        BY <2>2, <3>3
      <4>2. h[n] = WalkAt(n, h[n + 1])
        BY <2>1, <4>1
      <4>3. QED
        BY <2>5, <3>1, <4>1, <4>2
    <3>4. QED
      BY <3>2, <3>3
  <2>8. (M + 1) - (j + 1) = d
    BY <2>2
  <2>9. Is(k, j + 1)
    BY <2>6, <2>7, <2>8
  <2> HIDE DEF Is
  <2>10. QED
    BY <2>9
<1> HIDE DEF S
<1>6. M + 1 \in S
  BY <1>4, <1>5, Induction
<1>7. PICK h : Is(h, M + 1)
  BY <1>6 DEF S
<1>8. h[M + 1] = top /\ \A d \in 0 .. M : h[d] = WalkAt(d, h[d + 1])
  BY <1>7
<1>9. PICK g : g = [d \in 0 .. M + 1 |-> h[d]]
  OBVIOUS
<1>10. ASSUME NEW d \in 0 .. M + 1
       PROVE  g[d] = WalkAt(d, g[d + 1])
  <2>1. CASE d = M + 1
    BY <1>3, <1>8, <1>9, <2>1
  <2>2. CASE d # M + 1
    <3>1. d \in 0 .. M /\ d + 1 \in 0 .. M + 1
      BY <2>2
    <3>2. QED
      BY <1>8, <1>9, <3>1
  <2>3. QED
    BY <2>1, <2>2
<1>11. g = [d \in 0 .. MAX_WALK_DEPTH + 1 |-> WalkAt(d, g[d + 1])]
  BY <1>1, <1>9, <1>10
<1>12. walk_visual = CHOOSE w : w = [d \in 0 .. MAX_WALK_DEPTH + 1 |-> WalkAt(d, w[d + 1])]
  BY DEF walk_visual, WalkAt
<1>13. walk_visual = [d \in 0 .. MAX_WALK_DEPTH + 1 |-> WalkAt(d, walk_visual[d + 1])]
  BY <1>11, <1>12
<1>14. QED
  BY <1>13
-----------------------------------------------------------------------------
(* The index, 4: directories are a tree, so a walk comes to a file from    *)
(* above on one path only.                                                 *)

\* The directory u starts with, the one it is in, and so on.
UpFrom(u, dir) ==
    /\ u \in [0 .. MAX_WALK_DEPTH -> Directories]
    /\ u[0] = dir
    /\ \A n \in 1 .. MAX_WALK_DEPTH : u[n] = Parent[u[n - 1]]

\* Above has the directories of that path.
LEMMA AboveSteps ==
    ASSUME NEW dir \in Directories
    PROVE  \E u : UpFrom(u, dir) /\ Above(dir) = {u[n] : n \in 0 .. MAX_WALK_DEPTH}
<1>1. PICK M \in Nat : M = MAX_WALK_DEPTH
  BY MediaAssumption
<1>2. Parent \in [Directories -> Directories]
  BY MediaAssumption
<1> DEFINE Is(g, k) == g = [n \in 0 .. k |-> IF n = 0 THEN dir ELSE Parent[g[n - 1]]]
           S == {k \in Nat : \E g : Is(g, k)}
<1>3. 0 \in S
  <2>1. Is([n \in 0 .. 0 |-> dir], 0)
    OBVIOUS
  <2>2. QED
    BY <2>1
<1>4. ASSUME NEW k \in Nat, k \in S
      PROVE  k + 1 \in S
  <2>1. PICK g : Is(g, k)
    BY <1>4
  <2>2. PICK final : final = Parent[g[k]]
    OBVIOUS
  <2> DEFINE h == [n \in 0 .. k + 1 |-> IF n = k + 1 THEN final ELSE g[n]]
  <2>3. \A n \in 0 .. k : g[n] = IF n = 0 THEN dir ELSE Parent[g[n - 1]]
    BY <2>1
  <2>4. \A n \in 0 .. k : n \in 0 .. k + 1 /\ n # k + 1 /\ h[n] = g[n]
    OBVIOUS
  <2>5. \A n \in 1 .. k : n - 1 \in 0 .. k /\ n \in 0 .. k
    OBVIOUS
  <2>6. h[k + 1] = final
    OBVIOUS
  <2>7. (k + 1) - 1 = k /\ k + 1 # 0 /\ k \in 0 .. k /\ 0 \in 0 .. k
    OBVIOUS
  <2>8. \A n \in 0 .. k + 1 : n = 0 \/ n \in 1 .. k \/ n = k + 1
    OBVIOUS
  <2>9. h = [n \in 0 .. k + 1 |-> h[n]]
    OBVIOUS
  <2> HIDE DEF h
  <2>10. \A n \in 0 .. k + 1 : h[n] = IF n = 0 THEN dir ELSE Parent[h[n - 1]]
    BY <2>2, <2>3, <2>4, <2>5, <2>6, <2>7, <2>8
  <2>11. Is(h, k + 1)
    BY <2>9, <2>10
  <2> HIDE DEF Is
  <2>12. QED
    BY <2>11
<1> HIDE DEF S
<1>5. M \in S
  BY <1>3, <1>4, Induction
<1>6. PICK f : Is(f, MAX_WALK_DEPTH)
  BY <1>1, <1>5 DEF S
<1> DEFINE u == CHOOSE g : Is(g, MAX_WALK_DEPTH)
<1>7. Above(dir) = {u[n] : n \in 0 .. MAX_WALK_DEPTH}
  BY DEF Above
<1>8. Is(u, MAX_WALK_DEPTH)
  BY <1>6
<1> HIDE DEF u
<1>9. \A n \in 0 .. M : u[n] = IF n = 0 THEN dir ELSE Parent[u[n - 1]]
  BY <1>1, <1>8
<1>10. u[0] = dir /\ \A n \in 1 .. M : u[n] = Parent[u[n - 1]]
  BY <1>9
<1> DEFINE R == {n \in Nat : n <= M => u[n] \in Directories}
<1>11. 0 \in R /\ \A n \in Nat : n \in R => n + 1 \in R
  <2>1. 0 \in R
    BY <1>10
  <2>2. ASSUME NEW n \in Nat, n \in R, n + 1 <= M
        PROVE  u[n + 1] \in Directories
    <3>1. u[n + 1] = Parent[u[n]]
      <4>1. n + 1 \in 1 .. M /\ (n + 1) - 1 = n
        BY <2>2
      <4>2. QED
        BY <1>10, <4>1
    <3>2. QED
      BY <1>2, <2>2, <3>1
  <2>3. QED
    BY <2>1, <2>2
<1> HIDE DEF R
<1>12. \A n \in Nat : n \in R
  BY <1>11, Induction
<1>13. \A n \in 0 .. M : u[n] \in Directories
  BY <1>12 DEF R
<1>14. u = [n \in 0 .. M |-> u[n]]
  BY <1>1, <1>8
<1>15. u \in [0 .. M -> Directories]
  BY <1>13, <1>14
<1>16. UpFrom(u, dir)
  BY <1>1, <1>10, <1>15 DEF UpFrom
<1>17. QED
  BY <1>7, <1>16

\* What the tree's levels are.
Levels(level) ==
    /\ \A d \in Directories : level[d] \in Int
    /\ \A d \in Directories : Parent[d] # d => level[Parent[d]] < level[d]

\* A path up does not come down again.
LEMMA PathUp ==
    ASSUME NEW dir \in Directories, NEW u, UpFrom(u, dir), NEW level, Levels(level)
    PROVE  \A m \in 0 .. MAX_WALK_DEPTH : \A n \in 0 .. MAX_WALK_DEPTH :
               m <= n => level[u[n]] <= level[u[m]]
<1>1. PICK M \in Nat : M = MAX_WALK_DEPTH
  BY MediaAssumption
<1> SUFFICES ASSUME NEW m \in 0 .. M
             PROVE  \A n \in 0 .. M : m <= n => level[u[n]] <= level[u[m]]
  BY <1>1
<1>2. \A n \in 0 .. M : u[n] \in Directories /\ level[u[n]] \in Int
  BY <1>1 DEF UpFrom, Levels
<1>3. \A n \in 1 .. M : level[u[n]] <= level[u[n - 1]]
  <2> SUFFICES ASSUME NEW n \in 1 .. M
               PROVE  level[u[n]] <= level[u[n - 1]]
    OBVIOUS
  <2>1. PICK v \in Directories : v = u[n - 1]
    BY <1>2
  <2>2. u[n] = Parent[v]
    BY <1>1, <2>1 DEF UpFrom
  <2>3. level[v] \in Int /\ level[Parent[v]] \in Int
    BY <1>2, <2>1, <2>2
  <2>4. Parent[v] = v \/ level[Parent[v]] < level[v]
    BY DEF Levels
  <2>5. QED
    BY <2>1, <2>2, <2>3, <2>4
<1> DEFINE S == {j \in Nat : m + j <= M => level[u[m + j]] <= level[u[m]]}
<1>4. 0 \in S
  BY <1>2
<1>5. ASSUME NEW j \in Nat, j \in S
      PROVE  j + 1 \in S
  <2> SUFFICES ASSUME m + (j + 1) <= M
               PROVE  level[u[m + (j + 1)]] <= level[u[m]]
    OBVIOUS
  <2>1. PICK n \in 1 .. M : n = m + (j + 1) /\ n - 1 = m + j
    OBVIOUS
  <2>2. level[u[n - 1]] <= level[u[m]]
    BY <1>5, <2>1
  <2>3. level[u[n]] <= level[u[n - 1]]
    BY <1>3
  <2>4. level[u[n]] \in Int /\ level[u[n - 1]] \in Int /\ level[u[m]] \in Int
    BY <1>2, <2>1
  <2>5. level[u[n]] <= level[u[m]]
    BY <2>2, <2>3, <2>4
  <2>6. QED
    BY <2>1, <2>5
<1> HIDE DEF S
<1>6. \A j \in Nat : j \in S
  BY <1>4, <1>5, Induction
<1>7. ASSUME NEW n \in 0 .. M, m <= n
      PROVE  level[u[n]] <= level[u[m]]
  <2>1. PICK j \in Nat : j = n - m
    BY <1>7
  <2>2. m + j = n
    BY <2>1
  <2>3. QED
    BY <1>6, <2>2 DEF S
<1>8. QED
  BY <1>7

\* A path that comes to a directory starts there or comes through just one of those
\* that are in it.
LEMMA OneWayIn ==
    ASSUME NEW start \in Directories, NEW u, UpFrom(u, start), NEW dir \in Directories
    PROVE  /\ \A n \in 0 .. MAX_WALK_DEPTH : u[n] \in Subdirectories(dir) => start # dir
           /\ \A m \in 0 .. MAX_WALK_DEPTH : \A n \in 0 .. MAX_WALK_DEPTH :
                 u[m] \in Subdirectories(dir) /\ u[n] \in Subdirectories(dir) => u[m] = u[n]
           /\ \A n \in 1 .. MAX_WALK_DEPTH : u[n - 1] \in Subdirectories(dir) => u[n] = dir
           /\ \A n \in 0 .. MAX_WALK_DEPTH : u[n] = dir /\ start # dir =>
                 \E m \in 0 .. n - 1 : u[m] \in Subdirectories(dir)
<1>1. PICK M \in Nat : M = MAX_WALK_DEPTH
  BY MediaAssumption
<1>2. PICK level : Levels(level)
  <2>1. PICK level \in [Directories -> 0 .. Cardinality(Directories)] :
          \A d \in Directories : Parent[d] # d => level[Parent[d]] < level[d]
    BY MediaAssumption
  <2>2. Levels(level)
    BY <2>1 DEF Levels
  <2>3. QED
    BY <2>2
<1>3. /\ u[0] = start
      /\ \A n \in 0 .. M : u[n] \in Directories /\ level[u[n]] \in Int
      /\ \A n \in 1 .. M : u[n] = Parent[u[n - 1]]
  BY <1>1, <1>2 DEF UpFrom, Levels
<1>4. \A m \in 0 .. M : \A n \in 0 .. M : m <= n => level[u[n]] <= level[u[m]]
  BY <1>1, <1>2, PathUp
<1>5. \A d \in Subdirectories(dir) : d \in Directories /\ Parent[d] = dir /\ d # dir
  BY DEF Subdirectories
<1>6. \A d \in Subdirectories(dir) : level[dir] < level[d]
  BY <1>2, <1>5 DEF Levels
<1>7. level[dir] \in Int
  BY <1>2 DEF Levels
<1>8. ASSUME NEW n \in 0 .. M, u[n] \in Subdirectories(dir)
      PROVE  start # dir
  <2>1. 0 \in 0 .. M /\ 0 <= n
    OBVIOUS
  <2>2. level[u[n]] <= level[start]
    BY <1>3, <1>4, <2>1
  <2>3. level[dir] < level[u[n]]
    BY <1>6, <1>8
  <2>4. level[start] \in Int /\ level[u[n]] \in Int
    BY <1>3, <2>1
  <2>5. QED
    BY <1>7, <2>2, <2>3, <2>4
<1>9. ASSUME NEW n \in 1 .. M, u[n - 1] \in Subdirectories(dir)
      PROVE  u[n] = dir
  BY <1>3, <1>5, <1>9
<1>10. ASSUME NEW m \in 0 .. M, NEW n \in 0 .. M, m < n,
              u[m] \in Subdirectories(dir), u[n] \in Subdirectories(dir)
       PROVE  FALSE
  <2>1. m + 1 \in 1 .. M /\ (m + 1) - 1 = m /\ m + 1 \in 0 .. M /\ m + 1 <= n
    BY <1>10
  <2>2. u[m + 1] = dir
    BY <1>3, <1>5, <1>10, <2>1
  <2>3. level[u[n]] <= level[dir]
    BY <1>4, <2>1, <2>2
  <2>4. QED
    BY <1>3, <1>6, <1>7, <1>10, <2>3
<1>11. ASSUME NEW m \in 0 .. M, NEW n \in 0 .. M,
              u[m] \in Subdirectories(dir), u[n] \in Subdirectories(dir)
       PROVE  u[m] = u[n]
  <2>1. m < n \/ n < m \/ m = n
    OBVIOUS
  <2>2. QED
    BY <1>10, <1>11, <2>1
<1>12. ASSUME NEW n \in 0 .. M, u[n] = dir, start # dir
       PROVE  \E m \in 0 .. n - 1 : u[m] \in Subdirectories(dir)
  <2> DEFINE S == {j \in 0 .. n : u[j] = dir}
  <2>1. S \in SUBSET Nat /\ S # {}
    BY <1>12
  <2>2. PICK j \in S : \A k \in S : j <= k
    BY <2>1, LeastNatural
  <2>3. j # 0
    BY <1>3, <1>12, <2>2
  <2>4. j - 1 \in 0 .. n - 1 /\ j - 1 \in 0 .. M /\ j \in 1 .. M /\ j - 1 \notin S
    BY <2>2, <2>3
  <2>5. u[j] = Parent[u[j - 1]] /\ u[j] = dir
    BY <1>3, <2>2, <2>4
  <2>6. u[j - 1] # dir
    BY <2>4
  <2>7. u[j - 1] \in Directories
    BY <1>3, <2>4
  <2>8. u[j - 1] \in Subdirectories(dir)
    BY <2>5, <2>6, <2>7 DEF Subdirectories
  <2>9. QED
    BY <2>4, <2>8
<1>13. QED
  BY <1>1, <1>8, <1>9, <1>11, <1>12
-----------------------------------------------------------------------------
(* The index, 5: what a walk adds.                                         *)

\* r goes on from found; if it is not full every file is in it that much more often.
Adds(found, r, more) ==
    /\ r \in Seq(Files) /\ Len(found) <= Len(r) /\ Len(r) <= MAX_VISUAL_ITEMS
    /\ Len(r) < MAX_VISUAL_ITEMS => \A f \in Files : TimesIn(f, r) = TimesIn(f, found) + more[f]

\* Those of S once.
Ones(S) == [f \in Files |-> IF f \in S THEN 1 ELSE 0]

\* As often as there are such directories.
InMany(T, D) == [f \in Files |-> Cardinality({d \in D : f \in T[d]})]

\* w adds the files that T has for a directory.
Walks(w, T) ==
    \A dir \in Directories : \A found \in Seq(Files) :
        Len(found) <= MAX_VISUAL_ITEMS => Adds(found, w[dir][found], Ones(T[dir]))

\* z has what x and y have.
Sums(x, y, z) ==
    \A f \in Files : x[f] \in Nat /\ y[f] \in Nat /\ z[f] = x[f] + y[f]

\* One after the other.
LEMMA AddsBoth ==
    ASSUME NEW a \in Seq(Files), NEW b, NEW c, NEW x, NEW y, NEW z,
           Adds(a, b, x), Adds(b, c, y), Sums(x, y, z)
    PROVE  Adds(a, c, z)
<1>1. MAX_VISUAL_ITEMS \in Nat
  BY MediaAssumption
<1>2. b \in Seq(Files) /\ c \in Seq(Files)
  BY DEF Adds
<1>3. Len(a) \in Nat /\ Len(b) \in Nat /\ Len(c) \in Nat
  BY <1>2
<1>4. Len(a) <= Len(c) /\ Len(c) <= MAX_VISUAL_ITEMS
  BY <1>1, <1>3 DEF Adds
<1>5. ASSUME Len(c) < MAX_VISUAL_ITEMS, NEW f \in Files
      PROVE  TimesIn(f, c) = TimesIn(f, a) + z[f]
  <2>1. Len(b) < MAX_VISUAL_ITEMS
    BY <1>1, <1>3, <1>5 DEF Adds
  <2>2. TimesIn(f, b) = TimesIn(f, a) + x[f] /\ TimesIn(f, c) = TimesIn(f, b) + y[f]
    BY <1>5, <2>1 DEF Adds
  <2>3. TimesIn(f, a) \in Nat
    BY TimesIsNatural
  <2>4. x[f] \in Nat /\ y[f] \in Nat /\ z[f] = x[f] + y[f]
    BY DEF Sums
  <2>5. QED
    BY <2>2, <2>3, <2>4
<1>6. QED
  BY <1>2, <1>4, <1>5 DEF Adds

\* Nothing is added.
LEMMA AddsNone ==
    ASSUME NEW a \in Seq(Files), Len(a) <= MAX_VISUAL_ITEMS, NEW z,
           Len(a) >= MAX_VISUAL_ITEMS \/ \A f \in Files : z[f] = 0
    PROVE  Adds(a, a, z)
<1>1. MAX_VISUAL_ITEMS \in Nat /\ Len(a) \in Nat
  BY MediaAssumption
<1>2. ASSUME Len(a) < MAX_VISUAL_ITEMS, NEW f \in Files
      PROVE  TimesIn(f, a) = TimesIn(f, a) + z[f]
  <2>1. z[f] = 0
    BY <1>1, <1>2
  <2>2. TimesIn(f, a) \in Nat
    BY TimesIsNatural
  <2>3. QED
    BY <2>1, <2>2
<1>3. QED
  BY <1>1, <1>2 DEF Adds

\* Of a list, those in Q are as many as the set has.
LEMMA ManyOfList ==
    ASSUME NEW D, IsFiniteSet(D), NEW s, Lists(s, D), NEW Q
    PROVE  Cardinality(UpTo({i \in 1 .. Len(s) : s[i] \in Q}, Len(s))) = Cardinality(D \cap Q)
<1>1. s \in Seq(D) /\ Len(s) \in Nat
  BY DEF Lists
<1> DEFINE P == {i \in 1 .. Len(s) : s[i] \in Q}
           A == UpTo(P, Len(s))
<1>2. IsFiniteSet(A)
  BY <1>1, CountOn
<1>3. \A i \in A : i \in 1 .. Len(s) /\ s[i] \in Q
  BY DEF UpTo
<1>4. \A x \in A : s[x] \in D \cap Q
  BY <1>1, <1>3
<1>5. \A x \in A : \A y \in A : s[x] = s[y] => x = y
  BY <1>3 DEF Lists
<1>6. ASSUME NEW z \in D \cap Q
      PROVE  \E x \in A : s[x] = z
  <2>1. PICK k \in 1 .. Len(s) : s[k] = z
    BY DEF Lists
  <2>2. k \in A
    BY <2>1 DEF UpTo
  <2>3. QED
    BY <2>1, <2>2
<1> HIDE DEF A
<1>7. Cardinality(D \cap Q) = Cardinality(A)
  BY <1>2, <1>4, <1>5, <1>6, SameNumber
<1>8. QED
  BY <1>7 DEF A

\* Walks of directories, one after the other, add what each of them adds.
LEMMA EachAdds ==
    ASSUME NEW w, NEW T, Walks(w, T), NEW D \in SUBSET Directories, IsFiniteSet(D),
           NEW dirs, Lists(dirs, D),
           NEW found \in Seq(Files), Len(found) <= MAX_VISUAL_ITEMS
    PROVE  Adds(found, WalkEach(w, dirs, found), InMany(T, D))
<1>1. dirs \in Seq(D) /\ Len(dirs) \in Nat
  BY DEF Lists
<1>2. PICK upTo : WalkedBy(upTo, w, dirs, found)
  BY <1>1, WalkEachSteps
<1> DEFINE P(f) == {i \in 1 .. Len(dirs) : dirs[i] \in {d \in D : f \in T[d]}}
           Sum(n) == [f \in Files |-> Cardinality(UpTo(P(f), n))]
           S == {n \in Nat : n <= Len(dirs) => Adds(found, upTo[n], Sum(n))}
<1>3. 0 \in S
  <2>1. ASSUME NEW f \in Files
        PROVE  Sum(0)[f] = 0
    <3>1. UpTo(P(f), 0) = {}
      BY DEF UpTo
    <3>2. QED
      BY <3>1, FS_EmptySet
  <2> HIDE DEF Sum
  <2>2. Adds(found, found, Sum(0))
    BY <2>1, AddsNone
  <2>3. QED
    BY <1>2, <2>2 DEF WalkedBy
<1>4. ASSUME NEW n \in Nat, n \in S
      PROVE  n + 1 \in S
  <2> SUFFICES ASSUME n + 1 <= Len(dirs)
               PROVE  Adds(found, upTo[n + 1], Sum(n + 1))
    OBVIOUS
  <2>1. Adds(found, upTo[n], Sum(n))
    BY <1>1, <1>4
  <2>2. n + 1 \in 1 .. Len(dirs) /\ (n + 1) - 1 = n
    BY <1>1
  <2>3. PICK d \in D : d = dirs[n + 1]
    BY <1>1, <2>2
  <2>4. upTo[n + 1] = w[d][upTo[n]]
    BY <1>2, <2>2, <2>3 DEF WalkedBy
  <2>5. upTo[n] \in Seq(Files) /\ Len(upTo[n]) <= MAX_VISUAL_ITEMS
    BY <2>1 DEF Adds
  <2>6. Adds(upTo[n], upTo[n + 1], Ones(T[d]))
    BY <2>4, <2>5 DEF Walks
  <2>7. ASSUME NEW f \in Files
        PROVE  /\ Sum(n)[f] \in Nat /\ Ones(T[d])[f] \in Nat
               /\ Sum(n + 1)[f] = Sum(n)[f] + Ones(T[d])[f]
    <3>1. n + 1 \in P(f) <=> f \in T[d]
      BY <2>2, <2>3
    <3>2. PICK p : p = P(f)
      OBVIOUS
    <3>3. /\ Sum(n)[f] = Cardinality(UpTo(p, n))
          /\ Sum(n + 1)[f] = Cardinality(UpTo(p, n + 1))
          /\ Ones(T[d])[f] = IF f \in T[d] THEN 1 ELSE 0
      BY <3>2 DEF Ones
    <3> HIDE DEF Sum
    <3>4. /\ Cardinality(UpTo(p, n)) \in Nat
          /\ n + 1 \in p => Cardinality(UpTo(p, n + 1)) = Cardinality(UpTo(p, n)) + 1
          /\ n + 1 \notin p => Cardinality(UpTo(p, n + 1)) = Cardinality(UpTo(p, n))
      BY CountOn
    <3>5. n + 1 \in p <=> f \in T[d]
      BY <3>1, <3>2
    <3>6. QED
      BY <3>3, <3>4, <3>5
  <2>8. Sums(Sum(n), Ones(T[d]), Sum(n + 1))
    <3> HIDE DEF Sum
    <3>1. QED
      BY <2>7 DEF Sums
  <2> HIDE DEF Sum
  <2>9. QED
    BY <2>1, <2>6, <2>8, AddsBoth
<1>5. Len(dirs) \in S
  <2>0. \A n \in Nat : n \in S => n + 1 \in S
    BY <1>4
  <2> HIDE DEF S
  <2>1. QED
    BY <1>1, <1>3, <2>0, Induction
<1>6. Adds(found, WalkEach(w, dirs, found), Sum(Len(dirs)))
  BY <1>1, <1>2, <1>5 DEF WalkedBy
<1>7. Sum(Len(dirs)) = InMany(T, D)
  <2>1. ASSUME NEW f \in Files
        PROVE  Cardinality(UpTo(P(f), Len(dirs))) = Cardinality({d \in D : f \in T[d]})
    <3>1. PICK Q : Q = {d \in D : f \in T[d]}
      OBVIOUS
    <3>2. Cardinality(UpTo({i \in 1 .. Len(dirs) : dirs[i] \in Q}, Len(dirs)))
            = Cardinality(D \cap Q)
      BY ZenonT(60), ManyOfList
    <3>3. D \cap Q = Q
      BY <3>1
    <3>4. QED
      BY <3>1, <3>2, <3>3
  <2>2. QED
    BY <2>1 DEF InMany
<1>8. QED
  BY <1>6, <1>7
-----------------------------------------------------------------------------
(* The index, 6: the walk of a tree.                                       *)

\* The smaller of two numbers.
LEMMA LesserOf ==
    ASSUME NEW a \in Int, NEW b \in Int
    PROVE  Min({a, b}) = IF a <= b THEN a ELSE b
<1>1. PICK least : least = IF a <= b THEN a ELSE b
  OBVIOUS
<1>2. least \in {a, b} /\ \A y \in {a, b} : least <= y
  BY <1>1
<1>3. \A x \in {a, b} : (\A y \in {a, b} : x <= y) => x = least
  BY <1>1
<1>4. Min({a, b}) = CHOOSE x \in {a, b} : \A y \in {a, b} : x <= y
  BY DEF Min
<1>5. Min({a, b}) = least
  BY <1>2, <1>3, <1>4
<1>6. QED
  BY <1>1, <1>5

\* Where the files may be.
LEMMA PlaceTyped ==
    ASSUME place \in Placements
    PROVE  \A f \in Files : /\ place[f].in \in Directories
                            /\ place[f].media_type \in {Image, Video, Other}
                            /\ place[f].date \in Nat
BY MediaAssumption

\* The directory of a file, the one it is in, and so on.
Ups(up) == \A d \in Directories :
    UpFrom(up[d], d) /\ Above(d) = {up[d][n] : n \in 0 .. MAX_WALK_DEPTH}

\* There are such paths.
LEMMA UpsExist == \E up : Ups(up)
<1> DEFINE U(u, d) == UpFrom(u, d) /\ Above(d) = {u[n] : n \in 0 .. MAX_WALK_DEPTH}
<1>1. \A d \in Directories : \E u : U(u, d)
  BY AboveSteps
<1>2. PICK up : up = [d \in Directories |-> CHOOSE u : U(u, d)]
  OBVIOUS
<1>3. \A d \in Directories : U(up[d], d)
  <2> HIDE DEF U
  <2>1. QED
    BY <1>1, <1>2
<1>4. Ups(up)
  BY <1>3 DEF Ups
<1>5. QED
  BY <1>4

\* The images and videos that are in a directory or at most k levels below it.
Within(up, dir, k) ==
    {f \in Files : /\ place[f].media_type # Other
                   /\ \E n \in 0 .. k : up[place[f].in][n] = dir}

\* For every directory the files within k levels.
Down(up, k) == [d \in Directories |-> Within(up, d, k)]

\* They are those of the directory and those below one of its directories.
LEMMA TreeSplits ==
    ASSUME place \in Placements, NEW up, Ups(up), NEW dir \in Directories,
           NEW k \in 0 .. MAX_WALK_DEPTH, NEW T, T = Down(up, k - 1)
    PROVE  Sums(Ones(Pictures(dir)), InMany(T, Subdirectories(dir)), Ones(Within(up, dir, k)))
<1> SUFFICES ASSUME NEW f \in Files
             PROVE  /\ Ones(Pictures(dir))[f] \in Nat
                    /\ InMany(T, Subdirectories(dir))[f] \in Nat
                    /\ Ones(Within(up, dir, k))[f]
                         = Ones(Pictures(dir))[f] + InMany(T, Subdirectories(dir))[f]
  BY DEF Sums
<1>0. \A d \in Directories : T[d] = Within(up, d, k - 1)
  BY DEF Down
<1>1. PICK M \in Nat : M = MAX_WALK_DEPTH
  BY MediaAssumption
<1>2. PICK start \in Directories : start = place[f].in
  BY PlaceTyped
<1>3. PICK u : u = up[start]
  OBVIOUS
<1>4. UpFrom(u, start)
  BY <1>3 DEF Ups
<1>5. /\ \A n \in 0 .. M : u[n] \in Subdirectories(dir) => start # dir
      /\ \A m \in 0 .. M : \A n \in 0 .. M :
            u[m] \in Subdirectories(dir) /\ u[n] \in Subdirectories(dir) => u[m] = u[n]
      /\ \A n \in 1 .. M : u[n - 1] \in Subdirectories(dir) => u[n] = dir
      /\ \A n \in 0 .. M : u[n] = dir /\ start # dir =>
            \E m \in 0 .. n - 1 : u[m] \in Subdirectories(dir)
  BY <1>1, <1>4, OneWayIn
<1>6. u[0] = start
  BY <1>4 DEF UpFrom
<1> DEFINE B == {d \in Subdirectories(dir) : f \in T[d]}
           pic == place[f].media_type # Other
<1>7. \A d \in Directories : \A j \in Int :
        f \in Within(up, d, j) <=> pic /\ \E n \in 0 .. j : u[n] = d
  BY <1>2, <1>3 DEF Within
<1>8. Subdirectories(dir) \subseteq Directories
  BY DEF Subdirectories
<1>9. \A d \in Subdirectories(dir) : d \in B <=> pic /\ \E n \in 0 .. k - 1 : u[n] = d
  BY <1>0, <1>1, <1>7, <1>8
<1>10. f \in Pictures(dir) <=> pic /\ start = dir
  BY <1>2 DEF Pictures
<1>11. f \in Within(up, dir, k) <=> pic /\ \E n \in 0 .. k : u[n] = dir
  BY <1>1, <1>7
<1> HIDE DEF pic
<1>12. /\ Ones(Pictures(dir))[f] = (IF f \in Pictures(dir) THEN 1 ELSE 0)
       /\ Ones(Within(up, dir, k))[f] = (IF f \in Within(up, dir, k) THEN 1 ELSE 0)
       /\ InMany(T, Subdirectories(dir))[f] = Cardinality(B)
  BY DEF Ones, InMany
<1>13. CASE f \in Pictures(dir)
  <2>1. B = {}
    <3> SUFFICES ASSUME NEW d \in B PROVE FALSE
      OBVIOUS
    <3>1. PICK n \in 0 .. k - 1 : u[n] = d
      BY <1>9
    <3>2. n \in 0 .. M /\ d \in Subdirectories(dir)
      BY <1>1
    <3>3. QED
      BY <1>5, <1>10, <1>13, <3>1, <3>2
  <2>2. Cardinality(B) = 0
    BY <2>1, FS_EmptySet
  <2>3. 0 \in 0 .. k
    BY <1>1
  <2>4. f \in Within(up, dir, k)
    BY <1>6, <1>10, <1>11, <1>13, <2>3
  <2> HIDE DEF B
  <2>5. QED
    BY <1>12, <1>13, <2>2, <2>4
<1>14. CASE f \notin Pictures(dir) /\ f \in Within(up, dir, k)
  <2>1. PICK n \in 0 .. k : u[n] = dir
    BY <1>11, <1>14
  <2>2. pic /\ start # dir
    BY <1>10, <1>11, <1>14
  <2>3. n \in 0 .. M
    BY <1>1
  <2>4. PICK m \in 0 .. n - 1 : u[m] \in Subdirectories(dir)
    BY <1>5, <2>1, <2>2, <2>3
  <2>5. m \in 0 .. k - 1 /\ m \in 0 .. M
    BY <1>1
  <2>6. PICK d \in Subdirectories(dir) : d = u[m]
    BY <2>4
  <2>7. d \in B
    BY <1>9, <2>2, <2>5, <2>6
  <2>8. ASSUME NEW e \in B
        PROVE  e = d
    <3>1. PICK j \in 0 .. k - 1 : u[j] = e
      BY <1>9
    <3>2. j \in 0 .. M /\ e \in Subdirectories(dir)
      BY <1>1
    <3>3. QED
      BY <1>5, <2>5, <2>6, <3>1, <3>2
  <2>9. B = {d}
    BY <2>7, <2>8
  <2>10. Cardinality(B) = 1
    BY <2>9, FS_Singleton
  <2> HIDE DEF B
  <2>11. QED
    BY <1>12, <1>14, <2>10
<1>15. CASE f \notin Pictures(dir) /\ f \notin Within(up, dir, k)
  <2>1. B = {}
    <3> SUFFICES ASSUME NEW d \in B PROVE FALSE
      OBVIOUS
    <3>1. PICK n \in 0 .. k - 1 : pic /\ u[n] = d
      BY <1>9
    <3>2. n + 1 \in 1 .. M /\ (n + 1) - 1 = n /\ d \in Subdirectories(dir) /\ n + 1 \in 0 .. k
      BY <1>1
    <3>3. u[n + 1] = dir
      BY <1>5, <3>1, <3>2
    <3>4. QED
      BY <1>11, <1>15, <3>1, <3>2, <3>3
  <2>2. Cardinality(B) = 0
    BY <2>1, FS_EmptySet
  <2> HIDE DEF B
  <2>3. QED
    BY <1>12, <1>15, <2>2
<1>16. QED
  BY <1>13, <1>14, <1>15

\* What was found and the files of a directory, as far as there is room.
WithPictures(dir, found) ==
    found \o SubSeq(ByName(Pictures(dir)), 1, Room(Len(ByName(Pictures(dir))), Len(found)))

\* They are added.
LEMMA PicturesAdd ==
    ASSUME NEW dir \in Directories,
           NEW found \in Seq(Files), Len(found) <= MAX_VISUAL_ITEMS
    PROVE  Adds(found, WithPictures(dir, found), Ones(Pictures(dir)))
<1>1. PICK MAX \in Nat : MAX = MAX_VISUAL_ITEMS
  BY MediaAssumption
<1>2. /\ Pictures(dir) \subseteq Files /\ Pictures(dir) \in SUBSET Nat
      /\ IsFiniteSet(Pictures(dir))
  <2>1. Pictures(dir) \subseteq Files
    BY DEF Pictures
  <2>2. QED
    BY <2>1, MediaAssumption, FS_Subset
<1>3. PICK files : files = ByName(Pictures(dir))
  OBVIOUS
<1>4. Lists(files, Pictures(dir))
  BY <1>2, <1>3, ByNameLists
<1>5. files \in Seq(Pictures(dir)) /\ files \in Seq(Files) /\ Len(files) \in Nat
  BY <1>2, <1>4 DEF Lists
<1>6. PICK room : room = Room(Len(files), Len(found))
  OBVIOUS
<1>7. /\ room \in 0 .. Len(files) /\ Len(found) + room <= MAX
      /\ Len(found) + room < MAX => room = Len(files)
  <2>1. PICK n \in Nat : n = Len(found) /\ n <= MAX
    BY <1>1
  <2>2. PICK left \in Nat : left = MAX - n
    BY <2>1
  <2>3. PICK size \in Nat : size = Len(files)
    BY <1>5
  <2>4. room = Min({size, left})
    BY <1>1, <1>6, <2>1, <2>2, <2>3 DEF Room
  <2>5. Min({size, left}) = IF size <= left THEN size ELSE left
    BY LesserOf
  <2>6. QED
    BY <2>1, <2>2, <2>3, <2>4, <2>5
<1>8. PICK part : part = SubSeq(files, 1, room)
  OBVIOUS
<1>9. part \in Seq(Files) /\ Len(part) = room /\ (room = Len(files) => part = files)
  <2>1. room = Len(files) => part = files
    BY <1>5, <1>8, SubSeqFull
  <2>2. part \in Seq(Files) /\ Len(part) = room
    BY <1>5, <1>7, <1>8
  <2>3. QED
    BY <2>1, <2>2
<1>10. PICK mid : mid = found \o part
  OBVIOUS
<1>11. /\ mid \in Seq(Files) /\ Len(mid) = Len(found) + Len(part)
       /\ \A f : TimesIn(f, mid) = TimesIn(f, found) + TimesIn(f, part)
  <2>1. mid \in Seq(Files) /\ Len(mid) = Len(found) + Len(part)
    BY <1>9, <1>10
  <2>2. ASSUME NEW f
        PROVE  TimesIn(f, mid) = TimesIn(f, found) + TimesIn(f, part)
    <3>1. TimesIn(f, found \o part) = TimesIn(f, found) + TimesIn(f, part)
      BY <1>9, TimesInBoth
    <3>2. QED
      BY <1>10, <3>1
  <2>3. QED
    BY <2>1, <2>2
<1>12. ASSUME Len(mid) < MAX, NEW f \in Files
       PROVE  TimesIn(f, mid) = TimesIn(f, found) + Ones(Pictures(dir))[f]
  <2>1. part = files
    BY <1>7, <1>9, <1>11, <1>12
  <2>2. TimesIn(f, part) = IF f \in Pictures(dir) THEN 1 ELSE 0
    BY <1>4, <2>1, TimesInList
  <2>3. Ones(Pictures(dir))[f] = IF f \in Pictures(dir) THEN 1 ELSE 0
    BY DEF Ones
  <2>4. QED
    BY <1>11, <2>2, <2>3
<1>13. Adds(found, mid, Ones(Pictures(dir)))
  BY <1>1, <1>7, <1>9, <1>11, <1>12 DEF Adds
<1>14. WithPictures(dir, found) = mid
  BY <1>3, <1>6, <1>8, <1>10 DEF WithPictures
<1>15. QED
  BY <1>13, <1>14
\* A walk that goes on below with one that adds what is a level less deep.
LEMMA WalkAdds ==
    ASSUME place \in Placements, NEW up, Ups(up), NEW depth \in 0 .. MAX_WALK_DEPTH,
           NEW k \in 0 .. MAX_WALK_DEPTH, NEW next, Walks(next, Down(up, k - 1)),
           NEW dir \in Directories,
           NEW found \in Seq(Files), Len(found) <= MAX_VISUAL_ITEMS
    PROVE  Adds(found, WalkAt(depth, next)[dir][found], Ones(Within(up, dir, k)))
<1>1. MAX_WALK_DEPTH \in Nat /\ MAX_VISUAL_ITEMS \in Nat /\ Len(found) \in Nat
  BY MediaAssumption
<1>2. TooDeep(depth) = FALSE
  BY <1>1 DEF TooDeep
<1>3. WalkAt(depth, next)[dir][found] =
        IF Len(found) >= MAX_VISUAL_ITEMS THEN found
        ELSE WalkEach(next, ByName(Subdirectories(dir)), WithPictures(dir, found))
  BY <1>2 DEF WalkAt, WithPictures
<1>4. CASE Len(found) >= MAX_VISUAL_ITEMS
  <2>1. Adds(found, found, Ones(Within(up, dir, k)))
    BY <1>4, AddsNone
  <2>2. QED
    BY <1>3, <1>4, <2>1
<1>5. CASE ~(Len(found) >= MAX_VISUAL_ITEMS)
  <2>1. PICK mid : mid = WithPictures(dir, found)
    OBVIOUS
  <2>2. Adds(found, mid, Ones(Pictures(dir)))
    BY <2>1, PicturesAdd
  <2>3. mid \in Seq(Files) /\ Len(mid) <= MAX_VISUAL_ITEMS
    BY <2>2 DEF Adds
  <2>4. PICK D : D = Subdirectories(dir)
    OBVIOUS
  <2>5. D \in SUBSET Directories /\ D \in SUBSET Nat /\ IsFiniteSet(D)
    <3>1. D \subseteq Directories
      BY <2>4 DEF Subdirectories
    <3>2. QED
      BY <3>1, MediaAssumption, FS_Subset
  <2>6. PICK dirs : dirs = ByName(D)
    OBVIOUS
  <2>7. Lists(dirs, D)
    BY <2>5, <2>6, ByNameLists
  <2>8. PICK T : T = Down(up, k - 1)
    OBVIOUS
  <2>9. PICK r : r = WalkEach(next, dirs, mid)
    OBVIOUS
  <2>10. Adds(mid, r, InMany(T, D))
    BY <2>3, <2>5, <2>7, <2>8, <2>9, EachAdds
  <2>11. Sums(Ones(Pictures(dir)), InMany(T, D), Ones(Within(up, dir, k)))
    BY <2>4, <2>8, TreeSplits
  <2>12. Adds(found, r, Ones(Within(up, dir, k)))
    BY <2>2, <2>10, <2>11, AddsBoth
  <2>13. WalkAt(depth, next)[dir][found] = r
    BY <1>3, <1>5, <2>1, <2>4, <2>6, <2>9
  <2>14. QED
    BY <2>12, <2>13
<1>6. QED
  BY <1>4, <1>5

\* The walk of a directory adds the files within the levels that are left.
LEMMA WalksTheTree ==
    ASSUME place \in Placements, NEW up, Ups(up)
    PROVE  Walks(walk_visual[0], Down(up, MAX_WALK_DEPTH))
<1>1. PICK M \in Nat : M = MAX_WALK_DEPTH
  BY MediaAssumption
<1> DEFINE S == {j \in Nat : j <= M + 1 =>
                    Walks(walk_visual[(M + 1) - j], Down(up, j - 1))}
<1>2. 0 \in S
  <2>1. PICK w : w = walk_visual[M + 1]
    OBVIOUS
  <2>2. M + 1 \in 0 .. M + 1
    OBVIOUS
  <2>3. PICK next : w = WalkAt(M + 1, next)
    BY <1>1, <2>1, <2>2, WalkSteps
  <2>4. TooDeep(M + 1) = TRUE
    BY <1>1 DEF TooDeep
  <2>5. ASSUME NEW dir \in Directories, NEW found \in Seq(Files),
               Len(found) <= MAX_VISUAL_ITEMS
        PROVE  Adds(found, w[dir][found], Ones(Down(up, 0 - 1)[dir]))
    <3>1. w[dir][found] = found
      BY <2>3, <2>4 DEF WalkAt
    <3>2. Within(up, dir, 0 - 1) = {}
      BY DEF Within
    <3>3. Down(up, 0 - 1)[dir] = {}
      BY <3>2 DEF Down
    <3>4. PICK ones : ones = Ones({})
      OBVIOUS
    <3>5. \A f \in Files : ones[f] = 0
      BY <3>4 DEF Ones
    <3>6. Adds(found, found, ones)
      BY <2>5, <3>5, AddsNone
    <3>7. QED
      BY <3>1, <3>3, <3>4, <3>6
  <2>6. Walks(w, Down(up, 0 - 1))
    BY <2>5 DEF Walks
  <2>7. (M + 1) - 0 = M + 1
    OBVIOUS
  <2>8. QED
    BY <2>1, <2>6, <2>7
<1>3. ASSUME NEW j \in Nat, j \in S
      PROVE  j + 1 \in S
  <2> SUFFICES ASSUME j + 1 <= M + 1
               PROVE  Walks(walk_visual[(M + 1) - (j + 1)], Down(up, (j + 1) - 1))
    OBVIOUS
  <2>1. PICK depth \in 0 .. M : depth = M - j
    OBVIOUS
  <2>2. (M + 1) - (j + 1) = depth /\ (M + 1) - j = depth + 1 /\ (j + 1) - 1 = j
    BY <2>1
  <2>3. depth \in 0 .. MAX_WALK_DEPTH + 1 /\ depth \in 0 .. MAX_WALK_DEPTH
    BY <1>1
  <2>4. PICK next : next = walk_visual[depth + 1]
    OBVIOUS
  <2>5. walk_visual[depth] = WalkAt(depth, next)
    BY <2>3, <2>4, WalkSteps
  <2>6. Walks(next, Down(up, j - 1))
    BY <1>3, <2>2, <2>4
  <2>7. j \in 0 .. MAX_WALK_DEPTH
    BY <1>1
  <2>8. ASSUME NEW dir \in Directories, NEW found \in Seq(Files),
               Len(found) <= MAX_VISUAL_ITEMS
        PROVE  Adds(found, walk_visual[depth][dir][found], Ones(Down(up, j)[dir]))
    <3>1. Adds(found, WalkAt(depth, next)[dir][found], Ones(Within(up, dir, j)))
      BY <2>3, <2>6, <2>7, <2>8, WalkAdds
    <3>2. Down(up, j)[dir] = Within(up, dir, j)
      BY DEF Down
    <3>3. QED
      BY <2>5, <3>1, <3>2
  <2>9. Walks(walk_visual[depth], Down(up, j))
    BY <2>8 DEF Walks
  <2>10. QED
    BY <2>2, <2>9
<1> HIDE DEF S
<1>4. M + 1 \in S
  BY <1>2, <1>3, Induction
<1>5. Walks(walk_visual[(M + 1) - (M + 1)], Down(up, (M + 1) - 1))
  BY <1>4 DEF S
<1>6. (M + 1) - (M + 1) = 0 /\ (M + 1) - 1 = M
  OBVIOUS
<1>7. QED
  BY <1>1, <1>5, <1>6

\* How often a file is found: once for each of the directories that are walked and are
\* above it.
Often(f) == IF place[f].media_type = Other THEN 0
            ELSE Cardinality(roots \cap Above(place[f].in))

\* What is found in all.
LEMMA FoundInAll ==
    ASSUME place \in Placements, roots \in RootSets, NEW found,
           found = WalkEach(walk_visual[0], ByName(roots), <<>>)
    PROVE  /\ found \in Seq(Files) /\ Len(found) <= MAX_VISUAL_ITEMS
           /\ Len(found) < MAX_VISUAL_ITEMS => \A f \in Files : TimesIn(f, found) = Often(f)
<1>1. MAX_WALK_DEPTH \in Nat /\ MAX_VISUAL_ITEMS \in Nat
  BY MediaAssumption
<1>2. PICK up : Ups(up)
  BY UpsExist
<1>3. PICK T : T = Down(up, MAX_WALK_DEPTH)
  OBVIOUS
<1>4. Walks(walk_visual[0], T)
  BY <1>2, <1>3, WalksTheTree
<1>5. roots \in SUBSET Directories /\ roots \in SUBSET Nat /\ IsFiniteSet(roots)
  BY MediaAssumption, FS_Subset
<1>6. PICK dirs : dirs = ByName(roots)
  OBVIOUS
<1>7. Lists(dirs, roots)
  BY <1>5, <1>6, ByNameLists
<1>8. PICK none : none = <<>> /\ none \in Seq(Files) /\ Len(none) = 0
  <2>1. <<>> \in Seq(Files) /\ Len(<<>>) = 0
    OBVIOUS
  <2>2. QED
    BY <2>1
<1>9. PICK walk : walk = walk_visual[0]
  OBVIOUS
<1>10. Adds(none, WalkEach(walk, dirs, none), InMany(T, roots))
  <2>1. Len(none) <= MAX_VISUAL_ITEMS
    BY <1>1, <1>8
  <2>2. Walks(walk, T)
    BY <1>4, <1>9
  <2>3. QED
    BY <1>5, <1>7, <1>8, <2>1, <2>2, EachAdds
<1>11. found = WalkEach(walk, dirs, none)
  BY <1>6, <1>8, <1>9
<1>12. Adds(none, found, InMany(T, roots))
  BY <1>10, <1>11
<1>13. ASSUME NEW f \in Files
       PROVE  TimesIn(f, none) = 0
  <2>1. {i \in 1 .. Len(none) : none[i] = f} = {}
    BY <1>8
  <2>2. QED
    BY <2>1, FS_EmptySet DEF TimesIn
<1>14. ASSUME NEW f \in Files
       PROVE  InMany(T, roots)[f] = Often(f) /\ Often(f) \in Nat
  <2>1. PICK dir \in Directories : dir = place[f].in
    BY PlaceTyped
  <2>2. Above(dir) = {up[dir][n] : n \in 0 .. MAX_WALK_DEPTH}
    BY <1>2 DEF Ups
  <2>3. \A d \in roots : f \in T[d] <=>
            place[f].media_type # Other /\ \E n \in 0 .. MAX_WALK_DEPTH : up[dir][n] = d
    BY <1>3, <1>5, <2>1 DEF Down, Within
  <2>4. PICK B : B = {d \in roots : f \in T[d]}
    OBVIOUS
  <2>5. InMany(T, roots)[f] = Cardinality(B)
    BY <2>4 DEF InMany
  <2>6. CASE place[f].media_type = Other
    <3>1. B = {}
      BY <2>3, <2>4, <2>6
    <3>2. QED
      BY <2>5, <2>6, <3>1, FS_EmptySet DEF Often
  <2>7. CASE place[f].media_type # Other
    <3>1. \A d : d \in B <=> d \in roots \cap Above(dir)
      BY <2>2, <2>3, <2>4, <2>7
    <3>2. B = roots \cap Above(dir)
      BY <3>1
    <3>3. Cardinality(B) \in Nat
      BY <1>5, <2>4, FS_Subset, FS_CardinalityType
    <3>4. QED
      BY <2>1, <2>5, <2>7, <3>2, <3>3 DEF Often
  <2>8. QED
    BY <2>6, <2>7
<1>15. found \in Seq(Files) /\ Len(found) <= MAX_VISUAL_ITEMS
  BY <1>12 DEF Adds
<1>16. ASSUME Len(found) < MAX_VISUAL_ITEMS, NEW f \in Files
       PROVE  TimesIn(f, found) = Often(f)
  <2>1. TimesIn(f, found) = TimesIn(f, none) + InMany(T, roots)[f]
    BY <1>12, <1>16 DEF Adds
  <2>2. QED
    BY <1>13, <1>14, <2>1
<1>17. QED
  BY <1>15, <1>16
-----------------------------------------------------------------------------
(* The index, 7: the items, the latest first.                              *)

\* What an item says of its file.
LEMMA ItemFacts ==
    ASSUME NEW id, NEW doc
    PROVE  /\ Item(id, doc).id = id /\ Item(id, doc).file = doc
           /\ Item(id, doc).bucket_id = bucket_of[place[doc].in]
           /\ Item(id, doc).media_type = place[doc].media_type
           /\ Item(id, doc).date = place[doc].date
BY DEF Item

\* The latest item has none before it, and so on.
LEMMA LaterOrders ==
    ASSUME NEW I, \A a \in I : a.date \in Int /\ a.id \in Int,
           \A a \in I : \A b \in I : a.id = b.id => a = b,
           NEW below, below = [x \in I |-> {y \in I : Later(y, x)}]
    PROVE  Ordered(I, below)
<1>1. \A x \in I : below[x] = {y \in I : Later(y, x)}
  OBVIOUS
<1>2. \A x \in I : \A y \in I :
        Later(y, x) <=> y.date > x.date \/ (y.date = x.date /\ y.id > x.id)
  BY DEF Later
<1>3. below \in [I -> SUBSET I]
  OBVIOUS
<1>4. \A x \in I : x \notin below[x]
  BY <1>1, <1>2
<1>5. ASSUME NEW x \in I, NEW y \in below[x], NEW z \in below[y]
      PROVE  z \in below[x]
  <2>1. y \in I /\ Later(y, x)
    BY <1>1
  <2>2. z \in I /\ Later(z, y)
    BY <1>1, <2>1
  <2>3. PICK dx \in Int, dy \in Int, dz \in Int, ix \in Int, iy \in Int, iz \in Int :
          /\ dx = x.date /\ dy = y.date /\ dz = z.date
          /\ ix = x.id /\ iy = y.id /\ iz = z.id
    BY <2>1, <2>2
  <2>4. dy > dx \/ (dy = dx /\ iy > ix)
    BY <1>2, <2>1, <2>3
  <2>5. dz > dy \/ (dz = dy /\ iz > iy)
    BY <1>2, <2>1, <2>2, <2>3
  <2>6. dz > dx \/ (dz = dx /\ iz > ix)
    BY <2>4, <2>5
  <2>7. Later(z, x)
    BY <1>2, <2>2, <2>3, <2>6
  <2>8. QED
    BY <1>1, <2>2, <2>7
<1>6. ASSUME NEW x \in I, NEW y \in I, x # y
      PROVE  x \in below[y] \/ y \in below[x]
  <2>1. x.id # y.id
    BY <1>6
  <2>2. PICK dx \in Int, dy \in Int, ix \in Int, iy \in Int :
          dx = x.date /\ dy = y.date /\ ix = x.id /\ iy = y.id
    OBVIOUS
  <2>3. dx > dy \/ (dx = dy /\ ix > iy) \/ dy > dx \/ (dy = dx /\ iy > ix)
    BY <2>1, <2>2
  <2>4. Later(x, y) \/ Later(y, x)
    BY <1>2, <2>2, <2>3
  <2>5. QED
    BY <1>1, <2>4
<1>7. QED
  BY <1>3, <1>4, <1>5, <1>6 DEF Ordered

\* An order by Later lists its items.
LEMMA LaterLists ==
    ASSUME NEW I, IsFiniteSet(I), \A a \in I : a.date \in Int /\ a.id \in Int,
           \A a \in I : \A b \in I : a.id = b.id => a = b
    PROVE  Lists(InOrder(I, Later), I)
<1>1. PICK s : s = InOrder(I, Later)
  OBVIOUS
<1>2. PICK below : below = [x \in I |-> {y \in I : Later(y, x)}]
  OBVIOUS
<1>3. \A x \in I : below[x] = {y \in I : Later(y, x)}
  BY <1>2
<1>4. Ordered(I, below)
  BY <1>2, LaterOrders
<1>5. PICK n \in Nat : n = Cardinality(I)
  BY FS_CardinalityType
<1>6. s = [k \in 1 .. n |-> CHOOSE x \in I : Cardinality({y \in I : Later(y, x)}) = k - 1]
  BY <1>1, <1>5 DEF InOrder
<1>7. ASSUME NEW k \in 1 .. n
      PROVE  s[k] \in I /\ Cardinality(below[s[k]]) + 1 = k
  <2>1. PICK x \in I : Cardinality(below[x]) = k - 1
    <3>1. EveryRank(I, below)
      BY <1>4, Ranked
    <3>2. QED
      BY <1>5, <3>1 DEF EveryRank
  <2>2. Cardinality({y \in I : Later(y, x)}) = k - 1
    BY <1>3, <2>1
  <2>3. s[k] = CHOOSE z \in I : Cardinality({y \in I : Later(y, z)}) = k - 1
    BY <1>6
  <2>4. s[k] \in I /\ Cardinality({y \in I : Later(y, s[k])}) = k - 1
    BY <2>2, <2>3
  <2>5. Cardinality(below[s[k]]) = k - 1
    BY <1>3, <2>4
  <2>6. QED
    BY <2>4, <2>5
<1>8. s \in Seq(I) /\ Len(s) = n
  <2>1. s \in [1 .. n -> I]
    BY <1>6, <1>7
  <2>2. QED
    BY <2>1
<1>9. Lists(s, I)
  BY <1>4, <1>5, <1>7, <1>8, RanksList
<1>10. QED
  BY <1>1, <1>9

\* What the index is: items of files, each with an id of its own, as many of every file
\* as directories it is in that are walked, if the index is not full.
Indexed(v) ==
    /\ v \in Seq(ToSet(v)) /\ Len(v) \in Nat /\ DOMAIN v = 1 .. Len(v)
    /\ Len(v) <= MAX_VISUAL_ITEMS
    /\ \A i \in 1 .. Len(v) :
          /\ v[i] = Item(v[i].id, v[i].file)
          /\ v[i].file \in Files /\ v[i].id \in Sounds + 1 .. Sounds + Len(v)
    /\ \A i \in 1 .. Len(v) : \A j \in 1 .. Len(v) : v[i].id = v[j].id => i = j
    /\ Len(v) < MAX_VISUAL_ITEMS => \A f \in Files :
          Cardinality({i \in 1 .. Len(v) : v[i].file = f}) = Often(f)

\* What a session's start makes of the user's files.
LEMMA IndexFacts ==
    ASSUME place \in Placements, roots \in RootSets
    PROVE  Indexed(index_visual_media)
<1>1. PICK found : found = WalkEach(walk_visual[0], ByName(roots), <<>>)
  OBVIOUS
<1>2. /\ found \in Seq(Files) /\ Len(found) <= MAX_VISUAL_ITEMS
      /\ Len(found) < MAX_VISUAL_ITEMS => \A f \in Files : TimesIn(f, found) = Often(f)
  BY <1>1, FoundInAll
<1>3. PICK n \in Nat : n = Len(found)
  BY <1>2
<1>4. DOMAIN found = 1 .. n /\ \A i \in 1 .. n : found[i] \in Files
  BY <1>2, <1>3
<1>5. PICK S \in Nat : S = Sounds
  BY MediaAssumption
<1>6. PICK to : to = [i \in 1 .. n |-> Item(S + i, found[i])]
  OBVIOUS
<1>7. ASSUME NEW i \in 1 .. n
      PROVE  /\ to[i].id = S + i /\ to[i].file = found[i] /\ to[i].file \in Files
             /\ to[i].date \in Int /\ to[i] = Item(to[i].id, to[i].file)
  <2>1. to[i] = Item(S + i, found[i])
    BY <1>6
  <2>2. to[i].id = S + i /\ to[i].file = found[i] /\ to[i].date = place[found[i]].date
    BY <2>1, ItemFacts
  <2>3. found[i] \in Files /\ place[found[i]].date \in Nat
    BY <1>4, PlaceTyped
  <2>4. QED
    BY <2>1, <2>2, <2>3
<1>8. PICK I : I = {Item(Sounds + i, found[i]) : i \in DOMAIN found}
  OBVIOUS
<1>9. \A x : x \in I <=> \E i \in 1 .. n : x = to[i]
  BY <1>4, <1>5, <1>6, <1>8
<1>10. IsFiniteSet(I) /\ Cardinality(I) = n
  <2>1. \A x \in 1 .. n : to[x] \in I
    BY <1>9
  <2>2. \A x \in 1 .. n : \A y \in 1 .. n : to[x] = to[y] => x = y
    <3> SUFFICES ASSUME NEW x \in 1 .. n, NEW y \in 1 .. n, to[x] = to[y]
                 PROVE  x = y
      OBVIOUS
    <3>1. to[x].id = S + x /\ to[y].id = S + y
      BY <1>7
    <3>2. S + x = S + y
      BY <3>1
    <3>3. QED
      BY <3>2
  <2>3. \A z \in I : \E x \in 1 .. n : to[x] = z
    BY <1>9
  <2>4. IsFiniteSet(1 .. n) /\ Cardinality(1 .. n) = n
    BY FS_Interval
  <2>5. QED
    BY ZenonT(60), <2>1, <2>2, <2>3, <2>4, SameNumber
<1>11. ASSUME NEW a \in I, NEW b \in I, a.id = b.id
       PROVE  a = b
  <2>1. PICK i \in 1 .. n : a = to[i]
    BY <1>9
  <2>2. PICK j \in 1 .. n : b = to[j]
    BY <1>9
  <2>3. S + i = S + j
    BY <1>7, <1>11, <2>1, <2>2
  <2>4. i = j
    BY <2>3
  <2>5. QED
    BY <2>1, <2>2, <2>4
<1>12. \A a \in I : a.date \in Int /\ a.id \in Int
  <2> SUFFICES ASSUME NEW a \in I PROVE a.date \in Int /\ a.id \in Int
    OBVIOUS
  <2>1. PICK i \in 1 .. n : a = to[i]
    BY <1>9
  <2>2. to[i].date \in Int /\ to[i].id = S + i
    BY <1>7
  <2>3. QED
    BY <2>1, <2>2
<1>13. PICK v : v = index_visual_media
  OBVIOUS
<1>14. v = InOrder(I, Later)
  BY <1>1, <1>8, <1>13 DEF index_visual_media
<1>15. Lists(v, I)
  BY <1>10, <1>11, <1>12, <1>14, LaterLists
<1>16. v \in Seq(ToSet(v)) /\ v \in Seq(I) /\ Len(v) = n /\ DOMAIN v = 1 .. n
  <2>1. v \in Seq(I) /\ Len(v) = n /\ DOMAIN v = 1 .. n
    BY <1>10, <1>15 DEF Lists
  <2>2. \A i \in 1 .. n : v[i] \in ToSet(v)
    BY <2>1 DEF ToSet
  <2>3. v \in Seq(ToSet(v))
    BY <2>1, <2>2
  <2>4. QED
    BY <2>1, <2>3
<1>17. ASSUME NEW i \in 1 .. n
       PROVE  \E j \in 1 .. n : v[i] = to[j]
  <2>1. v[i] \in I
    BY <1>16
  <2>2. QED
    BY <1>9, <2>1
<1>18. PICK at : at = [i \in 1 .. n |-> v[i].id - S]
  OBVIOUS
<1>19. ASSUME NEW i \in 1 .. n
       PROVE  /\ at[i] \in 1 .. n /\ v[i] = to[at[i]] /\ v[i].id = S + at[i]
              /\ v[i].file = found[at[i]]
  <2>1. PICK j \in 1 .. n : v[i] = to[j]
    BY <1>17
  <2>2. to[j].id = S + j /\ to[j].file = found[j]
    BY <1>7
  <2>3. at[i] = (S + j) - S
    BY <1>18, <2>1, <2>2
  <2>4. at[i] = j
    BY <2>3
  <2>5. QED
    BY <2>1, <2>2, <2>4
<1>20. ASSUME NEW i \in 1 .. n, NEW j \in 1 .. n, at[i] = at[j]
       PROVE  i = j
  <2>1. v[i] = v[j]
    BY <1>19, <1>20
  <2>2. QED
    BY <1>15, <1>16, <2>1 DEF Lists
<1>21. ASSUME NEW k \in 1 .. n
       PROVE  \E i \in 1 .. n : at[i] = k
  <2>1. to[k] \in I
    BY <1>9
  <2>2. PICK i \in 1 .. n : v[i] = to[k]
    BY <1>15, <1>16, <2>1 DEF Lists
  <2>3. S + at[i] = S + k /\ at[i] \in 1 .. n
    BY <1>7, <1>19, <2>2
  <2>4. at[i] = k
    BY <2>3
  <2>5. QED
    BY <2>4
<1>22. ASSUME NEW f \in Files
       PROVE  Cardinality({i \in 1 .. n : v[i].file = f}) = TimesIn(f, found)
  <2> DEFINE A == {i \in 1 .. n : v[i].file = f}
             B == {i \in 1 .. n : found[i] = f}
  <2>1. IsFiniteSet(A)
    <3>1. IsFiniteSet(1 .. n) /\ A \subseteq 1 .. n
      BY FS_Interval
    <3>2. QED
      BY <3>1, FS_Subset
  <2>2. \A x \in A : at[x] \in B
    BY <1>19
  <2>3. \A x \in A : \A y \in A : at[x] = at[y] => x = y
    BY <1>20
  <2>4. \A z \in B : \E x \in A : at[x] = z
    <3> SUFFICES ASSUME NEW z \in B PROVE \E x \in A : at[x] = z
      OBVIOUS
    <3>1. PICK i \in 1 .. n : at[i] = z
      BY <1>21
    <3>2. i \in A
      BY <1>19, <3>1
    <3>3. QED
      BY <3>1, <3>2
  <2>5. TimesIn(f, found) = Cardinality(B)
    BY <1>3 DEF TimesIn
  <2> HIDE DEF A, B
  <2>6. Cardinality(B) = Cardinality(A)
    BY <2>1, <2>2, <2>3, <2>4, SameNumber
  <2>7. QED
    BY <2>5, <2>6 DEF A
<1>23. ASSUME NEW i \in 1 .. n
       PROVE  /\ v[i] = Item(v[i].id, v[i].file) /\ v[i].file \in Files
              /\ v[i].id \in Sounds + 1 .. Sounds + n
  <2>1. PICK j \in 1 .. n : j = at[i] /\ v[i] = to[j] /\ v[i].id = S + j
    BY <1>19
  <2>2. to[j] = Item(to[j].id, to[j].file) /\ to[j].file \in Files
    BY <1>7
  <2>3. S + j \in Sounds + 1 .. Sounds + n
    BY <1>5
  <2>4. QED
    BY <2>1, <2>2, <2>3
<1>24. ASSUME NEW i \in 1 .. n, NEW j \in 1 .. n, v[i].id = v[j].id
       PROVE  i = j
  BY <1>18, <1>20, <1>24
<1>25. Len(v) < MAX_VISUAL_ITEMS => \A f \in Files :
          Cardinality({i \in 1 .. n : v[i].file = f}) = Often(f)
  BY <1>2, <1>3, <1>16, <1>22
<1>26. Indexed(v)
  BY <1>2, <1>3, <1>16, <1>23, <1>24, <1>25 DEF Indexed
<1>27. QED
  BY <1>13, <1>26
-----------------------------------------------------------------------------
(***************************************************************************)
(* The media provider: the index is made once, and ids go on from there.   *)
(***************************************************************************)
MediaSpec == MediaInit /\ [][MediaNext]_mediaVars

\* Chosen files have ids of their own, beyond those of the index.
ChosenInv ==
    /\ Sounds + Len(visual) + 1 <= next_id
    /\ \A c \in choosing \cup documents :
          c \in Nat \X Files /\ Sounds + Len(visual) < c[1] /\ c[1] < next_id
    /\ \A c \in choosing \cup documents : \A d \in choosing \cup documents :
          c[1] = d[1] => c = d

MediaInv ==
    /\ place \in Placements /\ roots \in RootSets /\ loaded \in BOOLEAN /\ next_id \in Nat
    /\ IF loaded THEN Indexed(visual) ELSE visual = <<>> /\ choosing = {} /\ documents = {}
    /\ ChosenInv

\* Nothing is found and nothing was chosen.
LEMMA MediaInitially == MediaInit => MediaInv
<1> SUFFICES ASSUME MediaInit PROVE MediaInv
  OBVIOUS
<1>1. Sounds \in Nat
  BY MediaAssumption
<1>2. Len(visual) = 0
  BY DEF MediaInit
<1>3. ChosenInv
  BY <1>1, <1>2 DEF MediaInit, ChosenInv
<1>4. next_id \in Nat
  BY <1>1 DEF MediaInit
<1>5. /\ place \in Placements /\ roots \in RootSets /\ loaded \in BOOLEAN /\ ~loaded
      /\ visual = <<>> /\ choosing = {} /\ documents = {}
  BY DEF MediaInit
<1>6. QED
  BY <1>3, <1>4, <1>5 DEF MediaInv

\* An index that was made of the files that are there now is one.
LEMMA IndexedStays ==
    ASSUME NEW v, Indexed(v), visual' = v, UNCHANGED <<place, roots>>
    PROVE  Indexed(visual)'
<1>1. place' = place /\ roots' = roots /\ visual' = v
  OBVIOUS
<1>2. QED
  BY <1>1 DEF Indexed, ToSet, Item, Often

\* The index is made, and the next id is one beyond it.
LEMMA LoadMediaStep ==
    ASSUME MediaInv, LoadMedia
    PROVE  MediaInv'
<1>1. PICK v : v = index_visual_media
  OBVIOUS
<1>2. /\ ~loaded /\ loaded' = TRUE /\ visual' = v /\ next_id' = Sounds + Len(v) + 1
      /\ UNCHANGED <<place, roots, choosing, documents>>
  BY <1>1 DEF LoadMedia
<1>3. place \in Placements /\ roots \in RootSets /\ choosing = {} /\ documents = {}
  BY <1>2 DEF MediaInv
<1>4. Indexed(v)
  BY <1>1, <1>3, IndexFacts
<1>5. Indexed(visual)'
  BY <1>2, <1>4, IndexedStays
<1>6. Len(v) \in Nat /\ Sounds \in Nat
  BY <1>4, MediaAssumption DEF Indexed
<1>7. ChosenInv'
  BY <1>2, <1>3, <1>6 DEF ChosenInv
<1>8. QED
  BY <1>2, <1>3, <1>5, <1>6, <1>7 DEF MediaInv

\* A chosen file gets an id nothing has.
LEMMA DocumentIdStep ==
    ASSUME MediaInv, NEW doc \in Files, DocumentId(doc)
    PROVE  MediaInv'
<1>1. /\ loaded /\ choosing' = choosing \cup {<<next_id, doc>>} /\ next_id' = next_id + 1
      /\ UNCHANGED <<place, roots, loaded, visual, documents>>
  BY DEF DocumentId, NextDocumentId
<1>2. place \in Placements /\ roots \in RootSets /\ next_id \in Nat /\ Indexed(visual)
  BY <1>1 DEF MediaInv
<1>3. Indexed(visual)'
  <2>1. PICK v : v = visual
    OBVIOUS
  <2>2. QED
    BY <1>1, <1>2, <2>1, IndexedStays
<1>4. PICK n \in Nat : n = Sounds + Len(visual)
  BY <1>2, MediaAssumption DEF Indexed
<1>5. PICK C : C = choosing \cup documents
  OBVIOUS
<1>6. /\ n + 1 <= next_id
      /\ \A c \in C : c \in Nat \X Files /\ n < c[1] /\ c[1] < next_id
      /\ \A c \in C : \A d \in C : c[1] = d[1] => c = d
  BY <1>4, <1>5 DEF MediaInv, ChosenInv
<1>7. PICK new : new = <<next_id, doc>>
  OBVIOUS
<1>8. new \in Nat \X Files /\ new[1] = next_id
  BY <1>2, <1>7
<1>9. ASSUME NEW c \in C \cup {new}
      PROVE  c \in Nat \X Files /\ n < c[1] /\ c[1] < next_id + 1
  <2>1. CASE c \in C
    <3>1. c \in Nat \X Files /\ n < c[1] /\ c[1] < next_id
      BY <1>6, <2>1
    <3>2. c[1] \in Nat
      BY <3>1
    <3>3. QED
      BY <1>2, <3>1, <3>2
  <2>2. CASE c = new
    BY <1>2, <1>6, <1>8, <2>2
  <2>3. QED
    BY <2>1, <2>2
<1>10. ASSUME NEW c \in C \cup {new}, NEW d \in C \cup {new}, c[1] = d[1]
       PROVE  c = d
  <2>1. CASE c \in C /\ d \in C
    BY <1>6, <1>10, <2>1
  <2>2. \A e \in C : e[1] # next_id
    <3> SUFFICES ASSUME NEW e \in C PROVE e[1] # next_id
      OBVIOUS
    <3>1. e \in Nat \X Files /\ e[1] < next_id
      BY <1>6
    <3>2. e[1] \in Nat
      BY <3>1
    <3>3. QED
      BY <1>2, <3>1, <3>2
  <2>3. QED
    BY <1>8, <1>10, <2>1, <2>2
<1>11. choosing' \cup documents' = C \cup {new} /\ Sounds + Len(visual') = n
  BY <1>1, <1>4, <1>5, <1>7
<1>12. ChosenInv'
  <2>1. n + 1 <= next_id'
    BY <1>1, <1>2, <1>6
  <2>2. QED
    BY <1>1, <1>9, <1>10, <1>11, <2>1 DEF ChosenInv
<1>13. QED
  BY <1>1, <1>2, <1>3, <1>12 DEF MediaInv

\* Its entry is made.
LEMMA DocumentEntryStep ==
    ASSUME MediaInv, NEW chosen \in choosing, DocumentEntry(chosen)
    PROVE  MediaInv'
<1>1. /\ choosing' = choosing \ {chosen} /\ documents' = documents \cup {chosen}
      /\ UNCHANGED <<place, roots, loaded, visual, next_id>>
  BY DEF DocumentEntry
<1>2. choosing' \cup documents' = choosing \cup documents
  BY <1>1
<1>3. ChosenInv'
  BY <1>1, <1>2 DEF MediaInv, ChosenInv
<1>4. loaded /\ Indexed(visual)
  BY DEF MediaInv
<1>5. Indexed(visual)'
  <2>1. PICK v : v = visual
    OBVIOUS
  <2>2. QED
    BY <1>1, <1>4, <2>1, IndexedStays
<1>6. QED
  BY <1>1, <1>3, <1>4, <1>5 DEF MediaInv

\* Every step of the provider keeps its invariant.
LEMMA MediaStep == MediaInv /\ [MediaNext]_mediaVars => MediaInv'
<1> SUFFICES ASSUME MediaInv, [MediaNext]_mediaVars PROVE MediaInv'
  OBVIOUS
<1>1. CASE LoadMedia
  BY <1>1, LoadMediaStep
<1>2. ASSUME NEW doc \in Files, DocumentId(doc)
      PROVE  MediaInv'
  BY <1>2, DocumentIdStep
<1>3. ASSUME NEW chosen \in choosing, DocumentEntry(chosen)
      PROVE  MediaInv'
  BY <1>3, DocumentEntryStep
<1>4. CASE UNCHANGED mediaVars
  <2>1. UNCHANGED <<place, roots, loaded, visual, next_id, choosing, documents>>
    BY <1>4 DEF mediaVars
  <2>2. Indexed(visual) => Indexed(visual)'
    <3>1. PICK v : v = visual
      OBVIOUS
    <3>2. QED
      BY <2>1, <3>1, IndexedStays
  <2>3. ChosenInv'
    BY <2>1 DEF MediaInv, ChosenInv
  <2>4. QED
    BY <2>1, <2>2, <2>3 DEF MediaInv
<1>5. QED
  BY <1>1, <1>2, <1>3, <1>4 DEF MediaNext
\* What is true of the index, be it made or not.
LEMMA VisualFacts ==
    ASSUME MediaInv
    PROVE  /\ visual \in Seq(ToSet(visual)) /\ Len(visual) \in Nat
           /\ DOMAIN visual = 1 .. Len(visual) /\ Len(visual) <= MAX_VISUAL_ITEMS
           /\ \A i \in 1 .. Len(visual) : visual[i] = Item(visual[i].id, visual[i].file)
           /\ \A v \in ToSet(visual) :
                 /\ v.id \in Nat /\ Sounds < v.id /\ v.id <= Sounds + Len(visual)
                 /\ v.file \in Files /\ v.bucket_id = bucket_of[place[v.file].in]
                 /\ v.media_type \in {Image, Video, Other}
           /\ \A u \in ToSet(visual) : \A v \in ToSet(visual) : u.id = v.id => u = v
<1>1. MAX_VISUAL_ITEMS \in Nat /\ Sounds \in Nat
  BY MediaAssumption
<1>2. CASE ~loaded
  <2>1. visual = <<>>
    BY <1>2 DEF MediaInv
  <2>2. ToSet(visual) = {} /\ DOMAIN visual = {} /\ Len(visual) = 0
    BY <2>1 DEF ToSet
  <2>3. visual \in Seq(ToSet(visual))
    BY <2>1
  <2>4. QED
    BY <1>1, <2>2, <2>3
<1>3. CASE loaded
  <2>1. PICK n \in Nat : n = Len(visual)
    BY <1>3 DEF MediaInv, Indexed
  <2>2. /\ visual \in Seq(ToSet(visual)) /\ DOMAIN visual = 1 .. n /\ n <= MAX_VISUAL_ITEMS
        /\ \A i \in 1 .. n :
              /\ visual[i] = Item(visual[i].id, visual[i].file)
              /\ visual[i].file \in Files /\ visual[i].id \in Sounds + 1 .. Sounds + n
        /\ \A i \in 1 .. n : \A j \in 1 .. n : visual[i].id = visual[j].id => i = j
    BY <1>3, <2>1 DEF MediaInv, Indexed
  <2>3. \A v : v \in ToSet(visual) <=> \E i \in 1 .. n : v = visual[i]
    BY <2>2 DEF ToSet
  <2>4. ASSUME NEW v \in ToSet(visual)
        PROVE  /\ v.id \in Nat /\ Sounds < v.id /\ v.id <= Sounds + n
               /\ v.file \in Files /\ v.bucket_id = bucket_of[place[v.file].in]
               /\ v.media_type \in {Image, Video, Other}
    <3>1. PICK i \in 1 .. n : v = visual[i]
      BY <2>3
    <3>2. v = Item(v.id, v.file) /\ v.file \in Files /\ v.id \in Sounds + 1 .. Sounds + n
      BY <2>2, <3>1
    <3>3. v.id \in Nat /\ Sounds < v.id /\ v.id <= Sounds + n
      BY <1>1, <3>2
    <3>4. PICK id : id = v.id
      OBVIOUS
    <3>5. PICK doc : doc = v.file
      OBVIOUS
    <3>6. v.bucket_id = bucket_of[place[doc].in] /\ v.media_type = place[doc].media_type
      BY <3>2, <3>4, <3>5, ItemFacts
    <3>7. place[doc].media_type \in {Image, Video, Other}
      BY <3>2, <3>5, PlaceTyped DEF MediaInv
    <3>8. QED
      BY <3>2, <3>3, <3>5, <3>6, <3>7
  <2>5. ASSUME NEW u \in ToSet(visual), NEW v \in ToSet(visual), u.id = v.id
        PROVE  u = v
    <3>1. PICK i \in 1 .. n : u = visual[i]
      BY <2>3
    <3>2. PICK j \in 1 .. n : v = visual[j]
      BY <2>3
    <3>3. QED
      BY <2>2, <2>5, <3>1, <3>2
  <2>6. QED
    BY <2>1, <2>2, <2>4, <2>5
<1>4. QED
  BY <1>2, <1>3

\* Items, ids and numbers.
LEMMA MediaTyped == MediaInv => MediaTypeOK
<1> SUFFICES ASSUME MediaInv PROVE MediaTypeOK
  OBVIOUS
<1>1. /\ DOMAIN visual = 1 .. Len(visual) /\ Len(visual) <= MAX_VISUAL_ITEMS
      /\ \A i \in 1 .. Len(visual) : visual[i] = Item(visual[i].id, visual[i].file)
  BY VisualFacts
<1>2. choosing \cup documents \subseteq Nat \X Files
  BY DEF MediaInv, ChosenInv
<1>3. QED
  BY <1>1, <1>2 DEF MediaInv, MediaTypeOK

\* The index has what the directories have.
LEMMA IndexIsRight == MediaInv => IndexIsTheTree
<1> SUFFICES ASSUME MediaInv, loaded, Len(visual) < MAX_VISUAL_ITEMS, NEW f \in Files
             PROVE  Cardinality({i \in DOMAIN visual : visual[i].file = f}) =
                      IF place[f].media_type = Other THEN 0
                      ELSE Cardinality(roots \cap Above(place[f].in))
  BY DEF IndexIsTheTree
<1>1. Indexed(visual)
  BY DEF MediaInv
<1>2. DOMAIN visual = 1 .. Len(visual)
  BY <1>1 DEF Indexed
<1>3. Cardinality({i \in 1 .. Len(visual) : visual[i].file = f}) = Often(f)
  BY <1>1 DEF Indexed
<1>4. QED
  BY <1>2, <1>3 DEF Often

\* A uri opens its file, in whatever way it is named.
LEMMA UrisAreRight == MediaInv => UrisOpenTheirFile
<1> SUFFICES ASSUME MediaInv PROVE UrisOpenTheirFile
  OBVIOUS
<1>1. /\ DOMAIN visual = 1 .. Len(visual) /\ Len(visual) \in Nat
      /\ \A v \in ToSet(visual) : v.id \in Nat /\ Sounds < v.id /\ v.id <= Sounds + Len(visual)
      /\ \A u \in ToSet(visual) : \A v \in ToSet(visual) : u.id = v.id => u = v
  BY VisualFacts
<1>2. ASSUME NEW i \in DOMAIN visual, NEW kind \in Kinds
      PROVE  lookup_open(kind, visual[i].id, "rw", FALSE) = visual[i].file
  <2>1. PICK u \in ToSet(visual) : u = visual[i]
    BY DEF ToSet
  <2>2. PICK named : named = {e \in {<<v.id, v.file>> : v \in ToSet(visual)} : e[1] = u.id}
    OBVIOUS
  <2>3. \A e : e \in named <=> e = <<u.id, u.file>>
    <3> SUFFICES ASSUME NEW e
                 PROVE  e \in named <=> e = <<u.id, u.file>>
      OBVIOUS
    <3>1. ASSUME e \in named
          PROVE  e = <<u.id, u.file>>
      <4>1. PICK v \in ToSet(visual) : e = <<v.id, v.file>>
        BY <2>2, <3>1
      <4>2. v.id = u.id
        BY <2>2, <3>1, <4>1
      <4>3. v = u
        BY <1>1, <4>2
      <4>4. QED
        BY <4>1, <4>3
    <3>2. <<u.id, u.file>> \in named
      BY <2>2
    <3>3. QED
      BY <3>1, <3>2
  <2>4. kind # "aro-files"
    BY DEF Kinds
  <2>5. lookup_open(kind, u.id, "rw", FALSE) =
          IF named = {} THEN Unset ELSE (CHOOSE e \in named : TRUE)[2]
    BY <2>2, <2>4 DEF lookup_open
  <2>6. named = {<<u.id, u.file>>}
    BY <2>3
  <2>7. (CHOOSE e \in named : TRUE) = <<u.id, u.file>>
    BY <2>6
  <2>8. <<u.id, u.file>>[2] = u.file /\ named # {}
    BY <2>6
  <2>9. lookup_open(kind, u.id, "rw", FALSE) = u.file
    BY <2>5, <2>7, <2>8
  <2>10. QED
    BY <2>1, <2>9
<1>3. ASSUME NEW d \in documents
      PROVE  /\ lookup_open("aro-files", d[1], "r", FALSE) = d[2]
             /\ \A v \in ToSet(visual) : d[1] > Sounds /\ d[1] # v.id
  <2>1. /\ d \in Nat \X Files /\ Sounds + Len(visual) < d[1]
        /\ \A e \in documents : e[1] = d[1] => e = d
    BY DEF MediaInv, ChosenInv
  <2>2. PICK named : named = {e \in documents : e[1] = d[1]}
    OBVIOUS
  <2>3. named = {d}
    BY <2>1, <2>2
  <2>4. lookup_open("aro-files", d[1], "r", FALSE) =
          IF named = {} THEN Unset ELSE (CHOOSE e \in named : TRUE)[2]
    BY <2>2 DEF lookup_open
  <2>5. (CHOOSE e \in named : TRUE) = d
    BY <2>3
  <2>6. lookup_open("aro-files", d[1], "r", FALSE) = d[2]
    BY <2>3, <2>4, <2>5
  <2>7. ASSUME NEW v \in ToSet(visual)
        PROVE  d[1] > Sounds /\ d[1] # v.id
    <3>1. d[1] \in Nat /\ Sounds \in Nat /\ Len(visual) \in Nat
      BY <1>1, <2>1, MediaAssumption
    <3>2. v.id \in Nat /\ v.id <= Sounds + Len(visual)
      BY <1>1
    <3>3. QED
      BY <2>1, <3>1, <3>2
  <2>8. QED
    BY <2>6, <2>7
<1>4. QED
  BY <1>2, <1>3 DEF UrisOpenTheirFile
-----------------------------------------------------------------------------
(* Queries.                                                                *)

\* The filter before the first term, and after each of them.
Selected(upTo, f, terms) ==
    /\ upTo[0] = f
    /\ \A n \in 1 .. Len(terms) : upTo[n] = Apply(upTo[n - 1], terms[n])
    /\ apply_selection(f, terms) = upTo[Len(terms)]

\* A selection is gone through term by term.
LEMMA SelectionSteps ==
    ASSUME NEW f, NEW terms, Len(terms) \in Nat
    PROVE  \E upTo : Selected(upTo, f, terms)
<1> DEFINE Is(g, k) == g = [i \in 0 .. k |-> IF i = 0 THEN f ELSE Apply(g[i - 1], terms[i])]
           S == {k \in Nat : \E g : Is(g, k)}
<1>1. 0 \in S
  <2>1. Is([i \in 0 .. 0 |-> f], 0)
    OBVIOUS
  <2>2. QED
    BY <2>1
<1>2. ASSUME NEW k \in Nat, k \in S
      PROVE  k + 1 \in S
  <2>1. PICK g : Is(g, k)
    BY <1>2
  <2>2. PICK final : final = Apply(g[k], terms[k + 1])
    OBVIOUS
  <2> DEFINE h == [n \in 0 .. k + 1 |-> IF n = k + 1 THEN final ELSE g[n]]
  <2>3. \A n \in 0 .. k : g[n] = IF n = 0 THEN f ELSE Apply(g[n - 1], terms[n])
    BY <2>1
  <2>4. \A n \in 0 .. k : n \in 0 .. k + 1 /\ n # k + 1 /\ h[n] = g[n]
    OBVIOUS
  <2>5. \A n \in 1 .. k : n - 1 \in 0 .. k /\ n \in 0 .. k
    OBVIOUS
  <2>6. h[k + 1] = final
    OBVIOUS
  <2>7. (k + 1) - 1 = k /\ k + 1 # 0 /\ k \in 0 .. k /\ 0 \in 0 .. k
    OBVIOUS
  <2>8. \A n \in 0 .. k + 1 : n = 0 \/ n \in 1 .. k \/ n = k + 1
    OBVIOUS
  <2>9. h = [n \in 0 .. k + 1 |-> h[n]]
    OBVIOUS
  <2> HIDE DEF h
  <2>10. \A n \in 0 .. k + 1 : h[n] = IF n = 0 THEN f ELSE Apply(h[n - 1], terms[n])
    BY <2>2, <2>3, <2>4, <2>5, <2>6, <2>7, <2>8
  <2>11. Is(h, k + 1)
    BY <2>9, <2>10
  <2> HIDE DEF Is
  <2>12. QED
    BY <2>11
<1> HIDE DEF S
<1>3. Len(terms) \in S
  BY <1>1, <1>2, Induction
<1>4. PICK g : Is(g, Len(terms))
  BY <1>3 DEF S
<1> DEFINE upTo == CHOOSE h : Is(h, Len(terms))
<1>5. apply_selection(f, terms) = upTo[Len(terms)]
  BY DEF apply_selection
<1>6. Is(upTo, Len(terms))
  BY <1>4
<1> HIDE DEF upTo
<1>7. \A n \in 0 .. Len(terms) : upTo[n] = IF n = 0 THEN f ELSE Apply(upTo[n - 1], terms[n])
  BY <1>6
<1>8. upTo[0] = f /\ \A n \in 1 .. Len(terms) : upTo[n] = Apply(upTo[n - 1], terms[n])
  BY <1>7
<1>9. Selected(upTo, f, terms)
  BY <1>5, <1>8 DEF Selected
<1>10. QED
  BY <1>9

\* No terms and two terms.
LEMMA ShortSelections ==
    ASSUME NEW f, NEW a, NEW b
    PROVE  /\ apply_selection(f, <<>>) = f
           /\ apply_selection(f, <<a, b>>) = Apply(Apply(f, a), b)
<1>1. apply_selection(f, <<>>) = f
  <2>1. PICK none : none = <<>> /\ Len(none) = 0
    OBVIOUS
  <2>2. PICK upTo : Selected(upTo, f, none)
    BY <2>1, SelectionSteps
  <2>3. QED
    BY <2>1, <2>2 DEF Selected
<1>2. apply_selection(f, <<a, b>>) = Apply(Apply(f, a), b)
  <2>0. PICK two : two = <<a, b>>
    OBVIOUS
  <2>1. two = <<a, b>> /\ Len(two) = 2 /\ two[1] = a /\ two[2] = b
    BY <2>0
  <2>2. PICK upTo : Selected(upTo, f, two)
    BY <2>1, SelectionSteps
  <2>3. upTo[0] = f /\ upTo[1] = Apply(upTo[0], a) /\ upTo[2] = Apply(upTo[1], b)
    BY <2>1, <2>2 DEF Selected
  <2>4. apply_selection(f, two) = upTo[2]
    BY <2>1, <2>2 DEF Selected
  <2>5. QED
    BY <2>1, <2>3, <2>4
<1>3. QED
  BY <1>1, <1>2

\* All of the items that match are in the sequence of those that match, and no others.
LEMMA MatchingFacts ==
    ASSUME MediaInv, NEW kind, NEW f
    PROVE  /\ Matching(kind, f) \in Seq(ToSet(visual))
           /\ \A v : v \in ToSet(Matching(kind, f)) <=>
                 v \in ToSet(visual) /\ matches_visual(v, f, TypeRestrict(kind))
<1>1. visual \in Seq(ToSet(visual)) /\ DOMAIN visual = 1 .. Len(visual)
  BY VisualFacts
<1>2. PICK keep : keep = {item \in ToSet(visual) : matches_visual(item, f, TypeRestrict(kind))}
  OBVIOUS
<1>3. PICK m : m = Retain(visual, keep)
  OBVIOUS
<1>4. PICK V : V = ToSet(visual)
  OBVIOUS
<1>5. /\ m \in Seq(V)
      /\ \A i \in DOMAIN m : m[i] \in keep
      /\ \A j \in DOMAIN visual : visual[j] \in keep => \E i \in DOMAIN m : m[i] = visual[j]
  BY <1>1, <1>3, <1>4, RetainFacts
<1>6. Matching(kind, f) = m
  BY <1>2, <1>3 DEF Matching
<1>7. \A v : v \in ToSet(m) <=> v \in keep
  <2> SUFFICES ASSUME NEW v PROVE v \in ToSet(m) <=> v \in keep
    OBVIOUS
  <2>1. ASSUME v \in ToSet(m)
        PROVE  v \in keep
    BY <1>5, <2>1 DEF ToSet
  <2>2. ASSUME v \in keep
        PROVE  v \in ToSet(m)
    <3>1. PICK j \in DOMAIN visual : v = visual[j]
      BY <1>2, <2>2 DEF ToSet
    <3>2. QED
      BY <1>5, <2>2, <3>1 DEF ToSet
  <2>3. QED
    BY <2>1, <2>2
<1>8. QED
  BY <1>2, <1>4, <1>5, <1>6, <1>7

\* The whole of what matches is what a query without offset and limit has.
LEMMA WholePage ==
    ASSUME MediaInv, NEW kind, NEW f, f.offset = 0, f.limit = Unset
    PROVE  query_visual(kind, f) = Matching(kind, f)
<1>1. PICK m : m = Matching(kind, f)
  OBVIOUS
<1>2. m \in Seq(ToSet(visual))
  BY <1>1, MatchingFacts
<1>3. query_visual(kind, f) = SubSeq(m, 0 + 1, Len(m))
  BY <1>1 DEF query_visual, Page
<1>4. SubSeq(m, 1, Len(m)) = m
  BY <1>2, SubSeqFull
<1>5. QED
  BY <1>1, <1>3, <1>4

\* Terms joined by AND are a conjunction.
LEMMA SelectionsAreRight == MediaInv => SelectionsAreConjunctions
<1> SUFFICES ASSUME MediaInv, NEW kind \in Kinds,
                    NEW lo \in {v.id : v \in ToSet(visual)},
                    NEW hi \in {v.id : v \in ToSet(visual)}, NEW dir \in Directories,
                    NEW rows,
                    rows = query_visual(kind, parse_query_filter(Unset,
                               <<[col |-> "between", lo |-> lo, hi |-> hi],
                                 [col |-> "bucket_id", val |-> bucket_of[dir]]>>, 0, Unset))
             PROVE  ToSet(rows) = {v \in ToSet(visual) :
                                     /\ v.id \in lo .. hi /\ bucket_of[place[v.file].in] = bucket_of[dir]
                                     /\ kind = "images" => v.media_type = Image
                                     /\ kind = "video" => v.media_type = Video}
  BY DEF SelectionsAreConjunctions
<1>1. \A v \in ToSet(visual) : /\ v.id \in Nat
                               /\ v.bucket_id = bucket_of[place[v.file].in]
                               /\ v.media_type \in {Image, Video, Other}
  BY VisualFacts
<1>2. lo \in Nat /\ hi \in Nat
  BY <1>1
<1>3. PICK bucket \in Int : bucket = bucket_of[dir]
  BY MediaAssumption
<1>4. Unset \notin Int
  BY MediaAssumption
<1>5. PICK a : a = [col |-> "between", lo |-> lo, hi |-> hi]
  OBVIOUS
<1>6. PICK b : b = [col |-> "bucket_id", val |-> bucket]
  OBVIOUS
<1>7. PICK first : first = [NoFilter EXCEPT !.id = Unset]
  OBVIOUS
<1>8. first = [id |-> Unset, id_min |-> Unset, id_max |-> Unset, bucket_id |-> Unset,
               media_type |-> Unset, offset |-> 0, limit |-> Unset]
  BY <1>7 DEF NoFilter
<1>9. PICK second : second = Apply(first, a)
  OBVIOUS
<1>10. second = [id |-> Unset, id_min |-> lo, id_max |-> hi, bucket_id |-> Unset,
                media_type |-> Unset, offset |-> 0, limit |-> Unset]
  BY <1>5, <1>8, <1>9 DEF Apply
<1>11. PICK third : third = Apply(second, b)
  OBVIOUS
<1>12. third = [id |-> Unset, id_min |-> lo, id_max |-> hi, bucket_id |-> bucket,
                media_type |-> Unset, offset |-> 0, limit |-> Unset]
  BY <1>6, <1>10, <1>11 DEF Apply
<1>13. PICK f : f = parse_query_filter(Unset, <<a, b>>, 0, Unset)
  OBVIOUS
<1>14. f = third
  <2>1. apply_selection(first, <<a, b>>) = third
    BY <1>9, <1>11, ShortSelections
  <2>2. f = [third EXCEPT !.offset = 0, !.limit = Unset]
    BY <1>7, <1>13, <2>1 DEF parse_query_filter
  <2>3. PICK result : result = [third EXCEPT !.offset = 0, !.limit = Unset]
    OBVIOUS
  <2>4. result = [id |-> Unset, id_min |-> lo, id_max |-> hi, bucket_id |-> bucket,
                media_type |-> Unset, offset |-> 0, limit |-> Unset]
    BY <1>12, <2>3
  <2>5. QED
    BY <1>12, <2>2, <2>3, <2>4
<1>15. /\ f.id = Unset /\ f.id_min = lo /\ f.id_max = hi /\ f.bucket_id = bucket
       /\ f.media_type = Unset /\ f.offset = 0 /\ f.limit = Unset
  BY <1>12, <1>14
<1>16. rows = Matching(kind, f)
  BY <1>5, <1>6, <1>13, <1>15, <1>3, WholePage
<1>17. \A v : v \in ToSet(rows) <=>
                v \in ToSet(visual) /\ matches_visual(v, f, TypeRestrict(kind))
  BY <1>16, MatchingFacts
<1>18. ASSUME NEW v \in ToSet(visual)
       PROVE  matches_visual(v, f, TypeRestrict(kind)) <=>
                 /\ v.id \in lo .. hi /\ bucket_of[place[v.file].in] = bucket_of[dir]
                 /\ kind = "images" => v.media_type = Image
                 /\ kind = "video" => v.media_type = Video
  <2>1. v.id \in Nat /\ v.bucket_id = bucket_of[place[v.file].in]
    BY <1>1
  <2>2. lo # Unset /\ hi # Unset /\ bucket # Unset /\ Image # Unset /\ Video # Unset
    BY <1>2, <1>4, <1>3 DEF Image, Video
  <2>3. PICK type : type = TypeRestrict(kind)
    OBVIOUS
  <2>4. /\ kind = "images" => type = Image
        /\ kind = "video" => type = Video
        /\ kind # "images" /\ kind # "video" => type = Unset
    BY <2>3 DEF TypeRestrict
  <2>5. type \in {Unset, v.media_type} <=> (kind = "images" => v.media_type = Image)
                                          /\ (kind = "video" => v.media_type = Video)
    BY <2>2, <2>4
  <2>6. matches_visual(v, f, type) <=>
          /\ type \in {Unset, v.media_type}
          /\ v.id >= lo /\ v.id <= hi /\ bucket \in {Unset, v.bucket_id}
    BY <1>15, <2>2 DEF matches_visual
  <2>7. v.id \in lo .. hi <=> v.id >= lo /\ v.id <= hi
    BY <1>2, <2>1
  <2>8. QED
    BY <1>3, <2>1, <2>2, <2>3, <2>5, <2>6, <2>7
<1>19. QED
  BY <1>17, <1>18
\* What the first of the sequences make, one after the other.
Flattened(flat, seqs) ==
    /\ flat[1] = seqs[1]
    /\ \A n \in 2 .. Len(seqs) : flat[n] = flat[n - 1] \o seqs[n]
    /\ FlattenSeq(seqs) = flat[Len(seqs)]

\* Sequences are made one, from the first to the last.
LEMMA FlattenSteps ==
    ASSUME NEW seqs, Len(seqs) \in Nat, Len(seqs) # 0
    PROVE  \E flat : Flattened(flat, seqs)
<1> DEFINE Is(g, k) == g = [i \in 1 .. k |-> IF i = 1 THEN seqs[i] ELSE g[i - 1] \o seqs[i]]
           S == {k \in Nat : \E g : Is(g, k)}
<1>1. 0 \in S
  <2>1. PICK g : g = [i \in 1 .. 0 |-> seqs[i]]
    OBVIOUS
  <2>2. Is(g, 0)
    BY <2>1
  <2> HIDE DEF Is
  <2>3. QED
    BY <2>2
<1>2. ASSUME NEW k \in Nat, k \in S
      PROVE  k + 1 \in S
  <2>1. PICK g : Is(g, k)
    BY <1>2
  <2>2. PICK final : final = IF k = 0 THEN seqs[1] ELSE g[k] \o seqs[k + 1]
    OBVIOUS
  <2> DEFINE h == [n \in 1 .. k + 1 |-> IF n = k + 1 THEN final ELSE g[n]]
  <2>3. \A n \in 1 .. k : g[n] = IF n = 1 THEN seqs[n] ELSE g[n - 1] \o seqs[n]
    BY <2>1
  <2>4. \A n \in 1 .. k : n \in 1 .. k + 1 /\ n # k + 1 /\ h[n] = g[n]
    OBVIOUS
  <2>5. \A n \in 2 .. k + 1 : n - 1 \in 1 .. k
    OBVIOUS
  <2>6. h[k + 1] = final
    OBVIOUS
  <2>7. (k + 1) - 1 = k /\ (k = 0 <=> k + 1 = 1)
    OBVIOUS
  <2>8. \A n \in 1 .. k + 1 : n \in 1 .. k \/ n = k + 1
    OBVIOUS
  <2>9. h = [n \in 1 .. k + 1 |-> h[n]]
    OBVIOUS
  <2> HIDE DEF h
  <2>10. ASSUME NEW n \in 1 .. k + 1
         PROVE  h[n] = IF n = 1 THEN seqs[n] ELSE h[n - 1] \o seqs[n]
    <3>1. n # 1 => h[n - 1] = g[n - 1]
      BY <2>4, <2>5
    <3>2. CASE n \in 1 .. k
      BY <2>3, <2>4, <3>1, <3>2
    <3>3. CASE n = k + 1
      BY <2>2, <2>6, <2>7, <3>1, <3>3
    <3>4. QED
      BY <2>8, <3>2, <3>3
  <2>11. Is(h, k + 1)
    BY <2>9, <2>10
  <2> HIDE DEF Is
  <2>12. QED
    BY <2>11
<1> HIDE DEF S
<1>3. Len(seqs) \in S
  BY <1>1, <1>2, Induction
<1>4. PICK g : Is(g, Len(seqs))
  BY <1>3 DEF S
<1> DEFINE flat == CHOOSE h : Is(h, Len(seqs))
<1>5. FlattenSeq(seqs) = flat[Len(seqs)]
  BY DEF FlattenSeq
<1>6. Is(flat, Len(seqs))
  BY <1>4
<1> HIDE DEF flat
<1>7. \A n \in 1 .. Len(seqs) : flat[n] = IF n = 1 THEN seqs[n] ELSE flat[n - 1] \o seqs[n]
  BY <1>6
<1>8. flat[1] = seqs[1] /\ \A n \in 2 .. Len(seqs) : flat[n] = flat[n - 1] \o seqs[n]
  <2>1. 1 \in 1 .. Len(seqs) /\ \A n \in 2 .. Len(seqs) : n \in 1 .. Len(seqs) /\ n # 1
    OBVIOUS
  <2>2. flat[1] = seqs[1]
    BY <1>7, <2>1
  <2>3. ASSUME NEW n \in 2 .. Len(seqs)
        PROVE  flat[n] = flat[n - 1] \o seqs[n]
    BY <1>7, <2>1
  <2>4. QED
    BY <2>2, <2>3
<1>9. Flattened(flat, seqs)
  BY <1>5, <1>8 DEF Flattened
<1>10. QED
  BY <1>9

\* The smaller of two numbers, as it ends a page.
Least(a, b) == IF a <= b THEN a ELSE b

\* Where the first page ends, the second, and so on, if the whole is long enough.
Ends(at, n) ==
    /\ \A p \in 0 .. n : at[p] \in Nat /\ p <= at[p]
    /\ \A p \in 1 .. n : at[p - 1] <= at[p]
    /\ at[0] = 0

\* Each page begins where the one before it ends.
Parts(pages, m, at) ==
    /\ Len(pages) = Len(m)
    /\ \A p \in 1 .. Len(m) : pages[p] = SubSeq(m, at[p - 1] + 1, Least(at[p], Len(m)))

\* Parts that follow one another, of which each ends where the next begins or at the end,
\* are the whole.
LEMMA PartsMakeWhole ==
    ASSUME NEW V, NEW m \in Seq(V), Len(m) # 0, NEW at, Ends(at, Len(m)),
           NEW pages, Parts(pages, m, at)
    PROVE  FlattenSeq(pages) = m
<1>0. PICK n \in Nat : n = Len(m) /\ n # 0
  OBVIOUS
<1>a. /\ \A p \in 0 .. n : at[p] \in Nat /\ p <= at[p]
      /\ \A p \in 1 .. n : at[p - 1] <= at[p]
      /\ at[0] = 0
  BY <1>0 DEF Ends
<1>b. Len(pages) = n /\ \A p \in 1 .. n : pages[p] = SubSeq(m, at[p - 1] + 1, Least(at[p], n))
  BY <1>0 DEF Parts
<1> USE <1>0, <1>a, <1>b
<1>1. PICK flat : Flattened(flat, pages)
  BY FlattenSteps
<1>2. /\ flat[1] = pages[1]
      /\ \A p \in 2 .. n : flat[p] = flat[p - 1] \o pages[p]
      /\ FlattenSeq(pages) = flat[n]
  BY <1>1 DEF Flattened
<1> DEFINE S == {k \in Nat : k + 1 <= n => flat[k + 1] = SubSeq(m, 1, Least(at[k + 1], n))}
<1>3. 0 \in S
  <2>1. 1 \in 1 .. n
    OBVIOUS
  <2>2. pages[1] = SubSeq(m, at[1 - 1] + 1, Least(at[1], n))
    BY <2>1
  <2>3. at[1 - 1] + 1 = 1
    OBVIOUS
  <2>4. QED
    BY <1>2, <2>2, <2>3
<1>4. ASSUME NEW k \in Nat, k \in S
      PROVE  k + 1 \in S
  <2> SUFFICES ASSUME (k + 1) + 1 <= n
               PROVE  flat[(k + 1) + 1] = SubSeq(m, 1, Least(at[(k + 1) + 1], n))
    OBVIOUS
  <2>1. PICK p \in 1 .. n : p = k + 1
    OBVIOUS
  <2>2. PICK q \in 2 .. n : q = p + 1 /\ q - 1 = p /\ q \in 1 .. n
    BY <2>1
  <2>3. flat[p] = SubSeq(m, 1, Least(at[p], n))
    <3>1. k + 1 <= n
      OBVIOUS
    <3>2. flat[k + 1] = SubSeq(m, 1, Least(at[k + 1], n))
      BY <1>4, <3>1
    <3>3. QED
      BY <2>1, <3>2
  <2>4. PICK a \in Nat : a = at[p]
    BY <2>1
  <2>5. PICK b \in Nat : b = at[q]
    <3>1. q \in 0 .. n
      BY <2>2
    <3>2. at[q] \in Nat
      BY <3>1
    <3>3. QED
      BY <3>2
  <2>6. a <= b /\ 1 <= a
    <3>1. at[q - 1] <= at[q]
      BY <2>2
    <3>2. p <= at[p]
      BY <2>1
    <3>3. QED
      BY <2>1, <2>2, <2>4, <2>5, <3>1, <3>2
  <2>7. PICK left : left = SubSeq(m, 1, Least(a, n))
    OBVIOUS
  <2>8. PICK right : right = SubSeq(m, a + 1, Least(b, n))
    OBVIOUS
  <2>9. pages[q] = right
    BY <2>2, <2>4, <2>5, <2>8
  <2>10. flat[q] = left \o right
    BY <1>2, <2>2, <2>3, <2>4, <2>7, <2>9
  <2>11. left \o right = SubSeq(m, 1, Least(b, n))
    <3>1. CASE a <= n
      <4>1. PICK c \in a .. n : c = Least(b, n)
        BY <2>6, <3>1 DEF Least
      <4>2. Least(a, n) = a
        BY <3>1 DEF Least
      <4>3. 1 \in 1 .. n + 1 /\ a \in 1 - 1 .. n /\ c \in a .. n
        BY <3>1
      <4>4. SubSeq(m, 1, a) \o SubSeq(m, a + 1, c) = SubSeq(m, 1, c)
        BY ZenonT(60), <4>3, ConcatAdjacentSubSeq
      <4>5. QED
        BY <2>7, <2>8, <4>1, <4>2, <4>4
    <3>2. CASE ~(a <= n)
      <4>1. Least(a, n) = n /\ Least(b, n) = n
        BY <2>6, <3>2 DEF Least
      <4>2. left = m
        BY <2>7, <4>1, SubSeqFull
      <4>3. a + 1 \in Int /\ n \in Int /\ n < a + 1
        BY <3>2
      <4>4. right = <<>>
        BY <2>8, <4>1, <4>3, SubSeqEmpty
      <4>5. m \o <<>> = m
        BY ConcatEmptySeq
      <4>6. QED
        BY <2>7, <4>1, <4>2, <4>4, <4>5
    <3>3. QED
      BY <3>1, <3>2
  <2>12. QED
    BY <2>1, <2>2, <2>5, <2>10, <2>11
<1>5. n - 1 \in S
  <2> HIDE DEF S
  <2>1. n - 1 \in Nat
    OBVIOUS
  <2>2. \A k \in Nat : k \in S
    BY <1>3, <1>4, Induction
  <2>3. QED
    BY <2>1, <2>2
<1>6. (n - 1) + 1 = n /\ n \in 0 .. n
  OBVIOUS
<1>7. flat[n] = SubSeq(m, 1, Least(at[n], n))
  BY <1>5, <1>6
<1>8. Least(at[n], n) = n
  <2>1. at[n] \in Nat /\ n <= at[n]
    BY <1>6
  <2>2. QED
    BY <2>1 DEF Least
<1>9. SubSeq(m, 1, Len(m)) = m
  BY SubSeqFull
<1>10. QED
  BY <1>2, <1>7, <1>8, <1>9
\* A query of a page has what the whole has in it.
LEMMA PageOfWhole ==
    ASSUME MediaInv, NEW kind, NEW m, m = Matching(kind, NoFilter), NEW offset \in Nat,
           NEW limit \in Nat
    PROVE  query_visual(kind, parse_query_filter(Unset, <<>>, offset, limit))
             = SubSeq(m, offset + 1, Least(offset + limit, Len(m)))
<1>1. PICK none : none = [NoFilter EXCEPT !.id = Unset]
  OBVIOUS
<1>2. none = NoFilter
  BY <1>1 DEF NoFilter
<1>3. apply_selection(none, <<>>) = none
  BY ShortSelections
<1>4. PICK f : f = parse_query_filter(Unset, <<>>, offset, limit)
  OBVIOUS
<1>5. f = [NoFilter EXCEPT !.offset = offset, !.limit = limit]
  BY <1>1, <1>2, <1>3, <1>4 DEF parse_query_filter
<1>6. PICK g : g = [id |-> Unset, id_min |-> Unset, id_max |-> Unset, bucket_id |-> Unset,
                    media_type |-> Unset, offset |-> offset, limit |-> limit]
  OBVIOUS
<1>7. f = g
  <2>1. PICK whole : whole = NoFilter
    OBVIOUS
  <2>2. whole = [id |-> Unset, id_min |-> Unset, id_max |-> Unset, bucket_id |-> Unset,
                 media_type |-> Unset, offset |-> 0, limit |-> Unset]
    BY <2>1 DEF NoFilter
  <2>3. PICK result : result = [whole EXCEPT !.offset = offset, !.limit = limit]
    OBVIOUS
  <2>4. result = [id |-> Unset, id_min |-> Unset, id_max |-> Unset, bucket_id |-> Unset,
                media_type |-> Unset, offset |-> offset, limit |-> limit]
    BY <2>2, <2>3
  <2>5. QED
    BY <1>5, <1>6, <2>1, <2>3, <2>4
<1>8. \A item, restrict : matches_visual(item, f, restrict)
                            <=> matches_visual(item, NoFilter, restrict)
  BY <1>6, <1>7 DEF matches_visual, NoFilter
<1>9. Matching(kind, f) = m
  <2>1. {item \in ToSet(visual) : matches_visual(item, f, TypeRestrict(kind))}
          = {item \in ToSet(visual) : matches_visual(item, NoFilter, TypeRestrict(kind))}
    BY <1>8
  <2>2. QED
    BY <2>1 DEF Matching
<1>10. f.offset = offset /\ f.limit = limit /\ limit # Unset
  BY <1>6, <1>7, MediaAssumption
<1>11. m \in Seq(ToSet(visual))
  BY MatchingFacts
<1>12. PICK n \in Nat : n = Len(m)
  BY <1>11
<1>13. Min({offset + limit, n}) = Least(offset + limit, n)
  <2>1. PICK b \in Int : b = offset + limit
    OBVIOUS
  <2>2. Min({b, n}) = IF b <= n THEN b ELSE n
    BY LesserOf
  <2>3. QED
    BY <2>1, <2>2 DEF Least
<1>14. query_visual(kind, f) = Page(m, offset, limit)
  BY <1>9, <1>10 DEF query_visual
<1>15. Page(m, offset, limit) = SubSeq(m, offset + 1, Min({offset + limit, Len(m)}))
  BY <1>10 DEF Page
<1>16. QED
  BY <1>4, <1>12, <1>13, <1>14, <1>15

\* Pages have every match once and in order.
LEMMA PagesOfAnySize ==
    ASSUME MediaInv, NEW limit \in Nat \ {0}
    PROVE  PagesOf(limit)
<1> SUFFICES ASSUME NEW kind \in Kinds,
                    NEW all, all = query_visual(kind, NoFilter), NEW pages,
                    pages = [p \in 1 .. Len(all) |->
                               query_visual(kind,
                                   parse_query_filter(Unset, <<>>, (p - 1) * limit, limit))]
             PROVE  FlattenSeq(pages) = all /\ count_visual(kind, NoFilter) = Len(all)
  BY DEF PagesOf
<1>1. PICK m : m = Matching(kind, NoFilter)
  OBVIOUS
<1>2. m \in Seq(ToSet(visual))
  BY <1>1, MatchingFacts
<1>3. all = m
  <2>1. NoFilter.offset = 0 /\ NoFilter.limit = Unset
    BY DEF NoFilter
  <2>2. QED
    BY <1>1, <2>1, WholePage
<1>4. PICK n \in Nat : n = Len(m)
  BY <1>2
<1>5. PICK at : at = [p \in 0 .. n |-> p * limit]
  OBVIOUS
<1>6. \A p \in 0 .. n : at[p] = p * limit
  BY <1>5
<1>7. /\ \A p \in 0 .. n : at[p] \in Nat /\ p <= at[p]
      /\ \A p \in 1 .. n : at[p - 1] = (p - 1) * limit /\ at[p] = at[p - 1] + limit
      /\ \A p \in 1 .. n : at[p - 1] <= at[p]
      /\ at[0] = 0
  <2>1. \A p \in Nat : p * limit \in Nat /\ p <= p * limit
    OBVIOUS
  <2>2. \A p \in 1 .. n : p - 1 \in 0 .. n /\ p * limit = (p - 1) * limit + limit
    OBVIOUS
  <2>3. 0 * limit = 0 /\ 0 \in 0 .. n
    OBVIOUS
  <2>4. \A p \in 0 .. n : at[p] \in Nat /\ p <= at[p]
    BY <1>6, <2>1
  <2>5. \A p \in 1 .. n : at[p - 1] = (p - 1) * limit /\ at[p] = at[p - 1] + limit
    BY <1>6, <2>2
  <2>6. at[0] = 0
    BY <1>6, <2>3
  <2>7. QED
    BY <2>4, <2>5, <2>6
<1>8. ASSUME NEW p \in 1 .. n
      PROVE  pages[p] = SubSeq(m, at[p - 1] + 1, Least(at[p], n))
  <2>1. PICK offset \in Nat : offset = at[p - 1]
    BY <1>7
  <2>2. pages[p] = query_visual(kind, parse_query_filter(Unset, <<>>, (p - 1) * limit, limit))
    BY <1>3, <1>4
  <2>3. offset = (p - 1) * limit /\ at[p] = offset + limit
    BY <1>7, <2>1
  <2>4. pages[p] = query_visual(kind, parse_query_filter(Unset, <<>>, offset, limit))
    BY <2>2, <2>3
  <2>5. limit \in Nat
    OBVIOUS
  <2>6. query_visual(kind, parse_query_filter(Unset, <<>>, offset, limit))
          = SubSeq(m, offset + 1, Least(offset + limit, Len(m)))
    BY <1>1, <2>5, PageOfWhole
  <2>7. QED
    BY ZenonT(60), <1>4, <2>1, <2>3, <2>4, <2>6
<1>9. Len(pages) = n
  BY <1>3, <1>4
<1>10. FlattenSeq(pages) = m
  <2>1. CASE n # 0
    <3>1. Ends(at, Len(m))
      BY <1>4, <1>7 DEF Ends
    <3>2. Parts(pages, m, at)
      BY <1>4, <1>8, <1>9 DEF Parts
    <3>3. QED
      BY <1>2, <1>4, <2>1, <3>1, <3>2, PartsMakeWhole
  <2>2. CASE n = 0
    <3>1. m = <<>>
      BY <1>2, <1>4, <2>2, EmptySeq
    <3>2. pages = <<>>
      BY <1>3, <1>4, <2>2
    <3>3. FlattenSeq(pages) = pages
      BY <1>9, <2>2 DEF FlattenSeq
    <3>4. QED
      BY <3>1, <3>2, <3>3
  <2>3. QED
    BY <2>1, <2>2
<1>11. count_visual(kind, NoFilter) = Len(m)
  BY <1>1 DEF count_visual
<1>12. QED
  BY <1>3, <1>10, <1>11

\* Those of one item and of two are some of them.
LEMMA PagesAreRight == MediaInv => PagesCoverTheMatches
BY PagesOfAnySize DEF PagesCoverTheMatches

\* The index has every image and video of the directories that are walked, as often as
\* they are above it, unless it is full; queries, pages of any size and uris of it answer
\* for just these files, and no id is given twice: load, walk_visual, query_visual,
\* lookup_open and the ids of chosen files in media.rs.
THEOREM IndexKnowsItsFilesAlways ==
    MediaSpec => [](MediaTypeOK /\ IndexKnowsItsFiles /\ \A limit \in Nat \ {0} : PagesOf(limit))
<1>1. MediaInit => MediaInv
  BY MediaInitially
<1>2. MediaInv /\ [MediaNext]_mediaVars => MediaInv'
  BY MediaStep
<1>3. MediaInv => MediaTypeOK /\ IndexKnowsItsFiles /\ \A limit \in Nat \ {0} : PagesOf(limit)
  BY MediaTyped, IndexIsRight, PagesOfAnySize, PagesAreRight, SelectionsAreRight, UrisAreRight
     DEF IndexKnowsItsFiles
<1>4. QED
  BY <1>1, <1>2, <1>3, PTL DEF MediaSpec

-----------------------------------------------------------------------------
(***************************************************************************)
(* All of them side by side, as they are checked.                          *)
(***************************************************************************)
MediaPartsInv ==
    /\ PlaybackInv /\ RecorderInv /\ SettingsInv /\ CalendarInv /\ MediaInv /\ AreaInv
    /\ subject \in {"player", "recorder", "calendar", "settings", "index", "properties"}

\* A step is of one of them, and leaves the others as they are.
LEMMA MediaPartsStep ==
    ASSUME MediaPartsInv, [Next]_vars
    PROVE  MediaPartsInv'
<1>1. /\ [PlaybackNext]_playbackVars /\ [RecorderNext]_recorderVars /\ [CalendarNext]_calendarVars
      /\ [SettingsNext]_settingsVars /\ [MediaNext]_mediaVars /\ [AreaNext]_areaVars
      /\ UNCHANGED subject
  BY DEF Next, vars
<1>2. PlaybackInv' /\ RecorderInv'
  BY <1>1, PlaybackStep, RecorderStep DEF MediaPartsInv
<1>3. SettingsInv'
  BY <1>1, SettingsTypes, SettingsKept DEF MediaPartsInv, SettingsInv
<1>4. CalendarInv'
  BY <1>1, CalendarStep DEF MediaPartsInv
<1>5. MediaInv' /\ AreaInv'
  BY <1>1, MediaStep, AreaStep DEF MediaPartsInv
<1>6. QED
  BY <1>1, <1>2, <1>3, <1>4, <1>5 DEF MediaPartsInv

\* The player, the recorder, the providers and the property area, each with the types and
\* the invariants that MCMedia checks, for all their parameters: of the calendar and of the
\* settings, for all sessions that share their files.
THEOREM MediaKeepsItsInvariants ==
    Spec => [](/\ TypeOK /\ StopsAreFinal /\ RecordingsEndWell /\ PutSettingsStay
               /\ CalendarKnowsItsEvents /\ IndexKnowsItsFiles /\ PropertiesAreFound)
<1>1. Init => MediaPartsInv
  BY PlaybackInitially, RecorderInitially, SettingsInitially, CalendarInitially, MediaInitially,
     AreaInitially DEF Init, MediaPartsInv
<1>2. MediaPartsInv /\ [Next]_vars => MediaPartsInv'
  BY MediaPartsStep
<1>3. ASSUME MediaPartsInv
      PROVE  /\ TypeOK /\ StopsAreFinal /\ RecordingsEndWell /\ PutSettingsStay
             /\ CalendarKnowsItsEvents /\ IndexKnowsItsFiles /\ PropertiesAreFound
  <2>1. PlaybackTypeOK /\ StopsAreFinal
    BY <1>3 DEF MediaPartsInv, PlaybackInv
  <2>2. RecorderTypeOK /\ RecordingsEndWell
    BY <1>3 DEF MediaPartsInv, RecorderInv
  <2>3. SettingsTypeOK /\ PutSettingsStay
    BY <1>3 DEF MediaPartsInv, SettingsInv, KeptInv, Has, PutSettingsStay, get
  <2>4. CalendarTypeOK /\ CalendarKnowsItsEvents
    BY <1>3, SizesTyped, KeptAreFound, FilesHaveAll, WindowsAreRight
    DEF MediaPartsInv, CalendarInv, CalendarKnowsItsEvents
  <2>5. MediaTypeOK /\ IndexKnowsItsFiles
    BY <1>3, MediaTyped, IndexIsRight, PagesAreRight, SelectionsAreRight, UrisAreRight
    DEF MediaPartsInv, IndexKnowsItsFiles
  <2>6. AreaTypeOK /\ PropertiesAreFound
    BY <1>3, WrittenHolds DEF MediaPartsInv
  <2>7. TypeOK
    BY <1>3, <2>1, <2>2, <2>3, <2>4, <2>5, <2>6 DEF MediaPartsInv, TypeOK
  <2>8. QED
    BY <2>1, <2>2, <2>3, <2>4, <2>5, <2>6, <2>7
<1>4. QED
  BY <1>1, <1>2, <1>3, PTL DEF Spec
=============================================================================
