---------------------------- MODULE MediaRecorder ---------------------------
(***************************************************************************)
(* The recorder (src/crates/arod/src/services/media_recorder.rs): a call   *)
(* holds the state's mutex from its start to its answer.  A session is a   *)
(* pw-record process that pipes into an ffmpeg process, which writes the   *)
(* app's file; both are external, and either may end by itself.            *)
(***************************************************************************)
EXTENDS Naturals

CONSTANT MaxRecordings   \* bound: sessions that are tried
ASSUME RecorderAssumption == MaxRecordings \in Nat \ {0}

Recordings == 1..MaxRecordings
None     == 0

VARIABLES
    recorder,      \* State: its output, encoder and format, whether it is prepared,
                   \* and the session whose processes it holds
    tried,         \* sessions so far
    captures,      \* pw-record processes alive
    encoders,      \* ffmpeg processes alive
    verdict,       \* the encoders that ended well
    recording,     \* the app's file: the session that wrote it, and whether to its end
    answer         \* history: what the last stop or start said, of which session

recorderVars == <<recorder, tried, captures, encoders, verdict, recording, answer>>

RecorderTypeOK ==
    /\ recorder \in [output : BOOLEAN, format : BOOLEAN, encoder : BOOLEAN,
                     prepared : BOOLEAN, session : Recordings \cup {None}]
    /\ tried \in 0..MaxRecordings
    /\ captures \subseteq Recordings /\ encoders \subseteq Recordings
    /\ verdict \subseteq Recordings \ encoders
    /\ recording \in [of : Recordings \cup {None}, whole : BOOLEAN]
    /\ answer \in [of : Recordings \cup {None}, ok : BOOLEAN]

NoAnswer == [of |-> None, ok |-> FALSE]

RecorderInit ==
    /\ recorder = [output |-> FALSE, format |-> FALSE, encoder |-> FALSE,
                   prepared |-> FALSE, session |-> None]
    /\ tried = 0 /\ captures = {} /\ encoders = {} /\ verdict = {}
    /\ recording = [of |-> None, whole |-> FALSE]
    /\ answer = NoAnswer

-----------------------------------------------------------------------------
(* The calls.                                                              *)

\* output, format and encoder, accepted at any time, and none checks the others.
Configure(what) ==
    /\ recorder' = [recorder EXCEPT ![what] = TRUE]
    /\ answer' = NoAnswer
    /\ UNCHANGED <<tried, captures, encoders, verdict, recording>>

Prepare ==
    /\ recorder.output /\ recorder.encoder /\ recorder.format
    /\ recorder' = [recorder EXCEPT !.prepared = TRUE]
    /\ answer' = NoAnswer
    /\ UNCHANGED <<tried, captures, encoders, verdict, recording>>

\* Mutant: a start that fails half-way leaves its pw-record running.
AbandonCapture(n) == captures' = captures \cup {n}

\* pw-record cannot be started, or it is killed because ffmpeg cannot be.
KillCapture(n) == captures' = captures

MayStart == recorder.prepared /\ recorder.session = None /\ recorder.output

\* The file is emptied before either process is started; a start that fails does
\* not restore it, and leaves the recorder prepared.
Start ==
    /\ MayStart /\ tried < MaxRecordings
    /\ LET n == tried + 1
       IN  /\ tried' = n
           /\ \/ /\ recorder' = [recorder EXCEPT !.session = n]
                 /\ captures' = captures \cup {n} /\ encoders' = encoders \cup {n}
                 /\ recording' = [of |-> n, whole |-> FALSE]
                 /\ answer' = [of |-> n, ok |-> TRUE]
              \/ /\ KillCapture(n)
                 /\ UNCHANGED <<recorder, encoders>>
                 /\ recording' = [of |-> None, whole |-> FALSE]
                 /\ answer' = [of |-> n, ok |-> FALSE]
    /\ UNCHANGED verdict

\* Mutant: what the encoder exited with is not looked at.
AnyExit(n, ends) == TRUE

\* ends: the encoder ended well before its two seconds were over.
ExitedWell(n, ends) == ends

\* pw-record is interrupted and awaited; then ffmpeg, which has its input to its
\* end, is awaited, and killed when it takes too long.
Reap(ends) ==
    LET n == recorder.session
    IN  /\ ends => n \in verdict \cup encoders
        /\ n \in verdict => ends
        /\ captures' = captures \ {n}
        /\ encoders' = encoders \ {n}
        /\ verdict' = IF ends THEN verdict \cup {n} ELSE verdict
        /\ recording' = IF ends /\ recording.of = n THEN [of |-> n, whole |-> TRUE] ELSE recording

Stop ==
    /\ \E ends \in BOOLEAN :
          /\ Reap(ends)
          /\ answer' = [of |-> recorder.session,
                        ok |-> recorder.session # None /\ ExitedWell(recorder.session, ends)]
    /\ recorder' = [recorder EXCEPT !.session = None, !.prepared = FALSE]
    /\ UNCHANGED tried

\* release, close and reset stop what runs and forget the output, as does the
\* end of the recorder; what the stop said is not passed on.
Release ==
    /\ \E ends \in BOOLEAN : Reap(ends)
    /\ recorder' = [recorder EXCEPT !.session = None, !.prepared = FALSE, !.output = FALSE]
    /\ answer' = NoAnswer
    /\ UNCHANGED tried

-----------------------------------------------------------------------------
(* The processes.                                                          *)

\* PipeWire goes away, or pw-record fails.
CaptureEnds(n) ==
    /\ n \in captures
    /\ captures' = captures \ {n}
    /\ UNCHANGED <<recorder, tried, encoders, verdict, recording, answer>>

\* ffmpeg ends well when its input has ended, and may fail before.
EncoderEnds(n) ==
    /\ n \in encoders
    /\ encoders' = encoders \ {n}
    /\ \/ /\ n \notin captures
          /\ verdict' = verdict \cup {n}
          /\ recording' = IF recording.of = n THEN [recording EXCEPT !.whole = TRUE] ELSE recording
       \/ UNCHANGED <<verdict, recording>>
    /\ UNCHANGED <<recorder, tried, captures, answer>>

RecorderNext ==
    \/ \E what \in {"output", "format", "encoder"} : Configure(what)
    \/ Prepare \/ Start \/ Stop \/ Release
    \/ \E n \in Recordings : CaptureEnds(n) \/ EncoderEnds(n)

-----------------------------------------------------------------------------
(* Properties.                                                             *)

\* A stop that answers 0 leaves the app a file that its encoder wrote to the end,
\* whatever failed in the session (media_recorder.rs:88).
StoppedWellIsWhole ==
    answer.ok /\ recorder.session = None => recording = [of |-> answer.of, whole |-> TRUE]

\* No process of a session the recorder no longer holds is alive: not after a start
\* that failed between the two, nor after a second start.
NoRecordingIsLeftRunning == captures \cup encoders \subseteq {recorder.session}

\* A recording ends as it was told to.
RecordingsEndWell == StoppedWellIsWhole /\ NoRecordingIsLeftRunning
=============================================================================
