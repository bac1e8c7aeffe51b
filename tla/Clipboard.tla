------------------------------ MODULE Clipboard -----------------------------
(***************************************************************************)
(* The clipboard (src/crates/arod/src/services/clipboard.rs): a call that  *)
(* sets or clears the clip writes it to the host with wl-copy, takes a     *)
(* copy of the listeners under their lock, and tells each of the copy in a *)
(* oneway transaction; listeners come and go meanwhile, and one that       *)
(* cannot be told is dropped.  wl-copy is external, and may fail.          *)
(***************************************************************************)
EXTENDS Naturals, FiniteSets

CONSTANTS
    ClipThreads,     \* threads of the app that set the clip
    ClipListeners,   \* its listeners
    MaxClips         \* bound: writes that succeed

ASSUME ClipboardAssumption == MaxClips \in Nat

VARIABLES
    listeners,   \* those that are registered
    reachable,   \* those whose process is alive
    clips,       \* writes to the host so far
    clipCall,    \* of each thread: where its call is, and whom it has still to tell
    uninformed   \* history: listeners that were registered when the clip was written,
                 \* still are, and were not told since

clipVars == <<listeners, reachable, clips, clipCall, uninformed>>

NoCall == [at |-> "idle", left |-> {}]

ClipTypeOK ==
    /\ listeners \subseteq ClipListeners /\ reachable \subseteq ClipListeners
    /\ clips \in 0..MaxClips
    /\ clipCall \in [ClipThreads -> [at : {"idle", "write", "written", "tell"},
                                     left : SUBSET ClipListeners]]
    /\ uninformed \subseteq listeners

ClipInit ==
    /\ listeners = {} /\ reachable = ClipListeners /\ clips = 0
    /\ clipCall = [t \in ClipThreads |-> NoCall] /\ uninformed = {}

SetCall(t, at, left) == clipCall' = [clipCall EXCEPT ![t] = [at |-> at, left |-> left]]

\* setPrimaryClip with a text, and clearPrimaryClip; a clip without one is no call.
SetPrimaryClip(t) ==
    /\ clipCall[t].at = "idle"
    /\ SetCall(t, "write", {})
    /\ UNCHANGED <<listeners, reachable, clips, uninformed>>

\* wl-copy: when it fails, nobody is told and the call answers an error.
WriteHost(t) ==
    /\ clipCall[t].at = "write"
    /\ \/ /\ clips < MaxClips /\ clips' = clips + 1
          /\ uninformed' = listeners \cap reachable
          /\ SetCall(t, "written", {})
       \/ SetCall(t, "idle", {}) /\ UNCHANGED <<clips, uninformed>>
    /\ UNCHANGED <<listeners, reachable>>

CopyListeners(t) ==
    /\ clipCall[t].at = "written"
    /\ SetCall(t, "tell", listeners)
    /\ UNCHANGED <<listeners, reachable, clips, uninformed>>

\* Mutant: the first listener that cannot be told ends the round.
RestAfter(t, l) == IF l \in reachable THEN clipCall[t].left \ {l} ELSE {}

Rest(t, l) == clipCall[t].left \ {l}

\* One of the copy is told, or dropped, under the lock again.
Tell(t) ==
    /\ clipCall[t].at = "tell" /\ clipCall[t].left # {}
    /\ \E l \in clipCall[t].left :
          /\ SetCall(t, "tell", Rest(t, l))
          /\ listeners' = IF l \in reachable THEN listeners ELSE listeners \ {l}
          /\ uninformed' = uninformed \ {l}
    /\ UNCHANGED <<reachable, clips>>

Return(t) ==
    /\ clipCall[t].at = "tell" /\ clipCall[t].left = {}
    /\ SetCall(t, "idle", {})
    /\ UNCHANGED <<listeners, reachable, clips, uninformed>>

\* A listener is registered once, and what it missed while it was not is lost to it.
addPrimaryClipChangedListener(l) ==
    /\ l \in reachable /\ listeners' = listeners \cup {l}
    /\ UNCHANGED <<reachable, clips, clipCall, uninformed>>

removePrimaryClipChangedListener(l) ==
    /\ l \in reachable /\ listeners' = listeners \ {l}
    /\ uninformed' = uninformed \ {l}
    /\ UNCHANGED <<reachable, clips, clipCall>>

ListenerDies(l) ==
    /\ l \in reachable /\ reachable' = reachable \ {l}
    /\ uninformed' = uninformed \ {l}
    /\ UNCHANGED <<listeners, clips, clipCall>>

ClipNext ==
    \/ \E t \in ClipThreads :
          SetPrimaryClip(t) \/ WriteHost(t) \/ CopyListeners(t) \/ Tell(t) \/ Return(t)
    \/ \E l \in ClipListeners : \/ addPrimaryClipChangedListener(l)
                                \/ removePrimaryClipChangedListener(l)
                                \/ ListenerDies(l)

-----------------------------------------------------------------------------
(* Properties.                                                             *)

\* When no call is under way, every listener that was registered when the clip was
\* last written, and still is, was told after the write, whichever listeners came,
\* went or died, and however the rounds of two calls interleave.
ListenersKnowTheClip ==
    (\A t \in ClipThreads : clipCall[t].at = "idle") => uninformed = {}
=============================================================================
