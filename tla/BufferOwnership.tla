-------------------------- MODULE BufferOwnership ---------------------------
(***************************************************************************)
(* What the display path promises about memory two parties share: nobody   *)
(* renders into a buffer while another one may be reading it.  A resource  *)
(* is an app's gralloc buffer, or a slot of the pool the Wayland presenter *)
(* (src/crates/arod/src/compositor.rs) draws its own frames into.          *)
(* FrameBuffers implements this module.                                    *)
(***************************************************************************)
CONSTANTS
    Resources,
    Pool          \* a subset: those that are replaced by fresh ones, all at once

VARIABLES
    rendering,    \* the resources their owner may write
    scanning      \* the resources the desktop may still read

vars == <<rendering, scanning>>

Init == rendering = Resources /\ scanning = {}

\* The owner lets go of the resource, filled.
Post(r) == r \in rendering /\ rendering' = rendering \ {r} /\ UNCHANGED scanning

\* The desktop gets it.
Show(r) == r \notin rendering /\ scanning' = scanning \cup {r} /\ UNCHANGED rendering

\* Filled and shown in one step.
Present(r) ==
    /\ r \in rendering \ scanning
    /\ rendering' = rendering \ {r}
    /\ scanning' = scanning \cup {r}

\* The desktop is done with it.
Scanned(r) == r \in scanning /\ scanning' = scanning \ {r} /\ UNCHANGED rendering

\* Its owner gets it back: never before the desktop is done with it.
GiveBack(r) ==
    /\ r \notin rendering \cup scanning
    /\ rendering' = rendering \cup {r}
    /\ UNCHANGED scanning

\* Fresh memory takes the place of the pool's.
Replace == rendering' = rendering \cup Pool /\ scanning' = scanning \ Pool

\* Fresh memory, into one of whose slots a frame is drawn at once.
ReplaceAndPresent(r) ==
    /\ r \in Pool
    /\ rendering' = (rendering \cup Pool) \ {r}
    /\ scanning' = (scanning \ Pool) \cup {r}

Next ==
    \/ \E r \in Resources :
          Post(r) \/ Show(r) \/ Present(r) \/ Scanned(r) \/ GiveBack(r)
             \/ ReplaceAndPresent(r)
    \/ Replace

Spec == Init /\ [][Next]_vars
=============================================================================
