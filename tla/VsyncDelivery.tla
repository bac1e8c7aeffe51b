--------------------------- MODULE VsyncDelivery ----------------------------
(***************************************************************************)
(* A display event connection: the thread that ticks once per frame and    *)
(* writes vsync events into a socket, and the app's requests for the next  *)
(* one (DisplayEventConnection, src/crates/arod/src/services/              *)
(* surfaceflinger.rs).  The rate and the request flag are atomics that the *)
(* thread reads one after the other; nothing else orders it with the app.  *)
(***************************************************************************)
EXTENDS Naturals

CONSTANTS
    Capacity,      \* events the socket holds
    MaxRequests    \* bound: requests of the app

ASSUME VsyncAssumption == Capacity \in Nat \ {0} /\ MaxRequests \in Nat

VARIABLES
    rate,        \* > 0: every tick is sent
    request,     \* request_flag
    tick,        \* the thread: asleep, or where it is in this tick
    queue,       \* events in the socket
    running,     \* cleared when the connection is dropped
    asked,       \* requests made
    owed         \* history: no event was sent since the last request

vsyncVars == <<rate, request, tick, queue, running, asked, owed>>

VsyncTypeOK ==
    /\ rate \in {0, 1} /\ request \in BOOLEAN
    /\ tick \in {"asleep", "rate", "flag", "send", "ended"}
    /\ queue \in 0..Capacity
    /\ running \in BOOLEAN
    /\ asked \in 0..MaxRequests /\ owed \in BOOLEAN

VsyncInit ==
    /\ rate = 0 /\ request = FALSE
    /\ tick = "asleep"
    /\ queue = 0
    /\ running = TRUE
    /\ asked = 0 /\ owed = FALSE

SetVsyncRate ==
    /\ running
    /\ rate' = 1 - rate
    /\ UNCHANGED <<request, tick, queue, running, asked, owed>>

\* Mutant: no flag is set while every tick is sent anyway.
RequestUnlessContinuous ==
    /\ running /\ asked < MaxRequests
    /\ request' = (rate = 0)
    /\ asked' = asked + 1 /\ owed' = TRUE
    /\ UNCHANGED <<rate, tick, queue, running>>

RequestNextVsync ==
    /\ running /\ asked < MaxRequests
    /\ request' = TRUE
    /\ asked' = asked + 1 /\ owed' = TRUE
    /\ UNCHANGED <<rate, tick, queue, running>>

ReadEvent ==
    /\ queue > 0
    /\ queue' = queue - 1
    /\ UNCHANGED <<rate, request, tick, running, asked, owed>>

Disconnect ==
    /\ running
    /\ running' = FALSE
    /\ UNCHANGED <<rate, request, tick, queue, asked, owed>>

Wake ==
    /\ tick = "asleep"
    /\ tick' = IF running THEN "rate" ELSE "ended"
    /\ UNCHANGED <<rate, request, queue, running, asked, owed>>

LoadRate ==
    /\ tick = "rate"
    /\ tick' = IF rate > 0 THEN "send" ELSE "flag"
    /\ UNCHANGED <<rate, request, queue, running, asked, owed>>

\* The flag is taken and cleared at once, and only when the rate did not decide.
SwapRequest ==
    /\ tick = "flag"
    /\ tick' = IF request THEN "send" ELSE "asleep"
    /\ request' = FALSE
    /\ UNCHANGED <<rate, queue, running, asked, owed>>

\* Mutant: the socket grows with every event.
WriteVsyncUnbounded ==
    /\ tick = "send"
    /\ tick' = "asleep" /\ queue' = queue + 1 /\ owed' = FALSE
    /\ UNCHANGED <<rate, request, running, asked>>

\* A full socket loses the event; the app then has others to read.
WriteVsync ==
    /\ tick = "send"
    /\ tick' = "asleep"
    /\ queue' = IF queue < Capacity THEN queue + 1 ELSE queue
    /\ owed' = FALSE
    /\ UNCHANGED <<rate, request, running, asked>>

Ticker == Wake \/ LoadRate \/ SwapRequest \/ WriteVsync

VsyncNext == SetVsyncRate \/ RequestNextVsync \/ ReadEvent \/ Disconnect \/ Ticker

VsyncSpec == VsyncInit /\ [][VsyncNext]_vsyncVars

-----------------------------------------------------------------------------
\* No request is lost between the two atomics, whatever the rate is set to
\* meanwhile: until an event is sent after it, either its flag is still there for
\* the next tick or this tick is about to send.
RequestsAreAnswered == owed => request \/ tick = "send"
=============================================================================
