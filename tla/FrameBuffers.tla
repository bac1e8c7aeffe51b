---------------------------- MODULE FrameBuffers ----------------------------
(***************************************************************************)
(* The way of a frame's buffer from the app to the desktop and back: the   *)
(* allocator (src/crates/arod/src/services/allocator.rs), the composer     *)
(* binder that finds the posted buffer in a transaction                    *)
(* (src/crates/arod/src/services/surfaceflinger.rs) and the presenter      *)
(* thread with its Wayland connection (src/crates/arod/src/compositor.rs). *)
(*                                                                         *)
(* Two parties are external: the app's buffer queues (libgui's             *)
(* BLASTBufferQueue, one per window), which take a release for the buffer  *)
(* and frame number they submitted and ignore any other, and the desktop,  *)
(* which reads a committed wl_buffer until some time after another one was *)
(* committed.  Which window a frame belongs to, and so how the presenter   *)
(* shows it, is any choice here and WindowComposition's subject.           *)
(***************************************************************************)
EXTENDS Naturals, Sequences, FiniteSetsExt, Functions

CONSTANTS
    Queues,        \* the app's buffer queues
    Buffers,       \* gralloc buffers
    QueueOf,       \* the queue a buffer is allocated for
    NumBuffers,    \* slots of the presenter's pool (3 in the code)
    MaxFrames,     \* bound: frames posted
    MaxPools,      \* bound: pools created
    Nil

Slots   == 0 .. NumBuffers - 1
Parcel  == [buf : Buffers, whole : BOOLEAN]
Posted  == [buf : Buffers, frame : Nat \ {0}, channel : Queues \cup {Nil}]

\* A buffer is no slot, and Nil is nothing else.
ASSUME FrameAssumption ==
    /\ QueueOf \in [Buffers -> Queues]
    /\ NumBuffers \in Nat \ {0} /\ MaxFrames \in Nat /\ MaxPools \in Nat
    /\ Buffers \cap Slots = {}
    /\ Nil \notin Queues \cup Buffers \cup Parcel /\ Nil \notin Posted

VARIABLES
    gralloc, gbm,               \* the allocator: buffers it keeps, those the GPU made
    held, frame, submitted,     \* the queues: buffers they may fill, posted frames
    channel, cached, call,      \* the composer: release channel, known buffers, handlers
    frames,                     \* the presenter's mpsc channel
    alive,                      \* the presenter thread
    imported, inFlight,         \* its wl_buffers for dmabufs, and those not yet released
    pooled, pool,               \* its shared-memory pool: there is one, how many there were
    busy, nextSlot,             \* the slots of that pool
    dirty, resized,             \* a composition is due; its size is not the pool's
    attached, reading, events,  \* the desktop
    releases                    \* releases on their way to the queues

sharedVars    == <<gralloc, gbm>>
queueVars     == <<held, frame, submitted>>
composerVars  == <<channel, cached, call>>
importVars    == <<imported, inFlight>>
poolVars      == <<pooled, pool, busy, nextSlot, dirty, resized>>
desktopVars   == <<attached, reading, events>>
presenterVars == <<importVars, poolVars, desktopVars>>
frameVars     == <<sharedVars, queueVars, composerVars, frames, alive,
                   presenterVars, releases>>

\* What the desktop reads: an app's buffer, or a slot of the n-th pool.
Scanout == [kind : {"dmabuf"}, buf : Buffers]
             \cup [kind : {"shm"}, slot : Slots, pool : 1..MaxPools]
Dmabuf(b)  == [kind |-> "dmabuf", buf |-> b]
Shm(n, i)  == [kind |-> "shm", slot |-> i, pool |-> n]

FrameTypeOK ==
    /\ gralloc \subseteq Buffers /\ gbm \subseteq gralloc
    /\ held \subseteq gralloc
    /\ frame \in [Buffers -> Nat] /\ submitted \in [Buffers -> Nat]
    /\ channel \in Queues \cup {Nil}
    /\ cached \in [Buffers -> Queues \cup {"unknown", Nil}]
    /\ call \in [Queues -> Parcel \cup {Nil}]
    /\ frames \in Seq(Posted) /\ alive \in BOOLEAN
    /\ imported \subseteq gbm /\ inFlight \in [Buffers -> Posted \cup {Nil}]
    /\ pooled \in BOOLEAN /\ pool \in 0..MaxPools /\ busy \subseteq Slots /\ nextSlot \in Slots
    /\ dirty \in BOOLEAN /\ resized \in BOOLEAN
    /\ attached \in Scanout \cup {Nil} /\ reading \subseteq Scanout
    /\ events \in Seq(Scanout)
    /\ releases \subseteq [to : Queues, buf : Buffers, frame : Nat \ {0}]

FrameInit ==
    /\ gralloc = {} /\ gbm = {}
    /\ held = {}
    /\ frame = [b \in Buffers |-> 0] /\ submitted = [b \in Buffers |-> 0]
    /\ channel = Nil
    /\ cached = [b \in Buffers |-> "unknown"]
    /\ call = [q \in Queues |-> Nil]
    /\ frames = <<>> /\ alive = TRUE
    /\ imported = {} /\ inFlight = [b \in Buffers |-> Nil]
    /\ pooled = FALSE /\ pool = 0 /\ busy = {} /\ nextSlot = 0
    /\ dirty = FALSE /\ resized = FALSE
    /\ attached = Nil /\ reading = {} /\ events = <<>>
    /\ releases = {}

-----------------------------------------------------------------------------
(* The allocator.  allocate2 makes the buffers of one request one by one.  *)

\* Each is a GPU object when there is a device that can make it, else a memfd.
MakeBuffers(made) ==
    /\ gralloc' = gralloc \cup made
    /\ \E onGpu \in SUBSET made : gbm' = gbm \cup onGpu

\* When one of the request fails the reply is an error: the app has none of them,
\* and gralloc keeps those made before.
Allocate(q) ==
    \E made \in SUBSET {b \in Buffers \ gralloc : QueueOf[b] = q} :
       /\ made # {}
       /\ MakeBuffers(made)
       /\ \/ held' = held \cup made
          \/ UNCHANGED held
       /\ UNCHANGED <<frame, submitted, composerVars, frames, alive, presenterVars, releases>>

-----------------------------------------------------------------------------
(* The composer: setTransactionState, in a Binder thread per caller.       *)

\* The two ways back for a buffer: the release channel it was cached with,
\* unless that socket is full, and the queue's listener.
ReleaseOf(pb) ==
    LET back(q) == [to |-> q, buf |-> pb.buf, frame |-> pb.frame]
        listener == {back(QueueOf[pb.buf])}
    IN  {listener} \cup IF pb.channel = Nil THEN {}
                        ELSE {listener \cup {back(pb.channel)}}

Release(pb) == \E msgs \in ReleaseOf(pb) : releases' = releases \cup msgs

\* The first transaction of a queue carries its release channel, which the composer
\* keeps as the one channel it knows.
FindReleaseChannel(q) ==
    IF \A c \in Buffers : QueueOf[c] = q => frame[c] = 0 THEN q ELSE channel

\* A queue submits a buffer: whole if it does not believe it cached, or by its id.
SetTransactionState(b) ==
    LET q == QueueOf[b] IN
    /\ b \in held /\ call[q] = Nil
    /\ SumFunction(frame) < MaxFrames
    /\ held' = held \ {b}
    /\ frame' = [frame EXCEPT ![b] = @ + 1]
    /\ submitted' = [submitted EXCEPT ![b] = frame[b] + 1]
    /\ channel' = FindReleaseChannel(q)
    /\ \E whole \in BOOLEAN :
          /\ frame[b] = 0 => whole
          /\ call' = [call EXCEPT ![q] = [buf |-> b, whole |-> whole]]
    /\ UNCHANGED <<sharedVars, cached, frames, alive, presenterVars, releases>>

\* A whole buffer is cached with a copy of the channel known at this moment.
CachedFrom(c) == IF c.whole THEN [cached EXCEPT ![c.buf] = channel] ELSE cached

\* The presenter gets it, or the queue back if there is none to show it on.
Handover(pb) ==
    IF alive /\ pb.buf \in gralloc
    THEN frames' = Append(frames, pb) /\ UNCHANGED releases
    ELSE Release(pb) /\ UNCHANGED frames

\* The posted buffer is found in the parcel and handed over.
ParsePostedBuffer(q) ==
    /\ call[q] # Nil
    /\ LET b  == call[q].buf
       IN  Handover([buf |-> b, frame |-> frame[b], channel |-> CachedFrom(call[q])[b]])
    /\ cached' = CachedFrom(call[q])
    /\ call' = [call EXCEPT ![q] = Nil]
    /\ UNCHANGED <<sharedVars, queueVars, channel, alive, presenterVars>>

\* The queue takes a release of the frame it has submitted in the buffer.
TakeRelease(m) ==
    /\ m \in releases
    /\ releases' = releases \ {m}
    /\ IF m.to = QueueOf[m.buf] /\ submitted[m.buf] = m.frame
       THEN /\ held' = held \cup {m.buf}
            /\ submitted' = [submitted EXCEPT ![m.buf] = 0]
       ELSE UNCHANGED <<held, submitted>>
    /\ UNCHANGED <<sharedVars, frame, composerVars, frames, alive, presenterVars>>

-----------------------------------------------------------------------------
(* The presenter.                                                          *)

Take == alive /\ frames # <<>> /\ frames' = Tail(frames)

elsewhere == <<sharedVars, queueVars, composerVars, alive>>

\* Mutant: the loop continues without the release.
ForgetDropped == Take /\ UNCHANGED <<elsewhere, presenterVars, releases>>

\* The buffer cannot be mapped, or is the late one of a dismissed child window.
Drop ==
    /\ Take
    /\ Release(Head(frames))
    /\ UNCHANGED <<elsewhere, presenterVars>>

\* Its pixels are copied, for the overlay, the base window or a background one;
\* the copy of a background window is not presented.
Copy ==
    /\ Take
    /\ Release(Head(frames))
    /\ \/ dirty' = TRUE /\ resized' \in BOOLEAN
       \/ UNCHANGED <<dirty, resized>>
    /\ UNCHANGED <<elsewhere, importVars, pooled, pool, busy, nextSlot, desktopVars>>

Commit(x) ==
    /\ attached' = x
    /\ reading' = reading \cup {x}
    /\ UNCHANGED events

\* Mutant: a dmabuf is released as soon as it is committed, as the copies are.
ZeroCopyReleased ==
    /\ Take
    /\ Head(frames).buf \in gbm
    /\ imported' = imported \cup {Head(frames).buf}
    /\ Commit(Dmabuf(Head(frames).buf))
    /\ Release(Head(frames))
    /\ UNCHANGED <<elsewhere, poolVars, inFlight>>

\* A GPU buffer is attached itself, and goes back when the desktop releases it.
ZeroCopy ==
    /\ Take
    /\ LET pb == Head(frames) IN
       /\ pb.buf \in gbm
       /\ imported' = imported \cup {pb.buf}
       /\ Commit(Dmabuf(pb.buf))
       /\ inFlight' = [inFlight EXCEPT ![pb.buf] = pb]
    /\ UNCHANGED <<elsewhere, poolVars, releases>>

\* The first slot from `from` on that is not in `used`, going round.
FirstFree(from, used) ==
    (from + Min({i \in Slots : (from + i) % NumBuffers \notin used})) % NumBuffers

NeedsPool == ~pooled \/ resized

\* The composition is drawn into a free slot, of a new pool if the size changed.
ShowComposite ==
    /\ alive /\ dirty
    /\ NeedsPool => pool < MaxPools
    /\ LET n    == IF NeedsPool THEN pool + 1 ELSE pool
           used == IF NeedsPool THEN {} ELSE busy
           from == IF NeedsPool THEN 0 ELSE nextSlot
           i    == FirstFree(from, used)
       IN  /\ used # Slots
           /\ pool' = n /\ pooled' = TRUE
           /\ busy' = used \cup {i}
           /\ nextSlot' = (i + 1) % NumBuffers
           /\ Commit(Shm(n, i))
    /\ dirty' = FALSE /\ resized' = FALSE
    /\ UNCHANGED <<elsewhere, frames, importVars, releases>>

\* There is no memory for the new pool: the old one is gone all the same, and
\* the composition stays due.
RecreatePoolFails ==
    /\ alive /\ dirty /\ NeedsPool /\ pool < MaxPools
    /\ pooled' = FALSE /\ pool' = pool + 1 /\ busy' = {} /\ nextSlot' = 0
    /\ UNCHANGED <<elsewhere, frames, importVars, dirty, resized, desktopVars, releases>>

\* A release event.  The client library drops those of the buffers that went
\* with an old pool.
DispatchRelease ==
    /\ alive /\ events # <<>>
    /\ events' = Tail(events)
    /\ LET x == Head(events) IN
       IF x.kind = "shm"
       THEN /\ busy' = IF x.pool = pool THEN busy \ {x.slot} ELSE busy
            /\ UNCHANGED <<inFlight, releases>>
       ELSE /\ UNCHANGED busy
            /\ inFlight' = [inFlight EXCEPT ![x.buf] = Nil]
            /\ IF inFlight[x.buf] = Nil THEN UNCHANGED releases
                                           ELSE Release(inFlight[x.buf])
    /\ UNCHANGED <<elsewhere, frames, imported, pooled, pool, nextSlot, dirty, resized,
                   attached, reading>>

\* The window is closed or the connection lost: the thread drops its receiver
\* and ends the process; until then posts find the presenter gone.
PresenterEnds ==
    /\ alive
    /\ alive' = FALSE
    /\ frames' = <<>>
    /\ UNCHANGED <<sharedVars, queueVars, composerVars, presenterVars, releases>>

\* The desktop is done with a buffer that is no longer the attached one.
DesktopReleases(x) ==
    /\ x \in reading /\ x # attached
    /\ reading' = reading \ {x}
    /\ events' = Append(events, x)
    /\ UNCHANGED <<elsewhere, frames, importVars, poolVars, attached, releases>>

FrameNext ==
    \/ \E q \in Queues : Allocate(q) \/ ParsePostedBuffer(q)
    \/ \E b \in Buffers : SetTransactionState(b)
    \/ \E m \in releases : TakeRelease(m)
    \/ Drop \/ Copy \/ ZeroCopy
    \/ ShowComposite \/ RecreatePoolFails \/ DispatchRelease \/ PresenterEnds
    \/ \E x \in reading : DesktopReleases(x)

FrameSpec == FrameInit /\ [][FrameNext]_frameVars

-----------------------------------------------------------------------------
(* Properties.                                                             *)

\* No app renders into a buffer, and the presenter draws into no slot, that the
\* desktop may still read: whichever way a frame was shown, however releases
\* take their two ways, and when pools are replaced in between.
Ownership == INSTANCE BufferOwnership WITH
    Resources <- Buffers \cup Slots,
    Pool      <- Slots,
    rendering <- {b \in Buffers : submitted[b] = 0} \cup (Slots \ busy),
    scanning  <- {b \in Buffers : Dmabuf(b) \in reading}
                    \cup {i \in Slots : Shm(pool, i) \in reading}

NobodyOverwritesTheScreen == Ownership!Spec

\* A posted buffer is always on a way that ends with a release to its queue: in a
\* handler, in the presenter's channel, at the desktop and known to be, or in a
\* release of the very frame the queue waits for.  A queue whose buffers are lost
\* blocks the app.
NoBufferIsLost ==
    \A b \in Buffers : submitted[b] # 0 /\ alive =>
        \/ call[QueueOf[b]] # Nil /\ call[QueueOf[b]].buf = b
        \/ \E i \in DOMAIN frames : frames[i].buf = b
        \/ /\ inFlight[b] # Nil /\ inFlight[b].frame = submitted[b]
           /\ Dmabuf(b) \in reading \/ \E i \in DOMAIN events : events[i] = Dmabuf(b)
        \/ [to |-> QueueOf[b], buf |-> b, frame |-> submitted[b]] \in releases

\* Every buffer has an owner: nobody overwrites the one on the screen, and none is lost.
BuffersAreOwned == []NoBufferIsLost /\ NobodyOverwritesTheScreen

\* surfaceflinger.rs:47 "BLASTBufferQueue's blocked dequeueBuffer polls the
\* consumer end, so releases go here": a buffer's channel is that of its queue.
ReleasesGoHome ==
    \A b \in Buffers : cached[b] \in Queues => cached[b] = QueueOf[b]
=============================================================================
