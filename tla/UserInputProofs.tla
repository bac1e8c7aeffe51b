--------------------------- MODULE UserInputProofs --------------------------
(***************************************************************************)
(* Proofs about what the user does with the keyboard, the clipboard, the   *)
(* shade and the pointer.  They share no state, so each has a              *)
(* specification of its own here, and WindowInput's is Spec; at the end    *)
(* UserInput has them side by side.                                        *)
(***************************************************************************)
EXTENDS UserInput, SequenceFacts

(***************************************************************************)
(* The clipboard.                                                          *)
(***************************************************************************)
ClipSpec == ClipInit /\ [][ClipNext]_clipVars

\* A thread that has still to tell listener l of a clip.
WillTell(t, l) ==
    \/ clipCall[t].at = "written"
    \/ clipCall[t].at = "tell" /\ l \in clipCall[t].left

\* A listener that does not know the clip will be told by a call under way.
ToldInv == \A l \in uninformed : \E t \in ClipThreads : WillTell(t, l)

ClipInv == ClipTypeOK /\ ToldInv

\* No clip is set and nobody listens.
LEMMA ClipInitially == ClipInit => ClipInv
BY ClipboardAssumption DEF ClipInit, ClipInv, ClipTypeOK, ToldInv, NoCall

\* A step of thread t keeps what the other threads have still to tell.
LEMMA OthersWillTell ==
    ASSUME ClipTypeOK, NEW t \in ClipThreads, NEW at, NEW left, SetCall(t, at, left)
    PROVE  /\ clipCall'[t] = [at |-> at, left |-> left]
           /\ \A u \in ClipThreads : u # t => clipCall'[u] = clipCall[u]
BY DEF ClipTypeOK, SetCall

\* The types, for every step.
LEMMA ClipTypes ==
    ASSUME ClipTypeOK, [ClipNext]_clipVars
    PROVE  ClipTypeOK'
<1> USE ClipboardAssumption
<1>1. CASE UNCHANGED clipVars
  BY <1>1 DEF clipVars, ClipTypeOK
<1>2. ASSUME NEW t \in ClipThreads, NEW at \in {"idle", "write", "written", "tell"},
             NEW left \in SUBSET ClipListeners, SetCall(t, at, left)
      PROVE  clipCall' \in [ClipThreads -> [at : {"idle", "write", "written", "tell"},
                                            left : SUBSET ClipListeners]]
  BY <1>2 DEF ClipTypeOK, SetCall
<1>3. ASSUME NEW t \in ClipThreads,
             SetPrimaryClip(t) \/ WriteHost(t) \/ CopyListeners(t) \/ Tell(t) \/ Return(t)
      PROVE  ClipTypeOK'
  <2>1. listeners \in SUBSET ClipListeners /\ clipCall[t].left \in SUBSET ClipListeners
    BY DEF ClipTypeOK
  <2>2. CASE SetPrimaryClip(t)
    BY <1>2, <2>2 DEF SetPrimaryClip, ClipTypeOK
  <2>3. CASE WriteHost(t)
    BY <1>2, <2>3 DEF WriteHost, ClipTypeOK
  <2>4. CASE CopyListeners(t)
    BY <1>2, <2>1, <2>4 DEF CopyListeners, ClipTypeOK
  <2>5. CASE Tell(t)
    BY <1>2, <2>1, <2>5 DEF Tell, Rest, ClipTypeOK
  <2>6. CASE Return(t)
    BY <1>2, <2>6 DEF Return, ClipTypeOK
  <2>7. QED
    BY <1>3, <2>2, <2>3, <2>4, <2>5, <2>6
<1>4. ASSUME NEW l \in ClipListeners,
             \/ addPrimaryClipChangedListener(l) \/ removePrimaryClipChangedListener(l)
             \/ ListenerDies(l)
      PROVE  ClipTypeOK'
  BY <1>4 DEF addPrimaryClipChangedListener, removePrimaryClipChangedListener, ListenerDies, ClipTypeOK
<1>5. QED
  BY <1>1, <1>3, <1>4 DEF ClipNext

\* Whoever is uninformed after a step is told by a call that is under way then.
LEMMA ToldStep ==
    ASSUME ClipInv, [ClipNext]_clipVars
    PROVE  ToldInv'
<1>0. ClipTypeOK /\ ToldInv
  BY DEF ClipInv
<1>1. CASE UNCHANGED clipVars
  BY <1>0, <1>1 DEF clipVars, ToldInv, WillTell
<1>a. ASSUME NEW t \in ClipThreads, NEW at, NEW left, SetCall(t, at, left),
             uninformed' = uninformed, \A k \in uninformed : ~WillTell(t, k)
      PROVE  ToldInv'
  <2>1. ASSUME NEW k \in uninformed PROVE \E u \in ClipThreads : WillTell(u, k)'
    <3>1. PICK u \in ClipThreads : WillTell(u, k)
      BY <1>0 DEF ToldInv
    <3>2. u # t
      BY <1>a, <3>1
    <3>3. clipCall'[u] = clipCall[u]
      BY <1>0, <1>a, <3>2, OthersWillTell
    <3>4. QED
      BY <3>1, <3>3 DEF WillTell
  <2>2. QED
    BY <1>a, <2>1 DEF ToldInv
<1>2. ASSUME NEW t \in ClipThreads, SetPrimaryClip(t)
      PROVE  ToldInv'
  BY <1>2, <1>a DEF SetPrimaryClip, WillTell
<1>3. ASSUME NEW t \in ClipThreads, WriteHost(t)
      PROVE  ToldInv'
  <2>1. CASE SetCall(t, "written", {})
    <3>1. clipCall'[t] = [at |-> "written", left |-> {}]
      BY <1>0, <2>1, OthersWillTell
    <3>2. QED
      BY <3>1 DEF ToldInv, WillTell
  <2>2. CASE SetCall(t, "idle", {}) /\ UNCHANGED uninformed
    BY <1>3, <1>a, <2>2 DEF WriteHost, WillTell
  <2>3. QED
    BY <1>3, <2>1, <2>2 DEF WriteHost
<1>4. ASSUME NEW t \in ClipThreads, CopyListeners(t)
      PROVE  ToldInv'
  <2>1. uninformed' \subseteq listeners
    BY <1>0, <1>4 DEF CopyListeners, ClipTypeOK
  <2>2. clipCall'[t] = [at |-> "tell", left |-> listeners]
    BY <1>0, <1>4, OthersWillTell DEF CopyListeners
  <2>3. QED
    BY <2>1, <2>2 DEF ToldInv, WillTell
<1>5. ASSUME NEW t \in ClipThreads, Tell(t)
      PROVE  ToldInv'
  <2>1. PICK l \in clipCall[t].left :
          SetCall(t, "tell", clipCall[t].left \ {l}) /\ uninformed' = uninformed \ {l}
    BY <1>5 DEF Tell, Rest
  <2>2. /\ clipCall'[t] = [at |-> "tell", left |-> clipCall[t].left \ {l}]
        /\ \A u \in ClipThreads : u # t => clipCall'[u] = clipCall[u]
    BY <1>0, <2>1, OthersWillTell
  <2>3. clipCall[t].at = "tell"
    BY <1>5 DEF Tell
  <2>4. ASSUME NEW k \in uninformed' PROVE \E u \in ClipThreads : WillTell(u, k)'
    <3>1. PICK u \in ClipThreads : WillTell(u, k)
      BY <1>0, <2>1 DEF ToldInv
    <3>2. CASE u = t
      BY <2>1, <2>2, <2>3, <3>1, <3>2 DEF WillTell
    <3>3. CASE u # t
      BY <2>2, <3>1, <3>3 DEF WillTell
    <3>4. QED
      BY <3>2, <3>3
  <2>5. QED
    BY <2>4 DEF ToldInv
<1>6. ASSUME NEW t \in ClipThreads, Return(t)
      PROVE  ToldInv'
  BY <1>6, <1>a DEF Return, WillTell
<1>7. ASSUME NEW l \in ClipListeners,
             \/ addPrimaryClipChangedListener(l) \/ removePrimaryClipChangedListener(l)
             \/ ListenerDies(l)
      PROVE  ToldInv'
  BY <1>0, <1>7 DEF addPrimaryClipChangedListener, removePrimaryClipChangedListener, ListenerDies,
     ToldInv, WillTell
<1>8. QED
  BY <1>1, <1>2, <1>3, <1>4, <1>5, <1>6, <1>7 DEF ClipNext

\* clipboard.rs: whoever was registered when the clip was written, and still is, was told
\* once no call is under way, however the rounds of two calls and the listeners interleave.
THEOREM ListenersKnowTheClipAlways == ClipSpec => [](ClipTypeOK /\ ListenersKnowTheClip)
<1>1. ClipInv /\ [ClipNext]_clipVars => ClipInv'
  BY ClipTypes, ToldStep DEF ClipInv
<1>2. ClipInv => ClipTypeOK /\ ListenersKnowTheClip
  BY DEF ClipInv, ToldInv, WillTell, ListenersKnowTheClip
<1>3. QED
  BY ClipInitially, <1>1, <1>2, PTL DEF ClipSpec

(***************************************************************************)
(* The keyboard.                                                           *)
(***************************************************************************)
KeyboardSpec == KeyboardInit /\ [][KeyboardNext]_keyboardVars

ShapeInv ==
    /\ pressed = [s \in DOMAIN pressed |-> pressed[s]] /\ IsFiniteSet(DOMAIN pressed)
    /\ down = [w \in KeyWindows |-> down[w]]
    /\ keyFocused = hostFocused

Events == [what : {"down", "up", "focus", "blur"}, scan : Scans \cup {NoKey},
           code : Codes \cup {Unmapped}]

\* What an event of the host leaves to be sent: nothing, a focus, a press of a key that
\* is down, a release, or the releases and the blur of a leave.
Sent     == outbox = <<>> /\ hubFocused = keyFocused
Entering == Len(outbox) = 1 /\ outbox[1] = Focus(TRUE) /\ keyFocused /\ ~hubFocused
Pressing ==
    /\ Len(outbox) = 1 /\ keyFocused /\ hubFocused
    /\ \E s \in DOMAIN pressed : outbox[1] = KeyEvent("down", s, pressed[s])
Releasing ==
    /\ Len(outbox) = 1 /\ keyFocused /\ hubFocused
    /\ outbox[1].what = "up"
Leaving ==
    /\ Len(outbox) > 0 /\ ~keyFocused /\ hubFocused
    /\ outbox[Len(outbox)] = Focus(FALSE)
    /\ \A i \in 1..(Len(outbox) - 1) : outbox[i].what = "up"

OutboxInv ==
    /\ outbox \in Seq(Events)
    /\ Sent \/ Entering \/ Pressing \/ Releasing \/ Leaving

\* Only with the focus does a window take a key for down.
FocusInv == \A w \in KeyWindows \ missed : down[w] # {} => hubFocused

KeyboardInv == KeyboardTypeOK /\ ShapeInv /\ OutboxInv /\ FocusInv /\ NoKeySticks

\* The parts of the invariant, the types by the variables.
LEMMA KeyboardParts ==
    ASSUME KeyboardInv
    PROVE  /\ KeyboardTypeOK /\ ShapeInv /\ OutboxInv /\ FocusInv /\ NoKeySticks
           /\ DOMAIN pressed \subseteq Scans
           /\ \A s \in DOMAIN pressed : pressed[s] \in Codes /\ pressed[s] # Unmapped
           /\ hostFocused \in BOOLEAN /\ keyFocused \in BOOLEAN /\ hubFocused \in BOOLEAN
BY DEF KeyboardInv, KeyboardTypeOK, Range

\* When everything is sent, the window with the channel knows the focus, and the keys
\* that it takes for down are pressed.
LEMMA DealtFacts ==
    ASSUME KeyboardInv, Dealt
    PROVE  /\ hubFocused = keyFocused
           /\ \A w \in KeyWindows \ missed : \A k \in down[w] :
                 w = keyChannel /\ k[1] \in DOMAIN pressed /\ pressed[k[1]] = k[2]
<1>1. Len(outbox) = 0 /\ DOMAIN outbox = {}
  BY DEF Dealt
<1>2. Sent
  BY <1>1, KeyboardParts DEF OutboxInv, Entering, Pressing, Releasing, Leaving
<1>3. QED
  BY <1>1, <1>2, KeyboardParts DEF Sent, NoKeySticks

\* One event to send.
LEMMA OneEvent ==
    ASSUME NEW e \in Events
    PROVE  <<e>> \in Seq(Events) /\ Len(<<e>>) = 1 /\ <<e>>[1] = e /\ DOMAIN <<e>> = {1}
OBVIOUS

\* The events are events, and told apart by what they are.
LEMMA EventFacts ==
    /\ \A s \in Scans, c \in Codes, a \in {"down", "up"} : KeyEvent(a, s, c) \in Events
    /\ \A f \in BOOLEAN : Focus(f) \in Events
    /\ Focus(TRUE).what = "focus" /\ Focus(FALSE).what = "blur"
    /\ \A s, c : KeyEvent("up", s, c).what = "up" /\ KeyEvent("down", s, c).what = "down"
BY DEF KeyEvent, Focus, Events

\* The sequence of a finite set has each of its elements.
LEMMA SetAsSequence ==
    ASSUME NEW S, IsFiniteSet(S)
    PROVE  /\ Cardinality(S) \in Nat
           /\ SetToSeq(S) \in [1..Cardinality(S) -> S]
           /\ \A x \in S : \E i \in 1..Cardinality(S) : SetToSeq(S)[i] = x
<1>1. PICK n \in Nat : ExistsBijection(1..n, S)
  BY FS_NatBijection
<1>2. Cardinality(S) = n
  BY <1>1, FS_CountingElements
<1>3. PICK f \in Bijection(1..n, S) : TRUE
  BY <1>1 DEF ExistsBijection
<1>4. f \in [1..n -> S] /\ IsInjective(f)
  BY <1>3 DEF Bijection, Injection, IsInjective
<1>5. SetToSeq(S) \in [1..n -> S] /\ IsInjective(SetToSeq(S))
  BY <1>2, <1>4 DEF SetToSeq
<1>6. SetToSeq(S) \in Injection(1..n, S)
  BY <1>5 DEF Injection, IsInjective
<1>7. IsFiniteSet(1..n) /\ Cardinality(1..n) = n
  BY FS_Interval
<1>8. SetToSeq(S) \in Surjection(1..n, S)
  BY <1>2, <1>6, <1>7, FS_Injection
<1>9. QED
  BY <1>2, <1>5, <1>8 DEF Surjection

\* An element put behind a sequence.
LEMMA AppendFacts ==
    ASSUME NEW S, NEW r \in Seq(S), NEW x \in S, NEW q, q = Append(r, x)
    PROVE  /\ q \in Seq(S) /\ Len(r) \in Nat /\ Len(q) = Len(r) + 1 /\ q[Len(r) + 1] = x
           /\ DOMAIN q = 1..(Len(r) + 1) /\ \A i \in 1..Len(r) : q[i] = r[i]
OBVIOUS

\* A leave has a release for each key that is pressed.
LEMMA ReleaseFacts ==
    ASSUME KeyboardInv
    PROVE  /\ Releases \in Seq(Events)
           /\ \A i \in 1..Len(Releases) : Releases[i].what = "up"
           /\ \A s \in DOMAIN pressed :
                 \E i \in 1..Len(Releases) : Releases[i] = KeyEvent("up", s, pressed[s])
<1> DEFINE S == DOMAIN pressed
           n == Cardinality(S)
           q == SetToSeq(S)
<1>1. n \in Nat /\ q \in [1..n -> S] /\ \A x \in S : \E i \in 1..n : q[i] = x
  BY KeyboardParts, SetAsSequence DEF ShapeInv
<1>2. PICK rel : rel = Releases
  OBVIOUS
<1>3. rel = [i \in 1..n |-> KeyEvent("up", q[i], pressed[q[i]])]
  BY <1>2 DEF Releases
<1> HIDE DEF S, n, q
<1>4. \A s \in S : KeyEvent("up", s, pressed[s]) \in Events /\ KeyEvent("up", s, pressed[s]).what = "up"
  BY KeyboardParts, EventFacts DEF S
<1>5. rel \in Seq(Events) /\ Len(rel) = n /\ \A i \in 1..n : rel[i].what = "up"
  BY <1>1, <1>3, <1>4
<1>6. ASSUME NEW s \in S PROVE \E i \in 1..n : rel[i] = KeyEvent("up", s, pressed[s])
  BY <1>1, <1>3
<1>7. QED
  BY <1>2, <1>5, <1>6 DEF S

\* What is sent on a leave: the releases, and the blur.
LEMMA LeaveFacts ==
    ASSUME NEW rel \in Seq(Events), NEW blur \in Events, NEW out, out = Append(rel, blur),
           \A i \in 1..Len(rel) : rel[i].what = "up"
    PROVE  /\ out \in Seq(Events) /\ Len(out) > 0 /\ out[Len(out)] = blur
           /\ \A i \in 1..(Len(out) - 1) : out[i].what = "up"
           /\ \A e : (\E i \in 1..Len(rel) : rel[i] = e) => \E i \in DOMAIN out : out[i] = e
<1>1. PICK n : n = Len(rel)
  OBVIOUS
<1>2. /\ n \in Nat /\ out \in Seq(Events) /\ Len(out) = n + 1 /\ out[n + 1] = blur
      /\ DOMAIN out = 1..(n + 1) /\ \A i \in 1..n : out[i] = rel[i]
  BY <1>1, AppendFacts
<1>3. \A i \in 1..n : i \in DOMAIN out /\ out[i] = rel[i] /\ rel[i].what = "up"
  BY <1>1, <1>2
<1>4. Len(out) > 0 /\ Len(out) - 1 = n
  BY <1>2
<1>5. QED
  BY <1>1, <1>2, <1>3, <1>4

\* An event of the host that sends nothing.
LEMMA QuietStep ==
    ASSUME KeyboardInv, UNCHANGED <<hostFocused, keyFocused, pressed, outbox, deliverVars>>,
           holds' \in SUBSET Scans, layout' \in Layouts \cup {Unmapped}, repeats' \in BOOLEAN,
           keyFocused => DOMAIN pressed \subseteq holds',
           repeating' \in {repeating, NoKey}
    PROVE  KeyboardInv'
<1>1. KeyboardTypeOK'
  BY KeyboardParts DEF KeyboardTypeOK, deliverVars
<1>2. ShapeInv' /\ FocusInv'
  BY KeyboardParts DEF ShapeInv, FocusInv, deliverVars
<1>3. OutboxInv'
  BY KeyboardParts DEF OutboxInv, Sent, Entering, Pressing, Releasing, Leaving, deliverVars
<1>4. NoKeySticks'
  BY KeyboardParts DEF NoKeySticks, deliverVars
<1>5. QED
  BY <1>1, <1>2, <1>3, <1>4 DEF KeyboardInv

\* The pressed keys after an event, and what they have to do with the rest.
PressesAre(p) ==
    /\ p = [s \in DOMAIN p |-> p[s]] /\ IsFiniteSet(DOMAIN p)
    /\ \A s \in DOMAIN p : s \in Scans /\ p[s] \in Codes /\ p[s] # Unmapped

\* The invariant speaks of the keys that are pressed now.
LEMMA PressesNow == ASSUME KeyboardInv PROVE PressesAre(pressed)
BY KeyboardParts DEF PressesAre, ShapeInv

\* An event of the host by which one message is to be sent: the focus, a press or a
\* release; what was pressed still is, or is released.
LEMMA SendingStep ==
    ASSUME KeyboardInv, Dealt, NEW e \in Events, outbox' = <<e>>, UNCHANGED <<mapVars, deliverVars>>,
           hostFocused' = keyFocused', keyFocused' = TRUE, holds' \in SUBSET Scans,
           NEW p, pressed' = p, PressesAre(p), DOMAIN p \subseteq holds',
           repeating' \in DOMAIN p \cup {NoKey},
           \/ e = Focus(TRUE) /\ ~hubFocused
           \/ (\E s \in DOMAIN p : e = KeyEvent("down", s, p[s])) /\ hubFocused
           \/ e.what = "up" /\ hubFocused,
           \A k : k[1] \in DOMAIN pressed /\ pressed[k[1]] = k[2] =>
                     \/ k[1] \in DOMAIN p /\ p[k[1]] = k[2]
                     \/ e = KeyEvent("up", k[1], k[2])
    PROVE  KeyboardInv'
<1>1. KeyboardTypeOK'
  <2>1. DOMAIN p \subseteq Scans /\ Range(p) \subseteq Codes \ {Unmapped}
    BY DEF PressesAre, Range
  <2>2. repeating' \in Scans \cup {NoKey}
    BY <2>1
  <2>3. QED
    BY <2>1, <2>2, KeyboardParts DEF KeyboardTypeOK, mapVars, deliverVars
<1>2. ShapeInv'
  BY KeyboardParts DEF ShapeInv, PressesAre, deliverVars
<1>3. FocusInv'
  BY KeyboardParts DEF FocusInv, deliverVars
<1>4. /\ outbox' \in Seq(Events) /\ Len(outbox') = 1 /\ outbox'[1] = e
      /\ DOMAIN outbox' = {1}
  BY OneEvent
<1>5. OutboxInv'
  <2>1. CASE e = Focus(TRUE) /\ ~hubFocused
    <3>1. Entering'
      BY <1>4, <2>1 DEF Entering, Focus, deliverVars
    <3>2. QED
      BY <1>4, <3>1 DEF OutboxInv, Events
  <2>2. CASE (\E s \in DOMAIN p : e = KeyEvent("down", s, p[s])) /\ hubFocused
    <3>1. Pressing'
      BY <1>4, <2>2 DEF Pressing, KeyEvent, deliverVars
    <3>2. QED
      BY <1>4, <3>1 DEF OutboxInv, Events
  <2>3. CASE e.what = "up" /\ hubFocused
    <3>1. Releasing'
      BY <1>4, <2>3 DEF Releasing, deliverVars
    <3>2. QED
      BY <1>4, <3>1 DEF OutboxInv, Events
  <2>4. QED
    BY <2>1, <2>2, <2>3
<1>6. NoKeySticks'
  <2>1. ASSUME NEW w \in KeyWindows \ missed, NEW k \in down[w]
        PROVE  /\ w = keyChannel
               /\ \/ k[1] \in DOMAIN p /\ p[k[1]] = k[2]
                  \/ \E i \in DOMAIN outbox' : outbox'[i] = KeyEvent("up", k[1], k[2])
    BY <1>4, DealtFacts
  <2>2. QED
    BY <2>1 DEF NoKeySticks, KeyEvent, deliverVars
<1>7. QED
  BY <1>1, <1>2, <1>3, <1>5, <1>6 DEF KeyboardInv

\* The host gives the window the focus.
LEMMA EnterStep ==
    ASSUME KeyboardInv, Enter
    PROVE  KeyboardInv'
<1>1. ~keyFocused /\ ~hubFocused
  BY KeyboardParts, DealtFacts DEF Enter, ShapeInv
<1>2. DOMAIN pressed = {}
  BY <1>1, KeyboardParts DEF NoKeySticks
<1>3. PICK e \in Events : e = Focus(TRUE)
  BY EventFacts
<1>4. PressesAre(pressed) /\ DOMAIN pressed \subseteq holds' /\ holds' \in SUBSET Scans
  BY <1>2, PressesNow, KeyboardParts DEF Enter, KeyboardTypeOK
<1>5. repeating' \in DOMAIN pressed \cup {NoKey}
  BY KeyboardParts DEF Enter, NoKeySticks
<1>6. QED
  BY <1>1, <1>3, <1>4, <1>5, SendingStep DEF Enter

\* A press: the key was not down, as the user did not hold it.
LEMMA KeyDownStep ==
    ASSUME KeyboardInv, NEW s \in Scans, KeyDown(s)
    PROVE  KeyboardInv'
<1>1. holds' \in SUBSET Scans /\ DOMAIN pressed \subseteq holds /\ s \notin DOMAIN pressed
      /\ holds \subseteq holds'
  BY KeyboardParts DEF KeyDown, KeyboardTypeOK, NoKeySticks
<1>2. CASE hostFocused /\ keyFocused /\ HasCode(s)
  <2>1. PICK code : code = translate(s)
    OBVIOUS
  <2>2. code \in Codes /\ code # Unmapped
    <3>1. layout \in Layouts
      BY <1>2, KeyboardParts DEF HasCode, translate, KeyboardTypeOK
    <3>2. QED
      BY <1>2, <2>1, <3>1, KeyboardAssumption DEF HasCode, translate, Codes
  <2>3. PICK p : p = [t \in DOMAIN pressed \cup {s} |-> IF t = s THEN code ELSE pressed[t]]
    OBVIOUS
  <2>4. /\ DOMAIN p = DOMAIN pressed \cup {s} /\ p[s] = code
        /\ \A t \in DOMAIN pressed : p[t] = pressed[t]
    BY <1>1, <2>3
  <2>5. PressesAre(p)
    <3>1. p = [t \in DOMAIN p |-> p[t]]
      BY <2>3
    <3>2. IsFiniteSet(DOMAIN p)
      BY <2>4, PressesNow, FS_AddElement DEF PressesAre
    <3>3. QED
      BY <2>2, <2>4, <3>1, <3>2, PressesNow DEF PressesAre
  <2>6. PICK e \in Events : e = KeyEvent("down", s, code)
    BY <2>2, EventFacts
  <2>7. /\ Dealt /\ pressed' = p /\ outbox' = <<e>>
        /\ UNCHANGED <<hostFocused, mapVars, keyFocused, deliverVars>>
        /\ repeating' \in {s, repeating}
    BY <1>2, <2>1, <2>3, <2>6 DEF KeyDown
  <2>8. keyFocused' = TRUE /\ hostFocused' = keyFocused' /\ hubFocused
    BY <1>2, <2>7, KeyboardParts, DealtFacts
  <2>9. DOMAIN p \subseteq holds' /\ repeating' \in DOMAIN p \cup {NoKey}
    BY <1>1, <2>4, <2>7, KeyboardParts DEF KeyDown, NoKeySticks
  <2>10. \E t \in DOMAIN p : e = KeyEvent("down", t, p[t])
    BY <2>4, <2>6
  <2>11. QED
    BY <1>1, <2>4, <2>5, <2>7, <2>8, <2>9, <2>10, SendingStep
<1>3. CASE ~(hostFocused /\ keyFocused /\ HasCode(s))
  <2>1. UNCHANGED <<hostFocused, keyFocused, pressed, repeating, outbox, mapVars, deliverVars>>
    BY <1>3 DEF KeyDown
  <2>2. QED
    BY <1>1, <2>1, QuietStep, KeyboardParts DEF KeyboardTypeOK, mapVars
<1>4. QED
  BY <1>2, <1>3

\* A release: the one that is sent has the keycode the key was pressed under.
LEMMA KeyUpStep ==
    ASSUME KeyboardInv, NEW s \in Scans, KeyUp(s)
    PROVE  KeyboardInv'
<1>1. holds' \in SUBSET Scans /\ holds' = holds \ {s}
      /\ (keyFocused => DOMAIN pressed \subseteq holds) /\ (~keyFocused => DOMAIN pressed = {})
  BY KeyboardParts DEF KeyUp, KeyboardTypeOK, NoKeySticks
<1>2. CASE hostFocused /\ s \in DOMAIN pressed
  <2>1. PICK code : code = pressed[s]
    OBVIOUS
  <2>2. code \in Codes
    BY <1>2, <2>1, KeyboardParts
  <2>3. PICK p : p = Restrict(pressed, DOMAIN pressed \ {s})
    OBVIOUS
  <2>4. /\ DOMAIN p = DOMAIN pressed \ {s} /\ p = [t \in DOMAIN p |-> p[t]]
        /\ \A t \in DOMAIN p : p[t] = pressed[t]
    BY <2>3 DEF Restrict
  <2>5. PressesAre(p)
    <3>1. IsFiniteSet(DOMAIN p)
      BY <2>4, PressesNow, FS_RemoveElement DEF PressesAre
    <3>2. QED
      BY <2>4, <3>1, PressesNow DEF PressesAre
  <2>6. PICK e \in Events : e = KeyEvent("up", s, code) /\ e.what = "up"
    BY <2>2, EventFacts
  <2>7. /\ Dealt /\ pressed' = p /\ outbox' = <<e>>
        /\ UNCHANGED <<hostFocused, mapVars, keyFocused, deliverVars>>
        /\ repeating' = IF repeating = s THEN NoKey ELSE repeating
    BY <1>2, <2>1, <2>3, <2>6 DEF KeyUp
  <2>8. keyFocused' = TRUE /\ hostFocused' = keyFocused' /\ hubFocused
    BY <1>2, <2>7, KeyboardParts, DealtFacts DEF ShapeInv
  <2>9. DOMAIN p \subseteq holds' /\ repeating' \in DOMAIN p \cup {NoKey}
    BY <1>1, <2>4, <2>7, <2>8, KeyboardParts DEF NoKeySticks
  <2>10. ASSUME NEW k, k[1] \in DOMAIN pressed, pressed[k[1]] = k[2]
         PROVE  (k[1] \in DOMAIN p /\ p[k[1]] = k[2]) \/ e = KeyEvent("up", k[1], k[2])
    BY <2>1, <2>4, <2>6, <2>10
  <2>11. QED
    BY <1>1, <2>5, <2>6, <2>7, <2>8, <2>9, <2>10, SendingStep
<1>3. CASE ~(hostFocused /\ s \in DOMAIN pressed)
  <2>1. UNCHANGED <<hostFocused, keyFocused, pressed, repeating, outbox, mapVars, deliverVars>>
    BY <1>3 DEF KeyUp
  <2>2. keyFocused => DOMAIN pressed \subseteq holds'
    BY <1>1, <1>3, KeyboardParts DEF ShapeInv
  <2>3. QED
    BY <1>1, <2>1, <2>2, QuietStep, KeyboardParts DEF KeyboardTypeOK, mapVars
<1>4. QED
  BY <1>2, <1>3

\* A repeat is a press once more.
LEMMA RepeatStep ==
    ASSUME KeyboardInv, repeat
    PROVE  KeyboardInv'
<1>1. /\ repeating \in DOMAIN pressed /\ Dealt
      /\ UNCHANGED <<hostVars, mapVars, pressVars, deliverVars>>
  BY DEF repeat
<1>2. PICK e \in Events : e = KeyEvent("down", repeating, pressed[repeating])
  BY <1>1, KeyboardParts, EventFacts
<1>3. outbox' = <<e>>
  BY <1>2 DEF repeat
<1>4. keyFocused /\ DOMAIN pressed \subseteq holds /\ holds \in SUBSET Scans
  BY <1>1, KeyboardParts DEF NoKeySticks, KeyboardTypeOK
<1>5. keyFocused' = TRUE /\ hostFocused' = keyFocused' /\ hubFocused
  BY <1>1, <1>4, KeyboardParts, DealtFacts DEF hostVars, pressVars, ShapeInv
<1>6. /\ pressed' = pressed /\ holds' = holds /\ repeating' = repeating
      /\ PressesAre(pressed)
  BY <1>1, PressesNow DEF hostVars, pressVars
<1>7. QED
  BY <1>1, <1>2, <1>3, <1>4, <1>5, <1>6, SendingStep

\* The host takes the keyboard: every key that is down is released, before the blur.
LEMMA LeaveStep ==
    ASSUME KeyboardInv, Leave
    PROVE  KeyboardInv'
<1>1. /\ Dealt /\ UNCHANGED <<holds, mapVars, deliverVars>>
      /\ keyFocused' = FALSE /\ hostFocused' = FALSE /\ repeating' = NoKey /\ pressed' = <<>>
      /\ DOMAIN pressed' = {}
  BY DEF Leave
<1>2. hubFocused
  BY KeyboardParts, DealtFacts DEF Leave, ShapeInv
<1>3. PICK rel \in Seq(Events) : rel = Releases
  BY ReleaseFacts
<1>4. PICK blur \in Events : blur = Focus(FALSE)
  BY EventFacts
<1>5. PICK out : out = Append(rel, blur)
  OBVIOUS
<1>6. /\ \A i \in 1..Len(rel) : rel[i].what = "up"
      /\ \A s \in DOMAIN pressed : \E i \in 1..Len(rel) : rel[i] = KeyEvent("up", s, pressed[s])
  BY <1>3, ReleaseFacts
<1>7. /\ out \in Seq(Events) /\ Len(out) > 0 /\ out[Len(out)] = blur
      /\ \A i \in 1..(Len(out) - 1) : out[i].what = "up"
      /\ \A s \in DOMAIN pressed : \E i \in DOMAIN out : out[i] = KeyEvent("up", s, pressed[s])
  BY <1>5, <1>6, LeaveFacts
<1>8. outbox' = out
  BY <1>3, <1>4, <1>5 DEF Leave
<1>9. KeyboardTypeOK'
  BY <1>1, KeyboardParts DEF KeyboardTypeOK, Range, mapVars, deliverVars
<1>10. ShapeInv'
  <2>1. <<>> \in Seq({}) /\ Len(<<>>) = 0
    OBVIOUS
  <2>2. pressed' = [s \in DOMAIN pressed' |-> pressed'[s]]
    BY <1>1, <2>1
  <2>3. IsFiniteSet(DOMAIN pressed')
    BY <1>1, FS_EmptySet
  <2>4. down' = [w \in KeyWindows |-> down'[w]] /\ keyFocused' = hostFocused'
    BY <1>1, KeyboardParts DEF ShapeInv, deliverVars
  <2>5. QED
    BY <2>2, <2>3, <2>4 DEF ShapeInv
<1>11. OutboxInv'
  <2>1. Leaving'
    BY <1>1, <1>2, <1>4, <1>7, <1>8 DEF Leaving, deliverVars
  <2>2. QED
    BY <1>7, <1>8, <2>1 DEF OutboxInv, Events
<1>12. FocusInv'
  BY <1>1, KeyboardParts DEF FocusInv, deliverVars
<1>13. NoKeySticks'
  <2>1. ASSUME NEW w \in KeyWindows \ missed, NEW k \in down[w]
        PROVE  w = keyChannel /\ \E i \in DOMAIN out : out[i] = KeyEvent("up", k[1], k[2])
    <3>1. w = keyChannel /\ k[1] \in DOMAIN pressed /\ pressed[k[1]] = k[2]
      BY <1>1, DealtFacts
    <3>2. QED
      BY <1>7, <3>1
  <2>2. QED
    BY <1>1, <1>8, <2>1 DEF NoKeySticks, KeyEvent, deliverVars
<1>14. QED
  BY <1>9, <1>10, <1>11, <1>12, <1>13 DEF KeyboardInv

\* What a window takes for down after a message, and who has lost one.
LEMMA SendFacts ==
    ASSUME KeyboardInv, NEW w \in KeyWindows, NEW e, SendTo(w, e)
    PROVE  /\ down' = [v \in KeyWindows |-> down'[v]] /\ missed \subseteq missed'
           /\ missed' \subseteq KeyWindows
           /\ \A v \in KeyWindows : v # w => down'[v] = down[v]
           /\ w \notin missed' => w \notin missed /\ down'[w] = Hears(w, e)
           /\ down'[w] \in {down[w], Hears(w, e)}
<1>1. down = [v \in KeyWindows |-> down[v]] /\ missed \subseteq KeyWindows
  BY KeyboardParts DEF ShapeInv, KeyboardTypeOK
<1>2. CASE down' = [down EXCEPT ![w] = Hears(w, e)] /\ UNCHANGED missed
  BY <1>1, <1>2
<1>3. CASE missed' = missed \cup {w} /\ UNCHANGED down
  BY <1>1, <1>3
<1>4. QED
  BY <1>2, <1>3 DEF SendTo

\* The channel goes to another window: the old one is told, if it had the focus, and
\* had no key down if not.
LEMMA SelectStep ==
    ASSUME KeyboardInv, NEW w \in KeyWindows, SelectChannel(w)
    PROVE  KeyboardInv'
<1>1. /\ w # keyChannel /\ keyChannel' = w
      /\ UNCHANGED <<hostVars, mapVars, pressVars, outbox, hubFocused>>
      /\ keyChannel \in KeyWindows
  BY KeyboardParts DEF SelectChannel, KeyboardTypeOK
<1>2. /\ down' = [v \in KeyWindows |-> down'[v]] /\ missed \subseteq missed'
      /\ missed' \subseteq KeyWindows
      /\ \A v \in KeyWindows : v # keyChannel => down'[v] = down[v]
      /\ down'[keyChannel] \in {down[keyChannel], {}}
      /\ keyChannel \notin missed' => down'[keyChannel] = {}
  <2>1. CASE hubFocused
    <3>1. Hears(keyChannel, Focus(FALSE)) = {}
      BY EventFacts DEF Hears
    <3>2. SendTo(keyChannel, Focus(FALSE))
      BY <2>1 DEF SelectChannel
    <3>3. PICK e : e = Focus(FALSE)
      OBVIOUS
    <3>4. SendTo(keyChannel, e) /\ Hears(keyChannel, e) = {}
      BY <3>1, <3>2, <3>3
    <3>5. QED
      BY <1>1, <3>4, SendFacts
  <2>2. CASE ~hubFocused
    <3>1. UNCHANGED <<down, missed>>
      BY <2>2 DEF SelectChannel
    <3>2. QED
      BY <1>1, <2>2, <3>1, KeyboardParts DEF ShapeInv, KeyboardTypeOK, FocusInv
  <2>3. QED
    BY <2>1, <2>2
<1>3. \A v \in KeyWindows \ missed' : down'[v] = {}
  BY <1>1, <1>2, KeyboardParts DEF NoKeySticks
<1>4. KeyboardTypeOK'
  BY <1>1, <1>2, KeyboardParts DEF KeyboardTypeOK, hostVars, mapVars, pressVars
<1>5. ShapeInv' /\ FocusInv'
  BY <1>1, <1>2, <1>3, KeyboardParts DEF ShapeInv, FocusInv, hostVars, pressVars
<1>6. OutboxInv'
  BY <1>1, KeyboardParts
  DEF OutboxInv, Sent, Entering, Pressing, Releasing, Leaving, hostVars, pressVars
<1>7. NoKeySticks'
  BY <1>1, <1>3, KeyboardParts DEF NoKeySticks, hostVars, pressVars
<1>8. QED
  BY <1>4, <1>5, <1>6, <1>7 DEF KeyboardInv

\* A sequence of no length is the empty one.
LEMMA NothingLeft ==
    ASSUME NEW S, NEW q \in Seq(S), Len(q) = 0
    PROVE  q = <<>>
OBVIOUS

\* What is left of the outbox after its first message.
LEMMA TailFacts ==
    ASSUME NEW q \in Seq(Events), q # <<>>
    PROVE  /\ Head(q) = q[1] /\ Tail(q) \in Seq(Events) /\ q[1] \in Events
           /\ Len(q) \in Nat /\ Len(q) > 0 /\ Len(Tail(q)) = Len(q) - 1
           /\ \A i \in 1..(Len(q) - 1) : Tail(q)[i] = q[i + 1]
           /\ Len(q) = 1 => Tail(q) = <<>>
           /\ DOMAIN q = 1..Len(q) /\ DOMAIN Tail(q) = 1..(Len(q) - 1)
<1>1. Head(q) = q[1] /\ Len(q) \in Nat /\ Len(q) > 0 /\ q[1] \in Events /\ DOMAIN q = 1..Len(q)
  OBVIOUS
<1>2. /\ Tail(q) \in Seq(Events) /\ Len(Tail(q)) = Len(q) - 1
      /\ \A i \in 1..(Len(q) - 1) : Tail(q)[i] = q[i + 1]
  OBVIOUS
<1>3. DOMAIN Tail(q) = 1..(Len(q) - 1)
  BY <1>2
<1>4. ASSUME Len(q) = 1 PROVE Tail(q) = <<>>
  <2>0. PICK t : t = Tail(q)
    OBVIOUS
  <2>a. t \in Seq(Events) /\ Len(t) = Len(q) - 1
    BY <1>2, <2>0
  <2>1. t = Tail(q) /\ t \in Seq(Events) /\ Len(t) = 0
    BY <1>4, <2>0, <2>a
  <2>2. t = <<>>
    BY <2>1, NothingLeft
  <2>3. QED
    BY <2>1, <2>2
<1>5. QED
  BY <1>1, <1>2, <1>3, <1>4

\* The first message is sent to the window with the channel.
LEMMA SendStep ==
    ASSUME KeyboardInv, SendNext
    PROVE  KeyboardInv'
<1>1. PICK q, e : q = outbox /\ e = Head(q)
  OBVIOUS
<1>2. /\ q \in Seq(Events) /\ q # <<>> /\ outbox' = Tail(q) /\ SendTo(keyChannel, e)
      /\ UNCHANGED <<hostVars, mapVars, pressVars, keyChannel>>
      /\ keyChannel \in KeyWindows
  BY <1>1, KeyboardParts DEF SendNext, OutboxInv, KeyboardTypeOK
<1>3. PICK n : n = Len(q)
  OBVIOUS
<1>4. /\ e = q[1] /\ e \in Events /\ n \in Nat /\ n > 0
      /\ outbox' \in Seq(Events) /\ Len(outbox') = n - 1
      /\ \A i \in 1..(n - 1) : outbox'[i] = q[i + 1]
      /\ n = 1 => outbox' = <<>>
      /\ DOMAIN q = 1..n /\ DOMAIN outbox' = 1..(n - 1)
  BY <1>1, <1>2, <1>3, TailFacts
<1>5. /\ e.what = "focus" => hubFocused' = TRUE
      /\ e.what = "blur" => hubFocused' = FALSE
      /\ e.what \notin {"focus", "blur"} => hubFocused' = hubFocused
  BY <1>1 DEF SendNext
<1>6. /\ down' = [v \in KeyWindows |-> down'[v]] /\ missed \subseteq missed'
      /\ missed' \subseteq KeyWindows
      /\ \A v \in KeyWindows : v # keyChannel => down'[v] = down[v]
      /\ keyChannel \notin missed' => keyChannel \notin missed /\ down'[keyChannel] = Hears(keyChannel, e)
      /\ down'[keyChannel] \in {down[keyChannel], Hears(keyChannel, e)}
  BY <1>2, SendFacts
<1>7. \/ n = 1 /\ e.what = "focus" /\ keyFocused /\ ~hubFocused
      \/ /\ n = 1 /\ e.what = "down" /\ keyFocused /\ hubFocused
         /\ e.scan \in DOMAIN pressed /\ e.code = pressed[e.scan]
      \/ n = 1 /\ e.what = "up" /\ keyFocused /\ hubFocused
      \/ n = 1 /\ e.what = "blur" /\ ~keyFocused /\ hubFocused
      \/ n > 1 /\ e.what = "up" /\ Leaving
  <2>1. Entering \/ Pressing \/ Releasing \/ Leaving
    BY <1>1, <1>2, KeyboardParts DEF OutboxInv, Sent
  <2>2. CASE Entering
    <3>1. n = 1 /\ e = Focus(TRUE)
      BY <1>1, <1>3, <1>4, <2>2 DEF Entering
    <3>2. e.what = "focus" /\ keyFocused /\ ~hubFocused
      BY <2>2, <3>1, EventFacts DEF Entering
    <3>3. QED
      BY <3>1, <3>2
  <2>3. CASE Pressing
    <3>1. n = 1 /\ \E s \in DOMAIN pressed : e = KeyEvent("down", s, pressed[s])
      BY <1>1, <1>3, <1>4, <2>3 DEF Pressing
    <3>2. e.what = "down" /\ e.scan \in DOMAIN pressed /\ e.code = pressed[e.scan]
      BY <3>1 DEF KeyEvent
    <3>3. QED
      BY <2>3, <3>1, <3>2 DEF Pressing
  <2>4. CASE Releasing
    BY <1>1, <1>3, <1>4, <2>4 DEF Releasing
  <2>5. CASE Leaving
    <3>1. q[n] = Focus(FALSE) /\ \A i \in 1..(n - 1) : q[i].what = "up"
      BY <1>1, <1>3, <2>5 DEF Leaving
    <3>2. ~keyFocused /\ hubFocused
      BY <2>5 DEF Leaving
    <3>3. CASE n = 1
      <4>1. e = Focus(FALSE)
        BY <1>4, <3>1, <3>3
      <4>2. e.what = "blur"
        BY <4>1, EventFacts
      <4>3. QED
        BY <3>2, <3>3, <4>2
    <3>4. CASE n > 1
      <4>1. 1 \in 1..(n - 1)
        BY <1>4, <3>4
      <4>2. e.what = "up"
        BY <1>4, <3>1, <4>1
      <4>3. QED
        BY <2>5, <3>4, <4>2
    <3>5. QED
      BY <1>4, <3>3, <3>4
  <2>6. QED
    BY <2>1, <2>2, <2>3, <2>4, <2>5
<1>8. /\ e.what = "focus" => Hears(keyChannel, e) = {}
      /\ e.what = "blur"  => Hears(keyChannel, e) = {}
      /\ e.what = "down"  => Hears(keyChannel, e) = down[keyChannel] \cup {<<e.scan, e.code>>}
      /\ e.what = "up"    => Hears(keyChannel, e) = down[keyChannel] \ {<<e.scan, e.code>>}
  BY DEF Hears
<1>9. /\ UNCHANGED <<holds, hostFocused, layout, repeats, keyFocused, pressed, repeating>>
      /\ keyChannel' = keyChannel
  BY <1>2 DEF hostVars, mapVars, pressVars
<1>10. OutboxInv'
  <2>1. CASE n = 1
    <3>2. hubFocused' = keyFocused
      <4>1. keyFocused \in BOOLEAN /\ hubFocused \in BOOLEAN
        BY KeyboardParts
      <4>2. CASE e.what = "focus"
        BY Zenon, <1>5, <1>7, <4>1, <4>2
      <4>3. CASE e.what = "blur"
        BY <1>5, <1>7, <2>1, <4>1, <4>3
      <4>4. CASE e.what \in {"up", "down"}
        <5>1. hubFocused' = hubFocused
          BY <1>5, <4>4
        <5>2. hubFocused = TRUE /\ keyFocused = TRUE
          BY <1>7, <2>1, <4>1, <4>4
        <5>3. QED
          BY <5>1, <5>2
      <4>5. QED
        BY <1>7, <4>2, <4>3, <4>4
    <3>3. Sent'
      BY <1>4, <1>9, <2>1, <3>2 DEF Sent
    <3>4. QED
      BY <1>4, <3>3 DEF OutboxInv, Events
  <2>2. CASE n > 1
    <3>1. Leaving /\ hubFocused' = hubFocused
      BY <1>5, <1>7, <2>2
    <3>2. Len(q) = n /\ q[n] = Focus(FALSE) /\ \A i \in 1..(n - 1) : q[i].what = "up"
      BY <1>1, <1>3, <3>1 DEF Leaving
    <3>3. Len(outbox') = n - 1 /\ n - 1 > 0 /\ n - 1 \in 1..(n - 1) /\ (n - 1) + 1 = n
      BY <1>4, <2>2
    <3>4. outbox'[n - 1] = q[n]
      BY <1>4, <3>3
    <3>5. ASSUME NEW i \in 1..(n - 1 - 1) PROVE outbox'[i].what = "up"
      <4>1. i \in 1..(n - 1) /\ i + 1 \in 1..(n - 1)
        BY <1>4, <2>2
      <4>2. QED
        BY <1>4, <3>2, <4>1
    <3>6. Leaving'
      BY <1>9, <3>1, <3>2, <3>3, <3>4, <3>5 DEF Leaving
    <3>7. QED
      BY <1>4, <3>6 DEF OutboxInv, Events
  <2>3. QED
    BY <1>4, <2>1, <2>2
<1>11. \/ e.what \in {"focus", "blur", "up"}
       \/ /\ e.what = "down" /\ hubFocused /\ e.scan \in DOMAIN pressed /\ e.code = pressed[e.scan]
          /\ e.scan \in Scans /\ e.code \in Codes
  BY <1>7, KeyboardParts
<1>12. hubFocused' \in BOOLEAN
       /\ (e.what \in {"up", "down"} => hubFocused /\ hubFocused' = hubFocused)
  <2>1. ASSUME e.what \in {"up", "down"} PROVE hubFocused /\ hubFocused' = hubFocused
    <3>1. hubFocused' = hubFocused
      BY <1>5, <2>1
    <3>2. hubFocused
      <4>1. e.what # "focus"
        BY <2>1
      <4>2. QED
        BY Zenon, <1>7, <4>1 DEF Leaving
    <3>3. QED
      BY <3>1, <3>2
  <2>2. hubFocused' \in BOOLEAN
    BY <1>5, <1>11, <2>1, KeyboardParts
  <2>3. QED
    BY <2>1, <2>2
<1>13. KeyboardTypeOK'
  <2>1. \A v \in KeyWindows : down[v] \subseteq Scans \X Codes
    BY KeyboardParts DEF KeyboardTypeOK
  <2>2. Hears(keyChannel, e) \subseteq Scans \X Codes
    BY <1>2, <1>8, <1>11, <2>1
  <2>3. \A v \in KeyWindows : down'[v] \subseteq Scans \X Codes
    BY <1>2, <1>6, <2>1, <2>2
  <2>4. QED
    BY <1>2, <1>6, <1>9, <1>12, <2>3, KeyboardParts DEF KeyboardTypeOK
<1>14. ShapeInv'
  BY <1>6, <1>9, KeyboardParts DEF ShapeInv
<1>15. \A v \in KeyWindows \ missed' : v # keyChannel => down'[v] = {}
  BY <1>6, KeyboardParts DEF NoKeySticks
<1>16. FocusInv'
  <2>1. keyChannel \notin missed' /\ down'[keyChannel] # {} => hubFocused'
    BY <1>6, <1>8, <1>11, <1>12
  <2>2. QED
    BY <1>15, <2>1 DEF FocusInv
<1>17. NoKeySticks'
  <2>1. ASSUME keyChannel \notin missed', NEW k \in down'[keyChannel]
        PROVE  \/ k[1] \in DOMAIN pressed /\ pressed[k[1]] = k[2]
               \/ \E i \in DOMAIN outbox' : outbox'[i] = KeyEvent("up", k[1], k[2])
    <3>1. k \in Hears(keyChannel, e) /\ keyChannel \in KeyWindows \ missed
      BY <1>2, <1>6, <2>1
    <3>2. CASE e.what = "down" /\ k = <<e.scan, e.code>>
      BY <1>11, <3>2
    <3>3. CASE ~(e.what = "down" /\ k = <<e.scan, e.code>>)
      <4>1. k \in down[keyChannel] /\ (e.what = "up" => k # <<e.scan, e.code>>)
            /\ e.what \in {"up", "down"}
        BY <1>8, <1>11, <3>1, <3>3
      <4>2. k = <<k[1], k[2]>>
        BY <1>2, <4>1, KeyboardParts DEF KeyboardTypeOK
      <4>3. \/ k[1] \in DOMAIN pressed /\ pressed[k[1]] = k[2]
            \/ \E i \in 1..n : q[i] = KeyEvent("up", k[1], k[2])
        BY <1>1, <1>4, <3>1, <4>1, KeyboardParts DEF NoKeySticks
      <4>4. ASSUME NEW i \in 1..n, q[i] = KeyEvent("up", k[1], k[2])
            PROVE  \E j \in DOMAIN outbox' : outbox'[j] = KeyEvent("up", k[1], k[2])
        <5>1. i # 1
          BY <1>4, <4>1, <4>2, <4>4 DEF KeyEvent
        <5>2. i - 1 \in 1..(n - 1) /\ (i - 1) + 1 = i
          BY <1>4, <5>1
        <5>3. outbox'[i - 1] = q[i]
          BY <1>4, <5>2
        <5>4. QED
          BY <1>4, <4>4, <5>2, <5>3
      <4>5. QED
        BY <4>3, <4>4
    <3>4. QED
      BY <3>2, <3>3
  <2>2. \A v \in KeyWindows \ missed' : \A k \in down'[v] :
          /\ v = keyChannel'
          /\ \/ k[1] \in DOMAIN pressed' /\ pressed'[k[1]] = k[2]
             \/ \E i \in DOMAIN outbox' : outbox'[i] = KeyEvent("up", k[1], k[2])
    BY <1>9, <1>15, <2>1
  <2>3. /\ DOMAIN pressed' \subseteq (IF keyFocused' THEN holds' ELSE {})
        /\ repeating' \in DOMAIN pressed' \cup {NoKey}
    BY <1>9, KeyboardParts DEF NoKeySticks
  <2>4. QED
    BY <2>2, <2>3 DEF NoKeySticks, KeyEvent
<1>18. QED
  BY <1>10, <1>13, <1>14, <1>16, <1>17 DEF KeyboardInv

\* No key is held and no window has the focus.
LEMMA KeyboardInitially == KeyboardInit => KeyboardInv
<1> SUFFICES ASSUME KeyboardInit PROVE KeyboardInv
  OBVIOUS
<1>1. <<>> \in Seq({}) /\ Len(<<>>) = 0 /\ DOMAIN <<>> = {} /\ <<>> \in Seq(Events)
  OBVIOUS
<1>2. KeyboardTypeOK
  BY <1>1 DEF KeyboardInit, KeyboardTypeOK, Range
<1>3. ShapeInv
  <2>1. pressed = [s \in DOMAIN pressed |-> pressed[s]] /\ DOMAIN pressed = {}
    BY <1>1 DEF KeyboardInit
  <2>2. QED
    BY <2>1, FS_EmptySet DEF KeyboardInit, ShapeInv
<1>4. OutboxInv
  <2>1. Sent
    BY DEF KeyboardInit, Sent
  <2>2. QED
    BY <1>1, <2>1 DEF KeyboardInit, OutboxInv
<1>5. FocusInv /\ NoKeySticks
  BY <1>1 DEF KeyboardInit, FocusInv, NoKeySticks
<1>6. QED
  BY <1>2, <1>3, <1>4, <1>5 DEF KeyboardInv

\* Every step of the keyboard keeps the invariant.
LEMMA KeyboardStep ==
    ASSUME KeyboardInv, [KeyboardNext]_keyboardVars
    PROVE  KeyboardInv'
<1>1. KeyboardTypeOK /\ NoKeySticks
  BY KeyboardParts
<1>2. ASSUME UNCHANGED keyboardVars \/ (\E l \in Layouts : Modifiers(l))
             \/ (\E on \in BOOLEAN : repeat_info(on))
      PROVE  KeyboardInv'
  <2>1. /\ UNCHANGED <<hostFocused, keyFocused, pressed, outbox, deliverVars, holds>>
        /\ layout' \in Layouts \cup {layout} /\ repeats' \in BOOLEAN \cup {repeats}
        /\ repeating' \in {repeating, NoKey}
    BY <1>2 DEF keyboardVars, hostVars, mapVars, pressVars, Modifiers, repeat_info
  <2>2. QED
    BY <1>1, <2>1, QuietStep DEF KeyboardTypeOK, NoKeySticks
<1>3. ASSUME Enter \/ Leave \/ repeat \/ SendNext
      PROVE  KeyboardInv'
  BY <1>3, EnterStep, LeaveStep, RepeatStep, SendStep
<1>4. ASSUME NEW s \in Scans, KeyDown(s) \/ KeyUp(s)
      PROVE  KeyboardInv'
  BY <1>4, KeyDownStep, KeyUpStep
<1>5. ASSUME NEW w \in KeyWindows, SelectChannel(w)
      PROVE  KeyboardInv'
  BY <1>5, SelectStep
<1>6. QED
  BY <1>2, <1>3, <1>4, <1>5 DEF KeyboardNext

\* keyboard.rs, input_channel.rs: a key that a window takes for down is held by the user,
\* under the keycode it was pressed with, or its release is on its way, whatever the
\* layout, the focus and the channel do while it is down.
THEOREM NoKeySticksAlways == KeyboardSpec => [](KeyboardTypeOK /\ NoKeySticks)
<1>1. KeyboardInv => KeyboardTypeOK /\ NoKeySticks
  BY DEF KeyboardInv
<1>2. QED
  BY KeyboardInitially, KeyboardStep, <1>1, PTL DEF KeyboardSpec

-----------------------------------------------------------------------------
(***************************************************************************)
(* The shade.                                                              *)
(***************************************************************************)
ShadeSpec == ShadeInit /\ [][ShadeNext]_shadeAll

Kinds  == {"snapshot", "posted", "removed"}
ShadeLines == [what : Kinds, notes : SUBSET Note]
Writes == [to : Widgets, line : ShadeLines]

(* What lines make of a list.                                              *)

\* A note is shown after these lines if no line speaks of it, or the last that does has it.
LEMMA ShowMember ==
    ASSUME NEW list, NEW lines, NEW at, NEW n
    PROVE  n \in ShowAll(list, lines, at) <=>
              \/ n \in list /\ \A i \in at : ~SpeaksOf(lines[i], n.id)
              \/ \E i \in at : /\ lines[i].what # "removed" /\ n \in lines[i].notes
                               /\ \A j \in at : j > i => ~SpeaksOf(lines[j], n.id)
BY DEF ShowAll

\* A note is shown after one line.
LEMMA ShowOne ==
    ASSUME NEW list, NEW line \in ShadeLines, NEW n
    PROVE  n \in Show(list, line) <=>
              \/ n \in list /\ ~SpeaksOf(line, n.id)
              \/ line.what # "removed" /\ n \in line.notes
BY DEF ShadeLines, Kinds, Show, SpeaksOf

\* No line changes nothing.
LEMMA ShowNone ==
    ASSUME NEW list, NEW lines
    PROVE  ShowAll(list, lines, {}) = list
BY DEF ShowAll

\* The same lines at other positions, in the same order.
LEMMA ShowMoved ==
    ASSUME NEW list, NEW lines, NEW moved, NEW at, NEW to, NEW f,
           \A i \in to : f[i] \in at /\ moved[i] = lines[f[i]],
           \A k \in at : \E i \in to : f[i] = k,
           \A i, j \in to : j > i <=> f[j] > f[i]
    PROVE  ShowAll(list, moved, to) = ShowAll(list, lines, at)
<1> SUFFICES ASSUME NEW n PROVE n \in ShowAll(list, moved, to) <=> n \in ShowAll(list, lines, at)
  OBVIOUS
<1> DEFINE Silent(ls, s, i) == \A j \in s : j > i => ~SpeaksOf(ls[j], n.id)
           Said(ls, s) == \E i \in s : ls[i].what # "removed" /\ n \in ls[i].notes /\ Silent(ls, s, i)
<1>1. (\A i \in to : ~SpeaksOf(moved[i], n.id)) <=> \A k \in at : ~SpeaksOf(lines[k], n.id)
  OBVIOUS
<1>2. \A i \in to : Silent(moved, to, i) <=> Silent(lines, at, f[i])
  OBVIOUS
<1> HIDE DEF Silent
<1>3. Said(moved, to) => Said(lines, at)
  BY <1>2
<1>4. Said(lines, at) => Said(moved, to)
  BY <1>2
<1>5. n \in ShowAll(list, moved, to) <=>
          (n \in list /\ \A i \in to : ~SpeaksOf(moved[i], n.id)) \/ Said(moved, to)
  BY ShowMember DEF Silent
<1>6. n \in ShowAll(list, lines, at) <=>
          (n \in list /\ \A i \in at : ~SpeaksOf(lines[i], n.id)) \/ Said(lines, at)
  BY ShowMember DEF Silent
<1> HIDE DEF Said
<1>7. QED
  BY <1>1, <1>3, <1>4, <1>5, <1>6

\* first is the first of these positions, rest the others.
Leads(first, at, rest) ==
    /\ first \in at /\ rest = at \ {first} /\ ~(first > first)
    /\ \A i \in rest : i > first /\ ~(first > i)

\* The first line makes the list that the others start from.
LEMMA ShowFirst ==
    ASSUME NEW list, NEW lines, NEW at, NEW first, NEW rest, Leads(first, at, rest),
           NEW line \in ShadeLines, lines[first] = line
    PROVE  ShowAll(list, lines, at) = ShowAll(Show(list, line), lines, rest)
<1> SUFFICES ASSUME NEW n
             PROVE  n \in ShowAll(list, lines, at) <=> n \in ShowAll(Show(list, line), lines, rest)
  OBVIOUS
<1> DEFINE Silent(s, i) == \A j \in s : j > i => ~SpeaksOf(lines[j], n.id)
           Said(s) == \E i \in s : lines[i].what # "removed" /\ n \in lines[i].notes /\ Silent(s, i)
<1>1. n \in Show(list, line) <=> \/ n \in list /\ ~SpeaksOf(line, n.id)
                                 \/ line.what # "removed" /\ n \in line.notes
  BY ShowOne
<1>2. /\ first \in at /\ ~(first > first) /\ \A i \in rest : i > first /\ ~(first > i) /\ i \in at
      /\ \A i \in at : i = first \/ i \in rest
  BY DEF Leads
<1>3. \A i \in rest : Silent(at, i) <=> Silent(rest, i)
  BY <1>2
<1>4. Silent(at, first) <=> \A j \in rest : ~SpeaksOf(lines[j], n.id)
  BY <1>2
<1> HIDE DEF Silent
<1>5. at = rest \cup {first}
  BY <1>2
<1>6. Said(at) <=> \/ Said(rest)
                   \/ /\ line.what # "removed" /\ n \in line.notes
                      /\ \A j \in rest : ~SpeaksOf(lines[j], n.id)
  BY <1>3, <1>4, <1>5
<1>7. (\A i \in at : ~SpeaksOf(lines[i], n.id)) <=>
          ~SpeaksOf(line, n.id) /\ \A i \in rest : ~SpeaksOf(lines[i], n.id)
  BY <1>5
<1>8. n \in ShowAll(list, lines, at) <=>
          (n \in list /\ \A i \in at : ~SpeaksOf(lines[i], n.id)) \/ Said(at)
  BY ShowMember DEF Silent
<1>9. n \in ShowAll(Show(list, line), lines, rest) <=>
          (n \in Show(list, line) /\ \A i \in rest : ~SpeaksOf(lines[i], n.id)) \/ Said(rest)
  BY ShowMember DEF Silent
<1> HIDE DEF Said
<1>10. QED
  BY <1>1, <1>6, <1>7, <1>8, <1>9

\* The last line is read after the others.
LEMMA ShowLast ==
    ASSUME NEW list, NEW lines, NEW at, NEW last, last \notin at, lines[last] \in ShadeLines,
           ~(last > last), \A i \in at : last > i /\ ~(i > last)
    PROVE  ShowAll(list, lines, at \cup {last}) = Show(ShowAll(list, lines, at), lines[last])
<1> DEFINE all  == at \cup {last}
           line == lines[last]
<1> SUFFICES ASSUME NEW n
             PROVE  n \in ShowAll(list, lines, all) <=> n \in Show(ShowAll(list, lines, at), line)
  OBVIOUS
<1> DEFINE Silent(s, i) == \A j \in s : j > i => ~SpeaksOf(lines[j], n.id)
           Said(s) == \E i \in s : lines[i].what # "removed" /\ n \in lines[i].notes /\ Silent(s, i)
<1>1. n \in Show(ShowAll(list, lines, at), line) <=>
          \/ n \in ShowAll(list, lines, at) /\ ~SpeaksOf(line, n.id)
          \/ line.what # "removed" /\ n \in line.notes
  BY ShowOne
<1>2. \A i \in at : Silent(all, i) <=> Silent(at, i) /\ ~SpeaksOf(line, n.id)
  OBVIOUS
<1>3. Silent(all, last)
  OBVIOUS
<1>4. \A i \in all : i \in at \/ i = last
  OBVIOUS
<1>5. at \subseteq all /\ last \in all
  OBVIOUS
<1> HIDE DEF Silent, all
<1>6. Said(all) <=> \/ Said(at) /\ ~SpeaksOf(line, n.id)
                    \/ line.what # "removed" /\ n \in line.notes
  BY <1>2, <1>3, <1>4, <1>5
<1>7. (\A i \in all : ~SpeaksOf(lines[i], n.id)) <=>
          ~SpeaksOf(line, n.id) /\ \A i \in at : ~SpeaksOf(lines[i], n.id)
  BY <1>4, <1>5
<1>8. n \in ShowAll(list, lines, all) <=>
          (n \in list /\ \A i \in all : ~SpeaksOf(lines[i], n.id)) \/ Said(all)
  BY ShowMember DEF Silent
<1>9. n \in ShowAll(list, lines, at) <=>
          (n \in list /\ \A i \in at : ~SpeaksOf(lines[i], n.id)) \/ Said(at)
  BY ShowMember DEF Silent
<1> HIDE DEF Said, line
<1>10. QED
  BY <1>1, <1>6, <1>7, <1>8, <1>9

(* A broadcast.                                                            *)

\* Quotient and remainder.
LEMMA Division ==
    ASSUME NEW b \in Nat, b > 0, NEW m \in Nat
    PROVE  m % b \in 0..(b - 1) /\ (m \div b) \in Nat /\ m = (m \div b) * b + (m % b)
OBVIOUS

\* A number below a * b has a quotient by b below a.
LEMMA QuotientBound ==
    ASSUME NEW a \in Nat, NEW b \in Nat, b > 0, NEW m \in Nat, m < a * b
    PROVE  (m \div b) < a
<1>1. PICK q \in Nat : q = m \div b
  BY Division
<1>2. q * b <= m
  BY <1>1, Division
<1>3. ASSUME q >= a PROVE FALSE
  <2>1. PICK d \in Nat : q = a + d
    BY <1>3
  <2>2. q * b = a * b + d * b /\ d * b >= 0
    BY <2>1
  <2>3. QED
    BY <1>2, <2>2
<1>4. QED
  BY <1>1, <1>3

\* Quotient and remainder are unique.
LEMMA QuotientUnique ==
    ASSUME NEW b \in Nat, b > 0, NEW q \in Nat, NEW r \in 0..(b - 1)
    PROVE  (q * b + r) \div b = q /\ (q * b + r) % b = r
OBVIOUS

\* Every client is owed every line, and nobody anything else.
LEMMA BroadcastFacts ==
    ASSUME clients \in Seq(Widgets), NEW lines \in Seq(ShadeLines), broadcast(lines)
    PROVE  /\ writes' \in Seq(Writes)
           /\ \A i \in DOMAIN writes' : \E j \in DOMAIN lines : writes'[i].line = lines[j]
           /\ \A c \in ToSet(clients), j \in DOMAIN lines :
                 \E i \in DOMAIN writes' : writes'[i] = [to |-> c, line |-> lines[j]]
<1> DEFINE a == Len(lines)
           b == Len(clients)
           Client(i) == ((i - 1) % b) + 1
           Line(i)   == ((i - 1) \div b) + 1
<1>1. /\ a \in Nat /\ b \in Nat /\ DOMAIN lines = 1..a /\ DOMAIN clients = 1..b
      /\ \A k \in 1..b : clients[k] \in Widgets
      /\ \A j \in 1..a : lines[j] \in ShadeLines
  OBVIOUS
<1>2. writes' = [i \in 1..a * b |-> [to |-> clients[Client(i)], line |-> lines[Line(i)]]]
  BY DEF broadcast
<1> HIDE DEF a, b
<1>3. a * b \in Nat
  BY <1>1
<1>4. ASSUME NEW i \in 1..a * b PROVE Client(i) \in 1..b /\ Line(i) \in 1..a
  <2>1. PICK m \in Nat : m = i - 1
    BY <1>3
  <2>2. m < a * b
    BY <1>3, <2>1
  <2>3. b > 0
    <3>1. CASE b = 0
      BY <1>1, <1>3, <2>2, <3>1
    <3>2. QED
      BY <1>1, <3>1
  <2>4. m % b \in 0..(b - 1) /\ (m \div b) \in Nat /\ (m \div b) < a
    BY <1>1, <2>2, <2>3, Division, QuotientBound
  <2>5. Client(i) = (m % b) + 1 /\ Line(i) = (m \div b) + 1
    BY <2>1
  <2>6. QED
    BY <1>1, <2>4, <2>5
<1> HIDE DEF Client, Line
<1>5. writes' \in Seq(Writes) /\ DOMAIN writes' = 1..a * b
  <2>1. \A i \in 1..a * b : [to |-> clients[Client(i)], line |-> lines[Line(i)]] \in Writes
    BY <1>1, <1>4 DEF Writes
  <2>2. QED
    BY <1>2, <1>3, <2>1
<1>6. \A i \in 1..a * b : writes'[i] = [to |-> clients[Client(i)], line |-> lines[Line(i)]]
  BY <1>2
<1>7. \A i \in DOMAIN writes' : \E j \in DOMAIN lines : writes'[i].line = lines[j]
  BY <1>1, <1>4, <1>5, <1>6
<1>8. ASSUME NEW c \in ToSet(clients), NEW j \in DOMAIN lines
      PROVE  \E i \in DOMAIN writes' : writes'[i] = [to |-> c, line |-> lines[j]]
  <2>1. PICK k \in 1..b : clients[k] = c
    BY <1>1 DEF ToSet
  <2>2. PICK q \in Nat, r \in Nat : q = j - 1 /\ r = k - 1
    BY <1>1
  <2>3. b > 0 /\ r \in 0..(b - 1) /\ q + 1 <= a
    BY <1>1, <2>1, <2>2
  <2>4. (q * b + r) \div b = q /\ (q * b + r) % b = r
    BY <1>1, <2>3, QuotientUnique
  <2>5. q * b + r + 1 \in 1..a * b
    <3>1. PICK d \in Nat : a = q + 1 + d
      BY <1>1, <2>3
    <3>2. a * b = q * b + b + d * b /\ d * b >= 0 /\ q * b \in Nat
      BY <1>1, <3>1
    <3>3. QED
      BY <1>1, <1>3, <2>3, <3>2
  <2>6. PICK i \in 1..a * b : i = q * b + r + 1
    BY <2>5
  <2>7. i - 1 = q * b + r
    <3>1. PICK p \in Nat : p = q * b
      BY <1>1
    <3>2. i = p + r + 1 /\ i \in Nat
      BY <1>3, <2>6, <3>1
    <3>3. i - 1 = p + r
      BY <3>2
    <3>4. QED
      BY <3>1, <3>3
  <2>8. Client(i) = k /\ Line(i) = j
    <3>1. (i - 1) % b = r /\ (i - 1) \div b = q
      BY <2>4, <2>7
    <3>2. Client(i) = r + 1 /\ Line(i) = q + 1
      BY <3>1 DEF Client, Line
    <3>3. r + 1 = k /\ q + 1 = j
      BY <1>1, <2>2
    <3>4. QED
      BY <3>2, <3>3
  <2>9. QED
    BY <1>5, <1>6, <2>1, <2>8
<1>9. QED
  BY <1>5, <1>7, <1>8

\* A set of numbers with a bound has a greatest one.
LEMMA GreatestNatural ==
    ASSUME NEW k \in Nat, NEW S \in SUBSET (1..k), S # {}
    PROVE  \E n \in S : \A m \in S : m <= n
<1> DEFINE T == {k - n : n \in S}
<1>1. T \in SUBSET Nat /\ T # {}
  <2>1. \A n \in S : k - n \in Nat
    OBVIOUS
  <2>2. QED
    BY <2>1
<1>2. PICK t \in T : \A u \in T : t <= u
  BY <1>1, LeastNatural
<1>3. PICK n \in S : t = k - n
  OBVIOUS
<1>4. \A m \in S : k - n <= k - m
  BY <1>2, <1>3
<1>5. QED
  BY <1>4

\* Lines that post the same note.
LEMMA ShowPosted ==
    ASSUME NEW list, NEW lines, NEW at, NEW last \in at, \A i \in at : ~(i > last),
           NEW note, \A i \in at : lines[i] = PostedLine(note)
    PROVE  ShowAll(list, lines, at) = {n \in list : n.id # note.id} \cup {note}
<1> DEFINE line == PostedLine(note)
<1>1. line.what # "snapshot" /\ line.what # "removed" /\ line.notes = {note}
  BY DEF PostedLine
<1>2. \A id : SpeaksOf(line, id) <=> id = note.id
  BY <1>1 DEF SpeaksOf, Ids
<1> HIDE DEF line
<1>4. \A i \in at : lines[i] = line
  BY DEF line
<1>5. \A n : (\A i \in at : ~SpeaksOf(lines[i], n.id)) <=> n.id # note.id
  BY <1>2, <1>4
<1>6. \A n : (\E i \in at : /\ lines[i].what # "removed" /\ n \in lines[i].notes
                            /\ \A j \in at : j > i => ~SpeaksOf(lines[j], n.id)) <=> n = note
  BY <1>1, <1>2, <1>4
<1>7. QED
  BY <1>5, <1>6, ShowMember

\* Lines that remove notes.
LEMMA ShowRemoved ==
    ASSUME NEW list, NEW lines, NEW at, NEW gone,
           \A i \in at : \E n \in gone : lines[i] = RemovedLine(n),
           \A n \in gone : \E i \in at : lines[i] = RemovedLine(n)
    PROVE  ShowAll(list, lines, at) = {n \in list : n.id \notin Ids(gone)}
<1>1. \A n : /\ RemovedLine(n).what = "removed"
             /\ \A id : SpeaksOf(RemovedLine(n), id) <=> id = n.id
  BY DEF RemovedLine, SpeaksOf, Ids
<1>2. \A i \in at : lines[i].what = "removed"
  BY <1>1
<1>3. \A id : (\A i \in at : ~SpeaksOf(lines[i], id)) <=> id \notin Ids(gone)
  BY <1>1 DEF Ids
<1>4. QED
  BY <1>2, <1>3, ShowMember

(* The invariant.                                                          *)

\* What widget c has been sent, and what it shows once it has read that; and what it
\* shows after the lines that the holder of the lock still writes.
Told(c) == ShowAll(shown[c], wire[c], DOMAIN wire[c])
ShowsInTheEnd(c) == ShowAll(Told(c), LinesOf(writes), Owed(writes, c))

NotesTyped ==
    /\ notes \in Seq(Note) /\ clients \in Seq(Widgets) /\ writes \in Seq(Writes)
    /\ posted \in 0..MaxNotes /\ next_id \in 1..posted + 1

WidgetsTyped ==
    /\ link \in [Widgets -> {"absent", "open", "closed"}]
    /\ wire \in [Widgets -> Seq(ShadeLines)]
    /\ \A c \in Widgets : Len(wire[c]) <= SocketLines
    /\ shown \in [Widgets -> SUBSET Note]
    /\ tapped \subseteq NoteKeys \X NoteKeys

\* No two notes have an id or a key in common.
NotesInv == \A m, n \in ToSet(notes) : m.id = n.id \/ m.key = n.key => m = n

\* An open widget is a client, and ends up with the notes.
ClientsInv == \A c \in Widgets : link[c] = "open" => c \in ToSet(clients) /\ ShowsInTheEnd(c) = ToSet(notes)

\* A note on the list, in a line or on a widget.
Seen(n) ==
    \/ n \in ToSet(notes)
    \/ \E c \in Widgets : n \in shown[c] \/ \E i \in DOMAIN wire[c] : n \in wire[c][i].notes
    \/ \E i \in DOMAIN writes : n \in writes[i].line.notes

\* keyOf gives the key that an id has meant from its first note on.
Means(keyOf) ==
    /\ keyOf = [i \in 1..MaxNotes |-> keyOf[i]]
    /\ \A n : Seen(n) => n \in Note /\ n.id < next_id /\ keyOf[n.id] = n.key
    /\ \A m \in commands : \A k \in m.key : /\ m.id \in 1..MaxNotes /\ m.id < next_id
                                            /\ keyOf[m.id] = k

KeysInv == \E keyOf : Means(keyOf)

TapsInv == \A pair \in tapped : pair[1] = pair[2]

ShadeInv == NotesTyped /\ WidgetsTyped /\ NotesInv /\ ClientsInv /\ KeysInv /\ TapsInv

\* The invariant has the types.
LEMMA ShadeTypes == ShadeInv => ShadeTypeOK
<1> SUFFICES ASSUME ShadeInv PROVE ShadeTypeOK
  OBVIOUS
<1>1. ToSet(notes) \subseteq Note /\ ToSet(clients) \subseteq Widgets
  BY DEF ShadeInv, NotesTyped, ToSet
<1>2. next_id \in 1..MaxNotes + 1
  BY ShadeAssumption DEF ShadeInv, NotesTyped
<1>3. QED
  BY <1>1, <1>2 DEF ShadeInv, WidgetsTyped, ShadeTypeOK

\* No notes and no widgets.
LEMMA ShadeInitially == ShadeInit => ShadeInv
<1> SUFFICES ASSUME ShadeInit PROVE ShadeInv
  OBVIOUS
<1>1. NotesTyped
  BY ShadeAssumption DEF ShadeInit, NotesTyped
<1>2. WidgetsTyped
  <2>1. \A c \in Widgets : wire[c] \in Seq(ShadeLines) /\ Len(wire[c]) = 0 /\ shown[c] \in SUBSET Note
    BY DEF ShadeInit
  <2>2. QED
    BY <2>1, ShadeAssumption DEF ShadeInit, WidgetsTyped
<1>3. NotesInv /\ ClientsInv /\ TapsInv
  BY DEF ShadeInit, NotesInv, ClientsInv, TapsInv, ToSet
<1>4. \A n : ~Seen(n)
  <2>1. \A c \in Widgets : DOMAIN wire[c] = {} /\ shown[c] = {}
    BY DEF ShadeInit
  <2>2. QED
    BY <2>1 DEF ShadeInit, Seen, ToSet
<1>5. KeysInv
  <2>1. PICK keyOf : keyOf = [i \in 1..MaxNotes |-> 0]
    OBVIOUS
  <2>2. Means(keyOf)
    BY <1>4, <2>1 DEF ShadeInit, Means
  <2>3. QED
    BY <2>2 DEF KeysInv
<1>6. QED
  BY <1>1, <1>2, <1>3, <1>5 DEF ShadeInv

\* Nothing new is seen.
LEMMA KeysKeep ==
    ASSUME KeysInv, next_id' = next_id, commands' \subseteq commands,
           \A n : Seen(n)' => Seen(n)
    PROVE  KeysInv'
<1>1. PICK keyOf : Means(keyOf)
  BY DEF KeysInv
<1>2. Means(keyOf)'
  BY <1>1 DEF Means
<1>3. QED
  BY <1>2 DEF KeysInv

\* The lines of a step that the lock is free for are all there is to write.
LEMMA FreeEnds ==
    ASSUME ShadeInv, LockFree, NEW c \in Widgets, link[c] = "open"
    PROVE  Told(c) = ToSet(notes)
<1>1. writes = <<>> /\ Owed(writes, c) = {}
  BY DEF LockFree, Owed
<1>2. ShowsInTheEnd(c) = Told(c)
  BY <1>1, ShowNone DEF ShowsInTheEnd
<1>3. QED
  BY <1>2 DEF ShadeInv, ClientsInv

\* What a client is owed by a broadcast.
LEMMA BroadcastOwed ==
    ASSUME clients \in Seq(Widgets), NEW lines \in Seq(ShadeLines), broadcast(lines),
           NEW c \in ToSet(clients)
    PROVE  /\ \E k \in Nat : Owed(writes', c) \subseteq 1..k
           /\ \A i \in Owed(writes', c) : \E j \in DOMAIN lines : LinesOf(writes')[i] = lines[j]
           /\ \A j \in DOMAIN lines : \E i \in Owed(writes', c) : LinesOf(writes')[i] = lines[j]
<1>1. PICK ws : ws = writes'
  OBVIOUS
<1>2. /\ ws \in Seq(Writes)
      /\ \A i \in DOMAIN ws : \E j \in DOMAIN lines : ws[i].line = lines[j]
      /\ \A j \in DOMAIN lines : \E i \in DOMAIN ws : ws[i] = [to |-> c, line |-> lines[j]]
  BY <1>1, BroadcastFacts
<1>3. PICK k \in Nat : DOMAIN ws = 1..k
  BY <1>2
<1>4. PICK at : at = Owed(ws, c)
  OBVIOUS
<1>4a. PICK ls : ls = LinesOf(ws)
  OBVIOUS
<1>5. \A i : i \in at <=> i \in DOMAIN ws /\ ws[i].to = c
  BY <1>4 DEF Owed
<1>6. \A i \in DOMAIN ws : ls[i] = ws[i].line
  BY <1>4a DEF LinesOf
<1>7. at \subseteq 1..k
  BY <1>3, <1>5
<1>8. \A i \in at : \E j \in DOMAIN lines : ls[i] = lines[j]
  BY <1>2, <1>5, <1>6
<1>9. ASSUME NEW j \in DOMAIN lines PROVE \E i \in at : ls[i] = lines[j]
  <2>1. PICK i \in DOMAIN ws : ws[i] = [to |-> c, line |-> lines[j]]
    BY <1>2
  <2>2. ws[i].to = c /\ ws[i].line = lines[j]
    BY <2>1
  <2>3. QED
    BY <1>5, <1>6, <2>2
<1>10. QED
  BY <1>1, <1>3, <1>4, <1>4a, <1>7, <1>8, <1>9

\* The line of a post, broadcast.
LEMMA PostedEnds ==
    ASSUME clients \in Seq(Widgets), NEW note \in Note, broadcast(<<PostedLine(note)>>),
           NEW c \in ToSet(clients), NEW list
    PROVE  ShowAll(list, LinesOf(writes'), Owed(writes', c)) = {n \in list : n.id # note.id} \cup {note}
<1>1. PICK line : line = PostedLine(note)
  OBVIOUS
<1>2. line \in ShadeLines
  BY <1>1 DEF PostedLine, ShadeLines, Kinds
<1>3. PICK lines : lines = <<line>>
  OBVIOUS
<1>4. lines \in Seq(ShadeLines) /\ DOMAIN lines = {1} /\ lines[1] = line
  BY <1>2, <1>3
<1>5. broadcast(lines)
  BY <1>1, <1>3
<1> DEFINE at == Owed(writes', c)
           ls == LinesOf(writes')
<1>6. /\ \E k \in Nat : at \subseteq 1..k
      /\ \A i \in at : \E j \in DOMAIN lines : ls[i] = lines[j]
      /\ \A j \in DOMAIN lines : \E i \in at : ls[i] = lines[j]
  BY <1>4, <1>5, BroadcastOwed
<1> HIDE DEF at, ls
<1>6a. PICK k \in Nat : at \subseteq 1..k
  BY <1>6
<1>7. at # {} /\ \A i \in at : ls[i] = PostedLine(note)
  BY <1>1, <1>4, <1>6
<1>8. ShowAll(list, ls, at) = {n \in list : n.id # note.id} \cup {note}
  <2>1. PICK last \in at : \A i \in at : i <= last
    BY <1>6a, <1>7, GreatestNatural
  <2>2. \A i \in at : ~(i > last)
    BY <1>6a, <2>1
  <2>3. QED
    BY <1>7, <2>2, ShowPosted
<1>9. QED
  BY <1>8 DEF at, ls

\* Lines of removals, broadcast.
LEMMA RemovedEnds ==
    ASSUME clients \in Seq(Widgets), NEW lines \in Seq(ShadeLines), broadcast(lines), NEW gone,
           \A j \in DOMAIN lines : \E n \in gone : lines[j] = RemovedLine(n),
           \A n \in gone : \E j \in DOMAIN lines : lines[j] = RemovedLine(n),
           NEW c \in ToSet(clients), NEW list
    PROVE  ShowAll(list, LinesOf(writes'), Owed(writes', c)) = {n \in list : n.id \notin Ids(gone)}
<1> DEFINE at == Owed(writes', c)
           ls == LinesOf(writes')
<1>1. /\ \A i \in at : \E j \in DOMAIN lines : ls[i] = lines[j]
      /\ \A j \in DOMAIN lines : \E i \in at : ls[i] = lines[j]
  BY BroadcastOwed
<1> HIDE DEF at, ls
<1>2. \A i \in at : \E n \in gone : ls[i] = RemovedLine(n)
  BY SMTT(30), <1>1
<1>3. \A n \in gone : \E i \in at : ls[i] = RemovedLine(n)
  BY <1>1
<1>4. ShowAll(list, ls, at) = {n \in list : n.id \notin Ids(gone)}
  BY <1>2, <1>3, ShowRemoved
<1>5. QED
  BY <1>4 DEF at, ls

\* What a post makes of the notes, as a set: the note of the key goes, the new one comes.
LEMMA PostFacts ==
    ASSUME ShadeInv, NEW key \in NoteKeys, post(key)
    PROVE  \E note \in Note :
              /\ note.key = key
              /\ ToSet(notes') = {n \in ToSet(notes) : n.id # note.id} \cup {note}
              /\ \A n \in ToSet(notes) : n.id = note.id <=> n.key = key
              /\ broadcast(<<PostedLine(note)>>)
              /\ notes' \in Seq(Note)
              /\ posted' \in 0..MaxNotes /\ next_id' \in 1..posted' + 1
              /\ next_id <= next_id' /\ note.id < next_id'
              /\ note.id = next_id \/ \E n \in ToSet(notes) : n.id = note.id
<1>1. /\ notes \in Seq(Note) /\ posted \in 0..MaxNotes /\ next_id \in 1..posted + 1 /\ MaxNotes \in Nat
      /\ \A m, n \in ToSet(notes) : m.id = n.id \/ m.key = n.key => m = n
      /\ ToSet(notes) = {notes[i] : i \in DOMAIN notes}
  BY ShadeAssumption DEF ShadeInv, NotesTyped, NotesInv, ToSet
<1>2. \A n : Seen(n) => n \in Note /\ n.id < next_id
  BY DEF ShadeInv, KeysInv, Means
<1> DEFINE known == Position(key)
           id    == IF known = {} THEN NewId ELSE notes[CHOOSE i \in known : TRUE].id
           fresh == [id |-> id, key |-> key, post |-> posted + 1]
<1>3. PICK note : note = fresh
  OBVIOUS
<1>4. note.id = id /\ note.key = key /\ note = [id |-> id, key |-> key, post |-> posted + 1]
  BY <1>3
<1>5. /\ posted < MaxNotes /\ posted' = posted + 1
      /\ notes' = IF known = {} THEN Append(notes, note)
                  ELSE [i \in DOMAIN notes |-> IF i \in known THEN note ELSE notes[i]]
      /\ next_id' = IF known = {} THEN next_id + 1 ELSE next_id
      /\ broadcast(<<PostedLine(note)>>)
  BY <1>3 DEF post
<1>6. \A i \in DOMAIN notes : i \in known <=> notes[i].key = key
  BY DEF Position
<1> HIDE DEF fresh
<1>7. CASE known = {}
  <2>1. id = next_id
    BY <1>7 DEF NewId
  <2>2. note \in Note
    BY SMTT(30), <1>1, <1>4, <1>5, <2>1 DEF Note
  <2>3. /\ notes' = Append(notes, note) /\ notes' \in Seq(Note)
        /\ DOMAIN notes = 1..Len(notes) /\ DOMAIN notes' = 1..Len(notes) + 1 /\ Len(notes) \in Nat
        /\ \A i \in 1..Len(notes) : notes'[i] = notes[i]
        /\ notes'[Len(notes) + 1] = note
    BY <1>1, <1>5, <1>7, <2>2
  <2>4. ToSet(notes') = ToSet(notes) \cup {note}
    BY <2>3 DEF ToSet
  <2>5. \A n \in ToSet(notes) : n.id # note.id /\ n.key # key
    <3>1. \A n \in ToSet(notes) : n.id < next_id /\ n \in Note
      BY <1>2 DEF Seen
    <3>2. \A n \in ToSet(notes) : n.id # next_id
      BY SMTT(30), <1>1, <3>1 DEF Note
    <3>3. QED
      BY <1>1, <1>4, <1>6, <1>7, <2>1, <3>2
  <2>6. note.id = next_id
    BY <1>4, <2>1
  <2>7. ToSet(notes') = {n \in ToSet(notes) : n.id # note.id} \cup {note}
    BY <2>4, <2>5
  <2>8. /\ posted' \in 0..MaxNotes /\ next_id' \in 1..posted' + 1
        /\ next_id <= next_id' /\ note.id < next_id'
    BY <1>1, <1>4, <1>5, <1>7, <2>1
  <2>9. QED
    BY <1>4, <1>5, <2>2, <2>3, <2>5, <2>6, <2>7, <2>8
<1>8. CASE known # {}
  <2>1. PICK i \in known : id = notes[i].id
    BY <1>8
  <2>2. i \in DOMAIN notes /\ notes[i].key = key /\ notes[i] \in ToSet(notes) /\ notes[i] \in Note
    BY <1>1, <2>1 DEF Position
  <2>3. note \in Note /\ note.id = notes[i].id
    BY SMTT(30), <1>1, <1>4, <1>5, <2>1, <2>2 DEF Note
  <2>4. \A n \in ToSet(notes) : n.id = note.id <=> n.key = key
    BY <1>1, <2>2, <2>3
  <2>5. /\ notes' = [k \in DOMAIN notes |-> IF k \in known THEN note ELSE notes[k]]
        /\ DOMAIN notes = 1..Len(notes) /\ Len(notes) \in Nat
    BY <1>1, <1>5, <1>8
  <2>6. notes' \in Seq(Note) /\ DOMAIN notes' = DOMAIN notes
    <3>1. \A k \in 1..Len(notes) : (IF k \in known THEN note ELSE notes[k]) \in Note
      BY <1>1, <2>3
    <3>2. QED
      BY <2>5, <3>1
  <2>7. \A k \in DOMAIN notes : notes'[k] = IF notes[k].key = key THEN note ELSE notes[k]
    BY <1>6, <2>5
  <2>8. ToSet(notes') = {n \in ToSet(notes) : n.key # key} \cup {note}
    <3>1. ToSet(notes') = {notes'[k] : k \in DOMAIN notes}
      BY <2>6 DEF ToSet
    <3>2. QED
      BY <1>1, <2>2, <2>7, <3>1
  <2>9. ToSet(notes') = {n \in ToSet(notes) : n.id # note.id} \cup {note}
    BY <2>4, <2>8
  <2>10. /\ posted' \in 0..MaxNotes /\ next_id' \in 1..posted' + 1 /\ next_id' = next_id
    BY <1>1, <1>5, <1>8
  <2>11. note.id < next_id
    <3>1. Seen(notes[i])
      BY <2>2 DEF Seen
    <3>2. QED
      BY <1>2, <2>3, <3>1
  <2>12. next_id <= next_id' /\ note.id < next_id'
    BY <1>1, <2>10, <2>11
  <2>13. \E n \in ToSet(notes) : n.id = note.id
    BY <2>2, <2>3
  <2>14. QED
    BY <1>4, <1>5, <2>3, <2>4, <2>6, <2>9, <2>10, <2>12, <2>13
<1>9. QED
  BY <1>7, <1>8

\* A post keeps the invariant.
LEMMA PostKeeps ==
    ASSUME ShadeInv, NEW key \in NoteKeys, post(key)
    PROVE  ShadeInv'
<1>1. PICK note \in Note :
              /\ note.key = key
              /\ ToSet(notes') = {n \in ToSet(notes) : n.id # note.id} \cup {note}
              /\ \A n \in ToSet(notes) : n.id = note.id <=> n.key = key
              /\ broadcast(<<PostedLine(note)>>)
              /\ notes' \in Seq(Note)
              /\ posted' \in 0..MaxNotes /\ next_id' \in 1..posted' + 1
              /\ next_id <= next_id' /\ note.id < next_id'
              /\ note.id = next_id \/ \E n \in ToSet(notes) : n.id = note.id
  BY PostFacts
<1>2. UNCHANGED <<clients, widgetVars, commands, sent, tapped>> /\ LockFree
  BY DEF post
<1>3. clients \in Seq(Widgets) /\ next_id \in Nat /\ NotesInv
  BY DEF ShadeInv, NotesTyped
<1> DEFINE line == PostedLine(note)
<1>4. line \in ShadeLines /\ <<line>> \in Seq(ShadeLines) /\ DOMAIN <<line>> = {1} /\ <<line>>[1] = line
  BY DEF PostedLine, ShadeLines, Kinds
<1> HIDE DEF line
<1>5. /\ writes' \in Seq(Writes)
      /\ \A i \in DOMAIN writes' : writes'[i].line = line
  <2>1. PICK lines : lines = <<line>>
    OBVIOUS
  <2>2. broadcast(lines) /\ lines \in Seq(ShadeLines) /\ DOMAIN lines = {1} /\ lines[1] = line
    BY <1>1, <1>4, <2>1 DEF line
  <2>3. /\ writes' \in Seq(Writes)
        /\ \A i \in DOMAIN writes' : \E j \in DOMAIN lines : writes'[i].line = lines[j]
    BY <1>3, <2>2, BroadcastFacts
  <2>4. QED
    BY <2>2, <2>3
<1>6. NotesTyped' /\ WidgetsTyped' /\ TapsInv'
  BY <1>1, <1>2, <1>5 DEF ShadeInv, NotesTyped, WidgetsTyped, TapsInv, widgetVars
<1>7. NotesInv'
  BY <1>1, <1>3 DEF NotesInv
<1>8. ASSUME NEW c \in Widgets, link'[c] = "open" PROVE c \in ToSet(clients') /\ ShowsInTheEnd(c)' = ToSet(notes')
  <2>1. link[c] = "open" /\ c \in ToSet(clients) /\ ToSet(clients') = ToSet(clients)
    BY <1>2, <1>8 DEF ShadeInv, ClientsInv, widgetVars
  <2>2. Told(c)' = Told(c) /\ Told(c) = ToSet(notes)
    BY <1>2, <2>1, FreeEnds DEF Told, widgetVars
  <2>3. ShowAll(ToSet(notes), LinesOf(writes'), Owed(writes', c))
            = {n \in ToSet(notes) : n.id # note.id} \cup {note}
    BY <1>1, <1>3, <2>1, PostedEnds
  <2>4. ShowsInTheEnd(c)' = ShowAll(Told(c)', LinesOf(writes'), Owed(writes', c))
    BY DEF ShowsInTheEnd
  <2>5. QED
    BY <1>1, <2>1, <2>2, <2>3, <2>4
<1>9. \A n : Seen(n)' => Seen(n) \/ n = note
  <2>1. line.notes = {note}
    BY DEF line, PostedLine
  <2>2. QED
    BY <1>1, <1>2, <1>5, <2>1 DEF Seen, widgetVars
<1>10. KeysInv'
  <2>1. PICK keyOf : Means(keyOf)
    BY DEF ShadeInv, KeysInv
  <2>2. PICK after : after = [keyOf EXCEPT ![note.id] = key]
    OBVIOUS
  <2>3. /\ after = [i \in 1..MaxNotes |-> after[i]] /\ after[note.id] = key
        /\ \A i \in 1..MaxNotes : i # note.id => after[i] = keyOf[i]
    BY <2>1, <2>2 DEF Means, Note
  <2>4. (\E n \in ToSet(notes) : n.id = note.id) => keyOf[note.id] = key
    BY <1>1, <2>1 DEF Means, Seen
  <2>5. ASSUME NEW n, Seen(n)' PROVE n \in Note /\ n.id < next_id' /\ after[n.id] = n.key
    <3>1. CASE n = note
      BY <1>1, <2>3, <3>1
    <3>2. CASE Seen(n)
      <4>1. n \in Note /\ n.id < next_id /\ keyOf[n.id] = n.key /\ n.id \in 1..MaxNotes
        BY <2>1, <3>2 DEF Means, Note
      <4>2. n.id < next_id'
        <5>1. next_id' \in Nat
          BY <1>1
        <5>2. QED
          BY <1>1, <1>3, <4>1, <5>1
      <4>3. CASE n.id # note.id
        BY <2>3, <4>1, <4>2, <4>3
      <4>4. CASE n.id = note.id
        <5>1. note.id # next_id
          BY <1>3, <4>1, <4>4 DEF Note
        <5>2. keyOf[note.id] = key
          BY <1>1, <2>4, <5>1
        <5>3. QED
          BY <2>3, <4>1, <4>2, <4>4, <5>2
      <4>5. QED
        BY <4>3, <4>4
    <3>3. QED
      BY <1>9, <2>5, <3>1, <3>2
  <2>6. ASSUME NEW m \in commands, NEW k \in m.key
        PROVE  m.id \in 1..MaxNotes /\ m.id < next_id' /\ after[m.id] = k
    <3>1. m.id \in 1..MaxNotes /\ m.id < next_id /\ keyOf[m.id] = k
      BY <2>1 DEF Means
    <3>2. m.id < next_id'
      BY <1>1, <1>3, <3>1
    <3>3. CASE m.id = note.id
      <4>1. note.id # next_id
        BY <1>3, <3>1, <3>3
      <4>2. keyOf[note.id] = key
        BY <1>1, <2>4, <4>1
      <4>3. QED
        BY <2>3, <3>1, <3>2, <3>3, <4>2
    <3>4. QED
      BY <2>3, <3>1, <3>2, <3>3
  <2>7. Means(after)'
    BY <1>2, <2>3, <2>5, <2>6 DEF Means
  <2>8. QED
    BY <2>7 DEF KeysInv
<1>11. QED
  BY <1>6, <1>7, <1>8, <1>10 DEF ShadeInv, ClientsInv

\* Notes withdrawn: they and no others are gone, for a client that is up to date too.
LEMMA WithdrawFacts ==
    ASSUME ShadeInv, NEW gone \in SUBSET ToSet(notes), Withdraw(gone)
    PROVE  /\ notes' \in Seq(Note) /\ ToSet(notes') = ToSet(notes) \ gone
           /\ writes' \in Seq(Writes)
           /\ \A i \in DOMAIN writes' : \E n \in ToSet(notes) : writes'[i].line = RemovedLine(n)
           /\ \A c \in ToSet(clients) :
                 ShowAll(ToSet(notes), LinesOf(writes'), Owed(writes', c)) = ToSet(notes')
<1>1. notes \in Seq(Note) /\ clients \in Seq(Widgets) /\ NotesInv
  BY DEF ShadeInv, NotesTyped
<1>2. PICK keep : keep = ToSet(notes) \ gone
  OBVIOUS
<1>3. PICK left : left = Retain(notes, keep)
  OBVIOUS
<1>4. PICK out : out = Retain(notes, gone)
  OBVIOUS
<1>5. /\ left \in Seq(Note)
      /\ \A i \in DOMAIN left : left[i] \in keep
      /\ \A j \in DOMAIN notes : notes[j] \in keep => \E i \in DOMAIN left : left[i] = notes[j]
  BY <1>1, <1>3, RetainFacts
<1>6. /\ out \in Seq(Note)
      /\ \A i \in DOMAIN out : out[i] \in gone
      /\ \A j \in DOMAIN notes : notes[j] \in gone => \E i \in DOMAIN out : out[i] = notes[j]
  BY <1>1, <1>4, RetainFacts
<1>7. ToSet(left) = keep
  BY <1>2, <1>5 DEF ToSet
<1>8. ToSet(out) = gone
  BY <1>6 DEF ToSet
<1>9. PICK lines : lines = [i \in DOMAIN out |-> RemovedLine(out[i])]
  OBVIOUS
<1>10. notes' = left /\ broadcast(lines)
  BY <1>2, <1>3, <1>4, <1>9 DEF Withdraw
<1>11. lines \in Seq(ShadeLines) /\ DOMAIN lines = DOMAIN out
  <2>1. \A n \in Note : RemovedLine(n) \in ShadeLines
    BY DEF RemovedLine, ShadeLines, Kinds
  <2>2. DOMAIN out = 1..Len(out) /\ Len(out) \in Nat /\ \A i \in 1..Len(out) : out[i] \in Note
    BY <1>6
  <2>3. \A i \in 1..Len(out) : RemovedLine(out[i]) \in ShadeLines
    BY <2>1, <2>2
  <2>4. lines = [i \in 1..Len(out) |-> RemovedLine(out[i])]
    BY <1>9, <2>2
  <2>5. QED
    BY <2>2, <2>3, <2>4
<1>12. \A j \in DOMAIN lines : lines[j] = RemovedLine(out[j]) /\ out[j] \in gone
  BY <1>6, <1>9
<1>13. \A n \in gone : \E j \in DOMAIN lines : lines[j] = RemovedLine(n)
  <2>1. ASSUME NEW n \in gone PROVE \E j \in DOMAIN lines : lines[j] = RemovedLine(n)
    <3>1. PICK j \in DOMAIN out : out[j] = n
      BY <1>8 DEF ToSet
    <3>2. QED
      BY <1>11, <1>12, <3>1
  <2>2. QED
    BY <2>1
<1>14. /\ writes' \in Seq(Writes)
       /\ \A i \in DOMAIN writes' : \E j \in DOMAIN lines : writes'[i].line = lines[j]
  BY <1>1, <1>10, <1>11, BroadcastFacts
<1>15. \A i \in DOMAIN writes' : \E n \in ToSet(notes) : writes'[i].line = RemovedLine(n)
  BY <1>12, <1>14
<1>16. ASSUME NEW c \in ToSet(clients)
       PROVE  ShowAll(ToSet(notes), LinesOf(writes'), Owed(writes', c)) = ToSet(notes')
  <2>1. \A j \in DOMAIN lines : \E n \in gone : lines[j] = RemovedLine(n)
    BY <1>12
  <2>2. ShowAll(ToSet(notes), LinesOf(writes'), Owed(writes', c))
            = {n \in ToSet(notes) : n.id \notin Ids(gone)}
    BY <1>1, <1>10, <1>11, <1>13, <2>1, RemovedEnds
  <2>3. \A n \in ToSet(notes) : n.id \in Ids(gone) <=> n \in gone
    BY <1>1 DEF NotesInv, Ids
  <2>4. ToSet(notes') = keep
    BY <1>7, <1>10
  <2>5. QED
    BY <1>2, <2>2, <2>3, <2>4
<1>17. QED
  BY <1>2, <1>5, <1>7, <1>10, <1>14, <1>15, <1>16

\* Whatever withdraws notes keeps the invariant: a call of the app, a dismissal.
LEMMA WithdrawKeeps ==
    ASSUME ShadeInv, LockFree, NEW gone \in SUBSET ToSet(notes), Withdraw(gone),
           UNCHANGED <<widgetVars, posted, tapped>>, commands' \subseteq commands
    PROVE  ShadeInv'
<1>1. /\ notes' \in Seq(Note) /\ ToSet(notes') = ToSet(notes) \ gone
      /\ writes' \in Seq(Writes)
      /\ \A i \in DOMAIN writes' : \E n \in ToSet(notes) : writes'[i].line = RemovedLine(n)
      /\ \A c \in ToSet(clients) :
            ShowAll(ToSet(notes), LinesOf(writes'), Owed(writes', c)) = ToSet(notes')
  BY WithdrawFacts
<1>2. next_id' = next_id /\ clients' = clients
  BY DEF Withdraw
<1>3. NotesTyped' /\ WidgetsTyped' /\ TapsInv'
  BY <1>1, <1>2 DEF ShadeInv, NotesTyped, WidgetsTyped, TapsInv, widgetVars
<1>4. NotesInv'
  BY <1>1 DEF ShadeInv, NotesInv
<1>5. ASSUME NEW c \in Widgets, link'[c] = "open" PROVE c \in ToSet(clients') /\ ShowsInTheEnd(c)' = ToSet(notes')
  <2>1. link[c] = "open" /\ c \in ToSet(clients) /\ ToSet(clients') = ToSet(clients)
    BY <1>2, <1>5 DEF ShadeInv, ClientsInv, widgetVars
  <2>2. Told(c)' = Told(c) /\ Told(c) = ToSet(notes)
    BY <2>1, FreeEnds DEF Told, widgetVars
  <2>3. ShowsInTheEnd(c)' = ShowAll(Told(c)', LinesOf(writes'), Owed(writes', c))
    BY DEF ShowsInTheEnd
  <2>4. QED
    BY <1>1, <2>1, <2>2, <2>3
<1>6. ASSUME NEW n, Seen(n)' PROVE Seen(n)
  <2>1. CASE n \in ToSet(notes')
    BY <1>1, <2>1 DEF Seen
  <2>2. CASE \E c \in Widgets : n \in shown'[c] \/ \E i \in DOMAIN wire'[c] : n \in wire'[c][i].notes
    BY <2>2 DEF Seen, widgetVars
  <2>3. CASE \E i \in DOMAIN writes' : n \in writes'[i].line.notes
    <3>1. \A m : RemovedLine(m).notes = {m}
      BY DEF RemovedLine
    <3>2. n \in ToSet(notes)
      BY <1>1, <2>3, <3>1
    <3>3. QED
      BY <3>2 DEF Seen
  <2>4. QED
    BY <1>6, <2>1, <2>2, <2>3 DEF Seen
<1>7. KeysInv'
  BY <1>2, <1>6, KeysKeep DEF ShadeInv
<1>8. QED
  BY <1>3, <1>4, <1>5, <1>7 DEF ShadeInv, ClientsInv

\* The first line read, then the others.
LEMMA ShowTail ==
    ASSUME NEW list, NEW q \in Seq(ShadeLines), q # <<>>
    PROVE  ShowAll(list, q, DOMAIN q) = ShowAll(Show(list, Head(q)), Tail(q), DOMAIN Tail(q))
<1>1. /\ Len(q) \in Nat /\ Len(q) > 0 /\ DOMAIN q = 1..Len(q) /\ Head(q) = q[1] /\ q[1] \in ShadeLines
      /\ DOMAIN Tail(q) = 1..(Len(q) - 1) /\ \A i \in 1..(Len(q) - 1) : Tail(q)[i] = q[i + 1]
  OBVIOUS
<1>2. PICK at : at = DOMAIN q
  OBVIOUS
<1>3. PICK to : to = DOMAIN Tail(q)
  OBVIOUS
<1>4. PICK first : first = 1
  OBVIOUS
<1>5. PICK rest : rest = at \ {first}
  OBVIOUS
<1>5a. Leads(first, at, rest)
  BY <1>1, <1>2, <1>4, <1>5 DEF Leads
<1>5b. PICK line \in ShadeLines : line = Head(q) /\ q[first] = line
  BY <1>1, <1>4
<1>6. ShowAll(list, q, at) = ShowAll(Show(list, line), q, rest)
  BY <1>5a, <1>5b, ShowFirst
<1>6a. PICK moved, start : moved = Tail(q) /\ start = Show(list, Head(q))
  OBVIOUS
<1>6b. ShowAll(list, q, at) = ShowAll(start, q, rest)
  BY <1>5b, <1>6, <1>6a
<1>7. PICK f : f = [i \in to |-> i + 1]
  OBVIOUS
<1>8. \A i \in to : f[i] \in rest /\ moved[i] = q[f[i]]
  BY <1>1, <1>2, <1>3, <1>4, <1>5, <1>6a, <1>7
<1>9. \A k \in rest : \E i \in to : f[i] = k
  <2>1. \A k \in rest : k - 1 \in to /\ (k - 1) + 1 = k
    BY <1>1, <1>2, <1>3, <1>4, <1>5
  <2>2. QED
    BY <1>7, <2>1
<1>10. \A i, j \in to : j > i <=> f[j] > f[i]
  BY <1>1, <1>3, <1>7
<1>11. ShowAll(start, moved, to) = ShowAll(start, q, rest)
  BY <1>8, <1>9, <1>10, ShowMoved
<1>12. QED
  BY <1>2, <1>3, <1>6a, <1>6b, <1>11

\* A line behind the others.
LEMMA ShowAppended ==
    ASSUME NEW list, NEW q \in Seq(ShadeLines), NEW line \in ShadeLines
    PROVE  ShowAll(list, Append(q, line), DOMAIN Append(q, line)) = Show(ShowAll(list, q, DOMAIN q), line)
<1>1. PICK more : more = Append(q, line)
  OBVIOUS
<1>2. /\ Len(q) \in Nat /\ DOMAIN q = 1..Len(q) /\ DOMAIN more = 1..(Len(q) + 1)
      /\ more[Len(q) + 1] = line /\ \A i \in 1..Len(q) : more[i] = q[i]
  BY <1>1
<1>3. PICK at : at = DOMAIN q
  OBVIOUS
<1>4. PICK last \in Nat : last = Len(q) + 1
  BY <1>2
<1>5. last \notin at /\ ~(last > last) /\ \A i \in at : last > i /\ ~(i > last)
  BY <1>2, <1>3, <1>4
<1>6. DOMAIN more = at \cup {last} /\ more[last] = line
  BY <1>2, <1>3, <1>4
<1>7. ShowAll(list, more, at \cup {last}) = Show(ShowAll(list, more, at), line)
  BY <1>5, <1>6, ShowLast
<1>8. PICK f : f = [i \in at |-> i]
  OBVIOUS
<1>9. /\ \A i \in at : f[i] \in at /\ more[i] = q[f[i]]
      /\ \A k \in at : \E i \in at : f[i] = k
      /\ \A i, j \in at : j > i <=> f[j] > f[i]
  BY <1>2, <1>3, <1>8
<1>10. ShowAll(list, more, at) = ShowAll(list, q, at)
  BY <1>9, ShowMoved
<1>11. QED
  BY <1>1, <1>3, <1>6, <1>7, <1>10

\* The lines still to be written, without the first of them.
LEMMA OwedTail ==
    ASSUME NEW ws \in Seq(Writes), ws # <<>>, NEW c \in Widgets, NEW list
    PROVE  LET first == Head(ws)
               now   == IF first.to = c THEN Show(list, first.line) ELSE list
           IN  ShowAll(list, LinesOf(ws), Owed(ws, c)) = ShowAll(now, LinesOf(Tail(ws)), Owed(Tail(ws), c))
<1>1. /\ Len(ws) \in Nat /\ Len(ws) > 0 /\ DOMAIN ws = 1..Len(ws) /\ Head(ws) = ws[1] /\ ws[1] \in Writes
      /\ DOMAIN Tail(ws) = 1..(Len(ws) - 1) /\ \A i \in 1..(Len(ws) - 1) : Tail(ws)[i] = ws[i + 1]
  OBVIOUS
<1>2. PICK at : at = Owed(ws, c)
  OBVIOUS
<1>3. PICK to : to = Owed(Tail(ws), c)
  OBVIOUS
<1>4. PICK lines : lines = LinesOf(ws)
  OBVIOUS
<1>5. PICK moved : moved = LinesOf(Tail(ws))
  OBVIOUS
<1>6. \A i : i \in at <=> i \in 1..Len(ws) /\ ws[i].to = c
  BY <1>1, <1>2 DEF Owed
<1>7. \A i : i \in to <=> i \in 1..(Len(ws) - 1) /\ Tail(ws)[i].to = c
  BY <1>1, <1>3 DEF Owed
<1>8. \A i \in 1..Len(ws) : lines[i] = ws[i].line
  BY <1>1, <1>4 DEF LinesOf
<1>9. \A i \in 1..(Len(ws) - 1) : moved[i] = Tail(ws)[i].line
  BY <1>1, <1>5 DEF LinesOf
<1>10. PICK rest : rest = at \ {1}
  OBVIOUS
<1>11. PICK f : f = [i \in to |-> i + 1]
  OBVIOUS
<1>12. ASSUME NEW i \in to PROVE i + 1 \in rest /\ moved[i] = lines[i + 1]
  <2>1. i \in 1..(Len(ws) - 1) /\ Tail(ws)[i].to = c
    BY <1>7
  <2>2. i + 1 \in 1..Len(ws) /\ i + 1 # 1
    BY <1>1, <2>1
  <2>3. Tail(ws)[i] = ws[i + 1]
    BY <1>1, <2>1
  <2>4. QED
    BY <1>6, <1>8, <1>9, <1>10, <2>1, <2>2, <2>3
<1>13. ASSUME NEW i \in rest PROVE i - 1 \in to
  <2>1. i \in 1..Len(ws) /\ i # 1 /\ ws[i].to = c
    BY <1>6, <1>10
  <2>2. PICK k \in 1..(Len(ws) - 1) : k = i - 1 /\ k + 1 = i
    BY <1>1, <2>1
  <2>3. Tail(ws)[k] = ws[i]
    BY <1>1, <2>2
  <2>4. QED
    BY <1>7, <2>1, <2>2, <2>3
<1>14. \A i \in to : f[i] \in rest /\ moved[i] = lines[f[i]]
  BY <1>11, <1>12
<1>15. \A k \in rest : \E i \in to : f[i] = k
  <2>1. \A k \in rest : (k - 1) + 1 = k
    BY <1>6, <1>10
  <2>2. QED
    BY <1>11, <1>13, <2>1
<1>16. \A l : ShowAll(l, moved, to) = ShowAll(l, lines, rest)
  <2>1. \A i, j \in to : j > i <=> f[j] > f[i]
    BY <1>1, <1>7, <1>11
  <2>2. QED
    BY <1>14, <1>15, <2>1, ShowMoved
<1>17. CASE Head(ws).to = c
  <2>1. PICK first : first = 1
    OBVIOUS
  <2>2. PICK line \in ShadeLines : line = Head(ws).line /\ lines[first] = line
    BY <1>1, <1>8, <2>1 DEF Writes
  <2>3. Leads(first, at, rest)
    BY <1>1, <1>6, <1>10, <1>17, <2>1 DEF Leads
  <2>4. ShowAll(list, lines, at) = ShowAll(Show(list, line), lines, rest)
    BY <2>2, <2>3, ShowFirst
  <2>5. PICK now : now = Show(list, Head(ws).line)
    OBVIOUS
  <2>6. ShowAll(list, lines, at) = ShowAll(now, lines, rest)
    BY <2>2, <2>4, <2>5
  <2>7. ShowAll(list, lines, at) = ShowAll(now, moved, to)
    BY <1>16, <2>6
  <2>8. QED
    BY <1>2, <1>3, <1>4, <1>5, <1>17, <2>5, <2>7
<1>18. CASE Head(ws).to # c
  <2>1. 1 \notin at
    BY <1>1, <1>6, <1>18
  <2>2. rest = at
    BY <1>10, <2>1
  <2>3. QED
    BY <1>2, <1>3, <1>4, <1>5, <1>16, <1>18, <2>2
<1>19. QED
  BY <1>17, <1>18

\* A widget that connects is sent all notes before anything changes again.
LEMMA ConnectKeeps ==
    ASSUME ShadeInv, NEW c \in Widgets, on_connect(c)
    PROVE  ShadeInv'
<1>1. /\ LockFree /\ link[c] = "absent" /\ link' = [link EXCEPT ![c] = "open"]
      /\ clients' = Append(clients, c)
      /\ UNCHANGED <<notes, next_id, wire, shown, commands, posted, sent, tapped>>
  BY DEF on_connect
<1>2. notes \in Seq(Note) /\ clients \in Seq(Widgets)
  BY DEF ShadeInv, NotesTyped
<1>3. PICK line : line = SnapshotLine(notes)
  OBVIOUS
<1>4. line \in ShadeLines /\ line.what = "snapshot" /\ line.notes = ToSet(notes)
  BY <1>2, <1>3 DEF SnapshotLine, ShadeLines, Kinds, ToSet
<1>5. PICK w : w = [to |-> c, line |-> line]
  OBVIOUS
<1>6. writes' = <<w>> /\ w \in Writes /\ w.to = c /\ w.line = line
  BY <1>3, <1>4, <1>5 DEF on_connect, Writes
<1>7. writes' \in Seq(Writes) /\ writes' # <<>> /\ Head(writes') = w /\ Tail(writes') = <<>>
  BY <1>6
<1>8. NotesTyped'
  BY <1>1, <1>2, <1>7 DEF ShadeInv, NotesTyped
<1>9. WidgetsTyped' /\ NotesInv' /\ TapsInv'
  BY <1>1 DEF ShadeInv, WidgetsTyped, NotesInv, TapsInv
<1>10. c \in ToSet(clients') /\ ToSet(clients) \subseteq ToSet(clients')
  <2>1. /\ Len(clients) \in Nat /\ DOMAIN clients = 1..Len(clients)
        /\ DOMAIN clients' = 1..(Len(clients) + 1) /\ clients'[Len(clients) + 1] = c
        /\ \A i \in 1..Len(clients) : clients'[i] = clients[i]
    BY <1>1, <1>2
  <2>2. QED
    BY <2>1 DEF ToSet
<1>11. ASSUME NEW d \in Widgets, link'[d] = "open"
       PROVE  d \in ToSet(clients') /\ ShowsInTheEnd(d)' = ToSet(notes')
  <2>1. ShowsInTheEnd(d)' = ShowAll(Told(d)', LinesOf(writes'), Owed(writes', d))
    BY DEF ShowsInTheEnd
  <2>2. PICK now : now = IF c = d THEN Show(Told(d)', line) ELSE Told(d)'
    OBVIOUS
  <2>3. ShowsInTheEnd(d)' = ShowAll(now, LinesOf(<<>>), Owed(<<>>, d))
    <3>1. PICK ws, told : ws = writes' /\ told = Told(d)'
      OBVIOUS
    <3>2. ws \in Seq(Writes) /\ ws # <<>> /\ Head(ws).to = c /\ Head(ws).line = line /\ Tail(ws) = <<>>
      BY <1>6, <1>7, <3>1
    <3>3. now = IF Head(ws).to = d THEN Show(told, Head(ws).line) ELSE told
      BY <2>2, <3>1, <3>2
    <3>4. ShowAll(told, LinesOf(ws), Owed(ws, d)) = ShowAll(now, LinesOf(Tail(ws)), Owed(Tail(ws), d))
      BY <3>2, <3>3, OwedTail
    <3>5. QED
      BY <2>1, <3>1, <3>2, <3>4
  <2>4. Owed(<<>>, d) = {}
    BY DEF Owed
  <2>5. ShowsInTheEnd(d)' = now
    BY <2>3, <2>4, ShowNone
  <2>6. CASE d = c
    <3>1. Show(Told(c)', line) = ToSet(notes)
      BY <1>4 DEF Show
    <3>2. QED
      BY <1>1, <1>10, <2>2, <2>5, <2>6, <3>1
  <2>7. CASE d # c
    <3>1. link[d] = "open"
      BY <1>1, <1>11, <2>7 DEF ShadeInv, WidgetsTyped
    <3>2. d \in ToSet(clients) /\ Told(d) = ToSet(notes)
      BY <1>1, <3>1, FreeEnds DEF ShadeInv, ClientsInv
    <3>3. Told(d)' = Told(d)
      BY <1>1 DEF Told
    <3>4. QED
      BY <1>1, <1>10, <2>2, <2>5, <2>7, <3>2, <3>3
  <2>8. QED
    BY <2>6, <2>7
<1>12. ASSUME NEW n, Seen(n)' PROVE Seen(n)
  <2>1. CASE \E i \in DOMAIN writes' : n \in writes'[i].line.notes
    <3>1. \A i \in DOMAIN writes' : writes'[i] = w
      BY <1>6
    <3>2. n \in ToSet(notes)
      BY <1>4, <1>6, <2>1, <3>1
    <3>3. QED
      BY <3>2 DEF Seen
  <2>2. QED
    BY <1>1, <1>12, <2>1 DEF Seen
<1>13. KeysInv'
  BY <1>1, <1>12, KeysKeep DEF ShadeInv
<1>14. QED
  BY <1>8, <1>9, <1>11, <1>13 DEF ShadeInv, ClientsInv

\* A line leaves the hands of the holder of the lock for the socket, where it is read
\* last; or it is dropped with the client that hung up.
LEMMA WriteKeeps ==
    ASSUME ShadeInv, WriteLine
    PROVE  ShadeInv'
<1>1. PICK ws : ws = writes
  OBVIOUS
<1>2. /\ ws \in Seq(Writes) /\ ws # <<>> /\ writes' = Tail(ws)
      /\ clients \in Seq(Widgets) /\ wire \in [Widgets -> Seq(ShadeLines)]
  BY <1>1 DEF ShadeInv, NotesTyped, WidgetsTyped, WriteLine
<1>3. PICK first : first = Head(ws)
  OBVIOUS
<1>4. /\ first \in Writes /\ Tail(ws) \in Seq(Writes) /\ Len(ws) \in Nat /\ Len(ws) > 0
      /\ DOMAIN ws = 1..Len(ws) /\ first = ws[1] /\ DOMAIN Tail(ws) = 1..(Len(ws) - 1)
      /\ \A i \in 1..(Len(ws) - 1) : Tail(ws)[i] = ws[i + 1]
  BY <1>2, <1>3
<1>5. PICK c \in Widgets : c = first.to
  BY <1>4 DEF Writes
<1>6. PICK line \in ShadeLines : line = first.line
  BY <1>4 DEF Writes
<1>7. UNCHANGED <<notes, next_id, link, shown, commands, posted, sent, tapped>>
  BY DEF WriteLine
<1>8. \/ /\ link[c] = "closed" /\ UNCHANGED wire
         /\ clients' = IF line.what = "snapshot" THEN clients ELSE Retain(clients, Widgets \ {c})
      \/ /\ link[c] # "closed" /\ UNCHANGED clients /\ Len(wire[c]) < SocketLines
         /\ wire' = [wire EXCEPT ![c] = Append(wire[c], line)]
  BY <1>1, <1>3, <1>5, <1>6 DEF WriteLine
<1>9. /\ clients' \in Seq(Widgets)
      /\ \A d \in ToSet(clients) : link[c] # "closed" \/ d # c => d \in ToSet(clients')
  <2>1. CASE clients' = clients
    BY <1>2, <2>1
  <2>2. CASE link[c] = "closed" /\ clients' = Retain(clients, Widgets \ {c})
    <3>1. PICK keep : keep = Widgets \ {c}
      OBVIOUS
    <3>2. /\ clients' \in Seq(Widgets)
          /\ \A j \in DOMAIN clients : clients[j] \in keep =>
                \E i \in DOMAIN clients' : clients'[i] = clients[j]
      <4>1. PICK left : left = Retain(clients, keep)
        OBVIOUS
      <4>2. /\ left \in Seq(Widgets)
            /\ \A j \in DOMAIN clients : clients[j] \in keep =>
                  \E i \in DOMAIN left : left[i] = clients[j]
        BY <1>2, <4>1, RetainFacts
      <4>3. QED
        BY <2>2, <3>1, <4>1, <4>2
    <3>3. ASSUME NEW d \in ToSet(clients), d # c PROVE d \in ToSet(clients')
      <4>1. PICK j \in DOMAIN clients : clients[j] = d
        BY DEF ToSet
      <4>2. clients[j] \in keep
        BY <1>2, <3>1, <3>3, <4>1
      <4>3. QED
        BY <3>2, <4>1, <4>2 DEF ToSet
    <3>4. QED
      BY <2>2, <3>2, <3>3
  <2>3. QED
    BY <1>8, <2>1, <2>2
<1>10. wire' \in [Widgets -> Seq(ShadeLines)] /\ \A d \in Widgets : Len(wire'[d]) <= SocketLines
  <2>1. wire[c] \in Seq(ShadeLines) /\ \A d \in Widgets : Len(wire[d]) <= SocketLines
    BY <1>2 DEF ShadeInv, WidgetsTyped
  <2>2. Append(wire[c], line) \in Seq(ShadeLines) /\ Len(Append(wire[c], line)) = Len(wire[c]) + 1
    BY <2>1
  <2>3. CASE UNCHANGED wire
    BY <1>2, <2>1, <2>3
  <2>4. CASE Len(wire[c]) < SocketLines /\ wire' = [wire EXCEPT ![c] = Append(wire[c], line)]
    <3>1. Len(Append(wire[c], line)) <= SocketLines
      BY <2>1, <2>2, <2>4, ShadeAssumption
    <3>2. QED
      BY <1>2, <2>1, <2>2, <2>4, <3>1
  <2>5. QED
    BY <1>8, <2>3, <2>4
<1>11. NotesTyped' /\ WidgetsTyped' /\ NotesInv' /\ TapsInv'
  BY <1>2, <1>4, <1>7, <1>9, <1>10 DEF ShadeInv, NotesTyped, WidgetsTyped, NotesInv, TapsInv
<1>12. ASSUME NEW d \in Widgets, link'[d] = "open"
       PROVE  d \in ToSet(clients') /\ ShowsInTheEnd(d)' = ToSet(notes')
  <2>1. link[d] = "open" /\ d \in ToSet(clients) /\ ShowsInTheEnd(d) = ToSet(notes)
    BY <1>7, <1>12 DEF ShadeInv, ClientsInv
  <2>2. d \in ToSet(clients')
    BY <1>9, <2>1
  <2>3. PICK now : now = IF c = d THEN Show(Told(d), line) ELSE Told(d)
    OBVIOUS
  <2>4. ShowsInTheEnd(d) = ShowAll(now, LinesOf(Tail(ws)), Owed(Tail(ws), d))
    <3>1. ShowsInTheEnd(d) = ShowAll(Told(d), LinesOf(ws), Owed(ws, d))
      BY <1>1 DEF ShowsInTheEnd
    <3>2. QED
      BY <1>2, <1>3, <1>5, <1>6, <2>3, <3>1, OwedTail
  <2>5. Told(d)' = now
    <3>1. CASE d = c
      <4>1. link[c] # "closed"
        BY <2>1, <3>1
      <4>2. wire'[c] = Append(wire[c], line) /\ wire[c] \in Seq(ShadeLines) /\ shown'[c] = shown[c]
        BY <1>2, <1>7, <1>8, <4>1
      <4>3. Told(c)' = ShowAll(shown[c], Append(wire[c], line), DOMAIN Append(wire[c], line))
        BY <4>2 DEF Told
      <4>4. Told(c)' = Show(Told(c), line)
        BY <4>2, <4>3, ShowAppended DEF Told
      <4>5. QED
        BY <2>3, <3>1, <4>4
    <3>2. CASE d # c
      <4>1. wire'[d] = wire[d] /\ shown'[d] = shown[d]
        BY <1>2, <1>7, <1>8, <3>2
      <4>2. QED
        BY <2>3, <3>2, <4>1 DEF Told
    <3>3. QED
      BY <3>1, <3>2
  <2>6. ShowsInTheEnd(d)' = ShowAll(Told(d)', LinesOf(Tail(ws)), Owed(Tail(ws), d))
    BY <1>2 DEF ShowsInTheEnd
  <2>7. QED
    BY <1>7, <2>1, <2>2, <2>4, <2>5, <2>6
<1>13. ASSUME NEW n, Seen(n)' PROVE Seen(n)
  <2>1. CASE n \in ToSet(notes')
    BY <1>7, <2>1 DEF Seen
  <2>2. CASE \E d \in Widgets : n \in shown'[d]
    BY <1>7, <2>2 DEF Seen
  <2>3. CASE \E i \in DOMAIN writes' : n \in writes'[i].line.notes
    <3>1. PICK i \in 1..(Len(ws) - 1) : n \in ws[i + 1].line.notes
      BY <1>2, <1>4, <2>3
    <3>2. i + 1 \in DOMAIN ws
      BY <1>4
    <3>3. QED
      BY <1>1, <3>1, <3>2 DEF Seen
  <2>4. CASE \E d \in Widgets : \E i \in DOMAIN wire'[d] : n \in wire'[d][i].notes
    <3>0. PICK d \in Widgets : \E i \in DOMAIN wire'[d] : n \in wire'[d][i].notes
      BY <2>4
    <3>1. PICK i \in DOMAIN wire'[d] : n \in wire'[d][i].notes
      BY <3>0
    <3>2. CASE wire'[d] = wire[d]
      BY <3>1, <3>2 DEF Seen
    <3>3. CASE d = c /\ wire'[c] = Append(wire[c], line)
      <4>1. PICK old : old = wire[c]
        OBVIOUS
      <4>2. /\ old \in Seq(ShadeLines) /\ Len(old) \in Nat /\ DOMAIN old = 1..Len(old)
            /\ DOMAIN wire'[c] = 1..(Len(old) + 1) /\ wire'[c][Len(old) + 1] = line
            /\ \A k \in 1..Len(old) : wire'[c][k] = old[k]
        BY <1>2, <3>3, <4>1
      <4>3. CASE i = Len(old) + 1
        <5>1. n \in ws[1].line.notes /\ 1 \in DOMAIN ws
          BY <1>4, <1>6, <3>1, <3>3, <4>2, <4>3
        <5>2. QED
          BY <1>1, <5>1 DEF Seen
      <4>4. CASE i # Len(old) + 1
        <5>1. i \in DOMAIN wire[c] /\ n \in wire[c][i].notes
          BY <3>1, <3>3, <4>1, <4>2, <4>4
        <5>2. QED
          BY <5>1 DEF Seen
      <4>5. QED
        BY <4>3, <4>4
    <3>4. QED
      BY <1>2, <1>8, <3>2, <3>3
  <2>5. QED
    BY <1>13, <2>1, <2>2, <2>3, <2>4 DEF Seen
<1>14. KeysInv'
  BY <1>7, <1>13, KeysKeep DEF ShadeInv
<1>15. QED
  BY <1>11, <1>12, <1>14 DEF ShadeInv, ClientsInv

\* A widget reads its first line.
LEMMA ReadKeeps ==
    ASSUME ShadeInv, NEW c \in Widgets, Read(c)
    PROVE  ShadeInv'
<1>1. /\ wire[c] # <<>>
      /\ shown' = [shown EXCEPT ![c] = Show(shown[c], Head(wire[c]))]
      /\ wire' = [wire EXCEPT ![c] = Tail(wire[c])]
      /\ UNCHANGED <<shadeVars, link, commands, posted, sent, tapped>>
  BY DEF Read
<1>2. /\ wire \in [Widgets -> Seq(ShadeLines)] /\ shown \in [Widgets -> SUBSET Note]
      /\ \A d \in Widgets : Len(wire[d]) <= SocketLines
  BY DEF ShadeInv, WidgetsTyped
<1>3. PICK old : old = wire[c]
  OBVIOUS
<1>4. PICK line : line = Head(old)
  OBVIOUS
<1>5. /\ old \in Seq(ShadeLines) /\ line \in ShadeLines /\ Tail(old) \in Seq(ShadeLines)
      /\ Len(old) \in Nat /\ Len(old) > 0 /\ DOMAIN old = 1..Len(old) /\ line = old[1]
      /\ Len(Tail(old)) = Len(old) - 1 /\ DOMAIN Tail(old) = 1..(Len(old) - 1)
      /\ \A i \in 1..(Len(old) - 1) : Tail(old)[i] = old[i + 1]
  BY <1>1, <1>2, <1>3, <1>4
<1>6. wire'[c] = Tail(old) /\ shown'[c] = Show(shown[c], line)
  BY <1>1, <1>2, <1>3, <1>4
<1>7. \A d \in Widgets : d # c => wire'[d] = wire[d] /\ shown'[d] = shown[d]
  BY <1>1, <1>2
<1>8. Show(shown[c], line) \in SUBSET Note
  <2>1. shown[c] \in SUBSET Note /\ line.notes \in SUBSET Note
    BY <1>2, <1>5 DEF ShadeLines
  <2>2. \A n \in Show(shown[c], line) : n \in shown[c] \/ n \in line.notes
    BY <1>5, ShowOne
  <2>3. QED
    BY <2>1, <2>2
<1>9. WidgetsTyped'
  <2>1. Len(Tail(old)) <= SocketLines
    BY <1>2, <1>3, <1>5, ShadeAssumption
  <2>2. wire' \in [Widgets -> Seq(ShadeLines)] /\ shown' \in [Widgets -> SUBSET Note]
    BY <1>1, <1>2, <1>3, <1>4, <1>5, <1>8
  <2>3. \A d \in Widgets : Len(wire'[d]) <= SocketLines
    BY <1>2, <1>6, <1>7, <2>1
  <2>4. QED
    BY <1>1, <2>2, <2>3 DEF ShadeInv, WidgetsTyped
<1>10. NotesTyped' /\ NotesInv' /\ TapsInv'
  BY <1>1 DEF ShadeInv, NotesTyped, NotesInv, TapsInv, shadeVars
<1>11. \A d \in Widgets : Told(d)' = Told(d)
  <2>1. Told(c) = ShowAll(shown[c], old, DOMAIN old)
    BY <1>3 DEF Told
  <2>2. PICK start : start = shown[c]
    OBVIOUS
  <2>3. ShowAll(start, old, DOMAIN old) = ShowAll(Show(start, line), Tail(old), DOMAIN Tail(old))
    BY <1>1, <1>3, <1>4, <1>5, ShowTail
  <2>4. Told(c)' = ShowAll(Show(shown[c], line), Tail(old), DOMAIN Tail(old))
    BY <1>6 DEF Told
  <2>5. Told(c)' = Told(c)
    BY <2>1, <2>2, <2>3, <2>4
  <2>6. \A d \in Widgets : d # c => Told(d)' = Told(d)
    BY <1>7 DEF Told
  <2>7. QED
    BY <2>5, <2>6
<1>12. ClientsInv'
  <2>1. \A d \in Widgets : ShowsInTheEnd(d)' = ShowsInTheEnd(d)
    BY <1>1, <1>11 DEF ShowsInTheEnd, shadeVars
  <2>2. QED
    BY <1>1, <2>1 DEF ShadeInv, ClientsInv, shadeVars
<1>13. ASSUME NEW n, Seen(n)' PROVE Seen(n)
  <2>1. CASE n \in ToSet(notes') \/ \E i \in DOMAIN writes' : n \in writes'[i].line.notes
    BY <1>1, <2>1 DEF Seen, shadeVars
  <2>2. ASSUME NEW d \in Widgets, n \in shown'[d] PROVE Seen(n)
    <3>1. CASE n \in shown[d]
      BY <3>1 DEF Seen
    <3>2. CASE d = c /\ n \in line.notes
      <4>1. 1 \in DOMAIN wire[c] /\ n \in wire[c][1].notes
        BY <1>3, <1>5, <3>2
      <4>2. QED
        BY <4>1 DEF Seen
    <3>3. n \in shown[d] \/ (d = c /\ n \in line.notes)
      BY <1>5, <1>6, <1>7, <2>2, ShowOne
    <3>4. QED
      BY <3>1, <3>2, <3>3
  <2>3. ASSUME NEW d \in Widgets, NEW i \in DOMAIN wire'[d], n \in wire'[d][i].notes PROVE Seen(n)
    <3>1. CASE d # c
      BY <1>7, <2>3, <3>1 DEF Seen
    <3>2. CASE d = c
      <4>1. i \in 1..(Len(old) - 1) /\ n \in old[i + 1].notes
        BY <1>5, <1>6, <2>3, <3>2
      <4>2. PICK k \in DOMAIN wire[c] : k = i + 1
        BY <1>3, <1>5, <4>1
      <4>3. n \in wire[c][k].notes
        BY <1>3, <4>1, <4>2
      <4>4. QED
        BY <4>3 DEF Seen
    <3>3. QED
      BY <3>1, <3>2
  <2>4. QED
    BY <1>13, <2>1, <2>2, <2>3 DEF Seen
<1>14. KeysInv'
  BY <1>1, <1>13, KeysKeep DEF ShadeInv, shadeVars
<1>15. QED
  BY <1>9, <1>10, <1>12, <1>14 DEF ShadeInv

\* What leaves the notes, the lines and the lists of the open widgets as they are.
LEMMA QuietKeeps ==
    ASSUME ShadeInv, UNCHANGED <<shadeVars, wire, shown, posted>>,
           link' \in [Widgets -> {"absent", "open", "closed"}],
           \A c \in Widgets : link'[c] = "open" => link[c] = "open",
           tapped' \subseteq NoteKeys \X NoteKeys, TapsInv', KeysInv'
    PROVE  ShadeInv'
<1>1. NotesTyped' /\ NotesInv'
  BY DEF ShadeInv, NotesTyped, NotesInv, shadeVars
<1>2. WidgetsTyped'
  BY DEF ShadeInv, WidgetsTyped
<1>3. ClientsInv'
  <2>1. \A c \in Widgets : ShowsInTheEnd(c)' = ShowsInTheEnd(c)
    BY DEF ShowsInTheEnd, Told, shadeVars
  <2>2. QED
    BY <2>1 DEF ShadeInv, ClientsInv, shadeVars
<1>4. QED
  BY <1>1, <1>2, <1>3 DEF ShadeInv

\* A widget hangs up.
LEMMA HangUpKeeps ==
    ASSUME ShadeInv, NEW c \in Widgets, HangUp(c)
    PROVE  ShadeInv'
<1>1. link' = [link EXCEPT ![c] = "closed"] /\ link \in [Widgets -> {"absent", "open", "closed"}]
  BY DEF HangUp, ShadeInv, WidgetsTyped
<1>2. UNCHANGED <<shadeVars, wire, shown, commands, posted, tapped>>
  BY DEF HangUp
<1>3. \A n : Seen(n)' => Seen(n)
  BY <1>2 DEF Seen, shadeVars
<1>4. KeysInv' /\ TapsInv' /\ tapped' \subseteq NoteKeys \X NoteKeys
  BY <1>2, <1>3, KeysKeep DEF ShadeInv, WidgetsTyped, TapsInv, shadeVars
<1>5. /\ link' \in [Widgets -> {"absent", "open", "closed"}]
      /\ \A d \in Widgets : link'[d] = "open" => link[d] = "open"
  BY <1>1
<1>6. QED
  BY <1>2, <1>4, <1>5, QuietKeeps

\* A widget asks for what it shows.
LEMMA AskKeeps ==
    ASSUME ShadeInv, NEW c \in Widgets, Ask(c)
    PROVE  ShadeInv'
<1>1. UNCHANGED <<shadeVars, widgetVars, posted, tapped>>
  BY DEF Ask
<1>2. PICK keyOf : Means(keyOf)
  BY DEF ShadeInv, KeysInv
<1>3. \A m \in commands' : m \in commands \/ m.key = {} \/ \E n \in shown[c] : m.id = n.id /\ m.key = {n.key}
  <2>1. CASE \E n \in shown[c], cmd \in {"invoke", "dismiss"} :
                 commands' = commands \cup {[cmd |-> cmd, id |-> n.id, key |-> {n.key}]}
    BY <2>1
  <2>2. CASE commands' = commands \cup {[cmd |-> "dismissAll", id |-> 0, key |-> {}]}
    BY <2>2
  <2>3. QED
    BY <2>1, <2>2 DEF Ask
<1>4. \A n : Seen(n)' <=> Seen(n)
  BY <1>1 DEF Seen, shadeVars, widgetVars
<1>5. \A n \in shown[c] : n \in Note /\ n.id < next_id /\ keyOf[n.id] = n.key
  BY <1>2 DEF Means, Seen
<1>6. ASSUME NEW m \in commands', NEW k \in m.key
      PROVE  m.id \in 1..MaxNotes /\ m.id < next_id /\ keyOf[m.id] = k
  <2>1. CASE m \in commands
    BY <1>2, <2>1 DEF Means
  <2>2. CASE m \notin commands
    <3>1. PICK n \in shown[c] : m.id = n.id /\ m.key = {n.key}
      BY <1>3, <1>6, <2>2
    <3>2. QED
      BY <1>5, <1>6, <3>1 DEF Note
  <2>3. QED
    BY <2>1, <2>2
<1>7. Means(keyOf)'
  BY <1>1, <1>2, <1>4, <1>6 DEF Means, shadeVars
<1>8. KeysInv' /\ TapsInv' /\ tapped' \subseteq NoteKeys \X NoteKeys
  BY <1>1, <1>7 DEF ShadeInv, WidgetsTyped, KeysInv, TapsInv
<1>9. link' \in [Widgets -> {"absent", "open", "closed"}] /\ link' = link
  BY <1>1 DEF ShadeInv, WidgetsTyped, widgetVars
<1>10. UNCHANGED <<shadeVars, wire, shown, posted>>
  BY <1>1 DEF widgetVars
<1>11. QED
  BY <1>8, <1>9, <1>10, QuietKeeps

\* A command is carried out: a tap opens what the note it was made for is for.
LEMMA CommandKeeps ==
    ASSUME ShadeInv, NEW m \in commands, handle_command(m)
    PROVE  ShadeInv'
<1>1. LockFree /\ commands' \subseteq commands /\ UNCHANGED <<widgetVars, posted>>
  BY DEF handle_command
<1>2. CASE invoke(m.id, m.key)
  <2>1. PICK keyOf : Means(keyOf)
    BY DEF ShadeInv, KeysInv
  <2>2. UNCHANGED shadeVars
    BY <1>2 DEF invoke
  <2>3. /\ notes \in Seq(Note) /\ \A i \in DOMAIN notes : notes[i] \in ToSet(notes) /\ notes[i] \in Note
    BY DEF ShadeInv, NotesTyped, ToSet
  <2>4. ASSUME NEW k \in m.key, NEW i \in DOMAIN notes, notes[i].id = m.id
        PROVE  k = notes[i].key /\ k \in NoteKeys
    <3>1. keyOf[m.id] = k
      BY <2>1 DEF Means
    <3>2. keyOf[notes[i].id] = notes[i].key
      BY <2>1, <2>3 DEF Means, Seen
    <3>3. notes[i].key \in NoteKeys
      BY <2>3 DEF Note
    <3>4. QED
      BY <2>4, <3>1, <3>2, <3>3
  <2>5. \A pair \in tapped' : pair \in tapped \/ \E k \in m.key, i \in DOMAIN notes :
                                notes[i].id = m.id /\ pair = <<k, notes[i].key>>
    BY <1>2 DEF invoke
  <2>6. tapped' \subseteq NoteKeys \X NoteKeys /\ TapsInv'
    <3>1. tapped \subseteq NoteKeys \X NoteKeys /\ \A pair \in tapped : pair[1] = pair[2]
      BY DEF ShadeInv, WidgetsTyped, TapsInv
    <3>2. ASSUME NEW pair \in tapped' PROVE pair \in NoteKeys \X NoteKeys /\ pair[1] = pair[2]
      <4>1. CASE pair \in tapped
        BY <3>1, <4>1
      <4>2. CASE pair \notin tapped
        <5>1. PICK k \in m.key, i \in DOMAIN notes : notes[i].id = m.id /\ pair = <<k, notes[i].key>>
          BY <2>5, <4>2
        <5>2. k = notes[i].key /\ k \in NoteKeys
          BY <2>4, <5>1
        <5>3. pair = <<k, k>>
          BY <5>1, <5>2
        <5>4. QED
          BY <5>2, <5>3
      <4>3. QED
        BY <4>1, <4>2
    <3>3. QED
      BY <3>2 DEF TapsInv
  <2>7. \A n : Seen(n)' => Seen(n)
    BY <1>1, <2>2 DEF Seen, shadeVars, widgetVars
  <2>8. KeysInv'
    BY <1>1, <2>2, <2>7, KeysKeep DEF ShadeInv, shadeVars
  <2>9. link' \in [Widgets -> {"absent", "open", "closed"}] /\ link' = link
    BY <1>1 DEF ShadeInv, WidgetsTyped, widgetVars
  <2>10. UNCHANGED <<shadeVars, wire, shown, posted>>
    BY <1>1, <2>2 DEF widgetVars
  <2>11. QED
    BY <2>6, <2>8, <2>9, <2>10, QuietKeeps
<1>3. CASE Withdraw({n \in ToSet(notes) : n.id = m.id}) /\ UNCHANGED tapped
  BY <1>1, <1>3, WithdrawKeeps
<1>4. CASE Withdraw(ToSet(notes)) /\ UNCHANGED tapped
  BY <1>1, <1>4, WithdrawKeeps
<1>5. QED
  BY <1>2, <1>3, <1>4 DEF handle_command

\* Every step of the shade keeps the invariant.
LEMMA ShadeStep ==
    ASSUME ShadeInv, [ShadeNext]_shadeAll
    PROVE  ShadeInv'
<1>1. ASSUME NEW key \in NoteKeys, post(key) PROVE ShadeInv'
  BY <1>1, PostKeeps
<1>2. ASSUME NEW keys, LockFree, Withdraw(NotesOf(keys)),
             UNCHANGED <<widgetVars, commands, posted, sent, tapped>>
      PROVE  ShadeInv'
  <2>1. PICK gone : gone = NotesOf(keys)
    OBVIOUS
  <2>2. gone \in SUBSET ToSet(notes) /\ Withdraw(gone)
    BY <1>2, <2>1 DEF NotesOf
  <2>3. QED
    BY <1>2, <2>2, WithdrawKeeps
<1>3. ASSUME NEW key \in NoteKeys, remove(key) PROVE ShadeInv'
  BY <1>2, <1>3 DEF remove
<1>4. ASSUME NEW pkg, remove_all(pkg) PROVE ShadeInv'
  BY <1>2, <1>4 DEF remove_all
<1>5. CASE UNCHANGED shadeAll
  <2>1. UNCHANGED <<shadeVars, link, wire, shown, commands, posted, tapped>>
    BY <1>5 DEF shadeAll, widgetVars
  <2>2. \A n : Seen(n)' => Seen(n)
    BY <2>1 DEF Seen, shadeVars
  <2>3. KeysInv' /\ TapsInv' /\ tapped' \subseteq NoteKeys \X NoteKeys
    BY <2>1, <2>2, KeysKeep DEF ShadeInv, WidgetsTyped, TapsInv, shadeVars
  <2>4. link' \in [Widgets -> {"absent", "open", "closed"}] /\ link' = link
    BY <2>1 DEF ShadeInv, WidgetsTyped
  <2>5. QED
    BY <2>1, <2>3, <2>4, QuietKeeps
<1>6. CASE NotificationCall
  BY <1>1, <1>3, <1>4, <1>6 DEF NotificationCall
<1>7. ASSUME NEW c \in Widgets, on_connect(c) \/ Read(c) \/ HangUp(c) \/ Ask(c) PROVE ShadeInv'
  BY <1>7, ConnectKeeps, ReadKeeps, HangUpKeeps, AskKeeps
<1>8. QED
  BY <1>5, <1>6, <1>7, WriteKeeps, CommandKeeps DEF ShadeNext

\* A widget that has read to the end has nothing left to be told.
LEMMA WidgetsAreRight == ShadeInv => WidgetsShowTheNotes
BY DEF ShadeInv, ClientsInv, TapsInv, WidgetsShowTheNotes, ShowsInTheEnd, Told

\* The shade: however late a widget reads and whenever it connects, once it has read what
\* it is sent it shows the notes of arod, and a tap opens what the tapped note was for.
THEOREM WidgetsShowTheNotesAlways == ShadeSpec => []WidgetsShowTheNotes
<1>1. ShadeInv /\ [ShadeNext]_shadeAll => ShadeInv'
  BY ShadeStep
<1>2. QED
  BY <1>1, WidgetsAreRight, ShadeInitially, PTL DEF ShadeSpec

\* The state of the shade is well formed.
THEOREM ShadeTypeOKAlways == ShadeSpec => []ShadeTypeOK
<1>1. ShadeInv /\ [ShadeNext]_shadeAll => ShadeInv'
  BY ShadeStep
<1>2. QED
  BY <1>1, ShadeInitially, ShadeTypes, PTL DEF ShadeSpec

-----------------------------------------------------------------------------
(***************************************************************************)
(* The pointer: for any set of windows the focus follows the selected      *)
(* channel, the channel is current, and gestures end.                      *)
(***************************************************************************)

(***************************************************************************)
(* The inductive invariant, in parts.                                      *)
(***************************************************************************)

\* The stack holds a window from its addition to its removal.
StackInv ==
    /\ \A w \in Windows : Open(w) => Held(w)
    /\ \A i \in DOMAIN windows : life[windows[i]] # "absent"

\* The hub selects windows that exist; it has no channel only if it was told
\* so, or if the channel it had was closed.
ChannelInv ==
    /\ windowId # None => life[windowId] # "absent"
    /\ channel \in {windowId, None}
    /\ channel = None => ~Open(windowId)

\* The flag is what the compositor thread stored last.
FocusFlagInv == step # "store" => focused = wanted

\* Where a gesture is between its events.
GestureInv ==
    /\ ~pointerDown => downLayer = None
    /\ step \in {"refresh", "again", "resend"} => action = "DOWN"
    /\ step \in {"send", "resend", "refresh", "again"} /\ action = "DOWN" => pointerDown
    /\ \A w \in Windows : life[w] = "absent" => ~touched[w]

\* A DOWN is on its way to a window that is not touched yet.
PressUnderway == step \in {"refresh", "again"} \/ (step \in {"send", "resend"} /\ action = "DOWN")

\* The end of a gesture is on its way.
Ending == step = "send" /\ Ends(action)

\* The only window that can be touched is the gesture's, or the one that is
\* about to get the gesture's end.
TouchInv ==
    /\ step \in {"send", "resend"} /\ action = "DOWN" => downLayer = channel
    /\ \A w \in Windows : Open(w) /\ touched[w] =>
          \/ Ending /\ channel = w
          \/ pointerDown /\ downLayer = w /\ ~PressUnderway /\ ~Ending

InputInv ==
    /\ StackInv
    /\ ChannelInv
    /\ FocusFlagInv
    /\ GestureInv
    /\ ~disturbed => TouchInv
    /\ FocusFollowsChannel
    /\ ChannelIsCurrent

WindowInv == TypeOK /\ InputInv

-----------------------------------------------------------------------------
(***************************************************************************)
(* The stack.                                                              *)
(***************************************************************************)

\* Removing an element closes the gap.
LEMMA RemoveFacts ==
    ASSUME NEW S, NEW s \in Seq(S), NEW i \in DOMAIN s
    PROVE  /\ RemoveAt(s, i) \in Seq(S)
           /\ Len(RemoveAt(s, i)) = Len(s) - 1
           /\ \A j \in 1 .. Len(s) - 1 :
                 RemoveAt(s, i)[j] = IF j < i THEN s[j] ELSE s[j + 1]
<1>1. i \in 1 .. Len(s) /\ Len(s) \in Nat
  OBVIOUS
<1> DEFINE front == SubSeq(s, 1, i - 1)
           back  == SubSeq(s, i + 1, Len(s))
<1>2. /\ front \in Seq(S) /\ Len(front) = i - 1
      /\ \A j \in 1 .. i - 1 : front[j] = s[j]
  BY <1>1, SubSeqProperties
<1>3. /\ back \in Seq(S) /\ Len(back) = Len(s) - i
      /\ \A j \in 1 .. Len(s) - i : back[j] = s[i + j]
  BY <1>1, SubSeqProperties
<1>4. RemoveAt(s, i) = front \o back
  BY DEF RemoveAt
<1> HIDE DEF front, back
<1>5. /\ front \o back \in Seq(S)
      /\ Len(front \o back) = Len(front) + Len(back)
      /\ \A j \in 1 .. Len(front) + Len(back) :
            (front \o back)[j] = IF j <= Len(front) THEN front[j] ELSE back[j - Len(front)]
  BY <1>2, <1>3, ConcatProperties
<1>6. Len(front) + Len(back) = Len(s) - 1
  BY <1>1, <1>2, <1>3
<1>7. ASSUME NEW j \in 1 .. Len(s) - 1
      PROVE  (front \o back)[j] = IF j < i THEN s[j] ELSE s[j + 1]
  <2>1. (front \o back)[j] = IF j <= i - 1 THEN front[j] ELSE back[j - (i - 1)]
    BY <1>2, <1>5, <1>6
  <2>2. CASE j < i
    BY <1>1, <1>2, <2>1, <2>2
  <2>3. CASE ~(j < i)
    <3>1. j - (i - 1) \in 1 .. Len(s) - i /\ i + (j - (i - 1)) = j + 1
      BY <1>1, <2>3
    <3>2. back[j - (i - 1)] = s[j + 1]
      BY <1>3, <3>1
    <3>3. ~(j <= i - 1)
      BY <1>1, <2>3
    <3>4. QED
      BY <2>1, <2>3, <3>2, <3>3
  <2>4. QED
    BY <2>2, <2>3
<1>8. QED
  BY <1>4, <1>5, <1>6, <1>7

\* The top window is one of the stack.
LEMMA TopFacts ==
    ASSUME TypeOK
    PROVE  /\ Top \in Windows \cup {None}
           /\ windows # <<>> => Top \in Windows
           /\ Top # None => Held(Top)
<1>1. windows \in Seq(Windows)
  BY DEF TypeOK
<1>2. CASE windows = <<>>
  BY <1>2 DEF Top
<1>3. CASE windows # <<>>
  <2>1. Len(windows) \in DOMAIN windows /\ windows[Len(windows)] \in Windows
    BY <1>1, <1>3
  <2>2. QED
    BY <1>3, <2>1 DEF Top, Held
<1>4. QED
  BY <1>2, <1>3

\* A window that is held is one of the windows.
LEMMA HeldFacts ==
    ASSUME TypeOK, NEW w, Held(w)
    PROVE  w \in Windows /\ w # None
BY NoneAssumption DEF Held, TypeOK

\* What select_channel does to the variables of the hub.
LEMMA SelectFacts ==
    ASSUME TypeOK, NEW w \in Windows \cup {None}, Select(w)
    PROVE  /\ channel' = w /\ windowId' = w
           /\ hasFocus' \in [Windows -> BOOLEAN]
           /\ windowId = w => hasFocus' = hasFocus
           /\ windowId # w /\ focused /\ Open(w) => hasFocus'[w]
<1>1. Open(w) => w \in Windows
  BY DEF Open
<1>2. \A v \in Windows : hasFocus[v] \in BOOLEAN /\ Open(v) \in BOOLEAN
  BY DEF TypeOK, Open
<1>3. FocusMoves(w) \in [Windows -> BOOLEAN]
  BY <1>2 DEF FocusMoves, TypeOK
<1>4. windowId # w /\ focused /\ Open(w) => FocusMoves(w)[w]
  BY <1>1, <1>2 DEF FocusMoves
<1>5. windowId = w => FocusMoves(w) = hasFocus
  BY DEF FocusMoves
<1>6. QED
  BY <1>3, <1>4, <1>5 DEF Select

-----------------------------------------------------------------------------
(***************************************************************************)
(* Type correctness.                                                       *)
(***************************************************************************)
LEMMA WindowTypeInit == Init => TypeOK
<1> SUFFICES ASSUME Init PROVE TypeOK
  OBVIOUS
<1>1. windows = <<>> /\ windows \in Seq(Windows) /\ DOMAIN windows = {}
  BY DEF Init
<1>2. QED
  BY <1>1 DEF Init, TypeOK, Actions

\* A window whose life has not begun, or is over, is not in the stack.
LEMMA AddType ==
    ASSUME TypeOK, StackInv, NEW w \in Windows, AddWindow(w)
    PROVE  TypeOK'
<1>1. \A i \in DOMAIN windows : windows[i] # w
  BY DEF AddWindow, StackInv
<1>2. windows \in Seq(Windows) /\ Len(windows) \in Nat /\ DOMAIN windows = 1 .. Len(windows)
  BY DEF TypeOK
<1>3. /\ windows' \in Seq(Windows) /\ DOMAIN windows' = 1 .. Len(windows) + 1
      /\ \A i \in 1 .. Len(windows) : windows'[i] = windows[i]
      /\ windows'[Len(windows) + 1] = w
  BY <1>2 DEF AddWindow
<1>4. \A i, j \in DOMAIN windows' : windows'[i] = windows'[j] => i = j
  BY <1>1, <1>2, <1>3 DEF TypeOK
<1>5. life' \in [Windows -> {"absent", "pushed", "shown", "closed", "removed", "gone"}]
  BY DEF AddWindow, TypeOK
<1>6. QED
  BY <1>3, <1>4, <1>5 DEF AddWindow, TypeOK, hub, compositor, gesture

\* Removing a window keeps the types.
LEMMA RemoveType ==
    ASSUME TypeOK, NEW w \in Windows, RemoveWindow(w)
    PROVE  TypeOK'
<1>1. PICK i \in DOMAIN windows : windows[i] = w /\ windows' = RemoveAt(windows, i)
  BY DEF RemoveWindow
<1>2. windows \in Seq(Windows) /\ Len(windows) \in Nat /\ DOMAIN windows = 1 .. Len(windows)
  BY DEF TypeOK
<1>3. /\ windows' \in Seq(Windows) /\ Len(windows') = Len(windows) - 1
      /\ \A j \in 1 .. Len(windows) - 1 :
            windows'[j] = IF j < i THEN windows[j] ELSE windows[j + 1]
  BY <1>1, <1>2, RemoveFacts
<1>4. ASSUME NEW j \in DOMAIN windows', NEW k \in DOMAIN windows', windows'[j] = windows'[k]
      PROVE  j = k
  <2>1. j \in 1 .. Len(windows) - 1 /\ k \in 1 .. Len(windows) - 1
    BY <1>2, <1>3
  <2> DEFINE at(n) == IF n < i THEN n ELSE n + 1
  <2>2. at(j) \in DOMAIN windows /\ at(k) \in DOMAIN windows
    BY <1>2, <2>1
  <2>3. windows[at(j)] = windows[at(k)]
    BY <1>3, <1>4, <2>1
  <2>4. at(j) = at(k)
    BY <2>2, <2>3 DEF TypeOK
  <2>5. QED
    BY <1>2, <2>1, <2>4
<1>5. life' \in [Windows -> {"absent", "pushed", "shown", "closed", "removed", "gone"}]
  BY DEF RemoveWindow, TypeOK
<1>6. QED
  BY <1>3, <1>4, <1>5 DEF RemoveWindow, TypeOK, hub, compositor, gesture

\* Every step keeps the types.
LEMMA WindowTypeStep ==
    ASSUME TypeOK, StackInv, [Next]_vars
    PROVE  TypeOK'
<1> DEFINE Lives == {"absent", "pushed", "shown", "closed", "removed", "gone"}
<1>0. /\ Top \in Windows \cup {None}
      /\ windows # <<>> => Top \in Windows
      /\ \A v \in Windows \cup {None} : Select(v) =>
            /\ channel' \in Windows \cup {None} /\ windowId' \in Windows \cup {None}
            /\ hasFocus' \in [Windows -> BOOLEAN]
  BY TopFacts, SelectFacts
<1>1. ASSUME NEW w \in Windows, AddWindow(w)
      PROVE  TypeOK'
  BY <1>1, AddType
<1>2. ASSUME NEW w \in Windows, CloseChannel(w)
      PROVE  TypeOK'
  BY <1>2 DEF CloseChannel, TypeOK, hub, compositor, gesture
<1>3. ASSUME NEW w \in Windows, RemoveWindow(w)
      PROVE  TypeOK'
  BY <1>3, RemoveType
<1>4. ASSUME NEW w \in Windows, Refresh(w)
      PROVE  TypeOK'
  <2>1. life' \in [Windows -> Lives]
    BY <1>4 DEF Refresh, TypeOK
  <2>2. pinned' \in BOOLEAN /\ disturbed' \in BOOLEAN
    BY <1>4 DEF Refresh, TypeOK
  <2>3. QED
    BY <1>0, <1>4, <2>1, <2>2 DEF Refresh, TypeOK, compositor, gesture
<1>5. CASE Press
  <2>1. CASE windows = <<>>
    BY <1>5, <2>1 DEF Press, TypeOK, app, hub, Actions
  <2>2. CASE windows # <<>>
    BY <1>0, <1>5, <2>2 DEF Press, Aim, TypeOK, app, Actions
  <2>3. QED
    BY <2>1, <2>2
<1>6. CASE RefreshForPress
  BY <1>0, <1>6 DEF RefreshForPress, TypeOK, app, gesture
<1>7. CASE PressAgain
  <2>1. CASE windows = <<>>
    BY <1>7, <2>1 DEF PressAgain, TypeOK, app, hub
  <2>2. CASE windows # <<>>
    BY <1>0, <1>7, <2>2 DEF PressAgain, Aim, TypeOK, app, Actions
  <2>3. QED
    BY <2>1, <2>2
<1>8. CASE Deliver
  <2>1. CASE Open(channel)
    <3>1. touched' \in [Windows -> BOOLEAN]
      BY <1>8, <2>1 DEF Deliver, TypeOK, Ends
    <3>2. QED
      BY <1>8, <2>1, <3>1 DEF Deliver, TypeOK, app, gesture
  <2>2. CASE ~Open(channel)
    BY <1>8, <2>2 DEF Deliver, TypeOK, app, gesture
  <2>3. QED
    BY <2>1, <2>2
<1>9. CASE Scroll
  <2>1. hasFocus' \in [Windows -> BOOLEAN]
    <3>1. \A v \in Windows : hasFocus[v] \in BOOLEAN /\ Open(v) \in BOOLEAN
      BY DEF TypeOK, Open
    <3>2. QED
      BY <1>9, <3>1 DEF Scroll, FocusMoves, TypeOK
  <2>2. QED
    BY <1>0, <1>9, <2>1 DEF Scroll, TypeOK, app, compositor, gesture
<1>10. ASSUME NEW a \in Actions \ {"DOWN"}, MoveOrEnd(a)
       PROVE  TypeOK'
  <2>1. pointerDown' \in BOOLEAN /\ downLayer' \in Windows \cup {None}
    BY <1>10 DEF MoveOrEnd, TypeOK, Ends
  <2>2. CASE downLayer # None /\ Held(downLayer) /\ Aim(downLayer, a, "send")
    <3>1. downLayer \in Windows
      BY <2>2 DEF TypeOK
    <3>2. pinned' \in BOOLEAN
      BY <2>2 DEF Aim
    <3>3. QED
      BY <1>0, <1>10, <2>1, <2>2, <3>1, <3>2 DEF MoveOrEnd, Aim, TypeOK, app
  <2>3. CASE UNCHANGED <<hub, hasFocus, pinned>> /\ step' \in {step, "send"} /\ action' \in {action, a}
    BY <1>10, <2>1, <2>3 DEF MoveOrEnd, TypeOK, app, hub
  <2>4. QED
    BY <1>10, <2>2, <2>3 DEF MoveOrEnd
<1>11. CASE KeyboardEnter
  BY <1>0, <1>11 DEF KeyboardEnter, TypeOK, app, gesture
<1>12. CASE KeyboardLeave
  BY <1>12 DEF KeyboardLeave, TypeOK, app, hub, gesture
<1>13. CASE StoreFocus
  BY <1>13 DEF StoreFocus, TypeOK, app, hub, gesture
<1>14. CASE ReportFocus
  BY <1>14 DEF ReportFocus, TypeOK, app, hub, gesture
<1>15. CASE UNCHANGED vars
  BY <1>15 DEF vars, TypeOK, app, hub, compositor, gesture
<1>16. QED
  BY <1>1, <1>2, <1>3, <1>4, <1>5, <1>6, <1>7, <1>8, <1>9, <1>10, <1>11, <1>12, <1>13, <1>14, <1>15
     DEF Next

-----------------------------------------------------------------------------
(***************************************************************************)
(* The stack and the channel.                                              *)
(***************************************************************************)
LEMMA StackStep ==
    ASSUME TypeOK, StackInv, [Next]_vars
    PROVE  StackInv'
<1>0. windows \in Seq(Windows) /\ Len(windows) \in Nat /\ DOMAIN windows = 1 .. Len(windows)
  BY DEF TypeOK
<1>1. ASSUME NEW w \in Windows, AddWindow(w)
      PROVE  StackInv'
  <2>1. /\ DOMAIN windows' = 1 .. Len(windows) + 1
        /\ \A i \in 1 .. Len(windows) : windows'[i] = windows[i]
        /\ windows'[Len(windows) + 1] = w
    BY <1>0, <1>1 DEF AddWindow
  <2>2. life'[w] = "pushed" /\ \A v \in Windows : v # w => life'[v] = life[v]
    BY <1>1 DEF AddWindow, TypeOK
  <2>3. ASSUME NEW v \in Windows, Open(v)'
        PROVE  Held(v)'
    <3>1. CASE v = w
      BY <1>0, <2>1, <3>1 DEF Held
    <3>2. CASE v # w
      <4>1. Held(v)
        BY <2>2, <2>3, <3>2 DEF Open, StackInv
      <4>2. QED
        BY <1>0, <2>1, <4>1 DEF Held
    <3>3. QED
      BY <3>1, <3>2
  <2>4. ASSUME NEW i \in DOMAIN windows'
        PROVE  life'[windows'[i]] # "absent"
    <3>1. CASE i = Len(windows) + 1
      BY <2>1, <2>2, <3>1
    <3>2. CASE i \in 1 .. Len(windows)
      <4>1. windows[i] \in Windows /\ life[windows[i]] # "absent"
        BY <1>0, <3>2 DEF StackInv
      <4>2. life'[windows[i]] # "absent"
        BY <2>2, <4>1
      <4>3. QED
        BY <2>1, <3>2, <4>2
    <3>3. QED
      BY <1>0, <2>1, <2>4, <3>1, <3>2
  <2>5. QED
    BY <2>3, <2>4 DEF StackInv
<1>2. ASSUME NEW w \in Windows, CloseChannel(w) \/ Refresh(w)
      PROVE  StackInv'
  <2>1. windows' = windows
    BY <1>2 DEF CloseChannel, Refresh
  <2>2. /\ \A v \in Windows : life'[v] \in {"pushed", "shown"} => life[v] \in {"pushed", "shown"}
        /\ \A v \in Windows : life[v] # "absent" => life'[v] # "absent"
    BY <1>2 DEF CloseChannel, Refresh, TypeOK
  <2>3. \A i \in DOMAIN windows : windows[i] \in Windows
    BY <1>0
  <2>4. QED
    BY <2>1, <2>2, <2>3 DEF StackInv, Open, Held
<1>3. ASSUME NEW w \in Windows, RemoveWindow(w)
      PROVE  StackInv'
  <2>1. PICK i \in DOMAIN windows : windows[i] = w /\ windows' = RemoveAt(windows, i)
    BY <1>3 DEF RemoveWindow
  <2>2. /\ windows' \in Seq(Windows) /\ Len(windows') = Len(windows) - 1
        /\ \A j \in 1 .. Len(windows) - 1 :
              windows'[j] = IF j < i THEN windows[j] ELSE windows[j + 1]
    BY <1>0, <2>1, RemoveFacts
  <2>3. DOMAIN windows' = 1 .. Len(windows) - 1
    BY <1>0, <2>2
  <2>4. life'[w] = "removed" /\ \A v \in Windows : v # w => life'[v] = life[v]
    BY <1>3 DEF RemoveWindow, TypeOK
  <2>5. ASSUME NEW v \in Windows, Open(v)'
        PROVE  Held(v)'
    <3>1. v # w /\ Open(v)
      BY <2>4, <2>5 DEF Open
    <3>2. PICK j \in DOMAIN windows : windows[j] = v
      BY <3>1 DEF StackInv, Held
    <3>3. CASE j < i
      <4>1. j \in DOMAIN windows' /\ windows'[j] = v
        BY <1>0, <2>2, <2>3, <3>2, <3>3
      <4>2. QED
        BY <4>1 DEF Held
    <3>4. CASE j > i
      <4>1. j - 1 \in 1 .. Len(windows) - 1 /\ ~(j - 1 < i) /\ (j - 1) + 1 = j
        BY <1>0, <3>4
      <4>2. windows'[j - 1] = windows[j]
        BY <2>2, <4>1
      <4>3. QED
        BY <2>3, <3>2, <4>1, <4>2 DEF Held
    <3>5. QED
      BY <1>0, <2>1, <3>1, <3>2, <3>3, <3>4
  <2>6. ASSUME NEW j \in DOMAIN windows'
        PROVE  life'[windows'[j]] # "absent"
    <3>1. PICK k \in DOMAIN windows : windows'[j] = windows[k]
      BY <1>0, <2>2, <2>3
    <3>2. windows[k] \in Windows /\ life[windows[k]] # "absent"
      BY <1>0 DEF StackInv
    <3>3. QED
      BY <2>4, <3>1, <3>2
  <2>7. QED
    BY <2>5, <2>6 DEF StackInv
<1>4. CASE UNCHANGED app
  BY <1>4 DEF app, StackInv, Open, Held
<1>5. QED
  BY <1>1, <1>2, <1>3, <1>4
  DEF Next, Press, RefreshForPress, PressAgain, MoveOrEnd, Deliver, Scroll, KeyboardEnter,
      KeyboardLeave, StoreFocus, ReportFocus, vars

\* The windows the code selects: the top one or one that is held.
LEMMA Selectable ==
    ASSUME TypeOK, StackInv
    PROVE  /\ \A w : Held(w) => w \in Windows /\ life[w] # "absent"
           /\ Top \in Windows \cup {None}
           /\ Top # None => life[Top] # "absent"
<1>1. \A w : Held(w) => w \in Windows /\ life[w] # "absent"
  BY HeldFacts DEF Held, StackInv
<1>2. QED
  BY <1>1, TopFacts

\* After a selection the hub is consistent, and a focused channel is told so.
LEMMA SelectedChannel ==
    ASSUME TypeOK, ChannelInv, FocusFollowsChannel,
           NEW w \in Windows \cup {None}, w # None => life[w] # "absent", Select(w),
           \A v \in Windows : /\ life'[v] \in {"pushed", "shown"} => life[v] \in {"pushed", "shown"}
                              /\ life[v] # "absent" => life'[v] # "absent"
    PROVE  /\ ChannelInv'
           /\ focused /\ step # "report" /\ Open(w) => hasFocus'[w]
<1>1. channel' = w /\ windowId' = w
  BY SelectFacts
<1>2. ChannelInv'
  BY <1>1 DEF ChannelInv, Open
<1>3. ASSUME focused, step # "report", Open(w)
      PROVE  hasFocus'[w]
  <2>1. CASE windowId # w
    BY <1>3, <2>1, SelectFacts
  <2>2. CASE windowId = w
    <3>1. channel = w
      BY <1>3, <2>2 DEF ChannelInv
    <3>2. hasFocus[w]
      BY <1>3, <3>1 DEF FocusFollowsChannel
    <3>3. QED
      BY <2>2, <3>2, SelectFacts
  <2>3. QED
    BY <2>1, <2>2
<1>4. QED
  BY <1>2, <1>3

\* A selection that leaves the flag and the report alone.
LEMMA SelectWindowStep ==
    ASSUME TypeOK, ChannelInv, FocusFollowsChannel,
           NEW w \in Windows \cup {None}, w # None => life[w] # "absent", Select(w),
           \A v \in Windows : /\ life'[v] \in {"pushed", "shown"} => life[v] \in {"pushed", "shown"}
                              /\ life[v] # "absent" => life'[v] # "absent",
           focused' = focused, step = "report" => step' = "report"
    PROVE  ChannelInv' /\ FocusFollowsChannel'
<1>1. channel' = w
  BY SelectFacts
<1>2. ChannelInv' /\ (focused /\ step # "report" /\ Open(w) => hasFocus'[w])
  BY SelectedChannel
<1>3. ASSUME focused', step' # "report", Open(channel)'
      PROVE  hasFocus'[channel']
  <2>1. w \in Windows /\ life'[w] \in {"pushed", "shown"}
    BY <1>1, <1>3 DEF Open
  <2>2. Open(w)
    BY <2>1, NoneAssumption DEF Open
  <2>3. QED
    BY <1>1, <1>2, <1>3, <2>2
<1>4. QED
  BY <1>2, <1>3 DEF FocusFollowsChannel

\* A step that selects nothing.
LEMMA KeepStep ==
    ASSUME ChannelInv, FocusFollowsChannel, UNCHANGED hub,
           windowId # None => /\ life'[windowId] \in {"pushed", "shown"} => life[windowId] \in {"pushed", "shown"}
                              /\ life[windowId] # "absent" => life'[windowId] # "absent",
           UNCHANGED <<focused, hasFocus>>, step = "report" => step' = "report"
    PROVE  ChannelInv' /\ FocusFollowsChannel'
BY DEF ChannelInv, FocusFollowsChannel, Open, hub

\* Every step keeps the channel current.
LEMMA ChannelStep ==
    ASSUME TypeOK, StackInv, ChannelInv, FocusFlagInv, FocusFollowsChannel, [Next]_vars
    PROVE  ChannelInv' /\ FocusFlagInv' /\ FocusFollowsChannel'
<1>0. /\ \A w : Held(w) => w \in Windows /\ life[w] # "absent"
      /\ Top \in Windows \cup {None}
      /\ Top # None => life[Top] # "absent"
  BY Selectable
<1>a. windowId # None => windowId \in Windows
  BY DEF TypeOK
<1>1. ASSUME NEW w \in Windows, AddWindow(w)
      PROVE  ChannelInv' /\ FocusFlagInv' /\ FocusFollowsChannel'
  <2>1. windowId # None => windowId # w /\ life'[windowId] = life[windowId]
    BY <1>a, <1>1 DEF AddWindow, ChannelInv, TypeOK
  <2>2. UNCHANGED <<hub, focused, hasFocus, step, wanted>>
    BY <1>1 DEF AddWindow, compositor
  <2>3. QED
    BY <2>1, <2>2, KeepStep DEF FocusFlagInv
<1>2. ASSUME NEW w \in Windows, CloseChannel(w) \/ RemoveWindow(w)
      PROVE  ChannelInv' /\ FocusFlagInv' /\ FocusFollowsChannel'
  <2>1. \A v \in Windows : /\ life'[v] \in {"pushed", "shown"} => life[v] \in {"pushed", "shown"}
                           /\ life[v] # "absent" => life'[v] # "absent"
    BY <1>2 DEF CloseChannel, RemoveWindow, TypeOK
  <2>2. UNCHANGED <<hub, focused, hasFocus, step, wanted>>
    BY <1>2 DEF CloseChannel, RemoveWindow, compositor
  <2>3. windowId # None =>
           /\ life'[windowId] \in {"pushed", "shown"} => life[windowId] \in {"pushed", "shown"}
           /\ life[windowId] # "absent" => life'[windowId] # "absent"
    BY <1>a, <2>1
  <2>4. ChannelInv' /\ FocusFollowsChannel'
    BY <2>2, <2>3, KeepStep
  <2>5. QED
    BY <2>2, <2>4 DEF FocusFlagInv
<1>3. ASSUME NEW w \in Windows, Refresh(w)
      PROVE  ChannelInv' /\ FocusFlagInv' /\ FocusFollowsChannel'
  <2>1. \A v \in Windows : /\ life'[v] \in {"pushed", "shown"} => life[v] \in {"pushed", "shown"}
                           /\ life[v] # "absent" => life'[v] # "absent"
    BY <1>3 DEF Refresh, TypeOK
  <2>2. Select(Top) /\ UNCHANGED <<focused, step, wanted>>
    BY <1>3 DEF Refresh, compositor
  <2>3. QED
    BY <1>0, <2>1, <2>2, SelectWindowStep DEF FocusFlagInv
<1>4. ASSUME NEW w \in Windows \cup {None}, w # None => life[w] # "absent", Select(w),
             UNCHANGED <<app, focused>>, step # "report",
             step' # "store" => step # "store" /\ wanted' = wanted
      PROVE  ChannelInv' /\ FocusFlagInv' /\ FocusFollowsChannel'
  BY <1>4, SelectWindowStep DEF FocusFlagInv, app
<1>5. ASSUME UNCHANGED <<app, hub, focused, hasFocus>>, step # "report",
             step' # "store" => step # "store" /\ wanted' = wanted
      PROVE  ChannelInv' /\ FocusFlagInv' /\ FocusFollowsChannel'
  BY <1>5, KeepStep DEF FocusFlagInv, app
<1>6. CASE Press
  <2>1. CASE windows = <<>>
    BY <1>5, <1>6, <2>1 DEF Press, hub
  <2>2. CASE windows # <<>>
    BY <1>0, <1>4, <1>6, <2>2 DEF Press, Aim
  <2>3. QED
    BY <2>1, <2>2
<1>7. CASE RefreshForPress
  BY <1>0, <1>4, <1>7 DEF RefreshForPress
<1>8. CASE PressAgain
  <2>1. CASE windows = <<>>
    BY <1>5, <1>8, <2>1 DEF PressAgain, hub
  <2>2. CASE windows # <<>>
    BY <1>0, <1>4, <1>8, <2>2 DEF PressAgain, Aim
  <2>3. QED
    BY <2>1, <2>2
<1>9. CASE Deliver
  <2>1. UNCHANGED <<app, windowId, focused, wanted, hasFocus>> /\ step \in {"send", "resend"}
        /\ step' \in {"idle", "refresh"}
    BY <1>9 DEF Deliver
  <2>2. CASE Open(channel)
    BY <1>5, <1>9, <2>1, <2>2 DEF Deliver, hub
  <2>3. CASE ~Open(channel)
    <3>1. channel' = None /\ ~Open(windowId)
      BY <1>9, <2>3 DEF Deliver, ChannelInv
    <3>2. ChannelInv'
      BY <2>1, <3>1 DEF ChannelInv, Open, app
    <3>3. FocusFollowsChannel'
      BY <3>1 DEF FocusFollowsChannel, Open
    <3>4. QED
      BY <2>1, <3>2, <3>3 DEF FocusFlagInv
  <2>4. QED
    BY <2>2, <2>3
<1>10. CASE Scroll
  <2>1. UNCHANGED <<app, focused, step, wanted>> /\ step = "idle" /\ windowId' = Top
    BY <1>10 DEF Scroll, compositor
  <2>2. CASE Open(Top)
    <3>1. Select(Top)
      BY <1>10, <2>2 DEF Scroll, Select
    <3>2. QED
      BY <1>0, <1>4, <2>1, <3>1
  <2>3. CASE ~Open(Top)
    <3>1. channel' = None
      BY <1>10, <2>3 DEF Scroll
    <3>2. ChannelInv'
      BY <1>0, <2>1, <2>3, <3>1 DEF ChannelInv, Open, app
    <3>3. FocusFollowsChannel'
      BY <3>1 DEF FocusFollowsChannel, Open
    <3>4. QED
      BY <2>1, <3>2, <3>3 DEF FocusFlagInv
  <2>4. QED
    BY <2>2, <2>3
<1>11. ASSUME NEW a \in Actions \ {"DOWN"}, MoveOrEnd(a)
       PROVE  ChannelInv' /\ FocusFlagInv' /\ FocusFollowsChannel'
  <2>1. CASE Held(downLayer) /\ Aim(downLayer, a, "send")
    BY <1>0, <1>4, <1>11, <2>1 DEF MoveOrEnd, Aim
  <2>2. CASE UNCHANGED <<hub, hasFocus>> /\ step' \in {step, "send"}
    BY <1>5, <1>11, <2>2 DEF MoveOrEnd
  <2>3. QED
    BY <1>11, <2>1, <2>2 DEF MoveOrEnd
<1>12. CASE KeyboardEnter
  BY <1>0, <1>4, <1>12 DEF KeyboardEnter
<1>13. CASE KeyboardLeave
  BY <1>5, <1>13 DEF KeyboardLeave
<1>14. CASE StoreFocus
  <2>1. UNCHANGED <<app, hub, wanted>> /\ focused' = wanted /\ step' = "report"
    BY <1>14 DEF StoreFocus
  <2>2. QED
    BY <2>1 DEF FocusFlagInv, FocusFollowsChannel, ChannelInv, Open, app, hub
<1>15. CASE ReportFocus
  <2>1. UNCHANGED <<app, hub, focused, wanted>> /\ step = "report" /\ step' = "idle" /\ focused = wanted
    BY <1>15 DEF ReportFocus, FocusFlagInv
  <2>2. Open(channel) => channel \in Windows /\ hasFocus'[channel] = wanted
    BY <1>15 DEF ReportFocus, TypeOK, Open
  <2>3. QED
    BY <2>1, <2>2 DEF FocusFlagInv, FocusFollowsChannel, ChannelInv, Open, app, hub
<1>16. CASE UNCHANGED vars
  BY <1>16 DEF vars, app, hub, compositor, ChannelInv, FocusFlagInv, FocusFollowsChannel, Open
<1>17. QED
  BY <1>1, <1>2, <1>3, <1>6, <1>7, <1>8, <1>9, <1>10, <1>11, <1>12, <1>13, <1>14, <1>15, <1>16
  DEF Next

\* The channel is that of the top window whenever no call of the app is in
\* progress, or a gesture chose it since.
LEMMA CurrentStep ==
    ASSUME TypeOK, StackInv, ChannelIsCurrent, [Next]_vars
    PROVE  ChannelIsCurrent'
<1>0. Top \in Windows \cup {None}
  BY TopFacts
<1>1. ASSUME NEW w \in Windows, AddWindow(w) \/ RemoveWindow(w)
      PROVE  ChannelIsCurrent'
  BY <1>1 DEF AddWindow, RemoveWindow, ChannelIsCurrent, TypeOK
<1>2. ASSUME NEW w \in Windows, CloseChannel(w)
      PROVE  ChannelIsCurrent'
  <2>1. UNCHANGED <<windows, windowId, pinned>>
    BY <1>2 DEF CloseChannel, hub
  <2>2. \A v \in Windows : life[v] \in {"pushed", "removed"} => life'[v] \in {"pushed", "removed"}
    BY <1>2 DEF CloseChannel, TypeOK
  <2>3. QED
    BY <2>1, <2>2 DEF ChannelIsCurrent, Top, Held
<1>3. ASSUME windowId' = Top, windows' = windows
      PROVE  ChannelIsCurrent'
  BY <1>3 DEF ChannelIsCurrent, Top
<1>4. ASSUME UNCHANGED <<app, windowId, pinned>>
      PROVE  ChannelIsCurrent'
  BY <1>4 DEF app, ChannelIsCurrent, Top, Held
<1>5. ASSUME NEW w \in Windows, Refresh(w)
      PROVE  ChannelIsCurrent'
  BY <1>3, <1>5 DEF Refresh, Select
<1>6. CASE Press
  BY <1>3, <1>4, <1>6 DEF Press, Aim, Select, app, hub
<1>7. CASE RefreshForPress \/ KeyboardEnter \/ Scroll
  BY <1>3, <1>7 DEF RefreshForPress, KeyboardEnter, Scroll, Select, app
<1>8. CASE PressAgain
  BY <1>3, <1>4, <1>8 DEF PressAgain, Aim, Select, app, hub
<1>9. CASE Deliver \/ KeyboardLeave \/ StoreFocus \/ ReportFocus \/ UNCHANGED vars
  BY <1>4, <1>9 DEF Deliver, KeyboardLeave, StoreFocus, ReportFocus, vars, hub
<1>10. ASSUME NEW a \in Actions \ {"DOWN"}, MoveOrEnd(a)
       PROVE  ChannelIsCurrent'
  <2>1. CASE Held(downLayer) /\ Aim(downLayer, a, "send")
    <3>1. windows' = windows /\ windowId' = downLayer /\ pinned' = (downLayer # Top)
      BY <1>10, <2>1 DEF MoveOrEnd, Aim, Select, app
    <3>2. QED
      BY <2>1, <3>1 DEF ChannelIsCurrent, Top, Held
  <2>2. CASE UNCHANGED <<hub, pinned>>
    BY <1>4, <1>10, <2>2 DEF MoveOrEnd, hub
  <2>3. QED
    BY <1>10, <2>1, <2>2 DEF MoveOrEnd
<1>11. QED
  BY <1>1, <1>2, <1>5, <1>6, <1>7, <1>8, <1>9, <1>10 DEF Next

-----------------------------------------------------------------------------
(***************************************************************************)
(* Gestures.                                                               *)
(***************************************************************************)
LEMMA GestureStep ==
    ASSUME TypeOK, ChannelInv, GestureInv, [Next]_vars
    PROVE  GestureInv'
<1>1. ASSUME NEW w \in Windows, AddWindow(w) \/ CloseChannel(w) \/ RemoveWindow(w) \/ Refresh(w)
      PROVE  GestureInv'
  <2>1. \A v \in Windows : life'[v] = "absent" => life[v] = "absent"
    BY <1>1 DEF AddWindow, CloseChannel, RemoveWindow, Refresh, TypeOK
  <2>2. UNCHANGED <<compositor, touched>>
    BY <1>1 DEF AddWindow, CloseChannel, RemoveWindow, Refresh
  <2>3. QED
    BY <2>1, <2>2 DEF GestureInv, compositor, gesture
<1>2. CASE Press
  BY <1>2 DEF Press, Aim, GestureInv, app
<1>3. CASE RefreshForPress
  BY <1>3 DEF RefreshForPress, GestureInv, app, gesture
<1>4. CASE PressAgain
  BY <1>4 DEF PressAgain, Aim, GestureInv, app
<1>5. CASE Deliver
  <2>1. UNCHANGED <<app, action, gesture>> /\ step' \in {"idle", "refresh"}
        /\ step \in {"send", "resend"} /\ (step' = "refresh" => action = "DOWN")
    BY <1>5 DEF Deliver
  <2>2. \A v \in Windows : life[v] = "absent" => ~touched'[v]
    <3>1. CASE Open(channel)
      BY <1>5, <3>1 DEF Deliver, Open, GestureInv, TypeOK
    <3>2. CASE ~Open(channel)
      BY <1>5, <3>2 DEF Deliver, GestureInv
    <3>3. QED
      BY <3>1, <3>2
  <2>3. QED
    BY <2>1, <2>2 DEF GestureInv, app, gesture
<1>6. CASE Scroll
  BY <1>6 DEF Scroll, GestureInv, app, compositor, gesture
<1>7. ASSUME NEW a \in Actions \ {"DOWN"}, MoveOrEnd(a)
      PROVE  GestureInv'
  BY <1>7 DEF MoveOrEnd, Aim, Ends, GestureInv, Actions, app
<1>8. CASE KeyboardEnter \/ KeyboardLeave \/ StoreFocus \/ ReportFocus
  BY <1>8 DEF KeyboardEnter, KeyboardLeave, StoreFocus, ReportFocus, GestureInv, app, gesture
<1>9. CASE UNCHANGED vars
  BY <1>9 DEF vars, app, compositor, gesture, GestureInv
<1>10. QED
  BY <1>1, <1>2, <1>3, <1>4, <1>5, <1>6, <1>7, <1>8, <1>9 DEF Next

\* A step of the app leaves the gesture where it was, unless it disturbs it.
LEMMA TouchApp ==
    ASSUME TypeOK, GestureInv, TouchInv, NEW w \in Windows,
           AddWindow(w) \/ CloseChannel(w) \/ RemoveWindow(w) \/ Refresh(w),
           step \in {"send", "resend"} => channel' = channel
    PROVE  TouchInv'
<1>1. UNCHANGED <<step, action, pointerDown, downLayer, touched>>
  BY DEF AddWindow, CloseChannel, RemoveWindow, Refresh, compositor, gesture
<1>2. \A v \in Windows : life'[v] \in {"pushed", "shown"} =>
                            life[v] \in {"pushed", "shown"} \/ life[v] = "absent"
  BY DEF AddWindow, CloseChannel, RemoveWindow, Refresh, TypeOK
<1>3. ASSUME NEW v \in Windows, Open(v)', touched'[v]
      PROVE  Open(v) /\ touched[v]
  <2>1. life[v] # "absent"
    BY <1>1, <1>3 DEF GestureInv
  <2>2. QED
    BY <1>1, <1>2, <1>3, <2>1 DEF Open
<1>4. QED
  BY <1>1, <1>3 DEF TouchInv, PressUnderway, Ending, Ends

\* The compositor's own steps do not change what is open.
LEMMA TouchStep ==
    ASSUME TypeOK, StackInv, ChannelInv, GestureInv, ~disturbed => TouchInv, [Next]_vars, ~disturbed'
    PROVE  TouchInv'
<1>0. /\ ~disturbed => TouchInv
      /\ \A v \in Windows \cup {None} : Select(v) => channel' = v
      /\ Top \in Windows \cup {None}
  BY TopFacts DEF Select
<1>1. ASSUME NEW w \in Windows, AddWindow(w) \/ CloseChannel(w) \/ RemoveWindow(w)
      PROVE  TouchInv'
  <2>1. ~disturbed /\ channel' = channel
    BY <1>1 DEF AddWindow, CloseChannel, RemoveWindow, hub
  <2>2. QED
    BY <1>0, <1>1, <2>1, TouchApp
<1>2. ASSUME NEW w \in Windows, Refresh(w)
      PROVE  TouchInv'
  <2>1. ~disturbed /\ channel' = Top /\ (step \in {"send", "resend"} => Top = channel)
    BY <1>2 DEF Refresh, Select
  <2>2. QED
    BY <1>0, <1>2, <2>1, TouchApp
<1>3. CASE Press
  <2>1. ~disturbed /\ step = "idle" /\ ~pointerDown /\ UNCHANGED <<life, touched>>
    BY <1>3 DEF Press, app
  <2>2. \A v \in Windows : Open(v) => ~touched[v]
    BY <1>0, <2>1 DEF TouchInv, Ending
  <2>3. step' \in {"send", "resend"} => downLayer' = channel'
    BY <1>3 DEF Press, Aim, Select
  <2>4. QED
    BY <2>1, <2>2, <2>3 DEF TouchInv, Open
<1>4. CASE RefreshForPress
  <2>1. ~disturbed /\ step = "refresh" /\ step' = "again" /\ UNCHANGED <<life, touched>>
    BY <1>4 DEF RefreshForPress, app
  <2>2. \A v \in Windows : Open(v) => ~touched[v]
    BY <1>0, <2>1 DEF TouchInv, Ending, PressUnderway
  <2>3. QED
    BY <2>1, <2>2 DEF TouchInv, Open
<1>5. CASE PressAgain
  <2>1. ~disturbed /\ step = "again" /\ UNCHANGED <<life, touched>>
    BY <1>5 DEF PressAgain, app
  <2>2. \A v \in Windows : Open(v) => ~touched[v]
    BY <1>0, <2>1 DEF TouchInv, Ending, PressUnderway
  <2>3. step' \in {"send", "resend"} => downLayer' = channel'
    BY <1>5 DEF PressAgain, Aim, Select
  <2>4. QED
    BY <2>1, <2>2, <2>3 DEF TouchInv, Open
<1>6. CASE Deliver
  <2>1. ~disturbed /\ step \in {"send", "resend"} /\ step' \in {"idle", "refresh"}
        /\ UNCHANGED <<life, action, pointerDown, downLayer>>
    BY <1>6 DEF Deliver, app, gesture
  <2>2. CASE Open(channel)
    <3>1. channel \in Windows /\ step' = "idle"
          /\ touched' = [touched EXCEPT ![channel] = ~Ends(action) /\ (@ \/ action = "DOWN")]
      BY <1>6, <2>2 DEF Deliver, Open, TypeOK
    <3>2. ASSUME NEW v \in Windows, Open(v)', touched'[v]
          PROVE  pointerDown /\ downLayer = v
      <4>1. Open(v)
        BY <2>1, <3>2 DEF Open
      <4>2. CASE action = "DOWN"
        <5>1. downLayer = channel /\ pointerDown
          BY <1>0, <2>1, <4>2 DEF TouchInv, GestureInv
        <5>2. ~touched[v]
          BY <1>0, <2>1, <4>1, <4>2 DEF TouchInv, PressUnderway, Ending, Ends
        <5>3. v = channel
          BY <3>1, <3>2, <5>2 DEF TypeOK
        <5>4. QED
          BY <5>1, <5>3
      <4>3. CASE action # "DOWN"
        <5>1. touched[v] /\ (v = channel => ~Ends(action))
          BY <3>1, <3>2, <4>3 DEF TypeOK
        <5>2. ~(Ending /\ channel = v)
          BY <5>1 DEF Ending
        <5>3. QED
          BY <1>0, <2>1, <4>1, <5>1, <5>2 DEF TouchInv
      <4>4. QED
        BY <4>2, <4>3
    <3>3. QED
      BY <2>1, <3>1, <3>2 DEF TouchInv, PressUnderway, Ending
  <2>3. CASE ~Open(channel)
    <3>1. UNCHANGED touched /\ (step' = "refresh" => step = "send" /\ action = "DOWN")
      BY <1>6, <2>3 DEF Deliver
    <3>2. ASSUME NEW v \in Windows, Open(v)', touched'[v]
          PROVE  pointerDown /\ downLayer = v /\ ~PressUnderway
      <4>1. Open(v) /\ touched[v] /\ v # channel
        BY <2>1, <2>3, <3>1, <3>2 DEF Open
      <4>2. QED
        BY <1>0, <2>1, <4>1 DEF TouchInv
    <3>3. QED
      BY <2>1, <3>1, <3>2 DEF TouchInv, PressUnderway, Ending
  <2>4. QED
    BY <2>2, <2>3
<1>7. CASE Scroll
  BY <1>0, <1>7 DEF Scroll, TouchInv, PressUnderway, Ending, Ends, Open, app, compositor, gesture
<1>8. ASSUME NEW a \in Actions \ {"DOWN"}, MoveOrEnd(a)
      PROVE  TouchInv'
  <2>1. ~disturbed /\ step = "idle" /\ pointerDown /\ UNCHANGED <<life, touched>>
        /\ pointerDown' = ~Ends(a) /\ downLayer' = (IF Ends(a) THEN None ELSE downLayer)
    BY <1>8 DEF MoveOrEnd, app
  <2>2. ASSUME NEW v \in Windows, Open(v)', touched'[v]
        PROVE  Open(v) /\ downLayer = v /\ v # None
    <3>1. Open(v) /\ touched[v]
      BY <2>1, <2>2 DEF Open
    <3>2. QED
      BY <1>0, <2>1, <3>1, NoneAssumption DEF TouchInv, Ending
  <2>3. CASE downLayer # None /\ Held(downLayer) /\ Aim(downLayer, a, "send")
    <3>1. step' = "send" /\ action' = a /\ channel' = downLayer /\ a # "DOWN"
      BY <2>3 DEF Aim, Select
    <3>2. QED
      BY <2>1, <2>2, <3>1 DEF TouchInv, PressUnderway, Ending
  <2>4. CASE downLayer # None /\ ~Held(downLayer) /\ UNCHANGED <<step, action>>
    <3>1. \A v \in Windows : Open(v) => v # downLayer
      BY <2>4 DEF StackInv
    <3>2. QED
      BY <2>1, <2>2, <2>4, <3>1 DEF TouchInv
  <2>5. CASE downLayer = None /\ step' = "send" /\ action' = a
    BY <2>1, <2>2, <2>5 DEF TouchInv
  <2>6. QED
    BY <1>8, <2>3, <2>4, <2>5 DEF MoveOrEnd
<1>9. CASE KeyboardEnter \/ KeyboardLeave \/ StoreFocus \/ ReportFocus
  <2>1. ~disturbed /\ UNCHANGED <<life, action, pointerDown, downLayer, touched>>
        /\ step \in {"idle", "store", "report"} /\ step' \in {"idle", "store", "report"}
    BY <1>9 DEF KeyboardEnter, KeyboardLeave, StoreFocus, ReportFocus, app, gesture
  <2>2. QED
    BY <1>0, <2>1 DEF TouchInv, PressUnderway, Ending, Ends, Open
<1>10. CASE UNCHANGED vars
  BY <1>0, <1>10 DEF vars, app, hub, compositor, gesture, TouchInv, PressUnderway, Ending, Ends, Open
<1>11. QED
  BY <1>1, <1>2, <1>3, <1>4, <1>5, <1>6, <1>7, <1>8, <1>9, <1>10 DEF Next

-----------------------------------------------------------------------------
(***************************************************************************)
(* The theorems.                                                           *)
(***************************************************************************)
LEMMA WindowInvInit == Init => WindowInv
<1> SUFFICES ASSUME Init PROVE WindowInv
  OBVIOUS
<1>1. TypeOK
  BY WindowTypeInit
<1>2. /\ windows = <<>> /\ life = [w \in Windows |-> "absent"]
      /\ channel = None /\ windowId = None /\ focused = FALSE /\ wanted = FALSE
      /\ step = "idle" /\ pointerDown = FALSE /\ downLayer = None
      /\ touched = [w \in Windows |-> FALSE]
  BY DEF Init
<1>3. DOMAIN windows = {} /\ Top = None
  BY <1>2 DEF Top
<1>4. StackInv /\ ChannelInv /\ FocusFlagInv /\ FocusFollowsChannel
  BY <1>2, <1>3 DEF StackInv, ChannelInv, FocusFlagInv, FocusFollowsChannel, Open
<1>5. GestureInv /\ TouchInv
  BY <1>2 DEF GestureInv, TouchInv
<1>6. ChannelIsCurrent
  BY <1>2, <1>3 DEF ChannelIsCurrent
<1>7. QED
  BY <1>1, <1>4, <1>5, <1>6 DEF WindowInv, InputInv

\* Every step keeps the invariant.
LEMMA WindowInvStep == WindowInv /\ [Next]_vars => WindowInv'
<1> SUFFICES ASSUME WindowInv, [Next]_vars PROVE WindowInv'
  OBVIOUS
<1>1. /\ TypeOK /\ StackInv /\ ChannelInv /\ FocusFlagInv /\ GestureInv
      /\ FocusFollowsChannel /\ ChannelIsCurrent
      /\ ~disturbed => TouchInv
  BY DEF WindowInv, InputInv
<1>2. TypeOK' /\ StackInv'
  BY <1>1, WindowTypeStep, StackStep
<1>3. ChannelInv' /\ FocusFlagInv' /\ FocusFollowsChannel'
  BY <1>1, ChannelStep
<1>4. GestureInv' /\ ChannelIsCurrent'
  BY <1>1, GestureStep, CurrentStep
<1>5. ~disturbed' => TouchInv'
  BY <1>1, TouchStep
<1>6. QED
  BY <1>2, <1>3, <1>4, <1>5 DEF WindowInv, InputInv

\* Every reachable state satisfies the inductive invariant.
THEOREM WindowInvariance == Spec => []WindowInv
BY WindowInvInit, WindowInvStep, PTL DEF Spec

\* Every reachable state has the declared types.
THEOREM WindowTypeCorrect == Spec => []TypeOK
<1>1. WindowInv => TypeOK
  BY DEF WindowInv
<1>2. QED
  BY <1>1, WindowInvariance, PTL

\* While the keyboard is on the app, the selected channel's window knows it
\* (InputHub::select_channel and set_focus).
THEOREM FocusFollowsChannelAlways == Spec => []FocusFollowsChannel
<1>1. WindowInv => FocusFollowsChannel
  BY DEF WindowInv, InputInv
<1>2. QED
  BY <1>1, WindowInvariance, PTL

\* After the app's calls the channel is that of the top window, or of one a
\* gesture chose (WindowHost::refresh_input_fd).
THEOREM ChannelIsCurrentAlways == Spec => []ChannelIsCurrent
<1>1. WindowInv => ChannelIsCurrent
  BY DEF WindowInv, InputInv
<1>2. QED
  BY <1>1, WindowInvariance, PTL

\* Between gestures nobody is about to be sent the end of one.
LEMMA GesturesEndTogether == WindowInv => GesturesEnd
<1> SUFFICES ASSUME WindowInv, step = "idle", ~pointerDown, ~disturbed,
                    NEW w \in Windows, Open(w)
             PROVE  ~touched[w]
  BY DEF GesturesEnd
<1>1. TouchInv
  BY DEF WindowInv, InputInv
<1>2. QED
  BY <1>1 DEF TouchInv, Ending

\* No window is left with a finger down after a gesture that no channel
\* switch disturbed (App::send_pointer_motion).
THEOREM GesturesEndAlways == Spec => []GesturesEnd
BY GesturesEndTogether, WindowInvariance, PTL

-----------------------------------------------------------------------------
(***************************************************************************)
(* All of them side by side, as they are checked.                          *)
(***************************************************************************)
UserInv == WindowInv /\ KeyboardInv /\ ClipInv /\ ShadeInv

\* Every step is of one of them and keeps its invariant; the others rest.
LEMMA UserStep ==
    ASSUME UserInv, [UserNext]_parts
    PROVE  UserInv'
<1>1. /\ [Next]_vars /\ [KeyboardNext]_keyboardVars
      /\ [ClipNext]_clipVars /\ [ShadeNext]_shadeAll
  BY DEF UserNext, parts
<1>2. WindowInv' /\ KeyboardInv'
  BY <1>1, WindowInvStep, KeyboardStep DEF UserInv
<1>3. ClipInv' /\ ShadeInv'
  BY <1>1, ClipTypes, ToldStep, ShadeStep DEF UserInv, ClipInv
<1>4. QED
  BY <1>2, <1>3 DEF UserInv

\* The pointer, the keyboard, the clipboard and the shade, each with its types and the
\* invariants that MCUserInput checks, for any windows, keys, listeners and widgets.
THEOREM UserInputKeepsItsInvariants ==
    UserSpec => [](/\ TypeOK /\ FocusFollowsChannel /\ ChannelIsCurrent /\ GesturesEnd
                   /\ KeyboardTypeOK /\ NoKeySticks /\ ClipTypeOK /\ ListenersKnowTheClip
                   /\ ShadeTypeOK /\ WidgetsShowTheNotes)
<1>1. UserInit => UserInv
  BY WindowInvInit, KeyboardInitially, ClipInitially, ShadeInitially DEF UserInit, UserInv
<1>2. UserInv /\ [UserNext]_parts => UserInv'
  BY UserStep
<1>3. ASSUME UserInv
      PROVE  /\ TypeOK /\ FocusFollowsChannel /\ ChannelIsCurrent /\ GesturesEnd
             /\ KeyboardTypeOK /\ NoKeySticks /\ ClipTypeOK /\ ListenersKnowTheClip
             /\ ShadeTypeOK /\ WidgetsShowTheNotes
  <2>1. TypeOK /\ FocusFollowsChannel /\ ChannelIsCurrent /\ GesturesEnd
    BY <1>3, GesturesEndTogether DEF UserInv, WindowInv, InputInv
  <2>2. KeyboardTypeOK /\ NoKeySticks
    BY <1>3 DEF UserInv, KeyboardInv
  <2>3. ClipTypeOK /\ ListenersKnowTheClip
    BY <1>3 DEF UserInv, ClipInv, ToldInv, WillTell, ListenersKnowTheClip
  <2>4. ShadeTypeOK /\ WidgetsShowTheNotes
    BY <1>3, ShadeTypes, WidgetsAreRight DEF UserInv
  <2>5. QED
    BY <2>1, <2>2, <2>3, <2>4
<1>4. QED
  BY <1>1, <1>2, <1>3, PTL DEF UserSpec
=============================================================================
