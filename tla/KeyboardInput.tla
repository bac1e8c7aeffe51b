---------------------------- MODULE KeyboardInput ---------------------------
(***************************************************************************)
(* The host's keyboard as a keyboard of the app's (src/crates/arod/src/    *)
(* keyboard.rs, the keyboard and seat handlers of compositor.rs, send_key  *)
(* of input_channel.rs).  One thread handles an event of the host and      *)
(* sends what follows from it, one message at a time, to the window whose  *)
(* channel is selected by then; Binder threads switch the channel in       *)
(* between.  A channel that is full loses the message.  WindowInput has    *)
(* the selection itself, and the races of the focus.                       *)
(*                                                                         *)
(* The windows are external: one that is told that it lost the focus       *)
(* forgets the keys it holds.                                              *)
(***************************************************************************)
EXTENDS Naturals, Sequences, SequencesExt, Functions

CONSTANTS
    Scans,        \* keys of the host's keyboard
    Layouts,      \* states of the keymap: layout and modifiers
    symbol,       \* of a layout and a key, Android's keycode, or Unmapped
    Repeating,    \* keys that the keymap repeats
    KeyWindows,   \* the app's windows
    Unmapped,
    NoKey

ASSUME KeyboardAssumption == NoKey \notin Scans /\ Unmapped \notin Layouts

VARIABLES
    holds,         \* the keys the user holds
    hostFocused,   \* the host gives the window its keyboard
    layout,        \* the keymap's state; Unmapped before the first keymap
    keyFocused,    \* Keyboard::focused
    pressed,       \* Keyboard::pressed: of each key that is down, its keycode
    repeating,     \* Keyboard::repeating, or NoKey
    repeats,       \* whether keys repeat at all
    outbox,        \* what the thread has still to send
    hubFocused,    \* InputHub::focused
    keyChannel,    \* the window whose channel is selected
    down,          \* what each window takes for down: keys and keycodes
    missed         \* history: windows that lost a message

hostVars     == <<holds, hostFocused>>
mapVars      == <<layout, repeats>>
pressVars    == <<keyFocused, pressed, repeating>>
deliverVars  == <<hubFocused, keyChannel, down, missed>>
keyboardVars == <<hostVars, mapVars, pressVars, outbox, deliverVars>>

KeyEvent(action, s, code) == [what |-> action, scan |-> s, code |-> code]
Focus(f) == [what |-> IF f THEN "focus" ELSE "blur", scan |-> NoKey, code |-> Unmapped]

Codes == {symbol[<<l, s>>] : l \in Layouts, s \in Scans}

KeyboardTypeOK ==
    /\ holds \subseteq Scans /\ hostFocused \in BOOLEAN
    /\ layout \in Layouts \cup {Unmapped} /\ repeats \in BOOLEAN
    /\ keyFocused \in BOOLEAN /\ hubFocused \in BOOLEAN
    /\ DOMAIN pressed \subseteq Scans /\ Range(pressed) \subseteq Codes \ {Unmapped}
    /\ repeating \in Scans \cup {NoKey}
    /\ keyChannel \in KeyWindows /\ missed \subseteq KeyWindows
    /\ \A w \in KeyWindows : down[w] \subseteq Scans \X Codes

KeyboardInit ==
    /\ holds = {} /\ hostFocused = FALSE
    /\ layout = Unmapped /\ repeats = FALSE
    /\ keyFocused = FALSE /\ pressed = <<>> /\ repeating = NoKey
    /\ outbox = <<>> /\ hubFocused = FALSE
    /\ keyChannel \in KeyWindows /\ down = [w \in KeyWindows |-> {}] /\ missed = {}

-----------------------------------------------------------------------------
(* The events of the host, one when the last has been dealt with.          *)

translate(s) == IF layout = Unmapped THEN Unmapped ELSE symbol[<<layout, s>>]

Dealt == outbox = <<>>

\* The keymap of the seat, and its modifiers.
Modifiers(l) ==
    /\ Dealt /\ layout' = l
    /\ UNCHANGED <<hostVars, repeats, pressVars, outbox, deliverVars>>

repeat_info(on) ==
    /\ Dealt /\ repeats' = on
    /\ repeating' = IF on THEN repeating ELSE NoKey
    /\ UNCHANGED <<hostVars, layout, keyFocused, pressed, outbox, deliverVars>>

\* Keys that are held by then are no presses.
Enter ==
    /\ Dealt /\ ~hostFocused /\ hostFocused' = TRUE
    /\ keyFocused' = TRUE
    /\ outbox' = <<Focus(TRUE)>>
    /\ UNCHANGED <<holds, mapVars, pressed, repeating, deliverVars>>

\* Mutant: leave forgets the keys and releases none.
NoReleases == <<>>

\* leave() takes the pressed keys, and each is released.
Releases ==
    [i \in 1..Cardinality(DOMAIN pressed) |->
        LET s == SetToSeq(DOMAIN pressed)[i] IN KeyEvent("up", s, pressed[s])]

\* The host takes the keyboard away, or the seat has none any more.
Leave ==
    /\ Dealt /\ hostFocused /\ hostFocused' = FALSE
    /\ keyFocused' = FALSE /\ repeating' = NoKey /\ pressed' = <<>>
    /\ outbox' = Append(Releases, Focus(FALSE))
    /\ UNCHANGED <<holds, mapVars, deliverVars>>

\* A key is a press when the keymap's state has a keycode for it.
HasCode(s) == translate(s) # Unmapped

KeyDown(s) ==
    /\ s \notin holds /\ holds' = holds \cup {s}
    /\ IF hostFocused /\ keyFocused /\ HasCode(s)
       THEN /\ Dealt
            /\ pressed' = [t \in DOMAIN pressed \cup {s} |->
                             IF t = s THEN translate(s) ELSE pressed[t]]
            /\ repeating' = IF s \in Repeating /\ repeats THEN s ELSE repeating
            /\ outbox' = <<KeyEvent("down", s, translate(s))>>
       ELSE UNCHANGED <<pressed, repeating, outbox>>
    /\ UNCHANGED <<hostFocused, mapVars, keyFocused, deliverVars>>

\* The release has the keycode of the press, whatever the keymap's state is by now.
KeyUp(s) ==
    /\ s \in holds /\ holds' = holds \ {s}
    /\ IF hostFocused /\ s \in DOMAIN pressed
       THEN /\ Dealt
            /\ pressed' = Restrict(pressed, DOMAIN pressed \ {s})
            /\ repeating' = IF repeating = s THEN NoKey ELSE repeating
            /\ outbox' = <<KeyEvent("up", s, pressed[s])>>
       ELSE UNCHANGED <<pressed, repeating, outbox>>
    /\ UNCHANGED <<hostFocused, mapVars, keyFocused, deliverVars>>

\* A key repeats under the keycode of its press, and only while it has a symbol.
repeat ==
    /\ Dealt /\ repeating # NoKey
    /\ HasCode(repeating) /\ repeating \in DOMAIN pressed
    /\ outbox' = <<KeyEvent("down", repeating, pressed[repeating])>>
    /\ UNCHANGED <<hostVars, mapVars, pressVars, deliverVars>>

-----------------------------------------------------------------------------
(* What is sent.                                                           *)

\* What window w takes for down after an event.
Hears(w, e) ==
    CASE e.what = "down" -> down[w] \cup {<<e.scan, e.code>>}
      [] e.what = "up"   -> down[w] \ {<<e.scan, e.code>>}
      [] OTHER           -> {}

SendTo(w, e) ==
    \/ down' = [down EXCEPT ![w] = Hears(w, e)] /\ UNCHANGED missed
    \/ missed' = missed \cup {w} /\ UNCHANGED down

\* send_key, and set_focus, which stores the flag first.
SendNext ==
    /\ outbox # <<>> /\ outbox' = Tail(outbox)
    /\ SendTo(keyChannel, Head(outbox))
    /\ hubFocused' = CASE Head(outbox).what = "focus" -> TRUE
                       [] Head(outbox).what = "blur"  -> FALSE
                       [] OTHER                       -> hubFocused
    /\ UNCHANGED <<hostVars, mapVars, pressVars, keyChannel>>

\* select_channel: the focus goes along, and the old window forgets its keys.
SelectChannel(w) ==
    /\ w # keyChannel /\ keyChannel' = w
    /\ IF hubFocused THEN SendTo(keyChannel, Focus(FALSE)) ELSE UNCHANGED <<down, missed>>
    /\ UNCHANGED <<hostVars, mapVars, pressVars, outbox, hubFocused>>

KeyboardNext ==
    \/ \E l \in Layouts : Modifiers(l)
    \/ \E on \in BOOLEAN : repeat_info(on)
    \/ Enter \/ Leave \/ repeat \/ SendNext
    \/ \E s \in Scans : KeyDown(s) \/ KeyUp(s)
    \/ \E w \in KeyWindows : SelectChannel(w)

-----------------------------------------------------------------------------
(* Properties.                                                             *)

\* A key that a window takes for down, under the keycode it was told, is held by the
\* user and the window has the keyboard, or its release is on its way: no key sticks,
\* and none repeats for ever, whatever the layout, the focus and the channel do while
\* it is down.  Windows that lost a message to a full channel are left out.
NoKeySticks ==
    /\ \A w \in KeyWindows \ missed : \A k \in down[w] :
          /\ w = keyChannel
          /\ \/ k[1] \in DOMAIN pressed /\ pressed[k[1]] = k[2]
             \/ \E i \in DOMAIN outbox : outbox[i] = KeyEvent("up", k[1], k[2])
    /\ DOMAIN pressed \subseteq (IF keyFocused THEN holds ELSE {})
    /\ repeating \in DOMAIN pressed \cup {NoKey}
=============================================================================
