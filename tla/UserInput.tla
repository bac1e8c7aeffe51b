------------------------------ MODULE UserInput -----------------------------
(***************************************************************************)
(* What the user does, side by side: pointer and focus, keys, the          *)
(* clipboard, and the shade of notifications.  They share no state; a      *)
(* behaviour is of one of them, its subject, and the others stay as they   *)
(* started.                                                                *)
(***************************************************************************)
EXTENDS WindowInput, KeyboardInput, Clipboard, Shade

VARIABLE subject

parts == <<subject, vars, keyboardVars, clipVars, shadeAll>>

UserInit ==
    /\ subject \in {"windows", "keyboard", "clipboard", "shade"}
    /\ Init /\ KeyboardInit /\ ClipInit /\ ShadeInit
    /\ subject # "keyboard" => keyChannel = CHOOSE w \in KeyWindows : TRUE

UserNext ==
    /\ UNCHANGED subject
    /\ \/ subject = "windows" /\ Next /\ UNCHANGED <<keyboardVars, clipVars, shadeAll>>
       \/ subject = "keyboard" /\ KeyboardNext /\ UNCHANGED <<vars, clipVars, shadeAll>>
       \/ subject = "clipboard" /\ ClipNext /\ UNCHANGED <<vars, keyboardVars, shadeAll>>
       \/ subject = "shade" /\ ShadeNext /\ UNCHANGED <<vars, keyboardVars, clipVars>>

UserSpec == UserInit /\ [][UserNext]_parts
=============================================================================
