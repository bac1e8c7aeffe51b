----------------------------- MODULE MCUserInput ----------------------------
(***************************************************************************)
(* UserInput with small sets for TLC.                                      *)
(***************************************************************************)
EXTENDS UserInput, TLC

CONSTANTS
    key_a, key_b, latin, greek, mail_, chat, mail_app, chat_app

\* A letter in both layouts, and a key that one of them leaves without a symbol.
MCSymbol == (<<latin, key_a>> :> 29) @@ (<<greek, key_a>> :> 30)
            @@ (<<latin, key_b>> :> 59) @@ (<<greek, key_b>> :> 0)

MCAppOf == (mail_ :> mail_app) @@ (chat :> chat_app)

Renaming == Permutations(Windows)
=============================================================================
