------------------------ MODULE MCWorkerSupervision -------------------------
(* A worker with two names (as MediaProvider has), one with a single name, *)
(* and one app, which may call the hub about any name.                     *)
EXTENDS WorkerSupervisionProofs, TLC

CONSTANTS media, audio, app, documents, provider, sound, b1

MCNames      == {provider, documents, sound}
MCWorkers    == {media, audio}
MCApps       == {app}
MCProcs      == MCWorkers \cup MCApps
MCBinders    == {b1}
MCStartOrder == <<media, audio>>
MCNamesOf    == (media :> <<provider, documents>>) @@ (audio :> <<sound>>)
MCHomeOf     == <<>>
=============================================================================
