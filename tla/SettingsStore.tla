---------------------------- MODULE SettingsStore ---------------------------
(***************************************************************************)
(* The settings provider (src/crates/arod/src/services/settings.rs): one   *)
(* map per table behind a mutex, kept in settings.json.  PUT changes the   *)
(* map under the mutex, unlocks, and persists: it locks again, and writes  *)
(* the map of that moment over the file, in place.  A write that fails is  *)
(* dropped, and the PUT answers all the same.                              *)
(*                                                                         *)
(* The model follows one session of the user; the others, each with a map  *)
(* of its own, write the same file at any time.  A key stands for a table  *)
(* and a key of it.                                                        *)
(***************************************************************************)
EXTENDS Naturals, TLC

CONSTANTS
    Keys, DefaultKeys,      \* settings of the four tables; those with a default
    Values, DefaultValue,
    Clients,                \* Binder threads that answer the app
    NoValue, HalfFile,      \* no value; what a write left half done
    MaxBoots                \* bound: starts of the session

ASSUME SettingsAssumption ==
    /\ DefaultKeys \subseteq Keys /\ DefaultValue \in Values /\ NoValue \notin Values
    /\ MaxBoots \in Nat

VARIABLES
    boot,          \* the session: down, loaded (about to save), saving, up
    boots,         \* history: its starts
    settings,      \* SettingsFile of the process
    json,          \* settings.json
    client,        \* a thread: idle, put (the map is changed), write; and the key
    image,         \* the map that is being written
    last,          \* history: the value of the last PUT of a key that was answered, by
                   \* this session or the one whose file it loaded; NoValue before that,
                   \* or when another has begun since
    saved          \* history: what `last` was when the session wrote the file whole;
                   \* NoValue where the file has become another's or half a file

settingsVars == <<boot, boots, settings, json, client, image, last, saved>>

Maps == [Keys -> Values \cup {NoValue}]
Nothing == [k \in Keys |-> NoValue]
with_defaults == [k \in Keys |-> IF k \in DefaultKeys THEN DefaultValue ELSE NoValue]

SettingsTypeOK ==
    /\ boot \in {"down", "loaded", "saving", "up"} /\ boots \in 0..MaxBoots
    /\ {settings, last, saved} \subseteq Maps
    /\ json \in Maps \cup {HalfFile, NoValue}
    /\ image \in [Clients -> Maps \cup {NoValue}]
    /\ client \in [Clients -> [at : {"idle", "put", "write"}, key : Keys \cup {NoValue}]]

NoClient == [at |-> "idle", key |-> NoValue]

SettingsInit ==
    /\ boot = "down" /\ boots = 0
    /\ settings = with_defaults /\ json = NoValue
    /\ client = [c \in Clients |-> NoClient] /\ image = [c \in Clients |-> NoValue]
    /\ last = Nothing /\ saved = Nothing

\* Mutant: the map is unlocked before it is written.
WritesUnlocked == boot # "saving"

\* Only a persist holds the mutex across a step.
SettingsFree == boot # "saving" /\ \A c \in Clients : client[c].at # "write"

\* Mutant: the defaults go over what the file has.
DefaultsFirst(file) == [k \in Keys |-> IF k \in DefaultKeys THEN DefaultValue ELSE file[k]]

\* Defaults that the file has no value for are added.
Merged(file) ==
    [k \in Keys |-> IF file[k] = NoValue THEN with_defaults[k] ELSE file[k]]

\* A file that cannot be read or parsed counts as none.
SettingsLoad ==
    /\ boot = "down" /\ boots < MaxBoots
    /\ boots' = boots + 1 /\ boot' = "loaded"
    /\ \/ settings' = with_defaults /\ last' = Nothing
       \/ json \in Maps /\ settings' = Merged(json) /\ last' = saved
    /\ UNCHANGED <<json, client, image, saved>>

\* fs::write opens the file, which makes it empty.
Opened == json' = HalfFile /\ saved' = Nothing

\* The end of a write of map: it is whole, or it fails (for a full disk) or is mixed
\* with the write of another session, or it fails before it has written anything.
MapWritten(map, history) ==
    \/ json' = map /\ saved' = history
    \/ json' = HalfFile /\ saved' = Nothing
    \/ UNCHANGED <<json, saved>>

\* The map is written back; or the file cannot be opened, and stays as it was.
SettingsSave ==
    /\ \/ boot = "loaded" /\ boot' = "saving" /\ Opened
       \/ boot = "saving" /\ boot' = "up" /\ MapWritten(settings, last)
       \/ boot = "loaded" /\ boot' = "up" /\ UNCHANGED <<json, saved>>
    /\ UNCHANGED <<boots, settings, client, image, last>>

\* Another session writes its map, or begins to.
OtherSession ==
    /\ json' \in {m \in Maps : \A k \in DefaultKeys : m[k] # NoValue} \cup {HalfFile}
    /\ saved' = Nothing
    /\ UNCHANGED <<boot, boots, settings, client, image, last>>

\* The process exits or is killed.
SettingsExit ==
    /\ boot # "down" /\ boot' = "down"
    /\ settings' = with_defaults
    /\ client' = [c \in Clients |-> NoClient] /\ image' = [c \in Clients |-> NoValue]
    /\ UNCHANGED <<boots, json, last, saved>>

get(key) == settings[key]

\* PUT_<table>; a value of a type it does not know, and a table it does not have,
\* are answered the same, and nothing is done.
put(c, key, value) ==
    /\ boot = "up" /\ SettingsFree /\ client[c].at = "idle"
    /\ settings' = [settings EXCEPT ![key] = value]
    /\ client' = [client EXCEPT ![c] = [at |-> "put", key |-> key]]
    /\ last' = [last EXCEPT ![key] = NoValue]
    /\ UNCHANGED <<boot, boots, json, image, saved>>

\* What a client was told last, once its put is answered; another may have begun to
\* put the same key.
LastAfter(c) ==
    LET k == client[c].key
    IN  IF \E d \in Clients \ {c} : client[d].key = k THEN last
        ELSE [last EXCEPT ![k] = settings[k]]

\* The put is answered whatever became of its write.
Answered(c) ==
    /\ client' = [client EXCEPT ![c] = NoClient]
    /\ image' = [image EXCEPT ![c] = NoValue]
    /\ last' = LastAfter(c)

persist(c) ==
    /\ \/ /\ client[c].at = "put" /\ SettingsFree
          /\ client' = [client EXCEPT ![c].at = "write"]
          /\ image' = [image EXCEPT ![c] = settings]
          /\ Opened /\ UNCHANGED last
       \/ client[c].at = "write" /\ Answered(c) /\ MapWritten(image[c], LastAfter(c))
       \/ /\ client[c].at = "put" /\ SettingsFree
          /\ Answered(c) /\ UNCHANGED <<json, saved>>
    /\ UNCHANGED <<boot, boots, settings>>

SettingsNext ==
    \/ SettingsLoad \/ SettingsSave \/ SettingsExit \/ OtherSession
    \/ \E c \in Clients :
          persist(c) \/ \E key \in Keys, value \in Values : put(c, key, value)

-----------------------------------------------------------------------------
(* Properties.                                                             *)

\* What the app put, and was answered for, is what GET says until it is put again:
\* through puts of other keys at the same time, writes that fail and what other sessions
\* write.  A session that starts says what the one before it was told, as far as that
\* wrote it whole: through exits between any two steps and the merge of the defaults.
PutSettingsStay ==
    boot = "up" => \A k \in Keys : last[k] # NoValue => get(k) = last[k]
=============================================================================
