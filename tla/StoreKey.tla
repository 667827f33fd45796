------------------------------- MODULE StoreKey -------------------------------
(***************************************************************************)
(* The master key of one machine and the store encrypted with it.  Every   *)
(* group of events has a data key, stored wrapped under the master key.    *)
(* Writers open the store (the first one creates the key) and keep the     *)
(* key they loaded; meanwhile a user exports the key, imports one, or      *)
(* moves the store to another one (`key-import --rekey`), and any of these *)
(* processes may die between two of its steps.                             *)
(*                                                                         *)
(* A data key is known here by the master key that opens it.               *)
(***************************************************************************)
EXTENDS Integers, FiniteSets, Sequences

CONSTANTS
  Key,              \* master keys
  Shared,           \* those that come in a file from another machine
  Group,            \* groups of events with a data key of their own
  Writer,           \* processes that open the store to write
  Media,            \* where KeySource may keep the key: "file", "keychain"
  None, Torn,       \* no key; a key file whose writing was cut short
  MaxGoals, MaxCrashes   \* bounds of the model

ASSUME StoreKeyAssumption ==
  /\ Shared \subseteq Key /\ IsFiniteSet(Key)
  /\ Media \subseteq {"file", "keychain"}
  /\ {None, Torn} \cap Key = {} /\ None # Torn
  /\ None \notin Group
  /\ MaxGoals \in Nat /\ MaxCrashes \in Nat

VARIABLES
  medium,    \* where this machine keeps it
  main,      \* what the source of the machine's key holds
  fresh,     \* the file `.new` beside it, when the source is a file
  backups,   \* keys set aside by rekey, each in a slot of its own
  recorded,  \* store_meta rekey_previous_key: the key in the slot it names
  wrapped,   \* wrapped[g]: the master key that opens the data key of g
  sample,    \* the group of the first row, which validate_cipher decodes
  present,   \* the store is there, with its tables and encryption_version
  writer,    \* writer[w]: an open in progress, or a store held open
  files,     \* key files the user can give as --from
  import,    \* a key-import in progress
  rekey,     \* a key-import --rekey in progress
  lost,      \* history: keys written over in the keychain
  goals,     \* the keys the user asked the store to be moved to
  made,      \* keys generated on this machine
  crashes    \* (bound)

source == <<medium, main, fresh, backups, lost>>
db == <<recorded, wrapped, sample, present>>
vars == <<medium, lost, main, fresh, backups, recorded, wrapped, sample, present, writer,
          files, import, rekey, goals, made, crashes>>

-----------------------------------------------------------------------------
Idle == [step |-> "idle", key |-> None]
Stopped == [step |-> "idle", old |-> None, new |-> None]
Own == Key \ Shared

DataKeys == {g \in Group : wrapped[g] # None}
HasRows == sample # None

(* validate_cipher, with key k.                                            *)
Opens(k) == HasRows => wrapped[sample] = k

CanInstall_Overwrite == TRUE

(* create_private_file never writes over a file; set_password does.        *)
CanInstall == medium = "keychain" \/ main = None

WrittenOver(k) == IF medium = "keychain" /\ main \notin {None, k} THEN {main} ELSE {}

-----------------------------------------------------------------------------
(* TotalStore::open.  Whether the store has encrypted rows is looked at    *)
(* first, the key is loaded next, created when there is none.              *)
BeginOpen(w) ==
  /\ writer[w].step = "idle"
  /\ writer' = [writer EXCEPT ![w].step = IF HasRows THEN "load" ELSE "loadOrCreate"]
  /\ UNCHANGED <<source, db, files, import, rekey, goals, made, crashes>>

LoadKey(w) ==
  /\ writer[w].step \in {"load", "loadOrCreate"}
  /\ writer' = [writer EXCEPT ![w] =
       CASE main \in Key -> [step |-> "loaded", key |-> main]
         [] main = None /\ @.step = "loadOrCreate" -> [step |-> "create", key |-> None]
         [] OTHER -> Idle]
  /\ UNCHANGED <<source, db, files, import, rekey, goals, made, crashes>>

CreateKey(w) ==
  /\ writer[w].step = "create"
  /\ \E k \in Own \ made :
       /\ made' = made \union {k}
       /\ IF CanInstall
          THEN /\ main' = k /\ lost' = lost \union WrittenOver(k)
               /\ writer' = [writer EXCEPT ![w] = [step |-> "loaded", key |-> k]]
          ELSE writer' = [writer EXCEPT ![w] = Idle] /\ UNCHANGED <<main, lost>>
  /\ UNCHANGED <<medium, fresh, backups, db, files, import, rekey, goals, crashes>>

ValidateKey(w) ==
  /\ writer[w].step = "loaded"
  /\ writer' = [writer EXCEPT ![w] = IF Opens(@.key) THEN [@ EXCEPT !.step = "open"] ELSE Idle]
  /\ present' = TRUE
  /\ UNCHANGED <<source, recorded, wrapped, sample, files, import, rekey, goals, made, crashes>>

-----------------------------------------------------------------------------
(* A batch of group g: its data key is opened, or generated and wrapped,   *)
(* with the key the writer loaded when it opened the store.                *)
Ingest(w, g) ==
  /\ writer[w].step = "open"
  /\ wrapped[g] \in {None, writer[w].key}
  /\ wrapped' = [wrapped EXCEPT ![g] = writer[w].key]
  /\ sample' = IF HasRows THEN sample ELSE g
  /\ UNCHANGED <<source, recorded, present, writer, files, import, rekey, goals, made, crashes>>

(* An erasure of all of g destroys its data key in the same transaction.   *)
Erase(g) ==
  /\ wrapped[g] # None
  /\ wrapped' = [wrapped EXCEPT ![g] = None]
  /\ sample' \in IF sample # g THEN {sample}
                 ELSE IF DataKeys = {g} THEN {None} ELSE DataKeys \ {g}
  /\ UNCHANGED <<source, recorded, present, writer, files, import, rekey, goals, made, crashes>>

Quit(w) ==
  /\ writer[w].step # "idle"
  /\ writer' = [writer EXCEPT ![w] = Idle]
  /\ UNCHANGED <<source, db, files, import, rekey, goals, made, crashes>>

-----------------------------------------------------------------------------
Export ==
  /\ main \in Key \ files
  /\ files' = files \union {main}
  /\ UNCHANGED <<source, db, writer, import, rekey, goals, made, crashes>>

(* key-import: refused when there is a key, and when the key does not open *)
(* the store that is there.                                                *)
BeginImport(k) ==
  /\ import.step = "idle" /\ k \in files
  /\ main = None /\ Opens(k)
  /\ import' = [step |-> "install", key |-> k]
  /\ UNCHANGED <<source, db, writer, files, rekey, goals, made, crashes>>

InstallImported ==
  /\ import.step = "install"
  /\ IF CanInstall THEN main' = import.key /\ lost' = lost \union WrittenOver(import.key)
                   ELSE UNCHANGED <<main, lost>>
  /\ import' = Idle
  /\ UNCHANGED <<medium, fresh, backups, db, writer, files, rekey, goals, made, crashes>>

-----------------------------------------------------------------------------
(* key-import --rekey.  Nothing can tell that a writer has the store open  *)
(* (held_open_elsewhere, on Linux and macOS).                              *)
BeginRekey(k) ==
  /\ rekey.step = "idle" /\ k \in files
  /\ k \in goals \/ Cardinality(goals) < MaxGoals
  /\ main \in Key /\ present
  /\ goals' = goals \union {k}
  /\ rekey' = IF main = k THEN [step |-> "heal", old |-> recorded, new |-> k]
                          ELSE [step |-> "backup", old |-> main, new |-> k]
  /\ UNCHANGED <<source, db, writer, files, import, made, crashes>>

BackUp ==
  /\ rekey.step = "backup"
  /\ backups' = backups \union {rekey.old}
  /\ rekey' = [rekey EXCEPT !.step = "rewrap"]
  /\ UNCHANGED <<medium, main, fresh, lost, db, writer, files, import, goals, made, crashes>>

Openable_OldOnly(g) == wrapped[g] = rekey.old

Openable(g) == wrapped[g] \in {rekey.old, rekey.new}

Noted_Never == recorded

(* The tx records where the backup is, unless it heals.                    *)
Noted == IF rekey.step = "heal" THEN recorded ELSE rekey.old

(* rewrap_data_keys: all of them and the place of the backup, or nothing.  *)
Rewrap ==
  /\ rekey.step \in {"heal", "rewrap"}
  /\ IF \A g \in DataKeys : Openable(g)
     THEN /\ wrapped' = [g \in Group |-> IF g \in DataKeys THEN rekey.new ELSE None]
          /\ recorded' = Noted
          /\ rekey' = IF rekey.step = "heal" THEN Stopped ELSE [rekey EXCEPT !.step = "replace"]
     ELSE UNCHANGED <<wrapped, recorded>> /\ rekey' = Stopped
  /\ UNCHANGED <<source, sample, present, writer, files, import, goals, made, crashes>>

(* KeySource::replace: at once in a keychain; through `.new` beside a file, *)
(* which must not be there.                                                *)
Replace ==
  /\ rekey.step = "replace"
  /\ \/ /\ medium = "keychain"
        /\ main' = rekey.new /\ lost' = lost \union (WrittenOver(rekey.new) \ {rekey.old})
        /\ rekey' = Stopped /\ UNCHANGED fresh
     \/ /\ medium = "file" /\ fresh = None /\ fresh' = rekey.new
        /\ rekey' = [rekey EXCEPT !.step = "rename"] /\ UNCHANGED <<main, lost>>
     \/ /\ medium = "file" /\ fresh # None
        /\ rekey' = Stopped /\ UNCHANGED <<main, fresh, lost>>
  /\ UNCHANGED <<medium, backups, db, writer, files, import, goals, made, crashes>>

Rename ==
  /\ rekey.step = "rename"
  /\ main' = fresh /\ fresh' = None
  /\ rekey' = Stopped
  /\ UNCHANGED <<medium, backups, lost, db, writer, files, import, goals, made, crashes>>

-----------------------------------------------------------------------------
(* A rekey dies, or one of its calls fails; so does the creation of a key  *)
(* file, after the file is there and before the key is in it.              *)
CrashRekey ==
  /\ rekey.step # "idle" /\ crashes < MaxCrashes
  /\ crashes' = crashes + 1
  /\ rekey' = Stopped
  /\ fresh' \in IF rekey.step = "replace" /\ medium = "file" /\ fresh = None
                THEN {None, Torn} ELSE {fresh}
  /\ UNCHANGED <<medium, main, backups, lost, db, writer, files, import, goals, made>>

CrashCreate(w) ==
  /\ writer[w].step = "create" /\ medium = "file" /\ main = None
  /\ crashes < MaxCrashes
  /\ crashes' = crashes + 1
  /\ main' = Torn
  /\ writer' = [writer EXCEPT ![w] = Idle]
  /\ UNCHANGED <<medium, fresh, backups, lost, db, files, import, rekey, goals, made>>

-----------------------------------------------------------------------------
Init ==
  /\ medium \in Media /\ main = None /\ fresh = None /\ backups = {} /\ lost = {}
  /\ recorded = None /\ sample = None /\ present = FALSE
  /\ wrapped = [g \in Group |-> None]
  /\ writer = [w \in Writer |-> Idle]
  /\ files = Shared
  /\ import = Idle /\ rekey = Stopped
  /\ goals = {} /\ made = {} /\ crashes = 0

Open(w) == BeginOpen(w) \/ LoadKey(w) \/ CreateKey(w) \/ ValidateKey(w)
RekeyStep == BackUp \/ Rewrap \/ Replace \/ Rename

Next ==
  \/ \E w \in Writer : Open(w) \/ Quit(w) \/ CrashCreate(w)
  \/ \E w \in Writer, g \in Group : Ingest(w, g)
  \/ \E g \in Group : Erase(g)
  \/ \E k \in Key : BeginImport(k) \/ BeginRekey(k)
  \/ Export \/ InstallImported \/ RekeyStep \/ CrashRekey

Spec == Init /\ [][Next]_vars

(* What the instructions ask of the user, not of the code: a writer is     *)
(* quit some time, and the rekey is run again until it has succeeded.      *)
Unsettled(k) == main # k \/ \E g \in DataKeys : wrapped[g] # k
RunAgain(k) == k \in goals /\ Unsettled(k) /\ BeginRekey(k)

FairSpec ==
  /\ Spec
  /\ WF_vars(RekeyStep)
  /\ \A w \in Writer : WF_vars(Quit(w))
  /\ \A k \in Key : WF_vars(RunAgain(k))

-----------------------------------------------------------------------------
TypeOK ==
  /\ medium \in Media /\ lost \subseteq Key
  /\ main \in Key \union {None, Torn} /\ fresh \in Key \union {None, Torn}
  /\ backups \subseteq Key /\ recorded \in backups \union {None}
  /\ wrapped \in [Group -> Key \union {None}]
  /\ sample \in Group \union {None} /\ present \in BOOLEAN
  /\ writer \in [Writer ->
        [step : {"idle", "load", "loadOrCreate", "create", "loaded", "open"},
         key : Key \union {None}]]
  /\ files \subseteq Key
  /\ import \in [step : {"idle", "install"}, key : Key \union {None}]
  /\ rekey \in [step : {"idle", "backup", "heal", "rewrap", "replace", "rename"},
                old : Key \union {None}, new : Key \union {None}]
  /\ goals \subseteq files /\ made \subseteq Own /\ crashes \in 0..MaxCrashes

(* Whatever step of a rekey, an import or a first open is the last one     *)
(* (store.rs: "any step may break off and nothing is lost"): the key that  *)
(* opens a data key is the machine's key, one set aside, or in the file of *)
(* a rekey the user asked for.  What may lose one is two first             *)
(* installations in a keychain that race.                                  *)
NothingUnopenable ==
  \A g \in DataKeys : wrapped[g] \in {main} \union backups \union goals \union lost

(* An installation never takes the place of another key: the caller of     *)
(* KeySource::install makes sure first that the keychain holds none.       *)
InstallsReplaceNone == lost = {}

(* rekey_previous_key is enough to repair a finished rekey: when the store *)
(* was moved once, whatever writers that did not quit wrapped since opens  *)
(* with the machine's key or with the backup that the store names.         *)
BackupHeals ==
  (Cardinality(goals) = 1 /\ main \in goals /\ lost = {})
    => \A g \in DataKeys : wrapped[g] \in {main, recorded}

(* Running the rekey again settles it (store.rs, svault.rs: "rerun it"):   *)
(* the machine has the new key, and every data key is under it.            *)
RerunSettles == \A k \in Key : (k \in goals) ~> (~Unsettled(k) \/ goals # {k} \/ lost # {})

(* The same, but for a key file whose writing was cut short, and for a     *)
(* keychain whose key was written over.                                    *)
Stray == main = Torn \/ (fresh # None /\ rekey.step # "rename")
RerunSettlesOrStray ==
  \A k \in Key : (k \in goals) ~> (~Unsettled(k) \/ goals # {k} \/ Stray \/ lost # {})
=============================================================================
