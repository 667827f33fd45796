---------------------------- MODULE StoreKeyProofs ----------------------------
(* What holds of StoreKey for every set of keys, groups and writers, for    *)
(* both media, and however often processes die.                             *)
EXTENDS StoreKey, FiniteSetTheorems, TLAPS

-----------------------------------------------------------------------------
(* The inductive invariant.                                                 *)

(* Keys that someone can still find.                                        *)
Found == {main} \union backups \union goals \union lost

(* What a writer holds in memory was the machine's key when it loaded it.   *)
HeldIsFound ==
  \A w \in Writer : writer[w].step \in {"loaded", "open"} => writer[w].key \in Key \intersect Found

(* A rekey works towards a key the user asked for; from the moment it wraps *)
(* data keys the one it replaces is set aside; a key file stays what it was *)
(* at the beginning, and `.new` is complete before it is renamed.           *)
RekeyKeepsOld ==
  /\ rekey.step # "idle" => rekey.new \in goals
  /\ rekey.step \in {"backup", "rewrap", "replace", "rename"} => rekey.old \in Key
  /\ rekey.step \in {"rewrap", "replace", "rename"} => rekey.old \in backups
  /\ (medium = "file" /\ rekey.step \in {"backup", "rewrap", "replace", "rename"})
       => main = rekey.old
  /\ rekey.step = "rename" => medium = "file" /\ fresh = rekey.new

(* A keychain entry is written as a whole.                                  *)
KeychainNotTorn == medium = "keychain" => main # Torn

KeyInv ==
  TypeOK /\ NothingUnopenable /\ HeldIsFound /\ RekeyKeepsOld /\ KeychainNotTorn

(* While the store is on its way to its first goal and no key was written   *)
(* over: the keys in use are the machine's first one, which the store names *)
(* as soon as anything is wrapped under another, and the goal.              *)
OnlyInUse(S) ==
  /\ \A w \in Writer : writer[w].step \in {"loaded", "open"} => writer[w].key \in S
  /\ \A g \in DataKeys : wrapped[g] \in S

HealInv ==
  (lost = {} /\ \A k, l \in goals : k = l) =>
    /\ rekey.step \in {"backup", "rewrap", "replace", "rename"}
         => main = rekey.old /\ rekey.old # rekey.new
    /\ rekey.step \in {"replace", "rename"} => recorded # None
    /\ rekey.step = "heal" => main = rekey.new
    /\ recorded = None => OnlyInUse({main})
    /\ recorded # None => OnlyInUse({recorded} \union goals) /\ main \in {recorded} \union goals
-----------------------------------------------------------------------------
(* Every action keeps the invariant.  The three parts of a step are the     *)
(* types, the keys that can still be found, and who relies on them.         *)

LEMMA BeginOpenKeeps ==
  ASSUME NEW w \in Writer, KeyInv, BeginOpen(w)
  PROVE  KeyInv'
<1> USE StoreKeyAssumption DEF KeyInv
<1>1. TypeOK'
  BY DEF TypeOK, BeginOpen, source, db, Idle, Stopped, RekeyKeepsOld, KeychainNotTorn, DataKeys, HasRows
<1>2. Found \intersect Key \subseteq Found'
  BY DEF TypeOK, BeginOpen, source, db, Found, RekeyKeepsOld, HasRows
<1>3. NothingUnopenable' /\ HeldIsFound'
  BY <1>2 DEF TypeOK, BeginOpen, source, db, Idle, Stopped, Found, NothingUnopenable, HeldIsFound,
              RekeyKeepsOld, DataKeys, HasRows
<1>4. RekeyKeepsOld' /\ KeychainNotTorn'
  BY DEF TypeOK, BeginOpen, source, db, Idle, Stopped, RekeyKeepsOld, KeychainNotTorn, HasRows
<1> QED BY <1>1, <1>3, <1>4

LEMMA LoadKeyKeeps ==
  ASSUME NEW w \in Writer, KeyInv, LoadKey(w)
  PROVE  KeyInv'
<1> USE StoreKeyAssumption DEF KeyInv
<1>1. TypeOK'
  BY DEF TypeOK, LoadKey, source, db, Idle, Stopped, RekeyKeepsOld, KeychainNotTorn, DataKeys
<1>2. Found \intersect Key \subseteq Found'
  BY DEF TypeOK, LoadKey, source, db, Found, RekeyKeepsOld
<1>3. NothingUnopenable' /\ HeldIsFound'
  BY <1>2 DEF TypeOK, LoadKey, source, db, Idle, Stopped, Found, NothingUnopenable, HeldIsFound,
              RekeyKeepsOld, DataKeys
<1>4. RekeyKeepsOld' /\ KeychainNotTorn'
  BY DEF TypeOK, LoadKey, source, db, Idle, Stopped, RekeyKeepsOld, KeychainNotTorn
<1> QED BY <1>1, <1>3, <1>4

LEMMA CreateKeyKeeps ==
  ASSUME NEW w \in Writer, KeyInv, CreateKey(w)
  PROVE  KeyInv'
<1> USE StoreKeyAssumption DEF KeyInv
<1>1. TypeOK'
  BY DEF TypeOK, CreateKey, source, db, Idle, Stopped, RekeyKeepsOld, KeychainNotTorn, DataKeys, CanInstall, WrittenOver, Own
<1>2. Found \intersect Key \subseteq Found'
  BY DEF TypeOK, CreateKey, source, db, Found, RekeyKeepsOld, CanInstall, WrittenOver, Own
<1>3. NothingUnopenable' /\ HeldIsFound'
  BY <1>2 DEF TypeOK, CreateKey, source, db, Idle, Stopped, Found, NothingUnopenable, HeldIsFound,
              RekeyKeepsOld, DataKeys, CanInstall, WrittenOver, Own
<1>4. RekeyKeepsOld' /\ KeychainNotTorn'
  BY DEF TypeOK, CreateKey, source, db, Idle, Stopped, RekeyKeepsOld, KeychainNotTorn, CanInstall, WrittenOver, Own
<1> QED BY <1>1, <1>3, <1>4

LEMMA ValidateKeyKeeps ==
  ASSUME NEW w \in Writer, KeyInv, ValidateKey(w)
  PROVE  KeyInv'
<1> USE StoreKeyAssumption DEF KeyInv
<1>1. TypeOK'
  BY DEF TypeOK, ValidateKey, source, db, Idle, Stopped, RekeyKeepsOld, KeychainNotTorn, DataKeys, Opens, HasRows
<1>2. Found \intersect Key \subseteq Found'
  BY DEF TypeOK, ValidateKey, source, db, Found, RekeyKeepsOld, Opens, HasRows
<1>3. NothingUnopenable' /\ HeldIsFound'
  BY <1>2 DEF TypeOK, ValidateKey, source, db, Idle, Stopped, Found, NothingUnopenable, HeldIsFound,
              RekeyKeepsOld, DataKeys, Opens, HasRows
<1>4. RekeyKeepsOld' /\ KeychainNotTorn'
  BY DEF TypeOK, ValidateKey, source, db, Idle, Stopped, RekeyKeepsOld, KeychainNotTorn, Opens, HasRows
<1> QED BY <1>1, <1>3, <1>4

LEMMA IngestKeeps ==
  ASSUME NEW w \in Writer, NEW g \in Group, KeyInv, Ingest(w, g)
  PROVE  KeyInv'
<1> USE StoreKeyAssumption DEF KeyInv
<1>1. TypeOK'
  BY DEF TypeOK, Ingest, source, db, Idle, Stopped, RekeyKeepsOld, KeychainNotTorn, DataKeys, HasRows
<1>2. Found \intersect Key \subseteq Found'
  BY DEF TypeOK, Ingest, source, db, Found, RekeyKeepsOld, HasRows
<1>3. NothingUnopenable' /\ HeldIsFound'
  BY <1>2 DEF TypeOK, Ingest, source, db, Idle, Stopped, Found, NothingUnopenable, HeldIsFound,
              RekeyKeepsOld, DataKeys, HasRows
<1>4. RekeyKeepsOld' /\ KeychainNotTorn'
  BY DEF TypeOK, Ingest, source, db, Idle, Stopped, RekeyKeepsOld, KeychainNotTorn, HasRows
<1> QED BY <1>1, <1>3, <1>4

LEMMA EraseKeeps ==
  ASSUME NEW g \in Group, KeyInv, Erase(g)
  PROVE  KeyInv'
<1> USE StoreKeyAssumption DEF KeyInv
<1>1. TypeOK'
  BY DEF TypeOK, Erase, source, db, Idle, Stopped, RekeyKeepsOld, KeychainNotTorn, DataKeys
<1>2. Found \intersect Key \subseteq Found'
  BY DEF TypeOK, Erase, source, db, Found, RekeyKeepsOld
<1>3. NothingUnopenable' /\ HeldIsFound'
  BY <1>2 DEF TypeOK, Erase, source, db, Idle, Stopped, Found, NothingUnopenable, HeldIsFound,
              RekeyKeepsOld, DataKeys
<1>4. RekeyKeepsOld' /\ KeychainNotTorn'
  BY DEF TypeOK, Erase, source, db, Idle, Stopped, RekeyKeepsOld, KeychainNotTorn
<1> QED BY <1>1, <1>3, <1>4

LEMMA QuitKeeps ==
  ASSUME NEW w \in Writer, KeyInv, Quit(w)
  PROVE  KeyInv'
<1> USE StoreKeyAssumption DEF KeyInv
<1>1. TypeOK'
  BY DEF TypeOK, Quit, source, db, Idle, Stopped, RekeyKeepsOld, KeychainNotTorn, DataKeys
<1>2. Found \intersect Key \subseteq Found'
  BY DEF TypeOK, Quit, source, db, Found, RekeyKeepsOld
<1>3. NothingUnopenable' /\ HeldIsFound'
  BY <1>2 DEF TypeOK, Quit, source, db, Idle, Stopped, Found, NothingUnopenable, HeldIsFound,
              RekeyKeepsOld, DataKeys
<1>4. RekeyKeepsOld' /\ KeychainNotTorn'
  BY DEF TypeOK, Quit, source, db, Idle, Stopped, RekeyKeepsOld, KeychainNotTorn
<1> QED BY <1>1, <1>3, <1>4

LEMMA ExportKeeps ==
  ASSUME KeyInv, Export
  PROVE  KeyInv'
<1> USE StoreKeyAssumption DEF KeyInv
<1>1. TypeOK'
  BY DEF TypeOK, Export, source, db, Idle, Stopped, RekeyKeepsOld, KeychainNotTorn, DataKeys
<1>2. Found \intersect Key \subseteq Found'
  BY DEF TypeOK, Export, source, db, Found, RekeyKeepsOld
<1>3. NothingUnopenable' /\ HeldIsFound'
  BY <1>2 DEF TypeOK, Export, source, db, Idle, Stopped, Found, NothingUnopenable, HeldIsFound,
              RekeyKeepsOld, DataKeys
<1>4. RekeyKeepsOld' /\ KeychainNotTorn'
  BY DEF TypeOK, Export, source, db, Idle, Stopped, RekeyKeepsOld, KeychainNotTorn
<1> QED BY <1>1, <1>3, <1>4

LEMMA BeginImportKeeps ==
  ASSUME NEW k \in Key, KeyInv, BeginImport(k)
  PROVE  KeyInv'
<1> USE StoreKeyAssumption DEF KeyInv
<1>1. TypeOK'
  BY DEF TypeOK, BeginImport, source, db, Idle, Stopped, RekeyKeepsOld, KeychainNotTorn, DataKeys
<1>2. Found \intersect Key \subseteq Found'
  BY DEF TypeOK, BeginImport, source, db, Found, RekeyKeepsOld
<1>3. NothingUnopenable' /\ HeldIsFound'
  BY <1>2 DEF TypeOK, BeginImport, source, db, Idle, Stopped, Found, NothingUnopenable, HeldIsFound,
              RekeyKeepsOld, DataKeys
<1>4. RekeyKeepsOld' /\ KeychainNotTorn'
  BY DEF TypeOK, BeginImport, source, db, Idle, Stopped, RekeyKeepsOld, KeychainNotTorn
<1> QED BY <1>1, <1>3, <1>4

LEMMA InstallImportedKeeps ==
  ASSUME KeyInv, InstallImported
  PROVE  KeyInv'
<1> USE StoreKeyAssumption DEF KeyInv
<1>1. TypeOK'
  BY DEF TypeOK, InstallImported, source, db, Idle, Stopped, RekeyKeepsOld, KeychainNotTorn, DataKeys, CanInstall, WrittenOver
<1>2. Found \intersect Key \subseteq Found'
  BY DEF TypeOK, InstallImported, source, db, Found, RekeyKeepsOld, CanInstall, WrittenOver
<1>3. NothingUnopenable' /\ HeldIsFound'
  BY <1>2 DEF TypeOK, InstallImported, source, db, Idle, Stopped, Found, NothingUnopenable, HeldIsFound,
              RekeyKeepsOld, DataKeys, CanInstall, WrittenOver
<1>4. RekeyKeepsOld' /\ KeychainNotTorn'
  BY DEF TypeOK, InstallImported, source, db, Idle, Stopped, RekeyKeepsOld, KeychainNotTorn, CanInstall, WrittenOver
<1> QED BY <1>1, <1>3, <1>4

LEMMA BeginRekeyKeeps ==
  ASSUME NEW k \in Key, KeyInv, BeginRekey(k)
  PROVE  KeyInv'
<1> USE StoreKeyAssumption DEF KeyInv
<1>1. TypeOK'
  BY DEF TypeOK, BeginRekey, source, db, Idle, Stopped, RekeyKeepsOld, KeychainNotTorn, DataKeys
<1>2. Found \intersect Key \subseteq Found'
  BY DEF TypeOK, BeginRekey, source, db, Found, RekeyKeepsOld
<1>3. NothingUnopenable' /\ HeldIsFound'
  BY <1>2 DEF TypeOK, BeginRekey, source, db, Idle, Stopped, Found, NothingUnopenable, HeldIsFound,
              RekeyKeepsOld, DataKeys
<1>4. RekeyKeepsOld' /\ KeychainNotTorn'
  BY DEF TypeOK, BeginRekey, source, db, Idle, Stopped, RekeyKeepsOld, KeychainNotTorn
<1> QED BY <1>1, <1>3, <1>4

LEMMA BackUpKeeps ==
  ASSUME KeyInv, BackUp
  PROVE  KeyInv'
<1> USE StoreKeyAssumption DEF KeyInv
<1>1. TypeOK'
  BY DEF TypeOK, BackUp, source, db, Idle, Stopped, RekeyKeepsOld, KeychainNotTorn, DataKeys
<1>2. Found \intersect Key \subseteq Found'
  BY DEF TypeOK, BackUp, source, db, Found, RekeyKeepsOld
<1>3. NothingUnopenable' /\ HeldIsFound'
  BY <1>2 DEF TypeOK, BackUp, source, db, Idle, Stopped, Found, NothingUnopenable, HeldIsFound,
              RekeyKeepsOld, DataKeys
<1>4. RekeyKeepsOld' /\ KeychainNotTorn'
  BY DEF TypeOK, BackUp, source, db, Idle, Stopped, RekeyKeepsOld, KeychainNotTorn
<1> QED BY <1>1, <1>3, <1>4

LEMMA RewrapKeeps ==
  ASSUME KeyInv, Rewrap
  PROVE  KeyInv'
<1> USE StoreKeyAssumption DEF KeyInv
<1>1. TypeOK'
  BY DEF TypeOK, Rewrap, source, db, Idle, Stopped, RekeyKeepsOld, KeychainNotTorn, DataKeys, Openable, Noted
<1>2. Found \intersect Key \subseteq Found'
  BY DEF TypeOK, Rewrap, source, db, Found, RekeyKeepsOld, Openable, Noted
<1>3. NothingUnopenable' /\ HeldIsFound'
  BY <1>2 DEF TypeOK, Rewrap, source, db, Idle, Stopped, Found, NothingUnopenable, HeldIsFound,
              RekeyKeepsOld, DataKeys, Openable, Noted
<1>4. RekeyKeepsOld' /\ KeychainNotTorn'
  BY DEF TypeOK, Rewrap, source, db, Idle, Stopped, RekeyKeepsOld, KeychainNotTorn, Openable, Noted
<1> QED BY <1>1, <1>3, <1>4

LEMMA ReplaceKeeps ==
  ASSUME KeyInv, Replace
  PROVE  KeyInv'
<1> USE StoreKeyAssumption DEF KeyInv
<1>1. TypeOK'
  BY DEF TypeOK, Replace, source, db, Idle, Stopped, RekeyKeepsOld, KeychainNotTorn, DataKeys, WrittenOver
<1>2. Found \intersect Key \subseteq Found'
  BY DEF TypeOK, Replace, source, db, Found, RekeyKeepsOld, WrittenOver
<1>3. NothingUnopenable' /\ HeldIsFound'
  BY <1>2 DEF TypeOK, Replace, source, db, Idle, Stopped, Found, NothingUnopenable, HeldIsFound,
              RekeyKeepsOld, DataKeys, WrittenOver
<1>4. RekeyKeepsOld' /\ KeychainNotTorn'
  BY DEF TypeOK, Replace, source, db, Idle, Stopped, RekeyKeepsOld, KeychainNotTorn, WrittenOver
<1> QED BY <1>1, <1>3, <1>4

LEMMA RenameKeeps ==
  ASSUME KeyInv, Rename
  PROVE  KeyInv'
<1> USE StoreKeyAssumption DEF KeyInv
<1>1. TypeOK'
  BY DEF TypeOK, Rename, source, db, Idle, Stopped, RekeyKeepsOld, KeychainNotTorn, DataKeys
<1>2. Found \intersect Key \subseteq Found'
  BY DEF TypeOK, Rename, source, db, Found, RekeyKeepsOld
<1>3. NothingUnopenable' /\ HeldIsFound'
  BY <1>2 DEF TypeOK, Rename, source, db, Idle, Stopped, Found, NothingUnopenable, HeldIsFound,
              RekeyKeepsOld, DataKeys
<1>4. RekeyKeepsOld' /\ KeychainNotTorn'
  BY DEF TypeOK, Rename, source, db, Idle, Stopped, RekeyKeepsOld, KeychainNotTorn
<1> QED BY <1>1, <1>3, <1>4

LEMMA CrashRekeyKeeps ==
  ASSUME KeyInv, CrashRekey
  PROVE  KeyInv'
<1> USE StoreKeyAssumption DEF KeyInv
<1>1. TypeOK'
  BY DEF TypeOK, CrashRekey, source, db, Idle, Stopped, RekeyKeepsOld, KeychainNotTorn, DataKeys
<1>2. Found \intersect Key \subseteq Found'
  BY DEF TypeOK, CrashRekey, source, db, Found, RekeyKeepsOld
<1>3. NothingUnopenable' /\ HeldIsFound'
  BY <1>2 DEF TypeOK, CrashRekey, source, db, Idle, Stopped, Found, NothingUnopenable, HeldIsFound,
              RekeyKeepsOld, DataKeys
<1>4. RekeyKeepsOld' /\ KeychainNotTorn'
  BY DEF TypeOK, CrashRekey, source, db, Idle, Stopped, RekeyKeepsOld, KeychainNotTorn
<1> QED BY <1>1, <1>3, <1>4

LEMMA CrashCreateKeeps ==
  ASSUME NEW w \in Writer, KeyInv, CrashCreate(w)
  PROVE  KeyInv'
<1> USE StoreKeyAssumption DEF KeyInv
<1>1. TypeOK'
  BY DEF TypeOK, CrashCreate, source, db, Idle, Stopped, RekeyKeepsOld, KeychainNotTorn, DataKeys
<1>2. Found \intersect Key \subseteq Found'
  BY DEF TypeOK, CrashCreate, source, db, Found, RekeyKeepsOld
<1>3. NothingUnopenable' /\ HeldIsFound'
  BY <1>2 DEF TypeOK, CrashCreate, source, db, Idle, Stopped, Found, NothingUnopenable, HeldIsFound,
              RekeyKeepsOld, DataKeys
<1>4. RekeyKeepsOld' /\ KeychainNotTorn'
  BY DEF TypeOK, CrashCreate, source, db, Idle, Stopped, RekeyKeepsOld, KeychainNotTorn
<1> QED BY <1>1, <1>3, <1>4

-----------------------------------------------------------------------------
(* Every action keeps HealInv too.                                          *)

LEMMA BeginOpenHeals ==
  ASSUME NEW w \in Writer, KeyInv, HealInv, BeginOpen(w)
  PROVE  HealInv'
BY StoreKeyAssumption DEF KeyInv, TypeOK, HeldIsFound, RekeyKeepsOld, HealInv, OnlyInUse, DataKeys,
   BeginOpen, source, db, Idle, Stopped, HasRows

LEMMA LoadKeyHeals ==
  ASSUME NEW w \in Writer, KeyInv, HealInv, LoadKey(w)
  PROVE  HealInv'
BY StoreKeyAssumption DEF KeyInv, TypeOK, HeldIsFound, RekeyKeepsOld, HealInv, OnlyInUse, DataKeys,
   LoadKey, source, db, Idle, Stopped

LEMMA CreateKeyHeals ==
  ASSUME NEW w \in Writer, KeyInv, HealInv, CreateKey(w)
  PROVE  HealInv'
BY StoreKeyAssumption DEF KeyInv, TypeOK, HeldIsFound, RekeyKeepsOld, HealInv, OnlyInUse, DataKeys,
   CreateKey, source, db, Idle, Stopped, CanInstall, WrittenOver, Own

LEMMA ValidateKeyHeals ==
  ASSUME NEW w \in Writer, KeyInv, HealInv, ValidateKey(w)
  PROVE  HealInv'
BY StoreKeyAssumption DEF KeyInv, TypeOK, HeldIsFound, RekeyKeepsOld, HealInv, OnlyInUse, DataKeys,
   ValidateKey, source, db, Idle, Stopped, Opens, HasRows

LEMMA IngestHeals ==
  ASSUME NEW w \in Writer, NEW g \in Group, KeyInv, HealInv, Ingest(w, g)
  PROVE  HealInv'
BY StoreKeyAssumption DEF KeyInv, TypeOK, HeldIsFound, RekeyKeepsOld, HealInv, OnlyInUse, DataKeys,
   Ingest, source, db, Idle, Stopped, HasRows

LEMMA EraseHeals ==
  ASSUME NEW g \in Group, KeyInv, HealInv, Erase(g)
  PROVE  HealInv'
BY StoreKeyAssumption DEF KeyInv, TypeOK, HeldIsFound, RekeyKeepsOld, HealInv, OnlyInUse, DataKeys,
   Erase, source, db, Idle, Stopped

LEMMA QuitHeals ==
  ASSUME NEW w \in Writer, KeyInv, HealInv, Quit(w)
  PROVE  HealInv'
BY StoreKeyAssumption DEF KeyInv, TypeOK, HeldIsFound, RekeyKeepsOld, HealInv, OnlyInUse, DataKeys,
   Quit, source, db, Idle, Stopped

LEMMA ExportHeals ==
  ASSUME KeyInv, HealInv, Export
  PROVE  HealInv'
BY StoreKeyAssumption DEF KeyInv, TypeOK, HeldIsFound, RekeyKeepsOld, HealInv, OnlyInUse, DataKeys,
   Export, source, db, Idle, Stopped

LEMMA BeginImportHeals ==
  ASSUME NEW k \in Key, KeyInv, HealInv, BeginImport(k)
  PROVE  HealInv'
BY StoreKeyAssumption DEF KeyInv, TypeOK, HeldIsFound, RekeyKeepsOld, HealInv, OnlyInUse, DataKeys,
   BeginImport, source, db, Idle, Stopped

LEMMA InstallImportedHeals ==
  ASSUME KeyInv, HealInv, InstallImported
  PROVE  HealInv'
BY StoreKeyAssumption DEF KeyInv, TypeOK, HeldIsFound, RekeyKeepsOld, HealInv, OnlyInUse, DataKeys,
   InstallImported, source, db, Idle, Stopped, CanInstall, WrittenOver

LEMMA BeginRekeyHeals ==
  ASSUME NEW k \in Key, KeyInv, HealInv, BeginRekey(k)
  PROVE  HealInv'
BY StoreKeyAssumption DEF KeyInv, TypeOK, HeldIsFound, RekeyKeepsOld, HealInv, OnlyInUse, DataKeys,
   BeginRekey, source, db, Idle, Stopped

LEMMA BackUpHeals ==
  ASSUME KeyInv, HealInv, BackUp
  PROVE  HealInv'
BY StoreKeyAssumption DEF KeyInv, TypeOK, HeldIsFound, RekeyKeepsOld, HealInv, OnlyInUse, DataKeys,
   BackUp, source, db, Idle, Stopped

LEMMA RewrapHeals ==
  ASSUME KeyInv, HealInv, Rewrap
  PROVE  HealInv'
BY StoreKeyAssumption DEF KeyInv, TypeOK, HeldIsFound, RekeyKeepsOld, HealInv, OnlyInUse, DataKeys,
   Rewrap, source, db, Idle, Stopped, Openable, Noted

LEMMA ReplaceHeals ==
  ASSUME KeyInv, HealInv, Replace
  PROVE  HealInv'
BY StoreKeyAssumption DEF KeyInv, TypeOK, HeldIsFound, RekeyKeepsOld, HealInv, OnlyInUse, DataKeys,
   Replace, source, db, Idle, Stopped, WrittenOver

LEMMA RenameHeals ==
  ASSUME KeyInv, HealInv, Rename
  PROVE  HealInv'
BY StoreKeyAssumption DEF KeyInv, TypeOK, HeldIsFound, RekeyKeepsOld, HealInv, OnlyInUse, DataKeys,
   Rename, source, db, Idle, Stopped

LEMMA CrashRekeyHeals ==
  ASSUME KeyInv, HealInv, CrashRekey
  PROVE  HealInv'
BY StoreKeyAssumption DEF KeyInv, TypeOK, HeldIsFound, RekeyKeepsOld, HealInv, OnlyInUse, DataKeys,
   CrashRekey, source, db, Idle, Stopped

LEMMA CrashCreateHeals ==
  ASSUME NEW w \in Writer, KeyInv, HealInv, CrashCreate(w)
  PROVE  HealInv'
BY StoreKeyAssumption DEF KeyInv, TypeOK, HeldIsFound, RekeyKeepsOld, HealInv, OnlyInUse, DataKeys,
   CrashCreate, source, db, Idle, Stopped

-----------------------------------------------------------------------------
(* The theorems.                                                            *)

LEMMA InitEstablishes == Init => KeyInv /\ HealInv
<1> SUFFICES ASSUME Init PROVE KeyInv /\ HealInv
  OBVIOUS
<1>1. TypeOK
  <2>1. writer \in [Writer -> [step : {"idle", "load", "loadOrCreate", "create", "loaded", "open"},
                               key : Key \union {None}]]
    BY DEF Init, Idle
  <2>2. import \in [step : {"idle", "install"}, key : Key \union {None}]
    BY DEF Init, Idle
  <2>3. rekey \in [step : {"idle", "backup", "heal", "rewrap", "replace", "rename"},
                   old : Key \union {None}, new : Key \union {None}]
    BY DEF Init, Stopped
  <2>4. wrapped \in [Group -> Key \union {None}]
    BY DEF Init
  <2>5. /\ medium \in Media /\ lost \subseteq Key
        /\ main \in Key \union {None, Torn} /\ fresh \in Key \union {None, Torn}
        /\ backups \subseteq Key /\ recorded \in backups \union {None}
        /\ sample \in Group \union {None} /\ present \in BOOLEAN
    BY DEF Init
  <2>6. files \subseteq Key /\ goals \subseteq files /\ made \subseteq Own
    BY StoreKeyAssumption DEF Init
  <2>7. crashes \in 0..MaxCrashes
    BY StoreKeyAssumption DEF Init
  <2> QED BY <2>1, <2>2, <2>3, <2>4, <2>5, <2>6, <2>7 DEF TypeOK
<1>2. DataKeys = {}
  BY DEF Init, DataKeys
<1>3. NothingUnopenable /\ HeldIsFound /\ RekeyKeepsOld /\ KeychainNotTorn
  BY <1>2, StoreKeyAssumption
     DEF Init, Idle, Stopped, NothingUnopenable, HeldIsFound, RekeyKeepsOld, KeychainNotTorn
<1>4. HealInv
  BY <1>2 DEF Init, Idle, Stopped, HealInv, OnlyInUse
<1> QED BY <1>1, <1>3, <1>4 DEF KeyInv

LEMMA StutterKeeps ==
  ASSUME KeyInv, HealInv, UNCHANGED vars
  PROVE  KeyInv' /\ HealInv'
<1> USE DEF vars
<1>1. TypeOK'
  BY DEF KeyInv, TypeOK
<1>2. DataKeys' = DataKeys /\ Found' = Found
  BY DEF DataKeys, Found
<1>3. NothingUnopenable' /\ HeldIsFound' /\ RekeyKeepsOld' /\ KeychainNotTorn'
  BY <1>2 DEF KeyInv, NothingUnopenable, Found, HeldIsFound, RekeyKeepsOld, KeychainNotTorn
<1>4. HealInv'
  BY <1>2 DEF HealInv, OnlyInUse
<1> QED BY <1>1, <1>3, <1>4 DEF KeyInv

LEMMA NextKeeps ==
  ASSUME KeyInv, HealInv, Next
  PROVE  KeyInv' /\ HealInv'
<1>1. CASE \E w \in Writer : Open(w) \/ Quit(w) \/ CrashCreate(w)
  <2> PICK w \in Writer : Open(w) \/ Quit(w) \/ CrashCreate(w)
    BY <1>1
  <2>1. CASE BeginOpen(w)    BY <2>1, BeginOpenKeeps, BeginOpenHeals
  <2>2. CASE LoadKey(w)      BY <2>2, LoadKeyKeeps, LoadKeyHeals
  <2>3. CASE CreateKey(w)    BY <2>3, CreateKeyKeeps, CreateKeyHeals
  <2>4. CASE ValidateKey(w)  BY <2>4, ValidateKeyKeeps, ValidateKeyHeals
  <2>5. CASE Quit(w)         BY <2>5, QuitKeeps, QuitHeals
  <2>6. CASE CrashCreate(w)  BY <2>6, CrashCreateKeeps, CrashCreateHeals
  <2> QED BY <2>1, <2>2, <2>3, <2>4, <2>5, <2>6 DEF Open
<1>2. CASE \E w \in Writer, g \in Group : Ingest(w, g)
  BY <1>2, IngestKeeps, IngestHeals
<1>3. CASE \E g \in Group : Erase(g)
  BY <1>3, EraseKeeps, EraseHeals
<1>4. CASE \E k \in Key : BeginImport(k) \/ BeginRekey(k)
  <2>1. ASSUME NEW k \in Key, BeginImport(k) PROVE KeyInv' /\ HealInv'
    BY <2>1, BeginImportKeeps, BeginImportHeals
  <2>2. ASSUME NEW k \in Key, BeginRekey(k) PROVE KeyInv' /\ HealInv'
    BY <2>2, BeginRekeyKeeps, BeginRekeyHeals
  <2> QED BY <1>4, <2>1, <2>2
<1>5. CASE Export           BY <1>5, ExportKeeps, ExportHeals
<1>6. CASE InstallImported  BY <1>6, InstallImportedKeeps, InstallImportedHeals
<1>7. CASE RekeyStep
  <2>1. CASE BackUp   BY <2>1, BackUpKeeps, BackUpHeals
  <2>2. CASE Rewrap   BY <2>2, RewrapKeeps, RewrapHeals
  <2>3. CASE Replace  BY <2>3, ReplaceKeeps, ReplaceHeals
  <2>4. CASE Rename   BY <2>4, RenameKeeps, RenameHeals
  <2> QED BY <1>7, <2>1, <2>2, <2>3, <2>4 DEF RekeyStep
<1>8. CASE CrashRekey       BY <1>8, CrashRekeyKeeps, CrashRekeyHeals
<1> QED BY <1>1, <1>2, <1>3, <1>4, <1>5, <1>6, <1>7, <1>8 DEF Next

LEMMA KeysInvariant == Spec => [](KeyInv /\ HealInv)
<1>1. KeyInv /\ HealInv /\ [Next]_vars => (KeyInv /\ HealInv)'
  BY NextKeeps, StutterKeeps
<1> QED BY InitEstablishes, <1>1, PTL DEF Spec

(* The variables of the key and of the store keep their types.              *)
THEOREM StoreKeyTypes == Spec => []TypeOK
<1>1. KeyInv => TypeOK  BY DEF KeyInv
<1> QED BY KeysInvariant, <1>1, PTL

(* Whatever was the last step of a rekey, an import or a first open, and    *)
(* whichever processes hold an older key: every data key of the store opens *)
(* with a key that is still there, is in the file the user moves the store  *)
(* to, or was written over by a second installation in a keychain.          *)
THEOREM EveryDataKeyOpens == Spec => []NothingUnopenable
<1>1. KeyInv => NothingUnopenable  BY DEF KeyInv
<1> QED BY KeysInvariant, <1>1, PTL

(* The backup that rekey_previous_key names repairs a store that was moved  *)
(* once, whatever writers with the old key have wrapped since.              *)
THEOREM BackupRepairs == Spec => []BackupHeals
<1>1. ASSUME KeyInv, HealInv PROVE BackupHeals
  <2>1. SUFFICES ASSUME Cardinality(goals) = 1, main \in goals, lost = {}
                 PROVE  \A g \in DataKeys : wrapped[g] \in {main, recorded}
    BY DEF BackupHeals
  <2>2. IsFiniteSet(goals)
    BY <1>1, StoreKeyAssumption, FS_Subset DEF KeyInv, TypeOK
  <2>3. goals = {main}
    BY <2>1, <2>2, FS_Singleton
  <2> QED BY <1>1, <2>1, <2>3 DEF HealInv, OnlyInUse
<1> QED BY KeysInvariant, <1>1, PTL
=============================================================================
