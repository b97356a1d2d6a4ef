--------------------------- MODULE DataDirProofs ----------------------------
(***************************************************************************)
(* Theorems about the files of an installation: the vault, the database     *)
(* with its log, and the backup and restore commands, for every set of      *)
(* processes and keys and every value of the bounds.  The other parts of    *)
(* MCInstallation leave these files alone.                                  *)
(***************************************************************************)
EXTENDS MCInstallation, TLAPS

Label == {"closed", "born", "naming", "open", "truncated", "written"}

Holding == {"open", "truncated", "written"}

Map == [Key -> Int]
Store == [id : Int, map : Map]
Db == [gen : Int, n : Int]
Vault == [id : Int, map : Map, key : Key \cup {Dir!None}, value : Int, stale : BOOLEAN]
Backup == [db : Db, identity : Int, store : Store, whole : BOOLEAN, newborn : BOOLEAN]

VaultTypes ==
  /\ identity \in Int /\ store \in Store /\ tmp \in Store
  /\ vpc \in [Proc -> Label] /\ mem \in [Proc -> Vault]
  /\ acked \in Map /\ raced \in BOOLEAN
  /\ sets \in Nat /\ ids \in Nat

DatabaseTypes ==
  /\ db \in Db /\ wal \in Db /\ rows \in Int /\ open \in BOOLEAN
  /\ stripped \in BOOLEAN

CommandTypes ==
  /\ bpc \in {"off", "identity", "store"} /\ bk \in Backup
  /\ rpc \in {"off", "db", "identity", "store", "sidecars"}
  /\ cut \in BOOLEAN /\ under \in BOOLEAN /\ backups \in Nat

DirTypes == VaultTypes /\ DatabaseTypes /\ CommandTypes

\* A backup and a restore exclude each other, and a restore that has not ended
\* keeps new backups away.
CommandInv ==
  /\ rpc # "off" => cut /\ bk.whole /\ bpc = "off"
  /\ bpc # "off" => ~cut /\ ~bk.whole

\* There is one identity, whoever uses it.
OneIdentity(I) ==
  /\ identity \in {Dir!None, Dir!Torn, I}
  /\ store.id \in {Dir!None, Dir!Torn, I} /\ tmp.id \in {Dir!None, Dir!Torn, I}
  /\ bk.identity \in {Dir!None, Dir!Torn, I} /\ bk.store.id \in {Dir!None, I}
  /\ \A p \in Proc : vpc[p] \in Holding \cup {"naming"} => mem[p].id = I
  /\ \A p \in Proc : vpc[p] = "born" => mem[p].id \in Nat \ {0}
  /\ store.id = Dir!None => store = Dir!NoStore

\* Nothing has been encrypted, here or in the backup.
Young ==
  /\ store = Dir!NoStore /\ tmp = Dir!NoStore /\ acked = Dir!NoMap
  /\ bk.identity \in {Dir!None, Dir!Torn} /\ bk.store.id = Dir!None
  /\ \A p \in Proc : vpc[p] \notin Holding

\* Until the identity is whole, nothing has been.
Birth ==
  /\ identity = Dir!None => Young /\ \A p \in Proc : vpc[p] # "naming"
  /\ \A p \in Proc : vpc[p] = "naming" =>
       /\ identity = Dir!Torn /\ Young
       /\ \A q \in Proc \ {p} : vpc[q] # "naming"

\* A vault in memory that is not stale has the secrets of the store, and the one
\* that is being set.
InStep ==
  /\ \A p \in Proc : vpc[p] = "open" /\ ~mem[p].stale => mem[p].map = acked
  /\ \A p \in Proc : vpc[p] \in Dir!Storing =>
       /\ mem[p].key \in Key
       /\ mem[p].map = [acked EXCEPT ![mem[p].key] = mem[p].value]
       /\ \A q \in Proc \ {p} : vpc[q] \notin Dir!Storing
  /\ \A p \in Proc : vpc[p] = "written" => tmp = [id |-> mem[p].id, map |-> mem[p].map]

\* The store has the secrets that were acknowledged, and its identity, unless a
\* restore is about to bring them.
Kept(I) ==
  /\ store.id # Dir!Torn => store.map = acked
  /\ store.id = Dir!Torn => cut /\ bk.store.id # Dir!None
  /\ (store.id = I \/ \E p \in Proc : vpc[p] \in Holding) /\ identity # I =>
       cut /\ bk.identity # Dir!None

\* The identity that a backup has is the one in place since it began, unless one
\* was made meanwhile.
Copied ==
  /\ ~bk.newborn =>
       /\ bk.identity # Dir!Torn
       /\ bpc = "identity" => identity # Dir!Torn
       /\ bpc = "store" => bk.identity = identity
       /\ bk.store.id # Dir!None => bk.identity = bk.store.id
  /\ bk.store.id # Dir!None => bk.whole

\* How far a restore has come.
Restored(I) ==
  /\ rpc # "off" => ~bk.newborn
  /\ rpc \in {"store", "sidecars"} /\ bk.identity # Dir!None => identity = I
  /\ rpc = "sidecars" => store.id # Dir!Torn

VaultOf(I) ==
  OneIdentity(I) /\ Birth /\ InStep /\ Kept(I) /\ Copied /\ Restored(I)

VaultInv == raced \/ \E I \in Nat \ {0} : VaultOf(I)

\* The log is the one of the database.
Matched == db.gen >= Dir!None /\ wal.gen \in {Dir!None, db.gen}

\* The log is never behind the database it belongs to.
LogAhead == wal.gen = db.gen => db.n <= wal.n

\* No row came from nowhere, and none is missing unless a log was removed that held
\* rows.
RowsKept ==
  db.gen # Dir!None =>
    Dir!Replayed.n <= rows /\ (~stripped => Dir!Replayed.n = rows)

\* A database and its log are those of one lineage, until a restore comes between
\* them; one that ends has put both right.  While the backup has no database there
\* is none to come between them.
DatabaseInv ==
  /\ db.gen = Dir!None =>
       db = Dir!NoDb /\ wal = Dir!NoDb /\ ~open /\ rows = 0 /\ bk.db.gen = Dir!None
  /\ bk.db.gen >= Dir!None
  /\ bk.db.gen = Dir!None => Matched /\ LogAhead /\ RowsKept
  /\ rpc # "off" /\ ~under => ~open
  /\ rpc \in {"identity", "store", "sidecars"} /\ ~under /\ bk.db.gen # Dir!None => db = bk.db
  /\ ~cut /\ ~under => Matched /\ (open => wal.gen = db.gen) /\ RowsKept

DirInv == DirTypes /\ CommandInv /\ VaultInv /\ DatabaseInv

-----------------------------------------------------------------------------
(* Types.                                                                  *)

LEMMA NoMapType == Dir!NoMap \in Map /\ \A k \in Key : Dir!NoMap[k] = 0
  BY DEF Dir!NoMap, Map, Dir!None

LEMMA NoStoreType ==
  /\ Dir!NoStore \in Store /\ Dir!NoStore.id = 0 /\ Dir!NoStore.map = Dir!NoMap
  /\ Dir!TornStore \in Store /\ Dir!TornStore.id = -1 /\ Dir!TornStore.map = Dir!NoMap
  BY NoMapType DEF Dir!NoStore, Dir!TornStore, Store, Dir!None, Dir!Torn

LEMMA NoDbType ==
  /\ Dir!NoDb \in Db /\ Dir!NoDb.gen = 0 /\ Dir!NoDb.n = 0
  /\ Dir!TornDb \in Db /\ Dir!TornDb.gen = -1
  /\ Dir!Mixed \in Db /\ Dir!Mixed.gen = -2
  BY DEF Dir!NoDb, Dir!TornDb, Dir!Mixed, Db, Dir!None, Dir!Torn

LEMMA NoVaultType ==
  /\ Dir!NoVault \in Vault /\ Dir!NoVault.id = 0 /\ Dir!NoVault.map = Dir!NoMap
  /\ Dir!NoVault.stale = FALSE
  BY NoMapType DEF Dir!NoVault, Vault, Dir!None

LEMMA VaultWith ==
  ASSUME NEW v \in Vault, NEW m \in Map, NEW k \in Key, NEW n \in Int
  PROVE  [v EXCEPT !.map = m, !.key = k, !.value = n] \in Vault
  BY DEF Vault

LEMMA VaultWithout ==
  ASSUME NEW v \in Vault, NEW n \in Int
  PROVE  [v EXCEPT !.key = Dir!None, !.value = n] \in Vault
  BY DEF Vault

LEMMA NoBackupType ==
  /\ Dir!NoBackup \in Backup /\ Dir!NoBackup.db = Dir!NoDb /\ Dir!NoBackup.identity = 0
  /\ Dir!NoBackup.store = Dir!NoStore /\ Dir!NoBackup.whole = FALSE
  /\ Dir!NoBackup.newborn = FALSE
  BY NoDbType, NoStoreType DEF Dir!NoBackup, Backup, Dir!None

\* What opening the database finds.
LEMMA ReplayedType ==
  ASSUME DatabaseTypes
  PROVE  /\ Dir!Replayed \in Db
         /\ wal.gen = 0 => Dir!Replayed = db
         /\ wal.gen # 0 /\ wal.gen = db.gen =>
              Dir!Replayed.gen = db.gen /\ Dir!Replayed.n = wal.n
  BY NoDbType DEF DatabaseTypes, Dir!Replayed, Db, Dir!None

LEMMA DirBegins == ASSUME Dir!Init PROVE DirInv
<1>1. DirTypes
  <2>1. vpc \in [Proc -> Label] /\ mem \in [Proc -> Vault]
    BY NoVaultType DEF Dir!Init, Label
  <2>2. acked \in Map /\ store \in Store /\ tmp \in Store /\ bk \in Backup
    BY NoMapType, NoStoreType, NoBackupType DEF Dir!Init
  <2>3. VaultTypes
    <3>1. identity = 0 /\ sets = 0 /\ ids = 0 /\ raced = FALSE
      BY DEF Dir!Init, Dir!None
    <3>2. raced \in BOOLEAN
      BY <3>1, Zenon
    <3> QED
      BY <2>1, <2>2, <3>1, <3>2 DEF VaultTypes
  <2>4. DatabaseTypes
    <3>1. db = Dir!NoDb /\ wal = Dir!NoDb /\ rows = 0 /\ open = FALSE /\ stripped = FALSE
      BY DEF Dir!Init
    <3>2. open \in BOOLEAN /\ stripped \in BOOLEAN
      BY <3>1, Zenon
    <3> QED
      BY <3>1, <3>2, NoDbType DEF DatabaseTypes
  <2>5. CommandTypes
    BY <2>2 DEF Dir!Init, CommandTypes
  <2> QED
    BY <2>3, <2>4, <2>5 DEF DirTypes
<1>2. CommandInv
  BY DEF Dir!Init, CommandInv
<1>3. VaultOf(1)
  BY NoMapType, NoStoreType, NoBackupType
  DEF Dir!Init, VaultOf, OneIdentity, Birth, Young, InStep, Kept, Copied, Restored,
      Holding, Dir!Storing, Dir!None, Dir!Torn
<1>4. DatabaseInv
  BY NoDbType, NoBackupType, ReplayedType, <1>1
  DEF Dir!Init, DirTypes, DatabaseInv, Matched, LogAhead, RowsKept, Dir!None
<1> QED
  BY <1>1, <1>2, <1>3, <1>4 DEF DirInv, VaultInv

\* What a step of one process does to the vaults in memory.
LEMMA VaultStepTypes ==
  ASSUME DirTypes, NEW p \in Proc, Dir!VaultStep(p)
  PROVE  /\ DirTypes'
         /\ UNCHANGED <<db, wal, open, rows, stripped, bpc, rpc, cut, under, backups>>
         /\ UNCHANGED <<bk.db, bk.identity, bk.store, bk.whole>>
<1> USE DEF DirTypes, VaultTypes, DatabaseTypes, CommandTypes, Dir!VGoto, Label,
            Dir!database, Dir!commands, Dir!counters
<1>0. Dir!None = 0 /\ Dir!Torn = -1
  BY DEF Dir!None, Dir!Torn
<1>1. CASE Dir!OpenVault(p)
  <2>1. [Dir!NoVault EXCEPT !.id = identity, !.map = store.map] \in Vault
    BY NoVaultType DEF Store, Vault
  <2> QED
    BY <1>1, <2>1 DEF Dir!OpenVault
<1>2. CASE Dir!InitVault(p)
  <2>1. [Dir!NoVault EXCEPT !.id = ids'] \in Vault /\ ids' \in Nat
    BY <1>2, NoVaultType DEF Dir!InitVault, Vault
  <2> QED
    BY <1>2, <2>1 DEF Dir!InitVault
<1>3. CASE Dir!TruncateIdentity(p)
  <2>1. raced' \in BOOLEAN /\ bk'.newborn \in BOOLEAN
    BY <1>3 DEF Dir!TruncateIdentity, Backup
  <2>2. bk' = [bk EXCEPT !.newborn = bk'.newborn]
    BY <1>3 DEF Dir!TruncateIdentity, Backup
  <2>3. bk' \in Backup /\ UNCHANGED <<bk.db, bk.identity, bk.store, bk.whole>>
    BY <2>1, <2>2 DEF Backup
  <2> QED
    BY <1>0, <1>3, <2>1, <2>3 DEF Dir!TruncateIdentity
<1>4. CASE Dir!WriteIdentity(p)
  <2>1. raced' \in BOOLEAN /\ bk'.newborn \in BOOLEAN
    BY <1>4 DEF Dir!WriteIdentity, Backup
  <2>2. bk' = [bk EXCEPT !.newborn = bk'.newborn]
    BY <1>4 DEF Dir!WriteIdentity, Backup
  <2>3. bk' \in Backup /\ UNCHANGED <<bk.db, bk.identity, bk.store, bk.whole>>
    BY <2>1, <2>2 DEF Backup
  <2>4. mem' \in [Proc -> Vault] /\ vpc' \in [Proc -> Label]
    <3>1. [mem[p] EXCEPT !.map = store.map] \in Vault
      BY DEF Store, Vault
    <3>2. \/ mem' = [mem EXCEPT ![p] = [mem[p] EXCEPT !.map = store.map]]
          \/ mem' = [mem EXCEPT ![p] = Dir!NoVault]
      BY <1>4 DEF Dir!WriteIdentity
    <3> QED
      BY <1>4, <3>1, <3>2, NoVaultType DEF Dir!WriteIdentity
  <2> QED
    BY <1>4, <2>1, <2>3, <2>4 DEF Dir!WriteIdentity, Vault
<1>5. ASSUME NEW k \in Key, Dir!SetSecret(p, k)
      PROVE  /\ DirTypes'
             /\ UNCHANGED <<db, wal, open, rows, stripped, bpc, rpc, cut, under, backups>>
             /\ UNCHANGED <<bk.db, bk.identity, bk.store, bk.whole>>
  <2>1. mem' = [mem EXCEPT ![p] = [mem[p] EXCEPT !.map = [mem[p].map EXCEPT ![k] = sets'],
                                                 !.key = k, !.value = sets']]
    BY <1>5 DEF Dir!SetSecret, Vault
  <2>2. sets' \in Nat /\ raced' \in BOOLEAN
    BY <1>5 DEF Dir!SetSecret
  <2>3. [mem[p].map EXCEPT ![k] = sets'] \in Map
    BY <2>2 DEF Vault, Map
  <2> DEFINE m == [mem[p].map EXCEPT ![k] = sets']
             v == [mem[p] EXCEPT !.map = m, !.key = k, !.value = sets']
  <2>5. v \in Vault
    <3> HIDE DEF m
    <3>1. mem[p] \in Vault /\ m \in Map /\ sets' \in Int
      BY <2>2, <2>3 DEF m
    <3> QED
      BY <3>1, VaultWith
  <2>4. mem' \in [Proc -> Vault]
    <3> HIDE DEF v
    <3> QED
      BY <2>1, <2>5 DEF v
  <2> QED
    BY <1>5, <2>2, <2>4, NoStoreType DEF Dir!SetSecret
<1>6. CASE Dir!WriteTmp(p)
  <2>1. tmp' \in Store
    BY <1>6 DEF Dir!WriteTmp, Store, Vault
  <2> QED
    BY <1>6, <2>1 DEF Dir!WriteTmp
<1>7. CASE Dir!RenameTmp(p)
  <2>1. CASE tmp = Dir!NoStore
    BY <1>7, <2>1 DEF Dir!RenameTmp
  <2>2. CASE tmp # Dir!NoStore
    <3>1. acked' \in Map
      <4>1. mem[p].value \in Int
        BY DEF Vault
      <4> QED
        BY <1>7, <2>2, <4>1 DEF Dir!RenameTmp, Map
    <3>2. ASSUME NEW q \in Proc PROVE mem'[q] \in Vault
      <4>1. CASE q = p
        <5>1. mem'[q] = [mem[p] EXCEPT !.key = Dir!None, !.value = Dir!None]
          BY <1>7, <2>2, <4>1 DEF Dir!RenameTmp
        <5>2. mem[p] \in Vault /\ Dir!None \in Int
          BY <1>0
        <5> QED
          <6>1. [mem[p] EXCEPT !.key = Dir!None, !.value = Dir!None] \in Vault
            BY <5>2, VaultWithout, Zenon
          <6> QED
            BY <5>1, <6>1, Zenon
      <4>2. CASE q # p
        <5> DEFINE stale == vpc[q] # "closed"
        <5>1. mem'[q] = [mem[q] EXCEPT !.stale = stale]
          BY <1>7, <2>2, <4>2 DEF Dir!RenameTmp
        <5>2. stale \in BOOLEAN
          OBVIOUS
        <5> HIDE DEF stale
        <5> QED
          BY <5>1, <5>2 DEF Vault
      <4> QED
        BY <4>1, <4>2
    <3>3. mem' \in [Proc -> Vault]
      BY <1>7, <2>2, <3>2 DEF Dir!RenameTmp
    <3> QED
      BY <1>7, <2>2, <3>1, <3>3, NoStoreType DEF Dir!RenameTmp
  <2> QED
    BY <2>1, <2>2
<1>8. CASE Dir!CloseVault(p)
  BY <1>8, NoVaultType DEF Dir!CloseVault
<1> QED
  BY <1>1, <1>2, <1>3, <1>4, <1>5, <1>6, <1>7, <1>8 DEF Dir!VaultStep

\* A step of the database changes nothing else, and no log is left without one.
DatabaseStep == Dir!OpenDb \/ Dir!Commit \/ Dir!CloseDb \/ Dir!KillDb

LEMMA DatabaseStepTypes ==
  ASSUME DirTypes, DatabaseStep
  PROVE  /\ DirTypes'
         /\ UNCHANGED <<identity, store, tmp, vpc, mem, acked, raced, bpc, bk, rpc, cut, stripped>>
<1>0. Dir!None = 0
  BY DEF Dir!None
<1>1. UNCHANGED <<identity, store, tmp, vpc, mem, acked, raced, sets, ids>>
  BY DEF DatabaseStep, Dir!OpenDb, Dir!Commit, Dir!CloseDb, Dir!KillDb, Dir!vault,
         Dir!counters
<1>2. UNCHANGED <<bpc, bk, rpc, cut, backups, stripped>> /\ under' \in {under, TRUE, under \/ rpc # "off"}
  BY DEF DatabaseStep, Dir!OpenDb, Dir!Commit, Dir!CloseDb, Dir!KillDb, Dir!commands,
         Dir!counters
<1>3. VaultTypes'
  BY <1>1 DEF DirTypes, VaultTypes
<1>4. CommandTypes'
  <2>1. under' \in BOOLEAN
    BY <1>2 DEF DirTypes, CommandTypes
  <2> QED
    BY <1>2, <2>1 DEF DirTypes, CommandTypes
<1>5. DatabaseTypes'
  <2> USE DEF DirTypes, DatabaseTypes
  <2>0. stripped' = stripped
    BY <1>2
  <2>1. CASE Dir!OpenDb
    <3>1. db' \in Db
      BY <1>0, <2>1, ReplayedType DEF Dir!OpenDb, Db
    <3>2. wal' \in Db
      BY <2>1, <3>1 DEF Dir!OpenDb, Db
    <3>3. rows' = rows /\ open' = TRUE
      BY <2>1 DEF Dir!OpenDb
    <3> QED
      BY <2>0, <3>1, <3>2, <3>3
  <2>2. CASE Dir!Commit
    <3>1. wal' \in Db
      BY <2>2 DEF Dir!Commit, Db
    <3> QED
      BY <2>0, <2>2, <3>1 DEF Dir!Commit
  <2>3. CASE Dir!CloseDb
    <3>1. db' \in Db /\ wal' \in Db /\ rows' = rows /\ open' = FALSE
      BY <2>3, ReplayedType, NoDbType DEF Dir!CloseDb
    <3> QED
      BY <2>0, <3>1
  <2>4. CASE Dir!KillDb
    <3>1. db' = db /\ wal' = wal /\ rows' = rows /\ open' = FALSE
      BY <2>4 DEF Dir!KillDb
    <3> QED
      BY <2>0, <3>1
  <2> QED
    BY <2>1, <2>2, <2>3, <2>4 DEF DatabaseStep
<1> QED
  BY <1>1, <1>2, <1>3, <1>4, <1>5 DEF DirTypes

\* A backup reads what the others write, and a restore writes it.
BackupStep == Dir!BackupDb \/ Dir!BackupIdentity \/ Dir!BackupStore \/ Dir!BackupStops

LEMMA BackupStepTypes ==
  ASSUME DirTypes, BackupStep
  PROVE  /\ DirTypes'
         /\ UNCHANGED <<identity, store, tmp, vpc, mem, acked, raced, open, rows, stripped, rpc, cut, under>>
<1>0. Dir!None = 0
  BY DEF Dir!None
<1>1. /\ UNCHANGED <<identity, store, tmp, vpc, mem, acked, raced, sets, ids>>
      /\ UNCHANGED <<open, rows, stripped, rpc, cut, under>>
  BY DEF BackupStep, Dir!BackupDb, Dir!BackupIdentity, Dir!BackupStore, Dir!BackupStops,
         Dir!vault, Dir!database, Dir!counters
<1>2. VaultTypes'
  BY <1>1 DEF DirTypes, VaultTypes
<1>3. CASE Dir!BackupDb
  <2>1. db' \in Db /\ wal' \in Db
    BY <1>3, ReplayedType, NoDbType DEF Dir!BackupDb, DirTypes, DatabaseTypes
  <2> DEFINE copy == IF db.gen = Dir!None THEN Dir!NoDb
                     ELSE [gen |-> backups' + 1, n |-> Dir!Replayed.n]
             torn == identity = Dir!Torn
  <2>2. copy \in Db /\ backups' \in Nat
    BY <1>3, ReplayedType, NoDbType
    DEF Dir!BackupDb, DirTypes, DatabaseTypes, CommandTypes, Db
  <2>3. torn \in BOOLEAN
    OBVIOUS
  <2>4. bk' = [Dir!NoBackup EXCEPT !.db = copy, !.newborn = torn]
    BY <1>3 DEF Dir!BackupDb
  <2> HIDE DEF copy, torn
  <2>5. bk' \in Backup
    BY <2>2, <2>3, <2>4, NoBackupType DEF Backup
  <2>6. bpc' = "identity"
    BY <1>3 DEF Dir!BackupDb
  <2> QED
    BY <1>1, <1>2, <2>1, <2>2, <2>5, <2>6 DEF DirTypes, DatabaseTypes, CommandTypes
<1>4. CASE ~Dir!BackupDb
  <2>1. UNCHANGED <<db, wal, open, rows, backups>> /\ bpc' \in {"off", "store"}
    BY <1>4 DEF BackupStep, Dir!BackupIdentity, Dir!BackupStore, Dir!BackupStops, Dir!database,
                Dir!counters
  <2>2. bk' \in Backup
    <3>1. identity \in Int /\ store \in Store /\ bk \in Backup
      BY DEF DirTypes, VaultTypes, CommandTypes
    <3> QED
      BY <1>4, <3>1
      DEF BackupStep, Dir!BackupIdentity, Dir!BackupStore, Dir!BackupStops, Backup
  <2> QED
    BY <1>1, <1>2, <2>1, <2>2 DEF DirTypes, DatabaseTypes, CommandTypes
<1> QED
  BY <1>1, <1>3, <1>4

\* A backup begins with a copy of the database and nothing else.
LEMMA BackupBegins ==
  ASSUME Dir!BackupDb
  PROVE  /\ bk'.db = IF db.gen = 0 THEN Dir!NoDb
                     ELSE [gen |-> backups' + 1, n |-> Dir!Replayed.n]
         /\ bk'.identity = 0 /\ bk'.store = Dir!NoStore
         /\ bk'.whole = FALSE /\ bk'.newborn = (identity = -1)
<1> DEFINE copy == IF db.gen = Dir!None THEN Dir!NoDb
                   ELSE [gen |-> backups' + 1, n |-> Dir!Replayed.n]
           torn == identity = Dir!Torn
<1>1. bk' = [Dir!NoBackup EXCEPT !.db = copy, !.newborn = torn]
  BY DEF Dir!BackupDb
<1> HIDE DEF copy, torn
<1>2. /\ bk'.db = copy /\ bk'.identity = 0 /\ bk'.store = Dir!NoStore
      /\ bk'.whole = FALSE /\ bk'.newborn = torn
  BY <1>1, NoBackupType DEF Backup
<1> QED
  BY <1>2 DEF copy, torn, Dir!None, Dir!Torn

RestoreStep ==
  \/ Dir!RestoreBegins \/ Dir!RestoreDb \/ Dir!RestoreIdentity \/ Dir!RestoreStore
  \/ Dir!RemoveSidecars \/ Dir!RestoreStops

LEMMA RestoreStepTypes ==
  ASSUME DirTypes, RestoreStep
  PROVE  /\ DirTypes'
         /\ UNCHANGED <<tmp, vpc, mem, open, bpc, bk>>
<1> USE DEF RestoreStep, Dir!RestoreBegins, Dir!RestoreDb, Dir!RestoreIdentity,
            Dir!RestoreStore, Dir!RemoveSidecars, Dir!RestoreStops, Dir!vault, Dir!database,
            Dir!counters
<1>0. Dir!None = 0 /\ Dir!Torn = -1
  BY DEF Dir!None, Dir!Torn
<1>1. UNCHANGED <<tmp, vpc, mem, open, bpc, bk, sets, ids, backups>>
  OBVIOUS
<1>2. /\ bk.db \in Db /\ bk.identity \in Int /\ bk.store \in Store /\ bk.store.map \in Map
      /\ bk.db.n \in Int /\ db.n \in Int
  BY DEF DirTypes, CommandTypes, DatabaseTypes, Backup, Store, Db
<1>3. identity' \in Int /\ store' \in Store /\ acked' \in Map
  BY <1>0, <1>2, NoStoreType DEF DirTypes, VaultTypes
<1>4. db' \in Db /\ wal' \in Db /\ rows' \in Int /\ stripped' \in BOOLEAN
  BY <1>2, NoDbType DEF DirTypes, DatabaseTypes
<1>5. raced' \in BOOLEAN /\ cut' \in BOOLEAN /\ under' \in BOOLEAN
  BY DEF DirTypes, VaultTypes, CommandTypes, DatabaseTypes
<1>6. rpc' \in {"off", "db", "identity", "store", "sidecars"}
  OBVIOUS
<1> QED
  BY <1>1, <1>3, <1>4, <1>5, <1>6 DEF DirTypes, VaultTypes, CommandTypes, DatabaseTypes

LEMMA DirSteps ==
  ASSUME Dir!Next
  PROVE  (\E p \in Proc : Dir!VaultStep(p)) \/ DatabaseStep \/ BackupStep \/ RestoreStep
  BY DEF Dir!Next, DatabaseStep, BackupStep, RestoreStep

-----------------------------------------------------------------------------
(* The commands and the database.                                          *)

LEMMA CommandStep ==
  ASSUME DirTypes, CommandInv, Dir!Next
  PROVE  CommandInv'
<1>1. CASE \E p \in Proc : Dir!VaultStep(p)
  BY <1>1, VaultStepTypes DEF CommandInv
<1>2. CASE DatabaseStep
  BY <1>2, DatabaseStepTypes DEF CommandInv
<1>3. CASE BackupStep
  <2>1. bk \in Backup /\ bk' \in Backup
    BY <1>3, BackupStepTypes DEF DirTypes, CommandTypes
  <2>2. CASE Dir!BackupDb
    <3>1. rpc' = "off" /\ cut' = FALSE /\ bk'.whole = FALSE
      BY <2>2, BackupBegins DEF Dir!BackupDb, DirTypes, CommandTypes
    <3> QED
      BY <3>1 DEF CommandInv
  <2>3. CASE ~Dir!BackupDb
    <3>1. UNCHANGED <<rpc, cut>> /\ bpc # "off"
      BY <1>3, <2>3 DEF BackupStep, Dir!BackupIdentity, Dir!BackupStore, Dir!BackupStops
    <3>2. bpc' # "off" => bk'.whole = bk.whole
      BY <1>3, <2>1, <2>3
      DEF BackupStep, Dir!BackupIdentity, Dir!BackupStore, Dir!BackupStops, Backup
    <3> QED
      BY <3>1, <3>2 DEF CommandInv
  <2> QED
    BY <2>2, <2>3
<1>4. CASE RestoreStep
  BY <1>4 DEF CommandInv, RestoreStep, Dir!RestoreBegins, Dir!RestoreDb, Dir!RestoreIdentity,
       Dir!RestoreStore, Dir!RemoveSidecars, Dir!RestoreStops
<1> QED
  BY <1>1, <1>2, <1>3, <1>4, DirSteps

\* Opening and closing a database that is sound keep it so.
LEMMA DatabaseInvDb ==
  ASSUME DirTypes, CommandInv, DatabaseInv, DatabaseStep
  PROVE  DatabaseInv'
<1> DEFINE R == Dir!Replayed
<1>0. /\ db \in Db /\ wal \in Db /\ R \in Db /\ rows \in Int /\ open \in BOOLEAN
      /\ db' \in Db /\ wal' \in Db
  BY ReplayedType, DatabaseStepTypes DEF DirTypes, DatabaseTypes
<1>1. /\ Dir!None = 0 /\ Dir!Mixed.gen = -2 /\ Dir!Torn = -1 /\ UNCHANGED <<bk, rpc, cut, stripped>>
  BY NoDbType, DatabaseStepTypes DEF Dir!None, Dir!Torn
<1>2. /\ wal.gen = 0 => R = db
      /\ wal.gen # 0 /\ wal.gen = db.gen => R.gen = db.gen /\ R.n = wal.n
      /\ wal.gen = db.gen => R.gen = db.gen
  BY ReplayedType DEF DirTypes
<1>3. /\ Dir!Replayed' = (IF wal'.gen = 0 THEN db'
                          ELSE IF wal'.gen = db'.gen THEN [db' EXCEPT !.n = wal'.n] ELSE Dir!Mixed)
  BY <1>1 DEF Dir!Replayed
<1> HIDE DEF R
<1>4. CASE Dir!OpenDb
  <2>1. /\ ~open /\ db.gen # -1 /\ db.gen # -2 /\ open' = TRUE /\ rows' = rows
        /\ wal'.gen = db'.gen /\ wal'.n = db'.n
        /\ under' = (under \/ rpc # "off")
    BY <1>1, <1>4 DEF Dir!OpenDb
  <2>2. CASE db.gen = 0
    <3>1. db'.gen = 1 /\ db'.n = 0 /\ rows = 0
      BY <1>1, <1>4, <2>2 DEF Dir!OpenDb, DatabaseInv
    <3>2. Dir!Replayed'.n = 0
      BY <1>0, <1>3, <2>1, <3>1 DEF Db
    <3>3. Matched' /\ db'.gen # 0 /\ bk'.db.gen = 0 /\ rows' = 0 /\ wal'.gen = db'.gen
      BY <1>1, <2>1, <2>2, <3>1 DEF DatabaseInv, Matched, LogAhead, RowsKept
    <3>4. rpc' # "off" => under'
      BY <1>1, <2>1
    <3> QED
      BY <1>1, <2>1, <3>1, <3>2, <3>3, <3>4 DEF DatabaseInv, LogAhead, RowsKept
  <2>3. CASE db.gen # 0
    <3>1. db' = R
      BY <1>1, <1>4, <2>3 DEF Dir!OpenDb, R
    <3>2. Matched => db'.gen = db.gen /\ db'.gen # 0 /\ db'.n = R.n
      BY <1>0, <1>1, <1>2, <2>3, <3>1 DEF Matched
    <3>3. db'.gen # 0
      BY <1>0, <1>1, <2>3, <3>1, NoDbType DEF R, Dir!Replayed, Db
    <3>4. Dir!Replayed'.n = db'.n
      BY <1>0, <1>3, <2>1 DEF Db
    <3>5. Matched => Matched'
      BY <1>1, <2>1, <3>2 DEF Matched
    <3>6. LogAhead'
      BY <1>0, <2>1 DEF LogAhead, Db
    <3>7. RowsKept => RowsKept'
      BY <1>1, <2>1, <2>3, <3>1, <3>4 DEF RowsKept, R
    <3> QED
      BY <1>1, <2>1, <2>3, <3>3, <3>5, <3>6, <3>7 DEF DatabaseInv
  <2> QED
    BY <2>2, <2>3
<1>5. CASE Dir!Commit
  <2>1. /\ open /\ wal.gen = db.gen /\ db.gen > 0 /\ rows' = rows + 1
        /\ wal'.gen = wal.gen /\ wal'.n = wal.n + 1 /\ UNCHANGED <<db, open, under>>
    BY <1>0, <1>1, <1>5 DEF Dir!Commit, Dir!commands, Db
  <2>2. Dir!Replayed'.n = wal.n + 1 /\ R.n = wal.n
    BY <1>0, <1>2, <1>3, <2>1 DEF Db
  <2>3. /\ wal.n \in Int /\ db.n \in Int /\ rows \in Int
        /\ stripped' = stripped /\ Dir!Replayed.n = wal.n
    BY <1>0, <1>1, <2>2 DEF Db, R
  <2>4. (LogAhead => LogAhead') /\ (RowsKept => RowsKept')
    BY <1>1, <2>1, <2>2, <2>3 DEF LogAhead, RowsKept
  <2> QED
    BY <1>0, <1>1, <2>1, <2>4 DEF DatabaseInv, Matched
<1>6. CASE Dir!CloseDb
  <2>1. open /\ open' = FALSE /\ db' = R /\ wal' = Dir!NoDb /\ UNCHANGED <<rows, under>>
    BY <1>6 DEF Dir!CloseDb, Dir!commands, R
  <2>2. wal'.gen = 0 /\ Dir!Replayed' = R
    BY <1>3, <2>1, NoDbType
  <2>3. db.gen # 0 /\ R.gen # 0
    <3>1. db.gen # 0
      BY <1>1, <2>1 DEF DatabaseInv
    <3> QED
      BY <1>0, <1>1, <3>1, NoDbType DEF R, Dir!Replayed, Db
  <2>4. Matched => Matched'
    BY <1>0, <1>1, <1>2, <2>1, <2>2 DEF Matched
  <2> QED
    BY <1>1, <2>1, <2>2, <2>3, <2>4 DEF DatabaseInv, LogAhead, RowsKept, R
<1>7. CASE Dir!KillDb
  <2>1. open /\ open' = FALSE /\ UNCHANGED <<db, wal, rows, under>>
    BY <1>7 DEF Dir!KillDb, Dir!commands
  <2>2. Dir!Replayed' = Dir!Replayed
    BY <2>1 DEF Dir!Replayed
  <2> QED
    BY <1>1, <2>1, <2>2 DEF DatabaseInv, Matched, LogAhead, RowsKept
<1> QED
  BY <1>4, <1>5, <1>6, <1>7 DEF DatabaseStep

LEMMA DatabaseInvBackup ==
  ASSUME DirTypes, CommandInv, DatabaseInv, BackupStep
  PROVE  DatabaseInv'
<1> DEFINE R == Dir!Replayed
<1>0. /\ db \in Db /\ wal \in Db /\ R \in Db /\ rows \in Int /\ open \in BOOLEAN
      /\ bk \in Backup /\ bk' \in Backup /\ backups \in Nat
  BY ReplayedType, BackupStepTypes DEF DirTypes, DatabaseTypes, CommandTypes
<1>1. Dir!None = 0 /\ UNCHANGED <<open, rows, stripped, rpc, cut, under>>
  BY BackupStepTypes DEF Dir!None
<1>2. /\ wal.gen = 0 => R = db
      /\ wal.gen = db.gen => R.gen = db.gen
  BY ReplayedType DEF DirTypes
<1> HIDE DEF R
<1>3. CASE Dir!BackupDb
  <2>1. rpc = "off" /\ ~cut /\ backups' = backups + 1
    BY <1>3 DEF Dir!BackupDb
  <2>2. bk'.db.gen = IF db.gen = 0 THEN 0 ELSE backups + 2
    BY <1>0, <1>3, <2>1, BackupBegins, NoDbType
  <2>3. CASE UNCHANGED <<db, wal>>
    <3>1. Dir!Replayed' = Dir!Replayed
      BY <2>3 DEF Dir!Replayed
    <3> QED
      BY <1>0, <1>1, <2>1, <2>2, <2>3, <3>1, NoDbType DEF DatabaseInv, Matched, LogAhead, RowsKept
  <2>4. CASE ~open /\ db.gen # 0 /\ db' = R /\ wal' = Dir!NoDb
    <3>1. Dir!Replayed' = R /\ wal'.gen = 0
      BY <1>1, <2>4, NoDbType DEF Dir!Replayed
    <3>2. Matched => db'.gen = db.gen
      BY <1>0, <1>1, <1>2, <2>4 DEF Matched
    <3>3. db'.gen # 0
      BY <1>0, <1>1, <2>4, NoDbType DEF R, Dir!Replayed, Db
    <3> QED
      BY <1>0, <1>1, <2>1, <2>2, <2>4, <3>1, <3>2, <3>3 DEF DatabaseInv, Matched, LogAhead, RowsKept, R
  <2> QED
    BY <1>1, <1>3, <2>3, <2>4 DEF Dir!BackupDb, R
<1>4. CASE ~Dir!BackupDb
  <2>1. UNCHANGED <<db, wal>>
    BY <1>4 DEF BackupStep, Dir!BackupIdentity, Dir!BackupStore, Dir!BackupStops, Dir!database
  <2>2. bk'.db = bk.db
    BY <1>0, <1>4
    DEF BackupStep, Dir!BackupIdentity, Dir!BackupStore, Dir!BackupStops, Backup
  <2>3. Dir!Replayed' = Dir!Replayed
    BY <2>1 DEF Dir!Replayed
  <2> QED
    BY <1>1, <2>1, <2>2, <2>3 DEF DatabaseInv, Matched, LogAhead, RowsKept
<1> QED
  BY <1>3, <1>4

\* A restore that is not interfered with puts the copy in place and leaves no log.
LEMMA DatabaseInvRestore ==
  ASSUME DirTypes, CommandInv, DatabaseInv, RestoreStep
  PROVE  DatabaseInv'
<1>0. /\ db \in Db /\ wal \in Db /\ rows \in Int /\ bk \in Backup /\ bk.db \in Db
      /\ db' \in Db
  BY RestoreStepTypes DEF DirTypes, DatabaseTypes, CommandTypes, Backup
<1>1. Dir!None = 0 /\ UNCHANGED <<open, bk>>
  BY RestoreStepTypes DEF Dir!None
<1>2. Dir!NoDb.gen = 0 /\ Dir!NoDb.n = 0 /\ Dir!TornDb.gen = -1
  BY NoDbType
<1>same. ASSUME UNCHANGED <<db, wal, rows, stripped>>
      PROVE  (LogAhead => LogAhead') /\ (RowsKept => RowsKept')
  BY <1>same DEF LogAhead, RowsKept, Dir!Replayed
<1>3. CASE Dir!RestoreBegins
  <2>1. /\ rpc = "off" /\ rpc' = "db" /\ cut' = TRUE /\ under' = open
        /\ UNCHANGED <<wal, rows, stripped>>
        /\ db' = IF bk.db.gen = 0 THEN db ELSE Dir!TornDb
    BY <1>1, <1>3 DEF Dir!RestoreBegins
  <2>2. bk.db.gen = 0 => (LogAhead => LogAhead') /\ (RowsKept => RowsKept')
    BY <1>same, <2>1
  <2> QED
    BY <1>0, <1>1, <1>2, <2>1, <2>2 DEF DatabaseInv, Matched
<1>4. CASE Dir!RestoreDb
  <2>1. /\ rpc = "db" /\ rpc' = "identity" /\ UNCHANGED <<wal, rows, stripped, cut, under>>
        /\ db' = IF bk.db.gen = 0 THEN db ELSE bk.db
    BY <1>1, <1>4 DEF Dir!RestoreDb
  <2>2. bk.db.gen = 0 => (LogAhead => LogAhead') /\ (RowsKept => RowsKept')
    BY <1>same, <2>1
  <2> QED
    BY <1>0, <1>1, <1>2, <2>1, <2>2 DEF DatabaseInv, Matched, CommandInv
<1>5. CASE Dir!RestoreIdentity \/ Dir!RestoreStore
  <2>1. UNCHANGED <<db, wal, rows, stripped, cut, under>> /\ rpc \in {"identity", "store"}
    BY <1>5 DEF Dir!RestoreIdentity, Dir!RestoreStore, Dir!database
  <2> QED
    BY <1>1, <1>5, <2>1
    DEF DatabaseInv, Matched, LogAhead, RowsKept, CommandInv, Dir!RestoreIdentity, Dir!RestoreStore, Dir!Replayed
<1>6. CASE Dir!RemoveSidecars
  <2>1. /\ rpc = "sidecars" /\ rpc' = "off" /\ wal' = Dir!NoDb /\ UNCHANGED <<db, under>>
        /\ bk.db.gen # 0 => rows' = bk.db.n
        /\ bk.db.gen = 0 => rows' = rows /\ (~stripped' => ~stripped /\ Dir!Replayed = db)
    BY <1>1, <1>6 DEF Dir!RemoveSidecars
  <2>2. Dir!Replayed' = db
    BY <1>1, <1>2, <2>1 DEF Dir!Replayed
  <2>3. CASE bk.db.gen # 0
    <3>1. rows' = bk.db.n /\ bk.db.n \in Int
      BY <1>0, <2>1, <2>3 DEF Db
    <3>2. db = bk.db => RowsKept'
      BY <2>2, <3>1 DEF RowsKept
    <3> QED
      BY <1>0, <1>1, <1>2, <2>1, <2>3, <3>2 DEF DatabaseInv, Matched
  <2>4. CASE bk.db.gen = 0
    <3>1. Matched /\ LogAhead /\ RowsKept
      BY <1>1, <2>4 DEF DatabaseInv
    <3>2. db.gen # 0 => db.n <= rows
      <4>1. /\ wal.gen = 0 => Dir!Replayed = db
            /\ wal.gen # 0 /\ wal.gen = db.gen => Dir!Replayed.n = wal.n
        BY ReplayedType DEF DirTypes
      <4>2. db.n \in Int /\ wal.n \in Int
        BY <1>0 DEF Db
      <4> QED
        BY <1>0, <1>1, <3>1, <4>1, <4>2 DEF Matched, LogAhead, RowsKept
    <3>3. RowsKept'
      BY <1>0, <1>1, <2>1, <2>2, <2>4, <3>1, <3>2 DEF RowsKept
    <3>4. LogAhead' /\ Matched'
      <4>1. wal'.gen = 0 /\ wal'.n = 0 /\ db' = db /\ db.gen >= 0
        BY <1>1, <1>2, <2>1, <3>1 DEF Matched
      <4>2. db.gen = 0 => db.n = 0
        BY <1>1, <1>2 DEF DatabaseInv
      <4> QED
        BY <1>1, <4>1, <4>2 DEF LogAhead, Matched
    <3> QED
      BY <1>0, <1>1, <1>2, <2>1, <2>4, <3>3, <3>4 DEF DatabaseInv
  <2> QED
    BY <2>3, <2>4
<1>7. CASE Dir!RestoreStops
  <2>1. rpc' = "off" /\ UNCHANGED <<db, wal, rows, stripped, cut, under>> /\ rpc # "off"
    BY <1>7 DEF Dir!RestoreStops, Dir!database
  <2>2. (LogAhead => LogAhead') /\ (RowsKept => RowsKept')
    BY <1>same, <2>1
  <2> QED
    BY <1>1, <2>1, <2>2 DEF DatabaseInv, Matched, CommandInv
<1> QED
  BY <1>3, <1>4, <1>5, <1>6, <1>7 DEF RestoreStep

LEMMA DatabaseInvStep ==
  ASSUME DirTypes, CommandInv, DatabaseInv, Dir!Next
  PROVE  DatabaseInv'
<1>1. ASSUME NEW p \in Proc, Dir!VaultStep(p) PROVE DatabaseInv'
  <2>1. UNCHANGED <<db, wal, open, rows, stripped, rpc, cut, under, bk.db>>
    BY <1>1, VaultStepTypes
  <2> QED
    BY <2>1 DEF DatabaseInv, Matched, LogAhead, RowsKept, Dir!Replayed
<1> QED
  BY <1>1, DirSteps, DatabaseInvDb, DatabaseInvBackup, DatabaseInvRestore

-----------------------------------------------------------------------------
(* The vault.                                                              *)

LEMMA Names ==
  /\ Dir!None = 0 /\ Dir!Torn = -1 /\ Dir!Storing = {"truncated", "written"}
  /\ Holding = {"open", "truncated", "written"}
  BY DEF Dir!None, Dir!Torn, Dir!Storing, Holding

\* Where a process goes and what it then has, the others staying as they are.
LEMMA Goes ==
  ASSUME DirTypes, NEW p \in Proc, NEW l, Dir!VGoto(p, l)
  PROVE  vpc'[p] = l /\ \A q \in Proc \ {p} : vpc'[q] = vpc[q]
  BY DEF Dir!VGoto, DirTypes, VaultTypes

LEMMA OpenVaultKeeps ==
  ASSUME DirTypes, CommandInv, NEW I \in Nat \ {0}, VaultOf(I), NEW p \in Proc,
         Dir!OpenVault(p)
  PROVE  VaultOf(I)'
<1>0. /\ UNCHANGED <<identity, store, tmp, acked, bk, bpc, rpc, cut>>
      /\ vpc[p] = "closed" /\ identity \notin {0, -1} /\ store.id \in {0, identity}
      /\ vpc'[p] = "open" /\ \A q \in Proc \ {p} : vpc'[q] = vpc[q]
  BY Names, Goes DEF Dir!OpenVault, Dir!commands
<1>1. /\ mem'[p].id = identity /\ mem'[p].map = store.map
      /\ \A q \in Proc \ {p} : mem'[q] = mem[q]
  BY NoVaultType DEF Dir!OpenVault, DirTypes, VaultTypes, Vault
<1>2. OneIdentity(I)'
  BY <1>0, <1>1, Names DEF VaultOf, OneIdentity
<1>3. Birth'
  BY <1>0, <1>1, Names DEF VaultOf, Birth, Young
<1>4. InStep'
  BY <1>0, <1>1, Names DEF VaultOf, InStep, Kept, OneIdentity
<1>5. Kept(I)'
  BY <1>0, <1>1, Names DEF VaultOf, Kept, OneIdentity
<1>6. Copied' /\ Restored(I)'
  BY <1>0, <1>1, Names DEF VaultOf, Copied, Restored
<1> QED
  BY <1>2, <1>3, <1>4, <1>5, <1>6 DEF VaultOf

LEMMA InitVaultKeeps ==
  ASSUME DirTypes, CommandInv, NEW I \in Nat \ {0}, VaultOf(I), NEW p \in Proc,
         Dir!InitVault(p)
  PROVE  VaultOf(I)'
<1>0. /\ UNCHANGED <<identity, store, tmp, acked, bk, bpc, rpc, cut>>
      /\ vpc[p] = "closed" /\ ids' = ids + 1 /\ ids \in Nat
      /\ vpc'[p] = "born" /\ \A q \in Proc \ {p} : vpc'[q] = vpc[q]
  BY Names, Goes DEF Dir!InitVault, Dir!commands, DirTypes, VaultTypes
<1>1. /\ mem'[p].id = ids'
      /\ \A q \in Proc \ {p} : mem'[q] = mem[q]
  BY <1>0, NoVaultType DEF Dir!InitVault, DirTypes, VaultTypes, Vault
<1>2. OneIdentity(I)'
  BY <1>0, <1>1, Names DEF VaultOf, OneIdentity
<1>3. Birth'
  BY <1>0, <1>1, Names DEF VaultOf, Birth, Young
<1>4. InStep'
  BY <1>0, <1>1, Names DEF VaultOf, InStep
<1>5. Kept(I)' /\ Copied' /\ Restored(I)'
  BY <1>0, <1>1, Names DEF VaultOf, Kept, Copied, Restored
<1> QED
  BY <1>2, <1>3, <1>4, <1>5 DEF VaultOf

\* The identity that is born first is the one.
LEMMA TruncateIdentityKeeps ==
  ASSUME DirTypes, CommandInv, NEW I \in Nat \ {0}, VaultOf(I), NEW p \in Proc,
         Dir!TruncateIdentity(p), ~raced'
  PROVE  VaultOf(mem[p].id)' /\ mem[p].id \in Nat \ {0}
<1>0. /\ UNCHANGED <<store, tmp, mem, acked, bpc, rpc, cut>>
      /\ vpc[p] = "born" /\ identity = 0 /\ identity' = -1
      /\ vpc'[p] = "naming" /\ \A q \in Proc \ {p} : vpc'[q] = vpc[q]
  BY Names, Goes DEF Dir!TruncateIdentity
<1>1. /\ UNCHANGED <<bk.db, bk.identity, bk.store, bk.whole>>
      /\ bpc # "off" => bk'.newborn = TRUE
      /\ bpc = "off" => bk'.newborn = bk.newborn
  BY DEF Dir!TruncateIdentity, DirTypes, CommandTypes, Backup
<1>2. mem[p].id \in Nat \ {0}
  BY <1>0 DEF VaultOf, OneIdentity
<1>3. Young /\ bk.identity = bk.identity' /\ bk.store = bk'.store
  BY <1>0, <1>1, Names DEF VaultOf, Birth
<1>4. OneIdentity(mem[p].id)'
  BY <1>0, <1>1, <1>2, <1>3, Names, NoStoreType DEF VaultOf, OneIdentity, Birth, Young
<1>5. Birth'
  BY <1>0, <1>1, <1>3, Names DEF VaultOf, Birth, Young
<1>6. InStep'
  BY <1>0, <1>3, Names DEF VaultOf, InStep, Young
<1>7. Kept(mem[p].id)'
  BY <1>0, <1>1, <1>2, <1>3, Names, NoStoreType DEF VaultOf, Kept, Young
<1>8. Copied' /\ Restored(mem[p].id)'
  BY <1>0, <1>1, <1>3, Names, NoStoreType DEF VaultOf, Copied, Restored, Young, CommandInv
<1> QED
  BY <1>2, <1>4, <1>5, <1>6, <1>7, <1>8 DEF VaultOf

LEMMA WriteIdentityKeeps ==
  ASSUME DirTypes, CommandInv, NEW I \in Nat \ {0}, VaultOf(I), NEW p \in Proc,
         Dir!WriteIdentity(p), ~raced'
  PROVE  VaultOf(I)'
<1>0. /\ UNCHANGED <<store, tmp, acked, bpc, rpc, cut>>
      /\ vpc[p] = "naming" /\ identity = -1 /\ identity' = mem[p].id
  BY Names DEF Dir!WriteIdentity
<1>1. Young /\ mem[p].id = I
  BY <1>0, Names DEF VaultOf, Birth, OneIdentity
<1>2. /\ vpc'[p] = "open" /\ \A q \in Proc \ {p} : vpc'[q] = vpc[q]
      /\ mem' = [mem EXCEPT ![p].map = store.map]
  BY <1>1, Goes, Names, NoStoreType DEF Dir!WriteIdentity, Young
<1>3. /\ mem'[p].id = I /\ mem'[p].map = acked
      /\ \A q \in Proc \ {p} : mem'[q] = mem[q]
  BY <1>1, <1>2, NoStoreType DEF Young, DirTypes, VaultTypes, Vault
<1>4. /\ UNCHANGED <<bk.db, bk.identity, bk.store, bk.whole>>
      /\ bpc # "off" => bk'.newborn = TRUE
      /\ bpc = "off" => bk'.newborn = bk.newborn
  BY DEF Dir!WriteIdentity, DirTypes, CommandTypes, Backup
<1>5. OneIdentity(I)'
  BY <1>0, <1>1, <1>2, <1>3, <1>4, Names DEF VaultOf, OneIdentity
<1>6. Birth'
  BY <1>0, <1>1, <1>2, <1>3, <1>4, Names DEF VaultOf, Birth
<1>7. InStep'
  BY <1>0, <1>1, <1>2, <1>3, Names DEF VaultOf, InStep, Young
<1>8. Kept(I)'
  BY <1>0, <1>1, <1>4, Names, NoStoreType DEF VaultOf, Kept, Young
<1>9. Copied' /\ Restored(I)'
  BY <1>0, <1>1, <1>4, Names, NoStoreType DEF VaultOf, Copied, Restored, Young, CommandInv
<1> QED
  BY <1>5, <1>6, <1>7, <1>8, <1>9 DEF VaultOf

LEMMA SetSecretKeeps ==
  ASSUME DirTypes, CommandInv, NEW I \in Nat \ {0}, VaultOf(I), NEW p \in Proc,
         NEW k \in Key, Dir!SetSecret(p, k), ~raced'
  PROVE  VaultOf(I)'
<1>0. /\ UNCHANGED <<identity, store, acked, bk, bpc, rpc, cut>>
      /\ vpc[p] = "open" /\ ~mem[p].stale /\ \A q \in Proc \ {p} : vpc[q] \notin Dir!Storing
      /\ tmp' = Dir!TornStore
      /\ vpc'[p] = "truncated" /\ \A q \in Proc \ {p} : vpc'[q] = vpc[q]
  BY Goes DEF Dir!SetSecret, Dir!commands
<1>1. /\ mem'[p].id = mem[p].id /\ mem'[p].key = k /\ mem'[p].value = sets'
      /\ mem'[p].map = [mem[p].map EXCEPT ![k] = sets']
      /\ \A q \in Proc \ {p} : mem'[q] = mem[q]
  BY DEF Dir!SetSecret, DirTypes, VaultTypes, Vault
<1>2. OneIdentity(I)'
  BY <1>0, <1>1, Names, NoStoreType DEF VaultOf, OneIdentity
<1>3. Birth'
  BY <1>0, <1>1, Names DEF VaultOf, Birth, Young
<1>4. InStep'
  BY <1>0, <1>1, Names DEF VaultOf, InStep
<1>5. Kept(I)' /\ Copied' /\ Restored(I)'
  BY <1>0, <1>1, Names DEF VaultOf, Kept, Copied, Restored
<1> QED
  BY <1>2, <1>3, <1>4, <1>5 DEF VaultOf

LEMMA WriteTmpKeeps ==
  ASSUME DirTypes, CommandInv, NEW I \in Nat \ {0}, VaultOf(I), NEW p \in Proc,
         Dir!WriteTmp(p)
  PROVE  VaultOf(I)'
<1>0. /\ UNCHANGED <<identity, store, mem, acked, bk, bpc, rpc, cut>>
      /\ vpc[p] = "truncated" /\ tmp' = [id |-> mem[p].id, map |-> mem[p].map]
      /\ vpc'[p] = "written" /\ \A q \in Proc \ {p} : vpc'[q] = vpc[q]
  BY Goes DEF Dir!WriteTmp, Dir!commands
<1>2. OneIdentity(I)'
  BY <1>0, Names DEF VaultOf, OneIdentity
<1>3. Birth'
  BY <1>0, Names DEF VaultOf, Birth, Young
<1>4. InStep'
  BY <1>0, Names DEF VaultOf, InStep
<1>5. Kept(I)' /\ Copied' /\ Restored(I)'
  BY <1>0, Names DEF VaultOf, Kept, Copied, Restored
<1> QED
  BY <1>2, <1>3, <1>4, <1>5 DEF VaultOf

\* The store becomes what the process has in memory, and the others are stale.
LEMMA RenameTmpKeeps ==
  ASSUME DirTypes, CommandInv, NEW I \in Nat \ {0}, VaultOf(I), NEW p \in Proc,
         Dir!RenameTmp(p)
  PROVE  VaultOf(I)'
<1>0. /\ UNCHANGED <<identity, bk, bpc, rpc, cut>> /\ vpc[p] = "written"
      /\ vpc'[p] = "open" /\ \A q \in Proc \ {p} : vpc'[q] = vpc[q]
  BY Goes DEF Dir!RenameTmp, Dir!commands
<1>1. tmp.id = I /\ tmp.map = mem[p].map /\ mem[p].id = I /\ tmp # Dir!NoStore
  BY <1>0, Names, NoStoreType DEF VaultOf, InStep, OneIdentity
<1>2. /\ store' = tmp /\ tmp' = Dir!NoStore
      /\ acked' = [acked EXCEPT ![mem[p].key] = mem[p].value]
      /\ mem' = [q \in Proc |-> IF q = p THEN [mem[p] EXCEPT !.key = Dir!None, !.value = Dir!None]
                                ELSE [mem[q] EXCEPT !.stale = vpc[q] # "closed"]]
  BY <1>1 DEF Dir!RenameTmp
<1>3. /\ mem'[p].id = mem[p].id /\ mem'[p].map = mem[p].map
      /\ \A q \in Proc \ {p} : /\ mem'[q].id = mem[q].id
                               /\ vpc[q] # "closed" => mem'[q].stale = TRUE
  BY <1>2 DEF DirTypes, VaultTypes, Vault
<1>4. acked' = mem[p].map /\ \A q \in Proc \ {p} : vpc[q] \notin Dir!Storing
  BY <1>0, <1>2, Names DEF VaultOf, InStep
<1>5. OneIdentity(I)'
  BY <1>0, <1>1, <1>2, <1>3, Names, NoStoreType DEF VaultOf, OneIdentity
<1>6. Birth'
  BY <1>0, Names DEF VaultOf, Birth, Young
<1>7. InStep'
  BY <1>0, <1>3, <1>4, Names DEF VaultOf, InStep
<1>8. Kept(I)'
  <2>1. identity # I => cut /\ bk.identity # 0
    BY <1>0, Names DEF VaultOf, Kept
  <2>2. store' = tmp
    BY <1>2
  <2>3. store'.id = I /\ store'.map = acked' /\ I # -1
    BY <1>1, <1>4, <2>2
  <2> QED
    BY <1>0, <2>1, <2>3, Names DEF Kept
<1>9. Copied' /\ Restored(I)'
  BY <1>0, <1>1, <1>2, Names DEF VaultOf, Copied, Restored
<1> QED
  BY <1>5, <1>6, <1>7, <1>8, <1>9 DEF VaultOf

LEMMA CloseVaultKeeps ==
  ASSUME DirTypes, CommandInv, NEW I \in Nat \ {0}, VaultOf(I), NEW p \in Proc,
         Dir!CloseVault(p)
  PROVE  VaultOf(I)'
<1>0. /\ UNCHANGED <<identity, store, tmp, acked, bk, bpc, rpc, cut>>
      /\ vpc'[p] = "closed" /\ \A q \in Proc \ {p} : vpc'[q] = vpc[q]
      /\ \A q \in Proc \ {p} : mem'[q] = mem[q]
  BY Goes DEF Dir!CloseVault, Dir!commands, DirTypes, VaultTypes
<1>2. OneIdentity(I)'
  BY <1>0, Names DEF VaultOf, OneIdentity
<1>3. Birth'
  BY <1>0, Names DEF VaultOf, Birth, Young
<1>4. InStep'
  BY <1>0, Names DEF VaultOf, InStep
<1>5. Kept(I)' /\ Copied' /\ Restored(I)'
  BY <1>0, Names DEF VaultOf, Kept, Copied, Restored
<1> QED
  BY <1>2, <1>3, <1>4, <1>5 DEF VaultOf

LEMMA VaultInvVault ==
  ASSUME DirTypes, CommandInv, VaultInv, NEW p \in Proc, Dir!VaultStep(p)
  PROVE  VaultInv'
<1>1. raced => raced'
  BY DEF Dir!VaultStep, Dir!OpenVault, Dir!InitVault, Dir!TruncateIdentity,
         Dir!WriteIdentity, Dir!SetSecret, Dir!WriteTmp, Dir!RenameTmp, Dir!CloseVault
<1>2. SUFFICES ASSUME ~raced', NEW I \in Nat \ {0}, VaultOf(I)
               PROVE  VaultInv'
  BY <1>1 DEF VaultInv
<1>3. CASE Dir!TruncateIdentity(p)
  <2>1. (mem[p].id)' = mem[p].id
    BY <1>3 DEF Dir!TruncateIdentity
  <2> QED
    BY <1>2, <1>3, <2>1, TruncateIdentityKeeps DEF VaultInv
<1>4. CASE ~Dir!TruncateIdentity(p)
  <2>1. VaultOf(I)'
    BY <1>2, <1>4, OpenVaultKeeps, InitVaultKeeps, WriteIdentityKeeps, SetSecretKeeps,
       WriteTmpKeeps, RenameTmpKeeps, CloseVaultKeeps DEF Dir!VaultStep
  <2> QED
    BY <2>1 DEF VaultInv
<1> QED
  BY <1>3, <1>4

LEMMA VaultInvDatabase ==
  ASSUME DirTypes, VaultInv, DatabaseStep
  PROVE  VaultInv'
<1>1. UNCHANGED <<identity, store, tmp, vpc, mem, acked, raced, bpc, bk, rpc, cut>>
  BY DatabaseStepTypes
<1>2. ASSUME NEW I, VaultOf(I) PROVE VaultOf(I)'
  BY <1>1, <1>2 DEF VaultOf, OneIdentity, Birth, Young, InStep, Kept, Copied, Restored
<1> QED
  BY <1>1, <1>2 DEF VaultInv

\* What a backup copies is the identity in place and what it decrypts.
LEMMA BackupKeeps ==
  ASSUME DirTypes, CommandInv, NEW I \in Nat \ {0}, VaultOf(I), BackupStep
  PROVE  VaultOf(I)'
<1>0. /\ UNCHANGED <<identity, store, tmp, vpc, mem, acked, rpc, cut>>
      /\ bk \in Backup /\ identity \in Int /\ store \in Store
  BY BackupStepTypes DEF DirTypes, VaultTypes, CommandTypes
<1>1. InStep'
  BY <1>0 DEF VaultOf, InStep
<1>2. CASE Dir!BackupDb
  <2>1. /\ bk'.identity = 0 /\ bk'.store = Dir!NoStore /\ bk'.whole = FALSE
        /\ bk'.newborn = (identity = -1) /\ bpc' = "identity" /\ rpc = "off" /\ ~cut
    BY <1>2, BackupBegins DEF Dir!BackupDb
  <2>2. OneIdentity(I)' /\ Birth'
    BY <1>0, <2>1, Names, NoStoreType DEF VaultOf, OneIdentity, Birth, Young
  <2>3. Kept(I)'
    BY <1>0, <2>1, Names DEF VaultOf, Kept
  <2>4. bk'.store.id = 0 /\ identity' = identity /\ (~bk'.newborn => identity # -1)
    BY <1>0, <2>1, NoStoreType
  <2>5. Copied'
    BY <2>1, <2>4, Names DEF Copied
  <2>6. Restored(I)'
    BY <1>0, <2>1 DEF Restored
  <2> QED
    BY <1>1, <2>2, <2>3, <2>5, <2>6 DEF VaultOf
<1>3. CASE Dir!BackupIdentity
  <2>1. /\ bk'.identity = identity /\ bk'.store = bk.store /\ bk'.whole = bk.whole
        /\ bk'.newborn = bk.newborn /\ bpc = "identity" /\ bpc' = "store" /\ rpc = "off"
        /\ ~cut /\ ~bk.whole
    BY <1>0, <1>3 DEF Dir!BackupIdentity, Backup, CommandInv
  <2>2. bk.store.id = 0
    BY <2>1, Names DEF VaultOf, Copied
  <2>3. OneIdentity(I)' /\ Birth'
    BY <1>0, <2>1, <2>2, Names, NoStoreType DEF VaultOf, OneIdentity, Birth, Young
  <2>4. Kept(I)'
    BY <1>0, <2>1, Names DEF VaultOf, Kept
  <2>5. Copied' /\ Restored(I)'
    BY <1>0, <2>1, <2>2, Names DEF VaultOf, Copied, Restored
  <2> QED
    BY <1>1, <2>3, <2>4, <2>5 DEF VaultOf
<1>4. CASE Dir!BackupStore
  <2>1. /\ bk'.identity = bk.identity /\ bk'.store = store /\ bk'.whole = TRUE
        /\ bk'.newborn = bk.newborn /\ bpc = "store" /\ bpc' = "off" /\ rpc = "off"
        /\ ~cut /\ ~bk.whole
    BY <1>0, <1>4 DEF Dir!BackupStore, Backup, CommandInv
  <2>2. store.id \in {0, I} /\ (store.id = I => identity = I)
    BY <2>1, Names DEF VaultOf, Kept, OneIdentity
  <2>3. OneIdentity(I)' /\ Birth'
    BY <1>0, <2>1, <2>2, Names, NoStoreType DEF VaultOf, OneIdentity, Birth, Young
  <2>4. Kept(I)'
    BY <1>0, <2>1, Names DEF VaultOf, Kept
  <2>5. Copied' /\ Restored(I)'
    BY <1>0, <2>1, <2>2, Names DEF VaultOf, Copied, Restored
  <2> QED
    BY <1>1, <2>3, <2>4, <2>5 DEF VaultOf
<1>5. CASE Dir!BackupStops
  <2>1. bk' = bk /\ bpc # "off" /\ bpc' = "off"
    BY <1>5 DEF Dir!BackupStops
  <2>2. OneIdentity(I)' /\ Birth' /\ Kept(I)'
    BY <1>0, <2>1 DEF VaultOf, OneIdentity, Birth, Young, Kept
  <2>3. Copied' /\ Restored(I)'
    BY <1>0, <2>1 DEF VaultOf, Copied, Restored
  <2> QED
    BY <1>1, <2>2, <2>3 DEF VaultOf
<1> QED
  BY <1>2, <1>3, <1>4, <1>5 DEF BackupStep

\* A restore takes the identity away and brings the same one back, with a store
\* that it decrypts.
LEMMA RestoreKeeps ==
  ASSUME DirTypes, CommandInv, NEW I \in Nat \ {0}, VaultOf(I), RestoreStep, ~raced'
  PROVE  VaultOf(I)'
<1>0. UNCHANGED <<tmp, vpc, mem, bpc, bk>>
  BY RestoreStepTypes
<1>1. CASE Dir!RestoreBegins
  <2>1. /\ UNCHANGED <<identity, store, acked>> /\ cut' /\ rpc' = "db" /\ ~bk.newborn
        /\ \A p \in Proc : vpc[p] = "closed"
    BY <1>1 DEF Dir!RestoreBegins
  <2>2. OneIdentity(I)' /\ Birth' /\ InStep'
    BY <1>0, <2>1 DEF VaultOf, OneIdentity, Birth, Young, InStep
  <2>3. Kept(I)' /\ Copied' /\ Restored(I)'
    BY <1>0, <2>1 DEF VaultOf, Kept, Copied, Restored
  <2> QED
    BY <2>2, <2>3 DEF VaultOf
<1>2. CASE Dir!RestoreDb
  <2>1. /\ UNCHANGED <<store, acked, cut>> /\ rpc = "db" /\ rpc' = "identity" /\ cut /\ bpc = "off"
        /\ identity' = IF bk.identity = 0 THEN identity ELSE -1
    BY <1>2, Names DEF Dir!RestoreDb, CommandInv
  <2>2. bk.identity \in {0, I}
    BY <2>1, Names DEF VaultOf, OneIdentity, Copied, Restored
  <2>3. OneIdentity(I)' /\ InStep'
    BY <1>0, <2>1, Names DEF VaultOf, OneIdentity, InStep
  <2>4. Birth'
    BY <1>0, <2>1, <2>2, Names DEF VaultOf, Birth, Young
  <2>5. Kept(I)' /\ Copied' /\ Restored(I)'
    BY <1>0, <2>1, <2>2, Names DEF VaultOf, Kept, Copied, Restored
  <2> QED
    BY <2>3, <2>4, <2>5 DEF VaultOf
<1>3. CASE Dir!RestoreIdentity
  <2>1. /\ UNCHANGED <<acked, cut>> /\ rpc = "identity" /\ rpc' = "store" /\ cut /\ bpc = "off"
        /\ identity' = IF bk.identity = 0 THEN identity ELSE bk.identity
        /\ store' = IF bk.store.id = 0 THEN store ELSE Dir!TornStore
    BY <1>3, Names DEF Dir!RestoreIdentity, CommandInv
  <2>2. bk.identity \in {0, I}
    BY <2>1, Names DEF VaultOf, OneIdentity, Copied, Restored
  <2>3. OneIdentity(I)' /\ InStep'
    BY <1>0, <2>1, Names, NoStoreType DEF VaultOf, OneIdentity, InStep
  <2>4. Birth'
    BY <1>0, <2>1, <2>2, Names DEF VaultOf, Birth, Young
  <2>5. Kept(I)'
    BY <1>0, <2>1, <2>2, Names, NoStoreType DEF VaultOf, Kept
  <2>6. Copied' /\ Restored(I)'
    BY <1>0, <2>1, <2>2, Names DEF VaultOf, Copied, Restored
  <2> QED
    BY <2>3, <2>4, <2>5, <2>6 DEF VaultOf
<1>4. CASE Dir!RestoreStore
  <2>1. /\ UNCHANGED <<identity, cut>> /\ rpc = "store" /\ rpc' = "sidecars" /\ cut /\ bpc = "off"
        /\ bk.whole
        /\ store' = IF bk.store.id = 0 THEN store ELSE bk.store
        /\ acked' = IF bk.store.id = 0 THEN acked ELSE bk.store.map
        /\ \A p \in Proc : vpc[p] = "closed"
    BY <1>4, Names DEF Dir!RestoreStore, Dir!database, CommandInv
  <2>2. /\ bk.store.id \in {0, I}
        /\ bk.store.id = I => bk.identity = I /\ identity = I
    BY <2>1, Names DEF VaultOf, OneIdentity, Copied, Restored
  <2>3. OneIdentity(I)' /\ InStep'
    BY <1>0, <2>1, <2>2, Names, NoStoreType DEF VaultOf, OneIdentity, InStep
  <2>4. Birth'
    BY <1>0, <2>1, <2>2, Names DEF VaultOf, Birth, Young
  <2>5. Kept(I)'
    BY <1>0, <2>1, <2>2, Names, NoStoreType DEF VaultOf, Kept
  <2>6. Copied' /\ Restored(I)'
    BY <1>0, <2>1, <2>2, Names DEF VaultOf, Copied, Restored, Kept
  <2> QED
    BY <2>3, <2>4, <2>5, <2>6 DEF VaultOf
<1>5. CASE Dir!RemoveSidecars
  <2>1. UNCHANGED <<identity, store, acked>> /\ rpc = "sidecars" /\ rpc' = "off" /\ ~cut'
    BY <1>5 DEF Dir!RemoveSidecars, Dir!vault
  <2>2. store.id # -1 /\ (bk.identity # 0 => identity = I)
    BY <2>1, Names DEF VaultOf, Restored
  <2>3. OneIdentity(I)' /\ Birth' /\ InStep'
    BY <1>0, <2>1 DEF VaultOf, OneIdentity, Birth, Young, InStep
  <2>4. Kept(I)' /\ Copied' /\ Restored(I)'
    BY <1>0, <2>1, <2>2, Names DEF VaultOf, Kept, Copied, Restored
  <2> QED
    BY <2>3, <2>4 DEF VaultOf
<1>6. CASE Dir!RestoreStops
  <2>1. UNCHANGED <<identity, store, acked, cut>> /\ rpc' = "off"
    BY <1>6 DEF Dir!RestoreStops, Dir!vault
  <2> QED
    BY <1>0, <2>1
    DEF VaultOf, OneIdentity, Birth, Young, InStep, Kept, Copied, Restored
<1> QED
  BY <1>1, <1>2, <1>3, <1>4, <1>5, <1>6 DEF RestoreStep

LEMMA VaultInvStep ==
  ASSUME DirTypes, CommandInv, VaultInv, Dir!Next
  PROVE  VaultInv'
<1>1. CASE BackupStep
  <2>1. raced' = raced
    BY <1>1, BackupStepTypes
  <2> QED
    BY <1>1, <2>1, BackupKeeps DEF VaultInv
<1>2. CASE RestoreStep
  <2>1. raced => raced'
    BY <1>2 DEF RestoreStep, Dir!RestoreBegins, Dir!RestoreDb, Dir!RestoreIdentity,
         Dir!RestoreStore, Dir!RemoveSidecars, Dir!RestoreStops, Dir!vault
  <2> QED
    BY <1>2, <2>1, RestoreKeeps DEF VaultInv
<1> QED
  BY <1>1, <1>2, DirSteps, VaultInvVault, VaultInvDatabase

LEMMA DirInvariant == Spec => []DirInv
<1>1. Init => DirInv
  BY DirBegins DEF Init
<1>2. DirInv /\ [Next]_<<part, memoryVars, dataDirVars, updateVars>> => DirInv'
  <2> SUFFICES ASSUME DirInv, [Next]_<<part, memoryVars, dataDirVars, updateVars>>
               PROVE  DirInv'
    OBVIOUS
  <2>1. CASE Dir!Next
    <3>1. DirTypes'
      BY <2>1, DirSteps, VaultStepTypes, DatabaseStepTypes, BackupStepTypes, RestoreStepTypes
      DEF DirInv
    <3> QED
      BY <2>1, <3>1, CommandStep, VaultInvStep, DatabaseInvStep DEF DirInv
  <2>2. CASE UNCHANGED dataDirVars
    <3>1. DirTypes'
      BY <2>2 DEF dataDirVars, DirInv, DirTypes, VaultTypes, DatabaseTypes, CommandTypes
    <3>2. CommandInv'
      BY <2>2 DEF dataDirVars, DirInv, CommandInv
    <3>3. VaultInv'
      <4>1. ASSUME NEW I, VaultOf(I) PROVE VaultOf(I)'
        BY <2>2, <4>1
        DEF dataDirVars, VaultOf, OneIdentity, Birth, Young, InStep, Kept, Copied, Restored
      <4>2. raced' = raced
        BY <2>2 DEF dataDirVars
      <4> QED
        BY <4>1, <4>2 DEF DirInv, VaultInv
    <3>4. DatabaseInv'
      BY <2>2 DEF dataDirVars, DirInv, DatabaseInv, Matched, LogAhead, RowsKept, Dir!Replayed
    <3> QED
      BY <3>1, <3>2, <3>3, <3>4 DEF DirInv
  <2> QED
    BY <2>1, <2>2 DEF Next, MemoryNext, DataDirNext, SelfUpdateNext
<1> QED
  BY <1>1, <1>2, PTL DEF Spec

-----------------------------------------------------------------------------
(* The theorems.                                                           *)

\* For any number of processes, keys, deaths, backups and restores: a secret whose
\* set returned Ok is in a store that the identity decrypts, unless writers of the
\* vault overlapped or a restore was cut short and not run again (AgeFileVault::set
\* and flush, open_or_init, ops.rs restore).
THEOREM SecretsAreKept == Spec => []SecretsKept
<1>1. DirInv => SecretsKept
  <2> SUFFICES ASSUME DirInv, ~raced, ~cut, NEW k \in Key, acked[k] # 0
               PROVE  identity = store.id /\ store.map[k] = acked[k]
    BY Names DEF SecretsKept, Dir!SecretsKept
  <2>1. PICK I \in Nat \ {0} : VaultOf(I)
    BY DEF DirInv, VaultInv
  <2>2. store.id # -1 /\ store.map = acked
    BY <2>1, Names DEF VaultOf, Kept
  <2>3. store.id # 0
    BY <2>1, <2>2, Names, NoStoreType, NoMapType DEF VaultOf, OneIdentity
  <2>4. store.id = I /\ identity = I
    BY <2>1, <2>2, <2>3, Names DEF VaultOf, OneIdentity, Kept
  <2> QED
    BY <2>2, <2>4
<1> QED
  BY <1>1, DirInvariant, PTL

\* For the same: a whole backup with a store has the identity that decrypts it,
\* unless the vault was created while it ran or its writers overlapped (ops.rs
\* backup, which copies the identity before the store).
THEOREM BackupsDecrypt == Spec => []BackupDecrypts
<1>1. DirInv => BackupDecrypts
  BY DEF DirInv, VaultInv, VaultOf, Copied, BackupDecrypts, Dir!BackupDecrypts
<1> QED
  BY <1>1, DirInvariant, PTL

\* For any number of rows, deaths, backups and restores: the database is never made
\* of two lineages and has every committed row and no other, unless a restore was cut
\* short and not run again or ran under an open database; where a restore without a
\* database removed a log that held rows, it still has no row that was not committed
\* (ops.rs restore, which removes the sidecars last).
THEOREM DatabaseStaysSound == Spec => []DatabaseSound
<1>1. DirInv => DatabaseSound
  <2> SUFFICES ASSUME DirInv, ~cut, ~under
               PROVE  /\ db # Dir!Mixed
                      /\ db.gen # 0 =>
                           Dir!Replayed.n <= rows /\ (~stripped => Dir!Replayed.n = rows)
    BY Names DEF DatabaseSound, Dir!DatabaseSound
  <2>1. db.gen >= 0 /\ RowsKept
    BY Names DEF DirInv, DatabaseInv, Matched
  <2> QED
    BY <2>1, NoDbType, Names DEF RowsKept
<1> QED
  BY <1>1, DirInvariant, PTL
=============================================================================
