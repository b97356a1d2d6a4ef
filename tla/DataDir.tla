------------------------------- MODULE DataDir --------------------------------
(***************************************************************************)
(* The files of data_dir(): the age vault (crates/sa-vault/src/age_file.rs)  *)
(* written by several processes, the database with its write-ahead log, and *)
(* the backup and restore commands (secretagent/src/ops.rs) that copy both. *)
(*                                                                         *)
(* A file is written in two steps, the truncation and the bytes, and a      *)
(* process may end between any two steps.  A vault file is the identity it  *)
(* is encrypted to and its map; a database is its lineage and the number of *)
(* rows committed.  A write-ahead log belongs to the lineage it was written *)
(* for: SQLite replays it onto whatever memory.db it finds.                *)
(***************************************************************************)
EXTENDS Integers

CONSTANTS
  Proc,         \* processes that open the vault
  Key,          \* names of secrets
  MaxWrites,    \* bound: values set and rows committed, together
  MaxIds,       \* bound: identities ever generated
  MaxBackups,   \* bound: backups begun
  MaxRestores,  \* bound: restores begun
  MaxKills      \* bound: processes that die

\* Of the constants; MCInstallation assumes it.
DataDirAssumption ==
  /\ MaxWrites \in Nat /\ MaxIds \in Nat
  /\ MaxBackups \in Nat /\ MaxRestores \in Nat /\ MaxKills \in Nat

VARIABLES
  identity,  \* identity.age: the identity, None or Torn
  store,     \* store.age
  tmp,       \* store.age.tmp
  vpc, mem,  \* each process: where it is in the vault's code, and its vault
  db, wal,   \* memory.db and memory.db-wal
  open,      \* whether a process has the database open
  bpc, bk,   \* the backup command and the directory it fills
  rpc,       \* the restore command
  \* history
  sets, ids, backups, restores, kills,  \* counters of the bounds
  acked,     \* the value of each key that the last set returned Ok for
  raced,     \* two writers of the vault overlapped, or what a backup saw of a
             \* vault that was being created was restored
  rows,      \* rows committed, or in the database that a restore brought
  stripped,  \* a restore without a database has removed a log that held rows
  cut,       \* the last restore did not end
  under      \* a restore began or ran under an open database

vault == <<identity, store, tmp, vpc, mem, acked, raced>>
database == <<db, wal, open, rows, stripped>>
commands == <<bpc, bk, rpc, cut, under>>
counters == <<sets, ids, backups, restores, kills>>
vars == <<vault, database, commands, counters>>

None == 0
Torn == -1

NoMap == [k \in Key |-> None]
NoStore == [id |-> None, map |-> NoMap]
TornStore == [id |-> Torn, map |-> NoMap]

\* gen: the lineage; a backup's copy begins one of its own.
NoDb == [gen |-> None, n |-> 0]
TornDb == [gen |-> Torn, n |-> 0]
\* Pages of two lineages.
Mixed == [gen |-> -2, n |-> 0]

\* newborn: the vault was created while the backup ran.
NoBackup == [db |-> NoDb, identity |-> None, store |-> NoStore, whole |-> FALSE,
             newborn |-> FALSE]

\* key: the key being set; stale: another process has stored since the load.
NoVault == [id |-> None, map |-> NoMap, key |-> None, value |-> None, stale |-> FALSE]

Storing == {"truncated", "written"}
-----------------------------------------------------------------------------
Init ==
  /\ identity = None /\ store = NoStore /\ tmp = NoStore
  /\ vpc = [p \in Proc |-> "closed"] /\ mem = [p \in Proc |-> NoVault]
  /\ db = NoDb /\ wal = NoDb /\ open = FALSE /\ rows = 0 /\ stripped = FALSE
  /\ bpc = "off" /\ bk = NoBackup /\ rpc = "off"
  /\ sets = 0 /\ ids = 0 /\ backups = 0 /\ restores = 0 /\ kills = 0
  /\ acked = NoMap /\ raced = FALSE /\ cut = FALSE /\ under = FALSE
-----------------------------------------------------------------------------
(* The vault.                                                              *)

VGoto(p, l) == vpc' = [vpc EXCEPT ![p] = l]

\* open_or_init of a vault that exists: Err on a torn identity, and on a store
\* that it does not decrypt.
OpenVault(p) ==
  /\ vpc[p] = "closed"
  /\ identity \notin {None, Torn}
  /\ store.id \in {None, identity}
  /\ VGoto(p, "open")
  /\ mem' = [mem EXCEPT ![p] = [NoVault EXCEPT !.id = identity, !.map = store.map]]
  /\ UNCHANGED <<identity, store, tmp, acked, raced, database, commands, counters>>

\* open_or_init finds no identity, generates one and truncates the file.
InitVault(p) ==
  /\ vpc[p] = "closed"
  /\ identity = None /\ ids < MaxIds
  /\ ids' = ids + 1
  /\ VGoto(p, "born")
  /\ mem' = [mem EXCEPT ![p] = [NoVault EXCEPT !.id = ids']]
  /\ UNCHANGED <<identity, store, tmp, acked, raced, database, commands, sets, backups,
                 restores, kills>>

\* write_0600: create and truncate.
TruncateIdentity(p) ==
  /\ vpc[p] = "born"
  /\ identity' = Torn
  /\ raced' = (raced \/ identity # None)
  /\ VGoto(p, "naming")
  /\ bk' = [bk EXCEPT !.newborn = @ \/ bpc # "off"]
  /\ UNCHANGED <<store, tmp, mem, acked, database, bpc, rpc, cut, under, counters>>

\* write_0600: the bytes; then the store is read.
WriteIdentity(p) ==
  /\ vpc[p] = "naming"
  /\ identity' = mem[p].id
  /\ raced' = (raced \/ identity # Torn)
  /\ bk' = [bk EXCEPT !.newborn = @ \/ bpc # "off"]
  /\ IF store.id \in {None, mem[p].id}
     THEN VGoto(p, "open") /\ mem' = [mem EXCEPT ![p].map = store.map]
     ELSE VGoto(p, "closed") /\ mem' = [mem EXCEPT ![p] = NoVault]
  /\ UNCHANGED <<store, tmp, acked, database, bpc, rpc, cut, under, counters>>

\* set: the map in memory, and flush truncates the temporary file, which is the
\* same one for every process.
SetSecret(p, k) ==
  /\ vpc[p] = "open" /\ sets + rows < MaxWrites
  /\ sets' = sets + 1
  /\ mem' = [mem EXCEPT ![p].map[k] = sets', ![p].key = k, ![p].value = sets']
  /\ tmp' = TornStore
  /\ raced' = (raced \/ mem[p].stale \/ \E q \in Proc \ {p} : vpc[q] \in Storing)
  /\ VGoto(p, "truncated")
  /\ UNCHANGED <<identity, store, acked, database, commands, ids, backups, restores, kills>>

MutWriteInPlace(p) ==
  /\ vpc[p] = "truncated"
  /\ store' = TornStore
  /\ tmp' = [id |-> mem[p].id, map |-> mem[p].map]
  /\ VGoto(p, "written")
  /\ UNCHANGED <<identity, mem, acked, raced, database, commands, counters>>

WriteTmp(p) ==
  /\ vpc[p] = "truncated"
  /\ tmp' = [id |-> mem[p].id, map |-> mem[p].map]
  /\ VGoto(p, "written")
  /\ UNCHANGED <<identity, store, mem, acked, raced, database, commands, counters>>

\* The rename, and set returns Ok; Err if another process has renamed the file.
RenameTmp(p) ==
  /\ vpc[p] = "written"
  /\ VGoto(p, "open")
  /\ IF tmp = NoStore THEN UNCHANGED <<store, tmp, acked, mem>>
     ELSE /\ store' = tmp
          /\ tmp' = NoStore
          /\ acked' = [acked EXCEPT ![mem[p].key] = mem[p].value]
          /\ mem' = [q \in Proc |->
                       IF q = p THEN [mem[p] EXCEPT !.key = None, !.value = None]
                       ELSE [mem[q] EXCEPT !.stale = vpc[q] # "closed"]]
  /\ UNCHANGED <<identity, raced, database, commands, counters>>

\* The process ends, between two calls or in the middle of one.
CloseVault(p) ==
  /\ vpc[p] # "closed"
  /\ \/ vpc[p] = "open" /\ UNCHANGED kills
     \/ vpc[p] # "open" /\ kills < MaxKills /\ kills' = kills + 1
  /\ VGoto(p, "closed")
  /\ mem' = [mem EXCEPT ![p] = NoVault]
  /\ UNCHANGED <<identity, store, tmp, acked, raced, database, commands, sets, ids,
                 backups, restores>>
-----------------------------------------------------------------------------
(* The database.                                                           *)

\* What opening finds: the log is replayed, onto a file of another lineage too.
Replayed ==
  IF wal.gen = None THEN db
  ELSE IF wal.gen = db.gen THEN [db EXCEPT !.n = wal.n] ELSE Mixed

\* Store::open: the file is created, or opened and its log replayed.
OpenDb ==
  /\ ~open /\ db.gen \notin {Torn, Mixed.gen}
  /\ open' = TRUE
  /\ db' = IF db.gen = None THEN [gen |-> 1, n |-> 0] ELSE Replayed
  /\ wal' = [gen |-> db'.gen, n |-> db'.n]
  /\ under' = (under \/ rpc # "off")
  /\ UNCHANGED <<rows, stripped, vault, bpc, bk, rpc, cut, counters>>

Commit ==
  /\ open /\ wal.gen = db.gen /\ db.gen > None /\ sets + rows < MaxWrites
  /\ rows' = rows + 1
  /\ wal' = [wal EXCEPT !.n = @ + 1]
  /\ UNCHANGED <<db, open, stripped, vault, commands, counters>>

\* The last connection is closed: a checkpoint, and the log is removed.
CloseDb ==
  /\ open
  /\ open' = FALSE
  /\ db' = Replayed
  /\ wal' = NoDb
  /\ UNCHANGED <<rows, stripped, vault, commands, counters>>

\* The process dies: the log stays.
KillDb ==
  /\ open /\ kills < MaxKills
  /\ kills' = kills + 1
  /\ open' = FALSE
  /\ UNCHANGED <<db, wal, rows, stripped, vault, commands, sets, ids, backups, restores>>
-----------------------------------------------------------------------------
(* Backup: the online snapshot, then the flat files.                       *)

\* Store::open, which replays the log, backup_to, and the close.
BackupDb ==
  /\ bpc = "off" /\ rpc = "off" /\ ~cut /\ backups < MaxBackups
  /\ backups' = backups + 1
  /\ db.gen \notin {Torn, Mixed.gen}
  /\ bk' = [NoBackup EXCEPT !.db =
              IF db.gen = None THEN NoDb
              ELSE [gen |-> backups' + 1, n |-> Replayed.n],
                                  !.newborn = identity = Torn]
  /\ bpc' = "identity"
  /\ IF open \/ db.gen = None THEN UNCHANGED <<db, wal>> ELSE db' = Replayed /\ wal' = NoDb
  /\ UNCHANGED <<vault, open, rows, stripped, rpc, cut, under, sets, ids, restores, kills>>

MutBackupIdentityLast ==
  /\ bpc = "identity"
  /\ bk' = [bk EXCEPT !.store = store]
  /\ bpc' = "store"
  /\ UNCHANGED <<vault, database, rpc, cut, under, counters>>

BackupIdentity ==
  /\ bpc = "identity"
  /\ bk' = [bk EXCEPT !.identity = identity]
  /\ bpc' = "store"
  /\ UNCHANGED <<vault, database, rpc, cut, under, counters>>

\* store.age and, last, audit.jsonl.
BackupStore ==
  /\ bpc = "store"
  /\ bk' = [bk EXCEPT !.store = store, !.whole = TRUE]
  /\ bpc' = "off"
  /\ UNCHANGED <<vault, database, rpc, cut, under, counters>>

\* A copy fails, or the command is killed.
BackupStops ==
  /\ bpc # "off" /\ kills < MaxKills
  /\ kills' = kills + 1
  /\ bpc' = "off"
  /\ UNCHANGED <<vault, database, bk, rpc, cut, under, sets, ids, backups, restores>>
-----------------------------------------------------------------------------
(* Restore: memory.db, identity.age, store.age, then the sidecars.          *)

\* A copy truncates its target first.  A file that the backup lacks is left.
RestoreBegins ==
  /\ rpc = "off" /\ bpc = "off" /\ bk.whole /\ restores < MaxRestores
  /\ restores' = restores + 1
  /\ rpc' = "db"
  /\ cut' = TRUE
  /\ under' = open
  /\ raced' = (raced \/ bk.newborn \/ \E p \in Proc : vpc[p] # "closed")
  /\ db' = IF bk.db.gen = None THEN db ELSE TornDb
  /\ UNCHANGED <<identity, store, tmp, vpc, mem, acked, wal, open, rows, stripped,
                 bpc, bk, sets, ids, backups, kills>>

RestoreDb ==
  /\ rpc = "db"
  /\ rpc' = "identity"
  /\ db' = IF bk.db.gen = None THEN db ELSE bk.db
  /\ identity' = IF bk.identity = None THEN identity ELSE Torn
  /\ UNCHANGED <<store, tmp, vpc, mem, acked, raced, wal, open, rows, stripped, bpc, bk, cut,
                 under, counters>>

RestoreIdentity ==
  /\ rpc = "identity"
  /\ rpc' = "store"
  /\ identity' = IF bk.identity = None THEN identity ELSE bk.identity
  /\ store' = IF bk.store.id = None THEN store ELSE TornStore
  /\ UNCHANGED <<tmp, vpc, mem, acked, raced, database, bpc, bk, cut, under, counters>>

RestoreStore ==
  /\ rpc = "store"
  /\ rpc' = "sidecars"
  /\ store' = IF bk.store.id = None THEN store ELSE bk.store
  /\ acked' = IF bk.store.id = None THEN acked ELSE bk.store.map
  /\ raced' = (raced \/ \E p \in Proc : vpc[p] # "closed")
  /\ UNCHANGED <<identity, tmp, vpc, mem, database, bpc, bk, cut, under, counters>>

MutSidecarsLeft ==
  /\ rpc = "sidecars"
  /\ rpc' = "off"
  /\ cut' = FALSE
  /\ rows' = IF bk.db.gen = None THEN rows ELSE bk.db.n
  /\ UNCHANGED <<wal, stripped, vault, db, open, bpc, bk, under, counters>>

\* The sidecars are removed whether or not memory.db was restored; if it was not,
\* the rows that only the log held are gone.
RemoveSidecars ==
  /\ rpc = "sidecars"
  /\ rpc' = "off"
  /\ cut' = FALSE
  /\ wal' = NoDb
  /\ IF bk.db.gen = None
     THEN stripped' = (stripped \/ Replayed # db) /\ UNCHANGED rows
     ELSE stripped' = FALSE /\ rows' = bk.db.n
  /\ UNCHANGED <<vault, db, open, bpc, bk, under, counters>>

\* It is killed, or a copy fails.
RestoreStops ==
  /\ rpc # "off" /\ kills < MaxKills
  /\ kills' = kills + 1
  /\ rpc' = "off"
  /\ UNCHANGED <<vault, database, bpc, bk, cut, under, sets, ids, backups, restores>>

VaultStep(p) ==
  \/ OpenVault(p) \/ InitVault(p) \/ TruncateIdentity(p) \/ WriteIdentity(p)
  \/ \E k \in Key : SetSecret(p, k)
  \/ WriteTmp(p) \/ RenameTmp(p) \/ CloseVault(p)

Next ==
  \/ \E p \in Proc : VaultStep(p)
  \/ OpenDb \/ Commit \/ CloseDb \/ KillDb
  \/ BackupDb \/ BackupIdentity \/ BackupStore \/ BackupStops
  \/ RestoreBegins \/ RestoreDb \/ RestoreIdentity \/ RestoreStore \/ RemoveSidecars
  \/ RestoreStops

Spec == Init /\ [][Next]_vars
-----------------------------------------------------------------------------
(* Properties.                                                             *)

\* A secret whose set returned Ok is in a store that the identity decrypts,
\* after any crash, unless writers of the vault overlapped or a restore was cut
\* short and not run again.
SecretsKept ==
  (~raced /\ ~cut) =>
    \A k \in Key : acked[k] # None =>
      /\ identity = store.id
      /\ store.map[k] = acked[k]

\* A whole backup with a store has the identity that decrypts it, unless the
\* vault was created while it ran: "the identity travels with it so the backup
\* is decryptable" (ops.rs:6).
BackupDecrypts ==
  (bk.whole /\ bk.store.id # None /\ ~bk.newborn /\ ~raced) => bk.identity = bk.store.id

\* The database is never made of two lineages and has every committed row, neither
\* more nor fewer, unless a restore was cut short and not run again or ran under an
\* open database: an interrupted restore "is recoverable by re-running"
\* (ops.rs:21-22).  One restore that ends and runs alone does lose rows: with a
\* backup that has no memory.db it removes the log of the one in place all the same
\* (ops.rs:133-138), and after that rows may be missing, but none is made up.
DatabaseSound ==
  (~cut /\ ~under) =>
    /\ db # Mixed
    /\ db.gen # None => Replayed.n <= rows /\ (~stripped => Replayed.n = rows)
=============================================================================
