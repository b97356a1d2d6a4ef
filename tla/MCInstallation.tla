---------------------------- MODULE MCInstallation ----------------------------
(***************************************************************************)
(* The three parts of an installation that outlive a process: its database  *)
(* (Memory), its other files (DataDir) and its binary (SelfUpdate).  They   *)
(* share no variable, so that a behaviour of all three is three behaviours  *)
(* side by side, and an invariant or a step property of one holds in the    *)
(* product if it holds alone: `part` chooses the one that a behaviour       *)
(* follows, and the others stay as they begin.                             *)
(***************************************************************************)
EXTENDS Integers, TLC

CONSTANTS Proc, Session, Key,
          SCHEMA_VERSION, SUMMARY_KEEP_RECENT, MaxMsgs, MaxRuns, MaxKills,
          MaxWrites, MaxIds, MaxBackups, MaxRestores, MaxLosses,
          Release, Artifacts, Platform, MaxFaults

VARIABLES
  part,
  version, tables, messages, summaries, skill, pc, loc, kills,
  identity, store, tmp, vpc, mem, db, wal, open, bpc, bk, rpc, sets, ids, backups,
  restores, losses, acked, raced, rows, stripped, cut, under,
  platform, exe, old, stray, temp, recorded, upc, running, manifest, aside, target,
  last, faults

memoryVars == <<version, tables, messages, summaries, skill, pc, loc, kills>>

dataDirVars == <<identity, store, tmp, vpc, mem, db, wal, open, bpc, bk, rpc, sets, ids,
                 backups, restores, losses, acked, raced, rows, stripped, cut, under>>

updateVars == <<platform, exe, old, stray, temp, recorded, upc, running, manifest, aside,
                target, last, faults>>

Mem == INSTANCE Memory

Dir == INSTANCE DataDir WITH MaxKills <- MaxLosses, kills <- losses

Upd == INSTANCE SelfUpdate WITH pc <- upc

ASSUME InstallationAssumption ==
  Mem!MemoryAssumption /\ Dir!DataDirAssumption /\ Upd!SelfUpdateAssumption

Init ==
  /\ part \in {"memory", "data_dir", "self_update"}
  /\ Mem!Init /\ Dir!Init /\ Upd!Init
  /\ part # "memory" => version = 0
  /\ part # "self_update" => platform = "unix"

MemoryNext == part = "memory" /\ Mem!Next /\ UNCHANGED <<part, dataDirVars, updateVars>>

DataDirNext == part = "data_dir" /\ Dir!Next /\ UNCHANGED <<part, memoryVars, updateVars>>

SelfUpdateNext == part = "self_update" /\ Upd!Next /\ UNCHANGED <<part, memoryVars, dataDirVars>>

Next == MemoryNext \/ DataDirNext \/ SelfUpdateNext

Spec == Init /\ [][Next]_<<part, memoryVars, dataDirVars, updateVars>>

Symmetry == Permutations(Proc)

\* Memory: a crash or a race of opens never wedges the schema.
SchemaWhole == Mem!SchemaWhole

\* Memory: a summary was made from exactly the messages up to its watermark.
SummaryCovers == Mem!SummaryCovers

\* Memory: the lineage of a skill has every version once, though uses race.
LineageComplete == Mem!LineageComplete

\* Memory: a watermark goes back only when a summary was overtaken.
RegressExplained == Mem!RegressExplained

\* DataDir: an acknowledged secret survives every crash and restore.
SecretsKept == Dir!SecretsKept

\* DataDir: a whole backup decrypts with the identity in it.
BackupDecrypts == Dir!BackupDecrypts

\* DataDir: the database is never made of two lineages and keeps its rows.
DatabaseSound == Dir!DatabaseSound

\* SelfUpdate: a complete binary is always there to start.
BinarySurvives == Upd!BinarySurvives

\* SelfUpdate: a binary in place was signed, hashed and recorded.
InstalledRecorded == Upd!InstalledRecorded

\* SelfUpdate: only an overtaken command puts an older release in place.
DowngradeExplained == Upd!DowngradeExplained
=============================================================================
