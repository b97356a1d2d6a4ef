------------------------------ MODULE SelfUpdate ------------------------------
(***************************************************************************)
(* secretagent/src/self_update.rs: `self-update` commands that run at the   *)
(* same time on one installation, against a mirror that may serve any       *)
(* release ever signed, bytes nobody signed, or the parts of two releases.  *)
(*                                                                         *)
(* A binary is the release it was built for; Forged stands for any other    *)
(* bytes.  On Windows a file that runs can be renamed but neither deleted   *)
(* nor replaced; on Unix the path of a running binary that was replaced is  *)
(* another one ("... (deleted)").  A process may end between any two steps. *)
(***************************************************************************)
EXTENDS Integers, FiniteSets

CONSTANTS
  Proc,        \* self-update commands
  Release,     \* the versions that were ever signed
  Artifacts,   \* those that have a binary for this target
  Platform,    \* "unix", "windows" or both
  MaxFaults    \* bound: failures of requests and files, and deaths

\* Of the constants; MCInstallation assumes it.
SelfUpdateAssumption ==
  /\ Release \subseteq Nat \ {0} /\ Release # {} /\ IsFiniteSet(Release)
  /\ Artifacts \subseteq Release
  /\ Platform \subseteq {"unix", "windows"}
  /\ MaxFaults \in Nat

VARIABLES
  platform,
  exe,       \* the installed binary
  old,       \* Windows: exe.old
  stray,     \* Unix: the file beside it whose name ends in (deleted)
  temp,      \* each command's staging file
  recorded,  \* versions with a self_update record in the log
  pc,
  running,   \* the release whose code each command runs
  manifest,  \* the version of the manifest in hand
  aside,     \* Windows: whether this command moved a binary aside
  target,    \* what current_exe returned: "exe" or "stray"
  last,      \* history: the release put in place last
  faults     \* history: failures so far

files == <<exe, old, stray, temp>>
locals == <<running, manifest, aside, target>>
vars == <<platform, files, recorded, pc, locals, last, faults>>

NoFile == 0
Forged == -1
Partial == -2

Goto(p, l) == pc' = [pc EXCEPT ![p] = l]

\* A file that a live process runs.
InUse(f) == \E p \in Proc : pc[p] # "off" /\ running[p] = f
-----------------------------------------------------------------------------
Oldest == CHOOSE v \in Release : \A w \in Release : v <= w

Init ==
  /\ platform \in Platform
  /\ exe = Oldest /\ old = NoFile /\ stray = NoFile
  /\ temp = [p \in Proc |-> NoFile]
  /\ recorded = {}
  /\ pc = [p \in Proc |-> "off"]
  /\ running = [p \in Proc |-> NoFile]
  /\ manifest = [p \in Proc |-> NoFile]
  /\ aside = [p \in Proc |-> FALSE]
  /\ target = [p \in Proc |-> "exe"]
  /\ last = Oldest
  /\ faults = 0

\* The command starts from the installed binary, with a pinned key.
Start(p) ==
  /\ pc[p] = "off"
  /\ exe \in Release
  /\ running' = [running EXCEPT ![p] = exe]
  /\ Goto(p, "manifest")
  /\ UNCHANGED <<platform, files, recorded, manifest, aside, target, last, faults>>

\* The command returns Err, and what it staged stays.
Ends(p) ==
  /\ Goto(p, "off")
  /\ running' = [running EXCEPT ![p] = NoFile]
  /\ manifest' = [manifest EXCEPT ![p] = NoFile]
  /\ aside' = [aside EXCEPT ![p] = FALSE]
  /\ target' = [target EXCEPT ![p] = "exe"]

\* latest.json.
FetchManifest(p) ==
  /\ pc[p] = "manifest"
  /\ \E v \in Release \cup {Forged} : manifest' = [manifest EXCEPT ![p] = v]
  /\ Goto(p, "signature")
  /\ UNCHANGED <<platform, files, recorded, running, aside, target, last, faults>>

\* The second request, and verify_manifest: the signature of these very bytes.
FetchSignature(p) ==
  /\ pc[p] = "signature"
  /\ \E signed \in Release :
       IF signed = manifest[p]
       THEN Goto(p, "compare") /\ UNCHANGED locals
       ELSE Ends(p)
  /\ UNCHANGED <<platform, files, recorded, last, faults>>

MutEnsureUpgrade(p) ==
  /\ pc[p] = "compare"
  /\ Goto(p, "binary") /\ UNCHANGED locals
  /\ UNCHANGED <<platform, files, recorded, last, faults>>

\* ensure_upgrade against the version compiled in, and select_artifact; a check
\* without an update ends here too.
EnsureUpgrade(p) ==
  /\ pc[p] = "compare"
  /\ \/ /\ manifest[p] > running[p] /\ manifest[p] \in Artifacts
        /\ Goto(p, "binary") /\ UNCHANGED locals
     \/ Ends(p)
  /\ UNCHANGED <<platform, files, recorded, last, faults>>

\* The binary, and ensure_sha256: it is the one of the manifest.
FetchBinary(p) ==
  /\ pc[p] = "binary"
  /\ \E bytes \in Release \cup {Forged} :
       IF bytes = manifest[p] THEN Goto(p, "locate") /\ UNCHANGED locals
       ELSE Ends(p)
  /\ UNCHANGED <<platform, files, recorded, last, faults>>

\* A request fails or is too long.
FetchFails(p) ==
  /\ pc[p] \in {"manifest", "signature", "binary"}
  /\ faults < MaxFaults /\ faults' = faults + 1
  /\ Ends(p)
  /\ UNCHANGED <<platform, files, recorded, last>>

\* current_exe.
Locate(p) ==
  /\ pc[p] = "locate"
  /\ target' = [target EXCEPT ![p] =
                  IF platform = "unix" /\ exe # running[p] THEN "stray" ELSE "exe"]
  /\ Goto(p, "create")
  /\ UNCHANGED <<platform, files, recorded, running, manifest, aside, last, faults>>

\* create_new of a name of its own.
CreateTemp(p) ==
  /\ pc[p] = "create"
  /\ temp' = [temp EXCEPT ![p] = Partial]
  /\ Goto(p, "write")
  /\ UNCHANGED <<platform, exe, old, stray, recorded, locals, last, faults>>

\* write_all and make_executable.
WriteTemp(p) ==
  /\ pc[p] = "write"
  /\ temp' = [temp EXCEPT ![p] = manifest[p]]
  /\ Goto(p, "record")
  /\ UNCHANGED <<platform, exe, old, stray, recorded, locals, last, faults>>

\* Neither removes the staged file on Err, nor does Audit::open.
StageFails(p) ==
  /\ pc[p] \in {"create", "write", "record"}
  /\ faults < MaxFaults /\ faults' = faults + 1
  /\ Ends(p)
  /\ UNCHANGED <<platform, files, recorded, last>>

MutRecordLater(p) ==
  /\ pc[p] = "record"
  /\ Goto(p, "swap")
  /\ UNCHANGED <<platform, files, recorded, locals, last, faults>>

\* append_synced; its Err removes the staged file.
Record(p) ==
  /\ pc[p] = "record"
  /\ recorded' = recorded \cup {manifest[p]}
  /\ Goto(p, IF platform = "windows" THEN "clear" ELSE "swap")
  /\ UNCHANGED <<platform, files, locals, last, faults>>

\* append_synced or a rename returns Err: the staged file is removed.
Dropped(p) ==
  /\ faults < MaxFaults /\ faults' = faults + 1
  /\ temp' = [temp EXCEPT ![p] = NoFile]
  /\ Ends(p)

RecordFails(p) ==
  /\ pc[p] = "record"
  /\ Dropped(p)
  /\ UNCHANGED <<platform, exe, old, stray, recorded, last>>

\* atomic_replace on Unix: one rename onto what current_exe named.
Swap(p) ==
  /\ pc[p] = "swap"
  /\ IF target[p] = "exe"
     THEN exe' = temp[p] /\ last' = temp[p] /\ UNCHANGED stray
     ELSE stray' = temp[p] /\ UNCHANGED <<exe, last>>
  /\ temp' = [temp EXCEPT ![p] = NoFile]
  /\ Ends(p)
  /\ UNCHANGED <<platform, old, recorded, faults>>

SwapFails(p) ==
  /\ pc[p] = "swap"
  /\ Dropped(p)
  /\ UNCHANGED <<platform, exe, old, stray, recorded, last>>
-----------------------------------------------------------------------------
(* atomic_replace on Windows.                                              *)

\* exe.old is removed, unless it runs.
ClearOld(p) ==
  /\ pc[p] = "clear"
  /\ old' = IF InUse(old) THEN old ELSE NoFile
  /\ Goto(p, "move")
  /\ UNCHANGED <<platform, exe, stray, temp, recorded, locals, last, faults>>

MutMoveAside(p) ==
  /\ pc[p] = "move"
  /\ exe # NoFile
  /\ exe' = NoFile
  /\ Goto(p, "place")
  /\ aside' = [aside EXCEPT ![p] = FALSE]
  /\ UNCHANGED <<platform, old, stray, temp, recorded, running, manifest, target, last,
                 faults>>

\* The installed binary, if there is one, is moved aside, over an exe.old that
\* does not run.
MoveAside(p) ==
  /\ pc[p] = "move"
  /\ exe # NoFile => ~InUse(old)
  /\ exe' = NoFile
  /\ old' = IF exe = NoFile THEN old ELSE exe
  /\ aside' = [aside EXCEPT ![p] = exe # NoFile]
  /\ Goto(p, "place")
  /\ UNCHANGED <<platform, stray, temp, recorded, running, manifest, target, last, faults>>

\* The rename returns Err: an exe.old that runs cannot be replaced.
MoveAsideFails(p) ==
  /\ pc[p] = "move"
  /\ exe # NoFile
  /\ IF InUse(old) THEN UNCHANGED faults ELSE faults < MaxFaults /\ faults' = faults + 1
  /\ temp' = [temp EXCEPT ![p] = NoFile]
  /\ Ends(p)
  /\ UNCHANGED <<platform, exe, old, stray, recorded, last>>

\* The new binary is renamed into place, over one that another command put
\* there meanwhile unless it runs.
Place(p) ==
  /\ pc[p] = "place"
  /\ ~InUse(exe)
  /\ exe' = temp[p] /\ last' = temp[p]
  /\ temp' = [temp EXCEPT ![p] = NoFile]
  /\ Goto(p, "tidy")
  /\ UNCHANGED <<platform, old, stray, recorded, locals, faults>>

\* The rename returns Err: the old binary goes back, if that rename succeeds.
PlaceFails(p) ==
  /\ pc[p] = "place"
  /\ IF InUse(exe) THEN UNCHANGED faults ELSE faults < MaxFaults /\ faults' = faults + 1
  /\ \/ UNCHANGED <<exe, old, last>>
     \/ /\ aside[p] /\ old # NoFile /\ ~InUse(exe)
        /\ exe' = old /\ last' = old /\ old' = NoFile
  /\ temp' = [temp EXCEPT ![p] = NoFile]
  /\ Ends(p)
  /\ UNCHANGED <<platform, stray, recorded>>

\* exe.old is removed, unless it runs.
Tidy(p) ==
  /\ pc[p] = "tidy"
  /\ old' = IF InUse(old) THEN old ELSE NoFile
  /\ Ends(p)
  /\ UNCHANGED <<platform, exe, stray, temp, recorded, last, faults>>

\* The command is killed, and what it staged stays.
Kill(p) ==
  /\ pc[p] # "off"
  /\ faults < MaxFaults /\ faults' = faults + 1
  /\ Ends(p)
  /\ UNCHANGED <<platform, files, recorded, last>>

Step(p) ==
  \/ Start(p) \/ FetchManifest(p) \/ FetchSignature(p) \/ EnsureUpgrade(p)
  \/ FetchBinary(p) \/ FetchFails(p) \/ Locate(p) \/ CreateTemp(p) \/ WriteTemp(p)
  \/ StageFails(p) \/ Record(p) \/ RecordFails(p) \/ Swap(p) \/ SwapFails(p)
  \/ ClearOld(p) \/ MoveAside(p) \/ MoveAsideFails(p) \/ Place(p) \/ PlaceFails(p)
  \/ Tidy(p) \/ Kill(p)

Next == \E p \in Proc : Step(p)

Spec == Init /\ [][Next]_vars
-----------------------------------------------------------------------------
(* Properties.                                                             *)

\* Whatever fails, dies or overlaps, a complete binary is installed, or is the
\* exe.old that a Windows swap moved aside ("never leave the install path
\* empty", self_update.rs:133, holds for a failed rename, not for a death).
BinarySurvives ==
  \/ exe \in Release
  \/ platform = "windows" /\ exe = NoFile /\ old \in Release

\* Every binary in place is the first one or has a signed manifest, the hash in
\* it, and a self_update record that was synced before.
InstalledRecorded ==
  {exe, old, stray} \subseteq recorded \cup {Oldest, NoFile}

\* An older release replaces a newer one only through a command that was
\* started before the newer one was in place, or an undone swap.
DowngradeExplained ==
  [][last' < last => \E p \in Proc : pc[p] \in {"swap", "place"} /\ running[p] # last]_vars
=============================================================================
