------------------------------- MODULE Updater -------------------------------
(***************************************************************************)
(* "grepai update": the download of a release, its check, and the          *)
(* replacement of the program's own file by way of a backup, on Unix and   *)
(* on Windows.  A step can fail, and the process can be killed between any *)
(* two of them.                                                            *)
(*                                                                         *)
(* A file is "none", "partial" (a copy not finished), or a whole program:  *)
(* "old", "new", or "bad" for what a damaged archive holds.                *)
(***************************************************************************)
EXTENDS Naturals

CONSTANT MaxUpdates      \* how many updates are tried

ASSUME UpdateAssumption == MaxUpdates \in Nat

VARIABLES
    exec,            \* the file at the program's own path
    backup,          \* the file at that path with ".old"
    archive,         \* what the downloaded archive holds: "new" or "bad"
    step,              \* where the update is
    outcome,         \* of the last update: "none", "updated", "failed" or "killed"
    platform,        \* "unix" or "windows"
    device,          \* the temporary directory's: "same" as the program's or "other"
    checksummed,     \* the release has a checksums.txt
    updates          \* bounded by MaxUpdates

updateVars == <<exec, backup, archive, step, outcome, platform, device, checksummed, updates>>

Whole(f) == f \notin {"none", "partial"}

UpdateInit ==
    /\ exec = "old" /\ backup = "none" /\ archive = "new"
    /\ step = "idle" /\ outcome = "none" /\ updates = 0
    /\ platform \in {"unix", "windows"} /\ device \in {"same", "other"}
    /\ checksummed \in BOOLEAN

Settings == <<platform, device, checksummed>>

Over(result) == step' = "idle" /\ outcome' = result

\* fetchLatestRelease, findAssets, downloadFile; an update that fails here changed
\* nothing.  Only a program that is there can be started to update itself.
Download ==
    /\ step = "idle" /\ Whole(exec) /\ updates < MaxUpdates
    /\ updates' = updates + 1 /\ step' = "downloaded" /\ archive' \in {"new", "bad"}
    /\ UNCHANGED <<exec, backup, outcome, Settings>>

\* A release without checksums is installed unchecked.
Verify ==
    /\ step = "downloaded" /\ (checksummed => archive = "new") /\ step' = "extracted"
    /\ UNCHANGED <<exec, backup, archive, outcome, updates, Settings>>

\* checkWritePermission passed; an older backup goes.
ClearBackup ==
    /\ step = "extracted" /\ step' = "cleared" /\ backup' = "none"
    /\ UNCHANGED <<exec, archive, outcome, updates, Settings>>

Backup ==
    /\ step = "cleared" /\ step' = "replacing" /\ backup' = exec /\ exec' = "none"
    /\ UNCHANGED <<archive, outcome, updates, Settings>>

\* A rename moves the whole file at once; to another device, and always on Windows,
\* it is copied into a new file.
Move ==
    /\ step = "replacing" /\ platform = "unix" /\ device = "same"
    /\ step' = "installed" /\ exec' = archive
    /\ UNCHANGED <<backup, archive, outcome, updates, Settings>>

StartCopy ==
    /\ step = "replacing" /\ (platform = "windows" \/ device = "other")
    /\ step' = "copying" /\ exec' = "partial"
    /\ UNCHANGED <<backup, archive, outcome, updates, Settings>>

Copied ==
    /\ step = "copying" /\ exec' = archive
    /\ IF platform = "unix" THEN step' = "installed" /\ outcome' = outcome
                            ELSE Over("updated")
    /\ UNCHANGED <<backup, archive, updates, Settings>>

\* The file is made executable and, on Unix, the backup removed.
Finish ==
    /\ step = "installed" /\ Over("updated") /\ backup' = "none"
    /\ UNCHANGED <<exec, archive, updates, Settings>>

\* Nothing is replaced yet, or (chmod) the new file is in place already.
Fail ==
    /\ step \in {"downloaded", "extracted", "cleared", "installed"} /\ Over("failed")
    /\ UNCHANGED <<exec, backup, archive, updates, Settings>>

LeaveBackup ==                                                         \* mutant
    /\ step \in {"replacing", "copying"} /\ Over("failed")
    /\ UNCHANGED <<exec, backup, archive, updates, Settings>>

\* The installation fails, even after the copy is whole (the source cannot be
\* removed): the backup takes the place of what is there.
Restore ==
    /\ step \in {"replacing", "copying"} /\ Over("failed")
    /\ exec' = backup /\ backup' = "none"
    /\ UNCHANGED <<archive, updates, Settings>>

Kill ==
    /\ step # "idle" /\ Over("killed")
    /\ UNCHANGED <<exec, backup, archive, updates, Settings>>

UpdateNext ==
    \/ Download \/ Verify \/ ClearBackup \/ Backup \/ Move \/ StartCopy \/ Copied
    \/ Finish \/ Fail \/ Restore \/ Kill

UpdateSpec == UpdateInit /\ [][UpdateNext]_updateVars

(***************************************************************************)
(* Properties                                                              *)
(***************************************************************************)

\* There is a whole program on the disk at every moment, at its own path or beside
\* it; an update that ended, in success or failure, leaves it at its own path, and
\* one that says it updated leaves the new one if the release has checksums.
ProgramIsKept ==
    /\ Whole(exec) \/ Whole(backup)
    /\ step = "idle" /\ outcome # "killed" => Whole(exec)
    /\ step = "idle" /\ outcome = "updated" /\ checksummed => exec = "new"
================================================================================
