---------------------------- MODULE StateSnapshot ----------------------------
(***************************************************************************)
(* The operator's snapshots of the faucet's state, ops/state-snapshot.mjs  *)
(* with the stopped-container check of ops/runtime-receipt.mjs.  Commands  *)
(* that create a snapshot of the runtime root or restore one into a new    *)
(* root run beside each other, while the container may be started and      *)
(* stopped by someone else, files may be edited, the published snapshot    *)
(* may rot, commands may fail or be killed and the machine may lose power. *)
(* File contents are version numbers; a file read while it changes, or     *)
(* written and not synced when power is lost, is torn.                     *)
(***************************************************************************)
EXTENDS Integers, TLC

CONSTANTS
  Files,            \* files under the runtime root
  Commands,         \* command processes, each run once
  MaxStarts,        \* bound: starts of the container
  MaxVersion,       \* bound: writes and edits of files
  NoFile,           \* the absence of a file
  MaxLosses         \* bound: kills and power losses
Torn == 0
NoDir == [data |-> <<>>, doc |-> <<>>, synced |-> TRUE, named |-> TRUE]

BoundAssumption == {MaxStarts, MaxVersion, MaxLosses} \subseteq Nat /\ Files # {} /\ NoFile \notin Files

VARIABLES
  content,        \* the runtime root: file -> version
  version,        \* last version written
  running, starts,\* the container: StartedAt, FinishedAt and RestartCount identify a stop
  lock,           \* the operator lock directory exists
  cmd,            \* command -> its local state
  snap,           \* the directory at the snapshot's name
  root,           \* the directory at the new root's name
  losses, rotten,
  rested          \* ghost: states of the runtime root while the container was stopped

vars == <<content, version, running, starts, lock, cmd, snap, root, losses, rotten, rested>>
world == <<content, version, running, starts, rotten, rested>>

Idle == [kind |-> "none", pc |-> "idle", stopped |-> 0, cur |-> NoFile, before |-> 0, copy |-> <<>>,
         seen |-> {}, same |-> TRUE, temp |-> FALSE, synced |-> FALSE]
Init ==
  /\ content = [f \in Files |-> 1] /\ version = 1 /\ running = TRUE /\ starts = 1
  /\ lock = FALSE /\ cmd = [p \in Commands |-> Idle] /\ snap = NoDir /\ root = NoDir
  /\ losses = 0 /\ rotten = FALSE /\ rested = {}

-----------------------------------------------------------------------------
(* The container, and whoever else touches the directories *)

StopContainer ==
  /\ running /\ running' = FALSE /\ rested' = rested \cup {content}
  /\ UNCHANGED <<content, version, starts, lock, cmd, snap, root, losses, rotten>>
StartContainer ==
  /\ ~running /\ starts < MaxStarts /\ running' = TRUE /\ starts' = starts + 1
  /\ UNCHANGED <<content, version, lock, cmd, snap, root, losses, rotten, rested>>
\* the faucet writes its state, or someone edits a file while it is stopped
Write(f) ==
  /\ version < MaxVersion /\ version' = version + 1 /\ content' = [content EXCEPT ![f] = version']
  /\ rested' = IF running THEN rested ELSE rested \cup {content'}
  /\ UNCHANGED <<running, starts, lock, cmd, snap, root, losses, rotten>>
\* a file of the published snapshot changes
Rot(f) ==
  /\ snap # NoDir /\ ~rotten /\ rotten' = TRUE /\ snap' = [snap EXCEPT !.data[f] = Torn]
  /\ UNCHANGED <<content, version, running, starts, lock, cmd, root, losses, rested>>

-----------------------------------------------------------------------------
(* Steps of a command *)

\* a command that ended leaves only its outcome
Ended(c, pc) == [Idle EXCEPT !.kind = c.kind, !.pc = pc, !.temp = c.temp]
Goto(p, pc) == cmd' = [cmd EXCEPT ![p].pc = pc]
GotoIf(p, ok, pc) == Goto(p, IF ok THEN pc ELSE "cleanup")
At(p, pc) == cmd[p].pc = pc
Kept == UNCHANGED <<world, losses>>
Creates(p) == cmd[p].kind = "create"
\* the directory the command copies from and the one it publishes
Source(p) == IF Creates(p) THEN content ELSE snap.data
Target(p) == IF Creates(p) THEN snap ELSE root

\* verifySnapshot: the payload is what the manifest lists
VerifySnapshot(s) == s # NoDir /\ s.data = s.doc
\* the checks made before the lock is taken
CreateAllowed == snap = NoDir
RestoreAllowed == VerifySnapshot(snap) /\ root = NoDir
Begin(p, kind) ==
  /\ At(p, "idle")
  /\ cmd' = [cmd EXCEPT ![p].kind = kind,
               ![p].pc = IF IF kind = "create" THEN CreateAllowed ELSE RestoreAllowed THEN "lock" ELSE "failed"]
  /\ Kept /\ UNCHANGED <<lock, snap, root>>
\* mkdir of the lock directory succeeds
LockFree == ~lock
AcquireOperatorLock(p) ==
  /\ At(p, "lock")
  /\ IF LockFree THEN lock' = TRUE /\ Goto(p, "check") ELSE Goto(p, "failed") /\ UNCHANGED lock
  /\ Kept /\ UNCHANGED <<snap, root>>
\* Mutant: only the present state of the container is looked at.
SameStopAny(p) == ~running
\* assertReceiptContainersStopped with expectedStates
SameStop(p) == ~running /\ cmd[p].stopped = starts
\* assertReceiptContainersStopped; the temporary directory is made
AssertStopped(p) ==
  /\ At(p, "check")
  /\ cmd' = [cmd EXCEPT ![p] = IF running THEN [@ EXCEPT !.pc = "cleanup"]
                               ELSE [@ EXCEPT !.pc = "copy", !.stopped = starts, !.temp = TRUE]]
  /\ Kept /\ UNCHANGED <<lock, snap, root>>
\* copyRegularFile: the file is opened and its metadata read, ...
CopyBegin(p, f) ==
  /\ At(p, "copy") /\ cmd[p].cur = NoFile /\ f \notin DOMAIN cmd[p].copy
  /\ cmd' = [cmd EXCEPT ![p].cur = f, ![p].before = Source(p)[f]]
  /\ Kept /\ UNCHANGED <<lock, snap, root>>
\* ... copied, and read again
CopyEnd(p) ==
  /\ At(p, "copy") /\ cmd[p].cur # NoFile
  /\ LET f == cmd[p].cur
     IN cmd' = [cmd EXCEPT ![p] =
                  IF Source(p)[f] # @.before THEN [@ EXCEPT !.pc = "cleanup", !.cur = NoFile]
                  ELSE [@ EXCEPT !.copy = (f :> Source(p)[f]) @@ @, !.cur = NoFile,
                                 !.pc = IF DOMAIN cmd[p].copy \cup {f} = Files THEN "inventory" ELSE "copy"]]
  /\ Kept /\ UNCHANGED <<lock, snap, root>>
\* inventoryTree: create compares source and copy, restore compares copy and manifest
Expected(p, f) == IF Creates(p) THEN content[f] ELSE snap.doc[f]
InventoryTree(p, f) ==
  /\ At(p, "inventory") /\ f \in Files \ cmd[p].seen
  /\ cmd' = [cmd EXCEPT ![p].seen = @ \cup {f}, ![p].same = @ /\ Expected(p, f) = cmd[p].copy[f]]
  /\ Kept /\ UNCHANGED <<lock, snap, root>>
\* the comparison of the inventories
InventoryMatches(p) == cmd[p].same
Compare(p) ==
  /\ At(p, "inventory") /\ cmd[p].seen = Files /\ GotoIf(p, InventoryMatches(p), "recheck")
  /\ Kept /\ UNCHANGED <<lock, snap, root>>
Recheck(p) ==
  /\ At(p, "recheck") /\ GotoIf(p, SameStop(p), IF Creates(p) THEN "sync" ELSE "publish")
  /\ Kept /\ UNCHANGED <<lock, snap, root>>
\* fsyncTree
FsyncTree(p) == TRUE
\* create writes and syncs the manifest before; restore has checked its target before
Sync(p) ==
  /\ At(p, "sync")
  /\ cmd' = [cmd EXCEPT ![p].synced = FsyncTree(p), ![p].pc = IF Creates(p) THEN "publish" ELSE "rename"]
  /\ Kept /\ UNCHANGED <<lock, snap, root>>
\* the target must still be absent
CheckTarget(p) ==
  /\ At(p, "publish") /\ GotoIf(p, Target(p) = NoDir, IF Creates(p) THEN "rename" ELSE "sync")
  /\ Kept /\ UNCHANGED <<lock, snap, root>>
\* rename, which fails on a directory that is not empty
Published(p) == [data |-> cmd[p].copy, doc |-> IF Creates(p) THEN cmd[p].copy ELSE snap.doc,
                 synced |-> cmd[p].synced, named |-> FALSE]
Rename(p) ==
  /\ At(p, "rename")
  /\ IF Target(p) # NoDir THEN Goto(p, "cleanup") /\ UNCHANGED <<snap, root>>
     ELSE /\ cmd' = [cmd EXCEPT ![p].pc = "syncparent", ![p].temp = FALSE]
          /\ IF Creates(p) THEN snap' = Published(p) /\ UNCHANGED root
             ELSE root' = Published(p) /\ UNCHANGED snap
  /\ Kept /\ UNCHANGED lock
\* fsyncDirectory of the parent
FsyncParent(d) == [d EXCEPT !.named = TRUE]
SyncParent(p) ==
  /\ At(p, "syncparent") /\ Goto(p, "release")
  /\ IF Creates(p) THEN snap' = FsyncParent(snap) /\ UNCHANGED root
     ELSE root' = FsyncParent(root) /\ UNCHANGED snap
  /\ Kept /\ UNCHANGED lock
\* releaseLock after success
Release(p) ==
  /\ At(p, "release") /\ lock' = FALSE /\ cmd' = [cmd EXCEPT ![p] = Ended(@, "done")]
  /\ Kept /\ UNCHANGED <<snap, root>>
Holding == {"check", "copy", "inventory", "recheck", "sync", "publish", "rename", "syncparent", "release", "cleanup"}
\* an error of any call made under the lock
Fail(p) ==
  /\ cmd[p].pc \in Holding \ {"release", "cleanup"} /\ Goto(p, "cleanup")
  /\ Kept /\ UNCHANGED <<lock, snap, root>>
\* rm of the temporary directory
RemoveTemp(c) == [c EXCEPT !.temp = FALSE]
Cleanup(p) ==
  /\ At(p, "cleanup") /\ lock' = FALSE
  /\ cmd' = [cmd EXCEPT ![p] = Ended(RemoveTemp(@), "failed")]
  /\ Kept /\ UNCHANGED <<snap, root>>

-----------------------------------------------------------------------------
(* Kills and power losses; the operator removes a lock nobody holds *)

Active == {p \in Commands : cmd[p].pc \in Holding \cup {"lock"}}
Kill(p) ==
  /\ p \in Active /\ losses < MaxLosses /\ losses' = losses + 1 /\ cmd' = [cmd EXCEPT ![p] = Ended(@, "dead")]
  /\ UNCHANGED <<world, lock, snap, root>>
\* what a directory may be after a power loss
AfterLoss(d) ==
  IF d = NoDir THEN {d}
  ELSE {[d EXCEPT !.data = IF d.synced THEN @ ELSE [f \in Files |-> Torn], !.named = TRUE]}
       \cup (IF d.named THEN {} ELSE {NoDir})
PowerLoss ==
  /\ losses < MaxLosses /\ losses' = losses + 1 /\ (Active # {} \/ snap # NoDir)
  /\ running' = FALSE /\ rested' = rested \cup {content}
  /\ cmd' = [p \in Commands |-> IF p \in Active THEN Ended(cmd[p], "dead") ELSE cmd[p]]
  /\ snap' \in AfterLoss(snap) /\ root' \in AfterLoss(root)
  /\ UNCHANGED <<content, version, starts, lock, rotten>>
BreakLock ==
  /\ lock /\ Active = {} /\ lock' = FALSE
  /\ UNCHANGED <<world, cmd, snap, root, losses>>

Step(p) ==
  \/ \E kind \in {"create", "restore"} : Begin(p, kind)
  \/ AcquireOperatorLock(p) \/ AssertStopped(p) \/ (\E f \in Files : CopyBegin(p, f) \/ InventoryTree(p, f))
  \/ CopyEnd(p) \/ Compare(p) \/ Recheck(p) \/ Sync(p) \/ CheckTarget(p) \/ Rename(p)
  \/ SyncParent(p) \/ Release(p) \/ Fail(p) \/ Cleanup(p) \/ Kill(p)
Next ==
  \/ \E p \in Commands : Step(p)
  \/ StopContainer \/ StartContainer \/ (\E f \in Files : Write(f) \/ Rot(f)) \/ PowerLoss \/ BreakLock
Spec == Init /\ [][Next]_vars

-----------------------------------------------------------------------------
Versions == 0..MaxVersion
\* The lock is there while a command holds it, and a command that ended by itself, well or
\* badly, has left no temporary directory.
TypeOK ==
  /\ content \in [Files -> Versions] /\ rested \subseteq [Files -> Versions]
  /\ \A p \in Commands : /\ cmd[p].pc \in Holding => lock
                         /\ cmd[p].pc \in {"idle", "lock", "failed", "done"} => ~cmd[p].temp

\* Two commands never copy at the same time.
OneAtATime == \A p, q \in Commands : cmd[p].pc \in Holding /\ cmd[q].pc \in Holding => p = q

\* A published snapshot is the state of the runtime root at one moment at which the
\* container was stopped, whoever started it or edited files during the copy.
SnapshotIsAState == snap # NoDir => snap.doc \in rested

\* What stands at the snapshot's name is complete, also after a power loss: it passes
\* verification unless it rotted afterwards.
PublishedIsComplete == snap # NoDir /\ ~rotten => VerifySnapshot(snap)

\* A restored root has the state the snapshot was taken of, even when the snapshot rots
\* while it is being copied.
RestoredIsTheSnapshot == root # NoDir => root.data = root.doc /\ root.doc \in rested

\* What a command reported as done is still there after a power loss.
DoneIsDurable == \A p \in Commands : At(p, "done") => Target(p) # NoDir
=============================================================================
