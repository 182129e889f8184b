---------------------------- MODULE BackupRestore ---------------------------
(***************************************************************************)
(* Recovery packages and restores: LocalBackupService over the ledger      *)
(* file, the backup directory and the restored source trees, with the      *)
(* worker lock of src/worker/runtime.py.                                   *)
(*                                                                         *)
(* The API server runs in standard or in maintenance mode; only a restart  *)
(* changes the mode.  A restore is one call of a thread of the maintenance *)
(* server, split where its files change, so that it may fail or die in     *)
(* between, and a worker or a second restore may try to start.  A package  *)
(* is taken of one SQLite snapshot; what is written later does not get in. *)
(*                                                                         *)
(* A ledger is reduced to the revision of its bookkeeping, the emergency   *)
(* stop, the restored tree its storage paths point into, and whether a     *)
(* document still points to an original file.                              *)
(***************************************************************************)
EXTENDS Integers, Sequences

CONSTANTS
    Threads,        \* threads of the API server
    MaxPackages,    \* bound: recovery packages
    MaxWrites,      \* bound: revisions of the bookkeeping
    MaxFaults,      \* bound: restore steps that fail
    MaxLosses,      \* bound: losses of evidence outside FAB
    MaxCrashes      \* bound: restarts and deaths of the server

VARIABLES
    live,       \* the ledger in use
    packages,   \* the recovery packages, oldest first
    trees,      \* restored source evidence, by package
    originals,  \* the original source files
    mode,       \* the mode of the API server
    lock,       \* who holds fab-worker.lock
    proc,       \* the restore that each thread handles
    writes, faults, losses, crashes,
    \* Observation: the ledgers that a restore has replaced
    replaced

vars == <<live, packages, trees, originals, mode, lock, proc, writes, faults,
          losses, crashes, replaced>>
bounds == <<writes, faults, losses, crashes>>

None == 0
Ids == 1..MaxPackages

Ledgers == [rev : 0..MaxWrites, stopped : BOOLEAN, tree : Ids \cup {None},
            original : BOOLEAN]

\* No snapshot was taken yet.
NoLedger == [rev |-> -1, stopped |-> FALSE, tree |-> None, original |-> FALSE]

Idle == [at |-> "idle", pkg |-> None, full |-> FALSE, before |-> NoLedger,
         result |-> "none"]

TypeOK ==
    /\ live \in Ledgers
    /\ packages \in Seq([ledger : Ledgers, complete : BOOLEAN])
    /\ trees \in [Ids -> {"absent", "exact", "damaged"}]
    /\ originals \in {"exact", "absent", "damaged"}
    /\ mode \in {"standard", "maintenance"}
    /\ lock \in Threads \cup {"free", "worker"}
    /\ proc \in [Threads ->
                    [at : {"idle", "lock", "package", "snapshot", "prepare",
                           "extract", "copy", "verify", "rollback", "unlock"},
                     pkg : Ids \cup {None}, full : BOOLEAN,
                     before : Ledgers \cup {NoLedger},
                     result : {"none", "restored", "failed", "broken"}]]
    /\ replaced \subseteq Ledgers

Init ==
    /\ live = [rev |-> 0, stopped |-> FALSE, tree |-> None, original |-> TRUE]
    /\ packages = <<>>
    /\ trees = [p \in Ids |-> "absent"]
    /\ originals = "exact"
    /\ mode = "standard"
    /\ lock = "free"
    /\ proc = [t \in Threads |-> Idle]
    /\ writes = 0 /\ faults = 0 /\ losses = 0 /\ crashes = 0
    /\ replaced = {}

(***************************************************************************)
(* The bookkeeping: the worker while it holds its lock, and the standard   *)
(* API server.  The maintenance server answers every other mutation with   *)
(* 423.                                                                    *)
(***************************************************************************)
WorkerOn == lock = "worker"

\* run_worker does not look at the mode of the API server.
StartWorker ==
    /\ lock = "free"
    /\ lock' = "worker"
    /\ UNCHANGED <<live, packages, trees, originals, mode, proc, bounds,
                   replaced>>

StopWorker ==
    /\ WorkerOn
    /\ lock' = "free"
    /\ UNCHANGED <<live, packages, trees, originals, mode, proc, bounds,
                   replaced>>

MayWrite == WorkerOn \/ mode = "standard"

WriteLedger ==
    /\ MayWrite
    /\ writes < MaxWrites
    /\ writes' = writes + 1
    /\ live' = [live EXCEPT !.rev = writes + 1, !.original = TRUE]
    /\ UNCHANGED <<packages, trees, originals, mode, lock, proc, faults, losses,
                   crashes, replaced>>

\* Engaged by anyone, cleared by the operator with the exact phrase.
EmergencyStop(engage) ==
    /\ mode = "standard"
    /\ live.stopped # engage
    /\ live' = [live EXCEPT !.stopped = engage]
    /\ UNCHANGED <<packages, trees, originals, mode, lock, proc, bounds,
                   replaced>>

(***************************************************************************)
(* Packages.                                                               *)
(***************************************************************************)
Complete(l) ==
    /\ l.original => originals = "exact"
    /\ l.tree # None => trees[l.tree] = "exact"

\* A file that no longer matches its checksum blocks every package.
Drifted(l) ==
    \/ l.original /\ originals = "damaged"
    \/ l.tree # None /\ trees[l.tree] = "damaged"

Packageable(requireComplete) ==
    /\ Len(packages) < MaxPackages
    /\ ~Drifted(live)
    /\ requireComplete => Complete(live)

Package == [ledger |-> live, complete |-> Complete(live)]

CreateBackup(requireComplete) ==
    /\ MayWrite
    /\ Packageable(requireComplete)
    /\ packages' = Append(packages, Package)
    /\ UNCHANGED <<live, trees, originals, mode, lock, proc, bounds, replaced>>

(***************************************************************************)
(* Restores.                                                               *)
(***************************************************************************)
Goto(t, pc) == proc' = [proc EXCEPT ![t].at = pc]
End(t, result) ==
    proc' = [proc EXCEPT ![t].at = "unlock", ![t].result = result]

Fault(t) ==
    /\ faults < MaxFaults
    /\ faults' = faults + 1

Restorable(p, full) ==
    /\ mode = "maintenance"
    /\ full => packages[p].complete /\ trees[p] # "damaged"

\* restore_backup with the right phrase: plan_restore.
Ask(t, p, full) ==
    /\ proc[t].at = "idle"
    /\ Restorable(p, full)
    /\ proc' = [proc EXCEPT ![t] = [Idle EXCEPT !.at = "lock", !.pkg = p,
                                                !.full = full]]
    /\ UNCHANGED <<live, packages, trees, originals, mode, lock, bounds,
                   replaced>>

Lock(t) ==
    /\ proc[t].at = "lock"
    /\ IF lock = "free"
       THEN lock' = t /\ Goto(t, "package")
       ELSE proc' = [proc EXCEPT ![t] = Idle] /\ UNCHANGED lock
    /\ UNCHANGED <<live, packages, trees, originals, mode, bounds, replaced>>

\* Mutant: a package that cannot be taken is gone without.
PackageFirst_Optional(t) ==
    /\ proc[t].at = "package"
    /\ Goto(t, "snapshot")
    /\ IF Packageable(proc[t].full)
       THEN packages' = Append(packages, Package)
       ELSE UNCHANGED packages
    /\ UNCHANGED <<live, trees, originals, mode, lock, bounds, replaced>>

\* The automatic pre-restore package; a full restore asks for a complete one.
PackageFirst(t) ==
    /\ proc[t].at = "package"
    /\ IF Packageable(proc[t].full)
       THEN packages' = Append(packages, Package) /\ Goto(t, "snapshot")
       ELSE End(t, "failed") /\ UNCHANGED packages
    /\ UNCHANGED <<live, trees, originals, mode, lock, bounds, replaced>>

Snapshot(t) ==
    /\ proc[t].at = "snapshot"
    /\ proc' = [proc EXCEPT ![t].at = "prepare", ![t].before = live]
    /\ UNCHANGED <<live, packages, trees, originals, mode, lock, bounds,
                   replaced>>

Prepared(t) ==
    LET l == packages[proc[t].pkg].ledger IN
    IF proc[t].full
    THEN [l EXCEPT !.tree = proc[t].pkg, !.original = FALSE]
    ELSE l

\* Mutant: the ledger is copied before its evidence is there.
Prepare_Straight(t) ==
    /\ proc[t].at = "prepare"
    /\ Goto(t, "copy")
    /\ UNCHANGED faults
    /\ UNCHANGED <<live, packages, trees, originals, mode, lock, writes, losses,
                   crashes, replaced>>

\* The package's ledger is extracted, checked and given its new paths.
Prepare(t) ==
    /\ proc[t].at = "prepare"
    /\ \/ Goto(t, IF proc[t].full THEN "extract" ELSE "copy")
          /\ UNCHANGED faults
       \/ Fault(t) /\ End(t, "failed")
    /\ UNCHANGED <<live, packages, trees, originals, mode, lock, writes, losses,
                   crashes, replaced>>

\* Mutant: a tree that does not verify is extracted again.
Extract_Overwrites(t) ==
    LET p == proc[t].pkg IN
    /\ proc[t].at = "extract"
    /\ trees' = [trees EXCEPT ![p] = "exact"]
    /\ Goto(t, "copy") /\ UNCHANGED faults
    /\ UNCHANGED <<live, packages, originals, mode, lock, writes, losses,
                   crashes, replaced>>

\* An existing tree is verified and used as it is; a new one is verified in a
\* staging directory and then renamed.
Extract(t) ==
    LET p == proc[t].pkg IN
    /\ proc[t].at = "extract"
    /\ \/ /\ trees[p] = "absent"
          /\ trees' = [trees EXCEPT ![p] = "exact"]
          /\ Goto(t, "copy") /\ UNCHANGED faults
       \/ /\ trees[p] = "exact"
          /\ Goto(t, "copy") /\ UNCHANGED <<trees, faults>>
       \/ trees[p] = "damaged" /\ End(t, "failed") /\ UNCHANGED <<trees, faults>>
       \/ Fault(t) /\ End(t, "failed") /\ UNCHANGED trees
    /\ UNCHANGED <<live, packages, originals, mode, lock, writes, losses,
                   crashes, replaced>>

\* One SQLite transaction, which happens or does not.
Copy(t) ==
    /\ proc[t].at = "copy"
    /\ \/ /\ live' = Prepared(t)
          /\ replaced' = replaced \cup {live}
          /\ Goto(t, "verify") /\ UNCHANGED faults
       \/ Fault(t) /\ Goto(t, "rollback") /\ UNCHANGED <<live, replaced>>
    /\ UNCHANGED <<packages, trees, originals, mode, lock, writes, losses,
                   crashes>>

Verified(t) ==
    /\ live.rev = packages[proc[t].pkg].ledger.rev
    /\ proc[t].full => live.tree = proc[t].pkg /\ trees[live.tree] = "exact"

Verify(t) ==
    /\ proc[t].at = "verify"
    /\ \/ Verified(t) /\ End(t, "restored") /\ UNCHANGED faults
       \/ ~Verified(t) /\ Goto(t, "rollback") /\ UNCHANGED faults
       \/ Fault(t) /\ Goto(t, "rollback")
    /\ UNCHANGED <<live, packages, trees, originals, mode, lock, writes, losses,
                   crashes, replaced>>

\* Mutant: a failed verification is only reported.
Rollback_Skipped(t) ==
    /\ proc[t].at = "rollback"
    /\ End(t, "failed")
    /\ UNCHANGED <<live, faults>>
    /\ UNCHANGED <<packages, trees, originals, mode, lock, writes, losses,
                   crashes, replaced>>

\* The rollback is not itself guarded; the pre-restore package remains.
Rollback(t) ==
    /\ proc[t].at = "rollback"
    /\ \/ live' = proc[t].before /\ End(t, "failed") /\ UNCHANGED faults
       \/ Fault(t) /\ End(t, "broken") /\ UNCHANGED live
    /\ UNCHANGED <<packages, trees, originals, mode, lock, writes, losses,
                   crashes, replaced>>

\* The restore is audited, the lock released and the call answered.
Unlock(t) ==
    /\ proc[t].at = "unlock"
    /\ lock' = "free"
    /\ proc' = [proc EXCEPT ![t] = Idle]
    /\ UNCHANGED <<live, packages, trees, originals, mode, bounds, replaced>>

Restore(t) ==
    \/ Lock(t) \/ PackageFirst(t) \/ Snapshot(t) \/ Prepare(t) \/ Extract(t)
    \/ Copy(t) \/ Verify(t) \/ Rollback(t) \/ Unlock(t)

(***************************************************************************)
(* What happens outside.                                                   *)
(***************************************************************************)

\* The server dies or is restarted in either mode; the operating system frees
\* its lock.  The launchers stop the worker when they change the mode.
Restart ==
    /\ crashes < MaxCrashes
    /\ crashes' = crashes + 1
    /\ mode' \in {"standard", "maintenance"}
    /\ proc' = [t \in Threads |-> Idle]
    /\ lock' = IF lock = "worker" /\ mode' = mode THEN lock ELSE "free"
    /\ UNCHANGED <<live, packages, trees, originals, writes, faults, losses,
                   replaced>>

Lose ==
    /\ losses < MaxLosses
    /\ losses' = losses + 1
    /\ \/ /\ originals = "exact"
          /\ originals' \in {"absent", "damaged"}
          /\ UNCHANGED trees
       \/ \E p \in Ids :
            /\ trees[p] = "exact"
            /\ trees' = [trees EXCEPT ![p] = "damaged"]
            /\ UNCHANGED originals
    /\ UNCHANGED <<live, packages, mode, lock, proc, writes, faults, crashes,
                   replaced>>

Next ==
    \/ StartWorker \/ StopWorker \/ WriteLedger
    \/ \E engage \in BOOLEAN : EmergencyStop(engage)
    \/ \E requireComplete \in BOOLEAN : CreateBackup(requireComplete)
    \/ \E t \in Threads, p \in DOMAIN packages, full \in BOOLEAN :
            Ask(t, p, full)
    \/ \E t \in Threads : Restore(t)
    \/ Restart
    \/ Lose

Spec == Init /\ [][Next]_vars

(***************************************************************************)
(* Properties.                                                             *)
(***************************************************************************)

\* Whatever a restore replaced can be had back: the ledger it overwrote, with
\* everything the worker and the API wrote to it, is in a recovery package,
\* also when the restore failed, broke off or died.
ReplacedIsPackaged ==
    \A l \in replaced : \E p \in DOMAIN packages : packages[p].ledger = l

\* A restore is all or nothing.  "a forced post-restore failure returns the
\* ledger to its pre-restore state" (ACCEPTANCE_TESTS.md A20), at whatever step
\* it fails; only a rollback that fails itself is excepted.  One that reports
\* success has put the package's ledger in place, and a full one has it point
\* to the package's evidence.  And the paths of a fully restored ledger lead
\* somewhere: the tree was there before the ledger pointed into it, and no
\* failure takes it away.
RestoreAllOrNothing ==
    /\ \A t \in Threads :
        /\ proc[t].result = "failed" /\ proc[t].before # NoLedger
                => live = proc[t].before
        /\ proc[t].result = "restored" =>
                /\ live.rev = packages[proc[t].pkg].ledger.rev
                /\ proc[t].full => live.tree = proc[t].pkg
    /\ live.tree # None => trees[live.tree] # "absent"

\* "Full restore never overwrites source evidence" (CRITICAL_PATH.md): a tree
\* that was changed outside FAB stays as it is.
EvidenceNotOverwritten ==
    [][\A p \in Ids : trees[p] = "damaged" => trees'[p] = "damaged"]_trees

\* "Emergency stop blocks new autonomous work until an operator clears it"
\* (README.md): only the clearing of the stop ends it.
StopEndsByClearing ==
    [][live.stopped /\ ~live'.stopped => mode = "standard"]_live
=============================================================================
