----------------------------- MODULE SelfUpdate -----------------------------
(***************************************************************************)
(* The self-update transaction of package selfupdate on Unix: several      *)
(* updater processes, each one Updater.Run, race for one executable and    *)
(* for the service that runs it.  Every file-system call and every call    *)
(* of the Lifecycle and Reconciler seams is a step that may fail, and a    *)
(* process may be killed, or the machine lose power, between any two.      *)
(*                                                                         *)
(* A file is an inode and the image it holds.  Image u is the authentic    *)
(* release updater u fetched, Corrupt anything its verification rejects    *)
(* (a short or wrong download), Torn what is left of a file whose bytes    *)
(* had not reached the disk.  A cancelled context only makes the calls     *)
(* that take it fail, and every one of them may fail here.                 *)
(***************************************************************************)
CONSTANTS
    Updaters,       \* updater processes
    Old,            \* the image installed before any of them runs
    Corrupt, Torn,  \* images no release has
    Down,           \* the service has no process
    Absent,         \* the product has no service definition
    None,           \* no file, no lock holder, no receipt
    PowerFails      \* TRUE: the machine may lose power

ASSUME ConstantsDistinct ==
    /\ Old \notin Updaters /\ Corrupt \notin Updaters /\ Torn \notin Updaters
    /\ Down \notin Updaters /\ Absent \notin Updaters /\ None \notin Updaters
    /\ Old # Corrupt /\ Old # Torn /\ Corrupt # Torn
    /\ Down \notin {Old, Corrupt, Torn} /\ Absent # Old /\ None \notin {Old, Absent}
    /\ PowerFails \in BOOLEAN

VARIABLES
    target,     \* the file the executable's name leads to
    survivors,  \* the files that name may lead to after a power failure
    staging,    \* staging[u]: the staging file of u, or None
    backup,     \* backup[u]: the rollback copy of u, or None
    lock,       \* the holder of the advisory lock, or None
    svc,        \* the service: its definition, and the image its process runs
    pc,         \* the next step of each updater
    sess        \* what each updater's session keeps in memory

vars == <<target, survivors, staging, backup, lock, svc, pc, sess>>

Image == Updaters \cup {Old, Corrupt, Torn}
Ino   == ({"orig"} \X {Old}) \cup ({"new", "copy"} \X Updaters)
File  == [ino : Ino, img : Image]
Definition == Updaters \cup {Old, Absent}

ASSUME NoneAssumption == None \notin File

(* Steps taken between Begin and Close, when the updater holds the lock. *)
Replacing  == {"apply", "rename", "sync", "undo"}
Recovering == {"restoreDef", "rollback", "restart", "rehealth"}
InSession  == {"revalidate", "create", "download", "verify", "install", "probe", "stop",
               "reconcile", "startSvc", "health", "commit", "close"}
              \cup Replacing \cup Recovering
Step == {"start", "begin", "done", "dead"} \cup InSession

RecoveryStep == {"inline", "definition", "binary", "restart"}

Session ==
    [seen    : File \cup {None},            \* Target.identity of ResolveTarget
     owns    : BOOLEAN,                     \* the staging file is in session.staging
     applied : BOOLEAN,                     \* applyResult.backup is not empty
     synced  : BOOLEAN,                     \* history: the rename is on the disk
     receipt : Definition \cup {None},      \* ReconcileResult.State
     restart : BOOLEAN,                     \* recover's restart argument
     result  : {"open", "error", "applied"},
     failed  : SUBSET RecoveryStep]         \* recovery steps that failed

Fresh == [seen |-> None, owns |-> FALSE, applied |-> FALSE, synced |-> FALSE,
          receipt |-> None, restart |-> FALSE, result |-> "open",
          failed |-> {}]

OrigFile    == [ino |-> <<"orig", Old>>, img |-> Old]
NewFile(u, img) == [ino |-> <<"new", u>>, img |-> img]

(* Only copyFile syncs what it writes: the staging file is closed and      *)
(* renamed without File.Sync.                                              *)
Durable(f) == f.ino[1] # "new"

Goto(u, step, s) == /\ pc' = [pc EXCEPT ![u] = step]
                    /\ sess' = [sess EXCEPT ![u] = s]

Fails(u) == Goto(u, "close", [sess[u] EXCEPT !.result = "error"])

dirVars == <<target, survivors, staging, backup>>

TypeOK ==
    /\ target \in File
    /\ survivors \subseteq File
    /\ staging \in [Updaters -> File \cup {None}]
    /\ backup \in [Updaters -> File \cup {None}]
    /\ lock \in Updaters \cup {None}
    /\ svc \in [def : Definition, run : Image \cup {Down}]
    /\ pc \in [Updaters -> Step]
    /\ sess \in [Updaters -> Session]

Init ==
    /\ target = OrigFile
    /\ survivors = {OrigFile}
    /\ staging = [u \in Updaters |-> None]
    /\ backup = [u \in Updaters |-> None]
    /\ lock = None
    /\ svc \in {[def |-> Absent, run |-> Down], [def |-> Old, run |-> Down],
                [def |-> Old, run |-> Old]}
    /\ pc = [u \in Updaters |-> "start"]
    /\ sess = [u \in Updaters |-> Fresh]

-----------------------------------------------------------------------------
(* Updater.execute: the target is resolved before the release is fetched   *)
(* and confirmed, and long before the lock is taken.                       *)
ResolveTarget(u) ==
    /\ pc[u] = "start"
    /\ Goto(u, "begin", [sess[u] EXCEPT !.seen = target])
    /\ UNCHANGED <<dirVars, lock, svc>>

(* No suitable release, CheckOnly, a declined prompt, any earlier error. *)
StopBeforeBegin(u) ==
    /\ pc[u] \in {"start", "begin"}
    /\ Goto(u, "done", [sess[u] EXCEPT !.result = "error"])
    /\ UNCHANGED <<dirVars, lock, svc>>

AcquireLock(u) ==
    /\ pc[u] = "begin"
    /\ lock = None
    /\ lock' = u
    /\ Goto(u, "revalidate", sess[u])
    /\ UNCHANGED <<dirVars, svc>>

(* The deadline passes while another session holds the lock. *)
LockTimeout(u) ==
    /\ pc[u] = "begin"
    /\ lock # None
    /\ Goto(u, "done", [sess[u] EXCEPT !.result = "error"])
    /\ UNCHANGED <<dirVars, lock, svc>>

(* Mutant: the target is not resolved again under the lock. *)
NoRevalidation(u) ==
    /\ pc[u] = "revalidate"
    /\ Goto(u, "create", sess[u])
    /\ UNCHANGED <<dirVars, lock, svc>>

(* SameFile, size and mtime agree exactly when the file is the one seen. *)
RevalidateTarget(u) ==
    /\ pc[u] = "revalidate"
    /\ \/ /\ target = sess[u].seen
          /\ Goto(u, "create", sess[u])
          /\ UNCHANGED lock
       \/ /\ target # sess[u].seen
          /\ lock' = None
          /\ Goto(u, "done", [sess[u] EXCEPT !.result = "error"])
    /\ UNCHANGED <<dirVars, svc>>

CreateStaging(u) ==
    /\ pc[u] = "create"
    /\ \/ /\ staging' = [staging EXCEPT ![u] = NewFile(u, Corrupt)]
          /\ Goto(u, "download", [sess[u] EXCEPT !.owns = TRUE])
       \/ /\ Fails(u)
          /\ UNCHANGED staging
    /\ UNCHANGED <<target, survivors, backup, lock, svc>>

(* The bytes that arrive are the release's or not. *)
DownloadBinary(u) ==
    /\ pc[u] = "download"
    /\ \/ \E img \in {u, Corrupt} :
             /\ staging' = [staging EXCEPT ![u] = NewFile(u, img)]
             /\ Goto(u, "verify", sess[u])
       \/ /\ Fails(u)
          /\ UNCHANGED staging
    /\ UNCHANGED <<target, survivors, backup, lock, svc>>

(* Mutant: the digests are not compared. *)
NoIntegrity(u) == u \in Updaters

IntegrityOK(u) == staging[u].img = u

(* Size and digests, then the verifiers, the transformer and the reporter, *)
(* each of which may refuse an authentic file.                             *)
VerifyStaging(u) ==
    /\ pc[u] = "verify"
    /\ \/ /\ IntegrityOK(u)
          /\ Goto(u, "install", sess[u])
       \/ Fails(u)
    /\ UNCHANGED <<dirVars, lock, svc>>

-----------------------------------------------------------------------------
(* managedSession.Install up to the replacement.  Without a definition the *)
(* session installs the binary only, exactly like a StandaloneInstaller.   *)
Managed == svc.def # Absent

ProbeInstalled(u) ==
    /\ pc[u] = "install"
    /\ \/ Goto(u, IF Managed THEN "probe" ELSE "apply", sess[u])
       \/ Fails(u)
    /\ UNCHANGED <<dirVars, lock, svc>>

ProbeRunning(u) ==
    /\ pc[u] = "probe"
    /\ \/ /\ svc.run = Down
          /\ Goto(u, "apply", sess[u])
       \/ /\ svc.run # Down
          /\ Goto(u, "stop", sess[u])
       \/ Fails(u)
    /\ UNCHANGED <<dirVars, lock, svc>>

(* A Stop that reports an error may have stopped the process all the same. *)
StopService(u) ==
    /\ pc[u] = "stop"
    /\ \/ /\ svc' = [svc EXCEPT !.run = Down]
          /\ Goto(u, "apply", [sess[u] EXCEPT !.restart = TRUE])
       \/ /\ svc' \in {svc, [svc EXCEPT !.run = Down]}
          /\ Fails(u)
    /\ UNCHANGED <<dirVars, lock>>

-----------------------------------------------------------------------------
(* Mutant: a failed replacement forgets that the service was stopped. *)
ForgetsStop(u, s) ==
    Goto(u, IF Managed THEN "restoreDef" ELSE "close",
         [s EXCEPT !.result = "error", !.restart = FALSE])

(* replaceTarget, and what its callers do with an error: the bare session  *)
(* returns it, the managed one enters recover with an empty applyResult.   *)
ReplaceFails(u, s) ==
    Goto(u, IF Managed THEN "restoreDef" ELSE "close", [s EXCEPT !.result = "error"])

(* The session forgets its staging file whatever replaceTarget returned. *)
Forget(s) == [s EXCEPT !.owns = FALSE]

(* ctx.Err() is checked before the staging file is touched. *)
ApplyRefused(u) ==
    /\ pc[u] = "apply"
    /\ ReplaceFails(u, sess[u])
    /\ UNCHANGED <<dirVars, lock, svc>>

(* Mutant: the arguments of backupFile are the wrong way round. *)
BacksUpStaging(u) ==
    /\ pc[u] = "apply"
    /\ backup' = [backup EXCEPT ![u] = staging[u]]
    /\ Goto(u, "rename", sess[u])
    /\ UNCHANGED <<target, survivors, staging, lock, svc>>

(* chmod of the staging file, a random sibling name, then a hard link or,  *)
(* where links fail, a synced copy.                                        *)
BackUpTarget(u) ==
    /\ pc[u] = "apply"
    /\ \/ \E ino \in {target.ino, <<"copy", u>>} :
             /\ backup' = [backup EXCEPT ![u] = [ino |-> ino, img |-> target.img]]
             /\ Goto(u, "rename", sess[u])
       \/ /\ ReplaceFails(u, Forget(sess[u]))
          /\ UNCHANGED backup
    /\ UNCHANGED <<target, survivors, staging, lock, svc>>

RenameStaging(u) ==
    /\ pc[u] = "rename"
    /\ \/ /\ target' = staging[u]
          /\ survivors' = survivors \cup {staging[u]}
          /\ staging' = [staging EXCEPT ![u] = None]
          /\ Goto(u, "sync", sess[u])
          /\ UNCHANGED backup
       \/ /\ backup' \in {backup, [backup EXCEPT ![u] = None]}
          /\ ReplaceFails(u, Forget(sess[u]))
          /\ UNCHANGED <<target, survivors, staging>>
    /\ UNCHANGED <<lock, svc>>

Replaced(s, flushed) ==
    [Forget(s) EXCEPT !.applied = TRUE, !.synced = flushed, !.restart = Managed]

AfterReplace == IF Managed THEN "reconcile" ELSE "commit"

(* Mutant: a sync that was not made counts as made. *)
NoSync(u) ==
    /\ pc[u] = "sync"
    /\ Goto(u, AfterReplace, Replaced(sess[u], TRUE))
    /\ UNCHANGED <<target, survivors, staging, backup, lock, svc>>

(* Mutant: the result of a replacement does not name its backup. *)
LosesBackupName(u) ==
    /\ pc[u] = "sync"
    /\ Goto(u, AfterReplace, [Replaced(sess[u], TRUE) EXCEPT !.applied = FALSE])
    /\ survivors' = {target}
    /\ UNCHANGED <<target, staging, backup, lock, svc>>

(* The directory is synced; or it cannot be, which counts as success with  *)
(* nothing synced; or the sync fails.                                      *)
SyncDirectory(u) ==
    /\ pc[u] = "sync"
    /\ \/ /\ survivors' = {target}
          /\ Goto(u, AfterReplace, Replaced(sess[u], TRUE))
       \/ /\ Goto(u, AfterReplace, Replaced(sess[u], FALSE))
          /\ UNCHANGED survivors
       \/ /\ Goto(u, "undo", sess[u])
          /\ UNCHANGED survivors
    /\ UNCHANGED <<target, staging, backup, lock, svc>>

(* The directory could not be synced: rename the backup over the target.   *)
(* Both outcomes return an error, and the callers drop the applyResult     *)
(* that names a backup still in place.                                     *)
UndoRename(u) ==
    /\ pc[u] = "undo"
    /\ \/ /\ target' = backup[u]
          /\ survivors' = survivors \cup {backup[u]}
          /\ backup' = [backup EXCEPT ![u] = None]
          /\ ReplaceFails(u, Forget(sess[u]))
       \/ /\ ReplaceFails(u, [Forget(sess[u]) EXCEPT !.failed = @ \cup {"inline"}])
          /\ UNCHANGED <<target, survivors, backup>>
    /\ UNCHANGED <<staging, lock, svc>>

-----------------------------------------------------------------------------
(* Mutant: recovery does not restore the definition. *)
SkipsDefinition(u, s) == Goto(u, "rollback", [s EXCEPT !.result = "error"])

(* managedSession.Install after the replacement *)
Recover(u, s) == Goto(u, "restoreDef", [s EXCEPT !.result = "error"])

(* A Reconciler returns a receipt for whatever it changed, on error too. *)
Reconcile(u) ==
    /\ pc[u] = "reconcile"
    /\ \E changed \in BOOLEAN :
          LET s == [sess[u] EXCEPT !.receipt = IF changed THEN svc.def ELSE None] IN
          /\ svc' = [svc EXCEPT !.def = IF changed THEN u ELSE @]
          /\ Goto(u, "startSvc", s) \/ Recover(u, s)
    /\ UNCHANGED <<dirVars, lock>>

(* Start of a service that runs already may leave the process that runs or *)
(* replace it: the Lifecycle contract says neither.                        *)
Started == {[svc EXCEPT !.run = target.img]} \cup (IF svc.run = Down THEN {} ELSE {svc})

(* Mutant: an error of Start is not looked at. *)
IgnoresStartError(u) ==
    /\ pc[u] = "startSvc"
    /\ svc' \in {svc} \cup Started
    /\ Goto(u, "health", sess[u])
    /\ UNCHANGED <<dirVars, lock>>

(* A Start that reports an error may have started the process. *)
StartService(u) ==
    /\ pc[u] = "startSvc"
    /\ \/ /\ svc' \in Started
          /\ Goto(u, "health", sess[u])
       \/ /\ svc' \in {svc} \cup Started
          /\ Recover(u, sess[u])
    /\ UNCHANGED <<dirVars, lock>>

(* An unhealthy process is still there, or it has exited. *)
WaitHealthy(u) ==
    /\ pc[u] = "health"
    /\ \/ /\ Goto(u, "commit", sess[u])
          /\ UNCHANGED svc
       \/ /\ svc' \in {svc, [svc EXCEPT !.run = Down]}
          /\ Recover(u, sess[u])
    /\ UNCHANGED <<dirVars, lock>>

(* Failing to remove the backup or to sync is reported, but it is Applied. *)
(* The sync may do nothing here too, so it takes no survivor away.         *)
Commit(u) ==
    /\ pc[u] = "commit"
    /\ backup' \in {backup, [backup EXCEPT ![u] = None]}
    /\ Goto(u, "close", [sess[u] EXCEPT !.result = "applied"])
    /\ UNCHANGED <<target, survivors, staging, lock, svc>>

-----------------------------------------------------------------------------
(* recover: every step is tried whatever the ones before it returned *)
Also(u, step) == [sess[u] EXCEPT !.failed = @ \cup {step}]

RestoreDefinition(u) ==
    /\ pc[u] = "restoreDef"
    /\ \/ /\ sess[u].receipt = None
          /\ Goto(u, "rollback", sess[u])
          /\ UNCHANGED svc
       \/ /\ sess[u].receipt # None
          /\ svc' = [svc EXCEPT !.def = sess[u].receipt]
          /\ Goto(u, "rollback", sess[u])
       \/ /\ sess[u].receipt # None
          /\ Goto(u, "rollback", Also(u, "definition"))
          /\ UNCHANGED svc
    /\ UNCHANGED <<dirVars, lock>>

RollBack(u) ==
    /\ pc[u] = "rollback"
    /\ \/ /\ ~sess[u].applied
          /\ Goto(u, "restart", sess[u])
          /\ UNCHANGED <<target, survivors, backup>>
       \/ /\ sess[u].applied
          /\ target' = backup[u]
          /\ survivors' \in {{backup[u]}, survivors \cup {backup[u]}}   \* synced, or not
          /\ backup' = [backup EXCEPT ![u] = None]
          /\ Goto(u, "restart", sess[u])
       \/ /\ sess[u].applied
          /\ Goto(u, "restart", Also(u, "binary"))
          /\ UNCHANGED <<target, survivors, backup>>
    /\ UNCHANGED <<staging, lock, svc>>

(* Mutant: recovery calls WaitHealthy without Start. *)
OnlyWaits(u) ==
    /\ pc[u] = "restart"
    /\ Goto(u, "rehealth", sess[u])
    /\ UNCHANGED <<dirVars, lock, svc>>

RestartService(u) ==
    /\ pc[u] = "restart"
    /\ \/ /\ ~sess[u].restart
          /\ Goto(u, "close", sess[u])
          /\ UNCHANGED svc
       \/ /\ sess[u].restart
          /\ svc' \in Started
          /\ Goto(u, "rehealth", sess[u])
       \/ /\ sess[u].restart
          /\ svc' \in {svc} \cup Started
          /\ Goto(u, "close", Also(u, "restart"))
    /\ UNCHANGED <<dirVars, lock>>

WaitRestarted(u) ==
    /\ pc[u] = "rehealth"
    /\ \/ /\ Goto(u, "close", sess[u])
          /\ UNCHANGED svc
       \/ /\ svc' \in {svc, [svc EXCEPT !.run = Down]}
          /\ Goto(u, "close", Also(u, "restart"))
    /\ UNCHANGED <<dirVars, lock>>

-----------------------------------------------------------------------------
(* The deferred Close: staging files still registered, then the lock. *)
Close(u) ==
    /\ pc[u] = "close"
    /\ staging' \in IF sess[u].owns THEN {staging, [staging EXCEPT ![u] = None]} ELSE {staging}
    /\ lock' = None
    /\ Goto(u, "done", Forget(sess[u]))
    /\ UNCHANGED <<target, survivors, backup, svc>>

(* The process is killed; the kernel drops its flock. *)
Crash(u) ==
    /\ pc[u] \in InSession
    /\ lock' = None
    /\ Goto(u, "dead", sess[u])
    /\ UNCHANGED <<dirVars, svc>>

(* Power is lost: the name leads to some version of the directory written  *)
(* since its last sync, and unsynced bytes may be gone.                    *)
PowerLoss ==
    /\ PowerFails
    /\ \E f \in survivors :
          target' \in IF Durable(f) THEN {f} ELSE {f, [f EXCEPT !.img = Torn]}
    /\ survivors' = {target'}
    /\ lock' = None
    /\ svc' = [svc EXCEPT !.run = Down]
    /\ pc' = [u \in Updaters |-> IF pc[u] \in {"start", "done"} THEN pc[u] ELSE "dead"]
    /\ UNCHANGED <<staging, backup, sess>>

-----------------------------------------------------------------------------
Update(u) ==
    \/ ResolveTarget(u) \/ StopBeforeBegin(u) \/ AcquireLock(u) \/ LockTimeout(u)
    \/ RevalidateTarget(u) \/ CreateStaging(u) \/ DownloadBinary(u) \/ VerifyStaging(u)
    \/ ProbeInstalled(u) \/ ProbeRunning(u) \/ StopService(u)
    \/ ApplyRefused(u) \/ BackUpTarget(u) \/ RenameStaging(u) \/ SyncDirectory(u)
    \/ UndoRename(u) \/ Reconcile(u) \/ StartService(u) \/ WaitHealthy(u) \/ Commit(u)
    \/ RestoreDefinition(u) \/ RollBack(u) \/ RestartService(u) \/ WaitRestarted(u)
    \/ Close(u)

Next == (\E u \in Updaters : Update(u) \/ Crash(u)) \/ PowerLoss

Spec == Init /\ [][Next]_vars

(* A live process keeps executing its program, and the calls it makes end. *)
FairSpec == Spec /\ \A u \in Updaters : WF_vars(Update(u))
-----------------------------------------------------------------------------
FailedAtClose(u) == pc[u] = "close" /\ sess[u].result = "error"

(* What the executable's name leads to is the first image or a verified    *)
(* release: no interleaving or kill lets bytes that verifyIntegrity would  *)
(* refuse (verify.go:8) become the installed program.  A power failure     *)
(* does: the staging file is closed and renamed without being synced.      *)
Intact == target.img \notin {Corrupt, Torn}

(* Between the rename and the commit the previous image stays on disk      *)
(* under the backup name, so a killed or failed update can be undone.      *)
Recoverable ==
    \A u \in Updaters :
        target.img = u /\ sess[u].result # "applied"
            => backup[u] # None /\ backup[u].img = sess[u].seen.img

(* An update that returned an error left its release in place only if      *)
(* putting the old binary back was tried and failed.                       *)
BinaryUndone ==
    \A u \in Updaters :
        pc[u] \in {"close", "done"} /\ sess[u].result = "error" /\ target.img = u
            => sess[u].failed \cap {"inline", "binary"} # {}

(* A failed update leaves no service definition of its own, unless Restore *)
(* failed: what Reconcile changed before it failed is restored too.        *)
DefinitionUndone ==
    \A u \in Updaters :
        pc[u] \in {"close", "done"} /\ sess[u].result = "error" /\ svc.def = u
            => "definition" \in sess[u].failed

(* When recovery has restarted the service, something runs: the binary now *)
(* installed, or the release that was withdrawn, if its own start left it  *)
(* running.                                                                *)
RecoveredRuns ==
    \A u \in Updaters :
        FailedAtClose(u) /\ sess[u].restart /\ "restart" \notin sess[u].failed
            => svc.run \in {target.img, u}

(* Applied means a healthy installation committed: at the commit point the *)
(* release is installed and a managed service runs it.                     *)
HealthyCommit ==
    \A u \in Updaters :
        pc[u] = "commit" => /\ lock = u /\ target.img = u
                            /\ Managed => svc.run = u

(* A success whose rename was synced is not taken back with the power: the *)
(* name never leads again to the image all updates replaced.  What it      *)
(* leads to may be torn, and a file system without directory syncs         *)
(* promises nothing.                                                       *)
OldNeverReturns ==
    (\E u \in Updaters : sess[u].result = "applied" /\ sess[u].synced)
        => target.img # Old

(* A service whose Stop succeeded, or whose binary was replaced, runs      *)
(* again while the process lives, unless starting it failed and the        *)
(* failure is reported.                                                    *)
RecoveryRestarts ==
    \A u \in Updaters :
        pc[u] \in InSession /\ sess[u].restart /\ svc.run = Down
            ~> svc.run # Down \/ pc[u] = "dead" \/ "restart" \in sess[u].failed

(* A step of the transaction is a step of the abstract exchange. *)
Contract == INSTANCE Exchange WITH
    Actors <- Updaters,
    cur    <- target.img,
    holder <- IF lock # None /\ pc[lock] # "revalidate" THEN lock ELSE None,
    seen   <- [u \in Updaters |-> IF sess[u].seen = None THEN None ELSE sess[u].seen.img],
    kept   <- {u \in Updaters : sess[u].result = "applied"}

(* The updaters exchange the target one at a time, and each replaces only  *)
(* the image it resolved before it took the lock.                          *)
ImplementsExchange == Contract!Spec
=============================================================================
