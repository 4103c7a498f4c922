---------------------------- MODULE WindowsUpdate ----------------------------
(***************************************************************************)
(* Updater.Run of package selfupdate with the standalone installer on       *)
(* Windows: choosing a release of a GitHub repository, the lock, the        *)
(* receipt of an earlier update, download and verification, and the         *)
(* replacement of an executable that may be running.  Windows does not      *)
(* remove a running image: the superseded file is kept under a second name, *)
(* and when it cannot be removed a receipt asks the next update to do it.   *)
(* Module SelfUpdate has the transaction on Unix and its services.          *)
(***************************************************************************)
EXTENDS Integers, FiniteSets

CONSTANTS
    Updaters,   \* processes, each runs one update
    Releases,   \* version numbers of the repository's releases
    Requests,   \* bound: the requests the processes make
    Starts,     \* bound: the version installed first, 0 for a local build
    MaxKills,   \* bound: processes killed
    None

ASSUME ReleasesAssumption == Releases \subseteq Nat \ {0} /\ Starts \subseteq Nat
ASSUME KillsAssumption == MaxKills \in Nat
ASSUME RequestsAssumption ==
    Requests \subseteq [Updaters -> [tag   : Releases \cup {None},  \* --version
                                     check : BOOLEAN, force : BOOLEAN, yes : BOOLEAN]]

VARIABLES
    request,    \* the requests of this behaviour
    status,     \* status[v]: a release that is a draft, published, or immutable
    target,     \* the executable: an image and the updater that put it there
    backup,     \* backup[u]: the image under the second name u gave, or None
    receipt,    \* the receipt beside the target: None, or what it says
    lock,       \* the updater that holds the lock file
    up,         \* up[u]: the process of u
    kills

vars == <<request, status, target, backup, receipt, lock, up, kills>>

(* What a digest is the digest of: the release's executable, or something   *)
(* else; a spoiled manifest does not agree with a spoiled executable.       *)
Digest  == {"authentic", "other", "unknown"}

Image   == [version : Releases \cup Starts, by : Updaters \cup {None}, whole : BOOLEAN]
Receipt == [names : Updaters, digest : Image, torn : BOOLEAN]

ASSUME NoneAssumption == None \notin Updaters \cup Nat \cup Image \cup Receipt

Process ==
    [pc    : {"idle", "resolve", "fetch", "select", "classify", "confirm", "begin", "cleanup",
              "forget", "revalidate", "manifest", "binary", "verify",
              "backup", "replace", "sync", "undo",
              "commit", "receipt", "write", "close", "end", "killed"},
     runs  : Releases \cup Starts,                  \* the version of the running image
     saw   : Image \cup {None},                     \* the target that was resolved
     rel   : Releases \cup {None},                  \* the release that was chosen
     sums  : Digest,                                \* what the manifest says
     file  : Digest,                                \* what was downloaded
     said  : {"nothing", "failed", "current", "available", "declined", "applied",
              "pending"}]                           \* applied, with a pending backup

TypeOK ==
    /\ request \in Requests
    /\ status \in [Releases -> {"draft", "published", "immutable"}]
    /\ target \in Image
    /\ backup \in [Updaters -> Image \cup {None}]
    /\ receipt \in Receipt \cup {None}
    /\ lock \in Updaters \cup {None}
    /\ up \in [Updaters -> Process]
    /\ kills \in 0..MaxKills

Init ==
    /\ request \in Requests
    /\ status \in [Releases -> {"draft", "immutable"}]
    /\ \E v \in Starts : target = [version |-> v, by |-> None, whole |-> TRUE]
    /\ backup = [u \in Updaters |-> None]
    /\ receipt = None
    /\ lock = None
    /\ up = [u \in Updaters |->
                [pc |-> "idle", runs |-> target.version, saw |-> None, rel |-> None,
                 sums |-> "unknown", file |-> "unknown", said |-> "nothing"]]
    /\ kills = 0

At(u, pc)    == up[u].pc = pc
Goto(u, pc)  == up' = [up EXCEPT ![u].pc = pc]
Ends(u, how) == up' = [up EXCEPT ![u].pc = "end", ![u].said = how]
Fails(u)     == up' = [up EXCEPT ![u].pc = "close", ![u].said = "failed"]

files    == <<target, backup, receipt>>
settings == <<request, status, kills>>

-----------------------------------------------------------------------------
(* The owner of the repository moves a release on; none is withdrawn. *)
Publish(v) ==
    /\ \/ status[v] = "draft" /\ status' = [status EXCEPT ![v] = "published"]
       \/ status[v] # "immutable" /\ status' = [status EXCEPT ![v] = "immutable"]
    /\ UNCHANGED <<request, files, lock, up, kills>>

Contradictory(r) == r.check /\ (r.yes \/ r.force)

(* A process is started from the target, and its request validated. *)
Launch(u) ==
    /\ At(u, "idle")
    /\ up' = [up EXCEPT ![u].pc = IF Contradictory(request[u]) THEN "end" ELSE "resolve",
                        ![u].runs = target.version]
    /\ UNCHANGED <<settings, files, lock>>

ResolveTarget(u) ==
    /\ At(u, "resolve")
    /\ up' = [up EXCEPT ![u].pc = "fetch", ![u].saw = target]
    /\ UNCHANGED <<settings, files, lock>>

(* The executable is not found, is a link, or is outside the allowed roots. *)
Unresolvable(u) ==
    /\ At(u, "resolve")
    /\ Ends(u, "failed")
    /\ UNCHANGED <<settings, files, lock>>

(* The owner marks any published release as the latest, not always the      *)
(* highest (errLatestOlder is written for that), and may mark another.      *)
Visible == {v \in Releases : status[v] # "draft"}
Latest  == Visible
ByTag(v) == {v} \cap Visible

Fetch(u) ==
    /\ At(u, "fetch")
    /\ \E v \in IF request[u].tag = None THEN Latest ELSE ByTag(request[u].tag) :
          /\ status[v] = "immutable"
          /\ up' = [up EXCEPT ![u].pc = "select", ![u].rel = v]
    /\ UNCHANGED <<settings, files, lock>>

(* A status, a rate limit, metadata that is too long or wrong, or a release *)
(* that is not immutable.                                                   *)
NoRelease(u) ==
    /\ At(u, "fetch")
    /\ Ends(u, "failed")
    /\ UNCHANGED <<settings, files, lock>>

(* The assets for the platform and the manifest: each is there once, or not. *)
Select(u) ==
    /\ At(u, "select")
    /\ Goto(u, "classify") \/ Ends(u, "failed")
    /\ UNCHANGED <<settings, files, lock>>

Local(u) == up[u].runs = 0

(* classifyOperation: what there is to do, by the version that is running. *)
Operation(u) ==
    LET new == up[u].rel  fromLatest == request[u].tag = None IN
    CASE Local(u) -> IF request[u].check \/ request[u].force THEN "replace" ELSE "error"
      [] up[u].runs < new -> "upgrade"
      [] up[u].runs = new -> IF request[u].force /\ ~request[u].check THEN "reinstall"
                                                                      ELSE "none"
      [] OTHER -> IF fromLatest THEN "error" ELSE "rollback"

Classify(u) ==
    /\ At(u, "classify")
    /\ LET op == Operation(u) IN
       \/ op = "error" /\ Ends(u, "failed")
       \/ op = "none" /\ Ends(u, "current")
       \/ op \notin {"error", "none"} /\ request[u].check /\ Ends(u, "available")
       \/ op \notin {"error", "none"} /\ ~request[u].check
          /\ Goto(u, IF request[u].yes THEN "begin" ELSE "confirm")
    /\ UNCHANGED <<settings, files, lock>>

Confirm(u) ==
    /\ At(u, "confirm")
    /\ Goto(u, "begin") \/ Ends(u, "declined") \/ Ends(u, "failed")
    /\ UNCHANGED <<settings, files, lock>>

-----------------------------------------------------------------------------
(* beginSession: the lock, the receipt, the target again *)
AcquireLock(u) ==
    /\ At(u, "begin")
    /\ lock = None
    /\ lock' = u
    /\ Goto(u, "cleanup")
    /\ UNCHANGED <<settings, files>>

(* ErrConcurrentUpdate after the timeout, or the lock file cannot be opened *)
NoLock(u) ==
    /\ At(u, "begin")
    /\ Ends(u, "failed")
    /\ UNCHANGED <<settings, files, lock>>

Readable == receipt # None /\ ~receipt.torn
Pending  == Readable /\ backup[receipt.names] = receipt.digest

NothingPending(u) ==
    /\ At(u, "cleanup")
    /\ receipt = None
    /\ Goto(u, "revalidate")
    /\ UNCHANGED <<settings, files, lock>>

(* A receipt that cannot be looked up or read, a backup that is missing or  *)
(* differs from what the receipt says, or one that is still running: Begin  *)
(* fails.                                                                   *)
CleanupFails(u) ==
    /\ At(u, "cleanup")
    /\ Fails(u)
    /\ UNCHANGED <<settings, files, lock>>

RemovePending(u) ==
    /\ At(u, "cleanup")
    /\ Pending
    /\ backup' = [backup EXCEPT ![receipt.names] = None]
    /\ Goto(u, "forget")
    /\ UNCHANGED <<settings, target, receipt, lock>>

(* Mutant: the receipt is left for the next update. *)
KeepsReceipt(u) ==
    /\ At(u, "forget")
    /\ Goto(u, "revalidate")
    /\ UNCHANGED <<settings, files, lock>>

(* The receipt is removed, if it can be; the directory is synced, if it can. *)
RemoveReceipt(u) ==
    /\ At(u, "forget")
    /\ \/ receipt' = None /\ (Goto(u, "revalidate") \/ Fails(u))
       \/ receipt' = receipt /\ Fails(u)
    /\ UNCHANGED <<settings, target, backup, lock>>

(* Mutant: the target is not looked at again under the lock. *)
Trusts(u) ==
    /\ At(u, "revalidate")
    /\ Goto(u, "manifest")
    /\ UNCHANGED <<settings, files, lock>>

Revalidate(u) ==
    /\ At(u, "revalidate")
    /\ IF target = up[u].saw THEN Goto(u, "manifest") ELSE Fails(u)
    /\ UNCHANGED <<settings, files, lock>>

-----------------------------------------------------------------------------
(* An asset is opened by its ID and copied up to its advertised size; with  *)
(* a digest in the metadata, what is not authentic ends here.               *)
DownloadManifest(u) ==
    /\ At(u, "manifest")
    /\ \/ up' \in {[up EXCEPT ![u].pc = "binary", ![u].sums = d] : d \in Digest \ {"unknown"}}
       \/ Fails(u)
    /\ UNCHANGED <<settings, files, lock>>

DownloadBinary(u) ==
    /\ At(u, "binary")
    /\ \/ up' \in {[up EXCEPT ![u].pc = "verify", ![u].file = d] : d \in Digest \ {"unknown"}}
       \/ Fails(u)
    /\ UNCHANGED <<settings, files, lock>>

(* The manifest lists the digest of the executable that was downloaded. *)
Listed(u) == up[u].sums = "authentic" /\ up[u].file = "authentic"

(* ... and the verifiers and the transformer of the product agree. *)
Verify(u) ==
    /\ At(u, "verify")
    /\ (Listed(u) /\ Goto(u, "backup")) \/ Fails(u)
    /\ UNCHANGED <<settings, files, lock>>

(* replaceTarget: a hard link to the target, or a copy of it *)
Backup(u) ==
    /\ At(u, "backup")
    /\ \/ backup' = [backup EXCEPT ![u] = target] /\ Goto(u, "replace")
       \/ Fails(u) /\ UNCHANGED backup
    /\ UNCHANGED <<settings, target, receipt, lock>>

Staged(u) == [version |-> up[u].rel, by |-> u, whole |-> up[u].file = "authentic"]

(* MoveFileEx, after retries while the target is shared; its failure leaves *)
(* the target, and removes the backup if that can be done.                  *)
Replace(u) ==
    /\ At(u, "replace")
    /\ \/ target' = Staged(u) /\ Goto(u, "sync") /\ UNCHANGED backup
       \/ /\ backup' \in {backup, [backup EXCEPT ![u] = None]}
          /\ Fails(u)
          /\ UNCHANGED target
    /\ UNCHANGED <<settings, receipt, lock>>

SyncDirectory(u) ==
    /\ At(u, "sync")
    /\ Goto(u, "commit") \/ Goto(u, "undo")
    /\ UNCHANGED <<settings, files, lock>>

(* Mutant: the backup is removed, not moved back. *)
DropsBackup(u) ==
    /\ At(u, "undo")
    /\ backup' = [backup EXCEPT ![u] = None]
    /\ Fails(u)
    /\ UNCHANGED <<settings, target, receipt, lock>>

Undo(u) ==
    /\ At(u, "undo")
    /\ \/ target' = backup[u] /\ backup' = [backup EXCEPT ![u] = None]
       \/ UNCHANGED <<target, backup>>
    /\ Fails(u)
    /\ UNCHANGED <<settings, receipt, lock>>

-----------------------------------------------------------------------------
Succeeds(u, how) == up' = [up EXCEPT ![u].pc = "close", ![u].said = how]
Applied(u)       == Succeeds(u, "applied")

(* commitReplacement: the backup is removed, or it cannot be for a reason   *)
(* that ends the update with an error, or it is the image that is running.  *)
(* This settles the outcome, so "said" is set here; what Run still does     *)
(* before it returns changes no file.                                       *)
Commit(u) ==
    /\ At(u, "commit")
    /\ \/ backup' = [backup EXCEPT ![u] = None] /\ Applied(u)
       \/ Applied(u) /\ UNCHANGED backup
       \/ Goto(u, "receipt") /\ UNCHANGED backup
    /\ UNCHANGED <<settings, target, receipt, lock>>

(* writeCleanupReceipt: the file is created, and must not exist; OneReceipt *)
(* says that it does not.                                                   *)
CreateReceipt(u) ==
    /\ At(u, "receipt")
    /\ receipt = None
    /\ \/ receipt' = [names |-> u, digest |-> backup[u], torn |-> TRUE] /\ Goto(u, "write")
       \/ UNCHANGED receipt /\ Applied(u)
    /\ UNCHANGED <<settings, target, backup, lock>>

(* Written, synced, closed and restricted, or removed again, if it can be. *)
WriteReceipt(u) ==
    /\ At(u, "write")
    /\ \/ receipt' = [receipt EXCEPT !.torn = FALSE] /\ Succeeds(u, "pending")
       \/ receipt' \in {None, receipt, [receipt EXCEPT !.torn = FALSE]} /\ Applied(u)
    /\ UNCHANGED <<settings, target, backup, lock>>

(* installSession.Close *)
Close(u) ==
    /\ At(u, "close")
    /\ Goto(u, "end")
    /\ lock' = None
    /\ UNCHANGED <<settings, files>>

(* The process is killed, and Windows releases its lock. *)
Kill(u) ==
    /\ kills < MaxKills
    /\ up[u].pc \notin {"idle", "end", "killed"}
    /\ kills' = kills + 1
    /\ Goto(u, "killed")
    /\ lock' = IF lock = u THEN None ELSE lock
    /\ UNCHANGED <<request, status, files>>

Run(u) ==
    \/ Launch(u) \/ ResolveTarget(u) \/ Unresolvable(u) \/ Fetch(u) \/ NoRelease(u)
    \/ Select(u) \/ Classify(u) \/ Confirm(u)
    \/ AcquireLock(u) \/ NoLock(u)
    \/ NothingPending(u) \/ CleanupFails(u) \/ RemovePending(u) \/ RemoveReceipt(u)
    \/ Revalidate(u) \/ DownloadManifest(u) \/ DownloadBinary(u) \/ Verify(u)
    \/ Backup(u) \/ Replace(u) \/ SyncDirectory(u) \/ Undo(u)
    \/ Commit(u) \/ CreateReceipt(u) \/ WriteReceipt(u) \/ Close(u)

Next ==
    \/ \E u \in Updaters : Run(u) \/ Kill(u)
    \/ \E v \in Releases : Publish(v)

Spec == Init /\ [][Next]_vars

-----------------------------------------------------------------------------
(* An image is never lost to an update that did not succeed                 *)
(* (replace_windows.go:28): the executable in place is one that has been    *)
(* verified, and as long as the updater that put it there has not reported  *)
(* success, the image it replaced is whole under its second name, whoever   *)
(* was killed and whatever a later update cleaned up.                       *)
OldImageKept ==
    /\ target.whole
    /\ \A u \in Updaters :
          target.by = u /\ up[u].said \notin {"applied", "pending"} => backup[u] = up[u].saw

(* The receipt is created with O_EXCL (cleanup_windows.go:103), and a       *)
(* receipt in the way would make the update forget a backup it has to name: *)
(* every path into a session has removed the receipt before.                *)
OneReceipt ==
    \A u \in Updaters :
        /\ up[u].pc \in {"manifest", "binary", "verify", "backup", "replace",
                        "sync", "undo", "commit", "receipt"} => receipt = None
        /\ At(u, "write") => receipt # None /\ receipt.names = u

(* Seen from the executable, a session begins with its first asset.         *)
Author(img) == IF img.by = None THEN "installed" ELSE img.by

Contract == INSTANCE Exchange WITH
    Actors <- Updaters,
    Old    <- "installed",
    cur    <- Author(target),
    holder <- IF lock # None /\ up[lock].sums # "unknown" THEN lock ELSE None,
    seen   <- [u \in Updaters |-> IF up[u].saw = None THEN None ELSE Author(up[u].saw)],
    kept   <- {u \in Updaters : up[u].said \in {"applied", "pending"}}

(* An update replaces only the executable it resolved before it had the     *)
(* lock, one update at a time, and takes back only what it did not report   *)
(* as a success, whoever is killed (installer.go, replace_windows.go).      *)
ImplementsExchange == Contract!Spec
=============================================================================
