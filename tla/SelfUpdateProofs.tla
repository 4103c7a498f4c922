-------------------------- MODULE SelfUpdateProofs --------------------------
(***************************************************************************)
(* Proofs about SelfUpdate for any number of updaters.  First types, the   *)
(* exclusion of two sessions, and that nothing verification refuses ever   *)
(* becomes the installed program while the machine keeps its power; then   *)
(* the contract of an update.                                              *)
(***************************************************************************)
EXTENDS SelfUpdate, TLAPS

(* Whoever is between Begin and Close holds the advisory lock. *)
LockHeld == \A u \in Updaters : pc[u] \in InSession => lock = u

(* A staging file is there from its creation to the rename, and is the     *)
(* authentic release once verified.                                        *)
Staged ==
    /\ \A u \in Updaters : pc[u] \in {"download", "verify"} => staging[u] \in File
    /\ \A u \in Updaters : pc[u] \in {"install", "probe", "stop", "apply", "rename"} =>
           staging[u] \in File /\ staging[u].img = u

(* Steps of an update that has not replaced the executable for good. *)
Early == {"start", "begin", "revalidate", "create", "download", "verify", "install", "probe",
          "stop", "apply", "rename", "sync", "undo"}

(* A rollback copy is there as long as a step may rename it back. *)
Kept ==
    /\ \A u \in Updaters :
           pc[u] \in {"rename", "sync", "undo", "reconcile", "startSvc", "health", "commit"} =>
               backup[u] \in File
    /\ \A u \in Updaters :
           pc[u] \in {"restoreDef", "rollback"} /\ sess[u].applied => backup[u] \in File
    /\ \A u \in Updaters : pc[u] \in Early => ~sess[u].applied

(* Images verification would refuse and that nothing may install: without  *)
(* power failures no file is ever torn.                                    *)
Refused == {Corrupt} \cup (IF PowerFails THEN {} ELSE {Torn})

(* No file the executable's name can lead to was refused. *)
Clean ==
    /\ target.img \notin Refused
    /\ \A f \in survivors : f.img \notin Refused
    /\ \A u \in Updaters : backup[u] \in File => backup[u].img \notin Refused

IInv == TypeOK /\ LockHeld /\ Staged /\ Kept /\ Clean
-----------------------------------------------------------------------------
LEMMA ImageDistinct == \A u \in Updaters : u \notin Refused /\ u # Torn /\ u # None
  BY ConstantsDistinct DEF Refused

LEMMA FileType ==
    /\ \A u \in Updaters, img \in Image : /\ NewFile(u, img) \in File
                                         /\ NewFile(u, img).img = img
    /\ \A f \in File : f.img \in Image
    /\ OrigFile \in File /\ OrigFile.img = Old
  BY DEF NewFile, OrigFile, File, Ino, Image

LEMMA GotoEffect ==
    ASSUME TypeOK, NEW u \in Updaters, NEW step \in Step, NEW s \in Session, Goto(u, step, s)
    PROVE  /\ pc' \in [Updaters -> Step] /\ sess' \in [Updaters -> Session]
           /\ pc'[u] = step /\ sess'[u] = s
           /\ \A v \in Updaters : v # u => pc'[v] = pc[v] /\ sess'[v] = sess[v]
  BY DEF TypeOK, Goto

(* What the parts of the invariant ask of a step of one updater. *)
LEMMA SessionStep ==
    ASSUME IInv, NEW u \in Updaters, NEW step \in Step, NEW s \in Session, Goto(u, step, s),
           target' \in File, target'.img \notin Refused,
           survivors' \subseteq File, \A f \in survivors' : f.img \notin Refused,
           staging' \in [Updaters -> File \cup {None}],
           \A v \in Updaters : v # u => staging'[v] = staging[v],
           backup' \in [Updaters -> File \cup {None}],
           \A v \in Updaters : v # u => backup'[v] = backup[v],
           backup'[u] \in File => backup'[u].img \notin Refused,
           svc' \in [def : Definition, run : Image \cup {Down}],
           \/ lock' = lock /\ (step \in InSession => pc[u] \in InSession)
           \/ lock' = None /\ step \notin InSession /\ pc[u] \in InSession
           \/ lock' = u /\ lock = None,
           step \in {"download", "verify"} => staging'[u] \in File,
           step \in {"install", "probe", "stop", "apply", "rename"} =>
               staging'[u] \in File /\ staging'[u].img = u,
           step \in {"rename", "sync", "undo", "reconcile", "startSvc", "health", "commit"} =>
               backup'[u] \in File,
           step \in {"restoreDef", "rollback"} /\ s.applied => backup'[u] \in File,
           step \in Early => ~s.applied
    PROVE  IInv'
<1>1. /\ pc' \in [Updaters -> Step] /\ sess' \in [Updaters -> Session]
      /\ pc'[u] = step /\ sess'[u] = s
      /\ \A v \in Updaters : v # u => pc'[v] = pc[v] /\ sess'[v] = sess[v]
  BY GotoEffect DEF IInv
<1>2. TypeOK'
  BY <1>1 DEF IInv, TypeOK
<1>3. LockHeld'
  BY <1>1, ImageDistinct DEF IInv, LockHeld
<1>4. Staged'
  BY <1>1 DEF IInv, Staged
<1>5. Kept'
  BY <1>1 DEF IInv, Kept
<1>6. Clean'
  BY <1>1 DEF IInv, Clean
<1> QED
  BY <1>2, <1>3, <1>4, <1>5, <1>6 DEF IInv

(* The special case of a step that leaves the directory and the lock alone. *)
LEMMA QuietStep ==
    ASSUME IInv, NEW u \in Updaters, NEW step \in Step, NEW s \in Session, Goto(u, step, s),
           UNCHANGED <<dirVars, lock>>,
           svc' \in [def : Definition, run : Image \cup {Down}],
           step \in InSession => pc[u] \in InSession,
           step \in {"download", "verify"} => staging[u] \in File,
           step \in {"install", "probe", "stop", "apply", "rename"} =>
               staging[u] \in File /\ staging[u].img = u,
           step \in {"rename", "sync", "undo", "reconcile", "startSvc", "health", "commit"} =>
               backup[u] \in File,
           step \in {"restoreDef", "rollback"} /\ s.applied => backup[u] \in File,
           step \in Early => ~s.applied
    PROVE  IInv'
<1>1. UNCHANGED <<target, survivors, staging, backup, lock>>
  BY DEF dirVars
<1> QED
  BY <1>1, SessionStep DEF IInv, TypeOK, Clean

LEMMA ErrorSession ==
    ASSUME TypeOK, NEW u \in Updaters
    PROVE  /\ sess[u] \in Session
           /\ [sess[u] EXCEPT !.result = "error"] \in Session
           /\ [sess[u] EXCEPT !.result = "error"].applied = sess[u].applied
           /\ Forget(sess[u]) \in Session
           /\ [Forget(sess[u]) EXCEPT !.result = "error"] \in Session
           /\ [Forget(sess[u]) EXCEPT !.result = "error"].applied = sess[u].applied
<1>1. sess[u] \in Session
  BY DEF TypeOK
<1>2. Forget(sess[u]) \in Session /\ Forget(sess[u]).applied = sess[u].applied
  BY <1>1 DEF Forget, Session
<1>3. ASSUME NEW s \in Session
      PROVE  [s EXCEPT !.result = "error"] \in Session /\ [s EXCEPT !.result = "error"].applied = s.applied
  BY DEF Session
<1> QED
  BY <1>1, <1>2, <1>3

(* The session after a replacement, its rename synced or not. *)
LEMMA ReplacedFields ==
    ASSUME NEW s \in Session, NEW flushed \in BOOLEAN
    PROVE  /\ Replaced(s, flushed) \in Session
           /\ Replaced(s, flushed).applied /\ Replaced(s, flushed).restart = Managed
           /\ Replaced(s, flushed).synced <=> flushed
           /\ Replaced(s, flushed).seen = s.seen /\ Replaced(s, flushed).result = s.result
           /\ Replaced(s, flushed).failed = s.failed /\ Replaced(s, flushed).receipt = s.receipt
<1> DEFINE m == Managed
<1>1. m \in BOOLEAN
  BY DEF Managed
<1> HIDE DEF m
<1>2. ASSUME NEW r, r = [Forget(s) EXCEPT !.applied = TRUE, !.synced = flushed, !.restart = m]
      PROVE  /\ r \in Session /\ r.applied /\ r.restart = m /\ (r.synced <=> flushed)
             /\ r.seen = s.seen /\ r.result = s.result /\ r.failed = s.failed
             /\ r.receipt = s.receipt
  BY <1>1, <1>2 DEF Forget, Session
<1> QED
  BY <1>2 DEF Replaced, m

LEMMA AlsoType ==
    ASSUME TypeOK, NEW u \in Updaters, NEW step \in RecoveryStep
    PROVE  Also(u, step) \in Session /\ Also(u, step).applied = sess[u].applied
<1>1. sess[u] \in Session
  BY DEF TypeOK
<1>2. sess[u].failed \cup {step} \in SUBSET RecoveryStep
  BY <1>1 DEF Session
<1> QED
  BY <1>1, <1>2 DEF Also, Session

-----------------------------------------------------------------------------
(* The updater's steps that leave the directory and the lock alone. *)
LEMMA QuietActions ==
    ASSUME IInv, NEW u \in Updaters,
           \/ ResolveTarget(u) \/ StopBeforeBegin(u) \/ LockTimeout(u) \/ VerifyStaging(u)
           \/ ProbeInstalled(u) \/ ProbeRunning(u) \/ StopService(u) \/ ApplyRefused(u)
           \/ Reconcile(u) \/ StartService(u) \/ WaitHealthy(u)
           \/ RestoreDefinition(u) \/ RestartService(u) \/ WaitRestarted(u)
    PROVE  IInv'
<1> USE DEF InSession, Replacing, Recovering, Step, Early
<1>a. TypeOK /\ Staged /\ Kept
  BY DEF IInv
<1>b. svc \in [def : Definition, run : Image \cup {Down}] /\ sess[u] \in Session
  BY <1>a DEF TypeOK
<1>1. CASE ResolveTarget(u)
  <2>1. [sess[u] EXCEPT !.seen = target] \in Session /\ [sess[u] EXCEPT !.seen = target].applied = sess[u].applied
    BY <1>a, <1>b DEF TypeOK, Session
  <2> QED
    BY <1>a, <1>b, <1>1, <2>1, ErrorSession, QuietStep DEF ResolveTarget, Kept
<1>2. CASE StopBeforeBegin(u)
  BY <1>a, <1>b, <1>2, ErrorSession, QuietStep DEF StopBeforeBegin, Kept
<1>3. CASE LockTimeout(u)
  BY <1>a, <1>b, <1>3, ErrorSession, QuietStep DEF LockTimeout, Kept
<1>4. CASE VerifyStaging(u)
  BY <1>a, <1>b, <1>4, ErrorSession, QuietStep DEF VerifyStaging, IntegrityOK, Fails, Staged, Kept
<1>5. CASE ProbeInstalled(u)
  BY <1>a, <1>b, <1>5, ErrorSession, QuietStep DEF ProbeInstalled, Fails, Staged, Kept
<1>6. CASE ProbeRunning(u)
  BY <1>a, <1>b, <1>6, ErrorSession, QuietStep DEF ProbeRunning, Fails, Staged, Kept
<1>7. CASE StopService(u)
  <2>1. [sess[u] EXCEPT !.restart = TRUE] \in Session /\ [sess[u] EXCEPT !.restart = TRUE].applied = sess[u].applied
    BY <1>b DEF Session
  <2>2. svc' \in [def : Definition, run : Image \cup {Down}]
    BY <1>b, <1>7 DEF StopService
  <2> QED
    BY <1>a, <1>b, <1>7, <2>1, <2>2, ErrorSession, QuietStep DEF StopService, Fails, Staged, Kept
<1>8. CASE ApplyRefused(u)
  BY <1>a, <1>b, <1>8, ErrorSession, QuietStep DEF ApplyRefused, ReplaceFails, Kept
<1>9. CASE Reconcile(u)
  <2>1. PICK changed \in BOOLEAN :
           /\ svc' = [svc EXCEPT !.def = IF changed THEN u ELSE @]
           /\ \/ Goto(u, "startSvc", [sess[u] EXCEPT !.receipt = IF changed THEN svc.def ELSE None])
              \/ Goto(u, "restoreDef", [[sess[u] EXCEPT !.receipt = IF changed THEN svc.def ELSE None]
                                       EXCEPT !.result = "error"])
    BY <1>9 DEF Reconcile, Recover
  <2> DEFINE s == [sess[u] EXCEPT !.receipt = IF changed THEN svc.def ELSE None]
  <2>2. s \in Session /\ s.applied = sess[u].applied
    BY <1>b DEF Session
  <2>3. Goto(u, "startSvc", s) \/ Goto(u, "restoreDef", [s EXCEPT !.result = "error"])
    BY <2>1
  <2> HIDE DEF s
  <2>4. [s EXCEPT !.result = "error"] \in Session /\ [s EXCEPT !.result = "error"].applied = s.applied
    BY <2>2 DEF Session
  <2>5. svc' \in [def : Definition, run : Image \cup {Down}]
    BY <1>b, <2>1 DEF Definition
  <2> QED
    BY <1>a, <1>b, <1>9, <2>2, <2>3, <2>4, <2>5, QuietStep DEF Reconcile, Kept
<1>10. CASE StartService(u)
  <2>1. svc' \in [def : Definition, run : Image \cup {Down}]
    BY <1>a, <1>b, <1>10, FileType DEF StartService, Started, TypeOK
  <2> QED
    BY <1>a, <1>b, <1>10, <2>1, ErrorSession, QuietStep DEF StartService, Recover, Kept
<1>11. CASE WaitHealthy(u)
  <2>1. svc' \in [def : Definition, run : Image \cup {Down}]
    BY <1>b, <1>11 DEF WaitHealthy
  <2> QED
    BY <1>a, <1>b, <1>11, <2>1, ErrorSession, QuietStep DEF WaitHealthy, Recover, Kept
<1>12. CASE RestoreDefinition(u)
  <2>1. svc' \in [def : Definition, run : Image \cup {Down}]
    BY <1>b, <1>12 DEF RestoreDefinition, Session
  <2> QED
    BY <1>a, <1>b, <1>12, <2>1, AlsoType, QuietStep DEF RestoreDefinition, RecoveryStep, Kept
<1>13. CASE RestartService(u)
  <2>1. svc' \in [def : Definition, run : Image \cup {Down}]
    BY <1>a, <1>b, <1>13, FileType DEF RestartService, Started, TypeOK
  <2> QED
    BY <1>a, <1>b, <1>13, <2>1, AlsoType, QuietStep DEF RestartService, RecoveryStep
<1>14. CASE WaitRestarted(u)
  <2>1. svc' \in [def : Definition, run : Image \cup {Down}]
    BY <1>b, <1>14 DEF WaitRestarted
  <2> QED
    BY <1>a, <1>b, <1>14, <2>1, AlsoType, QuietStep DEF WaitRestarted, RecoveryStep
<1> QED
  BY <1>1, <1>2, <1>3, <1>4, <1>5, <1>6, <1>7, <1>8, <1>9, <1>10, <1>11, <1>12, <1>13, <1>14

-----------------------------------------------------------------------------
(* The steps that take or release the lock, or change the directory. *)
LEMMA LockActions ==
    ASSUME IInv, NEW u \in Updaters,
           AcquireLock(u) \/ RevalidateTarget(u) \/ Close(u) \/ Crash(u)
    PROVE  IInv'
<1> USE DEF InSession, Replacing, Recovering, Step, Early
<1>a. TypeOK /\ Staged /\ Kept /\ Clean
  BY DEF IInv
<1>b. svc \in [def : Definition, run : Image \cup {Down}] /\ sess[u] \in Session
  BY <1>a DEF TypeOK
<1>1. CASE AcquireLock(u)
  BY <1>a, <1>b, <1>1, SessionStep DEF AcquireLock, dirVars, TypeOK, Clean, Kept
<1>2. CASE RevalidateTarget(u)
  <2>1. CASE Goto(u, "create", sess[u]) /\ lock' = lock
    BY <1>a, <1>b, <1>2, <2>1, QuietStep DEF RevalidateTarget, dirVars, Kept
  <2>2. CASE Goto(u, "done", [sess[u] EXCEPT !.result = "error"]) /\ lock' = None
    BY <1>a, <1>b, <1>2, <2>2, ErrorSession, SessionStep
       DEF RevalidateTarget, dirVars, TypeOK, Clean
  <2> QED
    BY <1>2, <2>1, <2>2 DEF RevalidateTarget
<1>3. CASE Close(u)
  <2>1. /\ staging' \in [Updaters -> File \cup {None}]
        /\ \A v \in Updaters : v # u => staging'[v] = staging[v]
    BY <1>a, <1>3 DEF Close, TypeOK
  <2> QED
    BY <1>a, <1>b, <1>3, <2>1, ErrorSession, SessionStep DEF Close, TypeOK, Clean
<1>4. CASE Crash(u)
  BY <1>a, <1>b, <1>4, SessionStep DEF Crash, dirVars, TypeOK, Clean
<1> QED
  BY <1>1, <1>2, <1>3, <1>4

LEMMA DirectoryActions ==
    ASSUME IInv, NEW u \in Updaters,
           \/ CreateStaging(u) \/ DownloadBinary(u) \/ BackUpTarget(u) \/ RenameStaging(u)
           \/ SyncDirectory(u) \/ UndoRename(u) \/ Commit(u) \/ RollBack(u)
    PROVE  IInv'
<1> USE DEF InSession, Replacing, Recovering, Step, Early
<1>a. TypeOK /\ Staged /\ Kept /\ Clean
  BY DEF IInv
<1>b. /\ svc \in [def : Definition, run : Image \cup {Down}] /\ sess[u] \in Session
      /\ target \in File /\ survivors \subseteq File
      /\ staging \in [Updaters -> File \cup {None}] /\ backup \in [Updaters -> File \cup {None}]
  BY <1>a DEF TypeOK
<1>c. /\ target.img \notin Refused /\ \A f \in survivors : f.img \notin Refused
      /\ \A v \in Updaters : backup[v] \in File => backup[v].img \notin Refused
  BY <1>a DEF Clean
<1>1. CASE CreateStaging(u)
  <2>1. CASE Fails(u) /\ staging' = staging
    BY <1>a, <1>b, <1>c, <1>1, <2>1, ErrorSession, SessionStep DEF CreateStaging, Fails
  <2>2. CASE /\ staging' = [staging EXCEPT ![u] = NewFile(u, Corrupt)]
             /\ Goto(u, "download", [sess[u] EXCEPT !.owns = TRUE])
    <3>1. NewFile(u, Corrupt) \in File
      BY FileType DEF Image
    <3>2. [sess[u] EXCEPT !.owns = TRUE] \in Session /\ [sess[u] EXCEPT !.owns = TRUE].applied = sess[u].applied
      BY <1>b DEF Session
    <3>3. /\ staging' \in [Updaters -> File \cup {None}] /\ staging'[u] \in File
          /\ \A v \in Updaters : v # u => staging'[v] = staging[v]
      BY <1>b, <2>2, <3>1
    <3> QED
      BY <1>a, <1>b, <1>c, <1>1, <2>2, <3>2, <3>3, SessionStep DEF CreateStaging, Kept
  <2> QED
    BY <1>1, <2>1, <2>2 DEF CreateStaging
<1>2. CASE DownloadBinary(u)
  <2>1. CASE Fails(u) /\ staging' = staging
    BY <1>a, <1>b, <1>c, <1>2, <2>1, ErrorSession, SessionStep DEF DownloadBinary, Fails
  <2>2. CASE \E img \in {u, Corrupt} : /\ staging' = [staging EXCEPT ![u] = NewFile(u, img)]
                                     /\ Goto(u, "verify", sess[u])
    <3>1. \A img \in {u, Corrupt} : NewFile(u, img) \in File
      BY FileType DEF Image
    <3>2. /\ staging' \in [Updaters -> File \cup {None}] /\ staging'[u] \in File
          /\ \A v \in Updaters : v # u => staging'[v] = staging[v]
      BY <1>b, <2>2, <3>1
    <3> QED
      BY <1>a, <1>b, <1>c, <1>2, <2>2, <3>2, SessionStep DEF DownloadBinary, Kept
  <2> QED
    BY <1>2, <2>1, <2>2 DEF DownloadBinary
<1>3. CASE BackUpTarget(u)
  <2>1. CASE ReplaceFails(u, Forget(sess[u])) /\ backup' = backup
    BY <1>a, <1>b, <1>c, <1>3, <2>1, ErrorSession, SessionStep DEF BackUpTarget, ReplaceFails, Kept
  <2>2. CASE \E ino \in {target.ino, <<"copy", u>>} :
               /\ backup' = [backup EXCEPT ![u] = [ino |-> ino, img |-> target.img]]
               /\ Goto(u, "rename", sess[u])
    <3>1. \A ino \in {target.ino, <<"copy", u>>} : [ino |-> ino, img |-> target.img] \in File
      BY <1>b DEF File, Ino
    <3>2. /\ backup' \in [Updaters -> File \cup {None}]
          /\ backup'[u] \in File /\ backup'[u].img = target.img
          /\ \A v \in Updaters : v # u => backup'[v] = backup[v]
      BY <1>b, <2>2, <3>1
    <3> QED
      BY <1>a, <1>b, <1>c, <1>3, <2>2, <3>2, SessionStep DEF BackUpTarget, Staged, Kept
  <2> QED
    BY <1>3, <2>1, <2>2 DEF BackUpTarget
<1>4. CASE RenameStaging(u)
  <2>1. CASE /\ target' = staging[u] /\ survivors' = survivors \cup {staging[u]}
             /\ staging' = [staging EXCEPT ![u] = None] /\ backup' = backup
             /\ Goto(u, "sync", sess[u])
    <3>1. /\ target' \in File /\ target'.img \notin Refused
          /\ survivors' \subseteq File /\ \A f \in survivors' : f.img \notin Refused
      BY <1>a, <1>b, <1>c, <1>4, <2>1, ImageDistinct DEF RenameStaging, Staged
    <3>2. /\ staging' \in [Updaters -> File \cup {None}]
          /\ \A v \in Updaters : v # u => staging'[v] = staging[v]
      BY <1>b, <2>1
    <3> QED
      BY <1>a, <1>b, <1>c, <1>4, <2>1, <3>1, <3>2, SessionStep DEF RenameStaging, Kept
  <2>2. CASE ReplaceFails(u, Forget(sess[u])) /\ UNCHANGED <<target, survivors, staging>>
             /\ backup' \in {backup, [backup EXCEPT ![u] = None]}
    <3>1. /\ backup' \in [Updaters -> File \cup {None}] /\ backup'[u] \in {backup[u], None}
          /\ \A v \in Updaters : v # u => backup'[v] = backup[v]
      BY <1>b, <2>2
    <3> QED
      BY <1>a, <1>b, <1>c, <1>4, <2>2, <3>1, NoneAssumption, ErrorSession, SessionStep
         DEF RenameStaging, ReplaceFails, Kept
  <2> QED
    BY <1>4, <2>1, <2>2 DEF RenameStaging
<1>5. CASE SyncDirectory(u)
  <2>1. CASE survivors' = survivors /\ Goto(u, "undo", sess[u])
    BY <1>a, <1>b, <1>c, <1>5, <2>1, SessionStep DEF SyncDirectory, Kept
  <2>2. CASE \E s \in Session, step \in {"reconcile", "commit"} :
               survivors' \in {survivors, {target}} /\ Goto(u, step, s)
    <3>1. PICK s \in Session, step \in {"reconcile", "commit"} :
               survivors' \in {survivors, {target}} /\ Goto(u, step, s)
      BY <2>2
    <3> QED
      BY <1>a, <1>b, <1>c, <1>5, <3>1, SessionStep DEF SyncDirectory, Kept
  <2> QED
    <3>1. \A flushed \in BOOLEAN : Replaced(sess[u], flushed) \in Session
      BY <1>b, ReplacedFields
    <3> QED
      BY <1>5, <2>1, <2>2, <3>1 DEF SyncDirectory, AfterReplace
<1>6. CASE UndoRename(u)
  <2> DEFINE s == [Forget(sess[u]) EXCEPT !.failed = @ \cup {"inline"}]
  <2>1. s \in Session /\ s.applied = sess[u].applied
    BY <1>b DEF Session, Forget, RecoveryStep
  <2>2. [s EXCEPT !.result = "error"] \in Session /\ [s EXCEPT !.result = "error"].applied = s.applied
    BY <2>1 DEF Session
  <2>3. ~sess[u].applied /\ pc[u] = "undo" /\ backup[u] \in File
    BY <1>a, <1>6 DEF UndoRename, Kept
  <2>4. CASE target' = backup[u] /\ ReplaceFails(u, Forget(sess[u]))
    <3>1. /\ survivors' \subseteq File /\ \A f \in survivors' : f.img \notin Refused
          /\ backup' \in [Updaters -> File \cup {None}]
          /\ backup'[u] \in {backup[u], None}
          /\ \A v \in Updaters : v # u => backup'[v] = backup[v]
      BY <1>b, <1>c, <1>6, <2>3 DEF UndoRename
    <3> QED
      BY <1>a, <1>b, <1>c, <1>6, <2>3, <2>4, <3>1, NoneAssumption, ErrorSession, SessionStep
         DEF UndoRename, ReplaceFails
  <2>5. CASE ReplaceFails(u, s) /\ UNCHANGED <<target, survivors, backup>>
    <3> HIDE DEF s
    <3> QED
      BY <1>a, <1>b, <1>c, <1>6, <2>1, <2>2, <2>3, <2>5, SessionStep DEF UndoRename, ReplaceFails
  <2> QED
    BY <1>6, <2>4, <2>5 DEF UndoRename
<1>7. CASE Commit(u)
  <2>1. [sess[u] EXCEPT !.result = "applied"] \in Session
    BY <1>b DEF Session
  <2>2. /\ backup' \in [Updaters -> File \cup {None}] /\ backup'[u] \in {backup[u], None}
        /\ \A v \in Updaters : v # u => backup'[v] = backup[v]
    BY <1>b, <1>7 DEF Commit
  <2> QED
    BY <1>a, <1>b, <1>c, <1>7, <2>1, <2>2, NoneAssumption, SessionStep DEF Commit
<1>8. CASE RollBack(u)
  <2>1. CASE UNCHANGED <<target, survivors, backup>>
    BY <1>a, <1>b, <1>c, <1>8, <2>1, AlsoType, SessionStep DEF RollBack, RecoveryStep
  <2>2. CASE sess[u].applied /\ target' = backup[u] /\ Goto(u, "restart", sess[u])
             /\ survivors' \in {{backup[u]}, survivors \cup {backup[u]}}
             /\ backup' = [backup EXCEPT ![u] = None]
    <3>1. backup[u] \in File
      BY <1>a, <1>8, <2>2 DEF RollBack, Kept
    <3>2. /\ survivors' \subseteq File /\ \A f \in survivors' : f.img \notin Refused
          /\ backup' \in [Updaters -> File \cup {None}] /\ backup'[u] = None
          /\ \A v \in Updaters : v # u => backup'[v] = backup[v]
      BY <1>b, <1>c, <2>2, <3>1
    <3> QED
      BY <1>a, <1>b, <1>c, <1>8, <2>2, <3>1, <3>2, NoneAssumption, SessionStep DEF RollBack
  <2> QED
    BY <1>8, <2>1, <2>2 DEF RollBack
<1> QED
  BY <1>1, <1>2, <1>3, <1>4, <1>5, <1>6, <1>7, <1>8

LEMMA PowerLossStep == ASSUME IInv, PowerLoss PROVE IInv'
<1>1. PICK f \in survivors :
         target' \in IF Durable(f) THEN {f} ELSE {f, [f EXCEPT !.img = Torn]}
  BY DEF PowerLoss
<1>2. f \in File /\ f.img \notin Refused
  BY <1>1 DEF IInv, TypeOK, Clean
<1>3. target' \in File /\ target'.img \notin Refused
  BY <1>1, <1>2, ConstantsDistinct DEF PowerLoss, Refused, File, Image
<1>4. /\ survivors' = {target'} /\ UNCHANGED <<staging, backup, sess>>
      /\ lock' = None /\ svc' = [svc EXCEPT !.run = Down]
      /\ pc' = [u \in Updaters |-> IF pc[u] \in {"start", "done"} THEN pc[u] ELSE "dead"]
  BY DEF PowerLoss
<1>5. TypeOK'
  BY <1>3, <1>4 DEF IInv, TypeOK, Step
<1>6. LockHeld' /\ Staged'
  BY <1>4 DEF LockHeld, Staged, InSession, Replacing, Recovering
<1>7. Kept'
  BY <1>4 DEF IInv, Kept, Early
<1>8. Clean'
  BY <1>3, <1>4 DEF IInv, Clean
<1> QED
  BY <1>5, <1>6, <1>7, <1>8 DEF IInv
-----------------------------------------------------------------------------
(* The invariant holds of every behaviour, with or without power failures. *)
THEOREM Invariance == Spec => []IInv
<1>1. Init => IInv
  <2> SUFFICES ASSUME Init PROVE IInv
    OBVIOUS
  <2>1. Fresh \in Session /\ ~Fresh.applied
    BY DEF Fresh, Session
  <2>2. TypeOK
    BY <2>1, FileType DEF Init, TypeOK, Step, Definition, Image
  <2>3. LockHeld /\ Staged /\ Kept
    BY <2>1 DEF Init, LockHeld, InSession, Replacing, Recovering, Staged, Kept
  <2>4. Clean
    BY FileType, ConstantsDistinct, NoneAssumption DEF Init, Clean, Refused
  <2> QED
    BY <2>2, <2>3, <2>4 DEF IInv
<1>2. IInv /\ [Next]_vars => IInv'
  <2>1. ASSUME IInv, NEW u \in Updaters, Update(u) PROVE IInv'
    BY <2>1, QuietActions, LockActions, DirectoryActions DEF Update
  <2>2. ASSUME IInv, NEW u \in Updaters, Crash(u) PROVE IInv'
    BY <2>2, LockActions
  <2>3. ASSUME IInv, UNCHANGED vars PROVE IInv'
    BY <2>3 DEF vars, IInv, TypeOK, LockHeld, Staged, Kept, Clean
  <2> QED
    BY <2>1, <2>2, <2>3, PowerLossStep DEF Next
<1> QED
  BY <1>1, <1>2, PTL DEF Spec

(* Type correctness. *)
THEOREM TypeCorrect == Spec => []TypeOK
  BY Invariance, PTL DEF IInv

(* Two updaters are never both between Begin and Close. *)
THEOREM OneSession ==
    Spec => [](\A u, v \in Updaters : pc[u] \in InSession /\ pc[v] \in InSession => u = v)
<1>1. IInv => \A u, v \in Updaters : pc[u] \in InSession /\ pc[v] \in InSession => u = v
  BY DEF IInv, LockHeld
<1> QED
  BY <1>1, Invariance, PTL

(* While the machine keeps its power, nothing verification would refuse is *)
(* ever the installed program.                                             *)
THEOREM IntactHolds == ~PowerFails => (Spec => []Intact)
<1> SUFFICES ASSUME ~PowerFails PROVE Spec => []Intact
  OBVIOUS
<1>1. IInv => Intact
  BY DEF IInv, Clean, Refused, Intact
<1> QED
  BY <1>1, Invariance, PTL

-----------------------------------------------------------------------------
(***************************************************************************)
(* The contract of an update about the executable and its service, for any *)
(* number of updaters and any kills: it can be undone, a failed one was    *)
(* undone or says that it could not be, the transaction implements the     *)
(* abstract exchange (these while the machine keeps its power), and a      *)
(* success whose rename was synced is not taken back by a power failure.   *)
(*                                                                         *)
(* Three invariants, each by induction over one session at a time, which   *)
(* the lock makes sound.  BinaryInv follows the images.  From revalidation *)
(* to the rename the target is what the session has seen, from the rename  *)
(* on it is the session's release, and the backup holds the image it has   *)
(* seen.  What a recovery puts back may be the release of another updater, *)
(* one that failed or was killed before: so an image that is installed, or *)
(* may be put back, owes what its updater left behind (Owed).  ServiceInv  *)
(* says the same of the service definition and its receipts, and what a    *)
(* session knows of the running process.  DurableInv says that past a      *)
(* directory sync that was made only the new file can come back, so that   *)
(* from the first such success on the oldest image is nowhere it could     *)
(* return from.                                                            *)
(***************************************************************************)

(* The steps of an update, by what has become of the executable. *)
Prepare == {"create", "download", "verify", "install", "probe", "stop", "apply", "rename"}
Before  == {"start", "begin", "revalidate"} \cup Prepare
Swapped == {"sync", "undo", "reconcile", "startSvc", "health", "commit"}
Undoing == {"restoreDef", "rollback"}
Undone  == {"restart", "rehealth", "close", "done"}

(* The lock is held by a session. *)
LockOwner == lock # None => pc[lock] \in InSession

(* The session may still put the image it has seen back. *)
MayReturn(u) == pc[u] \in Swapped \/ (pc[u] \in Undoing /\ sess[u].applied)

(* What a session has seen is in place until it replaces it, and is in its  *)
(* backup from then on.                                                     *)
OwnImages(u) ==
    /\ pc[u] = "start" => sess[u].seen = None
    /\ pc[u] \in InSession \cup {"begin"} => sess[u].seen \in File
    /\ sess[u].seen \in File => sess[u].seen.img # u
    /\ pc[u] \in Before \cup Swapped => sess[u].result = "open"
    /\ pc[u] \in Undoing \cup {"restart", "rehealth"} => sess[u].result = "error"
    /\ pc[u] \in Prepare => target = sess[u].seen
    /\ MayReturn(u) => target.img = u
    /\ MayReturn(u) \/ pc[u] = "rename" => backup[u] \in File /\ backup[u].img = sess[u].seen.img
    /\ pc[u] \in {"reconcile", "startSvc", "health", "commit"} => sess[u].applied

(* Nobody has seen the release of an updater that has installed nothing.    *)
Unseen(u) ==
    pc[u] \in Before => /\ target.img # u
                        /\ \A v \in Updaters : sess[v].seen \in File => sess[v].seen.img # u

(* What is owed when the release of w is installed. *)
OwedBy(w) ==
    /\ sess[w].result # "applied" => backup[w] \in File /\ backup[w].img = sess[w].seen.img
    /\ \/ pc[w] \in Undone /\ sess[w].result = "error"
       \/ pc[w] \in Undoing /\ ~sess[w].applied
       => sess[w].failed \cap {"inline", "binary"} # {}

Owed(img) == \A w \in Updaters : img = w => OwedBy(w)

BinaryInv ==
    /\ LockOwner
    /\ \A u \in Updaters : OwnImages(u) /\ Unseen(u)
    /\ Owed(target.img)
    /\ \A u \in Updaters : pc[u] \in Prepare \/ MayReturn(u) => Owed(sess[u].seen.img)
-----------------------------------------------------------------------------
(* The steps before an updater has stopped the service. *)
Unstopped == {"start", "begin", "revalidate", "create", "download", "verify", "install", "probe",
              "stop"}

(* What a session knows of the service it found. *)
OwnService(u) ==
    /\ pc[u] \in Early \cup {"reconcile"} => sess[u].receipt = None
    /\ sess[u].receipt # u
    /\ pc[u] \in {"startSvc", "health", "commit", "restoreDef"} /\ sess[u].receipt = None => svc.def # u
    /\ pc[u] \in {"probe", "stop"} => Managed
    /\ pc[u] \in Replacing /\ Managed => svc.run = Down
    /\ pc[u] \in Replacing /\ sess[u].restart => Managed
    /\ pc[u] \in {"reconcile", "startSvc"} => svc.run = Down
    /\ pc[u] = "health" => svc.run = u
    /\ pc[u] = "commit" /\ Managed => svc.run = u
    /\ pc[u] \in Unstopped => ~sess[u].restart
    /\ pc[u] \in {"restoreDef", "rollback", "restart"} /\ sess[u].restart => svc.run \in {Down, u}
    /\ pc[u] = "rehealth" => svc.run \in {target.img, u}
    /\ FailedAtClose(u) /\ sess[u].restart /\ "restart" \notin sess[u].failed
          => svc.run \in {target.img, u}

Undefined(u) ==
    pc[u] \in Early \cup {"reconcile"} => /\ svc.def # u
                                        /\ \A v \in Updaters : sess[v].receipt # u

(* What is owed when the service definition is that of w. *)
OwedDefBy(w) ==
    pc[w] \in {"rollback"} \cup Undone /\ sess[w].result = "error" => "definition" \in sess[w].failed
OwedDef(d) == \A w \in Updaters : d = w => OwedDefBy(w)

ServiceInv ==
    /\ \A u \in Updaters : OwnService(u) /\ Undefined(u)
    /\ OwedDef(svc.def)
    /\ \A u \in Updaters :
          pc[u] \in {"startSvc", "health", "restoreDef"} /\ sess[u].receipt # None
              => OwedDef(sess[u].receipt)
-----------------------------------------------------------------------------
(* What one updater owes is not changed by a step of another. *)
LEMMA OwedOther ==
    ASSUME TypeOK, NEW u \in Updaters, NEW step \in Step, NEW s \in Session, Goto(u, step, s),
           \A v \in Updaters : v # u => backup'[v] = backup[v],
           NEW w \in Updaters, w # u, OwedBy(w)
    PROVE  OwedBy(w)'
<1>1. pc'[w] = pc[w] /\ sess'[w] = sess[w] /\ backup'[w] = backup[w]
  BY GotoEffect
<1> QED
  BY <1>1 DEF OwedBy

(* What the parts of the invariant ask of a step of one updater. *)
LEMMA BinaryStep ==
    ASSUME IInv, IInv', BinaryInv,
           NEW u \in Updaters, NEW step \in Step, NEW s \in Session, Goto(u, step, s),
           pc[u] \notin {"done", "dead"},
           s.seen = sess[u].seen \/ (pc[u] = "start" /\ s.seen = target),
           \A v \in Updaters : v # u => backup'[v] = backup[v],
           \/ lock' = lock /\ (pc[u] \in InSession => step \in InSession)
           \/ lock' = None
           \/ lock' = u /\ step \in InSession,
           \/ target' = target
           \/ pc[u] \in InSession /\ target'.img = u
           \/ pc[u] \in InSession /\ MayReturn(u) /\ target'.img = sess[u].seen.img,
           OwnImages(u)',
           step \in Before => pc[u] \in Before /\ target' = target,
           target'.img = u => OwedBy(u)',
           step \in Prepare \/ MayReturn(u)' =>
               pc[u] \in Prepare \/ MayReturn(u) \/ target = sess[u].seen
    PROVE  BinaryInv'
<1>1. /\ pc' \in [Updaters -> Step] /\ sess' \in [Updaters -> Session]
      /\ pc'[u] = step /\ sess'[u] = s
      /\ \A v \in Updaters : v # u => pc'[v] = pc[v] /\ sess'[v] = sess[v]
  BY GotoEffect DEF IInv
<1>2. TypeOK /\ TypeOK' /\ LockHeld /\ LockHeld'
  BY DEF IInv
<1>3. /\ LockOwner /\ Owed(target.img)
      /\ \A v \in Updaters : OwnImages(v) /\ Unseen(v)
      /\ \A v \in Updaters : pc[v] \in Prepare \/ MayReturn(v) => Owed(sess[v].seen.img)
  BY DEF BinaryInv
<1>4. target \in File /\ target' \in File /\ \A v \in Updaters : sess[v].seen \in File \cup {None}
  BY <1>2 DEF TypeOK, Session
<1>5. LockOwner'
  BY <1>1, <1>2, <1>3 DEF LockOwner, TypeOK
<1>6. ASSUME NEW v \in Updaters, v # u PROVE OwnImages(v)'
  <2>1. pc[v] \in InSession => target' = target
    BY <1>2, <1>6 DEF LockHeld
  <2>2. OwnImages(v) /\ pc'[v] = pc[v] /\ sess'[v] = sess[v] /\ backup'[v] = backup[v]
    BY <1>1, <1>3, <1>6
  <2> QED
    BY <2>1, <2>2 DEF OwnImages, MayReturn, Prepare, Before, Swapped, Undoing,
                      InSession, Replacing, Recovering
<1>7. ASSUME NEW v \in Updaters PROVE Unseen(v)'
  <2>1. CASE v = u
    BY <1>1, <1>3, <1>4, <2>1, NoneAssumption DEF Unseen, OwnImages, Before
  <2>2. CASE v # u
    <3> SUFFICES ASSUME pc[v] \in Before
                 PROVE  /\ target'.img # v
                        /\ \A w \in Updaters : sess'[w].seen \in File => sess'[w].seen.img # v
      BY <1>1, <2>2 DEF Unseen
    <3>1. target.img # v /\ \A w \in Updaters : sess[w].seen \in File => sess[w].seen.img # v
      BY <1>3 DEF Unseen
    <3>2. pc[u] \in InSession => sess[u].seen \in File
      BY <1>3 DEF OwnImages
    <3> QED
      BY <1>1, <2>2, <3>1, <3>2
  <2> QED
    BY <2>1, <2>2
<1>8. Owed(target.img)'
  <2>1. CASE target'.img = u
    BY <2>1 DEF Owed
  <2>2. CASE target'.img # u
    <3>1. \A w \in Updaters : target'.img = w => OwedBy(w)
      BY <1>3, <2>2 DEF Owed
    <3>2. \A w \in Updaters : target'.img = w => OwedBy(w)'
      BY <1>2, <2>2, <3>1, OwedOther
    <3> QED
      BY <3>2 DEF Owed
  <2> QED
    BY <2>1, <2>2
<1>9. ASSUME NEW v \in Updaters, pc'[v] \in Prepare \/ MayReturn(v)'
      PROVE  Owed(sess[v].seen.img)'
  <2>1. pc'[v] \in InSession
    BY <1>9 DEF MayReturn, Prepare, Swapped, Undoing, InSession, Replacing, Recovering
  <2>2. CASE v = u
    <3>1. pc[u] # "start"
      BY <1>1, <1>3, <1>9, <1>4, <2>2, NoneAssumption
         DEF MayReturn, Prepare, Before, Swapped, Undoing, OwnImages
    <3>2. sess'[u].seen = sess[u].seen
      BY <1>1, <3>1
    <3>3. sess'[u].seen \in File /\ sess'[u].seen.img # u
      BY <2>1, <2>2 DEF OwnImages
    <3>4. Owed(sess[u].seen.img)
      BY <1>1, <1>3, <1>9, <2>2
    <3> QED
      BY <1>2, <2>2, <3>2, <3>3, <3>4, OwedOther DEF Owed
  <2>3. CASE v # u
    <3>1. pc'[v] = pc[v] /\ sess'[v] = sess[v]
      BY <1>1, <2>3
    <3>2. Owed(sess[v].seen.img)
      BY <1>3, <1>9, <3>1 DEF MayReturn
    <3>3. sess[v].seen \in File /\ pc[u] \notin InSession
      BY <1>2, <1>3, <2>1, <2>3, <3>1 DEF OwnImages, LockHeld
    <3>4. sess[v].seen.img # u
      BY <1>1, <1>2, <1>3, <3>3 DEF Unseen, Before, Step, TypeOK
    <3> QED
      BY <1>2, <3>1, <3>2, <3>4, OwedOther DEF Owed
  <2> QED
    BY <2>2, <2>3
<1> QED
  BY <1>5, <1>6, <1>7, <1>8, <1>9 DEF BinaryInv

(* The special case of a step that leaves the executable and the backups alone. *)
LEMMA BinaryQuiet ==
    ASSUME IInv, IInv', BinaryInv,
           NEW u \in Updaters, NEW step \in Step, NEW s \in Session, Goto(u, step, s),
           target' = target, backup' = backup,
           pc[u] \notin {"done", "dead"}, step # "start",
           s.seen = sess[u].seen \/ (pc[u] = "start" /\ s.seen = target),
           \/ lock' = lock /\ (pc[u] \in InSession => step \in InSession)
           \/ lock' = None
           \/ lock' = u /\ step \in InSession,
           step \in InSession \cup {"begin"} => pc[u] \in InSession \cup {"begin"} \/ s.seen = target,
           step \in Before => pc[u] \in Before,
           step \in Prepare => pc[u] \in Prepare \/ target = sess[u].seen,
           step # "rename",
           step \in Before \cup Swapped => s.result = "open",
           step \in Undoing \cup {"restart", "rehealth"} => s.result = "error",
           step \in Swapped \/ (step \in Undoing /\ s.applied) => MayReturn(u),
           step \in {"reconcile", "startSvc", "health", "commit"} => s.applied,
           sess[u].result = "applied" => s.result = "applied",
           target.img = u =>
               \/ s.failed \cap {"inline", "binary"} # {}
               \/ /\ ~(step \in Undone /\ s.result = "error")
                  /\ ~(step \in Undoing /\ ~s.applied)
    PROVE  BinaryInv'
<1>1. /\ pc' \in [Updaters -> Step] /\ sess' \in [Updaters -> Session]
      /\ pc'[u] = step /\ sess'[u] = s
  BY GotoEffect DEF IInv
<1>2. OwnImages(u) /\ Unseen(u) /\ (target.img = u => OwedBy(u))
  BY DEF BinaryInv, Owed
<1>3. target \in File /\ sess[u].seen \in File \cup {None} /\ sess[u] \in Session
  BY DEF IInv, TypeOK, Session
<1>4. OwnImages(u)'
  <2>1. pc[u] = "start" => target.img # u
    BY <1>2 DEF Unseen, Before
  <2>2. s.seen \in File => s.seen.img # u
    BY <1>2, <2>1 DEF OwnImages
  <2>3. step \in Prepare => target = s.seen
    BY <1>2, <1>3, NoneAssumption DEF OwnImages, Prepare
  <2>4. MayReturn(u)' => /\ target'.img = u
                         /\ backup'[u] \in File /\ backup'[u].img = s.seen.img
    BY <1>1, <1>2 DEF OwnImages, MayReturn, Swapped, Undoing
  <2> QED
    BY <1>1, <1>2, <1>3, <2>2, <2>3, <2>4 DEF OwnImages
<1>5. target'.img = u => OwedBy(u)'
  <2>1. target.img = u => s.seen = sess[u].seen
    BY <1>2 DEF Unseen, Before
  <2> QED
    BY <1>1, <1>2, <2>1 DEF OwedBy
<1>6. step \in Prepare \/ MayReturn(u)' =>
         pc[u] \in Prepare \/ MayReturn(u) \/ target = sess[u].seen
  BY <1>1 DEF MayReturn
<1> QED
  BY <1>4, <1>5, <1>6, BinaryStep

(* What the updates of a session leave as it was. *)
LEMMA Fields ==
    ASSUME NEW s \in Session
    PROVE  /\ [s EXCEPT !.result = "error"] \in Session
           /\ [s EXCEPT !.result = "error"].result = "error"
           /\ [s EXCEPT !.result = "error"].seen = s.seen
           /\ [s EXCEPT !.result = "error"].applied = s.applied
           /\ [s EXCEPT !.result = "error"].failed = s.failed
           /\ [s EXCEPT !.result = "error"].receipt = s.receipt
           /\ [s EXCEPT !.result = "error"].restart = s.restart
           /\ [s EXCEPT !.result = "error"].synced = s.synced
           /\ Forget(s) \in Session /\ Forget(s).synced = s.synced
           /\ Forget(s).result = s.result /\ Forget(s).seen = s.seen
           /\ Forget(s).applied = s.applied /\ Forget(s).failed = s.failed
           /\ Forget(s).receipt = s.receipt /\ Forget(s).restart = s.restart
  BY DEF Session, Forget

(* A recovery step that failed is only added to the list. *)
LEMMA AlsoFields ==
    ASSUME NEW u \in Updaters, sess[u] \in Session, NEW step \in RecoveryStep
    PROVE  /\ Also(u, step) \in Session
           /\ Also(u, step).result = sess[u].result /\ Also(u, step).seen = sess[u].seen
           /\ Also(u, step).applied = sess[u].applied
           /\ Also(u, step).failed = sess[u].failed \cup {step}
           /\ Also(u, step).receipt = sess[u].receipt /\ Also(u, step).restart = sess[u].restart
           /\ Also(u, step).synced = sess[u].synced
<1>1. sess[u].failed \cup {step} \in SUBSET RecoveryStep
  BY DEF Session
<1> QED
  BY <1>1 DEF Also, Session

(* The steps before the executable is replaced. *)
LEMMA BinaryPrepare ==
    ASSUME IInv, IInv', BinaryInv, NEW u \in Updaters,
           \/ ResolveTarget(u) \/ StopBeforeBegin(u) \/ AcquireLock(u) \/ LockTimeout(u)
           \/ RevalidateTarget(u) \/ CreateStaging(u) \/ DownloadBinary(u) \/ VerifyStaging(u)
           \/ ProbeInstalled(u) \/ ProbeRunning(u) \/ StopService(u)
    PROVE  BinaryInv'
<1> USE DEF InSession, Replacing, Recovering, Step, Before, Prepare, Swapped, Undoing, Undone
<1>1. sess[u] \in Session /\ OwnImages(u) /\ Unseen(u)
  BY DEF IInv, TypeOK, BinaryInv
<1>2. [sess[u] EXCEPT !.result = "error"] \in Session
  BY <1>1, Fields
<1>3. pc[u] \in Before => target.img # u /\ sess[u].result = "open"
  BY <1>1 DEF Unseen, OwnImages
<1>4. CASE ResolveTarget(u)
  <2> DEFINE s == [sess[u] EXCEPT !.seen = target]
  <2>1. s \in Session /\ s.seen = target /\ s.result = sess[u].result
    BY <1>1 DEF Session, IInv, TypeOK
  <2> HIDE DEF s
  <2>2. /\ pc[u] = "start" /\ Goto(u, "begin", s) /\ UNCHANGED <<target, backup, lock>>
    BY <1>4 DEF ResolveTarget, dirVars, s
  <2> QED
    BY <1>1, <1>3, <2>1, <2>2, BinaryQuiet
<1>5. CASE StopBeforeBegin(u) \/ LockTimeout(u)
  <2>1. /\ pc[u] \in {"start", "begin"} /\ UNCHANGED <<target, backup, lock>>
        /\ Goto(u, "done", [sess[u] EXCEPT !.result = "error"])
    BY <1>5 DEF StopBeforeBegin, LockTimeout, dirVars
  <2> QED
    BY <1>1, <1>2, <1>3, <2>1, Fields, BinaryQuiet
<1>6. CASE AcquireLock(u)
  BY <1>1, <1>3, <1>6, BinaryQuiet DEF AcquireLock, dirVars
<1>7. CASE RevalidateTarget(u)
  <2>1. CASE target = sess[u].seen /\ Goto(u, "create", sess[u]) /\ lock' = lock
    BY <1>1, <1>3, <1>7, <2>1, BinaryQuiet DEF RevalidateTarget, dirVars
  <2>2. CASE Goto(u, "done", [sess[u] EXCEPT !.result = "error"]) /\ lock' = None
    BY <1>1, <1>2, <1>3, <1>7, <2>2, Fields, BinaryQuiet DEF RevalidateTarget, dirVars
  <2> QED
    BY <1>7, <2>1, <2>2 DEF RevalidateTarget
<1>8. CASE \/ CreateStaging(u) \/ DownloadBinary(u) \/ VerifyStaging(u)
           \/ ProbeInstalled(u) \/ ProbeRunning(u) \/ StopService(u)
  <2>1. /\ pc[u] \in {"create", "download", "verify", "install", "probe", "stop"}
        /\ UNCHANGED <<target, backup, lock>>
    BY <1>8 DEF CreateStaging, DownloadBinary, VerifyStaging, ProbeInstalled, ProbeRunning,
                StopService, dirVars
  <2>2. CASE Fails(u)
    BY <1>1, <1>2, <1>3, <2>1, <2>2, Fields, BinaryQuiet DEF Fails
  <2>3. CASE ~Fails(u)
    <3>1. PICK step \in {"download", "verify", "install", "probe", "stop", "apply"},
               s \in {sess[u], [sess[u] EXCEPT !.owns = TRUE],
                      [sess[u] EXCEPT !.restart = TRUE]} : Goto(u, step, s)
      BY <1>8, <2>3 DEF CreateStaging, DownloadBinary, VerifyStaging, ProbeInstalled,
                        ProbeRunning, StopService
    <3>2. s \in Session /\ s.seen = sess[u].seen /\ s.result = sess[u].result
      BY <1>1 DEF Session
    <3> QED
      BY <1>1, <1>3, <2>1, <3>1, <3>2, BinaryQuiet
  <2> QED
    BY <2>2, <2>3
<1> QED
  BY <1>4, <1>5, <1>6, <1>7, <1>8

(* replaceTarget. *)
LEMMA BinaryReplace ==
    ASSUME IInv, IInv', BinaryInv, NEW u \in Updaters,
           \/ ApplyRefused(u) \/ BackUpTarget(u) \/ RenameStaging(u)
           \/ SyncDirectory(u) \/ UndoRename(u)
    PROVE  BinaryInv'
<1> USE DEF InSession, Replacing, Recovering, Step, Before, Prepare, Swapped, Undoing, Undone
<1>1. /\ sess[u] \in Session /\ OwnImages(u) /\ Unseen(u) /\ Kept
      /\ target \in File /\ backup \in [Updaters -> File \cup {None}]
      /\ pc[u] \in Early => ~sess[u].applied
  BY DEF IInv, TypeOK, BinaryInv, Kept
<1>2. /\ Forget(sess[u]) \in Session
      /\ Forget(sess[u]).seen = sess[u].seen /\ Forget(sess[u]).applied = sess[u].applied
      /\ Forget(sess[u]).failed = sess[u].failed
  BY <1>1, Fields
<1>3. pc[u] \in Before => target.img # u /\ sess[u].result = "open"
  BY <1>1 DEF Unseen, OwnImages
<1>4. CASE ApplyRefused(u)
  <2>1. [sess[u] EXCEPT !.result = "error"] \in Session
    BY <1>1, Fields
  <2>2. /\ pc[u] = "apply" /\ UNCHANGED <<target, backup, lock>>
        /\ \E step \in {"restoreDef", "close"} : Goto(u, step, [sess[u] EXCEPT !.result = "error"])
    BY <1>4 DEF ApplyRefused, ReplaceFails, dirVars
  <2> QED
    BY <1>1, <1>3, <2>1, <2>2, Fields, BinaryQuiet DEF Early
<1>5. CASE BackUpTarget(u)
  <2>1. CASE ReplaceFails(u, Forget(sess[u])) /\ backup' = backup
    <3>1. [Forget(sess[u]) EXCEPT !.result = "error"] \in Session
      BY <1>2, Fields
    <3>2. /\ pc[u] = "apply" /\ UNCHANGED <<target, backup, lock>>
          /\ \E step \in {"restoreDef", "close"} :
                Goto(u, step, [Forget(sess[u]) EXCEPT !.result = "error"])
      BY <1>5, <2>1 DEF BackUpTarget, ReplaceFails
    <3> QED
      BY <1>1, <1>2, <1>3, <3>1, <3>2, Fields, BinaryQuiet DEF Early
  <2>2. CASE \E ino \in {target.ino, <<"copy", u>>} :
               /\ backup' = [backup EXCEPT ![u] = [ino |-> ino, img |-> target.img]]
               /\ Goto(u, "rename", sess[u])
    <3>1. /\ backup'[u].img = target.img /\ \A v \in Updaters : v # u => backup'[v] = backup[v]
      BY <1>1, <2>2
    <3>2. \A ino \in {target.ino, <<"copy", u>>} : [ino |-> ino, img |-> target.img] \in File
      BY <1>1 DEF File, Ino
    <3>3. backup'[u] \in File
      BY <1>1, <2>2, <3>2
    <3>4. /\ pc[u] = "apply" /\ UNCHANGED <<target, lock>>
          /\ pc'[u] = "rename" /\ sess'[u] = sess[u]
      BY <1>1, <1>5, <2>2, GotoEffect DEF BackUpTarget, IInv
    <3>5. OwnImages(u)'
      BY <1>1, <3>1, <3>3, <3>4 DEF OwnImages, MayReturn
    <3>6. ~MayReturn(u)'
      BY <3>4 DEF MayReturn
    <3> QED
      BY <1>1, <1>3, <2>2, <3>1, <3>4, <3>5, <3>6, BinaryStep
  <2> QED
    BY <1>5, <2>1, <2>2 DEF BackUpTarget
<1>6. CASE RenameStaging(u)
  <2>1. CASE /\ target' = staging[u] /\ backup' = backup /\ Goto(u, "sync", sess[u])
    <3>1. /\ pc[u] = "rename" /\ lock' = lock /\ target'.img = u
          /\ pc'[u] = "sync" /\ sess'[u] = sess[u]
      BY <1>1, <1>6, <2>1, GotoEffect DEF RenameStaging, IInv, Staged
    <3>2. backup[u] \in File /\ backup[u].img = sess[u].seen.img
      BY <1>1, <3>1 DEF OwnImages
    <3>3. OwnImages(u)'
      BY <1>1, <2>1, <3>1, <3>2 DEF OwnImages, MayReturn
    <3>4. OwedBy(u)'
      BY <2>1, <3>1, <3>2 DEF OwedBy
    <3> QED
      BY <1>1, <1>3, <2>1, <3>1, <3>3, <3>4, BinaryStep
  <2>2. CASE /\ ReplaceFails(u, Forget(sess[u])) /\ UNCHANGED <<target, lock>>
             /\ backup' \in {backup, [backup EXCEPT ![u] = None]}
    <3> DEFINE s == [Forget(sess[u]) EXCEPT !.result = "error"]
    <3>1. /\ s \in Session /\ s.seen = sess[u].seen /\ ~s.applied /\ s.result = "error"
          /\ pc[u] = "rename"
      BY <1>1, <1>2, <1>6, Fields DEF RenameStaging, Early
    <3>2. PICK step \in {"restoreDef", "close"} : Goto(u, step, s)
      BY <2>2 DEF ReplaceFails
    <3> HIDE DEF s
    <3>3. pc'[u] = step /\ sess'[u] = s
      BY <3>1, <3>2, GotoEffect DEF IInv
    <3>4. \A v \in Updaters : v # u => backup'[v] = backup[v]
      BY <1>1, <2>2
    <3>5. OwnImages(u)' /\ ~MayReturn(u)'
      BY <1>1, <2>2, <3>1, <3>3 DEF OwnImages, MayReturn
    <3> QED
      BY <1>3, <2>2, <3>1, <3>2, <3>4, <3>5, BinaryStep
  <2> QED
    BY <1>6, <2>1, <2>2 DEF RenameStaging
<1>7. CASE SyncDirectory(u)
  <2>0. PICK flushed \in BOOLEAN :
           Goto(u, AfterReplace, Replaced(sess[u], flushed)) \/ Goto(u, "undo", sess[u])
    BY <1>7 DEF SyncDirectory
  <2> DEFINE s == Replaced(sess[u], flushed)
  <2>1. /\ s \in Session /\ s.seen = sess[u].seen /\ s.applied
        /\ s.result = sess[u].result
    BY <1>1, ReplacedFields
  <2>2. /\ pc[u] = "sync" /\ UNCHANGED <<target, backup, lock>>
        /\ \/ Goto(u, "reconcile", s) \/ Goto(u, "commit", s) \/ Goto(u, "undo", sess[u])
    BY <1>7, <2>0 DEF SyncDirectory, AfterReplace
  <2> HIDE DEF s
  <2>3. sess[u].result = "open" /\ s.result = "open" /\ MayReturn(u)
    BY <1>1, <2>1, <2>2 DEF OwnImages, MayReturn
  <2> QED
    BY <1>1, <2>1, <2>2, <2>3, BinaryQuiet DEF OwnImages
<1>8. CASE UndoRename(u)
  <2>1. /\ pc[u] = "undo" /\ lock' = lock /\ ~sess[u].applied /\ MayReturn(u)
        /\ sess[u].result = "open"
        /\ backup[u] \in File /\ backup[u].img = sess[u].seen.img /\ target.img = u
        /\ sess[u].seen \in File /\ sess[u].seen.img # u
    BY <1>1, <1>8 DEF UndoRename, Early, MayReturn, OwnImages
  <2>2. CASE /\ target' = backup[u] /\ backup' = [backup EXCEPT ![u] = None]
             /\ ReplaceFails(u, Forget(sess[u]))
    <3> DEFINE s == [Forget(sess[u]) EXCEPT !.result = "error"]
    <3>1. s \in Session /\ s.seen = sess[u].seen /\ ~s.applied /\ s.result = "error"
      BY <1>1, <1>2, <2>1, Fields
    <3>2. PICK step \in {"restoreDef", "close"} : Goto(u, step, s)
      BY <2>2 DEF ReplaceFails
    <3> HIDE DEF s
    <3>3. pc'[u] = step /\ sess'[u] = s
      BY <3>1, <3>2, GotoEffect DEF IInv
    <3>4. \A v \in Updaters : v # u => backup'[v] = backup[v]
      BY <1>1, <2>2
    <3>5. OwnImages(u)' /\ ~MayReturn(u)'
      BY <1>1, <2>1, <3>1, <3>3 DEF OwnImages, MayReturn
    <3> QED
      BY <2>1, <2>2, <3>1, <3>2, <3>4, <3>5, BinaryStep
  <2>3. CASE /\ UNCHANGED <<target, backup>>
             /\ ReplaceFails(u, [Forget(sess[u]) EXCEPT !.failed = @ \cup {"inline"}])
    <3> DEFINE t == [Forget(sess[u]) EXCEPT !.failed = @ \cup {"inline"}]
               s == [t EXCEPT !.result = "error"]
    <3>1. /\ t \in Session /\ t.seen = sess[u].seen /\ ~t.applied
          /\ t.failed = sess[u].failed \cup {"inline"}
      BY <1>1, <1>2, <2>1 DEF Session, RecoveryStep
    <3> HIDE DEF t
    <3>2. /\ s \in Session /\ s.seen = sess[u].seen /\ ~s.applied /\ s.result = "error"
          /\ "inline" \in s.failed
      BY <3>1, Fields
    <3>3. PICK step \in {"restoreDef", "close"} : Goto(u, step, s)
      BY <2>3 DEF ReplaceFails, t
    <3> HIDE DEF s
    <3> QED
      BY <2>1, <2>3, <3>2, <3>3, BinaryQuiet
  <2> QED
    BY <1>8, <2>2, <2>3 DEF UndoRename
<1> QED
  BY <1>4, <1>5, <1>6, <1>7, <1>8

(* The managed session after the replacement. *)
LEMMA BinaryManaged ==
    ASSUME IInv, IInv', BinaryInv, NEW u \in Updaters,
           Reconcile(u) \/ StartService(u) \/ WaitHealthy(u) \/ Commit(u)
    PROVE  BinaryInv'
<1> USE DEF InSession, Replacing, Recovering, Step, Before, Prepare, Swapped, Undoing, Undone
<1>1. /\ sess[u] \in Session /\ OwnImages(u)
      /\ backup \in [Updaters -> File \cup {None}]
  BY DEF IInv, TypeOK, BinaryInv
<1>2. /\ pc[u] \in {"reconcile", "startSvc", "health", "commit"}
      /\ target' = target /\ lock' = lock
  BY DEF Reconcile, StartService, WaitHealthy, Commit, dirVars
<1>3. /\ sess[u].applied /\ sess[u].result = "open" /\ MayReturn(u)
  BY <1>1, <1>2 DEF OwnImages, MayReturn
<1>4. CASE Commit(u)
  <2> DEFINE s == [sess[u] EXCEPT !.result = "applied"]
  <2>1. s \in Session /\ s.seen = sess[u].seen /\ s.result = "applied"
    BY <1>1 DEF Session
  <2> HIDE DEF s
  <2>2. Goto(u, "close", s) /\ backup' \in {backup, [backup EXCEPT ![u] = None]}
    BY <1>4 DEF Commit, s
  <2>3. pc'[u] = "close" /\ sess'[u] = s /\ \A v \in Updaters : v # u => backup'[v] = backup[v]
    BY <1>1, <2>1, <2>2, GotoEffect DEF IInv
  <2>4. OwnImages(u)' /\ ~MayReturn(u)' /\ OwedBy(u)'
    BY <1>1, <1>2, <2>1, <2>3 DEF OwnImages, MayReturn, OwedBy
  <2> QED
    BY <1>2, <2>1, <2>2, <2>3, <2>4, BinaryStep
<1>5. CASE Reconcile(u) \/ StartService(u) \/ WaitHealthy(u)
  <2>1. backup' = backup
    BY <1>5 DEF Reconcile, StartService, WaitHealthy, dirVars
  <2>2. \E t \in Session :
           /\ t.seen = sess[u].seen /\ t.applied /\ t.result = "open"
           /\ \/ \E step \in {"startSvc", "health", "commit"} : Goto(u, step, t)
              \/ Goto(u, "restoreDef", [t EXCEPT !.result = "error"])
    <3>1. CASE Reconcile(u)
      <4>1. PICK changed \in BOOLEAN :
               LET t == [sess[u] EXCEPT !.receipt = IF changed THEN svc.def ELSE None]
               IN  Goto(u, "startSvc", t) \/ Goto(u, "restoreDef", [t EXCEPT !.result = "error"])
        BY <3>1 DEF Reconcile, Recover
      <4> DEFINE t == [sess[u] EXCEPT !.receipt = IF changed THEN svc.def ELSE None]
      <4>2. (IF changed THEN svc.def ELSE None) \in Definition \cup {None}
        BY DEF IInv, TypeOK
      <4>3. t \in Session /\ t.seen = sess[u].seen /\ t.applied /\ t.result = "open"
        BY <1>1, <1>3, <4>2 DEF Session
      <4> QED
        BY <4>1, <4>3
    <3>2. CASE StartService(u) \/ WaitHealthy(u)
      BY <1>1, <1>3, <3>2 DEF StartService, WaitHealthy, Recover
    <3> QED
      BY <1>5, <3>1, <3>2
  <2>3. PICK t \in Session :
           /\ t.seen = sess[u].seen /\ t.applied /\ t.result = "open"
           /\ \/ \E step \in {"startSvc", "health", "commit"} : Goto(u, step, t)
              \/ Goto(u, "restoreDef", [t EXCEPT !.result = "error"])
    BY <2>2
  <2>4. CASE \E step \in {"startSvc", "health", "commit"} : Goto(u, step, t)
    BY <1>2, <1>3, <2>1, <2>3, <2>4, BinaryQuiet
  <2>5. CASE Goto(u, "restoreDef", [t EXCEPT !.result = "error"])
    <3> DEFINE s == [t EXCEPT !.result = "error"]
    <3>1. s \in Session /\ s.seen = sess[u].seen /\ s.applied /\ s.result = "error"
      BY <2>3, Fields
    <3>2. Goto(u, "restoreDef", s)
      BY <2>5
    <3> HIDE DEF s
    <3> QED
      BY <1>2, <1>3, <2>1, <3>1, <3>2, BinaryQuiet
  <2> QED
    BY <2>3, <2>4, <2>5
<1> QED
  BY <1>4, <1>5

(* Recovery, and the end of a session. *)
LEMMA BinaryRecover ==
    ASSUME IInv, IInv', BinaryInv, NEW u \in Updaters,
           \/ RestoreDefinition(u) \/ RollBack(u) \/ RestartService(u) \/ WaitRestarted(u)
           \/ Close(u) \/ Crash(u)
    PROVE  BinaryInv'
<1> USE DEF InSession, Replacing, Recovering, Step, Before, Prepare, Swapped, Undoing, Undone
<1>1. /\ sess[u] \in Session /\ OwnImages(u)
      /\ backup \in [Updaters -> File \cup {None}]
      /\ target.img = u => OwedBy(u)
  BY DEF IInv, TypeOK, BinaryInv, Owed
<1>2. \A step \in RecoveryStep :
         /\ Also(u, step) \in Session
         /\ Also(u, step).result = sess[u].result /\ Also(u, step).seen = sess[u].seen
         /\ Also(u, step).applied = sess[u].applied
         /\ Also(u, step).failed = sess[u].failed \cup {step}
  BY <1>1, AlsoFields
<1>3. CASE RestoreDefinition(u)
  <2>1. /\ pc[u] = "restoreDef" /\ UNCHANGED <<target, backup, lock>>
        /\ \E s \in {sess[u], Also(u, "definition")} : Goto(u, "rollback", s)
    BY <1>3 DEF RestoreDefinition, dirVars
  <2>2. /\ sess[u].result = "error"
        /\ target.img = u /\ ~sess[u].applied => sess[u].failed \cap {"inline", "binary"} # {}
        /\ sess[u].applied => MayReturn(u)
    BY <1>1, <2>1 DEF OwnImages, OwedBy, MayReturn
  <2> QED
    BY <1>1, <1>2, <2>1, <2>2, BinaryQuiet DEF RecoveryStep
<1>4. CASE RollBack(u)
  <2>1. pc[u] = "rollback" /\ sess[u].result = "error" /\ lock' = lock
    BY <1>1, <1>4 DEF RollBack, OwnImages
  <2>2. CASE UNCHANGED <<target, backup>>
    <3>1. \/ Goto(u, "restart", sess[u]) /\ ~sess[u].applied
          \/ Goto(u, "restart", Also(u, "binary"))
          \/ Goto(u, "restart", sess[u]) /\ backup' = [backup EXCEPT ![u] = None] /\ sess[u].applied
      BY <1>4 DEF RollBack
    <3>2. sess[u].applied => backup[u] \in File /\ backup[u].img = sess[u].seen.img
      BY <1>1, <2>1 DEF OwnImages, MayReturn
    <3>3. ~(backup' = [backup EXCEPT ![u] = None] /\ sess[u].applied)
      BY <1>1, <2>2, <3>2, NoneAssumption
    <3>4. target.img = u /\ ~sess[u].applied => sess[u].failed \cap {"inline", "binary"} # {}
      BY <1>1, <2>1 DEF OwedBy
    <3> QED
      BY <1>1, <1>2, <2>1, <2>2, <3>1, <3>3, <3>4, BinaryQuiet DEF RecoveryStep
  <2>3. CASE /\ sess[u].applied /\ target' = backup[u] /\ backup' = [backup EXCEPT ![u] = None]
             /\ Goto(u, "restart", sess[u])
    <3>1. /\ MayReturn(u) /\ backup[u] \in File /\ backup[u].img = sess[u].seen.img
          /\ sess[u].seen \in File /\ sess[u].seen.img # u
      BY <1>1, <2>1, <2>3 DEF OwnImages, MayReturn
    <3>2. /\ pc'[u] = "restart" /\ sess'[u] = sess[u]
          /\ \A v \in Updaters : v # u => backup'[v] = backup[v]
      BY <1>1, <2>3, GotoEffect DEF IInv
    <3>3. OwnImages(u)' /\ ~MayReturn(u)'
      BY <1>1, <2>1, <2>3, <3>1, <3>2 DEF OwnImages, MayReturn
    <3> QED
      BY <1>1, <2>1, <2>3, <3>1, <3>2, <3>3, BinaryStep
  <2> QED
    BY <1>4, <2>2, <2>3 DEF RollBack
<1>5. CASE RestartService(u) \/ WaitRestarted(u)
  <2>1. /\ pc[u] \in {"restart", "rehealth"} /\ UNCHANGED <<target, backup, lock>>
        /\ \E step \in {"rehealth", "close"}, s \in {sess[u], Also(u, "restart")} : Goto(u, step, s)
    BY <1>5 DEF RestartService, WaitRestarted, dirVars
  <2>2. /\ sess[u].result = "error"
        /\ target.img = u => sess[u].failed \cap {"inline", "binary"} # {}
    BY <1>1, <2>1 DEF OwnImages, OwedBy
  <2> QED
    BY <1>1, <1>2, <2>1, <2>2, BinaryQuiet DEF RecoveryStep
<1>6. CASE Close(u)
  <2>1. /\ pc[u] = "close" /\ UNCHANGED <<target, backup>> /\ lock' = None
        /\ Goto(u, "done", Forget(sess[u]))
    BY <1>6 DEF Close
  <2>2. target.img = u /\ sess[u].result = "error" => sess[u].failed \cap {"inline", "binary"} # {}
    BY <1>1, <2>1 DEF OwedBy
  <2> QED
    BY <1>1, <2>1, <2>2, Fields, BinaryQuiet
<1>7. CASE Crash(u)
  BY <1>1, <1>7, BinaryQuiet DEF Crash, dirVars
<1> QED
  BY <1>3, <1>4, <1>5, <1>6, <1>7

(* The invariant of target, backups and what sessions have seen. *)
THEOREM BinaryInvariance == ~PowerFails => (Spec => []BinaryInv)
<1> SUFFICES ASSUME ~PowerFails PROVE Spec => []BinaryInv
  OBVIOUS
<1>1. Init => BinaryInv
  <2> SUFFICES ASSUME Init PROVE BinaryInv
    OBVIOUS
  <2>1. /\ target.img = Old /\ lock = None
        /\ \A u \in Updaters : pc[u] = "start" /\ sess[u].seen = None /\ sess[u].result = "open"
    BY FileType DEF Init, Fresh
  <2>2. \A u \in Updaters : u # Old
    BY ConstantsDistinct
  <2>3. LockOwner /\ Owed(target.img)
    BY <2>1, <2>2 DEF LockOwner, Owed
  <2>4. ASSUME NEW u \in Updaters
        PROVE  OwnImages(u) /\ Unseen(u) /\ ~(pc[u] \in Prepare \/ MayReturn(u))
    BY <2>1, <2>2, NoneAssumption
       DEF OwnImages, Unseen, MayReturn, Prepare, Before, Swapped, Undoing,
           InSession, Replacing, Recovering
  <2> QED
    BY <2>3, <2>4 DEF BinaryInv
<1>2. IInv /\ IInv' /\ BinaryInv /\ [Next]_vars => BinaryInv'
  <2>1. ASSUME IInv, IInv', BinaryInv, NEW u \in Updaters, Update(u) \/ Crash(u) PROVE BinaryInv'
    BY <2>1, BinaryPrepare, BinaryReplace, BinaryManaged, BinaryRecover DEF Update
  <2>2. ASSUME BinaryInv, UNCHANGED vars PROVE BinaryInv'
    BY <2>2 DEF vars, BinaryInv, LockOwner, OwnImages, Unseen, Owed, OwedBy, MayReturn
  <2> QED
    BY <2>1, <2>2 DEF Next, PowerLoss
<1> QED
  BY <1>1, <1>2, Invariance, PTL DEF Spec

(* An update under way can be undone. *)
THEOREM RecoverableHolds == ~PowerFails => (Spec => []Recoverable)
<1>1. BinaryInv => Recoverable
  BY NoneAssumption DEF BinaryInv, Owed, OwedBy, Recoverable
<1> QED
  BY <1>1, BinaryInvariance, PTL

(* A failed update was undone, or says that it could not be. *)
THEOREM BinaryUndoneHolds == ~PowerFails => (Spec => []BinaryUndone)
<1>1. BinaryInv => BinaryUndone
  BY DEF BinaryInv, Owed, OwedBy, BinaryUndone, Undone
<1> QED
  BY <1>1, BinaryInvariance, PTL
-----------------------------------------------------------------------------
(* The steps at which a receipt may still be restored. *)
Inherits == {"startSvc", "health", "restoreDef"}

(* The same of service definitions. *)
LEMMA OwedDefOther ==
    ASSUME TypeOK, NEW u \in Updaters, NEW step \in Step, NEW s \in Session, Goto(u, step, s),
           NEW w \in Updaters, w # u, OwedDefBy(w)
    PROVE  OwedDefBy(w)'
<1>1. pc'[w] = pc[w] /\ sess'[w] = sess[w]
  BY GotoEffect
<1> QED
  BY <1>1 DEF OwedDefBy

(* What the service invariant asks of a step of one updater. *)
LEMMA ServiceStep ==
    ASSUME IInv, ServiceInv,
           NEW u \in Updaters, NEW step \in Step, NEW s \in Session, Goto(u, step, s),
           pc[u] \notin {"done", "dead"},
           pc[u] \in InSession \/ UNCHANGED <<target, svc>>,
           OwnService(u)',
           s.receipt = sess[u].receipt \/ (pc[u] = "reconcile" /\ s.receipt \in {svc.def, None}),
           \/ svc'.def = svc.def
           \/ svc'.def = u /\ pc[u] = "reconcile"
           \/ svc'.def = sess[u].receipt /\ sess[u].receipt # None /\ pc[u] = "restoreDef",
           step \in Early \cup {"reconcile"} =>
               pc[u] \in Early \cup {"reconcile"} /\ svc'.def = svc.def /\ s.receipt = sess[u].receipt,
           svc'.def = u => OwedDefBy(u)',
           step \in Inherits /\ s.receipt # None =>
               \/ pc[u] \in Inherits /\ s.receipt = sess[u].receipt
               \/ pc[u] = "reconcile" /\ s.receipt = svc.def
    PROVE  ServiceInv'
<1>1. /\ pc' \in [Updaters -> Step] /\ sess' \in [Updaters -> Session]
      /\ pc'[u] = step /\ sess'[u] = s
      /\ \A v \in Updaters : v # u => pc'[v] = pc[v] /\ sess'[v] = sess[v]
  BY GotoEffect DEF IInv
<1>2. TypeOK /\ LockHeld
  BY DEF IInv
<1>3. /\ OwedDef(svc.def)
      /\ \A v \in Updaters : OwnService(v) /\ Undefined(v)
      /\ \A v \in Updaters : pc[v] \in Inherits /\ sess[v].receipt # None => OwedDef(sess[v].receipt)
  BY DEF ServiceInv, Inherits
<1>4. ASSUME NEW v \in Updaters, v # u PROVE OwnService(v)'
  <2>1. pc[v] \in InSession => target' = target /\ svc' = svc
    BY <1>2, <1>4 DEF LockHeld
  <2>2. OwnService(v) /\ pc'[v] = pc[v] /\ sess'[v] = sess[v]
    BY <1>1, <1>3, <1>4
  <2>3. CASE pc[v] \in InSession
    BY <2>1, <2>2, <2>3 DEF OwnService, FailedAtClose, Managed
  <2>4. CASE pc[v] \notin InSession
    BY <2>2, <2>4 DEF OwnService, FailedAtClose, InSession, Replacing, Recovering, Early, Unstopped
  <2> QED
    BY <2>3, <2>4
<1>5. ASSUME NEW v \in Updaters PROVE Undefined(v)'
  <2>1. CASE v = u
    BY <1>1, <1>3, <2>1 DEF Undefined, Early
  <2>2. CASE v # u
    <3> SUFFICES ASSUME pc[v] \in Early \cup {"reconcile"}
                 PROVE  svc'.def # v /\ \A w \in Updaters : sess'[w].receipt # v
      BY <1>1, <2>2 DEF Undefined
    <3>1. svc.def # v /\ \A w \in Updaters : sess[w].receipt # v
      BY <1>3 DEF Undefined
    <3> QED
      BY <1>1, <2>2, <3>1, ImageDistinct
  <2> QED
    BY <2>1, <2>2
<1>6. OwedDef(svc.def)'
  <2>1. CASE svc'.def = u
    BY <2>1 DEF OwedDef
  <2>2. CASE svc'.def # u
    <3>1. \A w \in Updaters : svc'.def = w => OwedDefBy(w)
      BY <1>3, <2>2 DEF OwedDef, Inherits
    <3>2. \A w \in Updaters : svc'.def = w => OwedDefBy(w)'
      BY <1>2, <2>2, <3>1, OwedDefOther
    <3> QED
      BY <3>2 DEF OwedDef
  <2> QED
    BY <2>1, <2>2
<1>7. ASSUME NEW v \in Updaters, pc'[v] \in Inherits, sess'[v].receipt # None
      PROVE  OwedDef(sess[v].receipt)'
  <2>1. sess'[v].receipt # u
    <3>1. CASE v = u
      BY <3>1 DEF OwnService
    <3>2. CASE v # u
      <4>1. pc[v] \in InSession /\ sess'[v] = sess[v]
        BY <1>1, <1>7, <3>2 DEF Inherits, InSession, Replacing, Recovering
      <4>2. pc[u] \in Early
        BY <1>2, <3>2, <4>1 DEF LockHeld, TypeOK, Step, Early
      <4> QED
        BY <1>3, <4>1, <4>2 DEF Undefined
    <3> QED
      BY <3>1, <3>2
  <2>2. \A w \in Updaters : sess'[v].receipt = w => OwedDefBy(w)
    <3>1. CASE v = u
      BY <1>1, <1>3, <1>7, <3>1 DEF OwedDef
    <3>2. CASE v # u
      BY <1>1, <1>3, <1>7, <3>2 DEF OwedDef
    <3> QED
      BY <3>1, <3>2
  <2>3. \A w \in Updaters : sess'[v].receipt = w => OwedDefBy(w)'
    BY <1>2, <2>1, <2>2, OwedDefOther
  <2> QED
    BY <2>3 DEF OwedDef
<1>8. ASSUME NEW v \in Updaters PROVE OwnService(v)'
  BY <1>4
<1> QED
  BY <1>5, <1>6, <1>7, <1>8 DEF ServiceInv, Inherits

(* The steps before the service is stopped, and those that give up. *)
LEMMA ServiceQuiet ==
    ASSUME IInv, ServiceInv,
           NEW u \in Updaters, NEW step \in Step, NEW s \in Session, Goto(u, step, s),
           pc[u] \in Early, UNCHANGED svc,
           pc[u] \in InSession \/ UNCHANGED target,
           s.receipt = sess[u].receipt,
           \/ step \in Unstopped /\ ~s.restart /\ (step \in {"probe", "stop"} => Managed)
           \/ step \in Replacing /\ (Managed => svc.run = Down) /\ (s.restart => Managed)
           \/ step \in {"reconcile"} /\ svc.run = Down
           \/ step = "commit" /\ ~Managed
           \/ step = "restoreDef" /\ svc.run = Down
           \/ step = "close" /\ ~s.restart
           \/ step \in {"done", "dead"}
    PROVE  ServiceInv'
<1> USE DEF InSession, Replacing, Recovering, Step, Early, Unstopped
<1>1. /\ pc' \in [Updaters -> Step] /\ sess' \in [Updaters -> Session]
      /\ pc'[u] = step /\ sess'[u] = s
  BY GotoEffect DEF IInv
<1>2. OwnService(u) /\ Undefined(u)
  BY DEF ServiceInv
<1>3. s.receipt = None /\ svc.def # u /\ u # None
  BY <1>2, ImageDistinct DEF OwnService, Undefined
<1>4. OwnService(u)'
  BY <1>1, <1>3 DEF OwnService, FailedAtClose, Managed
<1> QED
  BY <1>3, <1>4, ServiceStep DEF Inherits

(* The steps up to the stop of the service. *)
LEMMA ServicePrepare ==
    ASSUME IInv, ServiceInv, NEW u \in Updaters,
           \/ ResolveTarget(u) \/ StopBeforeBegin(u) \/ AcquireLock(u) \/ LockTimeout(u)
           \/ RevalidateTarget(u) \/ CreateStaging(u) \/ DownloadBinary(u) \/ VerifyStaging(u)
           \/ ProbeInstalled(u) \/ ProbeRunning(u) \/ StopService(u)
    PROVE  ServiceInv'
<1> USE DEF InSession, Replacing, Recovering, Step, Early, Unstopped
<1>1. sess[u] \in Session /\ OwnService(u) /\ Undefined(u)
  BY DEF IInv, TypeOK, ServiceInv
<1>2. pc[u] \in Unstopped => ~sess[u].restart /\ sess[u].receipt = None
  BY <1>1 DEF OwnService
<1>3. /\ [sess[u] EXCEPT !.result = "error"] \in Session
      /\ [sess[u] EXCEPT !.result = "error"].receipt = sess[u].receipt
      /\ [sess[u] EXCEPT !.result = "error"].restart = sess[u].restart
  BY <1>1, Fields
<1>4. CASE ~StopService(u)
  <2> DEFINE Entered(step) == /\ step = "apply" => svc.run = Down \/ ~Managed
                              /\ step \in {"probe", "stop"} => Managed
  <2>1. /\ pc[u] \in Unstopped /\ UNCHANGED <<svc, target>>
    BY <1>4 DEF ResolveTarget, StopBeforeBegin, AcquireLock, LockTimeout, RevalidateTarget,
                CreateStaging, DownloadBinary, VerifyStaging, ProbeInstalled, ProbeRunning, dirVars
  <2>2. \E step \in Unstopped \cup {"apply", "close", "done"},
           s \in {sess[u], [sess[u] EXCEPT !.result = "error"], [sess[u] EXCEPT !.seen = target],
                  [sess[u] EXCEPT !.owns = TRUE]} :
              Goto(u, step, s) /\ Entered(step)
    BY <1>1, <1>4 DEF ResolveTarget, StopBeforeBegin, AcquireLock, LockTimeout, RevalidateTarget,
                      CreateStaging, DownloadBinary, VerifyStaging, ProbeInstalled, ProbeRunning,
                      Fails, OwnService
  <2>3. PICK step \in Unstopped \cup {"apply", "close", "done"},
             s \in {sess[u], [sess[u] EXCEPT !.result = "error"], [sess[u] EXCEPT !.seen = target],
                    [sess[u] EXCEPT !.owns = TRUE]} :
                Goto(u, step, s) /\ Entered(step)
    BY <2>2
  <2>4. target \in File
    BY DEF IInv, TypeOK
  <2>5. s \in Session /\ s.receipt = sess[u].receipt /\ s.restart = sess[u].restart
    BY <1>1, <1>3, <2>4 DEF Session
  <2> QED
    BY <1>2, <2>1, <2>3, <2>5, ServiceQuiet
<1>5. CASE StopService(u)
  <2>1. /\ pc[u] = "stop" /\ UNCHANGED target
        /\ svc' \in {svc, [svc EXCEPT !.run = Down]}
    BY <1>5 DEF StopService, dirVars
  <2>2. svc'.def = svc.def /\ svc.def # u /\ sess[u].receipt = None /\ u # None
    BY <1>1, <2>1, ImageDistinct DEF Undefined, OwnService, IInv, TypeOK
  <2>3. CASE Fails(u)
    <3>1. pc'[u] = "close" /\ sess'[u] = [sess[u] EXCEPT !.result = "error"]
      BY <1>3, <2>3, GotoEffect DEF Fails, IInv
    <3>2. OwnService(u)'
      BY <1>2, <1>3, <2>1, <2>2, <3>1 DEF OwnService, FailedAtClose, Managed
    <3>3. Goto(u, "close", [sess[u] EXCEPT !.result = "error"])
      BY <2>3 DEF Fails
    <3> QED
      BY <1>3, <2>1, <2>2, <3>2, <3>3, ServiceStep DEF Inherits
  <2>4. CASE svc' = [svc EXCEPT !.run = Down] /\ Goto(u, "apply", [sess[u] EXCEPT !.restart = TRUE])
    <3> DEFINE s == [sess[u] EXCEPT !.restart = TRUE]
    <3>1. s \in Session /\ s.receipt = sess[u].receipt
      BY <1>1 DEF Session
    <3> HIDE DEF s
    <3>2. Goto(u, "apply", s)
      BY <2>4 DEF s
    <3>3. pc'[u] = "apply" /\ sess'[u] = s
      BY <3>1, <3>2, GotoEffect DEF IInv
    <3>4. svc'.run = Down /\ svc'.def # Absent
      BY <1>1, <2>1, <2>2, <2>4 DEF IInv, TypeOK, OwnService, Managed
    <3>5. OwnService(u)'
      BY <2>2, <3>1, <3>3, <3>4 DEF OwnService, FailedAtClose, Managed
    <3> QED
      BY <2>1, <2>2, <3>1, <3>2, <3>5, ServiceStep DEF Inherits
  <2> QED
    BY <1>5, <2>3, <2>4 DEF StopService
<1> QED
  BY <1>4, <1>5

(* replaceTarget leaves the service alone. *)
LEMMA ServiceReplace ==
    ASSUME IInv, ServiceInv, NEW u \in Updaters,
           \/ ApplyRefused(u) \/ BackUpTarget(u) \/ RenameStaging(u)
           \/ SyncDirectory(u) \/ UndoRename(u)
    PROVE  ServiceInv'
<1> USE DEF InSession, Replacing, Recovering, Step, Early
<1>1. sess[u] \in Session /\ OwnService(u)
  BY DEF IInv, TypeOK, ServiceInv
<1>2. pc[u] \in Replacing /\ UNCHANGED svc
  BY DEF ApplyRefused, BackUpTarget, RenameStaging, SyncDirectory, UndoRename
<1>3. (Managed => svc.run = Down) /\ (sess[u].restart => Managed)
  BY <1>1, <1>2 DEF OwnService
<1>4. ASSUME NEW s \in Session, s.receipt = sess[u].receipt, s.restart = sess[u].restart,
             ReplaceFails(u, s)
      PROVE  ServiceInv'
  <2> DEFINE t == [s EXCEPT !.result = "error"]
  <2>1. t \in Session /\ t.receipt = sess[u].receipt /\ t.restart = sess[u].restart
    BY <1>4, Fields
  <2>2. Goto(u, IF Managed THEN "restoreDef" ELSE "close", t)
    BY <1>4 DEF ReplaceFails
  <2> HIDE DEF t
  <2> QED
    BY <1>2, <1>3, <2>1, <2>2, ServiceQuiet
<1>5. /\ Forget(sess[u]) \in Session /\ Forget(sess[u]).receipt = sess[u].receipt
      /\ Forget(sess[u]).restart = sess[u].restart
  BY <1>1, Fields
<1>6. CASE ApplyRefused(u)
  BY <1>1, <1>4, <1>6 DEF ApplyRefused
<1>7. CASE BackUpTarget(u) \/ RenameStaging(u)
  <2>1. ReplaceFails(u, Forget(sess[u])) \/ \E step \in Replacing : Goto(u, step, sess[u])
    BY <1>7 DEF BackUpTarget, RenameStaging
  <2> QED
    BY <1>1, <1>2, <1>3, <1>4, <1>5, <2>1, ServiceQuiet
<1>8. CASE SyncDirectory(u)
  <2>0. PICK s \in {Replaced(sess[u], TRUE), Replaced(sess[u], FALSE)} :
           Goto(u, AfterReplace, s) \/ Goto(u, "undo", sess[u])
    BY <1>8 DEF SyncDirectory
  <2>1. s \in Session /\ s.receipt = sess[u].receipt
    BY <1>1, ReplacedFields
  <2>2. Goto(u, IF Managed THEN "reconcile" ELSE "commit", s) \/ Goto(u, "undo", sess[u])
    BY <2>0 DEF AfterReplace
  <2> QED
    BY <1>1, <1>2, <1>3, <2>1, <2>2, ServiceQuiet
<1>9. CASE UndoRename(u)
  <2> DEFINE s == [Forget(sess[u]) EXCEPT !.failed = @ \cup {"inline"}]
  <2>1. s \in Session /\ s.receipt = sess[u].receipt /\ s.restart = sess[u].restart
    BY <1>5 DEF Session, RecoveryStep
  <2>2. ReplaceFails(u, Forget(sess[u])) \/ ReplaceFails(u, s)
    BY <1>9 DEF UndoRename
  <2> HIDE DEF s
  <2> QED
    BY <1>4, <1>5, <2>1, <2>2
<1> QED
  BY <1>6, <1>7, <1>8, <1>9

(* The managed session after the replacement. *)
LEMMA ServiceManaged ==
    ASSUME IInv, BinaryInv, ServiceInv, NEW u \in Updaters,
           Reconcile(u) \/ StartService(u) \/ WaitHealthy(u) \/ Commit(u)
    PROVE  ServiceInv'
<1> USE DEF InSession, Replacing, Recovering, Step, Early, Unstopped
<1>1. /\ sess[u] \in Session /\ OwnService(u) /\ Undefined(u)
      /\ svc \in [def : Definition, run : Image \cup {Down}]
      /\ OwnImages(u)
  BY DEF IInv, TypeOK, ServiceInv, BinaryInv
<1>2. UNCHANGED target /\ pc[u] \in {"reconcile", "startSvc", "health", "commit"}
  BY DEF Reconcile, StartService, WaitHealthy, Commit, dirVars
<1>3. target.img = u /\ sess[u].result = "open"
  BY <1>1, <1>2 DEF OwnImages, MayReturn, Swapped
<1>4. CASE Reconcile(u)
  <2>1. PICK changed \in BOOLEAN :
           LET t == [sess[u] EXCEPT !.receipt = IF changed THEN svc.def ELSE None] IN
           /\ svc' = [svc EXCEPT !.def = IF changed THEN u ELSE @]
           /\ \/ Goto(u, "startSvc", t)
              \/ Goto(u, "restoreDef", [t EXCEPT !.result = "error"])
    BY <1>4 DEF Reconcile, Recover
  <2> DEFINE t == [sess[u] EXCEPT !.receipt = IF changed THEN svc.def ELSE None]
  <2>2. /\ t \in Session /\ t.receipt = IF changed THEN svc.def ELSE None
    BY <1>1 DEF Session
  <2>3. /\ svc'.def = (IF changed THEN u ELSE svc.def) /\ svc'.run = svc.run
        /\ Goto(u, "startSvc", t) \/ Goto(u, "restoreDef", [t EXCEPT !.result = "error"])
    BY <1>1, <2>1
  <2> HIDE DEF t
  <2> DEFINE e == [t EXCEPT !.result = "error"]
  <2>e. e \in Session /\ e.receipt = t.receipt
    BY <2>2, Fields
  <2>4. PICK step \in {"startSvc", "restoreDef"}, s \in Session :
           Goto(u, step, s) /\ s.receipt = IF changed THEN svc.def ELSE None
    <3>1. Goto(u, "startSvc", t) \/ Goto(u, "restoreDef", e)
      BY <2>3
    <3> HIDE DEF e
    <3> QED
      BY <2>2, <2>e, <3>1
  <2>5. pc'[u] = step /\ sess'[u] = s
    BY <2>4, GotoEffect DEF IInv
  <2>6. pc[u] = "reconcile" /\ svc.run = Down /\ svc.def # u /\ svc.def # None /\ u # None
    BY <1>1, <1>4, ImageDistinct, ConstantsDistinct DEF Reconcile, OwnService, Undefined, Definition
  <2>7. OwnService(u)'
    BY <2>3, <2>4, <2>5, <2>6 DEF OwnService, FailedAtClose, Managed
  <2>8. OwedDefBy(u)'
    BY <2>5 DEF OwedDefBy, Undone
  <2> QED
    BY <2>3, <2>4, <2>6, <2>7, <2>8, ServiceStep DEF Inherits
<1>5. CASE StartService(u) \/ WaitHealthy(u)
  <2>1. /\ pc[u] \in {"startSvc", "health"} /\ svc'.def = svc.def
        /\ \E step \in {"health", "commit", "restoreDef"},
              s \in {sess[u], [sess[u] EXCEPT !.result = "error"]} :
              /\ Goto(u, step, s)
              /\ step = "health" => pc[u] = "startSvc" /\ svc' \in Started
              /\ step = "commit" => pc[u] = "health" /\ svc' = svc
    BY <1>1, <1>5 DEF StartService, WaitHealthy, Recover, Started
  <2>r. svc'.run \in {Down, u}
    BY <1>1, <1>3, <1>5 DEF StartService, WaitHealthy, Started, OwnService
  <2>2. PICK step \in {"health", "commit", "restoreDef"},
              s \in {sess[u], [sess[u] EXCEPT !.result = "error"]} :
              /\ Goto(u, step, s)
              /\ step = "health" => pc[u] = "startSvc" /\ svc' \in Started
              /\ step = "commit" => pc[u] = "health" /\ svc' = svc
    BY <2>1
  <2>3. s \in Session /\ s.receipt = sess[u].receipt
    <3>1. /\ [sess[u] EXCEPT !.result = "error"] \in Session
          /\ [sess[u] EXCEPT !.result = "error"].receipt = sess[u].receipt
      BY <1>1, Fields
    <3> QED
      BY <1>1, <3>1
  <2>4. pc'[u] = step /\ sess'[u] = s
    BY <2>2, <2>3, GotoEffect DEF IInv
  <2>5. step \in {"health", "commit"} => svc'.run = u
    BY <1>1, <1>3, <2>2 DEF OwnService, Started
  <2>6. OwnService(u)'
    BY <1>1, <2>1, <2>3, <2>4, <2>5, <2>r DEF OwnService, FailedAtClose, Managed
  <2>7. OwedDefBy(u)'
    BY <2>4 DEF OwedDefBy, Undone
  <2> QED
    BY <2>1, <2>2, <2>3, <2>6, <2>7, ServiceStep DEF Inherits
<1>6. CASE Commit(u)
  <2> DEFINE s == [sess[u] EXCEPT !.result = "applied"]
  <2>1. s \in Session /\ s.receipt = sess[u].receipt /\ s.result = "applied"
    BY <1>1 DEF Session
  <2> HIDE DEF s
  <2>2. Goto(u, "close", s) /\ svc' = svc
    BY <1>6 DEF Commit, s
  <2>3. pc'[u] = "close" /\ sess'[u] = s
    BY <2>1, <2>2, GotoEffect DEF IInv
  <2>4. OwnService(u)' /\ OwedDefBy(u)'
    BY <1>1, <2>1, <2>3 DEF OwnService, OwedDefBy, FailedAtClose
  <2> QED
    BY <1>2, <2>1, <2>2, <2>4, ServiceStep DEF Inherits
<1> QED
  BY <1>4, <1>5, <1>6

(* Recovery, and the end of a session. *)
LEMMA ServiceRecover ==
    ASSUME IInv, BinaryInv, ServiceInv, NEW u \in Updaters,
           \/ RestoreDefinition(u) \/ RollBack(u) \/ RestartService(u) \/ WaitRestarted(u)
           \/ Close(u) \/ Crash(u)
    PROVE  ServiceInv'
<1> USE DEF InSession, Replacing, Recovering, Step, Early, Unstopped, Undone
<1>1. /\ sess[u] \in Session /\ OwnService(u) /\ Undefined(u)
      /\ svc \in [def : Definition, run : Image \cup {Down}]
      /\ svc.def = u => OwedDefBy(u)
  BY DEF IInv, TypeOK, ServiceInv, OwedDef
<1>2. \A step \in RecoveryStep :
         /\ Also(u, step) \in Session
         /\ Also(u, step).result = sess[u].result /\ Also(u, step).receipt = sess[u].receipt
         /\ Also(u, step).restart = sess[u].restart
         /\ Also(u, step).failed = sess[u].failed \cup {step}
  BY <1>1, AlsoFields
<1>3. CASE RestoreDefinition(u)
  <2>1. pc[u] = "restoreDef" /\ svc'.run = svc.run /\ UNCHANGED target
    BY <1>1, <1>3 DEF RestoreDefinition, dirVars
  <2>2. PICK s \in {sess[u], Also(u, "definition")} :
           /\ Goto(u, "rollback", s)
           /\ \/ sess[u].receipt = None /\ svc'.def = svc.def
              \/ sess[u].receipt # None /\ svc'.def = sess[u].receipt
              \/ s = Also(u, "definition") /\ svc'.def = svc.def
    BY <1>1, <1>3 DEF RestoreDefinition
  <2>3. s \in Session /\ s.receipt = sess[u].receipt /\ s.restart = sess[u].restart
    BY <1>1, <1>2 DEF RecoveryStep
  <2>4. pc'[u] = "rollback" /\ sess'[u] = s
    BY <2>2, <2>3, GotoEffect DEF IInv
  <2>5. svc'.def = u => "definition" \in s.failed
    BY <1>1, <1>2, <2>1, <2>2 DEF OwnService, RecoveryStep
  <2>6. OwnService(u)' /\ (svc'.def = u => OwedDefBy(u)')
    BY <1>1, <2>1, <2>3, <2>4, <2>5 DEF OwnService, FailedAtClose, OwedDefBy
  <2> QED
    BY <2>1, <2>2, <2>3, <2>6, ServiceStep DEF Inherits
<1>4. CASE RollBack(u)
  <2>1. pc[u] = "rollback" /\ svc' = svc
    BY <1>4 DEF RollBack
  <2>2. PICK s \in {sess[u], Also(u, "binary")} : Goto(u, "restart", s)
    BY <1>4 DEF RollBack
  <2>3. /\ s \in Session /\ s.receipt = sess[u].receipt /\ s.result = sess[u].result
        /\ sess[u].failed \subseteq s.failed /\ s.restart = sess[u].restart
    BY <1>1, <1>2 DEF RecoveryStep
  <2>4. pc'[u] = "restart" /\ sess'[u] = s
    BY <2>2, <2>3, GotoEffect DEF IInv
  <2>5. OwnService(u)' /\ (svc'.def = u => OwedDefBy(u)')
    BY <1>1, <2>1, <2>3, <2>4 DEF OwnService, FailedAtClose, OwedDefBy
  <2> QED
    BY <2>1, <2>2, <2>3, <2>5, ServiceStep DEF Inherits
<1>5. CASE RestartService(u) \/ WaitRestarted(u)
  <2>1. pc[u] \in {"restart", "rehealth"} /\ svc'.def = svc.def /\ UNCHANGED target
    BY <1>1, <1>5 DEF RestartService, WaitRestarted, Started, dirVars
  <2>2. \E step \in {"rehealth", "close"}, s \in {sess[u], Also(u, "restart")} :
           /\ Goto(u, step, s)
           /\ step = "rehealth" => pc[u] = "restart" /\ sess[u].restart /\ svc' \in Started
           /\ \/ step = "rehealth" \/ ~sess[u].restart \/ s = Also(u, "restart")
              \/ pc[u] = "rehealth" /\ svc' = svc
    BY <1>5 DEF RestartService, WaitRestarted
  <2>3. PICK step \in {"rehealth", "close"}, s \in {sess[u], Also(u, "restart")} :
           /\ Goto(u, step, s)
           /\ step = "rehealth" => pc[u] = "restart" /\ sess[u].restart /\ svc' \in Started
           /\ \/ step = "rehealth" \/ ~sess[u].restart \/ s = Also(u, "restart")
              \/ pc[u] = "rehealth" /\ svc' = svc
    BY <2>2
  <2>4. /\ s \in Session /\ s.receipt = sess[u].receipt /\ s.result = sess[u].result
        /\ s.restart = sess[u].restart
        /\ sess[u].failed \subseteq s.failed
        /\ s = Also(u, "restart") => "restart" \in s.failed
    BY <1>1, <1>2 DEF RecoveryStep
  <2>5. pc'[u] = step /\ sess'[u] = s
    BY <2>3, <2>4, GotoEffect DEF IInv
  <2>6. step = "rehealth" => svc'.run \in {target.img, u}
    BY <1>1, <2>3 DEF OwnService, Started
  <2>7. pc[u] = "rehealth" => svc.run \in {target.img, u}
    BY <1>1 DEF OwnService
  <2>8. OwnService(u)' /\ (svc'.def = u => OwedDefBy(u)')
    BY <1>1, <2>1, <2>3, <2>4, <2>5, <2>6, <2>7 DEF OwnService, FailedAtClose, OwedDefBy
  <2> QED
    BY <2>1, <2>3, <2>4, <2>8, ServiceStep DEF Inherits
<1>6. CASE Close(u) \/ Crash(u)
  <2>1. UNCHANGED <<target, svc>> /\ pc[u] \in InSession
    BY <1>6 DEF Close, Crash, dirVars
  <2>2. \E s \in {sess[u], Forget(sess[u])} :
           Goto(u, "dead", s) \/ (pc[u] = "close" /\ Goto(u, "done", s))
    BY <1>6 DEF Close, Crash
  <2>3. PICK s \in {sess[u], Forget(sess[u])}, step \in {"done", "dead"} :
           Goto(u, step, s) /\ (step = "done" => pc[u] = "close")
    BY <2>2
  <2>4. /\ s \in Session /\ s.receipt = sess[u].receipt /\ s.result = sess[u].result
        /\ s.failed = sess[u].failed
    BY <1>1, Fields
  <2>5. pc'[u] = step /\ sess'[u] = s
    BY <2>3, <2>4, GotoEffect DEF IInv
  <2>6. OwnService(u)' /\ (svc'.def = u => OwedDefBy(u)')
    BY <1>1, <2>1, <2>3, <2>4, <2>5 DEF OwnService, FailedAtClose, OwedDefBy
  <2> QED
    BY <2>1, <2>3, <2>4, <2>6, ServiceStep DEF Inherits
<1> QED
  BY <1>3, <1>4, <1>5, <1>6

(* The invariant of definitions, receipts and processes. *)
THEOREM ServiceInvariance == ~PowerFails => (Spec => []ServiceInv)
<1> SUFFICES ASSUME ~PowerFails PROVE Spec => []ServiceInv
  OBVIOUS
<1>1. Init => ServiceInv
  <2> SUFFICES ASSUME Init PROVE ServiceInv
    OBVIOUS
  <2>1. /\ svc.def \in {Absent, Old}
        /\ \A u \in Updaters : pc[u] = "start" /\ sess[u].receipt = None /\ ~sess[u].restart
    BY DEF Init, Fresh
  <2>2. \A u \in Updaters : u # Old /\ u # Absent /\ u # None
    BY ConstantsDistinct
  <2>3. OwedDef(svc.def)
    BY <2>1, <2>2 DEF OwedDef
  <2>4. ASSUME NEW u \in Updaters PROVE OwnService(u) /\ Undefined(u)
    BY <2>1, <2>2
       DEF OwnService, Undefined, FailedAtClose, Replacing, Early, Unstopped
  <2> QED
    BY <2>1, <2>3, <2>4 DEF ServiceInv
<1>2. IInv /\ BinaryInv /\ ServiceInv /\ [Next]_vars => ServiceInv'
  <2>1. ASSUME IInv, BinaryInv, ServiceInv, NEW u \in Updaters, Update(u) \/ Crash(u)
        PROVE  ServiceInv'
    BY <2>1, ServicePrepare, ServiceReplace, ServiceManaged, ServiceRecover DEF Update
  <2>2. ASSUME ServiceInv, UNCHANGED vars PROVE ServiceInv'
    BY <2>2 DEF vars, ServiceInv, OwnService, Undefined, OwedDef, OwedDefBy, FailedAtClose, Managed
  <2> QED
    BY <2>1, <2>2 DEF Next, PowerLoss
<1> QED
  BY <1>1, <1>2, Invariance, BinaryInvariance, PTL DEF Spec

(* A failed update leaves no definition of its own, unless it says so. *)
THEOREM DefinitionUndoneHolds == ~PowerFails => (Spec => []DefinitionUndone)
<1>1. ServiceInv => DefinitionUndone
  BY DEF ServiceInv, OwedDef, OwedDefBy, Undone, DefinitionUndone
<1> QED
  BY <1>1, ServiceInvariance, PTL

(* An update commits only what a healthy service runs. *)
THEOREM HealthyCommitHolds == ~PowerFails => (Spec => []HealthyCommit)
<1>1. IInv /\ BinaryInv /\ ServiceInv => HealthyCommit
  <2> SUFFICES ASSUME IInv, BinaryInv, ServiceInv, NEW u \in Updaters, pc[u] = "commit"
               PROVE  lock = u /\ target.img = u /\ (Managed => svc.run = u)
    BY DEF HealthyCommit
  <2>1. OwnImages(u) /\ OwnService(u) /\ LockHeld
    BY DEF IInv, BinaryInv, ServiceInv
  <2> QED
    BY <2>1 DEF OwnImages, OwnService, LockHeld, MayReturn, Swapped, InSession
<1> QED
  BY <1>1, Invariance, BinaryInvariance, ServiceInvariance, PTL

(* After a recovery that restarted the service, the installed program or    *)
(* the withdrawn release runs.                                              *)
THEOREM RecoveredRunsHolds == ~PowerFails => (Spec => []RecoveredRuns)
<1> SUFFICES ASSUME ~PowerFails PROVE Spec => []RecoveredRuns
  OBVIOUS
<1>1. ServiceInv => RecoveredRuns
  BY DEF ServiceInv, OwnService, RecoveredRuns
<1> QED
  BY <1>1, ServiceInvariance, PTL
-----------------------------------------------------------------------------
(* The holder of the abstract exchange is the session past revalidation.    *)
Holder == IF lock # None /\ pc[lock] # "revalidate" THEN lock ELSE None
SeenImage(u) == IF sess[u].seen = None THEN None ELSE sess[u].seen.img
Seen == [u \in Updaters |-> SeenImage(u)]
KeptBy == {u \in Updaters : sess[u].result = "applied"}

(* A step that changes neither field leaves the mapped variables alone. *)
LEMMA Frame ==
    ASSUME IInv, IInv', NEW u \in Updaters, NEW step \in Step, NEW s \in Session,
           Goto(u, step, s)
    PROVE  /\ s.seen = sess[u].seen => Seen' = Seen
           /\ s.result = sess[u].result \/ {s.result, sess[u].result} \cap {"applied"} = {}
                 => KeptBy' = KeptBy
<1>1. /\ pc'[u] = step /\ sess'[u] = s
      /\ \A v \in Updaters : v # u => pc'[v] = pc[v] /\ sess'[v] = sess[v]
  BY GotoEffect DEF IInv
<1>2. s.seen = sess[u].seen => Seen' = Seen
  BY <1>1 DEF Seen, SeenImage
<1>3. s.result = sess[u].result \/ {s.result, sess[u].result} \cap {"applied"} = {}
          => KeptBy' = KeptBy
  BY <1>1 DEF KeptBy
<1> QED
  BY <1>2, <1>3

(* How the holder of the exchange follows the lock. *)
LEMMA HolderStep ==
    ASSUME IInv, IInv', BinaryInv, NEW u \in Updaters, NEW step \in Step, NEW s \in Session,
           Goto(u, step, s)
    PROVE  /\ u # None
           /\ pc[u] \in InSession => Holder = IF pc[u] = "revalidate" THEN None ELSE u
           /\ pc[u] \notin InSession => Holder # u
           /\ pc[u] \notin InSession /\ lock' = lock => Holder' = Holder
           /\ lock' = None => Holder' = None
           /\ lock' = u => Holder' = IF step = "revalidate" THEN None ELSE u
           /\ lock = None => Holder = None
           /\ pc[u] \in InSession => lock = u
<1>1. /\ pc'[u] = step /\ \A v \in Updaters : v # u => pc'[v] = pc[v]
  BY GotoEffect DEF IInv
<1>2. /\ lock \in Updaters \cup {None} /\ u # None /\ LockHeld /\ LockOwner
  BY ImageDistinct DEF IInv, TypeOK, BinaryInv
<1> QED
  BY <1>1, <1>2 DEF Holder, LockHeld, LockOwner, InSession

(* The exchange does not see such a step. *)
Unchanging == /\ target'.img = target.img
              /\ Holder' = Holder /\ Seen' = Seen /\ KeptBy' = KeptBy

(* Such a step stutters. *)
LEMMA UnchangingStep == ASSUME Unchanging PROVE [Contract!Next]_(Contract!xvars)
  BY DEF Unchanging, Contract!xvars, Holder, Seen, SeenImage, KeptBy

(* Resolving the target is to look. *)
LEMMA LookStep ==
    ASSUME NEW u \in Updaters, Holder # u, Seen[u] = None,
           Seen' = [Seen EXCEPT ![u] = target.img],
           target' = target, Holder' = Holder, KeptBy' = KeptBy
    PROVE  [Contract!Next]_(Contract!xvars)
<1>1. Contract!Look(u)
  BY DEF Contract!Look, Holder, Seen, SeenImage, KeptBy
<1> QED
  BY <1>1 DEF Contract!Next

(* Revalidation is to take. *)
LEMMA TakeStep ==
    ASSUME NEW u \in Updaters, Holder = None, Seen[u] = target.img, Holder' = u,
           target' = target, Seen' = Seen, KeptBy' = KeptBy
    PROVE  [Contract!Next]_(Contract!xvars)
<1>1. Contract!Take(u)
  BY DEF Contract!Take, Holder, Seen, SeenImage, KeptBy
<1> QED
  BY <1>1 DEF Contract!Next

(* The rename is to put. *)
LEMMA PutStep ==
    ASSUME NEW u \in Updaters, Holder = u, target.img = Seen[u], target'.img = u,
           Holder' = Holder, Seen' = Seen, KeptBy' = KeptBy
    PROVE  [Contract!Next]_(Contract!xvars)
<1>1. Contract!Put(u)
  BY DEF Contract!Put, Holder, Seen, SeenImage, KeptBy
<1> QED
  BY <1>1 DEF Contract!Next

(* An undo and a rollback are to take back. *)
LEMMA TakeBackStep ==
    ASSUME NEW u \in Updaters, Holder = u, target.img = u, u \notin KeptBy,
           target'.img = Seen[u], Holder' = Holder, Seen' = Seen, KeptBy' = KeptBy
    PROVE  [Contract!Next]_(Contract!xvars)
<1>1. Contract!TakeBack(u)
  BY DEF Contract!TakeBack, Holder, Seen, SeenImage, KeptBy
<1> QED
  BY <1>1 DEF Contract!Next

(* The commit is to keep. *)
LEMMA KeepStep ==
    ASSUME NEW u \in Updaters, Holder = u, target.img = u, KeptBy' = KeptBy \cup {u},
           target' = target, Holder' = Holder, Seen' = Seen
    PROVE  [Contract!Next]_(Contract!xvars)
<1>1. Contract!Keep(u)
  BY DEF Contract!Keep, Holder, Seen, SeenImage, KeptBy
<1> QED
  BY <1>1 DEF Contract!Next

(* Close and a kill are to leave. *)
LEMMA LeaveStep ==
    ASSUME NEW u \in Updaters, Holder = u, Holder' = None,
           target' = target, Seen' = Seen, KeptBy' = KeptBy
    PROVE  [Contract!Next]_(Contract!xvars)
<1>1. Contract!Leave(u)
  BY DEF Contract!Leave, Holder, Seen, SeenImage, KeptBy
<1> QED
  BY <1>1 DEF Contract!Next

(* Most steps of a session are no steps of the exchange.                    *)
LEMMA SessionStutters ==
    ASSUME IInv, IInv', BinaryInv, NEW u \in Updaters, NEW step \in Step, NEW s \in Session,
           Goto(u, step, s), target' = target, lock' = lock,
           pc[u] \in InSession \ {"revalidate"}, step \in InSession \ {"revalidate"},
           s.seen = sess[u].seen,
           s.result = sess[u].result \/ (s.result = "error" /\ sess[u].result # "applied")
    PROVE  [Contract!Next]_(Contract!xvars)
<1>1. Seen' = Seen /\ KeptBy' = KeptBy
  BY Frame
<1>2. Holder' = Holder
  BY HolderStep
<1> QED
  BY <1>1, <1>2, UnchangingStep DEF Unchanging

(* The steps before the replacement implement the exchange. *)
LEMMA PrepareRefines ==
    ASSUME IInv, IInv', BinaryInv, NEW u \in Updaters,
           \/ ResolveTarget(u) \/ StopBeforeBegin(u) \/ AcquireLock(u) \/ LockTimeout(u)
           \/ RevalidateTarget(u) \/ CreateStaging(u) \/ DownloadBinary(u) \/ VerifyStaging(u)
           \/ ProbeInstalled(u) \/ ProbeRunning(u) \/ StopService(u)
    PROVE  [Contract!Next]_(Contract!xvars)
<1> USE DEF InSession, Replacing, Recovering, Step, Before, Prepare
<1>1. sess[u] \in Session /\ OwnImages(u) /\ target \in File
  BY DEF IInv, TypeOK, BinaryInv
<1>2. /\ [sess[u] EXCEPT !.result = "error"] \in Session
      /\ [sess[u] EXCEPT !.result = "error"].seen = sess[u].seen
      /\ [sess[u] EXCEPT !.result = "error"].result = "error"
  BY <1>1, Fields
<1>3. pc[u] \in Before => sess[u].result = "open"
  BY <1>1 DEF OwnImages
<1>4. CASE ResolveTarget(u)
  <2> DEFINE s == [sess[u] EXCEPT !.seen = target]
  <2>1. s \in Session /\ s.seen = target /\ s.result = sess[u].result
    BY <1>1 DEF Session
  <2> HIDE DEF s
  <2>2. /\ pc[u] = "start" /\ Goto(u, "begin", s) /\ UNCHANGED <<target, lock>>
    BY <1>4 DEF ResolveTarget, dirVars, s
  <2>3. /\ sess'[u] = s /\ \A v \in Updaters : v # u => sess'[v] = sess[v]
    BY <2>1, <2>2, GotoEffect DEF IInv
  <2>4. sess[u].seen = None /\ target # None
    BY <1>1, <2>2, NoneAssumption DEF OwnImages
  <2>5. Seen[u] = None /\ Seen' = [Seen EXCEPT ![u] = target.img]
    BY <2>1, <2>3, <2>4 DEF Seen, SeenImage
  <2>6. KeptBy' = KeptBy
    BY <2>1, <2>2, Frame
  <2>7. Holder' = Holder /\ Holder # u
    BY <2>1, <2>2, HolderStep
  <2> QED
    BY <2>2, <2>5, <2>6, <2>7, LookStep
<1>5. CASE StopBeforeBegin(u) \/ LockTimeout(u)
  <2>1. /\ pc[u] \in {"start", "begin"} /\ UNCHANGED <<target, lock>>
        /\ Goto(u, "done", [sess[u] EXCEPT !.result = "error"])
    BY <1>5 DEF StopBeforeBegin, LockTimeout, dirVars
  <2>2. Seen' = Seen /\ KeptBy' = KeptBy
    BY <1>2, <1>3, <2>1, Frame
  <2>3. Holder' = Holder
    BY <1>2, <2>1, HolderStep
  <2> QED
    BY <2>1, <2>2, <2>3, UnchangingStep DEF Unchanging
<1>6. CASE AcquireLock(u)
  <2>1. /\ pc[u] = "begin" /\ lock = None /\ lock' = u /\ target' = target
        /\ Goto(u, "revalidate", sess[u])
    BY <1>6 DEF AcquireLock, dirVars
  <2>2. Seen' = Seen /\ KeptBy' = KeptBy
    BY <1>1, <2>1, Frame
  <2>3. Holder' = Holder
    BY <1>1, <2>1, HolderStep
  <2> QED
    BY <2>1, <2>2, <2>3, UnchangingStep DEF Unchanging
<1>7. CASE RevalidateTarget(u)
  <2>1. pc[u] = "revalidate" /\ target' = target
    BY <1>7 DEF RevalidateTarget, dirVars
  <2>2. CASE target = sess[u].seen /\ Goto(u, "create", sess[u]) /\ lock' = lock
    <3>1. Seen' = Seen /\ KeptBy' = KeptBy
      BY <1>1, <2>2, Frame
    <3>2. Holder = None /\ Holder' = u
      BY <1>1, <2>1, <2>2, HolderStep
    <3>3. Seen[u] = target.img
      BY <1>1, <2>2, NoneAssumption DEF Seen, SeenImage
    <3> QED
      BY <2>1, <3>1, <3>2, <3>3, TakeStep
  <2>3. CASE Goto(u, "done", [sess[u] EXCEPT !.result = "error"]) /\ lock' = None
    <3>1. Seen' = Seen /\ KeptBy' = KeptBy
      BY <1>2, <1>3, <2>1, <2>3, Frame
    <3>2. Holder' = Holder
      BY <1>2, <2>1, <2>3, HolderStep
    <3> QED
      BY <2>1, <3>1, <3>2, UnchangingStep DEF Unchanging
  <2> QED
    BY <1>7, <2>2, <2>3 DEF RevalidateTarget
<1>8. CASE \/ CreateStaging(u) \/ DownloadBinary(u) \/ VerifyStaging(u)
           \/ ProbeInstalled(u) \/ ProbeRunning(u) \/ StopService(u)
  <2>1. /\ pc[u] \in {"create", "download", "verify", "install", "probe", "stop"}
        /\ UNCHANGED <<target, lock>>
    BY <1>8 DEF CreateStaging, DownloadBinary, VerifyStaging, ProbeInstalled, ProbeRunning,
                StopService, dirVars
  <2>2. CASE Fails(u)
    BY <1>2, <1>3, <2>1, <2>2, SessionStutters DEF Fails
  <2>3. CASE ~Fails(u)
    <3>1. PICK step \in {"download", "verify", "install", "probe", "stop", "apply"},
               s \in {sess[u], [sess[u] EXCEPT !.owns = TRUE],
                      [sess[u] EXCEPT !.restart = TRUE]} : Goto(u, step, s)
      BY <1>8, <2>3 DEF CreateStaging, DownloadBinary, VerifyStaging, ProbeInstalled,
                        ProbeRunning, StopService
    <3>2. s \in Session /\ s.seen = sess[u].seen /\ s.result = sess[u].result
      BY <1>1 DEF Session
    <3> QED
      BY <2>1, <3>1, <3>2, SessionStutters
  <2> QED
    BY <2>2, <2>3
<1> QED
  BY <1>4, <1>5, <1>6, <1>7, <1>8

(* The replacement implements the exchange. *)
LEMMA ReplaceRefines ==
    ASSUME IInv, IInv', BinaryInv, NEW u \in Updaters,
           \/ ApplyRefused(u) \/ BackUpTarget(u) \/ RenameStaging(u)
           \/ SyncDirectory(u) \/ UndoRename(u)
    PROVE  [Contract!Next]_(Contract!xvars)
<1> USE DEF InSession, Replacing, Recovering, Step
<1>1. sess[u] \in Session /\ OwnImages(u)
  BY DEF IInv, TypeOK, BinaryInv
<1>2. pc[u] \in Replacing /\ lock' = lock
  BY DEF ApplyRefused, BackUpTarget, RenameStaging, SyncDirectory, UndoRename
<1>3. sess[u].result = "open" /\ sess[u].seen \in File /\ Holder = u
  BY <1>1, <1>2, HolderStep DEF OwnImages, Before, Prepare, Swapped, Holder, IInv, LockHeld
<1>4. /\ Forget(sess[u]) \in Session /\ Forget(sess[u]).seen = sess[u].seen
      /\ Forget(sess[u]).result = "open"
  BY <1>1, <1>3, Fields
<1>5. ASSUME NEW s \in Session, s.seen = sess[u].seen, s.result = "open", ReplaceFails(u, s)
      PROVE  \E step \in {"restoreDef", "close"}, e \in Session :
                Goto(u, step, e) /\ e.seen = sess[u].seen /\ e.result = "error"
  <2> DEFINE e == [s EXCEPT !.result = "error"]
  <2>1. e \in Session /\ e.seen = sess[u].seen /\ e.result = "error"
    BY <1>5, Fields
  <2>2. \E step \in {"restoreDef", "close"} : Goto(u, step, e)
    BY <1>5 DEF ReplaceFails
  <2> HIDE DEF e
  <2> QED
    BY <2>1, <2>2
<1>6. ASSUME NEW s \in Session, s.seen = sess[u].seen, s.result = "open", ReplaceFails(u, s),
             target' = target
      PROVE  [Contract!Next]_(Contract!xvars)
  BY <1>2, <1>3, <1>5, <1>6, SessionStutters
<1>7. CASE ApplyRefused(u)
  BY <1>1, <1>3, <1>6, <1>7 DEF ApplyRefused, dirVars
<1>8. CASE BackUpTarget(u)
  <2>1. target' = target /\ (ReplaceFails(u, Forget(sess[u])) \/ Goto(u, "rename", sess[u]))
    BY <1>8 DEF BackUpTarget
  <2> QED
    BY <1>1, <1>2, <1>4, <1>6, <2>1, SessionStutters
<1>9. CASE RenameStaging(u)
  <2>1. CASE target' = staging[u] /\ Goto(u, "sync", sess[u])
    <3>1. pc[u] = "rename" /\ target'.img = u
      BY <1>9, <2>1 DEF RenameStaging, IInv, Staged
    <3>2. target.img = Seen[u]
      BY <1>1, <1>3, <3>1, NoneAssumption DEF OwnImages, Prepare, Seen, SeenImage
    <3>3. Seen' = Seen /\ KeptBy' = KeptBy
      BY <1>1, <2>1, Frame
    <3>4. Holder' = Holder
      BY <1>1, <1>2, <1>3, <2>1, HolderStep
    <3> QED
      BY <1>3, <3>1, <3>2, <3>3, <3>4, PutStep
  <2>2. CASE ReplaceFails(u, Forget(sess[u])) /\ target' = target
    BY <1>4, <1>6, <2>2
  <2> QED
    BY <1>9, <2>1, <2>2 DEF RenameStaging
<1>10. CASE SyncDirectory(u)
  <2>0. PICK flushed \in BOOLEAN :
           Goto(u, AfterReplace, Replaced(sess[u], flushed)) \/ Goto(u, "undo", sess[u])
    BY <1>10 DEF SyncDirectory
  <2> DEFINE s == Replaced(sess[u], flushed)
  <2>1. s \in Session /\ s.seen = sess[u].seen /\ s.result = sess[u].result
    BY <1>1, ReplacedFields
  <2>2. /\ target' = target
        /\ \E step \in {"reconcile", "commit"} : Goto(u, step, s) \/ Goto(u, "undo", sess[u])
    BY <1>10, <2>0 DEF SyncDirectory, AfterReplace
  <2> HIDE DEF s
  <2> QED
    BY <1>1, <1>2, <2>1, <2>2, SessionStutters
<1>11. CASE UndoRename(u)
  <2>1. /\ target.img = u /\ backup[u].img = sess[u].seen.img
    BY <1>1, <1>11 DEF UndoRename, OwnImages, MayReturn, Swapped
  <2>2. CASE target' = backup[u] /\ ReplaceFails(u, Forget(sess[u]))
    <3>1. PICK step \in {"restoreDef", "close"}, e \in Session :
             Goto(u, step, e) /\ e.seen = sess[u].seen /\ e.result = "error"
      BY <1>4, <1>5, <2>2
    <3>2. Seen' = Seen /\ KeptBy' = KeptBy
      BY <1>3, <3>1, Frame
    <3>3. Holder' = Holder
      BY <1>2, <1>3, <3>1, HolderStep
    <3>4. target'.img = Seen[u] /\ u \notin KeptBy
      BY <1>3, <2>1, <2>2, NoneAssumption DEF Seen, SeenImage, KeptBy
    <3> QED
      BY <1>3, <2>1, <3>2, <3>3, <3>4, TakeBackStep
  <2>3. CASE /\ target' = target
             /\ ReplaceFails(u, [Forget(sess[u]) EXCEPT !.failed = @ \cup {"inline"}])
    <3> DEFINE t == [Forget(sess[u]) EXCEPT !.failed = @ \cup {"inline"}]
    <3>1. t \in Session /\ t.seen = sess[u].seen /\ t.result = "open"
      BY <1>4 DEF Session, RecoveryStep
    <3> HIDE DEF t
    <3>2. ReplaceFails(u, t)
      BY <2>3 DEF t
    <3> QED
      BY <1>6, <2>3, <3>1, <3>2
  <2> QED
    BY <1>11, <2>2, <2>3 DEF UndoRename
<1> QED
  BY <1>7, <1>8, <1>9, <1>10, <1>11

(* The managed steps implement the exchange. *)
LEMMA ManagedRefines ==
    ASSUME IInv, IInv', BinaryInv, NEW u \in Updaters,
           Reconcile(u) \/ StartService(u) \/ WaitHealthy(u) \/ Commit(u)
    PROVE  [Contract!Next]_(Contract!xvars)
<1> USE DEF InSession, Replacing, Recovering, Step
<1>1. sess[u] \in Session /\ OwnImages(u)
  BY DEF IInv, TypeOK, BinaryInv
<1>2. /\ pc[u] \in {"reconcile", "startSvc", "health", "commit"}
      /\ target' = target /\ lock' = lock
  BY DEF Reconcile, StartService, WaitHealthy, Commit, dirVars
<1>3. sess[u].result = "open" /\ target.img = u
  BY <1>1, <1>2 DEF OwnImages, MayReturn, Swapped
<1>4. CASE Commit(u)
  <2> DEFINE s == [sess[u] EXCEPT !.result = "applied"]
  <2>1. s \in Session /\ s.seen = sess[u].seen /\ s.result = "applied"
    BY <1>1 DEF Session
  <2> HIDE DEF s
  <2>2. Goto(u, "close", s)
    BY <1>4 DEF Commit, s
  <2>3. sess'[u] = s /\ \A v \in Updaters : v # u => sess'[v] = sess[v]
    BY <2>1, <2>2, GotoEffect DEF IInv
  <2>4. KeptBy' = KeptBy \cup {u}
    BY <2>1, <2>3 DEF KeptBy
  <2>5. Seen' = Seen
    BY <2>1, <2>2, Frame
  <2>6. Holder = u /\ Holder' = Holder
    BY <1>2, <2>1, <2>2, HolderStep
  <2> QED
    BY <1>2, <1>3, <2>4, <2>5, <2>6, KeepStep
<1>5. CASE Reconcile(u)
  <2>1. PICK changed \in BOOLEAN :
           LET t == [sess[u] EXCEPT !.receipt = IF changed THEN svc.def ELSE None]
           IN  Goto(u, "startSvc", t) \/ Goto(u, "restoreDef", [t EXCEPT !.result = "error"])
    BY <1>5 DEF Reconcile, Recover
  <2> DEFINE t == [sess[u] EXCEPT !.receipt = IF changed THEN svc.def ELSE None]
             e == [t EXCEPT !.result = "error"]
  <2>2. (IF changed THEN svc.def ELSE None) \in Definition \cup {None}
    BY DEF IInv, TypeOK
  <2>3. t \in Session /\ t.seen = sess[u].seen /\ t.result = "open"
    BY <1>1, <1>3, <2>2 DEF Session
  <2>4. Goto(u, "startSvc", t) \/ Goto(u, "restoreDef", e)
    BY <2>1
  <2> HIDE DEF t
  <2>5. e \in Session /\ e.seen = sess[u].seen /\ e.result = "error"
    BY <2>3, Fields
  <2> HIDE DEF e
  <2> QED
    BY <1>2, <1>3, <2>3, <2>4, <2>5, SessionStutters
<1>6. CASE StartService(u) \/ WaitHealthy(u)
  <2> DEFINE e == [sess[u] EXCEPT !.result = "error"]
  <2>1. e \in Session /\ e.seen = sess[u].seen /\ e.result = "error"
    BY <1>1, Fields
  <2>2. Goto(u, "health", sess[u]) \/ Goto(u, "commit", sess[u]) \/ Goto(u, "restoreDef", e)
    BY <1>6 DEF StartService, WaitHealthy, Recover
  <2> HIDE DEF e
  <2> QED
    BY <1>1, <1>2, <1>3, <2>1, <2>2, SessionStutters
<1> QED
  BY <1>4, <1>5, <1>6

(* Recovery implements the exchange. *)
LEMMA RecoverRefines ==
    ASSUME IInv, IInv', BinaryInv, NEW u \in Updaters,
           \/ RestoreDefinition(u) \/ RollBack(u) \/ RestartService(u) \/ WaitRestarted(u)
           \/ Close(u) \/ Crash(u)
    PROVE  [Contract!Next]_(Contract!xvars)
<1> USE DEF InSession, Replacing, Recovering, Step
<1>1. sess[u] \in Session /\ OwnImages(u)
  BY DEF IInv, TypeOK, BinaryInv
<1>2. \A step \in RecoveryStep :
         /\ Also(u, step) \in Session
         /\ Also(u, step).result = sess[u].result /\ Also(u, step).seen = sess[u].seen
  BY <1>1, AlsoFields
<1>3. ASSUME NEW s \in {sess[u]} \cup {Also(u, step) : step \in RecoveryStep},
             NEW step \in {"rollback", "restart", "rehealth", "close"}, Goto(u, step, s),
             target' = target, lock' = lock, pc[u] \in Recovering
      PROVE  [Contract!Next]_(Contract!xvars)
  <2>1. s \in Session /\ s.seen = sess[u].seen /\ s.result = sess[u].result
    BY <1>1, <1>2
  <2> QED
    BY <1>3, <2>1, SessionStutters
<1>4. CASE RestoreDefinition(u) \/ RestartService(u) \/ WaitRestarted(u)
  BY <1>3, <1>4 DEF RestoreDefinition, RestartService, WaitRestarted, dirVars, RecoveryStep
<1>5. CASE RollBack(u)
  <2>1. CASE target' = target
    BY <1>3, <1>5, <2>1 DEF RollBack, RecoveryStep
  <2>2. CASE sess[u].applied /\ target' = backup[u] /\ Goto(u, "restart", sess[u])
    <3>1. pc[u] = "rollback" /\ lock' = lock
      BY <1>5 DEF RollBack
    <3>2. /\ target.img = u /\ backup[u].img = sess[u].seen.img
          /\ sess[u].seen \in File /\ sess[u].result = "error"
      BY <1>1, <2>2, <3>1 DEF OwnImages, MayReturn, Undoing
    <3>3. Seen' = Seen /\ KeptBy' = KeptBy
      BY <1>1, <2>2, Frame
    <3>4. Holder = u /\ Holder' = Holder
      BY <1>1, <2>2, <3>1, HolderStep
    <3>5. target'.img = Seen[u] /\ u \notin KeptBy
      BY <2>2, <3>2, NoneAssumption DEF Seen, SeenImage, KeptBy
    <3> QED
      BY <3>2, <3>3, <3>4, <3>5, TakeBackStep
  <2> QED
    BY <1>5, <2>1, <2>2 DEF RollBack
<1>6. CASE Close(u) \/ Crash(u)
  <2>1. pc[u] \in InSession /\ target' = target /\ lock' = None
    BY <1>6 DEF Close, Crash, dirVars
  <2>2. /\ Forget(sess[u]) \in Session /\ Forget(sess[u]).seen = sess[u].seen
        /\ Forget(sess[u]).result = sess[u].result
    BY <1>1, Fields
  <2>3. PICK s \in {sess[u], Forget(sess[u])}, step \in {"done", "dead"} : Goto(u, step, s)
    BY <1>6 DEF Close, Crash
  <2>4. s \in Session /\ s.seen = sess[u].seen /\ s.result = sess[u].result
    BY <1>1, <2>2
  <2>5. Seen' = Seen /\ KeptBy' = KeptBy
    BY <2>3, <2>4, Frame
  <2>6. Holder' = None /\ Holder \in {None, u}
    BY <2>1, <2>3, <2>4, HolderStep
  <2> QED
    BY <2>1, <2>5, <2>6, LeaveStep, UnchangingStep DEF Unchanging
<1> QED
  BY <1>4, <1>5, <1>6

(* Without power failures the transaction implements the exchange.          *)
THEOREM ImplementsExchangeHolds == ~PowerFails => (Spec => ImplementsExchange)
<1> SUFFICES ASSUME ~PowerFails PROVE Spec => ImplementsExchange
  OBVIOUS
<1>1. Init => Contract!Init
  <2> SUFFICES ASSUME Init PROVE Contract!Init
    OBVIOUS
  <2>1. /\ target.img = Old /\ lock = None
        /\ sess = [u \in Updaters |-> Fresh] /\ Fresh.seen = None /\ Fresh.result = "open"
    BY FileType DEF Init, Fresh
  <2> QED
    BY <2>1 DEF Contract!Init
<1>2. IInv /\ IInv' /\ BinaryInv /\ [Next]_vars => [Contract!Next]_(Contract!xvars)
  <2>1. ASSUME IInv, IInv', BinaryInv, NEW u \in Updaters, Update(u) \/ Crash(u)
        PROVE  [Contract!Next]_(Contract!xvars)
    BY <2>1, PrepareRefines, ReplaceRefines, ManagedRefines, RecoverRefines DEF Update
  <2>2. ASSUME UNCHANGED vars PROVE [Contract!Next]_(Contract!xvars)
    BY <2>2, UnchangingStep DEF vars, Unchanging, Holder, Seen, SeenImage, KeptBy
  <2> QED
    BY <2>1, <2>2 DEF Next, PowerLoss
<1> QED
  BY <1>1, <1>2, Invariance, BinaryInvariance, PTL DEF Spec, ImplementsExchange, Contract!Spec
-----------------------------------------------------------------------------
(* With power failures: a session past the rename has installed its own     *)
(* release, past a sync that was made for good; once a success is synced    *)
(* and reported the first image is no longer among the files that may come  *)
(* back.                                                                    *)
Lasting == {"reconcile", "startSvc", "health", "commit"}

(* The steps of an updater that has its result. *)
Over == {"close", "done", "dead"}

OwnSwap(u) == /\ pc[u] \in Swapped => target.img = u
              /\ pc[u] \in Lasting /\ sess[u].synced => survivors = {target}
              /\ sess[u].result = "applied" => pc[u] \in Over

SomeApplied == \E u \in Updaters : sess[u].result = "applied" /\ sess[u].synced

OldGone ==
    /\ target.img # Old
    /\ \A f \in survivors : f.img # Old
    /\ \A u \in Updaters : MayReturn(u) \/ pc[u] = "rename" => backup[u].img # Old

DurableInv == (\A u \in Updaters : OwnSwap(u)) /\ (SomeApplied => OldGone)

(* What the invariant asks of a step of one updater. *)
LEMMA DurableStep ==
    ASSUME IInv, DurableInv,
           NEW u \in Updaters, NEW step \in Step, NEW s \in Session, Goto(u, step, s),
           \A v \in Updaters : v # u => backup'[v] = backup[v],
           pc[u] \in InSession \/ UNCHANGED <<target, survivors>>,
           OwnSwap(u)',
           OldGone => /\ target'.img # Old /\ \A f \in survivors' : f.img # Old
                      /\ MayReturn(u)' \/ step = "rename" => backup'[u].img # Old,
           s.result = "applied" /\ s.synced =>
               /\ sess[u].synced
               /\ \/ sess[u].result = "applied"
                  \/ pc[u] = "commit" /\ step = "close" /\ UNCHANGED <<target, survivors>>
    PROVE  DurableInv'
<1>1. /\ pc'[u] = step /\ sess'[u] = s
      /\ \A v \in Updaters : v # u => pc'[v] = pc[v] /\ sess'[v] = sess[v]
  BY GotoEffect DEF IInv
<1>2. LockHeld /\ \A v \in Updaters : v # Old
  BY ConstantsDistinct DEF IInv
<1>3. ASSUME NEW v \in Updaters PROVE OwnSwap(v)'
  <2>1. CASE v # u /\ pc[v] \in InSession
    BY <1>1, <1>2, <2>1 DEF DurableInv, OwnSwap, LockHeld
  <2>2. CASE v # u /\ pc[v] \notin InSession
    BY <1>1, <2>2 DEF DurableInv, OwnSwap, Swapped, Lasting, InSession, Replacing
  <2> QED
    BY <2>1, <2>2
<1>4. ASSUME SomeApplied, SomeApplied' PROVE OldGone'
  <2>1. OldGone
    BY <1>4 DEF DurableInv
  <2>2. ASSUME NEW v \in Updaters, v # u, MayReturn(v)' \/ pc'[v] = "rename"
        PROVE  backup'[v].img # Old
    BY <1>1, <2>1, <2>2 DEF OldGone, MayReturn
  <2> QED
    BY <1>1, <2>1, <2>2 DEF OldGone
<1>5. ASSUME ~SomeApplied, SomeApplied' PROVE OldGone'
  <2>1. pc[u] = "commit" /\ step = "close" /\ sess[u].synced /\ UNCHANGED <<target, survivors>>
    BY <1>1, <1>5 DEF SomeApplied
  <2>2. target.img = u /\ survivors = {target}
    BY <2>1 DEF DurableInv, OwnSwap, Swapped, Lasting
  <2>3. ASSUME NEW v \in Updaters PROVE ~(MayReturn(v)' \/ pc'[v] = "rename")
    BY <1>1, <1>2, <2>1 DEF MayReturn, LockHeld, InSession, Replacing, Recovering, Swapped, Undoing
  <2> QED
    BY <1>2, <2>1, <2>2, <2>3 DEF OldGone
<1> QED
  BY <1>3, <1>4, <1>5 DEF DurableInv

(* The special case of a step that leaves the directory alone. *)
LEMMA DurableQuiet ==
    ASSUME IInv, DurableInv,
           NEW u \in Updaters, NEW step \in Step, NEW s \in Session, Goto(u, step, s),
           UNCHANGED <<target, survivors, backup>>, step # "rename",
           step \in Swapped => pc[u] \in Swapped,
           step \in Lasting => pc[u] \in Lasting,
           step \in Undoing /\ s.applied => MayReturn(u),
           pc[u] \in Over => step \in Over,
           s.synced = sess[u].synced, s.result = "applied" => sess[u].result = "applied"
    PROVE  DurableInv'
<1>1. pc'[u] = step /\ sess'[u] = s
  BY GotoEffect DEF IInv
<1>2. OwnSwap(u)'
  BY <1>1 DEF DurableInv, OwnSwap
<1>3. OldGone => (MayReturn(u)' \/ step = "rename" => backup'[u].img # Old)
  BY <1>1 DEF OldGone, MayReturn
<1> QED
  BY <1>2, <1>3, DurableStep DEF OldGone

(* The steps that leave the directory alone. *)
LEMMA DurableSteps ==
    ASSUME IInv, DurableInv, NEW u \in Updaters,
           \/ ResolveTarget(u) \/ StopBeforeBegin(u) \/ AcquireLock(u) \/ LockTimeout(u)
           \/ RevalidateTarget(u) \/ CreateStaging(u) \/ DownloadBinary(u) \/ VerifyStaging(u)
           \/ ProbeInstalled(u) \/ ProbeRunning(u) \/ StopService(u) \/ ApplyRefused(u)
           \/ Reconcile(u) \/ StartService(u) \/ WaitHealthy(u)
           \/ RestoreDefinition(u) \/ RestartService(u) \/ WaitRestarted(u)
           \/ Close(u) \/ Crash(u)
    PROVE  DurableInv'
<1> USE DEF InSession, Replacing, Recovering, Step, Swapped, Undoing, Lasting, Over
<1>1. /\ sess[u] \in Session /\ target \in File /\ svc \in [def : Definition, run : Image \cup {Down}]
      /\ pc[u] \in Early => ~sess[u].applied
  BY DEF IInv, TypeOK, Kept
<1>2. UNCHANGED <<target, survivors, backup>>
  BY DEF ResolveTarget, StopBeforeBegin, AcquireLock, LockTimeout, RevalidateTarget, CreateStaging,
         DownloadBinary, VerifyStaging, ProbeInstalled, ProbeRunning, StopService, ApplyRefused,
         Reconcile, StartService, WaitHealthy, RestoreDefinition, RestartService, WaitRestarted,
         Close, Crash, dirVars
<1>3. ASSUME NEW t \in Session, t.applied = sess[u].applied, t.result = sess[u].result,
             t.synced = sess[u].synced,
             NEW step \in Step \ {"rename"},
             step \in Swapped => pc[u] \in Swapped, step \in Lasting => pc[u] \in Lasting,
             step \in Undoing /\ sess[u].applied => MayReturn(u), pc[u] \in Over => step \in Over,
             Goto(u, step, t) \/ Goto(u, step, [t EXCEPT !.result = "error"])
      PROVE  DurableInv'
  <2> DEFINE e == [t EXCEPT !.result = "error"]
  <2>1. e \in Session /\ e.applied = sess[u].applied /\ e.synced = sess[u].synced /\ e.result = "error"
    BY <1>3, Fields
  <2>2. Goto(u, step, t) \/ Goto(u, step, e)
    BY <1>3
  <2> HIDE DEF e
  <2> QED
    BY <1>2, <1>3, <2>1, <2>2, DurableQuiet
<1>4. CASE ResolveTarget(u)
  <2> DEFINE s == [sess[u] EXCEPT !.seen = target]
  <2>1. /\ s \in Session /\ s.applied = sess[u].applied /\ s.result = sess[u].result
        /\ s.synced = sess[u].synced
    BY <1>1 DEF Session
  <2>2. Goto(u, "begin", s)
    BY <1>4 DEF ResolveTarget
  <2> HIDE DEF s
  <2> QED
    BY <1>3, <1>4, <2>1, <2>2 DEF ResolveTarget
<1>5. CASE \/ StopBeforeBegin(u) \/ AcquireLock(u) \/ LockTimeout(u) \/ RevalidateTarget(u)
           \/ VerifyStaging(u) \/ ProbeInstalled(u)
  BY <1>1, <1>3, <1>5 DEF StopBeforeBegin, AcquireLock, LockTimeout, RevalidateTarget, VerifyStaging,
                          ProbeInstalled, Fails
<1>6. CASE CreateStaging(u) \/ ProbeRunning(u) \/ StopService(u) \/ DownloadBinary(u)
  <2>1. PICK t \in {sess[u], [sess[u] EXCEPT !.owns = TRUE],
                    [sess[u] EXCEPT !.restart = TRUE]},
             step \in {"download", "verify", "stop", "apply", "close"} :
                Goto(u, step, t) \/ Goto(u, step, [t EXCEPT !.result = "error"])
    BY <1>6 DEF CreateStaging, ProbeRunning, StopService, DownloadBinary, Fails
  <2>0. pc[u] \notin Over
    BY <1>6 DEF CreateStaging, ProbeRunning, StopService, DownloadBinary
  <2>2. /\ t \in Session /\ t.applied = sess[u].applied /\ t.result = sess[u].result
        /\ t.synced = sess[u].synced
    BY <1>1 DEF Session
  <2> QED
    BY <1>3, <2>0, <2>1, <2>2
<1>7. CASE ApplyRefused(u)
  <2>1. /\ pc[u] = "apply"
        /\ \E step \in {"restoreDef", "close"} : Goto(u, step, [sess[u] EXCEPT !.result = "error"])
    BY <1>7 DEF ApplyRefused, ReplaceFails
  <2> QED
    BY <1>1, <1>3, <2>1 DEF Early
<1>8. CASE Reconcile(u)
  <2>1. PICK changed \in BOOLEAN :
           LET t == [sess[u] EXCEPT !.receipt = IF changed THEN svc.def ELSE None]
           IN  Goto(u, "startSvc", t) \/ Goto(u, "restoreDef", [t EXCEPT !.result = "error"])
    BY <1>8 DEF Reconcile, Recover
  <2> DEFINE t == [sess[u] EXCEPT !.receipt = IF changed THEN svc.def ELSE None]
  <2>2. /\ t \in Session /\ t.applied = sess[u].applied /\ t.result = sess[u].result
        /\ t.synced = sess[u].synced
    BY <1>1 DEF Session
  <2>3. Goto(u, "startSvc", t) \/ Goto(u, "restoreDef", [t EXCEPT !.result = "error"])
    BY <2>1
  <2> HIDE DEF t
  <2> QED
    BY <1>3, <1>8, <2>2, <2>3 DEF Reconcile, MayReturn
<1>9. CASE StartService(u) \/ WaitHealthy(u)
  BY <1>1, <1>3, <1>9 DEF StartService, WaitHealthy, Recover, MayReturn
<1>10. CASE RestoreDefinition(u) \/ RestartService(u) \/ WaitRestarted(u)
  <2>1. PICK t \in {sess[u], Also(u, "definition"), Also(u, "restart")},
             step \in {"rollback", "rehealth", "close"} :
                Goto(u, step, t) /\ (step = "rollback" => pc[u] = "restoreDef")
    BY <1>10 DEF RestoreDefinition, RestartService, WaitRestarted
  <2>0. pc[u] \notin Over
    BY <1>10 DEF RestoreDefinition, RestartService, WaitRestarted
  <2>2. /\ t \in Session /\ t.applied = sess[u].applied /\ t.result = sess[u].result
        /\ t.synced = sess[u].synced
    BY <1>1, AlsoFields DEF RecoveryStep
  <2> QED
    BY <1>3, <2>0, <2>1, <2>2 DEF MayReturn
<1>11. CASE Close(u) \/ Crash(u)
  <2>1. PICK t \in {sess[u], Forget(sess[u])}, step \in {"done", "dead"} : Goto(u, step, t)
    BY <1>11 DEF Close, Crash
  <2>2. /\ t \in Session /\ t.applied = sess[u].applied /\ t.result = sess[u].result
        /\ t.synced = sess[u].synced
    BY <1>1, Fields
  <2> QED
    BY <1>3, <2>1, <2>2
<1> QED
  BY <1>4, <1>5, <1>6, <1>7, <1>8, <1>9, <1>10, <1>11

(* The steps that change the directory. *)
LEMMA DurableReplace ==
    ASSUME IInv, DurableInv, NEW u \in Updaters,
           \/ BackUpTarget(u) \/ RenameStaging(u) \/ SyncDirectory(u) \/ UndoRename(u)
           \/ Commit(u) \/ RollBack(u)
    PROVE  DurableInv'
<1> USE DEF InSession, Replacing, Recovering, Step, Swapped, Undoing, Lasting, Over
<1>1. /\ sess[u] \in Session /\ backup \in [Updaters -> File \cup {None}]
      /\ pc[u] \in Early => ~sess[u].applied
      /\ OwnSwap(u) /\ u # Old
      /\ SomeApplied => OldGone
  BY ConstantsDistinct DEF IInv, TypeOK, Kept, DurableInv
<1>2. /\ Forget(sess[u]) \in Session /\ Forget(sess[u]).result = sess[u].result
      /\ Forget(sess[u]).applied = sess[u].applied
  BY <1>1, Fields
<1>3. ASSUME NEW t \in Session, t.applied = sess[u].applied, ReplaceFails(u, t),
             pc[u] \in Replacing, \A v \in Updaters : v # u => backup'[v] = backup[v],
             OldGone => target'.img # Old /\ \A f \in survivors' : f.img # Old
      PROVE  DurableInv'
  <2> DEFINE e == [t EXCEPT !.result = "error"]
  <2>1. e \in Session /\ ~e.applied /\ e.result = "error"
    BY <1>1, <1>3, Fields DEF Early
  <2>2. PICK step \in {"restoreDef", "close"} : Goto(u, step, e)
    BY <1>3 DEF ReplaceFails
  <2> HIDE DEF e
  <2>3. pc'[u] = step /\ sess'[u] = e
    BY <2>1, <2>2, GotoEffect DEF IInv
  <2>4. OwnSwap(u)' /\ ~MayReturn(u)'
    BY <2>1, <2>3 DEF OwnSwap, MayReturn
  <2> QED
    BY <1>3, <2>1, <2>2, <2>4, DurableStep
<1>4. CASE BackUpTarget(u)
  <2>1. pc[u] = "apply" /\ UNCHANGED <<target, survivors>>
    BY <1>4 DEF BackUpTarget
  <2>2. CASE ReplaceFails(u, Forget(sess[u])) /\ backup' = backup
    BY <1>2, <1>3, <2>1, <2>2 DEF OldGone
  <2>3. CASE \E ino \in {target.ino, <<"copy", u>>} :
               /\ backup' = [backup EXCEPT ![u] = [ino |-> ino, img |-> target.img]]
               /\ Goto(u, "rename", sess[u])
    <3>1. /\ backup'[u].img = target.img /\ \A v \in Updaters : v # u => backup'[v] = backup[v]
      BY <1>1, <2>3
    <3>2. pc'[u] = "rename" /\ sess'[u] = sess[u]
      BY <1>1, <2>3, GotoEffect DEF IInv
    <3>3. OwnSwap(u)'
      BY <1>1, <2>1, <3>2 DEF OwnSwap
    <3> QED
      BY <1>1, <2>1, <2>3, <3>1, <3>3, DurableStep DEF OldGone
  <2> QED
    BY <1>4, <2>2, <2>3 DEF BackUpTarget
<1>5. CASE RenameStaging(u)
  <2>1. pc[u] = "rename"
    BY <1>5 DEF RenameStaging
  <2>2. CASE /\ target' = staging[u] /\ survivors' = survivors \cup {staging[u]}
             /\ backup' = backup /\ Goto(u, "sync", sess[u])
    <3>1. target'.img = u
      BY <2>1, <2>2 DEF IInv, Staged
    <3>2. pc'[u] = "sync" /\ sess'[u] = sess[u]
      BY <1>1, <2>2, GotoEffect DEF IInv
    <3>3. OwnSwap(u)'
      BY <1>1, <2>1, <3>1, <3>2 DEF OwnSwap
    <3> QED
      BY <1>1, <2>1, <2>2, <3>1, <3>3, DurableStep DEF OldGone
  <2>3. CASE /\ ReplaceFails(u, Forget(sess[u])) /\ UNCHANGED <<target, survivors>>
             /\ backup' \in {backup, [backup EXCEPT ![u] = None]}
    <3>1. \A v \in Updaters : v # u => backup'[v] = backup[v]
      BY <1>1, <2>3
    <3> QED
      BY <1>2, <1>3, <2>1, <2>3, <3>1 DEF OldGone
  <2> QED
    BY <1>5, <2>2, <2>3 DEF RenameStaging
<1>6. CASE SyncDirectory(u)
  <2>1. /\ pc[u] = "sync" /\ UNCHANGED <<target, backup>> /\ target.img = u
    BY <1>1, <1>6 DEF SyncDirectory, OwnSwap
  <2>2. CASE Goto(u, "undo", sess[u]) /\ survivors' = survivors
    BY <1>1, <2>1, <2>2, DurableQuiet
  <2>3. ASSUME NEW s \in Session, NEW step \in {"reconcile", "commit"}, Goto(u, step, s),
               s.result = sess[u].result,
               s.synced => survivors' = {target}, survivors' \in {survivors, {target}}
        PROVE  DurableInv'
    <3>1. pc'[u] = step /\ sess'[u] = s
      BY <2>3, GotoEffect DEF IInv
    <3>2. OwnSwap(u)'
      BY <1>1, <2>1, <2>3, <3>1 DEF OwnSwap
    <3>3. OldGone => backup[u].img # Old
      BY <2>1 DEF OldGone, MayReturn
    <3>4. \A f \in survivors' : f = target \/ f \in survivors
      BY <2>3
    <3>5. sess[u].result # "applied"
      BY <1>1, <2>1 DEF OwnSwap
    <3> QED
      BY <2>1, <2>3, <3>2, <3>3, <3>4, <3>5, DurableStep DEF OldGone
  <2>4. CASE Goto(u, AfterReplace, Replaced(sess[u], TRUE)) /\ survivors' = {target}
    <3> DEFINE s == Replaced(sess[u], TRUE)
    <3>1. s \in Session /\ s.result = sess[u].result
      BY <1>1, ReplacedFields
    <3>2. Goto(u, "reconcile", s) \/ Goto(u, "commit", s)
      BY <2>4 DEF AfterReplace
    <3> HIDE DEF s
    <3>3. CASE Goto(u, "reconcile", s)
      BY <2>3, <2>4, <3>1, <3>3
    <3>4. CASE Goto(u, "commit", s)
      BY <2>3, <2>4, <3>1, <3>4
    <3> QED
      BY <3>2, <3>3, <3>4
  <2>5. CASE Goto(u, AfterReplace, Replaced(sess[u], FALSE)) /\ survivors' = survivors
    <3> DEFINE s == Replaced(sess[u], FALSE)
    <3>1. s \in Session /\ s.result = sess[u].result /\ ~s.synced
      BY <1>1, ReplacedFields
    <3>2. Goto(u, "reconcile", s) \/ Goto(u, "commit", s)
      BY <2>5 DEF AfterReplace
    <3> HIDE DEF s
    <3>3. CASE Goto(u, "reconcile", s)
      BY <2>3, <2>5, <3>1, <3>3
    <3>4. CASE Goto(u, "commit", s)
      BY <2>3, <2>5, <3>1, <3>4
    <3> QED
      BY <3>2, <3>3, <3>4
  <2> QED
    BY <1>6, <2>2, <2>4, <2>5 DEF SyncDirectory
<1>7. CASE UndoRename(u)
  <2>1. pc[u] = "undo" /\ (OldGone => backup[u].img # Old)
    BY <1>7 DEF UndoRename, OldGone, MayReturn
  <2>2. CASE /\ target' = backup[u] /\ survivors' = survivors \cup {backup[u]}
             /\ backup' = [backup EXCEPT ![u] = None] /\ ReplaceFails(u, Forget(sess[u]))
    <3>1. \A v \in Updaters : v # u => backup'[v] = backup[v]
      BY <1>1, <2>2
    <3> QED
      BY <1>2, <1>3, <2>1, <2>2, <3>1 DEF OldGone
  <2>3. CASE /\ UNCHANGED <<target, survivors, backup>>
             /\ ReplaceFails(u, [Forget(sess[u]) EXCEPT !.failed = @ \cup {"inline"}])
    <3> DEFINE t == [Forget(sess[u]) EXCEPT !.failed = @ \cup {"inline"}]
    <3>1. t \in Session /\ t.applied = sess[u].applied
      BY <1>2 DEF Session, RecoveryStep
    <3>2. ReplaceFails(u, t)
      BY <2>3
    <3> HIDE DEF t
    <3> QED
      BY <1>3, <2>1, <2>3, <3>1, <3>2 DEF OldGone
  <2> QED
    BY <1>7, <2>2, <2>3 DEF UndoRename
<1>8. CASE Commit(u)
  <2> DEFINE s == [sess[u] EXCEPT !.result = "applied"]
  <2>1. s \in Session
    BY <1>1 DEF Session
  <2>s. s.synced = sess[u].synced
    BY <1>1 DEF Session
  <2>2. /\ pc[u] = "commit" /\ Goto(u, "close", s) /\ UNCHANGED <<target, survivors>>
        /\ backup' \in {backup, [backup EXCEPT ![u] = None]}
    BY <1>8 DEF Commit
  <2> HIDE DEF s
  <2>3. pc'[u] = "close" /\ \A v \in Updaters : v # u => backup'[v] = backup[v]
    BY <1>1, <2>1, <2>2, GotoEffect DEF IInv
  <2>4. OwnSwap(u)' /\ ~MayReturn(u)'
    BY <2>3 DEF OwnSwap, MayReturn
  <2> QED
    BY <2>1, <2>2, <2>3, <2>4, <2>s, DurableStep DEF OldGone
<1>9. CASE RollBack(u)
  <2>1. CASE UNCHANGED <<target, survivors, backup>>
    <3>1. PICK t \in {sess[u], Also(u, "binary")} : Goto(u, "restart", t)
      BY <1>9 DEF RollBack
    <3>2. t \in Session /\ t.result = sess[u].result /\ t.synced = sess[u].synced
      BY <1>1, AlsoFields DEF RecoveryStep
    <3>3. pc[u] = "rollback"
      BY <1>9 DEF RollBack
    <3> QED
      BY <2>1, <3>1, <3>2, <3>3, DurableQuiet
  <2>2. CASE /\ sess[u].applied /\ target' = backup[u] /\ Goto(u, "restart", sess[u])
             /\ survivors' \in {{backup[u]}, survivors \cup {backup[u]}}
             /\ backup' = [backup EXCEPT ![u] = None]
    <3>1. pc[u] = "rollback" /\ (OldGone => backup[u].img # Old)
      BY <1>9, <2>2 DEF RollBack, OldGone, MayReturn
    <3>2. /\ pc'[u] = "restart" /\ sess'[u] = sess[u]
          /\ \A v \in Updaters : v # u => backup'[v] = backup[v]
      BY <1>1, <2>2, GotoEffect DEF IInv
    <3>3. OwnSwap(u)' /\ ~MayReturn(u)'
      BY <1>1, <3>1, <3>2 DEF OwnSwap, MayReturn
    <3> QED
      BY <1>1, <2>2, <3>1, <3>2, <3>3, DurableStep DEF OldGone
  <2> QED
    BY <1>9, <2>1, <2>2 DEF RollBack
<1> QED
  BY <1>4, <1>5, <1>6, <1>7, <1>8, <1>9

(* After a power failure no session is left. *)
LEMMA DurablePowerLoss == ASSUME IInv, DurableInv, PowerLoss PROVE DurableInv'
<1>1. PICK f \in survivors :
         target' \in IF Durable(f) THEN {f} ELSE {f, [f EXCEPT !.img = Torn]}
  BY DEF PowerLoss
<1>2. f \in File /\ f.img \notin Refused
  BY <1>1 DEF IInv, TypeOK, Clean
<1>3. target'.img \in {f.img, Torn}
  BY <1>1, <1>2 DEF File
<1>4. /\ survivors' = {target'} /\ UNCHANGED sess
      /\ \A u \in Updaters : pc'[u] \in {"start", "done", "dead"} /\ (pc[u] # "start" => pc'[u] # "start")
  BY DEF PowerLoss
<1>5. \A u \in Updaters : OwnSwap(u)' /\ ~(MayReturn(u)' \/ pc'[u] = "rename")
  BY <1>4 DEF DurableInv, OwnSwap, MayReturn, Swapped, Undoing, Lasting, Over
<1>6. OldGone => OldGone'
  BY <1>1, <1>3, <1>4, <1>5, ConstantsDistinct DEF OldGone
<1> QED
  BY <1>4, <1>5, <1>6 DEF DurableInv, SomeApplied

(* The invariant of what may come back, with or without power failures. *)
THEOREM DurableInvariance == Spec => []DurableInv
<1>1. Init => DurableInv
  <2> SUFFICES ASSUME Init PROVE DurableInv
    OBVIOUS
  <2>1. \A u \in Updaters : pc[u] = "start" /\ sess[u].result = "open"
    BY DEF Init, Fresh
  <2> QED
    BY <2>1 DEF DurableInv, SomeApplied, OwnSwap, Swapped, Lasting
<1>2. IInv /\ DurableInv /\ [Next]_vars => DurableInv'
  <2>1. ASSUME IInv, DurableInv, NEW u \in Updaters, Update(u) \/ Crash(u) PROVE DurableInv'
    BY <2>1, DurableSteps, DurableReplace DEF Update
  <2>2. ASSUME DurableInv, UNCHANGED vars PROVE DurableInv'
    BY <2>2 DEF vars, DurableInv, SomeApplied, OldGone, OwnSwap, MayReturn
  <2> QED
    BY <2>1, <2>2, DurablePowerLoss DEF Next
<1> QED
  BY <1>1, <1>2, Invariance, PTL DEF Spec

(* No kill and no power failure takes a synced success back to the first    *)
(* image.                                                                   *)
THEOREM OldNeverReturnsHolds == Spec => []OldNeverReturns
<1>1. DurableInv => OldNeverReturns
  BY DEF DurableInv, SomeApplied, OldGone, OldNeverReturns
<1> QED
  BY <1>1, DurableInvariance, PTL
=============================================================================
