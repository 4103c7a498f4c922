------------------------ MODULE WindowsUpdateProofs ------------------------
(***************************************************************************)
(* The replacement on Windows, for any processes, releases, requests and   *)
(* kills.                                                                  *)
(*                                                                         *)
(* The argument follows the lock.  One process at a time is in a session   *)
(* (Locked), and from revalidating until it replaces the target the image  *)
(* it resolved is in place; from then on that image is under its second    *)
(* name (OwnFiles).  A receipt is only complete once the update it belongs *)
(* to has reported success (Receipts), so cleaning up never takes an image *)
(* that is still owed to an update (Kept).  From the same invariant, every *)
(* step is one of the exchange or none: the resolution, the first asset,   *)
(* the replacement, its undo, the success and the end of a session.        *)
(***************************************************************************)
EXTENDS WindowsUpdate, TLAPS

Early  == {"idle", "resolve"}
Before == Early \cup {"fetch", "select", "classify", "confirm", "begin", "cleanup", "forget",
                      "revalidate", "manifest", "binary", "verify", "backup", "replace"}
Work    == {"manifest", "binary", "verify", "backup", "replace"}
Swapped == {"sync", "undo", "commit", "receipt", "write"}
Held    == {"cleanup", "forget", "revalidate", "close"} \cup Work \cup Swapped
Left    == {"close", "end", "killed"}
Done    == {"applied", "pending"}

(* A session holds the lock. *)
Locked == \A u \in Updaters : up[u].pc \in Held => lock = u

(* Between the cleanup and the end of the commit there is no receipt, and   *)
(* one that is being written is the session's own.                          *)
OwnReceipt(u) ==
    /\ up[u].pc \in {"revalidate"} \cup Work \cup (Swapped \ {"write"}) => receipt = None
    /\ up[u].pc = "write" => receipt # None /\ receipt.names = u

(* A receipt that can be read is that of an update that reported success.   *)
Receipts ==
    /\ \A u \in Updaters : OwnReceipt(u)
    /\ receipt # None /\ ~receipt.torn => up[receipt.names].said \in Done

(* Success is reported last. *)
SaidLast == \A u \in Updaters : up[u].said \in Done => up[u].pc \in Left

(* An updater that has not replaced anything is the author of nothing. *)
Fresh == \A u \in Updaters : up[u].pc \in Before =>
            /\ target.by # u
            /\ \A w \in Updaters : up[w].saw # None => up[w].saw.by # u

Kept(img) == \A w \in Updaters : img.by = w /\ up[w].said \notin Done => backup[w] = up[w].saw

(* What a session has seen is in place until it replaces it, and under its  *)
(* second name from then on.                                                *)
OwnFiles(u) ==
    /\ up[u].pc \in Work => target = up[u].saw
    /\ up[u].pc = "replace" => backup[u] = up[u].saw
    /\ up[u].pc \in {"backup", "replace"} => up[u].file = "authentic"
    /\ up[u].pc \in Swapped =>
          /\ up[u].saw \in Image /\ up[u].saw.by # u /\ target.by = u
          /\ backup[u] = up[u].saw /\ Kept(up[u].saw)

Holds == \A u \in Updaters : OwnFiles(u)

Whole == target.whole /\ \A w \in Updaters : up[w].saw # None => up[w].saw.whole

Chosen ==
    \A u \in Updaters :
        /\ up[u].pc \in Early \cup {"fetch"} => up[u].rel = None
        /\ up[u].pc \in Early => up[u].saw = None
        /\ up[u].pc \in Before \ (Early \cup {"fetch"}) => up[u].rel \in Releases

IInv == /\ TypeOK /\ Locked /\ Receipts /\ SaidLast /\ Fresh /\ Kept(target)
        /\ Holds /\ Whole /\ Chosen

-----------------------------------------------------------------------------
(* Nothing has been resolved, and there is no receipt. *)
LEMMA AtInit == Init => IInv
<1> SUFFICES ASSUME Init PROVE IInv
  OBVIOUS
<1>1. TypeOK
  BY ReleasesAssumption, KillsAssumption DEF Init, TypeOK, Process, Image, Digest
<1>2. \A u \in Updaters : up[u].pc = "idle" /\ up[u].saw = None /\ up[u].rel = None
                            /\ up[u].said = "nothing"
  BY DEF Init
<1>3. target.by = None /\ target.whole /\ receipt = None
  BY DEF Init
<1>4. \A u \in Updaters : u # None
  BY NoneAssumption
<1> QED
  BY <1>1, <1>2, <1>3, <1>4
  DEF IInv, Locked, Receipts, OwnReceipt, SaidLast, Fresh, Kept, Holds, OwnFiles, Whole, Chosen,
      Early, Before, Work, Swapped, Held, Left, Done, At

(* A step of u, which leaves the other processes and the requests alone.    *)
Moves(u) ==
    /\ up' \in [Updaters -> Process]
    /\ \A w \in Updaters : w # u => up'[w] = up[w]
    /\ UNCHANGED <<request, status>>

(* ... that only moves it on and says how it ended.                         *)
Silent(u) ==
    /\ Moves(u)
    /\ UNCHANGED <<kills, target, backup, receipt, lock>>
    /\ up'[u].saw = up[u].saw /\ up'[u].rel = up[u].rel
    /\ up[u].pc \notin Left /\ up'[u].said \notin Done

(* ... to a place where it may be.                                          *)
Fits(u, pc) ==
    /\ pc \in Held => up[u].pc \in Held
    /\ pc \in {"revalidate"} \cup Work \cup Swapped => receipt = None /\ pc # "write"
    /\ pc \in Before =>
          up[u].pc \in Before /\ (pc \in Early \cup {"fetch"} <=> up[u].pc \in Early \cup {"fetch"})
    /\ pc \in Early => up[u].pc \in Early
    /\ pc \in Work => target = up[u].saw /\ pc # "replace"
    /\ pc = "backup" => up'[u].file = "authentic"
    /\ pc \in Swapped => up[u].pc \in Swapped

(* Such a step keeps the invariant. *)
LEMMA SilentKeeps ==
    ASSUME IInv, NEW u \in Updaters, Silent(u), Fits(u, up'[u].pc)
    PROVE  IInv'
<1>1. TypeOK'
  BY DEF IInv, TypeOK, Silent, Moves
<1>2. Locked' /\ SaidLast'
  BY DEF IInv, Locked, SaidLast, Silent, Moves, Fits
<1>3. Receipts'
  <2>1. up[u].said \notin Done
    BY DEF IInv, SaidLast, Silent
  <2>2. receipt # None => receipt.names \in Updaters
    BY DEF IInv, TypeOK, Receipt
  <2>3. receipt # None /\ ~receipt.torn => receipt.names # u
    BY <2>1 DEF IInv, Receipts, OwnReceipt
  <2> QED
    BY <2>1, <2>2, <2>3
    DEF IInv, Receipts, OwnReceipt, Silent, Moves, Fits, At, Work, Swapped
<1>4. Fresh' /\ Kept(target)'
  BY DEF IInv, Fresh, Kept, Silent, Moves, Fits, SaidLast
<1>5. Holds'
  <2>1. ASSUME NEW w \in Updaters, Kept(up[w].saw) PROVE Kept(up[w].saw)'
    BY <2>1 DEF IInv, Kept, Silent, Moves, SaidLast
  <2> QED
    BY <2>1 DEF IInv, Holds, OwnFiles, Silent, Moves, Fits, Work
<1>6. Whole' /\ Chosen'
  BY DEF IInv, Whole, Chosen, Silent, Moves, Fits, Before
<1> QED
  BY <1>1, <1>2, <1>3, <1>4, <1>5, <1>6 DEF IInv

-----------------------------------------------------------------------------
(* The process of u and the file it is to install, in the terms of Silent.  *)
LEMMA OneProcess ==
    ASSUME IInv, NEW u \in Updaters
    PROVE  /\ up[u] \in Process /\ up \in [Updaters -> Process]
           /\ target \in Image /\ target # None
           /\ target.version \in Releases \cup Starts /\ target.by \in Updaters \cup {None}
BY NoneAssumption DEF IInv, TypeOK, Image

(* A process ends before its session. *)
LEMMA Ending ==
    ASSUME IInv, NEW u \in Updaters, up[u].pc \notin Left, NEW how,
           how \in {"failed", "current", "available", "declined"}, Ends(u, how),
           UNCHANGED <<settings, files, lock>>
    PROVE  IInv'
<1>1. Silent(u)
  BY OneProcess DEF Ends, Process, Silent, Moves, settings, files, Done
<1>2. up'[u].pc = "end"
  BY OneProcess DEF Ends, Process
<1>3. Fits(u, "end")
  BY DEF Fits, Held, Work, Swapped, Before, Early
<1> QED
  BY <1>1, <1>2, <1>3, SilentKeeps

(* A session fails and has changed no file. *)
LEMMA Failing ==
    ASSUME IInv, NEW u \in Updaters, up[u].pc \notin Left, up[u].pc \in Held, Fails(u),
           UNCHANGED <<settings, files, lock>>
    PROVE  IInv'
<1>1. Silent(u)
  BY OneProcess DEF Fails, Process, Silent, Moves, settings, files, Done
<1>2. up'[u].pc = "close"
  BY OneProcess DEF Fails, Process
<1>3. Fits(u, "close")
  BY DEF Fits, Held, Work, Swapped, Before, Early
<1> QED
  BY <1>1, <1>2, <1>3, SilentKeeps

(* A process goes on to where it fits. *)
LEMMA Going ==
    ASSUME IInv, NEW u \in Updaters, up[u].pc \notin Left, NEW pc, Fits(u, pc), Goto(u, pc),
           pc \in {"classify", "confirm", "begin", "revalidate", "manifest", "backup", "commit",
                   "undo", "receipt"},
           UNCHANGED <<settings, files, lock>>
    PROVE  IInv'
<1>1. Silent(u)
  <2>1. up[u].said \notin Done
    BY DEF IInv, SaidLast
  <2> QED
    BY <2>1, OneProcess DEF Goto, Process, Silent, Moves, settings, files
<1>2. up'[u].pc = pc
  BY OneProcess DEF Goto, Process
<1> QED
  BY <1>1, <1>2, SilentKeeps

(* Choosing the release, and the steps under the lock that change nothing.  *)
LEMMA SelectKeeps ==
    ASSUME IInv, NEW u \in Updaters,
           Unresolvable(u) \/ NoRelease(u) \/ Select(u) \/ Classify(u) \/ Confirm(u) \/ NoLock(u)
    PROVE  IInv'
<1>1. /\ up[u].pc \notin Left
      /\ up[u].pc \in Before
      /\ up[u].pc \in {"select", "classify", "confirm"} => up[u].pc \notin Early \cup {"fetch"}
  BY DEF Unresolvable, NoRelease, Select, Classify, Confirm, NoLock, At, Left, Before, Early
<1>2. CASE \E how \in {"failed", "current", "available", "declined"} :
              Ends(u, how) /\ UNCHANGED <<settings, files, lock>>
  BY <1>1, <1>2, Ending
<1>3. CASE /\ up[u].pc \in {"select", "classify", "confirm"}
           /\ \E pc \in {"classify", "confirm", "begin"} :
                 Goto(u, pc) /\ UNCHANGED <<settings, files, lock>>
  <2>1. \A pc \in {"classify", "confirm", "begin"} : Fits(u, pc)
    BY <1>1, <1>3 DEF Fits, Held, Work, Swapped, Before, Early
  <2> QED
    BY <1>1, <1>3, <2>1, Going
<1> QED
  BY <1>2, <1>3 DEF Unresolvable, NoRelease, Select, Classify, Confirm, NoLock, At

(* The steps of a session that change no file. *)
LEMMA SessionKeeps ==
    ASSUME IInv, NEW u \in Updaters,
           NothingPending(u) \/ CleanupFails(u) \/ Revalidate(u) \/ Verify(u) \/ SyncDirectory(u)
    PROVE  IInv'
<1>1. up[u].pc \notin Left /\ up[u].pc \in Held
  BY DEF NothingPending, CleanupFails, Revalidate, Verify, SyncDirectory, At, Left, Held, Work,
         Swapped
<1>2. CASE Fails(u) /\ UNCHANGED <<settings, files, lock>>
  BY <1>1, <1>2, Failing
<1>3. ASSUME NEW pc \in {"revalidate", "manifest", "backup", "commit", "undo"},
             Fits(u, pc), Goto(u, pc), UNCHANGED <<settings, files, lock>>
      PROVE  IInv'
  BY <1>1, <1>3, Going
<1>4. NothingPending(u) => Fits(u, "revalidate")
  BY DEF NothingPending, At, Fits, Held, Work, Swapped, Before, Early
<1>5. Revalidate(u) /\ target = up[u].saw => Fits(u, "manifest")
  BY DEF IInv, Receipts, OwnReceipt, Revalidate, At, Fits, Held, Work, Swapped, Before, Early
<1>6. Verify(u) /\ Listed(u) /\ Goto(u, "backup") => Fits(u, "backup")
  <2>1. Goto(u, "backup") => up'[u].file = up[u].file
    BY OneProcess DEF Goto, Process
  <2> QED
    BY <2>1 DEF IInv, Receipts, OwnReceipt, Holds, OwnFiles, Verify, Listed, At, Fits, Held,
                Work, Swapped, Before, Early
<1>7. SyncDirectory(u) => Fits(u, "commit") /\ Fits(u, "undo")
  BY DEF IInv, Receipts, OwnReceipt, SyncDirectory, At, Fits, Held, Work, Swapped, Before, Early
<1> QED
  BY <1>2, <1>3, <1>4, <1>5, <1>6, <1>7
  DEF NothingPending, CleanupFails, Revalidate, Verify, SyncDirectory

(* A process is started. *)
LEMMA LaunchKeeps ==
    ASSUME IInv, NEW u \in Updaters, Launch(u)
    PROVE  IInv'
<1>1. /\ up[u].pc = "idle" /\ up'[u].pc \in {"end", "resolve"}
      /\ up'[u].said = up[u].said
      /\ Moves(u) /\ UNCHANGED <<kills, target, backup, receipt, lock>>
      /\ up'[u].saw = up[u].saw /\ up'[u].rel = up[u].rel
  BY OneProcess DEF Launch, At, Process, Moves, settings, files
<1>2. up[u].said \notin Done
  BY <1>1 DEF IInv, SaidLast, Left
<1>3. Silent(u) /\ Fits(u, up'[u].pc)
  BY <1>1, <1>2 DEF Silent, Fits, Left, Held, Work, Swapped, Before, Early
<1> QED
  BY <1>3, SilentKeeps

(* The downloads change what the process knows. *)
LEMMA DownloadKeeps ==
    ASSUME IInv, NEW u \in Updaters, DownloadManifest(u) \/ DownloadBinary(u)
    PROVE  IInv'
<1>1. up[u].pc \in {"manifest", "binary"} /\ UNCHANGED <<settings, files, lock>>
  BY DEF DownloadManifest, DownloadBinary, At
<1>2. CASE Fails(u)
  BY <1>1, <1>2, Failing DEF Left, Held, Work
<1>3. CASE ~Fails(u)
  <2>1. /\ up'[u].pc \in {"binary", "verify"}
        /\ up'[u].said = up[u].said
        /\ Moves(u) /\ UNCHANGED <<kills, target, backup, receipt, lock>>
        /\ up'[u].saw = up[u].saw /\ up'[u].rel = up[u].rel
    BY <1>3, OneProcess DEF DownloadManifest, DownloadBinary, At, Process, Digest, Moves,
                            settings, files
  <2>2. up[u].said \notin Done
    BY <1>1 DEF IInv, SaidLast, Left
  <2>3. target = up[u].saw /\ receipt = None
    BY <1>1 DEF IInv, Holds, OwnFiles, Receipts, OwnReceipt, Work
  <2>4. Silent(u) /\ Fits(u, up'[u].pc)
    BY <1>1, <2>1, <2>2, <2>3 DEF Silent, Fits, Left, Held, Work, Swapped, Before, Early
  <2> QED
    BY <2>4, SilentKeeps
<1> QED
  BY <1>2, <1>3

(* The target is resolved: the process has replaced nothing yet. *)
LEMMA ResolveKeeps ==
    ASSUME IInv, NEW u \in Updaters, ResolveTarget(u)
    PROVE  IInv'
<1>1. /\ up[u].pc = "resolve" /\ up'[u].pc = "fetch"
      /\ up'[u].said = up[u].said /\ up'[u].rel = up[u].rel /\ up'[u].saw = target
      /\ Moves(u) /\ UNCHANGED <<kills, target, backup, receipt, lock>>
  BY OneProcess DEF ResolveTarget, At, Process, Moves, settings, files
<1>2. up[u].said \notin Done /\ target.by # u /\ target \in Image
  BY <1>1 DEF IInv, SaidLast, Fresh, TypeOK, Left, Before, Early
<1>3. TypeOK'
  BY <1>1 DEF IInv, TypeOK, Moves
<1>4. Locked' /\ SaidLast'
  BY <1>1 DEF IInv, Locked, SaidLast, Moves, Held, Work, Swapped, Left
<1>5. Receipts'
  <2>1. receipt # None => receipt.names \in Updaters
    BY DEF IInv, TypeOK, Receipt
  <2> QED
    BY <1>1, <2>1 DEF IInv, Receipts, OwnReceipt, Moves, At, Work, Swapped
<1>6. Fresh' /\ Kept(target)'
  BY <1>1, <1>2 DEF IInv, Fresh, Kept, Moves, Before, Early
<1>7. Holds'
  <2>1. ASSUME NEW w \in Updaters, w # u, Kept(up[w].saw), up[w].pc \in Swapped
        PROVE  Kept(up[w].saw)'
    <3>1. up[w].saw # None
      BY <2>1, NoneAssumption DEF IInv, Holds, OwnFiles
    <3>2. up[w].saw.by # u
      BY <3>1, <1>1 DEF IInv, Fresh, Before, Early
    <3> QED
      BY <1>1, <2>1, <3>2 DEF Kept, Moves
  <2> QED
    BY <1>1, <2>1 DEF IInv, Holds, OwnFiles, Moves, Work, Swapped
<1>8. Whole' /\ Chosen'
  BY <1>1 DEF IInv, Whole, Chosen, Moves, Before, Early
<1> QED
  BY <1>3, <1>4, <1>5, <1>6, <1>7, <1>8 DEF IInv

(* A release is chosen. *)
LEMMA FetchKeeps ==
    ASSUME IInv, NEW u \in Updaters, Fetch(u)
    PROVE  IInv'
<1>1. PICK v \in IF request[u].tag = None THEN Latest ELSE ByTag(request[u].tag) :
          up' = [up EXCEPT ![u].pc = "select", ![u].rel = v]
  BY DEF Fetch
<1>2. v \in Visible
  BY <1>1 DEF Latest, ByTag
<1>3. /\ up[u].pc = "fetch" /\ up'[u].pc = "select"
      /\ up'[u].said = up[u].said /\ up'[u].rel = v /\ up'[u].saw = up[u].saw
      /\ Moves(u) /\ UNCHANGED <<kills, target, backup, receipt, lock>>
  BY <1>1, <1>2, OneProcess DEF Fetch, At, Process, Moves, settings, files, Visible
<1>4. up[u].said \notin Done
  BY <1>3 DEF IInv, SaidLast, Left
<1>5. TypeOK'
  BY <1>3 DEF IInv, TypeOK, Moves
<1>6. Locked' /\ SaidLast'
  BY <1>3, <1>4 DEF IInv, Locked, SaidLast, Moves, Held, Work, Swapped
<1>7. Receipts'
  <2>1. receipt # None => receipt.names \in Updaters
    BY DEF IInv, TypeOK, Receipt
  <2> QED
    BY <1>3, <2>1 DEF IInv, Receipts, OwnReceipt, Moves, At, Work, Swapped
<1>8. Fresh' /\ Kept(target)'
  BY <1>3 DEF IInv, Fresh, Kept, Moves, Before, Early
<1>9. Holds'
  <2>1. ASSUME NEW w \in Updaters, Kept(up[w].saw) PROVE Kept(up[w].saw)'
    BY <1>3, <2>1 DEF Kept, Moves
  <2> QED
    BY <1>3, <2>1 DEF IInv, Holds, OwnFiles, Moves, Work, Swapped
<1>10. Whole' /\ Chosen'
  BY <1>2, <1>3 DEF IInv, Whole, Chosen, Moves, Before, Early, Visible
<1> QED
  BY <1>5, <1>6, <1>7, <1>8, <1>9, <1>10 DEF IInv

(* The lock is taken when nobody is in a session. *)
LEMMA AcquireKeeps ==
    ASSUME IInv, NEW u \in Updaters, AcquireLock(u)
    PROVE  IInv'
<1>1. /\ up[u].pc = "begin" /\ up'[u].pc = "cleanup" /\ lock = None /\ lock' = u
      /\ up'[u].said = up[u].said /\ up'[u].rel = up[u].rel /\ up'[u].saw = up[u].saw
      /\ Moves(u) /\ UNCHANGED <<kills, target, backup, receipt>>
  BY OneProcess DEF AcquireLock, At, Goto, Process, Moves, settings, files
<1>2. \A w \in Updaters : up[w].pc \notin Held
  BY <1>1, NoneAssumption DEF IInv, Locked
<1>3. up[u].said \notin Done
  BY <1>1 DEF IInv, SaidLast, Left
<1>4. TypeOK'
  BY <1>1 DEF IInv, TypeOK, Moves
<1>5. Locked' /\ SaidLast'
  BY <1>1, <1>2, <1>3 DEF IInv, Locked, SaidLast, Moves
<1>6. Receipts'
  <2>1. receipt # None => receipt.names \in Updaters
    BY DEF IInv, TypeOK, Receipt
  <2> QED
    BY <1>1, <2>1 DEF IInv, Receipts, OwnReceipt, Moves, At, Work, Swapped
<1>7. Fresh' /\ Kept(target)'
  BY <1>1 DEF IInv, Fresh, Kept, Moves, Before, Early
<1>8. Holds'
  BY <1>1, <1>2 DEF IInv, Holds, OwnFiles, Moves, Held, Work, Swapped
<1>9. Whole' /\ Chosen'
  BY <1>1 DEF IInv, Whole, Chosen, Moves, Before, Early
<1> QED
  BY <1>4, <1>5, <1>6, <1>7, <1>8, <1>9 DEF IInv

-----------------------------------------------------------------------------
(* The steps of the session that holds the lock. *)
LEMMA Alone ==
    ASSUME IInv, NEW u \in Updaters, up[u].pc \in Held
    PROVE  /\ lock = u
           /\ \A w \in Updaters : w # u => up[w].pc \notin Held
           /\ up[u].pc # "close" => up[u].said \notin Done
BY DEF IInv, Locked, SaidLast, Left, Held, Work, Swapped

(* A step of u from one place under the lock to another. *)
InSession(u) ==
    /\ up[u].pc \in Held \ {"close"} /\ up'[u].pc \in Held
    /\ Moves(u) /\ UNCHANGED <<kills, lock>>
    /\ up'[u].saw = up[u].saw /\ up'[u].rel = up[u].rel
    /\ up'[u].said \in Done => up'[u].pc = "close"
    /\ up'[u].pc \in Before => up[u].pc \in Before /\ target' = target

(* What is in place afterwards. *)
TargetStep(u) ==
    /\ target' \in Image /\ target'.whole
    /\ target' = target \/ target'.by = u \/ (target' = up[u].saw /\ up[u].saw # None)

(* A step of the session, in terms of what it leaves. *)
LEMMA InSessionKeeps ==
    ASSUME IInv, NEW u \in Updaters, InSession(u), TargetStep(u), Kept(target)',
           backup' \in [Updaters -> Image \cup {None}],
           receipt' \in Receipt \cup {None},
           receipt' # None /\ ~receipt'.torn =>
               receipt' = receipt \/ (receipt'.names = u /\ up'[u].said \in Done),
           OwnReceipt(u)', OwnFiles(u)'
    PROVE  IInv'
<1>1. /\ lock = u /\ up[u].said \notin Done
      /\ \A w \in Updaters : w # u => up[w].pc \notin Held /\ up'[w] = up[w]
  BY Alone DEF InSession, Moves
<1>2. TypeOK'
  BY DEF IInv, TypeOK, InSession, Moves, TargetStep
<1>3. Locked' /\ SaidLast'
  BY <1>1 DEF IInv, Locked, SaidLast, InSession, Left
<1>4. Receipts'
  <2>1. \A w \in Updaters : OwnReceipt(w)'
    BY <1>1 DEF OwnReceipt, At, Held, Work, Swapped
  <2>2. receipt # None => receipt.names \in Updaters
    BY DEF IInv, TypeOK, Receipt
  <2>3. receipt' # None /\ ~receipt'.torn => up'[receipt'.names].said \in Done
    BY <1>1, <2>2 DEF IInv, Receipts, OwnReceipt
  <2> QED
    BY <2>1, <2>3 DEF Receipts, OwnReceipt
<1>5. Fresh'
  BY <1>1 DEF IInv, Fresh, InSession, TargetStep
<1>6. Holds'
  <2>1. \A w \in Updaters : OwnFiles(w)'
    BY <1>1 DEF OwnFiles, Held, Work, Swapped
  <2> QED
    BY <2>1 DEF Holds, OwnFiles
<1>7. Whole' /\ Chosen'
  BY <1>1 DEF IInv, Whole, Chosen, InSession, TargetStep, Before, Early, Held, Work, Swapped
<1> QED
  BY <1>2, <1>3, <1>4, <1>5, <1>6, <1>7 DEF IInv

(* What is in place and is not replaced. *)
LEMMA TargetKept ==
    ASSUME IInv, NEW u \in Updaters, target' = target
    PROVE  TargetStep(u)
BY DEF IInv, TypeOK, Whole, TargetStep

(* An earlier backup and its receipt are removed: its update had succeeded. *)
LEMMA ForgetKeeps ==
    ASSUME IInv, NEW u \in Updaters, RemovePending(u) \/ RemoveReceipt(u)
    PROVE  IInv'
<1>1. /\ up[u].pc \in {"cleanup", "forget"} /\ up'[u].pc \in {"forget", "revalidate", "close"}
      /\ up[u].pc = "cleanup" => up'[u].pc = "forget"
      /\ up'[u].said \in {up[u].said, "failed"}
      /\ up'[u].saw = up[u].saw /\ up'[u].rel = up[u].rel
      /\ Moves(u) /\ UNCHANGED <<kills, target, lock>>
  BY OneProcess DEF RemovePending, RemoveReceipt, At, Goto, Fails, Process, Moves, settings, files
<1>2. up[u].said \notin Done
  BY <1>1, Alone DEF Held
<1>3. InSession(u) /\ OwnFiles(u)'
  BY <1>1, <1>2 DEF InSession, OwnFiles, Held, Done, Before, Work, Swapped
<1>4. /\ receipt' \in {receipt, None}
      /\ up'[u].pc = "revalidate" => receipt' = None
  BY OneProcess DEF RemovePending, RemoveReceipt, Goto, Fails, Process, files
<1>5. OwnReceipt(u)' /\ receipt' \in Receipt \cup {None}
  BY <1>1, <1>4 DEF IInv, TypeOK, OwnReceipt, Work, Swapped
<1>6. /\ backup' \in [Updaters -> Image \cup {None}]
      /\ \A w \in Updaters : backup'[w] = backup[w] \/ up[w].said \in Done
  BY DEF IInv, TypeOK, Receipts, OwnReceipt, RemovePending, RemoveReceipt, Pending, Readable
<1>7. Kept(target)'
  BY <1>1, <1>2, <1>6 DEF IInv, Kept, Moves
<1> QED
  BY <1>1, <1>3, <1>4, <1>5, <1>6, <1>7, TargetKept, InSessionKeeps DEF Moves

(* The target is kept under the second name. *)
LEMMA BackupKeeps ==
    ASSUME IInv, NEW u \in Updaters, Backup(u)
    PROVE  IInv'
<1>1. /\ up[u].pc = "backup"
      /\ \/ up'[u].pc = "replace" /\ up'[u].said = up[u].said /\ backup' = [backup EXCEPT ![u] = target]
         \/ up'[u].pc = "close" /\ up'[u].said = "failed" /\ backup' = backup
      /\ up'[u].saw = up[u].saw /\ up'[u].rel = up[u].rel /\ up'[u].file = up[u].file
      /\ Moves(u) /\ UNCHANGED <<kills, target, receipt, lock>>
  BY OneProcess DEF Backup, At, Goto, Fails, Process, Moves, settings
<1>2. /\ up[u].said \notin Done /\ target.by # u
      /\ target = up[u].saw /\ up[u].file = "authentic" /\ receipt = None
  BY <1>1, Alone DEF IInv, Fresh, Holds, OwnFiles, Receipts, OwnReceipt, Held, Work, Before
<1>3. InSession(u)
  BY <1>1, <1>2 DEF InSession, Held, Done, Before, Work
<1>4. OwnReceipt(u)' /\ receipt' \in Receipt \cup {None}
  BY <1>1, <1>2 DEF OwnReceipt
<1>5. /\ backup' \in [Updaters -> Image \cup {None}]
      /\ \A w \in Updaters : w # u => backup'[w] = backup[w]
      /\ up'[u].pc = "replace" => backup'[u] = target
  BY <1>1 DEF IInv, TypeOK
<1>6. OwnFiles(u)'
  BY <1>1, <1>2, <1>5 DEF OwnFiles, Work, Swapped
<1>7. Kept(target)'
  BY <1>1, <1>2, <1>5 DEF IInv, Kept, Moves
<1> QED
  BY <1>1, <1>3, <1>4, <1>5, <1>6, <1>7, TargetKept, InSessionKeeps DEF Moves

(* The target is replaced, or the replacement fails. *)
LEMMA ReplaceKeeps ==
    ASSUME IInv, NEW u \in Updaters, Replace(u)
    PROVE  IInv'
<1>1. /\ up[u].pc = "replace"
      /\ \/ up'[u].pc = "sync" /\ up'[u].said = up[u].said /\ target' = Staged(u) /\ backup' = backup
         \/ /\ up'[u].pc = "close" /\ up'[u].said = "failed" /\ target' = target
            /\ backup' \in {backup, [backup EXCEPT ![u] = None]}
      /\ up'[u].saw = up[u].saw /\ up'[u].rel = up[u].rel
      /\ Moves(u) /\ UNCHANGED <<kills, receipt, lock>>
  BY OneProcess DEF Replace, At, Goto, Fails, Process, Moves, settings
<1>2. /\ up[u].said \notin Done /\ target.by # u
      /\ target = up[u].saw /\ backup[u] = up[u].saw /\ up[u].file = "authentic"
      /\ receipt = None /\ up[u].rel \in Releases
  BY <1>1, Alone DEF IInv, Fresh, Holds, OwnFiles, Receipts, OwnReceipt, Chosen, Held, Work,
                     Before, Early
<1>3. InSession(u)
  BY <1>1, <1>2 DEF InSession, Held, Done, Before, Early, Work, Swapped
<1>4. OwnReceipt(u)' /\ receipt' \in Receipt \cup {None}
  BY <1>1, <1>2 DEF OwnReceipt
<1>5. /\ backup' \in [Updaters -> Image \cup {None}]
      /\ \A w \in Updaters : w # u => backup'[w] = backup[w]
  BY <1>1 DEF IInv, TypeOK
<1>6. /\ Staged(u) \in Image /\ Staged(u).by = u /\ Staged(u).whole
      /\ Staged(u).version = up[u].rel
  BY <1>2 DEF Staged, Image
<1>7. TargetStep(u)
  <2>2. CASE target' = target
    BY <1>1, <2>2, TargetKept DEF Moves
  <2>3. CASE target' = Staged(u)
    BY <1>1, <1>6, <2>3 DEF TargetStep
  <2> QED
    BY <1>1, <2>2, <2>3
<1>8. Kept(target)'
  BY <1>1, <1>2, <1>5, <1>6 DEF IInv, Kept, Moves
<1>9. OwnFiles(u)'
  <2>1. Kept(up[u].saw)
    BY <1>2 DEF IInv
  <2> QED
    BY <1>1, <1>2, <1>6, <2>1, OneProcess DEF OwnFiles, Kept, Moves, Work, Swapped
<1> QED
  BY <1>1, <1>3, <1>4, <1>5, <1>7, <1>8, <1>9, InSessionKeeps

(* What a session that has replaced the target knows. *)
LEMMA Replaced ==
    ASSUME IInv, NEW u \in Updaters, up[u].pc \in Swapped
    PROVE  /\ up[u].said \notin Done
           /\ up[u].saw \in Image /\ up[u].saw # None /\ up[u].saw.by # u
           /\ up[u].saw.whole
           /\ target.by = u /\ backup[u] = up[u].saw /\ Kept(up[u].saw)
           /\ up[u].pc # "write" => receipt = None
<1>1. up[u].said \notin Done
  BY Alone DEF Held, Swapped
<1> QED
  BY <1>1, NoneAssumption DEF IInv, Holds, OwnFiles, Whole, Receipts, OwnReceipt

(* The target is put back, or it stays with its backup. *)
LEMMA UndoKeeps ==
    ASSUME IInv, NEW u \in Updaters, Undo(u)
    PROVE  IInv'
<1>1. /\ up[u].pc = "undo" /\ up'[u].pc = "close" /\ up'[u].said = "failed"
      /\ \/ target' = backup[u] /\ backup' = [backup EXCEPT ![u] = None]
         \/ target' = target /\ backup' = backup
      /\ up'[u].saw = up[u].saw /\ up'[u].rel = up[u].rel
      /\ Moves(u) /\ UNCHANGED <<kills, receipt, lock>>
  BY OneProcess DEF Undo, At, Fails, Process, Moves, settings
<1>2. /\ up[u].said \notin Done /\ Kept(up[u].saw)
      /\ up[u].saw \in Image /\ up[u].saw # None /\ up[u].saw.by # u
      /\ up[u].saw.whole /\ backup[u] = up[u].saw
  BY <1>1, Replaced DEF Swapped
<1>3. InSession(u) /\ OwnReceipt(u)' /\ OwnFiles(u)'
  BY <1>1 DEF InSession, OwnReceipt, OwnFiles, Held, Done, Before, Early, Work, Swapped
<1>4. /\ backup' \in [Updaters -> Image \cup {None}]
      /\ \A w \in Updaters : w # u => backup'[w] = backup[w]
  BY <1>1 DEF IInv, TypeOK
<1>5. TargetStep(u)
  <2>1. CASE target' = target
    BY <1>1, <2>1, TargetKept DEF Moves
  <2>2. CASE target' = backup[u]
    BY <1>1, <1>2, <2>2 DEF TargetStep
  <2> QED
    BY <1>1, <2>1, <2>2
<1>6. Kept(target)'
  BY <1>1, <1>2, <1>4 DEF IInv, Kept, Moves
<1>7. receipt' = receipt /\ receipt \in Receipt \cup {None}
  BY <1>1 DEF IInv, TypeOK
<1> QED
  BY <1>3, <1>4, <1>5, <1>6, <1>7, InSessionKeeps

(* The backup is removed, or a receipt is to name it. *)
LEMMA CommitKeeps ==
    ASSUME IInv, NEW u \in Updaters, Commit(u)
    PROVE  IInv'
<1>1. /\ up[u].pc = "commit"
      /\ \/ up'[u].pc = "close" /\ up'[u].said = "applied"
            /\ backup' \in {backup, [backup EXCEPT ![u] = None]}
         \/ up'[u].pc = "receipt" /\ up'[u].said = up[u].said /\ backup' = backup
      /\ up'[u].saw = up[u].saw /\ up'[u].rel = up[u].rel
      /\ Moves(u) /\ UNCHANGED <<kills, target, receipt, lock>>
  BY OneProcess DEF Commit, At, Goto, Applied, Succeeds, Process, Moves, settings
<1>2. /\ up[u].said \notin Done /\ Kept(up[u].saw) /\ receipt = None
      /\ up[u].saw \in Image /\ up[u].saw.by # u /\ target.by = u /\ backup[u] = up[u].saw
  BY <1>1, Replaced DEF Swapped
<1>3. InSession(u) /\ OwnReceipt(u)'
  BY <1>1, <1>2 DEF InSession, OwnReceipt, Held, Done, Before, Early, Work, Swapped
<1>4. /\ backup' \in [Updaters -> Image \cup {None}]
      /\ \A w \in Updaters : w # u => backup'[w] = backup[w]
  BY <1>1 DEF IInv, TypeOK
<1>5. OwnFiles(u)'
  BY <1>1, <1>2 DEF OwnFiles, Kept, Moves, Work, Swapped
<1>6. Kept(target)'
  BY <1>1, <1>2, <1>4 DEF IInv, Kept, Moves, Done
<1>7. receipt' = receipt /\ receipt \in Receipt \cup {None}
  BY <1>1 DEF IInv, TypeOK
<1> QED
  BY <1>1, <1>3, <1>4, <1>5, <1>6, <1>7, TargetKept, InSessionKeeps DEF Moves

(* The receipt is created, then written. *)
LEMMA ReceiptKeeps ==
    ASSUME IInv, NEW u \in Updaters, CreateReceipt(u) \/ WriteReceipt(u)
    PROVE  IInv'
<1>1. /\ up[u].pc \in {"receipt", "write"}
      /\ \/ up'[u].pc = "close" /\ up'[u].said \in Done
         \/ up[u].pc = "receipt" /\ up'[u].pc = "write" /\ up'[u].said = up[u].said
            /\ receipt' = [names |-> u, digest |-> backup[u], torn |-> TRUE]
      /\ up'[u].saw = up[u].saw /\ up'[u].rel = up[u].rel
      /\ Moves(u) /\ UNCHANGED <<kills, target, backup, lock>>
  BY OneProcess DEF CreateReceipt, WriteReceipt, At, Goto, Applied, Succeeds, Process, Moves,
                    settings, Done
<1>2. /\ up[u].said \notin Done /\ Kept(up[u].saw)
      /\ up[u].saw \in Image /\ up[u].saw.by # u /\ target.by = u /\ backup[u] = up[u].saw
      /\ up[u].pc = "receipt" => receipt = None
      /\ up[u].pc = "write" => receipt \in Receipt /\ receipt.names = u
  BY <1>1, Replaced DEF Swapped, IInv, TypeOK, Receipts, OwnReceipt, At
<1>3. InSession(u)
  BY <1>1, <1>2 DEF InSession, Held, Done, Before, Early, Work, Swapped
<1>4. /\ receipt' \in Receipt \cup {None}
      /\ receipt' # None /\ ~receipt'.torn => receipt'.names = u /\ up'[u].said \in Done
      /\ up'[u].pc = "write" => receipt' # None /\ receipt'.names = u
  <2>1. CASE CreateReceipt(u)
    <3>1. CASE /\ up'[u].pc = "write"
               /\ receipt' = [names |-> u, digest |-> backup[u], torn |-> TRUE]
      <4>1. receipt' \in Receipt /\ receipt'.names = u /\ receipt'.torn
        BY <1>2, <3>1 DEF Receipt
      <4> QED
        BY <4>1, NoneAssumption
    <3>2. CASE up'[u].pc = "close" /\ receipt' = None
      BY <3>2
    <3> QED
      BY <2>1, <3>1, <3>2, OneProcess DEF CreateReceipt, Goto, Applied, Succeeds, Process
  <2>2. CASE WriteReceipt(u)
    <3>1. receipt' \in {None, receipt, [receipt EXCEPT !.torn = FALSE]} /\ up'[u].pc = "close"
      BY <2>2, OneProcess DEF WriteReceipt, Succeeds, Applied, Process
    <3>2. receipt \in Receipt /\ receipt.names = u
      BY <1>2, <2>2 DEF WriteReceipt, At
    <3>3. [receipt EXCEPT !.torn = FALSE] \in Receipt /\ [receipt EXCEPT !.torn = FALSE].names = u
      BY <3>2 DEF Receipt
    <3> QED
      BY <1>1, <3>1, <3>2, <3>3
  <2> QED
    BY <2>1, <2>2
<1>5. OwnReceipt(u)' /\ OwnFiles(u)'
  BY <1>1, <1>2, <1>4 DEF OwnReceipt, OwnFiles, Kept, Moves, Work, Swapped
<1>6. Kept(target)'
  BY <1>1, <1>2 DEF IInv, Kept, Moves, Done
<1>7. backup' \in [Updaters -> Image \cup {None}]
  BY <1>1 DEF IInv, TypeOK
<1> QED
  BY <1>1, <1>3, <1>4, <1>5, <1>6, <1>7, TargetKept, InSessionKeeps DEF Moves

-----------------------------------------------------------------------------
(* A process leaves, and nothing is under the lock if it held it.           *)
LEMMA LeaveKeeps ==
    ASSUME IInv, NEW u \in Updaters, Close(u) \/ Kill(u)
    PROVE  IInv'
<1>1. /\ up'[u].pc \in {"end", "killed"} /\ up'[u].said = up[u].said
      /\ up'[u].saw = up[u].saw /\ up'[u].rel = up[u].rel
      /\ Moves(u) /\ UNCHANGED <<target, backup, receipt>>
  BY OneProcess DEF Close, Kill, Goto, Process, Moves, settings, files
<1>2. kills' \in 0..MaxKills /\ lock' \in {lock, None}
  BY KillsAssumption DEF IInv, TypeOK, Close, Kill, settings
<1>3. lock' = lock \/ lock = u
  <2>1. Close(u) => up[u].pc = "close"
    BY DEF Close, At
  <2> QED
    BY <2>1, Alone DEF Kill, Held
<1>4. TypeOK'
  BY <1>1, <1>2 DEF IInv, TypeOK, Moves
<1>5. Locked' /\ SaidLast'
  BY <1>1, <1>3 DEF IInv, Locked, SaidLast, Moves, Held, Left, Work, Swapped
<1>6. Receipts'
  <2>1. receipt # None => receipt.names \in Updaters
    BY DEF IInv, TypeOK, Receipt
  <2> QED
    BY <1>1, <2>1 DEF IInv, Receipts, OwnReceipt, Moves, At, Work, Swapped
<1>7. Fresh' /\ Kept(target)'
  BY <1>1 DEF IInv, Fresh, Kept, Moves, Before, Early
<1>8. Holds'
  <2>1. ASSUME NEW w \in Updaters, Kept(up[w].saw) PROVE Kept(up[w].saw)'
    BY <1>1, <2>1 DEF Kept, Moves
  <2> QED
    BY <1>1, <2>1 DEF IInv, Holds, OwnFiles, Moves, Work, Swapped
<1>9. Whole' /\ Chosen'
  BY <1>1 DEF IInv, Whole, Chosen, Moves, Before, Early
<1> QED
  BY <1>4, <1>5, <1>6, <1>7, <1>8, <1>9 DEF IInv

(* The owner publishes a release. *)
LEMMA PublishKeeps ==
    ASSUME IInv, NEW v \in Releases, Publish(v)
    PROVE  IInv'
<1>1. UNCHANGED <<request, target, backup, receipt, lock, up, kills>>
  BY DEF Publish, files
<1>2. status' \in [Releases -> {"draft", "published", "immutable"}]
  BY DEF IInv, TypeOK, Publish
<1>4. TypeOK'
  BY <1>1, <1>2 DEF IInv, TypeOK
<1>5. Locked' /\ SaidLast' /\ Fresh' /\ Kept(target)'
  BY <1>1 DEF IInv, Locked, SaidLast, Fresh, Kept
<1>6. Receipts'
  BY <1>1 DEF IInv, Receipts, OwnReceipt, At
<1>7. Holds'
  BY <1>1 DEF IInv, Holds, OwnFiles, Kept
<1>8. Whole' /\ Chosen'
  BY <1>1 DEF IInv, Whole, Chosen
<1> QED
  BY <1>4, <1>5, <1>6, <1>7, <1>8 DEF IInv

(* Nothing changes. *)
LEMMA StutterKeeps == IInv /\ UNCHANGED vars => IInv'
<1> SUFFICES ASSUME IInv, UNCHANGED vars PROVE IInv'
  OBVIOUS
<1>1. UNCHANGED <<request, status, target, backup, receipt, lock, up, kills>>
  BY DEF vars
<1>2. TypeOK'
  BY <1>1 DEF IInv, TypeOK
<1>3. Locked' /\ SaidLast' /\ Fresh' /\ Kept(target)' /\ Holds'
  BY <1>1 DEF IInv, Locked, SaidLast, Fresh, Kept, Holds, OwnFiles
<1>4. Receipts'
  BY <1>1 DEF IInv, Receipts, OwnReceipt, At
<1>5. Whole' /\ Chosen'
  BY <1>1 DEF IInv, Whole, Chosen
<1> QED
  BY <1>2, <1>3, <1>4, <1>5 DEF IInv

(* Every step keeps the invariant. *)
LEMMA StepKeeps == IInv /\ [Next]_vars => IInv'
<1> SUFFICES ASSUME IInv, Next PROVE IInv'
  BY StutterKeeps
<1>1. ASSUME NEW u \in Updaters, Run(u) PROVE IInv'
  BY <1>1, LaunchKeeps, ResolveKeeps, SelectKeeps, FetchKeeps, AcquireKeeps, SessionKeeps,
     ForgetKeeps, DownloadKeeps, BackupKeeps, ReplaceKeeps, UndoKeeps, CommitKeeps,
     ReceiptKeeps, LeaveKeeps DEF Run
<1>2. ASSUME NEW u \in Updaters, Kill(u) PROVE IInv'
  BY <1>2, LeaveKeeps
<1>3. ASSUME NEW v \in Releases, Publish(v) PROVE IInv'
  BY <1>3, PublishKeeps
<1> QED
  BY <1>1, <1>2, <1>3 DEF Next

-----------------------------------------------------------------------------
(* The strengthening holds in every state. *)
THEOREM Invariance == Spec => []IInv
BY AtInit, StepKeeps, PTL DEF Spec

(* Every variable has its type. *)
THEOREM TypeCorrect == Spec => []TypeOK
<1>1. IInv => TypeOK
  BY DEF IInv
<1> QED
  BY <1>1, Invariance, PTL

(* However many processes update the same executable, in whatever order and *)
(* whoever is killed: what is in place is whole, and until the updater that *)
(* put it there reports success the image it replaced is under its second   *)
(* name, whatever receipt a later update acts upon (replace_windows.go:28). *)
THEOREM OldImageKeptHolds == Spec => []OldImageKept
<1>1. IInv => OldImageKept
  BY DEF IInv, Whole, Kept, OldImageKept, Done
<1> QED
  BY <1>1, Invariance, PTL

(* No receipt is ever in the way of the one a session has to write          *)
(* (cleanup_windows.go:103).                                                *)
THEOREM OneReceiptHolds == Spec => []OneReceipt
<1>1. IInv => OneReceipt
  BY DEF IInv, Receipts, OwnReceipt, OneReceipt, At, Work, Swapped
<1> QED
  BY <1>1, Invariance, PTL

-----------------------------------------------------------------------------
(* What the exchange sees. *)
Holder == IF lock # None /\ up[lock].sums # "unknown" THEN lock ELSE None
Seen   == [u \in Updaters |-> IF up[u].saw = None THEN None ELSE Author(up[u].saw)]
KeptBy == {u \in Updaters : up[u].said \in Done}

(* A manifest is read in a session, before the executable and all the rest. *)
Reading == {"binary", "verify", "backup", "replace"} \cup Swapped
Unread  == Before \ {"binary", "verify", "backup", "replace"}
Sums == \A u \in Updaters : /\ up[u].pc \in Unread => up[u].sums = "unknown"
                            /\ up[u].pc \in Reading => up[u].sums # "unknown"

(* A step of u that is none of the manifest, and leads to none it begins.   *)
Goes(u) ==
    /\ up'[u].sums = up[u].sums
    /\ up'[u].pc \in Unread => up[u].pc \in Unread
    /\ up'[u].pc \in Reading => up[u].pc \in Reading

(* The steps before a session. *)
LEMMA GoesBefore ==
    ASSUME IInv, NEW u \in Updaters,
           \/ Launch(u) \/ ResolveTarget(u) \/ Unresolvable(u) \/ Fetch(u) \/ NoRelease(u)
           \/ Select(u) \/ Classify(u) \/ Confirm(u) \/ AcquireLock(u) \/ NoLock(u)
    PROVE  Goes(u) /\ \A w \in Updaters : w # u => up'[w] = up[w]
<1>1. PICK p \in {"idle", "resolve", "fetch", "select", "classify", "confirm", "begin"} :
          up[u].pc = p
  BY DEF Launch, ResolveTarget, Unresolvable, Fetch, NoRelease, Select, Classify, Confirm,
         AcquireLock, NoLock, At
<1>2. /\ up'[u].pc \in {"resolve", "fetch", "select", "classify", "confirm", "begin",
                       "cleanup", "end"}
      /\ up'[u].sums = up[u].sums
      /\ \A w \in Updaters : w # u => up'[w] = up[w]
  BY OneProcess DEF Launch, ResolveTarget, Unresolvable, Fetch, NoRelease, Select, Classify,
     Confirm, AcquireLock, NoLock, Goto, Ends, Process
<1> QED
  BY <1>1, <1>2 DEF Goes, Unread, Reading, Before, Early, Swapped

(* The steps of a session up to the first asset. *)
LEMMA GoesEarly ==
    ASSUME IInv, NEW u \in Updaters,
           \/ NothingPending(u) \/ CleanupFails(u) \/ RemovePending(u) \/ RemoveReceipt(u)
           \/ Revalidate(u)
    PROVE  Goes(u) /\ \A w \in Updaters : w # u => up'[w] = up[w]
<1>1. up[u].pc \in {"cleanup", "forget", "revalidate"}
  BY DEF NothingPending, CleanupFails, RemovePending, RemoveReceipt, Revalidate, At
<1>2. /\ up'[u].pc \in {"forget", "revalidate", "manifest", "close"}
      /\ up'[u].sums = up[u].sums
      /\ \A w \in Updaters : w # u => up'[w] = up[w]
  BY OneProcess DEF NothingPending, CleanupFails, RemovePending, RemoveReceipt, Revalidate,
     Goto, Fails, Process
<1> QED
  BY <1>1, <1>2 DEF Goes, Unread, Reading, Before, Early, Swapped

(* The steps after it, and the end. *)
LEMMA GoesLate ==
    ASSUME IInv, NEW u \in Updaters,
           \/ DownloadBinary(u) \/ Verify(u) \/ Backup(u) \/ Replace(u) \/ SyncDirectory(u)
           \/ Undo(u) \/ Commit(u) \/ CreateReceipt(u) \/ WriteReceipt(u) \/ Close(u) \/ Kill(u)
    PROVE  Goes(u) /\ \A w \in Updaters : w # u => up'[w] = up[w]
<1>1. \/ up[u].pc \in Reading
      \/ Close(u) \/ Kill(u)
  BY DEF DownloadBinary, Verify, Backup, Replace, SyncDirectory, Undo, Commit, CreateReceipt,
         WriteReceipt, At, Reading, Swapped
<1>2. /\ up'[u].pc \in Reading \cup Left /\ (Close(u) \/ Kill(u) => up'[u].pc \in Left)
      /\ up'[u].sums = up[u].sums
      /\ \A w \in Updaters : w # u => up'[w] = up[w]
  BY OneProcess DEF DownloadBinary, Verify, Backup, Replace, SyncDirectory, Undo, Commit,
     CreateReceipt, WriteReceipt, Close, Kill, Goto, Fails, Succeeds, Applied, Process, Digest,
     Reading, Swapped, Left
<1> QED
  BY <1>1, <1>2 DEF Goes, Unread, Reading, Before, Early, Swapped, Left

(* Which process has read its manifest. *)
LEMMA SumsStep == IInv /\ Sums /\ [Next]_vars => Sums'
<1> SUFFICES ASSUME IInv, Sums, [Next]_vars PROVE Sums'
  OBVIOUS
<1>1. ASSUME NEW u \in Updaters, Goes(u), \A w \in Updaters : w # u => up'[w] = up[w]
      PROVE  Sums'
  BY <1>1 DEF Sums, Goes
<1>2. ASSUME NEW u \in Updaters, DownloadManifest(u) PROVE Sums'
  <2>1. /\ \/ up'[u].pc = "binary" /\ up'[u].sums # "unknown"
           \/ up'[u].pc = "close"
        /\ \A w \in Updaters : w # u => up'[w] = up[w]
    BY <1>2, OneProcess DEF DownloadManifest, Fails, Process
  <2> QED
    BY <2>1 DEF Sums, Unread, Reading, Before, Early, Swapped
<1>3. ASSUME UNCHANGED up PROVE Sums'
  BY <1>3 DEF Sums
<1> QED
  BY <1>1, <1>2, <1>3, GoesBefore, GoesEarly, GoesLate DEF Next, Run, Publish, vars

(* A step the exchange does not see. *)
LEMMA Stutters ==
    ASSUME Author(target)' = Author(target), Holder' = Holder, Seen' = Seen, KeptBy' = KeptBy
    PROVE  [Contract!Next]_(Contract!xvars)
BY DEF Contract!xvars, Holder, Seen, KeptBy, Done

(* A step of one process that does not touch the lock or the target, has    *)
(* resolved nothing and does not report success.                            *)
LEMMA Quiet ==
    ASSUME IInv, NEW u \in Updaters, \A w \in Updaters : w # u => up'[w] = up[w],
           UNCHANGED <<target, lock>>,
           up'[u].sums = up[u].sums, up'[u].saw = up[u].saw,
           up'[u].said \in Done <=> up[u].said \in Done
    PROVE  [Contract!Next]_(Contract!xvars)
<1>1. Author(target)' = Author(target) /\ Seen' = Seen /\ KeptBy' = KeptBy
  BY DEF Author, Seen, KeptBy
<1>2. Holder' = Holder
  BY DEF IInv, TypeOK, Holder
<1> QED
  BY <1>1, <1>2, Stutters

(* The resolution is the look. *)
LEMMA LookRefines ==
    ASSUME IInv, Sums, NEW u \in Updaters, ResolveTarget(u)
    PROVE  [Contract!Next]_(Contract!xvars)
<1>1. up[u].pc = "resolve" /\ UNCHANGED <<target, lock>>
  BY DEF ResolveTarget, At, files
<1>2. /\ up'[u].saw = target /\ up'[u].sums = up[u].sums /\ up'[u].said = up[u].said
      /\ \A w \in Updaters : w # u => up'[w] = up[w]
  BY OneProcess DEF ResolveTarget, Process
<1>3. up[u].sums = "unknown"
  BY <1>1 DEF Sums, Unread, Before, Early
<1>4. CASE up[u].saw = None
  <2>1. Seen[u] = None /\ Seen' = [Seen EXCEPT ![u] = Author(target)]
    BY <1>2, <1>4, OneProcess DEF Seen
  <2>2. Holder' = Holder /\ KeptBy' = KeptBy
    BY <1>1, <1>2 DEF IInv, TypeOK, Holder, KeptBy
  <2>3. Holder # u
    BY <1>3, NoneAssumption DEF Holder
  <2>4. Contract!Look(u)
    BY <1>1, <2>1, <2>2, <2>3 DEF Contract!Look, Holder, Seen, KeptBy, Done, Author
  <2> QED
    BY <2>4 DEF Contract!Next
<1> QED
  BY <1>1, <1>4 DEF IInv, Chosen, Early

(* The first asset is the take. *)
LEMMA TakeRefines ==
    ASSUME IInv, Sums, NEW u \in Updaters, DownloadManifest(u)
    PROVE  [Contract!Next]_(Contract!xvars)
<1>1. up[u].pc = "manifest" /\ UNCHANGED <<target, lock>>
  BY DEF DownloadManifest, At, files
<1>2. up[u].sums = "unknown" /\ lock = u /\ target = up[u].saw /\ up[u].said \notin Done /\ u # None
  BY <1>1, Alone, NoneAssumption DEF Sums, Unread, Before, Early, IInv, Holds, OwnFiles, Held, Work
<1>3. CASE Fails(u)
  <2>1. /\ up'[u].saw = up[u].saw /\ up'[u].sums = up[u].sums /\ up'[u].said = "failed"
        /\ \A w \in Updaters : w # u => up'[w] = up[w]
    BY <1>3, OneProcess DEF Fails, Process
  <2> QED
    BY <1>1, <1>2, <2>1, Quiet DEF Done
<1>4. CASE ~Fails(u)
  <2>1. /\ up'[u].saw = up[u].saw /\ up'[u].sums # "unknown" /\ up'[u].said = up[u].said
        /\ \A w \in Updaters : w # u => up'[w] = up[w]
    BY <1>4, OneProcess DEF DownloadManifest, Process
  <2>2. Seen' = Seen /\ KeptBy' = KeptBy /\ Seen[u] = Author(target)
    BY <1>2, <2>1, OneProcess DEF Seen, KeptBy
  <2>3. Holder = None /\ Holder' = u
    BY <1>1, <1>2, <2>1 DEF Holder
  <2>4. Contract!Take(u)
    BY <1>1, <2>2, <2>3 DEF Contract!Take, Holder, Seen, KeptBy, Done, Author
  <2> QED
    BY <2>4 DEF Contract!Next
<1> QED
  BY <1>3, <1>4

(* A session past the first asset holds the exchange. *)
LEMMA HolderIs ==
    ASSUME IInv, Sums, NEW u \in Updaters, up[u].pc \in Reading
    PROVE  Holder = u /\ u \notin KeptBy /\ u # None
BY Alone, NoneAssumption DEF Sums, Holder, KeptBy, Reading, Held, Work, Swapped

(* The replacement is the put, its undo the take back.                      *)
LEMMA PutRefines ==
    ASSUME IInv, Sums, NEW u \in Updaters, Replace(u) \/ Undo(u)
    PROVE  [Contract!Next]_(Contract!xvars)
<1>1. up[u].pc \in {"replace", "undo"} /\ UNCHANGED lock
  BY DEF Replace, Undo, At
<1>2. /\ up'[u].saw = up[u].saw /\ up'[u].sums = up[u].sums
      /\ up'[u].said \in {up[u].said, "failed"}
      /\ \A w \in Updaters : w # u => up'[w] = up[w]
  BY OneProcess DEF Replace, Undo, Goto, Fails, Process
<1>3. Holder = u /\ u \notin KeptBy /\ u # None
  BY <1>1, HolderIs DEF Reading, Swapped
<1>4. Seen' = Seen /\ KeptBy' = KeptBy /\ Holder' = Holder
  BY <1>1, <1>2, <1>3 DEF Seen, KeptBy, Holder, Done, IInv, TypeOK
<1>5. CASE target' = target
  BY <1>4, <1>5, Stutters DEF Author
<1>6. CASE Replace(u) /\ target' = Staged(u)
  <2>1. target = up[u].saw
    BY <1>6 DEF IInv, Holds, OwnFiles, Replace, At, Work
  <2>2. Author(target) = Seen[u] /\ Author(target)' = u
    BY <1>3, <1>6, <2>1, OneProcess DEF Seen, Author, Staged
  <2>3. Contract!Put(u)
    BY <1>3, <1>4, <2>2 DEF Contract!Put, Holder, Seen, KeptBy, Done, Author
  <2> QED
    BY <2>3 DEF Contract!Next
<1>7. CASE Undo(u) /\ target' = backup[u]
  <2>1. up[u].saw # None /\ target.by = u /\ backup[u] = up[u].saw
    BY <1>7, Replaced DEF Undo, At, Swapped
  <2>2. Author(target) = u /\ Author(target)' = Seen[u]
    BY <1>3, <1>7, <2>1 DEF Seen, Author
  <2>3. Contract!TakeBack(u)
    BY <1>3, <1>4, <2>2 DEF Contract!TakeBack, Holder, Seen, KeptBy, Done, Author
  <2> QED
    BY <2>3 DEF Contract!Next
<1> QED
  BY <1>5, <1>6, <1>7 DEF Replace, Undo

(* Success is the keep. *)
LEMMA KeepRefines ==
    ASSUME IInv, Sums, NEW u \in Updaters, Commit(u) \/ CreateReceipt(u) \/ WriteReceipt(u)
    PROVE  [Contract!Next]_(Contract!xvars)
<1>1. up[u].pc \in {"commit", "receipt", "write"} /\ UNCHANGED <<target, lock>>
  BY DEF Commit, CreateReceipt, WriteReceipt, At
<1>2. /\ up'[u].saw = up[u].saw /\ up'[u].sums = up[u].sums
      /\ up'[u].said = up[u].said \/ up'[u].said \in Done
      /\ \A w \in Updaters : w # u => up'[w] = up[w]
  BY OneProcess DEF Commit, CreateReceipt, WriteReceipt, Goto, Applied, Succeeds, Process, Done
<1>3. Holder = u /\ u # None
  BY <1>1, HolderIs DEF Reading, Swapped
<1>4. Seen' = Seen /\ Holder' = Holder
  BY <1>1, <1>2 DEF Seen, Holder, IInv, TypeOK
<1>5. CASE up'[u].said = up[u].said
  BY <1>1, <1>2, <1>5, Quiet
<1>6. CASE up'[u].said \in Done
  <2>1. KeptBy' = KeptBy \cup {u}
    BY <1>2, <1>6 DEF KeptBy
  <2>2. Author(target) = u
    BY <1>1, <1>3, Replaced DEF Swapped, Author
  <2>3. Contract!Keep(u)
    BY <1>1, <1>3, <1>4, <2>1, <2>2 DEF Contract!Keep, Holder, Seen, KeptBy, Done, Author
  <2> QED
    BY <2>3 DEF Contract!Next
<1> QED
  BY <1>2, <1>5, <1>6

(* The end of a session that has the exchange is to leave it. *)
LEMMA LeaveRefines ==
    ASSUME IInv, Sums, NEW u \in Updaters, Close(u) \/ Kill(u)
    PROVE  [Contract!Next]_(Contract!xvars)
<1>1. /\ up'[u].saw = up[u].saw /\ up'[u].sums = up[u].sums /\ up'[u].said = up[u].said
      /\ \A w \in Updaters : w # u => up'[w] = up[w]
      /\ UNCHANGED target
  BY OneProcess DEF Close, Kill, Goto, Process, files
<1>2. Seen' = Seen /\ KeptBy' = KeptBy
  BY <1>1 DEF Seen, KeptBy
<1>3. CASE lock' = lock
  BY <1>1, <1>3, Quiet
<1>4. CASE lock' = None /\ lock = u
  <2>1. Holder \in {u, None} /\ Holder' = None
    BY <1>4 DEF Holder
  <2>2. CASE Holder = u
    <3>1. Contract!Leave(u)
      BY <1>1, <1>2, <2>1, <2>2 DEF Contract!Leave, Holder, Seen, KeptBy, Done, Author
    <3> QED
      BY <3>1 DEF Contract!Next
  <2>3. CASE Holder = None
    BY <1>1, <1>2, <2>1, <2>3, Stutters DEF Author
  <2> QED
    BY <2>1, <2>2, <2>3
<1>5. Close(u) => lock = u /\ lock' = None
  BY Alone DEF Close, At, Held
<1> QED
  BY <1>3, <1>4, <1>5 DEF Kill

(* The other steps are none of the exchange. *)
LEMMA QuietRefines ==
    ASSUME IInv, Sums, NEW u \in Updaters,
           \/ Launch(u) \/ Unresolvable(u) \/ Fetch(u) \/ NoRelease(u)
           \/ Select(u) \/ Classify(u) \/ Confirm(u) \/ AcquireLock(u) \/ NoLock(u)
           \/ NothingPending(u) \/ CleanupFails(u) \/ RemovePending(u) \/ RemoveReceipt(u)
           \/ Revalidate(u) \/ DownloadBinary(u) \/ Verify(u) \/ Backup(u) \/ SyncDirectory(u)
    PROVE  [Contract!Next]_(Contract!xvars)
<1>1. /\ up[u].pc \notin Left /\ up[u].said \notin Done
  BY DEF IInv, SaidLast, Left, Launch, Unresolvable, Fetch, NoRelease, Select, Classify,
         Confirm, AcquireLock, NoLock, NothingPending, CleanupFails, RemovePending,
         RemoveReceipt, Revalidate, DownloadBinary, Verify, Backup, SyncDirectory, At
<1>2. /\ up'[u].saw = up[u].saw /\ up'[u].said \notin Done
  BY <1>1, OneProcess DEF Launch, Unresolvable, Fetch, NoRelease, Select, Classify,
         Confirm, AcquireLock, NoLock, NothingPending, CleanupFails, RemovePending,
         RemoveReceipt, Revalidate, DownloadBinary, Verify, Backup, SyncDirectory,
         Goto, Ends, Fails, Process, Done
<1>3. up'[u].sums = up[u].sums /\ \A w \in Updaters : w # u => up'[w] = up[w]
  BY GoesBefore, GoesEarly, GoesLate DEF Goes
<1>4. UNCHANGED target /\ (lock' = lock \/ AcquireLock(u))
  BY DEF Launch, Unresolvable, Fetch, NoRelease, Select, Classify,
         Confirm, AcquireLock, NoLock, NothingPending, CleanupFails, RemovePending,
         RemoveReceipt, Revalidate, DownloadBinary, Verify, Backup, SyncDirectory, files
<1>5. CASE lock' = lock
  BY <1>1, <1>2, <1>3, <1>4, <1>5, Quiet
<1>6. CASE AcquireLock(u)
  <2>1. lock = None /\ lock' = u /\ up[u].pc = "begin"
    BY <1>6 DEF AcquireLock, At
  <2>2. up[u].sums = "unknown"
    BY <2>1 DEF Sums, Unread, Before, Early
  <2>3. Holder' = Holder
    BY <1>3, <2>1, <2>2 DEF Holder
  <2>4. Seen' = Seen /\ KeptBy' = KeptBy
    BY <1>1, <1>2, <1>3 DEF Seen, KeptBy
  <2> QED
    BY <1>4, <2>3, <2>4, Stutters DEF Author
<1> QED
  BY <1>4, <1>5, <1>6

(* However many processes update the executable, in whatever order and      *)
(* whoever is killed, they exchange it one at a time: what is replaced is   *)
(* what the process resolved before it had the lock, and only an update     *)
(* that did not report success takes it back (replace_windows.go:37-60).    *)
THEOREM ImplementsExchangeHolds == Spec => ImplementsExchange
<1>1. Init => Contract!Init /\ Sums
  <2> SUFFICES ASSUME Init PROVE Contract!Init /\ Sums
    OBVIOUS
  <2>1. /\ target.by = None /\ lock = None
        /\ \A u \in Updaters : /\ up[u].saw = None /\ up[u].said = "nothing"
                               /\ up[u].pc = "idle" /\ up[u].sums = "unknown"
    BY DEF Init
  <2>2. Sums
    BY <2>1 DEF Sums, Reading, Swapped
  <2> QED
    BY <2>1, <2>2 DEF Contract!Init, Author
<1>2. IInv /\ Sums /\ [Next]_vars => [Contract!Next]_(Contract!xvars)
  <2> SUFFICES ASSUME IInv, Sums, [Next]_vars PROVE [Contract!Next]_(Contract!xvars)
    OBVIOUS
  <2>1. ASSUME NEW u \in Updaters, Run(u) \/ Kill(u) PROVE [Contract!Next]_(Contract!xvars)
    BY <2>1, LookRefines, TakeRefines, PutRefines, KeepRefines, LeaveRefines, QuietRefines DEF Run
  <2>2. CASE UNCHANGED <<target, lock, up>>
    <3>1. Author(target)' = Author(target) /\ Holder' = Holder /\ Seen' = Seen /\ KeptBy' = KeptBy
      BY <2>2 DEF Author, Holder, Seen, KeptBy
    <3> QED
      BY <3>1, Stutters
  <2> QED
    BY <2>1, <2>2 DEF Next, Publish, files, vars
<1> QED
  BY <1>1, <1>2, Invariance, SumsStep, PTL DEF Spec, ImplementsExchange, Contract!Spec
=============================================================================
