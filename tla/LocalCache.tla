----------------------------- MODULE LocalCache -----------------------------
(***************************************************************************)
(* The local cache (src/unnamed/part_003: LocalCache.Write, writeMetadata, *)
(* WriteWithMetadata, Check) for one action ID, used by the get path of   *)
(* several server processes that share the cache root (spec 4.6): Check   *)
(* first; on a miss Backend.Get, then WriteWithMetadata.  With the fslock *)
(* dedupe group (Locked) each get runs under the key's file lock; with    *)
(* the memory or noop group nothing keeps two processes apart.  A         *)
(* "gobuildcache clear" process (clearLocalCache, main.go) may remove the *)
(* root at any time.                                                       *)
(*                                                                         *)
(* The body is always installed by rename, so the file at its path is     *)
(* always some output's whole body.  The sidecar is written to the fixed  *)
(* path <hex>.meta.tmp by os.WriteFile (open with O_TRUNC, then write)    *)
(* and renamed over <hex>.meta.  mfd[p] is what p's open descriptor of    *)
(* the sidecar temp file names after renames and removals.                *)
(***************************************************************************)
EXTENDS Naturals

CONSTANTS
    Procs,      \* server processes, one get goroutine each
    Outs,       \* output IDs the backend may return for the action ID
    NoFile,     \* no file at the path
    Torn,       \* a sidecar temp file truncated and not yet written
    NoOwner,    \* nobody holds the file lock
    MaxGets,    \* bound on the gets of each process
    MaxClears,  \* bound on the clear commands
    MayFail,    \* whether file operations and the backend may fail
    MayCrash,   \* whether a server process may die
    Locked      \* gets of one action ID run under the fslock group's lock

ASSUME LocalCacheAssumption ==
    /\ MaxGets \in Nat /\ MaxClears \in Nat
    /\ MayFail \in BOOLEAN /\ MayCrash \in BOOLEAN /\ Locked \in BOOLEAN
    /\ {NoFile, Torn} \cap Outs = {}
    /\ NoOwner \notin Procs

VARIABLES
    pc,     \* pc[p]: where p's get is
    lock,   \* the holder of the action ID's file lock
    fetched,\* fetched[p]: the output Backend.Get returned to p
    body,   \* the body file: NoFile or the output whose bytes it holds
    meta,   \* the sidecar: NoFile, Torn or the output it names
    mtmp,   \* the sidecar temp file <hex>.meta.tmp
    mfd,    \* mfd[p]: where p's descriptor of the sidecar temp file is: "tmp", "meta", "none"
    tmp,    \* tmp[p]: p's .tmp-* body file exists, with p's output in it
    dir,    \* the cache root exists
    got,    \* got[p]: the last hit of Check: [out, body], or NoFile
    gets,   \* gets[p]: gets started by p
    cpc,    \* the clear process: "idle", "removing" (inside RemoveAll), "removed"
    seen,   \* the names RemoveAll read from the root and has not unlinked yet
    clears  \* clear commands run

vars == <<pc, lock, fetched, body, meta, mtmp, mfd, tmp, dir, got, gets, cpc, seen,
          clears>>

(* The names of the files in the root: the body, the sidecar, the sidecar *)
(* temp file and each process's .tmp-* body file (named by the process).  *)
FileNames == {"body", "meta", "mtmp"} \cup Procs

(* File f exists in the root. *)
Present(f) ==
    CASE f = "body" -> body # NoFile
      [] f = "meta" -> meta # NoFile
      [] f = "mtmp" -> mtmp # NoFile
      [] OTHER      -> tmp[f]

PcValues == {"idle", "check", "checkMeta", "fetch", "create", "copy", "rename",
             "metaOpen", "metaWrite", "metaRename"}

TypeOK ==
    /\ pc \in [Procs -> PcValues]
    /\ lock \in Procs \cup {NoOwner}
    /\ fetched \in [Procs -> Outs]
    /\ body \in Outs \cup {NoFile}
    /\ meta \in Outs \cup {NoFile, Torn}
    /\ mtmp \in Outs \cup {NoFile, Torn}
    /\ mfd \in [Procs -> {"tmp", "meta", "none"}]
    /\ tmp \in [Procs -> BOOLEAN]
    /\ dir \in BOOLEAN
    /\ got \in [Procs -> [out : Outs, body : Outs \cup {NoFile}] \cup {NoFile}]
    /\ gets \in [Procs -> 0..MaxGets]
    /\ cpc \in {"idle", "removing", "removed"}
    /\ seen \subseteq FileNames
    /\ clears \in 0..MaxClears

(* NewLocalCache created the root; it is empty or holds one whole entry. *)
Init ==
    /\ pc = [p \in Procs |-> "idle"]
    /\ lock = NoOwner
    /\ fetched \in [Procs -> Outs]
    /\ \/ body = NoFile /\ meta = NoFile
       \/ \E o \in Outs : body = o /\ meta = o
    /\ mtmp = NoFile
    /\ mfd = [p \in Procs |-> "none"]
    /\ tmp = [p \in Procs |-> FALSE]
    /\ dir = TRUE
    /\ got = [p \in Procs |-> NoFile]
    /\ gets = [p \in Procs |-> 0]
    /\ cpc = "idle"
    /\ seen = {}
    /\ clears = 0

-----------------------------------------------------------------------------
Goto(p, s) == pc' = [pc EXCEPT ![p] = s]

(* The get returns; the deferred Unlock releases the file lock. *)
Return(p) == Goto(p, "idle") /\ lock' = IF lock = p THEN NoOwner ELSE lock

(* Broker get: DoWithLock(get:<hex>) when Locked.  With fslock the lock   *)
(* may not come within the deadline and the get returns an error.         *)
StartGet(p) ==
    /\ pc[p] = "idle" /\ gets[p] < MaxGets
    /\ gets' = [gets EXCEPT ![p] = @ + 1]
    /\ \/ /\ ~Locked
          /\ Goto(p, "check") /\ UNCHANGED lock
       \/ /\ Locked /\ lock = NoOwner
          /\ Goto(p, "check") /\ lock' = p
       \/ /\ Locked /\ lock # NoOwner
          /\ UNCHANGED <<pc, lock>>
    /\ UNCHANGED <<fetched, body, meta, mtmp, mfd, tmp, dir, got, cpc, seen, clears>>

(* Check: os.Stat(diskPath); no body is a miss. *)
CheckStat(p) ==
    /\ pc[p] = "check"
    /\ Goto(p, IF body = NoFile THEN "fetch" ELSE "checkMeta")
    /\ UNCHANGED <<lock, fetched, body, meta, mtmp, mfd, tmp, dir, got, gets, cpc, seen, clears>>

(* Check: readMetadata.  A missing sidecar, or one with no outputID line, *)
(* is a miss; otherwise the broker answers a hit with diskPath.           *)
CheckMeta(p) ==
    /\ pc[p] = "checkMeta"
    /\ IF meta \in Outs
          THEN /\ got' = [got EXCEPT ![p] = [out |-> meta, body |-> body]]
               /\ Return(p)
          ELSE /\ Goto(p, "fetch")
               /\ UNCHANGED <<lock, got>>
    /\ UNCHANGED <<fetched, body, meta, mtmp, mfd, tmp, dir, gets, cpc, seen, clears>>

(* Backend.Get: a hit with some output (other processes' puts may have   *)
(* changed it), or a miss or an error, and the get returns.               *)
Fetch(p) ==
    /\ pc[p] = "fetch"
    /\ \/ \E o \in Outs : fetched' = [fetched EXCEPT ![p] = o] /\ Goto(p, "create")
                          /\ UNCHANGED lock
       \/ Return(p) /\ UNCHANGED fetched
    /\ UNCHANGED <<body, meta, mtmp, mfd, tmp, dir, got, gets, cpc, seen, clears>>

(* Write: os.CreateTemp(cacheDir, ".tmp-*"), which fails without the root. *)
CreateTemp(p) ==
    /\ pc[p] = "create"
    /\ \/ /\ dir
          /\ tmp' = [tmp EXCEPT ![p] = TRUE]
          /\ Goto(p, "copy") /\ UNCHANGED lock
       \/ /\ ~dir \/ MayFail
          /\ Return(p) /\ UNCHANGED tmp
    /\ UNCHANGED <<fetched, body, meta, mtmp, mfd, dir, got, gets, cpc, seen, clears>>

(* Write: io.Copy and Close of the temp file; on an error the deferred   *)
(* os.Remove(tmpPath) runs and the get returns the error.                 *)
CopyTemp(p) ==
    /\ pc[p] = "copy"
    /\ \/ Goto(p, "rename") /\ UNCHANGED <<lock, tmp>>
       \/ /\ MayFail
          /\ tmp' = [tmp EXCEPT ![p] = FALSE]
          /\ Return(p)
    /\ UNCHANGED <<fetched, body, meta, mtmp, mfd, dir, got, gets, cpc, seen, clears>>

(* Mutant: the error of the body's rename is not checked and the         *)
(* metadata is written anyway.                                            *)
RenameBodyNoErrCheck(p) ==
    /\ pc[p] = "rename"
    /\ tmp' = [tmp EXCEPT ![p] = FALSE]
    /\ Goto(p, "metaOpen") /\ UNCHANGED lock
    /\ \/ tmp[p] /\ dir /\ body' = fetched[p]
       \/ (~tmp[p] \/ ~dir \/ MayFail) /\ UNCHANGED body
    /\ UNCHANGED <<fetched, meta, mtmp, mfd, dir, got, gets, cpc, seen, clears>>

(* Write: os.Rename(tmpPath, diskPath) installs the whole body at once;  *)
(* it fails when a clear removed the temp file or the root.              *)
RenameBody(p) ==
    /\ pc[p] = "rename"
    /\ tmp' = [tmp EXCEPT ![p] = FALSE]
    /\ \/ /\ tmp[p] /\ dir
          /\ body' = fetched[p]
          /\ Goto(p, "metaOpen") /\ UNCHANGED lock
       \/ /\ ~tmp[p] \/ ~dir \/ MayFail
          /\ Return(p) /\ UNCHANGED body
    /\ UNCHANGED <<fetched, meta, mtmp, mfd, dir, got, gets, cpc, seen, clears>>

(* writeMetadata: os.WriteFile(metaPath + ".tmp") opens the shared temp  *)
(* path with O_TRUNC.  An error is logged by WriteWithMetadata, and the   *)
(* get still answers a hit with the body.                                 *)
MetaOpen(p) ==
    /\ pc[p] = "metaOpen"
    /\ \/ /\ dir
          /\ mtmp' = Torn
          /\ mfd' = [mfd EXCEPT ![p] = "tmp"]
          /\ Goto(p, "metaWrite") /\ UNCHANGED lock
       \/ /\ ~dir \/ MayFail
          /\ Return(p) /\ UNCHANGED <<mtmp, mfd>>
    /\ UNCHANGED <<fetched, body, meta, tmp, dir, got, gets, cpc, seen, clears>>

(* os.WriteFile writes "outputID:..\nsize:..\ntime:..\n" through p's      *)
(* descriptor, into whichever file it now names, and closes it.            *)
MetaWrite(p) ==
    /\ pc[p] = "metaWrite"
    /\ mfd' = [mfd EXCEPT ![p] = "none"]
    /\ \/ /\ mtmp' = IF mfd[p] = "tmp" THEN fetched[p] ELSE mtmp
          /\ meta' = IF mfd[p] = "meta" THEN fetched[p] ELSE meta
          /\ Goto(p, "metaRename") /\ UNCHANGED lock
       \/ /\ MayFail
          /\ Return(p) /\ UNCHANGED <<mtmp, meta>>
    /\ UNCHANGED <<fetched, body, tmp, dir, got, gets, cpc, seen, clears>>

(* os.Rename(tmpPath, metaPath) moves whatever the shared temp file      *)
(* holds over the sidecar; the descriptors open on the temp file now     *)
(* write into the sidecar.  When the temp file is gone the rename fails, *)
(* os.Remove(tmpPath) runs and the error is logged.                       *)
MetaRename(p) ==
    /\ pc[p] = "metaRename"
    /\ Return(p)
    /\ \/ /\ mtmp # NoFile /\ dir
          /\ meta' = mtmp
          /\ mtmp' = NoFile
          /\ mfd' = [q \in Procs |-> CASE mfd[q] = "tmp"  -> "meta"
                                       [] mfd[q] = "meta" -> "none"
                                       [] OTHER           -> "none"]
       \/ /\ mtmp = NoFile \/ ~dir \/ MayFail
          /\ mtmp' = NoFile
          /\ mfd' = [q \in Procs |-> IF mfd[q] = "tmp" THEN "none" ELSE mfd[q]]
          /\ UNCHANGED meta
    /\ UNCHANGED <<fetched, body, tmp, dir, got, gets, cpc, seen, clears>>

(* The server process dies: the kernel drops its file lock and closes    *)
(* its descriptors; its files stay.  A new process takes its place.       *)
Crash(p) ==
    /\ MayCrash
    /\ pc[p] # "idle"
    /\ Return(p)
    /\ mfd' = [mfd EXCEPT ![p] = "none"]
    /\ UNCHANGED <<fetched, body, meta, mtmp, tmp, dir, got, gets, cpc, seen, clears>>

(* clearLocalCache: os.RemoveAll(cacheDir) opens the root and reads its *)
(* names once; a missing root is no error.                               *)
ClearReadDir ==
    /\ cpc = "idle" /\ clears < MaxClears
    /\ clears' = clears + 1
    /\ IF dir
         THEN cpc' = "removing" /\ seen' = {f \in FileNames : Present(f)}
         ELSE cpc' = "removed" /\ UNCHANGED seen
    /\ UNCHANGED <<pc, lock, fetched, body, meta, mtmp, mfd, tmp, dir, got, gets>>

(* RemoveAll unlinks the names it read, one at a time in directory order; *)
(* a name already gone is skipped, and a failed unlink leaves the file.   *)
(* Descriptors open on an unlinked file name nothing in the root.        *)
ClearUnlink(f) ==
    /\ cpc = "removing" /\ f \in seen
    /\ seen' = seen \ {f}
    /\ \/ /\ body' = IF f = "body" THEN NoFile ELSE body
          /\ meta' = IF f = "meta" THEN NoFile ELSE meta
          /\ mtmp' = IF f = "mtmp" THEN NoFile ELSE mtmp
          /\ tmp' = [p \in Procs |-> tmp[p] /\ p # f]
          /\ mfd' = [p \in Procs |->
                       IF \/ f = "meta" /\ mfd[p] = "meta"
                          \/ f = "mtmp" /\ mfd[p] = "tmp"
                       THEN "none" ELSE mfd[p]]
       \/ MayFail /\ UNCHANGED <<body, meta, mtmp, tmp, mfd>>
    /\ UNCHANGED <<pc, lock, fetched, dir, got, gets, cpc, clears>>

(* RemoveAll removes the root itself once its names are done; a file it  *)
(* could not unlink, or one created after the read, makes the rmdir fail *)
(* and clearLocalCache returns the error: the clear command exits 1.     *)
ClearRmdir ==
    /\ cpc = "removing" /\ seen = {}
    /\ IF \E f \in FileNames : Present(f)
         THEN cpc' = "idle" /\ UNCHANGED dir
         ELSE cpc' = "removed" /\ dir' = FALSE
    /\ UNCHANGED <<pc, lock, fetched, body, meta, mtmp, mfd, tmp, got, gets, seen,
                   clears>>

(* clearLocalCache: os.MkdirAll(cacheDir) recreates the empty root, or   *)
(* fails and the clear command exits 1 with the root gone.                *)
ClearMkdir ==
    /\ cpc = "removed"
    /\ cpc' = "idle"
    /\ \/ dir' = TRUE
       \/ MayFail /\ UNCHANGED dir
    /\ UNCHANGED <<pc, lock, fetched, body, meta, mtmp, mfd, tmp, got, gets, seen, clears>>

Next ==
    \/ \E p \in Procs :
          \/ StartGet(p) \/ CheckStat(p) \/ CheckMeta(p) \/ Fetch(p)
          \/ CreateTemp(p) \/ CopyTemp(p) \/ RenameBody(p)
          \/ MetaOpen(p) \/ MetaWrite(p) \/ MetaRename(p) \/ Crash(p)
    \/ ClearReadDir \/ ClearRmdir \/ ClearMkdir
    \/ \E f \in FileNames : ClearUnlink(f)

Spec == Init /\ [][Next]_vars

-----------------------------------------------------------------------------
(* Properties.                                                             *)

(* Spec 4.2/4.6: Check answers a hit only for a complete entry, and the  *)
(* broker then sends its outputID with the body's diskPath.  Every hit   *)
(* names the output whose bytes the body file holds when Check reads the *)
(* sidecar.                                                               *)
CheckReturnsMatchingEntry ==
    \A p \in Procs : got[p] # NoFile => got[p].out = got[p].body

(* Until the first clear command runs, every hit names the body on disk: *)
(* the gets alone, under the fslock group, with failed writes and dead   *)
(* processes between the body rename and the sidecar rename, never leave *)
(* a sidecar that Check reads beside a body of another output.           *)
CheckReturnsMatchingEntryUntilClear ==
    clears = 0 => CheckReturnsMatchingEntry

(* A hit never names an output other than the one whose body is on disk  *)
(* (a body that vanished under Check is not counted here).               *)
CheckNeverNamesOtherBody ==
    \A p \in Procs : got[p] # NoFile /\ got[p].body # NoFile => got[p].out = got[p].body
=============================================================================
