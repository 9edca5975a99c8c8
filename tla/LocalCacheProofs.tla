--------------------------- MODULE LocalCacheProofs ---------------------------
(***************************************************************************)
(* Proofs about LocalCache for every number of processes and outputs and *)
(* every bound: type correctness, and that under the fslock dedupe group *)
(* (Locked), until the first clear command, Check answers only hits      *)
(* whose sidecar names the body on disk, whatever fails or crashes.      *)
(***************************************************************************)
EXTENDS LocalCache, TLAPS

USE LocalCacheAssumption

(* The steps of a get that writes the entry, after Check saw a miss. *)
Writing == {"fetch", "create", "copy", "rename", "metaOpen", "metaWrite", "metaRename"}

(* Under the lock only its holder is inside a get. *)
OnlyHolderActive == \A p \in Procs : pc[p] # "idle" => lock = p

(* A sidecar naming an output names the body on disk, and a missing body *)
(* has no such sidecar.                                                  *)
EntryConsistent == meta \in Outs => meta = body

(* A writer got a miss, and no sidecar naming an output appears until its *)
(* own rename; by then the body it renamed is on disk.                   *)
WriterState ==
    \A p \in Procs :
        /\ pc[p] \in Writing => meta \notin Outs
        /\ pc[p] \in {"metaOpen", "metaWrite", "metaRename"} => body = fetched[p]
        /\ pc[p] = "metaRename" => mtmp \in {fetched[p], NoFile, Torn}

(* Only a process inside writeMetadata has the sidecar temp file open. *)
MetaFdState ==
    \A p \in Procs : mfd[p] = IF pc[p] = "metaWrite" THEN "tmp" ELSE "none"

(* What holds while no clear command has run. *)
Core ==
    /\ dir = TRUE /\ cpc = "idle"
    /\ OnlyHolderActive
    /\ EntryConsistent
    /\ WriterState
    /\ MetaFdState
    /\ CheckReturnsMatchingEntry

(* The inductive invariant of the locked runs: Core until the first clear. *)
IInv == TypeOK /\ (clears = 0 => Core)

-----------------------------------------------------------------------------
(* Type correctness, for every value of the constants.                     *)

LEMMA InitTypeOK == Init => TypeOK
  BY DEF Init, TypeOK, PcValues

LEMMA NextTypeOK == TypeOK /\ [Next]_vars => TypeOK'
  <1> SUFFICES ASSUME TypeOK, [Next]_vars PROVE TypeOK'
    OBVIOUS
  <1>1. ASSUME NEW p \in Procs, StartGet(p) PROVE TypeOK'
    BY <1>1 DEF StartGet, Goto, TypeOK, PcValues
  <1>2. ASSUME NEW p \in Procs, CheckStat(p) PROVE TypeOK'
    BY <1>2 DEF CheckStat, Goto, TypeOK, PcValues
  <1>3. ASSUME NEW p \in Procs, CheckMeta(p) PROVE TypeOK'
    BY <1>3 DEF CheckMeta, Goto, Return, TypeOK, PcValues
  <1>4. ASSUME NEW p \in Procs, Fetch(p) PROVE TypeOK'
    BY <1>4 DEF Fetch, Goto, Return, TypeOK, PcValues
  <1>5. ASSUME NEW p \in Procs, CreateTemp(p) PROVE TypeOK'
    BY <1>5 DEF CreateTemp, Goto, Return, TypeOK, PcValues
  <1>6. ASSUME NEW p \in Procs, CopyTemp(p) PROVE TypeOK'
    BY <1>6 DEF CopyTemp, Goto, Return, TypeOK, PcValues
  <1>7. ASSUME NEW p \in Procs, RenameBody(p) PROVE TypeOK'
    BY <1>7 DEF RenameBody, Goto, Return, TypeOK, PcValues
  <1>8. ASSUME NEW p \in Procs, MetaOpen(p) PROVE TypeOK'
    BY <1>8 DEF MetaOpen, Goto, Return, TypeOK, PcValues
  <1>9. ASSUME NEW p \in Procs, MetaWrite(p) PROVE TypeOK'
    BY <1>9 DEF MetaWrite, Goto, Return, TypeOK, PcValues
  <1>10. ASSUME NEW p \in Procs, MetaRename(p) PROVE TypeOK'
    BY <1>10 DEF MetaRename, Return, Goto, TypeOK, PcValues
  <1>11. ASSUME NEW p \in Procs, Crash(p) PROVE TypeOK'
    BY <1>11 DEF Crash, Return, Goto, TypeOK, PcValues
  <1>12. CASE ClearReadDir
    <2>1. clears' \in 0..MaxClears
      BY <1>12 DEF ClearReadDir, TypeOK
    <2>2. seen' \subseteq FileNames
      BY <1>12 DEF ClearReadDir, TypeOK
    <2>3. QED
      BY <1>12, <2>1, <2>2 DEF ClearReadDir, TypeOK
  <1>16. ASSUME NEW f \in FileNames, ClearUnlink(f) PROVE TypeOK'
    <2>1. tmp' \in [Procs -> BOOLEAN] /\ mfd' \in [Procs -> {"tmp", "meta", "none"}]
      BY <1>16 DEF ClearUnlink, TypeOK
    <2>2. QED
      BY <1>16, <2>1 DEF ClearUnlink, TypeOK
  <1>17. CASE ClearRmdir
    BY <1>17 DEF ClearRmdir, TypeOK
  <1>13. CASE ClearMkdir
    BY <1>13 DEF ClearMkdir, TypeOK
  <1>14. CASE UNCHANGED vars
    BY <1>14 DEF vars, TypeOK
  <1>15. QED
    BY <1>1, <1>2, <1>3, <1>4, <1>5, <1>6, <1>7, <1>8, <1>9, <1>10, <1>11,
       <1>12, <1>13, <1>14, <1>16, <1>17 DEF Next

(* Every reachable state is well typed (LocalCache.TypeOK). *)
THEOREM LocalCacheTypeCorrect == Spec => []TypeOK
  BY InitTypeOK, NextTypeOK, PTL DEF Spec
-----------------------------------------------------------------------------
(* Under the fslock group, until the first clear command.                   *)

LEMMA InitIInv == Init => IInv
  <1> SUFFICES ASSUME Init PROVE IInv
    OBVIOUS
  <1>1. TypeOK
    BY InitTypeOK
  <1>2. QED
    BY <1>1 DEF Init, IInv, Core, OnlyHolderActive, EntryConsistent, WriterState,
               MetaFdState, CheckReturnsMatchingEntry, Writing

LEMMA NextIInv ==
    ASSUME Locked
    PROVE  IInv /\ [Next]_vars => IInv'
  <1> SUFFICES ASSUME IInv, [Next]_vars PROVE IInv'
    OBVIOUS
  <1>0. TypeOK'
    BY NextTypeOK DEF IInv
  <1> SUFFICES ASSUME clears' = 0 PROVE Core'
    BY <1>0 DEF IInv
  <1>a. clears = 0
    <2>1. clears \in Nat
      BY DEF IInv, TypeOK
    <2>2. clears' = clears \/ clears' = clears + 1
      BY DEF Next, vars, StartGet, CheckStat, CheckMeta, Fetch, CreateTemp, CopyTemp,
             RenameBody, MetaOpen, MetaWrite, MetaRename, Crash, ClearReadDir,
             ClearUnlink, ClearRmdir, ClearMkdir
    <2>3. QED
      BY <2>1, <2>2
  <1>b. Core
    BY <1>a DEF IInv
  <1>c. TypeOK
    BY DEF IInv
  <1> USE <1>b, <1>c DEF Core
  <1>1. ASSUME NEW p \in Procs, StartGet(p) PROVE Core'
    BY <1>0, <1>1 DEF StartGet, Goto, OnlyHolderActive, EntryConsistent,
       WriterState, MetaFdState, CheckReturnsMatchingEntry, Writing, TypeOK, IInv
  <1>2. ASSUME NEW p \in Procs, CheckStat(p) PROVE Core'
    BY <1>0, <1>2 DEF CheckStat, Goto, OnlyHolderActive, EntryConsistent,
       WriterState, MetaFdState, CheckReturnsMatchingEntry, Writing, TypeOK
  <1>3. ASSUME NEW p \in Procs, CheckMeta(p) PROVE Core'
    BY <1>0, <1>3 DEF CheckMeta, Goto, Return, OnlyHolderActive, EntryConsistent,
       WriterState, MetaFdState, CheckReturnsMatchingEntry, Writing, TypeOK
  <1>4. ASSUME NEW p \in Procs, Fetch(p) PROVE Core'
    BY <1>0, <1>4 DEF Fetch, Goto, Return, OnlyHolderActive, EntryConsistent,
       WriterState, MetaFdState, CheckReturnsMatchingEntry, Writing, TypeOK
  <1>5. ASSUME NEW p \in Procs, CreateTemp(p) PROVE Core'
    BY <1>0, <1>5 DEF CreateTemp, Goto, Return, OnlyHolderActive, EntryConsistent,
       WriterState, MetaFdState, CheckReturnsMatchingEntry, Writing, TypeOK
  <1>6. ASSUME NEW p \in Procs, CopyTemp(p) PROVE Core'
    BY <1>0, <1>6 DEF CopyTemp, Goto, Return, OnlyHolderActive, EntryConsistent,
       WriterState, MetaFdState, CheckReturnsMatchingEntry, Writing, TypeOK
  <1>7. ASSUME NEW p \in Procs, RenameBody(p) PROVE Core'
    BY <1>0, <1>7 DEF RenameBody, Goto, Return, OnlyHolderActive, EntryConsistent,
       WriterState, MetaFdState, CheckReturnsMatchingEntry, Writing, TypeOK
  <1>8. ASSUME NEW p \in Procs, MetaOpen(p) PROVE Core'
    BY <1>0, <1>8 DEF MetaOpen, Goto, Return, OnlyHolderActive, EntryConsistent,
       WriterState, MetaFdState, CheckReturnsMatchingEntry, Writing, TypeOK
  <1>9. ASSUME NEW p \in Procs, MetaWrite(p) PROVE Core'
    BY <1>0, <1>9 DEF MetaWrite, Goto, Return, OnlyHolderActive, EntryConsistent,
       WriterState, MetaFdState, CheckReturnsMatchingEntry, Writing, TypeOK
  <1>10. ASSUME NEW p \in Procs, MetaRename(p) PROVE Core'
    BY <1>0, <1>10 DEF MetaRename, Goto, Return, OnlyHolderActive, EntryConsistent,
       WriterState, MetaFdState, CheckReturnsMatchingEntry, Writing, TypeOK
  <1>11. ASSUME NEW p \in Procs, Crash(p) PROVE Core'
    BY <1>0, <1>11 DEF Crash, Goto, Return, OnlyHolderActive, EntryConsistent,
       WriterState, MetaFdState, CheckReturnsMatchingEntry, Writing, TypeOK
  <1>12. ~ClearReadDir
    BY <1>a DEF ClearReadDir
  <1>13. ~ClearMkdir /\ ~ClearRmdir /\ \A f \in FileNames : ~ClearUnlink(f)
    BY DEF ClearMkdir, ClearRmdir, ClearUnlink
  <1>14. CASE UNCHANGED vars
    BY <1>0, <1>14 DEF vars, OnlyHolderActive, EntryConsistent,
       WriterState, MetaFdState, CheckReturnsMatchingEntry, Writing
  <1>15. QED
    BY <1>1, <1>2, <1>3, <1>4, <1>5, <1>6, <1>7, <1>8, <1>9, <1>10, <1>11,
       <1>12, <1>13, <1>14 DEF Next

(* With the fslock dedupe group, for every bound on gets and clears,     *)
(* until the first clear command every hit of Check names the output     *)
(* whose bytes the body file holds                                       *)
(* (LocalCache.CheckReturnsMatchingEntryUntilClear), whatever file       *)
(* operation fails and whichever process dies between the body rename    *)
(* and the sidecar rename.                                               *)
THEOREM CheckReturnsMatchingEntryUntilClearHolds ==
    ASSUME Locked
    PROVE  Spec => []CheckReturnsMatchingEntryUntilClear
  <1>1. Init => IInv
    BY InitIInv
  <1>2. IInv /\ [Next]_vars => IInv'
    BY NextIInv
  <1>3. IInv => CheckReturnsMatchingEntryUntilClear
    BY DEF IInv, Core, CheckReturnsMatchingEntryUntilClear
  <1>4. QED
    BY <1>1, <1>2, <1>3, PTL DEF Spec
=============================================================================
