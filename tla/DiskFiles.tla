------------------------------ MODULE DiskFiles ------------------------------
(***************************************************************************)
(* The files of the Disk backend (src/unnamed/part_001) for one action ID: *)
(* the body file <hex> and the sidecar <hex>.meta, written by Disk.Put and *)
(* read by Disk.Get.  Entries of different action IDs use disjoint paths,  *)
(* so one action ID shows every interleaving that matters.                 *)
(*                                                                         *)
(* Put goroutines may belong to several processes sharing the cache       *)
(* directory.  Within one process the singleflight key put:<hex> keeps    *)
(* two puts of one action ID apart; across processes nothing does unless  *)
(* Serialized.  Get uses the key get:<hex>, so it never waits for a Put.  *)
(*                                                                         *)
(* Files are modelled by what a reader of their path sees.  os.Create     *)
(* truncates the body file in place, so every writer that opened it       *)
(* writes into the same inode until os.Remove unlinks it; "live" is the   *)
(* set of writers whose descriptor still names the file at the path.      *)
(***************************************************************************)
EXTENDS Naturals

CONSTANTS
    Writers,     \* goroutines calling Disk.Put
    Readers,     \* goroutines calling Disk.Get
    Outs,        \* output IDs; the body of output o is the bytes of o
    NoFile,      \* no file at the path
    Torn,        \* a sidecar truncated by WriteFile and not yet written
    Bogus,       \* the empty output ID that Get parses from a torn sidecar
    MaxPuts,     \* bound on the puts of each writer
    MaxGets,     \* bound on the gets of each reader
    MayFail,     \* whether os.Create, io.Copy and os.WriteFile may fail
    MayCrash,    \* whether a writer's process may die in the middle of Put
    Serialized   \* whether puts of one action ID never overlap

(* MaxPuts and MaxGets are naturals, the flags Booleans; NoFile, Torn and *)
(* Bogus are not output IDs, and no goroutine both puts and gets.        *)

VARIABLES
    wpc,    \* wpc[w]: "idle", "created" (body truncated), "copied", "metaOpen" (sidecar truncated)
    wout,   \* wout[w]: the output ID of w's current put
    body,   \* the body file: NoFile, or [out, full]: whose bytes, and all of them
    meta,   \* the sidecar: NoFile, Torn, or the output ID it names
    live,   \* the writers whose descriptor names the body file now at the path
    puts,   \* puts[w]: puts started by w
    rpc,    \* rpc[r]: "idle" or "statted" (os.Stat found the body)
    got,    \* got[r]: the last result of Get: [hit, out, body] (body: the file when Get returned)
    gets    \* gets[r]: gets started by r

vars == <<wpc, wout, body, meta, live, puts, rpc, got, gets>>

Bodies == [out : Outs, full : BOOLEAN]

Miss == [hit |-> FALSE, out |-> NoFile, body |-> NoFile]

TypeOK ==
    /\ wpc \in [Writers -> {"idle", "created", "copied", "metaOpen"}]
    /\ wout \in [Writers -> Outs]
    /\ body \in Bodies \cup {NoFile}
    /\ meta \in Outs \cup {NoFile, Torn}
    /\ live \subseteq Writers
    /\ puts \in [Writers -> 0..MaxPuts]
    /\ rpc \in [Readers -> {"idle", "statted"}]
    /\ got \in [Readers -> {Miss} \cup [hit : {TRUE}, out : Outs \cup {Bogus},
                                        body : Bodies \cup {NoFile}]]
    /\ gets \in [Readers -> 0..MaxGets]

(* The cache directory starts empty or holding a complete entry. *)
Init ==
    /\ wpc = [w \in Writers |-> "idle"]
    /\ wout \in [Writers -> Outs]
    /\ \/ body = NoFile /\ meta = NoFile
       \/ \E o \in Outs : body = [out |-> o, full |-> TRUE] /\ meta = o
    /\ live = {}
    /\ puts = [w \in Writers |-> 0]
    /\ rpc = [r \in Readers |-> "idle"]
    /\ got = [r \in Readers |-> Miss]
    /\ gets = [r \in Readers |-> 0]

-----------------------------------------------------------------------------
(* The put ends: Put returns and the deferred file.Close runs. *)
PutReturns(w) == wpc' = [wpc EXCEPT ![w] = "idle"]

(* os.Remove(diskPath) on an error path: the body file is unlinked. *)
RemoveBody == body' = NoFile /\ live' = {}

(* Put(actionID, o): os.Create(diskPath) creates the body file or        *)
(* truncates the one there to nothing, or fails and Put returns.          *)
PutCreate(w, o) ==
    /\ wpc[w] = "idle" /\ puts[w] < MaxPuts
    /\ Serialized => \A v \in Writers : wpc[v] = "idle"
    /\ wout' = [wout EXCEPT ![w] = o]
    /\ puts' = [puts EXCEPT ![w] = @ + 1]
    /\ \/ /\ wpc' = [wpc EXCEPT ![w] = "created"]
          /\ body' = [out |-> o, full |-> FALSE]
          /\ live' = IF body = NoFile THEN {w} ELSE live \cup {w}
       \/ /\ MayFail
          /\ UNCHANGED <<wpc, body, live>>
    /\ UNCHANGED <<meta, rpc, got, gets>>

(* io.Copy(file, body) writes the whole body at offset 0 of w's file; on *)
(* an error or a size mismatch os.Remove(diskPath) and Put returns.       *)
(* Another writer's bytes past the end of w's body are not modelled:      *)
(* every body of one action ID is taken to have one length.               *)
PutCopy(w) ==
    /\ wpc[w] = "created"
    /\ \/ /\ wpc' = [wpc EXCEPT ![w] = "copied"]
          /\ body' = IF w \in live THEN [out |-> wout[w], full |-> TRUE] ELSE body
          /\ UNCHANGED live
       \/ /\ MayFail
          /\ PutReturns(w)
          /\ RemoveBody
    /\ UNCHANGED <<wout, meta, puts, rpc, got, gets>>

(* os.WriteFile(metaPath) opens the sidecar with O_TRUNC, or fails to    *)
(* open it; then os.Remove(diskPath) and Put returns.                     *)
PutMetaOpen(w) ==
    /\ wpc[w] = "copied"
    /\ \/ /\ wpc' = [wpc EXCEPT ![w] = "metaOpen"]
          /\ meta' = Torn
          /\ UNCHANGED <<body, live>>
       \/ /\ MayFail
          /\ PutReturns(w)
          /\ RemoveBody
          /\ UNCHANGED meta
    /\ UNCHANGED <<wout, puts, rpc, got, gets>>

(* os.WriteFile writes "outputID:<hex>\nsize:..\ntime:..\n", or fails   *)
(* with the sidecar left truncated and Put removes the body.              *)
PutMetaWrite(w) ==
    /\ wpc[w] = "metaOpen"
    /\ PutReturns(w)
    /\ \/ /\ meta' = wout[w]
          /\ UNCHANGED <<body, live>>
       \/ /\ MayFail
          /\ RemoveBody
          /\ UNCHANGED meta
    /\ UNCHANGED <<wout, puts, rpc, got, gets>>

(* The writer's process dies; the files stay as they are. *)
Crash(w) ==
    /\ MayCrash
    /\ wpc[w] # "idle"
    /\ wpc' = [wpc EXCEPT ![w] = "idle"]
    /\ live' = live \ {w}
    /\ UNCHANGED <<wout, body, meta, puts, rpc, got, gets>>

(* Get(actionID): os.Stat(diskPath); a missing body is a miss. *)
GetStat(r) ==
    /\ rpc[r] = "idle" /\ gets[r] < MaxGets
    /\ gets' = [gets EXCEPT ![r] = @ + 1]
    /\ IF body = NoFile
          THEN got' = [got EXCEPT ![r] = Miss] /\ UNCHANGED rpc
          ELSE rpc' = [rpc EXCEPT ![r] = "statted"] /\ UNCHANGED got
    /\ UNCHANGED <<wpc, wout, body, meta, live, puts>>

(* os.ReadFile(metaPath) and the parse.  A missing sidecar is a miss.  A *)
(* truncated one has no outputID line: outputIDHex stays "", and          *)
(* hex.DecodeString("") succeeds, so Get returns a hit with an empty       *)
(* output ID.  The reply carries diskPath, which the go command reads.    *)
GetRead(r) ==
    /\ rpc[r] = "statted"
    /\ rpc' = [rpc EXCEPT ![r] = "idle"]
    /\ got' = [got EXCEPT ![r] =
                 CASE meta = NoFile -> Miss
                   [] meta = Torn   -> [hit |-> TRUE, out |-> Bogus, body |-> body]
                   [] OTHER         -> [hit |-> TRUE, out |-> meta, body |-> body]]
    /\ UNCHANGED <<wpc, wout, body, meta, live, puts, gets>>

Next ==
    \/ \E w \in Writers, o \in Outs : PutCreate(w, o)
    \/ \E w \in Writers : PutCopy(w) \/ PutMetaOpen(w) \/ PutMetaWrite(w) \/ Crash(w)
    \/ \E r \in Readers : GetStat(r) \/ GetRead(r)

Spec == Init /\ [][Next]_vars

-----------------------------------------------------------------------------
(* Properties.                                                             *)

(* Spec 8 (atomic write) and 7.3 (a corrupt sidecar is a miss): a reader *)
(* of DiskPath while a put of the same action ID is in progress sees the *)
(* prior or the new entry, never a partial one.  Every hit of Disk.Get   *)
(* names an output whose whole body the file holds when Get returns.     *)
GetHitIsCompleteEntry ==
    \A r \in Readers :
        got[r].hit => got[r].body = [out |-> got[r].out, full |-> TRUE]
=============================================================================
