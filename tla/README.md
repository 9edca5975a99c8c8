# A TLA+ model of gobuildcache

gobuildcache is a `GOCACHEPROG` helper. The go command starts it and writes
JSON requests (`put`, `get`, `close`) on its stdin. It answers on stdout and
keeps the build outputs in a backend: local disk or S3. This directory holds
TLA+ modules for the parts of the program whose correctness depends on
concurrency and failures, the TLC models that check them, and the TLAPS
proofs of the main invariants.

## 1. The system and its parts

| Part | Source | State | Operations |
|---|---|---|---|
| Request broker | `src/unnamed/part_010` 1-529 (`CacheProg`) | stdin reader, stdout `bufio.Writer` behind a mutex (its error is sticky), a `sync.WaitGroup`, `errChan` (buffered, capacity 1), the `done` channel | `Run`: handshake, read loop, close, spawn one goroutine per request, poll `errChan`, final `select` |
| Singleflight | `part_010` 247-290, `golang.org/x/sync/singleflight`, `part_005` | map from key (`put:<hex>`, `get:<hex>`) to the call in flight | `Do`: join a call or lead one; delete the key when fn returns |
| Framing | `part_010` 137-198 | none | `readLine`, `ReadRequest` (JSON plus a base64 body line) |
| Disk backend | `part_001` | `<hex>` body file and `<hex>.meta` file per action ID | `Put` (create/truncate, copy, metadata; remove on error), `Get` (stat, read metadata), `Clear` |
| S3 backend | `part_000` | S3 objects plus a local copy | `Put` (upload, then write the local file), `Get` (download if the local file is absent) |
| Local cache | `part_003` 256-465 | body files and `.meta` sidecars | `Write` (temp file plus rename), `writeMetadata` (fixed `meta.tmp`, rename), `WriteWithMetadata`, `Check` |
| Dedupe lockers | `part_006` (MemLock), `part_009` (GofslockGroup), `dedupe/fslock.go`, `dedupe/noop.go` | in-process maps, lock files | `Do` / `DoWithLock` under a per-key lock; the file lock times out after 1s |
| Wrappers | `part_002` (Error), `backends/debug.go` | a random source | pass through, or fail at random |
| Process | `main.go` | flags, environment | choose the backend and the dedupe group, `Run`, deferred `backend.Close` |

How they interact. `Run` reads one request at a time. A `close` is handled by
`Run` itself after `wg.Wait()`. Every other request gets a goroutine. That
goroutine calls `HandleRequest`, which sends put and get through the
singleflight group to the backend. The goroutine then writes the response
under the writer mutex. If the write fails, it puts the error on `errChan`
without blocking and drops it if the channel is full. After each spawn,
`Run` polls `errChan`. When the loop ends (EOF, or after the close
response), `Run` waits in a `select` on `done` (all goroutines finished) and
`errChan`.

The hard behaviours:
- goroutines finish and write in any order;
- waiters join a singleflight call at any time until its key is deleted;
- the backend and stdout may fail, and the writer's failure is sticky;
- `errChan` has one slot, and later errors are dropped;
- Go's `select` picks at random among the ready cases;
- the peer sends any sequence of requests, end of input or a malformed line.

In the lockers the hard part is several processes sharing one lock
directory. A waiter polls the lock file every 10ms until a one-second
deadline. A holder may never return, or its process may die while it holds
the lock. In the backends' files (not yet modelled), files are rewritten in
place, or through a fixed temp path, and a crash can fall between two file
writes.

The process (`main.go`) chooses what runs:
- `main` dispatches on the first argument: server flags, `clear` or `help`;
- the settings come from a flag, else the environment, else a default;
- `createBackend` builds the backend and wraps it in Error (error rate
  above 0) and Debug;
- `createDedupeGroup` builds the dedupe group;
- the server runs with a deferred `backend.Close`, and `os.Exit(1)` ends the
  process on every error;
- `clear` empties the backend and then the local cache directory.

`main.go` holds two versions of `main`. In the earlier one (lines 339-463),
the configuration comes only from the environment, and `clear` empties the
Disk or S3 backend alone.

The sources mix versions, and the model follows each file:
- the current `main` calls a five-argument `NewCacheProg` (main.go:183) that is not in `src/`;
- part_010's two-argument constructor (line 85) is the one the earlier `main` calls (line 380);
- the earlier `main`'s `NewDiskBackend` (line 433) is not in `src/` either, so its Disk steps are modelled from `Disk` in part_001.

`Broker` models part_010's `Run`, which both servers share in their request loop.

## 2. Modules

| Module | Models | Status |
|---|---|---|
| `Broker` | `CacheProg.Run`, its goroutines, `HandleRequest`, the singleflight group; the Disk backend as an atomic store | done |
| `MCBroker` | model values for TLC (one action ID, one output ID) | done |
| `BrokerProofs` | inductive invariant and TLAPS proofs for `Broker`: types, singleflight | done |
| `BrokerOutputProofs` | TLAPS proofs for `Broker`'s output on stdout: one response per request, close answered last, return after every answer | done |
| `CacheService` | the abstract protocol of the broker towards its peer (spec §4.6, §5, §8): handshake, serving, draining, closed; the lines on stdout; refined by `Broker` | done |
| `BrokerServiceProofs` | TLAPS proof that `Broker` implements `CacheService` | done |
| `LockGroup` | the abstract contract of a dedupe group (spec §4.5): run fn alone for the key, or fail without running it | done |
| `FSLock` | `FSLockGroup.Do` (`dedupe/fslock.go`) and `NoOpGroup.Do` (`dedupe/noop.go`) in several processes, with crashes; refines `LockGroup` | done |
| `MCFSLock` | model values and symmetry for TLC | done |
| `FSLockProofs` | TLAPS proofs for `FSLock`: types, mutual exclusion, the refinement | done |
| `Process` | both versions of `main.go`: dispatch, settings, `createBackend`, `createDedupeGroup`, `runServer`, `runClear`, `clearLocalCache` | done |
| `MCProcess` | the arguments, environment values and flag values TLC enumerates | done |
| `ProcessProofs` | TLAPS proofs for `Process`: types, exit status, the clear message | done |
| `DiskFiles` | the files of `Disk.Put` and `Disk.Get` (part_001) for one action ID: truncation in place, the copy, the sidecar, every error path, crashes, writers of one or several processes | done |
| `MCDiskFiles` | model values and symmetry for TLC | done |
| `LocalCache` | `LocalCache.Write`, `writeMetadata`, `WriteWithMetadata`, `Check` (part_003) under several processes, with crashes and `clearLocalCache` | done |
| `MCLocalCache` | model values and symmetry for TLC | done |
| `LocalCacheProofs` | TLAPS proofs for `LocalCache`: types, Check's hits until a clear | done |
| `MemLock` | `MemLock.DoWithLock` (part_006), the default `memory` dedupe group | done |
| `MCMemLock` | model values for TLC | done |
| `Gofslock` | `GofslockGroup.Do` (part_009): in-process joining, juju/fslock's blocking `Lock`, its failure | done |
| `MCGofslock` | model values and symmetry for TLC | done |

### How Broker corresponds to the code

Each request's ID is its position in the input; `reqs` holds the requests read.

| Variable | Code |
|---|---|
| `rd` | where `Run` is: `handshake`, `reading`, `poll` (the `errChan` poll after a spawn), `closeWait` (wg.Wait before close), `finalWait` (the final select), `errWait` (wg.Wait before returning an error), `returned` |
| `ret` | what `Run` returned |
| `pc[i]` | the goroutine of request i: `dispatch` (spawned), `wait` (joined a call), `call` (leads and runs fn), `ret` (fn returned, key still in the map), `send`, `done` / `lost` (its write succeeded / failed) |
| `leader[i]` | the call a waiter joined |
| `flights` | the singleflight map |
| `res[i]` | the (resp, err) that `HandleRequest` returned |
| `store` | action ID to output ID, or `NoOutput` |
| `errChan` | whether the one slot of the channel is full |
| `wbroken` | the sticky error of the `bufio.Writer` |
| `out` | the response lines written |

One action per step of the code:

| Action | Code | What the step does |
|---|---|---|
| `Handshake` | `SendInitialResponse` | write the ID-0 line, or fail |
| `ReadRequest(r)` | | read one request: a `close` is kept for `Run`, anything else gets a goroutine |
| `ReadEOF`, `ReadMalformed` | | end of input, or a framing error |
| `PollErrChan` | | the non-blocking poll after a spawn |
| `HandleClose` | | wg.Wait, `Backend.Close`, write the reply, break or return |
| `FinalDone`, `FinalErr` | | the two cases of the final select |
| `ReturnErr` | | wg.Wait, then return the error |
| `Dispatch(i)` | `HandleRequest` plus `Do` under `g.mu` | |
| `CallBackend(i)` | | fn: `BackendPut` models `Disk.Put`, including its error paths; `BackendGet` models `Disk.Get` |
| `FinishCall(i)` | | doCall's epilogue: the key is deleted |
| `WakeWaiter(i)` | | the shared result |
| `SendReply(i)` | | `SendResponse`, the `errChan` send, `wg.Done` |

A backend failure (`BackendMayFail`) stands for the injected failures of the
Error wrapper and the real errors of Disk.Put and S3. Disk.Get itself never
returns an error.

The peer is the environment. The request fields that `HandleRequest` never
reads are fixed to one value (`PeerRequests`), so that requests differing
only in those fields are not counted as different states.

### How FSLock corresponds to the code

A caller is a pair (process, goroutine slot), so goroutines of one process
and of different processes are modelled alike. That matches the code:
every `Do` opens its own descriptor of the lock file, and flock(2) excludes
two descriptors even within one process.

| Variable | Code |
|---|---|
| `pc[c]` | `idle`, `trying` (inside `TryLockContext`) or `running` (inside fn) |
| `key[c]` | the key passed to `Do` |
| `waited[c]` | the 10ms retries slept so far; `MaxPolls` retries make up the one-second deadline |
| `holder[k]` | the descriptor holding the flock of `k`'s lock file, or `NoOwner` |
| `result[c]` | what the last `Do` returned: `ok`, `fnErr`, `lockErr` (flock.New or flock failed), `ctxErr` (the deadline passed) |
| `calls[c]` | a bound on the calls per goroutine |

| Action | Code |
|---|---|
| `Call(c, k)` | `Do` up to `TryLockContext` (fslock.go 46-55); `NoOpGroup.Do` goes to fn at once (`DoEntry`) |
| `TryLock(c)` | one round of `TryLockContext`: take the free lock; sleep 10ms; return `(false, ctx.Err())` at the deadline (line 58); or an open/flock error |
| `Finish(c)` | fn returns, and the deferred `Unlock` (line 63) frees the lock |
| `Crash(p)` | process `p` dies, and the kernel drops its flocks; a fresh process takes its place |

`TryLockContext` belongs to gofrs/flock, which is not in `src/`. It is
modelled from that library's behaviour: it polls `TryLock` and, once the
context is done, returns the context's error.

### How Process corresponds to the code

State: `pc` (where `main` is), `in` (the arguments, environment and flag
outcome chosen at start), `backend` (the backend stack built, or the failure
of `createBackend`), `closes` (`Close` calls), `err`, `exit` (`Running` until
`os.Exit` or the return from `main`), `remote` and `local` (the backend's and
the local cache directory's contents), and `printed` ("cleared"
reported).

| Action | Code |
|---|---|
| `Main` / `Main2` | `main`, in the current and the earlier version |
| `ServerCommand`, `ClearCommand` | flag parsing (`flag.ExitOnError`: a bad flag exits 2, `-h` exits 0) |
| `NewBackend` | `createBackend` and the deferred `Close` (main.go 166-173) |
| `NewDedupeGroup`, `NewProg` | `createDedupeGroup`, `NewCacheProg` |
| `RunProg` | `prog.Run`: its outcome, then `os.Exit(1)` or the return that runs the deferred `Close` |
| `ClearBackend` | `backend.Clear` through the wrappers (`ClearOutcomes`: S3 list and delete errors and S3's nil with keys left, Disk read and remove errors, the Error wrapper); `ClearNil` is the outcomes with a nil error |
| `ClearLocal` | `clearLocalCache`: `RemoveAll`, then `MkdirAll` |

`CacheProg.Run` is abstracted to its outcomes here; `Broker` models it in
detail. Text parsing is modelled by what it yields: `Lower` is
`strings.ToLower` on the enumerated inputs, and `ScanRate` is `Sscanf("%f")`
on them. A float that does not parse keeps the default.

### How DiskFiles corresponds to the code

One action ID is enough: entries of different IDs use disjoint paths. The
body file is modelled by what a reader of the path sees: `[out, full]`, the
output whose bytes it holds and whether all of them are there. The sidecar is
`NoFile`, `Torn` (truncated and not yet written) or the output it names.
`live` is the set of writers whose descriptor still names the file at the
path. `os.Create` truncates in place, so two writers write into one inode.
`os.Remove` unlinks it.

| Action | Code (part_001) |
|---|---|
| `PutCreate` | `os.Create(diskPath)` (70), or its error (71-73) |
| `PutCopy` | `io.Copy` and the size check (79-88); on error `os.Remove` (`RemoveBody`) |
| `PutMetaOpen`, `PutMetaWrite` | `os.WriteFile(metaPath)` (95): its `O_TRUNC` open, then the write, or an error with `os.Remove(diskPath)` (96) |
| `Crash` | the process dies anywhere in `Put` |
| `GetStat` | `os.Stat(diskPath)` (114-116) |
| `GetRead` | `os.ReadFile(metaPath)` and the parse (119-154). With no `outputID:` line, `hex.DecodeString("")` succeeds and the result is `Bogus`, the empty ID |

`Serialized` says whether puts of one action ID never overlap. That holds
within one process, where the singleflight key `put:<hex>` keeps them
apart. It does not hold across processes sharing the directory. Bodies of
size 0 skip the copy (78). The model always copies, since a size-0 body
cannot be partial.

### How LocalCache corresponds to the code

This is one action ID on a cache root shared by server processes. Each
process runs gets (spec §4.6): `Check`, and on a miss `Backend.Get`, then
`WriteWithMetadata`. The server that runs this get path is not in `src/`, so
`StartGet`, `Fetch` and `Return` are modelled from the spec. `Locked` says
whether the get runs under the fslock group's per-key file lock. With the
memory or noop group, nothing keeps two processes apart.

| Action | Code |
|---|---|
| `CheckStat`, `CheckMeta` | `Check` (part_003:436-454), `readMetadata` (335-376); a missing sidecar, a torn one (no `outputID`) or one naming no output is a miss |
| `CreateTemp`, `CopyTemp`, `RenameBody` | `Write` (380-412): `CreateTemp`, copy and close, rename, and the deferred `os.Remove(tmpPath)` on every error |
| `MetaOpen`, `MetaWrite`, `MetaRename` | `writeMetadata` (309-331) through the fixed path `<hex>.meta.tmp`; `mfd[p]` follows where p's open descriptor points after renames |
| `Crash` | the process dies; the kernel drops its lock |
| `ClearReadDir`, `ClearUnlink`, `ClearRmdir`, `ClearMkdir` | `clearLocalCache` (main.go:219-232), run by a `gobuildcache clear` process at any time. `os.RemoveAll` is not atomic: it reads the directory's names once (`seen`), unlinks them one at a time (an unlink may fail and leave the file), and its final `rmdir` fails if a file is left or was created after the read; then `clear` exits 1 without `MkdirAll` |

An error from `writeMetadata` is only logged (428), and the get still
answers with the body.

`S3Backend.Clear` (part_000:193-245) sends each batch with `Quiet: true`
and checks only the call's error. The per-key failures that DeleteObjects
reports in its response are never read. `BaseClear` therefore has the
outcome `keysLeft`: the error is nil, and the bucket is still partly
full.

### How MemLock and Gofslock correspond to the code

`MemLock`:
- `Call` is `s.Lock()` (part_006:15).
- `Lookup` is the map read, the insert and `s.Unlock()` (16-21). On the nil map that `NewMemLock` leaves, the insert panics, and `panicked` ends every step.
- `LockKey` and `Finish` are the key's mutex (22-24).

`Gofslock` covers processes × goroutines, with the `calls` map of each process:
- `Call` joins the call in flight or records a new one (60-73).
- `Lock` is juju/fslock's blocking `Lock`: it takes the file when it is free, or fails (76-83). On failure the key is deleted and `done` is closed with no result set.
- `Finish` is `fn` and `Unlock` (86-89).
- `Close` is the delete and `close(done)` (92-97). It returns every waiter with the leader's result.

`NewGofslockGroup` is not called by `main.go`.

## 3. Runs

| Run | cfg | Expect | Checks |
|---|---|---|---|
| broker_safety | `MCBroker.cfg` | pass | `OneResponsePerRequest`, `CloseAnsweredLast`, `SingleFlight`, `ReturnAfterAllAnswered`, `ImplementsCacheService`, `EveryRequestAnswered`, `RunReturns` |
| broker_stale_get | `MCBrokerStale.cfg` | violation | `GetAfterAckedPutHits` |
| broker_lost_write | `MCBrokerLostWrite.cfg` | violation | `ReturnOkOnlyIfAllWritten` |
| fslock | `MCFSLock.cfg` | pass | `MutualExclusion`, `LockHeldOnlyInFn`, `ImplementsLockGroup`, `WaitersReturn` |
| process | `MCProcess.cfg` | pass | `TypeOK`, `ExitStatusReportsOutcome`, `ClearPrintedOnlyAfterNilErrors` |
| process_s3_clear | `MCProcessS3Clear.cfg` | violation | `ClearReportsOnlyCompleteClear` |
| disk_get_during_put | `MCDiskFiles.cfg` | violation | `GetHitIsCompleteEntry` |
| localcache_locked | `MCLocalCache.cfg` | pass | `CheckReturnsMatchingEntryUntilClear` |
| localcache_clear | `MCLocalCacheClear.cfg` | violation | `CheckReturnsMatchingEntry` |
| localcache_stale_sidecar | `MCLocalCacheStale.cfg` | violation | `CheckNeverNamesOtherBody` |
| memlock_default_group | `MCMemLock.cfg` | violation | `NoPanic` |
| gofslock_lock_error | `MCGofslock.cfg` | violation | `WaitersShareLeaderResult` |

What the safety properties say:
- `OneResponsePerRequest`:
  - the handshake is the first line;
  - every later line answers a request that was read;
  - no request is answered twice.
- `CloseAnsweredLast`: the close reply is written after every other reply.
- `SingleFlight`: no two goroutines hold a call of one key at once.
- `ReturnAfterAllAnswered`: `Run` returns only when every request read has been answered, or stdout has failed.
- `ImplementsCacheService`: every behaviour of the broker is a behaviour of `CacheService` under the mapping in `Broker`:
  - `RunPhase` maps `rd` to the service's phase: `handshake`; `reading` and `poll` are serving; `closeWait`, `finalWait` and `errWait` are draining; `returned` is closed;
  - `OutIDs` is the sequence of IDs on stdout, `reqs` the requests received and `wbroken` the failed writer.
  This is an action-level property: the service's steps forbid a line after `Run` returned, a second answer, an answer to a request not read, and a read after the close.

Each passing property has a mutant, a plausible bug that TLC catches:

| Mutant | Caught by |
|---|---|
| a reply written twice | `OneResponsePerRequest` |
| close without `wg.Wait` | `CloseAnsweredLast` |
| `Do` without the map lookup | `SingleFlight` |
| the final select without waiting | `ReturnAfterAllAnswered` |
| an unknown command left without a reply | `EveryRequestAnswered` |
| no `break` after close | `RunReturns`, `ImplementsCacheService` |

Bounds:
- Three requests are enough for a leader, a waiter and a third request (a put, or a close) to interleave.
- One action ID makes every put and every get collide on their singleflight keys, and the put key differs from the get key, which is the case the properties are about. A second action ID only adds independent calls, and made the run with liveness take over five minutes.
- One output ID suffices because the properties compare presence in the store, not the value.
- There is no symmetry, which is unsound with liveness. The run reaches about 244,000 distinct states in about a minute.

FSLock run:
- `MutualExclusion`: no two goroutines, of one process or of two, run fn for one key at once.
- `LockHeldOnlyInFn`: a lock file is held only by a goroutine running fn for that key. This means the deferred `Unlock` and a crash free it on every path.
- `ImplementsLockGroup`: every behaviour is a `LockGroup` behaviour, under the mapping that calls a goroutine in `TryLockContext` waiting. A retry is a stutter.
- `WaitersReturn`: a goroutine waiting for a lock returns, with the lock or an error, even when the holder's fn never returns.
- Bounds:
  - two processes with two goroutines each, two keys, two retries, one call per goroutine, and lock errors on;
  - this makes same-process and cross-process contention, a deadline, a lock error and a crash of a holder all happen;
  - there is no symmetry, because symmetry is unsound with liveness;
  - about 426,000 distinct states in about a minute.
- Mutants:
  - the lock taken without checking the holder breaks `MutualExclusion` and `ImplementsLockGroup`;
  - an unlock only on success breaks `LockHeldOnlyInFn`;
  - retrying with no deadline breaks `WaitersReturn`.

Process run: both versions of `main` (the input field `version`), with every enumerated argument, flag outcome and environment value, and every failure of the steps.
- `ExitStatusReportsOutcome`: the exit status is 0 exactly when no step failed. A clean exit with a backend closed that backend (the deferred `Close`).
- `ClearPrintedOnlyAfterNilErrors`: "cleared" is printed only after `backend.Clear`, and in the current version `RemoveAll` and `MkdirAll`, returned nil. The backend is then empty, unless it is S3 and some keys failed to delete. In the current version the local cache directory exists and is empty.
- About 390,000 distinct states.
- process_s3_clear checks the stronger `ClearReportsOnlyCompleteClear`: "cleared" only when the backend is empty. It is violated (finding 7).
- Mutants:
  - a `createBackend` error that is not checked breaks `TypeOK`;
  - `os.Exit(0)` that skips the deferred `Close` breaks `ExitStatusReportsOutcome`;
  - a `Clear` error that is not checked breaks `ClearPrintedOnlyAfterNilErrors`.

DiskFiles run (disk_get_during_put): two writers of one process, so their
puts never overlap (`Serialized`), one reader, two output IDs with symmetry,
two puts and two gets each, failures and crashes on.
- `GetHitIsCompleteEntry`: every hit of `Get` names an output whose whole body the file holds.
- It is violated (finding 3).
- The same invariant catches two more routes, which longer traces reach:
  - a sidecar read between its truncation and its write (part_001:95);
  - with `Serialized` off, puts from two processes writing one inode.
- These routes are listed as hazards. The run shows only the shortest trace.

LocalCache runs (two processes, two output IDs with symmetry, three gets
each, one clear command; no deadlock check, for the same reason):
- `CheckReturnsMatchingEntry`: every hit of `Check` names the output whose bytes the body file holds when the sidecar is read.
- `CheckReturnsMatchingEntryUntilClear`: the same, as long as no clear has started.
- `CheckNeverNamesOtherBody`: a hit whose body file still exists names the output that body holds. A hit with the body gone is allowed here.
- localcache_locked checks `CheckReturnsMatchingEntryUntilClear` under the file lock, with failures and crashes. The clear still runs, so the gets also meet a half-removed and a recreated directory. About 271,000 distinct states. It holds because a rewrite happens only after `Check` saw a miss, and a body without a sidecar naming it is a miss. An unchecked body-rename error breaks it (the mutant).
- localcache_clear is a violation run: even with no failure and no crash, the clear's `RemoveAll` breaks `CheckReturnsMatchingEntry` (finding 8).
- localcache_stale_sidecar is a violation run: with failures, `CheckNeverNamesOtherBody` breaks too (finding 4).
- With `Locked` off, the same invariant fails even without a clear: two processes share the one `<hex>.meta.tmp`, and interleave a body rename with a sidecar rename (13 steps). `Locked` off means a group that does not exclude other processes; main.go constructs the fslock group. Spec §5 requires the local cache to be safe across processes. No run is kept for this case.

MemLock and Gofslock have violation runs only: findings 5 and 6.

The `NoOpGroup` branch of `DoEntry` is kept in the model, but no run sets
`Group` to `"noop"`. That group excludes nothing, so `MutualExclusion` would
fail by design.

Fairness: weak fairness of `Run`'s steps and of every goroutine. The Go
scheduler eventually runs every runnable goroutine, and `g.mu` and the
writer mutex are eventually granted. The peer has no fairness: it may stop
sending at any point. Only steps the code always takes are made fair.

### Findings

1. **A get can miss after a put was acknowledged** (broker_stale_get). The
   violation takes several steps:
   - get(A) leads a call and reads the empty store;
   - put(A) runs, is stored and is acknowledged;
   - a second get(A), read after that acknowledgement, joins the first get's
     call, which is still in the map;
   - that second get is answered with a miss.

   Spec §8 says a get after a successful put is a hit. (part_010:281)
2. **`Run` can return nil after a lost response** (broker_lost_write). A
   goroutine's write fails and it fills `errChan`. Then EOF is read, and the
   final select takes `done`. Spec §4.6 says a stdout write error is fatal.
   (part_010:475)

In FSLock, only `TryLock` is weakly fair. The goroutine inside
`TryLockContext` is runnable, and its timer fires. fn is a backend call with
no deadline, so it has no fairness. Callers and crashes are the environment.

3. **Get can answer a hit on a partial body** (disk_get_during_put).
   `Disk.Put` truncates the final path with `os.Create` and writes into it.
   `Get` uses the key `get:<hex>`, so it does not wait for the put, and it
   answers with that path. Spec §8 says a reader never sees a partial file.
   (part_001:70)
4. **A stale LocalCache sidecar survives a failed metadata write**
   (localcache_stale_sidecar). The steps:
   - a clear's `RemoveAll` unlinks the body but not yet the sidecar;
   - a get misses, fetches another output and renames the new body in;
   - its sidecar write fails, and the error is only logged.

   The next `Check` answers a hit naming the old output over the new body. The comment at
   part_003:428 says "just missing metadata", and spec §4.2 says such an
   entry is unreadable. (part_003:424)
5. **MemLock panics on its first call** (memlock_default_group).
   `NewMemLock` leaves `locks` nil, and `s.locks[key] = lock` panics. The
   memory group is the default dedupe type of the current main
   (main.go:57, 279-281). (part_006:19)
6. **Waiters of a failed Gofslock call get (nil, nil)**
   (gofslock_lock_error). When `lock.Lock` fails, `done` is closed without
   setting `call.err`. The type comment (line 16) says waiters share the
   result. (part_009:81)
7. **`clear` reports success with keys left in S3** (process_s3_clear).
   `S3Backend.Clear` sends DeleteObjects with `Quiet: true`, and checks
   only the call's error. Keys whose delete failed are listed in the
   response's `Errors`, which is never read. Clear returns nil, and
   `runClear` prints "Cache cleared successfully" and exits 0. The comment
   on Clear says it removes all entries. (part_000:233-237)
8. **A hit whose body file is gone** (localcache_clear).
   `clearLocalCache` runs `os.RemoveAll` on the cache root while servers
   use it, under no lock. RemoveAll unlinks one name at a time. The steps:
   - a get's `Check` stats the body, which is there;
   - the clear unlinks the body;
   - `Check` reads the sidecar, not unlinked yet, and answers a hit with a
     `DiskPath` that no longer exists.

   No failure and no crash is needed. (main.go:222)

The error text after an FSLockGroup deadline is not kept as a run.
`TryLockContext` returns `(false, ctx.Err())`, so `Do` reports "failed to
acquire lock: context deadline exceeded" (fslock.go:58). Spec §4.5 names
"failed to acquire lock: timeout" (line 61), which is never reached. The
model's results keep the distinction (`ctxErr`).

## 4. Proofs

`BrokerProofs` proves, for every value of the constants that satisfies
`BrokerAssumption`:
- `TypeCorrect`: `Spec => []TypeOK`;
- `SingleFlightHolds`: `Spec => []SingleFlight`.

Neither invariant is inductive on its own. For example, a waiter copies
`res[leader[i]]`, which is typed only if `leader[i]` is a real request, and
singleflight exclusion depends on how the map and the goroutines' states fit
together. The proofs therefore rest on

`IInv == TypeOK /\ Spawned /\ WaitersHaveLeader /\ FlightMap`

- `Spawned`: only requests that were read and are not a close have goroutines.
- `WaitersHaveLeader`: every waiter records a real request as its leader.
- `FlightMap`: `flights` maps a key to exactly the goroutine in `call` or `ret` for that key.

There is one lemma per action. Two generic lemmas cover the steps that
change one goroutine or none: `PcLocal` and `StableParts`. The theorems
combine `InitIInv` and `NextIInv` by PTL. TLC also checked `IInv` as an
invariant on a small model before it was proved.

`FSLockProofs` proves, for every number of processes, goroutines, keys and
retries that satisfies `FSLockAssumption`:
- `FSLockTypeCorrect`: `Spec => []TypeOK`;
- `MutualExclusionHolds` and `LockHeldOnlyInFnHolds`, both for `Group = "fslock"`;
- `FSLockImplementsLockGroup`: `Spec => ImplementsLockGroup`, also for `Group = "fslock"`.

`MutualExclusion` is not inductive as it stands. The inductive invariant is
`IInv == TypeOK /\ LockHeldOnlyInFn /\ RunningHolds`, where `RunningHolds`
says that a goroutine running fn holds its key's lock. Together with
`LockHeldOnlyInFn`, this makes holder and running goroutine determine each
other, so two runners of one key would be the same holder. The refinement
proof maps:
- `Init` to `AInit`;
- an acquiring `TryLock` to `AEnter`;
- the deadline and error returns to `AFail`;
- a sleeping retry to a stutter;
- `Finish` to `AFinish` for the caller's key, which by `RunningHolds` the caller holds, so the deferred `Unlock` frees exactly that key;
- `Crash(p)` to `ACrash({p} \X Slots)`.

`BrokerServiceProofs` proves, under `BrokerAssumption`:
- `BrokerImplementsCacheService`: `Spec => ImplementsCacheService`.

The refinement is proved step by step, one lemma per kind of step:
- `Handshake` is `SHandshake`;
- `ReadRequest` is `SReceive`;
- the end of the input, a malformed line and an error from `errChan` are `SStop`;
- `HandleClose` is `SAnswerClose`;
- `FinalDone` and `ReturnErr` are `SReturn`;
- `SendReply` is `SAnswer` or `SAnswerFails`;
- every other step is a stutter.

The guards of the abstract steps need the invariants:
- `SAnswerClose` needs every earlier request answered or the writer failed. `OInv`'s `AllSpawned` and `HandlerAnswers` give this after `wg.Wait`.
- `SReturn` needs the same of every request. This is `ReturnAfterAllAnswered` in the state after the step, so the proof uses `OInv'`.
- `SAnswer` needs the service not closed. This needs one more invariant, `ReturnedQuiet`: once `Run` has returned, no goroutine is left. A goroutine in `send` therefore means `Run` has not returned.

TLC checked `ReturnedQuiet` on the `MCBroker` model before it was proved. The lemma `RespondedIsAnswered` states that the service's `Responded` is the broker's `Answered` under the mapping.

`BrokerOutputProofs` proves, under `BrokerAssumption`:
- `OneResponsePerRequestHolds`: `Spec => []OneResponsePerRequest`;
- `CloseAnsweredLastHolds`: `Spec => []CloseAnsweredLast`;
- `ReturnAfterAllAnsweredHolds`: `Spec => []ReturnAfterAllAnswered`.

None of the three is inductive: whether a goroutine may still write depends on
where it is, and whether a close may be answered depends on Run's loop. The
proofs rest on `IInv` above and on `OInv`, the three properties and:
- `HandshakeFirst`: nothing is read or written before the capabilities line, and stdout is non-empty once a request is read;
- `AllSpawned`: every request read that is not a close has a goroutine;
- `HandlerAnswers`: a goroutine before `SendResponse` has not been answered, one that is done has, and one that lost its line saw the writer fail;
- `CloseState`: a close is the last request read; Run is then in its close path or after the loop, and it is answered once Run leaves `closeWait`, unless the writer failed;
- `CloseQuiet`: once a close is answered, every goroutine is done and Run has left the loop;
- `Returned`: `ret` is set only when Run has returned.

With `CloseQuiet`, a handler's line can never follow a close response. With
`HandlerAnswers`, a handler's line is never a second one. The step lemmas
are `HandshakeOInv`, `ReadRequestOInv`, `HandleCloseOInv` and
`SendReplyOInv`. `HandlerQuiet` covers the four goroutine steps before the
send. `LoopStep` and `AfterLoopStep` cover Run's steps that leave stdout
alone. `AppendAnswer` states once what appending a response keeps. TLC
checked `IInv /\ OInv` on a model of three requests over two action IDs (about 636,000 states) before
it was proved.

`ProcessProofs` proves, under `ProcessAssumption`:
- `ProcessTypeCorrect`: `Spec => []TypeOK`;
- `ExitStatusReportsOutcomeHolds`: `Spec => []ExitStatusReportsOutcome`;
- `ClearPrintedOnlyAfterNilErrorsHolds`: `Spec => []ClearPrintedOnlyAfterNilErrors`.

The stronger `ClearReportsOnlyCompleteClear` ("cleared" only with an empty
backend) is false: S3's Clear returns nil with keys left (finding 7). The
theorem states what the code does guarantee: every clear step returned nil.

The inductive invariant adds three parts:
- `RunningState`: before exit, the status is unset and no error is recorded;
- `BackendState`: before `createBackend` the stack is the placeholder and nothing is closed, and after it the stack is one that `createBackend` builds (a base backend, optionally wrapped in Error and Debug) and nothing is closed yet;
- `ClearState`: the success message is printed only at exit, and `clearLocalCache` starts only after `backend.Clear` returned nil. The backend is then empty, or it is S3 with keys left. `ClearResult` proves that only an S3 base can return `keysLeft`.

Lemmas state what `createBackend`, `newBackend`, `createDedupeGroup` and
the clear steps return. `newBackend`'s CASE is proved arm by arm, because a
CASE whose guards overlap may take any of them. These obligations contain the
empty-string literal of the model's `fail` field, which the SMT backend of
tlapm 1.4.5 rejects. The module is therefore proved with Zenon, and its only
arithmetic sits in `CountFacts`, which mentions no string. The steps of `main`
that only move the program counter or exit are proved once, by the lemmas
`GotoIInv` and `ExitIInv`, and not again in every case of `NextIInv`.

`LocalCacheProofs` proves, under `LocalCacheAssumption`:
- `LocalCacheTypeCorrect`: `Spec => []TypeOK`, for every configuration, clears and the step-by-step `RemoveAll` included;
- `CheckReturnsMatchingEntryUntilClearHolds`: with the lock held around each get (`Locked`), `Spec => []CheckReturnsMatchingEntryUntilClear`.

The inductive invariant is `IInv == TypeOK /\ (clears = 0 => Core)`. `Core` says:
- the cache directory exists and no clear is running;
- only the lock holder writes;
- a body file and its sidecar agree unless their writer is between the two writes (`EntryConsistent`);
- the writer's and the metadata descriptor's states match the goroutine's position;
- `CheckReturnsMatchingEntry` itself.

`clears` never decreases, so a step that ends with `clears = 0` began with it.
Every clear step is therefore excluded, except the first `ClearReadDir`, which
sets `clears` to 1 and makes the implication true.

No theorem covers a hit after a clear has started. The runs show why.
localcache_clear violates `CheckReturnsMatchingEntry` with no failure and
no crash. localcache_stale_sidecar violates even `CheckNeverNamesOtherBody`.
An earlier version of this project proved the property with clears. That
proof modelled `RemoveAll` as one atomic step, which the code does not do,
and it has been withdrawn.

`TypeOK` is proved for `Broker`, `FSLock` and `LocalCache`, but no run
checks it there: a type invariant shows nothing that the proof does not.
`Process` keeps it in its run, because its mutant (an unchecked
`createBackend` error) reaches a state outside the types.

These stay with TLC:
- the liveness properties (`EveryRequestAnswered`, `RunReturns`, `WaitersReturn`), because TLAPS does not handle fairness or ENABLED here;
- the properties of the violation runs, which are meant to fail;
- the properties of `DiskFiles`, `MemLock` and `Gofslock`, which only have violation runs.

There is no separate action property (`[][A]_vars`) for the broker. The
candidates are:
- no line after `Run` returned;
- no line after the close response;
- no answer before the handshake.
Each of these is implied by the proved invariants. `ImplementsCacheService`
states all of them at once, as the guards of the service's steps, and it is
proved.

## 5. Not modelled yet, and the plan

Next:
1. **S3 backend** (part_000): the local file that `Put` and the download of `Get` write non-atomically. The AWS calls themselves are I/O.
2. **The store in the service spec**: `CacheService` says what is written, not what a get returns. The stale get of `broker_stale_get` shows that a promise about hits would not hold.
3. **More proofs**: a lemma library on the output sequence, which `BrokerOutputProofs` now reasons about step by step.
4. **Gofslock exclusion** across processes, as a run beside the lock-failure one.

Left out for good:
- JSON and base64 framing, which is pure conversion;
- statistics and logging;
- the retry wrapper, which `Run` never calls;
- the older server version (part_010:530-819);
- usage and help texts, and logging in `main.go`;
- the `Group` and `Locker` interfaces (part_007, part_008), which hold no state.

The newer server that `main.go` constructs, with a local cache and a locker,
is not in `src/`. Only its get path is modelled, from spec §4.6, in
`LocalCache`.
