# Git LFS: a verification project

TLA+ modules that model Git LFS, TLC runs that check them on small instances, and
TLAPS proofs that hold for all values of the constants. Paths are relative to the
repository (`src/`); the code is Go. `PROJECT.json` maps every definition to the
lines it models.

## 1. Inventory of the system

Git LFS replaces large files in Git by pointers. A command (push, fetch, the
clean/smudge filter, prune, lock, migrate ...) finds pointers by scanning Git's
history, puts the objects they name into a *transfer queue*, the queue asks the LFS
server in batches what to do with each object and hands the transfers to an
*adapter*, whose workers do the HTTP (or ssh, or custom-process) work.

| Component | State | Operations | Interacts with | Hard behaviour | Module |
|---|---|---|---|---|---|
| Transfer queue `tq/transfer_queue.go` | chain of tuples per OID, abortable wait group, channels, retry counter, adapter in use | `Watch`, `Add`, `Wait`; four goroutines | commands, batch API, adapter | three channels that close, two wait groups, retries, an abort path | `TransferQueue` |
| Adapter worker pool `tq/adapterbase.go` | `jobChan`, three wait groups | `Begin`, `Add`, `End`, `worker` | queue, transfer implementations | authentication hand-shake, failing `Begin` | `TransferAdapter` |
| Basic and tus transfers `tq/basic_*.go`, `tus_upload.go`, `verify.go` | `.part` files, server offset | `DoTransfer` | pool, HTTP client, file system, other processes | resuming, rewinding bodies, dying half way | `HttpTransfer` |
| Custom, standalone and ssh transfers `tq/custom.go`, `tq/ssh.go`, `ssh/`, `lfshttp/standalone/` | conversations with a peer and what is unread on them | `WorkerStarting`, `DoTransfer`, `WorkerEnding`, `Batch`, `Shutdown` | pool | answers left over from a transfer that failed | `StreamTransfer` |
| HTTP client, credentials `lfshttp/`, `lfsapi/`, `creds/` | access mode, modes left to try, credential cache, skipped netrc hosts, ssh tokens | `Do`, `DoWithAuth`, `Fill`, `Approve`, `Reject` | every network user | concurrent 401s, redirects, changed passwords | `HttpClient` |
| Key/value store `tools/kv/` | copy of the database, log, version, a file | `NewStore`, `Set`, `Remove`, `RemoveAll`, `Save` | the lock cache | optimistic merge without a lock, death within `Save` | `KVStore` |
| Locking client `locking/`, `commands/command_lock*.go`, `lockverifier.go` | lock cache, lists for `--cached`, write flags | lock, unlock, locks, hooks, verification of a push | lock server | cache and server disagree; one step of several fails | `Locking` |
| Filter process `commands/command_filter_process.go` | delayed pointers, buffer of available ones | clean, smudge, `list_available_blobs` | Git, the queue's Watch channel | a goroutine that registers late | `FilterProcess` |
| Push, pre-push `commands/uploader.go`, `command_push.go` | uploaded, missing OIDs | `uploadForRefUpdates` | scanners, queue, locks | tracking refs of deleted branches | `Repository` |
| Prune `commands/command_prune.go` | retained, verified, local set | retain tasks, verification, deletion | scanners, queue | tasks fill one set while other commands run | `Repository` |
| Fetch, pull, checkout, clone | pointers to fetch, in-flight pointers | | scanners, queue | a watcher writes files while the scan goes on | `Repository` |
| fsck, ls-files | corrupt OIDs | scan of refs and index, repair | scanners, store | repairs beside other commands | `Repository`, `Migrate` |
| Scanners `lfs/gitscanner*.go`, wrappers `git/` | | | Git | a blob is reported once, under one of its names | `Repository`, `Migrate` |
| History migration `git/githistory/`, `commands/command_migrate*.go` | caches of commits and entries, object map | import, export, info, import --no-rewrite | scanners, queue, refs | caches, tags of tags, kills and reruns | `Migrate` |
| Installation, hooks, tracking `lfs/hook.go`, `lfs/attribute.go`, `command_track.go` | hooks, filter keys, `.gitattributes` | install, update, uninstall, track, untrack | everything that Git calls | text of older versions or of the user | `Setup` |
| Progress meter and task log, configuration, reports | | | | see section 7 | |

What makes the modelled components correct:

* **queue**: an object is in one place at a time, is resolved exactly once; `Wait`
  returns, and only when nothing is unresolved; nothing is lost without an error;
  each tuple of a completed object is announced once to each watcher; nobody sends on
  a closed channel;
* **pool**: every transfer is answered once, before the results channel is closed; one
  worker authenticates before the others start; `End` returns;
* **transfers**: a file of the store has the content its OID names; success means that
  the object is there; once the failures end, the transfers succeed; a shutdown ends
  what was started;
* **HTTP client**: credentials stay with their host, only accepted ones are saved, a
  request ends, and not as unauthorized while a helper could still be asked;
* **store**: saves that do not overlap are serializable; a process keeps its own changes; equal
  versions mean equal contents to a process that has loaded the file since saves overlapped;
* **locking**: caches, lists, write flags and pushes agree with the server's locks;
* **filter process**: every delayed path is listed once and before the list that ends
  the checkout, is written from its own pointer, and the checkout ends;
* **repository**: the server has what the remote's branches need; a pull that reports
  success has written every file; prune deletes nothing that is used, unpushed or
  recent;
* **migration**: refs name the same history with the same contents, nothing of the old
  history is left, no object is lost, what is converted is tracked, and published
  commits stay.

## 2. Modules and code

Components talk through contracts. `TransferPromise` is what the users of the queue
rely on: `TransferQueue` is shown to implement it, and `FilterProcess`, `Repository`
and `Migrate` use a queue that behaves so. `AdapterPromise` is what the queue relies
on: `TransferAdapter` implements it. `HttpTransfer` and `StreamTransfer` are what a
worker of the pool does; `HttpClient` is what a request of theirs does. `Migrate`
extends `Setup`. `Locking` uses the cache that `KVStore` describes, one command of a
clone at a time.

Each action is one stretch of a process or goroutine between two points at which
another can interfere: a channel operation, a lock, a wait, a request, a file
operation. Every `MC...` module only gives the constants their values.

### TransferQueue (tq/transfer_queue.go)

| Model | Code |
|---|---|
| `caller`, `hand`, `duplicate`, `toAnnounce` | the goroutine in `Add`/`Wait` and what it is sending |
| `transfers`, `completed` | `q.transfers`, `objects.completed` |
| `wq`, `counter` | `abortableWaitGroup` |
| `incoming`, `incomingClosed` | `q.incoming` with capacity `BufferDepth` |
| `watchers`, `watchLen`, `notified` | Watch channels of capacity `BatchSize`; what was sent (history) |
| `errorc`, `errors` | the unbuffered channel: the error its collector holds; `q.errors` |
| `rc`, `readyTime`, `coolDown` | retry counts, which clock gates the retry, the server's own clock |
| `adapter`, `adapterInProgress`, `begun` | the adapter in use; whether its `Begin` has succeeded |
| `collector`, `closing`, `next`, `pending`, `collected` | locals of `collectBatches` / `collectPendingUntil` |
| `batcher`, `stage`, `batchErr`, `notifying` | the batch goroutine, what has become of each of its objects, the error it returns, sends left to do under `trMutex` |
| `outcome` | history: what became of each object |

`Add` is `AddError`, `AddNew` + `SendIncoming`, or `AddDuplicate` +
`AnnounceDuplicate`; `Wait` is its four blocking steps; the collector fills a batch
(`FillOne`, `FillClosed`), starts it (`StartBatch`), selects between `done` and
`incoming` (`CollectOne`, `CollectClosed`, `CollectDone`), aborts or merges
(`AbortQueue`, `ConcatBatches`) and sleeps until a retry is ready (`WakeUp`). The batch
goroutine asks the server (`BatchFails`, `BatchAborts`, `BatchAnswers`), treats each
entry of the answer (`RejectObject`, `RetryExpired`, `SkipObject`, `AcceptObject`), uses
the adapter (`BeginFails`, `AddToAdapter`) and takes the retries (`TakeRetry`). Results
are handled by `ResultRetry`, `ResultError`, `ResultUnprocessable`, `ResultOk`,
`AnnounceResult`, `FinishResult`.

Abstractions: a batch is a set of OIDs (only the first tuple of a chain is ever
enqueued, and each batch is re-sorted by size); error values are kinds; the length of
the exponential delay is one step of a clock; the progress meter and tracing are left
out; the server gives each object of a request at most one entry of a set `Verdicts`.
The refinement mapping to `TransferPromise` reads `fate` from `outcome`.

### TransferAdapter (tq/adapterbase.go)

The queue's side of the calls (`queue`, `begins`, `given`), Add's goroutine
(`feeder`), and the workers, each named by the `Begin` that started it and its
number, since a failed `Begin` leaves workers behind and the queue calls it again.
A worker ranges over the channel that `a.jobChan` holds when it enters the loop.
`authOn` says when the transfer implementation calls the callback: on a response, or
on the first read of the request's body.

### HttpTransfer (tq/basic_download.go, basic_upload.go, tus_upload.go, verify.go)

One object of `Size` bytes, the workers of several processes that share the store,
the `.part` file and the server. A download starts by renaming `.part` away
(`StartDownload`), asks for the rest or for all (`GetPartial`, `GetAll`), reads byte by
byte, hashes and renames (`ReadBody`, `FinishDownload`); a failure puts the partial file
back. Uploads are one request, or `HEAD`, `PATCH` and the verification with its three
attempts. Failures are actions of their own: refused or wrong ranges, damaged bytes,
broken connections, a killed process, a failing rename, a redirect after the body was
begun.

### StreamTransfer (tq/ssh.go, custom.go, ssh/, lfshttp/standalone/)

`wire` holds what the peer of each conversation has sent and nobody has read; a
transfer that ends early leaves it there, and the next request reads it as its own.
Requests put their answer on the wire, also answers that break the protocol (wrong
status, wrong object, an end too early, a second message). An ssh upload gives its
connection back before it asks for it again to verify (`SendVerify`), and a batch request
may come in between. `WorkerStarting`, `TerminateProcess`, `EndConnection` are the life of
a conversation: `quit` is a request like the others and may be answered badly, and an
adapter whose `Begin` fails is never ended, so that the processes it started stay
(`"failed"`). `Read` is one packet or one message read by the code that waits for it.

### HttpClient (lfshttp/, lfsapi/, creds/)

Concurrent requests that share the access mode, the list of modes not yet tried, the
credential cache and the netrc hosts to skip. A request is a stack of calls of
`doWithAuth`, one for every redirect. It chooses endpoint and remote, takes credentials
from the URL, a token of `git-lfs-authenticate`, netrc, the cache, askpass or `git
credential` in the order of the chain, where a helper that fails is skipped, is sent, and is then approved, rejected and
resubmitted, or redirected. Passwords change while requests are under way.

### KVStore (tools/kv/keyvaluestore.go)

Processes with their copy, log and version, and the file. `Save` is four steps
(`Peek`, `Truncate`, `WriteVersion`, `WriteData`), between which another process
may read or write the file and after each of which the process may be killed
(`Crash`). A file holds a version and a database, either of which may be missing. Saves overlap
freely; the history variable `suspect` has the processes that had the store open while two saves
overlapped and have not loaded the file since, for which a version may stand for two contents.

### Locking (locking/, commands/command_lock.go, command_unlock.go, command_locks.go, lockverifier.go)

The server's locks (`held`, `lockOf`); per user the lock cache `lockcache`, the lists
written for `--cached` (`listing`), the write flags, what is changed and not pushed; and the
running command (`op`) with its copy `mem` of the cache. `lock` and `unlock` are a loop
of request and response, each of which may be lost; lists come page by page
(`ListPage`), of both kinds, and a push verifies page by page before the scan. A version
that a commit leaves is a path and a kind of blob (`AllContents`), and the scan compares with
the locks what it names (`LookedUp`): each blob that is new to the remote once, under one of
its paths, and no empty pointer; what is said of large plain files by the goroutine of
`scanRefsToChan`, which nobody waits for, may come too late (`Scanned`). The state of the
verification is the one the push started with (`verify`); a server without the locking API
only changes the configuration. `PostCheckout`, `PostCommit` and `PostMerge` set the write flags from the cache.

### FilterProcess (commands/command_filter_process.go, command_smudge.go)

Git's side of the protocol (`git`, `todo`, `delayed`, `listed`, `result`), the
filter's loop (`cmd`, `ts`, `ptrs`), the queue by its promise, the goroutine
`infiniteTransferBuffer` (`buffer`, `watch`, `pending`) and the objects' files. `smudge`
with `can-delay=1` is `SmudgeAtOnce`, or `SmudgeLater` followed by `Add`; with
`can-delay=0` it is `SmudgeNow`. `list_available_blobs` is `CallList`, the receives of
`readAvailable` and `Reply`. The appends and reads of `q.watchers` are not synchronized:
a completion announces to the watchers it happens to see. Git asks for each path once
per checkout, asks again for the listed ones only, and dies of an error (the filter is
installed as required).

### Repository (commands/ of push, prune, fetch, pull, checkout, fsck; lfs/gitscanner*.go; git/)

One clone and its remote: commits with parents, a tree and a day, branches, a linked
worktree, stashes, tracking refs, the store, the server, the index and the working
tree. `push`, `prune`, `fetch`, `pull` and `fsck` are processes that interleave. The scanners are
operators (`ScanRef`, `ScanStashed`, `ScanIndex` ...) that give what the git
commands they run report: `rev-list` names a blob once, with the first path it meets,
`git log` shows no merges, `diff-index` may not yet have printed all names. `prune` runs
its tasks in any order (`PruneTask`), verifies, and deletes one object at a time;
`pull` scans paths while the queue downloads and the watcher checks files out (`PullScan`,
`PullDownload`, `PullWatch`); `fsck` scans HEAD, then the index, then reports and
moves damaged files aside one by one. The user stages, commits, stashes, switches branches and
adds worktrees at any time: `prune.late` (history) has the objects that came into use or whose commit
HEAD left while prune ran, `pull.touched` the paths whose entry changed while pull ran; a pull goes by the tree
of HEAD that it read first (`pull.tree`). A checkout of a file (`Run`) may fail before it opens the
file or while it writes, which leaves it cut off (`CutOff`); the pull prints an error (`pull.skipped`)
and succeeds. In a clone without the filters (`conf.installed`) `noOpCheckout` writes nothing. The
remote does not lose branches or objects while push or prune runs; section 5 says what happens otherwise.

### Setup and Migrate (commands/command_install.go ... command_migrate*.go, git/githistory/)

`Setup`: the text of each hook and filter key (written by this version, by an older one,
or by the user), access keys, and the lines of `.gitattributes`. `Migrate`: commits and
tags identified by their contents, refs, remote, store and server. `StartMigrate` is the
parsing of the options and the choice of refs; `RewriteCommit` rewrites one commit: `RewriteEntry`
says for each path whether the entry is copied, taken from the cache of entries (`EntryKey`) or
rewritten, `CachedEntries`, `Noted` and `Counted` what that leaves in the cache and with the callback
on blobs, and `MapParents` and `CacheCommit` use the cache of commits. `NextRef`, `UpdateInnerTag`
and `UpdateOneRef` are the recursion of `refUpdater`; `EndMigrate` is the checkout and, for an
export, the prune. `Kill` ends the run between any two of them. The filter that `git add` and
`git status` start installs the hooks (`RunFilter`, `commands/command_filter_process.go:42`).

The user commits at any time, also while refs move: the list of refs is read once (`run.listed`) and
`update-ref` is given no old value, so that such a commit may be lost from its branch; `target`
then holds both it and what the branch named before. `GitPush` does not come in the middle of a migration.
Its hook uploads what `PushedObjects` says and fails when an object is nowhere. The inner tag of a tag
of a tag is found by its name and looked up when it is needed (`UpdateInnerTag`); after `git tag -f`
it names another tag, and the outer tag follows it, or a commit, and the outer tag that is then
written claims to be of a tag (`BadTag`): the next migration panics on it. Git would refuse to peel such a
tag; the model follows it to its commit. `Own` are the branches, and the tags of which every inner ref
named its tag at the start. Objects that a merge has and none of its parents (`MergeObjects`) are not among
those that `prune` retains (`Added`).

`MigrateAssumption` says that a scenario starts from a repository as git and Git LFS leave it: commits and
tags come after what they name; branches and `refs/remotes` name commits, and refs of tags whatever tag or
commit; each branch of the remote and the current branch has a ref in `refs/remotes`; and where the pre-push
hook is Git LFS's, the objects of what was pushed are on the server and the others there or in the
store (`ObjectsThere`).

## 3. Runs

| Run | Instance | Shows |
|---|---|---|
| `tq_download` | two objects, three tuples, one watcher, batches of two, `incoming` of one, one retry, every error kind, every verdict but *omitted*, failing `Begin`, fairness | exact wait group, one place, announcements, no send on a closed channel, refinement of `TransferPromise`, `Wait` returns |
| `tq_upload` | batches of one, two adapters and an unregistered name, an object without a local file, omitted objects | no silent loss on the abort path |
| `adapter_pool` | three workers, three transfers (one invalid), channel of one, failing `Begin`, both authentication kinds, fairness | hand-shake, refinement of `AdapterPromise`, `End` returns |
| `kv_serial` | three processes, two keys, one process with one and two with two changes, saves that overlap, kills | serializability of what did not overlap, own changes, versions |
| `filter_process` | two checkouts of any of four paths, two of one object and one plain, Watch channel of one, failing downloads, a stopping queue, Gits without the delay capability | every delayed path listed once and before the end, no empty file, checkouts end |
| `locking` | two users, one of them over ssh, two paths of one object, one lockable, pages of one lock | caches, lists, pushes and write flags agree with the server |
| `http_transfer` | two processes, four bytes, up to four failures | store valid, success means done, transfers succeed in the end |
| `stream_transfer` | two workers, two objects, three requests each, two protocol faults, six kinds of conversation | no wrong content, shutdown complete, transfers return |
| `http_client` | two requests, two hosts, thirteen configurations, a redirect, a fault, two passwords | credentials stay with their host, only accepted ones saved, requests end |
| `repository` | twenty-five scenarios of up to six commands, two branches, three objects, two paths, files that cannot be written, a clone without filters, a user who goes on beside pull and prune | pushes, pulls and prunes keep what is needed |
| `migrate` | eighteen scenarios of up to five commands over merges, annotated and nested tags, also after `git tag -f`, commits while refs move | history, objects, tracking and published commits survive |
| `migrate_fixup` | violation | `--fixup` leaves a file raw that its own commit gives to Git LFS |

**Bounds.** Two objects are enough for one to be in a batch while the other is in every
other place, and three tuples for a duplicate before, during and after the completion; a
buffer of one makes `Add` block; one retry separates "may retry" from "may not". In the
pool three workers are the first and two that wait, and the channel of one blocks the
feeder. Two changes of a process let a log hold an overwritten change; three processes
let two saves overlap while the third has the store open. In the filter a second path of an object is
the duplicate of `Add`, and the second checkout meets what the first left. Two users are
the owner and the other; pages of one lock put a change between any two locks of a list.
Four bytes distinguish a partial file that is short, as long, or too long, and damaged
at any place; four failures let two attempts of each process go wrong. Three requests of
a worker let one read what the one before the last left. Two requests race for the
shared modes, and two passwords make the cached one stale. Two branches and three objects
separate what is on HEAD, on another branch and only in history; the scenarios of
`MCRepository` and `MCMigrate` bound how often each command runs, so that each one asks
about one group of commands and all together stay within a few million states.

**Fairness.** Weak fairness of every goroutine is Go's scheduler. In `TransferQueue`, of
`ReadWatch`: watchers read their channel, which the comment on `Watch` demands; of the
clock: time passes; of the batch goroutine: requests end (the HTTP client has timeouts).
`SF(CollectClosed)` is needed because `select` chooses at random among ready branches, so
that a closed `incoming` is not overlooked for ever. In the pool `SF(CallEnd)` says that
the queue finally ends an adapter, as `Wait` does. In the filter, Git goes on with a
checkout it has begun and the queue resolves every object unless it stopped. In
`HttpTransfer` a worker goes on, and a transfer that failed is given to it again, which
is the queue's retry without its limit: the property is about what partial files and
offsets do to later attempts. In `StreamTransfer` only reading is fair. In `HttpClient`
servers, helpers and the user answer in the end. Nothing is assumed of failures, of
redirects or of other users.

`CHECK_DEADLOCK FALSE` is set where the instance may really stop: an omitted object or an
abort, and wherever the commands of a bounded instance are used up.

## 4. What is proved

Each proof module extends the module of its component; `LockingProofs` also extends `KVStore`,
the store of the lock cache, and `TransferAdapterProofs` also `HttpTransfer`, what the workers of the
pool do. The theorems hold for every value of the constants that satisfies
the component's assumption, so the bounds of the runs play no part. The assumptions type the constants
and say which of them are finite; `MigrateAssumption` says more, namely from which repositories a
migration starts (section 2). What the code does not ensure is not assumed: where a property needs it,
the property names the exception (section 5).

| Module | Theorem | Property |
|---|---|---|
| `TransferQueueProofs` | `TypeCorrect`, `OnePlace`, `WaitGroupExact` | `TypeOK`, `HeldInOnePlace`, `WaitGroupCountsHeld` |
| | `Refinement`, `SendsOnOpenChannels` | `KeepsPromise`, `NoSendOnClosed` |
| | `NothingLostSilently`, `AnnouncementsExact` | `NoSilentLoss`, `AnnouncedExactlyOnce` |
| `TransferAdapterProofs` | `FirstLoginAlone`, `ContractKept` | `OnlyFirstWorkerUntilSignal`, `KeepsContract` |
| | `StoreIsValid`, `SuccessIsDone` | `StoreValid`, `SuccessMeansDone` |
| `StreamTransferProofs` | `StreamedIsThere`, `ShutdownEndsAll` | `TransferredIsThere`, `ShutdownComplete` |
| `HttpClientProofs` | `CredsStayAtHome`, `SavedWasAccepted`, `HelpersAreAskedAgain` | `CredsOnlyToTheirHost`, `SavedCredsWereAccepted`, `UnauthorizedOnlyAsGiven` |
| `FilterProcessProofs` | `ListEndsCheckout`, `DelayedFileWritten` | `NothingLeftDelayed`, `NoEmptyFile` |
| `LockingProofs` | `TypeCorrect`, `OwnLocksStayCached`, `ListsAreComplete` | `LockingTypes`, `OwnLocksCached`, `ListingComplete` |
| | `PushesRespectLocks`, `OthersFilesAreReadOnly` | `PushRespectsLocks`, `NoForeignWrite` |
| | `StoreTypeCorrect`, `CopyExact` | `TypeOK`, `CopyIsBasePlusLog` |
| | `VersionsTellApart`, `Serializable` | `SameVersionSameData`, `NoLostUpdate` |
| `RepositoryProofs` | `PushCorrect`, `PullCorrect` | `PushedIsOnServer`, `PullComplete` |
| | `PruneCorrect`, `PruneKeeps`, `RecentKept` | `PrunesOnlyPushed`, `PruneKeepsUsed`, `FetchedRecentKept` |
| `MigrateProofs` | `HistoryStays`, `ObjectsStaySafe` | `HistoryKept`, `ObjectsSurvive` |
| | `OldHistoryGone`, `PublishedStays` | `NoOldHistoryLeft`, `PublishedKept` |

None of these properties is inductive. The arguments:

**Queue** (`ConstantsAssumption`: any finite sets of objects, tuples and watchers, any batch
size, buffer and retry limit, any choice of verdicts and outcomes). `IInv` adds to `TypeOK`
and `HeldInOnePlace`: `Phases` and `StagesMatch`, the control states that go together (the
batch goroutine only runs while the collector is selecting or draining, the collector has
exited only with nothing left or after an abort); `HeldAreQueued`, an object is held
somewhere exactly while its outcome is *queued*, unless it was omitted or the queue aborted;
`WaitCountsQueued`, the wait group is the number of queued objects, and `counter` follows it
until an abort. The last one makes the wait group exact: each Done goes with an object that
leaves its place, and `Wait` can only pass `q.wait.Wait()` when nothing is held, which is
what the refinement's `Return` step and the closed channels need. Counting uses
`FiniteSetTheorems`. `NoSilentLoss` rests on `Accounted`: every failure has an error
that is reported or is about to be sent, the error of a batch that its goroutine is still to
report, or the 422 flag; so nothing is left unaccounted for once `errorc` is drained.
`AnnouncedExactlyOnce` rests on `AnnouncedOnce`: of a tuple of a completed object each watcher
has been told, or is about to be by the adapter's results or by the `Add` of the duplicate,
and only one of the three; `WatchInv` says so for all watchers, and `CompletedSettled` that a
completed object is resolved or its completion is being announced, so that it is not
announced again.

**Pool** (`AdapterAssumption`). `Places` says who may use which channel, `OnePlace` that a
transfer is to be fed, in a channel or in one worker's hands, `Answers` that exactly the
unanswered ones (and those between their result and their Done) are in such a place, and
`JobWaitCounts` that `jobWait` is their number. `Rounds` ties this to the calls of the queue,
so that `End` finds nothing unanswered; `Waiting` says that no worker but the first has left
`authWait` before the signal. `ContractKept` maps every step of the pool to a step of
`AdapterPromise` or to a stutter.

**Transfers** (`HttpTransferAssumption`). `JobsFit`: the hash has seen exactly the bytes of the
temporary file, also where it was resumed, and a worker is only in a phase of the adapter in
use. `SourceKept`: an upload leaves its source alone. `TusPrefix`: what the server has of a tus
upload is a beginning of the object, one worker at a time adds to it, and at the server's offset.

**Conversations** (`StreamTransferAssumption`). `InStep`: a connection whose worker never left an answer half
read has nothing on it but the rest of the answer to the running request, which ends with its only
flush packet, or the end of the connection, and nothing between an upload and its
verification, also if a batch request came in between; so the status that `verify-object` is judged by is
its own, and nothing is unread when the worker is idle, which is what the shutdown needs.
`AgentInStep`: the standalone agent sends one message per upload, and `complete` is true. `Ending`:
outside the working phase no request runs, and connections end in their order.

**HTTP client** (`HttpClientAssumption`, which types the configurations). `GoodRequests` is an
invariant of the stack of `doWithAuth` calls that a request is in: each header is for the
call's own host; every call below the top one, having been answered with a redirect, has
credentials that were accepted; and the outermost call, which alone decides whether the request
is sent again, has a header without a helper's credentials only if it is a token's or the URL's.

**Filter process** (`FilterAssumption`). `Loop` and `Objects` tie the phases of Git, the filter
and the queue together; `Pointers`, the kept pointers are those of the delayed and the listed
paths; `Announced`, a path that waits between queue and Git is still delayed, its object is
complete, and it waits in one place; `Closed`, an empty list is only given when the channel is
closed and all these places are empty.

**Locking** (`LockingAssumption`). One part is about the server (`Locks`: one lock on a path,
and IDs in order), the others about each user: `Shape`, the fields of a running command;
`Complete`, a list has every lock below its cursor that was held all along; `Verified`, the versions
that the scan of a push has come to are reported or share a blob with another path; `OwnInDb` and `OwnInMem`, the user's locks are in the cache on disk
and, while a command runs, in the copy that it will save; `Flags`, the write flags agree with
the cache, but for the paths that are excused. `BystanderKeeps` is the lemma that makes this
manageable: a step of one user reaches another's part only by locks made or ended, so that
each action is proved for its own user alone.

**Store** (`KVAssumption`: any processes, keys, values and number of changes). `CopyIsBasePlusLog`
needs only `ClosedIsEmpty`; its proof is in the lemmas about replaying a log, which find a
key's last change without an induction. The other two need, unless a crash has torn the file, `Orderly`:
`FileState` (what is missing in the file, a process is about to write; what is there was saved last),
`SaverCurrent` (beside a save that overlaps another all processes are suspect; the base of any other
saver is the file, and no process that is not suspect is ahead of it), `FileNewest` and `ZeroIsEmpty`.

**Repository** (`RepositoryAssumption`). `Ancestors` is a recursive function over the history; a
least counterexample shows that it gives the least set with a commit and the parents of its
members, and that new commits do not change it for old ones, from which all else about histories
follows. The invariant has a part for each command: `Published`, a tracking ref is the remote's
branch as long as there is one, and what it holds has been on the server; `Pushing`, what the
branches that a push has scanned hold is on the server or is being uploaded, and the commits it
leaves out are the remote's unless it is blind; `Keeping`, what each finished task of prune has
retained, for the refs as they are now, up to what came while prune ran; `Recent`, what `fetch --recent` asked
for, by its day; `Pulling`, every path that a pull checks out is still to be scanned, waits for its object, has
its file, or is one that the pull printed an error for or that the user touched (`PullQueue`, `PullFiles`);
`WorkingTree` and `Checked`, what files and a running fsck say about objects. A step is
proved for the parts whose state it touches; the others are kept by the lemmas named `...Stays`.

**Migration** (`MigrateAssumption`, `SetupAssumption`). Three invariants, each used by the next.
`MigrateInv` carries `HistoryKept`: `GitOK`, every commit has parents that come before it and is
faithful to the one first made, and tags name what comes before them; `HeadOK`, `RemoteOK`, `TargetOK`;
`Named`, each of the refs in `Own` names a commit of its target; `RunOK`, the
cache of entries takes a blob to one of the same content and the cache of commits a commit to one first
made as the same; `ListedOK`, the same as `Named` of the refs as they were listed. Objects
are identified by their contents (`NumberOf`, `Written`), so a rewritten commit may be one that exists already.

`ObjInv` carries `ObjectsSurvive`. As long as `ownHook` is false: `Bare`, without a pre-push hook there
are no pointers at all; `ObjectsOK`, what local refs, the commits to do and the rewritten ones reach has
its objects in the store, on the server or among those that merges introduced, and what `refs/remotes` and
the remote's branches reach has them on the server. `ImportHas`: an import has a hook, and no other
command makes pointers. The prune that ends an export is safe by the lemma `PruneKeeps`: of the unpublished
commits that hold an object, the least one adds it to its parent or is a merge.

`OldInv` carries `NoOldHistoryLeft` and `PublishedKept`. `Followed`: each branch of the remote has its ref
in `refs/remotes`, from which the excluded refs are taken. `RewriteOK`: a commit that is left out reaches
none that is taken (`Apart`); a rewritten commit reaches old ones only where they were rewritten to
themselves (`Renewed`), and keeps the published ancestors of the one it replaces (`PublishedLeft`).
`RefsOK`: the refs on the stack of `updateOneRef` are each below the one before, by the number of the tag that
they named at the start (`StackOK`), so that it never comes back to a ref on its stack; a ref that waits
still names what was listed, or the commit that the user made on it since (`AsListed`), and one that is done
names no migrated commit that is not a rewritten one too (`Current`).

Only model-checked are:

* every liveness property (`WaitReturns`, `EndReturns`, `CheckoutEnds`, `EventuallyTransferred`,
  `TransferReturns`, `RequestEnds`): fairness and ENABLED are out of the prover's reach;
* `MigratedIsTracked`: the lines that a migration adds to `.gitattributes` and the patterns it
  collects are folds over sequences, and which line then decides about a path needs an induction over
  them that the provers do not carry out.

Every other property of a passing run is stated by a theorem.

## 5. What the checks found

**A disagreement with a document** (`migrate_fixup`): `migrate import --fixup` asks the
`.gitattributes` of a commit about a file only when the entry is not in the cache of
entries (`git/githistory/rewriter.go:387`), so a blob that an earlier commit left raw stays
raw in every later commit, also where that commit gives it to Git LFS. The manual says
that the filters are inferred per commit.

**Exceptions that the properties name.** Each of these is a behaviour of the code that TLC
found when the property was stated without it:

* queue: a server that leaves an object out of its response makes `Wait` hang
  (`tq/transfer_queue.go:588`; `tq_download` has no *omitted* verdict, `tq_upload` has), and so
  does an `Add` after the collector has aborted (`:467`); the Retry-After of a transfer is
  overwritten by the exponential delay (`:660`); a 422 answer only sets a flag;
* pool: a failed `Begin` followed by another one leaves workers that read the new
  channel, and `End` hangs (`tq/adapterbase.go:94`; `MaxBegins = 1` in the run); uploads
  signal authentication on the first read of the body, before any response;
* store: `Save` takes no lock; overlapping saves lose updates and give one version to two contents
  (`tools/kv/keyvaluestore.go:130`), for every process that had the store open meanwhile, also one that
  did not save, until it loads the file again (`suspect`);
* filter: `Watch` called after `Wait` has closed the watchers makes the list wait for ever
  (`commands/command_filter_process.go:104`), and so does an object added after the queue stopped;
* transfers: a tus upload that was resumed and then redirected sends the wrong bytes
  (`tq/tus_upload.go:120`); an upload without a verify action is as good as the
  server, also over tus.io, whose answer to PATCH is not looked at (`tq/tus_upload.go:91`);
  a connection that is out of step, or whose server fails at `quit`, keeps the later ones
  from being shut down (`ssh/connection.go:106`), and the worker of one that is out of step may
  take an older answer for its own; a worker that got no connection is given transfers all the
  same; an adapter whose `Begin` fails leaves the processes it started (`tq/adapterbase.go:94`);
* HTTP client: the limit on redirects is never reached, because each redirect starts a new
  count (`lfshttp/client.go:343`);
* locking: a lock command that fails for one path leaves the locks it made uncached; a
  limited or failing `locks --verify` drops own locks from the cache and puts the locks of
  others into it (`locking/locks.go:298`); the answer to `unlock` leaves the write flag when it
  carries no lock (`locking/locks.go:184`); a push looks up a blob under one of its paths only,
  passes over empty files and blobs that the remote has (`commands/uploader.go:203`), and may
  end before the report of a large plain file is in (`lfs/gitscanner_refs.go:61`);
* push: when `ls-remote` fails, or all tracked branches are gone, every tracking ref is
  trusted and objects the server has dropped are not sent (`lfs/gitscanner_remotes.go:16`);
* prune: an object that only a merge introduced is not seen by `git log`
  (`lfs/gitscanner_log.go:49`); objects at excluded paths are not verified; what is only
  staged is pruned; what is committed, stashed or checked out while prune runs may come too late for
  the task that looks for it (`prune.late`, `commands/command_prune.go:104`); errors
  of the stash scan are ignored;
* pull, fsck: a pull ends well although its scanner failed, although a file could not be written
  (`commands/pull.go:90`), or without the filters although it wrote nothing; a file that was cut off is no
  pointer, and no later pull writes it; the repair of fsck ends at a
  missing or twice-listed object (`commands/command_fsck.go:115`), misses what is committed
  between its two scans, does not check an object that is staged anew while its first path is
  excluded, and may move an object aside that has arrived meanwhile;
* fetch: a `fetch --recent` that begins while prune runs may ask for objects which that prune
  deletes, because a push that ends meanwhile moves a tracking ref;
* migrate: a partial or killed run leaves both versions of commits, which a later run may keep
  apart; a tag of a tag follows whatever its inner ref names, after `git tag -f` to another history, and
  may claim to be of a tag and name a commit, on which the next migration panics
  (`git/githistory/ref_updater.go:94`); a commit made while refs move is lost from its branch, since
  `update-ref` is given no old value (`:142`); the prune that ends an export takes the only copy of
  an object that an unpushed merge introduced and HEAD no longer has; an import after an export keeps the lines that the export wrote, which leave the files untracked;
  `--exclude` alone writes only excluding lines; an error of `installHooks` is ignored, so that
  the user's own pre-push hook uploads nothing; the download before an export knows an object
  by one name; the test for a leading `^` in a ref given on the command line has its arguments
  swapped (`commands/command_migrate.go:159`), so that an excluded ref is not recognized there.

## 6. Hazards

`PROJECT.json` lists forty places where the code can go wrong in a way that a test would
hardly reach, each with the properties that would see it. Further ones that no property of
a run covers: an omitted object (`tq/transfer_queue.go:588`), a response that names an
object twice (`:613`), the error of a batch whose objects succeed later (`:581`), and a
progress callback after `DoTransfer` has returned (`tq/adapterbase.go:172`).

## 7. Not modelled

* Text: the format of pointers and their extensions, pkt-lines, the parsing of Git's output,
  of URLs and of the configuration. The scanners' goroutines are left out with it: what they
  report is modelled, not the pipelines that carry it.
* Progress meter and task log: what is shown to the user, without effect on transfers or files.
* HTTP: certificates, proxies, the exchanges of NTLM and Kerberos, statistics.
* Directories, permissions and copy-on-write of the object storage.
* `status`, `env`, `logs`, `ext`, `dedup`, `pointer` and `checkout --to`: they read the repository and print, or change no state that another
  component reads.
* `push --object-id`; `migrate` in bare repositories, links, submodules, and `.gitattributes` below the root;
  `track --lockable` and `--filename`, attribute macros.
* `t/`, `script/`, generated and vendored code.

## 8. Where to go on

The order of the work was: queue, pool and store with their proofs; the filter process;
locking; the transfers; the HTTP client; the repository's commands; migration. What is left: a
module for the task log and the meter; the text of pointers with extensions; and
`MigratedIsTracked`, for which the lines of `.gitattributes` would need a definition that can be
reasoned about without an induction.
