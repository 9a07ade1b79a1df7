# Formal models of sshs3

TLA+ specifications, TLC model checks and TLAPS proofs for sshs3, an Electron
client for SSH, SFTP, S3 and Kubernetes. The specifications are translated from
the TypeScript under `src/src/main`, and from the part of the renderer that moves
and closes tabs; `PROJECT.json` maps
each definition to the lines it stands for.

## The system

The main process runs one thread of JavaScript. What makes it hard to get right
is not threads but `await`: between two awaits nothing else runs, at each await
everything else may. Renderer calls (IPC), timers, child processes (`ssh`,
`ssh-add`, `ssh-agent`, `kubectl`) and remote storage answer in any order. In
every module of this project one action is therefore the code from one await (or
event) to the next, and all calls it makes that change state belong to it.

### Inventory

| component (`src/src/main/…`) | state it keeps | operations | what is hard | what makes it correct |
|---|---|---|---|---|
| **Transfer queue** `transfer/TransferQueue.ts` | job list, contexts, active ids, concurrency, one abort and one pause controller per job | add, pause, resume, cancel, cancelAll, clearCompleted, waitForJob, waitForAll, concurrency | a cancel finishes later than it is accepted; pause and resume during a copy or a retry; no timer wakes the queue | slots match runs; no job waits beside a free slot; each waiter is told the one outcome; a cancel ends as cancelled |
| **Transfer pipeline** `transfer/TransferPipeline.ts`, **SFTP streams** `storage/sftp/` | streams, an open on the wire, the request table | copy, retry, verify, clean up the target, directory workers | cleanup of a target whose open has not been answered; workers that outlive the transfer | a failed transfer leaves neither a truncated file of its own nor a hole where somebody else's file was |
| **Profile sync** `services/ProfileSyncService.ts` | what was last seen of each remote file; the push marker; the profiles | push, pull, compare, wipe | several devices, seven files without a transaction, failures half way, stale stats | no device merges a mixture; no pull takes a device back; a partial push is noticed |
| **App ssh-agent** `ssh/AppAgent.ts` | socket, pid, lock epoch, queue of loads, kept PIN | ensure, load, remove, lock, shutdown | loads, locks, restarts and late answers beside each other | after a lock no key and no PIN of before it remains; the queue never stalls |
| **Smartcard coordinator** `smartcard/SmartcardCoordinator.ts` | cards shown as unlocked, loads in flight, cooldowns, private agents | connect with a card, load, lock, startup unlock | what it shows against what the agent holds, across awaits | a card shown as unlocked is loaded; every connection is answered |
| **Team Vault** `services/TeamVaultService.ts` | vault file, its revision and that last synced, last known remote entry | push, pull, poll, add and remove member, rotate | whole-file replacement by several members, background poll against edits, key rotation | no unpushed change is overwritten silently; no rollback; a rotated key is dropped |
| IpcBridge `IpcBridge.ts` | timers, pending prompts | wiring, auto push and pull, poll, prompts, dispose | timers that start operations at any time; a window that closes under a prompt | each prompt is answered; nothing starts after dispose |
| IPC handlers `ipc/` | none | one per renderer call | check-then-act over awaits (free name, then add) | two copies never pick one name |
| **Windows** `windows/WindowManager.ts`, `index.ts`, renderer `lib/useTabTransfer.ts` | windows, owner of each session, reservations, hand-offs, closing prompts | create, attach, move, close tab, close window | a tab that moves while its window closes | a session has a live owner or ends |
| **SSH CA** `ca/` | session, timers, operation queue | login, renew, logout | a logout against sign-ins that wait in the browser | no certificate survives a logout |
| Smartcard prompts and detection `smartcard/*` | askpass sockets, PKCS#11 lock | prompt, detect, parse | process I/O | each prompt answered once |
| Private agents, terminals `ssh/*` | child processes, registry of agents | spawn, kill, clean up orphans | a crash leaves agents behind | only own agents are killed |
| **Storage connections** `storage/*` | connections, config cache | list, read, write, stat, disconnect | reconnects; disconnect against getOrCreate | nobody is given a closing provider |
| **SSH tunnels** `services/SSHTunnelManager.ts` | a process per tunnel | start, stop, stopAll | an exit just as the start window ends | the list shows live tunnels |
| Kubernetes `services/K8s*`, `terminal/` | port forwards, logs, exec sessions | start, stop | network I/O | – |
| Directory sync `dirsync/` | none | diff, apply | a diff that is stale when applied | apply does what the diff shows |
| External editor `editor/` | edited files, upload coalescer | open, watch, upload | a save during an upload | the last save is uploaded |
| Updates `update/` | update state | check, download, install | background check against a download | no step back from "ready" |
| Stores `profile/ session/ settings/ snippets/ clipboard/` | JSON files | read, merge, write | read-modify-write | one writer at a time |
| Everything else (dotfiles, git, search, policy, logs, certificates, OAuth, AWS, proxy, archive, drag-out, X11, splash, preload, renderer) | – | parsing, formatting, one-shot I/O, user interface | – | – |

How they interact: the renderer calls the handlers through the preload facade;
handlers call the services. `TransferQueue` runs `TransferPipeline` over storage
providers. `IpcBridge` timers and handlers start pushes and pulls of
`ProfileSyncService` and `TeamVaultService`, which write through storage
providers and the stores. Connections of terminals, tunnels and SFTP ask
`SmartcardCoordinator` for an agent socket; it loads cards into `AppAgent`, whose
`onExit` callback makes it forget its cards. `SshCaService` puts certificates
into the same agent. `WindowManager` says which renderer the events of a session
go to; a renderer that gives a tab away keeps its session alive by not killing it,
and the one that gets it claims it.

## Modules

| module | what it is |
|---|---|
| `TransferLifecycle` | abstract: what a caller of the queue may rely on |
| `TransferQueue` | the queue; implements `TransferLifecycle` |
| `TransferQueueProofs` | theorems about the queue |
| `TransferTarget` | attempts to write one SFTP file, with the server |
| `TransferTargetProofs` | theorems about them: deletes, handles, and what they leave in the file |
| `ProfileSync` | devices that push, pull, compare and wipe |
| `ProfileSyncProofs` | theorems about profile sync |
| `AppAgent` | the agent, its queue of loads, its lock |
| `SmartcardCoordinator` | composes the agent with the coordinator |
| `SmartcardProofs` | theorems about the two |
| `TeamVaultSync` | the machines of a team that share one vault file |
| `TeamVaultProofs` | theorems about them |
| `CaSession` | abstract: what a user may rely on when signing in and out |
| `SshCa` | the operation queue and the certificate session; implements `CaSession` |
| `SshCaProofs` | theorems about it |
| `WindowSessions` | windows, the tabs they show and give away, their closing |
| `WindowProofs` | theorems about them |
| `StorageConnections` | the provider of an id, its ssh process, calls that reconnect, disconnects |
| `SshTunnels` | port-forward tunnels, from start to stop or the 'exit' event of the application |
| `ConnectionProofs` | theorems about the two: what starts ssh processes of its own |
| `MC…` | the instances TLC checks |

### TransferQueue

`status`, `contexts`, `active`, `concurrency` are the fields of the class;
`place` gives the order of the array `jobs`; `aborted` and `held` are the two
controllers of a job; `kick` is the microtask of `resumeJob`; `waitResult` and
`waitingAll` are the promises given out by `waitForJob` and `waitForAll`. A copy
is seen through four stages that the queue can tell apart: it still prepares, it
copies (a pause holds it, an abort ends it), its last chunk has passed the meter
(only an abort ends it), it is being verified (nothing does). One action per IPC
call, plus the steps of `runJob`; `ProcessQueue` is part of each action that
calls it. `cancelAll` cancels one job after the other, and `waitForAll` looks again at
each event of a job that was idle (`TransferQueue.ts:300`); `CancelWith` takes the
statuses all of them end with, so its waiter may be answered at the cancel where the
code answers it at the end of the last run that was told.

### TransferTarget

One path of a server and the attempts to write it: `executeTransferFile` over
`SftpWriteStream`, where a retry is another attempt. `pc` is the await at which an
attempt is, `late` the clean-up that `whenTargetSettledLater` starts; `fds`,
`opening`, `closed`, `opened` and `sent` are the fields of the stream (`handle`,
`openInFlight`, `isClosed`, `opened`, `currentOffset`). Requests wait on the `wire`
of their session and are served in order; an answer waits in the `inbox` of its
attempt, so that a cancel, the end of the five seconds or a lost connection can
come before it is seen. The server is external: it keeps files by identity (a file
deleted while open can still be written), and may refuse any request. What comes
before the pipeline starts (the stats of source and target) changes nothing and is
left out, and a failure there is a `Break` right after `Begin`. Node's `pipeline`
reports an error once every stream is destroyed, which for a stream with a handle
is after the answer to its close (`tearing`). `alone` and `kept` are history, for
the properties.

### ProfileSync

Two of the seven files stand for all: `topology`, which carries the time of the
last change, and `credentials`, which does not. A profile's half is the number of
the edit that made it, so mixtures can be told. `known` is `lastKnownRemoteState`,
`op` is the operation a device is in (`runExclusive` allows one) with what it has
read so far. Every call to the provider is a step; it may fail (`StorageFails`)
and the application may stop at any point (`Restart`). `Merge` is `joinById`
followed by `mergeRecords`. `Overlap` says whether operations of two devices may
overlap in time; `unnoticed` is history: a call has failed whose failure the code
passes over (the write of the marker, a delete of a wipe). A push whose upload went
through but whose stat failed (`ProfileSyncService.ts:1572`) leaves a record of the file
before: that device's next push is refused as a conflict and every pull as a partial
push, until another device pushes, the target is wiped or the application restarts.
The downloads of a pull are asked for together, and the first that fails ends it
(907, 1131); those that go on may still record what they saw (1588, 1596), which
`StorageFails` leaves out. No property reads a record that way: what runs ahead of what
was merged is a hazard of its own in `PROJECT.json`.

### AppAgent and SmartcardCoordinator

A key in the agent is the lock epoch in which its load was asked for; so is the
kept PIN. The queue of loads, the shared `ensure()` with its probe (which a slow
agent may fail), the discard and the respawn, and the lock with its `ssh-add -D`
beside the queue are the agent's. The coordinator's stages are the awaits of
`getOrLoadGlobalSmartcardAgent` and `getOrLoadGlobalFido2Agent`. Between the
re-check of the agent and the registration of the card, `ssh-add -d` of unwanted
keys and `ssh-add -l` are one optional step (`Trim`). A module may find its key
loaded through another module of the same card (`AlreadyLoaded`, `Adopt`). One
connection per card is followed, since a second one shares the load in flight.

### TeamVaultSync

A vault file is a record of what the service compares: revision, the changes in it, a
wrapped key per recipient, the key it is encrypted and signed with, the proof of the key
before, the format. A machine has the fields of `VaultRuntimeState`: the held key
(`unlockedVaultKey`), who it was unlocked as, `lastKnownRemoteEntry` (`known`, the
number of the write), `lastSyncedRevision`, `remoteFormatVersion` (`floor`). `step` is
the await of the operation that `queueMutation` runs; an unlock waits beside it
(`unlocking`) and a lock takes no turn. A push looks, compares, writes, and asks for the
state of what is there then: the store writes unconditionally, so each of these is a
step of its own. A pull fetches, is accepted or refused, is written, and is recorded; a
file with a new key ends in a lock. `Fail`, `Restart`, `Delete` and `Forget` are what
may break it off. An edit of a saved profile and one of the header are each one step,
since nothing that matters to them can come between their queue turn and their write:
`addMember` waits for the age binary (`TeamVaultService.ts:744`) with the key it has
read, and only a lock can fall in between. A rotation waits for it too, and holds a new
key afterwards, so it has a stage. The stat and the download of a push (1494, 1496) are
one look. A write of the configuration that fails and is passed over (567-572), and a
failed read of it (544), are left out: after a restart such a machine knows of no sync
and takes any pull, and `UnpushedNeedForce` does not speak of it. `published`,
`recorded`, `blind` and `mixed` are history: the changes that were ever at the target,
the machines that recorded a sync, those whose record is of a write they have not read,
and whether an unlock came too late or a pull broke off before its lock. What `blind`
and `mixed` mark are things the code does (the races at 1517, 1518 and 1258, the skipped
lock at 1693): `PushKeepsEdits` and `KeysAgree` say what holds apart from them, and the
list of hazards names each of the four without a property.

### SshCa

`epoch`, `ended` and `asked` are the queue of `operationQueue.ts`: an operation keeps
the epoch it was asked in, a logout raises it, aborts the running operation and drops
the waiting ones when their turn comes. `phase` is the await of the running operation:
browser sign-in, refresh, signing, install (a file beside the card's key, or an add to
the agent), eviction of the session before (`evict`) and its replacement by the new one
(`replace`), the removals of a logout (`logout`, `leaving`) and the end of its session
(`left`). A certificate is a number. The agent is that of `AppAgent`, as far as a
certificate sees it: an add can be overrun by a lock, and is then wiped again; an agent
that is lost takes its certificates along. `troubles` bounds locks, losses and clean-ups
that fail. `leaked` and `leakedFiles` are the certificates whose removal failed, or
whose add was never confirmed (the service does not know of these); `gone` are those
that expired or were wiped. Sign-in and HTTP calls are external: each succeeds or fails.

`docs/user-guide/ssh-ca.md:232` says of the status "Active / Inactive | Whether a
valid certificate is loaded". The session stays active when a lock or the loss of
the agent took its certificate; `SessionIsLoaded` therefore allows `gone`.

It also allows two windows, in which the session is still the active one and its
certificate is gone. `evictReplacedSession` removes the file or the key of the session
before (`SshCaService.ts:404`, 411) and is awaited before `activeSession` is replaced
(374), so until the agent has answered, `getActiveCertificateFilePath` (103-110) still
hands out the path of a file that was unlinked, or the agent no longer has the key; the
certificate of the new session is in its place by then, but nobody is told of it yet.
In a logout the file goes first (194), then the key (200), then the session (204). The
property says that there is no third such window: nothing is taken from a session by a
sign-in or a renewal that fails, is cancelled, or has not installed its own.

### WindowSessions

A session stands for the tab that shows it. `open`, `owner` and `reserved` are the
maps of `WindowManager`, `timers` the 30-second timers of reservations, which are
not cancelled; `confirmed` is `closeConfirmed`, `asks` the pending closing prompts
with the list of sessions taken before the question. `pane` is what a renderer has
of a session: waiting for it (`opening`), showing it, closed while it waited
(`disposed`), moved while the answer of the main process is on its way (`leaving`,
or `refused`). `coming` holds the parked hand-offs and adopt messages; they are lost
with the window. What main and a renderer send each other arrives in order, so a tab
that comes back waits for the answer to its going. `astray` and `split` are history:
the sessions no window answers for any more (created for a window that had closed,
or reserved for a window that did not claim them in time after their owner closed),
and those whose tab was handed out twice before the first answer.

Met while modelling, and visible in the model:

- The list of sessions to end is taken before the prompt (`index.ts:353`) and used
  after it (361): a session moved away while the question stands is ended in its new
  window (`Proceed`). The comment of `reserve` says of a window with a reservation that
  "closing it must not end a session that is being moved" (`WindowManager.ts:157-159`);
  on this path it does. `ClosingSparesOthers` therefore speaks of every step of a
  closing, the answer to the prompt as well as the end of the window, and excepts the
  sessions the user was asked about: TLC finds it violated, in a few steps, when that
  exception is taken out.
- A pane whose move was refused, or is under way, can be moved again
  (`useTabTransfer.ts:64`), and then the first refusal's `unmarkDetached` (75) undoes the
  mark of the second move, so that its pane kills the session it gave away. `Move` leaves
  out a second move after a refusal that has not arrived.
- `release()` is called nowhere, and the exit of a session does not forget its
  owner, so the prompt "when sessions are running" also comes for sessions that are
  over (`SessionEnds` leaves `owner`).
- A tab closed while its refused move is being answered leaves its session running
  without a tab; its window still answers for it (`CloseTab` in `refused`).

### StorageConnections

`registered` is the entry of the map of `StorageRegistry`, `link` the fields of
`SFTPStorageProvider` (`isConnected`, `connectionPromise`, `disconnectCount`, and the
protocol of its adapter), `proc` those of `OpenSshSftpProcess`. A start of ssh is
named by the call and the attempt that made it, so that `servers` and `dirs`, the
askpass servers and control directories that are there, can be told apart. A call
goes through `executeWithReconnect`; a disconnect through `StorageRegistry.disconnect`,
`SFTPStorageProvider.disconnect` and `OpenSshSftpProcess.close`, whose only wait is
for the askpass server, so the login is one that has one. A callback runs to its end
with what it resolves (`Settled`). The server answers or the connection is lost;
ssh starts, fails or dies. `getHomeDir`, which connects without looking at the
count, and `disconnectAll` are left out.

A call comes to any provider that was made. The provider does not look whether it is
registered (`SFTPStorageProvider.ts:175-265`), and callers hold it over several calls
(`storageHandlers.ts:172-192`, and a transfer from its start to its end,
`transferHandlers.ts:113`, `TransferQueue.ts:364`).

A connection is the SFTP session on the ssh process spawned for it. The arguments carry
`ControlMaster=auto` and `ControlPersist=120` (`SmartcardDetector.ts:244-247`), so a
master may stay logged in in the background for up to two minutes after its process was
told to end. It carries no session then, nothing in these classes asks for it, and what
the properties say of connections is not said of it.

`late`, `kept` and `stolen` are history, for four things the code allows and the
properties therefore except:

- A call that begins while a disconnect waits for the askpass server sees the raised
  count and `isConnected` still true, loses its connection to the kill and reconnects;
  the provider then leaves the registry with a live ssh (`SFTPStorageProvider.ts:256`).
- A caller that kept the provider connects it again after a finished disconnect, and
  nothing closes that connection: the registry has no entry left to disconnect. What
  holds is that no call made before a disconnect does this, whoever keeps the provider.
- `StorageRegistry.disconnect` deletes by id after an await: of two overlapping ones the
  later removes a provider registered since (`StorageRegistry.ts:146`).
- A reconnect after a lost connection starts ssh again without closing, and forgets the
  askpass server and directory of before (`OpenSshSftpProcess.ts:123`); the properties
  ask this only of starts that failed.

### SshTunnels

`session` is the map of `SSHTunnelManager`, `start` and `stop` the awaits of
`startTunnel` and `stopTunnel`, `child` the process, `shown` what a window has of the
list: each broadcast, and the result of a start, which `SSHTunnelsModal.tsx:97` adds
by itself. The three timers are ordered by their lengths: a start window (0.8 s) that
began before a stop is over when the stop kills (1.5 s), and that before it gives up
(3 s). The application may quit (`Dispose`, then `Exit`) or exit at once, by
`process.exit()`; after that only the processes go on. Both ends have the 'exit' event
that `killAllSync` is registered for. An end without it, by SIGKILL or a crash of native
code, leaves the ssh processes running and is not modelled.

## Runs

| run | instance | what it shows |
|---|---|---|
| `transfer_queue` | 2 jobs, concurrency 0, 1 or 2, 2 retries | slots, wake-ups, pauses and waiters agree in every interleaving; accepted cancels are finalised; waiting jobs are served; the queue implements `TransferLifecycle` |
| `transfer_target` | 2 attempts of 2 and 1 chunks, 2 sessions, 1 lost connection | completed files are whole and stay, failed attempts leave nothing, nothing untouched is deleted, no handle leaks, each failure is reported |
| `transfer_target_late` | 2 attempts of 1 chunk, 2 sessions | **violated**: a late clean-up deletes the file a newer attempt completed |
| `profile_sync` | 2 devices, 2 edits, 3 uploads per file, operations one after the other, failures and restarts | no mixture is ever merged; a partial push leaves its marker; no pull takes a device back |
| `profile_sync_torn` | overlapping, 2 uploads | **violated**: a pull that looked for the marker before a push began reads half of that push |
| `smartcard` | a PKCS#11 module and a security key, 2 locks, a mortal agent | no key or PIN outlives a lock; each connection is answered |
| `smartcard_race` | two modules of a card and a security key, 1 lock, an immortal agent | **violated**: a load registers its card after a lock has cleared it |
| `team_vault` | 2 machines and a third recipient, 2 edits, 3 writes, 1 in an older format, 1 lock, failure, restart or removal | informed pushes lose nothing, unpublished changes survive unforced pulls, held keys fit their files, honest pulls are accepted |
| `ssh_ca` | 2 cards and a key in memory, 3 operations, 2 locks, losses or failed clean-ups | logouts cancel and leave nothing behind, a session keeps its certificate until its successor's is in place, every operation ends; implements `CaSession` |
| `window_sessions` | 3 windows, 1 session, 3 moves, 1 prompt at a time | some open window answers for a running session, who shows it owns it, a closing ends nothing another window shows or is to get unless the user was asked about it, a lost prompt goes on |
| `storage_connections` | 2 providers, 2 calls, each on any provider made, 2 disconnects, 1 lost connection | a disconnect holds against the calls made before, what exists fits the connections, everything ends |
| `ssh_tunnels` | 2 tunnels, quit or exit at any point | the list shown is so, a stop frees the port, no askpass server and no ssh is left over, every stop ends |

Each property of a passing run has a mutant in `PROJECT.json`: a plausible bug
(kept in the module beside the definition it spoils) under which TLC finds the
property violated.

`TypeOK` is proved for every module; in `StorageConnections` it is also part of
`ResourcesAgree`.

**Bounds.** Two jobs and a concurrency of none, one or two let a job run, wait, be
overtaken, held or retried while the other does any of these; that nothing depends on
their number, nor on the order of a longer list, is what the proofs add. Two attempts
are a late one and a newer one; two chunks let a first write be lost and a second one
land behind the hole. Two devices, two edits and three uploads let one device be
overtaken, fail half way, restart and push again. Two cards and two locks let a load
of each kind be overrun once and started again; the third card, which shares a key
with the first, takes part in the race run. In the vault, an admin and a member who
can be overtaken, with a recipient to remove or add, and three writes let a push meet
one it has not seen and be replaced in turn; one older write is the member who did not
upgrade. Three operations are a session, what replaces it and a logout, in any order;
two cards have two paths. Sessions share nothing but the windows, so one is followed:
three moves take it to a window, back and there again while the first timer runs, and
the third window is there to be asked or to be closed. Two calls can share a start,
one lose its connection and reconnect while the other begins; two disconnects overlap,
and the second provider is the one registered in between. Two tunnels broadcast while
the other starts or stops. Counters (`MaxEdits`, `MaxUploads`, `MaxLocks`,
`MaxRetries`, `MaxDrops`, `MaxOps`, `MaxTroubles`, `MaxWrites`, `MaxMoves`, `MaxAsks`)
are bounds of the instances; the proofs hold for all of their values.

In `TransferTarget` a request that is lost with its connection is not served
afterwards, and the provider's own calls in flight are asked again; their answers,
once on the way, count as arrived.

**Deadlock.** `ProfileSync`, `TeamVaultSync`, `SshCa`, `WindowSessions`,
`StorageConnections` and `SshTunnels` may stop
where their bounds are used up or nobody asks for anything, so their runs do not
check for deadlock; the others do.

**Fairness.** In the queue: microtasks run, and a provider answers each call of a copy
that is not paused; users and faults owe nothing. For transfer targets: the program's
own steps, its timer among them, and a server that answers everything except, perhaps,
an open; nobody has to cancel. In the smartcard modules: each awaited call ends, since
`ssh-add` runs under a timeout of 60 s (`SmartcardAgentLoader.ts:390`), probes under
one of 300 ms, and a prompt is answered or ended by the window that shows it. Nobody
has to connect, lock or enter the right PIN, and the agent need neither live nor die.
In `SshCa` the running operation goes on: HTTP calls and the browser sign-in have
timeouts or are aborted, `ssh-add` is killed after its own, and a prompt is answered
or times out. In `WindowSessions` a window whose closing was confirmed closes, and
Electron reports it to the prompts that watch; no answer of a user is assumed. In
`StorageConnections` a start of ssh ends one way or the other (ssh has its own
timeouts, and a prompt is answered), a process told to end dies, a server that is
reached answers or the connection is lost. In `SshTunnels` timers fire, askpass
servers start and stop, and a process that got SIGKILL dies; one that got SIGTERM need
not. `TeamVaultSync` has no liveness property: a push that is refused waits for a
user.

## Findings

- A pull looks for the push marker once (`ProfileSyncService.ts:903`) and then
  reads the files: a push that begins after the look is merged half
  (`profile_sync_torn`).
- The clean-up that follows a late open looks at the size of the file and deletes
  it in a second call (`TransferPipeline.ts:624`). A newer attempt that begins to
  write in between is reported as completed, and its file is deleted
  (`transfer_target_late`). This takes two providers of one server.
- A card load is guarded against a lock only while it is in the agent's queue. A
  lock that falls between the end of `ssh-add` and `globalCards.set`
  (`SmartcardCoordinator.ts:753`) empties the agent, and the load then shows its
  card as unlocked; the next connections reuse an agent without the key and no
  PIN is asked for (`smartcard_race`).

- A machine of a team that missed one rotation may refuse an honest file: while it is
  behind, one member is removed and another is added, so its list got no shorter, and
  the pull ends in `TeamVaultHeaderIntegrityError` (`TeamVaultService.ts:1660`). The
  same happens when any other change followed the removal and the list is not a subset
  of the held one. The docs promise a refusal only where more than one removal in a row
  was missed (`docs/user-guide/team-vault.md:248`). No run shows this one: with one
  edit more than the instance's two, TLC violates the property as it was first stated,
  without `MissedRemoval`; a failed attempt to prove it was what led there.

## Proofs

All theorems hold for every set of jobs, devices and cards and every bound, from
the assumptions named in the modules (finite sets, naturals; in `StorageConnections`
also that what waits for an askpass server, a disconnect or a provider, is one or the
other). What TLC checks on an instance is proved there as `THEOREM Spec => []…`, by an
inductive invariant. Every safety invariant and every action property of the runs
that must pass is proved.

- **Queue.** `TypeOK`, `SlotsMatchRuns`, `HeldIffPaused`, `WaitersAreTold`,
  `NoLostWakeup` and the refinement of `TransferLifecycle`.
  None is inductive alone. The strengthening says that a job runs only in a slot
  and with a context, that the aborted jobs are the cancelled ones in slots, and
  that a cleared job had completed. The lemma on `ProcessQueue` (what a batch
  leaves pending or fills) carries `NoLostWakeup`: after a batch either nobody
  waits or the slots are full, because every waiting job has a context.
  `NobodyIsPassedOver`: no job is started while one ahead of it in the list is left
  waiting, since ranks are never used twice and a batch is taken in their order.
  `CancelsAreOnTheirWay`: behind a cancel that is not final there is a copy that was
  told, that nothing holds and that never starts again.
- **Transfer targets.** Every safety invariant of the module. `TypeOK` and
  `SparesUntouched`, for any overlapping attempts: a delete is seen to be harmless
  only where it is served, far from where it was decided, so the strengthening says
  that each delete on a wire is of an attempt whose open succeeded, and that once any
  attempt was told so, even by an answer it has not read, the file of before is gone
  or truncated. `HandlesClosed`: a handle of the server is the stream's, or in an
  answer on its way, or its close is on the wire. `CompletedIsWhole` and
  `FailedLeavesNothing` rest on the order of one attempt's requests and answers: at
  most one of each kind is on its way, the writes are ahead of the close and the
  close ahead of the delete; each kind on its way tells the stage of its attempt; an
  attempt that is over has nothing on its way. From these follows how many chunks
  the file holds at each stage. `NoAwaitIsInVain`: an attempt that is not over can
  act, or what it awaits is on the wire or in an answer it will handle; for each wait of
  the code the invariant names the request or answer that ends it.
- **Profile sync.** `NewerNeverLost` for all interleavings, overlapping ones too;
  `WholeRecord` and `PartialPushLeavesTrace` where operations do not overlap, up to the
  first fault that is passed over. The strengthening: at most one device is in an
  operation; where the marker is absent the two files agree; a push in progress has the
  marker and a whole snapshot; what a pull has read belongs to one change. For
  `NewerNeverLost`: no half anywhere is newer than the last edit.
- **Agent and cards.** `TypeOK`, `LockedKeysGo`, `PinGoesWithLock`, and one load
  at a time. The strengthening: who is in the queue, at which stage, and that
  only its head is past its turn; no agent key without a socket, a discard or a
  start; no load was asked for in a later epoch than the present one.
  `NoLoadIsLeftBehind`: the queue holds each call under way exactly once, whoever awaits
  the agent does so during a start of it, and so the head of the queue can always go on.
- **Team Vault.** `TypeOK`, `KeysAgree`, `PushKeepsEdits` and `UnpushedNeedForce`, for
  any number of machines, edits and failures. For the keys: a file under another key
  than the held one is only there between a pull and its lock, and a file that is
  fetched or at the target is signed with its own key. For the pushes: what a machine
  recorded without being `blind` is a write it has read, so everything up to it is in
  its own file; between its look and its write the target has either not changed or
  carries a later number. For the changes: a file with the
  revision its machine last synced holds published changes only, and so does what a
  pull fetches. `HonestPullAccepted` needs the lineage of the files, wherever a copy of
  one is (`LaterVersionsDescend`): of two copies, one with all changes of the other has
  at least its revision; under the same key nobody has gone, and the rotation that came
  right after it took somebody and brought nobody. The acceptance of a pull looks at
  revisions, keys and lists, never at the changes, and the invariant ties them together.
- **SSH CA.** `TypeOK`, `NothingLeft`, `SessionIsLoaded`, `TimerHasSession`,
  `LogoutCancels`, and the safety half of the refinement of `CaSession`. The
  strengthening says which operation runs in each phase, that epochs of the operations
  are ordered and none is later than the present, that an operation past its last look
  at the signal belongs to an epoch no carried out logout has passed, and where the
  fresh certificate is at each stage of its install; that what an eviction or a logout
  has passed is gone from its place or counted as left behind; `SessionIsLoaded` holds
  in `replace` because the fresh certificate was put in its place first and stays there.
  `NoOperationGoesRound`: every step of an operation brings its end nearer in a measure
  that no other step raises (`StepsLeft`), so a refresh that fails is followed by one
  sign-in of the user and never by a second.
- **Windows.** `TypeOK`, `NoOrphan`, `ShownIsOwned` and `ClosingSparesOthers`, for any
  number of windows, sessions, moves and prompts. The strengthening says that of a
  session handed out once there is one holder: one pane, or one window it is on its
  way to; that the window of a pane that holds a running session owns it with no
  reservation left; that nothing is reserved for a closed window; and that a
  session that does not run yet is neither owned nor reserved. `LostPromptsAreSettled`:
  a question that went with its window stays a yes until the window it is about closes,
  because prompts name windows that were opened and a window id never opens again.
  `ClosingSparesOthers` is a property of steps: the list of a window holds no session
  that another window shows (it would own it) or has reserved, and the step that asks is
  the only one that puts a session in the reach of an answer.
- **Storage connections.** `TypeOK`, `DisconnectHolds` and `ResourcesAgree`, for any
  number of providers, calls, disconnects and lost connections. The strengthening
  (`ConnectionInv`): a provider has at most one start of ssh that is alive, unless a
  caller that had kept it made another (then only what is to be closed is still alone);
  the process object refers to it and is not marked closed, so whoever closes finds it;
  if the provider was disconnected since its call began, a disconnect still waits to
  close it. From the close to the end of that disconnect nothing of the provider is
  alive, unless a call began meanwhile; afterwards only a kept call connects it, with
  the count of then, so that no disconnect made before has to close what it connects.
  The count of a provider is the number of its disconnects, so a call that saw none and
  reconnects knows that none came. That one process object never loses the server and
  directory of a live start to the clean-up of another follows from its naming those of
  the start in progress, and those of an open one only while that is its child.
  `WaitersAreServed` is the safety half of `CallsEnd`: a call that waits has a start in
  progress to wait for, and one that runs has a process that will answer or end.
- **Tunnels.** `TypeOK` and every safety invariant of the module (`ShownIsSo`,
  `PortFreed`, `AskpassStops`, `ExitLeavesNone`), for any number of tunnels. The
  strengthening says what exists at each stage of a start (its askpass server, its
  process, its entry in the map); that a tunnel in the map is not being stopped and
  its process reports its end to the service; that a stop waits for a process that
  was told to end, and no longer than its start window allows; and that no process
  lives outside the map but one that was told to end. `StopsGetOn`: a stop waits only
  for such a process while something listens for its exit, and no step sets a stop back.

**Only model-checked:** the liveness properties (`CancelIsFinalised`, `PendingIsServed`,
`FailureIsReported`, `LoadsEnd`, `OperationsEnd`, `CallsEnd`, `LostPromptsSettle`,
`StopsEnd`, and that a logout takes effect in `CaSession`), since the prover does not
reason about fairness, and the violations, which are counterexamples. What of each
liveness property is safety is proved: that every wait is for something under way, or
that steps only ever bring its end nearer (`NobodyIsPassedOver` and `WakeupIsNeverLost`,
`CancelsAreOnTheirWay`, `NoAwaitIsInVain`, `NoLoadIsLeftBehind`, `NoOperationGoesRound`,
`WaitersAreServed`, `LostPromptsAreSettled`, `StopsGetOn`). TLC checked each of these on
the instance of its run (the two of the queue with a third job and one retry) before it
was proved; they are stated in the proof modules and no run lists them, since the
liveness property of the run says more. What fairness adds is that the steps so named
are taken.

**Assumed:** the clocks of the devices agree (the code compares their times); a
fresh version of a file is seen as changed by its size and time; `ssh-add -D` on
a live agent empties it (the code ignores its failure); a MAC verifies only under
the key it was made with. The renewal timer of
`SshCa` fires at any time, early when `setTimeout` is clamped included.

## Plan

What remains, in order of worth.

1. `ProfileSync`: the replacement of the target while a push runs (`resetRemoteState`).
2. `TeamVaultSync`: two vaults and the replacement of the target while a push runs.
3. The queue over `TransferTarget`: the directory workers, and the slot that is
   freed while others of them still clean up.
4. The external editor: the saves of a session that is closing, or whose watch is not
   yet attached, or whose file was replaced (`FileEditorService.ts:472`, 493), and two
   sessions on one remote file (443).
5. `disconnectAll` and the providers other than SFTP; port forwards of Kubernetes,
   the tail of files, updates.

## Not modelled, and why

Parsing, formatting, cryptography, text merges and the user interface are data without
interleavings; unit tests reach them. Of the storage providers only the SFTP write
stream and the connection are modelled; the rest, Kubernetes, git, search and the
askpass sockets are I/O whose outcomes the models take as choices. Windows variants of
the agent are a system service with other steps. Private agents per session, the
startup unlock, and quitting are left for later, and with them the closing of the main
window and a renderer that crashes or reloads. `PROJECT.json` lists each component
with its reason, and each hazard of the code with the property that covers it or the
reason why none does.
