# CodeChatter, verified

TLA+ models of CodeChatter, the TLC runs that check them on small instances,
and TLAPS proofs of what matters most for every instance. Paths are relative
to the repository.

- [The system](#the-system): its components, state and operations
- [What is modelled](#what-is-modelled): modules, state and actions
- [The runs](#the-runs): what each one shows, its bounds, its fairness
- [The proofs](#the-proofs): theorems, assumptions, inductive invariants
- [Where the code and its comments differ](#where-the-code-and-its-comments-differ)
- [The plan](#the-plan) and [what is left out](#what-is-left-out)

To run a check, `tlc -config DocLogSafe.cfg MCDocLog.tla`; to check a proof,
`tlapm DocLogProof.tla`. `PROJECT.json` lists every run, theorem and mutant, and maps
each definition to the lines it models.

## The system

CodeChatter is a collaborative workspace: rooms whose files several people
edit at once, with a sandbox per room in which programs run.

| Part | State it keeps | Operations | Talks to |
| --- | --- | --- | --- |
| **Collab** (`apps/collab`): Hocuspocus servers for Yjs documents | each open `Y.Doc`; `pending` updates; `persistedSV`; the checkpoints' `loaded` and `dirty` | load and seed, edit, flush, store, compact, unload, checkpoint, authenticate, revoke | browsers and the runner (websocket), other instances (Redis extension), Postgres, Valkey messages |
| **Postgres** (`packages/db`) | `doc_updates` (append-only log), `doc_snapshots`, `checkpoints`, `rooms`, `room_members`, `webhooks`, `webhook_deliveries`, `interviews`, ... | statements and transactions, advisory locks | collab, API |
| **API** (`apps/api`): NestJS | rows; in memory only sockets, timers, a worker's current batch | rooms and members, chat, runs by proxy, interviews, webhooks, GitHub, AI, notifications, audit | browsers, Postgres, Valkey, the runner, receivers of webhooks |
| **Runner** (`apps/runner`) | `RoomRegistry.sessions`; per room the sandbox, `DocSync` (`written`, `dirtyTexts`), `RunManager.active`, databases, terminals | ready, start and stop runs, sync files, sweep, destroy, prune | collab (a Yjs peer), Docker or Kubernetes, the sandbox agent |
| **Sandbox agent** (`sandbox/agent`) | the workspace on disk and what it last saw of it | reconcile, write, delete, mkdir, report changes | the runner |
| **Web** (`apps/web`) | an editor's own `Y.Doc`, offline edits | the user interface | collab, API |
| **Packages** | none at run time | contracts (zod), auth set-up, the document model, mail templates | |
| `client`, `server`, `spikes`, `infra` | the first version, experiments, deployment | | |

How they interact where it is hard:

- **A document** is open on any number of collab instances. The Redis
  extension relays updates between them; each instance logs only the updates
  its own clients sent, and a debounced store appends whatever else it holds.
  Compaction merges the log into a snapshot. Every step is an `await` on
  Postgres, so all of it interleaves, with crashes, with failing inserts and
  with the API deleting the room.
- **A webhook** delivery is a row that API processes claim with a lease, send
  outside any transaction and record if they still own it, while people pause,
  resume, remove and redeliver.
- **A sandbox** is reached through a registry of sessions that an idle sweep,
  a deletion and a prune all take apart while new requests come in.
- **Files** go both ways between the room's document and the sandbox's disk.
- **The file tree** is a Yjs document that browsers and the runner change
  without waiting for each other, offline too; what everybody sees is computed from it.
- **Rights** are read when a socket connects; a Valkey message closes sockets
  when they change.
- **An interview** moves through its statuses by conditional updates, from
  people's requests and from a sweep.

What makes each component correct:

| Component | Must hold |
| --- | --- |
| Document persistence | a committed update is in every later load; one seed; snapshots faithful and never going back; nothing an open copy shows is forgotten; a buffered edit reaches the log; a deleted room leaves nothing |
| Webhooks | one sender at a time; a 2xx is not repeated needlessly; stale results change nothing; every delivery settles |
| The file tree | no two files share a path; nothing vanishes that nobody put in the trash; typing is kept; a file made at a path disturbs no other |
| Checkpoints | every change is checkpointed in the end, one per period and document |
| Access | a revoked person has no open connection in the end; a connection's rights are ones its person had |
| File sync | both sides are equal when nothing is in flight; an edit is not undone by its own echo |
| Runs and sessions | one run and one session per sandbox; a sweep never stops a sandbox in use; every run ends |
| Interviews | a status goes forward only; a candidate writes only while the interview is live |
| Databases | at most one job per database; they sleep and wake with the sandbox |

The hazards behind these, each at its line, are the `hazards` of `PROJECT.json`.

## What is modelled

### Documents: `DocLog`

`apps/collab/src/extensions/persistence.ts` in front of `doc_updates` and
`doc_snapshots`, for one document, with `deleteRoom` of
`apps/api/src/rooms/rooms.repository.ts`.

| State | In the code |
| --- | --- |
| `room` | the `rooms` row, and how far `deleteRoom` got |
| `log`, `nextSeq`, `inserting` | `doc_updates`, its identity sequence, the inserts that have a seq and have not committed |
| `snap` | the `doc_snapshots` row |
| `compactor` | who holds the advisory lock `compact:<doc>` |
| `pc[i]` | which `await` of which hook instance i is at |
| `doc`, `pending`, `persisted` | its `Y.Doc`, its entry of `pending`, its `persistedSV` |
| `due` | Hocuspocus has a debounced store scheduled |
| `mark`, `merged` | the local `snap.seq` or `max`, and the throw-away `Y.Doc` of a compaction |
| `orphaned` | history only: what a crash or a refused insert took from a buffer |

Each `await` ends an action, so hooks of different instances, and the timer and the store
of one, interleave wherever the code lets them:

| Code | Actions |
| --- | --- |
| `loadInto`, `seedIfEmpty`, `onLoadDocument` | `LoadSnapshot`, `LoadRows`, `SeedInsert`, `SeedFound`, `SeedDone` |
| `onChange`, the relay, the interval | `Edit`, `Relay`, `TimerFlush` |
| `onStoreDocument` | `StoreFlush`, `StoreSkipped`, `StoreCheck`, `DropLog`, `DropSnapshot`, `StoreDiff`, `StoreNothing`, `StoreMark` |
| `compact` | `CompactSkip`, `CompactMax`, `CompactNothing`, `CompactRead`, `CompactWrite` |
| `afterUnloadDocument`; a process dies | `Unload`; `Crash` |
| Postgres | `Commit`, `Refuse` |
| `deleteRoom` | `DeleteRoom`, `DeleteRows`, `DeleteSnapshot` |

Abstractions:

- A Yjs document is the set of updates it holds. Applying an update twice, or
  two in either order, gives the same document, which is what Yjs guarantees;
  a state vector then stands for a set and a diff is a set difference. (The
  real diff repeats the whole delete set, which is harmless to apply again.)
- A flush is one row, whatever the number of updates in the buffer: the code
  inserts them in one statement.
- A relay brings everything the other copy has. Partial relays are the same as
  a relay of an earlier copy.
- `StoreLockHolds` says whether the Redis extension's store lock always
  outlives a store. The lock has a time to live, so the runs take it as FALSE:
  stores of two instances may overlap, and who waits for a lock may find that another
  instance has stored (`StoreSkipped`). The proofs cover both values.
- `Deletes` says whether the room may be deleted: TRUE in `doclog_live`, FALSE in the others, which ask about a live room.
- `LateLoads` says whether the runner, for whose token `access.ts` does not
  look for the room, opens the document after the room is gone.
- A late row is one that committed after a row with a higher seq: history that
  lets properties say what the code does and does not keep.

`DurableDoc` is the abstract specification: what was saved stays saved until
the room is deleted, whoever opens the document gets all of it, a copy only
grows until it closes. `DocLog` implements it with `saved` as the rows that
committed in order.

### Webhooks: `Webhooks`

`apps/api/src/webhooks/webhooks.service.ts`, for one endpoint.

| State | In the code |
| --- | --- |
| `hook` | the `webhooks` row: none, active, paused or gone |
| `row[d]` | the `webhook_deliveries` row: `status`, `attempts`, the length of `attemptLog`, whether `lastError` is the expiry, `nextAttemptAt`, `lockedUntil`, `lockedBy`, its age |
| `requests` | what a worker claimed and has not finished with: what it read, and the answer |
| `accepted`, `lost` | history: 2xx answers in the row's cycle, and requests whose result nobody recorded |

| Code | Actions |
| --- | --- |
| `create`, `update`, `remove` | `Create`, `Pause`, `Resume`, `Remove` |
| `queue`, `test`, `redeliver`, `cleanup` | `Queue`, `Ping`, `Redeliver`, `Cleanup` |
| `runWorker`, `batch`: the claim | `Claim` |
| `send` | `Answer` |
| `batch`: the result, the release, the catch | `Record`, `Release`, `RecordFails` |
| time against the columns | `RetryDue`, `LeaseOver`, `Age` |
| a process dies | `Crash` |

A transaction or a statement is a step; HTTP happens between steps. Time is only what
the code compares it with: due or not, a lease live or over, a row fresh, over a
day old, or past its retention. A batch is any non-empty set of claimable rows
(the code takes at most 20, in order, and skips locked ones). A lease that ends
under a request overruns, and overruns are counted: ten seconds of a request fit
in sixty of a lease, so it takes a suspended process or a slow database. An
endpoint's privateTestOwner, URL, secret and event filter are left out, and so
is the graceful shutdown, which stops claiming and waits.

`DeliveryLife` is the abstract specification of each delivery's log: each
recorded attempt counts once, a cycle has at most `MaxAttempts`, what is settled
stays settled until a redelivery, and the history only grows.

### Files: `FileSync`

One path between the room's document and the disk of its sandbox: the runner's
`doc-sync.ts`, its channel `agent-channel.ts`, and the agent's `workspace.ts`,
`watcher.ts` and `agent.ts`.

| State | In the code |
| --- | --- |
| `doc` | the file in the room's document |
| `mirror` | `written` and `writtenBlobs`: what the runner believes the agent has |
| `dirty`, `treeDirty`, `timer` | `dirtyTexts`, `treeDirty`, a flush scheduled or chained |
| `phase`, `snap` | how far `attach` is, and its snapshot |
| `fetching`, `storing` | bytes on their way from, or to, the object store |
| `down`, `up` | requests to the agent, and events from it, in order |
| `hand` | the operation the agent is at |
| `known`, `disk` | `Workspace.known`, and the disk |
| `touched`, `reading` | the watcher's batch, and what `inspect` has read |
| `parted` | history: something happened that may leave the sides different |

| Code | Actions |
| --- | --- |
| observers of the document | `Edit`, `OtherEdit` |
| `attach` | `Attach`, `AttachWrite`, `Attached` |
| `flush`, `push`, fetching a binary file | `Flush`, `Fetched`, `FetchFails` |
| a request that times out | `Late` |
| the agent's chain of operations | `Take`, `Done`, `Refused` |
| watcher and `inspect` | `Inspect`, `Compare` |
| `applyEvent` | `Apply`, `Stored`, `StoreFails` |
| a program writes; the container stops or is reset | `Program`, `Lose` |

A file is its content: a text or a binary one, or none. Whose it was is told
from the content, so a program's text can be seen to come up and go down again. Folders and
renames are left out (a rename is a removal and a file), and so are ignored and
too-large files, symbolic links, a file that cannot be read, other paths (they share only the
queues), and a restart of the runner (the document comes again from collab,
and attach is what a new runner does).

### Sandboxes: `Sandbox`

The registry of room sessions with its sweep (`room-session.ts`), each
session's `RunManager` (`runs.ts`), terminals (`terminal.ts`), the one
container they reach by its name (`sandbox.ts`) and the databases
(`databases.ts`, `docker-databases.ts`), for one room.

| State | In the code |
| --- | --- |
| `registry`, `opened` | the room's entry of `sessions`, and how many there have been |
| `active`, `terminals`, `fresh`, `link` | of each session: `RunManager.active`, its count of terminals, `lastActive` within the idle minutes, its agent |
| `closing` | how far `close` is |
| `pc`, `kind`, `of`, `target` | the handler of each request: where, of what, in which session, and the run it waits to stop |
| `gone`, `asked`, `timers` | clients that went, runs somebody stops, time limits ahead |
| `alive` | processes in the container |
| `container`, `databases` | what runs in Docker |
| `resuming` | what a `databases.resume` that nobody awaits has asked Docker for: the list, a start |
| `sweep`, `stops` | what the sweep's list says to stop, and the stops it has asked for |
| `overlapped`, `leaked` | history: two starts overlapped; a terminal that still counts though it is over |
| `missed` | history: since the files were put in place last, Docker refused a call, or a stop of the databases ended |

| Code | Actions |
| --- | --- |
| `POST runs`, a terminal's socket, `POST restart` | `StartRun`, `OpenTerminal`, `Restart`, `StopReturns`, `Reset` |
| `ready`, `ensure` | `Connect`, `Attach`, `ReadyResets`, `Prepared`, `Fails` |
| `databases.resume` | `ResumeLists`, `ResumeStarts` |
| `RunManager.start` | `Exec`, `Begin` |
| `openTerminal` | `Shell` |
| a process ends; `finish` | `Exits`, `Ends`, `Finish`, `FinishExhausted` |
| `stop`, the time limit, a client that goes | `Stop`, `Timeout`, `Leave`, `Kill`, `GiveUp`, `KillFails` |
| `isIdle`, `sweep`, `close` | `Cool`, `Sweep`; `Close`, by `Pauses` and `ContainerStops` |
| the sweep's list, and the stops it awaits | `SweepLists`, `SweepStops`, `StopEnds` |
| the runner restarts | `RunnerRestart` |

Of time there is what the code measures: a session was touched within the idle
minutes or it was not, and `Cool` happens only when no handler is in the middle
of its awaits, which take seconds. The session is the container's, so all sessions of the
room share processes, and a reset of one ends those of all.

Every call of Docker takes time and may fail, and the code swallows the failure: a list that fails
counts as an empty one (`docker-databases.ts:147`), a start or a stop that fails is passed over.
So `resume` and `pause` may do nothing; what the sweep has listed may have changed when its turn
comes; between its look at the sessions and the end of the stop it awaits anybody may come
(`room-session.ts:333`); and Docker finishes the stops of a runner that is gone. `Databases` says
whether the room has databases, all of which are taken for one. `destroy` and `prune` of deleted rooms are left out:
they end everything at once. So are notebooks, language servers and debuggers,
which are more counters in `isIdle`, and Kubernetes.

### Checkpoints: `Checkpoints`

`apps/collab/src/extensions/checkpoints.ts` with `checkpoint-rules.ts`, and
the API's `checkpoints.service.ts`, for one files document.

| State | In the code |
| --- | --- |
| `doc`, `loaded`, `dirty` | each instance's document and the extension's sets |
| `rows`, `aged` | the `checkpoints` table, each row with the ids of those that have a later `createdAt` (`newer`), and whether the newest is `every` old |
| `job` | each `make`: where it is, of which kind, what it read, the row it answers with |
| `holder`, `earlier`, `newer` | the advisory lock; of each open transaction, the open ones that started before it; the rows a job's `createdAt` (its transaction's start) is older than |
| `fresh`, `gone` | the row not yet committed, and the ids chosen to be deleted |
| `spared`, `unseen`, `job[j].asked` | history: rows with a name when the old ones were chosen; edits no checkpoint has; the files when the browser asked |

| Code | Actions |
| --- | --- |
| `afterLoadDocument`, `onChange`, `afterUnloadDocument` | `Load`, `Edit`, `Relay`, `Unload` |
| the tick, a request | `Tick`, `Ask` |
| `make` | `Lock`, `Decline`, `Insert`, `Commit`, `Checked`, `Answer`, `Fail` |
| time; the API; an instance dies | `Age`; `Rename`, `RemoveRow`; `Crash` |

A document is its set of edits; a state vector counts the insertions among
them and not the deletions, as Yjs's does. An id stands for a row's uuid; `Ids` is
finite, so an id that no row and no job refers to any more is used again. Rows of imports and interviews, single
inserts of the API, are left out.

### Interviews: `Interviews`

`apps/api/src/interviews/interviews.service.ts` for one interview, composed
with the candidate's sockets: collab's `access.ts` and `revocation.ts`, and the
API's `realtime`.

| State | In the code |
| --- | --- |
| `mode`, `status`, `candidate`, `window`, `due` | the `interviews` row, against the clock |
| `role` | `room_members` |
| `slot` | handlers under way: the `await` they are at, and what they read before it |
| `conn`, `shell` | the editor and the terminal of the candidate: coming (checked and not yet registered) or open; the shell in the sandbox |
| `messages` | room access messages to collab and to the API |
| `late`, `cut`, `slipped` | history: let in after the end; a handler died or a message was lost; what was coming when the connections were closed |

| Code | Actions |
| --- | --- |
| `claim`, `setCandidateRole(..., "candidate")` | `Claim`, `Claimed`, `Admit` |
| `start`, `startAssessment`, `begin` | `Start`, `StartAssessment`, `Begin` |
| `finish`, the timer | `Finish`, `Sweep`, `SweepMissed` |
| `closeSitting` | `CloseSitting`, `Demote`, `Announce`, `Restart` |
| `extend`, `cancel`, `removeSitting` | `Extend`, `Cancel`, `RemoveSitting` |
| `onAuthenticate` and registration; a socket closes | `Connect`, `Connected`, `Disconnect` |
| `closeRoomConnections`; `LiveSockets` | `CloseRoomConnections`; `Recheck` |

`InterviewLife` is the abstract specification: started once, ended once, one
candidate for ever, nobody else let in and nobody early. Left out: the paper
and its answers, link rotation, consent and recordings, the AI switch, tests
and the scorecard, which are updates of other columns.

### The file tree: `FileTree`

`packages/workspace-model/src/model.ts` on replicas of a Yjs document: people's
browsers, and the runner for what happens in the sandbox.

| State | In the code |
| --- | --- |
| `doc[r][n]` | the map of node n on replica r: `kind`, `name`, `parentId`, `trashedAt`, `blob`, and its `Y.Text` in `contents` |
| `typed[r]` | which texts somebody has typed in, as far as r knows |

| Code | Definitions |
| --- | --- |
| `isLive`; `resolveSiblingNames` | `Live`, by `Widen`; `ResolveSiblingNames`, by `FreeName` and `Lower` |
| `listTree`, its `build`; `findByPath` | `ListTree`, `Deepen`, `Join`; `At` |
| `name.trim()`, on the way into the document | `Trim` |
| `insertNode` | `NewNode`, `InsertNode` |
| `createFile`, `createBinaryFile`, `createFolder`; `createAtPath` | `Create`; `CreateAtPath`, by `CreatedAtPath` |
| `rename`, `move`, `trash`, `restore` | `Rename`, `Move`, `Trash`, `Restore` |
| `setBlob`; `setFileText`, `setText` and typing | `SetBlob`; `SetFileText`, `Type` |
| `seedFiles` | `SeedNodes` |
| Yjs: a key of a map; an update arrives | `Set`, `Delete`, `Merge`; `Sync`, by `MergeNodes` |

Yjs keeps for a key the last of its items: an item stands right after the one its
writer saw last, and those after the same one are ordered by client id. The
writers on the way to an item are its `line`; lines compare as words do, the
greatest is the last item, and of the others nothing is seen again. So a key is
one value and its line, and a merge takes the greater (a deletion, if the lines
are equal). A synchronisation brings all that the other replica has; a delayed or partial one
is the same as one that came earlier. A node stands for its place in the order of
`createdAt` and id, which clocks that differ and random ids leave free. A name is a sequence of
letters, capitals and blanks among them, and of the numbers that were appended to it. As in the
code, `findByPath` and so `createAtPath` compare paths as they are spelt, while names are made
distinct in lower case, and a name is trimmed when it is written but not in the path that is looked
up. Moves go onto folders that are shown, as in `explorer.tsx`; the paths of `createAtPath` have one folder. Left out:
trees deeper than 64, the `tests` map, and `validateName`, which the web client calls before it makes
or renames anything and the runner, for files of the sandbox, does not.

## The runs

| Run | Question | Bounds |
| --- | --- | --- |
| `doclog_safe` | With stores that overlap and an insert that fails: is there one seed, is nothing an open copy shows forgotten, do snapshots never go back, does every load get what was saved? | 2 instances, 2 edits, 3 rows, 1 refused insert |
| `doclog_live` | With a crash and the room deleted meanwhile: is a snapshot faithful, and does a buffered edit reach the log? | 2 instances, 1 edit, 3 rows, 1 crash |
| `webhooks` | One sender, no needless repeat, a log that moves only as `DeliveryLife` allows, every delivery settled in the end? | 2 workers, 1 delivery, 2 attempts, 1 each of redelivery, overrun, crash and failure |
| `filesync` | Are the room and the disk equal when nothing is under way, and does the traffic die down? | a text and a binary file of the room, a text and the same binary of a program, 2 edits, 1 write, 1 failure |
| `sandbox` | One run at a time, no session closed in use, databases awake with the files in place? | 2 requests, 2 sessions, 1 reset, 1 restart of the runner, a room with databases |
| `sandbox_live` | Every run over, every idle session closed? | the same, a room without databases |
| `checkpoints` | Is every change checkpointed, are named ones kept, automatic ones spaced, and does a browser get what it asked for? | 2 instances, 1 request, 1 insertion, 7 ids, 1 kept of each kind, 2 loads, 1 mishap |
| `interviews` | Is the candidate let in, shut out and cut off, and does an overdue interview end? | 2 people, 2 handlers, 1 extension, 1 mishap |
| `filetree` | Are paths distinct, does only a race of moves hide a file, is typing kept, does a new file disturb no other? | 2 replicas, 2 folders, 1 file in one of them, 2 new nodes, 3 changes; of the room's names in small letters people write one with a capital, with or without a blank after it |
| `doclog_claim`, `doclog_persisted`, `interviews_rights` | three claims of comments that the code does not keep, [below](#where-the-code-and-its-comments-differ) | 2 instances, 1 or 2 edits, 3 rows; 2 people, 2 handlers, no mishap |

Every bound is a constant, named where it is declared. Why they are enough:
two instances or workers make every pair of handlers race; a third adds only
more of the same, as each step touches one actor and the database. In the runs of
`DocLog` the seed, a flush and a diff fit in three seqs, enough for a compaction on top
of a snapshot, and for rows that commit in another order than they were numbered. For
two compactions to overtake each other they would need four seqs and two edits; there
the proof stands in, which has no bounds. Three changes of the file tree are
two that race and one before or after them. Two attempts are a retry and the last
one. Two requests of a sandbox are every pair of a run, a terminal and a restart, in one
session or in an old and a new one. The liveness run
has no databases: nothing that a run or a session waits for looks at them, and with them there are
several times as many states. Two edits and a write are an edit that crosses a
program's, and one that comes after. A program's binary file is the same as the
room's, so that it also is the case of equal bytes. With one kept of each kind the second
checkpoint already lets one go. Two handlers and a free interview row make every pair
of requests race, and the two people fight for the link; the third handler of an ending
is one of the two after it has ended. Seven ids of checkpoints are as many as the
rows and jobs of these bounds can refer to at once, so that an insert always finds one. Safety of `DocLog`,
`Webhooks`, `FileSync`, `Sandbox`, `Interviews`, `Checkpoints` and `FileTree`
is proved for all values of these constants. `MaxSeq` limits
what the environment starts (edits, diffs, seeds), never the commit of an
insert. The runs may stop, since edits are bounded, so deadlock is not an error.
The second edit of `doclog_safe` lets a store find nothing left to append. Both
runs keep `LateLoads` FALSE, for what they check is about a live room or one whose
rows are on their way out; the proofs cover both values.

The properties:

- `SnapshotFaithful`: the snapshot holds each in-order row it covers and
  nothing that is not in the log up to its seq.
- `SnapshotNeverGoesBack`: no step lowers the snapshot's seq or loses of its state.
- `SeededOnce`: the log has one seed and every open copy has that one.
- `NothingSlipsAway`: what an open copy shows is in the log, buffered or being
  inserted, or a crash or refusal took it from the buffer.
- `EditReachesLog`: an edit in a buffer leads to the log, unless its instance
  crashes, the insert is refused or the room goes.
- `ImplementsDurableDoc`, `ImplementsDeliveryLife`: the abstract specifications.
- `OneSender`: while no lease has overrun, two requests for one delivery never run
  at once, in spite of crashes, pauses and redeliveries.
- `AcceptedOnce`: within a cycle, a receiver's 2xx is followed by another send
  only once per result that nobody recorded or lease that overran.
- `Settles`: a pending delivery leads to one that is not, or to an endpoint
  that is not active.

- `QuietIsEqual`: when nothing is under way the room, the runner's mirror, the
  agent's `known` and the disk agree, unless one of four things has happened since the
  attach: an event and an operation crossed, an edit fell into `attach`, a
  request or the object store failed, or the container stopped meanwhile.
- `Settles` of `FileSync`: the two sides do not echo each other for ever.
- `OneRun`: two programs never run at once, unless two starts had both passed
  their look at `active`.
- `SweptIsUnused`: `close` never kills a run or a shell of the session it closes.
- `DatabasesAwake`: files in place mean databases there or on their way,
  though an old session's `close` stops both under a new one. It leaves out what the code does
  nothing about: a call that Docker refused, and a stop of the databases that ended after the files
  were there. (Without the second exception it is `WakesWithSandbox`, a claim that the code does not keep.)
- `Answered`: every run ends, though programs may run for ever; `IdleIsClosed`: a
  session with nothing under way is closed in the end, but for a leaked terminal.
- `UnseenIsDirty`: an insertion is in a checkpoint or its instance will look.
- `NamedIsKept`: what has a name when the old ones are chosen survives.
- `AutomaticOnesAreSpaced`: instances take turns, however many looked before.
- `AnswerHoldsInserts`: the checkpoint a browser is answered with, made or found,
  has every insertion its files had when it asked.
- `NobodyLeftWaiting`: whoever used the link of a running interview is let in,
  whichever of the start and the use came first.
- `RightsEnd`, `SocketsEnd`: after the end the candidate is a viewer, their
  editor closed and their shell gone; the exceptions are named in history variables.
- `ImplementsInterviewLife`: the abstract specification.
- `PathsAreDistinct`: no two nodes shown have one path, whatever was made and
  renamed at the same time, also when somebody names a file "a (2)", or spells it otherwise. All of
  them must have a name: what is in a folder with the empty one would be shown beside it.
- `OnlyRacingMovesHide`: what is not in the trash, nor in a folder that is, is
  shown, unless moves of two people made a loop above it.
- `EditsSurvive`: typing stays in a file through everything but a change to bytes.
- `CreatedWhereAsked`: `createAtPath` at a path that nothing has in any spelling makes just
  that path, unless its folder's is a file's or a folder's spelt otherwise; no node
  that was shown moves or gets another name, whatever the clocks say. (Where the path is free only as
  it is spelt, see `CreatedAtItsPath`.)
- `OverdueEnds`: an interview past its time does not stay live.

Each has a mutant in `PROJECT.json`: a definition with the lock, guard,
assignment or boundary a plausible bug would drop. TLC finds the property
violated with it.

Fairness. `DocLog`: inserts commit (`pg` connections do not hang for ever) and the
100 ms interval fires. Nothing else is fair: no client has to edit, no relay to
arrive, no document to open, and no store to go on, so an edit reaches the log by
the flush timer alone, even if the document unloads with a full buffer.
`Webhooks`: retries come due, leases end, the five-second tick claims whenever
there is something to claim, and a request and what follows it come to an end
(ten seconds of timeout, then one statement). All of it is weak fairness. No one has
to resume a paused endpoint, so `Settles` leaves out paused ones.
`FileSync`: timers fire and promises settle, the agent and its watcher go on (weak,
one conjunct for each of those chains); no one edits, and a container need not come back.
`Sandbox`: handlers go on when what they await has come, time limits pass, a
kill kills, the sweep comes by. No program has to end by itself and no client to leave.
`Interviews`: handlers go on (weak); the timer's sweep is strongly fair, over
all slots together, since people's requests take slots and free them again and again; in
the code a request never keeps the timer from running at all, so this asks for
less than the code gives. `Checkpoints` states no fairness, all its properties being safety.

## The proofs

Proved with TLAPS, for any instances, edits, workers, deliveries, requests, people,
handlers, contents, rows and bounds:

| Theorem | Says |
| --- | --- |
| `DocLogProof!TypeCorrect` | `Spec => []TypeOK` |
| `DocLogProof!SnapshotIsFaithful` | `Spec => []SnapshotFaithful` |
| `DocLogProof!SnapshotIsMonotone` | `Spec => SnapshotNeverGoesBack` |
| `DocLogProof!DocLogImplementsDurableDoc` | `Spec => ImplementsDurableDoc` |
| `DocLogProof!SeedingIsOnce` | `Spec => []SeededOnce` |
| `DocLogProof!NothingIsForgotten` | `Spec => []NothingSlipsAway` |
| `WebhooksProof!WebhooksTypeCorrect` | `Spec => []TypeOK` |
| `WebhooksProof!SendersAreAlone` | `Spec => []OneSender` |
| `WebhooksProof!WebhooksImplementDeliveryLife` | `Spec => ImplementsDeliveryLife` |
| `SandboxProof!SandboxTypeCorrect` | `Spec => []TypeOK` |
| `SandboxProof!RunsAreAlone` | `Spec => []OneRun` |
| `SandboxProof!SweptSessionsAreUnused` | `Spec => []SweptIsUnused` |
| `SandboxProof!DatabasesAreAwake` | `Spec => []DatabasesAwake` |
| `WebhooksProof!AcceptedIsNotRepeated` | `Spec => []AcceptedOnce` |
| `FileSyncProof!FileSyncTypeCorrect` | `Spec => []TypeOK` |
| `FileSyncProof!QuietSidesAreEqual` | `Spec => []QuietIsEqual` |
| `CheckpointsProof!CheckpointsTypeCorrect` | `Spec => []TypeOK` |
| `CheckpointsProof!UnseenIsNotForgotten` | `Spec => []UnseenIsDirty` |
| `CheckpointsProof!NamedOnesAreKept` | `Spec => NamedIsKept` |
| `CheckpointsProof!AnswersHoldInserts` | `Spec => AnswerHoldsInserts` |
| `CheckpointsProof!AutomaticOnesComeSpaced` | `Spec => AutomaticOnesAreSpaced` |
| `FileTreeProof!FileTreeTypeCorrect` | `Spec => []TypeOK` |
| `FileTreeProof!TypingSurvives` | `Spec => []EditsSurvive` |
| `FileTreeProof!MergesAgree` | `Spec => []ReplicasMerge`: merging is commutative, associative and idempotent on what replicas have |
| `FileTreePaths!PathsStayDistinct` | `Spec => []PathsAreDistinct` |
| `FileTreePaths!OnlyRacesHide` | `Spec => []OnlyRacingMovesHide` |
| `FileTreePaths!CreatedStaysAsked` | `Spec => []CreatedWhereAsked` |
| `InterviewsProof!InterviewsTypeCorrect` | `Spec => []TypeOK` |
| `InterviewsProof!CandidateIsLetIn` | `Spec => []NobodyLeftWaiting` |
| `InterviewsProof!RightsAreTaken` | `Spec => []RightsEnd` |
| `InterviewsProof!SocketsAreClosed` | `Spec => []SocketsEnd` |
| `InterviewsProof!InterviewsImplementInterviewLife` | `Spec => ImplementsInterviewLife` |

Assumptions: `NoOne` is not an instance or a worker, `Nobody` not a person and
`NoRun` not a request, requests are finitely many, edits are not seeds, texts not
binary files and `Absent` is neither, ids are naturals and `NoRow` is none of them, no job and no row,
instances are not requests, insertions not deletions, switches are Booleans, a room has databases or none, bounds are naturals,
`MaxAttempts` and `Keep` are positive. In `FileTree`, client ids are above 0, nodes are
finitely many positive numbers, names are sequences, small letters are not numbers, and each seed is a node of its own, in a
folder of the seeds or at the root, with what its kind holds; the seeds' folders do not lead in a
circle, for `seedFiles` makes a folder before what is in it. TLC evaluates them in each run.

**`DocLogInv`** has the inductive invariants. The properties are not inductive:
whether a snapshot is faithful after `CompactWrite` depends on what the
compaction read before. So the invariant says, of every actor half-way, what it
relies on:

- `SnapInv`: seqs are never given twice (`Numbered`); who is inside `compact`
  holds the lock (`OneCompactor`); and the snapshot, a load's partial
  document and a compaction's `merged` are all *known*: what a compaction up to
  their seq could have produced. A row that commits below a known seq is late by
  definition and one above it is not covered, so commits keep it. `WritesKnown`
  also orders what is about to be written after the snapshot that is there,
  which gives `SnapshotNeverGoesBack`. With `LoadsKnown` a load ends with all
  in-order rows, the refinement's one real step: `LoadRows` is `Open`.
- `AwaitInv` and `SeedInv`: a handler waits for at most one insert; while the log is
  empty the only insert can be the seed, under the lock; afterwards all seeds
  anywhere are the one in the log.
- `KeptInv`: what an open copy has is logged, orphaned, buffered, or in an insert
  that a *flush* sent. A diff in flight needs no count of its own, since its
  updates are in one of those already; so a refused diff loses nothing.

**`WebhooksInv`** has `RowInv`: what the owner of a lease read at the claim
(attempts, history) is what the pending row still says (`Carried`), since whoever
changes either takes the lease away; a pending row has attempts left; a
worker has one request per row. The log's refinement follows: only `Record` by
an owner is an attempt. `LeaseInv`: while no lease has overrun, whoever sends a
row's delivery owns its live lease, and is alone. `AcceptInv`: requests that are
still awaited, and a 2xx, are each paid for by a result nobody recorded or a lease that overran, all
but one; and that one too unless the row says delivered, is gone, or its owner is
about to record the answer. A claim, an answer, a record and a redelivery each move one
between the two sides, so its steps compare cardinalities of finite sets of requests.

**`FileSyncInv`** follows a content through both queues. `QuietIsEqual` speaks of the one
state in which nothing is under way; that the sides are equal there depends on what each message says while
it is. Until something parts the sides only one direction is busy, and
everything on its way to the agent is one content, the `Target`:

- `RoomInv`: `attach` sends what the room has; later the mirror is the room's, or a flush is coming.
- `DownInv`: every operation in the queue, the one at hand and every fetch carries `Target`, and somebody awaits it.
- `AgentInv`: once nothing is on its way down, the agent knows the `Latest`: the last event it
  sent, or what the runner believes. Its disk is what it knows, unless its watcher is about to look.

**`CheckpointsInv`** says what the holder of the lock may rely on between its statements:

- `SpacedInv`: "there is no row", or "the newest is old enough", stays true while it
  decides, as others wait for the lock, and rows that go only help.
- `FreshInv`, `SparedInv`: the row about to be committed has an id of its own, and none of
  the ids chosen to go had a name.
- `SeenInv`, `LooksInv`: what counts as unseen is in no row; and an unseen insertion leaves its
  instance dirty, or its tick so far that the row about to be committed has it.
- `AnswerInv`: what a browser's files had when it asked is in the document the job reads,
  then in the row it made or found.
- Types, in four parts: the jobs' turns for the lock, the partial order of open transactions, the
  rows with the later ones of each, and the rest.

**`SandboxInv`** ties a request to the registry. That `close` runs on an unused
session is not inductive: it depends on why the sweep could not take it
earlier, which is a different reason for each step of each handler.

- `Numbered`: a session that is being closed is not the one in the registry.
- `HoldersInv`: a handler half-way, one that waits for a stop, and an open
  terminal are of the session in the registry, and the first has touched it, so `IsIdle` fails.
- `ActiveInv`: a run under way is the active one of that session, unless starts overlapped; one
  that ends is, or somebody has touched the session since.
- `AloneInv`: at most one run is between its look at `active` and its end.
- `CountInv`: a session counts at least its terminals (leaked ones are the
  difference). It is why the count stays natural and `IsIdle` sees each of them;
  its steps compare cardinalities of finite sets.
- `AwakeInv`: an agent that is connected means a container that is up; and where the files are in
  place, databases that sleep are on their way, or something was `missed`, or the `close` that took
  them is still about to take the container, and every agent with it.

**`FileTreeInv`** says what replicas may rely on about one another's items. `TypeOK` has that one
item has one value everywhere, which is not inductive: a replica might write the item again
that another already knows as its own. Lines give the reason it cannot:

- `KeyInv`: of every line anywhere, the part up to an item of r is the line of an item that r
  has seen, so that what r writes next is new. Lines are ordered as words are, in which `After`
  is transitive, irreflexive and total; so a merge keeps `KeyInv`, and commutes and associates.
- `NodesInv`: a node is known with all its keys or not at all, a new id is nobody's, and a
  file that nobody gave bytes has the text it was made with, for only `setFileText` of a
  file with bytes makes another.
- `TypedInv`: who typed knows the file, and typed in that text unless it was given bytes.
- `RaceInv`: what is in a folder is known only with the folder (`ParentsKnown`), which is what
  makes an unlisted node with its folders all there sit under a loop. `move` refuses a target below
  the node, but only in the tree its own replica has, and a merge puts moves together that nobody
  looked at as a whole. So `LoopsInv`, no loop of one person's moves, is inductive only with
  `MovesInv`: everyone has seen its own moves, and of two replicas one has seen all of w's that
  the other still goes by. A merge therefore goes by moves of w that one of the two
  goes by already, and there they make no loop. Hence any loop has two people's moves in it.

`FileTreePaths` is about any tree that such nodes make. `FreeName` is free, by the pigeonhole
principle: of one more numbers than there are names taken, one is not. `ResolveSiblingNames`
is defined by recursion on the order of siblings, `ListTree` on the depth: the
functions exist (by the least number for which they would not), siblings get names of their
own, and each level appends one name, so that two paths are equal only of one node. Every node that
is shown is reached, since parents of level d are of level d - 1.

The other two theorems rest on the same. `OnlyRacesHide`: a node that is not listed, with nothing
above it in the trash, has folders above it without end; nodes are finitely many, so they come
round, and `RaceInv` has two writers in that loop. `CreatedStaysAsked`: that nothing is near the
path, case aside, says of the names shown in its folder that none is the new one in lower case, which is
what `FreeName` goes by. So wherever the clocks put the new node in the order of its siblings it gets its title,
and every other sibling the name it had; a path is its folder's path and its shown name, so no path changes,
level by level; and `createAtPath` adds one chain of such nodes, one in the other.
`PathsStayDistinct` needs the names not to be empty because `Join` puts no prefix in front where the
path so far is "", which only a folder at the root with the empty name can have.

**`InterviewsInv`** says what a handler half-way still knows, and who has yet to act:

- `Claims`, `Admits`, `Demotes`: statuses only move on and a candidate stays, so
  what was read before an `await` is wrong only in ways the next step allows for.
  An ending that found no candidate leaves nobody on the way in.
- `Announced`: each end and each removal tells the sockets once, so two
  messages at most are under way.
- `Waiting`, `RightsGo`, `EditorGoes`, `TerminalGoes`: as long as a right, an editor or a
  shell is there that should not be, some handler is on the way to it. The safety
  properties are these with every handler done.

Only model-checked: `EditReachesLog`, both `Settles`, `Answered`, `IdleIsClosed` and
`OverdueEnds` (liveness under fairness is outside the prover). Every invariant and action property
that a passing run checks is proved.

## Where the code and its comments differ

1. **`doclog_claim`**: `persistence.ts:18-19`, "a snapshot can't claim a seq whose
   update it lacks" (also `docs/adr/0005-collab-hocuspocus.md`). Identity values
   are taken when an insert executes, not when it commits. `compact` takes
   `max(seq)` of the rows it sees; a lower seq still in flight commits
   afterwards, and loads skip it. The advisory lock is among compactors and does not keep
   inserts out. What does hold is `SnapshotFaithful`, where late rows are named.
2. **`doclog_persisted`**: `persistence.ts:16-17`, "a crash of the originating
   instance loses nothing". `persistedSV` is set after the insert's await from
   the document as it is then, so an update that was relayed meanwhile counts as
   persisted and this replica never appends it. If its origin crashes before its own flush,
   no row has it.
3. **`interviews_rights`**: `interviews.service.ts:73-77`, "Ending really takes the
   candidate's rights away". `claim` (line 739), `startAssessment` (460) and
   `begin` (440) let the candidate in after an `await`, on a status read before
   it. If the end's own update and demotion come in between, the role is a
   candidate's again and nobody takes it away. `RightsEnd` names that case `late`.

TLC also refutes these, which are stated in the modules and have no run of their own (the
smallest bounds that let the case happen are enough for each):

- `DocLog!DeletedRoomKeepsNothing` (`persistence.ts:128`, "Keep nothing: not this copy, and
  not what flush just wrote"): an insert of the timer's flush that is in flight
  during the deletes commits after them, and nothing removes its row.
- `Sandbox!WakesWithSandbox` (`room-session.ts:332`, "A room's databases sleep with its sandbox (stopped,
  data kept) and wake with it"): the sweep looks for a session and then awaits the stop of a database,
  for up to fifteen seconds (333). A session that opens meanwhile asks for the databases that have exited
  (`docker-databases.ts:84`), finds none, and has none when the stop ends.
- `Sandbox!OneAtATime` (`runs.ts:27`, `49-50`): `active` is looked at in line 59
  and set in line 87, with `prepare` and `exec` awaited in between.
- `Sandbox!ClosedWithoutRunOrTerminal` (`room-session.ts:27-28`): a tab closed
  before its sandbox is ready leaves its terminal on the count
  (`terminal.ts:18`, `27`), so the session never looks idle again.
- `FileSync!NothingIsEchoed` (`workspace.ts:20-23`): between `known.set` (line 47) and the rename (62), or
  `forget` (71) and the removal (72), `inspect` may read the old file and report it as a
  program's; `doc-sync.ts:189-209` applies it, undoing a newer edit.
- `Checkpoints!AnswerHoldsFiles` (`checkpoint-rules.ts:23-25`): state vectors do
  not change by a deletion alone (`checkpoints.ts:60`, `182-188`), so none is made.
- `Checkpoints!NamedIsNeverLetGo` (`checkpoints.service.ts:50`): what is named
  between the list (`checkpoints.ts:71-75`) and the delete (77) goes all the same.
- `FileTree!CreatedAtItsPath` (`model.ts:299`, "Create a file at `a/b/c.ts`, reusing folders that already
  exist at those paths"): `findByPath` (197) compares as spelt and `resolveSiblingNames` (154-155) in lower
  case, so `Src/x` made beside `src` is shown as `Src (2)/x`, and `README.md` beside `readme.md` as
  `README (2).md`. The disk of the sandbox, where programs make them, tells them apart.
- `FileTree!LostToACycleIsShown` (`model.ts:168`, a node "lost to a cycle" is put
  at the root): `isLive` (129-138) drops every node in or under a loop first. Two people
  who move folder A into B and B into A lose both with all that is in them, for
  everyone and not in the trash either; the runner then deletes the files on the sandbox's disk.
- `FileTree!BinaryHasNoText` (`model.ts:12-14`): new bytes on one side and
  `setFileText` on the other leave a file with both.

And met while modelling:

- Files: an event and an operation that cross leave each side with the other's
  content until the next change; edits during `attach`'s awaits are in neither its
  snapshot nor a later push (`doc-sync.ts:109-121`); a failed attach is not tried again
  (108, 111), nor a refused write of the same content (302).
- Sandboxes: a restart touches nothing before its reset (`server.ts:283-287`), so
  the sweep may close its session; a client that goes before its run begins stops nothing
  until the time limit (`server.ts:765-769`); `stop` gives up on a program that keeps
  running (`runs.ts:118`); a restarted runner forgets those that run; a list or a start of databases
  that Docker refuses leaves them asleep until the next attach (`docker-databases.ts:84-85`, `147`).
- The file tree: names are trimmed (`model.ts:216`, `276`), and only the web client checks them, so that a directory of the
  sandbox whose name is a blank becomes a folder with the empty name: what is in it is shown at the root's
  paths (180), beside files that are there, so two nodes have one path. Three people who turn a file into bytes and back at once can leave it
  with neither bytes nor a text (five changes); `move` (281-285) would not end on a
  target in a loop, which is never shown; `restore` has no caller but its tests; trashing
  "a" gives its name back to "a (2)".
- Checkpoints: the web client's requests before a restore always carry a label
  (`history-view.tsx:117`, `history/checkpoints.ts:69`), so KEEP never applies to
  them; `createdAt` is the start of a transaction, before it waits for the lock.
- Interviews: an API process that dies between an update and `setCandidateRole`
  is not made up for; `claim` goes by the row's id (733), so a link read before it was rotated (632)
  still works; the sweep ends an interview extended between its read and its
  update (611-616); a socket that was checked before a revocation and registered
  after it keeps its rights, and so does one whose message was lost.

## The plan

1. `DocLog`, `DurableDoc`: done.
2. `Webhooks`, `DeliveryLife`: done.
3. `FileSync`: done.
4. `Sandbox`: done. Still to model: `destroy` and `prune` of deleted rooms.
5. `Interviews`, `InterviewLife`: done. Still to model: the rotation of the link.
6. `Checkpoints`: done.
7. `FileTree`: done.

## What is left out

The web client and the first version (user interface); AI, GitHub, mail,
notifications, HTTP studio, calls and blobs (external services around single
statements); previews, debugger and language-server proxies (byte streams);
notebooks, data tools and the judge (programs in the sandbox); Kubernetes (the
same operations against another API); auth, contracts and templates (libraries
and schemas); infrastructure. Most of the repository's lines are of these: the
user interface, the retired first version, templates, and services around single
statements with no interleaving of their own; the models are of the files where
actors meet. `PROJECT.json` gives the reason for each.
