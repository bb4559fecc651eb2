# LeanTTY: specifications, model checking and proofs

LeanTTY is an SSH and Mosh terminal for HarmonyOS. Its application is ArkTS
(`src/entry/src/main/ets`, one JavaScript thread), its SSH and Mosh stacks are
Rust behind N-API (`src/leantty_ssh`, Tokio threads), its terminal is a C++
worker (`src/entry/src/main/cpp/terminal`). Most of what is hard in it happens
between these three: an answer given at a prompt whose connection is already
gone, a callback of a session nobody wants any more, a process killed between
two records.

This directory holds TLA+ modules of those parts, the configurations that
model-check them with TLC, and theorems about them checked by TLAPS.
`PROJECT.json` is the index: components, runs, the source lines each definition
stands for, hazards, findings and theorems.

    tlc -workers 2 -config DurableAssetStore.cfg MCDurableAssetStore
    tlapm DurableAssetStore_proofs.tla

## 1. Inventory

Paths are under `src/`; `ets/` is `entry/src/main/ets/`.

### Durable store — `ets/model/persistence/DurableAssetStore.ets`

*State.* Records of the system's Asset Store: per path one pointer record
(manifest: generation, chunk count, sha256) and the chunk records of some
generations. *Operations.* `write`, `remove`, `garbageCollect` (synchronous);
`read`, `readAsync`, `removeAsync`, `listPaths`. *Used by* the durable-state
manager, the recovery store. *Hard.* No transaction: a text is many records,
and the process may die, or a request fail, between any two; `readAsync` and
`removeAsync` interleave with the synchronous calls at each await.
*Correct when* a path is an atomic register; a published generation is
complete; a reader never mixes generations; what is left over is collected and
nothing else.

### Host trust — `KnownHostsFile.ets`, `DurableStateManager.ets`

*State.* `.ssh/known_hosts`, its temporary file, the record an older version of
the application kept in the durable store, the promise chain
`knownHostsOperation`, `knownHostsPrepared`. *Operations.* commit a line,
remove a host, look up, migrate (once per process, repeated when it failed).
*Hard.* Two panes at once; failure at any await; death or power loss between
rename and directory sync; a migration repeated over newer decisions. *Correct
when* an acknowledged approval survives everything, a removed host does not
come back, and a failed operation does not hold up the others.

### Configuration, keys, font size and their projections — `DurableStateManager.ets`, `SshConfigCommitPolicy.ets`, `KeyPairDeletionPolicy.ets`, `KeyCommentCommitPolicy.ets`

*State.* A durable value and a file (the projection) that OpenSSH code reads.
*Operations.* commit, delete, roll back, restore at startup, reconcile keys.
*Hard.* Either write may fail and the process may die between them; the restore
awaits each path while a pane changes it. *Correct when* a restart always
converges to the durable value, and a call that fails leaves both as they were
or says that it could not.

### SSH environment readiness — `SshEnvironmentReadiness.ets`

*State.* One shared preparation promise. *Operations.* `ensure`. *Hard.* Panes
asking while it is under way or has just failed. *Correct when* there is one
preparation at a time and a failed one is tried again.

### Native SSH session — `leantty_ssh/src/lib.rs`

*State.* Per session: the phase of `run_session` (jump host, then target), the
bounded channels for host-key decision, authentication answer, input and
disconnect, three threadsafe functions that carry events out. *Operations.*
`ssh_connect`, `ssh_verify_host_key`, `ssh_submit_auth`, `ssh_write`,
`ssh_disconnect`, and the phases. *Hard.* The three event queues are unordered
against each other; every wait races the disconnect request and most race a
deadline. *Correct when* a key is trusted only on the decision for it, an
answer goes to the round that asked, and every session ends.

### SSH client and session state — `ets/model/ssh/SshClient.ets`, `SshSession.ets`

*State.* The current session id and generation, pending prompt, connection
state. *Operations.* connect, answer, verify, write, disconnect, and one handler
per event. *Hard.* The client forgets a session before the native layer ends it.
*Correct when* no event of one session acts on another.

### Pane — `ets/viewmodel/SessionViewModel.ets`

*State.* Terminal mode, the terminal boundary (whose output is accepted, whether
a reset is waited for), pending commands, pending host-key approval.
*Operations.* a line of input at `ltty>` or a prompt, Ctrl-C, `~.`, every event,
surface failure, disposal. *Hard.* Everything that awaits storage or the
environment continues in a pane that may have moved on. *Correct when* mode and
session tell the same story, secrets and trust reach the prompt that showed,
output belongs to its session, and a pane left or closed leaves nothing behind.

### Key generation and key files — `leantty-ssh-core/src/keygen.rs`, `ets/model/ssh/SshKeyManager.ets`

*State.* `.ssh/<name>` and `.ssh/<name>.pub`, and the durable pair. *Operations.*
generate (on a native thread), import, change passphrase or comment, delete,
export. *Hard.* Two files are never replaced at once; generation runs beside
everything else. *Correct when* a pair the user was told is kept can always be
restored, and a deleted one does not come back.

### Authentication core — `leantty-ssh-core/src/authentication.rs`, `run_authentication`

*State.* Per layer (jump host, target) a state machine: the methods tried in this
stage, the credential or challenge waited for, the rounds and stages so far. One
channel for answers and one for the disconnect request, shared by both layers.
*Operations.* select the next method, take a passphrase, a password or the answers
to a challenge; exchange, wait, give up. *Hard.* A server may answer with partial
successes, changing lists and ever more rounds; an answer may be older than the
prompt it meets, and both layers count rounds from 1. *Correct when* the exchange is
bounded, an answer goes only to the prompt it was typed for, and a user who does
nothing wrong is not stopped by the client's own guards.

### File transfer — `leantty_ssh/src/transfer.rs`, `run_file_transfer`, `FileTransferLifecycle.ets`, `TransferFileManager.ets`, `SessionViewModel.startFileTransfer`

*State.* The lifecycle's phase and the pane's mode, the local temporary file, the
remote temporary file, the transfer's event queues. *Operations.* put, get, the
answers to its prompts, Ctrl-C, closing the pane; a chain of SFTP requests, each
with its deadline. *Hard.* A request given up may be carried out all the same; the
final name may be claimed by another; the source may change while it is read; a stage event
may be dropped. *Correct when* a final name only ever gets a whole file, nothing
of another's is overwritten, the user is told the truth, temporary files are
removed or reported, and the prompt comes back.

### Mosh — `ets/model/mosh`, `run_mosh_session`, `run_mosh_protocol`

*State.* One client and one native session per connection; the bounded input queue;
the temporary terminal page; the shared promise of a disconnect. *Operations.*
connect, type, the escape that disconnects, dispose, and the events of the session.
*Hard.* The input queue may be full; an error and the ordered close come in either
order; a disconnect may meet any phase. *Correct when* the remote side sees input
without gaps, the last output is shown, the page is given back with the
prompt, and nobody waits for ever.

### Native terminal — `entry/src/main/cpp/terminal/`, `ets/model/terminal/`

*State.* A worker thread's queue, output pressure, reset and detach fences.
*Correct when* input is withheld exactly as long as output is over the limit,
nothing of before a reset is shown after it, and destruction waits for the
worker.

### Unexpected-exit recovery and application close — `UnexpectedExitRecoveryStore.ets`, `ApplicationCloseCoordinator.ets`

*State.* A durable mark, a checkpoint of the workspace, the close in progress.
*Correct when* recovery is offered after an unclean exit and only then, once.

### Background bell — `BackgroundBellNotification.ets`

*State.* A version, a publication under way. *Correct when* at most one
notification per background episode, and none is left after a return.

### Workspace — `AppViewModel.ets`

*State.* Tabs, panes, focus, the undo of a closed tab. *Correct when* the focus
names a live pane and every closed pane's runtime is disposed once.

### Not state machines

Rendering, grid, search and links; command-line parsing, history and completion;
the SSH configuration parser; key formats and cryptography; preferences,
clipboard, browser; views. These are data transformations or single platform
calls which the repository's unit tests reach well. Vendored `ssh-key` and build tools are not this
program; the test servers are, as far as the client meets them (`AuthFixture`,
`SftpTransfer`).

### How they interact

A line at `ltty>` makes the **pane** await **readiness**, then the **client**
call the **native session**, which runs **authentication** for each layer, as a **file
transfer** and a **Mosh** bootstrap do. Native events come back through three queues to the
client and the pane. An approved host key goes from the pane to **host trust**
and, once stored, to the native session. Output passes the pane's boundary to
the **terminal**, whose reset gates the pane's input. Configuration, keys and the
recovery mark rest on the **durable store**, as did host trust before its
migration.

## 2. Modules

| Module | What it is |
|---|---|
| `DurableRegister` | abstract: one atomic value per path, one call at a time |
| `DurableAssetStore` | the store, request by request; refines `DurableRegister` |
| `DurableAssetStore_proofs` | TLAPS: inductive invariant, types, `PublishedComplete` |
| `DurableAssetStore_refinement` | TLAPS: the store implements `DurableRegister`; honest readers, complete collections |
| `KnownHosts` | host trust and the migration, await by await |
| `NativeSsh` | native SSH sessions: phases, channels, event queues |
| `SshPane` | a pane, its client and session state; composes with `NativeSsh` |
| `SshPane_proofs` | TLAPS: types and the five safety properties of `SshPane` |
| `KnownHosts_proofs` | TLAPS: types, `AcknowledgedTrustKept`, `ForgottenStaysForgotten` |
| `AuthStateMachine` | the choice of methods, as operators on a record |
| `AuthFixture` | the repository's SSH server: its answers per scenario |
| `Authentication` | `run_authentication` between them: exchanges, waits, deadlines, the shared channels |
| `Authentication_proofs` | TLAPS: types and four invariants of `Authentication` |
| `SftpTransfer` | a native transfer and the repository's SFTP server |
| `FileTransfer` | the pane's side of a transfer; composes with `SftpTransfer` |
| `FileTransfer_proofs` | TLAPS: types and the four safety properties of `FileTransfer` |
| `MoshSession` | a native Mosh session; the protocol library is external |
| `MoshPane` | the pane's side of Mosh; composes with `MoshSession` |
| `MoshPane_proofs` | TLAPS: types and the three invariants of `MoshPane` |
| `DurableProjection` | configuration and key pairs: records, files, preparation, commit policies, key generation |
| `DurableProjection_proofs` | TLAPS: types and the four safety properties of `DurableProjection` |
| `MC*` | values and symmetry for TLC |

### DurableAssetStore

`pointer` and `chunks` are the Asset Store's records. A text is abstracted to a
value with a number of chunks (`ChunkCount`, the length `split` returns); the
sha256 and byte count of a manifest are the value itself, so `Complete` is what
`readGeneration` and `validate` accept together. `pc`, `path`, `val`, `gen`,
`next`, `todo` are the synchronous call in progress: it holds the JavaScript
thread, so there is at most one, but the process may die at every request.
`AddChunk`, `VerifyChunks`, `PublishPointer` and the sweep are `write`;
`WriteFails` is its catch block, which removes the generation under construction
(`rollback`) and rethrows. `StartRemove`, `UnlinkPointer`, `ListRecords` and the
erase loop are `remove`; `StartCollect` and the collect loop are
`garbageCollect`. `RemovalFails` keeps the difference between the four loops:
erase swallows a failed request and goes on, sweep swallows it and stops,
rollback and collect throw. `reader` are the `readAsync` calls: the service
answers a query at any moment, the continuation runs only when the thread is
free. `retire` is the `removeAsync` of the known-hosts migration.

Assumed of the platform: one request is atomic, a request that reports an error
changed nothing, and generation names (clock and sequence number) do not repeat.

`DurableRegister` is what the callers rely on: a call takes effect at one moment
between its start and its end, or, if it fails or dies, possibly not at all. The
mapping (`Register`, at the end of the module) reads the register's value off the
active generation and takes the switch, or the removal, of the pointer as the
moment.

### KnownHosts

`file` is what the file holds now, `synced` what a power loss may go back to.
`queue` is the promise chain, `pc` the await at which its head is suspended; the
awaits of `KnownHostsFile.write` are the same in the migration and in an update,
so the actions from `OpenTemporary` to `SyncDirectories` serve both (`GoTo`).
A line is abstracted to the host it is about. `Crash` covers both a killed
process (the file as it is) and a power loss (`synced`, and any subset of lines
that were not fsynced). `must` and `may` are ghosts: the entries whose approval was
acknowledged and whose removal nobody asked for, and the entries somebody
approved and no acknowledged removal took away. A removal that finds nothing to
remove answers without touching the disk; it acknowledges nothing here, because
an earlier removal whose directory sync failed can still be undone by a power
loss. `removeAsync` of the older record is taken as durable once it succeeded.

### NativeSsh and SshPane

`native[s]` is one run of `run_session`. Phases stand for its awaits: connecting,
waiting for the host-key decision (the one wait with no deadline), refused,
authenticating, waiting for an answer, opening the shell, the shell loop, broken
(the channel writer failed, the loop goes on), ending, ended. With a jump host the
layer is "jump" first and "target" afterwards. `control`, `auth` and `transport`
are the queues of the three threadsafe functions, each in order and none ordered
against another. `Ends` drops everything but the events already sent.

`pane` is the record of the view model, the session state and the client. An
action is a task of the event loop, or the part of an async function between two
awaits; microtask continuations of one await run before any other task
(`Draining`). Handlers are composed of operators with the names of the methods
(`MarkFailed`, `ResumeConnection`, `FinishOwnership`, `SetMode`, ...), each of
which is the state change that method makes. `PASSWORD_INPUT` stands for the
three prompts for a secret, which differ in wording and echo only. Replacing the
client on a changed host key is the forgetting of its session: the later events
fail the same id check. Completions of resets of earlier boundaries have no
effect in the code, so only the reset of the current boundary is kept. Ghosts:
`trusted`, `typedFor`, `asked`, `owner`, `screen`.

Left out: key installation and key commands; line editing; output batching, flow
control and resize; warnings and diagnostics; the choice among authentication
methods (module `Authentication`); a second error report after a refused key;
`reconnect`, which has no caller. `SessionViewModel.disconnect` is one step.

The constant `Excluded` names situations kept out of a run, in which section 5
shows the code to do otherwise. `"late teardown"`: a command goes on
only when other sessions have ended and their transport events have been taken.
`"pasted commands"`: one command per batch of input. `"close while preparing"`:
a pane is closed, or its terminal fails, only when no command waits.
These are not fixes, only the boundary within which the properties hold.

### AuthStateMachine, AuthFixture and Authentication

`AuthStateMachine` has one operator per method of the Rust type, from a machine to
the machine and the action that follow; a refusal is an action, too.
`AuthFixture` does the same for the server: `OnNone`, `OnPassword`,
`OnPublicKey` and `OnKeyboardInteractive` are its handlers, `proved` is a ghost that
collects the factors shown, `Required` says which the scenario asks for.
`Authentication` joins them. `wire` is the request under way and its reply; `run`
the layer, its wait and its outcome; `channel` the answer and the disconnect request
on their way; `app` the prompt that shows. Between two waits the code has no await:
`TakeReply` and `TakeCommand` are whole steps, from the message to the next
request, prompt or end. `ProceedToTarget` keeps the channels, as the code does:
an answer typed for the jump host may still be in them. The scenario `"any"` replies
whatever the method allows. `Misuse` is an answer no prompt asked for: the exported
functions accept it.

Left out: lengths of texts and answers, agent and certificate methods (the client
has none), warnings.

### SftpTransfer and FileTransfer

`native[t]` is one run of `run_file_transfer`. Its phases after the connection are
the calls of `execute`, named for what they ask; `After` is what follows each answer, for
a PUT (`lstat`, exclusive `open`, `write`..., `close`, `rename`, and `conflict` and
`remove` when something went wrong) and for a GET (`lstat`, `open`, `fstat`, `read`...,
`close`, `flush`, `sync`). A request that is given up stays in `requests`, and the
server handles it in its turn. The server is the fixture: its rename is a
hard link and an unlink, so it never replaces a file. A file is abstracted to whose it is and
how many blocks it has. `pane` is the lifecycle, the mode and the promise that a
closing pane waits for; `Completion` is the commit of a download (`moveFileSync`
under the first free name).

Simplified: a second transfer begins when the first is at rest, its late host-key
events excepted, and the first one's files are then forgotten, which keeps the
states few: nothing can change them any more; others claim a name or change
the source only just before it is looked at; errors a dying connection makes
of single calls are the connection's end. Left out: progress as numbers,
key installation, what the prompts say.

### MoshSession and MoshPane

`native[s]` is one run of `run_mosh_session`: `"ssh"` is the bootstrap, whose
phases are those of `NativeSsh` and matter here only by how they end; `"running"` is
the loop of `run_mosh_protocol`, one operator per branch of its `select!`;
`"draining"` and `"stopping"` are what follows. The protocol library is external: it may
become active, produce, lose and regain its peer, and end. Input and output are
numbered. `clients[s]` is a `MoshClient`, which may outlive its place in the pane;
`pane` is the view model with the temporary page, the reset after it and the calls of
`disconnect` that wait. A threadsafe function's queue for data, reachability and close is
bounded and blocks; that for control events is not ordered against it.

Simplified: pause and reachability are reported when they change; the
surface fails only while a session, or the reset after one, concerns it. Left out: prompts
during the bootstrap (`SshPane` has them), resize, diagnostics, the escape parser.
`Excluded`: `"disconnect during bootstrap"` is the finding of section 5,
`"disconnect during reset"` the observation.

### DurableProjection

`durable[p]` is the record of a path (the configuration, or a key name) in the
store, taken as the register `DurableRegister` specifies: a write that throws
changed nothing, a removal that throws may have removed. `config`, `priv`, `pub`
are the files; each is replaced by rename, so a write that throws left the old
one, except that native generation creates the private file in place (`Broken`).
A write that returns may have been short: `FileUtils.writeTextFile` does not compare what
`writeSync` wrote with what it was given (`TextWritten`, `PrivateWritten`,
`PublicWritten`), so materialising, committing, rolling back and importing may leave a
file cut off (`Broken`, or an empty configuration), or a public key cut in its comment,
which is still that key. The native changes of a key and the store's
own records do not go that way.
`prep` is the one preparation of `SshEnvironment.prepare`, an action for each stretch
between two awaits: known hosts, listing, reading and materialising each path,
listing keys, then migration or reconciliation. `env[p]` is what pane `p`
remembers of it, `shared` is `SshConfig.shared`. `call` is the synchronous call
that holds the thread, one action for each request it makes: `CommitConfig`,
`ImportKey`, `ChangeKey` (passphrase or comment) and `DeleteKey` with their
policies' rollbacks. `outcome` is what its error message claims: "previous" when it
says the previous value remains active, "unknown" when it says that the rollback
failed or nothing. `call.old` is what the code would go back to, `call.record` (a ghost)
the durable record the call found. `gen[p]` is a key generation, whose native part needs no thread
of the event loop; its continuation captures the files, removes them, or throws while it
reads the result and leaves them. `Crash` ends the process anywhere; the files stay.

A file's text is abstracted to the revision it holds (`Material`: key, passphrase
and comment; encrypting again gives other bytes but the same revision) and its
fingerprint (`IdOf`), which is what `readKeyInfo` compares. `told` and `gone` are
ghosts: the pair the user was told is kept, and whether the user was told of a
deletion.

Left out: the backup copy `config.leantty.bak`, font size and preferences, power
loss between rename and disk, export, how host entries edit the text, the
migration of `known_hosts` (one step; module `KnownHosts`).

`Excluded` again names situations of section 5. `"silent unlink"`: `removeFile`
fails and nobody is told. `"listing fails"`: the key directory cannot be listed.
`"short write"`: less is written than was to be, and nobody is told. With the last admitted
all four safety properties fail: a cut configuration is shared, preparation completes with
one, the rollback of a deletion says that the previous value remains active although a
file is cut off, and a repeated migration captures a public key cut in its comment in
place of the pair it captured before.

## 3. Runs

| Run | Distinct states | Shows |
|---|---|---|
| `store_crash_atomicity` | 476 580 | the store is an atomic register; published generations are complete; an asynchronous reader never mixes generations and reports incompleteness only of a superseded one; a collection that succeeds leaves no garbage |
| `store_calls_end` | | every synchronous call and every `readAsync` ends |
| `known_hosts_trust` | 193 680 | acknowledged decisions survive failures, repeated migrations, crashes and power loss; an operation that fails does not hold up the rest |
| `ssh_connection` | 2 235 841 | trust, secrets, output, prompt and teardown of two connections in sequence |
| `ssh_settles` | 91 221 | a connecting pane gets somewhere; `~.` gives the prompt back |
| `projection_agreement` | 1 585 315 | what the user was told is kept or deleted stays so; preparation brings files and records together; "previous remains active" is true; panes share the durable configuration |
| `authentication` | 1 190 765 | the exchange is bounded; answers reach their prompt; an honest user is not turned away by the client; the fixture lets in only who has shown its factors |
| `file_transfer` | 566 542 | final names are safe; the user is told the truth; no temporary file is left unreported; the prompt comes back; a cancelled transfer ends |
| `mosh` | 260 220 | input without gaps; the last output shown; the page given back; no waiter and no prompt left behind |
| `ssh_late_teardown`, `transfer_dropped_stage`, `mosh_bootstrap_disconnect` | | findings, section 5 |

*Bounds, and why they are enough.* Store: one written path and the retired one,
texts of one and of two chunks, three generations: one active, one under
construction, one left behind or being read, which is every role a generation can
have; a fourth plays a role a second time. One reader, because readers do not
touch the store. Symmetry permutes generations, which are only compared. The
liveness run has one two-chunk text, two generations and no symmetry.
Known hosts: two panes are two operations in the queue, one under way and one
waiting, and only the head touches the disk; two hosts with
a key each let a removal take one line and leave the other. SSH:
two sessions are the one that leaves and the one that comes; the pane's client
stands for at most one. One question and one piece of output per session are enough to be answered or
shown too late; `SecretsReachTheirPrompt` across rounds of one session relies on
the jump and target layers, which each may ask. Sessions, questions and output
are bounded by `MaxSessions`, `MaxAsks`, `MaxData`, named where a guard uses
them. A session has one banner at a time in its queue. Projection: one key
name, since no operation relates two names and preparation treats paths one by one
(the configuration is the second path it meets); two revisions of a key and another key tell a
change from a new key; two panes let one act while the other waits, generates or
prepares; two texts, one of them empty. Authentication: three stages and two rounds
(the code has larger constants) reach each limit with a step to spare, prompts of none, one and
one too many values; one misuse. The counter of requests stops one past its bound.
Transfers: one block, two automatic names, event queues of two, and the faults of the
fixture that change what a call does; two transfers are the one whose events come late and the
one they meet. Mosh: three frames against a queue of one are a frame taken, a frame
admitted and a frame refused with one to follow; one session, because each has its client
and the next begins only at the prompt. Deadlock checking is off where a closed pane or an
exhausted bound really is an end.

*Fairness.* Store: a synchronous call runs on; the service answers; the
continuation of an answered query is only enabled while the thread is free, which
comes and goes, hence strong fairness (the event loop's queue is first in, first out).
Known hosts: the platform's promises settle. SSH: continuations, callbacks,
storage and the terminal's reset are run by the event loop; a native session meets
its deadlines (`tokio::time::timeout` around each wait but the host-key decision)
and obeys a disconnect request. Nothing is assumed of the user, of the remote
shell's end or of the surface; `EveryAttemptSettles` therefore counts a prompt as
getting somewhere. Transfer: a cancelled wait for Downloads ends, events are
delivered, the native task goes on and its deadlines pass; not that the server answers, that
the connection ends, or that anyone answers a prompt. Mosh: tasks, thread and
terminal go on, a disconnect request is heard during SSH, and the library ends in
bounded time when asked to close or without a first contact; not that a peer answers or
that a session ends by itself. Taking a transport event has its own fairness, since
observations of the peer may follow one another for ever.

Every property of a passing run has a mutant in `PROJECT.json`: a plausible bug,
defined beside the operator it replaces, which makes TLC find the property
violated.

## 4. Proofs

`DurableAssetStore_proofs` proves, for all paths, texts, chunk counts,
generations and readers that satisfy `ConstantsAssumption` (the retired path is a
path, every text has at least one chunk, `None` is none of them):

- `IInvHolds`: `Spec => []IInv`
- `TypeCorrect`: `Spec => []TypeOK`
- `PublishedNeverTorn`: `Spec => []PublishedComplete`

`PublishedComplete` is not inductive: nothing in it says that the chunks about to
be removed are not the published ones, or that a write which is about to publish
has added its chunks. `IInv` adds what is needed:

- `CallInv`: a generation under construction is not the published one, a write
  that is about to publish has a complete generation, a removal that lists
  records has removed the pointer, and neither works on the retired path;
- `LoopInv`: what a removal loop still has to remove belongs to no published
  generation;
- `RetireInv`: the records `removeAsync` still has to remove belong to the
  retired path, whose pointer is gone.

Each action has its lemma; those that move no record share `StoreFrame`, and the
three ways a pointer and chunks change are `AddingKeepsComplete`,
`RemovingKeepsComplete` and `UnlinkingKeepsComplete`. `Fresh` is used where a
write begins: that is the assumption that generation names do not repeat.

`KnownHosts_proofs` proves, for all entries, hosts and panes:

- `TypeCorrect`, `TrustKept` (`Spec => []AcknowledgedTrustKept`) and
  `ForgottenForGood` (`Spec => []ForgottenStaysForgotten`).

The two say that what decides trust lies between `must` and `may`. What makes that
inductive: both the file and what a power loss would leave of it lie between them, and are
synced, unless the old record still decides (`DiskInv`); an operation that has begun asks
for what the ghosts say (`OpInv`); a migration writes the record as it is, and no update
starts before the record is retired (`MigrationInv`); what an update writes lies between
them too and obeys its operation (`UpdateInv`); and the temporary file that is renamed is complete
and synced (`TmpInv`).

`Authentication_proofs` proves, for all limits on rounds, stages and prompts that are
natural numbers, all sets of servers and any number of misuses:

- `TypeCorrect`;
- `ExchangeBounded` (`Spec => []BoundedExchange`): `Spent` gives each machine the
  number of requests its stages, tried methods and answered rounds account for; each operator of the
  machine that lets a request out raises it (`Paid`), and it is below the bound;
- `AnswersReach` (`Spec => []AnswersReachTheirPrompt`): an answer's round is 0 unless it
  answers a challenge (`AnswerInv`), and a challenge is always the latest round
  (`MachineInv`);
- `AdmittedHaveProved` (`Spec => []AcceptedMeansProved`): a factor the server counts as
  complete has been shown (`ServerInv`), so each success it replies is deserved
  (`Sound`, one lemma per handler);
- `HonestAdmitted` (`Spec => []HonestUserAdmitted`), see below.

Assumed: `None` is no method, credential, challenge, failure, reply or answer
(`NoneAssumption`, `NothingAssumption`), one stage at least (`LimitsAssumption`).

`HonestUserAdmitted` says of two programs that they suit each other, the machine of the
client and the server of the repository, and needs more than what each keeps by itself.
`Honest`: while a request is under way no question is open (`AskingInv`), and while one is
open, on the screen or on its way back as an answer, it is the one the machine waits for
(`AskedInv`); so none of the machine's guards stops an answer. `HopeInv`: as long as
nobody has erred, the server has a goal, the method whose success it waits for (`Goal`), and the
client has not tried it in this stage (`Fresh`, `Untried`), or is answering it with
what is expected; so the machine always has a method left. A misuse at any time ends what the
theorem speaks of (`HonestInv`). It assumes `Roomy`: two stages, two rounds and two
prompts, which the server's scenarios take; the code allows 8, 8 and 16. With less the client does
stop an honest user, rightly.

`DurableAssetStore_refinement` proves, on top of `IInv`, for the same constants:

- `ReadersHonest` (`Spec => []ReadsAreHonest`): the published generations and the one
  under construction each hold chunks of one text (`GenerationInv`), a reader's
  manifest names a generation of one text that nobody is writing, and what the
  reader has got is of that text (`ReaderInv`). A generation may lose its chunks under
  a reader, never get others: again `Fresh`.
- `CollectionComplete` (`Spec => CollectLeavesNoGarbage`): what is garbage now was
  listed when the collection began (`CollectInv`), since nothing else runs on the thread.
- `StoreImplementsRegister` (`Spec => ImplementsRegister`): every step is a step of
  `DurableRegister` or a stutter. The request that adds or replaces a pointer is the
  register's `Apply` of a write, the one that removes it that of a removal; all the others,
  chunks, checks and rollbacks, are invisible (`Seen`, one lemma per action).

`SshPane_proofs` proves, for any number of sessions, prompts and pieces of output:

- `TypeCorrect`, `TrustedStored` (`Spec => []TrustedOnlyOnceStored`) and `SecretsReach`
  (`Spec => []SecretsReachTheirPrompt`), with nothing excluded. A prompt queued by a
  session is the one it waits to have answered and there is one at most (`AuthQueueInv`),
  and the same holds for the prompt on the screen (`AskedInv`); hence whatever the pane
  sends answers the layer and the round that asked (`SecretInv`). An accepted host key
  is in the file before it is sent (`TrustInv`).
- `LateIgnored` (`Spec => LateEventsIgnored`), if `"late teardown"` is excluded: sessions
  the pane does not stand for have no event left that it would show (`LateInv`).
- `NothingLeft` (`Spec => []NothingLeftBehind`) and `Consistent`
  (`Spec => []PaneConsistent`), if all of `Situation` is excluded. `TidyInv` names what
  the pane's many variables have to do with each other: the boundary of the terminal and
  its owner (`CoreInv`), the mode and the connection (`PromptInv`), that every session
  but the current one is leaving (`LeavingInv`), and where an undecided host key may be
  (`KeyQueueInv`, `UndecidedInv`).

The situations are findings of section 5, or steps that lead to one; each hypothesis is as
narrow as the proof allows, and the runs satisfy it.

`MoshPane_proofs` proves, for any number of sessions, frames and pieces of output, any
size of the queues and whatever is excluded:

- `TypeCorrect`, `InputComplete` (`Spec => []InputHasNoGaps`), `OutputComplete`
  (`Spec => []FinalOutputShown`) and `PageGivenBack` (`Spec => []PageReleased`).

The input of a session is numbered without a gap (`Numbered`), and what an open client has typed is
what the session was sent and has queued (`TypingInv`): a frame that is refused ends
the typing. An end is the last of a session's events, and a `close` comes when all
output has been handed over (`EndInv`); what was handed over is shown or queued, counted by
`Underway`, while the pane listens (`Heard`), and stays shown when the user was told
of the end (`ToldInv`). The client is gone exactly at the prompt (`PromptInv`).

`DurableProjection_proofs` proves, for all keys, texts, key files and panes:

- `TypeCorrect`;
- `KeptAndGone` (`Spec => []KeptStaysDeletedGoes`), if `"listing fails"` and
  `"short write"` are excluded;
- `SharedIsDurable` (`Spec => []SharedConfigIsDurable`) and `PreviousActive`
  (`Spec => PreviousRemainsActive`), if `"silent unlink"` and `"short write"` are;
- `PreparedRestored` (`Spec => PreparedMeansRestored`), if all three are.

`TypeCorrect` and the inductive invariant need no exclusion: its parts that speak of what files
hold are implications from `Unlinks`, `Lists` and `Whole`, the three hypotheses.
`PreviousActive` is about record and files: the record is the one the call found, the files
are that record or, after a change of a key, the files the call found (a comment change whose
directory sync failed has left files that differ from the record).

Until it has completed, preparation is the only actor (`BootInv`), so what it read still
holds when it is used, and each of its steps leaves fewer paths to restore (`PrepInv`). An
installation that was never migrated holds nothing but what the files hold
(`LegacyInv`). A synchronous call knows the record it found and whether the
files of its key are the ones it wrote, at each of its steps (`CallInv`): a rollback
puts back what was there, whatever a generation in another pane does in between.

`FileTransfer_proofs` proves, for any number of transfers, blocks and automatic names, any
size of the queues and any faults of the server:

- `TypeCorrect`, `FinalNames` (`Spec => FinalNamesSafe`), `Truth`
  (`Spec => []ToldTheTruth`) and `TempGone` (`Spec => []TemporaryFilesGone`), with nothing
  excluded;
- `Freed` (`Spec => []PaneFreed`), if `"dropped stage"` is excluded.

A request the client gave up stays with the server, which may still carry it out: what is
in the queue and in which order follows from the phase (`QueueInv`), and with it
what the temporary file holds (`PutInv`) and, for a download, the local one (`GetInv`). A file
under a final name that is ours is whole (`NamesInv`). The final event is the last one and
tells the result (`EventInv`); a transfer that is not the pane's has finished and the user was told
how (`LinkInv`); if no stage is dropped, the events lead the pane through its phases
in order (`StageInv`). What a step of the native task changes is captured once, as
`Moves`, and the pane's lemmas rest on it.

Each inductive invariant was checked by TLC on the instance of its run before it was
proved; where a theorem excludes less than the run does, on that larger instance, too
(`SshPane` without exclusions: 3 639 424 states; `DurableProjection` with only
`"short write"` excluded: 4 830 574, with only that admitted: 11 564 218, with one pane and nothing
excluded: 1 761 468; `FileTransfer`: 639 912). The `ASSUME`s about `None` say that a model value is none of the data it
stands beside, as in the code `undefined`, `null` or Rust's `None` is none.

Model-checked only: the liveness properties (`CallsEnd`, `EveryOperationSettles`,
`EveryAttemptSettles`, `DisconnectReturnsToPrompt`, `CancellationSettles`,
`DisconnectCompletes`, `EndIsNoticed`). Liveness under fairness needs `ENABLED`, which is
outside the prover's reach. Every safety property of a passing run is proved.

## 5. Findings

- **Late teardown** (`ets/model/ssh/SshClient.ets:479`; run `ssh_late_teardown`).
  Data and close events carry no session and are not checked. Ctrl-C that races
  the opening of the shell leaves a native session that still sends them, and they
  act on the connection made next. `docs/design/terminal-session-boundaries.md:192`
  says otherwise. Checking them against the client's current id is
  not the remedy: after `~.` the client has forgotten the session whose close it
  waits for (mutant `CurrentTransportEventArrives`).
- **Dropped stage** (`leantty_ssh/src/lib.rs:3507`; run `transfer_dropped_stage`). The
  stages of a transfer are sent without waiting, so one that finds its queue full is lost.
  The completion then meets a lifecycle that does not allow it: the pane is at its
  prompt and refuses every later transfer. `docs/design/file-transfer.md:689` counts
  `FINALIZING` among the events that are delivered blocking.
- **Disconnect during a Mosh bootstrap** (`leantty_ssh/src/lib.rs:1790`; run
  `mosh_bootstrap_disconnect`). A session cancelled while SSH brings it up ends without an
  event; the promise that the pane's disposal, or the application's close, awaits is never
  resolved (`MoshClient.ets:325`).

Seen while modelling, without a run of their own.

SSH and the pane:

- The pending command is looked for once per batch of input (`SessionViewModel.ets:1337`), so
  two `ssh` commands in one paste both run; the second fails and returns the pane to `ltty>`
  while the first session lives on. Without `"pasted commands"` in `Excluded`, TLC finds
  `NothingLeftBehind` violated.
- A command that waited for the SSH environment does not ask whether its pane still exists
  (`SessionViewModel.ets:1654`): a pane closed meanwhile starts a native session that nothing
  ends (`"close while preparing"`).

Durable state:

- `writeTextFile` ignores how much `writeSync` wrote and renames the temporary file over
  the target (`FileUtils.ets:37`). A configuration cut off while it is restored is loaded
  and shared by all panes although the record is whole, and the next edit makes it the
  record. `docs/architecture.md:391` says that all panes use the committed configuration,
  `docs/design/config-import-export.md:98` that the file is the store's materialization;
  the count is compared where the code writes `known_hosts` (`KnownHostsFile.ets:30`) and
  exports (`SshConfig.ets:348`). Without `"short write"`, TLC finds `SharedConfigIsDurable`
  violated in ten steps, and `PreparedMeansRestored`, `PreviousRemainsActive` and
  `KeptStaysDeletedGoes`, too.
- `removeFile` swallows its error (`FileUtils.ets:110`), so the rollback of a
  first configuration commit reports success when its removal failed
  (`docs/design/config-import-export.md:94`); without `"silent unlink"` in
  `Excluded`, TLC finds `PreviousRemainsActive` violated.
- A migration that cannot list `.ssh` (`FileUtils.ets:60`) marks itself done
  without any key, and the next start removes the key files; without
  `"listing fails"`, TLC finds `KeptStaysDeletedGoes` violated.
- `then(a, b)` (`SessionViewModel.ets:1735`): when `a` throws, `b` does not clear the promise,
  and the pane repeats the old rejection although it tells the user to try again.
- When the directory sync of a comment change fails (`keygen.rs:368`), the call fails with
  both new files in place and both backups gone (`docs/design/key-comment-change.md:97`).
- Reading the result of a native key generation may throw outside the `try` that would remove its
  files (`SshKeyManager.ets:81`): both stay, without a record, until the next start reconciles them.
- A process that dies during key generation, or a deletion all of whose rollbacks
  fail, leaves a private file that blocks its name (`keygen.rs:613`), is not
  listed, cannot be deleted and is not reconciled (`DurableStateManager.ets:63`).

File transfer:

- A PUT cancelled while its exclusive open is under way leaves the remote `.part` file
  when the server carries the open out (`transfer.rs:224`); `docs/security-model.md:224` promises
  best effort only. `TemporaryFilesGone` exempts it by the ghost `abandoned`.
- A rename given up at its deadline may be carried out, although the user is told that
  the transfer failed or was cancelled; `ToldTheTruth` says of an upload only what success means.
- A late `preparing` event overwrites the mode in which the host-key prompt is answered; a
  `host_key_changed` event that comes after the final one is rejected as stale.

Mosh:

- A pane disposed of while the reset after its session is pending is answered by the
  branch for panes without a client (`SessionViewModel.ets:494`): whoever already waited for
  that reset is not resolved (`"disconnect during reset"`).
- A control error that overtakes output still queued makes the client let go of it.
- A frame typed after the library's task has ended fails the session with code `input`,
  without draining the last output; a peer lost before `connected` gives no warning.

## 6. What is left

In order of weight.

1. Proofs for the modules below as they come: all safety properties the runs check today are
   proved, liveness stays with TLC.
2. `Recovery`: mark, checkpoint and application close, over `DurableRegister`.
3. `BackgroundBell`: publication against cancellation.
4. `TerminalRuntime`: admission, output pressure, reset and detach fences.
5. `Workspace`: tabs, panes, focus and disposal.
6. Key installation: an SSH session that runs a command and reads its answer.

Not planned: the components under "Not state machines" above.
