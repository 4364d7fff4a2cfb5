# TLA+ specifications of the CoLink server

A CoLink server ("core") stores the data of its users, tells subscribers of
changes, runs protocol operators, and agrees with the cores of other users on
the tasks these operators work on. This directory holds TLA+ models of that
code, the TLC configurations that check them, and proofs for TLAPS. References
such as `task.rs:274` are to files under `src/src/`.

Run, from this directory:

    tlc -config TaskSyncAgree.cfg TaskSync        # one run; see the table below
    tlapm TaskSyncProofs.tla                      # all proofs of a module

`PROJECT.json` records, for every definition, the lines it models; for every
property of a passing run, a plausible bug of the code ("mutant") that the
property detects; and the hazards that the properties are about.

## 1. Inventory

| Component | Source | State | Operations |
|---|---|---|---|
| task service | `service/task.rs` | per core: `tasks:{id}` (status, decisions), the lists `tasks:status:{s}` and `protocols:{name}:{s}` with their `:latest` keys; one `task_storage_mutex` | `_create_task`, `_confirm_task`, `_finish_task`, `_inter_core_sync_task` |
| inter-core transport | `service/task.rs:322-480` | two maps of reverse senders and handlers, channels of 64 tasks, per-user settings | send, forward, reverse stream |
| user records | `service/task.rs:600-680` | `_registry` records in the storage | `query_user_record` (polling) |
| in-memory storage | `storage/basic.rs`, `storage/common.rs` | three maps behind one `RwLock` | create, update, delete, two reads, `list_keys` |
| change subscriptions | `subscription/mq.rs` | count per key, owner per queue, one `RwLock`, one mutex for the URIs of accounts | create/update/delete with publication, subscribe, unsubscribe, `get_mq_uri` |
| message brokers | `mq/redis.rs`, `mq/rabbitmq.rs` | accounts, queues and bindings; for Redis a routing table in the core | accounts: create, delete all; queues: create, bind, publish, delete |
| protocol operator manager | `service/pom.rs`, `service/pom/fetch_protocol.rs` | a package directory and a lock file per protocol; records of instances; processes | start (with upgrade), stop |
| user initialisation | `service/user_init.rs` | `_is_initialized` flags | background task per imported user |
| authentication | `service/auth.rs` | `imported_users`, the stored consents | `import_user`, `generate_token`, consent checks |
| storage requests, info, helpers | `service/storage.rs`, `info.rs`, `utils.rs` | none | permission checks around one storage call |
| server start | `server.rs`, `main.rs`, `params.rs` | none after start | TLS, keys, broker start, deletion of old accounts, dispatch |

**How they interact.** All state of the task service, the user records and the
operator manager lives in storage entries and is changed through the
storage, so that each change may also be published to a subscriber. Protocol
operators are outside processes: they subscribe to the `:latest` keys of the
status lists, and are started and killed by the operator manager. Cores
call each other's `inter_core_sync_task`, directly, through a forwarding user
or through a reverse stream the callee opened.

**What is hard.** Each request is a task of the tokio runtime and can be
interleaved with others at every `await`; a request is dropped at an `await`
when its client disconnects.

* *Task service*: a handler takes the mutex twice and does not look at the
  status again in between; creating and storing take no mutex; what is done under
  it is a row of storage calls and publications, and can end after any of them; the
  sends of a core are a sequential loop that ends at the first error; nothing is
  retried; and the create request may carry decisions of participants that only
  some of the handlers check. Correct means: no task starts without everybody's
  approval, or in the one case where the code starts it without, it stays with those
  who confirm; no list says what the task does not say; settled tasks stay settled;
  the outcome spreads.
* *Storage*: three maps of which each operation changes another part;
  timestamps as names, in nanoseconds except for deletions; keys that are also
  directories. Correct means: the listings show what can be read; a key path
  never changes its value.
* *Subscriptions*: a subscriber reads stored versions while writers store and
  publish. Correct means: every version once, stored ones first; the number by
  which writers decide whether to publish covers every subscription.
* *Operator manager*: a file lock is held over minutes of file and process
  operations that can fail at every point, while a stop takes no lock to
  kill. Correct means: lists of instances are never lost or ahead of their
  records; no upgrade under an instance.
* *Transport*: mutexes held across remote calls and bounded channels; maps
  tested and used in two steps; streams that break or are replaced with tasks
  still in them. Correct means: one reader, no task twice or out of order, what was
  accepted is handled if the stream lives, and no request waits for ever. *User
  records*: polling with a limit against an operator that answers when it likes.
* *User initialisation*: tasks in the background poll without a limit for flags
  that other programs set and a second import resets. Correct means: a user is
  marked as initialised only when all protocols are, and gets there if nothing fails.
* *Accounts at the broker*: the account of a user is made by up to four calls on the
  first request that needs it, each of which may fail; its URI is forgotten by a
  restart while the broker keeps it. Correct means: one complete account for a user in
  one run, none of an earlier run when the core serves, and a core that gets to serve.
* *Restarts*: the storage is in memory, so that a core that restarts forgets its
  tasks while the others, and the calls on their way, still have them. Correct
  means: nothing is settled that nobody signed, and others are not harmed.

## 2. Modules

| Module | Models | Uses |
|---|---|---|
| `TaskAgreement` | what the task service promises: one vote per participant, one outcome that the votes justify | |
| `TaskSync` | one task on the cores of its N participants | `TaskAgreement` (refined) |
| `TaskRestart` | the same with cores that restart | `TaskSync` (extended) |
| `TaskStorage`, `MCTaskStorage` | the status lists that the tasks of one core share, storage call by storage call | |
| `ReverseSync` | tasks sent down the streams of a core in reverse mode; forwarding; the polling for user records | |
| `KeyValueStore` | what the storage promises: one current value per key | |
| `BasicStorage`, `MCBasicStorage` | the three maps | `KeyValueStore` (refined) |
| `ChangeFeed` | what the readers of a key rely on: each version is owed until it is delivered | |
| `Subscription`, `MCSubscription` | one key, its writers, subscriptions, queues and broker | `ChangeFeed` (refined) |
| `MqAccounts`, `MCMqAccounts` | the accounts of a core's users at the broker, over restarts of the core | |
| `ProtocolOperators`, `MCProtocolOperators` | starts and stops of the operators of one protocol | |
| `UserInit`, `MCUserInit` | the import and the initialisation of a user | |
| `TaskSyncProofs` | the proofs about `TaskSync` and `TaskRestart` | |
| `TaskStorageProofs`, `ReverseSyncProofs`, `BasicStorageProofs`, `SubscriptionProofs`, `MqAccountsProofs`, `ProtocolOperatorsProofs`, `UserInitProofs` | the proofs about the module of that name | |

The `MC` modules give TLC what a .cfg cannot write: keys, clock readings, the
order of protocols, and symmetry. Operators whose comment begins with "Mutant:"
are no part of a model; they are the bugs named in `PROJECT.json`.

### TaskSync

Participant 0 is the initiator. `status`, `decisions` and `listed` are the
entry and the lists of the task in each core's storage; `announced` counts the
writes of the `:latest` keys, which is what operators hear. A call is
`<<kind, p, receiver>>`, and since the code sends each of them once, `phase` of
the call holds where the call and the handler serving it stand; `payload` is the
task it carries, and `verdict` is the local variable `anyone_rejected`. `filled`
and `cut` are explained below.

| Action | Code |
|---|---|
| `CreateTask`, `CreateSend`, `CreateFail`, `CreateList` | `_create_task`: store, send to one participant after the other, list |
| `ConfirmTask` | `_confirm_task` under the mutex, up to the send of the decision |
| `FinishTask` | `_finish_task` |
| `SyncNew`, `SyncList` | `_inter_core_sync_task` for a task it does not have |
| `SyncMerge`, `SyncRefuse` | its first critical section: tests and merging of decisions |
| `Decide`, `DecideFail` | its second critical section: the new status, and whether to broadcast |
| `BcastSend`, `BcastDone`, `BcastFail` | the broadcast loop |
| `CreateListCut`, `ConfirmCut`, `FinishCut`, `SyncListCut`, `DecideCut` | the sections of these actions, left at one of their awaits or with an error of the storage |
| `Lose`, `Expire` | a call, a reply or a handler is lost; a clock passes the expiration time |

*Sections.* Status changes and list changes of one critical section are one action,
since everything else that changes them takes the same mutex, except the listing of
a new task, which is an action of its own for this reason. A removal of a list
entry that is not there fails, as in the code. A section that ends half-way, because
its client goes away during a publication or because the storage fails, is the action
with the ending `Cut`: `CutStatus` lets it stop with the entry of the old status
gone, with the new status stored or not, and announced or not; `CutAdd` with a task
announced and not listed. `listed` counts an entry when it is in both lists of the
status, so that a task missing from one of them has none. Later handlers fail on such a
task (`Removable`), as those of the code do. `cut` remembers the cores where this happened.

*Decisions of the create request.* `_create_task` overwrites the decision of the
initiator and keeps what the request says of the others (`task.rs:28`). `filled` is
that, chosen in the initial state. Such a decision is never signed for this task, since
the signature would cover a task id that is drawn later: it is `unsigned_...`
here. A new task is stored with it (line 212 checks the initiator's only), and
`_confirm_task` counts it (line 126); a handler that merges refuses every call that
contains one of another participant (`Checked`, line 251), and a participant's own is
replaced when it confirms. So with an approval of participant 2 in the request,
participant 1 starts the task when it confirms, with nobody's signature but its own and the
initiator's, and it may finish it; if participant 2 then rejects, the broadcast takes
the finished task to rejected (line 277 does not guard that status). This is what the
code does, and the properties say it: `Agreement` and `Finality` have this as their one
exception, it does not apply to the initiator, and `TaskAgreement` has it as `claimed`. An
unsigned decision that is neither approval nor rejection, or both, counts as
`unsigned_ignore`, because no count includes it.

Participants are distinct, and all cores run this code.

### TaskRestart

`RestartNext` has the actions of `TaskSync`, with a restart per core (up to
`MaxRestarts` cores). `Restart` empties the core's entry and lists, and ends the
handlers and the create loop it ran; calls on their way to it arrive afterwards, and
what it has sent is handled by the others. Now two calls may bring the same task to
a core, so that `SyncNew` is split where the code is: `FindAbsent` is the
existence test and the check of the initiator's decision, `StoreNew` the storing
(`task.rs:206-222`), with nothing in between to protect them. `Nameless` is a
confirm call that reaches a core without the task: it carries no participants,
the handler panics, and the call fails. `Reuse` gives the names of a user's calls
free for a second confirmation once the earlier calls have ended. `signed` is
history: every decision a participant ever signed.

### TaskStorage

What `TaskSync` does in one step is here done call by call: for each of the two
lists `remove_task_old_status` reads the list (`Take`) and writes it (`Drop`);
`Store` updates the task; `add_task_new_status` writes `:latest` (`Note`), reads the
list (`Fetch`) and writes it (`Push`). `Sync`, `Confirm`, `Settle` and `Finish` are the
four handlers up to the lock, `Lock` takes the mutex and tests the task again.
`Fault` is an error of the storage or a request that is dropped, at any of these
steps. An entry of a list has the number of the write of `:latest` that named it.
`disturbed` is history: the tasks of which a call has ended with some of its
changes made. "ignored" is left out, since its lists are touched in the same way as
those of "rejected".

### ReverseSync

Core A is in reverse mode, core B sends to it.

| Action | Code |
|---|---|
| `Found`, `Poll`, `NotFound`, `Answer` | `query_user_record`; the operator of the registry |
| `CallB`, `PlainCall`, `Spawn`, `Refused` | `send_inter_core_sync_task_with_reverse_connection` on A, which holds the mutex of the handlers throughout |
| `SyncAtB`, `Insert`, `Close` | `_inter_core_sync_task_with_reverse_connection` on B; the end of its stream |
| `LookUp`, `LockSenders`, `Put`, `PutFails`, `DirectCall` | `send_inter_core_sync_task` and `forward_inter_core_sync_task` on B: the mutex of the senders is given up after the test and taken again to send |
| `Take`, `Handle`, `EndOfStream` | the task that A spawns to read the stream |
| `Drop`, `Break` | a request that is given up, a connection that breaks |

A stream bears the name of the create that opened it. `entry` and `handler` are
the two maps for this pair of users. A channel ends when its sender has been
replaced in the map and nothing is left in it; its receiver ends when nobody
reads the stream any more, which B may notice late. `accepted` and `handled` are
history. What the handlers do with a task is the subject of `TaskSync`.

### UserInit

`Import`, `SpawnInit` and `Insert` are `_import_user`: the task of the initialisation
is spawned before the user is entered into `imported_users`, and `StartRefused` is
what happens if it is faster. `SpawnAll`, `AllJoined` and `JoinFails` are `user_init`;
`SeeOther`, `CreateEntries`, `ResetFlag`, `StartOperator`, `AllStarted` and
`SeeInitialized` are `init_protocol`; `Report` and `Die` are the operators. A user
may be imported again at any time; the tasks of both initialisations then share
the flags.

### BasicStorage

Each operation holds the write lock throughout, so that each is one action.
Nanoseconds and seconds are kept apart (`Seconds`), since `delete` stores
seconds where the other operations store nanoseconds; the assumption on the
clock says what is true of real readings, that a second is never equal to a
reading. The sets that the code keeps per directory are one set, as an entry
goes into no other directory than its own.

### Subscription

The log of versions of one key stands for the storage, its positions for the
timestamps. Writers hold the lock shared from writing to the end of publishing;
`Lock` of a subscriber waits for them (`NoReader`), and `Unlocked` makes them
wait for it. `broker` is chosen in the initial
state. Redis delivers to the queues of its routing table at once; RabbitMQ is handed a
message that is routed later (`Route`), since the code asks for no confirmation. A queue
keeps everything ever put into it; consumers are outside.
The fan-out to several Redis streams is one step.

`ChangeFeed` knows no locks, counts or brokers. A reader follows from a start on and
is owed each value stored from there on, and each version stored while it follows, until
the version is delivered or its writer is told of an error. An exact feed delivers
only what is owed, which excludes duplicates; any other may deliver a version more than once.
Under the mapping at the end of `Subscription` a reader follows from the listing of the
stored versions (`List`) until its entry is removed or its call fails, the feed is
what its queue got, exact means Redis, and a version is owed while it is still to be sent by the
subscriber's call, about to be published by its writer, or on the wire, and not in the queue.
So a step that loses one of these without putting it into the queue, as a writer that finds the
count at 0 would, is no step of the feed.

### MqAccounts

A request takes the mutex, looks for the URI, and if there is none makes an account
part by part and stores it (`Look`, `Create`, `Store`). `has` is what the broker has of
each account: a user, or with RabbitMQ also a vhost, permissions and the exchange.
`Fail` is an error of a call or a client that goes away; the broker may have done the
call all the same. `Crash` ends all requests and empties the storage. A start lists the
accounts by their users and deletes them, with Redis by one command, with RabbitMQ
first the user and then the vhost; RabbitMQ refuses to delete what it does not have,
and any error ends the process (`GivesUp`). A user without a vhost, left by a creation
that stopped early, therefore makes the next start fail, but that start has deleted
the user, so that the one after it gets further: this is `ServesInTheEnd`, and with the
order reversed it is false. The price of the order is a vhost that stays for good when
a start stops between the two.

### ProtocolOperators

One protocol, whose package directory all users of the core share. A start is
numbered by its instance; it holds the file lock in the states `Holding`. `Kill`
joins the lookups of a stop with the kill, which is sound since records are
written once. `Fetch` and `FetchFails` abstract from where the package comes
from to what is in the directory afterwards. A process that ended can still be
killed, because the core has started it and never waits for it; a container
cannot. `Abort` is any error, and a client that goes away: the file is closed
and the lock with it.

## 3. Runs

| Run | Instance | Shows |
|---|---|---|
| `TaskSyncAgree` | 4 cores, no lost call, no decisions in the create request | once the task is listed, the outcome spreads |
| `TaskSyncFaults` | 3 cores, any decisions in the create request, lost calls and replies, handlers dropped outside and inside sections, expiry | agreement, genuine decisions, lists that match the status, one announcement of the start, finality, refinement of `TaskAgreement` |
| `TaskRestart` | the same faults and create requests, 1 core restarts | nothing settled without decisions for it; cores that did not restart keep lists and outcome |
| `TaskStorage` | 2 tasks, faults at every storage call | other tasks stay in place in the shared lists, which stay in the order of `:latest` |
| `ReverseSync` | 2 creates, 2 sends (one forwarded), channel of 1, one repeated poll | one reader, order, nothing accepted is lost while the stream lives, every request ends |
| `UserInit` | 2 protocols, the second builds on the first, 2 imports | initialised means reported, order of starts, and an import that meets no failure succeeds |
| `Storage` | 3 keys, five readings of an advancing clock | listings, history, immutability, refinement of `KeyValueStore` |
| `Subscription` | both brokers, 2 writers, 2 subscribers, 3 versions, faults, strangers | each version once and in place with Redis; nothing lost, count exact; refinement of `ChangeFeed` |
| `MqAccounts` | both brokers, 4 requests of 2 users, up to 3 faults | URIs usable, no account wasted, none of an earlier run, the core serves in the end |
| `Operators` | 3 starts, 2 stops, 2 users, faults | lists, records, processes and package stay consistent |
| `TaskSyncEarly` (violation) | 3 cores, no lost call | a last approval handled before the initiator has listed the task: all have approved, none of them starts it |
| `OperatorsUpgrade` (violation) | 2 starts, 1 stop | an upgrade for one user removes the package of another user's running operator |

**Bounds.** With four participants three confirm calls and their handlers race, and
each core can hear the outcome from several of them. Three cores are enough for the
faults, since the broadcast exists from three on, and one participant's decision may come
with the request while the other has to give its own; with four the faults are out of
TLC's reach; the theorems cover every number. With one restart a
task comes back from each of the cores that still have it, beside the calls that were on
their way; that it comes back from a core that has itself learnt it anew takes two, which
is out of TLC's reach with all faults and covered by the theorems, for any number. Two tasks suffice for shared lists, as
every step is about one task and one list. Two creates give a stream, its loss, a
second stream and an abandoned one; a channel of one is full with one task in it.
Two imports are needed for one initialisation to see the flags of another. Two keys
suffice for the storage because an operation touches one key and the directories
above it; a third lies two levels deep. Five readings give each key more than one
version and a deletion in between. With three versions one can be stored before,
while and after a subscriber reads, and `Starts = {0, 2}` includes a start in the
middle of the log. Three requests of one user let a third meet what a failed and a
successful one have left; three faults allow a creation that stops, a crash, and a
start that fails. Three starts are needed for a lost update
of the list between two while a third is listed.

**Types.** Each module has a `TypeOK`. It is part of the inductive invariant and proved, so
that no run checks it.

**Symmetry** is used in `Operators` (users, starts, stops), `Subscription` (writers,
subscribers) and `TaskStorage` (tasks), whose modules do not tell these apart and
whose runs check no liveness.

**Deadlock.** Tasks settle, requests end, logs, polls and readings of the clock are
bounded, so that every system here may stop and deadlock is not checked for. That
no request waits for ever is what `RequestsEnd` says where the code holds mutexes over
long calls.

**Fairness** is stated for what the tokio runtime has begun: it polls every task
that is ready. None is stated for users, who need not do anything, nor for losses,
failures and clocks.

* `TaskSync`: creation once it has begun, handlers, broadcasts. The two liveness
  properties start when the user's part has been done, and are stated for runs
  without loss and without decisions in the create request: the code retries nothing,
  so that a lost call, or one refused for an unsigned decision in it, is not made up for.
* `ReverseSync`: for each create A's part of it, B's handler and the task that
  reads its stream, for each send B's part. None for the registry's answer
  (`RequestsEnd` holds without, because the polling has a limit), nor for drops.
  Weak fairness is enough for the mutexes in spite of contention, because every
  request takes one a bounded number of times.
* `MqAccounts`: the start of the core, which supposes that whoever runs it starts it
  again when it has ended. Faults are bounded, otherwise no start need succeed.
* `UserInit`: the import, the initialisation, each protocol's task, and for
  operators that they report or die.

## 4. Findings

1. `task.rs:289` — see `TaskSyncEarly`. The comment at line 276 announces what follows
   once the decisions are complete: "Change this task's status." `_create_task` sends
   before it lists (line 59), so the handler of a fast last answer finds no list entry to
   remove; the decision is stored, the error is returned to the participant, and no
   later call repeats the attempt. The initiator holds every approval and stays
   `approved`. As it then broadcasts nothing, the other participants, who learn each
   other's decisions from the broadcast only, stay `approved` as well when there are
   three or more: nobody starts the task. `ApprovalStarts` is the promise with the condition
   under which it holds.
2. `pom.rs:85` — see `OperatorsUpgrade`.

Four observations without a run of their own. The create request can bring decisions that
a confirmation counts without checking them (`task.rs:28`, `123`): `TaskSyncFaults` has
them, and section 2 says what they do. The status that is tested in the first critical
section of the handler is not tested again in the second (`task.rs:277`): two
rejections in flight are both applied, listed and broadcast, in spite of the mutex.
Starting is safe from this (`StartedOnce`), since the last missing decision is merged
by one handler only. `list_keys` also returns the entries of directories,
with timestamp 0, which its documentation (`common.rs:61`) leaves out;
`ListsDirectories` says when. And `import_user` spawns the initialisation before
it enters the user (`auth.rs:150-157`): if the new task is faster, its first start of
an operator is refused. `ImportInitializes` has this as its exception.

## 5. Proofs

Everything proved holds for every value of the constants that satisfies the
named assumptions of the modules, and uses no others: `NAssumption` (at least one
participant), `RestartsAssumption`, `SendsAssumption` (creates and sends have
different names), `BoundAssumption` (of `ReverseSync`, `Subscription`, `MqAccounts` and
`UserInit`: bounds are natural numbers), `UserOfAssumption` (every request has a user),
`GoalsAssumption` (which statuses a handler gives), `AfterAssumption`, `KeysAssumption` (a key has a user and a name), `ValuesAssumption`, `ClockAssumption`, `BrokerAssumption`,
`SubscribersAssumption` (finitely many), `NoneAssumption` and the assumptions that a
flag is a Boolean. Each module first proves its types, then one inductive invariant
with a step per action; the properties follow.

**TaskSync.** A first lemma, *StepKinds*, sums up the actions as the decisions and
statuses see them: a section that was cut off after the store does to them what the
whole section does, one cut off before does nothing. *DecisionInvariant* has three parts.
`DecisionInv` adds to the types what ties the cores together:
whoever has not confirmed has signed nothing, decisions on any core and in any
message are the ones their owners signed or the ones of the create request, a handler
waiting for its second section has a verdict that the participants' own decisions
justify, and so has every settled status but for the approvals that a confirmation took
from the request. `Agreement` alone is not inductive, because a handler
applies what it read earlier; it is true since decisions never change once
signed, and that is what the invariant says. `ClaimInv` says why a decision of the request
cannot reach a verdict: a call that contains it is refused, so that
until the participant's own decision has replaced it at the initiator no other call gets
through; hence no handler settles, and nothing is broadcast, before all of them are
replaced. `ListInv` adds the order of the calls to a core (a create call finds
no task, confirms and broadcasts find one), which status a task has while it
is not listed, and that a task that a cut section left out stays out.
From this follow *AgreementCorrect*, *GenuineCorrect*, *ListsCorrect* and, with one step per
kind of step, *AgreementImplemented*: every step is a vote, a participant that learns of an
outcome the votes and claims justify, or a stutter.
*OnceInvariant* looks at several calls at once: as long as nobody
rejects, signed decisions travel only from their owners to the initiator, one in each confirm
call, so that exactly one handler sees them all, the one that merges the last. It alone
settles the task there, and the others hear of the start in its broadcast or start it when
they confirm, as one of two participants or on the word of the request; a task that
somebody rejects gives no verdict to start
it. *StartedOnceCorrect* and *FinalityCorrect* follow: without this, two handlers past
the first section could start a task twice, or start one that another has finished.

**TaskRestart.** A decision on a core need no longer be the one its owner holds
now, so that the invariant of `TaskSync` fails. *RestartInvariant* speaks of `signed`
instead: what cores store or have sent, and what pending verdicts were drawn from,
was signed at some time or came with the create request, and signatures are never taken
back. *ApprovedCorrect* follows.

The other two properties are about the cores that have *not* restarted, and need what
`ListInv` says of a system without restarts for these cores alone.
*IntactInvariant* states it: nobody broadcasts before the creation has ended and every
create call has been answered; the create call to an intact core finds no task; a
handler that has found none (`absent`) serves a create call, or a broadcast to a core that
has restarted; and an initiator that has forgotten the task never gets it back. So whatever other cores forget, each call that reaches an
intact core finds the task there exactly when its handler expects to, and
*IntactListsCorrect* follows. For *IntactOutcomeCorrect*, which supposes that the request
carried no decisions, the restart invariant says that both the settled status and a verdict drawn earlier were justified by signatures;
they can differ only if somebody signed both an approval and a refusal, which is what
`Consistent` excludes.

**TaskStorage.** Three invariants build on each other. The first adds to the types that
a call which has begun is about a task the core has, and that it takes an entry only
out of a list that has one (*TypeCorrect*; the writes are then lists again). The
second, `SectionInv`, is about the mutex: one call is in its section; the copy it has
read is still the list that is stored, which is why writing the copy back loses nothing;
and between `Note` and `Push` the last write of `:latest` is its own and not listed yet.
*MutexCorrect* and *ListedAtLatestCorrect* follow. The third, `PlaceInv`, says for each
undisturbed task at which point of its call's way it is in which list: `Away` names
the lists that it has left or not reached yet, and `Expected` is true of the others.
A failing call of such a task has changed nothing yet, and the entries of other tasks
keep their number in the lists that a call rewrites (`InWithout`, `InPushed`).
*UndisturbedInPlaceCorrect* is the case in which no call of the task is under way.

**ReverseSync.** *ReverseInvariant* has five parts: the state of a create determines
that of its stream and of the task that reads it (`Control`); at most one such task
lives, and it is the one in the map (`Readers`); no send is accepted twice; the
channels hold the rest of what was accepted for them, in order; and what is in a
channel comes after what has been handled. *OneReaderCorrect* and *OrderCorrect*
follow.

**BasicStorage.** *StorageInvariant* joins the three statements about the listings
with the fact that a timestamp is 0, a live version or a tombstone that names no
version. From it follow *LatestCorrect*, *HistoryCorrect*, *DirectoriesCorrect* and
*StoreImplemented*, under any clock: a real clock may repeat a reading or step back,
which the run does not contain. *VersionsCorrect* and *NewestCorrect* need
`Monotonic`; there the invariant is that no stored version is ahead of the clock.

**Subscription.** Three invariants build on each other. *CountCorrect*: the count is
what the map of the queues and the calls between their two steps add up to.
*CoverInvariant*, for both brokers: who holds the lock excludes whom, which queues
are bound, and where each version stands that a subscription is owed — in its
queue, on the wire, still to be sent by its own call, or not yet published by its
writer. `NothingLost` is the case in which the call has returned. *RedisInvariant*
adds that nothing is on the wire and that no version is in a queue that some call
has still to put there; *OnceCorrect* and *OrderCorrect* follow. *FreshInvariant* says
for both brokers that nothing is in a queue, on the wire or listed before it is stored, and
that a writer's version is its own until it publishes it. *FeedImplemented* joins all of them:
`Write` is a `Store`, `List` a `Follow`, a publish to Redis and a `Route` of RabbitMQ a
`Deliver` to the readers among the receivers, a failing publish an `Abort`, and the
end or failure of a subscription a `Leave`; the other steps stutter. That `Check` stutters
when the count is 0 is *CountCorrect* and the lock: then nobody follows.

**MqAccounts.** *AccountInvariant*: under the mutex one request creates, and its user has
no URI; what a request that is done has made is what is stored; a core that does not
serve knows nothing; and while it starts, every user the broker still has is on the
list of those to delete. `NothingWasted` and `OldAccountsGone` speak of a core that
serves; the last part is what carries them over its start.

**ProtocolOperators.** *OperatorsInvariant*: the lock has one holder; how far a
start has come determines its records and its process; what the holder has read of
its user's list is still the list; only calls that have given up the lock are
listed. The third part is why no entry is lost, the fourth why a stop that overtook
its start cannot be undone by it. *RecordedCorrect*, *ListedCorrect*, *StoppedCorrect*
and *InstalledCorrect* follow.

**UserInit.** *UserInitInvariant*: a flag that is set, and each flag that a task has
seen set, was reported by some operator (reports are history and cannot be
reset), and how far an initialisation has come says which it has seen.

**Model-checked only.** The liveness properties (`ApprovalStarts`, `RejectionSpreads`,
`AcceptedHandled`, `RequestsEnd`, `ImportInitializes`, `ServesInTheEnd`), which are out of
the prover's reach. Every other property that a passing run checks
is also proved.

## 6. What is not modelled

* Storage requests, `info`, token generation: permission checks around one call to
  the storage. Two consents renewed at once (`auth.rs:45`) may overwrite each
  other; that is listed as a hazard only.
* Server start but for the deletion of accounts, dispatch, configuration.
* In `MqAccounts`: several cores at one broker. With Redis a core also deletes the
  accounts under longer prefixes that begin with its own (`redis.rs:119`), which
  RabbitMQ's test of the length prevents; nothing says which prefixes go together.
  A call to the broker that outlives the process and arrives after its next start. A
  user who writes `_internal:mq_uri`, which the storage requests do not forbid.
  `delete_user_account`, which only a test calls.
* Cryptography, TLS, downloads, command lines: no state that the properties are
  about. Errors of `remove_dir_all` part way are left out.
* In `ReverseSync`: two cores that are both in reverse mode towards each other,
  whose channels may fill at the same time; buffers of the connection, which only
  add room; connections that are half open, where a read waits for ever.
* In `TaskSync`, `TaskRestart` and `TaskStorage`: replies that come before the handler. Where
  the receiver has opened a reverse stream, a send returns as soon as the task is queued
  (`task.rs:343-356`), so that a send loop goes on, and `_create_task` lists the task, before the
  handler has run, and its errors do not come back. The models have the plain call, which
  returns what the handler returns; `ReverseSync` has the streams, up to the handler.
* Cores that do not run this code, and users who sign with keys of their own: every decision
  of another core is made by `_create_task` or `_confirm_task` there, or comes with the create
  request.
* In `TaskRestart`: that storing a new task, which takes no mutex, falls between the
  storage calls of another handler's section; there sections are atomic.
* In `ProtocolOperators`: `Kill` ends the whole operator. The code kills the children of the
  process with `pkill` and ignores whether that worked (`pom.rs:302`); children that survive
  it are not in the model, so that `StoppedIsGone` is about the process the core has started.
* In `Subscription`: streams that Redis makes again. After `delete_queue` the routing table still
  names the stream (`redis.rs:159`) and the next change creates it anew, with no reader; the
  model has it, and no property excludes it.
* In `UserInit`: cycles of `start_after` and protocols with no operator, which wait for
  ever by configuration. A restart of the core, for operators that go on running.
* Publications that fail: a storage call of the task service may fail in
  `TaskStorage`, which is all that its caller sees of it.

## 7. Plan

1. `ReverseSync` in both directions at once.
2. Several cores with prefixes of their own at the broker of `MqAccounts`.

The runs are one per question; new questions about a module join its runs where
their constants agree.
