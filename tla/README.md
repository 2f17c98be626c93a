# Heptalogos: models, checks and proofs

TLA+ modules of the parts of Heptalogos whose correctness depends on the order
in which processes, transactions and failures interleave, the TLC runs that
check them on small instances, and TLAPS proofs of what matters most for every
value of the constants. Paths such as `work-queue/src/repository.ts` are
relative to `src/packages/<group>/`. `PROJECT.json` maps every definition to the
lines it stands for.

## 1. The system

One installation is one local PostgreSQL, at most one Host process that may
write, and the product that runs in it. The parts, from the ground up:

| Part | State it keeps | Operations | Interacts through |
| --- | --- | --- | --- |
| bootstrap-runtime, bootstrap-state | owner lock and its witness files; installation journal; maintenance record | acquire/release bootstrap ownership; hand off to a Host; prepare, execute, abort, recover maintenance | files, a lock directory, then PostgreSQL |
| private-postgres | server process, its life-cycle machine | start, stop, probe, maintenance | child process |
| host-ownership | advisory lease (session lock), `host_ownership_fence` row | acquire lease, publish token, revoke token | PostgreSQL locks |
| persistence | pool state, active transactions | read, mutate, fence, close | every mutation locks and compares the fence row |
| canonical-schema | applied migrations | initialise, migrate | under the bootstrap owner |
| execution-lineage, evidence | activities, evidence rows | retain, complete, record | inside the caller's transaction |
| signal | one LISTEN connection, subscriptions | publish (in a transaction), subscribe, reconnect | NOTIFY hints; loss allowed |
| work-queue | `work_item` rows, scan cursors | create, request cancel/supersede, scan, wake, execute attempt | conditional updates; dispatch to the engine |
| durable-execution | DBOS workflows (external), runtime state | dispatch, bind, launch/recover, close | workflow id per attempt |
| effect-operation | `effect_operation` rows | prepare, dispatch, recoverDispatch, reconcile | a port to the outside world |
| runtime-kernel, runtime-substrate | generations, registries, desired/actual state | register, reconcile, start, stop, retire, close | invocations reserved on a generation fence |
| messaging, subject | conversation, message facts; authority, mailbox, reactions, communication commits | accept inbound, react, express, materialise outbound, start/stop | one transaction spans both; WorkItems drive reactions |
| configuration, secret, ai-runtime, management, network-access | revisions and activations; secret versions; bindings; administrator and sessions; grants | compare-and-set operations in one transaction each | read by executors, re-checked at commit |
| product-host | parts brought up, endpoint descriptor, claim file, the Gateway process in which a Subject thinks | start, close, renew claim, start and stop the Gateway | all of the above; HTTP |
| clients, foundation | none | generated HTTP clients, a command line; pure functions | HTTP |

What is hard about it:

* **Two Hosts.** A Host that lost its lease keeps running callbacks, handlers
  and transactions. Only the fence row, compared inside each mutation, keeps
  its writes out.
* **Two records of the same work.** A WorkItem lives in a canonical row and in an
  engine workflow. Either may lag, be lost, be redelivered or be dead.
* **Decide, await, write.** Executors read, await a handler, a provider or a
  model, and write with a guard on what they read.
* **Uncertain commits and crashes** between any two transactions.
* **Timeouts** of retirements, calls and leases that race the late answer.

For each part, what makes it correct is stated with its module in section 3; the
`hazards` of `PROJECT.json` list where in the code each could go wrong.

## 2. Plan

Modules are ordered by how much of the system's promise rests on them.

1. **WorkQueue**, refining **WorkItemLifecycle** - done, proved.
2. **EffectOperation**, refining **EffectTruth** - done, proved.
3. **HostFence**, refining **FencedStore**, and **PersistenceService** - done, proved.
4. **SubjectReaction**, refining **ConversationReplies**, and **RuntimeSupervisor** - done,
   proved, RunningIsServed for graphs without chains (section 7).
5. Bootstrap: **BootstrapOwnership**, refining **BootstrapLease**, **Installation**,
   **BootstrapRecords**, **PrivatePostgres**, **Provisioning** - done, proved.
6. Execution: **WorkReconciler**, **GenerationCalls**, **ActivationScope**,
   **SignalListener**, **DurableRuntime** - done, proved.
7. Product and system: **ProductHost**, **SecretMaterial**, **ManagedChange**,
   **SubjectChat**, **ModelRoute**, **FirstAdministrator**, **CognitionGateway** - done,
   proved.

Each module is written to be proved about: constants, one action per operation, no
RECURSIVE operators. Properties of one component are conjoined from named parts, so that
a counterexample says which part fell.

## 3. Modules and code

Where modules meet: WorkQueue, EffectOperation and SubjectReaction use the host
fence only as "the mutation of a replaced Host is refused"; HostFence shows that
this is what several Hosts and the fence row give, and PersistenceService shows
the one service object inside a Host. SubjectReaction uses the work queue only as
"a READY item is attempted again, and its attempts may overlap", which WorkQueue
allows across a Host replacement. Installation takes the lock, a journal write and a
start of the server as one step each; BootstrapOwnership, BootstrapRecords and
PrivatePostgres show what these are made of. HostFence in turn relies on none of
them: its boots overlap freely. RuntimeSupervisor sees activations as ActivationScope
gives them and calls as GenerationCalls admits them.

**WorkQueue** (`execution/work-queue`, the engine as `execution/durable-execution`
uses it). `row` is the `work_item` table, `engine` the workflow table of DBOS,
`exec` the executor's local state per attempt and process. One action per
statement of `repository.ts` (`Claim`, `Settle`, ... apply `applyCas`), per await
of `attempt-executor.ts`, per lane of the scan. *Correct when* rows always parse,
the first intent wins, an attempt that runs in the owning Host is the one its row
names, success is a handler's word, nothing starts early, everything is decided.

**EffectOperation** (`execution/effect-operation`). `op` is the table, `evidence`
the rows written in the same transaction, `caller` one call of `prepare`,
`dispatch`, `recoverDispatch` or `reconcile`, `world` the provider. *Correct
when* the port is entered at most once, no record contradicts the world, and
the evidence agrees with the row.

**SubjectReaction** (`product/messaging`, `product/subject`). `mailbox`, `reaction`,
`commit` and `facts` are tables; `attempt` is the local state of `processReaction`;
`sender` a client's `acceptInbound` between preparation and commit. Each step is a
transaction (which locks the rows it decides on), a model call, or an unlocked
read. *Correct when* one reaction is open at a time, messages are consumed only by
a decision that saw them and by one only, each accepted communication is sent
once and unchanged.

**HostFence** (`bootstrap/host-ownership`, `bootstrap-runtime/src/host` and
`maintenance`, `data/persistence`). `lock` is the advisory lock as the database has
it, `lease` the client's view, `fence` the row, `boot` the progress of one
bootstrap, hand-off or recovery, `host` the managed Host's terminal flag and
maintenance entry, `tx` mutations between their FOR SHARE lock and COMMIT, `source`
the Host that an EXECUTING journal names. A transaction that takes the row FOR
UPDATE is one step at its COMMIT, enabled when no mutation shares the row. The
bootstrap file lock is deliberately not relied upon: boots overlap freely, so
what holds here holds even if that lock fails. *Correct when* the database has
one owner at a time, a replaced owner never returns, and only the owner's
mutations commit (FencedStore).

**PersistenceService** (`data/persistence/src/persistence-service.ts`). `service` is
the closure's state (`state`, `drainRequested`, `drainStarted`), `call` one
`read()` or `mutate()` from `assertOpen` to its `finally` block. The three ways in
which authority goes away are apart: the lease's signal, the managed Host's
terminal flag, and the token in the row. *Correct when* the pool is destroyed
once, never under a transaction, and its end is asked for as soon as the last call
is over; and no caller is told a falsehood.

**RuntimeSupervisor** (`runtime/runtime-kernel`). `gen` is one activation with its
generation fence and what it leases, `running`, `unsettled`, `bound` and `actual`
are the supervisor's maps, `queue` its mutation chain, `job` the mutation being run
with what is left of its plan, `op` the start or stop it awaits. The plan of
`RuntimeReconciler` and the order of `RuntimeGraph` are functions of that state;
each await of a mutation ends a step, and calls, background failures and close come
between any two. *Correct when* a generation that admits calls is the current one,
nothing is replaced or closed over calls of a generation that ran, a background
failure stops that generation and its consumers, what is RUNNING at rest is served
by what runs, and a close ends. Generations that were never committed are outside
GenerationsAreSound: `start()` drops the fence of an activation
that fails, drained or not (a hazard listed without a property).

**BootstrapOwnership** (`bootstrap-runtime/src/bootstrap/ownership.ts`,
`recovery/bootstrap.ts`, the witness files of `bootstrap-state`), refining
**BootstrapLease**. `lock` and `stale` are the lock directory, `owner`, `attempts` and
`releasing` the witness files, `pc` and `seen` how far a process got and what it has
read. Every file operation and every probe of the process table is a step; deaths,
reused process numbers and stalls come between any two. *Correct when* at most one
process holds the lease and what a dead one left can be recovered
(`AbandonedIsRecoverable`). Excluded there, because the code does not claim them: a
failed acquisition whose `releaseLock` fails too leaves a lock without a witness, and a
process number that now names a stranger ends in BLOCKED. The lock provider is
external and atomic.

**BootstrapRecords** (`bootstrap-state`: `store.ts`, `maintenance/store.ts`,
`journal.ts`, `keyed-serialization.ts`). Two files per record, calls in turn per key,
writes that fail before or after the rename, deaths. *Correct when* what a caller was
told is kept is what the next process reads, and only a body that is current is
advanced.

**PrivatePostgres** (`bootstrap/private-postgres`, `bootstrap-runtime/src/postgres`). The
data directory, the server, three owners of the lease in turn, the session tracker and
the life-cycle machine. An issued start may show itself after its issuer has given up.
*Correct when* the server is the cluster that BootstrapState names, a session that says
QUIESCENT left no server of its own behind, and a server that a Host serves from is not
stopped by a bootstrap.

**Provisioning** (`host-ownership/src/bootstrap-admin.ts` and `ownership-schema.ts`,
`canonical-schema/src`, `durable-execution/src/provider/schema-provisioner.ts`,
`bootstrap-runtime/src/host/handoff.ts`). Each database object is absent, partial, exact
or strange; each statement is a step, and one of a dead process still lands. *Correct
when* a Host serves only over a complete database of its own build, and only a strange
object, a newer build or a torn pair of statements blocks a boot.

**Installation** (`bootstrap-runtime/src/maintenance`, `bootstrap/prelude.ts`,
`recovery/command.ts`, `host/handoff.ts`). Boots, Hosts, maintenance and recovery as
processes over the lock, the journals with their pointer, the fence token and the
server. *Correct when* nobody serves over an open obligation but the Host that opened it,
a serving Host is the one the fence names, a capability that may still abort finds
PREPARED on disk, and success is recorded only of a target that was reached.

**SignalListener** (`execution/signal/src/postgres-signal.ts`). Attempts to connect are
coroutines with an epoch; one that was abandoned runs on to its next await. *Correct
when* somebody subscribed has a connection, an attempt or a timer, and a working
connection leaves nothing undiscovered - with two exceptions, section 6.

**WorkReconciler** (`work-queue/src/reconciler.ts`, `fair-scan.ts`, the listing queries of
`repository.ts`). Start and stop with their awaits, hints, the timer, the shared scan and
the cursor of a lane. *Correct when* a cycle reads every row that stays, a started
reconciler always has somebody to ask for the next scan, and a stopped one is quiet.

**DurableRuntime** (`durable-execution/src/runtime/runtime.ts`, `binding.ts`,
`dispatch/queue-profiles.ts`). Two runtimes of a process in turn, each with engine, pool,
binding and lifecycle state; close() may meet the cleanup of a failed start. *Correct
when* no attempt runs on a pool that ends, CLOSED means released, and an engine opens
only under its authority and over its own profile.

**ProductHost** (`product-host/src/host.ts`, `files.ts`, `bin.ts`). Boots that bring up
parts in order, fail, lose the lease or close. *Correct when* no part outlives its
users' need of it, a Host that lost its lease has been asked to close, and the running
Host is the one clients find.

**FirstAdministrator** (`product-host/src/claim-maintenance.ts`,
`management/src/service.ts` and `repository.ts`). The claim's row and file, its timer in
two Hosts, its consumption, sessions and their revocation. *Correct when* there is one
Administrator for good, a running Host is claimable until then, the file goes, and a
revoked session admits nothing.

**SecretMaterial** (`system/secret/src/service.ts`, `os-credential`). One row, one entry of
the credential store per generation, three callers. *Correct when* an ACTIVE Secret
resolves to what was committed and revocation is final.

**ModelRoute** (`ai-runtime/src/routing.ts`, `repository.ts`, `invocation.ts`,
`configuration/src/service.ts`, `network-access/src/service.ts`). Rows with their locks,
editors with a planned change, an invocation from its reads to the owner's commit.
*Correct when* an accepted result was made over the route that is current, a change
commits over the row it was planned on, and lock orders never cross.

**ManagedChange** (`management/src/service.ts` and `system-actions`,
`execution-lineage/src/activity-repository.ts`, `evidence`). Plan, confirmation and
executions with Activity, evidence and completion; `kind` ranges over the owners of a
resource. A plan holds what was observed and the confirmed input, and the input may name
another revision than the one observed (`Nameable`). *Correct when* a recorded outcome is
true, nothing is left open but by a fault, and a confirmed plan changes its resource once,
as confirmed and over the resource its owner is told of.

**CognitionGateway** (`product-host/src/subject-openclaw*.ts`). The queue of transitions,
the child process, its runs and its descriptor. *Correct when* one Gateway is alive, a
Reaction runs on its own projection, no run waits for a dead process, and the
descriptor names the live one.

**ActivationScope** (`runtime-substrate/src/cordis-adapter.ts`). Deferred resources and
tracked tasks of activations, their disposal and close. *Correct when* a clean disposal
leaves nothing, an ACTIVE scope is sound, and close() leaves nothing undisposed.

**SubjectChat** (`messaging/src/service.ts` and `repository.ts`, `subject-chat-http.ts`).
Transactions that number messages, retries by key, and readers that page by cursor.
*Correct when* paging skips nothing, what was accepted is there once, and a retry is
always answered.

**GenerationCalls** (`runtime-kernel/src/registry`, `generation`, and
`attempt-executor.ts`). Leases, reservations, proxies and the retirement of a generation.
*Correct when* a RETIRED generation is quiet, a retirement that was asked for ends with
the last call, and its replacement finds its keys free.

**Components** puts the modules above and PersistenceService, whose variables are
disjoint, into one run: the initial state chooses a `scene`, and only that component
moves. It is a union of state spaces, not a product; each property is that of its
component, and speaks of the states of its own scenes. **Scenes** declares the scene and
the variables v1 to v16 that every component reads by its own names;
**InstallationScenes** instantiates the components that keep an installation and its
database, **ServiceScenes** those that serve a running Host, each with the CONSTANTS that
bound them and the assumptions on these, and Components adds Init, Next and the
properties. The values are in its cfg.

Abstract specifications: **WorkItemLifecycle**, **EffectTruth**,
**ConversationReplies**, **FencedStore**, **BootstrapLease** say what a user of each part may rely on,
without tables, locks or processes; the run of each detailed module that has one
checks it as a PROPERTY under a refinement mapping defined at that module's end.

## 4. Runs and bounds

| Run | Asks | Bounds, and why they are enough |
| --- | --- | --- |
| WorkQueueSafety | rows, intents, fencing, life cycle | one item (items share nothing but the engine's queue), two revisions, two Hosts with the replaced one lingering, one fault, one retirement: a retry, a recovery and a late Host all meet on one row |
| WorkQueueLive | every item is decided, every cancellation takes effect | five revisions so that waits and retries end before the bound does; no faults, since a fault is what WorkQueueFault is about |
| WorkQueueFault | is a PENDING item always recoverable? (no) | one item, one Host, one fault |
| EffectOperation | once-only entry, truth of the record | three callers in two Hosts: a live dispatch, a recovery and a reconciliation at once; one fault |
| SubjectReaction | decisions and replies | two messages, two reactions, two contents: one reaction superseded by the other, a change of mind visible; four authority revisions are a stop and a restart; two lost attempts; two attempts at once |
| SubjectReactionSerial | liveness of replies and messages | one attempt per conversation, as `product-host/src/host.ts:177-185` configures the queue; retried faults only |
| SubjectReactionHandover | does superseding leave work behind? (no) | one retried attempt |
| HostFence | one owner, one store, takeover completes | two boots: a Host and its rival, or the recovery that resumes it; two mutations, so that shared locks can overlap for ever if nothing ends them; two faults, since one loses the old Host and one disturbs its successor |
| RuntimeSupervisor | admission, replacement, background failure, close | alternative providers a and b of one Service and a consumer c: a reconcile from one to the other is a rebind, a stop, a start and a restart; two reconciles, two background failures, two lifecycle records not written (a stop that is skipped, then a start that finds it running), one call that outlives its generation |
| RuntimeSupervisorChain | does replacing a provider restart all that depends on it? (no) | the same with p between x and c; no faults, no failures |
| Components | the eighteen scenes' properties | next table |
| InstallationRecovery | does recovery converge? (no) | two processes: the Host that dies and the recovery; one operation, one fault |

| Scene of Components | Bounds, and why they are enough |
| --- | --- |
| ownership | two processes with a fault (a failing file operation) and a strange pid; that more processes meet no other case is proved (section 7) |
| records | two callers, two revisions, a fault: a torn advance, and one after it |
| postgres | three owners, four faults: an owner that fails, one that finds its late server, one that comes after both |
| provision | two boots of two builds, one fault: a torn boot and its successor, an older build after a newer |
| maintenance | two processes, one operation, three tokens (source, its restart, a later Host), two faults |
| signal | two subscribers that share an attempt, four attempts, two losses |
| reconciler | four rows in pages of two, two changes: a cycle of two pages that a row enters and one leaves |
| durable | two runtimes with different profiles, two attempts, one fault |
| product | two overlapping boots, one fault: the late end of one meets the start of the other |
| claim | two Hosts, two claims (one renewal), one client and session, one fault |
| secret | three callers (two that race, one that comes after), three generations, four writes, one fault |
| route | two editors, two of everything that can be referred to, two versions and edits |
| change | two callers, two plans, two executions: one plan twice, or one against the other; three versions, so that an input may name one before or after the observed; one fault |
| gateway | two callers, two projections, two processes, one change, one fault; two descriptor tasks waiting (`MaxWaiting`), so that equal ones do wait twice: a run announces only while there is room, where the code appends without bound |
| scope | one activation (they share only close), two resources, one task |
| chat | two attempts on one key, one reader, two contents, a reply; one fault |
| calls | two callers, two generations: one retires while the other registers |
| persistence | three calls: one running, one committing, one refused, in any order with fence and close |

Symmetry is used for safety runs only. `CHECK_DEADLOCK FALSE` is set where the
system may stop: no client calls, every Host is gone, a component is closed, or the
bounds on time, revisions or faults are used up. Histories (`succeeded`, `calls`,
`acked`, `decided`, `under`, `since`, `writes`, `applied`, `told`, `due`, `seen` of the
reconciler, `lapses`, `displaced`, `overlapped`, `contested`, `untidy`) are never read by a
guard; the last six record that an exception named in a property has happened.

## 5. Fairness

Asked only of what runs by itself: the anti-entropy timer, the engine's poll and
its recovery at launch, the clock, the settling of awaits, the monitor, and a
handler generation's replacement (WorkQueue); the queue's attempts
(SubjectReaction); the end of transactions, the attempt of a publication, and a
client's hearing of a session that the database has ended (HostFence: TCP
keep-alive and the driver's `error` and `end` events); the steps of mutations, whose
timers fire, whose disposers settle and whose activations settle once aborted, while
calls in flight need never return (RuntimeSupervisor). Callers, operators, faults,
Host replacements, boots, losses and closes are never required to happen, with one
exception: InstallationRecovery asks that a process that has begun goes on, that one
stuck in its hands is ended, and, strongly, that an operator who is allowed to recover
does so again and again, because the question is whether that would ever help.
Weak fairness is enough everywhere else: each step stays enabled until it is taken.
Components has no fairness; its properties are safety properties of states and steps.

## 6. What the runs found

The runs that expect a violation, each listed under `findings`:
*WorkQueueFault*: a database error before `markRunning`
ends the engine's workflow in ERROR; the item stays PENDING and every later dispatch
reuses the ended workflow's id. *SubjectReactionHandover*: the WorkItem of a newer
message may be the one that supersedes the older reaction and then ends, so both
messages wait with no WorkItem until the client writes again.
*RuntimeSupervisorChain*: a reconcile that replaces the provider of x restarts p,
which requires x, but not c, which requires what p provides; c stays RUNNING on a
lease of p's retired generation, while a background failure of the same provider
stops them all. *InstallationRecovery*: recovery of an interrupted STOP asks the
database for the Host lease before it looks at the server; once the server is down it
can never finish, although the cluster is at its target.

Exceptions that properties of Components state, because the code does not do better:

* Signal: an abandoned attempt whose password arrives late overwrites the slot of its
  successor (`postgres-signal.ts:267`) and leaves subscribers without connection or
  timer, against SIG-003; a loss while an earlier loss's timer is set is not counted
  as a reconnection, so no rescan follows.
* Secret: two replacements at once write under one key (`service.ts:448`); the loser's
  material may stand where the winner's was committed. A failed create or replace may
  leave an entry nobody names, and a resolve may find its entry just deleted.
* Provisioning: a role, the fence table and its function each take two statements
  outside a transaction; a boot that dies in between blocks its successors, against the
  idempotent retry that `m4-host-ownership-fence-forward-handoff.md:1287` and
  `Q-PRIVATE-POSTGRES-01.md:273` describe.
* ManagedChange, against MGMT-009 ("A stale plan cannot execute under old confirmation",
  `specs/management/system-authority.md:323`): secret actions carry no expected revision, so
  two executions of one plan, or one of a stale plan, both pass; the owners of a Subject and
  of an activation compare with the revision that the input names, which nobody compares
  with the observed one (`subject.ts:38-86`, `configuration.ts:191-197`), so a plan whose
  input names a later revision may take effect on that; creations without an id repeat on
  retry; activation compares the active revision only, which may have returned to the same
  one; FAILED may stand over a change that was committed without an answer.
* FirstAdministrator: the clock is read (`management/src/service.ts:716`) before the
  transactions that retain the Activity and consume the claim (`host.ts:360-365`), so a
  claim may be consumed that has expired meanwhile. A renewal under way may then write the
  file of the next claim and set no timer: the file stays until the next start or removal.
  `lapses` records both this and a claim published by a Host without the fence.
* ActivationScope: an activation cancelled while it comes up has its state overwritten
  (`cordis-adapter.ts:117`) and may end disposing with a tracked task running.
* ProductHost: the descriptor of a successor may be lost when it writes between another
  boot's look at the file and its unlink. A failed start leaves its descriptor;
  `requestClose` before Ready does nothing.
* WorkReconciler: a stop() that meets a start() under way leaves what start subscribes.
* ModelRoute: two first-time bindings may overwrite one another, there being no row to
  lock (`ai-runtime/src/repository.ts:616`); two first activations of a scope end in a
  raw unique-index error.
* CognitionGateway: asked for A, B and A again, the third start is given the pending
  one of the first; a previous process whose stop fails may survive.
* SubjectChat: a claim whose `ensureCurrentConversation` fails leaves the conversation
  absent until the next start (`host.ts:1021`); two materialisations of one reply at once
  end in a raw unique-index error, rolled back.
* GenerationCalls: a promise nested in the data a call returns is not counted.

## 7. What is proved

For every set of items, callers, ids, requests, boots, transactions and calls, and
any bound (the assumptions named in each module: bounds are naturals, `None` is
not a boot, ...):

* **WorkQueue_proofs**: all safety properties of WorkQueueSafety, and the refinement.
  TypeOK is inductive alone; the others need one invariant relating each
  invocation to its row, because a stale invocation is harmless only by the
  guard of the update it will send. RowsSound collects them as RowsAreSound.
* **EffectOperation_proofs**: all safety properties and the refinement. The
  inductive invariant says that at most one call dispatches an id (`Alone`), and
  that a call that won admission did so before the port was ever entered.
* **HostFence_proofs**: FenceSafe (the types, EnteredBeforeTransfer, LiveHostOwns,
  WindowAfterRevocation) and the refinement. EnteredBeforeTransfer is inductive by
  the row lock. LiveHostOwns is not: one must know that a recovery holds the lock
  its source has lost, that a source was a Host, and that a maintenance entry makes
  the Host terminal before it takes its token (`BootOK`, `HostOK`, `SourceOK`). The
  refinement needs that a boot publishes at most once (`since[b] = 0` before) and
  that a current token was published at the current revision (`RevisionOK`).
* **SubjectReaction_proofs**: ConversationIsKept, ExactlyOneReply and the refinement of
  ConversationReplies. The mailbox names the one reaction in progress, and only that
  reaction moves the cursor; so what an attempt showed the model stays exactly the
  messages between the cursor and the reaction's range for as long as the reaction is
  open (`AttemptOK`), and an equal mailbox revision means that nothing waits beyond it
  (`RowOK`). Attempts that overlap or come late are harmless by these two alone.
* **RuntimeSupervisor_proofs**: GenerationsAreSound and OnlyTheFailed, for any graph of
  systems, provides and requires. A generation that was committed is the running one of
  its system, the one being stopped, its unsettled one, or has drained (`GenOK`); an
  operation is of a system that does not run meanwhile (`OpOK`); a queued failure is of a
  generation that is hurt, and a running generation in its place is that one (`JobOK`).
  RunningIsServed is proved of every graph in which nobody both provides and requires
  (`NobodyDoesBoth`, which the instance of RuntimeSupervisor satisfies). As long as nobody
  closes and every lifecycle record was written: what runs and is not about to be stopped
  has each of its Services from a system that runs and is not about to be stopped, leases
  from the generations that run those, and the rest of the plan binds it as it is bound
  (`ServedOK`); starts come after the stops and the rebinding (`StartsOK`). A plan restarts
  whoever is bound otherwise; a failure takes with it the least set that has the failed
  system and the consumers of its members. The hypothesis is needed: a plan restarts the
  consumers of a changed binding and not theirs in turn, which RuntimeSupervisorChain shows.
* **InstallationScenes_proofs**, **ServiceScenes_proofs**: for each component of the two
  modules, that its invariant holds initially, that every step keeps it, and that its
  properties follow (for the secret material and the Gateway this stands in
  Components_proofs, which keeps the three modules of one size); **Components_proofs** carries
  each of these over to `Spec` of Components, one theorem per component, so that every
  property that the run of Components checks is a theorem. Each component has its invariant
  beside its properties, at the end of its module:
  * ownership: a recovery takes the lock only from a holder whose heartbeat has stopped. One
    that lives stopped it before the recovery began to look, so it stood still, or had been
    told, while the witnesses were read, one of which names it (`WitnessOK`, `StaleOK`); and
    whoever is found alive is not recovered (`SeenOK`). This rests on a restriction of the
    model, not on the code: no holder stalls or finds its directory compromised between
    another's first look and its lock call (`Recovering = {}` in `Stall` and `Compromised`);
    a recovery that has seen it dead would be let in. The lease implements BootstrapLease;
  * records: calls of one key take turns (`InTurn`), so what a call has read is still what
    the files hold when it writes (`ReadStands`), and the previous body is the current one
    or the one before (`Kept`), which is what a torn or damaged file costs at most;
  * postgres: whoever may say that nothing of its own runs has at most its own start on its
    way, and knows from the life-cycle machine whether it does (`MachineOK`); a server that
    runs or is about to is of the cluster that is named (`Named`), and a session that is
    placed has validated that cluster (`SessionOK`);
  * provision: a plan takes the reservation before the Host's lease and that before the
    migrations (`Ordered`), what a boot has done stays done while it acts (`Done`), and what
    is half done has its maker at work, was torn, or is resumed (`HalfDone`);
  * claim: the Host with the fence has published the claim that the database knows, or
    nobody can use one while it renews it (`Published`); once somebody has claimed, the file
    has a request or a timer of that Host that removes it (`Removed`), unless a claim was
    consumed late or published without the fence, which `lapses` records;
  * signal: of an epoch there is one attempt, which whoever subscribes joins, and if it was
    not made by the timer then the timer is set or everybody is told when it fails (`Only`),
    unless it was overtaken, which `lapses` records;
  * durable: an engine that takes attempts is bound to the pool of its own runtime, which is
    open (`EngineOK`); whoever is past the engine in a release has stopped it, and it is not
    launched again (`ReleasedOK`);
  * gateway: only the newest process lives, and where the first transition stands tells in
    which state it is and for which projection (`NewestLives`); the stop is the last of the
    line (`StopIsLast`); a descriptor that names a process that has gone has a removal in
    its line (`DescriptorOK`), where a transition awaits one task (`AwaitedOnce`) and equal
    ones may wait beside it;
  * persistence: a drain is requested exactly when the service is not OPEN, so that the
    calls of a destroyed pool only decrease;
  * scope: a Fiber that disposes has the disposer of whatever is held (`FiberOK`), and the
    tasks awaited are those that ran when no more could come (`TasksOK`);
  * chat: who writes holds the row since before it read its number (`WriterOK`), so that
    numbers are dense in the order of commits and a reader has seen an initial part;
  * calls: the fence counts what callers hold (`FenceOK`, over cardinalities), and a
    later generation is registered only after the earlier one was stopped (`StopOK`);
  * route: who holds a lock since it read a row keeps that row as it was (`EditOK`); an
    owner's transaction holds exactly the rows of the route it has compared, the binding
    first (`Held`, `CallOK`), which also orders the waits;
  * secret: a commit that will succeed finds material under its key, its own unless the
    key is contested (`CommitOK`), and a deletion is of an entry no row returns to;
  * reconciler: a cycle owes nothing behind its cursor (`LaneOK`); that a page reaches the
    least row above the cursor is by well-founded choice;
  * product: the parts come up in an order and a stop is tried once per part (`BootOK`);
    the descriptor names the boot that published (`DescriptorOK`);
  * maintenance: who works for the installation holds its lock (`OwnsLock`), so that
    journals, pointer and token change under it alone; what it does for an operation is for
    the one the pointer names and of the kind that has that end (`OperationOK`, `IntentOK`),
    and a boot that works for none was begun with none open;
  * change: what an execution knows is true of its Activity, which is its own (`CallOK`);
    a change renews the version, so a resource of the planned version is the one planned
    on (`PlanOK`), and two changes by one plan would be two of one version (`Needs`).

The invariants `Inv` were checked by TLC on the instances of section 4 before they were
proved. What is assumed of constants, and why the code justifies it: `None` is none of the
values it stands beside (a model value for null, undefined or no row); bounds on faults,
revisions and retries are naturals; a page and a chat listing hold at least one row
(`work-queue/src/service.ts:130` refuses others), versions and generations start at one;
senders and the materialisation of replies are different transactions with keys of their
own (`ChatAssumption`); callers of a generation are finitely many, because the fence
counts them (`GenerationAssumption`); rows of different kinds are different rows, editors
and invokers different transactions (`RouteAssumption`); no process of an installation is
the "none" of the advisory key (`MaintenanceAssumption`), and no process is nobody
(`OwnershipAssumption`, `HostAssumption`, `ProvisionAssumption`); there is a first owner
of the server (`ServerAssumption`) and a first migration (`ProvisionAssumption`); a
fingerprint of a projection is not the word "stop" of the transition line
(`GatewayAssumption`); `Provides` and `Requires` are functions on the systems of a graph
that is fixed once built (`GraphAssumption`).

## 8. What is only model-checked

* Liveness (EventuallyDecided, CancelTakesEffect, CommitIsReplied, AcceptedIsConsumed,
  TakeoverCompletes, CloseEnds, RecoveryConverges): liveness under fairness, and
  ENABLED, are out of the prover's reach.
* That the instances of InstallationRecovery, SubjectReactionHandover, WorkQueueFault and
  RuntimeSupervisorChain fail as they do: a counterexample is found, not proved.
* What recursive definitions compute: no module has a RECURSIVE operator, and of
  `Resolvable`, a recursive function, the proofs use only that it selects systems. That it
  is served within itself is what the runs of RuntimeSupervisor exercise.

## 9. What is not modelled

* Work creation with deduplication and DEFER admission; readiness profiles, contract
  compatibility and capability selection of the runtime kernel; nesting of activities
  and context references; status and listing projections other than chat.
* HTTP routing and admission, the command line, generated clients, validation of
  shapes and text, encodings, password hashing and the SQL's declarative parts are I/O or
  pure functions with unit tests.
* External, and modelled only as the code uses them: PostgreSQL, the durable engine,
  Cordis, the lock provider, the atomic file writer, the credential store, the Gateway
  process and model providers.
* Access control, certificates and the contents of secrets.
