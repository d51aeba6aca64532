# Bifrost platform: the agent runtime, specified and checked

This directory is a TLA+ development of the core of the repository: the agent
runtime (`api/internal/agentrt`), which plans work as tasks, leases them to
hosts, has their results checked, and accepts, lands and releases them. It
holds the specifications, the TLC configurations that check them on small
instances, and the TLAPS proofs about them. Paths below are relative to
`api/internal/`; `store/` stands for `agentrt/store/` and `relay/` for
`agentrt/relay/`.

## 1. Inventory

### Parts, state and operations

| Part | State it keeps | Operations | What makes it hard | What makes it correct |
|---|---|---|---|---|
| Lease kernel (`store/kernel.go, claim.go, attempt.go, write.go, blockedclose.go`) | `mission`, `task`, `attempt` rows, `lease_epoch_seq` | claim, heartbeat, start, computed, persist, submit, salvage, ended; the lease loop; task and mission moves; closing a mission on a card | late, repeated and lost calls of hosts; the loop against the routes; time | one live attempt a task; no write past the fence; epochs never reused; results only handed over once they left the host; slots; external work never done twice; silent hosts lose their lease |
| Acceptance (`store/accept.go, adopt.go, precheck.go, blockedcard.go, stoppedchecks.go, withdraw.go`) | `task.state/round_no/max_rounds`, check tasks and their specs, `verification`, stop controls | start verification, conclude, adopt a salvaged result, rework, red landing, drop and retry on cards, withdraw | verdicts about attempts that were replaced; rounds; two ways to accept; a stop in between; a restart with another `AGENTRT_PRECHECK` | what is accepted has its result; accepted once; reviews follow passes; a task under verification keeps a check; rounds keep their bound |
| Outbox relay (`relay/`, `store/signals.go`) | `outbox`, `message`, `vendor_pool`; Redis keys and lock | acquire, renew, release, rebuild, deliver | crashes between two stores; expired locks; a wiped Redis; snapshot against writers | one writer; no signal lost; no older cooldown left behind |
| Idempotent routes (`store/keyed.go`) | `idempotency_key` | lookup, operate, store | retries racing, expiry of keys | an operation happens once a key |
| Event log (`store/event.go, eventcursor.go`) | `event`, hash chain, cursors | append, verify, read | commit order against number order | a cursor skips nothing |
| Controls and claims (`store/controls.go, signals.go, claim.go`) | `control`, row locks | set, lift, claim | against a claim in progress | a claim comes before a stop or sees it |
| Dispatch, close and retry (`store/dispatch.go, close.go, retry.go, withdrawn.go`) | task states, dependency edges, reasons in events | dispatch, close missions, back off | what is read without a lock, or locked in another order | only runnable work is dispatched; a mission ends when its work has, and leaves nothing behind; nobody waits in a circle (but finding 5) |
| Blocked cards (`store/blockedcard.go, cardauto.go`) | owner waits as events | ask, see, decide, close | an answer on a block that is over | one answer moves one block |
| Host daemon (`agentd/`) | its journal, workspaces, process groups | take, run, deliver, salvage, recover | crashes at every step; calls with no answer that arrive later; process groups that outlive their attempt | no executor runs unrecorded or beside another; the journal is never ahead of the platform; every entry is settled; every lease ends |
| Landing (`store/landing*.go`, `agentrt/landing*`, `agentrt/controller/landing*.go`) | the landing stream: operations, grants; `main` itself | claim, prepare, test, gate, push, reconcile, answer | main moves between a read and the push; a push with no answer; a remote that applies it late | a change lands once, on what the gate read; the records agree with main; one asks for main at a time and is settled |
| STG release (`store/stg_*.go`, `agentrt/stgrelease`) | release leases, gate | preflight, lease, release | effects outside the database | an effect is not repeated |
| Plans, issues, debts, exams, briefs | rows around tasks | record keeping | row locks of the kernel | |
| Approvals, questions, threads (`approvals`, `questions`, `agentthreads`) | files and rows of decisions | ask, answer, execute | answers racing expiry | decided once |
| State files (`statefile`) | JSON documents | compare-and-set update | two writers | no update lost |
| Delivery, promotion, patrol, cluster, network, probes, market data, server, console, agents | caches of outside systems | reads and commands | outside systems | out of scope |

### How they interact

Everything meets in PostgreSQL: each handler is one transaction that locks the
rows it reads, so parts interact by the order of their transactions. Hosts
(`agentd`) reach the kernel through HTTP routes, with retries. The controller
runs every loop as passes over rows (`agentrt/controller`). Writers put an
outbox row beside each change a reader should hear of; the relay carries it to
Redis, which hosts and actors listen to and never trust. The Owner acts
through cards and controls. The acceptance reads attempts the lease kernel
moves, and moves tasks the kernel leases again. A mission closes over its tasks
and its landing stream, which it reads without locking them. A landing is
folded from its stream, whose lock orders the records; what it reads of Git is
read with no lock held, but for the second gate.

PROJECT.json lists the hazards of this code, each at the line where it bites,
with the properties that would catch it.

## 2. Modules

| Module | What it is |
|---|---|
| `FencedWork` | the abstract specification: work granted under fresh tokens, to one holder at a time, handed over only by its holder |
| `AttemptLease` | the lease kernel in detail; implements `FencedWork` |
| `AttemptLeaseProofs` | its inductive invariant and the theorems that follow from it |
| `AttemptLeaseRefinement` | the proof that `AttemptLease` implements `FencedWork` |
| `Acceptance` | the acceptance of one implementation task |
| `AcceptanceProofs` | its inductive invariant and theorems |
| `OutboxRelay` | relays, Redis, the outbox and its writers |
| `OutboxRelayProofs` | its inductive invariant and theorems |
| `HostDaemon` | one daemon with its journal and process groups, composed with `AttemptLease` (it EXTENDS it: each of its calls is a step of the kernel) |
| `HostDaemonProofs` | its inductive invariant and theorems, on top of `AttemptLeaseProofs` |
| `MissionWork` | the transactions that meet on a mission's rows, statement by statement and lock by lock |
| `MissionWorkProofs` | its inductive invariant and theorems |
| `Landing` | the operations that land accepted changes, over a main that others move |
| `LandingProofs` | its inductive invariant and theorems |
| `NaturalSets` | that a set of numbers has a least and, if bounded, a largest: the first row and the last that the code asks for |
| `MC*` | instances for TLC: symmetry sets and constant values too long for a `.cfg` |

### AttemptLease and the code

`mission`, `task`, `attempt` and `epochSeq` are the rows and the sequence of
`migrations/0001_core.sql`. Each action is one transaction: the row locks its
handler takes (`lockAttempt`, `lockLive`, `readTask`) make it atomic, and the
freedom of the callers makes the interleavings: `HostCall` lets any host send
any call, for any attempt, with any epoch ever handed out, at any time. That
covers every order the daemon, its retries and its restarts can produce.

* `Fence` is `lockLive`; `Sweepable` is the SQL condition of the lease loop and
  `Sweep` is `sweepOne`; `TaskMove` and `ControllerMove` are the two tables of
  moves; `Released` is `releaseTask`.
* Time is relative: `attempt[a].left` is `lease_expires_at` minus the database
  clock, and stops falling at `-Grace`, from where no comparison changes.
* `Heartbeat`, `Start`, `Computed`, `Persist`, `Submit`, `Salvage` and `Ended`
  are the routes. A refused call changes nothing and so is a stutter. A
  checkpoint changes no state that is read here.
* `Salvage` sets `persisted` too, because the code stores the result through
  the same columns; `salvaged` tells the two apart.
* `Claim` leaves out what only withholds a claim: routing, pools, budgets,
  disk, controls. No property needs a claim to happen.
* `ProposeTask` reads the mission without a lock, so a task can land in a
  mission that was closed meanwhile; `CancelAfterClose` is the pass for it.

### Acceptance and the code

One task, its attempts, and its checks in the order they were proposed.
`StartVerification`, `CloseCheck`, `AcceptResult`, `AskReview` and `FailResult`
are the outcomes of `StartVerificationWith` and `ConcludeWith`; `Current` is
the switch that decides whether a verdict is still about the attempt under
verification; `SalvagedOpen` and `SalvageCurrent` are the two conditions of
`adopt.go`. `precheck` is chosen at each use, because the controller may be
restarted with another value between two passes. `rework` and `ready` are one
state, since one transaction moves through both. `leased` and `running` are one
state, and an attempt that is leased, running or stale is `live`: the
acceptance does not tell them apart (`AttemptLease` does). A check that ran on
another version of an attempt is one that pins none.

`ByHand` lets a check stand in the database that pins nothing: one put there
by hand or by a version from before the pins; the routes cannot propose one.
`Withdrawals` enables `withdrawTx`. With it `VerifyingIsChecked` fails
(finding 2); `KeptChecked` says that nothing else leaves a task under
verification without a check.

### OutboxRelay and the code

Each action is one call to PostgreSQL or Redis, so everything may happen
between any two calls of a relay: another relay, a writer, an expiry, a crash,
a wipe. `Fenced` is the Lua script: check and write in one step. `hold` reads
the epoch and then the flag of an unfinished rebuild; `Rebuild` is
`MarkRebuilding`, `ReadSnapshot`, `Clear`, `Fill`, `Cool`, `SetEpoch`,
`Unmark`; `DeliverOnce` is `ReadOutbox`, then `Send` and `Mark` a row at a
time; `keepAlive` is `NoticeLoss` (the renewal that finds the lock gone) and
the absence of `Expire` while a lock is in use; `Lapse` is the lock of a holder
that was too slow. A mailbox is the set of messages signalled in it, as readers
de-duplicate. One mailbox and one pool stand for all; the wake and stop
streams are cleared, filled and appended to as a mailbox is. The natural end
of a cooldown comes at the same time in both stores and is left out; a
cooldown lifted early is `Lifted`.

### HostDaemon and the code

`journal` is the registry on disk (`agentd/local.go`), `step` where the process
is with an attempt, `proc` its process group, `onItsWay` the calls sent and not
answered, `answered` the stored answers of `store/keyed.go`. `Take` to
`Release` are `Run` (`agentd/run.go`): an attempt is taken, waits for the host,
is prepared, its launcher is started held back and recorded, its start is
reported, and only then is its executor let go. `Beat` and `GiveUpLease` are
the keeper. `NextCall` is the switch of `deliver` over the journal's phase;
`Delivered`, `Submitting`, `FencedOff`, `Salvaged`, `EndAnswered` and `PutOff`
are its branches. The platform may refuse a call for its lease (`Fenced409`) or
for any other reason (`Refuses`); a refused delivery goes on to `ended`, and a
refused `ended` settles the entry as a taken one does (`EndAnswered`). `Crash` loses the memory and the held launcher and leaves
what an executor started; `LookAt` is the first pass of `Recover` and
`Recovering` its second.

A call whose answer comes back is one step with it. One whose answer does not
(`Unanswered`) stays in `onItsWay` and may `Arrive` at any later time, beside
its own retry, or never (`Drop`). `Takes` is the platform's side: the actions
of `AttemptLease` under `keyed.go`'s stored answers, which are looked at before
the lease is.

### MissionWork and the code

`Statements` lists, for each kind of transaction, the statements that lock, each
with its row locks in the order the code takes them: shared or alone, waiting or
leaving a locked row out (`SKIP LOCKED`, `NOWAIT`). `Take` takes one lock and
`Step` is what the code decides on the rows it then reads; what a statement
names it reads when it starts, as READ COMMITTED does; `Commits` writes at the
end and lets go. The rows of two event streams are rows as the others: the
mission's (`Events`) and that of its repository's landing (`Stream`), which every
`Append` to them locks until the commit. A transaction whose append is its last
act takes `Events` in the step of its commit (`Appends`, `Needs`); one that asks
for a row after it, as a red landing does, has `Events` among its statements.
`Waits` and `Circle` say who waits for whom, and `Aborted` is PostgreSQL ending
a deadlock by one transaction of the circle. The writes are one definition per
transaction (`Leased`, `Dispatched`, `Concluded`, `ClosedOnCard`,
`MissionClosed`, `LandingClaimed`, ...) and read the rows as they are then, so a
row read without a lock may have moved. The lease is `AttemptLease`'s and the
rounds are `Acceptance`'s: here an attempt is live while its task is `leased`. A
check locks the attempt it is of, shared, or, of a salvaged result, the live one
it would end (`accept.go:291`, `accept.go:303`, `adopt.go:100`): `Judged` lets it be
either by whether one lives.
`ById` is the order of the ids, in which a list of rows is locked; all that is
assumed of it is that ordering a set of tasks loses none.

### Landing and the code

`ops[r]` is what `landing.FoldWithGrants` folds of a root: its operations in
the order of their claims, each with its phase. `main` is the sequence of
commits on the branch; a prefix of it stands for a commit's id, so M0 is a
prefix, R is M0 with one commit appended, and a fast-forward is the prefix
order. `gate` is the transaction of `authorizeLandingPush`, which keeps the
stream's lock over its reads of Git: `GateOpen` reads the history, and its end
reads main, so main may move in between. Everything else is decided with no
lock held: `hand[r]` is what a step read and has not used, and `Claim`,
`Prepare` and `Unpark` use it later, on what then may have changed. `Send` is
`AuthorizationCurrent` and the start of the push; `wire` holds the pushes the
remote may still apply, `RemoteTakes` and `RemoteRefuses` are the remote, which
may answer nothing; `GiveUp` is the push past its deadline and `Record` is
`RecordPushResult`. `ReadMain` and `WriteEvidence` are the two halves of the
reconciler, with `Reconciled` the table of `reconcileMainOne`. `age` counts
ticks from the intent; `due` holds the roots whose six hours are over.

A CI run, a policy or a window is the answer it gives, chosen at each use. What
people do to main (`HandMerge`, `RevertChange`, `OtherCommit`, `Rewind`) and
what the Owner answers is bounded by `left`.

## 3. Runs

| Run | Instance | Shows | Distinct states |
|---|---|---|---|
| `lease_kernel` | a task of 2 attempts on 2 hosts and a task only the controller and the Owner move; TTL 1, grace 2 | `TypeOK`, `LiveMatchesTask`, `FreshEpochs`, `HandedOver`, `SalvageClosesLease`, `NoLateWork`, `ImplementsFencedWork`, `ClosedMissionEmpties` | 380,000 |
| `host_daemon` | 2 tasks that compete for 1 slot, 2 crashes, every call answered | `HostTypeOK`, `NoneRunsUnrecorded`, `NothingBeside`, `SlotsHold` | 213,000 |
| `host_liveness` | 1 external task, 2 crashes, 2 unanswered calls at once | `SubmittedStays`, `JournalNotAhead`, `ExternalNotRedispatched`, `EveryLeaseEnds`, `JournalSettles` | 38,000 |
| `acceptance` | 2 attempts, 3 checks, 2 rounds and one more, both prechecks, hand-made checks, withdrawals | `TypeOK`, `ReviewAfterPass`, `AcceptedHasResult`, `AcceptedOnce`, `StopHoldsVerdicts`, `KeptChecked` | 1,290,000 |
| `relay` | two worlds: 2 relays, 1 message, 2 troubles; 1 relay, 2 messages, 2 wipes, 1 trouble; 1 deadline, 3 rows, 3 tokens | `TypeOK`, `OneWriter`, `NoLostSignal`, `CooldownIsCurrent`, `EveryMessageSignalled` | 894,000 |
| `mission_work` | 2 tasks, 2 sessions of which 1 runs the controller's loop, 1 stop | `MissionTypeOK`, `OnlyCloseAndRed`, `DoneButForRework`, `LeasedUnheld`, `ReadiedOnAccepted`, `CardLeavesNothing`, `ClosedOffMain` | 1,324,000 |
| `landing` | three worlds: 2 changes alone; 1 change, 2 moves of main or the clock, 1 answer; 1 change, 1 move, 1 answer, rewinds and a slow remote; 2 operations, timeout 1, fence 2 | `LandingTypeOK`, `RecordsTellMain`, `OneAtMain`, `LandedOnce`, `MainSettled` | 557,000 |
| `salvage_race` | 1 attempt, 1 host | finding 1 | |
| `withdrawn_check` | as `acceptance` | finding 2 | |
| `relay_fence` | 2 relays, 1 wipe | finding 3 | |
| `mission_close` | as `mission_work` | finding 4 | |
| `close_deadlock` | as `mission_work` | finding 5 | |

Each property of a passing run comes with a mutant of the code that breaks it
(`PROJECT.json`, and the operators marked `MUTANT` in the modules): a fence
that forgets the clock, an epoch that is not advanced, a sweep that does not
come back to stale leases, a batch marked after its first row, a stored answer
looked at after the lease, a row waited for instead of left out, a push that
is forced, an absence that counts before the fence.

**Why these bounds are enough.** The lease properties are about pairs: an
attempt and its successor (2 attempts of one task), the rightful host and
another (2 hosts), two tasks that compete for a slot. `LeaseTTL` and `Grace`
of 1 or 2 ticks already separate the regions the code tells apart: live,
lapsed, and past the grace. The theorems remove these bounds.

For the daemon, two crashes reach a crash during the recovery from a crash.
Two attempts are needed for what runs beside what, and there calls are
answered; calls with no answer matter to one attempt's journal, and there one
attempt is enough: two calls on their way are a call and a later one, or its
own retry.

In the acceptance, a second attempt lets a verdict be about an older one, or a
new one run while an earlier result is adopted; three checks are a
verification, its review, and one more; two rounds and one past them reach the
last round and the one the Owner adds. In the relay, three rows let a cooldown
be set, lifted and set again around a takeover (with a message among them two
rows are enough, since messages and cooldowns meet only in the order of the
rows); two troubles are a lapse and a crash; two wipes reach the wipe of a
rebuild that followed a wipe. The two worlds are one graph (`PairOrLone`): wipes
under two relays are left out because then the fence does not hold (finding 3).
The constraint keeps every step that fairness asks for: it cuts posts, troubles,
wipes and the start of the second relay, none of which has to come.

In `mission_work` the hazards are about two transactions: every pair of kinds
meets, except two passes of the controller's facts loop, which one goroutine
runs one after the other. Two tasks are one that waits for another, or a
piece of work and its check. A stop names everything or the first task, one at
a time; a stop of the mission meets the same lock in the same statement as the
closing does. The second task is landed only in a mission without a dependency
and not under a stop (`SecondLandsFree`): landings of two roots meet only in the
stream, and dependencies and stops are explored in full with one landing.

In `landing`, two changes alone compete for the slot, through parks, grants and
the gate; main moves under a change by the other's landing. With one change
the world moves instead: two moves are a merge by hand and its reversal, or a
commit and the end of the six hours. Two operations stand for the eight: the
last may finish, the next may not open. A timeout of 1 and a fence of 2 keep the
order the code relies on (`PushTimeout` below `MainFence`), with a tick between
them. Rewinds and a remote slower than the fence have a world of their own,
since `RecordsTellMain` cannot hold of them; `OneAtMain`, `MainSettled` and
`LandedOnce` are checked in all three, the last without its clause about what
main had once, which a rewound main makes moot.

Deadlock is checked where the system cannot stop (the acceptance, where a stop
can always be set or lifted, and `mission_work`, where a session may always
begin) and off where a bounded instance does end: all
attempts used, all rows written.

**Fairness.** `AttemptLease!LoopFairness`: time passes, the lease loop comes
back to each attempt (`SweepLeases`, every `LeaseEvery`, 10 s), and the
cancelling pass to each task that landed in a closed mission. Nothing is
assumed of hosts, claims or the Owner. `OutboxRelay!FairSpec`: `Run` loops
until its process ends and is started again; a lease in use is renewed every
third of its TTL, so a loss is noticed; a lock nobody renews expires. The
troubles and wipes are finite in an instance: a relay that is wiped for ever
never finishes.

`HostDaemon!HostFairness` adds to the kernel's loops that the daemon goes on with
what it has: a `Run` with its attempt (an executor ends at its hard limit at
the latest, `run.go:312-325`), `Recover`, between two claims, with every entry
nobody runs (`api/cmd/agentd/main.go:164-228`), and that the platform is reached in
the end. Nothing is assumed of claims, heartbeats, or a group that will not
die: such a group keeps its entry for ever, and `JournalSettles` says so.

The run `relay` assumes less than `FairSpec` (`FairFirst`): one relay is there and
its `Run` goes on, the other need not be started and goes on with what it began.

`Landing!Fairness`: time passes; the remote answers or drops what it was sent
and the push is given up at its deadline; the gate's reads end; the reconciler's
passes go on (`agentrt/controller/landing_reconcile.go:74`) and in the end read main.
Writing what it read is strongly fair, since the stream's lock is taken between
by others and is given in turn. Nothing is assumed of claims, of CI, of a push
being recorded, or of people.

## 4. Proofs

`tlapm` checks these for every value of the constants that satisfies the
module's assumption, which TLC evaluates on every run too. The assumptions
say no more than what the constants are:

| Assumption | What it asks |
|---|---|
| `LeaseConstants` | any sets of tasks and hosts, any bound on attempts, any slots, a positive TTL and grace |
| `HostConstants` | a host of that set, any bounds on crashes and calls on their way |
| `AcceptanceConstants` | any bounds on attempts, checks and rounds; any of the two prechecks |
| `RelayConstants` | messages that are not numbers; deadlines other than the one that stands for no cooldown; any bounds |
| `LandingAssumption` | any roots, a positive budget of operations, `PushTimeout` positive and below `MainFence`, as the code's constants are; any set of worlds |
| `MissionConstants` | any finite set of tasks with any bindings of checks to work, any sessions and edges; what is checked is work, as `precheck.go` and the proposal routes make it; ordering loses no task |

| Module | Theorem | States |
|---|---|---|
| `AttemptLeaseProofs` | `TypeCorrect`, `Inductive` | `TypeOK`, and the inductive invariant |
| | `TaskMatchesAttempt` | `LiveMatchesTask` |
| | `EpochsAreFresh` | `FreshEpochs` |
| | `ResultIsHandedOver` | `HandedOver` |
| | `SalvageIsLast` | `SalvageClosesLease` |
| | `LateWorkIsRefused` | `NoLateWork` |
| | `HostsKeepTheirSlots` | `SlotsHold` |
| | `ExternalWaits` | `ExternalNotRedispatched` |
| `AttemptLeaseRefinement` | `KernelIsFenced` | `ImplementsFencedWork`: `Spec => Fenced!Spec` |
| `HostDaemonProofs` | `HostTypeCorrect`, `HostIsRight` | `HostTypeOK`, and the inductive invariant |
| | `RunsRecorded` | `NoneRunsUnrecorded` |
| | `RunsAlone` | `NothingBeside` |
| | `SubmitStands` | `SubmittedStays` |
| | `NeverAhead` | `JournalNotAhead` |
| | `DaemonCallsKernel` | `HostSpec => Spec`, the kernel's |
| `AcceptanceProofs` | `AcceptanceTypeCorrect`, `AcceptanceIsRight` | `TypeOK`, and the inductive invariant |
| | `AcceptsAResult` | `AcceptedHasResult` |
| | `AcceptsOnce` | `AcceptedOnce` |
| | `ReviewsAfterPass` | `ReviewAfterPass` |
| | `StopIsHeld` | `StopHoldsVerdicts` |
| | `StaysChecked` | `KeptChecked` |
| `OutboxRelayProofs` | `RelayTypeCorrect`, `RelayIsRight` | `TypeOK`, and the inductive invariant |
| | `WritesOneAtATime` | `OneWriter`, under `Fencing` |
| | `KeepsSignals` | `NoLostSignal`, under `Fencing` |
| | `KeepsCooldown` | `CooldownIsCurrent`, under `Fencing` |
| `LandingProofs` | `LandingTypeCorrect` | `LandingTypeOK` |
| | `LandsOneAtATime` | `OneAtMain` |
| | `LandsOnce` | `LandedOnce` |
| | `RecordsTellTruth` | `RecordsTellMain` |
| `MissionWorkProofs` | `MissionTypeCorrect`, `MissionIsRight` | `MissionTypeOK`, and the inductive invariant |
| | `LeasesUnheld` | `LeasedUnheld` |
| | `ReadiesOnAccepted` | `ReadiedOnAccepted` |
| | `CardLeaves` | `CardLeavesNothing` |
| | `ClosesOffMain` | `ClosedOffMain` |
| | `DoneIsDone` | `DoneButForRework` |
| | `OnlyOneCircle` | `OnlyCloseAndRed`, for one controller (`OneController`) |

So every invariant and every safety property of steps that a passing run
checks is a theorem.

### The arguments

None of the properties is inductive alone. In each module the inductive
invariant is a conjunction of named parts, checked with TLC on the run's
instance before its proof; its preservation has one lemma per action or per
group of actions that write the same rows.

**Lease kernel** (`IInv`). That a task has at most one live attempt needs the
task's state to say so (a claim looks at the task, not at its attempts); that a
submit finds a task in `running` needs the state of the live attempt and its
`started` mark to agree with the task's; that a waiting task has a result needs
the progress marks of an attempt to come in order and the numbers of attempts
to have no gap; that a salvage ends the lease needs the clock never to run back
without the fence. The slots need the finite cardinality of the attempts of a
host and have an invariant of their own. The refinement maps a task to the
epochs of its live attempts and of its submitted ones, and shows that each
action is a grant, a hand-over, a drop or a stutter.

**Host daemon** (`HostInv`). Each call the daemon makes, on time, late or
repeated, is shown to be a step of the kernel, whose `Next` lets any host call
anything: so `DaemonCallsKernel`, and all the kernel's theorems hold under the
daemon. On top of `IInv` every attempt `Fits`: what nobody claimed left no
trace (`Untouched`); journal and process group are as the step of `Run` says
(`Placed`); the attempt that is launched or watched has the host, and no other
group runs (`HasHost`); a group that runs is in the journal and is watched, is
known to remain, or was left by a crash after which nothing was taken up
(`Accounted`); a submit that was taken, or may yet be, is past its phase in the
journal, or finds its lease gone (`Followed`). `Accounted` is what a crash
between starting a group and looking at it would break.

**Acceptance** (`AcceptanceInv`). What is accepted is the latest submitted
attempt, or a salvaged one no earlier than it that has no verdict yet. So
`AcceptedOnce` needs that a task under verification has a submitted attempt
that was not accepted before (`ToAccept`), which takes that attempts come
in order (`Ordered`), the live one last (`LiveLast`), and that what was verified is
over (`RowsOver`). A review names the row of the check it goes by; that this row
accepted nothing (`ChainsPlain`) and is never rewritten gives `ReviewAfterPass`.

**Relay** (`RelayInv`). A relay writes only while it believes itself the holder and
its token passes the fence, and tokens are given once (`Tokens`): so one relay
`Writes`. For this one the proof says what a rebuild has still to do at each of
its steps (`Rebuilds`, `Signals`, `Cooldowns`) and where a delivery is in the rows
(`Batches`, `InOrder`): a message is in the mailbox, in the snapshot about to be
filled in, or has a row not yet sent. That a row was sent counts from the send and
not from its mark, or a cooldown sent twice would look older than it is. `Fencing`
says that no wipe happened or there is one relay: without it the three
properties are false, which finding 3 is about. Types, the order of delivery and
the pool's last row are proved without it.

**Landing** (`Typed`, `Fresh`, `Truthful`). `OneAtMain`: the gate's transaction
keeps the stream's lock from its reads to the intent, and finds no other root at
main. `LandedOnce`: a push is a fast-forward of the base its operation was
replayed on; the replay put nothing on a base where the change was in effect
(`BasesClean`), and, unless main is rewound, what the gate read of main holds of
the base too, which is a prefix of it (`BasesOnMain`, `GateSawBase`), and still
holds when the push is applied, however late (`PushesFresh`).
`RecordsTellMain`: each record has a meaning for main and the wire (`Tells`), as has
evidence that was read and not yet written (`StillTells`); an absence is told only
past the fence, when the push is no longer on its way.

**Mission** (`MissionInv`). First the locks: no two sessions hold a row in ways that
exclude each other (`Exclusive`), and each kind of transaction holds, or in its
present statement still asks for, the locks it relies on (`HasLocks`, over the
table `Asked`). Then what a transaction has read and still relies on
(`KnowsClaim`, `KnowsDispatch`, `KnowsTask`, `KnowsCard`, `KnowsClose`): that a task is
still ready, a stop still absent, every dependency still accepted. Each commit
is shown to write only what its session holds (`Writes`), and what another holds
such a write leaves alone, so what it knows stands: this is one argument for
all pairs of transactions rather than one for each. What is read without a
lock has no such protection, and appears as what the properties except: a root
sent back by a red landing CI (`reworked`), a proposal that came too late
(`Leftover`).

`OnlyCloseAndRed` has an invariant of its own, `LocksClimb`: the lock order of
`kernel.go:19-29` as levels (the control plane, attempts, tasks, the mission, the
mission's stream, the landing's stream), a transaction holding only rows at or
below the level of what it still asks for, and strictly below what it waits for.
Only the passes of the facts loop may hold one row and wait for another of the
same level (a check beside its subject, the tasks of a close). One kind breaks
the order: a close that waits to append to the mission's stream may hold the
landing's (`HeldAtCommit`). In a circle without such a close the level can never
fall, and where it stays the one that is waited for runs the loop: of two sessions
that follow each other in the circle both would be the controller. In a circle
with one, whoever holds the mission's stream and waits still asks for the
landing's: a check that lands a root again or a red landing (`OnStreams`), and
the former would be the controller once more. So it is a red landing, and it
waits for the close. `OneController` says that one goroutine makes the passes of
the facts loop, one after the other (`Controllers` has one member in the run too);
two of them are not covered, neither by the theorem nor by a run.

### What is left to TLC

* The liveness properties (`ClosedMissionEmpties`, `EveryLeaseEnds`,
  `JournalSettles`, `EveryMessageSignalled`, `MainSettled`): fairness and ENABLED
  are out of the prover's reach.
* What the refuting runs show.

The first and last rows of a set of rows are proved to exist in `NaturalSets` by
well-founded subsets, since induction over the numbers takes an operator as a
parameter, which the provers cannot instantiate.

## 5. Where the code and its documents part

1. **A result salvaged before the lease loop comes is never checked**
   (`salvage_race`). `adopt.go:12-16`: "An attempt that lost its lease stays
   lost ... The controller checks that result as it checks a submitted one".
   `SalvageChecked` asks only that the clock is past the grace. If the host
   salvages before the loop's next pass and then reports the attempt ended, as
   the daemon does, `Ended` makes the attempt `failed`; the check of salvaged
   results wants `lost`. The work is done again.
2. **A withdrawn check leaves its subject in verifying** (`withdrawn_check`).
   `blockedcard.go:728-731` sees to it that a task whose last check is dropped
   does not stay "in verifying for ever (TD-384)"; `withdrawTx` cancels a
   waiting check for the proposer of its mission and does not.
3. **The fence does not survive a wipe** (`relay_fence`). `relay.go:6-8`
   promises that a relay that lost the lock cannot write after a newer one took
   over; the tokens are counted in the Redis that was wiped, so an old holder
   of token 1 and a new one both pass. What follows from it: the old relay sends
   and marks a message after the new one's snapshot, the new one then clears the
   mailbox, and the signal is gone. So `relay` checks two relays with no wipe, and
   wipes with one relay.
4. **A mission is closed as done with a ready task in it** (`mission_close`).
   `close.go:82` says the condition is "read again under the mission's lock", and
   `close.go:41-45` lets only a late proposal land in a done mission. The tasks
   are read there without a lock, in the snapshot of the statement, and a red
   landing CI, which runs beside the close, moves an accepted task back to
   `ready` without the mission's lock. Either order of the two reads lets it:
   the red CI commits between `closable` and the landing hold, or after the hold
   let the root go. The task is then never claimed. `DoneButForRework` shows
   that, in the instance, this is the only way.

5. **A close and a red landing wait for each other** (`close_deadlock`).
   `close.go:237-239`: "the stream is always the last lock, so a claim and a close
   are ordered and the append here closes no cycle", and `landing_drill.go:320-321`:
   "Every caller holds the task's mission (Close, the claim) or nothing else, so the
   stream stays the last lock". A close that records a root never claimed locks the
   landing stream (`close.go:320`, `landing_drill.go:323`) and then appends the
   mission's end to the mission's stream (`close.go:186`, `event.go:150`).
   `recordLandingRed` takes "the mission's stream, then the repository's stream last"
   (`precheck.go:234-235`): it appends to the first when it sends its root back
   (`precheck.go:345, 352, 362`) and then to the second (`precheck.go:289`). Both run
   in one controller, in different goroutines. It takes a mission with an accepted
   root that was never claimed and whose window is over, and another root whose
   landing goes red while the close does not hold it: past the hold limit of
   6 h 15 min, or its operation ended by another transaction after
   `recordLandingRed` read it without a lock (`precheck.go:275`); the run goes by
   the first. PostgreSQL aborts one of the two (`Aborted`), which rolls back whole,
   and a later pass does it again: work is repeated, none is lost.
   `OnlyCloseAndRed` shows that there is no other circle.
6. **An entry is forgotten though `ended` was refused** (no run). `deliver.go:36-37`:
   "An attempt is forgotten only once ended is taken and its process group is gone".
   `end` settles the entry after any answer that is no outage: a refusal is logged
   and the entry forgotten, once its group is gone (`deliver.go:558-564`,
   `EndAnswered`). The attempt's lease then lapses and the lease loop takes it;
   `EveryLeaseEnds` and `JournalSettles` are checked with such refusals. What the
   journal does promise is `JournalNotAhead`.

Things seen on the way that contradict no document: a task whose landing runs
a CI is accepted on submission while a stop holds (only conclusions look at
it); the result of an attempt of an earlier round, salvaged late, is checked
in the current one; several guards of the acceptance are doubled, so that one
dropped guard alone breaks neither `AcceptedOnce` nor `ReviewAfterPass`; two
landings may both hold the slot, when a parked one takes it back on facts read
before another's claim, and only the gate keeps one of them off main
(`OneAtMain`); a push applied after the fence is found later and put on record
(`late_landing`), which the records' agreement with main cannot prevent.

The proofs corrected two properties that the runs had passed. `LandedOnce` said
that a change lands only where main never had it; the gate reads the history
and then main, and in a main that is rewound between the two a change that was
there and was taken back may land again, so this clause is now for a main that
is not rewound. `CardLeavesNothing` said that after the Owner's close only late
proposals and roots sent back by a red CI are left; such a root may get a check
for a salvaged result (`adopt.go` does not look at the mission), which the
instance of two tasks had no room for. The pass over what came too late ends the
root and its check.

## 6. What is not modelled

The parts of the inventory with no module: see PROJECT.json for each reason.
Within modelled parts: the content of results, commits and specs, the checks of
a result's form (`fits`, `checkHead`), the choice of tool and pool for a claim,
the events each transaction appends, the texts of cards, plan tasks, briefs and
gate tasks.

* `HostDaemon`: a registry that cannot be written, attempts that share the host
  (`share.go`), the sweep of workspaces, a relaunch with another plan,
  checkpoints and what `ended` reports (so the second try of `ended`, with the
  `exit` an older platform knows, is the same call sent again), disk and the
  daemon's own count of free slots, which only withhold a claim.
* `MissionWork`: withdrawing, paused missions and those that await the Owner, the
  close from landing evidence, plan steps, the budget, route and independence of
  a claim, controls on a host, pause and drain (a claim treats them as a stop),
  the next candidate after a skipped one, the host's row, the order in which
  waiters get a lock. Of the event streams only the mission's and its repository's
  landing stream are rows: not the streams of controls and of questions, to which a
  transaction appends beside its own, nor the rows of quota, of answering rules and
  of capabilities. A transaction that leaves without moving anything is not
  modelled as appending, and a close from landing evidence, which locks the
  landing streams of its mission first and may then append to the mission's
  (`landing_mission_repos.go:45`, `landing_classify.go:474`), is the pair of finding
  5 again. A check of a root to be landed again asks for both streams whatever its
  verdict. One task name stands for the checks of every round, so a task never
  waits for a check.
* `Landing`: batches, the S5 lane, the infra repository, the daily quota,
  rehearsals, the floor (files a landing may not touch), the digests a grant is
  bound to, the life of the cards, the classification of
  what landed, the landing branch's own ref and CI runs, a mission that ends
  under its landing (`MissionWork` has that), the newest-read rule for a landing
  already recorded (one read of an operation is on its way at a time).

The map covers a few percent of the repository's implementation lines, and
more modelling would raise that slowly: most of those lines read and command
outside systems, build reports, cards and pages, or decode requests, and keep
no state of their own that another actor could meet half done.

## 7. Plan

Done, in this order because the rest of the runtime rests on it: the lease
kernel with its abstract specification, its proofs and refinement; the
acceptance; the relay; the host daemon over the kernel, with crashes and lost
answers and the liveness of the two together; the locks of everything that
meets on a mission; the landing over a main that others move.

Then the proofs: of every component's safety properties, as above.

Left to prove: the refinements of the abstract specifications below, once stated.

Left to model: retry and back-off (`store/retry.go`), the event cursor
(`store/eventcursor.go`), the state file (`statefile/statefile.go`), attempts
that share a host (`agentd/share.go`), landing batches and grants, the STG
release lease, approvals. The abstract specifications worth stating there: an
operation done once (a key of `store/keyed.go`), a log read in order, a
register written by compare-and-set.
