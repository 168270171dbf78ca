# Directorius: a TLA+ model

Directorius is a merge queue for GitHub.  Pull requests (PRs) that are
approved are queued per base branch; the first one of a queue is kept up to date
with its base branch and has CI jobs triggered for it, the others wait.  When
the first one is merged, or cannot make progress, the next one becomes first.

The modules here are translated from the Go code under `src/`.  TLC checks them on
small instances, TLAPS proves theorems about them for every value of the
constants.  `PROJECT.json` lists the components, the runs, for every definition the
source lines it stands for, the hazards and the theorems.

Check a run with `tlc -config Pool.cfg MCPool`, the proofs of a module with
`tlapm PoolProofs.tla`; the modules with proofs end in `Proofs`, and `MCMergeQueue` has
proofs about its instances.

## The system

| component | source | state | operations | module |
|---|---|---|---|---|
| work pool | `internal/routines/pool.go` | slice `wq`, buffered `workChan`, one-slot `schedulerNotifyChan`, `terminate` | `Queue`, `Wait`; scheduler and workers | `Pool`, `WorkQueue` |
| merge queue | `internal/mergequeue/queue.go` | ordered map `active`, map `suspended`, atomics `paused`, `executing`, an `actionPool` of one worker | `Enqueue`, `Dequeue`, `suspend`, `ResumePR`, `ResumeAllPRs`, `ScheduleProcessPR`, `processPR`, `Pause`, `Resume`, `Stop` | `MergeQueue` |
| coordinator | `internal/mergequeue/coordinator.go` | `queues` by branch under `queuesLock`, the event channel, the periodic ticker | event loop, creation and removal of queues, `ChangeBaseBranch`, pause/resume, priorities, `Stop` | `MergeQueue`, `ActiveOrder` |
| ordered map, list | `orderedmap.go`, `linkedlist/list.go` | ring of elements with pointers, index by key | insert, remove, move, copy, sort, loops | `Ring`, `LinkedList`, `OrderedMap`, `KeyOrder` |
| order of a queue | `orderBefore()`, `SortActiveQueue()`, priorities | the PRs' priority, suspend count, instants | insert, sort; the first element never moves | `ActiveOrder` |
| reporting | `queue.go:774-923` | `hasHeadLabel`, `GithubStatusLastSetState` of each PR, a lock for each | add and remove the head label, report the commit status | `HeadReporting` |
| staleness | `queue.go:492-534, 1041-1135`, `pullrequest.go:131-160` | `stateUnchangedSince` of each PR | status events, resets, the decision | `Staleness` |
| branch update | `queue.go:664-719`, `client.go:70-219` | none; polls GitHub | compare, request an update, wait for it | `BranchUpdate` |
| PR evaluation | `queue_processpr.go`, `queue.go:525-660` | none; asks GitHub | `evalPRAction()` decides: nothing, update branch, trigger CI, suspend, dequeue | `CIRun`, `BranchUpdate`, `Staleness`; ends of `WorkerEvaluate` in `MergeQueue` |
| CI triggering | `ci.go`, `internal/jenkins` | the commit last triggered, the builds last started | `Run` starts all jobs of a PR, retried | `CIRun` |
| GitHub client | `internal/githubclt` | none | pages of the status roll-up, list of PRs, updates, labels, statuses | `ReadyForMerge`, `Sync`, `BranchUpdate`, `HeadReporting` |
| retryer | `internal/retry` | shutdown channel; timer and back-off of a call | `Run` until success, permanent error, timeout or `Stop` | `Retryer`; effects in `CIRun`, `HeadReporting` |
| startup sync | `sync.go`, `listprs.go`, `main.go:384-404` | the listed PRs and their actions | `InitSync()`: enqueue, unlabel, reset statuses | `Sync`, `Membership` |
| webhook provider | `internal/provider/github` | event channel | parse and forward without blocking | `Membership` |
| web interface | `httpservice.go` | none | pause, resume, priorities | `MergeQueue`, `ActiveOrder` |
| config, logs, metrics, dry-run clients, the rest of main | `cmd/directorius` ... | none | wiring and I/O | not modelled |

How they interact:

- GitHub calls the webhook provider, which puts events into a channel and drops
  them when it is full.  The coordinator's *event loop* takes one event at a
  time, or a tick of a periodic trigger, finds the queues concerned and calls them
  while it holds `queuesLock`.
- A queue never works on a PR in the caller's go-routine.  It schedules a function on
  its *action pool*, whose only worker runs `processPR()`: check that the queue is
  not paused and the PR is still first, ask GitHub, then update the branch,
  trigger CI, suspend or dequeue.  The worker takes `queue.lock` for short sections
  and never `queuesLock`.
- HTTP handlers look up a queue under `queuesLock` and use the pointer after
  releasing it.
- The event loop waits for a pool to drain, holding `queuesLock`, whenever a queue ran
  empty, and for all of them at shutdown.

What is hard about it, in the order of importance (`hazards` in `PROJECT.json` has
each at its line):

1. The event loop, the workers and the HTTP handlers interleave at every release of
   `queue.lock`; several operations (`Dequeue`, `ResumePR`, `Pause`, scheduling)
   consist of several critical sections and carry stale values between them.
2. Whoever removes the first PR must see to it that the next one is processed.
   Schedules are dropped when the PR is not first anymore, the queue is paused or
   the operation was cancelled, so each drop must be compensated.
3. Pools are closed when queues run empty, queues are created again on demand, and
   work must never be scheduled on a closed pool.
4. The pool's wake-up channel holds one element and sends to it never block.
5. An evaluation of a PR consists of many requests to GitHub and Jenkins, which are retried,
   time out and are cancelled halfway, while users push, builds of a job overlap and their
   statuses arrive late.  What is remembered of it, the commit for which CI was triggered
   and the builds started last, decides for a long time what is not done again.
6. What GitHub shows of the PRs, the label and the status of the first one, is cached, and
   reported by two go-routines whose requests fail, are retried, cancelled or lost.
7. GitHub's own state moves between any two requests: pages of one answer belong to different
   commits, branches are updated late, PRs are closed, events arrive late or not at all, and
   after a crash only labels and statuses are left.
8. The first element of the ordered map must not move, although the sort criterion
   depends on the clock and is not transitive.

What makes the components correct:

| component | properties |
|---|---|
| pool | no lost wake-up, FIFO, `Wait()` is a barrier, everything accepted is executed, no send on a closed channel, a free worker gets work |
| queue | only the first PR is worked on, a paused queue is quiet, no PR is in both lists, each new first PR is evaluated |
| coordinator | no PR is lost or comes back after its removal, no closed pool is used, the event loop never hangs, the queues contain the PRs that have the trigger |
| list, map, order | the pointers form one ring, index and list agree, loops and sorts follow the promised order, first element static, priorities respected |
| evaluation, CI | a commit that is recorded as triggered has a build of each required job, each job is started once per commit unless something went wrong, the first PR gets its CI, a PR whose last build failed is suspended |
| reporting | what the caches say is what GitHub shows, the first PR is labelled and successful in the end, a PR that left is not |
| evaluation's requests | a PR is given up only when nothing changed for the timeout, no empty merges, what is known after an update is true, the roll-up is complete and of the head |
| retryer | no call before the rate limit allows it, at most one after the end, `Run()` returns |
| start | the former first PR is first again, nothing is forgotten, nothing else stays labelled or successful |

## Modules

### `WorkQueue`, `Pool`, `PoolInvariant`, `PoolProofs`

`WorkQueue` is what the pool's documentation promises: work submitted while it is open
starts in FIFO order on one of the routines, and after `Wait()` all of it is executed.

`Pool` has one action per critical section of `wqMutex`, per channel operation
and per go-routine step.  `wq`, `notify`, `workChan`, `closed` are the fields of the Go
struct (`notify` is the one slot of `schedulerNotifyChan`), `scheduler`/`held`,
`worker`/`job` and `waitStep` are program counters and locals of the go-routines.
`queued`, `refused` and `executed` are history variables.  The refinement to `WorkQueue`
maps the unstarted work to `workChan \o <held> \o wq`.

`PoolInvariant` is the inductive strengthening, `PoolProofs` has the proofs.

### `MergeQueue`, `MergeQueueInvariant`, `MergeQueueProofs`

All queues, the event loop, the workers and the HTTP handlers.  A queue object has an
identity (`QueueId`), because handlers and the event loop can refer to a queue that is
no longer in the coordinator's map; an identity is reused when nothing refers to it.
Of the active PRs the module has the set and the first one.  Which PR succeeds
a removed first one is any of the others: the ordering is the subject of `ActiveOrder`.

- `worker[q].pc` follows `scheduleProcessPR` (`start`, `finish`), `processPR` (`gate`,
  `first`, `evaluate`), `suspend`, `Dequeue` (`dequeue`, `cancel`, `schedule`) and
  `resumeIfPRMergeStatusPositive` with `ResumePR` (`lookup`, `status`, `unsuspend`,
  `enqueue`).  `cancelled` is the context of the running operation.
- `loop.pc` follows the coordinator: `remove`, `cancel`, `schedule`, `empty`, `close`,
  `drain`, `move` for `Dequeue` and `ChangeBaseBranch`; `trigger`/`schedule` for
  `ScheduleProcessPR`; `resume`, `unsuspend`, `enqueue` for `Resume`; `resumeAll` for
  pushes; `probe`, `check` for `ResumeIfStatusPositive`; `discard`, `stopCancel` for `Stop`.
- `handler[h].pc` follows `PauseQueue` and `ResumeQueue`.

Events are kinds, not payloads: `Events` says which kinds arrive in a run.  Events that
concern no queue are filtered by the code and are no step here.

Panics: `Pool.Queue` panics on a closed pool.  In the event loop or a worker this
ends the program (`"process"`); net/http recovers it in a handler (`"request"`).
`"map"` is Go's detection of a concurrent map read and write: the read of
`q.suspended` at `queue.go:984` is not protected by `queue.lock`, so it may end the
program when it overlaps a write (`LookupDuringMapWrite`) and is otherwise a plain read.

### `ActiveOrder`

The ordered map, `orderBefore()` with its tolerance of one minute and its limit of four
hours on a reduced clock, `SortActiveQueue()` (with every result that the random
iteration order of the Go map can lead to), and `SetPullRequestPriorities()`, which
stores priorities one at a time while the worker inserts and removes PRs.

### `CIRun`, `CIRunProofs`

One PR while it is first in its queue, with what `evalPRAction()`, `processPR()` and `CI.Run()`
do for it, and GitHub and Jenkins as far as they matter for that.

- `pc` follows `processPR()`: `idle`, `update` (it has the status `ready`, and not yet
  the head commit), `run` (in `CI.Run()` for the commit `updated`).  `run[j]` is the go-routine
  of job `j`: `build` (the request to Jenkins), `fetch` (asking for the build number), `done`,
  `failed`.
- `triggered` and `lastStarted` are the fields `ciTriggeredCommit` and `lastStartedCIBuilds`
  of the PR.  Build numbers are the positions in `builds[j]`.
- `head`, `behind` and `shown` are GitHub's: the head commit, whether the base branch is
  ahead, and which build set the last status of each job at the head.
- `requiredCIStatus` and `overallCIStatus` are the functions of that name.  The roll-up state
  of GitHub is pending only when a job is, and may or may not be then.
- A build belongs to the commit that is the head when it leaves Jenkins' queue.  A
  request for a job that is in the queue already is answered with the queued item
  (`client_build.go:56-58`).
- Evaluations that end for other reasons (not approved, merge conflict, stale, errors)
  are `SuspendOtherwise`.  A suspended PR is resumed by its status (`ResumeIfPositive`) or by
  events that may arrive at any time later (`ResumeByEvent`).

It is not composed with `MergeQueue`: that module decides *whether* the PR is evaluated, and
takes any result; this one decides *what* an evaluation does.  `Pause`, which cancels the context
of the evaluation under way, and the two resumptions are what `MergeQueue` does to the PR.  The
PR is suspended only by the worker itself at the end of an evaluation, never during `CI.Run()`.
The branch of `ciTriggerNeeded()` for an empty head commit (`queue.go:658`) is left out: the update
fails without a head (`client.go:104`), so that the client never returns one.

### `HeadReporting`, `HeadReportingProofs`

What the worker and the event loop tell GitHub.  A decision (`Suspend`, `LoopDequeue`,
`CIRuns`, ...) puts the calls that the code makes after it into `todo[a]`, in their order;
`Report(a)` takes them one at a time: waits for the lock of the reporting, skips what the
cache says was reported, sends, and succeeds or fails.  `cancel` is `cancelActionForPR()`, which ends
the requests of the other go-routine unless they run with a background context
(`queue.go:387`).  `Lossy` says whether a request that failed may have been executed.

### `Staleness`

`stateUnchangedSince` as an age.  `Tick` is the time; `StatusEvent` sets it to GitHub's time
of the change, which may be older than what is known; `Pause`, `ResumeReset` and
`ResumeUnpause` are the separate steps of the handlers; `isPRStale` is read by the worker
anywhere between them.  The history variables remember the last change and the last pause.

### `ReadyForMerge`

`Begin`, `Page`, `NextPage`, `Restart`, `LastPage` are the loop of `reviewAndCIStatus()`;
`toCIJobStatuses`, `requiredCIStatus` and `overallCIStatus` are the functions of that name.
`Push`, `Report` and `Change` are GitHub's.  Contexts that GitHub itself expects
(`EXPECTED`), and the many conclusions of check runs, are condensed to pending, success and
failure.

### `BranchUpdate`

`Begin`, `Get`, `Compare`, `Schedule`, `Succeed`, `Retry`, `Expire` are the polling of
`updatePRWithBase()`, `Decide` what `evalPRAction()` makes of its result.  Commits of the
base branch are numbers, `contains` says which ones the head of the PR has.  `Merge` is
GitHub's late execution of an accepted update; it fails when the head is not the expected one.

### `Retryer`

The select of `Run()`: `TimerFires`, `ContextDone` and `Shutdown` are its branches, all of
which may be ready.  `Retry` sets the timer: to what is left until `RetryableError.After`, or
the next interval of the back-off, which is the library's.

### `Sync`

`List` is the iterator of `ListPRs()` with its cursor over a list that `Update` reorders;
`HeadsFirst` the results of the stable sort of the items; `Execute` takes their actions in order.  `AddHeadLabel`,
`ReportSuccess` and `Suspend` are the workers of the queues that the sync fills.

### `Membership`

GitHub's own state (`open`, `base`, `triggers`, `ready`), its events, with the state that each
carries, the bounded channel, and for every kind of event what `processPullRequestEvent()`
and its siblings do to the queues: `Labeled`, `Unlabeled`, `Edited`, `Synchronized`, `Pushed`,
`Reviewed`.  `Restart` is a crash: the queues and the channel are empty, `InitSync` lists
again, while events are already buffered.

`worker[b]` is the action pool of the queue of branch `b`, `checks[b]` the checks that approvals and
positive statuses have queued on it.  An evaluation has two steps, `Fetch` and `Act`; a
resumption three: `Check` asks GitHub (`queue.go:983-1038`), `Unsuspend` and `PutBack` are the two
critical sections of `ResumePR()` (`queue.go:430-450`).  Between the last two the PR is in the
worker's hand (`InHand`) and in neither list.  An event that is to remove it finds nothing and the PR
comes back; an event that finds the queue empty deletes it, and the PR is lost with it, or
scheduling its evaluation on the closed pool panics (`ResumedTooLate`).  `missed` remembers such
PRs until the next start.  They are the exception of `OnlyWanted` and `NoneMissing`, hence of
`MembershipIsRight`: for them the statement is false of the code (finding `MQZombie`).

### `Ring`, `LinkedList`

`Ring` has the pointers (`prev`, `next`) and the helpers that change them; `LinkedList` one
action per operation of the list, with elements and marks that may have been removed before.
`AsDocumented` compares each operation with what its comment says of the sequence.

### `KeyOrder`, `OrderedMap`

`OrderedMap` uses `LinkedList` (`INSTANCE`) for its elements and adds the index and the loops.
`KeyOrder` is what its comments promise: keys in one order with a fixed first one, into which
insertions and sorts put them.  `ImplementsKeyOrder` is the refinement: the order is what one
finds by following the pointers.  `SortByKey` is a recursive function over the keys in the
order that the comparison gave, as the sort of `ActiveOrder` is one over the keys of a Go map.
`OrderProofs` has the proofs about list, map and order.

### `MC*`

The instances.  Where one run checks several components that do not share state,
the module has a variable `part`, chosen in the beginning, that says which of them moves; the
others stay in one initial state, so that the states of the parts add up and do not
multiply.  Each property says which part it is about, or is true of a part that does not
move.  One module is extended, the others are instantiated with their variables renamed.
`WorkerProofs`, `ProgramProofs` and `OrderProofs` extend `MCWorker`, `MCProgram` and `MCOrder`: their
theorems are about the properties that the runs check, with the constants left open.

| module | parts |
|---|---|
| `MCMergeQueue` | `MergeQueue` three times: `all`, `wakeUp`, `move` |
| `MCOrder` | `LinkedList`, `OrderedMap`, `ActiveOrder` |
| `MCWorker` | `Staleness`, `BranchUpdate`, `ReadyForMerge` |
| `MCProgram` | `Retryer`, `Sync`, `Membership` |
| `MCEnds` | `HeadReporting` without and with lost responses, `Retryer`, `CIRun`, `Membership`, `Sync` |

## Runs

| run | module | question | instance |
|---|---|---|---|
| `Pool` | `MCPool` | safety, liveness and refinement of the pool | 4 functions, 2 workers, 2 callers of `Wait()` |
| `MQSafety` | `MCMergeQueue` | only the head is processed, pause is quiet | `all`: 1 branch, 2 PRs, all events but `edited`, 1 handler, shutdown |
| | | each new head is attended; nothing lost, nothing comes back | `wakeUp`: 1 branch, 3 PRs, 2 tasks per pool |
| | | the same when PRs change their base branch | `move`: 2 branches, 2 queue objects, 2 PRs |
| `MQLiveness` | `MCMergeQueue` | heads are evaluated, the event loop returns | 1 PR, 2 handlers, shutdown, fairness |
| `Order` | `MCOrder` | the list is a ring and does what it says | 4 elements, copies to both ends |
| | | the map implements `KeyOrder` | 3 keys, 2 ranks |
| | | the first PR is static, priorities are respected | 4 PRs, 2 priorities, clock up to 2 |
| `CIRun` | `MCCIRun` | triggered commits have builds, no needless builds | 2 jobs, 2 commits, 1 setback |
| `Reporting` | `MCHeadReporting` | caches are true, a PR that left is not successful | 2 PRs, 3 commits, 1 setback |
| `Worker` | `MCWorker` | a stale PR is stale | 2 PRs, timeout 2, latency 1 |
| | | no empty merge, what is known after an update is true | 4 heads, 2 base commits, 1 cancellation |
| | | the roll-up is complete and of the head | 3 contexts, pages of 1, 2 commits |
| `WorkerEnds` | `MCWorker` | stale, behind and closed PRs leave, the pages end | the same, smaller, with a base branch that is reset; fairness |
| `Program` | `MCProgram` | no early and no late calls | 2 callers, rate limit up to 3 |
| | | the start restores the queues | 3 PRs, pages of 2, 1 update, 1 failure |
| | | the queues contain what they should | 2 PRs, 2 branches, 3 changes, 1 crash |
| `Ends` | `MCEnds` | calls return, CI runs, blocked PRs leave, the first PR is reported | smallest instances with a failure each; fairness |
| `MQPanic`, `MQZombie` | `MergeQueue` | disagreements of code and comments, see below | smallest instance that shows them |

Every property of a passing run has a mutant in `PROJECT.json`: a faulty variant of one
definition (marked "Faulty variant" in the modules) under which the run fails.  Other
`.cfg` files belong to findings and are not in the table: TLC violates their one property.

### Bounds, and why they are enough

- `Pool`: with two workers the channel buffer has two slots, so four functions fill
  the buffer, the scheduler's hand and leave one in the slice: every place where work
  can wait is occupied at once.  Two callers of `Wait()` suffice for the
  one that runs `wait()` and one blocked in `sync.Once`.  The program uses one worker;
  two are checked because they are the harder case, and the proofs hold for any number.
- `MaxTasks` bounds how many tasks a pool holds when an event or request is taken; tasks
  scheduled by operations under way may exceed it.  One waiting task and one running is
  what a stale schedule needs; part `wakeUp` allows two.
- Two PRs make "first" and "other"; three (`wakeUp`) are needed for a choice of the
  successor, and for a successor that changes before it is scheduled.
- Two queue objects let an object be reused while another one is current (`move`);
  within one branch one object is enough, since the code never creates a second
  one for a branch before the first one was drained.
- One worker per queue is the code's constant (`queue.go:121`).
- `Order`: an order of three elements behind the fixed first one is the smallest
  one in which insertion into an unsorted list and the lack of transitivity matter.
- `wakeUp` leaves out `positive` events: with them `NoneLost` and `DequeuedStaysOut` do not
  hold (`MQZombie`).  Its properties say that nothing else loses a PR or brings one back.
- `wakeUp` has one HTTP handler, so that requests are served one after the other.  With
  two, the `Pause()` of one can cancel what the `Resume()` of the other one has scheduled;
  the head then waits for the periodic trigger, which is what `MQLiveness` checks.
- `move` leaves out HTTP requests and the other events; they are in the other parts.
- `Order`: copying a list to itself with three elements and a fourth one left visits elements
  that the copy added.  Three keys are the fixed first one and two that are sorted.
- `CIRun`: two jobs make "one started, one not".  The second commit is a push during any step or
  the update of the branch.  A setback is a lost response, a failed request, a cancelled
  queue item, a pause or a resumption: what makes another start of the jobs necessary.
  The first one already leads to overlapping builds of a job, with their statuses in any order.
- `CIRun` excludes pushes between the two requests of one evaluation, for which
  `HeadHasBuilds` does not hold (`CIStale`).  All other pushes are included.
- The CI part of `Ends` has one commit, since the state space of two is out of reach for liveness:
  a new head starts from scratch (no statuses, no builds, not recorded), as `CIRun` checks.
- `Reporting`: two PRs are needed for a label that moves, a third commit for a push to a
  branch whose former head is still cached.  One setback is one failed or interrupted request;
  the proofs hold for any number.
- `Reporting` excludes commits that are the head of two PRs, and `CachedStatusIsReal`
  lost responses: with them the cache is not true (`PendingSkipped`, `StatusStuck`).
  The label's cache holds with lost responses too, and part `lossy` of `Ends` checks what follows.
- `Worker`: a timeout of two units and a latency of one are the smallest with which an old
  event is younger than the timeout and older than another event.  Pages of one context
  let every context be the last one before a push.  Two base commits let the base move while
  an update for the first one is under way.
- `Program`: two callers, because Stop() ends both and the timers are independent.  A rate limit
  of 3 is longer than the longest interval (2 with its variation) and shorter than the timeout.
  With three PRs in pages of two, an update moves a PR over the page boundary.  Of the PRs of the
  events two are needed for resumptions: a queue with one PR is found empty, and closed, by the
  event that removes it, so that a worker that goes on with a removed PR would go unnoticed.
  Three changes are an approval, a loss of the trigger and a move, before or after the crash; all
  that the PRs may be in the beginning is enumerated.  (The instance of one PR and five changes
  holds as well.)  With one event lost the membership is not claimed.  `Ends` loses events.
- `Ends`: each part is the smallest instance with a failure in it: two setbacks of the
  reporting, one of CI, one lost event, one failed request of the sync.

### Fairness

Go runs every runnable go-routine, hence weak fairness of each one's next step.
GitHub requests end because `processPR` and the status check run under timeouts
(`queue.go:546`, `queue.go:1023`).  No event is fair: webhooks may be lost and users do
nothing.  Only the ticker is, strongly: the `select` of the event loop chooses at random
among ready cases (`coordinator.go:160`), so a tick that is ready over and over is
taken.  `Spec` of `Pool` does not assume that functions return; the properties that need it
have it as a hypothesis (`WorkReturns`), and `WorkConserving` does without.

The fairness of `WorkerEnds` and `Ends` is that of the modules, restricted to the part that
moves.  `Staleness` takes what the worker does with the first PR as strongly fair, because the
periodic trigger schedules it again and again; time passes.  `Retryer` needs that time passes
(`Tick`, strongly, since only time disables the waiting) and that `fn()` returns when its
context ended.  `Sync` and `Membership` assume that their go-routines run; `Spec` of `Membership`
takes `Check` as strongly fair, since the pool executes what is queued in turn, which
`ReadyIsResumed` needs.  `BlockedLeaves`, in `Ends`, does with weak fairness of the worker.

In `CIRun` the next step of an evaluation and of the go-routines of `CI.Run()` is weakly fair:
the periodic trigger evaluates the first PR again and again, and every request ends under
a timeout.  Jenkins is assumed to run what it accepted and to report the result.  Users,
failures and suspensions are not fair.

`Pool`, `MergeQueue`, `CIRun` and `HeadReporting` check deadlock: `Rest` and `Ended` allow stuttering only
where the pool was waited for, the program has ended, or the PRs are suspended or gone.  The
other modules really stop: a list has no more elements, a call returned, GitHub's changes
(a bound) are used up.

## What is proved

### Pool

`PoolProofs` proves, from `PoolAssumption` only (at least one worker, and the nil function
is not a function that is queued), for any number of functions, workers and callers:

- `TypeCorrect`: `SafetySpec => []TypeOK`;
- `WakeUpNeverLost`: `SafetySpec => []NoLostWakeUp`;
- `WaitIsBarrier`: `SafetySpec => []WaitDrains`;
- `NotificationChannelIsSafe`: `SafetySpec => []NoSendOnClosedChannel`;
- `PoolIsWorkQueue`: `SafetySpec => ImplementsWorkQueue`, every step is a step of
  `WorkQueue` or changes nothing of it.

The inductive invariant is `Invariant` of `PoolInvariant`.

- `TypeOK` alone is not inductive: `WorkerFinish` adds `job[w]` to `executed`, so a worker
  that runs must hold a function (`WorkerState`), and the scheduler that sends must
  hold one (`SchedulerState`).
- `NoLostWakeUp` needs `SchedulerState` (what is closed and held at which step).
- `WaitDrains` needs `NoneDropped`: an accepted function is in the slice, in the
  scheduler's hand, in the channel, at a worker, or executed; and that a worker stops only
  when the channel is closed and empty, which in turn happens only when the slice is empty.
- `NoSendOnClosedChannel` needs `WaitState`: the last step of `wait()` is reached only
  when every go-routine of the pool has stopped.
- The refinement needs that the scheduler's hand is empty when it pops and full when it
  sends: then both steps leave `workChan \o InHand \o wq` as it is.

### Merge queue

`MergeQueueProofs` proves, from `QueueAssumption` only (`None` is none of the other values,
the events and requests are known kinds), for any branches, PRs, queue objects and handlers,
any sequence of events and requests, and without the bound of a finite instance:

- `TypeCorrect`: `SafetySpec => []TypeOK`;
- `ListsAreDisjoint`: `SafetySpec => []Disjoint`;
- `WorksOnHeadOnly`: `SafetySpec => []OnlyHeadIsProcessed`;
- `PauseIsQuiet`: `SafetySpec => []PausedIsQuiet`.

and, if no positive events arrive (`"positive" \notin Events`):

- `NoPRLost`: `SafetySpec => []NoneLost`;
- `DequeuedIsOut`: `SafetySpec => []DequeuedStaysOut`;
- `HeadAttended`: `SafetySpec => []HeadIsAttended`, if also `OneResume`: there is one handler,
  or no request resumes a queue.

The inductive invariant of the first four is `Invariant` of `MergeQueueInvariant`
(`InvariantHolds`).

- `Shape` is `TypeOK` and what each go-routine refers to at each step: an event loop that
  schedules holds a PR, one that removes a PR belongs to a dequeue operation, the branches
  an iteration has still to visit have queues (only the current one is deleted).  Without it
  a step could use a queue or PR that is nil, and `TypeOK` is not inductive.
- `Lists` adds that the first element is an active PR; `Disjoint` needs it nowhere else.
- `PauseIsSeen` moves `PausedIsQuiet` one step back: a worker that has read `paused` as
  false and is not evaluating yet is already announced, so a handler that sets the flag
  now will cancel it.  This is where the order of announcing and reading matters.
- `OnlyHeadIsProcessed` is inductive relative to `Shape`: only the event loop removes a PR
  that another go-routine is working on, and its next step cancels the operation.

`WantedInvariant` is what `NoneLost` and `DequeuedStaysOut` need on top of it.

- `OnlyProcesses`: without positive events there are no tasks that resume a PR, so only the
  event loop moves PRs from the suspended to the active ones.  The hypothesis is necessary:
  with positive events the worker can put a PR back into a queue that was left, or closed, in
  between (finding `MQZombie`).
- `OneBranchEach` and `ClosesEmpty`: a queue object belongs to one branch, the event loop works on
  the queue of its branch, and closes it only when it is empty.  It stays empty until it is
  deleted, because only the event loop adds PRs.
- `BetweenLists`: the PR between the two critical sections of `ResumePR()` is in no list, and no
  operation that was evaluating it is left that could dequeue it: an operation that goes on to
  suspend or dequeue works on a PR that is not suspended.
- `WantedAreMembers` is the equality of both sets at every step, up to the PR in between.

`AttendedInvariant` is what `HeadIsAttended` needs on top of both.

- `Handshakes`: a worker or an event loop that removed the first PR holds the new one until it
  is scheduled; the event loop cancels only operations of PRs that are not active anymore, a
  handler only in a queue that is paused.
- `FirstsAreAttended` strengthens `HeadIsAttended`: a task that the worker has taken counts
  only if it was not cancelled, since `processPR` then returns without a look at the PR.  It is
  about all open queues, not only those in the map.
- `OneResume` is where an overlap of requests would break it: a `Pause()` that has set the flag can
  cancel the operation that a `Resume()` which came after it has scheduled.  The code allows this,
  the head then waits for the periodic trigger (`HeadIsEvaluated`, run `MQLiveness`, two handlers).

`MCMergeQueue` instantiates `MergeQueueProofs` for its parts `wakeUp` and `move`, and concludes
what `MQSafety` checks: `NoneLostInParts` (`PartsSpec => []NoPRIsLost`), `StaysOutInParts`
(`PartsSpec => []NoPRComesBack`) and, if `OneResume` holds for `wakeUp`, `AttendedInAllParts`
(`PartsSpec => []EachFirstIsAttended`).  `PartsAssumption` has `QueueAssumption` for both parts.

### CI

`CIRunProofs` proves, from `CIAssumption` only, for any jobs, commits and setbacks:

- `TypeCorrect`: `SafetySpec => []TypeOK`, also when users push during an evaluation;
- `RecordedHeadHasBuilds`: if they do not, `SafetySpec => []HeadHasBuilds`;
- `BuildsArePaidFor`: `SafetySpec => []OncePerCommit`, also when they do.

`TypeOK` needs the rest of `Shape`: what GitHub shows is a build that has reported, and a
go-routine that asks for a build number has an item.  `HeadHasBuilds` is reached backwards
along an evaluation: what is recorded at its end was true of each job while `CI.Run()`
ran (`RunIsOfHead`), because jobs that were not started had a status when the evaluation
fetched it (`ReadyIsOfHead`).  A push meanwhile makes these facts untrue of the head; then the
commit that will be recorded is not the head any more, and nothing is claimed of it.  This
argument is where the assumption enters: between the two requests of an evaluation the
commit is not known yet.

`OncePerCommit` counts.  `Budget` adds to the builds of a job what is still due (`Due`): one if the
run under way may still ask for it (`Asks`), and one if another run may follow without a
further setback (`RunsAgain`), because the head is not the commit that is recorded or a job of
this run has failed.  Together they are at most the commits so far and the setbacks: a new
commit and a setback each pay for the run that they may cause.

### Reporting

`HeadReportingProofs` proves, from `ReportingAssumption` only, for any PRs, commits and number
of failures and interruptions:

- `TypeCorrect`: `SafetySpec => []TypeOK`;
- `LabelCacheIsTrue`: `SafetySpec => []CachedLabelIsReal`, also when responses get lost;
- `StatusCacheIsTrue`: `SafetySpec => []CachedStatusIsReal`, if no two PRs share a commit and no
  response is lost; `InvariantHolds` states the whole invariant;
- `LeftPRsAreWithdrawn`: `SafetySpec => []LeftIsNotSuccessful`, and `PendingIsAlwaysSet`:
  `SafetySpec => PendingIsSet`, under the same conditions.  The run `PendingSkipped` shows that
  the condition on the commits is needed.

The invariant has a part for each cache.  For the label: a request for a PR has its lock, so only
one is under way, the flag is cleared before a removal is sent and set after an addition was
executed.  For the status, the interesting case is a pending status: it names no commit, the
head is looked up in a request of its own, and a push may come in between.  Then the old head
gets the status, and the claim about the new one holds because it cannot have a success yet
(`StatusRequests`, `OwnCommits`): successes are reported for commits that were evaluated.

`LeftIsNotSuccessful` needs the order of what is done after a PR left (`LeftInvariant`).  The worker
is cancelled before the pending status is set (`CancelsComeFirst`), so it sends no further
success; one that is under way has the lock, and the pending status waits for it.  When the
pending status was set or skipped, no success is under way and the head does not show one
(`Withdrawn`); a skipped one relies on the cache being true, that is on `StatusInvariant`.

### Staleness, update and roll-up

`WorkerProofs` is about what run `Worker` checks, for any instance:

- of `Staleness`: `TypeCorrect`, `InvariantHolds`, `ChangedIsNotStale` (`Spec => StaleIsUnchanged`),
  `ResumedIsNotStale` (`Spec => PauseDoesNotCount`), and `StalenessIsJustified`, which is both;
- of `BranchUpdate`: `NoEmptyMergeIsRequested` and `UpdateResultIsTrue`, if base branches only grow,
  and `UnchangedHasItsBase` also if they are reset;
- of `ReadyForMerge`: `RollUpAmountsToTruth` (`SafetySpec => RollUpIsTrue`).  Success means that no
  check runs unless another one, which need not be required, failed: GitHub's roll-up state is a
  failure then, and the code looks at the required checks alone (`readyformergestatus.go:91`).

The invariant of `Staleness` is that no timestamp is older than the last change that was reported
or the last resumption (`SinceIsRecent`); it needs `IfNewer`, which is why a late event cannot
set the time back.  That of `BranchUpdate` has the order of the heads that the worker, GitHub and
the accepted updates know (`Order`), and that the head of the beginning, if it still is the head,
lacks commits once an update was requested (`ScheduledIsBehind`): an accepted update is executed
late, but only while the head is the expected one.  That of `ReadyForMerge` says that, as long
as the head is the commit that is remembered, every context before the cursor was collected
(`PagesAreCollected`), though with a state that may have changed since.

### Retryer, membership and synchronization

`ProgramProofs` is about `Retryer`, `Membership` and `Sync` as run `Program` has them:

- `TypeCorrect`, `InvariantHolds`, `CalledOnceMore` (`Spec => []OnceMore`) and `RetriesWait`
  (`Spec => NotBeforeAfter`), for any callers and intervals;
- `QueuesAreRight`: `OneTrigger => (ProgramSpec => []MembershipIsRight)`, for any PRs, branches,
  channel size and number of changes, if closed PRs stay closed and PRs have one kind of trigger.
  Nothing is claimed of a PR that `ResumePR()` had in hand when an event was to remove it, or
  found its queue empty (`missed`): there the code does not do what the statement says;
- `QueuesAreRebuilt` (`ProgramSpec => []QueuesSurvive`) and `FormerIsCleanedUp`
  (`ProgramSpec => []OnlyFirstShows`), for any PRs, branches, page size, updates and failures.

A waiting call has a timer that is not shorter than what is left until `After`, and a call that
was made after the end has a timer that has not fired when it waits again: a retry takes at
least one unit, and the end is ready all the while, but the select may choose the timer once.

`NotBeforeAfter`, and with it `RetriesWait`, rests on `Tick`: no time passes while a select has a
ready branch, hence a timer that was just set does not fire before the select is reached.
The code has no lower bound for a wait until `After` if that is only just in the future.

The invariant of `Membership` relates the queues to the events that are still buffered: replayed on
the queues that a PR is in (`Replays`), they bring it to where it belongs (`Settles`).  A PR that
is in the worker's hand counts as one of the queue (`Members`), so that the steps of a resumption
move nothing; an event that does not find it there makes it `missed`.  While the
sync runs after a restart, queues include the PRs that were listed and not yet enqueued, and a PR
that is still to be listed would be brought there wherever it is listed (`WouldSettle`).  With
two triggers, or when PRs are opened again, it does not hold (`TwoTriggers`, `NoneMissing` below).

The invariant of `Sync` says of each PR what the synchronization still owes it: one that is to be
enqueued is queued, suspended, behind the cursor, or has an action left (`NoneForgotten`); one
that shows what only the first may show is first, behind the cursor, or has an action left
that removes it (`LabelsAreRemoved`, `StatusIsReset`, if no request failed).  The action that
removes the label is skipped by a PR that preserves it; then it has to become first, hence
its queue must be empty and have no suspended PR.  That is `OnePreserves`: as long as a former head of
a base branch is still to be enqueued, PRs of this branch are queued only if `headPreserved`
has it.  It relies on `HeadsAreFirst`, the order that the sort establishes, and so does
`HeadSurvives`: when a PR that is not a former head is enqueued, all former heads are, and
one that is not in the queue any more was suspended.

### List, map and order

`OrderProofs` is about run `Order`.  It assumes that the root and nil are no elements, that ranks
are naturals, PRs naturals and priorities integers, 0 among them, and what the clock's bounds are
(`RingAssumption`, `InstanceAssumption`); nothing is finite but the lists.

- Of the list, for any elements and values: `RingStaysIntact` (`Spec => []RingIntact`),
  `ListStaysWhole` (`Spec => []Invariant`) and `ListIsAsDocumented` (`Spec => AsDocumented`).
- Of the map, for any keys and ranks: `MapStaysWhole`, `MapIndexMatches` (`OrderSpec => []IndexMatches`)
  and the refinement `MapImplementsKeyOrder` (`OrderSpec => ImplementsKeyOrder`).
- Of the active PRs, for any PRs, priorities and numbers of updates: `ActiveStayInOrder`,
  `PrioritiesAreRespected` (`OrderSpec => []PrioritiesRespected`) and `FirstStaysFirst`
  (`OrderSpec => FirstIsStatic`).

`RingIntact` is about neighbours: `next` and `prev` of the root and of the elements of the list are
inverse to each other, removed elements point nowhere, `len` counts the elements.  It is inductive,
but allows several rings.  That there is one (`OneRing`) is about the path from the root, and is
proved by way of a sequence: `Lists(r, s)` says that the pointers of `r` are the neighbours
in `s`.  A ring in which the walk meets every element once lists what the walk met
(`RingIsList`), one that lists `s` is walked as `s` (`WalkOfList`), and the assignments of
`insert()`, `remove()` and `move()` insert into `s`, remove from it and do one after the other
(`InsertedList`, `UnlinkedList`, `MovedList`).  What the comments say then follows by comparing
positions.  A list that is copied to its own end is followed by `CopyIsAhead`: the originals are
still together, and the copies made so far stand behind, or before, them.

The map's invariant adds that its index and its list have the same elements, and where a loop
stands (`LoopFollows`): a loop that only reads was given the first values and is at the next one.
For the refinement, insertion at the place that `insertList()` finds, dequeueing, the moves
to the back and the loops are the steps of `KeyOrder` on the values of the walk.  A loop that
dequeues what it visits is no loop of `KeyOrder` but a sequence of its deletions.

The order of the PRs is inductive only with what `SetPullRequestPriorities()` has done so far
(`Invariant` of `ActiveOrder`): unless a priority was changed since the last sort, the PRs behind the
first one are ordered, so that a PR that enters an unsorted queue may be put anywhere behind
the first one.  Of `orderBefore()` the proofs need its first criterion only, since a priority that
differs decides (`PriorityDecides`); the others, which make it intransitive, decide among equals.
Insertion sort keeps what it has built ordered (`PlacedIs`), although `orderBefore()` is no order.

Recursive functions (`Walk`, the sorts) are unfolded after it is shown that a function with
their equation exists, by `Induction`: a set that contains 0, and each number with the one before
it, has no least number that it misses (`Least`).

Go sorts slices of at most 12 elements by insertion, longer ones by other means.  The theorems
about the active PRs are about insertion sort for any number of PRs; for longer queues of the
code they rely on the other algorithm sorting by priority as well.

## What is only model-checked

Liveness and fairness (all of `MQLiveness`, `WorkerEnds` and `Ends`; `WaitReturns`,
`WorkConserving`, `ServesWorkQueue`) are beyond TLAPS.  Every other property of a passing run is
stated by a theorem, for every value of the constants that the assumptions allow, and where it has
a condition, the instance of the run meets it.

## Findings

Where code and comments, or tests, disagree.  `PROJECT.json` quotes each comment.  `MQPanic` and
`MQZombie` are runs; a name of a `.cfg` file is to be run with the module in brackets.

- `MQPanic` (`queue.go:352`): the worker that dequeued a merged PR schedules its successor
  after the event loop removed that one too and closed the pool; it panics.
- `MQZombie` (`queue.go:430`): a PR that is closed between the two critical sections of
  `ResumePR()` is found in neither list and is enqueued again afterwards.
  In the same window the event loop can find the queue empty and delete it together with the
  PR that the worker puts back.
- `CIStale` (`MCCIRun`; `queue_processpr.go:149`): when a push arrives between the two requests of
  an evaluation, the new head is recorded as triggered although only the jobs without a status
  at the old head are started; the others never run for it.
- `OrderSort` (`ActiveOrder`; `queue.go:1178`): `orderBefore()` is not transitive, the sorted queue
  can contradict it.
- `LabelRace` (`MCHeadReporting`; `queue.go:351`): `Dequeue()` labels the new first PR without
  `queue.lock`; when the worker suspends it meanwhile, the label stays on a PR that is not first.
- `PendingSkipped` (`MCHeadReporting`; `queue.go:893`): with a head commit that two PRs share, the
  pending status of one is skipped although the other one reported success since.
- `StatusStuck` (`MCHeadReporting`; `queue.go:893`): a pending status that GitHub executed but whose
  response was lost leaves the cache at success, and the success is never reported again.
- `StalePages` (`MCReadyForMerge`; `readyformergestatus.go:313`): after a push between two pages, what
  was collected for the old commit stands for the new one.
- `SameName` (`MCReadyForMerge`; `readyformergestatus.go:167`): a successful commit status hides a
  failed check run of the same name.
- `StartupTwice` (`Sync`; `sync.go:177`): a PR that is listed twice has its status reset through the
  second object, which the queue does not know; the success is not reported again.
- `StartupUnlabels` (`Sync`; `sync.go:131`): the sync removes the label of a PR that has become
  first and been labelled meanwhile.
- `TwoTriggers` (`Membership`; `coordinator.go:488`): removing one of two triggers dequeues the PR.
- `TwoQueues` (`Membership`; `coordinator.go:915`): a buffered event of a former base branch puts a
  PR that the sync enqueued into a second queue.
- `ReadySuspended` (`Membership`; `queue_processpr.go:87`): a PR that becomes ready while its worker
  acts on an older status is suspended and stays so.

Four have no file, since one constant or property differs from a run's instance:

- `Membership!NoneMissing` with `Reopens = TRUE` (`coordinator.go:613`): a PR that is closed and
  opened again is not enqueued.
- `Staleness!StaleWasFirst` with the constants of `Worker` (`queue.go:1052`): a PR that got a status
  while it was waiting is suspended as stale when it has just become first.
- `Retryer!FirstWaitIsConfigured` with those of `Program` (`retryer.go:68`): the configured initial
  interval is never used, the first wait is the library's.
- `OrderedMap!StopEmpties` with those of `Order` (`queue.go:152`): the loop of `queue.Stop()` removes
  the element that it stands on and ends there.

## What is not modelled, and why

- Incomplete events and repositories that are not monitored are filtered by the code before
  anything changes.  Drafts are left out by the list of the start only (`listprs.go:86`); the
  coordinator takes their events like any other's.  The PRs of the models are not drafts.
- Flags, configuration, logging, metrics, pages, forms, and the dry-run clients have no decisions
  worth checking.  The sets of `internal/set` are sets.
- Templates, URLs and folders of Jenkins jobs, and required checks that are not Jenkins jobs, are
  not in `CIRun`.
- Parsing of GitHub's answers, the conclusions of check runs beyond pending, success and failure,
  and `CreateIssueComment()`, whose loss has no effect on the queue.
- The parts of an evaluation are modelled side by side and not as one: `evalPRAction()` runs them
  one after the other, and what one leaves to the next, the head commit and the status, is a
  choice of the next one's environment.  A composition of all of them is out of TLC's reach.
- `MergeQueue` forgets which PR is second; `Membership` keeps sequences but takes an event, with what
  `cancelActionForPR()` and `Wait()` do in it, as one step; no module has both.  Resumptions by a push
  are part of the event there, since the event loop does them itself; those by status, which the
  code leaves to the pool, are three steps of the worker.
- What a read of `q.suspended` without the lock returns (`queue.go:984`) is modelled by outcome, not
  by memory.

## Plan

The plan began with the pool and the life of a PR (`Pool`, `MergeQueue`, `ActiveOrder`) and their
proofs, went on with CI (`CIRun`), and is done for reporting, staleness, the roll-up, the branch
update, the retryer, the start, the membership of queues, and the list, map and order below them.
Left is an abstract queue that `MergeQueue` implements while no positive events arrive: what
`NoneLost` and `DequeuedStaysOut` say about its members, as a refinement.
