# A verification development for Magister

Magister is a control plane for AI coding agents. A user (web console, Feishu
or Slack) gives it a task; a *leader* agent works on the task, delegates parts
of it to *teammate* agents that run in git worktrees of their own, reviews what
they bring back and lands it in the user's workspace. The server is one Bun
process (`apps/api`), its state is a SQLite database with a **synchronous**
driver, git repositories, and a few files.

This directory holds TLA+ models of the parts of that server where concurrency,
crashes and repeated deliveries meet, model-checking configurations for TLC, and
theorems that TLAPS checks. Paths below are relative to `apps/api/src/` unless
they say otherwise. `PROJECT.json` maps every definition to the lines it models.

    tlc -workers 2 -config review_rows.cfg MCChangeReview     # one run
    tlapm SafeApplyProofs.tla                                 # one set of proofs

## 1. The system

### 1.1 Components

| component | state it keeps | operations | hard behaviour |
|---|---|---|---|
| **apply lock** (`services/safe-apply/apply-lock-service.ts`) | one lock file per workspace | `acquireApplyLock`, `release` | several awaits between the file calls; stale files of dead processes; TTL |
| **change review lifecycle** (`services/safe-apply/*`, `repositories/change-review-repository.ts`, `routes/change-reviews.ts`) | `change_reviews` rows, the git workspace | materialize a draft, decide, verdict, escalate, discard, operator's apply, leader's apply, boot-time reconciler | two apply paths and the decisions meet on one row; git and database change at different times; crash between the two |
| **leader task and background teammates** (`services/process-task-intent-service.ts`, `task-worker.ts`, `crash-recovery-service.ts`, `runtime-recovery-service.ts`, `routes/tasks.ts`, `services/manager-automation/*`) | `tasks`, `role_runtimes`, `task_mailbox`, checkpoints, the worker's queue and active set, abort controllers, the registry of live teammates | start, turn, spawn, park, wake, report, post a message, cancel, recovery tick, boot scan | everything runs in one event loop with many awaits; wake-ups cross parking; periodic repair acts on snapshots; restart |
| **inbound channel events** (`services/process-channel-event-service.ts`, `repositories/channel-inbound-event-dedupe-repository.ts`) | dedupe keys, conversation binding | claim, bind, hand over, complete, release | redelivery, two event ids per message, errors and crashes between the steps |
| **outbound channel delivery** (`repositories/channel-outbound-delivery-claim-repository.ts`, `services/feishu-outbound-delivery-service.ts`) | delivery claims with token and lease | queue, claim, deliver, finalize, record, reap | a send has no time limit and outlives its lease; the reaper; a crash between the outcome and its record |
| Feishu chat sessions (`services/feishu/feishu-chat-session.ts`, `integrations/feishu/sequential-queue.ts`) | a promise chain per chat, a streamed card | append, patch, finish | order of sends, a failed send in the chain |
| **scheduler** (`services/scheduled-task-service.ts`) | `scheduled_tasks`, the tick in flight | create, edit, delete, tick, overlap guard, spawn | the user edits a row between the tick's awaits; crash between the spawn and its record |
| **command approvals** (`services/command-approval-service.ts`, `services/approval-service.ts`, `routes/approvals.ts`) | `approvals` rows, waiting tool calls, the trust ledger in memory | request, poll, expire, decide in the web or the chat, grant and clear trust | a click, the time limit, an abort and the polling of other calls meet on a row; it outlives its process |
| **tool calls of a turn** (`services/manager-automation/autonomous-loop/streaming-tool-executor.ts`, `tool-execution.ts`, `autonomous-loop-service.ts`) | the tools of the model's message, their results, the turn's `toolResults` | queue a call, start tools, return, abort, hand over what is ready, drain | several runs of the queue in flight; tools end between any two yields; a failed call, the user's cancel |
| **agent loop: history, compaction and plan mode** (`services/manager-automation/autonomous-loop/autonomous-loop-service.ts`, `message-pairing.ts`, `message-compaction.ts`, `plan-mode-state.ts`, `services/leader-session-resume-service.ts`, `services/goal-mode/fresh-context-service.ts`) | the message history, the latest checkpoint, the plan state in memory and its proposal in the event log | start from a checkpoint, drain, compact, answer a plan, call the model, run tools, save | four functions rewrite one history, over several runs; each must leave it in a form that the next one, and the provider, understand; crashes between the writes |
| other agent loop internals (`services/manager-automation/autonomous-loop/*`) | prompts, hooks, token counts, the stream | build, estimate, retry | the provider's errors |
| **dispatch of runs to executors** (`services/dispatch-run-service.ts`, `services/run-control-service.ts`, the stale-run section of `services/runtime-recovery-service.ts`, `executors/*`) | `role_runtimes` and `tasks` rows | dispatch, reroute, retry, recover | several dispatchers of one run; a slow executor looks dead; executors throw and die |
| **executor circuit breaker** (`services/executor-circuit-breaker-service.ts`) | a JSON file with a circuit per adapter | record success/failure, assert closed | overlapping dispatchers read, cut off and write the whole file around awaits |
| leader runtime worker (`services/leader-runtime-worker-service.ts`) | leases | claim, renew, release | two workers on one session |
| goal mode (`services/goal-mode/*`) | goals, iterations, plan files | start, iterate, verify, edit | a user's edit while an iteration runs |
| worktrees, command line agents, MCP pool, event bus, memory, retention, process lock, static gate, settings and skills, schema, web console | see the notes in `PROJECT.json` | | mostly input/output; not modelled |

Two facts about the runtime shape every model:

* **One event loop, a synchronous database.** An SQL statement, a transaction,
  and a whole stretch of code between two awaits that really wait, are atomic.
  Interleavings exist only at awaits: model calls, HTTP, git, subprocesses, file
  system, timers, the first load of a module.
* **The process can die anywhere.** What is in memory is gone; rows, git and
  files stay. `server.ts` then runs the boot-time repairs.

### 1.2 How the components interact

    chat platforms --> inbound events --> processTaskIntent --> task worker --> leader loop
                                                                   ^              |  |
         web console --> routes/tasks (start, message, cancel) ----+              |  +--> teammates (worktrees)
                                                                   |              |            |
              recovery tick, boot scan, wake-ups <-----------------+----mailbox---+<--report---+
                                                                                  |            |
              web console --> routes/change-reviews --> change review rows <------+---draft----+
                                                          |        ^
                                              apply lock -+--> git workspace

The mailbox table couples leader and teammates; a review row couples a
teammate's draft with the two apply paths; the lock file couples the apply
paths of one workspace.

### 1.3 What makes each component correct

* *Apply lock*: a complete lock of a live process is taken from nobody within its
  TTL; a dead or finished attempt does not block the next one, unless its own
  file-system calls failed.
* *Change review*: one apply path at a time on a review; decisions and outcomes
  are final; what is landed was reviewed; database and repository agree about
  what was landed, also after a crash; every claim is settled.
* *Leader task*: a task gets no job-less EXECUTING; a parked leader is always
  woken; no completion is lost; a finished row is not overwritten.
* *Inbound events*: a message is handled by one handler at a time and answered
  once.
* *Outbound delivery*: two sends of one message only when the first outlived its
  lease; one outcome recorded, the one in the claim table; a final claim is
  never opened again.
* *Scheduler*: no slot fires twice, also not after a restart; no task is spawned
  beside one of the same schedule that still works; no slot stays due.
* *Tool calls*: a tool that is not concurrency-safe runs alone; tools start in the
  order of the message; nothing behind a failed bash call runs; every call is
  answered once; the answers reach the next turn; the turn ends.
* *Agent loop*: the provider accepts every history it is sent; within a run, and
  from a checkpoint to the run that starts from it, the model does not forget a
  call it has made; nothing is done while a plan waits for its user, and only an
  answer given after the plan settles it.
* *Dispatch*: a row that says RUNNING has an executor at work, or one that died;
  a failed run blocks its task, so that its user sees it; a run is given up
  sooner or later.
* *Circuit breaker*: what the file forgets may keep a circuit closed; only a
  success that is overwritten may open it before the adapter has failed often
  enough since it last succeeded.
* *Command approvals*: a call runs only with leave; a question is decided once,
  its call gets that decision, everybody is told once; trust comes from a person;
  a call that waits is answered.

## 2. Modules

| module | what it is |
|---|---|
| `ApplyLock`, `MCApplyLock` | the lock file and its instances |
| `ChangeReview`, `MCChangeReview` | rows, the two apply paths, reconciler, git |
| `SafeApplyProofs` | the theorems of both |
| `LeaderTask`, `MCLeaderTask`, `LeaderTaskProofs` | one task, its leader, its teammates, its recovery |
| `ChannelInbound`, `MCChannelInbound` | dedupe keys and handlers of one conversation |
| `ChannelOutbound`, `MCChannelOutbound` | delivery claims and the calls that deliver |
| `ChannelProofs` | the theorems of both channel modules |
| `Scheduler`, `MCScheduler`, `SchedulerProofs` | schedule rows, the tick, the tasks it spawned |
| `ToolExecutor`, `MCToolExecutor`, `ToolExecutorProofs` | one turn of the agent loop and the tools it runs |
| `Messages` | the history as data, and the functions that rewrite it |
| `AgentLoop`, `MCAgentLoop`, `AgentLoopProofs` | the loop over its turns, runs and crashes, with plan mode |
| `Dispatch`, `MCDispatch`, `DispatchProofs` | one run, its dispatchers, the recovery loop, the circuits |
| `Consent` | what an approval promises to a tool call: the abstract specification |
| `CommandApproval`, `MCCommandApproval`, `CommandApprovalProofs` | approval rows, the calls that wait, the clicks; shown to implement `Consent` |

Definitions marked *Mutant* in the modules are plausible bugs in the code they
stand next to. Nothing uses them; `PROJECT.json` names, for each property of
each passing run, the mutant that breaks it.

### 2.1 ApplyLock

One action is one file-system call of one attempt, and every call may fail.
`Create` and `Create2` are the two `open(path, "wx")` (`Opens`), `Write` and
`Close` the `writeFile` and the `close` that follow, `Read` is the read of a
rival's file with the decision on it (`Fresh`, `isProcessAlive`), `Unlink` the
removal of a stale file, `RelRead` and `RelUnlink` are the two steps of
`release`. A failed `unlink` is swallowed, in `acquireApplyLock` as in `release`; a
failed read is "no lock at all", after which a live lock is unlinked, or the own
one is left; a failed `open`, `writeFile` or `close` is thrown, and leaves the
file as it is. `file` is the directory entry: whose inode it names, and whether
that inode has its content yet. `startedAt` is the `now` an attempt captures
before its first call and against which it measures a rival's age. `Restart`
replaces the process; `isProcessAlive` may still succeed for its pid, when another
process has it by now (`Read`, second disjunct). The clock does not go back.

`rival`, `mishap` and `ousted` are history variables: who was active alongside an
attempt, what went wrong in its own calls, and on what grounds somebody removed
the entry of an active attempt. `seen` is what an attempt read before it went on
to unlink.

What the lock promises is `MutualExclusion`, and `lock_overlap` shows that it does
not keep it: even if no call fails and no TTL passes, an attempt that reads the
file between its creation and its content takes the lock from its holder. The
invariant that holds is `OverlapOnlyThroughWindows`: two holders come from one of
four windows (`Windows`), and from nothing else.

### 2.2 ChangeReview

`row` is the `change_reviews` table with the columns that conditions read
(decision, apply state, assignee, decidedBy, verdict, base revision, age). `pc`
and `on` are the apply calls: `Op*` actions follow `applyChangeReview` (operator),
the actions from `Gate` to `Final` follow the eleven numbered steps of
`applyChangeReviewAsLeader`, one for each git command. Each conditional `UPDATE`
is one action whose guard is the `WHERE` clause. The git workspace is kept per
review's patch: is it in `HEAD` (`head`), in the index (`index`), in the working
tree (`tree`: absent, partial, full); `rev` is the revision, `log` the reviews for
which a commit with the leader's marker exists. `git add` stages files with all
that is in them, `git commit` takes the whole index, and `git apply -R` changes
the working tree only: these are the details that `CommitIsTheReviewedPatch`
fails on (section 4).

The file lock excludes nobody here: ApplyLock shows that two attempts can hold it.
What is left of it is that an apply may be refused. The operator's own git never
looks at it: `OperatorStages`, `OperatorCommits` and `OperatorResets` happen at any
time, between any two commands of an apply. Every git command, read and write of a
file may fail. Most failures give the slot back (`GiveUp`) or mark the row; the
patch file of step 7 (`leader-apply-service.ts:422-424`) is written outside any
`try`, so that a full disk leaves the row applying with nobody to settle it.
`abandoned` remembers such rows, and those of a crash. `misled` remembers the
commits that git made and denied: `git commit` killed at its time limit after it
committed, or the reconciler's `git log` failing. Both are history variables.

### 2.3 LeaderTask

One task, seen through its row, its place in `TaskWorker` (`slot`, `job`), the
run of the leader (`pc`, `ctx`: the messages it works on), its latest checkpoint
(`saved`), the rows and processes of its teammates (`row`, `proc`), the mailbox
(`box`) and the recovery tick (`tick`: where it is and what it read at its
start). Items (the prompt, messages, completions) are followed from their
arrival through mailbox, job, run and checkpoint.

A handler is one action unless it waits for something real. Where it waits only
in rare cases, the constant `Allowed` decides: `"report"` lets other handlers
run between a teammate's final row and its mailbox row (the first load of the
completion module), `"tick"` between two sections of the recovery tick (file
system, a dispatch). `"cancel"` and `"error"` allow the user's cancel and a
failing run. `Slow` are teammates that work longer than the stale-RUNNING
threshold. `arrived`, `kept` and `dropped` are history variables.

A message comes by `/tasks/:id/messages` (`Post`), which looks whether a run is live
or queued, or by `POST /tasks` on a channel conversation (`PostBound`), which does
not: it stamps EXECUTING and enqueues, and `enqueue` does nothing while the task is
queued or active. The message is then in no mailbox and no job (`dropped`).

### 2.4 ChannelInbound

`key` is the table of dedupe keys of one conversation, `last` what the binding
remembers, `stage`/`ev` the concurrent calls of `processChannelEvent`. A delivery
claims its event key and its platform-message key in one transaction. The lease
is compared with the *message's own time* (`Now`), because the code passes
`occurredAt` as the current time; it is the same in every redelivery, so the
lease of a handler that died never runs out. Redelivery is simply `ClaimMessage` again,
with no bound; nothing counts, so no bound is needed.

### 2.5 ChannelOutbound

`claim` is the claim table, `recorded` the delivered and failed records of an
event, with the call that wrote each. The workers are concurrent calls of
`deliverQueuedFeishuOutboundEvents`: `List` reads the pending events once, then
`Acquire`/`Skip`, `Send`, `Finalize` and `Record` run for each of them in order.
A claim's token is fresh, so the worker's name stands for it (one claim at a
time), and `token` is empty when nobody holds the claim. `Send` answers at any
time, also after the lease; `Reap` collects expired claims whenever there are
some. The clock advances between any two steps.

### 2.6 Scheduler

`row` is the `scheduled_tasks` table, `tasks` what was spawned for each
schedule. The tick is split at its awaits: `StartTick` reads the due rows,
`Advance` writes the next slot of one of them from the row *as it was read*,
`Check` is the overlap guard on that row's last task, `Spawn` the call of
`processTaskIntent`, `Record` the write of the task's id. Between them the user
creates, edits and deletes schedules and tasks end or are started again by a
follow-up. A cron expression is the period at which it fires, and
`computeNextRunAt` the next multiple of it. `ended` and `recorded` remember
that a task has ended before and that its id reached the row.

### 2.7 ToolExecutor

One message of the model with `N` tool calls; `kind` says of each call what the
code asks of it: refused by the doom-loop detector, no tool of that name, safe
for concurrency or not, `bash`. `status` and `result` are the `TrackedTool`
entries. `pc` is where the loop stands: `"queue"`, `"added"`, `"record"` in
`queueToolUseBlocks`, `"tick"` to `"offered"` in the hand-over while the stream
is read, `"trace"` until the stream is over, `"loop"` to `"race"` in
`getRemainingResults`. `at` is its position: in the message, in its own run of
`processQueue` (`Pump`), or the cursor of the generator `getCompletedResults`,
which sees what has changed whenever the consumer asks for more. `scans` are the
other runs of `processQueue`: each awaits `executeTool` after a start and then
goes on from the position it had.

An action is what runs between two awaits. Awaits that are over at once
(`scans`, `"tick"`, the drain's own) come before anything from outside: the
actions of tools, the consumer and the user require `Idle`. This is how
JavaScript schedules microtasks, and it matters: a loop that awaits only things
that are ready lets nothing else happen. `heard` and `kept` are what the loop has
yielded, and what it carries into the next turn.

### 2.8 Dispatch

One run: `state` and `attempts` of its row, `task` of its task's. `pc` and `me`
are the dispatchers, each with what it read and what it will write: a request of
the user (`Dispatch`, or `Retry` and `Requeue`) and the tick of the recovery
loop (`Scan`, then `GiveUp` or `Recover`, which dispatches). From `"begin"` they
go through the targets of the route (`Skip`, `Stop`, `Enter`), the adapter's
`execute` (`Decline`, `Start`, then `Complete` or `Fail`), and what
`dispatchRun` makes of the result: a transient failure goes to the circuits and
to the next target, a hard one ends the dispatch, unless it is of a leader's
model (`Soft`). `Throw` is an exception that no `try` of this path catches;
`orphan` remembers that one, or a crash, took a dispatcher away since the row
was last written.

`store` and `text` are the file of circuits. `Load` reads it and replaces one
entry, `Truncate` and `Write` are the two halves of `writeFile`; what a reader
finds in between, or two writers leave behind, does not parse and is an empty
store. Counts end at the threshold, `now` counts open windows. Two history
variables say what really happened: `failures` counts an adapter's failures since
its last success was written (`Forgiven` resets it), and `lost` has the adapters
whose last success was written while another writer still held an older store
with failures in it (`Overtaken`), which that writer then brings back.

### 2.9 CommandApproval and Consent

`Consent` has three things: what was decided of each question, what its call was
told, and whether the user trusts such calls. Its steps: ask once, decide once,
tell the call what was decided, let a trusted call through, gain trust from an
approval, lose it.

`CommandApproval` is the code below that. `row` is the `approvals` table, `pc` a
call in `requestApprovalForTool` and `waitForApproval`; a round of the latter is
`Poll` (the overdue rows of *all* tasks are listed), `Expire` for each of them,
then one of `Settled`, `Aborted`, `TimedOut` and `Sleep`. `click` are the clicks
on cards: `Decide` lands, `Replay` finds the row resolved. A conditional update
and the read before it are one step, since the database is synchronous; the
event that announces a resolution follows in a later step (`Publish`, `Grant`),
behind the load of a module, and a crash may come between (`lost`). `Tick` is
the clock: it ages rows, waits and trust. The refinement mapping is direct: a
decision is the state of a row, trust is `trust > 0`, `answer` is itself.

### 2.10 Messages and AgentLoop

`Messages` is the pure part. A message is its role, its text blocks, the calls
it declares and the calls it answers; a text block is its kind (what the code
recognises it by: a summary, a notice of dropped turns, an approval) and the
number of the user's text it comes from. The operators are the code's functions
by their names: `pairLeaderToolMessages` prunes calls without an answer and
answers without a call before each request; `repairToolResultPairing` and
`enforceAlternatingTurns` make a checkpoint's history fit to start from;
`dropOldestTurns`, `autocompact` and `InjectProgress` are compaction,
`trimForFreshContext` what goal mode does between two iterations;
`derivePlanStateFromMessages`, `detectPlanResponse` and
`stripSentinelFromMessages` read the plan's state out of the history, and
rewrite the answer.

`AgentLoop` applies them to one task over several runs. `saved` is the latest
checkpoint, `open` the proposal that the event log shows as undecided;
`messages`, `turn`, `plan`, `current`, `request`, `todo` and `reply` are locals
of the run. The first run is `Begin` (POST /tasks), which may bring the messages of an
MCP server's prompt (`McpPrompts`): what it says before its last user's message
goes in front of the history, that message's blocks into the user's text
(`FirstText`). Later runs start by `FollowUp` (a user's message), `Recover` (the boot
scan, which fails the task instead if its newest runtime row is a teammate's), `Resume` (`resumeLeaderFromCheckpoint`) or `Wake` (a teammate's report or
a goal's next iteration), which differ in the history they bring and in whether
they look the proposal up. A turn goes `Drain`, `Fits` or `Compact`, then
`LeavePlan` and `Substitute` if the plan is answered, then `Finish`, `Think` or
`Call` with an `Execute` for each call and `Record`. `Stop` are the ends
without a checkpoint, `Crash` is possible between any two of these. What the
model says, whether a tool is refused, which size an estimate finds and how much
a summary replaces are choices. The tools of a turn run after the reply here and
one by one: their concurrency is ToolExecutor's subject, which enters by `Record`:
any of the turn's results may never have reached it.

`told`, `informed` and `asked` are history variables: the calls a run must still
see, whether it was told of an open proposal, and how many texts the user had
typed when the last proposal was made. `primed` says that an MCP prompt put
messages in front of the first text.

## 3. Runs

The longest run, `agent_history`, takes three minutes with two workers; the others
finish within two.

| run | question | instance | distinct states |
|---|---|---|---|
| `lock_protocol` | Does a finished attempt leave a lock behind, is a refusal ever without a cause, and how can two attempts hold the lock? | 3 attempts, TTL 1, clock to 2, one restart, every call may fail | 1 200 807 |
| `lock_overlap` (violation) | Are applies of a workspace serialised? | 2 attempts, as above | a counterexample |
| `review_rows` | Do the row's conditional updates alone keep the apply paths apart? Do rows and commits agree? Is every claim settled? | 1 review, 2 operator and 2 leader calls, no help of the file lock, the operator's git at any time, failing commands, fair, 2 revisions, 2 crashes | 200 502 |
| `task_runs` | Does a task get into EXECUTING without a job? Does anybody move the task of a live run? Does a parked leader run again? | 1 teammate, 1 message by either route, everything allowed, fair, 1 crash | 274 376 |
| `task_quiet` | Is a parked leader's wake-up ever lost, a result never read, a completed row overwritten? | 2 teammates, 1 message, cancels, errors and a divided tick | 2 665 298 |
| `inbound_once` | One handler per message, one answer? | 3 handlers, 2 messages, 3 event ids, lease 1, unbounded redelivery and crashes | 6 022 |
| `outbound_claims` | Who may send a message twice, and what is recorded of it? | 3 calls, 2 messages, lease 1, clock to 2, 1 crash | 473 251 |
| `scheduler_fires` | Does a slot fire twice, a task start beside another one, a slot stay due? | 1 schedule, 2 expressions, clock to 5, fair, 2 crashes | 166 800 |
| `tools_turn` | Do tools run alone where they must? Is every call answered once, are the answers kept, does the turn end? | every message of 3 calls, 2 outcomes per call, fair, a cancel at any time | 125 035 |
| `agent_history` | Is the history always one the provider accepts, with the calls the model made in it? Does an open plan hold back the work, and who may settle it? | 3 runs (1 if an MCP prompt's message came first) of at most 2 turns (a resumed run goes on counting), 2 texts of the user, 3 calls, any summary, up to three dropped turns, any lost results, crashes anywhere | 5 827 234 |
| `dispatch_run` | Is a RUNNING row at work, a failed run seen by its user, an open circuit earned? Does a run end? | 1 request and the recovery loop, 2 targets, one of them a leader's model, threshold 2, 2 recovery attempts, 1 open window, throws and crashes, fair | 348 970 |
| `approval_waits` | Does the protocol implement `Consent`? Is a resolution told once, a call answered? | 2 calls, 2 clicks, window 1, trust of 1, crashes, fair | 435 760 |

**Why these bounds.** Two apply paths interfere pairwise, and the third party
that matters is the reconciler or a decision: two calls of each kind contain these
cases. Its invariants speak of one review, and rows of different reviews meet only
in git, where another patch does no more than the operator's git does already. A
lock race needs one holder, one contender that removes the file and one that
creates it: three attempts; a clock to 2 with a TTL of 1 has locks within and past
it. One crash gives every state that can be left behind, and the state after a
boot is one a second crash starts from; with two, `review_rows` has a row that the
first boot found too young and the second settles. Parking and waking is between
the leader and one teammate; the second teammate of `task_quiet` is there
because one may report while the other keeps the leader parked. `m1` under two
event ids, with `m2` between its deliveries, is what makes the binding forget
`m1`. A claim that is lost takes a holder, one that takes over and a third call
that meets the result; the second message makes calls walk their lists past each
other, and a lease of 1 in a clock to 2 allows two takeovers. For a schedule,
five instants of expressions with periods 1 and 2 give a slot that is fired, one
that is skipped and one that is caught up, on both sides of a crash; another
schedule would only take time between the tick's awaits, and the clock does that
already. A turn's order and exclusion are between a tool that waits, one that runs and
one behind them: three calls, of every kind. A run is contended for by two: the request and the
recovery loop, which takes the run of a slow executor and tries again after each
throw or crash, without a bound on these; two targets give a reroute, and a
threshold of 2 a count that may be lost. An approval needs the call that waits,
another whose polling expires the row, and two clicks, of which one comes second;
with a window of 1 a row is young, due, and overdue. The theorems repeat most of these answers for every number of
participants. What a history can lose is lost between a run, the one that starts
from its checkpoint, and a third that starts from what the second made of it; a
plan takes a text that asks for it and one that answers, and three calls are a
proposal (its two calls) with work before or after it. An MCP prompt is absent or
says one thing before the text and one with it; `MaxPrimed` ends those tasks after
the first run, since a later one adds nothing to a message that the first brought:
what it leaves in the checkpoint is a theorem (`HistoriesInOrder`). The prompts are
those that answer a plan: any other text is like an answer that comes when no plan is
open.

Types are not among the properties of the runs: the `TypeOK` of each module with
proofs is a theorem (section 5). Some theorems state properties that no run
repeats: `StartedInOrder`, `FailureStopsTheRest`, `TrustIsEarned`, `NothingLost`,
`FinalIsFinal`.

`MaxClock`, `MaxBoots`, `MaxRev`, `MaxCrashes`, `MaxTime`, `MaxRuns` and `MaxPrimed`
bound counters. In the last
instant of `MaxClock` the clock stands still and everything else goes on.
`AwaitingEnds` asks for an end *or a crash*, `ClaimSettles` for an end or an
abandoned row: what a crash does to a parked task is in section 4, and the
reconciler, which runs at boot only, leaves a young claim alone until a later boot.
`CHECK_DEADLOCK FALSE` stands where the model stops: an attempt of the
lock runs once, a turn of the agent loop ends, a settled run has nobody left to
dispatch it, and answered calls have nothing left to do.

**Symmetry** is used in safety runs over interchangeable reviews, calls,
teammates, messages, handlers, deliveries and attempts; never with a liveness
property.

**Fairness.** *ChangeReview*: a call that has begun goes on (every git command
has a time limit, every database call returns), the reconciler works through
its list, a dead process is started again; nothing forces a new request.
*LeaderTask*: strong fairness on the leader's steps, on the final answer
(`maxTurns` ends the loop), on the wake-up timer, on a teammate's end and
report, since a recovery tick or another report may disable each of them for a
while again and again; weak fairness on the tick and on boot. *Scheduler*: weak
fairness on the steps of the tick, since its timer fires again and its awaits
return (`processTaskIntent` hands a web task to the worker and does not wait for
it); none on the end of a task, so that `DueIsConsumed` also covers a task that
never ends. *ToolExecutor*: weak fairness on the code that is ready, on the
loop's consumer (a `for await` loop) and on the end of each tool call (tools have
time limits; a call that waits for a person ends when that person answers); the
cancel is not forced. *Dispatch*: weak fairness on what was begun (an executor
has a time limit, `getExecutorTimeoutMs`) and on the recovery loop's `Scan`; strong
fairness on what a tick does with the row it read, because the process may die
within a tick, but not within every one. *CommandApproval*: weak fairness on the
calls' rounds (a timer of a second) and on the clock; the user need not click, and
`CallIsAnswered` is then the time limit's doing. No fairness on users: cancel, messages and new decisions may never
come.

## 4. What the runs found

`lock_overlap` is a run that TLC ends with a counterexample: two attempts of one
process hold the lock of a workspace together, against the test "serializes active
apply attempts per workspace" (`apps/api/test/services/safe-apply/apply-lock-service.test.ts:33`).
`a` creates the file (`open` with `wx`), `b` finds it and reads it before `a` has
written, takes it for unusable (`apply-lock-service.ts:48-51`), `a` writes, closes
and holds, and `b` unlinks the path (line 54), which is by now a complete lock, and
creates its own.

More statements of the repository, and some that one would expect of it, are
written down as properties, with the line they are taken from, and have **no**
run here, because TLC finds a counterexample to each. To see one, take a
configuration of the module and put the property in it.

| property | module, instance | what the counterexample is |
|---|---|---|
| `CommitIsTheReviewedPatch` | ChangeReview, 2 reviews, 1 leader call | after `git add` and a failed `git commit`, `git apply -R` (`leader-apply-service.ts:560`) restores the working tree and leaves the patch staged; the next review's commit takes it along |
| `CommitLandsOnReviewedBase` | ChangeReview, `review_rows` | the operator commits between the comparison of `HEAD` (`leader-apply-service.ts:345`) and the leader's `git commit` (line 542): nothing makes the operator's git wait for the lock |
| `CommitTakesNoOperatorWork` | ChangeReview, 2 reviews | an operator's apply has put a patch into the working tree and the operator stages it; the other files are clean, and the leader's `git commit` takes the whole index |
| `EveryClaimSettles` | ChangeReview, `review_rows` | the patch file of step 7 cannot be written (`leader-apply-service.ts:422-424`): the call throws with its row claimed, and nothing looks at the row until a restart |
| `SupersededNeverLanded` | ChangeReview, `review_rows` | a discard's conditional update falls between an operator's `git apply` and its record |
| `MessageIsRead` | LeaderTask, `FairSpec` | a message posted while the run is ending stays in the mailbox of a DONE task |
| `CancelSticks` | LeaderTask, `"cancel"` | a cancel after the loop has completed is overwritten by DONE |
| `CancelReachesTeammates` | LeaderTask, `"cancel"` | a parked task has no controller: its teammates work on |
| `LiveTeammateNotRequeued` | LeaderTask, `Slow` not empty | nothing refreshes a live teammate's row; it is queued a second time |
| `WakeKeepsContext` | LeaderTask | a wake-up job does not bring the checkpoint's messages |
| `BootResumesCheckpoint` | LeaderTask, 1 crash | the newest runtime row is a teammate's, so the task is failed although a checkpoint exists |
| `CompletionSurvives` | LeaderTask, 1 crash | mailbox rows are marked consumed after the in-memory append, before the checkpoint that holds them; a crash in between loses the message, although a comment expects the rows to be still pending |
| `ExecutingHasJob` | LeaderTask, `task_runs` | POST /tasks on a bound conversation stamps EXECUTING (`process-task-intent-service.ts:1306`) after the run's final write and before it leaves the worker; `enqueue` (line 1318) does nothing, the run leaves, and only the stuck-task reaper finds the task |
| `NoMessageDropped` | LeaderTask, `task_runs` | the same route while a run is live or queued: the message is in no mailbox and no job |
| `CompletedIsFinal` | LeaderTask, `task_quiet` | a teammate ends while the tick is under way; the tick's awaiting-tasks section writes FAILED on the row that it read as RUNNING at its start |
| `AwaitingEnds` without its condition on crashes; `CompletedWorkIsSeen` with `"report"` | LeaderTask | the crash or the gap that the passing runs leave out |
| `ReaperSparesSenders` | ChannelOutbound, `outbound_claims` | a send that outlives its lease loses its claim to the reaper, although the comment in `server.ts` says that it never races with a delivery in flight |
| `DisabledHasNoSlot`, `SlotIsOfCron` | Scheduler, `scheduler_fires` | the user disables the schedule, or changes its expression, after the tick has read the row: `Advance` writes a slot from the old expression |
| `OpenIsInARow` | Dispatch, `dispatch_run` | a dispatcher has read the store, counted a failure and not yet written; another one's success is written, and then overwritten with the older store: the circuit opens although the failures were not in a row |
| `TurnKeepsAll` | ToolExecutor, `tools_turn` | the answer to an unknown name, or of a tool that ends while the refusal of another is recorded, is yielded while the stream is read (`autonomous-loop-service.ts:1356`) and not put into `toolResults`, against the comment at line 1561 that these hold ALL results of the turn; the call is then pruned from the history as unpaired |
| `EveryTurnEnds` | ToolExecutor, `FairSpec` | a tool that is not concurrency-safe runs, an unknown name behind it is completed and cannot be handed over: the drain (`streaming-tool-executor.ts:301`) goes round without an await that waits, and the event loop never gets to the tool's end |
| `EveryFollowUpKeepsCalls` | AgentLoop | `message-pairing.ts:37` says that both forms of an answer count, but the repair of a checkpoint (`leader-session-resume-service.ts`) looks for standalone results and its own merging embeds them, as it does with the answers of parallel calls; from the second follow-up on, calls that ran are gone from the history. `Resume` repairs twice, and so loses them at once |
| `UserComesFirst` | AgentLoop, `agent_history` | a task is started with an MCP prompt whose first message is the assistant's: `process-task-intent-service.ts:2766-2772` puts it in front of the history, and neither the repair nor pairing takes it away, so that the provider is sent a conversation that an assistant begins |
| `OpenPlanGatesAllWork` | AgentLoop | `Resume` and `Wake` do not look the proposal up, and a wake-up brings no history either: the run works although the plan is undecided |
| `CompactionKeepsRequest` | AgentLoop | "Dropping the user's current request would render the loop useless" (`message-compaction.ts:62`), but text that the loop adds after a thinking-only reply is a user's message too, and starts a turn: the request is in an older one, and is dropped or summarised |
| `EveryAnswerFollowsPlan` | AgentLoop, 4 turns, 4 calls, two lost results | `Resume` derives the plan from the history; the repair has taken the later of two plans out of it and left an earlier, refused one, and the text that asked for the later plan, which reads like an approval, settles the earlier |
| `CommitIsNeverForgotten` without `misled` | ChangeReview | a `git commit` killed after it committed is treated as failed; a reconciler whose `git log` fails takes a landed review for one that was not applied |

Behaviours that the models contain, and about which nothing in the repository
promises otherwise:

* *Dispatch*: two executors can work on one run, since both pass the block check
  before either writes RUNNING, and since recovery's threshold (ten minutes) is
  far below an executor's time limit (two hours). A COMPLETED row can be
  overwritten: by the second dispatcher, by recovery's snapshot, by `Requeue`. A
  QUEUED row whose dispatcher died before its start is picked up by nobody. The
  recovery tick waits for the run it dispatches.
* *CommandApproval*: a row can be resolved before the request of it is published.
  Trust can be granted after `clearTaskApprovalTrust`, by a click that was under
  way. A call that is cancelled in the last second of its window is approved by
  its own `expireOldApprovals` before the abort is looked at. The pending row of a
  dead process is approved later by a waiting call of another task.
* *AgentLoop*: an approval that the repair has merged with an earlier text is not
  recognised as one. A text that the user posted before the proposal, but that is
  drained after it, settles it; `AnswerFollowsPlan` counts texts when they are
  drained. A revision is known by its first words, which may be those of an older
  text in a merged message. Plan mode that was asked for by the user is in
  memory only: a run that starts after a crash, before the history shows
  it, is not in plan mode. Since the session's progress goes in front of the
  history, an earlier summary is not the first message when the next compaction
  looks for it. A run that is stopped, or runs out of turns, leaves the
  checkpoint of its last whole turn.

In ChannelInbound two behaviours are worth knowing although nothing in the
repository promises otherwise: a message whose handler died stays in flight for
good, and a retry after a failure is ignored, since the binding already
remembers the event.

## 5. Proofs

Every theorem holds for all values of the constants that satisfy the
assumptions named in the modules (`BoundsAssumption`, `CallAssumption`,
`NoneAssumption`, `FlagAssumption`, `AllowedAssumption`, `ItemAssumption`,
`EventAssumption`, `OutboundAssumption`, `SchedulerAssumption`,
`ToolExecutorAssumption`, `DispatchAssumption`, `ApprovalAssumption`,
`AgentLoopAssumption`; they say that the constants have their types and that the
sets which must be apart are). A theorem that needs more says so in its ASSUME.
Every safety invariant that a run checks is a theorem, and so is every action
property.

For each of these modules but AgentLoop its type invariant is a theorem
(`...TypeCorrect`); AgentLoop's types are a part of `HistoryInv`.

**ApplyLock**, with every call failing at will, any number of restarts and pids in
use again. `NoLeakedLockHolds` by `LeakInv`: whoever the file names has opened it,
and it is empty until that attempt's `writeFile`; so a complete file of the live
process belongs to somebody in `held`, in `close` or in `release`, or to one whose
own call failed. `RefusedOnlyByRivalHolds` by `RivalInv` adds that active attempts
know each other and that an attempt which finds a file at its second `open` had a
rival to create it, or its own unlink failed; an excuse, once there, stays
(`HistoryGrows`). `OverlapOnlyThroughWindowsHolds` by `WindowInv`: an attempt that was
never ousted still has its entry (`HeldIsThere`), what an attempt is about to unlink
was not in its way when it read it (`SeenIsNoBlock`: of a complete entry of this
process it saw that the TTL was past), and so nobody is ever ousted without one of
the four grounds (`NeverSeized`). Two holders cannot both have the one entry.

**ChangeReview.** One inductive invariant, `SlotInv`, carries four theorems.
`OneApplyPathPerReview` is not inductive: it has to be known that a row in the
applying state is pending, the leader's and approved of (`ApplyingRow`), that a
call before its claim passed the gate and the verdict cannot change any more
(`GatePassed`), that nobody takes a slot from its owner (`OneSlotOwner`,
`SlotOwnerKeepsSlot`), that an operator's call past its eligibility check
excludes a pending row (`OperatorInside`), and that an abandoned row, which is all
that the reconciler settles, has no living call (`AbandonedUnowned`, which needs
`DeadIsIdle`: the boot selects its list before any call runs), while every other
claimed row has one (`ClaimsAreOwned`). From it: `SlotExclusion`, `SlotKept`,
`ApplyingOwned`, `LandedReviewed`. None of them uses the file lock, and they hold
with every failure of the model. So does `NothingReopened`: `DecisionEffect` says
what any step does to a row's two fields, and a row that does not exist yet is
blank (`Unmaterialized`).

The agreement with git is `LogInv`: a review gets into the log by a call in its slot,
which then goes straight to its final update (`KnownIsFinal`) and only by a commit
gets there (`FinalIsLogged`); a call that dies there leaves a row that the
reconciler finds in the log. `CommitRemembered` and `LandedInGit` need no lock and
no assumption about git: a commit that git denies is in `misled`, and only such
ones are excepted.

**LeaderTask.** `ExecutingIsOwnedHolds` (by `OwnedInv`) holds without
restriction: of all steps only a bound `POST /tasks`, and only in `"deliver"`, gets
the task into EXECUTING without a job. `LiveRunKeepsTaskHolds` assumes `Slow = {}`: a
teammate that outlives the threshold lets the tick move the task of a live run.
`CompletedStaysCompletedHolds` assumes nothing: `RowsInv` says that a stale row is
RUNNING and was so when the tick read it, so that whatever overwrites a COMPLETED
row is a tick acting on that reading, as the property says. `NothingLostHolds` (no run
repeats it) assumes no cancels, errors, crashes and slow teammates, with reports
divided or not: `arrived` stays within mailbox, job, run and checkpoints.
`AwaitingHasWakerHolds` allows everything but a crash: `WakerInv` says that a run
in its loop is not parked, that a running row has its process, and that a parked
task has a teammate with a promise, an unread completion or a queued job; the
crash is left out since the boot leaves a parked task alone whose teammates are
gone: the next tick finds their rows. `CompletedWorkIsSeenHolds` allows crashes and divided
ticks too, but needs a teammate's final row and its mailbox row to be written
together: `DoneIsQuiet` says that a DONE task has nobody at work and no result on
its way, and a tick's report is of rows that failed (`ReapedFailed`).

**ChannelInbound.** `OneHandlerPerMessageHolds` and `AnsweredOnceHolds` by
`InboundInv`: a handler at work has all its keys in flight for its own time
(`ClaimIsKept`), and the platform key of an answered message blocks every
further delivery, completed or not (`AnsweredStaysClosed`).

**ChannelOutbound.** `OutboundInv` carries `OneSenderPerLeaseHolds` and
`RecordsAgreeHolds`: a claimed row names one worker and the time it claimed it,
a worker that sends without its token was replaced a lease after its claim, and
a worker past `Finalize` is the only one that a final row has, with nothing
recorded yet. `FinalIsFinalHolds` follows from the same invariant.

**Scheduler.** `SchedulerInv` carries `FiresOncePerSlotHolds` and
`NoOverlapHolds`: every task's tick is before the row's slot once the slot was
advanced, a snapshot's slot is after the tick of every task that exists
(the tick in flight spawns at most one per schedule, and after it advanced the
row), and the last recorded task is the one the guard looks at, so that all
earlier ones have ended unless their tick died.

**ToolExecutor**, for a message of any length. `Shape` says which entries exist
and what they can hold, `Passed` that no run of `processQueue` has a waiting tool
behind it. With the fact that a run which goes past a waiting tool starts nothing
(`NothingWaitsBetween`), a tool that starts is the first that waits; so
`StartedInOrderHolds`, together with `UnsafeHoldsRest` (nothing behind a running
unsafe tool has been started), and `UnsafeRunsAloneHolds`. A failing bash call
runs alone with nothing started behind it, and from then on `failed` is set
(`FailureIsKnown`): `FailureStopsTheRestHolds`. `Heard` counts the answers:
`AnsweredOnceHolds`. `Kept` says that in a plain turn nothing from outside comes
before the stream is over: `PlainTurnKeepsAllHolds`.

**Dispatch**, for any number of requests, targets and attempts. `DispatchInv` is
`RunningIsExecuted`, `FailedIsBlocked` and `CountsAreEarned`: but for the adapters in
`lost`, neither the file nor any store that a dispatcher is about to write counts
more failures than there were since the last success (`SuccessForgives`: a success
on its way to the file has none). That store is the point: `OpenIsEarned` speaks of the file only and is not
inductive, because the next content of the file is in the locals of whoever is
between `Load` and `Write`.

**CommandApproval.** `ApprovalInv` has `TellerInv` (a resolution is published by
one teller, who exists from the step that resolves the row until it has
published; a resolved row that is told has none left), `GrantIsEarned` (a click
that will grant trust has approved) and `AnswerInv` (no answer before the call
returns, except of a call that is about to publish its own decision). With it
`ConsentIsKept` proves `Spec => KeepsConsent`, that is the whole of `Consent`'s
specification under the refinement mapping: a write that lands is `Decide`, or
`Tell` if the call itself made it; `Settled` is `Tell`; `Grant` is `Trust` or a
stutter; `Tick`, `ClearTrust` and `Crash` lose trust or stutter; everything else
stutters (`ConsentStep` has one step per action).

**AgentLoop**, for histories of any length, any kind of reply and any limit.

Its operators are recursions over a history. An induction theorem of the library
takes an operator, which the provers cannot instantiate, so the induction is
carried out on *sets* of numbers, by their least element (`Least`, `UpTo`), and
`Recursion` says from that that a recursively defined function exists and obeys
its equations. With it each function on histories is described once, by a map
between the places of the old history and those of the new one, and never
unfolded again: `AtPlaces` for a filter, `Enforced` for the merging (`Grouped`:
every message goes into one group, groups are intervals of one role, and a
group has the texts, calls and answers of its members), `RepairedMessages`,
`SentMessages` for pairing (`Thinned`), and for all of compaction and trimming
one notion of a cut (`Drawn`: notes of the program in front, then messages of the
old history in their order, with every remark of the user after the first that
is kept). Cuts compose (`CutTwice`), so that `CompactCuts` covers a summary, up to
three dropped turns and the progress note together.

`HistoryInv` is the inductive invariant. The history in memory and that of the
checkpoint have a text of the user, first unless the task was started with an MCP
prompt's messages (`Begins`), name no call that was not made (`Known`), and are *tidy*: a call is declared once and answered once, the
declaration comes first, and the model does not speak between the two. The last
part is what pairing relies on: merged by role, the answers to a reply's calls
then are the next message (`HistoryIsSent`). While tools run, the open calls are
those of the last message (`Pending`). Everything that puts messages in order
(`Descends`) keeps tidiness, which covers cutting, repairing and pairing;
merging and appending have proofs of their own. From it:

* `HistoriesInOrder`, the invariant itself, and `SentIsAccepted`;
* `WorkStaysTold` by `ToldInv`: the calls to be told are pairs of the history;
* `CallsFollow`: the repair of a history whose user's messages hold no answers
  keeps all pairs (`SanitizeKeepsCalls`);
* `AnswerIsNew` by `AnswerInv`: while a plan waits that the run was told of, what
  the user said last (the last user's message that is not a progress note)
  answers nothing, or is newer than the plan (`FreshAnswer`). A merged message
  stays fresh because an approval has to be all of its text;
* `OpenPlanGates` by `GateInv`, which does not look at the history at all: the plan
  state comes from the event log.

Kinds are elements of enumerated sets in these proofs, since the provers do not
know that a string literal is in STRING.

**Only model-checked**: the liveness properties `ClaimSettles`, `AwaitingEnds`,
`DueIsConsumed`, `TurnEnds`, `RunComesToRest` and `CallIsAnswered`, since fairness
and ENABLED are out of the prover's reach; and that the plan derived from a
history (`derivePlanStateFromMessages`, two nested folds of the community modules)
is one of the three states, which no property needs.

## 6. What the models leave out

* *ApplyLock*: a clock that goes back.
* *ChangeReview*: hash mismatches (the stored hash never changes), a workspace
  that disappears, git hooks, the number of lock retries, what `rev-parse` says
  after the commit (its failure writes no commit sha and is not an error), an
  operator who rewrites history (the reconciler reads `git log --all`). Failing
  database statements: a throw in `claimApplyingSlot`, in a revert or mark, or in
  the final update leaves the row as it was, like a patch file that cannot be
  written.
* *LeaderTask*: goal mode, the synchronous channel path,
  `resumeLeaderFromCheckpoint` for stuck tasks, what `dispatchRun` does with a
  queued teammate, resumed teammates, failing mailbox writes, tasks without a
  conversation, the worker's concurrency limit across tasks. Of the stale rows
  the tick requeues those whose workspace exists and whose attempts are not used up
  (`runtime-recovery-service.ts:285`, 314-355); the others are not modelled.
* *ChannelInbound*: card clicks, failing database writes, the runs themselves.
* *ChannelOutbound*: how cards and summaries are built, which of the two
  transports is used, events without a payload or a binding, replies that do not
  pass through the claim table, failing database writes.
* *Scheduler*: the cron library (an expression is its period; one without a
  further date does not occur), failing database writes, the fields of a schedule
  that decide nothing here.
* *ToolExecutor*: progress messages (the registry's tools send none through the
  executor), `interruptBehavior`, `contextModifier` and `discard()` (nothing in
  the server uses them), a call id that comes twice, an exception of a hook or a
  permission check (it rejects a promise that nobody handles), a tool that works
  on after its time limit, a stream that fails, what the loop does between the
  turns.
* *AgentLoop*: what a text says beyond its kind, images and other attachments (they
  stand in the first text next to its words), MCP prompts with more than one
  message or whose messages read like an answer to a plan, the truncation and the
  snipping of results (they change no pairing), the token baseline and the
  counter that stops summaries after some failures (a summary may be skipped at
  any time), more than one mailbox row in a drain, the hooks around compaction,
  and teammates with a history of their own. A stream that fails ends the run.
* *Dispatch*: what an executor does while it runs, workspaces and the resume of a
  session, `continueRun`, which fallback targets a route has (any subset is
  ready), the executor's own cancellation, the owner filter of the recovery scan on
  EXECUTING tasks (`runtime-recovery-service.ts:282`: the task of a run here is never
  EXECUTING), failing database writes.
* *CommandApproval*: which calls need an approval and how they are matched to a
  subject (the calls of a model are of one kind and one task), rules saved by a
  card, permission profiles, rows deleted with their task, failing database
  writes.
* The components of section 1.1 that have no module; `PROJECT.json` says of each
  why. The hazards listed there without a property are the work list.

## 7. Plan

Done, each with its run and its proofs: ApplyLock, ChangeReview, LeaderTask,
ChannelInbound, ChannelOutbound, Scheduler, ToolExecutor, Dispatch with the
circuit breaker, CommandApproval as an implementation of Consent, AgentLoop over
Messages. What would come next, in this order:

1. `TaskPool`: several tasks in `TaskWorker` under its concurrency limit, with
   an abstract task that LeaderTask refines.
2. The stuck-task resume of the recovery tick, leader runtime leases, goal mode.
3. An abstract plan (proposed, settled by a later text) that AgentLoop refines
   in the runs that look the proposal up, proved without the history.
4. More abstract specifications: the review as seen by its users (undecided,
   decided, landed, given up), refined by ChangeReview; a mailbox that delivers
   every item once, refined by LeaderTask where `NothingLost` holds.
5. Theorems: the refinements of 3 and 4; `AwaitingHasWaker` across a crash, with
   the tick that finds the dead teammates as its waker.
