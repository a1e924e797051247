------------------------------ MODULE LeaderTask ------------------------------
(***************************************************************************)
(* One task of the control plane and the leader agent that works on it:    *)
(* how the leader is started, fed through its mailbox, parked while its    *)
(* background teammates work, woken by their completions, cancelled, and   *)
(* recovered (services/process-task-intent-service.ts, task-worker.ts,     *)
(* crash-recovery-service.ts, runtime-recovery-service.ts, routes/tasks.ts *)
(* and services/manager-automation).                                       *)
(*                                                                         *)
(* The database driver is synchronous, so a handler is split only where it *)
(* really waits: for the model, git, HTTP, a subprocess, the file system,  *)
(* the first load of a module, a timer; and the process may die anywhere.  *)
(* The pool of TaskWorker is seen from this one task: a free slot comes    *)
(* sooner or later.  Plan mode, goal mode, the synchronous channel path    *)
(* and resumeLeaderFromCheckpoint are left out.                            *)
(***************************************************************************)
EXTENDS Naturals, FiniteSets

CONSTANTS
  Teammates,   \* background teammates the leader may spawn (wait: false)
  Messages,    \* follow-up messages the user may post
  Slow,        \* teammates that work longer than the stale-RUNNING threshold
  Allowed,     \* what may happen: "cancel" by the user, "error" in a run, and
               \* handlers between two steps of a "report" or of a "tick"
  MaxCrashes   \* bound on process deaths

ASSUME AllowedAssumption ==
  /\ Slow \subseteq Teammates
  /\ Allowed \subseteq {"cancel", "error", "report", "tick"}
  /\ MaxCrashes \in Nat
ASSUME ItemAssumption ==
  /\ "prompt" \notin Teammates \cup Messages
  /\ Teammates \cap Messages = {}

VARIABLES
  task,      \* tasks.state
  slot, job, \* the task in TaskWorker, and the messages its queued job brings
  wake,      \* a requeueAfterCurrent timer is set
  pc, ctx,   \* where the leader's run stands, and the messages it works on
  aborted,   \* the run's AbortController fired
  saved,     \* the latest checkpoint: {} or {its messages}
  row, old,  \* role_runtimes of the teammates; rows past the stale threshold
  latest,    \* whose role_runtimes row was written last
  proc,      \* a teammate's process and the promise behind it
  mine, halted, \* teammates under the live run's signal; under a fired one
  box,       \* unconsumed task_mailbox rows
  tick,      \* the recovery tick and what it read at its start
  up, crashes,
  arrived, kept, \* history: items that reached the task; were checkpointed
  dropped    \* history: messages whose job TaskWorker did not take

taskVars == <<task, slot, job, wake>>
runVars  == <<pc, ctx, aborted, saved, kept>>
mateVars == <<row, old, latest, proc, mine, halted>>
mailVars == <<box, arrived, dropped>>
hostVars == <<tick, up, crashes>>
vars == <<taskVars, runVars, mateVars, mailVars, hostVars>>

------------------------------------------------------------------------------
Items == {"prompt"} \cup Messages \cup Teammates

TaskStates == {"EXECUTING", "AWAITING_TEAMMATES", "IN_PROGRESS", "DONE",
               "FAILED", "CANCELLED"}
InLoop == {"top", "model"}
Ended  == {"completed", "aborted", "errored"}

Rows == {"none", "RUNNING", "QUEUED", "COMPLETED", "FAILED", "CANCELLED"}

NoTick == [at |-> "idle", task |-> "DONE", running |-> {}, old |-> {},
           reaped |-> {}]

TypeOK ==
  /\ task \in TaskStates
  /\ slot \in {"out", "queued", "active"}
  /\ job \subseteq Items
  /\ wake \in BOOLEAN
  /\ pc \in {"idle", "deliver"} \cup InLoop \cup Ended
  /\ ctx \subseteq Items
  /\ aborted \in BOOLEAN
  /\ saved \subseteq SUBSET Items
  /\ row \in [Teammates -> Rows]
  /\ old \subseteq Teammates
  /\ latest \in {"leader", "teammate"}
  /\ proc \in [Teammates -> {"none", "working", "report"}]
  /\ mine \subseteq Teammates
  /\ halted \subseteq Teammates
  /\ box \subseteq Items
  /\ tick \in [at : {"idle", "stale", "await", "mail", "orphans"},
               task : TaskStates, running : SUBSET Teammates,
               old : SUBSET Teammates, reaped : SUBSET Teammates]
  /\ up \in BOOLEAN
  /\ crashes \in Nat
  /\ arrived \subseteq Items
  /\ kept \subseteq Items
  /\ dropped \subseteq Messages

\* POST /tasks has stamped EXECUTING and enqueued the first job.
Init ==
  /\ task = "EXECUTING" /\ slot = "queued" /\ job = {"prompt"} /\ wake = FALSE
  /\ pc = "idle" /\ ctx = {} /\ aborted = FALSE /\ saved = {} /\ kept = {}
  /\ row = [t \in Teammates |-> "none"] /\ old = {} /\ latest = "leader"
  /\ proc = [t \in Teammates |-> "none"] /\ mine = {} /\ halted = {}
  /\ box = {} /\ arrived = {"prompt"} /\ dropped = {}
  /\ tick = NoTick /\ up = TRUE /\ crashes = 0

\* runOne registers the task's AbortController and removes it in its finally.
HasController == slot = "active"

Unread == box \cap Teammates  \* countUnconsumedTeammateCompletions > 0

\* listActiveBackgroundTeammates
Running == {t \in Teammates : row[t] = "RUNNING"}

WriteRows(S, state) ==
  /\ row' = [t \in Teammates |-> IF t \in S THEN state ELSE row[t]]
  /\ old' = old \ S
  /\ latest' = IF S = {} THEN latest ELSE "teammate"

------------------------------------------------------------------------------
\* TaskWorker.

\* enqueue: nothing happens when the task is queued or active.
Enqueue(items) ==
  IF slot = "out" THEN slot' = "queued" /\ job' = items
                  ELSE UNCHANGED <<slot, job>>

\* The setImmediate of requeueAfterCurrent.  The wake-up job of
\* reenqueueLeaderIfAwaiting has an empty prompt and no restoredMessages.
WakeTimer ==
  /\ wake
  /\ wake' = FALSE
  /\ Enqueue({})
  /\ UNCHANGED <<task, runVars, mateVars, mailVars, hostVars>>

\* tryStart and the head of processTaskExecution.
StartRun ==
  /\ slot = "queued"
  /\ job' = {}
  /\ \/ /\ task = "CANCELLED"
        /\ slot' = "out"
        /\ UNCHANGED <<task, pc, ctx, aborted>>
     \/ /\ task # "CANCELLED"
        /\ slot' = "active"
        /\ task' = "EXECUTING"
        /\ pc' = "top"
        /\ ctx' = job
        /\ aborted' = FALSE
  /\ latest' = "leader"
  /\ UNCHANGED <<wake, saved, kept, row, old, proc, mine, halted, mailVars,
                 hostVars>>

------------------------------------------------------------------------------
\* runLeaderLoop.

\* The top of an iteration: the abort check, then the mailbox is drained.
Drain ==
  /\ pc = "top"
  /\ \/ /\ aborted
        /\ pc' = "aborted"
        /\ UNCHANGED <<ctx, box>>
     \/ /\ ~aborted
        /\ ctx' = ctx \cup box
        /\ box' = {}
        /\ pc' = "model"
  /\ UNCHANGED <<taskVars, aborted, saved, kept, mateVars, arrived, dropped,
                 hostVars>>

\* spawn_teammate with wait: false; the teammate gets the run's controller.
Spawn(t) ==
  /\ pc = "model"
  /\ ~aborted
  /\ row[t] = "none"
  /\ WriteRows({t}, "RUNNING")
  /\ proc' = [proc EXCEPT ![t] = "working"]
  /\ mine' = mine \cup {t}
  /\ UNCHANGED <<taskVars, runVars, halted, mailVars, hostVars>>

Checkpoint == saved' = {ctx} /\ kept' = kept \cup ctx

\* A turn with tool calls ends in a checkpoint and the next iteration; a
\* final answer ends in a checkpoint and the end of the loop.
EndTurn ==
  /\ pc = "model"
  /\ ~aborted
  /\ Checkpoint
  /\ pc' \in {"top", "completed"}
  /\ UNCHANGED <<taskVars, ctx, aborted, mateVars, mailVars, hostVars>>

\* aborted_streaming or aborted_tools; a model error or max_turns.
BreakOff ==
  /\ pc = "model"
  /\ \/ aborted /\ pc' = "aborted"
     \/ "error" \in Allowed /\ pc' = "errored"
  /\ UNCHANGED <<taskVars, ctx, aborted, saved, kept, mateVars, mailVars,
                 hostVars>>

\* Mutant: completions that wait in the mailbox are not counted.
OutstandingRows == Running # {}

\* What keeps a leader that has answered from being DONE.
Outstanding == Running # {} \/ Unread # {}

FinalState ==
  CASE pc = "completed" /\ Outstanding      -> "AWAITING_TEAMMATES"
    [] pc = "completed" /\ ~Outstanding     -> "DONE"
    [] pc = "aborted" /\ task = "CANCELLED" -> "CANCELLED"
    [] OTHER                                -> "FAILED"

\* The tail of processTaskExecution, after the git commands that collect the
\* leader's review draft: the final state, in one transaction.
Finish ==
  /\ pc \in Ended
  /\ task' = FinalState
  /\ latest' = "leader"
  /\ pc' = "deliver"
  /\ UNCHANGED <<slot, job, wake, ctx, aborted, saved, kept, row, old, proc,
                 mine, halted, mailVars, hostVars>>

\* deliverAsyncFeishuFinalAnswer answers, and runOne's finally runs.
Leave ==
  /\ pc = "deliver"
  /\ pc' = "idle"
  /\ ctx' = {}
  /\ slot' = "out"
  /\ mine' = {}
  /\ UNCHANGED <<task, job, wake, aborted, saved, kept, row, old, latest, proc,
                 halted, mailVars, hostVars>>

------------------------------------------------------------------------------
\* Teammates.

\* Mutant: the row of a teammate that failed is left alone.
SettleOnSuccess(t) ==
  /\ proc[t] = "working"
  /\ proc' = [proc EXCEPT ![t] = "report"]
  /\ \/ WriteRows({t} \cap Running, "COMPLETED")
     \/ UNCHANGED <<row, old, latest>>
  /\ mine' = mine \ {t}
  /\ halted' = halted \ {t}
  /\ UNCHANGED <<taskVars, runVars, mailVars, hostVars>>

\* The teammate's process ends; updateIfStateIn(RUNNING | PENDING).
Settle(t) ==
  /\ proc[t] = "working"
  /\ proc' = [proc EXCEPT ![t] = "report"]
  /\ \E result \in {"COMPLETED", "FAILED"} :
       WriteRows({t} \cap Running, result)
  /\ mine' = mine \ {t}
  /\ halted' = halted \ {t}
  /\ UNCHANGED <<taskVars, runVars, mailVars, hostVars>>

\* reenqueueLeaderIfAwaiting
Reenqueue == wake' = (wake \/ task = "AWAITING_TEAMMATES")

\* writeTeammateCompletionMailbox, reenqueueLeaderIfAwaiting, and
\* unregisterActiveAsyncTeammate.
Report(t) ==
  /\ proc[t] = "report"
  /\ proc' = [proc EXCEPT ![t] = "none"]
  /\ box' = box \cup {t}
  /\ arrived' = arrived \cup {t}
  /\ Reenqueue
  /\ UNCHANGED <<task, slot, job, runVars, row, old, latest, mine, halted,
                 dropped, hostVars>>

\* A RUNNING row's updatedAt, which nothing refreshes while the teammate
\* works, passes the stale-RUNNING threshold.
Age(t) ==
  /\ t \in Slow \ old
  /\ row[t] = "RUNNING"
  /\ old' = old \cup {t}
  /\ UNCHANGED <<taskVars, runVars, row, latest, proc, mine, halted, mailVars,
                 hostVars>>

------------------------------------------------------------------------------
\* The user.

\* POST /tasks/:id/messages: into the mailbox of a live or queued run, else a
\* resume from the latest checkpoint, which stamps EXECUTING and enqueues.
Post(m) ==
  /\ m \notin arrived
  /\ arrived' = arrived \cup {m}
  /\ \/ /\ HasController \/ slot = "queued"
        /\ box' = box \cup {m}
        /\ UNCHANGED <<task, slot, job, latest>>
     \/ /\ ~(HasController \/ slot = "queued")
        /\ task' = "EXECUTING"
        /\ latest' = "leader"
        /\ Enqueue({m} \cup UNION saved)
        /\ UNCHANGED box
  /\ UNCHANGED <<wake, runVars, row, old, proc, mine, halted, dropped,
                 hostVars>>

\* POST /tasks for a channel conversation whose session is this task's: the
\* same resume, but nobody asks whether a run is live or queued.  Then enqueue
\* does nothing, and the message goes nowhere.
PostBound(m) ==
  /\ m \notin arrived
  /\ arrived' = arrived \cup {m}
  /\ task' = "EXECUTING"
  /\ latest' = "leader"
  /\ Enqueue({m} \cup UNION saved)
  /\ dropped' = IF slot = "out" THEN dropped ELSE dropped \cup {m}
  /\ UNCHANGED <<wake, runVars, row, old, proc, mine, halted, box, hostVars>>

\* Mutant: every teammate's row is cancelled, a finished one's too.
CancelAllRows ==
  /\ "cancel" \in Allowed
  /\ task # "CANCELLED"
  /\ task' = "CANCELLED"
  /\ slot' = IF slot = "queued" THEN "out" ELSE slot
  /\ job' = {}
  /\ aborted' = (aborted \/ HasController)
  /\ halted' = IF HasController THEN halted \cup mine ELSE halted
  /\ WriteRows({t \in Teammates : row[t] # "none"}, "CANCELLED")
  /\ UNCHANGED <<wake, pc, ctx, saved, kept, proc, mine, mailVars, hostVars>>

\* POST /tasks/:id/cancel
Cancel ==
  /\ "cancel" \in Allowed
  /\ task # "CANCELLED"
  /\ task' = "CANCELLED"
  /\ slot' = IF slot = "queued" THEN "out" ELSE slot
  /\ job' = {}
  /\ aborted' = (aborted \/ HasController)
  /\ halted' = IF HasController THEN halted \cup mine ELSE halted
  /\ WriteRows(Running, "CANCELLED")
  /\ UNCHANGED <<wake, pc, ctx, saved, kept, proc, mine, mailVars, hostVars>>

------------------------------------------------------------------------------
\* recoverRuntimeOrchestrationTick, one at a time.
TickStart ==
  /\ tick.at = "idle"
  /\ tick' = [at |-> "stale", task |-> task, running |-> Running, old |-> old,
              reaped |-> {}]
  /\ UNCHANGED <<taskVars, runVars, mateVars, mailVars, up, crashes>>

TickGoto(at, S) == tick' = [tick EXCEPT !.at = at, !.reaped = S]

\* Stale RUNNING rows of a task that is not EXECUTING are queued again and
\* dispatched to an executor (external).
TickStale ==
  /\ tick.at = "stale"
  /\ LET stale == IF tick.task = "EXECUTING" THEN {} ELSE tick.old IN
       /\ WriteRows(stale, "QUEUED")
       /\ task' = IF stale = {} THEN task ELSE "IN_PROGRESS"
  /\ TickGoto("await", {})
  /\ UNCHANGED <<slot, job, wake, runVars, proc, mine, halted, mailVars, up,
                 crashes>>

\* An awaiting task: children that were RUNNING and have no process here are
\* FAILED, whatever their row says by now.
TickAwait ==
  /\ tick.at = "await"
  /\ LET orphaned == {t \in tick.running :
                         /\ tick.task = "AWAITING_TEAMMATES"
                         /\ ~HasController
                         /\ proc[t] = "none"} IN
       /\ WriteRows(orphaned, "FAILED")
       /\ TickGoto("mail", orphaned)
  /\ UNCHANGED <<taskVars, runVars, proc, mine, halted, mailVars, up, crashes>>

\* Mutant: only its own synthetic completions wake the leader.
TickMailReaped ==
  /\ tick.at = "mail"
  /\ box' = box \cup tick.reaped
  /\ arrived' = arrived \cup tick.reaped
  /\ \/ tick.reaped # {} /\ Reenqueue
     \/ tick.reaped = {} /\ UNCHANGED wake
  /\ TickGoto("orphans", {})
  /\ UNCHANGED <<task, slot, job, runVars, mateVars, dropped, up, crashes>>

\* ... a synthetic completion is written for each, and the leader is woken
\* for these or for completions it has not read.
TickMail ==
  /\ tick.at = "mail"
  /\ box' = box \cup tick.reaped
  /\ arrived' = arrived \cup tick.reaped
  /\ \/ /\ tick.task = "AWAITING_TEAMMATES"
        /\ tick.reaped # {} \/ Unread # {}
        /\ Reenqueue
     \/ /\ ~ (/\ tick.task = "AWAITING_TEAMMATES"
              /\ tick.reaped # {} \/ Unread # {})
        /\ UNCHANGED wake
  /\ TickGoto("orphans", {})
  /\ UNCHANGED <<task, slot, job, runVars, mateVars, dropped, up, crashes>>

\* Children whose leader had ended and that still are RUNNING.
Orphaned ==
  IF tick.task \in {"DONE", "FAILED", "CANCELLED", "IN_PROGRESS"}
    THEN Running \cap tick.running ELSE {}

\* Mutant: the task always follows its orphans.
OrphansFailTask == Orphaned # {}

\* The task follows its orphans unless it was terminal.
OrphansEndTask == Orphaned # {} /\ tick.task = "IN_PROGRESS"

\* Orphans are FAILED, and a controller of the task is aborted.
TickOrphans ==
  /\ tick.at = "orphans"
  /\ WriteRows(Orphaned, "FAILED")
  /\ task' = IF OrphansEndTask THEN "FAILED" ELSE task
  /\ \/ /\ Orphaned # {} /\ HasController
        /\ aborted' = TRUE
        /\ halted' = halted \cup mine
     \/ /\ ~(Orphaned # {} /\ HasController)
        /\ UNCHANGED <<aborted, halted>>
  /\ tick' = NoTick
  /\ UNCHANGED <<slot, job, wake, pc, ctx, saved, kept, proc, mine, mailVars, up,
                 crashes>>

TickStep == TickStart \/ TickStale \/ TickAwait \/ TickMail \/ TickOrphans

------------------------------------------------------------------------------
\* The process.

Crash ==
  /\ up
  /\ crashes < MaxCrashes
  /\ up' = FALSE
  /\ crashes' = crashes + 1
  /\ slot' = "out" /\ job' = {} /\ wake' = FALSE
  /\ pc' = "idle" /\ ctx' = {} /\ aborted' = FALSE
  /\ proc' = [t \in Teammates |-> "none"] /\ mine' = {} /\ halted' = {}
  /\ tick' = NoTick
  /\ UNCHANGED <<task, saved, kept, row, old, latest, mailVars>>

\* Mutant: a task that cannot be resumed is left as it is.
BootLeaving ==
  /\ ~up
  /\ up' = TRUE
  /\ \/ task = "EXECUTING" /\ saved # {} /\ Enqueue(UNION saved)
     \/ (task # "EXECUTING" \/ saved = {}) /\ UNCHANGED <<slot, job>>
  /\ UNCHANGED <<task, row, old, latest, wake, runVars, proc, mine, halted>>
  /\ UNCHANGED <<mailVars, tick, crashes>>

\* recoverStaleTasks: an EXECUTING task whose newest runtime row is the
\* leader's, with a checkpoint, is queued again; any other one has failed.
Boot ==
  /\ ~up
  /\ up' = TRUE
  /\ \/ /\ task # "EXECUTING"
        /\ UNCHANGED <<task, slot, job, row, old, latest>>
     \/ /\ task = "EXECUTING"
        /\ latest = "leader"
        /\ saved # {}
        /\ Enqueue(UNION saved)
        /\ UNCHANGED <<task, row, old, latest>>
     \/ /\ task = "EXECUTING"
        /\ latest # "leader" \/ saved = {}
        /\ task' = "FAILED"
        /\ WriteRows(Running, "FAILED")
        /\ UNCHANGED <<slot, job>>
  /\ UNCHANGED <<wake, runVars, proc, mine, halted, mailVars, tick, crashes>>

------------------------------------------------------------------------------
\* A report waits between its two steps only for the first load of its
\* module, a tick between its steps only for the file system or a dispatch;
\* its mailbox step follows at once.
Reporting == "report" \notin Allowed /\ \E t \in Teammates : proc[t] = "report"
Ticking   == \/ tick.at = "mail"
             \/ "tick" \notin Allowed /\ tick.at # "idle"

LeaderStep == StartRun \/ Drain \/ EndTurn \/ BreakOff \/ Finish \/ Leave
MateStep(t) == Spawn(t) \/ Settle(t) \/ Age(t)

Next ==
  \/ up /\ ~Ticking /\ ~Reporting /\ (LeaderStep \/ WakeTimer \/ Cancel)
  \/ up /\ ~Ticking /\ ~Reporting /\ \E t \in Teammates : MateStep(t)
  \/ up /\ ~Ticking /\ ~Reporting /\ \E m \in Messages :
       Post(m) \/ PostBound(m)
  \/ up /\ ~Ticking /\ \E t \in Teammates : Report(t)
  \/ up /\ ~Reporting /\ TickStep
  \/ Crash \/ Boot

Spec == Init /\ [][Next]_vars

\* The event loop runs what is due, the pool has a slot sooner or later,
\* teammates end, and maxTurns ends the loop of every run.
Fairness ==
  /\ SF_vars(up /\ ~Ticking /\ ~Reporting /\ LeaderStep)
  /\ SF_vars(up /\ ~Ticking /\ ~Reporting /\ EndTurn /\ pc' = "completed")
  /\ SF_vars(up /\ ~Ticking /\ ~Reporting /\ WakeTimer)
  /\ \A t \in Teammates :
       /\ SF_vars(up /\ ~Ticking /\ ~Reporting /\ Settle(t))
       /\ SF_vars(up /\ ~Ticking /\ Report(t))
  /\ WF_vars(up /\ ~Reporting /\ TickStep)
  /\ WF_vars(Boot)

FairSpec == Spec /\ Fairness
------------------------------------------------------------------------------
\* A task in EXECUTING has a job in the worker, whatever stamps the state:
\* intake, resume, wake-up, boot.  It gets into that state without one in a
\* single way: its run had written the final state and was about to leave the
\* worker.  Only the stuck-task reaper ends it then.
Ownerless == up /\ task = "EXECUTING" /\ slot = "out"

ExecutingIsOwned == [][Ownerless' => Ownerless \/ pc = "deliver"]_vars

\* Nobody moves the task while a run is in its loop, except a cancel: the
\* reaper, the wake-ups and the boot scan all act on what they read earlier.
LiveRunKeepsTask ==
  pc \in InLoop \cup Ended => task \in {"EXECUTING", "CANCELLED"}

\* A parked leader always has somebody who will wake it: a teammate whose
\* promise is still to report, a completion the next tick finds, or a wake-up
\* already on its way.
AwaitingHasWaker ==
  up /\ task = "AWAITING_TEAMMATES"
    => \/ \E t \in Teammates : proc[t] # "none"
       \/ Unread # {} \/ tick.reaped # {} \/ wake \/ slot # "out"

\* "Without this check, the task would transition to DONE and the completion
\* injection would be orphaned" (process-task-intent-service.ts:1984-1989):
\* no finished teammate's result lies unread in the mailbox of a DONE task.
CompletedWorkIsSeen ==
  task = "DONE" => \A t \in Teammates : row[t] = "COMPLETED" => t \notin box

\* "Otherwise we'd clobber a legitimately-completed child back to FAILED"
\* (runtime-recovery-service.ts:817-822): a completed row stays completed, but
\* for a row a recovery tick read as RUNNING at its start, and writes after an
\* await: as stale, or as left behind by a process that is gone.
CompletedStaysCompleted ==
  [][\A t \in Teammates : row[t] = "COMPLETED" /\ row'[t] # "COMPLETED" =>
       /\ t \in tick.running
       /\ \/ tick.at = "stale" /\ t \in tick.old
          \/ tick.at = "await" /\ proc[t] = "none" /\ ~HasController]_vars

\* Everything that reached the task is in the mailbox, in a queued job, in
\* the live run, or in a checkpoint, but for the messages of POST /tasks whose
\* job was not taken.
NothingLost ==
  arrived \subseteq box \cup kept \cup job \cup ctx \cup dropped

\* The same of teammates' completions, which only ever come by mailbox: after
\* a crash "the mailbox rows are still pending and will be re-ingested"
\* (autonomous-loop-service.ts:648-656).
CompletionSurvives == arrived \cap Teammates \subseteq box \cup kept \cup ctx

\* As long as its process lives, a leader parked for its teammates runs again,
\* whatever interleaves with reports and ticks.
AwaitingEnds ==
  task = "AWAITING_TEAMMATES"
    ~> task # "AWAITING_TEAMMATES" \/ crashes > 0

\* What the code does not keep: a task in EXECUTING has a job; no message's
\* job is dropped; a completed row stays so whatever a tick read before.
ExecutingHasJob == ~Ownerless
NoMessageDropped == dropped = {}
CompletedIsFinal ==
  [][\A t \in Teammates : row[t] = "COMPLETED" => row'[t] = "COMPLETED"]_vars

\* "the running loop polls the mailbox between turns and picks the message
\* up" (routes/tasks.ts:1298-1300).
MessageIsRead == \A m \in Messages : m \in box ~> m \notin box

\* A cancelled task starts again only for a new message: the final state must
\* not "overwrite the user-visible CANCELLED" (process-task-intent-service.ts).
CancelSticks ==
  [][task = "CANCELLED" /\ task' # "CANCELLED"
       => \E m \in Messages : m \in arrived' \ arrived]_vars

\* "The parent's AbortController (above) already signals in-process teammate
\* loops" (routes/tasks.ts:367-371).
CancelReachesTeammates ==
  task = "CANCELLED"
    => \A t \in Teammates : proc[t] = "working" => t \in halted

\* "The stale-RUNNING reaper misses it because heartbeats keep updatedAt
\* fresh" (runtime-recovery-service.ts:794-795): a teammate at work here is
\* not queued for a second execution.
LiveTeammateNotRequeued ==
  \A t \in Teammates : row[t] = "QUEUED" => proc[t] = "none"

\* A woken leader works on with "checkpoint continuity"
\* (teammate-completion-service.ts): a run starts with all of the latest
\* checkpoint.
WakeKeepsContext ==
  [][StartRun /\ pc' = "top" => UNION saved \subseteq ctx']_vars

\* "Marks it FAILED if there's no checkpoint to resume from"
\* (crash-recovery-service.ts): with one, an interrupted task is requeued.
BootResumesCheckpoint ==
  [][Boot /\ task = "EXECUTING" /\ saved # {} => slot' = "queued"]_vars
==============================================================================
