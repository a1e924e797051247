------------------------------ MODULE Dispatch ------------------------------
(***************************************************************************)
(* One run and those who dispatch it: dispatch-run-service.ts with the     *)
(* executor adapters it calls, the retry of run-control-service.ts, the    *)
(* stale-run section of runtime-recovery-service.ts and the circuits of    *)
(* executor-circuit-breaker-service.ts, a file that every dispatcher reads *)
(* and rewrites as a whole.  An action is what runs between two awaits of  *)
(* the outside world.  The database does not fail.                         *)
(***************************************************************************)
EXTENDS Integers

CONSTANTS
  Requests,     \* of the user, each a POST dispatch or a POST retry
  N,            \* the run's route has N targets
  Soft,         \* adapters whose configuration failures reroute: model, for a leader
  Threshold,    \* getFailureThreshold
  MaxAttempts,  \* getRecoveryMaxAttempts
  MaxTime,      \* how often the open window may pass
  Faults        \* a subset of {"throw", "crash"}

ASSUME DispatchAssumption ==
  /\ "recovery" \notin Requests
  /\ N \in Nat \ {0}
  /\ Threshold \in Nat \ {0}
  /\ MaxAttempts \in Nat \ {0}
  /\ MaxTime \in Nat

\* In the route's order.
Adapters == 1 .. N

\* The tick of the recovery loop dispatches too; recoveryLoopInFlight allows one.
Dispatchers == Requests \cup {"recovery"}

VARIABLES
  state, attempts,  \* of the run's row
  task,             \* state of the task's row
  now,
  store, text,      \* the circuits, and what the file's text is
  pc, me,           \* of each dispatcher: where it stands, and its locals
  failures,         \* history: failures of each adapter since its last success
  lost,             \* history: adapters whose last success may be overwritten
  orphan            \* history: a dispatcher died since state was last written

rows == <<state, attempts, task>>
file == <<store, text>>
history == <<failures, lost>>

vars == <<rows, now, file, pc, me, history, orphan>>

------------------------------------------------------------------------------
Entry == [count : 0 .. Threshold, until : Nat]
Store == [Adapters -> Entry]

\* todo: ready targets to try; moved: one was skipped or failed; at: the one it
\* is on; seen: attemptCount when it read the row; mine: the store it will write.
Locals == [todo : SUBSET Adapters, moved : BOOLEAN, at : Adapters, seen : Nat,
           outcome : {"none", "ok", "transient", "hard"}, mine : Store]

TypeOK ==
  /\ state \in {"QUEUED", "RUNNING", "FAILED", "COMPLETED"}
  /\ attempts \in Nat
  /\ task \in {"IN_PROGRESS", "BLOCKED"}
  /\ now \in Nat
  /\ store \in Store
  /\ text \in {"json", "empty", "mixed"}
  /\ pc \in [Dispatchers -> {"idle", "retry", "scanned", "begin", "next", "prepare",
                             "execute", "load", "save", "write", "done"}]
  /\ me \in [Dispatchers -> Locals]
  /\ failures \in [Adapters -> 0 .. Threshold]
  /\ lost \subseteq Adapters
  /\ orphan \in BOOLEAN

emptyStore == [a \in Adapters |-> [count |-> 0, until |-> 0]]

Fresh == [todo |-> {}, moved |-> FALSE, at |-> 1, seen |-> 0,
          outcome |-> "none", mine |-> emptyStore]

\* The last process leaves a run and circuits.
Init ==
  /\ \/ state = "QUEUED" /\ attempts = 0 /\ orphan = FALSE
     \/ state = "RUNNING" /\ attempts = 1 /\ orphan = TRUE
  /\ task = "IN_PROGRESS"
  /\ now = 1
  /\ \E n \in 0 .. Threshold :
       /\ failures = [a \in Adapters |-> n]
       /\ store = [a \in Adapters |->
                    [count |-> n, until |-> IF n = Threshold THEN now + 1 ELSE 0]]
  /\ text = "json"
  /\ lost = {}
  /\ pc = [d \in Dispatchers |-> "idle"]
  /\ me = [d \in Dispatchers |-> Fresh]

\* One statement writes the run's state.
Becomes(s) == state' = s /\ orphan' = FALSE

Goto(d, p) == pc' = [pc EXCEPT ![d] = p]

\* A request is over; the recovery loop ticks again.
Over(d) == IF d = "recovery" THEN "idle" ELSE "done"

Leave(d) == /\ Goto(d, Over(d))
            /\ me' = [me EXCEPT ![d] = Fresh]

------------------------------------------------------------------------------
(* The circuits.                                                           *)

\* readStore: what does not parse is an empty store.
readStore == IF text = "json" THEN store ELSE emptyStore

\* resolveState.
Open(e) == e.until > now
HalfOpen(e) == e.until > 0 /\ e.until <= now

\* Above the threshold counts are alike.
OneMore(n) == IF n < Threshold THEN n + 1 ELSE n

\* recordExecutorCircuitFailure.
Failed(e) ==
  LET count == IF HalfOpen(e) THEN Threshold ELSE OneMore(e.count)
  IN [count |-> count, until |-> IF count = Threshold THEN now + 1 ELSE e.until]

\* recordExecutorCircuitSuccess.  Mutant: the count outlives a success.
SucceededCounting(e) == [e EXCEPT !.until = 0]
Succeeded(e) == [count |-> 0, until |-> 0]

\* After the events of the result the file is read, and one entry replaced.
Load(d) ==
  LET a == me[d].at
      ok == me[d].outcome = "ok"
      new == [readStore EXCEPT ![a] = IF ok THEN Succeeded(@) ELSE Failed(@)]
  IN /\ pc[d] = "load"
     /\ me' = [me EXCEPT ![d].mine = new]
     /\ failures' = IF ok THEN failures ELSE [failures EXCEPT ![a] = OneMore(@)]
     /\ Goto(d, "save")
     /\ UNCHANGED <<rows, now, file, lost, orphan>>

\* writeFile opens the file and cuts it off ...
Truncate(d) ==
  /\ pc[d] = "save"
  /\ text' = "empty"
  /\ Goto(d, "write")
  /\ UNCHANGED <<rows, now, store, me, history, orphan>>

\* Another writer's store was read before this success, and counts failures.
Overtaken(d) == \E e \in Dispatchers \ {d} :
                  LET old == me[e].mine[me[d].at]
                  IN old.count > 0 \/ old.until > 0

\* What the write of a success ends.
Forgiven(d) ==
  IF me[d].outcome = "ok"
    THEN /\ failures' = [failures EXCEPT ![me[d].at] = 0]
         /\ lost' = IF Overtaken(d) THEN lost \cup {me[d].at}
                                    ELSE lost \ {me[d].at}
    ELSE UNCHANGED history

\* ... and writes it: over the text of another writer, if one came between.
\* After a success the dispatch is over; a failure waits and goes on.
Write(d) ==
  /\ pc[d] = "write"
  /\ store' = me[d].mine
  /\ IF text = "empty" THEN text' = "json" ELSE text' \in {"json", "mixed"}
  /\ \/ me[d].outcome = "ok" /\ Leave(d)
     \/ /\ me[d].outcome # "ok"
        /\ Goto(d, "next")
        /\ me' = [me EXCEPT ![d].mine = emptyStore, ![d].at = 1, ![d].seen = 0]
  /\ Forgiven(d)
  /\ UNCHANGED <<rows, now, orphan>>

\* The open window of every circuit opened so far passes.
Elapse ==
  /\ now <= MaxTime
  /\ now' = now + 1
  /\ UNCHANGED <<rows, file, pc, me, history, orphan>>

------------------------------------------------------------------------------
(* dispatchRun.                                                            *)

\* buildRuntimeDispatchBlock.
Blocked == state \in {"RUNNING", "COMPLETED"}

\* The run cannot start: its row and its task are written without another look.
\* Mutant: the task is forgotten.
FailRowOnly(d) == /\ Becomes("FAILED")
                  /\ attempts' = me[d].seen + 1
                  /\ UNCHANGED task
FailRow(d) == /\ Becomes("FAILED")
              /\ attempts' = me[d].seen + 1
              /\ task' = "BLOCKED"

Dispatch(d) ==
  /\ d \in Requests /\ pc[d] = "idle"
  /\ Goto(d, "begin")
  /\ UNCHANGED <<rows, now, file, me, history, orphan>>

\* The row as it is read here is checked once its routing is known.
Refused(d) ==
  /\ pc[d] = "begin"
  /\ Blocked
  /\ Leave(d)
  /\ UNCHANGED <<rows, now, file, history, orphan>>

\* A leader without a route, or a route without an adapter, changes nothing.
Unroutable(d) ==
  /\ pc[d] = "begin"
  /\ Leave(d)
  /\ UNCHANGED <<rows, now, file, history, orphan>>

\* resolveDispatchTargets, and the filter by readiness.
Route(d) ==
  /\ pc[d] = "begin"
  /\ ~Blocked
  /\ \E ready \in SUBSET Adapters :
       me' = [me EXCEPT ![d] = [Fresh EXCEPT !.todo = ready, !.seen = attempts]]
  /\ Goto(d, "next")
  /\ UNCHANGED <<rows, now, file, history, orphan>>

NoReadyTarget(d) ==
  /\ pc[d] = "next" /\ me[d].todo = {} /\ ~me[d].moved
  /\ FailRow(d)
  /\ Leave(d)
  /\ UNCHANGED <<now, file, history>>

Target(d, a) == /\ pc[d] = "next"
                /\ a \in me[d].todo
                /\ \A b \in me[d].todo : a <= b

Skip(d, a) ==
  /\ Target(d, a)
  /\ Open(readStore[a])
  /\ me' = [me EXCEPT ![d].todo = @ \ {a}, ![d].moved = TRUE]
  /\ UNCHANGED <<rows, now, file, pc, history, orphan>>

\* The latest row is checked again.
Stop(d, a) ==
  /\ Target(d, a)
  /\ ~Open(readStore[a])
  /\ Blocked
  /\ Leave(d)
  /\ UNCHANGED <<rows, now, file, history, orphan>>

\* After a reroute the task is in progress once more.
\* Mutant: the row is marked before the executor has accepted it.
EnterRunning(d, a) ==
  /\ Target(d, a)
  /\ ~Open(readStore[a])
  /\ ~Blocked
  /\ me' = [me EXCEPT ![d].todo = @ \ {a}, ![d].at = a, ![d].seen = attempts]
  /\ task' = IF me[d].moved THEN "IN_PROGRESS" ELSE task
  /\ Goto(d, "prepare")
  /\ Becomes("RUNNING")
  /\ UNCHANGED <<attempts, now, file, history>>
Enter(d, a) ==
  /\ Target(d, a)
  /\ ~Open(readStore[a])
  /\ ~Blocked
  /\ me' = [me EXCEPT ![d].todo = @ \ {a}, ![d].at = a, ![d].seen = attempts]
  /\ task' = IF me[d].moved THEN "IN_PROGRESS" ELSE task
  /\ Goto(d, "prepare")
  /\ UNCHANGED <<state, attempts, now, file, history, orphan>>

\* No target is left: the last result stands, or every circuit was open.
Return(d) ==
  /\ pc[d] = "next" /\ me[d].todo = {}
  /\ me[d].outcome # "none"
  /\ Leave(d)
  /\ UNCHANGED <<rows, now, file, history, orphan>>

Unavailable(d) ==
  /\ pc[d] = "next" /\ me[d].todo = {} /\ me[d].moved
  /\ me[d].outcome = "none"
  /\ FailRow(d)
  /\ Leave(d)
  /\ UNCHANGED <<now, file, history>>

------------------------------------------------------------------------------
(* The adapter's execute, and what dispatchRun makes of its result.        *)

Settle(d, o) == me' = [me EXCEPT ![d].outcome = o, ![d].moved = TRUE]

\* A failure of the configuration ends the dispatch, except for a leader's model.
Hard(d) ==
  \/ me[d].at \notin Soft /\ Leave(d)
  \/ me[d].at \in Soft /\ Settle(d, "hard") /\ Goto(d, "next")

\* The adapter is not configured.
Decline(d) ==
  /\ pc[d] = "prepare"
  /\ FailRow(d)
  /\ Hard(d)
  /\ UNCHANGED <<now, file, history>>

\* Mutant: the attempt is not counted.
CountNone(d) == attempts' = me[d].seen
Count(d) == attempts' = me[d].seen + 1

\* Workspace, context and contract are ready.
Start(d) ==
  /\ pc[d] = "prepare"
  /\ Becomes("RUNNING")
  /\ Count(d)
  /\ task' = "IN_PROGRESS"
  /\ Goto(d, "execute")
  /\ UNCHANGED <<now, file, me, history>>

Complete(d) ==
  /\ pc[d] = "execute"
  /\ Becomes("COMPLETED")
  /\ Settle(d, "ok")
  /\ Goto(d, "load")
  /\ UNCHANGED <<attempts, task, now, file, history>>

\* classifyExecutorDispatchFailure: a timeout is transient, a refused key is not.
Fail(d) ==
  /\ pc[d] = "execute"
  /\ Becomes("FAILED")
  /\ task' = "BLOCKED"
  /\ \/ Settle(d, "transient") /\ Goto(d, "load")
     \/ Hard(d)
  /\ UNCHANGED <<attempts, now, file, history>>

\* A file, git or a module fails outside of any try.
Throw(d) ==
  /\ "throw" \in Faults
  /\ pc[d] \in {"begin", "prepare", "execute", "load", "save", "write"}
  /\ orphan' = TRUE
  /\ Leave(d)
  /\ UNCHANGED <<rows, now, file, history>>

------------------------------------------------------------------------------
(* Retry and recovery.                                                     *)

\* The row is checked, then the working directory of the last attempt looked up.
Retry(d) ==
  /\ d \in Requests /\ pc[d] = "idle"
  /\ Goto(d, IF state = "RUNNING" THEN "done" ELSE "retry")
  /\ UNCHANGED <<rows, now, file, me, history, orphan>>

Requeue(d) ==
  /\ pc[d] = "retry"
  /\ Becomes("QUEUED")
  /\ task' = "IN_PROGRESS"
  /\ Goto(d, "begin")
  /\ UNCHANGED <<attempts, now, file, me, history>>

\* The tick reads the row, then looks for workspaces on disk.  Nothing refreshes
\* updatedAt while a run executes: a slow run is as stale as a dead one.  Rows of
\* a task that a leader's run holds in EXECUTING are passed over; only LeaderTask
\* has such tasks.
Scan ==
  /\ pc["recovery"] = "idle"
  /\ state = "RUNNING"
  /\ me' = [me EXCEPT !["recovery"].seen = attempts]
  /\ Goto("recovery", "scanned")
  /\ UNCHANGED <<rows, now, file, history, orphan>>

\* It writes what follows from the row as it was read.
GiveUp ==
  /\ pc["recovery"] = "scanned"
  /\ me["recovery"].seen >= MaxAttempts
  /\ Becomes("FAILED")
  /\ task' = "BLOCKED"
  /\ Leave("recovery")
  /\ UNCHANGED <<attempts, now, file, history>>

Recover ==
  /\ pc["recovery"] = "scanned"
  /\ me["recovery"].seen < MaxAttempts
  /\ Becomes("QUEUED")
  /\ task' = "IN_PROGRESS"
  /\ Goto("recovery", "begin")
  /\ UNCHANGED <<attempts, now, file, me, history>>

\* What was at work is gone; the rows and the file stay as they are.
Crash ==
  /\ "crash" \in Faults
  /\ \E d \in Dispatchers : pc[d] \notin {"idle", "done"}
  /\ pc' = [d \in Dispatchers |-> IF pc[d] = "idle" THEN "idle" ELSE Over(d)]
  /\ me' = [d \in Dispatchers |-> Fresh]
  /\ orphan' = TRUE
  /\ UNCHANGED <<rows, now, file, history>>

------------------------------------------------------------------------------
Request(d) == Dispatch(d) \/ Retry(d)

Run(d) == \/ Requeue(d) \/ Refused(d) \/ Unroutable(d) \/ Route(d)
          \/ NoReadyTarget(d)
          \/ \E a \in Adapters : Skip(d, a) \/ Stop(d, a) \/ Enter(d, a)
          \/ Return(d) \/ Unavailable(d)
          \/ Decline(d) \/ Start(d) \/ Complete(d) \/ Fail(d)
          \/ Load(d) \/ Truncate(d) \/ Write(d)

Next == \/ \E d \in Dispatchers : Request(d) \/ Run(d) \/ Throw(d)
        \/ Scan \/ GiveUp \/ Recover
        \/ Elapse
        \/ Crash

Spec == Init /\ [][Next]_vars

\* What was begun goes on: an executor ends at its time limit.  The recovery
\* loop ticks, and the process does not die within every tick.
FairSpec == /\ Spec
            /\ \A d \in Dispatchers : WF_vars(Run(d))
            /\ WF_vars(Scan)
            /\ SF_vars(GiveUp \/ Recover)

------------------------------------------------------------------------------
(* Properties.                                                             *)

\* A row that says RUNNING is at work: whichever dispatchers overlap, and
\* whatever recovery takes from whom, the last to leave settles it.  Only a
\* dispatcher that threw or died leaves such a row behind.
RunningIsExecuted ==
  state = "RUNNING" => orphan \/ \E d \in Dispatchers : pc[d] = "execute"

\* A failed run blocks its task, so that its user sees it: also when attempts
\* overlap, the exception is an attempt that has yet to start.
FailedIsBlocked ==
  state = "FAILED" /\ task # "BLOCKED"
  => orphan \/ \E d \in Dispatchers : pc[d] = "prepare"

\* A circuit is open only if the adapter failed as often as it takes since its
\* last success: updates of the file that are lost, and files that do not
\* parse, only forget failures.  The exception is a success that was written
\* while another writer still held an older store.
OpenIsEarned ==
  \A a \in Adapters :
    readStore[a].until > 0 => failures[a] = Threshold \/ a \in lost

\* What the code does not keep: that write puts the failures back, and the
\* circuit opens before there were as many in a row.
OpenIsInARow ==
  \A a \in Adapters : readStore[a].until > 0 => failures[a] = Threshold

\* However often executors throw or the process dies, recovery gives a run up:
\* it does not execute for ever, and does not stay RUNNING.
RunComesToRest == <>[](state # "RUNNING")
=============================================================================
