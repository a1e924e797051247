------------------------------ MODULE Scheduler ------------------------------
(***************************************************************************)
(* The scheduler of services/scheduled-task-service.ts: rows with a cron   *)
(* expression, the periodic tick that spawns a task for every row that is  *)
(* due, the user's edits between the tick's awaits, and a process that may *)
(* die between any two of them.  The user's handlers are single steps: the *)
(* database driver is synchronous.  The database does not fail.            *)
(***************************************************************************)
EXTENDS Naturals, Sequences

CONSTANTS
  Schedules,  \* ids of scheduled_tasks rows, never used twice
  Crons,      \* cron expressions: the period they fire at
  MaxClock,   \* bound on the clock
  MaxCrashes  \* bound on process deaths

ASSUME SchedulerAssumption == /\ Crons \subseteq Nat \ {0}
                              /\ MaxClock \in Nat
                              /\ MaxCrashes \in Nat

VARIABLES
  row,    \* the scheduled_tasks rows
  tasks,  \* what was spawned for each, oldest first
  pc,     \* where the tick stands; "idle": schedulerLoopInFlight is false
  now,    \* its start
  due,    \* rows as it read them and has yet to process
  cur,    \* the one in work
  clock, crashes

tickVars == <<pc, now, due, cur>>
hostVars == <<clock, crashes>>
vars == <<row, tasks, tickVars, hostVars>>

------------------------------------------------------------------------------
\* next is nextRunAt, 0 for null; last is the number of lastTaskId, 0 for null.
Row == [life : {"none", "live", "deleted"}, enabled : BOOLEAN, cron : Crons,
        next : Nat, last : Nat]

\* A task remembers the slot and the tick it was spawned for, whether it has
\* ended before, and whether its id reached the row.
Task == [slot : Nat, at : Nat, running : BOOLEAN, ended : BOOLEAN,
         recorded : BOOLEAN]

Snapshot == [id : Schedules, row : Row]

TypeOK == /\ row \in [Schedules -> Row]
          /\ tasks \in [Schedules -> Seq(Task)]
          /\ \A s \in Schedules : row[s].last \in 0 .. Len(tasks[s])
          /\ pc \in {"idle", "loop", "check", "spawn", "record"}
          /\ now \in Nat
          /\ due \subseteq Snapshot
          /\ cur \in Snapshot \cup {<<>>}
          /\ pc \in {"check", "spawn", "record"} => cur \in Snapshot
          /\ clock \in Nat
          /\ crashes \in Nat

computeNextRunAt(cron, from) == cron * (from \div cron + 1)

Init == /\ \E c \in Crons :
             row = [s \in Schedules |-> [life |-> "none", enabled |-> FALSE,
                                         cron |-> c, next |-> 0, last |-> 0]]
        /\ tasks = [s \in Schedules |-> <<>>]
        /\ pc = "idle"
        /\ now = 0
        /\ due = {}
        /\ cur = <<>>
        /\ clock = 1
        /\ crashes = 0

SlotFrom(cron, enabled) == IF enabled THEN computeNextRunAt(cron, clock) ELSE 0

------------------------------------------------------------------------------
createSchedule(s) ==
  /\ row[s].life = "none"
  /\ \E c \in Crons, e \in BOOLEAN :
       row' = [row EXCEPT ![s] = [life |-> "live", enabled |-> e, cron |-> c,
                                  next |-> SlotFrom(c, e), last |-> 0]]
  /\ UNCHANGED <<tasks, tickVars, hostVars>>

\* A PATCH of the expression or of enabled, which recomputes the slot (one of
\* other fields changes nothing here).
updateSchedule(s) ==
  /\ row[s].life = "live"
  /\ \E c \in Crons, e \in BOOLEAN :
       row' = [row EXCEPT ![s] = [@ EXCEPT !.cron = c, !.enabled = e,
                                           !.next = SlotFrom(c, e)]]
  /\ UNCHANGED <<tasks, tickVars, hostVars>>

deleteSchedule(s) ==
  /\ row[s].life = "live"
  /\ row' = [row EXCEPT ![s] = [@ EXCEPT !.life = "deleted", !.enabled = FALSE,
                                        !.next = 0, !.last = 0]]
  /\ UNCHANGED <<tasks, tickVars, hostVars>>

------------------------------------------------------------------------------
IsDue(s) == /\ row[s].life = "live"
            /\ row[s].enabled
            /\ row[s].next # 0
            /\ row[s].next <= clock

\* The timer fires.
StartTick ==
  /\ pc = "idle"
  /\ now' = clock
  /\ due' = {[id |-> s, row |-> row[s]] : s \in {t \in Schedules : IsDue(t)}}
  /\ pc' = "loop"
  /\ UNCHANGED <<row, tasks, cur, hostVars>>

SetRow(s, r) == row' = [row EXCEPT ![s] = IF @.life = "live" THEN r ELSE @]

BackToLoop == pc' = "loop" /\ cur' = <<>>

Running(s, i) == i # 0 /\ tasks[s][i].running

\* Mutants: the slot advances from the old slot; only when the task is spawned.
AdvanceBySlot ==
  /\ pc = "loop"
  /\ \E d \in due :
       /\ SetRow(d.id, [row[d.id] EXCEPT
                          !.next = computeNextRunAt(d.row.cron, d.row.next)])
       /\ cur' = d
       /\ due' = due \ {d}
  /\ pc' = "check"
  /\ UNCHANGED <<tasks, now, hostVars>>
AdvanceIfFree ==
  /\ pc = "loop"
  /\ \E d \in due :
       /\ IF Running(d.id, d.row.last) THEN UNCHANGED row ELSE
            SetRow(d.id, [row[d.id] EXCEPT
                            !.next = computeNextRunAt(d.row.cron, now)])
       /\ cur' = d
       /\ due' = due \ {d}
  /\ pc' = "check"
  /\ UNCHANGED <<tasks, now, hostVars>>
\* "Advance the slot FIRST": from the expression as the tick read it.
Advance ==
  /\ pc = "loop"
  /\ \E d \in due :
       /\ SetRow(d.id, [row[d.id] EXCEPT
                          !.next = computeNextRunAt(d.row.cron, now)])
       /\ cur' = d
       /\ due' = due \ {d}
  /\ pc' = "check"
  /\ UNCHANGED <<tasks, now, hostVars>>

\* The overlap guard.
Check ==
  /\ pc = "check"
  /\ \/ Running(cur.id, cur.row.last) /\ BackToLoop
     \/ ~Running(cur.id, cur.row.last) /\ pc' = "spawn" /\ UNCHANGED cur
  /\ UNCHANGED <<row, tasks, now, due, hostVars>>

\* processTaskIntent creates a task that runs, or refuses (a workspace that
\* is gone) and the failure is noted.
Spawn ==
  /\ pc = "spawn"
  /\ \/ /\ tasks' = [tasks EXCEPT ![cur.id] = Append(@,
                       [slot |-> cur.row.next, at |-> now, running |-> TRUE,
                        ended |-> FALSE, recorded |-> FALSE])]
        /\ pc' = "record"
        /\ UNCHANGED cur
     \/ BackToLoop /\ UNCHANGED tasks
  /\ UNCHANGED <<row, now, due, hostVars>>

\* Mutant: no id is written.
RecordNothing ==
  /\ pc = "record"
  /\ BackToLoop
  /\ UNCHANGED <<row, tasks, now, due, hostVars>>
Record ==
  /\ pc = "record"
  /\ LET s == cur.id
         i == Len(tasks[cur.id]) IN
       /\ SetRow(s, [row[s] EXCEPT !.last = i])
       /\ tasks' = [tasks EXCEPT ![s][i] = [@ EXCEPT !.recorded = TRUE]]
  /\ BackToLoop
  /\ UNCHANGED <<now, due, hostVars>>

EndTick ==
  /\ pc = "loop"
  /\ due = {}
  /\ pc' = "idle"
  /\ now' = 0
  /\ UNCHANGED <<row, tasks, due, cur, hostVars>>

------------------------------------------------------------------------------
\* A task reaches a terminal state; a follow-up of its user starts it again.
TaskEnds(s) ==
  /\ \E i \in DOMAIN tasks[s] :
       /\ tasks[s][i].running
       /\ tasks' = [tasks EXCEPT ![s][i] =
                       [@ EXCEPT !.running = FALSE, !.ended = TRUE]]
  /\ UNCHANGED <<row, tickVars, hostVars>>

FollowUp(s) ==
  /\ \E i \in DOMAIN tasks[s] :
       /\ ~tasks[s][i].running
       /\ tasks' = [tasks EXCEPT ![s][i] = [@ EXCEPT !.running = TRUE]]
  /\ UNCHANGED <<row, tickVars, hostVars>>

\* The process dies and is started again; what happens to its tasks is not
\* this module's concern (TaskEnds, at any time).
Crash ==
  /\ crashes < MaxCrashes
  /\ crashes' = crashes + 1
  /\ pc' = "idle"
  /\ due' = {}
  /\ cur' = <<>>
  /\ now' = 0
  /\ UNCHANGED <<row, tasks, clock>>

ClockTick ==
  /\ clock < MaxClock
  /\ clock' = clock + 1
  /\ UNCHANGED <<row, tasks, tickVars, crashes>>

TickStep == StartTick \/ Advance \/ Check \/ Spawn \/ Record \/ EndTick

Next == \/ \E s \in Schedules : \/ createSchedule(s) \/ updateSchedule(s)
                                \/ deleteSchedule(s)
                                \/ TaskEnds(s) \/ FollowUp(s)
        \/ TickStep \/ Crash \/ ClockTick

Spec == Init /\ [][Next]_vars

\* The timer fires again and again, and its awaits return (processTaskIntent
\* hands a web task to the worker and does not wait for it).
FairSpec == Spec /\ WF_vars(TickStep)
------------------------------------------------------------------------------
\* "At-most-once per slot", and "a schedule that came due while the server
\* was down fires ONCE": a later task of a schedule is for a slot after the
\* tick that spawned the earlier one, through crashes, long ticks and edits.
FiresOncePerSlot ==
  \A s \in Schedules : \A j \in DOMAIN tasks[s] : \A i \in 1 .. j - 1 :
    tasks[s][i].at < tasks[s][j].slot

\* "If the previously spawned task is still non-terminal, the trigger is
\* skipped": when a task is spawned all earlier ones have ended, but for one
\* whose tick died before it wrote the id.
NoOverlap ==
  \A s \in Schedules : \A j \in DOMAIN tasks[s] : \A i \in 1 .. j - 1 :
    tasks[s][i].ended \/ (crashes > 0 /\ ~tasks[s][i].recorded)

\* No slot stays due: it is fired, skipped, or taken away by the user,
\* however long the previous task runs.
DueIsConsumed ==
  \A s \in Schedules : \A k \in 1 .. MaxClock :
    IsDue(s) /\ row[s].next = k ~> ~(IsDue(s) /\ row[s].next = k)

\* "A disabled schedule keeps nextRunAt=null" (scheduled-task-service.ts:126):
\* not when the user disables it after the tick has read it.
DisabledHasNoSlot ==
  \A s \in Schedules :
    row[s].life = "live" /\ ~row[s].enabled => row[s].next = 0

\* The slot of an enabled schedule is one of its expression's: not when the
\* user changes the expression after the tick has read it.
SlotIsOfCron ==
  \A s \in Schedules :
    row[s].life = "live" /\ row[s].enabled => row[s].next % row[s].cron = 0
==============================================================================
