--------------------------- MODULE LeaderTaskProofs ---------------------------
(***************************************************************************)
(* What holds of one leader task for every set of teammates and messages,  *)
(* every choice of what may happen and every number of restarts.           *)
(***************************************************************************)
EXTENDS LeaderTask, TLAPS

\* The run's program counter and TaskWorker's active set agree.
SlotIsRun == slot = "active" <=> pc # "idle"

\* A dead process has no job, no run and no tick.
DeadIsStill == ~up => slot = "out" /\ pc = "idle" /\ tick = NoTick

OwnedInv == TypeOK /\ SlotIsRun /\ DeadIsStill

\* A step leaves an executing task without a job only from "deliver".
OwnedBy == Ownerless' => Ownerless \/ pc = "deliver"

\* Without teammates past the stale threshold nothing is queued again.
NothingStale == /\ old = {} /\ tick.old = {}
                /\ task # "IN_PROGRESS" /\ tick.task # "IN_PROGRESS"

LiveInv == OwnedInv /\ NothingStale /\ LiveRunKeepsTask

\* A stale row is a RUNNING row, and so it was when a tick read it.
OldRunning == \A t \in old : row[t] = "RUNNING"
TickReads  == tick.old \subseteq tick.running

RowsInv == TypeOK /\ OldRunning /\ TickReads
------------------------------------------------------------------------------
\* A write of some rows keeps the tables in their types.
LEMMA WriteRowsTypes ==
  ASSUME TypeOK, NEW S \in SUBSET Teammates, NEW state \in Rows,
         WriteRows(S, state)
  PROVE  /\ row' \in [Teammates -> Rows]
         /\ old' \in SUBSET Teammates
         /\ latest' \in {"leader", "teammate"}
  BY DEF TypeOK, WriteRows

\* A write of some rows leaves the other ones alone, and its own are no
\* longer stale.
LEMMA WriteRowsEffect ==
  ASSUME TypeOK, NEW S \in SUBSET Teammates, NEW state \in Rows,
         WriteRows(S, state)
  PROVE  /\ \A t \in Teammates : row'[t] = IF t \in S THEN state ELSE row[t]
         /\ old' = old \ S
  BY DEF TypeOK, WriteRows

\* TaskWorker.enqueue keeps the slot and the job in their types.
LEMMA EnqueueTypes ==
  ASSUME TypeOK, NEW items \in SUBSET Items, Enqueue(items)
  PROVE  slot' \in {"out", "queued", "active"} /\ job' \in SUBSET Items
  BY DEF TypeOK, Enqueue

\* What the checkpoints hold are items.
LEMMA SavedItems == TypeOK => UNION saved \in SUBSET Items
  BY DEF TypeOK

\* An idle tick has read nothing.
LEMMA NoTickType ==
  NoTick \in [at : {"idle", "stale", "await", "mail", "orphans"},
              task : TaskStates, running : SUBSET Teammates,
              old : SUBSET Teammates, reaped : SUBSET Teammates]
  BY DEF NoTick, TaskStates

\* The task as POST /tasks leaves it has the types of TypeOK.
LEMMA TypeInit == Init => TypeOK
  <1> SUFFICES ASSUME Init PROVE TypeOK
    OBVIOUS
  <1>1. tick \in [at : {"idle", "stale", "await", "mail", "orphans"},
                 task : TaskStates, running : SUBSET Teammates,
                 old : SUBSET Teammates, reaped : SUBSET Teammates]
    BY NoTickType DEF Init
  <1>2. saved \subseteq SUBSET Items
    BY DEF Init
  <1>3. row \in [Teammates -> Rows]
    BY DEF Init, Rows
  <1>4. proc \in [Teammates -> {"none", "working", "report"}]
    BY DEF Init
  <1>5. task \in TaskStates /\ pc \in {"idle", "deliver"} \cup InLoop \cup Ended
    BY DEF Init, TaskStates
  <1> QED BY <1>1, <1>2, <1>3, <1>4, <1>5 DEF Init, TypeOK, Items
------------------------------------------------------------------------------
\* Every handler, tick and restart keeps the types.
LEMMA TypeStep == TypeOK /\ [Next]_vars => TypeOK'
  <1> SUFFICES ASSUME TypeOK, [Next]_vars PROVE TypeOK'
    OBVIOUS
  <1> USE DEF taskVars, runVars, mateVars, mailVars, hostVars
  <1>1. CASE WakeTimer
    <2>1. slot' \in {"out", "queued", "active"} /\ job' \in SUBSET Items
      BY <1>1, EnqueueTypes DEF WakeTimer
    <2> QED BY <1>1, <2>1 DEF TypeOK, WakeTimer
  <1>2. CASE StartRun
    BY <1>2 DEF TypeOK, StartRun, TaskStates, InLoop
  <1>3. CASE Drain
    BY <1>3 DEF TypeOK, Drain, InLoop, Ended
  <1>4. CASE EndTurn
    BY <1>4 DEF TypeOK, EndTurn, Checkpoint, InLoop, Ended
  <1>5. CASE BreakOff
    BY <1>5 DEF TypeOK, BreakOff, Ended
  <1>6. CASE Finish
    <2>1. FinalState \in TaskStates
      BY <1>6 DEF TypeOK, FinalState, TaskStates
    <2> QED BY <1>6, <2>1 DEF TypeOK, Finish
  <1>7. CASE Leave
    BY <1>7 DEF TypeOK, Leave
  <1>8. ASSUME NEW t \in Teammates, Spawn(t) PROVE TypeOK'
    <2>1. /\ row' \in [Teammates -> Rows]
          /\ old' \in SUBSET Teammates
          /\ latest' \in {"leader", "teammate"}
      BY <1>8, WriteRowsTypes DEF Spawn, Rows
    <2> QED BY <1>8, <2>1 DEF TypeOK, Spawn
  <1>9. ASSUME NEW t \in Teammates, Settle(t) PROVE TypeOK'
    <2>1. /\ row' \in [Teammates -> Rows]
          /\ old' \in SUBSET Teammates
          /\ latest' \in {"leader", "teammate"}
      BY <1>9, WriteRowsTypes DEF Settle, Rows, Running
    <2> QED BY <1>9, <2>1 DEF TypeOK, Settle
  <1>10. ASSUME NEW t \in Teammates, Report(t) PROVE TypeOK'
    BY <1>10 DEF TypeOK, Report, Reenqueue, Items
  <1>11. ASSUME NEW t \in Teammates, Age(t) PROVE TypeOK'
    BY <1>11 DEF TypeOK, Age
  <1>12. ASSUME NEW m \in Messages, Post(m) PROVE TypeOK'
    <2>1. arrived' \subseteq Items /\ box' \subseteq Items
      BY <1>12 DEF TypeOK, Post, Items
    <2>2. slot' \in {"out", "queued", "active"} /\ job' \in SUBSET Items
      <3>1. {m} \cup UNION saved \in SUBSET Items
        BY SavedItems DEF Items
      <3> QED BY <1>12, <3>1, EnqueueTypes DEF Post, TypeOK
    <2>3. task' \in TaskStates /\ latest' \in {"leader", "teammate"}
      BY <1>12 DEF TypeOK, Post, TaskStates
    <2> QED BY <1>12, <2>1, <2>2, <2>3 DEF TypeOK, Post
  <1>18. ASSUME NEW m \in Messages, PostBound(m) PROVE TypeOK'
    <2>1. {m} \cup UNION saved \in SUBSET Items
      BY SavedItems DEF Items
    <2>2. slot' \in {"out", "queued", "active"} /\ job' \in SUBSET Items
      BY <1>18, <2>1, EnqueueTypes DEF PostBound
    <2>3. arrived' \subseteq Items /\ dropped' \subseteq Messages
      BY <1>18 DEF TypeOK, PostBound, Items
    <2>4. task' \in TaskStates /\ latest' \in {"leader", "teammate"}
      BY <1>18 DEF PostBound, TaskStates
    <2> QED BY <1>18, <2>2, <2>3, <2>4 DEF TypeOK, PostBound
  <1>13. CASE Cancel
    <2>1. /\ row' \in [Teammates -> Rows]
          /\ old' \in SUBSET Teammates
          /\ latest' \in {"leader", "teammate"}
      BY <1>13, WriteRowsTypes DEF Cancel, Rows, Running
    <2>2. aborted' \in BOOLEAN /\ halted' \subseteq Teammates
      BY <1>13 DEF Cancel, TypeOK, HasController
    <2> QED BY <1>13, <2>1, <2>2 DEF TypeOK, Cancel, TaskStates
  <1>14. CASE TickStep
    <2>0. Running \in SUBSET Teammates
      BY DEF Running
    <2>1. CASE TickStart
      BY <2>0, <2>1 DEF TickStart, TypeOK
    <2>2. CASE TickStale
      <3> DEFINE stale == IF tick.task = "EXECUTING" THEN {} ELSE tick.old
      <3>1. stale \in SUBSET Teammates /\ "QUEUED" \in Rows
        BY DEF TypeOK, Rows
      <3>2. WriteRows(stale, "QUEUED")
        BY <2>2 DEF TickStale
      <3>3. /\ row' \in [Teammates -> Rows]
            /\ old' \in SUBSET Teammates
            /\ latest' \in {"leader", "teammate"}
        BY <3>1, <3>2, WriteRowsTypes
      <3> QED BY <2>2, <3>3 DEF TickStale, TickGoto, TypeOK, TaskStates
    <2>3. CASE TickAwait
      <3> DEFINE orphaned == {t \in tick.running :
                                /\ tick.task = "AWAITING_TEAMMATES"
                                /\ ~HasController
                                /\ proc[t] = "none"}
      <3>1. orphaned \in SUBSET Teammates /\ "FAILED" \in Rows
        BY DEF TypeOK, Rows
      <3>2. WriteRows(orphaned, "FAILED") /\ TickGoto("mail", orphaned)
        BY <2>3 DEF TickAwait
      <3>3. /\ row' \in [Teammates -> Rows]
            /\ old' \in SUBSET Teammates
            /\ latest' \in {"leader", "teammate"}
        BY <3>1, <3>2, WriteRowsTypes
      <3>4. tick' \in [at : {"idle", "stale", "await", "mail", "orphans"},
                      task : TaskStates, running : SUBSET Teammates,
                      old : SUBSET Teammates, reaped : SUBSET Teammates]
        BY <3>1, <3>2 DEF TickGoto, TypeOK
      <3> QED BY <2>3, <3>3, <3>4 DEF TickAwait, TypeOK
    <2>4. CASE TickMail
      BY <2>4 DEF TickMail, TickGoto, Reenqueue, TypeOK, Items
    <2>5. CASE TickOrphans
      <3>1. Orphaned \in SUBSET Teammates /\ "FAILED" \in Rows
        BY <2>0 DEF Orphaned, Rows
      <3>2. /\ row' \in [Teammates -> Rows]
            /\ old' \in SUBSET Teammates
            /\ latest' \in {"leader", "teammate"}
        BY <2>5, <3>1, WriteRowsTypes DEF TickOrphans
      <3>3. aborted' \in BOOLEAN /\ halted' \subseteq Teammates
        BY <2>5 DEF TickOrphans, TypeOK
      <3>4. task' \in TaskStates
        BY <2>5 DEF TickOrphans, TypeOK, TaskStates
      <3> QED BY <2>5, <3>2, <3>3, <3>4, NoTickType DEF TickOrphans, TypeOK
    <2> QED BY <1>14, <2>1, <2>2, <2>3, <2>4, <2>5 DEF TickStep
  <1>15. CASE Crash
    <2>1. /\ tick' \in [at : {"idle", "stale", "await", "mail", "orphans"},
                       task : TaskStates, running : SUBSET Teammates,
                       old : SUBSET Teammates, reaped : SUBSET Teammates]
          /\ proc' \in [Teammates -> {"none", "working", "report"}]
      BY <1>15, NoTickType DEF Crash
    <2>2. /\ slot' = "out" /\ job' = {} /\ wake' = FALSE /\ aborted' = FALSE
          /\ up' = FALSE /\ pc' = "idle" /\ ctx' = {}
          /\ mine' = {} /\ halted' = {}
      BY <1>15 DEF Crash
    <2>4. crashes' \in Nat
      BY <1>15 DEF Crash, TypeOK
    <2>3. UNCHANGED <<task, saved, kept, row, old, latest, mailVars>>
      BY <1>15 DEF Crash
    <2> QED BY <2>1, <2>2, <2>3, <2>4 DEF TypeOK
  <1>16. CASE Boot
    <2>1. slot' \in {"out", "queued", "active"} /\ job' \in SUBSET Items
      BY <1>16, SavedItems, EnqueueTypes DEF Boot, TypeOK
    <2>2. /\ row' \in [Teammates -> Rows]
          /\ old' \in SUBSET Teammates
          /\ latest' \in {"leader", "teammate"}
      <3>1. Running \in SUBSET Teammates /\ "FAILED" \in Rows
        BY DEF Running, Rows
      <3> QED BY <1>16, <3>1, WriteRowsTypes DEF Boot, TypeOK
    <2>3. task' \in TaskStates
      BY <1>16 DEF Boot, TypeOK, TaskStates
    <2> QED BY <1>16, <2>1, <2>2, <2>3 DEF Boot, TypeOK
  <1>17. CASE UNCHANGED vars
    BY <1>17 DEF vars, TypeOK
  <1> QED
    BY <1>1, <1>2, <1>3, <1>4, <1>5, <1>6, <1>7, <1>8, <1>9, <1>10, <1>11,
       <1>12, <1>13, <1>14, <1>15, <1>16, <1>17, <1>18
    DEF Next, LeaderStep, MateStep

\* The types hold in every reachable state of the task (TypeOK).
THEOREM TypeCorrect == Spec => []TypeOK
  BY TypeInit, TypeStep, PTL DEF Spec
------------------------------------------------------------------------------
\* One step keeps the ownership of an executing task.
LEMMA OwnedStep == OwnedInv /\ [Next]_vars => OwnedInv' /\ OwnedBy
  <1> SUFFICES ASSUME OwnedInv, [Next]_vars PROVE OwnedInv' /\ OwnedBy
    OBVIOUS
  <1>0. TypeOK'
    BY TypeStep DEF OwnedInv
  <1> USE <1>0 DEF OwnedInv, SlotIsRun, DeadIsStill, OwnedBy, Ownerless, taskVars,
          runVars, mateVars, mailVars, hostVars
  <1>1. CASE up /\ WakeTimer
    BY <1>1 DEF WakeTimer, Enqueue
  <1>2. CASE up /\ StartRun
    BY <1>2 DEF StartRun
  <1>3. CASE up /\ (Drain \/ EndTurn \/ BreakOff)
    BY <1>3 DEF Drain, EndTurn, BreakOff, InLoop, Ended
  <1>4. CASE up /\ Finish
    BY <1>4 DEF Finish, FinalState, Ended
  <1>5. CASE up /\ Leave
    BY <1>5 DEF Leave
  <1>6. ASSUME NEW t \in Teammates, up, MateStep(t) \/ Report(t)
        PROVE  OwnedInv' /\ OwnedBy
    BY <1>6 DEF MateStep, Spawn, Settle, Age, Report
  <1>7. ASSUME NEW m \in Messages, up, Post(m) PROVE OwnedInv' /\ OwnedBy
    <2>1. CASE HasController \/ slot = "queued"
      BY <1>7, <2>1 DEF Post
    <2>2. CASE ~(HasController \/ slot = "queued")
      <3>1. slot = "out"
        BY <2>2 DEF HasController, TypeOK
      <3>2. slot' = "queued" /\ UNCHANGED <<pc, up>>
        BY <1>7, <2>2, <3>1 DEF Post, Enqueue
      <3> QED BY <1>7, <3>1, <3>2
    <2> QED BY <2>1, <2>2
  <1>13. ASSUME NEW m \in Messages, up, PostBound(m)
         PROVE  OwnedInv' /\ OwnedBy
    BY <1>13 DEF PostBound, Enqueue, TypeOK
  <1>8. CASE up /\ Cancel
    BY <1>8 DEF Cancel
  <1>9. CASE up /\ TickStep
    BY <1>9 DEF TickStep, TickStart, TickStale, TickAwait, TickMail, TickOrphans
  <1>10. CASE Crash
    BY <1>10 DEF Crash
  <1>11. CASE Boot
    BY <1>11 DEF Boot, Enqueue
  <1>12. CASE UNCHANGED vars
    BY <1>12 DEF vars
  <1> QED
    BY <1>1, <1>2, <1>3, <1>4, <1>5, <1>6, <1>7, <1>8, <1>9, <1>10, <1>11,
       <1>12, <1>13 DEF Next, LeaderStep

\* In the first state the prompt is queued.
LEMMA OwnedInit == Init => OwnedInv
  BY TypeInit DEF Init, OwnedInv, SlotIsRun, DeadIsStill

\* Whoever stamps a task EXECUTING has a job for it in the worker, and nobody
\* takes the job out in that state (ExecutingIsOwned), whatever crashes, ticks
\* and cancels interleave; the one exception is a bound POST /tasks that comes
\* when the run has written its final state and not yet left.
THEOREM ExecutingIsOwnedHolds == Spec => ExecutingIsOwned
  <1>1. OwnedInv /\ [Next]_vars => [Ownerless' => Ownerless \/ pc = "deliver"]_vars
    BY OwnedStep DEF OwnedBy
  <1>2. OwnedInv /\ [Next]_vars => OwnedInv'
    BY OwnedStep
  <1> QED BY <1>1, <1>2, OwnedInit, PTL DEF Spec, ExecutingIsOwned
------------------------------------------------------------------------------
\* One step keeps the state of a live run's task, when no teammate's row gets
\* past the stale threshold.
LEMMA LiveStep ==
  ASSUME Slow = {} PROVE LiveInv /\ [Next]_vars => LiveInv'
  <1> SUFFICES ASSUME LiveInv, [Next]_vars PROVE LiveInv'
    OBVIOUS
  <1>0. OwnedInv' /\ TypeOK
    BY OwnedStep DEF LiveInv, OwnedInv
  <1> USE <1>0 DEF LiveInv, NothingStale, LiveRunKeepsTask, OwnedInv, SlotIsRun,
          DeadIsStill, taskVars, runVars, mateVars, mailVars, hostVars
  <1>1. CASE WakeTimer
    BY <1>1 DEF WakeTimer
  <1>2. CASE StartRun
    BY <1>2 DEF StartRun
  <1>3. CASE Drain \/ EndTurn \/ BreakOff
    BY <1>3 DEF Drain, EndTurn, BreakOff, InLoop, Ended
  <1>4. CASE Finish \/ Leave
    BY <1>4 DEF Finish, Leave, FinalState, InLoop, Ended
  <1>5. ASSUME NEW t \in Teammates, Report(t) \/ MateStep(t) PROVE LiveInv'
    BY <1>5 DEF MateStep, Spawn, Settle, Age, Report, WriteRows
  <1>6. ASSUME NEW m \in Messages, Post(m) \/ PostBound(m) PROVE LiveInv'
    BY <1>6 DEF Post, PostBound
  <1>7. CASE Cancel
    BY <1>7 DEF Cancel, WriteRows
  <1>8. CASE TickStart
    BY <1>8 DEF TickStart
  <1>9. CASE TickStale
    BY <1>9 DEF TickStale, WriteRows, TickGoto, TypeOK
  <1>10. CASE TickAwait \/ TickMail
    BY <1>10 DEF TickAwait, TickMail, WriteRows, TickGoto, TypeOK
  <1>11. CASE TickOrphans
    BY <1>11 DEF TickOrphans, OrphansEndTask, WriteRows, NoTick
  <1>12. CASE Crash
    BY <1>12 DEF Crash, NoTick, InLoop, Ended
  <1>13. CASE Boot
    BY <1>13 DEF Boot, WriteRows, InLoop, Ended
  <1>14. CASE UNCHANGED vars
    BY <1>14 DEF vars
  <1> QED
    BY <1>1, <1>2, <1>3, <1>4, <1>5, <1>6, <1>7, <1>8, <1>9, <1>10, <1>11,
       <1>12, <1>13, <1>14 DEF Next, LeaderStep, TickStep

\* While a run is in its loop its task is EXECUTING or has been CANCELLED
\* (LiveRunKeepsTask): the reaper, the boot scan and the wake-ups act on what
\* they read earlier, and still none of them moves the task of a live run, as
\* long as no teammate outlives the stale-RUNNING threshold.
THEOREM LiveRunKeepsTaskHolds ==
  ASSUME Slow = {} PROVE Spec => []LiveRunKeepsTask
  <1>1. Init => LiveInv
    BY OwnedInit DEF Init, LiveInv, NothingStale, LiveRunKeepsTask, NoTick,
       InLoop, Ended
  <1>2. LiveInv => LiveRunKeepsTask
    BY DEF LiveInv
  <1> QED BY <1>1, <1>2, LiveStep, PTL DEF Spec
------------------------------------------------------------------------------
\* Only a tick takes a row out of COMPLETED: one it read as RUNNING, as stale
\* or as left behind.
KeepsBut(at, t) ==
  /\ t \in tick.running
  /\ \/ at = "stale" /\ t \in tick.old
     \/ at = "await" /\ proc[t] = "none" /\ ~HasController
KeepsRows == \A t \in Teammates :
  row[t] = "COMPLETED" /\ row'[t] # "COMPLETED" => KeepsBut(tick.at, t)

\* A write keeps the stale rows RUNNING, and the completed rows that it does
\* not touch.
LEMMA WriteKeepsRows ==
  ASSUME RowsInv, NEW S \in SUBSET Teammates, NEW state \in Rows,
         WriteRows(S, state),
         \A t \in S : row[t] = "COMPLETED" => KeepsBut(tick.at, t)
  PROVE  OldRunning' /\ KeepsRows
  BY WriteRowsEffect DEF RowsInv, OldRunning, TypeOK, KeepsRows

\* One step keeps completed rows, but for the ones a tick writes.
LEMMA RowsStep == RowsInv /\ [Next]_vars => RowsInv' /\ KeepsRows
  <1> SUFFICES ASSUME RowsInv, [Next]_vars PROVE RowsInv' /\ KeepsRows
    OBVIOUS
  <1>0. TypeOK' /\ TypeOK
    BY TypeStep DEF RowsInv
  <1>a. Running \in SUBSET Teammates /\ \A t \in Running : row[t] = "RUNNING"
    BY DEF Running
  <1>b. {"RUNNING", "QUEUED", "COMPLETED", "FAILED", "CANCELLED"} \subseteq Rows
    BY DEF Rows
  <1> USE <1>0 DEF RowsInv, taskVars, runVars, mateVars, mailVars, hostVars
  <1>c. ASSUME UNCHANGED <<row, old>>, TickReads' PROVE RowsInv' /\ KeepsRows
    BY <1>c DEF KeepsRows, OldRunning
  <1>d. ASSUME UNCHANGED tick PROVE TickReads'
    BY <1>d DEF TickReads
  <1>1. CASE LeaderStep \/ WakeTimer
    BY <1>1, <1>c, <1>d DEF LeaderStep, WakeTimer, StartRun, Drain, EndTurn,
       BreakOff, Finish, Leave
  <1>2. ASSUME NEW t \in Teammates, Report(t) PROVE RowsInv' /\ KeepsRows
    BY <1>2, <1>c, <1>d DEF Report
  <1>3. ASSUME NEW m \in Messages, Post(m) \/ PostBound(m)
        PROVE  RowsInv' /\ KeepsRows
    BY <1>3, <1>c, <1>d DEF Post, PostBound
  <1>4. ASSUME NEW t \in Teammates, Spawn(t) PROVE RowsInv' /\ KeepsRows
    <2>1. WriteRows({t}, "RUNNING") /\ row[t] # "COMPLETED" /\ UNCHANGED tick
      BY <1>4 DEF Spawn
    <2> QED BY <1>b, <1>d, <2>1, WriteKeepsRows
  <1>5. ASSUME NEW t \in Teammates, Settle(t) PROVE RowsInv' /\ KeepsRows
    <2>1. PICK result \in {"COMPLETED", "FAILED"} :
            WriteRows({t} \cap Running, result)
      BY <1>5 DEF Settle
    <2>2. UNCHANGED tick
      BY <1>5 DEF Settle
    <2> QED BY <1>a, <1>b, <1>d, <2>1, <2>2, WriteKeepsRows
  <1>6. ASSUME NEW t \in Teammates, Age(t) PROVE RowsInv' /\ KeepsRows
    BY <1>6, <1>d DEF Age, OldRunning, KeepsRows
  <1>7. CASE Cancel
    <2>1. WriteRows(Running, "CANCELLED") /\ UNCHANGED tick
      BY <1>7 DEF Cancel
    <2> QED BY <1>a, <1>b, <1>d, <2>1, WriteKeepsRows
  <1>8. CASE TickStart
    BY <1>8, <1>c DEF TickStart, TickReads, OldRunning, Running, TypeOK
  <1>9. CASE TickStale
    <2> DEFINE stale == IF tick.task = "EXECUTING" THEN {} ELSE tick.old
    <2>1. WriteRows(stale, "QUEUED") /\ stale \in SUBSET Teammates
      BY <1>9 DEF TickStale, TypeOK
    <2>2. \A t \in stale : KeepsBut(tick.at, t)
      BY <1>9 DEF TickStale, KeepsBut, TickReads
    <2>3. TickReads'
      BY <1>9 DEF TickStale, TickGoto, TickReads, TypeOK
    <2> QED BY <1>b, <2>1, <2>2, <2>3, WriteKeepsRows
  <1>10. CASE TickAwait
    <2> DEFINE orphaned == {t \in tick.running :
                              /\ tick.task = "AWAITING_TEAMMATES"
                              /\ ~HasController
                              /\ proc[t] = "none"}
    <2>1. WriteRows(orphaned, "FAILED") /\ orphaned \in SUBSET Teammates
      BY <1>10 DEF TickAwait, TypeOK
    <2>2. \A t \in orphaned : KeepsBut(tick.at, t)
      BY <1>10 DEF TickAwait, KeepsBut
    <2>3. TickReads'
      BY <1>10 DEF TickAwait, TickGoto, TickReads, TypeOK
    <2> QED BY <1>b, <2>1, <2>2, <2>3, WriteKeepsRows
  <1>11. CASE TickMail
    BY <1>11, <1>c DEF TickMail, TickGoto, TickReads, TypeOK
  <1>12. CASE TickOrphans
    <2>1. Orphaned \in SUBSET Teammates /\ \A t \in Orphaned : row[t] = "RUNNING"
      BY <1>a DEF Orphaned
    <2>2. WriteRows(Orphaned, "FAILED") /\ TickReads'
      BY <1>12 DEF TickOrphans, NoTick, TickReads
    <2> QED BY <1>b, <2>1, <2>2, WriteKeepsRows
  <1>13. CASE Crash
    BY <1>13, <1>c DEF Crash, NoTick, TickReads
  <1>14. CASE Boot
    <2>1. UNCHANGED tick
      BY <1>14 DEF Boot
    <2>2. UNCHANGED <<row, old>> \/ WriteRows(Running, "FAILED")
      BY <1>14 DEF Boot
    <2> QED BY <1>a, <1>b, <1>c, <1>d, <2>1, <2>2, WriteKeepsRows
  <1>15. CASE UNCHANGED vars
    BY <1>15, <1>c, <1>d DEF vars
  <1> QED
    BY <1>1, <1>2, <1>3, <1>4, <1>5, <1>6, <1>7, <1>8, <1>9, <1>10, <1>11,
       <1>12, <1>13, <1>14, <1>15 DEF Next, MateStep, TickStep

\* A teammate's COMPLETED row stays so (CompletedStaysCompleted) against
\* cancels, the orphan reaper, the boot scan and late processes, however ticks
\* are divided: a row is clobbered only by the writes of a tick that acts on
\* what it read before its awaits.
THEOREM CompletedStaysCompletedHolds == Spec => CompletedStaysCompleted
  <1>1. Init => RowsInv
    BY TypeInit DEF Init, RowsInv, OldRunning, TickReads, NoTick
  <1>2. RowsInv /\ [Next]_vars =>
          [\A t \in Teammates : row[t] = "COMPLETED" /\ row'[t] # "COMPLETED" =>
             /\ t \in tick.running
             /\ \/ tick.at = "stale" /\ t \in tick.old
                \/ tick.at = "await" /\ proc[t] = "none" /\ ~HasController]_vars
    BY RowsStep DEF KeepsRows, KeepsBut
  <1>3. RowsInv /\ [Next]_vars => RowsInv'
    BY RowsStep
  <1> QED BY <1>1, <1>2, <1>3, PTL DEF Spec, CompletedStaysCompleted
------------------------------------------------------------------------------
\* Without cancels, errors and crashes a run is only ever completed, its final
\* checkpoint holds all of its messages, and a job waits only in the queue.
RunsComplete ==
  /\ up /\ crashes = 0 /\ task # "CANCELLED"
  /\ pc \notin {"aborted", "errored"}
  /\ pc \in InLoop => ~aborted
  /\ pc \in {"completed", "deliver"} => ctx \subseteq kept
  /\ pc = "idle" => ctx = {}
  /\ slot # "queued" => job = {}

\* An undivided tick acts on the task's present state.
TickCurrent == tick.at # "idle" => tick.task = task

KeepInv == LiveInv /\ RunsComplete /\ TickCurrent /\ NothingLost
------------------------------------------------------------------------------
\* One step of an undisturbed process loses nothing.
LEMMA KeepStep ==
  ASSUME Allowed \subseteq {"report"}, Slow = {}, MaxCrashes = 0
  PROVE  KeepInv /\ [Next]_vars => KeepInv'
  <1> SUFFICES ASSUME KeepInv, [Next]_vars PROVE KeepInv'
    OBVIOUS
  <1>0. LiveInv' /\ TypeOK /\ TypeOK' /\ SlotIsRun
    BY LiveStep, TypeStep DEF KeepInv, LiveInv, OwnedInv
  <1>a. NothingStale /\ LiveRunKeepsTask
    BY DEF KeepInv, LiveInv
  <1> USE <1>0 DEF KeepInv, RunsComplete, TickCurrent, NothingLost, taskVars,
          runVars, mateVars, mailVars, hostVars
  <1>1. CASE ~Ticking /\ WakeTimer
    BY <1>1 DEF WakeTimer, Enqueue, TypeOK
  <1>2. CASE ~Ticking /\ StartRun
    BY <1>2 DEF StartRun, Ticking, SlotIsRun, InLoop
  <1>3. CASE Drain
    BY <1>3 DEF Drain, InLoop
  <1>4. CASE EndTurn
    BY <1>4 DEF EndTurn, Checkpoint, InLoop
  <1>5. CASE BreakOff
    BY <1>5 DEF BreakOff, InLoop
  <1>6. CASE ~Ticking /\ Finish
    BY <1>6 DEF Finish, FinalState, Ticking, InLoop, Ended
  <1>7. CASE Leave
    BY <1>7 DEF Leave, InLoop, SlotIsRun
  <1>8. ASSUME NEW t \in Teammates, MateStep(t) PROVE KeepInv'
    <2>1. CASE Spawn(t)
      BY <2>1 DEF Spawn, SlotIsRun
    <2>2. CASE Settle(t)
      BY <2>2 DEF Settle
    <2>3. CASE Age(t)
      BY <2>3 DEF Age
    <2> QED BY <1>8, <2>1, <2>2, <2>3 DEF MateStep
  <1>9. ASSUME NEW t \in Teammates, Report(t) PROVE KeepInv'
    BY <1>9 DEF Report
  <1>10. ASSUME NEW m \in Messages, ~Ticking, Post(m)
         PROVE  KeepInv'
    <2>1. CASE HasController \/ slot = "queued"
      BY <1>10, <2>1 DEF Post
    <2>2. CASE ~(HasController \/ slot = "queued")
      <3>1. slot = "out"
        BY <2>2 DEF HasController, TypeOK
      <3>2. slot' = "queued" /\ m \in job' /\ job = {}
        BY <1>10, <2>2, <3>1 DEF Post, Enqueue
      <3> QED BY <1>10, <2>2, <3>1, <3>2 DEF Post, Ticking
    <2> QED BY <2>1, <2>2
  <1>19. ASSUME NEW m \in Messages, ~Ticking, PostBound(m) PROVE KeepInv'
    <2>1. CASE slot = "out"
      <3>1. job = {} /\ m \in job' /\ slot' = "queued"
        BY <1>19, <2>1 DEF PostBound, Enqueue
      <3> QED BY <1>19, <2>1, <3>1 DEF PostBound, Ticking
    <2>2. CASE slot # "out"
      BY <1>19, <2>2 DEF PostBound, Enqueue, Ticking
    <2> QED BY <2>1, <2>2
  <1>11. CASE Cancel
    BY <1>11 DEF Cancel
  <1>12. CASE TickStart
    BY <1>12 DEF TickStart
  <1>13. CASE TickStale
    <2>1. tick.old = {} /\ task' = task
      BY <1>a, <1>13 DEF TickStale, NothingStale
    <2> QED BY <1>13, <2>1 DEF TickStale, TickGoto, TypeOK
  <1>14. CASE TickAwait
    BY <1>14 DEF TickAwait, TickGoto, TypeOK
  <1>15. CASE TickMail
    BY <1>15 DEF TickMail, TickGoto, TypeOK
  <1>16. CASE TickOrphans
    <2>1. tick.task = task /\ task' = task
      BY <1>a, <1>16 DEF TickOrphans, OrphansEndTask, NothingStale
    <2>2. pc \in InLoop => Orphaned = {}
      BY <1>a, <2>1 DEF LiveRunKeepsTask, Orphaned
    <2> QED BY <1>16, <2>1, <2>2 DEF TickOrphans, NoTick
  <1>17. CASE Crash \/ Boot
    BY <1>17 DEF Crash, Boot
  <1>18. CASE UNCHANGED vars
    BY <1>18 DEF vars
  <1> QED
    BY <1>1, <1>2, <1>3, <1>4, <1>5, <1>6, <1>7, <1>8, <1>9, <1>10, <1>11,
       <1>12, <1>13, <1>14, <1>15, <1>16, <1>17, <1>18, <1>19
    DEF Next, LeaderStep, TickStep

\* Every message, prompt and completion that reached the task is in the
\* mailbox, in a queued job, in the live run or in a checkpoint (NothingLost),
\* but for the messages whose bound POST /tasks found the worker busy, for any
\* number of teammates and messages, when nobody cancels, no run fails and the
\* process lives.
THEOREM NothingLostHolds ==
  ASSUME Allowed \subseteq {"report"}, Slow = {}, MaxCrashes = 0
  PROVE  Spec => []NothingLost
  <1>1. Init => KeepInv
    BY OwnedInit DEF Init, KeepInv, LiveInv, NothingStale, LiveRunKeepsTask,
       RunsComplete, TickCurrent, NothingLost, NoTick, InLoop, Ended
  <1>2. KeepInv => NothingLost
    BY DEF KeepInv
  <1> QED BY <1>1, <1>2, KeepStep, PTL DEF Spec
------------------------------------------------------------------------------
\* The task of a run in its loop is neither parked nor done.
LoopNotParked ==
  pc \in InLoop \cup Ended => task \notin {"AWAITING_TEAMMATES", "DONE"}

\* Until the process dies, a teammate whose row says RUNNING has its process.
RunningWorks == crashes = 0 => \A t \in Running : proc[t] = "working"

\* Until then, a parked task has a teammate with a promise, an unread
\* completion, or a job in the queue; the run that parked it does not count.
Woken == crashes = 0 /\ task = "AWAITING_TEAMMATES"
           => \/ \E t \in Teammates : proc[t] # "none"
              \/ Unread # {}
              \/ slot = "queued"

WakerInv == /\ TypeOK
            /\ SlotIsRun
            /\ LoopNotParked
            /\ RunningWorks
            /\ Woken

\* One step keeps a parked task's waker: a promise that ends leaves a
\* completion in the mailbox, and only a run in its loop empties that.
LEMMA WakerStep == WakerInv /\ OwnedInv /\ [Next]_vars => WakerInv'
  <1> SUFFICES ASSUME WakerInv, OwnedInv, [Next]_vars PROVE WakerInv'
    OBVIOUS
  <1>0. TypeOK /\ TypeOK' /\ SlotIsRun' /\ DeadIsStill
    BY TypeStep, OwnedStep DEF WakerInv, OwnedInv
  <1> USE <1>0 DEF WakerInv, LoopNotParked, RunningWorks, Woken, Running, Unread,
          taskVars, runVars, mateVars, mailVars, hostVars
  <1>1. CASE WakeTimer
    BY <1>1 DEF WakeTimer, Enqueue
  <1>2. CASE StartRun
    BY <1>2 DEF StartRun
  <1>3. CASE Drain
    BY <1>3 DEF Drain, InLoop, Ended
  <1>4. CASE EndTurn \/ BreakOff
    BY <1>4 DEF EndTurn, BreakOff, InLoop, Ended
  <1>5. CASE Finish
    <2>1. pc' = "deliver" /\ UNCHANGED <<slot, row, proc, box, crashes>>
      BY <1>5 DEF Finish
    <2>2. task' = "AWAITING_TEAMMATES" => Running # {} \/ Unread # {}
      BY <1>5 DEF Finish, FinalState, Outstanding
    <2>3. Woken'
      BY <2>1, <2>2
    <2> QED BY <2>1, <2>3 DEF InLoop, Ended
  <1>6. CASE Leave
    BY <1>6 DEF Leave, SlotIsRun, InLoop, Ended
  <1>7. ASSUME NEW t \in Teammates, Spawn(t) PROVE WakerInv'
    <2>1. /\ \A s \in Teammates : row'[s] = IF s = t THEN "RUNNING" ELSE row[s]
          /\ \A s \in Teammates : proc'[s] = IF s = t THEN "working" ELSE proc[s]
          /\ UNCHANGED <<pc, task, slot, box, crashes>>
      BY <1>7 DEF Spawn, WriteRows, TypeOK
    <2> QED BY <2>1
  <1>8. ASSUME NEW t \in Teammates, Settle(t) PROVE WakerInv'
    <2>1. PICK result \in {"COMPLETED", "FAILED"} : WriteRows({t} \cap Running, result)
      BY <1>8 DEF Settle
    <2>2. /\ \A s \in Teammates : row'[s] = "RUNNING" => row[s] = "RUNNING" /\ s # t
          /\ \A s \in Teammates : proc'[s] = IF s = t THEN "report" ELSE proc[s]
          /\ UNCHANGED <<pc, task, slot, box, crashes>>
      BY <1>8, <2>1 DEF Settle, WriteRows, TypeOK
    <2> QED BY <2>2
  <1>9. ASSUME NEW t \in Teammates, Report(t) PROVE WakerInv'
    <2>1. /\ \A s \in Teammates : proc'[s] = IF s = t THEN "none" ELSE proc[s]
          /\ box' = box \cup {t} /\ proc[t] = "report"
          /\ UNCHANGED <<row, pc, task, slot, crashes>>
      BY <1>9 DEF Report, TypeOK
    <2> QED BY <2>1
  <1>10. ASSUME NEW t \in Teammates, Age(t) PROVE WakerInv'
    BY <1>10 DEF Age
  <1>11. ASSUME NEW m \in Messages, Post(m) PROVE WakerInv'
    <2>1. CASE HasController \/ slot = "queued"
      BY <1>11, <2>1 DEF Post
    <2>2. CASE ~(HasController \/ slot = "queued")
      BY <1>11, <2>2 DEF Post
    <2> QED BY <2>1, <2>2
  <1>21. ASSUME NEW m \in Messages, PostBound(m) PROVE WakerInv'
    BY <1>21 DEF PostBound
  <1>12. CASE Cancel
    BY <1>12 DEF Cancel, WriteRows
  <1>13. CASE TickStart \/ TickMail
    BY <1>13 DEF TickStart, TickMail
  <1>14. ASSUME NEW S \in SUBSET Teammates, NEW state \in Rows \ {"RUNNING"},
                WriteRows(S, state),
                UNCHANGED <<slot, pc, proc, box, crashes>>,
                task' = task \/ task' \notin {"AWAITING_TEAMMATES", "DONE"}
         PROVE  WakerInv'
    BY <1>14 DEF WriteRows
  <1>15. CASE TickStale
    <2>1. (IF tick.task = "EXECUTING" THEN {} ELSE tick.old) \in SUBSET Teammates
      BY DEF TypeOK
    <2> QED BY <1>14, <1>15, <2>1 DEF TickStale, Rows
  <1>16. CASE TickAwait
    <2>1. {t \in tick.running : /\ tick.task = "AWAITING_TEAMMATES"
                                /\ ~HasController
                                /\ proc[t] = "none"} \in SUBSET Teammates
      BY DEF TypeOK
    <2> QED BY <1>14, <1>16, <2>1 DEF TickAwait, Rows
  <1>17. CASE TickOrphans
    <2>1. Orphaned \in SUBSET Teammates
      BY DEF Orphaned
    <2> QED BY <1>14, <1>17, <2>1 DEF TickOrphans, Rows
  <1>18. CASE Crash
    BY <1>18 DEF Crash, TypeOK, InLoop, Ended
  <1>19. CASE Boot
    <2>1. /\ \A t \in Teammates : row'[t] = "RUNNING" => row[t] = "RUNNING"
          /\ task' = task \/ task' \notin {"AWAITING_TEAMMATES", "DONE"}
          /\ slot = "queued" => slot' = "queued"
          /\ UNCHANGED <<pc, proc, box, crashes>>
      BY <1>19 DEF Boot, WriteRows, Enqueue
    <2> QED BY <2>1
  <1>20. CASE UNCHANGED vars
    BY <1>20 DEF vars
  <1> QED
    BY <1>1, <1>2, <1>3, <1>4, <1>5, <1>6, <1>7, <1>8, <1>9, <1>10, <1>11,
       <1>12, <1>13, <1>15, <1>16, <1>17, <1>18, <1>19, <1>20, <1>21
    DEF Next, LeaderStep, MateStep, TickStep

\* A parked leader always has somebody who will wake it (AwaitingHasWaker), for
\* any number of teammates and messages and whatever cancels, errors, slow
\* teammates and divided ticks and reports interleave, until the process dies:
\* after that it waits for the next tick to find the rows.
THEOREM AwaitingHasWakerHolds == Spec => [](crashes = 0 => AwaitingHasWaker)
  <1>1. Init => WakerInv
    BY TypeInit DEF Init, WakerInv, SlotIsRun, LoopNotParked, RunningWorks, Woken,
       Running, InLoop, Ended
  <1>2. WakerInv => (crashes = 0 => AwaitingHasWaker)
    BY DEF WakerInv, Woken, AwaitingHasWaker
  <1> QED BY <1>1, <1>2, WakerStep, OwnedInit, OwnedStep, PTL DEF Spec
------------------------------------------------------------------------------
\* A process whose row is COMPLETED has ended.
WorkingNotCompleted ==
  \A t \in Teammates : proc[t] = "working" => row[t] # "COMPLETED"

\* The children a tick found without a process are FAILED when it reports them.
ReapedFailed == tick.at = "mail" => \A t \in tick.reaped : row[t] = "FAILED"

\* A task that is DONE has no teammate at work and no result on its way.
DoneIsQuiet ==
  task = "DONE" =>
    /\ Running = {}
    /\ \A t \in Teammates : row[t] = "COMPLETED" => proc[t] # "report"

SeenInv == /\ TypeOK
           /\ DeadIsStill
           /\ LoopNotParked
           /\ WorkingNotCompleted
           /\ ReapedFailed
           /\ DoneIsQuiet
           /\ CompletedWorkIsSeen

\* Rows written by cancels, ticks and the boot scan are not completed and not
\* running: such a write disturbs nothing.
LEMMA SeenWrite ==
  ASSUME SeenInv, NEW S \in SUBSET Teammates,
         NEW state \in Rows \ {"RUNNING", "COMPLETED"}, WriteRows(S, state),
         UNCHANGED proc, box' = box,
         task' = "DONE" => task = "DONE"
  PROVE  WorkingNotCompleted' /\ DoneIsQuiet' /\ CompletedWorkIsSeen'
  BY DEF SeenInv, WriteRows, WorkingNotCompleted, DoneIsQuiet,
     CompletedWorkIsSeen, Running

\* One step of a process whose reports are not divided leaves no finished
\* work in the mailbox of a task that is DONE.
LEMMA SeenStep ==
  ASSUME "report" \notin Allowed
  PROVE  SeenInv /\ OwnedInv /\ [Next]_vars => SeenInv'
  <1> SUFFICES ASSUME SeenInv, OwnedInv, [Next]_vars PROVE SeenInv'
    OBVIOUS
  <1>0. TypeOK /\ TypeOK' /\ DeadIsStill /\ DeadIsStill' /\ SlotIsRun
    BY TypeStep, OwnedStep DEF SeenInv, OwnedInv
  <1> USE <1>0 DEF SeenInv, LoopNotParked, taskVars, runVars, mateVars, mailVars,
          hostVars
  <1>a. ASSUME UNCHANGED <<row, proc, tick>>, box' \cap Teammates \subseteq box,
               task' = "DONE" => task = "DONE",
               LoopNotParked'
        PROVE  SeenInv'
    BY <1>a DEF WorkingNotCompleted, ReapedFailed, DoneIsQuiet,
       CompletedWorkIsSeen, Running
  <1>b. {"QUEUED", "FAILED", "CANCELLED"} \subseteq Rows \ {"RUNNING", "COMPLETED"}
    BY DEF Rows
  <1>1. CASE WakeTimer
    BY <1>a, <1>1 DEF WakeTimer
  <1>2. CASE StartRun
    BY <1>a, <1>2 DEF StartRun
  <1>3. CASE Drain \/ EndTurn \/ BreakOff
    BY <1>a, <1>3 DEF Drain, EndTurn, BreakOff, InLoop, Ended
  <1>4. CASE ~Reporting /\ Finish
    <2>1. \A t \in Teammates : proc[t] # "report"
      BY <1>4 DEF Reporting
    <2>2. task' = "DONE" => Running = {} /\ Unread = {}
      BY <1>4 DEF Finish, FinalState, Outstanding
    <2>3. pc' = "deliver" /\ UNCHANGED <<row, proc, box, tick>>
      BY <1>4 DEF Finish
    <2>4. DoneIsQuiet' /\ CompletedWorkIsSeen'
      BY <2>1, <2>2, <2>3 DEF DoneIsQuiet, CompletedWorkIsSeen, Running, Unread
    <2> QED
      BY <2>3, <2>4 DEF WorkingNotCompleted, ReapedFailed, InLoop, Ended
  <1>5. CASE Leave
    BY <1>a, <1>5 DEF Leave, InLoop, Ended
  <1>6. ASSUME NEW t \in Teammates, ~Ticking, Spawn(t) PROVE SeenInv'
    <2>1. /\ \A s \in Teammates : row'[s] = IF s = t THEN "RUNNING" ELSE row[s]
          /\ \A s \in Teammates : proc'[s] = IF s = t THEN "working" ELSE proc[s]
          /\ UNCHANGED <<pc, task, box, tick>>
          /\ task # "DONE" /\ tick.at # "mail"
      BY <1>6 DEF Spawn, WriteRows, InLoop, Ticking, TypeOK
    <2> QED
      BY <2>1 DEF WorkingNotCompleted, ReapedFailed, DoneIsQuiet, CompletedWorkIsSeen
  <1>7. ASSUME NEW t \in Teammates, ~Ticking, Settle(t) PROVE SeenInv'
    <2>1. PICK result \in {"COMPLETED", "FAILED"} : WriteRows({t} \cap Running, result)
      BY <1>7 DEF Settle
    <2>2. /\ \A s \in Teammates \ {t} : row'[s] = row[s]
          /\ row'[t] = IF t \in Running THEN result ELSE row[t]
          /\ \A s \in Teammates : proc'[s] = IF s = t THEN "report" ELSE proc[s]
          /\ UNCHANGED <<pc, task, box, tick>>
          /\ tick.at # "mail" /\ proc[t] = "working"
      BY <1>7, <2>1 DEF Settle, WriteRows, Ticking, TypeOK, Running
    <2>3. task = "DONE" => row' = row
      BY <2>1 DEF DoneIsQuiet, WriteRows, TypeOK
    <2>4. DoneIsQuiet' /\ CompletedWorkIsSeen'
      BY <2>2, <2>3 DEF DoneIsQuiet, CompletedWorkIsSeen, WorkingNotCompleted,
         Running
    <2> QED BY <2>2, <2>4 DEF WorkingNotCompleted, ReapedFailed
  <1>8. ASSUME NEW t \in Teammates, Report(t) PROVE SeenInv'
    <2>1. /\ \A s \in Teammates : proc'[s] = IF s = t THEN "none" ELSE proc[s]
          /\ box' = box \cup {t} /\ proc[t] = "report"
          /\ UNCHANGED <<row, pc, task, tick>>
      BY <1>8 DEF Report, TypeOK
    <2> QED
      BY <2>1 DEF WorkingNotCompleted, ReapedFailed, DoneIsQuiet,
         CompletedWorkIsSeen, Running
  <1>9. ASSUME NEW t \in Teammates, Age(t) PROVE SeenInv'
    BY <1>a, <1>9 DEF Age
  <1>10. ASSUME NEW m \in Messages, Post(m) PROVE SeenInv'
    <2>1. /\ UNCHANGED <<row, proc, tick, pc>>
          /\ task' = task \/ task' = "EXECUTING"
          /\ box' \cap Teammates \subseteq box
      BY <1>10, ItemAssumption DEF Post
    <2> QED BY <1>a, <2>1
  <1>20. ASSUME NEW m \in Messages, PostBound(m) PROVE SeenInv'
    BY <1>a, <1>20 DEF PostBound
  <1>11. CASE ~Ticking /\ Cancel
    <2>1. WriteRows(Running, "CANCELLED") /\ Running \in SUBSET Teammates
      BY <1>11 DEF Cancel, Running
    <2>2. task' = "CANCELLED" /\ UNCHANGED <<pc, proc, box, tick>> /\ tick.at # "mail"
      BY <1>11 DEF Cancel, Ticking
    <2>3. WorkingNotCompleted' /\ DoneIsQuiet' /\ CompletedWorkIsSeen'
      BY <1>b, <2>1, <2>2, SeenWrite
    <2> QED BY <2>2, <2>3 DEF ReapedFailed
  <1>12. CASE TickStart
    <2>1. UNCHANGED <<row, proc, box, task, pc>> /\ tick'.at = "stale"
      BY <1>12 DEF TickStart
    <2> QED
      BY <2>1 DEF WorkingNotCompleted, ReapedFailed, DoneIsQuiet,
         CompletedWorkIsSeen, Running
  <1>13. CASE TickStale
    <2>1. (IF tick.task = "EXECUTING" THEN {} ELSE tick.old) \in SUBSET Teammates
      BY DEF TypeOK
    <2>2. /\ WriteRows(IF tick.task = "EXECUTING" THEN {} ELSE tick.old, "QUEUED")
          /\ UNCHANGED <<pc, proc, box>>
          /\ tick'.at = "await"
          /\ task' = task \/ task' = "IN_PROGRESS"
      BY <1>13 DEF TickStale, TickGoto, TypeOK
    <2>3. WorkingNotCompleted' /\ DoneIsQuiet' /\ CompletedWorkIsSeen'
      BY <1>b, <2>1, <2>2, SeenWrite
    <2> QED BY <2>2, <2>3 DEF ReapedFailed
  <1>14. CASE TickAwait
    <2> DEFINE orphaned == {t \in tick.running :
                              /\ tick.task = "AWAITING_TEAMMATES"
                              /\ ~HasController
                              /\ proc[t] = "none"}
    <2>1. orphaned \in SUBSET Teammates
      BY DEF TypeOK
    <2>2. /\ WriteRows(orphaned, "FAILED")
          /\ UNCHANGED <<pc, proc, box, task>>
          /\ tick'.reaped = orphaned
      BY <1>14 DEF TickAwait, TickGoto, TypeOK
    <2>3. WorkingNotCompleted' /\ DoneIsQuiet' /\ CompletedWorkIsSeen'
      BY <1>b, <2>1, <2>2, SeenWrite
    <2>4. ReapedFailed'
      BY <2>1, <2>2 DEF ReapedFailed, WriteRows
    <2> QED BY <2>2, <2>3, <2>4
  <1>15. CASE TickMail
    <2>1. /\ UNCHANGED <<row, proc, task, pc>>
          /\ box' = box \cup tick.reaped
          /\ tick.at = "mail" /\ tick'.at = "orphans"
      BY <1>15 DEF TickMail, TickGoto, TypeOK
    <2>2. CompletedWorkIsSeen'
      BY <2>1 DEF CompletedWorkIsSeen, ReapedFailed
    <2> QED BY <2>1, <2>2 DEF WorkingNotCompleted, ReapedFailed, DoneIsQuiet, Running
  <1>16. CASE TickOrphans
    <2>1. WriteRows(Orphaned, "FAILED") /\ Orphaned \in SUBSET Teammates
      BY <1>16 DEF TickOrphans, Orphaned, Running
    <2>2. /\ UNCHANGED <<pc, proc, box>>
          /\ task' = task \/ task' = "FAILED"
          /\ tick'.at = "idle"
      BY <1>16 DEF TickOrphans, NoTick
    <2>3. WorkingNotCompleted' /\ DoneIsQuiet' /\ CompletedWorkIsSeen'
      BY <1>b, <2>1, <2>2, SeenWrite
    <2> QED BY <2>2, <2>3 DEF ReapedFailed
  <1>17. CASE Crash
    <2>1. /\ UNCHANGED <<row, task, box>>
          /\ \A t \in Teammates : proc'[t] = "none"
          /\ tick'.at = "idle" /\ pc' = "idle"
      BY <1>17 DEF Crash, NoTick
    <2> QED
      BY <2>1 DEF WorkingNotCompleted, ReapedFailed, DoneIsQuiet,
         CompletedWorkIsSeen, Running, InLoop, Ended
  <1>18. CASE Boot
    <2>1. tick = NoTick /\ tick' = tick
      BY <1>18 DEF Boot, DeadIsStill
    <2>2. CASE UNCHANGED row
      BY <1>a, <1>18, <2>2 DEF Boot
    <2>3. CASE ~UNCHANGED row
      <3>1. WriteRows(Running, "FAILED") /\ Running \in SUBSET Teammates
        BY <1>18, <2>3 DEF Boot, Running
      <3>2. task' = "FAILED" /\ UNCHANGED <<pc, proc, box>>
        BY <1>18, <2>3 DEF Boot
      <3>3. WorkingNotCompleted' /\ DoneIsQuiet' /\ CompletedWorkIsSeen'
        BY <1>b, <3>1, <3>2, SeenWrite
      <3> QED BY <2>1, <3>2, <3>3 DEF ReapedFailed, NoTick
    <2> QED BY <2>2, <2>3
  <1>19. CASE UNCHANGED vars
    BY <1>a, <1>19 DEF vars
  <1> QED
    BY <1>1, <1>2, <1>3, <1>4, <1>5, <1>6, <1>7, <1>8, <1>9, <1>10, <1>11,
       <1>12, <1>13, <1>14, <1>15, <1>16, <1>17, <1>18, <1>19, <1>20
    DEF Next, LeaderStep, MateStep, TickStep

\* No finished teammate's result lies unread in the mailbox of a DONE task
\* (CompletedWorkIsSeen), whatever cancels, errors, crashes, slow teammates and
\* divided ticks interleave, as long as a teammate's final row and its mailbox
\* row are written without another handler in between.
THEOREM CompletedWorkIsSeenHolds ==
  ASSUME "report" \notin Allowed PROVE Spec => []CompletedWorkIsSeen
  <1>1. Init => SeenInv
    BY TypeInit DEF Init, SeenInv, DeadIsStill, LoopNotParked,
       WorkingNotCompleted, ReapedFailed, DoneIsQuiet, CompletedWorkIsSeen, NoTick,
       InLoop, Ended
  <1>2. SeenInv => CompletedWorkIsSeen
    BY DEF SeenInv
  <1>3. SeenInv /\ OwnedInv /\ [Next]_vars => SeenInv'
    BY SeenStep
  <1> QED BY <1>1, <1>2, <1>3, OwnedInit, OwnedStep, PTL DEF Spec
==============================================================================
