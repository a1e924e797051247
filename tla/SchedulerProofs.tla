--------------------------- MODULE SchedulerProofs ---------------------------
(***************************************************************************)
(* Scheduler fires every slot at most once and spawns no task beside one   *)
(* that has not ended, for every set of schedules and expressions.         *)
(***************************************************************************)
EXTENDS Scheduler, SequenceTheorems, TLAPS

------------------------------------------------------------------------------
PastOf(s, t) == \A i \in 1 .. Len(tasks[s]) : tasks[s][i].at < t

\* Task i of s stands in nobody's way: it has ended, or its tick died before
\* the id was written.
Ok(s, i) == tasks[s][i].ended \/ (crashes > 0 /\ ~tasks[s][i].recorded)

Good(s, last) == /\ last \in 0 .. Len(tasks[s])
                 /\ \A i \in 1 .. Len(tasks[s]) : i # last => Ok(s, i)

\* A row that a tick has read is as good as the table's own.
SnapshotInv(d) == /\ row[d.id].life # "none"
                  /\ d.row.next # 0
                  /\ d.row.next <= now
                  /\ PastOf(d.id, d.row.next)
                  /\ Good(d.id, d.row.last)

TaskInv == \A s \in Schedules : \A i \in 1 .. Len(tasks[s]) :
             /\ tasks[s][i].at <= clock
             /\ tasks[s][i].running \/ tasks[s][i].ended

RowInv == \A s \in Schedules :
            /\ row[s].life = "none" => tasks[s] = <<>>
            /\ row[s].life = "live" =>
                 /\ row[s].next # 0 => PastOf(s, row[s].next)
                 /\ ~(pc = "record" /\ cur.id = s) => Good(s, row[s].last)

DueInv == /\ pc = "idle" => due = {}
          /\ now <= clock
          /\ \A d \in due : SnapshotInv(d)
          /\ \A d, e \in due : d.id = e.id => d = e

Busy == {"check", "spawn", "record"}

CurInv == pc \in Busy =>
  LET s == cur.id IN
    /\ \A d \in due : d.id # s
    /\ row[s].life # "none"
    /\ row[s].life = "live" /\ row[s].next # 0 => now < row[s].next
    /\ pc \in {"check", "spawn"} => SnapshotInv(cur)
    /\ pc = "spawn" /\ cur.row.last # 0 => tasks[s][cur.row.last].ended
    /\ pc = "record" =>
         /\ Len(tasks[s]) # 0
         /\ ~tasks[s][Len(tasks[s])].recorded
         /\ \A i \in 1 .. Len(tasks[s]) : i # Len(tasks[s]) => Ok(s, i)

SchedulerInv == /\ TypeOK
                /\ TaskInv
                /\ RowInv
                /\ DueInv
                /\ CurInv
                /\ FiresOncePerSlot
                /\ NoOverlap

------------------------------------------------------------------------------
\* The next run of an expression lies after the time it is asked for.
LEMMA NextRunIsLater ==
  ASSUME NEW c \in Nat \ {0}, NEW t \in Nat
  PROVE  computeNextRunAt(c, t) \in Nat /\ t < computeNextRunAt(c, t)
  <1> DEFINE q == t \div c
  <1>1. q \in Nat /\ t = c * q + (t % c) /\ t % c \in 0 .. c - 1
    OBVIOUS
  <1> HIDE DEF q
  <1>2. c * q \in Nat /\ c * (q + 1) = c * q + c
    BY <1>1
  <1>3. t < c * (q + 1) /\ c * (q + 1) \in Nat
    BY <1>1, <1>2
  <1> QED BY <1>3 DEF computeNextRunAt, q

LEMMA SlotType ==
  ASSUME NEW c \in Crons, NEW e \in BOOLEAN, clock \in Nat
  PROVE  /\ SlotFrom(c, e) \in Nat
         /\ SlotFrom(c, e) # 0 => clock < SlotFrom(c, e)
  BY NextRunIsLater, SchedulerAssumption DEF SlotFrom

\* One task of a schedule is replaced.
LEMMA TaskReplaced ==
  ASSUME TypeOK, NEW s \in Schedules, NEW i \in 1 .. Len(tasks[s]), NEW t \in Task
  PROVE  LET q == [tasks EXCEPT ![s] = [@ EXCEPT ![i] = t]] IN
           /\ q \in [Schedules -> Seq(Task)]
           /\ \A r \in Schedules \ {s} : q[r] = tasks[r]
           /\ Len(q[s]) = Len(tasks[s])
           /\ \A j \in 1 .. Len(tasks[s]) : q[s][j] = IF j = i THEN t ELSE tasks[s][j]
  <1>1. tasks \in [Schedules -> Seq(Task)] /\ tasks[s] \in Seq(Task)
    BY DEF TypeOK
  <1> DEFINE n == [tasks[s] EXCEPT ![i] = t]
  <1>2. /\ n \in Seq(Task)
        /\ Len(n) = Len(tasks[s])
        /\ \A j \in 1 .. Len(tasks[s]) : n[j] = IF j = i THEN t ELSE tasks[s][j]
    <2> HIDE DEF Task
    <2> QED BY <1>1, ExceptSeq
  <1>3. [tasks EXCEPT ![s] = [@ EXCEPT ![i] = t]] = [tasks EXCEPT ![s] = n]
    OBVIOUS
  <1> HIDE DEF n
  <1> QED BY <1>1, <1>2, <1>3

\* What the end of a task, its follow-up and its record do to the tasks.
Kept(s, i) == /\ tasks'[s][i].at = tasks[s][i].at
              /\ tasks'[s][i].slot = tasks[s][i].slot
              /\ tasks[s][i].ended => tasks'[s][i].ended
              /\ tasks[s][i].running \/ tasks[s][i].ended
                   => tasks'[s][i].running \/ tasks'[s][i].ended

TasksKept == /\ tasks' \in [Schedules -> Seq(Task)]
             /\ \A s \in Schedules : /\ Len(tasks'[s]) = Len(tasks[s])
                                     /\ \A i \in 1 .. Len(tasks[s]) : Kept(s, i)

RecordsKept == \A s \in Schedules : \A i \in 1 .. Len(tasks[s]) :
                 tasks'[s][i].recorded = tasks[s][i].recorded

LEMMA TaskEndsKeeps ==
  ASSUME TypeOK, NEW s \in Schedules, TaskEnds(s)
  PROVE  TasksKept /\ RecordsKept
  <1>1. PICK i \in DOMAIN tasks[s] :
          tasks' = [tasks EXCEPT ![s][i] =
                      [@ EXCEPT !.running = FALSE, !.ended = TRUE]]
    BY DEF TaskEnds
  <1> DEFINE t == [tasks[s][i] EXCEPT !.running = FALSE, !.ended = TRUE]
  <1>2. tasks[s] \in Seq(Task) /\ i \in 1 .. Len(tasks[s])
    BY DEF TypeOK
  <1>3. tasks[s][i] \in Task
    BY <1>2
  <1>4. /\ t \in Task /\ t.ended /\ t.recorded = tasks[s][i].recorded
        /\ t.at = tasks[s][i].at /\ t.slot = tasks[s][i].slot
    BY <1>3 DEF Task
  <1>5. tasks' = [tasks EXCEPT ![s] = [@ EXCEPT ![i] = t]]
    BY <1>1
  <1> HIDE DEF t
  <1>6. /\ tasks' \in [Schedules -> Seq(Task)]
        /\ \A r \in Schedules \ {s} : tasks'[r] = tasks[r]
        /\ Len(tasks'[s]) = Len(tasks[s])
        /\ \A j \in 1 .. Len(tasks[s]) : tasks'[s][j] = IF j = i THEN t ELSE tasks[s][j]
    BY <1>2, <1>4, <1>5, TaskReplaced
  <1> QED BY <1>2, <1>4, <1>6 DEF TasksKept, Kept, RecordsKept

LEMMA FollowUpKeeps ==
  ASSUME TypeOK, NEW s \in Schedules, FollowUp(s)
  PROVE  TasksKept /\ RecordsKept
  <1>1. PICK i \in DOMAIN tasks[s] :
          tasks' = [tasks EXCEPT ![s][i] = [@ EXCEPT !.running = TRUE]]
    BY DEF FollowUp
  <1> DEFINE t == [tasks[s][i] EXCEPT !.running = TRUE]
  <1>2. tasks[s] \in Seq(Task) /\ i \in 1 .. Len(tasks[s])
    BY DEF TypeOK
  <1>3. tasks[s][i] \in Task
    BY <1>2
  <1>4. /\ t \in Task /\ t.running /\ t.recorded = tasks[s][i].recorded
        /\ t.at = tasks[s][i].at /\ t.slot = tasks[s][i].slot
        /\ t.ended = tasks[s][i].ended
    BY <1>3 DEF Task
  <1>5. tasks' = [tasks EXCEPT ![s] = [@ EXCEPT ![i] = t]]
    BY <1>1
  <1> HIDE DEF t
  <1>6. /\ tasks' \in [Schedules -> Seq(Task)]
        /\ \A r \in Schedules \ {s} : tasks'[r] = tasks[r]
        /\ Len(tasks'[s]) = Len(tasks[s])
        /\ \A j \in 1 .. Len(tasks[s]) : tasks'[s][j] = IF j = i THEN t ELSE tasks[s][j]
    BY <1>2, <1>4, <1>5, TaskReplaced
  <1> QED BY <1>2, <1>4, <1>6 DEF TasksKept, Kept, RecordsKept

LEMMA RecordKeeps ==
  ASSUME SchedulerInv, Record
  PROVE  /\ TasksKept
         /\ \A s \in Schedules : \A i \in 1 .. Len(tasks[s]) :
              s # cur.id \/ i # Len(tasks[s])
              => tasks'[s][i].recorded = tasks[s][i].recorded
  <1> DEFINE s == cur.id
             i == Len(tasks[s])
             t == [tasks[s][i] EXCEPT !.recorded = TRUE]
  <1>1. s \in Schedules /\ tasks[s] \in Seq(Task) /\ TypeOK
    BY DEF SchedulerInv, TypeOK, Record, Snapshot
  <1>2. i \in 1 .. Len(tasks[s])
    <2>1. Len(tasks[s]) # 0
      BY DEF SchedulerInv, CurInv, Record, Busy
    <2> QED BY <1>1, <2>1
  <1>3. tasks[s][i] \in Task
    BY <1>1, <1>2
  <1>4. /\ t \in Task
        /\ t.at = tasks[s][i].at /\ t.slot = tasks[s][i].slot
        /\ t.ended = tasks[s][i].ended /\ t.running = tasks[s][i].running
    BY <1>3 DEF Task
  <1>5. tasks' = [tasks EXCEPT ![s] = [@ EXCEPT ![i] = t]]
    BY DEF Record
  <1> HIDE DEF t
  <1>6. /\ tasks' \in [Schedules -> Seq(Task)]
        /\ \A r \in Schedules \ {s} : tasks'[r] = tasks[r]
        /\ Len(tasks'[s]) = Len(tasks[s])
        /\ \A j \in 1 .. Len(tasks[s]) : tasks'[s][j] = IF j = i THEN t ELSE tasks[s][j]
    BY <1>1, <1>2, <1>4, <1>5, TaskReplaced
  <1> QED BY <1>2, <1>4, <1>6 DEF TasksKept, Kept

\* A new task is added at the end, running and unrecorded.
LEMMA SpawnAppends ==
  ASSUME SchedulerInv, Spawn, pc' = "record"
  PROVE  LET s == cur.id
             n == Len(tasks[s]) IN
           /\ s \in Schedules
           /\ n \in Nat
           /\ tasks' \in [Schedules -> Seq(Task)]
           /\ \A r \in Schedules \ {s} : tasks'[r] = tasks[r]
           /\ Len(tasks'[s]) = n + 1
           /\ \A j \in 1 .. n : tasks'[s][j] = tasks[s][j]
           /\ tasks'[s][n + 1] =
                [slot |-> cur.row.next, at |-> now, running |-> TRUE,
                 ended |-> FALSE, recorded |-> FALSE]
  <1> DEFINE s == cur.id
             t == [slot |-> cur.row.next, at |-> now, running |-> TRUE,
                   ended |-> FALSE, recorded |-> FALSE]
             n == Append(tasks[s], t)
  <1>1. /\ s \in Schedules /\ tasks[s] \in Seq(Task)
        /\ tasks \in [Schedules -> Seq(Task)]
        /\ cur.row.next \in Nat /\ now \in Nat
    BY DEF SchedulerInv, TypeOK, Spawn, Snapshot, Row
  <1>2. t \in Task
    BY <1>1 DEF Task
  <1>3. tasks' = [tasks EXCEPT ![s] = n]
    BY DEF Spawn, BackToLoop
  <1> HIDE DEF t
  <1>4. /\ n \in Seq(Task) /\ Len(n) = Len(tasks[s]) + 1
        /\ \A j \in 1 .. Len(tasks[s]) : n[j] = tasks[s][j]
        /\ n[Len(tasks[s]) + 1] = t
    <2> HIDE DEF Task
    <2> QED BY <1>1, <1>2, AppendProperties
  <1> HIDE DEF n
  <1> QED BY <1>1, <1>3, <1>4 DEF t

\* The user's handlers write one row; a slot they set lies ahead.
UserWrites(s) ==
  /\ UNCHANGED <<tasks, pc, now, due, cur, clock, crashes>>
  /\ \A r \in Schedules \ {s} : row'[r] = row[r]
  /\ row' \in [Schedules -> Row]
  /\ row'[s].last \in {0, row[s].last}
  /\ row'[s].next # 0 => clock < row'[s].next
  /\ row'[s].life # "none"
  /\ row'[s].life = "live" =>
       \/ row[s].life = "none" /\ row'[s].last = 0
       \/ row[s].life = "live" /\ row'[s].last = row[s].last

LEMMA UserStep ==
  ASSUME TypeOK, NEW s \in Schedules,
         createSchedule(s) \/ updateSchedule(s) \/ deleteSchedule(s)
  PROVE  UserWrites(s)
  <1>1. row[s] \in Row /\ row \in [Schedules -> Row] /\ clock \in Nat
    BY DEF TypeOK
  <1> USE DEF tickVars, hostVars
  <1>2. CASE createSchedule(s)
    <2>1. PICK c \in Crons, e \in BOOLEAN :
            row' = [row EXCEPT ![s] = [life |-> "live", enabled |-> e, cron |-> c,
                                       next |-> SlotFrom(c, e), last |-> 0]]
      BY <1>2 DEF createSchedule
    <2>2. SlotFrom(c, e) \in Nat /\ (SlotFrom(c, e) # 0 => clock < SlotFrom(c, e))
      BY <1>1, SlotType
    <2>3. row[s].life = "none" /\ UNCHANGED <<tasks, pc, now, due, cur, clock, crashes>>
      BY <1>2 DEF createSchedule
    <2> QED BY <1>1, <2>1, <2>2, <2>3 DEF UserWrites, Row
  <1>3. CASE updateSchedule(s)
    <2>1. PICK c \in Crons, e \in BOOLEAN :
            row' = [row EXCEPT ![s] = [@ EXCEPT !.cron = c, !.enabled = e,
                                                !.next = SlotFrom(c, e)]]
      BY <1>3 DEF updateSchedule
    <2>2. SlotFrom(c, e) \in Nat /\ (SlotFrom(c, e) # 0 => clock < SlotFrom(c, e))
      BY <1>1, SlotType
    <2>3. row[s].life = "live" /\ UNCHANGED <<tasks, pc, now, due, cur, clock, crashes>>
      BY <1>3 DEF updateSchedule
    <2> QED BY <1>1, <2>1, <2>2, <2>3 DEF UserWrites, Row
  <1>4. CASE deleteSchedule(s)
    BY <1>1, <1>4 DEF deleteSchedule, UserWrites, Row
  <1> QED BY <1>2, <1>3, <1>4

\* The tick writes to a row that is still there, by id.
LEMMA SetRowKeeps ==
  ASSUME row \in [Schedules -> Row], NEW s \in Schedules, NEW r \in Row, SetRow(s, r)
  PROVE  /\ row' \in [Schedules -> Row]
         /\ \A x \in Schedules \ {s} : row'[x] = row[x]
         /\ row'[s] = IF row[s].life = "live" THEN r ELSE row[s]
  <1> HIDE DEF Row
  <1> QED BY DEF SetRow

\* The type invariant is inductive with the rest.
LEMMA TypeStep == SchedulerInv /\ [Next]_vars => TypeOK'
  <1> SUFFICES ASSUME SchedulerInv, [Next]_vars PROVE TypeOK'
    OBVIOUS
  <1> USE DEF SchedulerInv
  <1>1. ASSUME NEW s \in Schedules,
               createSchedule(s) \/ updateSchedule(s) \/ deleteSchedule(s)
        PROVE  TypeOK'
    <2>1. /\ UNCHANGED <<tasks, pc, now, due, cur, clock, crashes>>
          /\ \A r \in Schedules \ {s} : row'[r] = row[r]
          /\ row' \in [Schedules -> Row]
          /\ row'[s].last \in {0, row[s].last}
      BY <1>1, UserStep DEF UserWrites
    <2> QED BY <2>1 DEF TypeOK
  <1>2. ASSUME NEW s \in Schedules, TaskEnds(s) \/ FollowUp(s) PROVE TypeOK'
    <2>1. /\ TasksKept /\ UNCHANGED <<row, pc, now, due, cur, clock, crashes>>
      BY <1>2, TaskEndsKeeps, FollowUpKeeps DEF TaskEnds, FollowUp, tickVars, hostVars
    <2> QED BY <2>1 DEF TypeOK, TasksKept
  <1>3. CASE StartTick
    BY <1>3 DEF StartTick, TypeOK, Snapshot, hostVars
  <1>4. CASE Advance
    <2>1. PICK d \in due : SetRow(d.id, [row[d.id] EXCEPT
                             !.next = computeNextRunAt(d.row.cron, now)])
                           /\ cur' = d /\ due' = due \ {d}
      BY <1>4 DEF Advance
    <2>2. d \in Snapshot /\ d.id \in Schedules /\ computeNextRunAt(d.row.cron, now) \in Nat
      BY <2>1, NextRunIsLater, SchedulerAssumption DEF TypeOK, Snapshot, Row
    <2>3. /\ row' \in [Schedules -> Row]
          /\ \A r \in Schedules : row'[r].last = row[r].last
      <3> DEFINE x == [row[d.id] EXCEPT !.next = computeNextRunAt(d.row.cron, now)]
      <3>1. x \in Row /\ x.last = row[d.id].last
        BY <2>2 DEF TypeOK, Row
      <3> HIDE DEF x
      <3>2. SetRow(d.id, x) /\ row \in [Schedules -> Row]
        BY <2>1 DEF x, TypeOK
      <3> QED BY <2>2, <3>1, <3>2, SetRowKeeps
    <2>4. UNCHANGED <<tasks, now, clock, crashes>> /\ pc' = "check"
      BY <1>4 DEF Advance, hostVars
    <2> QED BY <2>1, <2>2, <2>3, <2>4 DEF TypeOK
  <1>5. CASE Check
    BY <1>5 DEF Check, BackToLoop, TypeOK, hostVars
  <1>6. CASE Spawn
    <2>1. CASE pc' = "record"
      <3>1. UNCHANGED <<row, now, due, clock, crashes, cur>> /\ pc = "spawn"
        BY <1>6, <2>1 DEF Spawn, hostVars, BackToLoop
      <3>2. /\ tasks' \in [Schedules -> Seq(Task)]
            /\ \A r \in Schedules : Len(tasks'[r]) \in Nat /\ Len(tasks[r]) <= Len(tasks'[r])
        BY <1>6, <2>1, SpawnAppends DEF TypeOK
      <3> QED BY <2>1, <3>1, <3>2 DEF TypeOK
    <2>2. CASE pc' # "record"
      BY <1>6, <2>2 DEF Spawn, BackToLoop, TypeOK, hostVars
    <2> QED BY <2>1, <2>2
  <1>7. CASE Record
    <2>1. TasksKept
      BY <1>7, RecordKeeps
    <2>2. /\ row' \in [Schedules -> Row]
          /\ \A r \in Schedules : row'[r].last \in {row[r].last, Len(tasks[r])}
      <3> DEFINE x == [row[cur.id] EXCEPT !.last = Len(tasks[cur.id])]
      <3>1. cur.id \in Schedules /\ Len(tasks[cur.id]) \in Nat
        BY <1>7 DEF Record, TypeOK, Snapshot
      <3>2. row \in [Schedules -> Row] /\ row[cur.id] \in Row
        BY <3>1 DEF TypeOK
      <3>3. x \in Row /\ x.last = Len(tasks[cur.id])
        BY <3>1, <3>2 DEF Row
      <3>4. SetRow(cur.id, x)
        BY <1>7 DEF Record
      <3> HIDE DEF x
      <3> QED BY <3>1, <3>2, <3>3, <3>4, SetRowKeeps
    <2>3. pc' = "loop" /\ cur' = <<>> /\ UNCHANGED <<now, due, clock, crashes>>
      BY <1>7 DEF Record, BackToLoop, hostVars
    <2> QED BY <2>1, <2>2, <2>3 DEF TypeOK, TasksKept
  <1>8. CASE EndTick
    BY <1>8 DEF EndTick, TypeOK, hostVars
  <1>9. CASE Crash
    BY <1>9 DEF Crash, TypeOK
  <1>10. CASE ClockTick
    BY <1>10 DEF ClockTick, TypeOK, tickVars
  <1>11. CASE UNCHANGED vars
    BY <1>11 DEF vars, tickVars, hostVars, TypeOK
  <1> QED BY <1>1, <1>2, <1>3, <1>4, <1>5, <1>6, <1>7, <1>8, <1>9, <1>10, <1>11
          DEF Next, TickStep

------------------------------------------------------------------------------
\* Tasks end and are continued: nothing that holds of them is lost.
LEMMA TasksStep ==
  ASSUME SchedulerInv, TypeOK', TasksKept, RecordsKept,
         UNCHANGED <<row, pc, now, due, cur, clock, crashes>>
  PROVE  SchedulerInv'
  <1>1. \A s \in Schedules : Len(tasks'[s]) = Len(tasks[s]) /\ Len(tasks[s]) \in Nat
    BY DEF TasksKept, SchedulerInv, TypeOK
  <1>2. \A s \in Schedules : \A i \in 1 .. Len(tasks[s]) :
          /\ Kept(s, i)
          /\ tasks'[s][i].recorded = tasks[s][i].recorded
    BY DEF TasksKept, RecordsKept
  <1>3. TaskInv'
    BY <1>1, <1>2 DEF TaskInv, SchedulerInv, Kept
  <1>4. RowInv'
    <2>1. \A s \in Schedules : tasks[s] = <<>> => tasks'[s] = <<>>
      BY <1>1 DEF TasksKept, SchedulerInv, TypeOK
    <2> QED BY <1>1, <1>2, <2>1 DEF RowInv, SchedulerInv, Kept, PastOf, Good, Ok
  <1>5. \A d \in Snapshot : SnapshotInv(d) => SnapshotInv(d)'
    BY <1>1, <1>2 DEF SnapshotInv, Kept, PastOf, Good, Ok, Snapshot
  <1>6. DueInv'
    BY <1>5 DEF DueInv, SchedulerInv, TypeOK
  <1>7. CurInv'
    <2> SUFFICES ASSUME pc \in Busy PROVE CurInv'
      BY DEF CurInv
    <2>1. cur \in Snapshot /\ cur.id \in Schedules
      BY DEF SchedulerInv, TypeOK, Busy, Snapshot
    <2>2. pc \in {"check", "spawn"} => SnapshotInv(cur)'
      BY <1>5, <2>1 DEF CurInv, SchedulerInv, SnapshotInv
    <2>3. pc = "spawn" /\ cur.row.last # 0 => tasks'[cur.id][cur.row.last].ended
      BY <1>1, <1>2, <2>1 DEF CurInv, SchedulerInv, SnapshotInv, Good, Kept
    <2>4. pc = "record" =>
            /\ Len(tasks'[cur.id]) # 0
            /\ ~tasks'[cur.id][Len(tasks'[cur.id])].recorded
            /\ \A i \in 1 .. Len(tasks'[cur.id]) :
                  i # Len(tasks'[cur.id]) => Ok(cur.id, i)'
      <3> SUFFICES ASSUME pc = "record"
                   PROVE  /\ Len(tasks[cur.id]) # 0
                          /\ ~tasks'[cur.id][Len(tasks[cur.id])].recorded
                          /\ \A i \in 1 .. Len(tasks[cur.id]) :
                                i # Len(tasks[cur.id]) => Ok(cur.id, i)'
        BY <1>1, <2>1
      <3>1. /\ Len(tasks[cur.id]) # 0
            /\ ~tasks[cur.id][Len(tasks[cur.id])].recorded
            /\ \A i \in 1 .. Len(tasks[cur.id]) :
                  i # Len(tasks[cur.id]) => Ok(cur.id, i)
        BY DEF SchedulerInv, CurInv, Busy
      <3>2. Len(tasks[cur.id]) \in 1 .. Len(tasks[cur.id])
        BY <1>1, <2>1, <3>1
      <3> QED BY <1>2, <2>1, <3>1, <3>2 DEF Ok, Kept
    <2> QED BY <2>2, <2>3, <2>4 DEF CurInv, SchedulerInv, SnapshotInv
  <1>8. FiresOncePerSlot' /\ NoOverlap'
    <2>1. \A s \in Schedules : DOMAIN tasks[s] = 1 .. Len(tasks[s])
                              /\ DOMAIN tasks'[s] = 1 .. Len(tasks[s])
      BY <1>1 DEF TasksKept, SchedulerInv, TypeOK
    <2>2. FiresOncePerSlot'
      BY <1>1, <1>2, <2>1 DEF FiresOncePerSlot, SchedulerInv, Kept
    <2>3. NoOverlap'
      BY <1>1, <1>2, <2>1 DEF NoOverlap, SchedulerInv, Kept
    <2> QED BY <2>2, <2>3
  <1> QED BY <1>3, <1>4, <1>6, <1>7, <1>8 DEF SchedulerInv

\* The user's handlers touch no task, and a deleted row stays a known one.
LEMMA RowStep ==
  ASSUME SchedulerInv, TypeOK', NEW s \in Schedules, UserWrites(s)
  PROVE  SchedulerInv'
  <1>1. /\ UNCHANGED <<tasks, pc, now, due, cur, clock, crashes>>
        /\ \A r \in Schedules \ {s} : row'[r] = row[r]
        /\ \A r \in Schedules : row[r].life # "none" => row'[r].life # "none"
    BY DEF UserWrites
  <1>2. TaskInv' /\ FiresOncePerSlot' /\ NoOverlap'
    BY <1>1 DEF SchedulerInv, TaskInv, FiresOncePerSlot, NoOverlap
  <1>3. RowInv'
    <2>1. row'[s].next # 0 => \A i \in 1 .. Len(tasks[s]) : tasks[s][i].at < row'[s].next
      <3>1. \A i \in 1 .. Len(tasks[s]) : tasks[s][i] \in Task
        BY DEF SchedulerInv, TypeOK
      <3>2. row'[s].next \in Nat /\ clock \in Nat
        BY DEF TypeOK, SchedulerInv, Row
      <3> QED BY <3>1, <3>2 DEF UserWrites, SchedulerInv, TaskInv, Task
    <2>2. row'[s].life = "live" /\ ~(pc = "record" /\ cur.id = s)
            => Good(s, row'[s].last)
      <3>1. CASE row[s].life = "none"
        BY <3>1 DEF UserWrites, SchedulerInv, RowInv, Good
      <3>2. CASE row[s].life # "none"
        BY <3>2 DEF UserWrites, SchedulerInv, RowInv
      <3> QED BY <3>1, <3>2
    <2> QED BY <1>1, <2>1, <2>2 DEF SchedulerInv, RowInv, UserWrites, PastOf, Good, Ok
  <1>4. \A d : d.id \in Schedules /\ SnapshotInv(d) => SnapshotInv(d)'
    BY <1>1 DEF SnapshotInv, PastOf, Good, Ok
  <1>5. DueInv'
    BY <1>1, <1>4 DEF SchedulerInv, DueInv, TypeOK, Snapshot
  <1>6. CurInv'
    <2> SUFFICES ASSUME pc \in Busy PROVE CurInv'
      BY <1>1 DEF CurInv
    <2>1. cur.id \in Schedules
      BY DEF SchedulerInv, TypeOK, Busy, Snapshot
    <2>2. row'[cur.id].life = "live" /\ row'[cur.id].next # 0 => now < row'[cur.id].next
      <3>1. now <= clock /\ now \in Nat /\ clock \in Nat /\ row'[cur.id].next \in Nat
        BY <2>1 DEF SchedulerInv, DueInv, TypeOK, Row
      <3>2. CASE cur.id = s
        BY <3>1, <3>2 DEF UserWrites
      <3>3. CASE cur.id # s
        BY <1>1, <2>1, <3>3 DEF SchedulerInv, CurInv
      <3> QED BY <3>2, <3>3
    <2> QED BY <1>1, <1>4, <2>1, <2>2 DEF SchedulerInv, CurInv, Ok
  <1> QED BY <1>2, <1>3, <1>5, <1>6 DEF SchedulerInv

\* What the tick reads is due now, and no task is later than now.
LEMMA StartStep ==
  ASSUME SchedulerInv, TypeOK', StartTick
  PROVE  SchedulerInv'
  <1>1. /\ UNCHANGED <<row, tasks, cur, clock, crashes>>
        /\ pc = "idle" /\ pc' = "loop" /\ now' = clock
        /\ due' = {[id |-> s, row |-> row[s]] : s \in {t \in Schedules : IsDue(t)}}
    BY DEF StartTick, hostVars
  <1>2. TaskInv' /\ FiresOncePerSlot' /\ NoOverlap'
    BY <1>1 DEF SchedulerInv, TaskInv, FiresOncePerSlot, NoOverlap
  <1>3. RowInv'
    BY <1>1 DEF SchedulerInv, RowInv, PastOf, Good, Ok
  <1>4. DueInv'
    <2>1. \A d \in due' : d.id \in Schedules /\ IsDue(d.id) /\ d.row = row[d.id]
      BY <1>1
    <2>2. \A d \in due' : SnapshotInv(d)'
      <3> SUFFICES ASSUME NEW d \in due' PROVE SnapshotInv(d)'
        OBVIOUS
      <3>1. /\ d.id \in Schedules /\ IsDue(d.id) /\ d.row = row[d.id]
        BY <2>1
      <3>2. PastOf(d.id, row[d.id].next) /\ Good(d.id, row[d.id].last)
        BY <1>1, <3>1 DEF SchedulerInv, RowInv, IsDue
      <3> QED BY <1>1, <3>1, <3>2 DEF SnapshotInv, IsDue, PastOf, Good, Ok
    <2>3. \A d, e \in due' : d.id = e.id => d = e
      BY <1>1
    <2> QED BY <1>1, <2>2, <2>3 DEF DueInv, SchedulerInv, TypeOK
  <1>5. CurInv'
    BY <1>1 DEF CurInv, Busy
  <1> QED BY <1>2, <1>3, <1>4, <1>5 DEF SchedulerInv

\* The slot moves behind the tick before anything else is done for the row.
LEMMA AdvanceStep ==
  ASSUME SchedulerInv, TypeOK', Advance
  PROVE  SchedulerInv'
  <1>1. PICK d \in due :
          /\ SetRow(d.id, [row[d.id] EXCEPT
                             !.next = computeNextRunAt(d.row.cron, now)])
          /\ cur' = d
          /\ due' = due \ {d}
    BY DEF Advance
  <1>2. /\ UNCHANGED <<tasks, now, clock, crashes>>
        /\ pc = "loop" /\ pc' = "check"
    BY DEF Advance, hostVars
  <1>3. d \in Snapshot /\ d.id \in Schedules /\ SnapshotInv(d)
    BY DEF SchedulerInv, DueInv, TypeOK, Snapshot
  <1> DEFINE n == computeNextRunAt(d.row.cron, now)
  <1>4. n \in Nat /\ now < n /\ now \in Nat
    BY <1>3, NextRunIsLater, SchedulerAssumption DEF SchedulerInv, TypeOK, Snapshot, Row
  <1> HIDE DEF n
  <1>5. /\ \A r \in Schedules : row'[r].life = row[r].life /\ row'[r].last = row[r].last
        /\ \A r \in Schedules \ {d.id} : row'[r] = row[r]
        /\ row[d.id].life = "live" => row'[d.id].next = n
    BY <1>1, <1>3 DEF SetRow, SchedulerInv, TypeOK, Row, n
  <1>6. TaskInv' /\ FiresOncePerSlot' /\ NoOverlap'
    BY <1>2 DEF SchedulerInv, TaskInv, FiresOncePerSlot, NoOverlap
  <1>7. RowInv'
    <2>1. \A i \in 1 .. Len(tasks[d.id]) : tasks[d.id][i].at < n
      <3>1. \A i \in 1 .. Len(tasks[d.id]) : tasks[d.id][i] \in Task
        BY <1>3 DEF SchedulerInv, TypeOK
      <3>2. d.row.next \in Nat
        BY <1>3 DEF Snapshot, Row
      <3> QED BY <1>3, <1>4, <3>1, <3>2 DEF SnapshotInv, PastOf, Task
    <2>2. \A r \in Schedules : row[r].life = "live" => Good(r, row[r].last)
      BY <1>2 DEF SchedulerInv, RowInv
    <2> QED BY <1>2, <1>3, <1>5, <2>1, <2>2 DEF SchedulerInv, RowInv, PastOf, Good, Ok
  <1>8. \A e \in Snapshot : SnapshotInv(e) => SnapshotInv(e)'
    BY <1>2, <1>5 DEF SnapshotInv, PastOf, Good, Ok, Snapshot
  <1>9. DueInv'
    BY <1>1, <1>2, <1>8 DEF SchedulerInv, DueInv, TypeOK
  <1>10. CurInv'
    <2>1. \A e \in due' : e.id # d.id
      BY <1>1 DEF SchedulerInv, DueInv
    <2>2. SnapshotInv(cur)'
      BY <1>1, <1>2, <1>3, <1>5 DEF SnapshotInv, PastOf, Good, Ok
    <2> QED BY <1>1, <1>2, <1>3, <1>4, <1>5, <2>1, <2>2 DEF CurInv, SnapshotInv
  <1> QED BY <1>6, <1>7, <1>9, <1>10 DEF SchedulerInv

LEMMA CheckStep ==
  ASSUME SchedulerInv, TypeOK', Check
  PROVE  SchedulerInv'
  <1>1. /\ UNCHANGED <<row, tasks, now, due, clock, crashes>> /\ pc = "check"
        /\ \/ pc' = "loop"
           \/ pc' = "spawn" /\ cur' = cur /\ ~Running(cur.id, cur.row.last)
    BY DEF Check, BackToLoop, hostVars
  <1>2. TaskInv' /\ FiresOncePerSlot' /\ NoOverlap'
    BY <1>1 DEF SchedulerInv, TaskInv, FiresOncePerSlot, NoOverlap
  <1>3. RowInv'
    BY <1>1 DEF SchedulerInv, RowInv, PastOf, Good, Ok
  <1>4. DueInv'
    BY <1>1 DEF SchedulerInv, DueInv, SnapshotInv, PastOf, Good, Ok
  <1>5. CurInv'
    <2>1. CASE pc' = "loop"
      BY <2>1 DEF CurInv, Busy
    <2>2. CASE pc' = "spawn"
      <3>1. cur \in Snapshot /\ cur.id \in Schedules /\ SnapshotInv(cur)
        BY <1>1 DEF SchedulerInv, CurInv, TypeOK, Snapshot, Busy
      <3>2. cur.row.last # 0 => tasks[cur.id][cur.row.last].ended
        BY <1>1, <2>2, <3>1 DEF Running, SnapshotInv, Good, SchedulerInv, TaskInv, TypeOK
      <3> QED BY <1>1, <2>2, <3>1, <3>2
              DEF SchedulerInv, CurInv, SnapshotInv, PastOf, Good, Ok, Busy
    <2> QED BY <1>1, <2>1, <2>2
  <1> QED BY <1>2, <1>3, <1>4, <1>5 DEF SchedulerInv

\* The slot of the new task lies after all earlier ticks of its schedule, and
\* all earlier tasks have ended or were lost by a tick that died.
LEMMA SpawnStep ==
  ASSUME SchedulerInv, TypeOK', Spawn, pc' = "record"
  PROVE  SchedulerInv'
  <1> DEFINE s == cur.id
             n == Len(tasks[s])
  <1>1. /\ s \in Schedules
        /\ n \in Nat
        /\ \A r \in Schedules \ {s} : tasks'[r] = tasks[r]
        /\ Len(tasks'[s]) = n + 1
        /\ \A j \in 1 .. n : tasks'[s][j] = tasks[s][j]
        /\ tasks'[s][n + 1] = [slot |-> cur.row.next, at |-> now, running |-> TRUE,
                               ended |-> FALSE, recorded |-> FALSE]
        /\ DOMAIN tasks'[s] = 1 .. n + 1
    BY SpawnAppends DEF TypeOK
  <1>2. UNCHANGED <<row, now, due, cur, clock, crashes>> /\ pc = "spawn"
    BY DEF Spawn, BackToLoop, hostVars
  <1>3. /\ SnapshotInv(cur)
        /\ row[s].life # "none"
        /\ row[s].life = "live" /\ row[s].next # 0 => now < row[s].next
        /\ \A d \in due : d.id # s
        /\ cur.row.last # 0 => tasks[s][cur.row.last].ended
    BY <1>2 DEF SchedulerInv, CurInv, Busy
  <1>4. \A i \in 1 .. n : Ok(s, i)
    BY <1>3 DEF SnapshotInv, Good, Ok
  <1>5. now <= clock
    BY DEF SchedulerInv, DueInv
  <1> HIDE DEF n
  <1>6. TaskInv'
    <2> SUFFICES ASSUME NEW r \in Schedules, NEW i \in 1 .. Len(tasks'[r])
                 PROVE  /\ tasks'[r][i].at <= clock
                        /\ tasks'[r][i].running \/ tasks'[r][i].ended
      BY <1>2 DEF TaskInv
    <2>1. CASE r = s /\ i = n + 1
      BY <1>1, <1>5, <2>1
    <2>2. CASE r = s /\ i # n + 1
      BY <1>1, <2>2 DEF SchedulerInv, TaskInv, n
    <2>3. CASE r # s
      BY <1>1, <2>3 DEF SchedulerInv, TaskInv
    <2> QED BY <2>1, <2>2, <2>3
  <1>7. RowInv'
    <2>1. ASSUME row[s].life = "live", row[s].next # 0
          PROVE  \A i \in 1 .. Len(tasks'[s]) : tasks'[s][i].at < row[s].next
      <3>1. \A i \in 1 .. n : tasks[s][i].at < row[s].next
        BY <1>1, <2>1 DEF SchedulerInv, RowInv, PastOf, n
      <3> QED BY <1>1, <1>3, <2>1, <3>1
    <2>2. \A r \in Schedules \ {s} : row[r].life = "live" => Good(r, row[r].last)
      BY <1>2 DEF SchedulerInv, RowInv
    <2>3. \A r \in Schedules \ {s} :
             row[r].life = "live" /\ row[r].next # 0 => PastOf(r, row[r].next)
      BY DEF SchedulerInv, RowInv
    <2>4. \A r \in Schedules \ {s} : row[r].life = "none" => tasks'[r] = <<>>
      BY <1>1 DEF SchedulerInv, RowInv
    <2> QED BY <1>1, <1>2, <1>3, <2>1, <2>2, <2>3, <2>4 DEF RowInv, PastOf, Good, Ok
  <1>8. \A d \in due : SnapshotInv(d)'
    <2>1. \A d \in due : d.id \in Schedules \ {s} /\ SnapshotInv(d)
      BY <1>3 DEF SchedulerInv, DueInv, TypeOK, Snapshot
    <2> QED BY <1>1, <1>2, <2>1 DEF SnapshotInv, PastOf, Good, Ok
  <1>9. DueInv'
    BY <1>2, <1>8 DEF SchedulerInv, DueInv
  <1>10. CurInv'
    <2>1. \A i \in 1 .. n : Ok(s, i)'
      BY <1>1, <1>2, <1>4 DEF Ok
    <2>2. ~tasks'[s][n + 1].recorded /\ Len(tasks'[s]) = n + 1 /\ n + 1 # 0
      BY <1>1
    <2>3. \A i \in 1 .. Len(tasks'[s]) : i # Len(tasks'[s]) => Ok(s, i)'
      BY <1>1, <2>1
    <2> QED BY <1>2, <1>3, <2>2, <2>3 DEF CurInv
  <1>11. FiresOncePerSlot'
    <2> SUFFICES ASSUME NEW r \in Schedules, NEW j \in DOMAIN tasks'[r],
                        NEW i \in 1 .. j - 1
                 PROVE  tasks'[r][i].at < tasks'[r][j].slot
      BY DEF FiresOncePerSlot
    <2>1. CASE r # s
      BY <1>1, <2>1 DEF SchedulerInv, FiresOncePerSlot
    <2>2. CASE r = s /\ j = n + 1
      BY <1>1, <1>3, <2>2 DEF SnapshotInv, PastOf, n
    <2>3. CASE r = s /\ j # n + 1
      <3>1. j \in 1 .. n /\ i \in 1 .. n /\ j \in DOMAIN tasks[s]
        <4>1. j \in 1 .. n + 1 /\ j # n + 1
          BY <1>1, <2>3
        <4>2. j \in 1 .. n /\ i \in 1 .. n
          BY <1>1, <4>1
        <4>3. DOMAIN tasks[s] = 1 .. n
          BY <1>1 DEF SchedulerInv, TypeOK, n
        <4> QED BY <4>2, <4>3
      <3> QED BY <1>1, <2>3, <3>1 DEF SchedulerInv, FiresOncePerSlot
    <2> QED BY <2>1, <2>2, <2>3
  <1>12. NoOverlap'
    <2> SUFFICES ASSUME NEW r \in Schedules, NEW j \in DOMAIN tasks'[r],
                        NEW i \in 1 .. j - 1
                 PROVE  Ok(r, i)'
      BY DEF NoOverlap, Ok
    <2>1. CASE r # s
      BY <1>1, <1>2, <2>1 DEF SchedulerInv, NoOverlap, Ok
    <2>2. CASE r = s
      <3>1. i \in 1 .. n
        BY <1>1, <2>2
      <3> QED BY <1>1, <1>2, <1>4, <2>2, <3>1 DEF Ok
    <2> QED BY <2>1, <2>2
  <1> QED BY <1>6, <1>7, <1>9, <1>10, <1>11, <1>12 DEF SchedulerInv

\* With its id in the row, the new task is the one the guard looks at.
LEMMA RecordStep ==
  ASSUME SchedulerInv, TypeOK', Record
  PROVE  SchedulerInv'
  <1> DEFINE s == cur.id
             n == Len(tasks[s])
  <1>1. /\ UNCHANGED <<now, due, clock, crashes>>
        /\ pc = "record" /\ pc' = "loop"
        /\ SetRow(s, [row[s] EXCEPT !.last = n])
    BY DEF Record, BackToLoop, hostVars
  <1>2. /\ s \in Schedules /\ cur \in Snapshot /\ n \in Nat \ {0}
        /\ \A i \in 1 .. n : i # n => Ok(s, i)
        /\ row[s].life # "none"
        /\ \A d \in due : d.id # s
    <2>1. s \in Schedules /\ cur \in Snapshot /\ n \in Nat
      BY <1>1 DEF SchedulerInv, TypeOK, Snapshot
    <2> QED BY <1>1, <2>1 DEF SchedulerInv, CurInv, Busy
  <1>3. /\ \A r \in Schedules : Len(tasks'[r]) = Len(tasks[r]) /\ Len(tasks[r]) \in Nat
        /\ \A r \in Schedules : DOMAIN tasks'[r] = 1 .. Len(tasks[r])
        /\ \A r \in Schedules : DOMAIN tasks[r] = 1 .. Len(tasks[r])
        /\ \A r \in Schedules : \A i \in 1 .. Len(tasks[r]) : Kept(r, i)
    BY RecordKeeps DEF TasksKept, SchedulerInv, TypeOK
  <1>4. \A r \in Schedules : \A i \in 1 .. Len(tasks[r]) :
          (r # s \/ i # n) /\ Ok(r, i) => Ok(r, i)'
    BY <1>1, <1>3, RecordKeeps DEF Ok, Kept
  <1>5. /\ \A r \in Schedules : row'[r].life = row[r].life /\ row'[r].next = row[r].next
        /\ \A r \in Schedules \ {s} : row'[r] = row[r]
        /\ row[s].life = "live" => row'[s].last = n
    BY <1>1, <1>2 DEF SetRow, SchedulerInv, TypeOK, Row
  <1> HIDE DEF n
  <1>6. TaskInv'
    BY <1>1, <1>3 DEF SchedulerInv, TaskInv, Kept
  <1>7. RowInv'
    <2>1. \A r \in Schedules : row[r].life = "none" => tasks'[r] = <<>>
      BY <1>3 DEF SchedulerInv, RowInv, TypeOK
    <2>2. \A r \in Schedules : row[r].life = "live" /\ row[r].next # 0 =>
            \A i \in 1 .. Len(tasks'[r]) : tasks'[r][i].at < row[r].next
      BY <1>3 DEF SchedulerInv, RowInv, PastOf, Kept
    <2>3. ASSUME NEW r \in Schedules, row[r].life = "live"
          PROVE  /\ row'[r].last \in 0 .. Len(tasks'[r])
                 /\ \A i \in 1 .. Len(tasks'[r]) : i # row'[r].last => Ok(r, i)'
      <3>1. CASE r = s
        BY <1>2, <1>3, <1>4, <1>5, <2>3, <3>1 DEF n
      <3>2. CASE r # s
        <4>1. Good(r, row[r].last)
          BY <2>3, <3>2 DEF SchedulerInv, RowInv
        <4> QED BY <1>3, <1>4, <1>5, <3>2, <4>1 DEF Good
      <3> QED BY <3>1, <3>2
    <2> QED BY <1>5, <2>1, <2>2, <2>3 DEF RowInv, PastOf, Good, Ok
  <1>8. \A d \in due : SnapshotInv(d)'
    <2> SUFFICES ASSUME NEW d \in due PROVE SnapshotInv(d)'
      OBVIOUS
    <2>1. d.id \in Schedules \ {s} /\ SnapshotInv(d)
      <3>1. d.id \in Schedules
        BY DEF SchedulerInv, TypeOK, Snapshot
      <3>2. SnapshotInv(d)
        BY DEF SchedulerInv, DueInv
      <3> QED BY <1>2, <3>1, <3>2
    <2>2. \A i \in 1 .. Len(tasks'[d.id]) : i # d.row.last => Ok(d.id, i)'
      BY <1>3, <1>4, <2>1 DEF SnapshotInv, Good
    <2>3. \A i \in 1 .. Len(tasks'[d.id]) : tasks'[d.id][i].at < d.row.next
      BY <1>3, <2>1 DEF SnapshotInv, PastOf, Kept
    <2>4. d.row.last \in 0 .. Len(tasks'[d.id])
      BY <1>3, <2>1 DEF SnapshotInv, Good
    <2> QED BY <1>1, <1>5, <2>1, <2>2, <2>3, <2>4 DEF SnapshotInv, PastOf, Good, Ok
  <1>9. DueInv'
    BY <1>1, <1>8 DEF SchedulerInv, DueInv
  <1>10. CurInv'
    BY <1>1 DEF CurInv, Busy
  <1>11. FiresOncePerSlot'
    BY <1>3 DEF SchedulerInv, FiresOncePerSlot, Kept
  <1>12. NoOverlap'
    <2> SUFFICES ASSUME NEW r \in Schedules, NEW j \in 1 .. Len(tasks[r]),
                        NEW i \in 1 .. j - 1
                 PROVE  Ok(r, i)'
      BY <1>3 DEF NoOverlap, Ok
    <2>1. i \in 1 .. Len(tasks[r]) /\ i # Len(tasks[r])
      BY <1>3
    <2>2. Ok(r, i)
      BY <1>3, <2>1 DEF SchedulerInv, NoOverlap, Ok
    <2> QED BY <1>4, <2>1, <2>2 DEF n
  <1> QED BY <1>6, <1>7, <1>9, <1>10, <1>11, <1>12 DEF SchedulerInv

\* A tick that dies between the spawn and the record leaves a task that the
\* guard does not see: NoOverlap allows for it.
LEMMA CrashStep ==
  ASSUME SchedulerInv, TypeOK', Crash
  PROVE  SchedulerInv'
  <1>1. /\ UNCHANGED <<row, tasks, clock>> /\ crashes' = crashes + 1
        /\ pc' = "idle" /\ due' = {} /\ now' = 0 /\ crashes \in Nat /\ clock \in Nat
    BY DEF Crash, SchedulerInv, TypeOK
  <1>2. TaskInv' /\ FiresOncePerSlot' /\ NoOverlap'
    BY <1>1 DEF SchedulerInv, TaskInv, FiresOncePerSlot, NoOverlap
  <1>3. \A s \in Schedules : \A i \in 1 .. Len(tasks[s]) : Ok(s, i) => Ok(s, i)'
    BY <1>1 DEF Ok
  <1>4. RowInv'
    <2>1. ASSUME NEW s \in Schedules, row[s].life = "live"
          PROVE  /\ row[s].last \in 0 .. Len(tasks[s])
                 /\ \A i \in 1 .. Len(tasks[s]) : i # row[s].last => Ok(s, i)'
      <3>1. CASE pc = "record" /\ cur.id = s
        <4>1. /\ ~tasks[s][Len(tasks[s])].recorded
              /\ \A i \in 1 .. Len(tasks[s]) : i # Len(tasks[s]) => Ok(s, i)
          BY <3>1 DEF SchedulerInv, CurInv, Busy
        <4>2. \A i \in 1 .. Len(tasks[s]) : Ok(s, i)'
          BY <1>1, <1>3, <4>1 DEF Ok
        <4> QED BY <4>2 DEF SchedulerInv, TypeOK
      <3>2. CASE ~(pc = "record" /\ cur.id = s)
        BY <1>3, <2>1, <3>2 DEF SchedulerInv, RowInv, Good
      <3> QED BY <3>1, <3>2
    <2> QED BY <1>1, <2>1 DEF SchedulerInv, RowInv, PastOf, Good, Ok
  <1>5. DueInv' /\ CurInv'
    BY <1>1 DEF DueInv, CurInv, Busy
  <1> QED BY <1>2, <1>4, <1>5 DEF SchedulerInv

\* Every step keeps the invariant.
LEMMA SchedulerStep == SchedulerInv /\ [Next]_vars => SchedulerInv'
  <1> SUFFICES ASSUME SchedulerInv, [Next]_vars PROVE SchedulerInv'
    OBVIOUS
  <1>1. TypeOK'
    BY TypeStep
  <1>2. TypeOK
    BY DEF SchedulerInv
  <1>3. ASSUME NEW s \in Schedules,
               createSchedule(s) \/ updateSchedule(s) \/ deleteSchedule(s)
        PROVE  SchedulerInv'
    BY <1>1, <1>2, <1>3, UserStep, RowStep
  <1>4. ASSUME NEW s \in Schedules, TaskEnds(s) \/ FollowUp(s)
        PROVE  SchedulerInv'
    <2>1. UNCHANGED <<row, pc, now, due, cur, clock, crashes>>
      BY <1>4 DEF TaskEnds, FollowUp, tickVars, hostVars
    <2> QED BY <1>1, <1>2, <1>4, <2>1, TaskEndsKeeps, FollowUpKeeps, TasksStep
  <1>5. CASE StartTick
    BY <1>1, <1>5, StartStep
  <1>6. CASE Advance
    BY <1>1, <1>6, AdvanceStep
  <1>7. CASE Check
    BY <1>1, <1>7, CheckStep
  <1>8. CASE Spawn /\ pc' = "record"
    BY <1>1, <1>8, SpawnStep
  <1>9. CASE Record
    BY <1>1, <1>9, RecordStep
  <1>10. CASE Crash
    BY <1>1, <1>10, CrashStep
  <1> USE <1>1, <1>2 DEF SchedulerInv, TaskInv, RowInv, DueInv, CurInv, SnapshotInv,
          PastOf, Good, Ok, Busy, FiresOncePerSlot, NoOverlap, tickVars, hostVars
  <1>11. CASE Spawn /\ pc' # "record"
    BY <1>11 DEF Spawn, BackToLoop
  <1>12. CASE EndTick
    BY <1>12 DEF EndTick, TypeOK
  <1>13. CASE ClockTick
    <2>1. /\ UNCHANGED <<row, tasks, pc, now, due, cur, crashes>>
          /\ clock' = clock + 1
      BY <1>13 DEF ClockTick
    <2>2. TaskInv'
      <3>1. \A s \in Schedules : \A i \in 1 .. Len(tasks[s]) : tasks[s][i] \in Task
        BY DEF TypeOK
      <3> QED BY <2>1, <3>1 DEF TypeOK, Task
    <2>3. DueInv'
      BY <2>1 DEF TypeOK
    <2> QED BY <2>1, <2>2, <2>3
  <1>14. CASE UNCHANGED vars
    BY <1>14 DEF vars
  <1> QED BY <1>3, <1>4, <1>5, <1>6, <1>7, <1>8, <1>9, <1>10, <1>11, <1>12, <1>13,
             <1>14 DEF Next, TickStep

LEMMA SchedulerInit == Init => SchedulerInv
  <1> SUFFICES ASSUME Init PROVE SchedulerInv
    OBVIOUS
  <1>1. /\ \A s \in Schedules : tasks[s] = <<>> /\ Len(tasks[s]) = 0
                                /\ row[s].life = "none" /\ row[s].last = 0
        /\ DOMAIN <<>> = {}
        /\ pc = "idle" /\ now = 0 /\ due = {} /\ cur = <<>> /\ clock = 1 /\ crashes = 0
    BY DEF Init
  <1>2. TypeOK
    BY <1>1 DEF Init, TypeOK, Row
  <1> QED BY <1>1, <1>2 DEF SchedulerInv, TaskInv, RowInv, DueInv, CurInv, Busy,
                            FiresOncePerSlot, NoOverlap

THEOREM SchedulerInvariant == Spec => []SchedulerInv
  <1> QED BY SchedulerInit, SchedulerStep, PTL DEF Spec

\* Values of the types named in the source, for every set of schedules.
THEOREM TypeCorrect == Spec => []TypeOK
  <1>1. SchedulerInv => TypeOK
    BY DEF SchedulerInv
  <1> QED BY <1>1, SchedulerInvariant, PTL

\* The slot is advanced before the spawn, from the tick's own time: no slot
\* is fired twice, through crashes and edits, and none that passed while the
\* server was down is made up for.
THEOREM FiresOncePerSlotHolds == Spec => []FiresOncePerSlot
  <1>1. SchedulerInv => FiresOncePerSlot
    BY DEF SchedulerInv
  <1> QED BY <1>1, SchedulerInvariant, PTL

\* The overlap guard looks at the right task in every row a tick may hold.
THEOREM NoOverlapHolds == Spec => []NoOverlap
  <1>1. SchedulerInv => NoOverlap
    BY DEF SchedulerInv
  <1> QED BY <1>1, SchedulerInvariant, PTL

==============================================================================
