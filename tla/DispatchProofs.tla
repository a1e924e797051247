--------------------------- MODULE DispatchProofs ---------------------------
(***************************************************************************)
(* What the dispatch of a run guarantees for every number of requests, of  *)
(* targets and of recovery attempts, for every threshold, and whatever     *)
(* throws or dies: no row says RUNNING without an executor                 *)
(* (RunningIsExecuted), no failure is hidden from the task                 *)
(* (FailedIsBlocked), and no circuit opens before its adapter failed that  *)
(* often in a row, although dispatchers overlap and rewrite each other's   *)
(* circuits, unless an older store overtook a success (OpenIsEarned).      *)
(***************************************************************************)
EXTENDS Dispatch, TLAPS

\* A circuit never counts more failures than there were since the last success.
Earned(e, n) == /\ e.count <= n
                /\ e.until > 0 => n = Threshold

CountsAreEarned ==
  \A a \in Adapters \ lost :
    /\ Earned(store[a], failures[a])
    /\ \A d \in Dispatchers : Earned(me[d].mine[a], failures[a])

\* A success on its way to the file has no failures.
Forgives(d) ==
  pc[d] \in {"save", "write"} /\ me[d].outcome = "ok"
    => me[d].mine[me[d].at] = [count |-> 0, until |-> 0]
SuccessForgives == \A d \in Dispatchers : Forgives(d)

DispatchInv == /\ TypeOK
               /\ RunningIsExecuted
               /\ FailedIsBlocked
               /\ CountsAreEarned
               /\ SuccessForgives
------------------------------------------------------------------------------
LEMMA FreshType == /\ emptyStore \in Store
                   /\ Fresh \in Locals
  <1>1. [count |-> 0, until |-> 0] \in Entry
    BY DispatchAssumption DEF Entry
  <1>2. emptyStore \in Store
    BY <1>1 DEF emptyStore, Store
  <1> QED
    BY <1>2, DispatchAssumption DEF Fresh, Locals, Adapters

LEMMA ReadType == ASSUME TypeOK PROVE readStore \in Store
  BY FreshType DEF TypeOK, readStore

\* The next state of a circuit is one, and earned by the failure counted.
LEMMA FailedType ==
  ASSUME NEW e \in Entry, now \in Nat
  PROVE  Failed(e) \in Entry
  <1>1. OneMore(e.count) \in 0 .. Threshold
    BY DispatchAssumption DEF OneMore, Entry
  <1>2. now + 1 \in Nat /\ e.until \in Nat /\ Threshold \in 0 .. Threshold
    BY DispatchAssumption DEF Entry
  <1> QED
    BY <1>1, <1>2 DEF Failed, Entry

LEMMA FailedEarned ==
  ASSUME NEW e \in Entry, NEW n \in 0 .. Threshold, Earned(e, n), now \in Nat
  PROVE  Earned(Failed(e), OneMore(n))
  <1>1. e.count \in 0 .. Threshold /\ e.until \in Nat /\ Threshold \in Nat \ {0}
    BY DispatchAssumption DEF Entry
  <1>2. CASE HalfOpen(e)
    BY <1>1, <1>2 DEF Failed, Earned, OneMore, HalfOpen
  <1>3. CASE ~HalfOpen(e)
    BY <1>1, <1>3 DEF Failed, Earned, OneMore
  <1> QED BY <1>2, <1>3

\* Init satisfies the invariant: a circuit that the last process left open was earned.
LEMMA DispatchInit == Init => DispatchInv
  <1> SUFFICES ASSUME Init PROVE DispatchInv
    OBVIOUS
  <1>1. PICK n \in 0 .. Threshold :
          /\ failures = [a \in Adapters |-> n]
          /\ store = [a \in Adapters |->
                      [count |-> n, until |-> IF n = Threshold THEN now + 1 ELSE 0]]
    BY DEF Init
  <1>2. now = 1 /\ Threshold \in Nat \ {0}
    BY DispatchAssumption DEF Init
  <1>3. [count |-> n, until |-> IF n = Threshold THEN now + 1 ELSE 0] \in Entry
    BY <1>2 DEF Entry
  <1>4. TypeOK
    <2>1. store \in Store /\ failures \in [Adapters -> 0 .. Threshold]
      BY <1>1, <1>3 DEF Store
    <2>2. me \in [Dispatchers -> Locals]
      BY FreshType DEF Init
    <2>3. /\ state \in {"QUEUED", "RUNNING"} /\ attempts \in {0, 1}
          /\ orphan \in BOOLEAN /\ task = "IN_PROGRESS" /\ text = "json"
          /\ pc = [d \in Dispatchers |-> "idle"]
      BY DEF Init
    <2> QED BY <2>1, <2>2, <2>3, <1>2 DEF Init, TypeOK
  <1>5. CountsAreEarned
    <2>1. \A a \in Adapters : Earned(store[a], failures[a])
      BY <1>1, <1>2 DEF Earned
    <2>2. \A d \in Dispatchers, a \in Adapters :
            me[d].mine[a] = [count |-> 0, until |-> 0]
      BY DEF Init, Fresh, emptyStore
    <2> QED BY <1>1, <1>2, <2>1, <2>2 DEF CountsAreEarned, Earned
  <1>6. RunningIsExecuted /\ FailedIsBlocked /\ SuccessForgives
    BY DEF Init, RunningIsExecuted, FailedIsBlocked, SuccessForgives, Forgives
  <1> QED BY <1>4, <1>5, <1>6 DEF DispatchInv
------------------------------------------------------------------------------
(* Type correctness.                                                       *)

LEMMA LeaveType ==
  ASSUME TypeOK, NEW d \in Dispatchers, Leave(d)
  PROVE  /\ pc' \in [Dispatchers -> {"idle", "retry", "scanned", "begin", "next",
                                     "prepare", "execute", "load", "save", "write", "done"}]
         /\ me' \in [Dispatchers -> Locals]
         /\ pc'[d] \in {"idle", "done"}
         /\ \A e \in Dispatchers \ {d} : pc'[e] = pc[e]
  BY FreshType DEF Leave, Goto, Over, TypeOK

\* One dispatcher's locals are replaced.
LEMMA LocalsType ==
  ASSUME TypeOK, NEW d \in Dispatchers, NEW l \in Locals, me' = [me EXCEPT ![d] = l]
  PROVE  me' \in [Dispatchers -> Locals]
  BY DEF TypeOK

LEMMA SettleType ==
  ASSUME TypeOK, NEW d \in Dispatchers, NEW o \in {"ok", "transient", "hard"}, Settle(d, o)
  PROVE  me' \in [Dispatchers -> Locals]
  <1> DEFINE l == [me[d] EXCEPT !.outcome = o, !.moved = TRUE]
  <1>1. me[d] \in Locals
    BY DEF TypeOK
  <1>2. l \in Locals
    BY <1>1 DEF Locals
  <1>3. me' = [me EXCEPT ![d] = l]
    BY DEF Settle
  <1> HIDE DEF l
  <1> QED BY <1>2, <1>3, LocalsType

LEMMA HardType ==
  ASSUME TypeOK, NEW d \in Dispatchers, Hard(d)
  PROVE  /\ pc' \in [Dispatchers -> {"idle", "retry", "scanned", "begin", "next",
                                     "prepare", "execute", "load", "save", "write", "done"}]
         /\ me' \in [Dispatchers -> Locals]
         /\ pc'[d] \in {"idle", "done", "next"}
         /\ \A e \in Dispatchers \ {d} : pc'[e] = pc[e]
  <1>1. CASE Leave(d)
    BY <1>1, LeaveType
  <1>2. CASE Settle(d, "hard") /\ Goto(d, "next")
    BY <1>2, SettleType DEF Goto, TypeOK
  <1> QED BY <1>1, <1>2 DEF Hard

\* The rows and the history stay in their types: what each writes to them.
LEMMA SeenType ==
  ASSUME TypeOK, NEW d \in Dispatchers
  PROVE  /\ me[d].seen + 1 \in Nat
         /\ me[d].mine \in Store
         /\ me[d].at \in Adapters
         /\ me[d].todo \subseteq Adapters
  BY DEF TypeOK, Locals

LEMMA TypeStep == TypeOK /\ [Next]_vars => TypeOK'
  <1> SUFFICES ASSUME TypeOK, [Next]_vars PROVE TypeOK'
    OBVIOUS
  <1> USE DEF rows, file, history
  <1>1. ASSUME NEW d \in Dispatchers, Dispatch(d) \/ Retry(d) PROVE TypeOK'
    BY <1>1 DEF Dispatch, Retry, Goto, TypeOK
  <1>2. ASSUME NEW d \in Dispatchers, Requeue(d) PROVE TypeOK'
    BY <1>2 DEF Requeue, Goto, Becomes, TypeOK
  <1>3. ASSUME NEW d \in Dispatchers,
               Refused(d) \/ Unroutable(d) \/ Return(d) \/ \E a \in Adapters : Stop(d, a)
        PROVE  TypeOK'
    BY <1>3, LeaveType DEF Refused, Unroutable, Return, Stop, TypeOK
  <1>4. ASSUME NEW d \in Dispatchers, Route(d) PROVE TypeOK'
    <2>1. PICK r \in SUBSET Adapters :
            me' = [me EXCEPT ![d] = [Fresh EXCEPT !.todo = r, !.seen = attempts]]
      BY <1>4 DEF Route
    <2>2. [Fresh EXCEPT !.todo = r, !.seen = attempts] \in Locals
      BY FreshType DEF Locals, TypeOK
    <2> QED BY <1>4, <2>1, <2>2 DEF Route, Goto, TypeOK
  <1>5. ASSUME NEW d \in Dispatchers, NoReadyTarget(d) \/ Unavailable(d) PROVE TypeOK'
    BY <1>5, LeaveType, SeenType
       DEF NoReadyTarget, Unavailable, FailRow, Becomes, TypeOK
  <1>6. ASSUME NEW d \in Dispatchers, NEW a \in Adapters, Skip(d, a) PROVE TypeOK'
    <2> DEFINE l == [me[d] EXCEPT !.todo = @ \ {a}, !.moved = TRUE]
    <2>1. l \in Locals
      BY DEF TypeOK, Locals
    <2>2. me' = [me EXCEPT ![d] = l]
      BY <1>6 DEF Skip
    <2>3. me' \in [Dispatchers -> Locals]
      <3> HIDE DEF l
      <3> QED BY <2>1, <2>2, LocalsType
    <2> QED BY <1>6, <2>3 DEF Skip, TypeOK
  <1>7. ASSUME NEW d \in Dispatchers, NEW a \in Adapters, Enter(d, a) PROVE TypeOK'
    <2> DEFINE l == [me[d] EXCEPT !.todo = @ \ {a}, !.at = a, !.seen = attempts]
    <2>1. l \in Locals
      BY <1>7 DEF TypeOK, Locals
    <2>2. me' = [me EXCEPT ![d] = l]
      BY <1>7 DEF Enter
    <2>3. me' \in [Dispatchers -> Locals]
      <3> HIDE DEF l
      <3> QED BY <2>1, <2>2, LocalsType
    <2> QED BY <1>7, <2>3 DEF Enter, Goto, TypeOK
  <1>8. ASSUME NEW d \in Dispatchers, Decline(d) PROVE TypeOK'
    BY <1>8, HardType, SeenType DEF Decline, FailRow, Becomes, TypeOK
  <1>9. ASSUME NEW d \in Dispatchers, Start(d) PROVE TypeOK'
    BY <1>9, SeenType DEF Start, Count, Becomes, Goto, TypeOK
  <1>10. ASSUME NEW d \in Dispatchers, Complete(d) PROVE TypeOK'
    BY <1>10, SettleType DEF Complete, Becomes, Goto, TypeOK
  <1>11. ASSUME NEW d \in Dispatchers, Fail(d) PROVE TypeOK'
    <2>1. CASE Settle(d, "transient") /\ Goto(d, "load")
      BY <1>11, <2>1, SettleType DEF Fail, Becomes, Goto, TypeOK
    <2>2. CASE Hard(d)
      BY <1>11, <2>2, HardType DEF Fail, Becomes, TypeOK
    <2> QED BY <1>11, <2>1, <2>2 DEF Fail
  <1>12. ASSUME NEW d \in Dispatchers, Load(d) PROVE TypeOK'
    <2> DEFINE a == me[d].at
               e == IF me[d].outcome = "ok" THEN Succeeded(readStore[a])
                                           ELSE Failed(readStore[a])
    <2>1. a \in Adapters /\ readStore \in Store
      BY SeenType, ReadType
    <2>2. e \in Entry
      <3>1. Succeeded(readStore[a]) \in Entry
        BY DispatchAssumption DEF Succeeded, Entry
      <3>2. readStore[a] \in Entry /\ now \in Nat
        BY <2>1 DEF Store, TypeOK
      <3> QED BY <3>1, <3>2, FailedType
    <2>3. [readStore EXCEPT ![a] = e] \in Store
      BY <2>1, <2>2 DEF Store
    <2>4. me' = [me EXCEPT ![d].mine = [readStore EXCEPT ![a] = e]]
      BY <1>12 DEF Load
    <2>5. me' \in [Dispatchers -> Locals]
      <3> DEFINE s == [readStore EXCEPT ![a] = e]
                 l == [me[d] EXCEPT !.mine = s]
      <3> HIDE DEF s
      <3>1. s \in Store
        BY <2>3 DEF s
      <3>2. l \in Locals
        BY <3>1 DEF TypeOK, Locals
      <3>3. me' = [me EXCEPT ![d] = l]
        BY <2>4 DEF s
      <3> HIDE DEF l
      <3> QED BY <3>2, <3>3, LocalsType
    <2>6. failures' \in [Adapters -> 0 .. Threshold]
      <3>1. OneMore(failures[a]) \in 0 .. Threshold
        BY <2>1, DispatchAssumption DEF OneMore, TypeOK
      <3> QED BY <1>12, <2>1, <3>1 DEF Load, TypeOK
    <2> QED BY <1>12, <2>5, <2>6 DEF Load, Goto, TypeOK
  <1>13. ASSUME NEW d \in Dispatchers, Truncate(d) PROVE TypeOK'
    BY <1>13 DEF Truncate, Goto, TypeOK
  <1>14. ASSUME NEW d \in Dispatchers, Write(d) PROVE TypeOK'
    <2>1. store' \in Store /\ text' \in {"json", "empty", "mixed"}
      BY <1>14, SeenType DEF Write, TypeOK
    <2>4. failures' \in [Adapters -> 0 .. Threshold] /\ lost' \subseteq Adapters
      BY <1>14, SeenType, DispatchAssumption DEF Write, Forgiven, TypeOK
    <2>2. CASE Leave(d)
      BY <1>14, <2>1, <2>2, <2>4, LeaveType DEF Write, TypeOK
    <2>3. CASE /\ Goto(d, "next")
               /\ me' = [me EXCEPT ![d].mine = emptyStore, ![d].at = 1, ![d].seen = 0]
      <3>1. 1 \in Adapters
        BY DispatchAssumption DEF Adapters
      <3>2. me' \in [Dispatchers -> Locals]
        <4> DEFINE l == [me[d] EXCEPT !.mine = emptyStore, !.at = 1, !.seen = 0]
        <4>1. l \in Locals
          BY <3>1, FreshType DEF TypeOK, Locals
        <4>2. me' = [me EXCEPT ![d] = l]
          BY <2>3
        <4> HIDE DEF l
        <4> QED BY <4>1, <4>2, LocalsType
      <3> QED BY <1>14, <2>1, <2>3, <2>4, <3>2 DEF Write, Goto, TypeOK
    <2> QED BY <1>14, <2>2, <2>3 DEF Write
  <1>15. ASSUME NEW d \in Dispatchers, Throw(d) PROVE TypeOK'
    BY <1>15, LeaveType DEF Throw, TypeOK
  <1>16. CASE Scan
    <2> DEFINE d == "recovery"
               l == [me[d] EXCEPT !.seen = attempts]
    <2>1. d \in Dispatchers
      BY DEF Dispatchers
    <2>2. l \in Locals
      BY <2>1 DEF TypeOK, Locals
    <2>3. me' = [me EXCEPT ![d] = l]
      BY <1>16 DEF Scan
    <2>4. me' \in [Dispatchers -> Locals]
      <3> HIDE DEF l, d
      <3> QED BY <2>1, <2>2, <2>3, LocalsType
    <2> QED BY <1>16, <2>1, <2>4 DEF Scan, Goto, TypeOK
  <1>17. CASE GiveUp
    BY <1>17, LeaveType DEF GiveUp, Becomes, TypeOK, Dispatchers
  <1>18. CASE Recover
    BY <1>18 DEF Recover, Becomes, Goto, TypeOK, Dispatchers
  <1>19. CASE Crash
    BY <1>19, FreshType DEF Crash, Over, TypeOK
  <1>20. CASE Elapse \/ UNCHANGED vars
    BY <1>20 DEF Elapse, vars, TypeOK
  <1> QED
    BY <1>1, <1>2, <1>3, <1>4, <1>5, <1>6, <1>7, <1>8, <1>9, <1>10, <1>11, <1>12,
       <1>13, <1>14, <1>15, <1>16, <1>17, <1>18, <1>19, <1>20
       DEF Next, Request, Run
------------------------------------------------------------------------------
(* The run's row and its task.                                             *)

\* A step of a dispatcher that is not with an adapter, and writes no row.
Quiet(d) == /\ pc[d] \notin {"prepare", "execute"}
            /\ UNCHANGED <<state, task, orphan>>
            /\ \A e \in Dispatchers \ {d} : pc'[e] = pc[e]

LEMMA QuietStep ==
  ASSUME TypeOK, RunningIsExecuted, FailedIsBlocked, NEW d \in Dispatchers, Quiet(d)
  PROVE  RunningIsExecuted' /\ FailedIsBlocked'
  BY DEF Quiet, RunningIsExecuted, FailedIsBlocked

LEMMA QuietActions ==
  ASSUME TypeOK, NEW d \in Dispatchers,
         \/ Dispatch(d) \/ Retry(d) \/ Refused(d) \/ Unroutable(d) \/ Route(d)
         \/ \E a \in Adapters : Skip(d, a) \/ Stop(d, a)
         \/ Return(d) \/ Load(d) \/ Truncate(d) \/ Write(d)
  PROVE  Quiet(d)
  <1> USE DEF Quiet, rows, file, history
  <1>1. CASE \/ Dispatch(d) \/ Retry(d) \/ Route(d) \/ Load(d) \/ Truncate(d)
    BY <1>1 DEF Dispatch, Retry, Route, Load, Truncate, Goto, TypeOK
  <1>2. CASE \/ Refused(d) \/ Unroutable(d) \/ Return(d)
    BY <1>2, LeaveType DEF Refused, Unroutable, Return
  <1>3. CASE \E a \in Adapters : Skip(d, a) \/ Stop(d, a)
    BY <1>3, LeaveType DEF Skip, Stop, Target
  <1>4. CASE Write(d)
    BY <1>4, LeaveType DEF Write, Goto, TypeOK
  <1> QED BY <1>1, <1>2, <1>3, <1>4

LEMMA RowStep ==
  TypeOK /\ RunningIsExecuted /\ FailedIsBlocked /\ [Next]_vars
  => RunningIsExecuted' /\ FailedIsBlocked'
  <1> SUFFICES ASSUME TypeOK, RunningIsExecuted, FailedIsBlocked, [Next]_vars
               PROVE  RunningIsExecuted' /\ FailedIsBlocked'
    OBVIOUS
  <1> USE DEF RunningIsExecuted, FailedIsBlocked, rows, file
  <1>1. ASSUME NEW d \in Dispatchers,
               \/ Dispatch(d) \/ Retry(d) \/ Refused(d) \/ Unroutable(d) \/ Route(d)
               \/ \E a \in Adapters : Skip(d, a) \/ Stop(d, a)
               \/ Return(d) \/ Load(d) \/ Truncate(d) \/ Write(d)
        PROVE  RunningIsExecuted' /\ FailedIsBlocked'
    BY <1>1, QuietActions, QuietStep
  \* The task is set in progress by a dispatcher that goes on to an adapter.
  <1>2. ASSUME NEW d \in Dispatchers, NEW a \in Adapters, Enter(d, a)
        PROVE  RunningIsExecuted' /\ FailedIsBlocked'
    <2>1. /\ pc[d] = "next" /\ pc'[d] = "prepare"
          /\ \A e \in Dispatchers \ {d} : pc'[e] = pc[e]
          /\ UNCHANGED <<state, orphan>>
      BY <1>2 DEF Enter, Target, Goto, TypeOK
    <2> QED BY <2>1
  \* What fails a run blocks its task.
  <1>3. ASSUME NEW d \in Dispatchers, NoReadyTarget(d) \/ Unavailable(d) \/ Decline(d)
        PROVE  RunningIsExecuted' /\ FailedIsBlocked'
    <2>1. state' = "FAILED" /\ task' = "BLOCKED"
      BY <1>3 DEF NoReadyTarget, Unavailable, Decline, FailRow, Becomes
    <2> QED BY <2>1
  <1>4. ASSUME NEW d \in Dispatchers, Fail(d)
        PROVE  RunningIsExecuted' /\ FailedIsBlocked'
    BY <1>4 DEF Fail, Becomes
  <1>5. ASSUME NEW d \in Dispatchers, Requeue(d) \/ Complete(d)
        PROVE  RunningIsExecuted' /\ FailedIsBlocked'
    BY <1>5 DEF Requeue, Complete, Becomes
  <1>6. ASSUME NEW d \in Dispatchers, Start(d)
        PROVE  RunningIsExecuted' /\ FailedIsBlocked'
    BY <1>6 DEF Start, Becomes, Goto, TypeOK
  <1>7. ASSUME NEW d \in Dispatchers, Throw(d)
        PROVE  RunningIsExecuted' /\ FailedIsBlocked'
    BY <1>7 DEF Throw
  <1>8. CASE Scan
    <2>1. Quiet("recovery") /\ "recovery" \in Dispatchers
      BY <1>8 DEF Scan, Quiet, Goto, TypeOK, Dispatchers
    <2> QED BY <2>1, QuietStep
  <1>9. CASE GiveUp \/ Recover \/ Crash
    BY <1>9 DEF GiveUp, Recover, Becomes, Crash
  <1>10. CASE Elapse \/ UNCHANGED vars
    BY <1>10 DEF Elapse, vars
  <1> QED
    BY <1>1, <1>2, <1>3, <1>4, <1>5, <1>6, <1>7, <1>8, <1>9, <1>10
       DEF Next, Request, Run
------------------------------------------------------------------------------
(* The circuits.                                                           *)

\* Neither the file, nor a text that does not parse, claims a failure too many.
LEMMA ReadEarned ==
  ASSUME TypeOK, CountsAreEarned, NEW a \in Adapters \ lost
  PROVE  Earned(readStore[a], failures[a])
  <1>1. Earned(emptyStore[a], failures[a])
    BY DEF Earned, emptyStore, TypeOK
  <1> QED BY <1>1 DEF readStore, CountsAreEarned

\* Circuits are as they were, or empty.
LEMMA ForgetStep ==
  ASSUME TypeOK, CountsAreEarned, UNCHANGED history,
         \/ UNCHANGED store
         \/ \E d \in Dispatchers : store' = me[d].mine,
         \A d \in Dispatchers : \/ me'[d].mine = me[d].mine
                               \/ me'[d].mine = emptyStore
  PROVE  CountsAreEarned'
  <1> USE DEF history
  <1>1. \A a \in Adapters : Earned(emptyStore[a], failures[a])
    BY DEF Earned, emptyStore, TypeOK
  <1>2. ASSUME NEW a \in Adapters \ lost PROVE Earned(store'[a], failures'[a])
    BY DEF CountsAreEarned
  <1>3. ASSUME NEW a \in Adapters \ lost, NEW d \in Dispatchers
        PROVE  Earned(me'[d].mine[a], failures'[a])
    BY <1>1 DEF CountsAreEarned
  <1> QED BY <1>2, <1>3 DEF CountsAreEarned

\* The entry that a failure or a success replaces.
LEMMA LoadStep ==
  ASSUME TypeOK, CountsAreEarned, NEW d \in Dispatchers, Load(d)
  PROVE  CountsAreEarned'
  <1> DEFINE a == me[d].at
             ok == me[d].outcome = "ok"
             new == [readStore EXCEPT ![a] = IF ok THEN Succeeded(@) ELSE Failed(@)]
  <1>1. a \in Adapters /\ readStore \in Store /\ now \in Nat
    BY SeenType, ReadType DEF TypeOK
  <1>2. /\ UNCHANGED <<store, lost>>
        /\ me' = [me EXCEPT ![d].mine = new]
        /\ failures' = IF ok THEN failures ELSE [failures EXCEPT ![a] = OneMore(@)]
    BY DEF Load, file
  <1>3. /\ me'[d].mine = new
        /\ \A e \in Dispatchers \ {d} : me'[e] = me[e]
    BY <1>2 DEF TypeOK, Locals
  <1>4. \A b \in Adapters : /\ failures[b] \in 0 .. Threshold
                           /\ failures'[b] \in {failures[b], OneMore(failures[b])}
    BY <1>2 DEF TypeOK
  \* A failure more does not take away from what was earned.
  <1>5. ASSUME NEW b \in Adapters, NEW e \in Entry, Earned(e, failures[b])
        PROVE  Earned(e, failures'[b])
    BY <1>4, <1>5, DispatchAssumption DEF Earned, OneMore, Entry
  <1>6. ASSUME NEW b \in Adapters \ lost PROVE Earned(new[b], failures'[b])
    <2>1. readStore[b] \in Entry /\ Earned(readStore[b], failures[b])
      BY <1>1, ReadEarned DEF Store
    <2>2. CASE b # a
      BY <1>1, <1>5, <2>1, <2>2 DEF Store
    <2>3. CASE b = a /\ ok
      BY <1>1, <1>2, <1>4, <2>3 DEF Store, Succeeded, Earned
    <2>4. CASE b = a /\ ~ok
      <3>1. new[b] = Failed(readStore[b])
        BY <1>1, <2>4 DEF Store
      <3>2. failures'[b] = OneMore(failures[b])
        BY <1>1, <1>2, <2>4 DEF TypeOK
      <3> QED BY <1>1, <1>4, <2>1, <3>1, <3>2, FailedEarned
    <2> QED BY <2>2, <2>3, <2>4
  <1>7. \A b \in Adapters : store[b] \in Entry
    BY DEF TypeOK, Store
  <1>8. \A b \in Adapters, e \in Dispatchers : me[e].mine[b] \in Entry
    BY SeenType DEF Store
  <1> HIDE DEF new
  <1>9. ASSUME NEW b \in Adapters \ lost, NEW e \in Dispatchers
        PROVE  Earned(me'[e].mine[b], failures'[b])
    BY <1>3, <1>5, <1>6, <1>8 DEF CountsAreEarned
  <1>10. ASSUME NEW b \in Adapters \ lost PROVE Earned(store'[b], failures'[b])
    BY <1>2, <1>5, <1>7 DEF CountsAreEarned
  <1> QED BY <1>2, <1>9, <1>10 DEF CountsAreEarned

\* The write of a success leaves no failures of its adapter behind, unless
\* another writer holds an older store.
LEMMA WriteStep ==
  ASSUME TypeOK, CountsAreEarned, SuccessForgives, NEW d \in Dispatchers, Write(d)
  PROVE  CountsAreEarned'
  <1> DEFINE a == me[d].at
  <1>1. /\ store' = me[d].mine
        /\ \A e \in Dispatchers : \/ me'[e].mine = me[e].mine
                                  \/ me'[e].mine = emptyStore
        /\ me'[d].mine = emptyStore
    BY DEF Write, Leave, Fresh, TypeOK, Locals
  <1>2. CASE me[d].outcome # "ok"
    BY <1>1, <1>2, ForgetStep DEF Write, Forgiven
  <1>3. CASE me[d].outcome = "ok"
    <2>1. /\ failures' = [failures EXCEPT ![a] = 0]
          /\ lost' = IF Overtaken(d) THEN lost \cup {a} ELSE lost \ {a}
      BY <1>3 DEF Write, Forgiven
    <2>2. a \in Adapters
      BY SeenType
    <2>3. \A b \in Adapters : Earned(emptyStore[b], failures'[b])
      BY <2>1 DEF Earned, emptyStore, TypeOK
    <2>4. ASSUME NEW b \in Adapters \ lost', b # a
          PROVE  /\ Earned(store'[b], failures'[b])
                 /\ \A e \in Dispatchers : Earned(me'[e].mine[b], failures'[b])
      <3>1. b \in Adapters \ lost /\ failures'[b] = failures[b]
        BY <2>1, <2>4 DEF TypeOK
      <3> QED BY <1>1, <2>3, <3>1 DEF CountsAreEarned
    <2>5. ASSUME a \notin lost'
          PROVE  /\ Earned(store'[a], failures'[a])
                 /\ \A e \in Dispatchers : Earned(me'[e].mine[a], failures'[a])
      <3>1. ~Overtaken(d) /\ failures'[a] = 0
        BY <2>1, <2>2, <2>5 DEF TypeOK
      <3>2. store'[a] = [count |-> 0, until |-> 0]
        BY <1>1, <1>3 DEF Write, SuccessForgives, Forgives
      <3>3. ASSUME NEW e \in Dispatchers \ {d} PROVE Earned(me[e].mine[a], 0)
        <4>1. ~(me[e].mine[a].count > 0 \/ me[e].mine[a].until > 0)
          BY <3>1 DEF Overtaken
        <4>2. me[e].mine[a] \in Entry
          BY <2>2, SeenType DEF Store
        <4> QED BY <4>1, <4>2, DispatchAssumption DEF Earned, Entry
      <3> QED BY <1>1, <2>2, <2>3, <3>1, <3>2, <3>3 DEF Earned
    <2> QED BY <2>4, <2>5 DEF CountsAreEarned
  <1> QED BY <1>2, <1>3

LEMMA EarnedStep ==
  TypeOK /\ CountsAreEarned /\ SuccessForgives /\ [Next]_vars => CountsAreEarned'
  <1> SUFFICES ASSUME TypeOK, CountsAreEarned, SuccessForgives, [Next]_vars
               PROVE  CountsAreEarned'
    OBVIOUS
  <1> USE DEF rows, file, history
  <1>1. Fresh.mine = emptyStore
    BY DEF Fresh
  <1>2. ASSUME NEW d \in Dispatchers, Leave(d)
        PROVE  \A e \in Dispatchers : \/ me'[e].mine = me[e].mine
                                     \/ me'[e].mine = emptyStore
    BY <1>1, <1>2 DEF Leave, TypeOK
  <1>3. ASSUME NEW d \in Dispatchers, NEW o \in {"ok", "transient", "hard"}, Settle(d, o)
        PROVE  \A e \in Dispatchers : me'[e].mine = me[e].mine
    BY <1>3 DEF Settle, TypeOK, Locals
  <1>4. ASSUME NEW d \in Dispatchers, Hard(d)
        PROVE  \A e \in Dispatchers : \/ me'[e].mine = me[e].mine
                                     \/ me'[e].mine = emptyStore
    BY <1>2, <1>3, <1>4 DEF Hard
  <1>5. ASSUME NEW d \in Dispatchers,
               \/ Dispatch(d) \/ Retry(d) \/ Requeue(d) \/ Start(d) \/ Truncate(d)
        PROVE  CountsAreEarned'
    BY <1>5, ForgetStep DEF Dispatch, Retry, Requeue, Start, Truncate
  <1>6. ASSUME NEW d \in Dispatchers,
               \/ Refused(d) \/ Unroutable(d) \/ Return(d) \/ Throw(d)
               \/ NoReadyTarget(d) \/ Unavailable(d)
               \/ \E a \in Adapters : Stop(d, a)
        PROVE  CountsAreEarned'
    BY <1>2, <1>6, ForgetStep
       DEF Refused, Unroutable, Return, Throw, NoReadyTarget, Unavailable, Stop
  <1>7. ASSUME NEW d \in Dispatchers, Route(d) PROVE CountsAreEarned'
    <2>1. \A e \in Dispatchers : \/ me'[e].mine = me[e].mine
                                \/ me'[e].mine = emptyStore
      BY <1>7 DEF Route, Fresh, TypeOK
    <2> QED BY <1>7, <2>1, ForgetStep DEF Route
  <1>8. ASSUME NEW d \in Dispatchers, NEW a \in Adapters, Skip(d, a) \/ Enter(d, a)
        PROVE  CountsAreEarned'
    <2>1. \A e \in Dispatchers : me'[e].mine = me[e].mine
      BY <1>8 DEF Skip, Enter, TypeOK, Locals
    <2> QED BY <1>8, <2>1, ForgetStep DEF Skip, Enter
  <1>9. ASSUME NEW d \in Dispatchers, Decline(d) PROVE CountsAreEarned'
    BY <1>4, <1>9, ForgetStep DEF Decline
  <1>10. ASSUME NEW d \in Dispatchers, Complete(d) PROVE CountsAreEarned'
    BY <1>3, <1>10, ForgetStep DEF Complete
  <1>11. ASSUME NEW d \in Dispatchers, Fail(d) PROVE CountsAreEarned'
    BY <1>3, <1>4, <1>11, ForgetStep DEF Fail
  <1>12. ASSUME NEW d \in Dispatchers, Load(d) PROVE CountsAreEarned'
    BY <1>12, LoadStep
  <1>13. ASSUME NEW d \in Dispatchers, Write(d) PROVE CountsAreEarned'
    BY <1>13, WriteStep
  <1>14. CASE Scan
    <2>1. \A e \in Dispatchers : me'[e].mine = me[e].mine
      BY <1>14 DEF Scan, TypeOK, Locals
    <2> QED BY <1>14, <2>1, ForgetStep DEF Scan
  <1>15. CASE GiveUp
    BY <1>2, <1>15, ForgetStep DEF GiveUp, Dispatchers
  <1>16. CASE Recover \/ Elapse \/ UNCHANGED vars
    BY <1>16, ForgetStep DEF Recover, Elapse, vars
  <1>17. CASE Crash
    BY <1>1, <1>17, ForgetStep DEF Crash
  <1> QED
    BY <1>5, <1>6, <1>7, <1>8, <1>9, <1>10, <1>11, <1>12, <1>13, <1>14, <1>15,
       <1>16, <1>17 DEF Next, Request, Run

\* A step of one dispatcher after which it is not about to write a success, or
\* stands as it did.
Unarmed(d) ==
  /\ \A e \in Dispatchers \ {d} : pc'[e] = pc[e] /\ me'[e] = me[e]
  /\ pc'[d] \notin {"save", "write"}

LEMMA ForgivesStep == TypeOK /\ SuccessForgives /\ [Next]_vars => SuccessForgives'
  <1> SUFFICES ASSUME TypeOK, SuccessForgives, [Next]_vars PROVE SuccessForgives'
    OBVIOUS
  <1> USE DEF SuccessForgives, Forgives
  <1>1. ASSUME NEW d \in Dispatchers, Unarmed(d) PROVE SuccessForgives'
    BY <1>1 DEF Unarmed
  <1>2. ASSUME NEW d \in Dispatchers, Leave(d) PROVE Unarmed(d)
    BY <1>2 DEF Leave, Goto, Over, Unarmed, TypeOK
  <1>3. ASSUME NEW d \in Dispatchers, Hard(d) PROVE Unarmed(d)
    BY <1>2, <1>3 DEF Hard, Settle, Goto, Unarmed, TypeOK
  <1>4. ASSUME NEW d \in Dispatchers, Load(d) PROVE SuccessForgives'
    <2> DEFINE a == me[d].at
               new(x) == [readStore EXCEPT ![a] = x]
    <2>1. a \in Adapters /\ readStore \in Store
      BY SeenType, ReadType
    <2>2. /\ \A e \in Dispatchers \ {d} : pc'[e] = pc[e] /\ me'[e] = me[e]
          /\ me'[d].at = a /\ me'[d].outcome = me[d].outcome
          /\ me[d].outcome = "ok" =>
               me'[d].mine = [readStore EXCEPT ![a] = Succeeded(@)]
      BY <1>4 DEF Load, Goto, TypeOK, Locals
    <2>3. me[d].outcome = "ok" => me'[d].mine[a] = [count |-> 0, until |-> 0]
      BY <2>1, <2>2 DEF Succeeded, Store
    <2> QED BY <2>2, <2>3
  <1>5. ASSUME NEW d \in Dispatchers, Truncate(d) PROVE SuccessForgives'
    BY <1>5 DEF Truncate, Goto, TypeOK
  <1>6. ASSUME NEW d \in Dispatchers, Write(d) PROVE Unarmed(d)
    BY <1>2, <1>6 DEF Write, Goto, Unarmed, TypeOK
  <1>7. ASSUME NEW d \in Dispatchers,
               \/ Dispatch(d) \/ Retry(d) \/ Requeue(d) \/ Route(d) \/ Start(d)
               \/ Complete(d)
        PROVE  Unarmed(d)
    BY <1>7 DEF Dispatch, Retry, Requeue, Route, Start, Complete, Settle, Goto,
       Unarmed, TypeOK
  <1>8. ASSUME NEW d \in Dispatchers, NEW a \in Adapters, Skip(d, a) \/ Enter(d, a)
        PROVE  Unarmed(d)
    BY <1>8 DEF Skip, Enter, Target, Goto, Unarmed, TypeOK
  <1>9. ASSUME NEW d \in Dispatchers,
               \/ Refused(d) \/ Unroutable(d) \/ Return(d) \/ Throw(d)
               \/ NoReadyTarget(d) \/ Unavailable(d)
               \/ \E a \in Adapters : Stop(d, a)
        PROVE  Unarmed(d)
    BY <1>2, <1>9
       DEF Refused, Unroutable, Return, Throw, NoReadyTarget, Unavailable, Stop
  <1>10. ASSUME NEW d \in Dispatchers, Decline(d) \/ Fail(d) PROVE Unarmed(d)
    BY <1>3, <1>10 DEF Decline, Fail, Settle, Goto, Unarmed, TypeOK
  <1>11. CASE Scan \/ GiveUp \/ Recover
    <2>1. "recovery" \in Dispatchers
      BY DEF Dispatchers
    <2>2. Unarmed("recovery")
      BY <1>2, <1>11, <2>1 DEF Scan, GiveUp, Recover, Goto, Unarmed, TypeOK
    <2> QED BY <1>1, <2>1, <2>2
  <1>12. CASE Crash
    BY <1>12 DEF Crash, Over
  <1>13. CASE Elapse \/ UNCHANGED vars
    BY <1>13 DEF Elapse, vars
  <1> QED
    BY <1>1, <1>4, <1>5, <1>6, <1>7, <1>8, <1>9, <1>10, <1>11, <1>12, <1>13
       DEF Next, Request, Run
------------------------------------------------------------------------------
\* DispatchInv is inductive.
THEOREM DispatchInductive == Spec => []DispatchInv
  <1>1. Init => DispatchInv
    BY DispatchInit
  <1>2. DispatchInv /\ [Next]_vars => DispatchInv'
    BY TypeStep, RowStep, EarnedStep, ForgivesStep DEF DispatchInv
  <1> QED BY <1>1, <1>2, PTL DEF Spec

\* The variables stay in their types: a dispatch has one place, and one target.
THEOREM TypeCorrect == Spec => []TypeOK
  BY DispatchInductive, PTL DEF DispatchInv

\* However many dispatchers overlap, a row that says RUNNING has an executor,
\* or one that threw or died behind it.
THEOREM RunningRowIsExecuted == Spec => []RunningIsExecuted
  BY DispatchInductive, PTL DEF DispatchInv

\* A failed run blocks its task.
THEOREM FailedRunBlocksTask == Spec => []FailedIsBlocked
  BY DispatchInductive, PTL DEF DispatchInv

\* Lost updates and torn files only forget failures: a circuit opens after as
\* many failures in a row as it takes, unless an older store overtook the last
\* success of its adapter.
THEOREM CircuitsOpenByFailures == Spec => []OpenIsEarned
  <1>1. DispatchInv => OpenIsEarned
    <2> SUFFICES ASSUME DispatchInv, NEW a \in Adapters \ lost,
                        readStore[a].until > 0
                 PROVE  failures[a] = Threshold
      BY DEF OpenIsEarned
    <2> QED BY ReadEarned DEF DispatchInv, Earned
  <1> QED BY <1>1, DispatchInductive, PTL
=============================================================================
