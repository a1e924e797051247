------------------------- MODULE ToolExecutorProofs -------------------------
(***************************************************************************)
(* Proofs of the invariants of ToolExecutor.  They rest on where the calls *)
(* of the message stand (Shape), on what the awaiting runs of processQueue *)
(* have already passed (Passed), and on the start of a tool: nothing       *)
(* before it in the message waits (NothingWaitsBefore).                    *)
(***************************************************************************)
EXTENDS ToolExecutor, TLAPS

\* The queue keeps the types, and its positions stay in the message.
LEMMA StartTypes ==
  ASSUME TypeOK, NEW i \in Calls, executeTool(i)
  PROVE  /\ status' \in [Calls -> Status]
         /\ result' \in [Calls -> Result]
         /\ Again \subseteq 1 .. N + 1
         /\ i + 1 \in 1 .. N + 1
<1>1. status' \in [Calls -> Status] /\ result' \in [Calls -> Result]
  BY DEF TypeOK, executeTool, Status, Result
<1>2. i \in Nat /\ 1 <= i /\ i <= N
  BY ToolExecutorAssumption DEF Calls
<1> QED
  BY <1>1, <1>2, ToolExecutorAssumption DEF Again

LEMMA QueueTypes ==
  ASSUME TypeOK, NEW p, NEW others \in SUBSET (1 .. N + 1),
         processQueue(p, others)
  PROVE  /\ status' \in [Calls -> Status]
         /\ result' \in [Calls -> Result]
         /\ failed' \in BOOLEAN
         /\ scans' \subseteq 1 .. N + 1
<1>1. CASE \E i \in Calls : /\ executeTool(i)
                           /\ scans' = others \cup {i + 1} \cup Again
  BY <1>1, StartTypes DEF processQueue, TypeOK
<1>2. CASE scans' = others /\ UNCHANGED <<status, result>>
  BY <1>2 DEF processQueue, TypeOK
<1> QED
  BY <1>1, <1>2 DEF processQueue

\* The types hold in every reachable state of the executor and its loop.
THEOREM TypeCorrect == Spec => []TypeOK
<1>1. Init => TypeOK
  <2> SUFFICES ASSUME Init PROVE TypeOK
    OBVIOUS
  <2>1. /\ status \in [Calls -> Status]
        /\ result \in [Calls -> Result]
        /\ heard \in [Calls -> Nat]
    BY DEF Init, Status, Result
  <2>2. at \in 1 .. N + 1
    BY ToolExecutorAssumption DEF Init
  <2> QED
    BY <2>1, <2>2 DEF Init, TypeOK, Sync
<1>2. TypeOK /\ [Next]_vars => TypeOK'
  <2> SUFFICES ASSUME TypeOK, [Next]_vars PROVE TypeOK'
    OBVIOUS
  <2> USE ToolExecutorAssumption DEF TypeOK, Calls, Status, Result, Sync, Away,
                                    toolVars, loopVars
  <2>1. CASE Refuse
    BY <2>1 DEF Refuse
  <2>2. CASE addUnknown
    BY <2>2 DEF addUnknown
  <2>3. CASE addTool
    BY <2>3 DEF addTool
  <2>4. CASE Added
    BY <2>4, QueueTypes DEF Added
  <2>5. CASE Queued
    BY <2>5 DEF Queued
  <2>6. CASE Hand
    BY <2>6 DEF Hand, HandOver
  <2>7. CASE Offer
    <3>1. ASSUME NEW i \in Calls, Yield(i), pc' = "offered"
          PROVE  TypeOK'
      <4>1. /\ status' \in [Calls -> Status]
            /\ heard' \in [Calls -> Nat]
            /\ at' \in 1 .. N + 1
        BY <3>1 DEF Yield
      <4> QED
        BY <2>7, <3>1, <4>1 DEF Offer
    <3>2. CASE UNCHANGED <<status, heard, at>> /\ pc' = "trace"
      BY <2>7, <3>2 DEF Offer
    <3> QED
      BY <2>7, <3>1, <3>2 DEF Offer
  <2>8. CASE Loop
    BY <2>8 DEF Loop
  <2>9. CASE Pump
    <3>1. ASSUME NEW i \in Calls, executeTool(i), scans' = scans \cup Again,
                 at' = i + 1, pc' = pc
          PROVE  TypeOK'
      BY <2>9, <3>1, StartTypes DEF Pump
    <3>2. CASE UNCHANGED <<status, result, scans>> /\ at' = 1 /\ pc' = "sweep"
      BY <2>9, <3>2 DEF Pump
    <3> QED
      BY <2>9, <3>1, <3>2 DEF Pump
  <2>10. CASE Sweep
    BY <2>10 DEF Sweep, Yield
  <2>11. CASE SweepEnds
    BY <2>11 DEF SweepEnds, Executing
  <2>12. CASE Race
    BY <2>12 DEF Race
  <2>13. CASE Resume
    <3>1. pc' \in {"queue", "offer", "loop", "sweep"}
      BY <2>13 DEF Resume, Resumed
    <3>2. at' \in 1 .. N + 1
      <4>1. CASE pc = "record"
        BY <2>13, <4>1 DEF Resume
      <4>2. CASE pc # "record"
        BY <2>13, <4>2 DEF Resume
      <4> QED
        BY <4>1, <4>2
    <3>3. kept' \subseteq Calls /\ collect' \in BOOLEAN
      BY <2>13 DEF Resume, Refused
    <3> QED
      BY <2>13, <3>1, <3>2, <3>3 DEF Resume
  <2>14. ASSUME NEW p \in 1 .. N + 1, Scan(p) PROVE TypeOK'
    BY <2>14, QueueTypes DEF Scan
  <2>15. ASSUME NEW i \in Calls, Tool(i) PROVE TypeOK'
    <3>1. CASE Return(i)
      BY <3>1 DEF Return
    <3>2. CASE Finish(i)
      BY <3>2 DEF Finish
    <3>3. CASE Discard(i)
      BY <3>3 DEF Discard
    <3> QED
      BY <2>15, <3>1, <3>2, <3>3 DEF Tool
  <2>16. CASE Abort
    BY <2>16 DEF Abort
  <2>17. CASE UNCHANGED vars
    BY <2>17 DEF vars, toolVars
  <2> QED
    BY <2>1, <2>2, <2>3, <2>4, <2>5, <2>6, <2>7, <2>8, <2>9, <2>10, <2>11,
       <2>12, <2>13, <2>14, <2>15, <2>16, <2>17 DEF Next, Leader
<1> QED
  BY <1>1, <1>2, PTL DEF Spec

------------------------------------------------------------------------------
(* What holds of every call of the message, and of the loop.               *)

Queueing == {"queue", "record", "added"}

\* The loop has come to call i.
Placed(i) == \/ pc \notin Queueing
             \/ i < at
             \/ pc = "added" /\ i = at

ShapeOf(i) ==
  /\ status[i] = "absent" <=> ~Placed(i) \/ kind[i] = "refused"
  /\ kind[i] = "unknown" => status[i] \in {"absent", "completed", "yielded"}
  /\ kind[i] \in {"refused", "unknown"} => result[i] \in {"none", "error"}
  /\ status[i] \in {"absent", "queued"} /\ kind[i] # "refused" => result[i] = "none"

Shape == /\ \A i \in Calls : ShapeOf(i)
         /\ pc = "record" => kind[at] = "refused"
         /\ pc = "added" => status[at] = "queued"

\* No run of processQueue has a waiting tool behind it.
PassedOf(i) == status[i] = "queued" => /\ \A p \in scans : p <= i
                                       /\ pc = "pump" => at <= i

Passed == /\ \A i \in Calls : PassedOf(i)
          /\ pc \in Queueing => \A p \in scans : p <= at

\* While an unsafe tool runs nothing behind it has been started.
UnsafeHoldsRest ==
  \A i, j \in Calls : i < j /\ status[i] = "executing" /\ ~Safe(i)
                      => status[j] \in {"absent", "queued"} \/ kind[j] = "unknown"

FailureIsKnown ==
  \A i \in Calls : kind[i] = "bash" /\ result[i] = "error" => failed

\* The answers to refused calls have been yielded.
Handed == pc \notin Queueing \cup {"tick"}

Heard == /\ \A i \in Calls :
              heard[i] = IF \/ status[i] = "yielded"
                            \/ kind[i] = "refused" /\ Handed
                         THEN 1 ELSE 0
         /\ ~Handed => \A i \in Calls : status[i] # "yielded"
         /\ Ended => \A i \in Calls : status[i] \in {"absent", "yielded"}

Plain == \A i \in Calls : kind[i] \notin {"refused", "unknown"}

\* In a plain turn nothing from outside comes before the stream is over, and
\* what is yielded then is kept.
Early == {"queue", "added", "tick", "offer"}

Kept == Plain => /\ pc \notin {"record", "hand", "offered"}
                 /\ pc \in Early =>
                      /\ ~aborted /\ ~failed
                      /\ \A i \in Calls :
                           status[i] \in {"absent", "queued", "executing"}
                 /\ pc = "trace" => \A i \in Calls : status[i] # "yielded"
                 /\ pc \notin Early \cup {"trace"} /\ collect =>
                      \A i \in Calls : status[i] = "yielded" => i \in kept
                 /\ pc = "next" => collect

------------------------------------------------------------------------------
\* A step that starts a tool, or moves the loop without moving Placed, keeps the
\* shape of every call.
LEMMA ShapeStart ==
  ASSUME TypeOK, Shape, NEW i \in Calls, status[i] = "queued", executeTool(i),
         kind' = kind, \A j \in Calls : Placed(j)' <=> Placed(j)
  PROVE  \A j \in Calls : ShapeOf(j)'
  BY DEF TypeOK, Shape, ShapeOf, executeTool

LEMMA ShapeStays ==
  ASSUME Shape, UNCHANGED <<kind, status, result>>,
         \A j \in Calls : Placed(j)' <=> Placed(j)
  PROVE  \A j \in Calls : ShapeOf(j)'
  BY DEF Shape, ShapeOf

LEMMA ShapeYield ==
  ASSUME TypeOK, Shape, NEW i \in Calls, status[i] = "completed",
         status' = [status EXCEPT ![i] = "yielded"], UNCHANGED <<kind, result>>,
         \A j \in Calls : Placed(j)' <=> Placed(j)
  PROVE  \A j \in Calls : ShapeOf(j)'
  BY DEF TypeOK, Shape, ShapeOf

\* Refused calls have no entry in the executor, the others exactly one once the
\* loop has come to them, and a waiting one has no result (queueToolUseBlocks,
\* addTool).
THEOREM ShapeHolds == Spec => []Shape
<1>1. Init => Shape
  BY ToolExecutorAssumption
     DEF Init, Shape, ShapeOf, Placed, Queueing, Calls
<1>2. TypeOK /\ Shape /\ [Next]_vars => Shape'
  <2> SUFFICES ASSUME TypeOK, Shape, [Next]_vars PROVE Shape'
    OBVIOUS
  <2>0. N \in Nat /\ at \in Nat /\ \A i \in Calls : i \in Nat /\ i <= N
    BY ToolExecutorAssumption DEF TypeOK, Calls
  <2>1. CASE Refuse
    BY <2>0, <2>1 DEF Refuse, TypeOK, Shape, ShapeOf, Placed, Queueing
  <2>2. CASE addUnknown
    BY <2>0, <2>2 DEF addUnknown, TypeOK, Shape, ShapeOf, Placed, Queueing
  <2>3. CASE addTool
    BY <2>0, <2>3 DEF addTool, TypeOK, Shape, ShapeOf, Placed, Queueing, Calls
  <2>4. CASE Added
    <3>1. \A j \in Calls : Placed(j)' <=> Placed(j)
      BY <2>0, <2>4 DEF Added, Placed, Queueing
    <3>2. \A j \in Calls : ShapeOf(j)'
      BY <2>4, <3>1, ShapeStart, ShapeStays DEF Added, processQueue, Pick
    <3> QED
      BY <2>4, <3>2 DEF Added, Shape
  <2>5. CASE Queued
    <3>1. \A j \in Calls : Placed(j)' <=> Placed(j)
      BY <2>0, <2>5 DEF Queued, Placed, Queueing
    <3> QED
      BY <2>5, <3>1, ShapeStays DEF Queued, toolVars, Shape
  <2>6. CASE Hand
    <3>1. \A j \in Calls : Placed(j)' <=> Placed(j)
      BY <2>6 DEF Hand, HandOver, Placed, Queueing
    <3> QED
      BY <2>6, <3>1, ShapeStays DEF Hand, HandOver, toolVars, Shape
  <2>7. CASE Offer
    <3>1. \A j \in Calls : Placed(j)' <=> Placed(j)
      BY <2>7 DEF Offer, Placed, Queueing
    <3>2. \A j \in Calls : ShapeOf(j)'
      BY <2>7, <3>1, ShapeYield, ShapeStays DEF Offer, Ready, Yield
    <3> QED
      BY <2>7, <3>2 DEF Offer, Shape
  <2>8. CASE Loop
    <3>1. \A j \in Calls : Placed(j)' <=> Placed(j)
      BY <2>8 DEF Loop, Placed, Queueing
    <3> QED
      BY <2>8, <3>1, ShapeStays DEF Loop, toolVars, Shape
  <2>9. CASE Pump
    <3>1. \A j \in Calls : Placed(j)' <=> Placed(j)
      BY <2>9 DEF Pump, Placed, Queueing
    <3>2. \A j \in Calls : ShapeOf(j)'
      BY <2>9, <3>1, ShapeStart, ShapeStays DEF Pump, Pick
    <3> QED
      BY <2>9, <3>2 DEF Pump, Shape
  <2>10. CASE Sweep
    <3>1. \A j \in Calls : Placed(j)' <=> Placed(j)
      BY <2>10 DEF Sweep, Placed, Queueing
    <3>2. \A j \in Calls : ShapeOf(j)'
      BY <2>10, <3>1, ShapeYield DEF Sweep, Ready, Yield
    <3> QED
      BY <2>10, <3>2 DEF Sweep, Shape
  <2>11. CASE SweepEnds
    <3>1. \A j \in Calls : Placed(j)' <=> Placed(j)
      BY <2>11 DEF SweepEnds, Placed, Queueing
    <3> QED
      BY <2>11, <3>1, ShapeStays DEF SweepEnds, toolVars, Shape
  <2>12. CASE Race
    <3>1. \A j \in Calls : Placed(j)' <=> Placed(j)
      BY <2>12 DEF Race, Placed, Queueing
    <3> QED
      BY <2>12, <3>1, ShapeStays DEF Race, toolVars, Shape
  <2>13. CASE Resume
    <3>1. CASE pc = "record"
      BY <2>0, <2>13, <3>1
         DEF Resume, Resumed, toolVars, TypeOK, Shape, ShapeOf, Placed, Queueing
    <3>2. CASE pc # "record"
      <4>1. pc' \in {"offer", "loop", "sweep"} /\ pc \in Away \ {"record"}
        BY <2>13, <3>2 DEF Resume, Resumed, Away
      <4>2. \A j \in Calls : Placed(j)' <=> Placed(j)
        BY <4>1 DEF Placed, Queueing, Away
      <4> QED
        BY <2>13, <4>1, <4>2, ShapeStays DEF Resume, toolVars, Shape
    <3> QED
      BY <3>1, <3>2
  <2>14. ASSUME NEW p \in 1 .. N + 1, Scan(p) PROVE Shape'
    <3>1. \A j \in Calls : Placed(j)' <=> Placed(j)
      BY <2>14 DEF Scan, loopVars, Placed
    <3>2. \A j \in Calls : ShapeOf(j)'
      BY <2>14, <3>1, ShapeStart, ShapeStays DEF Scan, processQueue, Pick
    <3> QED
      BY <2>14, <3>2 DEF Scan, loopVars, Shape, Sync
  <2>15. ASSUME NEW i \in Calls, Tool(i) PROVE Shape'
    <3>1. status[i] = "executing" /\ UNCHANGED <<kind, loopVars>>
      BY <2>15 DEF Tool, Return, Finish, Discard
    <3>2. \A j \in Calls : Placed(j)' <=> Placed(j)
      BY <3>1 DEF loopVars, Placed
    <3>3. \A j \in Calls : ShapeOf(j)'
      BY <2>15, <3>1, <3>2
         DEF Tool, Return, Finish, Discard, TypeOK, Shape, ShapeOf
    <3>4. pc # "added"
      BY <2>15 DEF Tool, Return, Finish, Discard, Idle, Away
    <3> QED
      BY <3>1, <3>3, <3>4 DEF loopVars, Shape
  <2>16. CASE Abort
    <3>1. \A j \in Calls : Placed(j)' <=> Placed(j)
      BY <2>16 DEF Abort, loopVars, Placed
    <3> QED
      BY <2>16, <3>1, ShapeStays DEF Abort, toolVars, loopVars, Shape
  <2>17. CASE UNCHANGED vars
    BY <2>17 DEF vars, toolVars, loopVars, Shape, ShapeOf, Placed
  <2> QED
    BY <2>1, <2>2, <2>3, <2>4, <2>5, <2>6, <2>7, <2>8, <2>9, <2>10, <2>11,
       <2>12, <2>13, <2>14, <2>15, <2>16, <2>17 DEF Next, Leader
<1> QED
  BY <1>1, <1>2, TypeCorrect, PTL DEF Spec

------------------------------------------------------------------------------
\* Where processQueue starts a tool, every tool it has gone past is not waiting:
\* it goes past a waiting tool only if that one is safe and cannot run, and then
\* an unsafe tool runs, beside which nothing can.
LEMMA NothingWaitsBetween ==
  ASSUME NEW p, NEW i \in Calls, Pick(p, i)
  PROVE  \A j \in p .. i - 1 : status[j] # "queued"
  BY DEF Pick, canExecuteTool

LEMMA NothingWaitsBefore ==
  ASSUME TypeOK, NEW p \in 1 .. N + 1, NEW i \in Calls, Pick(p, i),
         \A j \in Calls : status[j] = "queued" => p <= j
  PROVE  \A j \in Calls : j < i => status[j] # "queued"
<1> SUFFICES ASSUME NEW j \in Calls, j < i, status[j] = "queued" PROVE FALSE
  OBVIOUS
<1>1. i \in Nat /\ j \in Nat /\ p \in Nat /\ p <= j
  BY ToolExecutorAssumption DEF Calls
<1>2. j \in p .. i - 1
  BY <1>1
<1> QED
  BY <1>2, NothingWaitsBetween

\* A run of processQueue that has started tool i goes on behind it; a new one
\* starts at the first position.
LEMMA PassedStart ==
  ASSUME TypeOK, Shape, Passed, NEW i \in Calls, status[i] = "queued",
         executeTool(i), \A j \in Calls : j < i => status[j] # "queued"
  PROVE  /\ \A j \in Calls : status'[j] = "queued" =>
                               /\ status[j] = "queued"
                               /\ \A p \in scans \cup {i + 1} \cup Again : p <= j
         /\ pc \in Queueing => i + 1 <= at + 1
<1>1. N \in Nat /\ at \in Nat /\ \A j \in Calls : j \in Nat /\ 1 <= j
  BY ToolExecutorAssumption DEF TypeOK, Calls
<1>2. ASSUME NEW j \in Calls, status'[j] = "queued"
      PROVE  status[j] = "queued" /\ i < j
  BY <1>1, <1>2 DEF executeTool, TypeOK
<1>3. ASSUME NEW j \in Calls, status'[j] = "queued",
             NEW p \in scans \cup {i + 1} \cup Again
      PROVE  p <= j
  BY <1>1, <1>2, <1>3 DEF Passed, PassedOf, Again
<1>4. pc \in Queueing => i <= at
  BY <1>1 DEF Shape, ShapeOf, Placed
<1> QED
  BY <1>1, <1>2, <1>3, <1>4

\* No awaiting run of processQueue, and not the drain's own, has gone past a
\* waiting tool, so none is forgotten until another tool ends.
THEOREM PassedHolds == Spec => []Passed
<1>1. Init => Passed
  BY ToolExecutorAssumption DEF Init, Passed, PassedOf, Calls, Queueing
<1>2. TypeOK /\ Shape /\ Passed /\ [Next]_vars => Passed'
  <2> SUFFICES ASSUME TypeOK, Shape, Passed, [Next]_vars PROVE Passed'
    OBVIOUS
  <2>0. N \in Nat /\ at \in Nat /\ \A i \in Calls : i \in Nat /\ 1 <= i
    BY ToolExecutorAssumption DEF TypeOK, Calls
  <2>1. CASE Refuse
    BY <2>1 DEF Refuse, Passed, PassedOf, Queueing
  <2>2. CASE addUnknown
    BY <2>0, <2>2 DEF addUnknown, TypeOK, Passed, PassedOf, Queueing, Calls
  <2>3. CASE addTool
    BY <2>0, <2>3 DEF addTool, TypeOK, Passed, PassedOf, Queueing, Calls
  <2>4. CASE Added
    <3>1. ASSUME NEW i \in Calls, Pick(1, i), executeTool(i),
                 scans' = scans \cup {i + 1} \cup Again
          PROVE  Passed'
      <4>1. \A j \in Calls : j < i => status[j] # "queued"
        BY <2>0, <3>1, NothingWaitsBefore
      <4>2. \A j \in Calls : status'[j] = "queued" => \A p \in scans' : p <= j
        BY <3>1, <4>1, PassedStart DEF Pick
      <4>3. \A p \in scans' : p <= at + 1
        BY <2>0, <2>4, <3>1, <4>1, PassedStart
           DEF Pick, Added, Passed, Again, Queueing, TypeOK
      <4> QED
        BY <2>4, <4>2, <4>3 DEF Added, Passed, PassedOf
    <3>2. CASE UNCHANGED <<status, scans>>
      BY <2>0, <2>4, <3>2 DEF Added, TypeOK, Passed, PassedOf, Queueing
    <3> QED
      BY <2>4, <3>1, <3>2 DEF Added, processQueue
  <2>5. CASE Queued
    BY <2>5 DEF Queued, toolVars, Passed, PassedOf, Queueing
  <2>6. CASE Hand
    BY <2>6 DEF Hand, HandOver, toolVars, Passed, PassedOf, Queueing
  <2>7. CASE Offer
    BY <2>7 DEF Offer, Yield, TypeOK, Passed, PassedOf, Queueing
  <2>8. CASE Loop
    BY <2>0, <2>8 DEF Loop, toolVars, Passed, PassedOf, Queueing
  <2>9. CASE Pump
    <3>1. ASSUME NEW i \in Calls, Pick(at, i), executeTool(i),
                 scans' = scans \cup Again, at' = i + 1, pc' = pc
          PROVE  Passed'
      <4>1. \A j \in Calls : j < i => status[j] # "queued"
        BY <2>9, <3>1, NothingWaitsBefore DEF Pump, Passed, PassedOf, TypeOK
      <4>2. \A j \in Calls : status'[j] = "queued"
                             => i + 1 <= j /\ \A p \in scans' : p <= j
        BY <3>1, <4>1, PassedStart DEF Pick
      <4> QED
        BY <2>9, <3>1, <4>2 DEF Pump, Passed, PassedOf, Queueing
    <3>2. CASE UNCHANGED <<status, scans>> /\ pc' = "sweep"
      BY <2>9, <3>2 DEF Pump, Passed, PassedOf, Queueing
    <3> QED
      BY <2>9, <3>1, <3>2 DEF Pump
  <2>10. CASE Sweep
    BY <2>10 DEF Sweep, Yield, TypeOK, Passed, PassedOf, Queueing
  <2>11. CASE SweepEnds
    BY <2>11 DEF SweepEnds, toolVars, Passed, PassedOf, Queueing
  <2>12. CASE Race
    BY <2>12 DEF Race, toolVars, Passed, PassedOf, Queueing
  <2>13. CASE Resume
    <3>1. scans = {} /\ pc' # "pump"
      BY <2>13 DEF Resume, Resumed, Idle, Away
    <3> QED
      BY <2>13, <3>1 DEF Resume, toolVars, Passed, PassedOf
  <2>14. ASSUME NEW q \in 1 .. N + 1, Scan(q) PROVE Passed'
    <3>1. ASSUME NEW i \in Calls, Pick(q, i), executeTool(i),
                 scans' = (scans \ {q}) \cup {i + 1} \cup Again
          PROVE  Passed'
      <4>1. \A j \in Calls : j < i => status[j] # "queued"
        BY <2>14, <3>1, NothingWaitsBefore DEF Scan, Passed, PassedOf
      <4>2. \A j \in Calls : status'[j] = "queued"
                             => status[j] = "queued" /\ \A p \in scans' : p <= j
        BY <3>1, <4>1, PassedStart DEF Pick
      <4>3. pc = "record" => i < at
        BY <2>0, <3>1 DEF Shape, ShapeOf, Placed, Queueing, Pick
      <4>4. pc \in Queueing => \A p \in scans' : p <= at
        BY <2>0, <2>14, <3>1, <4>3
           DEF Scan, Sync, Passed, Again, Queueing, TypeOK
      <4> QED
        BY <2>14, <4>2, <4>4 DEF Scan, loopVars, Passed, PassedOf
    <3>2. CASE UNCHANGED status /\ scans' = scans \ {q}
      BY <2>14, <3>2 DEF Scan, loopVars, Passed, PassedOf
    <3> QED
      BY <2>14, <3>1, <3>2 DEF Scan, processQueue
  <2>15. ASSUME NEW i \in Calls, Tool(i) PROVE Passed'
    <3>1. scans = {} /\ scans' \subseteq {1} /\ UNCHANGED loopVars
      BY <2>15 DEF Tool, Return, Finish, Discard, Idle
    <3>2. \A j \in Calls : status'[j] = "queued" => status[j] = "queued"
      BY <2>15 DEF Tool, Return, Finish, Discard, TypeOK
    <3>3. 1 <= at
      BY <2>0 DEF TypeOK
    <3> QED
      BY <2>0, <3>1, <3>2, <3>3 DEF loopVars, Passed, PassedOf
  <2>16. CASE Abort
    BY <2>16 DEF Abort, toolVars, loopVars, Passed, PassedOf
  <2>17. CASE UNCHANGED vars
    BY <2>17 DEF vars, toolVars, loopVars, Passed, PassedOf
  <2> QED
    BY <2>1, <2>2, <2>3, <2>4, <2>5, <2>6, <2>7, <2>8, <2>9, <2>10, <2>11,
       <2>12, <2>13, <2>14, <2>15, <2>16, <2>17 DEF Next, Leader
<1> QED
  BY <1>1, <1>2, TypeCorrect, ShapeHolds, PTL DEF Spec

------------------------------------------------------------------------------
(* What a step may do to the tools.                                        *)

StartOf(i) == /\ status[i] = "queued"
              /\ canExecuteTool(i)
              /\ \A j \in Calls : j < i => status[j] # "queued"
              /\ executeTool(i)
              /\ UNCHANGED failed

YieldOf(i) == /\ status[i] = "completed"
              /\ status' = [status EXCEPT ![i] = "yielded"]
              /\ UNCHANGED <<result, failed>>

ToolStep == \/ \E i \in Calls : StartOf(i) \/ YieldOf(i) \/ Tool(i)
            \/ Refuse \/ addUnknown \/ addTool
            \/ UNCHANGED toolVars

LEMMA ToolSteps ==
  ASSUME TypeOK, Passed, [Next]_vars
  PROVE  ToolStep /\ kind' = kind
<1> USE DEF ToolStep
<1>0. ASSUME NEW p \in 1 .. N + 1, NEW i \in Calls, Pick(p, i),
             \A j \in Calls : status[j] = "queued" => p <= j,
             executeTool(i), UNCHANGED failed
      PROVE  StartOf(i)
  BY <1>0, NothingWaitsBefore DEF StartOf, Pick
<1>1. CASE Added
  <2>1. 1 \in 1 .. N + 1 /\ \A j \in Calls : 1 <= j
    BY ToolExecutorAssumption DEF Calls
  <2> QED
    BY <1>0, <1>1, <2>1 DEF Added, processQueue, toolVars
<1>2. CASE Pump
  BY <1>0, <1>2 DEF Pump, toolVars, Passed, PassedOf, TypeOK
<1>3. ASSUME NEW p \in 1 .. N + 1, Scan(p) PROVE ToolStep /\ kind' = kind
  BY <1>0, <1>3 DEF Scan, processQueue, toolVars, Passed, PassedOf
<1>4. CASE Offer \/ Sweep
  BY <1>4 DEF Offer, Sweep, Yield, Ready, YieldOf, toolVars
<1>5. ASSUME NEW i \in Calls, Tool(i) PROVE ToolStep /\ kind' = kind
  BY <1>5 DEF Tool, Return, Finish, Discard
<1>6. CASE Refuse \/ addUnknown \/ addTool
  BY <1>6 DEF Refuse, addUnknown, addTool
<1>7. CASE Queued \/ Hand \/ Loop \/ SweepEnds \/ Race \/ Resume \/ Abort
  BY <1>7 DEF Queued, Hand, HandOver, Loop, SweepEnds, Race, Resume, Abort
<1>8. CASE UNCHANGED vars
  BY <1>8 DEF vars
<1> QED
  BY <1>1, <1>2, <1>3, <1>4, <1>5, <1>6, <1>7, <1>8 DEF Next, Leader

\* A tool that is not concurrency-safe runs alone (canExecuteTool).
THEOREM UnsafeRunsAloneHolds == Spec => []UnsafeRunsAlone
<1>1. Init => UnsafeRunsAlone
  BY DEF Init, UnsafeRunsAlone, Executing
<1>2. TypeOK /\ Passed /\ UnsafeRunsAlone /\ [Next]_vars => UnsafeRunsAlone'
  <2> SUFFICES ASSUME TypeOK, Passed, UnsafeRunsAlone, [Next]_vars
               PROVE  UnsafeRunsAlone'
    OBVIOUS
  <2>0. ToolStep /\ kind' = kind
    BY ToolSteps
  <2>1. ASSUME NEW i \in Calls, StartOf(i) PROVE UnsafeRunsAlone'
    BY <2>0, <2>1 DEF StartOf, executeTool, canExecuteTool, UnsafeRunsAlone,
                      Executing, Safe, TypeOK
  <2>2. CASE Executing' \subseteq Executing
    BY <2>0, <2>2 DEF UnsafeRunsAlone, Safe
  <2>3. ASSUME NEW i \in Calls, YieldOf(i) \/ Tool(i)
        PROVE  Executing' \subseteq Executing
    BY <2>3 DEF YieldOf, Tool, Return, Finish, Discard, Executing, TypeOK
  <2>4. ASSUME Refuse \/ addUnknown \/ addTool \/ UNCHANGED toolVars
        PROVE  Executing' \subseteq Executing
    BY <2>4 DEF Refuse, addUnknown, addTool, toolVars, Executing, TypeOK
  <2> QED
    BY <2>0, <2>1, <2>2, <2>3, <2>4 DEF ToolStep
<1> QED
  BY <1>1, <1>2, TypeCorrect, PassedHolds, PTL DEF Spec

------------------------------------------------------------------------------
(* The order of the message.                                               *)

NotStarted(j) == status[j] \in {"absent", "queued"} \/ kind[j] = "unknown"

\* What a step does to an entry that has not been started.
LEMMA OrderStep ==
  ASSUME TypeOK, Shape, Passed, [Next]_vars, NEW i \in Calls, NEW j \in Calls,
         i < j, StartedInOrder, UnsafeHoldsRest
  PROVE  /\ status'[i] = "queued" => NotStarted(j)'
         /\ status'[i] = "executing" /\ ~Safe(i)' => NotStarted(j)'
<1> USE DEF NotStarted
<1>0. ToolStep /\ kind' = kind
  BY ToolSteps
<1>1. \/ status[i] = "queued"
      \/ status[i] = "executing" /\ ~Safe(i)
      => NotStarted(j)
  BY DEF StartedInOrder, UnsafeHoldsRest
<1>2. ASSUME NEW k \in Calls, StartOf(k)
      PROVE  /\ status'[i] = "queued" => NotStarted(j)'
             /\ status'[i] = "executing" /\ ~Safe(i)' => NotStarted(j)'
  <2>1. k = j => status[i] # "queued"
    BY <1>2 DEF StartOf
  <2>2. k = j => ~(status[i] = "executing" /\ ~Safe(i))
    BY <1>2 DEF StartOf, canExecuteTool, Executing
  <2>3. i # j /\ (k # i => status'[i] = status[i])
              /\ (k # j => status'[j] = status[j])
    BY <1>2, ToolExecutorAssumption DEF StartOf, executeTool, TypeOK, Calls
  <2>4. k = i => status[i] = "queued"
    BY <1>2 DEF StartOf
  <2> QED
    BY <1>0, <1>1, <2>1, <2>2, <2>3, <2>4 DEF Safe
<1>3. ASSUME NEW k \in Calls, YieldOf(k) \/ Tool(k)
      PROVE  /\ status'[i] = "queued" => NotStarted(j)'
             /\ status'[i] = "executing" /\ ~Safe(i)' => NotStarted(j)'
  BY <1>0, <1>1, <1>3
     DEF YieldOf, Tool, Return, Finish, Discard, TypeOK, Safe
<1>4. CASE addTool
  <2>1. status[at] = "absent" /\ at \in Calls
    BY <1>4, ToolExecutorAssumption
       DEF addTool, Shape, ShapeOf, Placed, Queueing, TypeOK, Calls
  <2>2. i = at => status[j] = "absent"
    BY <1>4, ToolExecutorAssumption
       DEF addTool, Shape, ShapeOf, Placed, Queueing, TypeOK, Calls
  <2> QED
    BY <1>0, <1>1, <1>4, <2>1, <2>2, ToolExecutorAssumption
       DEF addTool, TypeOK, Safe, Calls
<1>5. CASE addUnknown
  BY <1>0, <1>1, <1>5 DEF addUnknown, TypeOK, Safe
<1>6. CASE Refuse \/ UNCHANGED toolVars
  BY <1>0, <1>1, <1>6 DEF Refuse, toolVars, Safe
<1> QED
  BY <1>0, <1>2, <1>3, <1>4, <1>5, <1>6 DEF ToolStep

LEMMA OrderHolds == Spec => [](StartedInOrder /\ UnsafeHoldsRest)
<1>1. Init => StartedInOrder /\ UnsafeHoldsRest
  BY DEF Init, StartedInOrder, UnsafeHoldsRest
<1>2. /\ TypeOK /\ Shape /\ Passed
      /\ StartedInOrder /\ UnsafeHoldsRest
      /\ [Next]_vars
      => StartedInOrder' /\ UnsafeHoldsRest'
  BY OrderStep DEF StartedInOrder, UnsafeHoldsRest, NotStarted
<1> QED
  BY <1>1, <1>2, TypeCorrect, ShapeHolds, PassedHolds, PTL DEF Spec

\* No tool is started while an earlier one of the message waits (the break of
\* processQueue).
THEOREM StartedInOrderHolds == Spec => []StartedInOrder
  BY OrderHolds, PTL

------------------------------------------------------------------------------
(* A failed bash call.                                                     *)

\* A result is a bash call's error only if hasErrored is set.
LEMMA FailureKnownHolds == Spec => []FailureIsKnown
<1>1. Init => FailureIsKnown
  BY DEF Init, FailureIsKnown
<1>2. TypeOK /\ Passed /\ FailureIsKnown /\ [Next]_vars => FailureIsKnown'
  <2> SUFFICES ASSUME TypeOK, Passed, FailureIsKnown, [Next]_vars
               PROVE  FailureIsKnown'
    OBVIOUS
  <2>0. ToolStep /\ kind' = kind
    BY ToolSteps
  <2>1. ASSUME NEW i \in Calls, StartOf(i) PROVE FailureIsKnown'
    BY <2>0, <2>1 DEF StartOf, executeTool, FailureIsKnown, TypeOK
  <2>2. ASSUME NEW i \in Calls, YieldOf(i) PROVE FailureIsKnown'
    BY <2>0, <2>2 DEF YieldOf, FailureIsKnown
  <2>3. ASSUME NEW i \in Calls, Return(i) PROVE FailureIsKnown'
    BY <2>0, <2>3 DEF Return, FailureIsKnown, TypeOK
  <2>4. ASSUME NEW i \in Calls, Finish(i) \/ Discard(i) PROVE FailureIsKnown'
    BY <2>0, <2>4 DEF Finish, Discard, FailureIsKnown, TypeOK
  <2>5. CASE Refuse \/ addUnknown
    BY <2>0, <2>5 DEF Refuse, addUnknown, FailureIsKnown, TypeOK
  <2>6. CASE addTool \/ UNCHANGED toolVars
    BY <2>0, <2>6 DEF addTool, toolVars, FailureIsKnown
  <2> QED
    BY <2>0, <2>1, <2>2, <2>3, <2>4, <2>5, <2>6 DEF ToolStep, Tool
<1> QED
  BY <1>1, <1>2, TypeCorrect, PassedHolds, PTL DEF Spec

\* While a bash call runs, nothing behind it has a successful result.
LEMMA NothingBehindBash ==
  ASSUME Shape, UnsafeHoldsRest, NEW i \in Calls, NEW j \in Calls, i < j,
         kind[i] = "bash", status[i] = "executing"
  PROVE  status[j] # "executing" /\ result[j] # "ok"
  BY DEF Shape, ShapeOf, UnsafeHoldsRest, Safe

\* Once a bash call has failed nothing behind it in the message runs (hasErrored).
THEOREM FailureStopsTheRestHolds == Spec => []FailureStopsTheRest
<1>1. Init => FailureStopsTheRest
  BY DEF Init, FailureStopsTheRest
<1>2. /\ TypeOK /\ Shape /\ Passed /\ UnsafeHoldsRest
      /\ FailureIsKnown /\ FailureStopsTheRest
      /\ [Next]_vars
      => FailureStopsTheRest'
  <2> SUFFICES ASSUME TypeOK, Shape, Passed, UnsafeHoldsRest,
                      FailureIsKnown, FailureStopsTheRest, [Next]_vars,
                      NEW i \in Calls, NEW j \in Calls, i < j,
                      kind'[i] = "bash", result'[i] = "error"
               PROVE  status'[j] # "executing" /\ result'[j] # "ok"
    BY DEF FailureStopsTheRest
  <2>0. ToolStep /\ kind' = kind /\ i # j
    BY ToolSteps, ToolExecutorAssumption DEF Calls
  <2>1. CASE result[i] = "error"
    <3>1. failed /\ status[j] # "executing" /\ result[j] # "ok"
      BY <2>0, <2>1 DEF FailureIsKnown, FailureStopsTheRest
    <3>2. ASSUME NEW k \in Calls, StartOf(k)
          PROVE  status'[j] # "executing" /\ result'[j] # "ok"
      BY <3>1, <3>2 DEF StartOf, executeTool, getAbortReason, TypeOK
    <3>3. ASSUME NEW k \in Calls, YieldOf(k) \/ Tool(k)
          PROVE  status'[j] # "executing" /\ result'[j] # "ok"
      BY <3>1, <3>3 DEF YieldOf, Tool, Return, Finish, Discard,
                        getAbortReason, TypeOK
    <3>4. CASE Refuse \/ addUnknown \/ addTool
      BY <3>1, <3>4 DEF Refuse, addUnknown, addTool, TypeOK
    <3>5. CASE UNCHANGED toolVars
      BY <3>1, <3>5 DEF toolVars
    <3> QED
      BY <2>0, <3>2, <3>3, <3>4, <3>5 DEF ToolStep
  <2>2. CASE result[i] # "error"
    <3>1. ASSUME NEW k \in Calls, StartOf(k) PROVE FALSE
      BY <2>2, <3>1 DEF StartOf, executeTool, TypeOK
    <3>2. ASSUME NEW k \in Calls, YieldOf(k) \/ Finish(k) \/ Discard(k)
          PROVE  FALSE
      BY <2>2, <3>2 DEF YieldOf, Finish, Discard, TypeOK
    <3>3. ASSUME NEW k \in Calls, Return(k)
          PROVE  status'[j] # "executing" /\ result'[j] # "ok"
      <4>1. k = i /\ status[i] = "executing"
        BY <2>2, <3>3 DEF Return, TypeOK
      <4>2. status[j] # "executing" /\ result[j] # "ok"
        BY <2>0, <4>1, NothingBehindBash
      <4> QED
        BY <2>0, <3>3, <4>1, <4>2 DEF Return, TypeOK
    <3>4. CASE Refuse \/ addUnknown
      BY <2>0, <2>2, <3>4 DEF Refuse, addUnknown, TypeOK
    <3>5. CASE addTool \/ UNCHANGED toolVars
      BY <2>2, <3>5 DEF addTool, toolVars
    <3> QED
      BY <2>0, <3>1, <3>2, <3>3, <3>4, <3>5 DEF ToolStep, Tool
  <2> QED
    BY <2>1, <2>2
<1> QED
  BY <1>1, <1>2, TypeCorrect, ShapeHolds, PassedHolds, OrderHolds,
     FailureKnownHolds, PTL DEF Spec

------------------------------------------------------------------------------
(* The answers.                                                            *)

\* A step that yields nothing leaves every call as often answered as it was.
LEMMA HeardStays ==
  ASSUME TypeOK, Heard, UNCHANGED <<kind, heard>>, Handed' <=> Handed,
         \A i \in Calls : status'[i] = "yielded" <=> status[i] = "yielded",
         ~Ended'
  PROVE  Heard'
  BY DEF Heard

LEMMA HeardYield ==
  ASSUME TypeOK, Shape, Heard, NEW i \in Calls, status[i] = "completed",
         status' = [status EXCEPT ![i] = "yielded"],
         heard' = [heard EXCEPT ![i] = @ + 1],
         kind' = kind, Handed, Handed', ~Ended'
  PROVE  Heard'
<1>1. kind[i] # "refused"
  BY DEF Shape, ShapeOf
<1>2. heard[i] = 0
  BY <1>1 DEF Heard
<1> QED
  BY <1>1, <1>2 DEF Heard, TypeOK

\* A call has been answered exactly if its entry is yielded or it was refused and
\* the loop has come past the refusals.
LEMMA HeardHolds == Spec => []Heard
<1>1. Init => Heard
  BY DEF Init, Heard, Handed, Queueing, Ended
<1>2. TypeOK /\ Shape /\ Heard /\ [Next]_vars => Heard'
  <2> SUFFICES ASSUME TypeOK, Shape, Heard, [Next]_vars PROVE Heard'
    OBVIOUS
  <2> USE DEF Handed, Queueing, Ended
  <2>1. CASE Refuse \/ addUnknown \/ addTool
    <3>1. at \in Calls => status[at] # "yielded"
      BY <2>1 DEF Refuse, addUnknown, addTool, Heard
    <3> QED
      BY <2>1, <3>1, HeardStays DEF Refuse, addUnknown, addTool, TypeOK
  <2>2. CASE Added
    BY <2>2, HeardStays DEF Added, processQueue, Pick, executeTool, TypeOK
  <2>3. CASE Queued
    BY <2>3, HeardStays DEF Queued, toolVars
  <2>4. CASE Hand
    BY <2>4 DEF Hand, HandOver, toolVars, Heard, Refused, TypeOK
  <2>5. CASE Offer
    <3>1. CASE UNCHANGED <<status, heard>> /\ pc' = "trace"
      BY <2>5, <3>1, HeardStays DEF Offer
    <3>2. ASSUME NEW i \in Calls, Ready(i), Yield(i), pc' = "offered"
          PROVE  Heard'
      BY <2>5, <3>2, HeardYield DEF Offer, Ready, Yield
    <3> QED
      BY <2>5, <3>1, <3>2 DEF Offer
  <2>6. CASE Loop
    <3>1. CASE Unfinished
      BY <2>6, <3>1, HeardStays DEF Loop, toolVars
    <3>2. CASE ~Unfinished
      BY <2>6, <3>2 DEF Loop, toolVars, Heard, Unfinished, TypeOK, Status
    <3> QED
      BY <3>1, <3>2
  <2>7. CASE Pump
    BY <2>7, HeardStays DEF Pump, Pick, executeTool, TypeOK
  <2>8. CASE Sweep
    BY <2>8, HeardYield DEF Sweep, Ready, Yield
  <2>9. CASE SweepEnds \/ Race
    BY <2>9, HeardStays DEF SweepEnds, Race, toolVars
  <2>10. CASE Resume
    BY <2>10, HeardStays DEF Resume, Resumed, Away, toolVars
  <2>11. ASSUME NEW p \in 1 .. N + 1, Scan(p) PROVE Heard'
    <3>1. \A i \in Calls : status'[i] = "yielded" <=> status[i] = "yielded"
      BY <2>11 DEF Scan, processQueue, Pick, executeTool, TypeOK
    <3>2. CASE Ended
      BY <2>11, <3>2 DEF Scan, processQueue, Pick, loopVars, Heard
    <3> QED
      BY <2>11, <3>1, <3>2, HeardStays DEF Scan, loopVars
  <2>12. ASSUME NEW i \in Calls, Tool(i) PROVE Heard'
    BY <2>12, HeardStays
       DEF Tool, Return, Finish, Discard, Idle, Away, loopVars, TypeOK
  <2>13. CASE Abort
    BY <2>13, HeardStays DEF Abort, Idle, Away, toolVars, loopVars
  <2>14. CASE UNCHANGED vars
    BY <2>14 DEF vars, toolVars, loopVars, Heard
  <2> QED
    BY <2>1, <2>2, <2>3, <2>4, <2>5, <2>6, <2>7, <2>8, <2>9, <2>10, <2>11,
       <2>12, <2>13, <2>14 DEF Next, Leader
<1> QED
  BY <1>1, <1>2, TypeCorrect, ShapeHolds, PTL DEF Spec

\* Every call is answered at most once, and exactly once when the turn ends.
THEOREM AnsweredOnceHolds == Spec => []AnsweredOnce
<1>1. Shape /\ Heard => AnsweredOnce
  BY DEF Shape, ShapeOf, Placed, Queueing, Heard, Handed, Ended, AnsweredOnce
<1> QED
  BY <1>1, ShapeHolds, HeardHolds, PTL

------------------------------------------------------------------------------
(* What reaches the next turn.                                             *)

\* A step by which nothing is yielded and the drain does not begin.
LEMMA KeptStays ==
  ASSUME Kept, Plain, UNCHANGED <<kind, collect, kept>>,
         pc' \notin {"record", "hand", "offered"},
         pc' \notin Early \cup {"trace"} => pc \notin Early \cup {"trace"},
         pc' = "trace" => pc \in {"offer", "trace"},
         pc' = "next" => collect,
         pc' \in Early =>
           /\ pc \in Early /\ UNCHANGED <<aborted, failed>>
           /\ \A i \in Calls : status'[i] \in {"absent", "queued", "executing"},
         \A i \in Calls : status'[i] = "yielded" => status[i] = "yielded"
  PROVE  Kept'
  BY DEF Kept, Early

\* A turn in which no call is refused or unknown hands all its answers to the
\* next one.
LEMMA KeptHolds == Spec => []Kept
<1>1. Init => Kept
  BY DEF Init, Kept, Early
<1>2. TypeOK /\ Shape /\ Kept /\ [Next]_vars => Kept'
  <2> SUFFICES ASSUME TypeOK, Shape, Kept, [Next]_vars, Plain' PROVE Kept'
    BY DEF Kept
  <2>0. Plain /\ kind' = kind
    BY ToolExecutorAssumption
       DEF Next, Leader, Refuse, addUnknown, addTool, Added, Queued, Hand,
           HandOver, Offer, Loop, Pump, Sweep, SweepEnds, Race, Resume, Scan,
           Tool, Return, Finish, Discard, Abort, vars, Plain
  <2>1. /\ pc \notin {"record", "hand", "offered"}
        /\ pc = "next" => collect
        /\ pc \in Early =>
             /\ ~aborted /\ ~failed
             /\ \A i \in Calls : status[i] \in {"absent", "queued", "executing"}
        /\ Refused = {}
    BY <2>0 DEF Kept, Plain, Refused
  <2>2. CASE Refuse \/ addUnknown
    <3>1. at \in Calls
      BY <2>2, ToolExecutorAssumption DEF Refuse, addUnknown, TypeOK, Calls
    <3> QED
      BY <2>0, <2>2, <3>1 DEF Refuse, addUnknown, Plain
  <2>3. CASE addTool
    BY <2>0, <2>1, <2>3, KeptStays DEF addTool, Early, TypeOK
  <2>4. CASE Added
    <3>1. ~getAbortReason
      BY <2>1, <2>4 DEF Added, Early, getAbortReason
    <3>2. \A i \in Calls : status'[i] \in {"absent", "queued", "executing"}
      BY <2>1, <2>4, <3>1
         DEF Added, Early, processQueue, executeTool, TypeOK
    <3> QED
      BY <2>0, <2>1, <2>4, <3>2, KeptStays DEF Added, processQueue, Early
  <2>5. CASE Queued
    BY <2>0, <2>1, <2>5, KeptStays DEF Queued, toolVars, Early
  <2>6. CASE Hand
    BY <2>0, <2>1, <2>6, KeptStays DEF Hand, HandOver, toolVars, Early
  <2>7. CASE Offer
    BY <2>0, <2>1, <2>7, KeptStays DEF Offer, Ready, Early
  <2>8. CASE Loop
    BY <2>0, <2>1, <2>8, KeptStays DEF Loop, toolVars, Early
  <2>9. CASE Pump
    <3>1. \A i \in Calls : status'[i] = "yielded" => status[i] = "yielded"
      BY <2>9 DEF Pump, Pick, executeTool, TypeOK
    <3> QED
      BY <2>0, <2>1, <2>9, <3>1, KeptStays DEF Pump, Early
  <2>10. CASE Sweep
    BY <2>0, <2>10 DEF Sweep, Ready, Yield, Kept, Early, TypeOK
  <2>11. CASE SweepEnds \/ Race
    BY <2>0, <2>1, <2>11, KeptStays DEF SweepEnds, Race, toolVars, Early
  <2>12. CASE Resume
    <3>1. CASE pc = "trace"
      BY <2>0, <2>12, <3>1 DEF Resume, Resumed, toolVars, Kept, Early
    <3>2. CASE pc = "swept"
      BY <2>0, <2>1, <2>12, <3>2, KeptStays DEF Resume, Resumed, toolVars, Early
    <3> QED
      BY <2>1, <2>12, <3>1, <3>2 DEF Resume, Away
  <2>13. ASSUME NEW p \in 1 .. N + 1, Scan(p) PROVE Kept'
    <3>1. \A i \in Calls : status'[i] = "yielded" => status[i] = "yielded"
      BY <2>13 DEF Scan, processQueue, Pick, executeTool, TypeOK
    <3>2. pc \in Early => \A i \in Calls :
            status'[i] \in {"absent", "queued", "executing"}
      BY <2>1, <2>13
         DEF Scan, processQueue, executeTool, getAbortReason, TypeOK
    <3> QED
      BY <2>0, <2>1, <2>13, <3>1, <3>2, KeptStays
         DEF Scan, processQueue, loopVars, Early
  <2>14. ASSUME NEW i \in Calls, Tool(i) PROVE Kept'
    <3>1. pc \notin Early /\ UNCHANGED loopVars
      BY <2>14 DEF Tool, Return, Finish, Discard, Idle, Away, Early
    <3>2. \A j \in Calls : status'[j] = "yielded" => status[j] = "yielded"
      BY <2>14 DEF Tool, Return, Finish, Discard, TypeOK
    <3> QED
      BY <2>0, <2>1, <3>1, <3>2, KeptStays DEF loopVars
  <2>15. CASE Abort
    <3>1. pc \notin Early
      BY <2>15 DEF Abort, Idle, Away, Early
    <3> QED
      BY <2>0, <2>1, <2>15, <3>1, KeptStays DEF Abort, toolVars, loopVars
  <2>16. CASE UNCHANGED vars
    BY <2>16 DEF vars, toolVars, loopVars, Kept, Plain
  <2> QED
    BY <2>2, <2>3, <2>4, <2>5, <2>6, <2>7, <2>8, <2>9, <2>10, <2>11, <2>12,
       <2>13, <2>14, <2>15, <2>16 DEF Next, Leader
<1> QED
  BY <1>1, <1>2, TypeCorrect, ShapeHolds, PTL DEF Spec

\* The answers of a plain turn all reach the next turn (toolResults).
THEOREM PlainTurnKeepsAllHolds == Spec => []PlainTurnKeepsAll
<1>1. Shape /\ Heard /\ Kept /\ TypeOK => PlainTurnKeepsAll
  BY DEF Shape, ShapeOf, Placed, Queueing, Heard, Ended, Kept, Plain, Early,
         PlainTurnKeepsAll, TypeOK
<1> QED
  BY <1>1, TypeCorrect, ShapeHolds, HeardHolds, KeptHolds, PTL
=============================================================================
