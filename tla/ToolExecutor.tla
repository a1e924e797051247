---------------------------- MODULE ToolExecutor ----------------------------
(***************************************************************************)
(* One turn of the agent loop with the tool calls of the model's message:  *)
(* streaming-tool-executor.ts and the part of autonomous-loop-service.ts   *)
(* that feeds and drains it.  JavaScript runs one piece of code at a time: *)
(* an action is what runs between two awaits, and what waits for the       *)
(* outside world goes on only when no other piece is ready (Idle).         *)
(* The database and the hooks do not fail.                                 *)
(***************************************************************************)
EXTENDS Naturals

CONSTANT N  \* number of tool calls in the message

ASSUME ToolExecutorAssumption == N \in Nat

Calls == 1 .. N

VARIABLES
  kind,     \* of each call: see Kind
  status,   \* of the TrackedTool
  result,   \* its tool_result
  scans,    \* positions at which awaiting runs of processQueue go on
  pc, at,   \* where the loop stands, and its position in the message
  racers,   \* the promises in Promise.race
  collect,  \* whether the loop drains for the next turn or after an abort
  heard,    \* how often the loop has yielded an answer to each call
  kept,     \* toolResults: the calls whose answers reach the next turn
  failed,   \* hasErrored
  aborted   \* the user's cancel

toolVars == <<status, result, failed>>
loopVars == <<pc, at, racers, collect, heard, kept>>
vars == <<kind, toolVars, scans, loopVars, aborted>>

------------------------------------------------------------------------------
\* "refused" by the doom-loop detector; "unknown": no tool has that name; the
\* others are known, and safe or not for concurrency.  bash is not.
Kind == {"refused", "unknown", "safe", "unsafe", "bash"}

Status == {"absent", "queued", "executing", "completed", "yielded"}

Result == {"none", "ok", "error", "cancelled"}

\* Between two blocks of the message nothing else can run.
Sync == {"queue", "added"}

\* The loop awaits the outside world: an event's write, or its consumer.
Away == {"record", "hand", "offered", "trace", "swept"}

Ended == pc \in {"next", "stopped"}

TypeOK == /\ kind \in [Calls -> Kind]
          /\ status \in [Calls -> Status]
          /\ result \in [Calls -> Result]
          /\ scans \subseteq 1 .. N + 1
          /\ pc \in Sync \cup Away \cup {"tick", "offer", "loop", "pump",
                                         "sweep", "race", "next", "stopped"}
          /\ at \in 1 .. N + 1
          /\ pc \in {"record", "added"} => at \in Calls
          /\ racers \subseteq Calls
          /\ collect \in BOOLEAN
          /\ heard \in [Calls -> Nat]
          /\ kept \subseteq Calls
          /\ failed \in BOOLEAN
          /\ aborted \in BOOLEAN

\* An unknown tool counts as safe (isConcurrencySafe of its entry is true).
Safe(i) == kind[i] \in {"safe", "unknown"}

Refused == {i \in Calls : kind[i] = "refused"}

Executing == {i \in Calls : status[i] = "executing"}

Init == /\ kind \in [Calls -> Kind]
        /\ status = [i \in Calls |-> "absent"]
        /\ result = [i \in Calls |-> "none"]
        /\ scans = {}
        /\ pc = "queue"
        /\ at = 1
        /\ racers = {}
        /\ collect = FALSE
        /\ heard = [i \in Calls |-> 0]
        /\ kept = {}
        /\ failed = FALSE
        /\ aborted = FALSE

------------------------------------------------------------------------------
(* The queue.                                                              *)

\* Mutant: an unsafe tool waits for the unsafe ones only.
canExecuteBeside(i) == \A j \in Executing : Safe(i) \/ Safe(j)
canExecuteTool(i) == \/ Executing = {}
                     \/ Safe(i) /\ \A j \in Executing : Safe(j)

\* No tool of the registry has an interruptBehavior: an abort stops them all.
getAbortReason == failed \/ aborted

\* processQueue, at position p, comes to call i.
Pick(p, i) ==
  /\ i >= p
  /\ status[i] = "queued"
  /\ canExecuteTool(i)
  /\ \A j \in p .. i - 1 : status[j] = "queued" => Safe(j) /\ ~canExecuteTool(j)

executeTool(i) ==
  \/ /\ ~getAbortReason
     /\ status' = [status EXCEPT ![i] = "executing"]
     /\ UNCHANGED result
  \/ /\ getAbortReason
     /\ status' = [status EXCEPT ![i] = "completed"]
     /\ result' = [result EXCEPT ![i] = "cancelled"]

\* What promise.finally starts when executeTool is over at once.
Again == IF getAbortReason THEN {1} ELSE {}

\* From p to the next await of executeTool or to the end.
processQueue(p, others) ==
  /\ UNCHANGED failed
  /\ \/ \E i \in Calls : /\ Pick(p, i)
                         /\ executeTool(i)
                         /\ scans' = others \cup {i + 1} \cup Again
     \/ /\ \A i \in Calls : ~Pick(p, i)
        /\ scans' = others
        /\ UNCHANGED <<status, result>>

Scan(p) ==
  /\ pc \notin Sync
  /\ p \in scans
  /\ processQueue(p, scans \ {p})
  /\ UNCHANGED <<kind, loopVars, aborted>>

------------------------------------------------------------------------------
(* The message is queued block by block.                                   *)

Refuse ==
  /\ pc = "queue" /\ at <= N
  /\ kind[at] = "refused"
  /\ result' = [result EXCEPT ![at] = "error"]
  /\ pc' = "record"
  /\ UNCHANGED <<kind, status, failed, scans, at, racers, collect, heard, kept,
                 aborted>>

addUnknown ==
  /\ pc = "queue" /\ at <= N
  /\ kind[at] = "unknown"
  /\ status' = [status EXCEPT ![at] = "completed"]
  /\ result' = [result EXCEPT ![at] = "error"]
  /\ at' = at + 1
  /\ UNCHANGED <<kind, failed, scans, pc, racers, collect, heard, kept, aborted>>

addTool ==
  /\ pc = "queue" /\ at <= N
  /\ kind[at] \notin {"refused", "unknown"}
  /\ status' = [status EXCEPT ![at] = "queued"]
  /\ pc' = "added"
  /\ UNCHANGED <<kind, result, failed, scans, at, racers, collect, heard, kept,
                 aborted>>

\* The processQueue of addTool runs up to its first await.
Added ==
  /\ pc = "added"
  /\ processQueue(1, scans)
  /\ pc' = "queue"
  /\ at' = at + 1
  /\ UNCHANGED <<kind, racers, collect, heard, kept, aborted>>

Queued ==
  /\ pc = "queue" /\ at = N + 1
  /\ pc' = "tick"
  /\ UNCHANGED <<kind, toolVars, scans, at, racers, collect, heard, kept, aborted>>

\* The answers to the refused calls are yielded first.  Mutant: an event is
\* recorded before the executor is asked.
HandOver(then) ==
  /\ pc = "tick"
  /\ heard' = [i \in Calls |-> IF i \in Refused THEN heard[i] + 1 ELSE heard[i]]
  /\ pc' = then
  /\ at' = 1
  /\ UNCHANGED <<kind, toolVars, scans, racers, collect, kept, aborted>>
HandRecording == HandOver("hand")
Hand == HandOver(IF Refused = {} THEN "offer" ELSE "hand")

------------------------------------------------------------------------------
(* getCompletedResults, from the cursor at to the next result.             *)

\* Mutant: every executing tool stops the sweep.
BlocksAny(i) == status[i] = "executing"
Blocks(i) == status[i] = "executing" /\ ~Safe(i)

Ready(i) == /\ i >= at
            /\ status[i] = "completed"
            /\ \A j \in at .. i - 1 : status[j] # "completed" /\ ~Blocks(j)

\* Mutant: the entry is not marked as yielded.
YieldUnmarked(i) == /\ heard' = [heard EXCEPT ![i] = @ + 1]
                    /\ at' = i + 1
                    /\ UNCHANGED status
Yield(i) == /\ status' = [status EXCEPT ![i] = "yielded"]
            /\ heard' = [heard EXCEPT ![i] = @ + 1]
            /\ at' = i + 1

\* While the model's stream is read, nothing is put into toolResults.
Offer ==
  /\ pc = "offer"
  /\ \/ \E i \in Calls : Ready(i) /\ Yield(i) /\ pc' = "offered"
     \/ /\ \A i \in Calls : ~Ready(i)
        /\ pc' = "trace"
        /\ UNCHANGED <<status, heard, at>>
  /\ UNCHANGED <<kind, result, failed, scans, racers, collect, kept, aborted>>

------------------------------------------------------------------------------
(* getRemainingResults.                                                    *)

Unfinished == \E i \in Calls : status[i] \in {"queued", "executing", "completed"}

Loop ==
  /\ pc = "loop"
  /\ pc' = IF Unfinished THEN "pump"
           ELSE IF collect /\ ~aborted THEN "next" ELSE "stopped"
  /\ at' = 1
  /\ UNCHANGED <<kind, toolVars, scans, racers, collect, heard, kept, aborted>>

\* The loop awaits a run of processQueue of its own.
Pump ==
  /\ pc = "pump"
  /\ \/ \E i \in Calls : /\ Pick(at, i)
                         /\ executeTool(i)
                         /\ scans' = scans \cup Again
                         /\ at' = i + 1
                         /\ UNCHANGED pc
     \/ /\ \A i \in Calls : ~Pick(at, i)
        /\ at' = 1
        /\ pc' = "sweep"
        /\ UNCHANGED <<status, result, scans>>
  /\ UNCHANGED <<kind, failed, racers, collect, heard, kept, aborted>>

Sweep ==
  /\ pc = "sweep"
  /\ \E i \in Calls : /\ Ready(i)
                      /\ Yield(i)
                      /\ kept' = IF collect THEN kept \cup {i} ELSE kept
  /\ pc' = "swept"
  /\ UNCHANGED <<kind, result, failed, scans, racers, collect, aborted>>

SweepEnds ==
  /\ pc = "sweep"
  /\ \A i \in Calls : ~Ready(i)
  /\ \/ /\ Executing # {}
        /\ \A i \in Calls : status[i] # "completed"
        /\ racers' = Executing
        /\ pc' = "race"
     \/ /\ Executing = {} \/ \E i \in Calls : status[i] = "completed"
        /\ pc' = "loop"
        /\ UNCHANGED racers
  /\ UNCHANGED <<kind, toolVars, scans, at, collect, heard, kept, aborted>>

Won == \E i \in racers : status[i] # "executing"

Race ==
  /\ pc = "race"
  /\ Won
  /\ racers' = {}
  /\ pc' = "loop"
  /\ UNCHANGED <<kind, toolVars, scans, at, collect, heard, kept, aborted>>

------------------------------------------------------------------------------
(* The outside world.                                                      *)

Idle == scans = {} /\ (pc \in Away \/ (pc = "race" /\ ~Won))

Resumed == [record |-> "queue", hand |-> "offer", offered |-> "offer",
            trace |-> "loop", swept |-> "sweep"]

\* The event is written, or the consumer asks for more.  The stream is over
\* when the decision trace has been written.
Resume ==
  /\ Idle /\ pc \in Away
  /\ pc' = Resumed[pc]
  /\ at' = IF pc = "record" THEN at + 1 ELSE at
  /\ collect' = IF pc = "trace" THEN ~aborted ELSE collect
  /\ kept' = IF pc = "trace" /\ ~aborted THEN Refused ELSE kept
  /\ UNCHANGED <<kind, toolVars, scans, racers, heard, aborted>>

\* runToolUse yields its one result, a timeout's included.
Return(i) ==
  /\ Idle
  /\ status[i] = "executing" /\ result[i] = "none"
  /\ ~getAbortReason
  /\ \E r \in {"ok", "error"} :
       /\ result' = [result EXCEPT ![i] = r]
       /\ failed' = (failed \/ (r = "error" /\ kind[i] = "bash"))
  /\ UNCHANGED <<kind, status, scans, loopVars, aborted>>

\* The event of the result is written and the promise resolves.
Finish(i) ==
  /\ Idle
  /\ status[i] = "executing" /\ result[i] # "none"
  /\ status' = [status EXCEPT ![i] = "completed"]
  /\ scans' = {1}
  /\ UNCHANGED <<kind, result, failed, loopVars, aborted>>

\* The result comes too late: a synthetic one replaces it.
Discard(i) ==
  /\ Idle
  /\ status[i] = "executing" /\ result[i] = "none"
  /\ getAbortReason
  /\ result' = [result EXCEPT ![i] = "cancelled"]
  /\ status' = [status EXCEPT ![i] = "completed"]
  /\ scans' = {1}
  /\ UNCHANGED <<kind, failed, loopVars, aborted>>

Abort ==
  /\ Idle /\ ~aborted
  /\ aborted' = TRUE
  /\ UNCHANGED <<kind, toolVars, scans, loopVars>>

Tool(i) == Return(i) \/ Finish(i) \/ Discard(i)

Leader == \/ Refuse \/ addUnknown \/ addTool \/ Added \/ Queued \/ Hand \/ Offer
          \/ Loop \/ Pump \/ Sweep \/ SweepEnds \/ Race \/ Resume

Next == \/ Leader
        \/ \E p \in 1 .. N + 1 : Scan(p)
        \/ \E i \in Calls : Tool(i)
        \/ Abort

Spec == Init /\ [][Next]_vars

\* Ready code runs; events are written and the consumer, a for-await loop,
\* asks for more; a tool call ends, by itself or at its time limit.
FairSpec == /\ Spec
            /\ WF_vars(Leader)
            /\ \A p \in 1 .. N + 1 : WF_vars(Scan(p))
            /\ \A i \in Calls : WF_vars(Tool(i))

------------------------------------------------------------------------------
(* Properties.                                                             *)

\* A tool that is not concurrency-safe runs alone: processQueue and its scans,
\* which go on from stale positions after every completion, never start
\* anything beside it (canExecuteTool).
UnsafeRunsAlone == \A i, j \in Executing : i # j => Safe(i) /\ Safe(j)

\* No tool is started while an earlier one of the message waits: a read that
\* follows a write in the message sees it (the break of processQueue).
StartedInOrder ==
  \A i, j \in Calls : i < j /\ status[i] = "queued"
                      => status[j] \in {"absent", "queued"} \/ kind[j] = "unknown"

\* Once a bash call has failed nothing behind it in the message runs, whether it
\* was queued before or after the failure (hasErrored, sibling_error).
FailureStopsTheRest ==
  \A i, j \in Calls : /\ i < j
                      /\ kind[i] = "bash" /\ result[i] = "error"
                      => status[j] # "executing" /\ result[j] # "ok"

\* Every call is answered once, and none is left out when the turn ends, also
\* after an abort (getCompletedResults, getRemainingResults).
AnsweredOnce == \A i \in Calls : heard[i] <= 1 /\ (Ended => heard[i] = 1)

\* The answers reach the next turn if no call was refused or unknown: none is
\* ready before the drain, which alone fills toolResults.
PlainTurnKeepsAll ==
  pc = "next" /\ (\A i \in Calls : kind[i] \notin {"refused", "unknown"})
  => kept = Calls

\* "toolResults contains ALL results for this turn" (autonomous-loop-service.ts,
\* above the execution-policy counters): not so, see the README.
TurnKeepsAll == pc = "next" => kept = Calls

\* The turn ends if no unknown name follows a tool that is not concurrency-safe.
TurnEnds == (\A i, j \in Calls : i < j /\ ~Safe(i) /\ i \notin Refused
                                 => kind[j] # "unknown") => <>Ended

\* Every turn ends: not so, see the README.
EveryTurnEnds == <>Ended
=============================================================================
