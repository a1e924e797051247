----------------------------- MODULE AgentLoop -----------------------------
(***************************************************************************)
(* The leader's loop over its runs (autonomous-loop-service.ts): the       *)
(* history it keeps in memory, what of it the model is sent, the           *)
(* checkpoint a later run starts from, and plan mode, whose state is in    *)
(* memory, in the history and in the event log.                            *)
(*                                                                         *)
(* Model replies, token estimates and the end of a tool are choices.  A    *)
(* step is the code between two durable writes or two real awaits; the     *)
(* process may die before any of them.                                     *)
(***************************************************************************)
EXTENDS Messages

CONSTANTS
  MaxTurns,   \* turns of a run (60 in the code)
  TailTurns,  \* turns goal mode keeps (3 in the code)
  Prompts,    \* kinds of text a user types
  McpPrompts, \* what prompts of MCP servers put around the first text
  Replies,    \* replies with calls: their text and their tools
  MaxRuns,    \* bound: runs of the task
  MaxPrimed,  \* bound: the same, if an MCP prompt's messages came first
  MaxTexts,   \* bound: texts the user types
  MaxCalls    \* bound: tool calls

\* A message of an MCP prompt, which may be empty or blank.
Blocks == {Block("said"), Block("empty")}
Contents == {<<>>} \cup {<<b>> : b \in Blocks}
PromptMessages == {Assistant(t, <<>>) : t \in Contents} \cup {Rendered(t) : t \in Contents}

ASSUME AgentLoopAssumption ==
  /\ {MaxTurns, TailTurns, MaxRuns, MaxPrimed, MaxTexts, MaxCalls} \subseteq Nat \ {0}
  /\ Prompts \subseteq {"say", "approve", "cancel", "revise"}
  /\ McpPrompts \subseteq [before : Seq(PromptMessages), blocks : Contents]
  /\ Replies \subseteq [text : {<<>>, <<Block("said")>>},
                         tools : Seq({"enter", "exit", "work"})]

VARIABLES
  pc,        \* where the loop is; "ended" and "dead" between runs
  messages,  \* currentMessages of the run
  turn,      \* turnCount
  plan,      \* planState
  current,   \* currentPlanRequestId, 0 if null
  request,   \* the run's requestId
  todo,      \* calls of the reply that have not run
  reply,     \* the answer to a plan that is being applied
  saved,     \* the latest checkpoint
  open,      \* the proposal the event log shows as open, 0 if none
  runs, texts, calls,        \* how many there were
  told,      \* calls of this run that ended and were not compacted since
  informed,  \* the run was told of the proposal that was open, if there was one
  asked,     \* texts before the last proposal
  primed     \* an MCP prompt put messages before the first text

memory == <<messages, turn, plan, current, request, todo, reply>>
ghosts == <<told, informed, asked, primed>>
vars == <<pc, memory, saved, open, runs, texts, calls, ghosts>>

NoCheckpoint == [messages |-> <<>>, turn |-> 0, request |-> 0]

Init == /\ pc = "ended"
        /\ messages = <<>> /\ turn = 0 /\ plan = "IDLE" /\ current = 0
        /\ request = 0 /\ todo = <<>> /\ reply = <<>>
        /\ saved = NoCheckpoint /\ open = 0
        /\ runs = 0 /\ texts = 0 /\ calls = 0
        /\ told = {} /\ informed = FALSE /\ asked = 0 /\ primed = FALSE

\* The run's memory is gone.
Leave(to) ==
  /\ pc' = to
  /\ messages' = <<>> /\ turn' = 0 /\ plan' = "IDLE" /\ current' = 0
  /\ request' = 0 /\ todo' = <<>> /\ reply' = <<>>
  /\ told' = {} /\ informed' = FALSE
End == Leave("ended")

buildCheckpoint(ms, t) == [messages |-> ms, turn |-> t, request |-> request]

-----------------------------------------------------------------------------
(* A run starts.                                                           *)

\* leaderLoop up to its first turn: the history is sanitized, and the plan is
\* what the event log says is open, or else what the history tells.
StartLoop(history, startTurn, id, known, planFirst) ==
  LET initial == IF Len(history) > 1 THEN sanitizeResumedMessages(history) ELSE history
      derived == IF known # 0 THEN "AWAITING_APPROVAL"
                 ELSE derivePlanStateFromMessages(initial)
  IN /\ runs < IF primed THEN MaxPrimed ELSE MaxRuns
     /\ runs' = runs + 1
     /\ pc' = "top"
     /\ messages' = initial
     /\ turn' = startTurn
     /\ plan' = IF planFirst /\ derived = "IDLE" THEN "PLANNING" ELSE derived
     /\ current' = known
     /\ request' = id
     /\ UNCHANGED <<todo, reply, saved, open, calls, told, asked>>

\* Mutant: the log is not asked; the history has to tell.
findNoPlan == 0
\* The open proposal is looked up for a run that is given a history.
findOpenPlanRequestId == IF saved.messages # <<>> THEN open ELSE 0

\* The first text, with the blocks of the last user's message of an MCP prompt.
FirstText(t, blocks) ==
  IF blocks = <<>> THEN User(t) ELSE Rendered(<<t>> \o blocks)

\* POST /tasks: what an MCP prompt says before that message goes before the text.
Begin ==
  /\ pc = "ended" /\ runs = 0
  /\ texts < MaxTexts
  /\ texts' = texts + 1
  /\ \E k \in Prompts, p \in McpPrompts, planFirst \in BOOLEAN :
       /\ StartLoop(Append(p.before, FirstText([kind |-> k, n |-> texts + 1], p.blocks)),
                    1, runs + 1, 0, planFirst)
       /\ primed' = (p.before # <<>>)
  /\ informed' = (open = 0)

\* A later message to a task that is not running.
FollowUp ==
  /\ pc = "ended" /\ runs > 0
  /\ texts < MaxTexts
  /\ texts' = texts + 1
  /\ \E k \in Prompts, planFirst \in BOOLEAN :
       StartLoop(Append(saved.messages, User([kind |-> k, n |-> texts + 1])),
                 1, runs + 1, findOpenPlanRequestId, planFirst)
  /\ informed' = (saved.messages # <<>> \/ open = 0)
  /\ UNCHANGED primed

\* The process is up again (crash-recovery-service.ts): the task has failed if it
\* has no checkpoint or its newest runtime row is a teammate's.
Recover ==
  /\ pc = "dead"
  /\ \/ Leave("ended") /\ UNCHANGED <<saved, open, runs, texts, calls, asked>>
     \/ /\ saved.messages # <<>>
        /\ StartLoop(Append(saved.messages, Marker("recovery")),
                     1, runs + 1, findOpenPlanRequestId, FALSE)
        /\ informed' = TRUE
        /\ UNCHANGED texts
  /\ UNCHANGED primed

\* resumeLeaderFromCheckpoint, by the recovery tick or an operator: the history
\* is sanitized here and once more in the loop, and the log is not asked.
Resume ==
  /\ pc \in {"ended", "dead"}
  /\ saved.messages # <<>>
  /\ StartLoop(Append(sanitizeResumedMessages(saved.messages), Marker("empty")),
               saved.turn, saved.request, 0, FALSE)
  /\ informed' = (open = 0)
  /\ UNCHANGED <<texts, primed>>

\* A teammate's completion or a goal's next iteration wakes the task: the job
\* has an empty prompt and no history, its text comes from the mailbox.
Wake ==
  /\ pc = "ended"
  /\ saved.messages # <<>>
  /\ StartLoop(<<Marker("empty")>>, 1, runs + 1, 0, FALSE)
  /\ informed' = (open = 0)
  /\ UNCHANGED <<texts, primed>>

\* Goal mode rewrites the checkpoint between two iterations.
FreshContext ==
  /\ pc = "ended"
  /\ saved' = [saved EXCEPT !.messages = trimForFreshContext(@, TailTurns)]
  /\ saved' # saved
  /\ UNCHANGED <<pc, memory, open, runs, texts, calls, ghosts>>

-----------------------------------------------------------------------------
(* The top of a turn.                                                      *)

\* The mailbox is drained: at most one text here.
Drain ==
  /\ pc = "top"
  /\ pc' = "compact"
  /\ \/ UNCHANGED <<messages, texts>>
     \/ /\ texts < MaxTexts
        /\ texts' = texts + 1
        /\ \E k \in Prompts : messages' = Append(messages, User([kind |-> k, n |-> texts + 1]))
  /\ UNCHANGED <<turn, plan, current, request, todo, reply, saved, open, runs,
                 calls, ghosts>>

\* The text a plan in AWAITING_APPROVAL is answered with in a history, if any.
Response(ms) == IF plan = "AWAITING_APPROVAL" THEN detectPlanResponse(ms) ELSE <<>>

\* An answer is seen to first; without one the model is called.
Go == pc' = IF Response(messages') # <<>> THEN "plan" ELSE "model"

\* The estimate is under the threshold, or nothing can be made smaller.
Fits == /\ pc = "compact"
        /\ UNCHANGED <<memory, saved, open, runs, texts, calls, ghosts>>
        /\ Go

\* Up to three turns are dropped.
Dropped(ms) ==
  LET one == dropOldestTurns(ms)
      two == dropOldestTurns(one)
  IN {ms, one, two, dropOldestTurns(two)}

\* Results that can be truncated or snipped: their messages stay.
Shrinkable == \E i \in DOMAIN messages : messages[i].type = "tool_result"

\* Past this the calls before it may be made again.
Rewrite(ms) ==
  /\ messages' = InjectProgress(ms)
  /\ told' = IF ms = messages THEN told ELSE {}

\* A summary is skipped or fails, or it replaces old turns; then turns are dropped.
Compact ==
  /\ pc = "compact"
  /\ \E kept \in UNION {Dropped(ms) : ms \in {messages} \cup autocompact(messages)} :
       /\ kept # messages \/ Shrinkable
       /\ Rewrite(kept)
  /\ UNCHANGED <<turn, plan, current, request, todo, reply, saved, open, runs,
                 texts, calls, informed, asked, primed>>
  /\ Go

-----------------------------------------------------------------------------
(* The user's answer to a plan.                                            *)

\* The event is stamped with the proposal's request, if the run knows it.
LeavePlan ==
  /\ pc = "plan"
  /\ pc' = "answered"
  /\ reply' = Response(messages)
  /\ plan' = AfterExit(OutcomeOf(reply'[1].kind))
  /\ open' = IF open = (IF current # 0 THEN current ELSE request) THEN 0 ELSE open
  /\ current' = 0
  /\ UNCHANGED <<messages, turn, request, todo, saved, runs, texts, calls, ghosts>>

\* The answer is replaced and saved; after a cancellation the run is over.
Substitute ==
  /\ pc = "answered"
  /\ LET ms == stripSentinelFromMessages(messages, reply[1].kind)
     IN IF reply[1].kind = "cancel"
        THEN /\ saved' = buildCheckpoint(Append(ms, Assistant(<<Block("said")>>, <<>>)), turn)
             /\ End
        ELSE /\ saved' = buildCheckpoint(ms, turn)
             /\ messages' = ms
             /\ reply' = <<>>
             /\ pc' = "model"
             /\ UNCHANGED <<turn, plan, current, request, todo, told, informed>>
  /\ UNCHANGED <<open, runs, texts, calls, asked, primed>>

-----------------------------------------------------------------------------
(* The model, and its calls.                                               *)

\* What the model is sent.
Sent == pairLeaderToolMessages(messages)

\* No call: the last turn, with or without a text.
Finish ==
  /\ pc = "model"
  /\ \E text \in {<<>>, <<Block("said")>>} :
       saved' = buildCheckpoint(Append(messages, Assistant(text, <<>>)), turn)
  /\ End
  /\ UNCHANGED <<open, runs, texts, calls, asked, primed>>

\* Another turn follows, and a crash starts from it.
NextTurn(ms) ==
  /\ turn < MaxTurns
  /\ pc' = "top"
  /\ messages' = ms
  /\ turn' = turn + 1
  /\ saved' = buildCheckpoint(ms, turn + 1)

\* Thoughts only: the model is asked to go on.
Think ==
  /\ pc = "model"
  /\ NextTurn(messages \o <<Assistant(<<Block("thinking")>>, <<>>), Marker("continue")>>)
  /\ UNCHANGED <<plan, current, request, todo, reply, open, runs, texts,
                 calls, told, informed, asked, primed>>

Call ==
  /\ pc = "model"
  /\ \E r \in Replies :
       /\ calls + Len(r.tools) <= MaxCalls
       /\ calls' = calls + Len(r.tools)
       /\ todo' = [i \in DOMAIN r.tools |-> [id |-> calls + i, tool |-> r.tools[i]]]
       /\ messages' = Append(messages, Assistant(r.text, todo'))
  /\ pc' = "tools"
  /\ UNCHANGED <<turn, plan, current, request, reply, saved, open, runs,
                 texts, told, informed, asked, primed>>

\* What a call does; each sees the plan as the one before it left it.
Effect(tool) ==
  CASE tool = "enter" ->
         /\ plan' = IF plan = "IDLE" THEN "PLANNING" ELSE plan
         /\ UNCHANGED <<current, open, asked>>
    [] tool = "exit" /\ plan = "PLANNING" ->
         /\ plan' = "AWAITING_APPROVAL"
         /\ open' = request
         /\ current' = request
         /\ asked' = texts
    [] OTHER -> UNCHANGED <<plan, current, open, asked>>

\* A tool that is not plan-safe runs outside plan mode only.
Works == /\ pc = "tools" /\ todo # <<>>
         /\ Head(todo).tool = "work"
         /\ plan = "IDLE"

\* A hook, the doom-loop detector or the tool's schema may refuse any call.
Execute ==
  /\ pc = "tools"
  /\ todo # <<>>
  /\ todo' = Tail(todo)
  /\ \/ Effect(Head(todo).tool)
     \/ UNCHANGED <<plan, current, open, asked>>
  /\ UNCHANGED <<pc, messages, turn, request, reply, saved, runs,
                 texts, calls, told, informed, primed>>

\* A result that was handed over while the reply was read is not kept: see
\* TurnKeepsAll of ToolExecutor.
Results(lost) ==
  LET uses == Last(messages).uses
      kept == At(uses, {i \in DOMAIN uses : uses[i] \notin lost})
  IN [i \in DOMAIN kept |-> ToolResult(kept[i])]

\* With a proposal open the run ends after the turn.
\* Mutant: it goes on.
HaltsNever == FALSE
Halts == plan = "AWAITING_APPROVAL"

Record ==
  /\ pc = "tools"
  /\ todo = <<>>
  /\ \E lost \in SUBSET ToSet(Last(messages).uses) :
       LET ms == messages \o Results(lost) IN
       IF Halts
       THEN saved' = buildCheckpoint(ms, turn) /\ End
       ELSE /\ NextTurn(ms)
            /\ told' = told \cup (ToSet(Last(messages).uses) \ lost)
            /\ UNCHANGED <<plan, current, request, todo, reply, informed>>
  /\ UNCHANGED <<open, runs, texts, calls, asked, primed>>

-----------------------------------------------------------------------------
(* The ends without a checkpoint.                                          *)

\* An abort, an error of the model, the halt of a completed goal, the last turn.
Stop ==
  /\ pc \in {"top", "model", "tools"}
  /\ End
  /\ UNCHANGED <<saved, open, runs, texts, calls, asked, primed>>

Crash ==
  /\ pc \notin {"ended", "dead"}
  /\ Leave("dead")
  /\ UNCHANGED <<saved, open, runs, texts, calls, asked, primed>>

Next == \/ Begin \/ FollowUp \/ Recover \/ Resume \/ Wake \/ FreshContext
        \/ Drain \/ Fits \/ Compact \/ LeavePlan \/ Substitute
        \/ Finish \/ Think \/ Call \/ Execute \/ Record
        \/ Stop \/ Crash

Spec == Init /\ [][Next]_vars

-----------------------------------------------------------------------------
(* Properties.                                                             *)

\* What the provider takes.
WellFormed(wire) ==
  /\ wire # <<>>
  /\ wire[1].results = {}
  /\ \A i \in DOMAIN wire :
       wire[i].type = "assistant" =>
         ToSet(wire[i].uses) = IF i = Len(wire) THEN {} ELSE wire[i + 1].results

\* The provider accepts what it is sent (message-pairing.ts:22, "Without
\* sanitization the next API call rejects the history"): once messages of one
\* role are put together, as its plugin does, the calls of a reply are answered by
\* the next message and by no other, and a user's message comes first, but for
\* the first run of a task that an MCP prompt began and what that run leaves.
SentIsWellFormed ==
  pc = "model" => LET wire == enforceAlternatingTurns(Sent)
                  IN WellFormed(wire) /\ (wire[1].type = "assistant" => primed)

\* Within a run nothing but compaction takes a call that has run out of the
\* model's sight, so that it is not made again.
WorkIsTold ==
  pc = "model" => \A c \in told : c \in Declared(Sent) \cap Answered(Sent)

\* A run that starts from a checkpoint knows every call that was answered in
\* it, if no result had been merged into a user's message before.
FollowUpKeepsCalls ==
  [][(FollowUp \/ Recover) /\ pc' = "top" /\ Embedded(saved.messages) = {}
       => Declared(saved.messages) \cap Answered(saved.messages)
            \subseteq Declared(messages') \cap Answered(messages')]_vars

\* While a plan waits for its user nothing is done, also in later runs and after
\* a crash, however little of the plan the history still shows: the event log is
\* the authority (autonomous-loop-service.ts:285).
OpenPlanGatesWork == informed /\ Works => open = 0

\* The plan a run was told of is approved or cancelled by a text that came after
\* it, never by the one that asked for it, which may read the same (a revision is
\* known by the first words of a merged message, and those may be old).
AnswerFollowsPlan ==
  [][LeavePlan /\ informed /\ open # 0
       => reply'[1].kind = "revise" \/ reply'[1].n > asked]_vars

-----------------------------------------------------------------------------
(* What the code does not keep.                                            *)

\* The same for every task: nothing takes an assistant's message away that an
\* MCP prompt put in front, so it may be the first that is sent.
UserComesFirst ==
  pc = "model" => enforceAlternatingTurns(Sent)[1].type # "assistant"

\* The same after a second follow-up: "Both forms must be recognised when looking
\* for an answer" (message-pairing.ts:37), but the repair of a checkpoint looks
\* for standalone results, and its merging embeds them.
EveryFollowUpKeepsCalls ==
  [][(FollowUp \/ Recover) /\ pc' = "top"
       => Declared(saved.messages) \cap Answered(saved.messages)
            \subseteq Declared(messages') \cap Answered(messages')]_vars

\* The same for runs nobody told of the proposal: resumes and wake-ups.
OpenPlanGatesAllWork == Works => open = 0

\* The same for plans that only the history tells of: repair can take a later
\* plan out of it and leave an earlier one, and then the text that asked for the
\* later one is found to answer it (four turns and two lost results).
EveryAnswerFollowsPlan ==
  [][LeavePlan => reply'[1].kind = "revise" \/ reply'[1].n > asked]_vars

\* "Dropping the user's current request would render the loop useless"
\* (message-compaction.ts:62): compaction keeps the latest text of the user.
Numbers(ms) == UNION {{ms[i].text[j].n : j \in DOMAIN ms[i].text} : i \in DOMAIN ms}
CompactionKeepsRequest ==
  [][Compact => Max(Numbers(messages) \cup {0}) \in Numbers(messages') \cup {0}]_vars
=============================================================================
