------------------------------ MODULE Messages ------------------------------
(***************************************************************************)
(* The history of an agent loop, and the pure functions that rewrite it:   *)
(* message-pairing.ts, message-compaction.ts, plan-mode-state.ts,          *)
(* leader-session-resume-service.ts and fresh-context-service.ts.          *)
(*                                                                         *)
(* A message keeps its text blocks, the calls it declares and the calls it *)
(* answers.  A text block is known by its kind and by the number of the    *)
(* user's text it comes from (0 for the program's own).                    *)
(***************************************************************************)
EXTENDS Integers, Sequences, FiniteSets, SequencesExt

\* The elements of s at the places I, in their order (SelectSeq, as a recursion
\* that can be reasoned about).
At(s, I) ==
  LET f[n \in 0 .. Len(s)] ==
        IF n = 0 THEN <<>> ELSE IF n \in I THEN Append(f[n - 1], s[n]) ELSE f[n - 1]
  IN f[Len(s)]

\* plain: the content is a string, as that of every message a user types.
User(t) == [type |-> "user", plain |-> TRUE, text |-> <<t>>,
            uses |-> <<>>, results |-> {}]
\* Its content is a list of blocks.
Rendered(text) == [type |-> "user", plain |-> FALSE, text |-> text,
                   uses |-> <<>>, results |-> {}]
Assistant(text, uses) == [type |-> "assistant", plain |-> FALSE, text |-> text,
                          uses |-> uses, results |-> {}]
ToolResult(c) == [type |-> "tool_result", plain |-> FALSE, text |-> <<>>,
                  uses |-> <<>>, results |-> {c}]

Block(k) == [kind |-> k, n |-> 0]
Marker(k) == User(Block(k))
IsMarker(m, k) == m.type = "user" /\ m.plain /\ m.text[1].kind = k

Declared(ms) == UNION {ToSet(ms[i].uses) : i \in DOMAIN ms}
Answered(ms) == UNION {ms[i].results : i \in DOMAIN ms}
Embedded(ms) == UNION {ms[i].results : i \in {j \in DOMAIN ms : ms[j].type = "user"}}
From(ms, i) == SubSeq(ms, i, Len(ms))

OnlyUses(m, C) == [m EXCEPT !.uses = At(@, {i \in DOMAIN @ : @[i] \in C})]
OnlyPairs(ms, C) ==
  [i \in DOMAIN ms |-> [OnlyUses(ms[i], C) EXCEPT !.results = @ \cap C]]

-----------------------------------------------------------------------------
(* Pairing.                                                                *)

\* Calls that are declared first and answered later.
ValidPairs(ms) ==
  {c \in Answered(ms) : \E j \in DOMAIN ms :
                           /\ c \in ms[j].results
                           /\ \E i \in DOMAIN ms : i < j /\ c \in ToSet(ms[i].uses)}

Visible(m) == \E i \in DOMAIN m.text : m.text[i].kind \notin {"thinking", "empty"}

\* What is left of a message is worth sending.
Says(m) == CASE m.type = "assistant"   -> Visible(m) \/ m.uses # <<>>
             [] m.type = "tool_result" -> m.results # {}
             [] OTHER                  -> m.text # <<>> \/ m.results # {}
Speaking(ms) == At(ms, {i \in DOMAIN ms : Says(ms[i])})

\* Mutant: a result within a user's message is not looked at.
PairStandaloneOnly(ms) ==
  LET valid == ValidPairs(ms)
      prune(m) == IF m.type = "user" THEN m
                  ELSE [OnlyUses(m, valid) EXCEPT !.results = @ \cap valid]
  IN Speaking([i \in DOMAIN ms |-> prune(ms[i])])
\* Mutant: the answer has to be in the next message.
PairNextOnly(ms) ==
  Speaking(OnlyPairs(ms, UNION {ToSet(ms[i].uses) \cap ms[i + 1].results :
                                  i \in 1 .. Len(ms) - 1}))
pairLeaderToolMessages(ms) == Speaking(OnlyPairs(ms, ValidPairs(ms)))

-----------------------------------------------------------------------------
(* The history of a checkpoint.                                            *)

\* Only standalone results count as answers here.
repairToolResultPairing(ms) ==
  LET standalone == {i \in DOMAIN ms : ms[i].type = "tool_result"}
      paired == Declared(ms) \cap UNION {ms[i].results : i \in standalone}
      kept(m) == CASE m.type = "assistant"   -> m.text # <<>> \/ m.uses # <<>>
                   [] m.type = "tool_result" -> m.results \subseteq paired
                   [] OTHER                  -> TRUE
      pruned == [i \in DOMAIN ms |-> OnlyUses(ms[i], paired)]
  IN At(pruned, {i \in DOMAIN ms : kept(pruned[i])})

Role(m) == IF m.type = "assistant" THEN "assistant" ELSE "user"

\* Mutant: the results are left behind when two messages become one.
MergedTexts(a, b) ==
  [type |-> Role(a), plain |-> FALSE, text |-> a.text \o b.text,
   uses |-> a.uses \o b.uses, results |-> a.results]
Merged(a, b) ==
  [type |-> Role(a), plain |-> FALSE, text |-> a.text \o b.text,
   uses |-> a.uses \o b.uses, results |-> a.results \cup b.results]

Joined(out, m) == IF out # <<>> /\ Role(Last(out)) = Role(m)
                  THEN Append(Front(out), Merged(Last(out), m))
                  ELSE Append(out, m)

enforceAlternatingTurns(ms) ==
  LET out[n \in 0 .. Len(ms)] ==
        IF n = 0 THEN <<>> ELSE Joined(out[n - 1], ms[n])
  IN out[Len(ms)]

sanitizeResumedMessages(ms) == enforceAlternatingTurns(repairToolResultPairing(ms))

-----------------------------------------------------------------------------
(* Turns and compaction.  A turn starts at a user's message.               *)

identifyTurns(ms) == {i \in DOMAIN ms : i = 1 \/ ms[i].type = "user"}
Later(ms) == identifyTurns(ms) \ {1}

dropOldestTurns(ms) ==
  LET source == IF ms # <<>> /\ IsMarker(Head(ms), "dropped") THEN Tail(ms) ELSE ms
  IN IF Later(source) = {} THEN ms
     ELSE <<Marker("dropped")>> \o From(source, Min(Later(source)))

extractPreviousSummary(ms) ==
  IF ms # <<>> /\ IsMarker(Head(ms), "summary") THEN Tail(ms) ELSE ms

\* What a summary may leave: the tail starts at any turn but the first.
autocompact(ms) ==
  LET rest == extractPreviousSummary(ms)
  IN {<<Marker("summary")>> \o From(rest, i) : i \in Later(rest)}

\* The progress of the session goes first, an older one is taken out.
InjectProgress(ms) ==
  <<Marker("progress")>> \o At(ms, {i \in DOMAIN ms : ~IsMarker(ms[i], "progress")})

\* Goal mode keeps the last turns of a checkpoint (3 in the code).
trimForFreshContext(ms, tailTurns) ==
  LET turns == identifyTurns(ms)
      first == CHOOSE i \in turns : Cardinality({j \in turns : j >= i}) = tailTurns
  IN IF Cardinality(turns) <= tailTurns THEN ms
     ELSE <<Marker("summary")>> \o extractPreviousSummary(From(ms, first))

-----------------------------------------------------------------------------
(* The plan in the history.                                                *)

Outcomes == {"approved", "cancelled", "revised"}
AfterExit(k) == IF k = "revised" THEN "PLANNING" ELSE "IDLE"

AfterUse(p, c) == CASE c.tool = "enter" /\ p = "IDLE"    -> "PLANNING"
                    [] c.tool = "exit" /\ p = "PLANNING" -> "AWAITING_APPROVAL"
                    [] OTHER                             -> p

\* The first block that tells an outcome counts.
derivePlanStateFromMessages(ms) ==
  LET walk(p, m) ==
        LET told == At(m.text, {i \in DOMAIN m.text : m.text[i].kind \in Outcomes})
        IN CASE m.type = "assistant"            -> FoldLeft(AfterUse, p, m.uses)
             [] m.type = "user" /\ told # <<>> -> AfterExit(Head(told).kind)
             [] OTHER                           -> p
  IN FoldLeft(walk, "IDLE", ms)

LastUser(ms) == SelectLastInSeq(ms, LAMBDA m : m.type = "user")

\* The text of the last user's message, its blocks joined, is the answer: an
\* approval or a cancellation as a whole, a revision by its first words.
\* Empty if it is none.
detectPlanResponse(ms) ==
  LET i == LastUser(ms)
      t == IF i = 0 THEN <<>>
           ELSE At(ms[i].text, {j \in DOMAIN ms[i].text : ms[i].text[j].kind # "empty"})
  IN IF t # <<>> /\ (\/ t[1].kind = "revise"
                     \/ Len(t) = 1 /\ t[1].kind \in {"approve", "cancel"})
     THEN <<t[1]>> ELSE <<>>

OutcomeOf(k) == CASE k = "approve" -> "approved"
                  [] k = "cancel"  -> "cancelled"
                  [] k = "revise"  -> "revised"

\* Every text of the last user's message gives way to the outcome.
stripSentinelFromMessages(ms, k) ==
  LET i == LastUser(ms)
  IN IF i = 0 THEN ms
     ELSE [ms EXCEPT ![i].text = [j \in DOMAIN ms[i].text |->
                                    [ms[i].text[j] EXCEPT !.kind = OutcomeOf(k)]]]
=============================================================================
