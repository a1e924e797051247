-------------------------- MODULE CommandApproval --------------------------
(***************************************************************************)
(* The tool calls of one task that wait for an approval, and those who     *)
(* resolve it: command-approval-service.ts, the card in the web console    *)
(* (routes/approvals.ts) and the card in the chat (approval-service.ts).   *)
(* The database does not yield: a read and the write that follows from it  *)
(* are one step.  A resolution is published in a later one, behind the     *)
(* load of the modules that publish it, and so is what follows a sleep.    *)
(***************************************************************************)
EXTENDS Naturals

CONSTANTS
  Calls,       \* tool calls of one kind, on one subject
  Clicks,      \* of the user, each on the card of one call
  Window,      \* APPROVAL_TIMEOUT_MS
  TrustTimes,  \* for how long a card can grant trust
  Faults       \* a subset of {"crash"}

ASSUME ApprovalAssumption ==
  /\ Window \in Nat \ {0}
  /\ TrustTimes \subseteq Nat \ {0}

VARIABLES
  row,      \* of approvals: its state, who resolved it, its age while pending, up to Window + 1
  pc,       \* of each call: where it stands
  waited,   \* how long it has been in waitForApproval, up to Window
  overdue,  \* the rows that its expireOldApprovals has yet to go through
  telling,  \* the rows whose resolution it is about to publish
  answer,   \* what waitForApproval returns to it
  signal,   \* its signal is aborted: a cancel, or the time limit of the tool
  click,    \* of each click: where it stands, its card, the trust it grants
  told,     \* how often leader.approval_resolved was published for each row
  trust,    \* taskTrustLedger: for how long its last entry holds
  lost      \* history: resolutions that a crash kept from being published

vars == <<row, pc, waited, overdue, telling, answer, signal, click, told, trust, lost>>

------------------------------------------------------------------------------
Resolved == {"approved", "rejected", "expired"}

TypeOK ==
  /\ row \in [Calls -> [state : {"none", "pending"} \cup Resolved,
                        by : {"nobody", "user", "auto_timeout", "abort"},
                        age : 0 .. Window + 1]]
  /\ pc \in [Calls -> {"idle", "asked", "poll", "expire", "done", "dead"}]
  /\ waited \in [Calls -> 0 .. Window]
  /\ overdue \in [Calls -> SUBSET Calls]
  /\ telling \in [Calls -> SUBSET Calls]
  /\ answer \in [Calls -> {"none"} \cup Resolved]
  /\ signal \in [Calls -> BOOLEAN]
  /\ click \in [Clicks -> [pc : {"idle", "tell", "done"}, card : Calls,
                           time : {0} \cup TrustTimes]]
  /\ told \in [Calls -> Nat]
  /\ trust \in Nat
  /\ lost \subseteq Calls

Init ==
  /\ row = [c \in Calls |-> [state |-> "none", by |-> "nobody", age |-> 0]]
  /\ pc = [c \in Calls |-> "idle"]
  /\ waited = [c \in Calls |-> 0]
  /\ overdue = [c \in Calls |-> {}]
  /\ telling = [c \in Calls |-> {}]
  /\ answer = [c \in Calls |-> "none"]
  /\ signal = [c \in Calls |-> FALSE]
  /\ click \in [Clicks -> [pc : {"idle"}, card : Calls, time : {0}]]
  /\ told = [c \in Calls |-> 0]
  /\ trust = 0
  /\ lost = {}

Pending(c) == row[c].state = "pending"

Goto(c, p) == pc' = [pc EXCEPT ![c] = p]

\* ApprovalRepository.resolve: its WHERE clause asks for a pending row.
\* Mutant: it asks for the row.
LandsOnAny(c) == row[c].state # "none"
Lands(c) == Pending(c)

Resolve(c, s, who) == row' = [row EXCEPT ![c] = [state |-> s, by |-> who, age |-> 0]]

------------------------------------------------------------------------------
(* The call: requestApprovalForTool, createApproval, waitForApproval.      *)

LetThrough(c) ==
  /\ pc[c] = "idle"
  /\ trust > 0
  /\ answer' = [answer EXCEPT ![c] = "approved"]
  /\ Goto(c, "done")
  /\ UNCHANGED <<row, waited, overdue, telling, signal, click, told, trust, lost>>

\* The row is there, and can be resolved, before its request is published.
Ask(c) ==
  /\ pc[c] = "idle"
  /\ trust = 0
  /\ row' = [row EXCEPT ![c].state = "pending"]
  /\ Goto(c, "asked")
  /\ UNCHANGED <<waited, overdue, telling, answer, signal, click, told, trust, lost>>

Wait(c) ==
  /\ pc[c] = "asked"
  /\ Goto(c, "poll")
  /\ UNCHANGED <<row, waited, overdue, telling, answer, signal, click, told, trust, lost>>

\* Each round begins with the overdue rows of all tasks, those of calls that
\* died with their process among them.
Poll(c) ==
  /\ pc[c] = "poll"
  /\ overdue' = [overdue EXCEPT ![c] = {x \in Calls : Pending(x) /\ row[x].age > Window}]
  /\ Goto(c, "expire")
  /\ UNCHANGED <<row, waited, telling, answer, signal, click, told, trust, lost>>

\* expireApprovalWithTimeout, oldest row first.  Since they were listed others
\* may have resolved them.  Mutant: it tries until its own write lands.
ExpireUntilLanded(c, x) ==
  /\ pc[c] = "expire" /\ telling[c] = {}
  /\ x \in overdue[c]
  /\ \A y \in overdue[c] : row[y].age <= row[x].age
  /\ overdue' = [overdue EXCEPT ![c] = @ \ {x}]
  /\ Lands(x)
  /\ Resolve(x, "approved", "auto_timeout")
  /\ telling' = [telling EXCEPT ![c] = {x}]
  /\ UNCHANGED <<pc, waited, answer, signal, click, told, trust, lost>>
Expire(c, x) ==
  /\ pc[c] = "expire" /\ telling[c] = {}
  /\ x \in overdue[c]
  /\ \A y \in overdue[c] : row[y].age <= row[x].age
  /\ overdue' = [overdue EXCEPT ![c] = @ \ {x}]
  /\ \/ /\ Lands(x)
        /\ Resolve(x, "approved", "auto_timeout")
        /\ telling' = [telling EXCEPT ![c] = {x}]
     \/ ~Lands(x) /\ UNCHANGED <<row, telling>>
  /\ UNCHANGED <<pc, waited, answer, signal, click, told, trust, lost>>

\* Then the call looks at its own row.
Looks(c) == pc[c] = "expire" /\ overdue[c] = {} /\ telling[c] = {}

Settled(c) ==
  /\ Looks(c)
  /\ row[c].state \in Resolved
  /\ answer' = [answer EXCEPT ![c] = row[c].state]
  /\ Goto(c, "done")
  /\ UNCHANGED <<row, waited, overdue, telling, signal, click, told, trust, lost>>

\* It resolves the row itself, publishes that, and returns.
Close(c, s, who) ==
  /\ Looks(c) /\ Pending(c)
  /\ Resolve(c, s, who)
  /\ answer' = [answer EXCEPT ![c] = s]
  /\ telling' = [telling EXCEPT ![c] = {c}]
  /\ UNCHANGED <<pc, waited, overdue, signal, click, told, trust, lost>>

Aborted(c) == signal[c] /\ Close(c, "expired", "abort")

TimedOut(c) == ~signal[c] /\ waited[c] = Window /\ Close(c, "approved", "auto_timeout")

\* After a second it begins again.
Sleep(c) ==
  /\ Looks(c) /\ Pending(c)
  /\ ~signal[c] /\ waited[c] < Window
  /\ Goto(c, "poll")
  /\ UNCHANGED <<row, waited, overdue, telling, answer, signal, click, told, trust, lost>>

\* emitApprovalResolvedEvent.
Publish(c) ==
  /\ pc[c] = "expire" /\ telling[c] # {}
  /\ told' = [x \in Calls |-> IF x \in telling[c] THEN told[x] + 1 ELSE told[x]]
  /\ telling' = [telling EXCEPT ![c] = {}]
  /\ Goto(c, IF answer[c] = "none" THEN "expire" ELSE "done")
  /\ UNCHANGED <<row, waited, overdue, answer, signal, click, trust, lost>>

Signal(c) ==
  /\ pc[c] \in {"asked", "poll", "expire"}
  /\ ~signal[c]
  /\ signal' = [signal EXCEPT ![c] = TRUE]
  /\ UNCHANGED <<row, pc, waited, overdue, telling, answer, click, told, trust, lost>>

------------------------------------------------------------------------------
(* The user.                                                               *)

\* resolveApproval, of the web or of the chat, whose card grants no trust.
Decide(k, s, t) ==
  LET c == click[k].card IN
  /\ click[k].pc = "idle"
  /\ Lands(c)
  /\ Resolve(c, s, "user")
  /\ click' = [click EXCEPT ![k].pc = "tell", ![k].time = t]
  /\ UNCHANGED <<pc, waited, overdue, telling, answer, signal, told, trust, lost>>

\* A replay: the stored outcome is returned, and nothing is published or trusted.
\* Mutant: it is published.
ReplayTelling(k) ==
  LET c == click[k].card IN
  /\ click[k].pc = "idle"
  /\ row[c].state \in Resolved
  /\ click' = [click EXCEPT ![k].pc = "tell"]
  /\ UNCHANGED <<row, pc, waited, overdue, telling, answer, signal, told, trust, lost>>
Replay(k) ==
  LET c == click[k].card IN
  /\ click[k].pc = "idle"
  /\ row[c].state \in Resolved
  /\ click' = [click EXCEPT ![k].pc = "done"]
  /\ UNCHANGED <<row, pc, waited, overdue, telling, answer, signal, told, trust, lost>>

\* addApprovalTrust, once the resolution is published.
Grant(k) ==
  LET c == click[k].card IN
  /\ click[k].pc = "tell"
  /\ told' = [told EXCEPT ![c] = @ + 1]
  /\ trust' = IF click[k].time > trust THEN click[k].time ELSE trust
  /\ click' = [click EXCEPT ![k].pc = "done"]
  /\ UNCHANGED <<row, pc, waited, overdue, telling, answer, signal, lost>>

\* clearTaskApprovalTrust, when the task comes to an end.
ClearTrust ==
  /\ trust' = 0
  /\ UNCHANGED <<row, pc, waited, overdue, telling, answer, signal, click, told, lost>>

------------------------------------------------------------------------------
(* Time and crashes.                                                       *)

UpTo(n, max) == IF n < max THEN n + 1 ELSE max

Tick ==
  /\ row' = [c \in Calls |-> IF Pending(c)
                             THEN [row[c] EXCEPT !.age = UpTo(@, Window + 1)] ELSE row[c]]
  /\ waited' = [c \in Calls |-> IF pc[c] \in {"poll", "expire"}
                                THEN UpTo(waited[c], Window) ELSE waited[c]]
  /\ trust' = IF trust > 0 THEN trust - 1 ELSE 0
  /\ UNCHANGED <<pc, overdue, telling, answer, signal, click, told, lost>>

Tellers(c) == {x \in Calls : c \in telling[x]}
              \cup {k \in Clicks : click[k].pc = "tell" /\ click[k].card = c}

\* The rows survive, and stay pending until a call of the next process polls.
Crash ==
  /\ "crash" \in Faults
  /\ \E c \in Calls : pc[c] \notin {"idle", "done", "dead"}
  /\ pc' = [c \in Calls |-> IF pc[c] \in {"idle", "done"} THEN pc[c] ELSE "dead"]
  /\ lost' = lost \cup {c \in Calls : Tellers(c) # {}}
  /\ overdue' = [c \in Calls |-> {}]
  /\ telling' = [c \in Calls |-> {}]
  /\ click' = [k \in Clicks |-> IF click[k].pc = "tell"
                                THEN [click[k] EXCEPT !.pc = "done"] ELSE click[k]]
  /\ trust' = 0
  /\ UNCHANGED <<row, waited, answer, signal, told>>

------------------------------------------------------------------------------
Request(c) == LetThrough(c) \/ Ask(c)

Work(c) == \/ Wait(c) \/ Poll(c) \/ \E x \in Calls : Expire(c, x)
           \/ Settled(c) \/ Aborted(c) \/ TimedOut(c) \/ Sleep(c) \/ Publish(c)

User(k) == \/ \E t \in {0} \cup TrustTimes : Decide(k, "approved", t)
           \/ Decide(k, "rejected", 0)
           \/ Replay(k)

Next == \/ \E c \in Calls : Request(c) \/ Work(c) \/ Signal(c)
        \/ \E k \in Clicks : User(k) \/ Grant(k)
        \/ ClearTrust
        \/ Tick
        \/ Crash

Spec == Init /\ [][Next]_vars

\* The event loop runs what is due, and time passes.  The user need not click.
FairSpec == /\ Spec
            /\ \A c \in Calls : WF_vars(Work(c))
            /\ WF_vars(Tick)

------------------------------------------------------------------------------
(* Properties.                                                             *)

Question == INSTANCE Consent WITH decision <- [c \in Calls |-> row[c].state],
                                  trusted <- trust > 0

\* Web, chat, time limit, abort and the rounds of other calls meet on a row: it
\* is decided once, its call is answered with that decision, and trust comes
\* from an approval that landed.
KeepsConsent == Question!Spec

\* A resolution is published once: the console counts it against the request,
\* and would wait for ever, or count twice.
ToldOnce ==
  \A c \in Calls :
    /\ told[c] <= 1
    /\ row[c].state \in Resolved /\ told[c] = 0 => Tellers(c) # {} \/ c \in lost

\* Trust is the user's: what a time limit approved earns none.
TrustIsEarned ==
  trust > 0 => \E c \in Calls : row[c].state = "approved" /\ row[c].by = "user"

\* A call that waits is answered, also if nobody clicks, unless its process dies.
CallIsAnswered ==
  \A c \in Calls : pc[c] = "asked" ~> pc[c] \in {"done", "dead"}
=============================================================================
