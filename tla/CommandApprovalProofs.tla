------------------------ MODULE CommandApprovalProofs ------------------------
(***************************************************************************)
(* What the approval of commands guarantees for every number of calls and  *)
(* of clicks, for every window and every time of trust, and whatever dies: *)
(* a resolution is published once (ToldOnce), trust is the user's          *)
(* (TrustIsEarned), and the whole protocol is an implementation of Consent *)
(* (KeepsConsent): a row is decided once, and its call gets that decision. *)
(***************************************************************************)
EXTENDS CommandApproval, TLAPS

CallTells(x, c) == c \in telling[x]
ClickTells(k, c) == click[k].pc = "tell" /\ click[k].card = c

\* One resolution, one teller.
TellerInv ==
  \A c \in Calls :
    /\ told[c] = 0 \/ told[c] = 1
    /\ told[c] = 1 => row[c].state \in Resolved
    /\ \A x \in Calls : CallTells(x, c) => row[c].state \in Resolved /\ told[c] = 0
    /\ \A k \in Clicks : ClickTells(k, c) => row[c].state \in Resolved /\ told[c] = 0
    /\ \A x \in Calls, y \in Calls : CallTells(x, c) /\ CallTells(y, c) => x = y
    /\ \A k \in Clicks, l \in Clicks : ClickTells(k, c) /\ ClickTells(l, c) => k = l
    /\ \A x \in Calls, k \in Clicks : ~(CallTells(x, c) /\ ClickTells(k, c))

\* The click that will grant trust has approved.
GrantIsEarned ==
  \A k \in Clicks :
    click[k].pc = "tell" /\ click[k].time > 0
    => row[click[k].card].state = "approved" /\ row[click[k].card].by = "user"

\* A call has no answer before it returns, and no row before it asks.
AnswerInv ==
  \A c \in Calls :
    /\ answer[c] # "none" => \/ pc[c] \in {"done", "dead"}
                             \/ pc[c] = "expire" /\ telling[c] # {}
    /\ pc[c] = "idle" => row[c].state = "none"

ApprovalInv == /\ TypeOK
               /\ TellerInv
               /\ ToldOnce
               /\ GrantIsEarned
               /\ TrustIsEarned
               /\ AnswerInv
------------------------------------------------------------------------------
Row == [state : {"none", "pending"} \cup Resolved,
        by : {"nobody", "user", "auto_timeout", "abort"}, age : 0 .. Window + 1]

LEMMA ResolveType ==
  ASSUME TypeOK, NEW c \in Calls, NEW s \in Resolved,
         NEW who \in {"user", "auto_timeout", "abort"}, Resolve(c, s, who)
  PROVE  /\ row' \in [Calls -> Row]
         /\ row'[c].state = s /\ row'[c].by = who
         /\ \A x \in Calls \ {c} : row'[x] = row[x]
  <1>1. [state |-> s, by |-> who, age |-> 0] \in Row
    BY ApprovalAssumption DEF Row
  <1> QED BY <1>1 DEF Resolve, TypeOK, Row

LEMMA TimeType ==
  ASSUME TypeOK, NEW k \in Clicks PROVE click[k].time \in Nat
  <1>1. click[k].time \in {0} \cup TrustTimes /\ TrustTimes \subseteq Nat
    BY ApprovalAssumption DEF TypeOK
  <1>2. CASE click[k].time = 0
    BY <1>2
  <1>3. CASE click[k].time \in TrustTimes
    BY <1>1, <1>3
  <1> QED BY <1>1, <1>2, <1>3

LEMMA ApprovalInit == Init => ApprovalInv
  <1> SUFFICES ASSUME Init PROVE ApprovalInv
    OBVIOUS
  <1>1. [state |-> "none", by |-> "nobody", age |-> 0] \in Row
    BY ApprovalAssumption DEF Row
  <1>2. TypeOK
    BY <1>1, ApprovalAssumption DEF Init, TypeOK, Row
  <1>3. \A c \in Calls : row[c].state = "none" /\ row[c].state \notin Resolved
    BY DEF Init, Resolved
  <1>4. \A k \in Clicks : click[k].pc = "idle"
    BY DEF Init
  <1>5. TellerInv
    <2>1. \A c \in Calls : told[c] = 0 /\ telling[c] = {}
      BY DEF Init
    <2>2. \A k \in Clicks, c \in Calls : ~ClickTells(k, c)
      BY <1>4 DEF ClickTells
    <2>3. \A x, c \in Calls : ~CallTells(x, c)
      BY <2>1 DEF CallTells
    <2>4. told = [c \in Calls |-> 0]
      BY DEF Init
    <2>5. ASSUME NEW c \in Calls PROVE told[c] # 1
      BY <2>4
    <2> QED BY <2>1, <2>2, <2>3, <2>5, Zenon DEF TellerInv
  <1>6. ToldOnce /\ GrantIsEarned /\ TrustIsEarned /\ AnswerInv
    BY <1>3, <1>4 DEF Init, ToldOnce, GrantIsEarned, TrustIsEarned, AnswerInv
  <1> QED BY <1>2, <1>5, <1>6 DEF ApprovalInv

LEMMA TypeStep == TypeOK /\ [Next]_vars => TypeOK'
  <1> SUFFICES ASSUME TypeOK, [Next]_vars PROVE TypeOK'
    OBVIOUS
  <1>1. ASSUME NEW c \in Calls, Request(c) PROVE TypeOK'
    <2>1. CASE LetThrough(c)
      BY <2>1 DEF LetThrough, Goto, Resolved, TypeOK
    <2>2. CASE Ask(c)
      <3>1. [row[c] EXCEPT !.state = "pending"] \in Row
        BY DEF TypeOK, Row
      <3>2. row' \in [Calls -> Row]
        BY <2>2, <3>1 DEF Ask, TypeOK, Row
      <3> QED BY <2>2, <3>2 DEF Ask, Goto, TypeOK, Row
    <2> QED BY <1>1, <2>1, <2>2 DEF Request
  <1>2. ASSUME NEW c \in Calls, Wait(c) \/ Poll(c) \/ Settled(c) \/ Sleep(c) \/ Signal(c)
        PROVE  TypeOK'
    <2>1. CASE Poll(c)
      <3>1. overdue' \in [Calls -> SUBSET Calls]
        BY <2>1 DEF Poll, TypeOK
      <3> QED BY <2>1, <3>1 DEF Poll, Goto, TypeOK
    <2>2. CASE Wait(c) \/ Settled(c) \/ Sleep(c)
      BY <2>2 DEF Wait, Settled, Sleep, Looks, Goto, TypeOK
    <2>3. CASE Signal(c)
      BY <2>3 DEF Signal, TypeOK
    <2> QED BY <1>2, <2>1, <2>2, <2>3
  <1>3. ASSUME NEW c \in Calls, NEW x \in Calls, Expire(c, x) PROVE TypeOK'
    <2>1. row' \in [Calls -> Row]
      <3>1. CASE Lands(x) /\ Resolve(x, "approved", "auto_timeout")
        BY <3>1, ResolveType DEF Resolved
      <3>2. CASE UNCHANGED row
        BY <3>2 DEF TypeOK, Row
      <3> QED BY <1>3, <3>1, <3>2 DEF Expire
    <2>2. overdue' \in [Calls -> SUBSET Calls]
      BY <1>3 DEF Expire, TypeOK
    <2>3. telling' \in [Calls -> SUBSET Calls]
      <3>1. telling' = telling \/ telling' = [telling EXCEPT ![c] = {x}]
        BY <1>3 DEF Expire
      <3>2. {x} \in SUBSET Calls
        OBVIOUS
      <3> QED BY <3>1, <3>2 DEF TypeOK
    <2> QED BY <1>3, <2>1, <2>2, <2>3 DEF Expire, TypeOK, Row
  <1>4. ASSUME NEW c \in Calls, Aborted(c) \/ TimedOut(c) PROVE TypeOK'
    <2>1. PICK s \in Resolved, who \in {"user", "auto_timeout", "abort"} : Close(c, s, who)
      BY <1>4 DEF Aborted, TimedOut, Resolved
    <2>2. row' \in [Calls -> Row]
      BY <2>1, ResolveType DEF Close
    <2> QED BY <2>1, <2>2 DEF Close, TypeOK, Row
  <1>5. ASSUME NEW c \in Calls, Publish(c) PROVE TypeOK'
    BY <1>5 DEF Publish, Goto, TypeOK
  <1>6. ASSUME NEW k \in Clicks, NEW s \in {"approved", "rejected"},
               NEW t \in {0} \cup TrustTimes, Decide(k, s, t)
        PROVE  TypeOK'
    <2>1. click[k].card \in Calls /\ s \in Resolved
      BY DEF TypeOK, Resolved
    <2>2. row' \in [Calls -> Row]
      BY <1>6, <2>1, ResolveType DEF Decide
    <2>3. click' \in [Clicks -> [pc : {"idle", "tell", "done"}, card : Calls,
                                 time : {0} \cup TrustTimes]]
      BY <1>6 DEF Decide, TypeOK
    <2> QED BY <1>6, <2>2, <2>3 DEF Decide, TypeOK, Row
  <1>7. ASSUME NEW k \in Clicks, Replay(k) PROVE TypeOK'
    BY <1>7 DEF Replay, TypeOK
  <1>8. ASSUME NEW k \in Clicks, Grant(k) PROVE TypeOK'
    <2>1. click[k].card \in Calls
      BY DEF TypeOK
    <2>2. click[k].time \in Nat
      BY TimeType
    <2>3. told' \in [Calls -> Nat]
      BY <1>8, <2>1 DEF Grant, TypeOK
    <2>4. click' \in [Clicks -> [pc : {"idle", "tell", "done"}, card : Calls,
                                 time : {0} \cup TrustTimes]]
      BY <1>8 DEF Grant, TypeOK
    <2>5. trust' \in Nat
      BY <1>8, <2>2 DEF Grant, TypeOK
    <2> QED BY <1>8, <2>3, <2>4, <2>5 DEF Grant, TypeOK
  <1>9. CASE ClearTrust \/ UNCHANGED vars
    BY <1>9 DEF ClearTrust, vars, TypeOK
  <1>10. CASE Tick
    <2>1. ASSUME NEW max \in Nat, NEW n \in 0 .. max PROVE UpTo(n, max) \in 0 .. max
      BY DEF UpTo
    <2>2. row' \in [Calls -> Row]
      <3>1. ASSUME NEW c \in Calls
            PROVE  [row[c] EXCEPT !.age = UpTo(@, Window + 1)] \in Row
        <4>1. row[c] \in Row /\ Window + 1 \in Nat
          BY ApprovalAssumption DEF TypeOK, Row
        <4>2. UpTo(row[c].age, Window + 1) \in 0 .. Window + 1
          BY <2>1, <4>1 DEF Row
        <4> QED BY <4>1, <4>2 DEF Row
      <3> QED BY <1>10, <3>1 DEF Tick, TypeOK, Row
    <2>3. waited' \in [Calls -> 0 .. Window]
      BY <1>10, <2>1, ApprovalAssumption DEF Tick, TypeOK
    <2>4. trust' \in Nat
      BY <1>10 DEF Tick, TypeOK
    <2> QED BY <1>10, <2>2, <2>3, <2>4 DEF Tick, TypeOK, Row
  <1>11. CASE Crash
    BY <1>11 DEF Crash, TypeOK
  <1> QED
    BY <1>1, <1>2, <1>3, <1>4, <1>5, <1>6, <1>7, <1>8, <1>9, <1>10, <1>11
       DEF Next, Request, Work, User
------------------------------------------------------------------------------
(* A resolution is published once.                                         *)

LEMMA TellersOf ==
  ASSUME NEW c \in Calls
  PROVE  Tellers(c) # {} <=> \/ \E x \in Calls : CallTells(x, c)
                             \/ \E k \in Clicks : ClickTells(k, c)
  BY DEF Tellers, CallTells, ClickTells

\* ToldOnce, without the set.
Told == \A c \in Calls :
          row[c].state \in Resolved /\ told[c] = 0 =>
            \/ \E x \in Calls : CallTells(x, c)
            \/ \E k \in Clicks : ClickTells(k, c)
            \/ c \in lost

LEMMA ToldIsToldOnce ==
  ASSUME TellerInv PROVE Told <=> ToldOnce
  <1>1. ASSUME NEW c \in Calls PROVE told[c] <= 1
    <2>1. told[c] = 0 \/ told[c] = 1
      BY Zenon DEF TellerInv
    <2> QED BY <2>1
  <1> QED BY <1>1, TellersOf, Zenon DEF Told, ToldOnce

\* Nobody starts or stops telling.
LEMMA TellersKept ==
  ASSUME TellerInv, Told, UNCHANGED <<telling, told, lost>>,
         \A c \in Calls : row'[c].state \in Resolved <=> row[c].state \in Resolved,
         \A k \in Clicks, c \in Calls : ClickTells(k, c)' <=> ClickTells(k, c)
  PROVE  TellerInv' /\ Told'
  <1>1. \A x \in Calls, c \in Calls : CallTells(x, c)' <=> CallTells(x, c)
    BY DEF CallTells
  <1>2. TellerInv'
    BY <1>1 DEF TellerInv
  <1>3. Told'
    BY <1>1 DEF Told
  <1> QED BY <1>2, <1>3

\* Whoever resolves a row tells of it.
LEMMA CallResolves ==
  ASSUME TypeOK, TellerInv, Told, NEW y \in Calls, NEW x \in Calls,
         Pending(x), telling[y] = {}, row'[x].state \in Resolved,
         \A c \in Calls \ {x} : row'[c] = row[c],
         telling' = [telling EXCEPT ![y] = {x}],
         UNCHANGED <<told, lost, click>>
  PROVE  TellerInv' /\ Told'
  <1>1. \A c \in Calls : CallTells(y, c)' <=> c = x
    BY DEF CallTells, TypeOK
  <1>2. \A z \in Calls \ {y}, c \in Calls : CallTells(z, c)' <=> CallTells(z, c)
    BY DEF CallTells, TypeOK
  <1>3. \A k \in Clicks, c \in Calls : ClickTells(k, c)' <=> ClickTells(k, c)
    BY DEF ClickTells
  <1>4. row[x].state \notin Resolved
    BY DEF Pending, Resolved
  <1>5. \A c \in Calls : ~CallTells(y, c)
    BY DEF CallTells
  <1>6. TellerInv'
    BY <1>1, <1>2, <1>3, <1>4, <1>5 DEF TellerInv
  <1>7. Told'
    BY <1>1, <1>2, <1>3, <1>5 DEF Told
  <1> QED BY <1>6, <1>7

LEMMA ClickResolves ==
  ASSUME TypeOK, TellerInv, Told, NEW k \in Clicks, NEW s \in {"approved", "rejected"},
         NEW t \in {0} \cup TrustTimes, Decide(k, s, t)
  PROVE  TellerInv' /\ Told'
  <1> DEFINE x == click[k].card
  <1>1. x \in Calls /\ s \in Resolved
    BY DEF TypeOK, Resolved
  <1>2. row'[x].state \in Resolved /\ \A c \in Calls \ {x} : row'[c] = row[c]
    BY <1>1, ResolveType DEF Decide
  <1>3. \A c \in Calls : ClickTells(k, c)' <=> c = x
    BY DEF Decide, ClickTells, TypeOK
  <1>4. \A l \in Clicks \ {k}, c \in Calls : ClickTells(l, c)' <=> ClickTells(l, c)
    BY DEF Decide, ClickTells, TypeOK
  <1>5. \A z \in Calls, c \in Calls : CallTells(z, c)' <=> CallTells(z, c)
    BY DEF Decide, CallTells
  <1>6. row[x].state \notin Resolved /\ UNCHANGED <<told, lost>>
    BY DEF Decide, Lands, Pending, Resolved
  <1>7. \A c \in Calls : ~ClickTells(k, c)
    BY DEF Decide, ClickTells
  <1> HIDE DEF x
  <1>8. TellerInv'
    BY <1>1, <1>2, <1>3, <1>4, <1>5, <1>6, <1>7 DEF TellerInv
  <1>9. Told'
    BY <1>1, <1>2, <1>3, <1>4, <1>5, <1>6, <1>7 DEF Told
  <1> QED BY <1>8, <1>9

LEMMA PublishTells ==
  ASSUME TypeOK, TellerInv, Told, NEW y \in Calls, Publish(y)
  PROVE  TellerInv' /\ Told'
  <1>1. \A c \in Calls : ~CallTells(y, c)'
    BY DEF Publish, CallTells, TypeOK
  <1>2. \A z \in Calls \ {y}, c \in Calls : CallTells(z, c)' <=> CallTells(z, c)
    BY DEF Publish, CallTells, TypeOK
  <1>3. \A k \in Clicks, c \in Calls : ClickTells(k, c)' <=> ClickTells(k, c)
    BY DEF Publish, ClickTells
  <1>4. UNCHANGED <<row, lost>>
    BY DEF Publish
  <1>5. \A c \in Calls : told'[c] = IF CallTells(y, c) THEN told[c] + 1 ELSE told[c]
    BY DEF Publish, CallTells
  <1>6. \A c \in Calls : /\ CallTells(y, c) => told[c] = 0 /\ told'[c] = 1
                         /\ ~CallTells(y, c) => told'[c] = told[c]
    <2> SUFFICES ASSUME NEW c \in Calls
                 PROVE  /\ CallTells(y, c) => told[c] = 0 /\ told'[c] = 1
                        /\ ~CallTells(y, c) => told'[c] = told[c]
      OBVIOUS
    <2>1. ASSUME CallTells(y, c) PROVE told[c] = 0 /\ told'[c] = 1
      <3>1. told[c] = 0
        BY <2>1, Zenon DEF TellerInv
      <3>2. told'[c] = told[c] + 1
        BY <1>5, <2>1, Zenon
      <3> QED BY <3>1, <3>2
    <2>2. ASSUME ~CallTells(y, c) PROVE told'[c] = told[c]
      BY <1>5, <2>2, Zenon
    <2> QED BY <2>1, <2>2
  <1>7. TellerInv'
    BY <1>1, <1>2, <1>3, <1>4, <1>6 DEF TellerInv
  <1>8. \A c \in Calls : told'[c] = 0 => ~CallTells(y, c) /\ told[c] = 0
    BY <1>6
  <1>9. Told'
    BY <1>2, <1>3, <1>4, <1>8, Zenon DEF Told
  <1> QED BY <1>7, <1>9

LEMMA GrantTells ==
  ASSUME TypeOK, TellerInv, Told, NEW k \in Clicks, Grant(k)
  PROVE  TellerInv' /\ Told'
  <1> DEFINE x == click[k].card
  <1>1. x \in Calls /\ ClickTells(k, x)
    BY DEF TypeOK, Grant, ClickTells
  <1>2. \A c \in Calls : ~ClickTells(k, c)' /\ (ClickTells(k, c) => c = x)
    BY DEF Grant, ClickTells, TypeOK
  <1>3. \A l \in Clicks \ {k}, c \in Calls : ClickTells(l, c)' <=> ClickTells(l, c)
    BY DEF Grant, ClickTells, TypeOK
  <1>4. \A z \in Calls, c \in Calls : CallTells(z, c)' <=> CallTells(z, c)
    BY DEF Grant, CallTells
  <1>5. UNCHANGED <<row, lost>>
    BY DEF Grant
  <1>6. /\ told[x] = 0 /\ told'[x] = 1
        /\ \A c \in Calls \ {x} : told'[c] = told[c]
    <2>1. told[x] = 0
      BY <1>1 DEF TellerInv
    <2> QED BY <1>1, <2>1 DEF Grant, TypeOK
  <1> HIDE DEF x
  <1>7. TellerInv'
    BY <1>1, <1>2, <1>3, <1>4, <1>5, <1>6 DEF TellerInv
  <1>8. \A c \in Calls : told'[c] = 0 => c # x /\ told[c] = 0
    BY <1>6
  <1>9. Told'
    BY <1>2, <1>3, <1>4, <1>5, <1>8, Zenon DEF Told
  <1> QED BY <1>7, <1>9

LEMMA CrashTells ==
  ASSUME TypeOK, TellerInv, Told, Crash
  PROVE  TellerInv' /\ Told'
  <1>1. \A x \in Calls, c \in Calls : ~CallTells(x, c)'
    BY DEF Crash, CallTells
  <1>2. \A k \in Clicks, c \in Calls : ~ClickTells(k, c)'
    BY DEF Crash, ClickTells, TypeOK
  <1>3. UNCHANGED <<row, told>>
    BY DEF Crash
  <1>4. lost' = lost \cup {c \in Calls : Tellers(c) # {}}
    BY DEF Crash
  <1>5. TellerInv'
    BY <1>1, <1>2, <1>3 DEF TellerInv
  <1>6. \A c \in Calls : c \in lost' <=> c \in lost \/ Tellers(c) # {}
    BY <1>4
  <1>7. Told'
    BY <1>3, <1>6, TellersOf, Zenon DEF Told
  <1> QED BY <1>5, <1>7

LEMMA TellerStep ==
  TypeOK /\ AnswerInv /\ TellerInv /\ Told /\ [Next]_vars => TellerInv' /\ Told'
  <1> SUFFICES ASSUME TypeOK, AnswerInv, TellerInv, Told, [Next]_vars
               PROVE  TellerInv' /\ Told'
    OBVIOUS
  <1>1. ASSUME NEW c \in Calls, Ask(c) PROVE TellerInv' /\ Told'
    <2>1. /\ row[c].state = "none" /\ row'[c].state = "pending"
          /\ \A x \in Calls \ {c} : row'[x] = row[x]
      BY <1>1 DEF Ask, AnswerInv, TypeOK
    <2>2. \A x \in Calls : row'[x].state \in Resolved <=> row[x].state \in Resolved
      BY <2>1 DEF Resolved
    <2> QED BY <1>1, <2>2, TellersKept DEF Ask, ClickTells
  <1>2. ASSUME NEW c \in Calls,
               LetThrough(c) \/ Wait(c) \/ Poll(c) \/ Settled(c) \/ Sleep(c) \/ Signal(c)
        PROVE  TellerInv' /\ Told'
    <2>1. UNCHANGED <<row, telling, told, lost, click>>
      BY <1>2 DEF LetThrough, Wait, Poll, Settled, Sleep, Signal
    <2> QED BY <2>1, TellersKept DEF ClickTells
  <1>3. ASSUME NEW c \in Calls, NEW x \in Calls, Expire(c, x) PROVE TellerInv' /\ Told'
    <2>1. CASE /\ Lands(x) /\ Resolve(x, "approved", "auto_timeout")
               /\ telling' = [telling EXCEPT ![c] = {x}]
      <3>1. row'[x].state \in Resolved /\ \A y \in Calls \ {x} : row'[y] = row[y]
        BY <2>1, ResolveType DEF Resolved
      <3>2. Pending(x) /\ telling[c] = {} /\ UNCHANGED <<told, lost, click>>
        BY <1>3, <2>1 DEF Expire, Lands
      <3> QED BY <2>1, <3>1, <3>2, CallResolves
    <2>2. CASE UNCHANGED <<row, telling>>
      BY <1>3, <2>2, TellersKept DEF Expire, ClickTells
    <2> QED BY <1>3, <2>1, <2>2 DEF Expire
  <1>4. ASSUME NEW c \in Calls, Aborted(c) \/ TimedOut(c) PROVE TellerInv' /\ Told'
    <2>1. PICK s \in Resolved, who \in {"user", "auto_timeout", "abort"} : Close(c, s, who)
      BY <1>4 DEF Aborted, TimedOut, Resolved
    <2>2. row'[c].state \in Resolved /\ \A y \in Calls \ {c} : row'[y] = row[y]
      BY <2>1, ResolveType DEF Close
    <2>3. /\ Pending(c) /\ telling[c] = {} /\ telling' = [telling EXCEPT ![c] = {c}]
          /\ UNCHANGED <<told, lost, click>>
      BY <2>1 DEF Close, Looks
    <2> QED BY <2>2, <2>3, CallResolves
  <1>5. ASSUME NEW c \in Calls, Publish(c) PROVE TellerInv' /\ Told'
    BY <1>5, PublishTells
  <1>6. ASSUME NEW k \in Clicks, User(k) PROVE TellerInv' /\ Told'
    <2>1. CASE Replay(k)
      <3>1. \A l \in Clicks, c \in Calls : ClickTells(l, c)' <=> ClickTells(l, c)
        BY <2>1 DEF Replay, ClickTells, TypeOK
      <3> QED BY <2>1, <3>1, TellersKept DEF Replay
    <2>2. CASE ~Replay(k)
      BY <1>6, <2>2, ClickResolves DEF User
    <2> QED BY <2>1, <2>2
  <1>7. ASSUME NEW k \in Clicks, Grant(k) PROVE TellerInv' /\ Told'
    BY <1>7, GrantTells
  <1>8. CASE Tick
    <2>1. \A c \in Calls : row'[c].state = row[c].state
      BY <1>8 DEF Tick, TypeOK
    <2> QED BY <1>8, <2>1, TellersKept DEF Tick, ClickTells
  <1>9. CASE ClearTrust \/ UNCHANGED vars
    <2>1. UNCHANGED <<row, telling, told, lost, click>>
      BY <1>9 DEF ClearTrust, vars
    <2> QED BY <2>1, TellersKept DEF ClickTells
  <1>10. CASE Crash
    BY <1>10, CrashTells
  <1> QED
    BY <1>1, <1>2, <1>3, <1>4, <1>5, <1>6, <1>7, <1>8, <1>9, <1>10
       DEF Next, Request, Work
------------------------------------------------------------------------------
(* A row is decided once.                                                  *)

Undisturbed(c) == row'[c].state = row[c].state /\ row'[c].by = row[c].by

\* All rows but one.
RestOf(c) == \A x \in Calls \ {c} : Undisturbed(x)

LEMMA RowsStep ==
  ASSUME TypeOK, AnswerInv, [Next]_vars
  PROVE  \A c \in Calls : row[c].state \in Resolved => Undisturbed(c)
  <1>1. ASSUME NEW c \in Calls, Ask(c)
        PROVE  \A x \in Calls : row[x].state \in Resolved => Undisturbed(x)
    <2>1. row[c].state = "none" /\ \A x \in Calls \ {c} : row'[x] = row[x]
      BY <1>1 DEF Ask, AnswerInv, TypeOK
    <2> QED BY <2>1 DEF Undisturbed, Resolved
  <1>2. ASSUME NEW c \in Calls, NEW s \in Resolved,
               NEW who \in {"user", "auto_timeout", "abort"}, Pending(c), Resolve(c, s, who)
        PROVE  \A x \in Calls : row[x].state \in Resolved => Undisturbed(x)
    <2>1. \A x \in Calls \ {c} : row'[x] = row[x]
      BY <1>2, ResolveType
    <2> QED BY <1>2, <2>1 DEF Undisturbed, Pending, Resolved
  <1>3. CASE Tick
    BY <1>3 DEF Tick, Pending, Undisturbed, Resolved, TypeOK
  <1>4. CASE UNCHANGED row
    BY <1>4 DEF Undisturbed
  <1>5. ASSUME NEW c \in Calls, NEW x \in Calls, Expire(c, x)
        PROVE  \A y \in Calls : row[y].state \in Resolved => Undisturbed(y)
    BY <1>2, <1>4, <1>5 DEF Expire, Lands, Resolved
  <1>6. ASSUME NEW c \in Calls, Aborted(c) \/ TimedOut(c)
        PROVE  \A y \in Calls : row[y].state \in Resolved => Undisturbed(y)
    BY <1>2, <1>6 DEF Aborted, TimedOut, Close, Resolved
  <1>7. ASSUME NEW k \in Clicks, User(k)
        PROVE  \A y \in Calls : row[y].state \in Resolved => Undisturbed(y)
    <2>1. click[k].card \in Calls
      BY DEF TypeOK
    <2>2. ASSUME NEW s \in {"approved", "rejected"}, NEW t \in {0} \cup TrustTimes,
                 Decide(k, s, t)
          PROVE  \A y \in Calls : row[y].state \in Resolved => Undisturbed(y)
      BY <1>2, <2>1, <2>2 DEF Decide, Lands, Resolved
    <2>3. CASE Replay(k)
      BY <1>4, <2>3 DEF Replay
    <2> QED BY <1>7, <2>2, <2>3 DEF User
  <1>8. ASSUME NEW c \in Calls,
               \/ LetThrough(c) \/ Wait(c) \/ Poll(c) \/ Settled(c) \/ Sleep(c)
               \/ Publish(c) \/ Signal(c)
        PROVE  UNCHANGED row
    BY <1>8 DEF LetThrough, Wait, Poll, Settled, Sleep, Publish, Signal
  <1>9. ASSUME (\E k \in Clicks : Grant(k)) \/ ClearTrust \/ Crash \/ UNCHANGED vars
        PROVE  UNCHANGED row
    BY <1>9 DEF Grant, ClearTrust, Crash, vars
  <1> QED
    BY <1>1, <1>3, <1>4, <1>5, <1>6, <1>7, <1>8, <1>9 DEF Next, Request, Work
------------------------------------------------------------------------------
(* Trust, and the answers of calls.                                        *)

LEMMA GrantStep ==
  ASSUME TypeOK, AnswerInv, GrantIsEarned, [Next]_vars
  PROVE  GrantIsEarned'
  <1> SUFFICES ASSUME NEW k \in Clicks, click'[k].pc = "tell", click'[k].time > 0
               PROVE  row'[click'[k].card].state = "approved"
                      /\ row'[click'[k].card].by = "user"
    BY DEF GrantIsEarned
  <1>1. CASE click'[k] = click[k]
    <2>1. /\ click[k].card \in Calls
          /\ row[click[k].card].state = "approved" /\ row[click[k].card].by = "user"
      BY <1>1 DEF GrantIsEarned, TypeOK
    <2> QED BY <1>1, <2>1, RowsStep DEF Undisturbed, Resolved
  <1>2. CASE click'[k] # click[k]
    <2>1. \/ \E l \in Clicks : User(l) \/ Grant(l)
          \/ Crash
      BY <1>2 DEF Next, Request, Work, LetThrough, Ask, Wait, Poll, Expire, Settled,
         Aborted, TimedOut, Close, Sleep, Publish, Signal, ClearTrust, Tick, vars
    <2>2. ~Crash /\ \A l \in Clicks : ~Replay(l) /\ ~Grant(l)
      BY <1>2 DEF Crash, Replay, Grant, TypeOK
    <2>3. PICK l \in Clicks, s \in {"approved", "rejected"}, t \in {0} \cup TrustTimes :
            Decide(l, s, t) /\ (s = "approved" \/ t = 0)
      BY <2>1, <2>2 DEF User
    <2>4. l = k /\ click'[k].time = t /\ click'[k].card = click[k].card
      BY <1>2, <2>3 DEF Decide, TypeOK
    <2>5. s = "approved" /\ click[k].card \in Calls /\ s \in Resolved
      BY <2>3, <2>4 DEF TypeOK, Resolved
    <2> QED BY <2>3, <2>4, <2>5, ResolveType DEF Decide
  <1> QED BY <1>1, <1>2

LEMMA TrustStep ==
  ASSUME TypeOK, AnswerInv, GrantIsEarned, TrustIsEarned, [Next]_vars
  PROVE  TrustIsEarned'
  <1> SUFFICES ASSUME trust' > 0
               PROVE  \E c \in Calls : row[c].state = "approved" /\ row[c].by = "user"
    BY RowsStep DEF TrustIsEarned, Undisturbed, Resolved
  <1>1. CASE trust > 0
    BY <1>1 DEF TrustIsEarned
  <1>2. CASE ~(trust > 0)
    <2>1. trust = 0 /\ trust' # trust
      BY <1>2 DEF TypeOK
    <2>2. PICK k \in Clicks : Grant(k)
      <3>1. ASSUME NEW c \in Calls, Request(c) \/ Work(c) \/ Signal(c) PROVE trust' = trust
        BY <3>1 DEF Request, LetThrough, Ask, Work, Wait, Poll, Expire, Settled, Aborted,
           TimedOut, Close, Sleep, Publish, Signal
      <3>2. ASSUME NEW k \in Clicks, User(k) PROVE trust' = trust
        BY <3>2 DEF User, Decide, Replay
      <3>3. ASSUME ClearTrust \/ Tick \/ Crash \/ UNCHANGED vars PROVE trust' = trust
        BY <2>1, <3>3 DEF ClearTrust, Tick, Crash, vars
      <3> QED BY <2>1, <3>1, <3>2, <3>3 DEF Next
    <2>3. click[k].pc = "tell" /\ click[k].time > 0 /\ click[k].card \in Calls
      BY <2>1, <2>2 DEF Grant, TypeOK
    <2> QED BY <2>3 DEF GrantIsEarned
  <1> QED BY <1>1, <1>2

LEMMA AnswerStep ==
  ASSUME TypeOK, AnswerInv, [Next]_vars
  PROVE  AnswerInv'
  <1>1. ASSUME NEW c \in Calls, Request(c) PROVE AnswerInv'
    BY <1>1 DEF Request, LetThrough, Ask, Goto, AnswerInv, TypeOK
  <1>2. ASSUME NEW c \in Calls, Wait(c) \/ Poll(c) \/ Settled(c) \/ Sleep(c) \/ Signal(c)
        PROVE  AnswerInv'
    BY <1>2 DEF Wait, Poll, Settled, Sleep, Signal, Looks, Goto, AnswerInv, TypeOK
  <1>3. ASSUME NEW c \in Calls, Publish(c) PROVE AnswerInv'
    BY <1>3 DEF Publish, Goto, AnswerInv, TypeOK
  <1>4. ASSUME NEW x \in Calls, NEW s \in Resolved,
               NEW who \in {"user", "auto_timeout", "abort"}, Pending(x), Resolve(x, s, who)
        PROVE  \A c \in Calls : pc[c] = "idle" => row'[c].state = "none"
    BY <1>4, ResolveType DEF AnswerInv, Pending
  <1>5. ASSUME NEW c \in Calls, NEW x \in Calls, Expire(c, x) PROVE AnswerInv'
    <2>1. \A y \in Calls : pc[y] = "idle" => row'[y].state = "none"
      BY <1>4, <1>5 DEF Expire, Lands, Resolved, AnswerInv
    <2>2. \A y \in Calls : y # c => telling'[y] = telling[y]
      BY <1>5 DEF Expire, TypeOK
    <2>3. answer[c] = "none" /\ UNCHANGED <<pc, answer>>
      BY <1>5 DEF Expire, AnswerInv
    <2> QED BY <2>1, <2>2, <2>3 DEF AnswerInv
  <1>6. ASSUME NEW c \in Calls, Aborted(c) \/ TimedOut(c) PROVE AnswerInv'
    <2>1. PICK s \in Resolved, who \in {"user", "auto_timeout", "abort"} : Close(c, s, who)
      BY <1>6 DEF Aborted, TimedOut, Resolved
    <2>2. \A y \in Calls : pc[y] = "idle" => row'[y].state = "none"
      BY <1>4, <2>1 DEF Close
    <2> QED BY <2>1, <2>2 DEF Close, Looks, AnswerInv, TypeOK
  <1>7. ASSUME NEW k \in Clicks, User(k) \/ Grant(k) PROVE AnswerInv'
    <2>1. UNCHANGED <<pc, telling, answer>>
      BY <1>7 DEF User, Decide, Replay, Grant
    <2>2. \A y \in Calls : pc[y] = "idle" => row'[y].state = "none"
      <3>1. click[k].card \in Calls /\ {"approved", "rejected"} \subseteq Resolved
        BY DEF TypeOK, Resolved
      <3>2. CASE Replay(k) \/ Grant(k)
        BY <3>2 DEF Replay, Grant, AnswerInv
      <3> QED BY <1>4, <1>7, <3>1, <3>2 DEF User, Decide, Lands
    <2> QED BY <2>1, <2>2 DEF AnswerInv
  <1>8. CASE ClearTrust \/ Tick \/ UNCHANGED vars
    <2>1. \A y \in Calls : row'[y].state = row[y].state
      BY <1>8 DEF ClearTrust, Tick, vars, TypeOK
    <2> QED BY <1>8, <2>1 DEF ClearTrust, Tick, vars, AnswerInv
  <1>9. CASE Crash
    BY <1>9 DEF Crash, AnswerInv, TypeOK
  <1> QED
    BY <1>1, <1>2, <1>3, <1>5, <1>6, <1>7, <1>8, <1>9 DEF Next, Work
------------------------------------------------------------------------------
(* The invariant, and what follows.                                        *)

LEMMA ApprovalStep == ApprovalInv /\ [Next]_vars => ApprovalInv'
  <1> SUFFICES ASSUME ApprovalInv, [Next]_vars PROVE ApprovalInv'
    OBVIOUS
  <1>1. TypeOK'
    BY TypeStep DEF ApprovalInv
  <1>2. TellerInv' /\ Told'
    BY TellerStep, ToldIsToldOnce DEF ApprovalInv
  <1>3. ToldOnce'
    <2>1. TellerInv' => (Told' <=> ToldOnce')
      BY ToldIsToldOnce, PTL
    <2> QED BY <1>2, <2>1
  <1>4. GrantIsEarned' /\ TrustIsEarned' /\ AnswerInv'
    BY GrantStep, TrustStep, AnswerStep DEF ApprovalInv
  <1> QED BY <1>1, <1>2, <1>3, <1>4 DEF ApprovalInv

LEMMA ApprovalInvHolds == Spec => []ApprovalInv
  BY ApprovalInit, ApprovalStep, PTL DEF Spec
------------------------------------------------------------------------------
(* CommandApproval implements Consent: a write that lands is a decision, a *)
(* call that settles is told, and what only publishes, waits or sleeps is  *)
(* a stutter.                                                              *)

consentVars == <<[c \in Calls |-> row[c].state], answer, trust > 0>>

LEMMA ConsentInit == Init => Question!Init
  BY DEF Init, Question!Init

\* A step that changes no row, no answer and no trust.
LEMMA ConsentStutter ==
  ASSUME \A c \in Calls : row'[c].state = row[c].state, UNCHANGED answer,
         (trust' > 0) <=> (trust > 0)
  PROVE  UNCHANGED consentVars
  BY DEF consentVars

\* A write that lands.
LEMMA ConsentDecide ==
  ASSUME TypeOK, NEW c \in Calls, NEW s \in Resolved,
         NEW who \in {"user", "auto_timeout", "abort"}, Pending(c), Resolve(c, s, who),
         UNCHANGED trust
  PROVE  Question!Decide(c) /\ row'[c].state = s
  <1>1. row'[c].state = s /\ \A x \in Calls \ {c} : row'[x] = row[x]
    BY ResolveType
  <1>2. [x \in Calls |-> row'[x].state] =
        [[x \in Calls |-> row[x].state] EXCEPT ![c] = s]
    BY <1>1
  <1> QED BY <1>1, <1>2 DEF Pending, Resolved, Question!Decide, Question!Decisions

LEMMA ConsentStep ==
  ASSUME ApprovalInv, [Next]_vars
  PROVE  [Question!Next]_consentVars
  <1> USE DEF ApprovalInv
  <1>1. ASSUME NEW c \in Calls, LetThrough(c) PROVE Question!LetThrough(c)
    BY <1>1 DEF LetThrough, AnswerInv, Question!LetThrough
  <1>2. ASSUME NEW c \in Calls, Ask(c) PROVE Question!Ask(c)
    <2>1. row[c].state = "none" /\ answer[c] = "none" /\ ~(trust > 0)
      BY <1>2 DEF Ask, AnswerInv
    <2>2. [x \in Calls |-> row'[x].state] =
          [[x \in Calls |-> row[x].state] EXCEPT ![c] = "pending"]
      BY <1>2 DEF Ask, TypeOK
    <2> QED BY <1>2, <2>1, <2>2 DEF Ask, Question!Ask
  <1>3. ASSUME NEW c \in Calls, Settled(c) PROVE Question!Tell(c)
    <2>1. answer[c] = "none" /\ UNCHANGED <<row, trust>>
      BY <1>3 DEF Settled, Looks, AnswerInv
    <2> QED BY <1>3, <2>1 DEF Settled, Resolved, Question!Tell, Question!Decisions
  <1>4. ASSUME NEW c \in Calls, Aborted(c) \/ TimedOut(c) PROVE Question!Tell(c)
    <2>1. PICK s \in Resolved, who \in {"user", "auto_timeout", "abort"} : Close(c, s, who)
      BY <1>4 DEF Aborted, TimedOut, Resolved
    <2>2. Question!Decide(c) /\ row'[c].state = s
      BY <2>1, ConsentDecide DEF Close
    <2>3. answer[c] = "none" /\ answer' = [answer EXCEPT ![c] = s]
      BY <2>1 DEF Close, Looks, AnswerInv
    <2> QED BY <2>2, <2>3 DEF Question!Tell
  <1>5. ASSUME NEW c \in Calls, NEW x \in Calls, Expire(c, x)
        PROVE  \/ Question!Decide(x) /\ UNCHANGED answer
               \/ UNCHANGED consentVars
    <2>1. UNCHANGED <<answer, trust>>
      BY <1>5 DEF Expire
    <2>2. CASE Lands(x) /\ Resolve(x, "approved", "auto_timeout")
      BY <2>1, <2>2, ConsentDecide DEF Lands, Resolved
    <2>3. CASE UNCHANGED row
      BY <2>1, <2>3, ConsentStutter
    <2> QED BY <1>5, <2>1, <2>2, <2>3 DEF Expire
  <1>6. ASSUME NEW k \in Clicks, User(k)
        PROVE  \/ \E c \in Calls : Question!Decide(c) /\ UNCHANGED answer
               \/ UNCHANGED consentVars
    <2>1. CASE Replay(k)
      BY <2>1, ConsentStutter DEF Replay
    <2>2. ASSUME NEW s \in {"approved", "rejected"}, NEW t \in {0} \cup TrustTimes,
                 Decide(k, s, t)
          PROVE  \E c \in Calls : Question!Decide(c) /\ UNCHANGED answer
      <3>1. PICK c \in Calls : c = click[k].card
        BY DEF TypeOK
      <3>2. Pending(c) /\ Resolve(c, s, "user") /\ UNCHANGED <<trust, answer>>
        BY <2>2, <3>1 DEF Decide, Lands, Pending, Resolve
      <3>3. Question!Decide(c)
        BY <3>2, ConsentDecide DEF Resolved
      <3> QED BY <3>2, <3>3
    <2>3. \/ Replay(k)
          \/ \E s \in {"approved", "rejected"}, t \in {0} \cup TrustTimes : Decide(k, s, t)
      BY <1>6 DEF User
    <2> QED BY <2>1, <2>2, <2>3
  <1>7. ASSUME NEW k \in Clicks, Grant(k)
        PROVE  Question!Trust \/ UNCHANGED consentVars
    <2>1. UNCHANGED <<row, answer>> /\ click[k].card \in Calls
      BY <1>7 DEF Grant, TypeOK
    <2>2. CASE click[k].time > trust
      <3>1. click[k].time > 0 /\ trust' > 0
        <4>1. trust' = click[k].time
          BY <1>7, <2>2 DEF Grant
        <4>2. trust \in Nat /\ click[k].time \in Nat
          BY TimeType DEF TypeOK
        <4> QED BY <2>2, <4>1, <4>2
      <3>2. row[click[k].card].state = "approved"
        BY <1>7, <3>1 DEF Grant, GrantIsEarned
      <3> QED BY <2>1, <3>1, <3>2 DEF Question!Trust
    <2>3. CASE ~(click[k].time > trust)
      BY <1>7, <2>1, <2>3, ConsentStutter DEF Grant
    <2> QED BY <2>2, <2>3
  <1>8. ASSUME ClearTrust \/ Tick \/ Crash PROVE Question!Distrust \/ UNCHANGED consentVars
    <2>1. \A c \in Calls : row'[c].state = row[c].state
      BY <1>8 DEF ClearTrust, Tick, Crash, TypeOK
    <2>2. UNCHANGED answer /\ trust' \in Nat
      BY <1>8 DEF ClearTrust, Tick, Crash, TypeOK
    <2>3. trust' > 0 => trust > 0
      BY <1>8, <2>2 DEF ClearTrust, Tick, Crash, TypeOK
    <2>4. CASE trust' > 0
      BY <2>1, <2>2, <2>3, <2>4, ConsentStutter
    <2>5. CASE ~(trust' > 0)
      BY <2>1, <2>2, <2>5 DEF Question!Distrust
    <2> QED BY <2>4, <2>5
  <1>9. ASSUME NEW c \in Calls,
               Wait(c) \/ Poll(c) \/ Sleep(c) \/ Publish(c) \/ Signal(c)
        PROVE  UNCHANGED consentVars
    <2>1. UNCHANGED <<row, answer, trust>>
      BY <1>9 DEF Wait, Poll, Sleep, Publish, Signal
    <2> QED BY <2>1, ConsentStutter
  <1>10. CASE UNCHANGED vars
    BY <1>10, ConsentStutter DEF vars
  <1> QED
    BY <1>1, <1>2, <1>3, <1>4, <1>5, <1>6, <1>7, <1>8, <1>9, <1>10
       DEF Next, Request, Work, Question!Next
------------------------------------------------------------------------------
\* The types of the model, for every number of calls and clicks and every
\* window.
THEOREM ApprovalTypeCorrect == Spec => []TypeOK
  BY ApprovalInvHolds, PTL DEF ApprovalInv

\* A resolution is published once, or was lost with its process, whoever
\* meets on the row.
THEOREM ToldOnceHolds == Spec => []ToldOnce
  BY ApprovalInvHolds, PTL DEF ApprovalInv

\* What a time limit approved never makes later calls pass unasked.
THEOREM TrustIsEarnedHolds == Spec => []TrustIsEarned
  BY ApprovalInvHolds, PTL DEF ApprovalInv

\* command-approval-service.ts implements Consent: a question is decided once
\* and its call gets that decision, whatever clicks, rounds, time limits,
\* aborts and crashes interleave.
THEOREM ConsentIsKept == Spec => KeepsConsent
  <1>1. ApprovalInv /\ [Next]_vars => [Question!Next]_consentVars
    BY ConsentStep
  <1> QED BY <1>1, ConsentInit, ApprovalInvHolds, PTL
          DEF Spec, KeepsConsent, Question!Spec, consentVars
=============================================================================
