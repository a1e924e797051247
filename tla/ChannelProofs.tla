---------------------------- MODULE ChannelProofs ----------------------------
(***************************************************************************)
(* What the two tables of the chat channels guarantee, for every number of *)
(* messages, of concurrent calls and of crashes, and for every lease.      *)
(*                                                                         *)
(* Inbound: one handler per message (OneHandlerPerMessage), and no second  *)
(* answer (AnsweredOnce).  Both rest on the fact that a claim is kept      *)
(* until its handler gives it up, even when the process dies.              *)
(*                                                                         *)
(* Outbound: a duplicate send takes a whole lease (OneSenderPerLease), and *)
(* whatever is sent, one outcome is recorded (RecordsAgree, FinalIsFinal). *)
(***************************************************************************)
EXTENDS ChannelInbound, ChannelOutbound, TLAPS

------------------------------------------------------------------------------
(* Inbound.                                                                *)

InFlight(k, e) == key[k].status = "processing" /\ key[k].lease > Now(e)

ClaimIsKept ==
  \A h \in Handlers : stage[h] \in AtWork =>
    \A k \in KeysOf(ev[h]) : InFlight(k, ev[h])

AnsweredStaysClosed ==
  \A e \in EventIds : MsgOf[e] \in answered =>
    Duplicate(<<"platform", MsgOf[e]>>, e)

AnsweredIsOver ==
  \A h \in Handlers :
    stage[h] \in AtWork \ {"complete"} => MsgOf[ev[h]] \notin answered

InboundInv == /\ InboundTypeOK
              /\ OneHandlerPerMessage
              /\ ClaimIsKept
              /\ AnsweredStaysClosed
              /\ AnsweredIsOver
------------------------------------------------------------------------------
\* The keys of a delivery are keys of the table, and its time is a number.
LEMMA KeysInTable ==
  ASSUME NEW e \in EventIds
  PROVE  /\ KeysOf(e) \subseteq Keys
         /\ MsgOf[e] \in Messages
         /\ Now(e) \in Nat
         /\ Now(e) - 1 \in Nat
         /\ Now(e) + ProcessingLease \in Nat
         /\ Now(e) + ProcessingLease > Now(e)
  BY EventAssumption DEF KeysOf, Keys, Now

\* Deliveries of different messages have no key in common.
LEMMA KeysApart ==
  ASSUME NEW d \in EventIds, NEW e \in EventIds, MsgOf[d] # MsgOf[e]
  PROVE  KeysOf(d) \cap KeysOf(e) = {}
  BY DEF KeysOf

\* What a write of a handler's keys does to the table.
LEMMA WriteEffect ==
  ASSUME key \in [Keys -> Row], NEW K \in SUBSET Keys,
         NEW s \in {"none", "processing", "completed"}, NEW l \in Nat,
         WriteKeys(K, s, l)
  PROVE  /\ key' \in [Keys -> Row]
         /\ \A k \in K : key'[k] = [status |-> s, lease |-> l]
         /\ \A k \in Keys \ K : key'[k] = key[k]
  BY DEF WriteKeys, Row

\* The types, step by step.
LEMMA InboundTypeInit == InboundInit => InboundTypeOK
  BY DEF InboundInit, InboundTypeOK, Row, AtWork

\* The types, step by step.
LEMMA InboundTypeStep == InboundTypeOK /\ [InboundNext]_inboundVars => InboundTypeOK'
  <1> SUFFICES ASSUME InboundTypeOK, [InboundNext]_inboundVars PROVE InboundTypeOK'
    OBVIOUS
  <1>1. ASSUME NEW h \in Handlers, ClaimMessage(h) PROVE InboundTypeOK'
    <2>1. PICK e \in EventIds : /\ WriteKeys(KeysOf(e), "processing", Now(e) + ProcessingLease)
                              /\ ev' = [ev EXCEPT ![h] = e]
      BY <1>1 DEF ClaimMessage
    <2>2. key' \in [Keys -> Row]
      BY <2>1, KeysInTable, WriteEffect DEF InboundTypeOK
    <2> QED BY <1>1, <2>1, <2>2 DEF ClaimMessage, InboundTypeOK, AtWork
  <1>2. ASSUME NEW h \in Handlers, Bind(h) PROVE InboundTypeOK'
    BY <1>2 DEF Bind, InboundTypeOK, AtWork
  <1>3. ASSUME NEW h \in Handlers, Intake(h) PROVE InboundTypeOK'
    BY <1>3 DEF Intake, InboundTypeOK, AtWork
  <1>4. ASSUME NEW h \in Handlers, Run(h) PROVE InboundTypeOK'
    <2>1. ev[h] \in EventIds
      BY <1>4 DEF Run, InboundTypeOK, AtWork
    <2>2. MsgOf[ev[h]] \in Messages
      BY <2>1, KeysInTable
    <2> QED BY <1>4, <2>2 DEF Run, InboundTypeOK, AtWork
  <1>5. ASSUME NEW h \in Handlers, Complete(h) \/ Release(h) PROVE InboundTypeOK'
    <2>1. ev[h] \in EventIds
      BY <1>5 DEF Complete, Release, InboundTypeOK, AtWork
    <2>2. Processing(KeysOf(ev[h])) \subseteq Keys /\ Now(ev[h]) - 1 \in Nat
      BY <2>1, KeysInTable DEF Processing
    <2>3. key' \in [Keys -> Row]
      BY <1>5, <2>2, WriteEffect DEF Complete, Release, InboundTypeOK
    <2> QED BY <1>5, <2>3 DEF Complete, Release, InboundTypeOK, AtWork
  <1>6. CASE HandlersDie
    BY <1>6 DEF HandlersDie, InboundTypeOK, AtWork
  <1>7. CASE UNCHANGED inboundVars
    BY <1>7 DEF inboundVars, InboundTypeOK
  <1> QED
    BY <1>1, <1>2, <1>3, <1>4, <1>5, <1>6, <1>7 DEF InboundNext
------------------------------------------------------------------------------
\* No claim, no handler, no answer.
LEMMA InboundInvInit == InboundInit => InboundInv
  BY InboundTypeInit DEF InboundInit, InboundInv, OneHandlerPerMessage, ClaimIsKept,
     AnsweredStaysClosed, AnsweredIsOver, AtWork

\* What in-flight keys mean for another delivery of the same message.
LEMMA InFlightBlocks ==
  ASSUME NEW d \in EventIds, NEW e \in EventIds, MsgOf[d] = MsgOf[e],
         \/ InFlight(<<"platform", MsgOf[d]>>, d)
         \/ Duplicate(<<"platform", MsgOf[d]>>, d)
  PROVE  Duplicate(<<"platform", MsgOf[e]>>, e)
  BY DEF InFlight, Duplicate, Now

\* The platform key is one of a delivery's keys.
LEMMA PlatformKey ==
  ASSUME NEW e \in EventIds PROVE <<"platform", MsgOf[e]>> \in KeysOf(e)
  BY DEF KeysOf

\* The parts of the invariant about handlers and keys survive when a handler
\* that is done writes some of its own keys.
LEMMA EndStep ==
  ASSUME InboundInv, NEW h \in Handlers, Complete(h) \/ Release(h)
  PROVE  InboundInv'
  <1>0. InboundTypeOK /\ InboundTypeOK'
    BY InboundTypeStep DEF InboundInv, InboundNext
  <1>1. /\ ev[h] \in EventIds
        /\ stage[h] \in AtWork
        /\ stage' = [stage EXCEPT ![h] = "idle"]
        /\ UNCHANGED <<ev, answered>>
    BY <1>0 DEF Complete, Release, InboundTypeOK, AtWork
  <1>2. \A k \in Keys \ KeysOf(ev[h]) : key'[k] = key[k]
    BY <1>0 DEF Complete, Release, WriteKeys, Processing
  <1>3. \A g \in Handlers : stage'[g] \in AtWork =>
          /\ g # h
          /\ stage'[g] = stage[g]
          /\ stage[g] \in AtWork
          /\ ev[g] \in EventIds
          /\ MsgOf[ev[g]] # MsgOf[ev[h]]
    BY <1>0, <1>1 DEF InboundInv, OneHandlerPerMessage, InboundTypeOK, AtWork
  <1>4. OneHandlerPerMessage'
    BY <1>1, <1>3 DEF InboundInv, OneHandlerPerMessage
  <1>5. ClaimIsKept'
    <2> SUFFICES ASSUME NEW g \in Handlers, stage'[g] \in AtWork,
                        NEW k \in KeysOf(ev[g])
                 PROVE  InFlight(k, ev[g])'
      BY <1>1 DEF ClaimIsKept
    <2>1. InFlight(k, ev[g])
      BY <1>3 DEF InboundInv, ClaimIsKept
    <2>2. key'[k] = key[k]
      BY <1>1, <1>2, <1>3, KeysApart, KeysInTable
    <2> QED BY <1>1, <2>1, <2>2 DEF InFlight, Now
  <1>6. AnsweredStaysClosed'
    <2> SUFFICES ASSUME NEW e \in EventIds, MsgOf[e] \in answered
                 PROVE  Duplicate(<<"platform", MsgOf[e]>>, e)'
      BY <1>1 DEF AnsweredStaysClosed
    <2>1. Duplicate(<<"platform", MsgOf[e]>>, e)
      BY DEF InboundInv, AnsweredStaysClosed
    <2>2. CASE MsgOf[e] # MsgOf[ev[h]]
      <3>1. key'[<<"platform", MsgOf[e]>>] = key[<<"platform", MsgOf[e]>>]
        BY <1>1, <1>2, <2>2, KeysApart, KeysInTable, PlatformKey
      <3> QED BY <2>1, <3>1 DEF Duplicate, Now
    <2>3. CASE MsgOf[e] = MsgOf[ev[h]]
      <3>1. Complete(h)
        BY <1>0, <1>1, <2>3 DEF InboundInv, AnsweredIsOver, Release, AtWork
      <3>2. /\ <<"platform", MsgOf[e]>> \in KeysOf(ev[h])
            /\ <<"platform", MsgOf[e]>> \in Keys
        BY <1>1, <2>3, PlatformKey, KeysInTable
      <3>3. InFlight(<<"platform", MsgOf[e]>>, ev[h])
        BY <1>1, <3>2 DEF InboundInv, ClaimIsKept
      <3>4. key'[<<"platform", MsgOf[e]>>].status = "completed"
        BY <1>0, <3>1, <3>2, <3>3 DEF Complete, WriteKeys, Processing, InFlight
      <3> QED BY <3>4 DEF Duplicate
    <2> QED BY <2>2, <2>3
  <1>7. AnsweredIsOver'
    BY <1>1, <1>3 DEF InboundInv, AnsweredIsOver
  <1> QED BY <1>0, <1>4, <1>5, <1>6, <1>7 DEF InboundInv

\* A claim succeeds only when nobody has the message and nobody answered it.
LEMMA ClaimMessageStep ==
  ASSUME InboundInv, NEW h \in Handlers, ClaimMessage(h) PROVE InboundInv'
  <1>0. InboundTypeOK /\ InboundTypeOK'
    BY InboundTypeStep DEF InboundInv, InboundNext
  <1>1. PICK e \in EventIds :
          /\ \A k \in KeysOf(e) : ~Duplicate(k, e)
          /\ WriteKeys(KeysOf(e), "processing", Now(e) + ProcessingLease)
          /\ ev' = [ev EXCEPT ![h] = e]
    BY DEF ClaimMessage
  <1>2. /\ stage' = [stage EXCEPT ![h] = "bind"]
        /\ UNCHANGED answered
        /\ stage'[h] = "bind"
        /\ ev'[h] = e
        /\ \A g \in Handlers \ {h} : stage'[g] = stage[g] /\ ev'[g] = ev[g]
    BY <1>0, <1>1 DEF ClaimMessage, InboundTypeOK
  <1>3. /\ \A k \in KeysOf(e) : key'[k].status = "processing"
                                /\ key'[k].lease = Now(e) + ProcessingLease
        /\ \A k \in Keys \ KeysOf(e) : key'[k] = key[k]
    <2>1. \A k \in KeysOf(e) :
            key'[k] = [status |-> "processing", lease |-> Now(e) + ProcessingLease]
      BY <1>1, KeysInTable DEF WriteKeys
    <2>2. \A k \in Keys \ KeysOf(e) : key'[k] = key[k]
      BY <1>1 DEF WriteKeys
    <2> QED BY <2>1, <2>2
  <1>4. ~Duplicate(<<"platform", MsgOf[e]>>, e)
    BY <1>1, PlatformKey
  <1>5. \A g \in Handlers \ {h} : stage[g] \in AtWork =>
          ev[g] \in EventIds /\ MsgOf[ev[g]] # MsgOf[e]
    <2> SUFFICES ASSUME NEW g \in Handlers \ {h}, stage[g] \in AtWork
                 PROVE  ev[g] \in EventIds /\ MsgOf[ev[g]] # MsgOf[e]
      OBVIOUS
    <2>1. ev[g] \in EventIds
      BY <1>0 DEF InboundTypeOK
    <2>2. InFlight(<<"platform", MsgOf[ev[g]]>>, ev[g])
      BY <2>1, PlatformKey DEF InboundInv, ClaimIsKept
    <2> QED BY <1>4, <2>1, <2>2, InFlightBlocks
  <1>6. \A d \in EventIds : MsgOf[d] \in answered => MsgOf[d] # MsgOf[e]
    BY <1>4, InFlightBlocks DEF InboundInv, AnsweredStaysClosed
  <1>7. OneHandlerPerMessage'
    BY <1>2, <1>5 DEF InboundInv, OneHandlerPerMessage
  <1>8. ClaimIsKept'
    <2> SUFFICES ASSUME NEW g \in Handlers, stage'[g] \in AtWork,
                        NEW k \in KeysOf(ev'[g])
                 PROVE  InFlight(k, ev[g])'
      BY DEF ClaimIsKept
    <2>1. CASE g = h
      BY <1>2, <1>3, <2>1, KeysInTable DEF InFlight, Now
    <2>2. CASE g # h
      <3>1. key'[k] = key[k]
        BY <1>2, <1>3, <1>5, <2>2, KeysApart, KeysInTable
      <3> QED BY <1>2, <2>2, <3>1 DEF InboundInv, ClaimIsKept, InFlight, Now
    <2> QED BY <2>1, <2>2
  <1>9. AnsweredStaysClosed'
    <2> SUFFICES ASSUME NEW d \in EventIds, MsgOf[d] \in answered
                 PROVE  Duplicate(<<"platform", MsgOf[d]>>, d)'
      BY <1>2 DEF AnsweredStaysClosed
    <2>1. key'[<<"platform", MsgOf[d]>>] = key[<<"platform", MsgOf[d]>>]
      BY <1>3, <1>6, KeysApart, KeysInTable, PlatformKey
    <2> QED BY <2>1 DEF InboundInv, AnsweredStaysClosed, Duplicate, Now
  <1>10. AnsweredIsOver'
    BY <1>2, <1>6 DEF InboundInv, AnsweredIsOver
  <1> QED BY <1>0, <1>7, <1>8, <1>9, <1>10 DEF InboundInv

\* A handler at work leaves the keys alone; a finished run answers a message
\* whose keys its handler still holds.
LEMMA HandlerStep ==
  ASSUME InboundInv, NEW h \in Handlers, Bind(h) \/ Intake(h) \/ Run(h)
  PROVE  InboundInv'
  <1>0. InboundTypeOK /\ InboundTypeOK'
    BY InboundTypeStep DEF InboundInv, InboundNext
  <1>1. /\ UNCHANGED <<key, ev>>
        /\ ev[h] \in EventIds
        /\ stage[h] \in AtWork \ {"complete"}
        /\ stage'[h] \in AtWork
        /\ \A g \in Handlers \ {h} : stage'[g] = stage[g]
    BY <1>0 DEF Bind, Intake, Run, InboundTypeOK, AtWork
  <1>2. \/ UNCHANGED answered
        \/ answered' = answered \cup {MsgOf[ev[h]]} /\ stage'[h] = "complete"
    BY <1>0 DEF Bind, Intake, Run, InboundTypeOK
  <1>3. OneHandlerPerMessage'
    BY <1>1 DEF InboundInv, OneHandlerPerMessage
  <1>4. ClaimIsKept'
    BY <1>1 DEF InboundInv, ClaimIsKept, InFlight, Now
  <1>5. AnsweredStaysClosed'
    <2> SUFFICES ASSUME NEW e \in EventIds, MsgOf[e] \in answered'
                 PROVE  Duplicate(<<"platform", MsgOf[e]>>, e)
      BY <1>1 DEF AnsweredStaysClosed, Duplicate, Now
    <2>1. CASE MsgOf[e] \in answered
      BY <2>1 DEF InboundInv, AnsweredStaysClosed
    <2>2. CASE MsgOf[e] = MsgOf[ev[h]]
      <3>1. InFlight(<<"platform", MsgOf[ev[h]]>>, ev[h])
        BY <1>1, PlatformKey DEF InboundInv, ClaimIsKept
      <3> QED BY <1>1, <2>2, <3>1, InFlightBlocks
    <2> QED BY <1>2, <2>1, <2>2
  <1>6. AnsweredIsOver'
    BY <1>1, <1>2 DEF InboundInv, AnsweredIsOver, OneHandlerPerMessage
  <1> QED BY <1>0, <1>3, <1>4, <1>5, <1>6 DEF InboundInv

\* Every step keeps the invariant; a crash only takes handlers away.
LEMMA InboundStep == InboundInv /\ [InboundNext]_inboundVars => InboundInv'
  <1> SUFFICES ASSUME InboundInv, [InboundNext]_inboundVars PROVE InboundInv'
    OBVIOUS
  <1>1. CASE HandlersDie
    <2>1. InboundTypeOK'
      BY InboundTypeStep DEF InboundInv
    <2> QED BY <1>1, <2>1 DEF HandlersDie, InboundInv, OneHandlerPerMessage,
              ClaimIsKept, AnsweredStaysClosed, AnsweredIsOver, Duplicate,
              Now, AtWork
  <1>2. CASE UNCHANGED inboundVars
    <2>1. InboundTypeOK'
      BY InboundTypeStep DEF InboundInv
    <2> QED BY <1>2, <2>1 DEF inboundVars, InboundInv, OneHandlerPerMessage,
              ClaimIsKept, InFlight, AnsweredStaysClosed, AnsweredIsOver,
              Duplicate, Now
  <1> QED BY <1>1, <1>2, ClaimMessageStep, HandlerStep, EndStep DEF InboundNext
------------------------------------------------------------------------------
\* The dedupe table's types, for every number of handlers and messages.
THEOREM InboundTypeCorrect == InboundSpec => []InboundTypeOK
  BY InboundTypeInit, InboundTypeStep, PTL DEF InboundSpec

\* One handler per message, for every number of handlers and event ids.
THEOREM OneHandlerPerMessageHolds == InboundSpec => []OneHandlerPerMessage
  <1>1. InboundInv => OneHandlerPerMessage
    BY DEF InboundInv
  <1> QED BY <1>1, InboundInvInit, InboundStep, PTL DEF InboundSpec

\* An answered message is never given to a leader again, however often it is
\* redelivered and whenever the process dies.
THEOREM AnsweredOnceHolds == InboundSpec => AnsweredOnce
  <1>1. InboundInv /\ [InboundNext]_inboundVars =>
          [\A h \in Handlers :
             stage[h] = "intake" /\ stage'[h] = "run" => MsgOf[ev[h]] \notin answered]_inboundVars
    BY DEF InboundInv, AnsweredIsOver, AtWork
  <1> QED BY <1>1, InboundInvInit, InboundStep, PTL DEF InboundSpec, AnsweredOnce
------------------------------------------------------------------------------
(* Outbound.                                                               *)

\* A sender still has its claim, or has lost it after the lease.
Holds(w) ==
  claim[on[w]] = [state |-> "claimed", token |-> {w}, at |-> since[w]]

HoldsOrLate ==
  \A w \in Workers : pc[w] \in Sending =>
    \/ Holds(w)
    \/ claim[on[w]].token # {w} /\ since[w] + Lease <= clock

SinceIsPast == \A w \in Workers : since[w] <= clock

TokenIsLive == \A e \in Events : claim[e].token # {} => claim[e].state = "claimed"

\* A call that is about to record is the only one, and the first.
RecorderIsAlone ==
  \A w \in Workers : pc[w] \in Recording =>
    /\ claim[on[w]].state = Outcome(w)
    /\ recorded[on[w]] = {}
    /\ \A v \in Workers : pc[v] \in Recording /\ on[v] = on[w] => v = w

OutboundInv == /\ TypeOK
               /\ HoldsOrLate
               /\ SinceIsPast
               /\ TokenIsLive
               /\ OneSenderPerLease
               /\ RecorderIsAlone
               /\ RecordsAgree
------------------------------------------------------------------------------
\* Writing one row of the claim table keeps its type.
LEMMA ClaimType ==
  ASSUME TypeOK, NEW e \in Events, NEW s \in {"claimed"} \cup Final,
         NEW T \in SUBSET Workers, NEW n \in Nat, WriteClaim(e, s, T, n)
  PROVE  /\ claim' \in [Events -> Claim]
         /\ claim'[e] = [state |-> s, token |-> T, at |-> n]
         /\ \A f \in Events \ {e} : claim'[f] = claim[f]
  <1>1. [state |-> s, token |-> T, at |-> n] \in Claim
    BY DEF Claim
  <1> QED BY <1>1 DEF WriteClaim, TypeOK

\* The initial state satisfies the invariant.
LEMMA OutboundInit == Init => OutboundInv
  <1> SUFFICES ASSUME Init PROVE OutboundInv
    OBVIOUS
  <1>1. NoClaim \in Claim
    BY DEF NoClaim, Claim
  <1>2. TypeOK
    BY <1>1 DEF Init, TypeOK, Sending, Recording
  <1> QED
    BY <1>2, OutboundAssumption
       DEF Init, OutboundInv, HoldsOrLate, SinceIsPast, TokenIsLive, NoClaim,
           OneSenderPerLease, RecorderIsAlone, RecordsAgree, Sending, Recording

\* Types are kept by every step.
LEMMA TypeStep == TypeOK /\ [Next]_vars => TypeOK'
  <1> SUFFICES ASSUME TypeOK, [Next]_vars PROVE TypeOK'
    OBVIOUS
  <1> USE DEF TypeOK, rowVars, callVars, hostVars, Sending, Recording, Goto
  <1>1. ASSUME NEW e \in Events, Queue(e) PROVE TypeOK'
    BY <1>1 DEF Queue
  <1>2. ASSUME NEW w \in Workers, List(w) PROVE TypeOK'
    BY <1>2 DEF List, Pending
  <1>3. ASSUME NEW w \in Workers, Acquire(w) PROVE TypeOK'
    <2>1. PICK e \in todo[w] : /\ WriteClaim(e, "claimed", {w}, clock)
                               /\ todo' = [todo EXCEPT ![w] = @ \ {e}]
                               /\ on' = [on EXCEPT ![w] = e]
      BY <1>3 DEF Acquire
    <2>2. e \in Events /\ e # 0
      BY <2>1, OutboundAssumption
    <2>3. claim' \in [Events -> Claim]
      BY <2>1, <2>2, ClaimType
    <2> QED BY <1>3, <2>1, <2>2, <2>3 DEF Acquire
  <1>4. ASSUME NEW w \in Workers, Skip(w) \/ Return(w) \/ Send(w) PROVE TypeOK'
    BY <1>4 DEF Skip, Return, Send
  <1>5. ASSUME NEW w \in Workers, Finalize(w) PROVE TypeOK'
    <2>1. on[w] \in Events /\ Outcome(w) \in Final
      BY <1>5 DEF Finalize, Outcome, Final
    <2>2. claim' \in [Events -> Claim]
      BY <1>5, <2>1, ClaimType DEF Finalize
    <2> QED BY <1>5, <2>1, <2>2 DEF Finalize
  <1>6. ASSUME NEW w \in Workers, Record(w) PROVE TypeOK'
    <2>1. <<w, Outcome(w)>> \in Workers \X Final
      BY DEF Outcome, Final
    <2> QED BY <1>6, <2>1 DEF Record
  <1>7. CASE Reap
    <2>1. [NoClaim EXCEPT !.state = "unclaimed"] \in Claim
      BY DEF NoClaim, Claim
    <2> QED BY <1>7, <2>1 DEF Reap
  <1>8. CASE Crash \/ Tick \/ UNCHANGED vars
    BY <1>8 DEF Crash, Tick, vars
  <1> QED
    BY <1>1, <1>2, <1>3, <1>4, <1>5, <1>6, <1>7, <1>8 DEF Next, Work
------------------------------------------------------------------------------
\* A claim for a new send: whoever sent the message before is late by now, and
\* nobody has recorded it.
LEMMA AcquireStep ==
  ASSUME OutboundInv, NEW w \in Workers, Acquire(w), TypeOK'
  PROVE  OutboundInv'
  <1>1. PICK e \in todo[w] : /\ Free(e)
                             /\ WriteClaim(e, "claimed", {w}, clock)
                             /\ on' = [on EXCEPT ![w] = e]
    BY DEF Acquire
  <1>2. /\ e \in Events
        /\ claim'[e] = [state |-> "claimed", token |-> {w}, at |-> clock]
        /\ \A f \in Events \ {e} : claim'[f] = claim[f]
    <2>1. TypeOK /\ e \in Events /\ clock \in Nat /\ {w} \in SUBSET Workers
      BY <1>1 DEF OutboundInv, TypeOK
    <2>2. WriteClaim(e, "claimed", {w}, clock)
      BY <1>1
    <2> QED BY <2>1, <2>2, ClaimType
  <1>3. /\ pc[w] = "next" /\ pc' = [pc EXCEPT ![w] = "send"]
        /\ since' = [since EXCEPT ![w] = clock]
        /\ UNCHANGED <<recorded, clock>>
    BY DEF Acquire, Goto, hostVars
  <1>4. \A v \in Workers \ {w} : /\ pc'[v] = pc[v] /\ on'[v] = on[v]
                                 /\ since'[v] = since[v]
    BY <1>1, <1>3 DEF OutboundInv, TypeOK
  <1>5. pc'[w] = "send" /\ on'[w] = e /\ since'[w] = clock
    BY <1>1, <1>2, <1>3 DEF OutboundInv, TypeOK
  <1>6. \A v \in Workers \ {w} : pc[v] \in Sending /\ on[v] = e
          => since[v] + Lease <= clock
    <2> SUFFICES ASSUME NEW v \in Workers \ {w}, pc[v] \in Sending, on[v] = e
                 PROVE  since[v] + Lease <= clock
      OBVIOUS
    <2>1. CASE Holds(v)
      <3>1. claim[e].state = "claimed" /\ claim[e].at = since[v]
        BY <2>1 DEF Holds
      <3> QED BY <1>1, <3>1 DEF Free
    <2>2. CASE ~Holds(v)
      BY <2>2 DEF OutboundInv, HoldsOrLate
    <2> QED BY <2>1, <2>2
  <1>7. recorded[e] = {} /\ \A v \in Workers : pc[v] \in Recording => on[v] # e
    BY <1>1, <1>2 DEF OutboundInv, RecordsAgree, RecorderIsAlone, Free, Final,
                      Outcome, TypeOK
  <1>8. \A v \in Workers : pc[v] \in Sending \cup Recording => on[v] \in Events
    BY DEF OutboundInv, TypeOK
  <1>9. HoldsOrLate'
    <2>1. Holds(w)'
      BY <1>2, <1>5 DEF Holds
    <2>2. ASSUME NEW v \in Workers \ {w}, pc[v] \in Sending
          PROVE  \/ Holds(v)'
                 \/ claim'[on'[v]].token # {v} /\ since'[v] + Lease <= clock'
      <3>1. CASE on[v] = e
        BY <1>2, <1>3, <1>4, <1>6, <2>2, <3>1
      <3>2. CASE on[v] # e
        BY <1>2, <1>3, <1>4, <1>8, <2>2, <3>2 DEF OutboundInv, HoldsOrLate, Holds
      <3> QED BY <3>1, <3>2
    <2> QED BY <1>4, <2>1, <2>2 DEF HoldsOrLate
  <1>10. SinceIsPast' /\ TokenIsLive'
    BY <1>2, <1>3, <1>4, <1>5 DEF OutboundInv, SinceIsPast, TokenIsLive, TypeOK
  <1>11. OneSenderPerLease'
    BY <1>4, <1>5, <1>6 DEF OutboundInv, OneSenderPerLease, TypeOK
  <1>12. RecorderIsAlone' /\ RecordsAgree'
    <2>1. pc'[w] \notin Recording
      BY <1>5 DEF Recording
    <2>2. \A v \in Workers : pc'[v] \in Recording =>
            /\ v # w /\ on'[v] = on[v] /\ on[v] # e /\ on[v] \in Events
            /\ pc[v] \in Recording
            /\ Outcome(v)' = Outcome(v)
      BY <1>4, <1>7, <1>8, <2>1 DEF Outcome
    <2>3. RecorderIsAlone'
      BY <1>2, <1>3, <2>2 DEF OutboundInv, RecorderIsAlone
    <2>4. RecordsAgree'
      BY <1>2, <1>3, <1>7 DEF OutboundInv, RecordsAgree
    <2> QED BY <2>3, <2>4
  <1> QED BY <1>9, <1>10, <1>11, <1>12 DEF OutboundInv
------------------------------------------------------------------------------
\* Finalizing by token: only the owner of a claim makes it final.
LEMMA FinalizeStep ==
  ASSUME OutboundInv, NEW w \in Workers, Finalize(w), TypeOK'
  PROVE  OutboundInv'
  <1> DEFINE e == on[w]
  <1>1. /\ e \in Events /\ pc[w] \in {"fin_delivered", "fin_failed"}
        /\ Outcome(w) \in Final /\ TypeOK
    BY DEF Finalize, OutboundInv, TypeOK, Outcome, Final
  <1>2. /\ UNCHANGED <<recorded, on, since, clock>>
        /\ \A v \in Workers \ {w} : /\ pc'[v] = pc[v]
                                    /\ Outcome(v)' = Outcome(v)
    BY <1>1 DEF Finalize, Goto, TypeOK, hostVars, Outcome
  <1>3. \A v \in Workers : pc[v] \in Sending \cup Recording => on[v] \in Events
    BY DEF OutboundInv, TypeOK
  <1>4. CASE claim[e].token # {w}
    <2>1. UNCHANGED claim /\ pc'[w] = "next"
      BY <1>1, <1>4 DEF Finalize, Goto, TypeOK
    <2>2. HoldsOrLate' /\ SinceIsPast' /\ TokenIsLive'
      BY <1>2, <2>1 DEF OutboundInv, HoldsOrLate, Holds, SinceIsPast, TokenIsLive,
                        Sending
    <2>3. OneSenderPerLease'
      BY <1>2, <2>1 DEF OutboundInv, OneSenderPerLease, Sending
    <2>4. RecorderIsAlone' /\ RecordsAgree'
      BY <1>2, <2>1 DEF OutboundInv, RecorderIsAlone, RecordsAgree, Recording
    <2> QED BY <2>2, <2>3, <2>4 DEF OutboundInv
  <1>5. CASE claim[e].token = {w}
    <2>1. /\ WriteClaim(e, Outcome(w), {}, 0)
          /\ pc' = [pc EXCEPT ![w] = IF Outcome(w) = "delivered"
                                       THEN "rec_delivered" ELSE "rec_failed"]
      BY <1>5 DEF Finalize, Goto
    <2>2. /\ claim'[e] = [state |-> Outcome(w), token |-> {}, at |-> 0]
          /\ \A f \in Events \ {e} : claim'[f] = claim[f]
      BY <1>1, <2>1, ClaimType
    <2>3. pc'[w] \in Recording /\ pc'[w] \notin Sending /\ Outcome(w)' = Outcome(w)
      BY <1>1, <2>1 DEF TypeOK, Recording, Sending, Outcome
    <2>4. claim[e].state = "claimed"
      BY <1>1, <1>5 DEF OutboundInv, TokenIsLive
    <2>5. /\ recorded[e] = {}
          /\ \A v \in Workers : pc[v] \in Recording => on[v] # e
      BY <1>1, <2>4 DEF OutboundInv, RecordsAgree, RecorderIsAlone, Outcome, TypeOK, Final
    <2>6. HoldsOrLate'
      <3>1. ASSUME NEW v \in Workers \ {w}, pc[v] \in Sending
            PROVE  \/ Holds(v)'
                   \/ claim'[on'[v]].token # {v} /\ since'[v] + Lease <= clock'
        <4>1. CASE on[v] = e
          \* the token is w's, so v is late already
          <5>1. ~Holds(v)
            BY <1>5, <4>1 DEF Holds
          <5> QED BY <1>2, <2>2, <3>1, <4>1, <5>1 DEF OutboundInv, HoldsOrLate
        <4>2. CASE on[v] # e
          BY <1>2, <1>3, <2>2, <3>1, <4>2 DEF OutboundInv, HoldsOrLate, Holds
        <4> QED BY <4>1, <4>2
      <3> QED BY <1>2, <2>3, <3>1 DEF HoldsOrLate
    <2>7. SinceIsPast' /\ TokenIsLive'
      BY <1>2, <2>2 DEF OutboundInv, SinceIsPast, TokenIsLive
    <2>8. OneSenderPerLease'
      BY <1>2, <2>3 DEF OutboundInv, OneSenderPerLease
    <2>9. RecorderIsAlone'
      BY <1>1, <1>2, <1>3, <2>2, <2>3, <2>5 DEF OutboundInv, RecorderIsAlone
    <2>10. RecordsAgree'
      BY <1>1, <1>2, <2>2, <2>5 DEF OutboundInv, RecordsAgree
    <2> QED BY <2>6, <2>7, <2>8, <2>9, <2>10 DEF OutboundInv
  <1> QED BY <1>4, <1>5

\* The outcome is recorded once, by the call that finalized the claim.
LEMMA RecordStep ==
  ASSUME OutboundInv, NEW w \in Workers, Record(w), TypeOK'
  PROVE  OutboundInv'
  <1>1. /\ TypeOK /\ on[w] \in Events /\ pc[w] \in Recording
        /\ claim[on[w]].state = Outcome(w)
        /\ recorded[on[w]] = {}
        /\ \A v \in Workers \ {w} : pc[v] \in Recording => on[v] # on[w]
    BY DEF Record, OutboundInv, TypeOK, RecorderIsAlone
  <1>2. /\ recorded'[on[w]] = {<<w, Outcome(w)>>}
        /\ \A f \in Events \ {on[w]} : recorded'[f] = recorded[f]
        /\ pc'[w] = "next"
        /\ UNCHANGED <<claim, on, since, clock>>
        /\ \A v \in Workers \ {w} : pc'[v] = pc[v] /\ Outcome(v)' = Outcome(v)
    BY <1>1 DEF Record, Goto, TypeOK, hostVars, Outcome
  <1>3. HoldsOrLate' /\ SinceIsPast' /\ TokenIsLive' /\ OneSenderPerLease'
    BY <1>2 DEF OutboundInv, HoldsOrLate, Holds, SinceIsPast, TokenIsLive,
                OneSenderPerLease, Sending
  <1>4. RecorderIsAlone'
    <2>1. ASSUME NEW v \in Workers, pc'[v] \in Recording
          PROVE  /\ v # w /\ pc[v] \in Recording /\ on[v] \in Events
                 /\ on[v] # on[w]
      BY <1>1, <1>2, <2>1 DEF Recording, TypeOK
    <2> QED BY <1>2, <2>1 DEF OutboundInv, RecorderIsAlone
  <1>5. RecordsAgree'
    <2>1. ASSUME NEW f \in Events, NEW r \in recorded'[f]
          PROVE  recorded'[f] = {r} /\ claim'[f].state = r[2]
      <3>1. CASE f = on[w]
        BY <1>1, <1>2, <2>1, <3>1
      <3>2. CASE f # on[w]
        BY <1>2, <2>1, <3>2 DEF OutboundInv, RecordsAgree
      <3> QED BY <3>1, <3>2
    <2> QED BY <2>1 DEF RecordsAgree
  <1> QED BY <1>3, <1>4, <1>5 DEF OutboundInv

\* The reaper takes expired claims only: their senders are late.
LEMMA ReapStep ==
  ASSUME OutboundInv, Reap, TypeOK'
  PROVE  OutboundInv'
  <1>1. /\ UNCHANGED <<recorded, pc, on, since, clock>>
        /\ \A e \in Events : Expired(e) =>
              /\ claim'[e].token = {} /\ claim'[e].state = "unclaimed"
        /\ \A e \in Events : ~Expired(e) => claim'[e] = claim[e]
        /\ \A e \in Events : Expired(e) =>
              claim[e].state = "claimed" /\ claim[e].at + Lease <= clock
    BY DEF Reap, NoClaim, callVars, hostVars, Expired
  <1>2. \A v \in Workers : pc[v] \in Sending \cup Recording => on[v] \in Events
    BY DEF OutboundInv, TypeOK
  <1>3. HoldsOrLate'
    <2>1. ASSUME NEW v \in Workers, pc[v] \in Sending
          PROVE  \/ Holds(v)'
                 \/ claim'[on[v]].token # {v} /\ since[v] + Lease <= clock
      <3>1. CASE Expired(on[v])
        BY <1>1, <1>2, <2>1, <3>1 DEF OutboundInv, HoldsOrLate, Holds
      <3>2. CASE ~Expired(on[v])
        <4>1. /\ claim'[on[v]] = claim[on[v]]
              /\ on'[v] = on[v] /\ since'[v] = since[v]
          BY <1>1, <1>2, <2>1, <3>2
        <4>2. Holds(v)' <=> Holds(v)
          BY <4>1 DEF Holds
        <4>3. \/ Holds(v)
              \/ claim[on[v]].token # {v} /\ since[v] + Lease <= clock
          BY <2>1 DEF OutboundInv, HoldsOrLate
        <4> QED BY <4>1, <4>2, <4>3
      <3> QED BY <3>1, <3>2
    <2> QED BY <1>1, <2>1 DEF HoldsOrLate
  <1>4. SinceIsPast' /\ TokenIsLive' /\ OneSenderPerLease'
    BY <1>1 DEF OutboundInv, SinceIsPast, TokenIsLive, OneSenderPerLease
  <1>5. RecorderIsAlone' /\ RecordsAgree'
    <2>1. \A e \in Events : claim[e].state \in Final => claim'[e] = claim[e]
      BY <1>1 DEF Final
    <2>2. \A e \in Events : recorded[e] # {} => claim[e].state \in Final
      BY DEF OutboundInv, RecordsAgree, TypeOK
    <2>3. RecorderIsAlone'
      BY <1>1, <1>2, <2>1 DEF OutboundInv, RecorderIsAlone, Outcome, Final
    <2>4. RecordsAgree'
      BY <1>1, <2>1, <2>2 DEF OutboundInv, RecordsAgree
    <2> QED BY <2>3, <2>4
  <1> QED BY <1>3, <1>4, <1>5 DEF OutboundInv

\* Every step keeps the invariant.
LEMMA OutboundStep == OutboundInv /\ [Next]_vars => OutboundInv'
  <1> SUFFICES ASSUME OutboundInv, [Next]_vars PROVE OutboundInv'
    OBVIOUS
  <1>1. TypeOK'
    BY TypeStep DEF OutboundInv
  <1>2. ASSUME NEW w \in Workers,
               Acquire(w) \/ Finalize(w) \/ Record(w)
        PROVE  OutboundInv'
    BY <1>1, <1>2, AcquireStep, FinalizeStep, RecordStep
  <1>3. CASE Reap
    BY <1>1, <1>3, ReapStep
  <1> USE <1>1 DEF OutboundInv, TypeOK, HoldsOrLate, Holds, SinceIsPast,
          TokenIsLive, OneSenderPerLease, RecorderIsAlone, RecordsAgree, Outcome,
          Sending, Recording, rowVars, callVars, hostVars, Goto
  <1>4. ASSUME NEW w \in Workers, List(w) \/ Skip(w) \/ Return(w)
        PROVE  OutboundInv'
    BY <1>4 DEF List, Skip, Return
  <1>5. ASSUME NEW w \in Workers, Send(w) PROVE OutboundInv'
    BY <1>5 DEF Send
  <1>6. ASSUME NEW e \in Events, Queue(e) PROVE OutboundInv'
    BY <1>6 DEF Queue
  <1>7. CASE Crash
    BY <1>7 DEF Crash
  <1>8. CASE Tick
    BY <1>8, OutboundAssumption DEF Tick
  <1>9. CASE UNCHANGED vars
    BY <1>9 DEF vars
  <1> QED
    BY <1>2, <1>3, <1>4, <1>5, <1>6, <1>7, <1>8, <1>9 DEF Next, Work

\* The invariant holds of the claim table.
LEMMA OutboundInvHolds == Spec => []OutboundInv
  BY OutboundInit, OutboundStep, PTL DEF Spec

\* The types of the outbound model hold for every number of calls.
THEOREM TypeCorrect == Spec => []TypeOK
  <1>1. OutboundInv => TypeOK
    BY DEF OutboundInv
  <1> QED BY <1>1, OutboundInvHolds, PTL

\* A message is sent by two calls only across an expired lease
\* (OneSenderPerLease), whatever reaper and restarts do.
THEOREM OneSenderPerLeaseHolds == Spec => []OneSenderPerLease
  <1>1. OutboundInv => OneSenderPerLease
    BY DEF OutboundInv
  <1> QED BY <1>1, OutboundInvHolds, PTL

\* One outcome per message is recorded, the one of the claim table
\* (RecordsAgree).
THEOREM RecordsAgreeHolds == Spec => []RecordsAgree
  <1>1. OutboundInv => RecordsAgree
    BY DEF OutboundInv
  <1> QED BY <1>1, OutboundInvHolds, PTL

\* A finalized delivery stays so (FinalIsFinal).
THEOREM FinalIsFinalHolds == Spec => FinalIsFinal
  <1>1. ASSUME OutboundInv, [Next]_vars, NEW e \in Events,
               claim[e].state \in Final
        PROVE  claim'[e] = claim[e]
    <2>1. ASSUME NEW w \in Workers, Acquire(w) PROVE claim'[e] = claim[e]
      BY <1>1, <2>1 DEF Acquire, Free, WriteClaim, OutboundInv, TypeOK
    <2>2. ASSUME NEW w \in Workers, Finalize(w) PROVE claim'[e] = claim[e]
      BY <1>1, <2>2 DEF Finalize, WriteClaim, OutboundInv, TypeOK, TokenIsLive, Final
    <2>3. CASE Reap
      BY <1>1, <2>3 DEF Reap, Expired, Final
    <2>4. CASE UNCHANGED claim
      BY <2>4
    <2> QED
      BY <1>1, <2>1, <2>2, <2>3, <2>4
         DEF Next, Work, Queue, List, Skip, Return, Send, Record, Crash, Tick,
             rowVars, vars
  <1>2. OutboundInv /\ [Next]_vars
          => [\A e \in Events : claim[e].state \in Final => claim'[e] = claim[e]]_vars
    BY <1>1
  <1> QED BY <1>2, OutboundInvHolds, PTL DEF Spec, FinalIsFinal
=============================================================================
