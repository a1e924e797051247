--------------------------- MODULE ChannelOutbound ---------------------------
(***************************************************************************)
(* How queued messages are delivered to a chat: concurrent calls of        *)
(* deliverQueuedFeishuOutboundEvents (one per message that is queued, and  *)
(* the /feishu/outbound/deliver route) share the claim table of            *)
(* repositories/channel-outbound-delivery-claim-repository.ts, whose       *)
(* leases run out by the clock and are collected by the reaper of          *)
(* server.ts.  A send has no time limit of its own.  Every awaited call is *)
(* a step, and the process may die between any two.  The database does not *)
(* fail, and every event has a payload and a binding (one without them is  *)
(* recorded as failed at once, whoever holds its claim).                   *)
(***************************************************************************)
EXTENDS Naturals

CONSTANTS
  Events,     \* outbound events, numbered in the order they are queued
  Workers,    \* concurrent calls of deliverQueuedFeishuOutboundEvents
  Lease,      \* DEFAULT_OUTBOUND_CLAIM_LEASE_MS
  MaxClock,   \* bound on the clock
  MaxCrashes  \* bound on process deaths

ASSUME OutboundAssumption == /\ Events \subseteq Nat \ {0}
                             /\ Lease \in Nat \ {0}
                             /\ MaxClock \in Nat
                             /\ MaxCrashes \in Nat

VARIABLES
  queued,    \* events with a channel.outbound.queued record
  recorded,  \* the channel.outbound.delivered and .failed records of an event
  claim,     \* channel_outbound_delivery_locks
  pc,        \* where each worker stands
  todo,      \* the events its call has yet to look at
  on,        \* the event it delivers, 0 for none
  since,     \* when it claimed that event
  clock, crashes

rowVars  == <<queued, recorded, claim>>
callVars == <<pc, todo, on, since>>
hostVars == <<clock, crashes>>
vars == <<rowVars, callVars, hostVars>>

------------------------------------------------------------------------------
Final == {"delivered", "failed"}

\* A claimToken is new with every claim; as a worker has one claim at a time,
\* its name stands for the token.
Claim == [state : {"none", "claimed", "unclaimed"} \cup Final,
          token : SUBSET Workers, at : Nat]

NoClaim == [state |-> "none", token |-> {}, at |-> 0]

\* At "fin_*" the send has an outcome, at "rec_*" the claim is finalized.
Sending  == {"send", "fin_delivered", "fin_failed"}
Recording == {"rec_delivered", "rec_failed"}

TypeOK == /\ queued \subseteq Events
          /\ recorded \in [Events -> SUBSET (Workers \X Final)]
          /\ claim \in [Events -> Claim]
          /\ pc \in [Workers -> {"idle", "next"} \cup Sending \cup Recording]
          /\ todo \in [Workers -> SUBSET Events]
          /\ on \in [Workers -> Events \cup {0}]
          /\ \A w \in Workers : pc[w] \in Sending \cup Recording => on[w] # 0
          /\ since \in [Workers -> Nat]
          /\ clock \in Nat
          /\ crashes \in Nat

Init == /\ queued = {}
        /\ recorded = [e \in Events |-> {}]
        /\ claim = [e \in Events |-> NoClaim]
        /\ pc = [w \in Workers |-> "idle"]
        /\ todo = [w \in Workers |-> {}]
        /\ on = [w \in Workers |-> 0]
        /\ since = [w \in Workers |-> 0]
        /\ clock = 0
        /\ crashes = 0

Goto(w, l) == pc' = [pc EXCEPT ![w] = l]

WriteClaim(e, state, token, at) ==
  claim' = [claim EXCEPT ![e] = [state |-> state, token |-> token, at |-> at]]

------------------------------------------------------------------------------
Queue(e) ==
  /\ e \notin queued
  /\ \A f \in Events \ queued : e <= f
  /\ queued' = queued \cup {e}
  /\ UNCHANGED <<recorded, claim, callVars, hostVars>>

Pending == {e \in queued : recorded[e] = {}}

\* The head of a call: it reads the events once, and takes those it was asked
\* for (eventIds, limit).
List(w) ==
  /\ pc[w] = "idle"
  /\ \E S \in SUBSET Pending : todo' = [todo EXCEPT ![w] = S]
  /\ Goto(w, "next")
  /\ UNCHANGED <<rowVars, on, since, hostVars>>

IsNext(w, e) == e \in todo[w] /\ \A f \in todo[w] : e <= f

\* Mutant: a live claim is taken over.
FreeAlways(e) == claim[e].state \notin Final
\* What acquireClaim does not refuse.
Free(e) == /\ claim[e].state \notin Final
           /\ claim[e].state = "claimed" => claim[e].at + Lease <= clock

\* The next event of the loop is claimed for a fresh token and sent ...
Acquire(w) ==
  /\ pc[w] = "next"
  /\ \E e \in todo[w] :
       /\ IsNext(w, e)
       /\ Free(e)
       /\ WriteClaim(e, "claimed", {w}, clock)
       /\ todo' = [todo EXCEPT ![w] = @ \ {e}]
       /\ on' = [on EXCEPT ![w] = e]
  /\ since' = [since EXCEPT ![w] = clock]
  /\ Goto(w, "send")
  /\ UNCHANGED <<queued, recorded, hostVars>>

\* ... or its claim is final or in flight, and it is left to others.
Skip(w) ==
  /\ pc[w] = "next"
  /\ \E e \in todo[w] : /\ IsNext(w, e)
                        /\ ~Free(e)
                        /\ todo' = [todo EXCEPT ![w] = @ \ {e}]
  /\ UNCHANGED <<rowVars, pc, on, since, hostVars>>

Return(w) ==
  /\ pc[w] = "next"
  /\ todo[w] = {}
  /\ Goto(w, "idle")
  /\ UNCHANGED <<rowVars, todo, on, since, hostVars>>

\* The transport answers or throws, however late.
Send(w) ==
  /\ pc[w] = "send"
  /\ \E l \in {"fin_delivered", "fin_failed"} : Goto(w, l)
  /\ UNCHANGED <<rowVars, todo, on, since, hostVars>>

Outcome(w) == IF pc[w] \in {"fin_delivered", "rec_delivered"} THEN "delivered"
                                                            ELSE "failed"

\* Mutant: the call goes on as if it had finalized the claim.
FinalizeAnyway(w) ==
  /\ pc[w] \in {"fin_delivered", "fin_failed"}
  /\ IF claim[on[w]].token = {w} THEN WriteClaim(on[w], Outcome(w), {}, 0)
                                 ELSE UNCHANGED claim
  /\ Goto(w, IF Outcome(w) = "delivered" THEN "rec_delivered" ELSE "rec_failed")
  /\ UNCHANGED <<queued, recorded, todo, on, since, hostVars>>

\* finalizeClaim, by token: a worker that lost its claim goes on without a
\* trace.
Finalize(w) ==
  /\ pc[w] \in {"fin_delivered", "fin_failed"}
  /\ \/ /\ claim[on[w]].token = {w}
        /\ WriteClaim(on[w], Outcome(w), {}, 0)
        /\ Goto(w, IF Outcome(w) = "delivered" THEN "rec_delivered"
                                               ELSE "rec_failed")
     \/ /\ claim[on[w]].token # {w}
        /\ Goto(w, "next")
        /\ UNCHANGED claim
  /\ UNCHANGED <<queued, recorded, todo, on, since, hostVars>>

\* recordDeliveredEvent, recordFailedDelivery
Record(w) ==
  /\ pc[w] \in Recording
  /\ recorded' = [recorded EXCEPT ![on[w]] = @ \cup {<<w, Outcome(w)>>}]
  /\ Goto(w, "next")
  /\ UNCHANGED <<queued, claim, todo, on, since, hostVars>>

Expired(e) == claim[e].state = "claimed" /\ claim[e].at + Lease <= clock

\* reapExpiredClaims, every two minutes.
Reap ==
  /\ \E e \in Events : Expired(e)
  /\ claim' = [e \in Events |->
                 IF Expired(e) THEN [NoClaim EXCEPT !.state = "unclaimed"]
                               ELSE claim[e]]
  /\ UNCHANGED <<queued, recorded, callVars, hostVars>>

Crash ==
  /\ crashes < MaxCrashes
  /\ crashes' = crashes + 1
  /\ pc' = [w \in Workers |-> "idle"]
  /\ todo' = [w \in Workers |-> {}]
  /\ on' = [w \in Workers |-> 0]
  /\ UNCHANGED <<rowVars, since, clock>>

Tick ==
  /\ clock < MaxClock
  /\ clock' = clock + 1
  /\ UNCHANGED <<rowVars, callVars, crashes>>

Work(w) == \/ List(w) \/ Acquire(w) \/ Skip(w) \/ Return(w)
           \/ Send(w) \/ Finalize(w) \/ Record(w)

Next == \/ \E e \in Events : Queue(e)
        \/ \E w \in Workers : Work(w)
        \/ Reap \/ Crash \/ Tick

Spec == Init /\ [][Next]_vars
------------------------------------------------------------------------------
\* Two calls send one message only when the later one claimed it a whole lease
\* after the earlier one: the claim table, the takeover of expired claims and
\* the reaper leave no other way to a duplicate.
OneSenderPerLease ==
  \A w, v \in Workers :
    /\ w # v
    /\ pc[w] \in Sending
    /\ pc[v] \in Sending
    /\ on[w] = on[v]
    => since[w] + Lease <= since[v] \/ since[v] + Lease <= since[w]

\* However many calls sent a message, at most one outcome of it is recorded,
\* and it is the one in the claim table: a call that lost its claim while it
\* was sending reports nothing.
RecordsAgree ==
  \A e \in Events : \A r \in recorded[e] :
    recorded[e] = {r} /\ claim[e].state = r[2]

\* A delivery that was finalized stays so: no takeover, reaper or late sender
\* opens it again, and nobody claims it for another send.
FinalIsFinal ==
  [][\A e \in Events : claim[e].state \in Final => claim'[e] = claim[e]]_vars

\* "It never races with a live in-flight delivery" (server.ts:272-274): the
\* reaper takes no claim from a call that is sending.
ReaperSparesSenders ==
  [][Reap => \A w \in Workers :
       pc[w] = "send" /\ claim[on[w]].token = {w}
       => claim'[on[w]] = claim[on[w]]]_vars
==============================================================================
