---------------------------- MODULE ChannelInbound ----------------------------
(***************************************************************************)
(* How a chat message becomes a task exactly once although Feishu and      *)
(* Slack deliver it again and again: the dedupe keys of one conversation   *)
(* and the handlers of processChannelEvent that claim them                 *)
(* (services/process-channel-event-service.ts and                          *)
(* repositories/channel-inbound-event-dedupe-repository.ts).               *)
(*                                                                         *)
(* A platform may deliver an event any number of times, and one message    *)
(* under several event ids.  Every awaited call is a step, and the process *)
(* may die between any two.  The database does not fail, processTaskIntent *)
(* may.  Only message events are modelled, not clicks on cards; how a task *)
(* runs is the business of LeaderTask.                                     *)
(***************************************************************************)
EXTENDS Naturals, FiniteSets

CONSTANTS
  Handlers,         \* concurrent calls of processChannelEvent
  Messages,         \* messages of one conversation
  EventIds,         \* under which the platform delivers them
  MsgOf,            \* the message of an event
  OccurredAt,       \* a message's create_time, the same in all its events
  ProcessingLease,  \* DEFAULT_INBOUND_PROCESSING_LEASE_MS
  None              \* no event

ASSUME EventAssumption == /\ MsgOf \in [EventIds -> Messages]
                          /\ OccurredAt \in [Messages -> Nat \ {0}]
                          /\ ProcessingLease \in Nat \ {0}
                          /\ None \notin EventIds

VARIABLES
  key,        \* channel_inbound_event_keys
  last,       \* lastEventId and lastPlatformMessageId of the binding
  stage, ev,  \* where each handler stands, and the event it is for
  answered    \* history: messages whose task has run and been replied to

inboundVars == <<key, last, stage, ev, answered>>

------------------------------------------------------------------------------
\* buildInboundDedupeKeys.  Mutant: event ids alone.
EventKey(e) == {<<"event", e>>}
KeysOf(e) == {<<"event", e>>, <<"platform", MsgOf[e]>>}

Keys == ({"event"} \X EventIds) \cup ({"platform"} \X Messages)

Row == [status : {"none", "processing", "completed"}, lease : Nat]

AtWork == {"bind", "intake", "run", "complete", "release"}

InboundTypeOK == /\ key \in [Keys -> Row]
                 /\ last \in EventIds \cup {None}
                 /\ stage \in [Handlers -> {"idle"} \cup AtWork]
                 /\ ev \in [Handlers -> EventIds \cup {None}]
                 /\ \A h \in Handlers : stage[h] \in AtWork => ev[h] \in EventIds
                 /\ answered \subseteq Messages

InboundInit == /\ key = [k \in Keys |-> [status |-> "none", lease |-> 0]]
               /\ last = None
               /\ stage = [h \in Handlers |-> "idle"]
               /\ ev = [h \in Handlers |-> None]
               /\ answered = {}

Now(e) == OccurredAt[MsgOf[e]]

WriteKeys(K, status, lease) ==
  key' = [k \in Keys |-> IF k \in K THEN [status |-> status, lease |-> lease]
                                    ELSE key[k]]

\* The rows that WHERE status = 'processing' selects.
Processing(K) == {k \in K : key[k].status = "processing"}

------------------------------------------------------------------------------
\* A key that makes the delivery a duplicate: completed, or in flight.  "Now"
\* is the time of the message, not of the clock.
Duplicate(k, e) == \/ key[k].status = "completed"
                   \/ /\ key[k].status = "processing"
                      /\ key[k].lease > Now(e)

\* claimProcessingKeys: one transaction over all keys of the delivery.  A
\* duplicate is answered as ignored, and leaves no trace.
ClaimMessage(h) ==
  /\ stage[h] = "idle"
  /\ \E e \in EventIds :
       /\ \A k \in KeysOf(e) : ~Duplicate(k, e)
       /\ WriteKeys(KeysOf(e), "processing", Now(e) + ProcessingLease)
       /\ ev' = [ev EXCEPT ![h] = e]
  /\ stage' = [stage EXCEPT ![h] = "bind"]
  /\ UNCHANGED <<last, answered>>

\* resolveConversationBinding: the event or the message the binding saw last
\* is a duplicate; anything else becomes the last one.
Bind(h) ==
  /\ stage[h] = "bind"
  /\ \/ /\ last # None /\ (last = ev[h] \/ MsgOf[last] = MsgOf[ev[h]])
        /\ stage' = [stage EXCEPT ![h] = "complete"]
        /\ UNCHANGED last
     \/ /\ ~(last # None /\ (last = ev[h] \/ MsgOf[last] = MsgOf[ev[h]]))
        /\ last' = ev[h]
        /\ stage' = [stage EXCEPT ![h] = "intake"]
  /\ UNCHANGED <<key, ev, answered>>

\* A group message without a mention and a command are done; anything else
\* is given to processTaskIntent, which may throw.
Intake(h) ==
  /\ stage[h] = "intake"
  /\ stage' \in {[stage EXCEPT ![h] = l] : l \in {"run", "complete", "release"}}
  /\ UNCHANGED <<key, last, ev, answered>>

\* The leader has run and its answer is delivered, or one of them threw.
Run(h) ==
  /\ stage[h] = "run"
  /\ \/ /\ stage' = [stage EXCEPT ![h] = "complete"]
        /\ answered' = answered \cup {MsgOf[ev[h]]}
     \/ /\ stage' = [stage EXCEPT ![h] = "release"]
        /\ UNCHANGED answered
  /\ UNCHANGED <<key, last, ev>>

\* Mutant: the keys are not completed but given up.
CompleteReleasing(h) ==
  /\ stage[h] = "complete"
  /\ WriteKeys(Processing(KeysOf(ev[h])), "processing", Now(ev[h]) - 1)
  /\ stage' = [stage EXCEPT ![h] = "idle"]
  /\ UNCHANGED <<last, ev, answered>>

\* markProcessingKeysCompleted
Complete(h) ==
  /\ stage[h] = "complete"
  /\ WriteKeys(Processing(KeysOf(ev[h])), "completed", 0)
  /\ stage' = [stage EXCEPT ![h] = "idle"]
  /\ UNCHANGED <<last, ev, answered>>

\* releaseProcessingKeys: the lease is over, and the error goes on.
Release(h) ==
  /\ stage[h] = "release"
  /\ WriteKeys(Processing(KeysOf(ev[h])), "processing", Now(ev[h]) - 1)
  /\ stage' = [stage EXCEPT ![h] = "idle"]
  /\ UNCHANGED <<last, ev, answered>>

\* The process dies and is started again.
HandlersDie == /\ stage' = [h \in Handlers |-> "idle"]
               /\ UNCHANGED <<key, last, ev, answered>>

InboundNext == \/ \E h \in Handlers : \/ ClaimMessage(h) \/ Bind(h) \/ Intake(h)
                                      \/ Run(h) \/ Complete(h) \/ Release(h)
               \/ HandlersDie

InboundSpec == InboundInit /\ [][InboundNext]_inboundVars
------------------------------------------------------------------------------
\* A message is in the hands of one handler at a time, whatever event ids it
\* comes under, and nobody takes a key from a handler at work: completion
\* and release, which do not ask for an owner, only touch the caller's keys.
OneHandlerPerMessage ==
  \A h, g \in Handlers :
    /\ h # g
    /\ stage[h] \in AtWork
    /\ stage[g] \in AtWork
    => MsgOf[ev[h]] # MsgOf[ev[g]]

\* "The inbound dedupe table absorbs any redelivery that races a slow
\* handler" (slack-socket-gateway.ts:15-16): no message whose answer was
\* delivered is given to a leader again, also when the process died before
\* its keys were completed, or other messages came in between.
AnsweredOnce ==
  [][\A h \in Handlers :
       stage[h] = "intake" /\ stage'[h] = "run" => MsgOf[ev[h]] \notin answered]_inboundVars
==============================================================================
