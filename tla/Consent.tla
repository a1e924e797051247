------------------------------ MODULE Consent ------------------------------
(***************************************************************************)
(* What command-approval-service.ts promises to a tool call that must not  *)
(* run without leave: its question is put once, decided once, and the call *)
(* is answered with that decision.  A call whose user already trusts its   *)
(* kind is let through without a question.                                 *)
(***************************************************************************)
CONSTANT Calls

VARIABLES
  decision,  \* of each question: "none", "pending" or what it was decided to be
  answer,    \* what the call was told, or "none"
  trusted    \* the user trusts such calls

Decisions == {"approved", "rejected", "expired"}

Init == /\ decision = [c \in Calls |-> "none"]
        /\ answer = [c \in Calls |-> "none"]
        /\ trusted = FALSE

Ask(c) == /\ decision[c] = "none" /\ answer[c] = "none"
          /\ ~trusted
          /\ decision' = [decision EXCEPT ![c] = "pending"]
          /\ UNCHANGED <<answer, trusted>>

Decide(c) == /\ decision[c] = "pending"
             /\ \E d \in Decisions : decision' = [decision EXCEPT ![c] = d]
             /\ UNCHANGED trusted

\* The call may take the decision in the step that makes it.
Tell(c) == /\ answer[c] = "none"
           /\ \/ Decide(c)
              \/ decision[c] \in Decisions /\ UNCHANGED <<decision, trusted>>
           /\ answer' = [answer EXCEPT ![c] = decision'[c]]

LetThrough(c) == /\ decision[c] = "none" /\ answer[c] = "none"
                 /\ trusted
                 /\ answer' = [answer EXCEPT ![c] = "approved"]
                 /\ UNCHANGED <<decision, trusted>>

\* Only an approval earns trust.  It is lost with time, or with its task.
Trust == /\ \E c \in Calls : decision[c] = "approved"
         /\ trusted' = TRUE
         /\ UNCHANGED <<decision, answer>>

Distrust == /\ trusted' = FALSE
            /\ UNCHANGED <<decision, answer>>

Next == \/ \E c \in Calls : \/ Ask(c) \/ Tell(c) \/ LetThrough(c)
                            \/ Decide(c) /\ UNCHANGED answer
        \/ Trust \/ Distrust

Spec == Init /\ [][Next]_<<decision, answer, trusted>>
=============================================================================
