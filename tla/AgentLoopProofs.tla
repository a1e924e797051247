-------------------------- MODULE AgentLoopProofs --------------------------
(***************************************************************************)
(* What the leader's loop guarantees, for every limit on turns, runs,      *)
(* texts and calls, and for every kind of reply: that the provider accepts *)
(* every history it is sent, that what ran is told and carried over, and   *)
(* what plan mode promises.                                                *)
(*                                                                         *)
(* The functions on histories are recursive.  An induction is carried out  *)
(* on a set of numbers, by its least element; a recursion gives a function *)
(* of the places of the old history to those of the new one, or back, and  *)
(* the proofs about histories use that function only.                      *)
(***************************************************************************)
EXTENDS AgentLoop, FiniteSetTheorems, SequenceTheorems, WellFoundedInduction, TLAPS

-----------------------------------------------------------------------------
(* Induction and recursion over numbers.                                   *)

\* Every set of numbers has a least one.
LEMMA Least ==
  ASSUME NEW T \in SUBSET Nat, T # {}
  PROVE  \E x \in T : \A y \in T : x <= y
  <1> DEFINE R == OpToRel(<, Nat)
  <1>1. R = {ss \in Nat \X Nat : ss[1] < ss[2]}
    BY Zenon DEF OpToRel
  <1>2. IsWellFoundedOn(R, Nat)
    BY NatLessThanWellFounded
  <1> HIDE DEF R
  <1>3. PICK x \in T : \A y \in T : ~(<<y, x>> \in R)
    BY <1>2, WFMin, Zenon
  <1>4. \A a, b \in Nat : a < b => <<a, b>> \in R
    BY <1>1
  <1>5. ASSUME NEW y \in T PROVE x <= y
    <2>1. ~(y < x)
      BY <1>3, <1>4, Zenon
    <2> QED BY <2>1
  <1> QED BY <1>5

\* Induction up to n, for a set in the place of a predicate.
LEMMA UpTo ==
  ASSUME NEW n \in Nat, NEW T, 0 \in T,
         \A k \in 0 .. n : k < n /\ k \in T => k + 1 \in T
  PROVE  n \in T
  <1> SUFFICES ASSUME n \notin T PROVE FALSE
    OBVIOUS
  <1> DEFINE B == {k \in 0 .. n : k \notin T}
  <1>1. PICK x \in B : \A y \in B : x <= y
    <2>1. B \in SUBSET Nat /\ B # {}
      OBVIOUS
    <2> HIDE DEF B
    <2> QED BY <2>1, Least
  <1>2. x # 0 /\ x \in 0 .. n
    OBVIOUS
  <1>3. x - 1 \in 0 .. n /\ x - 1 \notin B
    BY <1>1, <1>2
  <1>4. x - 1 \in T
    BY <1>3
  <1> QED BY <1>2, <1>3, <1>4

\* The recursion that starts with base and goes on by G can be carried out to n.
Solvable(S, base, n, G) ==
  \E f \in [0 .. n -> S] :
    f[0] = base /\ \A k \in 1 .. n : f[k] = G[<<f[k - 1], k>>]

\* A recursion over 1 .. n has a solution.
LEMMA Recursion ==
  ASSUME NEW S, NEW base \in S, NEW n \in Nat, NEW G \in [S \X (1 .. n) -> S]
  PROVE  Solvable(S, base, n, G)
  <1> DEFINE Solves(f, m) ==
               f[0] = base /\ \A k \in 1 .. m : f[k] = G[<<f[k - 1], k>>]
             T == {m \in 0 .. n : \E f \in [0 .. m -> S] : Solves(f, m)}
  <1>1. 0 \in T
    <2> DEFINE g == [k \in 0 .. 0 |-> base]
    <2>1. g \in [0 .. 0 -> S] /\ Solves(g, 0)
      OBVIOUS
    <2> HIDE DEF g, Solves
    <2> QED BY <2>1
  <1>2. ASSUME NEW m \in 0 .. n, m < n, m \in T PROVE m + 1 \in T
    <2>1. PICK f \in [0 .. m -> S] : Solves(f, m)
      BY <1>2
    <2> DEFINE v == G[<<f[m], m + 1>>]
               g == [k \in 0 .. m + 1 |-> IF k = m + 1 THEN v ELSE f[k]]
    <2>2. v \in S
      BY <1>2
    <2>3. g \in [0 .. m + 1 -> S]
      <3> HIDE DEF v
      <3> QED BY <2>2
    <2>4. g[0] = base
      <3> HIDE DEF v
      <3> QED BY <2>1
    <2>5. ASSUME NEW k \in 1 .. m + 1 PROVE g[k] = G[<<g[k - 1], k>>]
      <3>1. g[k - 1] = f[k - 1]
        <4> HIDE DEF v
        <4> QED OBVIOUS
      <3>2. CASE k = m + 1
        <4>1. g[k] = v
          <5> HIDE DEF v
          <5> QED BY <3>2
        <4>2. f[k - 1] = f[m]
          BY <3>2
        <4> HIDE DEF g
        <4> QED BY <3>1, <3>2, <4>1, <4>2
      <3>3. CASE k # m + 1
        <4>1. g[k] = f[k]
          <5> HIDE DEF v
          <5> QED BY <3>3
        <4>2. k \in 1 .. m
          BY <3>3
        <4>3. f[k] = G[<<f[k - 1], k>>]
          BY <2>1, <4>2
        <4> QED BY <3>1, <4>1, <4>3
      <3> QED BY <3>2, <3>3
    <2>6. Solves(g, m + 1)
      <3> HIDE DEF g
      <3> QED BY <2>4, <2>5
    <2>7. m + 1 \in 0 .. n
      BY <1>2
    <2> HIDE DEF Solves, g
    <2> QED BY <2>3, <2>6, <2>7
  <1>3. n \in T
    <2> HIDE DEF T
    <2> QED BY <1>1, <1>2, UpTo
  <1> QED BY <1>3 DEF Solvable

\* f is what At computes after every element of s.
AtSteps(T, s, I, f) ==
  /\ f \in [0 .. Len(s) -> Seq(T)]
  /\ f[0] = <<>>
  /\ \A k \in 1 .. Len(s) :
       f[k] = IF k \in I THEN Append(f[k - 1], s[k]) ELSE f[k - 1]
  /\ At(s, I) = f[Len(s)]

\* At is the recursion it is written as.
LEMMA AtRecursion ==
  ASSUME NEW T, NEW s \in Seq(T), NEW I
  PROVE  \E f : AtSteps(T, s, I, f)
  <1> DEFINE n == Len(s)
             G == [p \in Seq(T) \X (1 .. n) |->
                     IF p[2] \in I THEN Append(p[1], s[p[2]]) ELSE p[1]]
             Rec(f) == [k \in 0 .. n |-> IF k = 0 THEN <<>>
                                         ELSE IF k \in I THEN Append(f[k - 1], s[k])
                                              ELSE f[k - 1]]
  <1>1. n \in Nat
    OBVIOUS
  <1>2. G \in [Seq(T) \X (1 .. n) -> Seq(T)]
    OBVIOUS
  <1>3. <<>> \in Seq(T)
    OBVIOUS
  <1>4. PICK f \in [0 .. n -> Seq(T)] :
          f[0] = <<>> /\ \A k \in 1 .. n : f[k] = G[<<f[k - 1], k>>]
    <2> HIDE DEF G, n
    <2>1. Solvable(Seq(T), <<>>, n, G)
      BY <1>1, <1>2, <1>3, Recursion
    <2> QED BY <2>1 DEF Solvable
  <1>5. ASSUME NEW k \in 1 .. n
        PROVE  f[k] = IF k \in I THEN Append(f[k - 1], s[k]) ELSE f[k - 1]
    <2>1. k - 1 \in 0 .. n /\ f[k - 1] \in Seq(T)
      BY <1>1
    <2>2. f[k] = G[<<f[k - 1], k>>]
      BY <1>4
    <2> QED BY <2>1, <2>2
  <1>6. f = Rec(f)
    <2>1. \A k \in 0 .. n : f[k] = Rec(f)[k]
      <3> TAKE k \in 0 .. n
      <3>1. CASE k = 0
        BY <1>4, <3>1
      <3>2. CASE k # 0
        <4>1. k \in 1 .. n
          BY <1>1, <3>2
        <4> QED BY <1>5, <3>2, <4>1
      <3> QED BY <3>1, <3>2
    <2>2. f = [k \in 0 .. n |-> f[k]]
      OBVIOUS
    <2> QED BY <2>1, <2>2
  <1> DEFINE g == CHOOSE h : h = Rec(h)
  <1>7. g = Rec(g)
    BY <1>6
  <1>8. At(s, I) = g[n]
    BY DEF At
  <1> HIDE DEF g
  <1>9. ASSUME NEW k \in 0 .. n
        PROVE  g[k] = IF k = 0 THEN <<>>
                      ELSE IF k \in I THEN Append(g[k - 1], s[k]) ELSE g[k - 1]
    BY <1>7
  <1>10. ASSUME NEW m \in 0 .. n PROVE g[m] = f[m]
    <2> DEFINE E == {k \in 0 .. n : g[k] = f[k]}
    <2>1. 0 \in E
      BY <1>1, <1>4, <1>9
    <2>2. ASSUME NEW k \in 0 .. m, k < m, k \in E PROVE k + 1 \in E
      <3>1. k + 1 \in 1 .. n /\ k + 1 \in 0 .. n /\ k + 1 # 0
        BY <1>1, <2>2
      <3>2. (k + 1) - 1 = k
        OBVIOUS
      <3> QED BY <1>5, <1>9, <2>2, <3>1, <3>2
    <2>3. m \in E
      <3> HIDE DEF E
      <3> QED BY <1>1, <2>1, <2>2, UpTo
    <2> QED BY <2>3
  <1>11. At(s, I) = f[n]
    BY <1>1, <1>8, <1>10
  <1> QED BY <1>4, <1>5, <1>11 DEF AtSteps

\* h tells where in s, up to m, the elements of r come from: from all the places
\* in I, and in their order.
Placed(r, s, I, m, h) ==
  /\ h \in [1 .. Len(r) -> 1 .. m]
  /\ \A k \in 1 .. Len(r) : h[k] \in I /\ r[k] = s[h[k]]
  /\ \A j, k \in 1 .. Len(r) : j < k => h[j] < h[k]
  /\ \A i \in 1 .. m : i \in I => \E k \in 1 .. Len(r) : h[k] = i

\* At returns the elements at the places it is given, and keeps their order.
LEMMA AtPlaces ==
  ASSUME NEW T, NEW s \in Seq(T), NEW I
  PROVE  /\ At(s, I) \in Seq(T)
         /\ \E h : Placed(At(s, I), s, I, Len(s), h)
  <1> DEFINE n == Len(s)
  <1>0. n \in Nat
    OBVIOUS
  <1>1. PICK f : AtSteps(T, s, I, f)
    BY AtRecursion
  <1> DEFINE E == {k \in 0 .. n : \E h : Placed(f[k], s, I, k, h)}
  <1>2. 0 \in E
    <2> DEFINE h == [k \in 1 .. 0 |-> 1]
    <2>1. Placed(f[0], s, I, 0, h)
      BY <1>1 DEF Placed, AtSteps
    <2> QED BY <1>0, <2>1
  <1>3. ASSUME NEW k \in 0 .. n, k < n, k \in E PROVE k + 1 \in E
    <2>1. PICK h : Placed(f[k], s, I, k, h)
      BY <1>3
    <2>2. k + 1 \in 1 .. n /\ (k + 1) - 1 = k /\ k + 1 \in 0 .. n
      BY <1>0, <1>3
    <2>3. f[k + 1] = IF k + 1 \in I THEN Append(f[k], s[k + 1]) ELSE f[k]
      BY <1>1, <2>2 DEF AtSteps
    <2>4. f[k] \in Seq(T) /\ Len(f[k]) \in Nat /\ s[k + 1] \in T
      BY <1>1, <2>2 DEF AtSteps
    <2> DEFINE r == f[k]
               q == f[k + 1]
    <2>5. CASE k + 1 \in I
      <3> DEFINE g == [j \in 1 .. Len(r) + 1 |-> IF j = Len(r) + 1 THEN k + 1 ELSE h[j]]
      <3>1. q = Append(r, s[k + 1]) /\ Len(q) = Len(r) + 1
        BY <2>3, <2>4, <2>5
      <3>2. \A j \in 1 .. Len(r) : q[j] = r[j] /\ g[j] = h[j]
        BY <2>4, <3>1
      <3>3. q[Len(r) + 1] = s[k + 1] /\ g[Len(r) + 1] = k + 1
        BY <2>4, <3>1
      <3>4. h \in [1 .. Len(r) -> 1 .. k]
        BY <2>1 DEF Placed
      <3>5. g \in [1 .. Len(q) -> 1 .. k + 1]
        BY <2>4, <3>1, <3>4
      <3> HIDE DEF g, q, r
      <3>6. ASSUME NEW j \in 1 .. Len(q) PROVE g[j] \in I /\ q[j] = s[g[j]]
        <4>1. j \in 1 .. Len(r) \/ j = Len(r) + 1
          BY <2>4, <3>1 DEF r
        <4> QED BY <2>1, <2>5, <3>2, <3>3, <4>1 DEF Placed, r
      <3>7. ASSUME NEW i \in 1 .. Len(q), NEW j \in 1 .. Len(q), i < j
            PROVE  g[i] < g[j]
        <4>1. i \in 1 .. Len(r) /\ (j \in 1 .. Len(r) \/ j = Len(r) + 1)
          BY <2>4, <3>1, <3>7 DEF r
        <4>2. h[i] \in 1 .. k
          BY <3>4, <4>1
        <4> QED BY <2>1, <3>2, <3>3, <3>7, <4>1, <4>2 DEF Placed, r
      <3>8. ASSUME NEW i \in 1 .. k + 1, i \in I
            PROVE  \E j \in 1 .. Len(q) : g[j] = i
        <4>1. CASE i = k + 1
          <5>1. Len(r) + 1 \in 1 .. Len(q)
            BY <2>4, <3>1 DEF r
          <5> QED BY <3>3, <4>1, <5>1
        <4>2. CASE i # k + 1
          <5>1. i \in 1 .. k
            BY <4>2
          <5>2. PICK j \in 1 .. Len(r) : h[j] = i
            BY <2>1, <3>8, <5>1 DEF Placed, r
          <5>3. j \in 1 .. Len(q)
            BY <2>4, <3>1 DEF r
          <5> QED BY <3>2, <5>2, <5>3
        <4> QED BY <4>1, <4>2
      <3>9. Placed(q, s, I, k + 1, g)
        BY <3>5, <3>6, <3>7, <3>8 DEF Placed
      <3> QED BY <2>2, <3>9 DEF q
    <2>6. CASE k + 1 \notin I
      <3>1. Placed(f[k], s, I, k + 1, h)
        <4>1. \A i \in 1 .. k + 1 : i \in I => i \in 1 .. k
          BY <2>6
        <4>2. h \in [1 .. Len(r) -> 1 .. k + 1]
          BY <2>1 DEF Placed
        <4> QED BY <2>1, <4>1, <4>2 DEF Placed
      <3> QED BY <2>2, <2>3, <2>6, <3>1
    <2> QED BY <2>5, <2>6
  <1>4. n \in E
    <2> HIDE DEF E
    <2> QED BY <1>0, <1>2, <1>3, UpTo
  <1> QED BY <1>0, <1>1, <1>4 DEF AtSteps

\* The last element stays the last, if its place is given.
LEMMA AtLast ==
  ASSUME NEW T, NEW s \in Seq(T), NEW I, s # <<>>, Len(s) \in I
  PROVE  At(s, I) # <<>> /\ At(s, I)[Len(At(s, I))] = s[Len(s)]
  <1> DEFINE r == At(s, I)
  <1>1. r \in Seq(T)
    BY AtPlaces
  <1>2. PICK h : Placed(r, s, I, Len(s), h)
    BY AtPlaces
  <1>3. Len(s) \in 1 .. Len(s)
    OBVIOUS
  <1>4. PICK k \in 1 .. Len(r) : h[k] = Len(s)
    BY <1>2, <1>3 DEF Placed
  <1>5. k = Len(r)
    <2>1. ASSUME k # Len(r) PROVE FALSE
      <3>1. k < Len(r) /\ Len(r) \in 1 .. Len(r)
        BY <1>1, <2>1
      <3>2. h[k] < h[Len(r)] /\ h[Len(r)] \in 1 .. Len(s)
        BY <1>2, <3>1 DEF Placed
      <3> QED BY <1>4, <3>2
    <2> QED BY <2>1
  <1> QED BY <1>1, <1>2, <1>4, <1>5 DEF Placed

-----------------------------------------------------------------------------
(* Messages.                                                               *)

\* The texts of a user, the program's own, and the messages: the three kinds of
\* message, a user's message as it was typed or after it was merged with results.
Typed     == {"say", "approve", "cancel", "revise"}
Noted     == {"empty", "recovery", "continue", "dropped", "summary", "progress"}
TextBlock == [kind : Typed \cup Outcomes \cup Noted \cup {"said", "thinking"}, n : Nat]
ToolCall  == [id : Nat, tool : {"enter", "exit", "work"}]

AssistantMessage ==
  [type : {"assistant"}, plain : {FALSE}, text : Seq(TextBlock),
   uses : Seq(ToolCall), results : {{}}]
PlainMessage ==
  [type : {"user"}, plain : {TRUE}, text : Seq(TextBlock),
   uses : {<<>>}, results : {{}}]
MixedMessage ==
  [type : {"user"}, plain : {FALSE}, text : Seq(TextBlock),
   uses : {<<>>}, results : SUBSET ToolCall]
UserMessage == PlainMessage \cup MixedMessage
ResultMessage ==
  [type : {"tool_result"}, plain : {FALSE}, text : {<<>>},
   uses : {<<>>}, results : {{c} : c \in ToolCall}]
Message == AssistantMessage \cup UserMessage \cup ResultMessage

\* What is common to the three kinds of message, and what tells them apart.
LEMMA MessageFields ==
  ASSUME NEW m \in Message
  PROVE  /\ m.type \in {"assistant", "user", "tool_result"} /\ m.plain \in BOOLEAN
         /\ m.text \in Seq(TextBlock) /\ m.uses \in Seq(ToolCall)
         /\ m.results \in SUBSET ToolCall
         /\ m.type = "assistant" <=> m \in AssistantMessage
         /\ m.type = "user" <=> m \in UserMessage
         /\ m.type = "tool_result" <=> m \in ResultMessage
         /\ m.plain => m.type = "user" /\ m.results = {}
         /\ m.type = "assistant" => m.results = {}
         /\ m.type # "assistant" => m.uses = <<>>
         /\ m.type = "tool_result" => \E c \in ToolCall : m.results = {c}
         /\ Role(m) \in {"assistant", "user"}
         /\ Role(m) = "assistant" <=> m.type = "assistant"
  <1> USE DEF Role, UserMessage, PlainMessage, MixedMessage
  <1>1. CASE m \in AssistantMessage
    <2>1. m \notin UserMessage /\ m \notin ResultMessage
      BY <1>1 DEF AssistantMessage, UserMessage, ResultMessage
    <2> QED BY <1>1, <2>1 DEF AssistantMessage
  <1>2. CASE m \in UserMessage
    <2>1. m \notin AssistantMessage /\ m \notin ResultMessage
      BY <1>2 DEF AssistantMessage, UserMessage, ResultMessage
    <2>2. <<>> \in Seq(ToolCall)
      OBVIOUS
    <2> QED BY <1>2, <2>1, <2>2 DEF UserMessage
  <1>3. CASE m \in ResultMessage
    <2>1. m \notin AssistantMessage /\ m \notin UserMessage
      BY <1>3 DEF AssistantMessage, UserMessage, ResultMessage
    <2>2. <<>> \in Seq(ToolCall) /\ <<>> \in Seq(TextBlock)
      OBVIOUS
    <2> QED BY <1>3, <2>1, <2>2 DEF ResultMessage
  <1> QED BY <1>1, <1>2, <1>3 DEF Message

\* What two messages of a role become: nothing is lost (the results neither).
LEMMA MergedMessage ==
  ASSUME NEW a \in Message, NEW b \in Message, Role(a) = Role(b)
  PROVE  /\ Merged(a, b) \in Message
         /\ Merged(a, b).type = Role(a)
         /\ Role(Merged(a, b)) = Role(a)
         /\ Merged(a, b).text = a.text \o b.text
         /\ Merged(a, b).uses = a.uses \o b.uses
         /\ Merged(a, b).results = a.results \cup b.results
         /\ Merged(a, b).plain = FALSE
  <1> DEFINE m == Merged(a, b)
  <1>1. m = [type |-> Role(a), plain |-> FALSE, text |-> a.text \o b.text,
             uses |-> a.uses \o b.uses, results |-> a.results \cup b.results]
    BY DEF Merged
  <1>2. /\ a.text \in Seq(TextBlock) /\ b.text \in Seq(TextBlock)
        /\ a.uses \in Seq(ToolCall) /\ b.uses \in Seq(ToolCall)
        /\ a.results \in SUBSET ToolCall /\ b.results \in SUBSET ToolCall
    BY MessageFields
  <1>3. a.text \o b.text \in Seq(TextBlock) /\ a.uses \o b.uses \in Seq(ToolCall)
    BY <1>2
  <1>4. m \in Message
    <2>1. CASE Role(a) = "assistant"
      <3>1. a.results \cup b.results = {}
        BY <2>1, MessageFields
      <3> QED BY <1>1, <1>3, <2>1, <3>1 DEF Message, AssistantMessage
    <2>2. CASE Role(a) # "assistant"
      <3>1. Role(a) = "user" /\ a.uses = <<>> /\ b.uses = <<>>
        BY <2>2, MessageFields
      <3>2. a.uses \o b.uses = <<>>
        BY <3>1
      <3> QED BY <1>1, <1>2, <1>3, <3>1, <3>2 DEF Message, UserMessage, MixedMessage
    <2> QED BY <2>1, <2>2
  <1> HIDE DEF m
  <1>5. /\ m.type = Role(a) /\ m.text = a.text \o b.text
        /\ m.uses = a.uses \o b.uses /\ m.results = a.results \cup b.results
        /\ m.plain = FALSE
    BY <1>1
  <1>6. Role(m) = Role(a)
    BY <1>5, MessageFields DEF Role
  <1> QED BY <1>4, <1>5, <1>6 DEF m

\* A message joins the last one of its role, or follows the last one.
LEMMA JoinedMessages ==
  ASSUME NEW out \in Seq(Message), NEW m \in Message
  PROVE  LET r == Joined(out, m) IN
         /\ r \in Seq(Message)
         /\ \/ /\ out # <<>> /\ Role(out[Len(out)]) = Role(m)
               /\ Len(r) = Len(out)
               /\ \A k \in 1 .. Len(out) - 1 : r[k] = out[k]
               /\ r[Len(out)] = Merged(out[Len(out)], m)
            \/ /\ out = <<>> \/ Role(out[Len(out)]) # Role(m)
               /\ Len(r) = Len(out) + 1
               /\ \A k \in 1 .. Len(out) : r[k] = out[k]
               /\ r[Len(out) + 1] = m
  <1>1. CASE out # <<>> /\ Role(out[Len(out)]) = Role(m)
    <2> DEFINE a == out[Len(out)]
    <2>1. a \in Message
      BY <1>1
    <2>2. Merged(a, m) \in Message
      BY <1>1, <2>1, MergedMessage
    <2>3. Joined(out, m) = Append(SubSeq(out, 1, Len(out) - 1), Merged(a, m))
      BY <1>1 DEF Joined, Last, Front
    <2>4. /\ SubSeq(out, 1, Len(out) - 1) \in Seq(Message)
          /\ Len(SubSeq(out, 1, Len(out) - 1)) = Len(out) - 1
          /\ \A k \in 1 .. Len(out) - 1 : SubSeq(out, 1, Len(out) - 1)[k] = out[k]
      <3>1. Len(out) - 1 \in Nat /\ \A i \in 1 .. Len(out) - 1 : out[i] \in Message
        BY <1>1
      <3> DEFINE n == Len(out) - 1
      <3>2. n \in Nat /\ \A i \in 1 .. n : out[i] \in Message
        BY <3>1
      <3> HIDE DEF n
      <3>3. (IF 1 <= n THEN n - 1 + 1 ELSE 0) = n /\ n - 1 + 1 = n
        BY <3>2
      <3>4. \A k \in 1 .. n : 1 + k - 1 = k
        BY <3>2
      <3>5. /\ SubSeq(out, 1, n) \in Seq(Message)
            /\ Len(SubSeq(out, 1, n)) = IF 1 <= n THEN n - 1 + 1 ELSE 0
            /\ \A i \in 1 .. n - 1 + 1 : SubSeq(out, 1, n)[i] = out[1 + i - 1]
        BY <3>2, SubSeqProperties
      <3>6. \A k \in 1 .. n : SubSeq(out, 1, n)[k] = out[k]
        BY <3>3, <3>4, <3>5
      <3> QED BY <3>3, <3>5, <3>6 DEF n
    <2> HIDE DEF a
    <2>5. Joined(out, m) \in Seq(Message) /\ Len(Joined(out, m)) = Len(out)
      BY <2>2, <2>3, <2>4
    <2>6. \A k \in 1 .. Len(out) - 1 : Joined(out, m)[k] = out[k]
      BY <2>2, <2>3, <2>4
    <2>7. Joined(out, m)[Len(out)] = Merged(a, m)
      BY <2>2, <2>3, <2>4
    <2> QED BY <1>1, <2>5, <2>6, <2>7 DEF a
  <1>2. CASE ~(out # <<>> /\ Role(out[Len(out)]) = Role(m))
    <2>1. Joined(out, m) = Append(out, m)
      BY <1>2 DEF Joined, Last
    <2> QED BY <1>2, <2>1
  <1> QED BY <1>1, <1>2

\* The same, without the cases.
LEMMA JoinedType ==
  ASSUME NEW out \in Seq(Message), NEW m \in Message
  PROVE  Joined(out, m) \in Seq(Message)
  BY JoinedMessages

\* f is the history after each message has joined it.
JoinSteps(ms, f) ==
  /\ f \in [0 .. Len(ms) -> Seq(Message)]
  /\ f[0] = <<>>
  /\ \A k \in 1 .. Len(ms) : f[k] = Joined(f[k - 1], ms[k])
  /\ enforceAlternatingTurns(ms) = f[Len(ms)]

\* enforceAlternatingTurns is the recursion it is written as.
LEMMA JoinRecursion ==
  ASSUME NEW ms \in Seq(Message)
  PROVE  \E f : JoinSteps(ms, f)
  <1> DEFINE n == Len(ms)
             G == [p \in Seq(Message) \X (1 .. n) |-> Joined(p[1], ms[p[2]])]
             Rec(f) == [k \in 0 .. n |-> IF k = 0 THEN <<>>
                                         ELSE Joined(f[k - 1], ms[k])]
  <1>1. n \in Nat
    OBVIOUS
  <1>2. G \in [Seq(Message) \X (1 .. n) -> Seq(Message)]
    <2>1. ASSUME NEW p \in Seq(Message) \X (1 .. n)
          PROVE  Joined(p[1], ms[p[2]]) \in Seq(Message)
      <3>1. p[1] \in Seq(Message) /\ ms[p[2]] \in Message
        OBVIOUS
      <3> QED BY <3>1, JoinedType
    <2> QED BY <2>1
  <1>3. <<>> \in Seq(Message)
    OBVIOUS
  <1>4. PICK f \in [0 .. n -> Seq(Message)] :
          f[0] = <<>> /\ \A k \in 1 .. n : f[k] = G[<<f[k - 1], k>>]
    <2> HIDE DEF G, n
    <2>1. Solvable(Seq(Message), <<>>, n, G)
      BY <1>1, <1>2, <1>3, Recursion
    <2> QED BY <2>1 DEF Solvable
  <1>5. ASSUME NEW k \in 1 .. n PROVE f[k] = Joined(f[k - 1], ms[k])
    <2>1. k - 1 \in 0 .. n /\ f[k - 1] \in Seq(Message)
      BY <1>1
    <2>2. f[k] = G[<<f[k - 1], k>>]
      BY <1>4
    <2> QED BY <2>1, <2>2
  <1>6. f = Rec(f)
    <2>1. \A k \in 0 .. n : f[k] = Rec(f)[k]
      <3> TAKE k \in 0 .. n
      <3>1. CASE k = 0
        BY <1>4, <3>1
      <3>2. CASE k # 0
        <4>1. k \in 1 .. n
          BY <1>1, <3>2
        <4> QED BY <1>5, <3>2, <4>1
      <3> QED BY <3>1, <3>2
    <2>2. f = [k \in 0 .. n |-> f[k]]
      OBVIOUS
    <2> QED BY <2>1, <2>2
  <1> DEFINE g == CHOOSE h : h = Rec(h)
  <1>7. g = Rec(g)
    BY <1>6
  <1>8. enforceAlternatingTurns(ms) = g[n]
    BY DEF enforceAlternatingTurns
  <1> HIDE DEF g
  <1>9. ASSUME NEW k \in 0 .. n
        PROVE  g[k] = IF k = 0 THEN <<>> ELSE Joined(g[k - 1], ms[k])
    BY <1>7
  <1>10. ASSUME NEW m \in 0 .. n PROVE g[m] = f[m]
    <2> DEFINE E == {k \in 0 .. n : g[k] = f[k]}
    <2>1. 0 \in E
      BY <1>1, <1>4, <1>9
    <2>2. ASSUME NEW k \in 0 .. m, k < m, k \in E PROVE k + 1 \in E
      <3>1. k + 1 \in 1 .. n /\ k + 1 \in 0 .. n /\ k + 1 # 0
        BY <1>1, <2>2
      <3>2. (k + 1) - 1 = k
        OBVIOUS
      <3> QED BY <1>5, <1>9, <2>2, <3>1, <3>2
    <2>3. m \in E
      <3> HIDE DEF E
      <3> QED BY <1>1, <2>1, <2>2, UpTo
    <2> QED BY <2>3
  <1>11. enforceAlternatingTurns(ms) = f[n]
    BY <1>1, <1>8, <1>10
  <1> QED BY <1>4, <1>5, <1>11 DEF JoinSteps

\* Two sequences have the elements of both.
LEMMA ToSetConcat ==
  ASSUME NEW T, NEW s \in Seq(T), NEW t \in Seq(T)
  PROVE  ToSet(s \o t) = ToSet(s) \cup ToSet(t)
  <1>1. \A x : x \in ToSet(s) <=> \E i \in 1 .. Len(s) : s[i] = x
    BY DEF ToSet
  <1>2. \A x : x \in ToSet(t) <=> \E i \in 1 .. Len(t) : t[i] = x
    BY DEF ToSet
  <1>3. /\ s \o t \in Seq(T) /\ Len(s \o t) = Len(s) + Len(t)
        /\ \A i \in 1 .. Len(s) + Len(t) :
             (s \o t)[i] = IF i <= Len(s) THEN s[i] ELSE t[i - Len(s)]
    BY ConcatProperties
  <1>4. \A x : x \in ToSet(s \o t) <=> \E i \in 1 .. Len(s) + Len(t) : (s \o t)[i] = x
    BY <1>3 DEF ToSet
  <1>5. Len(s) \in Nat /\ Len(t) \in Nat
    OBVIOUS
  <1> DEFINE u == s \o t
  <1> HIDE DEF u
  <1>6. ASSUME NEW x, x \in ToSet(u) PROVE x \in ToSet(s) \cup ToSet(t)
    <2>1. PICK i \in 1 .. Len(s) + Len(t) : u[i] = x
      BY <1>4, <1>6 DEF u
    <2>2. CASE i <= Len(s)
      BY <1>1, <1>3, <1>5, <2>1, <2>2 DEF u
    <2>3. CASE ~(i <= Len(s))
      <3>1. i - Len(s) \in 1 .. Len(t)
        BY <1>5, <2>3
      <3> QED BY <1>2, <1>3, <2>1, <2>3, <3>1 DEF u
    <2> QED BY <2>2, <2>3
  <1>7. ASSUME NEW x, x \in ToSet(s) PROVE x \in ToSet(u)
    <2>1. PICK i \in 1 .. Len(s) : s[i] = x
      BY <1>1, <1>7
    <2>2. i \in 1 .. Len(s) + Len(t) /\ i <= Len(s)
      BY <1>5
    <2> QED BY <1>3, <1>4, <2>1, <2>2 DEF u
  <1>8. ASSUME NEW x, x \in ToSet(t) PROVE x \in ToSet(u)
    <2>1. PICK i \in 1 .. Len(t) : t[i] = x
      BY <1>2, <1>8
    <2>2. /\ i + Len(s) \in 1 .. Len(s) + Len(t) /\ ~(i + Len(s) <= Len(s))
          /\ (i + Len(s)) - Len(s) = i
      BY <1>5
    <2> QED BY <1>3, <1>4, <2>1, <2>2 DEF u
  <1> QED BY <1>6, <1>7, <1>8 DEF u

\* g tells which message of out the first n messages of ms became part of.
Grouped(ms, n, out, g) ==
  /\ g \in [1 .. n -> 1 .. Len(out)]
  /\ \A i \in 1 .. n : Role(ms[i]) = Role(out[g[i]])
  /\ \A i, j \in 1 .. n : i < j => g[i] <= g[j]
  /\ \A k \in 1 .. Len(out) : \E i \in 1 .. n : g[i] = k
  /\ \A k \in 1 .. Len(out) - 1 : Role(out[k]) # Role(out[k + 1])
  /\ \A k \in 1 .. Len(out) : \A c :
       c \in ToSet(out[k].uses) <=> \E i \in 1 .. n : g[i] = k /\ c \in ToSet(ms[i].uses)
  /\ \A k \in 1 .. Len(out) : \A c :
       c \in out[k].results <=> \E i \in 1 .. n : g[i] = k /\ c \in ms[i].results
  /\ \A i \in 1 .. n : ms[i].text # <<>> => out[g[i]].text # <<>>

\* One more message is put with the others.
LEMMA GroupOneMore ==
  ASSUME NEW ms \in Seq(Message), NEW n \in Nat, n < Len(ms),
         NEW out \in Seq(Message), NEW g, Grouped(ms, n, out, g)
  PROVE  \E h : Grouped(ms, n + 1, Joined(out, ms[n + 1]), h)
  <1> DEFINE m == ms[n + 1]
             r == Joined(out, m)
             L == Len(out)
             h == [i \in 1 .. n + 1 |-> IF i = n + 1 THEN Len(r) ELSE g[i]]
  <1>0. m \in Message /\ L \in Nat /\ g \in [1 .. n -> 1 .. L]
    BY DEF Grouped
  <1>1. r \in Seq(Message) /\ Len(r) \in Nat
    <2>1. r \in Seq(Message)
      BY <1>0, JoinedType
    <2> QED BY <2>1
  <1>2. h[n + 1] = Len(r) /\ \A i \in 1 .. n : h[i] = g[i] /\ i \in 1 .. n + 1
    OBVIOUS
  <1>3. \A i \in 1 .. n + 1 : i \in 1 .. n \/ i = n + 1
    OBVIOUS
  <1>4. n + 1 \in 1 .. n + 1
    OBVIOUS
  <1> HIDE DEF m, h
  <1>5. CASE /\ out # <<>> /\ Role(out[L]) = Role(m)
             /\ Len(r) = L
             /\ \A k \in 1 .. L - 1 : r[k] = out[k]
             /\ r[L] = Merged(out[L], m)
    <2>1. L \in 1 .. L /\ out[L] \in Message
      BY <1>5
    <2>2. /\ Role(r[L]) = Role(m) /\ r[L].text = out[L].text \o m.text
          /\ r[L].uses = out[L].uses \o m.uses
          /\ r[L].results = out[L].results \cup m.results
      <3>1. /\ Role(Merged(out[L], m)) = Role(out[L])
            /\ Merged(out[L], m).text = out[L].text \o m.text
            /\ Merged(out[L], m).uses = out[L].uses \o m.uses
            /\ Merged(out[L], m).results = out[L].results \cup m.results
        <4> DEFINE a == out[L]
        <4>1. a \in Message /\ Role(a) = Role(m)
          BY <1>5, <2>1
        <4> HIDE DEF a
        <4>2. /\ Role(Merged(a, m)) = Role(a)
              /\ Merged(a, m).text = a.text \o m.text
              /\ Merged(a, m).uses = a.uses \o m.uses
              /\ Merged(a, m).results = a.results \cup m.results
          BY <1>0, <4>1, MergedMessage
        <4> QED BY <4>2 DEF a
      <3> HIDE DEF r
      <3> QED BY <1>5, <3>1
    <2>3. /\ out[L].uses \in Seq(ToolCall) /\ m.uses \in Seq(ToolCall)
          /\ out[L].text \in Seq(TextBlock) /\ m.text \in Seq(TextBlock)
      BY <1>0, <2>1, MessageFields
    <2>4. ToSet(r[L].uses) = ToSet(out[L].uses) \cup ToSet(m.uses)
      BY <2>2, <2>3, ToSetConcat
    <2>5. \A k \in 1 .. L : k \in 1 .. L - 1 \/ k = L
      BY <1>0
    <2>6. \A k \in 1 .. L : Role(r[k]) = Role(out[k])
      BY <1>5, <2>2, <2>5
    <2> HIDE DEF r
    <2>7. h \in [1 .. n + 1 -> 1 .. Len(r)]
      BY <1>0, <1>5, <2>1 DEF h
    <2>8. ASSUME NEW i \in 1 .. n + 1 PROVE Role(ms[i]) = Role(r[h[i]])
      BY <1>0, <1>2, <1>3, <1>5, <2>2, <2>6 DEF Grouped, m
    <2>9. ASSUME NEW i \in 1 .. n + 1, NEW j \in 1 .. n + 1, i < j
          PROVE  h[i] <= h[j]
      <3>1. i \in 1 .. n
        BY <2>9
      <3>2. CASE j \in 1 .. n
        BY <1>2, <2>9, <3>1, <3>2 DEF Grouped
      <3>3. CASE j = n + 1
        BY <1>0, <1>2, <1>5, <3>1, <3>3
      <3> QED BY <1>3, <3>2, <3>3
    <2>10. ASSUME NEW k \in 1 .. Len(r) PROVE \E i \in 1 .. n + 1 : h[i] = k
      <3>1. PICK i \in 1 .. n : g[i] = k
        BY <1>5 DEF Grouped
      <3> QED BY <1>2, <3>1
    <2>11. ASSUME NEW k \in 1 .. Len(r) - 1 PROVE Role(r[k]) # Role(r[k + 1])
      <3>1. k \in 1 .. L /\ k + 1 \in 1 .. L /\ k \in 1 .. L - 1
        BY <1>0, <1>5
      <3> QED BY <2>6, <3>1 DEF Grouped
    <2>12. ASSUME NEW k \in 1 .. Len(r), NEW c
           PROVE  c \in ToSet(r[k].uses)
                    <=> \E i \in 1 .. n + 1 : h[i] = k /\ c \in ToSet(ms[i].uses)
      <3>1. c \in ToSet(out[k].uses)
              <=> \E i \in 1 .. n : g[i] = k /\ c \in ToSet(ms[i].uses)
        <4>1. k \in 1 .. L
          BY <1>5
        <4> QED BY <4>1 DEF Grouped
      <3>2. CASE k = L
        BY <1>2, <1>3, <1>4, <1>5, <2>4, <3>1, <3>2 DEF m
      <3>3. CASE k # L
        <4>1. r[k] = out[k]
          BY <1>5, <2>5, <3>3
        <4> QED BY <1>2, <1>3, <1>5, <3>1, <3>3, <4>1
      <3> QED BY <3>2, <3>3
    <2>13. ASSUME NEW k \in 1 .. Len(r), NEW c
           PROVE  c \in r[k].results
                    <=> \E i \in 1 .. n + 1 : h[i] = k /\ c \in ms[i].results
      <3>1. c \in out[k].results
              <=> \E i \in 1 .. n : g[i] = k /\ c \in ms[i].results
        BY <1>5 DEF Grouped
      <3>2. CASE k = L
        BY <1>2, <1>3, <1>4, <1>5, <2>2, <3>1, <3>2 DEF m
      <3>3. CASE k # L
        <4>1. r[k] = out[k]
          BY <1>5, <2>5, <3>3
        <4> QED BY <1>2, <1>3, <1>5, <3>1, <3>3, <4>1
      <3> QED BY <3>2, <3>3
    <2>14. ASSUME NEW i \in 1 .. n + 1, ms[i].text # <<>>
           PROVE  r[h[i]].text # <<>>
      <3>1. CASE i \in 1 .. n
        <4>1. out[g[i]].text # <<>> /\ h[i] = g[i] /\ g[i] \in 1 .. L
          BY <1>0, <1>2, <2>14, <3>1 DEF Grouped
        <4>2. CASE g[i] = L
          <5>1. out[L].text \o m.text # <<>>
            BY <2>3, <4>1, <4>2, ConcatEqualIffEmpty
          <5> QED BY <2>2, <4>1, <4>2, <5>1
        <4>3. CASE g[i] # L
          BY <1>5, <2>5, <4>1, <4>3
        <4> QED BY <4>2, <4>3
      <3>2. CASE i = n + 1
        <4>1. out[L].text \o m.text # <<>>
          BY <2>3, <2>14, <3>2, ConcatEqualIffEmpty DEF m
        <4> QED BY <1>2, <1>5, <2>2, <3>2, <4>1
      <3> QED BY <1>3, <3>1, <3>2
    <2>15. Grouped(ms, n + 1, r, h)
      BY <2>7, <2>8, <2>9, <2>10, <2>11, <2>12, <2>13, <2>14 DEF Grouped
    <2> QED BY <2>15 DEF r, m
  <1>6. CASE /\ out = <<>> \/ Role(out[L]) # Role(m)
             /\ Len(r) = L + 1
             /\ \A k \in 1 .. L : r[k] = out[k]
             /\ r[L + 1] = m
    <2> HIDE DEF r
    <2>1. \A k \in 1 .. L + 1 : k \in 1 .. L \/ k = L + 1
      BY <1>0
    <2>2. \A i \in 1 .. n : g[i] \in 1 .. L /\ r[g[i]] = out[g[i]] /\ g[i] # L + 1
      BY <1>0, <1>6
    <2>3. h \in [1 .. n + 1 -> 1 .. Len(r)]
      BY <1>0, <1>6 DEF h
    <2>4. ASSUME NEW i \in 1 .. n + 1 PROVE Role(ms[i]) = Role(r[h[i]])
      <3>1. CASE i \in 1 .. n
        BY <1>2, <2>2, <3>1 DEF Grouped
      <3>2. CASE i = n + 1
        BY <1>2, <1>6, <3>2 DEF m
      <3> QED BY <1>3, <3>1, <3>2
    <2>5. ASSUME NEW i \in 1 .. n + 1, NEW j \in 1 .. n + 1, i < j
          PROVE  h[i] <= h[j]
      <3>1. i \in 1 .. n
        BY <2>5
      <3>2. CASE j \in 1 .. n
        BY <1>2, <2>5, <3>1, <3>2 DEF Grouped
      <3>3. CASE j = n + 1
        BY <1>0, <1>2, <1>6, <3>1, <3>3
      <3> QED BY <1>3, <3>2, <3>3
    <2>6. ASSUME NEW k \in 1 .. Len(r) PROVE \E i \in 1 .. n + 1 : h[i] = k
      <3>1. CASE k \in 1 .. L
        <4>1. PICK i \in 1 .. n : g[i] = k
          BY <3>1 DEF Grouped
        <4> QED BY <1>2, <4>1
      <3>2. CASE k = L + 1
        BY <1>2, <1>4, <1>6, <3>2
      <3> QED BY <1>6, <2>1, <3>1, <3>2
    <2>7. ASSUME NEW k \in 1 .. Len(r) - 1 PROVE Role(r[k]) # Role(r[k + 1])
      <3>1. k \in 1 .. L
        BY <1>0, <1>6
      <3>2. CASE k = L
        <4>1. out # <<>>
          BY <3>1
        <4> QED BY <1>6, <3>1, <3>2, <4>1
      <3>3. CASE k # L
        <4>1. k \in 1 .. L - 1 /\ k + 1 \in 1 .. L
          BY <1>0, <3>1, <3>3
        <4> QED BY <1>6, <3>1, <4>1 DEF Grouped
      <3> QED BY <3>2, <3>3
    <2>8. ASSUME NEW k \in 1 .. Len(r), NEW c
          PROVE  c \in ToSet(r[k].uses)
                   <=> \E i \in 1 .. n + 1 : h[i] = k /\ c \in ToSet(ms[i].uses)
      <3>1. CASE k \in 1 .. L
        <4>1. c \in ToSet(out[k].uses)
                <=> \E i \in 1 .. n : g[i] = k /\ c \in ToSet(ms[i].uses)
          BY <3>1 DEF Grouped
        <4>2. k # L + 1 /\ r[k] = out[k]
          BY <1>0, <1>6, <3>1
        <4> QED BY <1>2, <1>3, <1>6, <4>1, <4>2
      <3>2. CASE k = L + 1
        BY <1>2, <1>3, <1>4, <1>6, <2>2, <3>2 DEF m
      <3> QED BY <1>6, <2>1, <3>1, <3>2
    <2>9. ASSUME NEW k \in 1 .. Len(r), NEW c
          PROVE  c \in r[k].results
                   <=> \E i \in 1 .. n + 1 : h[i] = k /\ c \in ms[i].results
      <3>1. CASE k \in 1 .. L
        <4>1. c \in out[k].results
                <=> \E i \in 1 .. n : g[i] = k /\ c \in ms[i].results
          BY <3>1 DEF Grouped
        <4>2. k # L + 1 /\ r[k] = out[k]
          BY <1>0, <1>6, <3>1
        <4> QED BY <1>2, <1>3, <1>6, <4>1, <4>2
      <3>2. CASE k = L + 1
        BY <1>2, <1>3, <1>4, <1>6, <2>2, <3>2 DEF m
      <3> QED BY <1>6, <2>1, <3>1, <3>2
    <2>10. ASSUME NEW i \in 1 .. n + 1, ms[i].text # <<>>
           PROVE  r[h[i]].text # <<>>
      <3>1. CASE i \in 1 .. n
        <4>1. out[g[i]].text # <<>>
          BY <2>10, <3>1 DEF Grouped
        <4> QED BY <1>2, <2>2, <3>1, <4>1
      <3>2. CASE i = n + 1
        BY <1>2, <1>6, <2>10, <3>2 DEF m
      <3> QED BY <1>3, <3>1, <3>2
    <2>11. Grouped(ms, n + 1, r, h)
      BY <2>3, <2>4, <2>5, <2>6, <2>7, <2>8, <2>9, <2>10 DEF Grouped
    <2> QED BY <2>11 DEF r, m
  <1> QED BY <1>0, <1>5, <1>6, JoinedMessages

\* enforceAlternatingTurns puts neighbours of a role together, and nothing else.
LEMMA Enforced ==
  ASSUME NEW ms \in Seq(Message)
  PROVE  /\ enforceAlternatingTurns(ms) \in Seq(Message)
         /\ \E g : Grouped(ms, Len(ms), enforceAlternatingTurns(ms), g)
  <1> DEFINE n == Len(ms)
  <1>1. PICK f : JoinSteps(ms, f)
    BY JoinRecursion
  <1>2. n \in Nat
    OBVIOUS
  <1> DEFINE E == {k \in 0 .. n : \E g : Grouped(ms, k, f[k], g)}
  <1>3. 0 \in E
    <2> DEFINE g == [k \in 1 .. 0 |-> 1]
    <2>1. Grouped(ms, 0, <<>>, g)
      BY DEF Grouped
    <2> HIDE DEF g
    <2>2. f[0] = <<>>
      BY <1>1 DEF JoinSteps
    <2> QED BY <1>2, <2>1, <2>2
  <1>4. ASSUME NEW k \in 0 .. n, k < n, k \in E PROVE k + 1 \in E
    <2>1. PICK g : Grouped(ms, k, f[k], g)
      BY <1>4
    <2>2. k + 1 \in 1 .. n /\ (k + 1) - 1 = k /\ k + 1 \in 0 .. n /\ k \in Nat
      BY <1>2, <1>4
    <2>3. f[k + 1] = Joined(f[k], ms[k + 1])
      BY <1>1, <2>2 DEF JoinSteps
    <2>4. f[k] \in Seq(Message)
      BY <1>1 DEF JoinSteps
    <2> DEFINE out == f[k]
    <2>5. out \in Seq(Message) /\ Grouped(ms, k, out, g) /\ k < Len(ms)
      BY <1>4, <2>1, <2>4
    <2> HIDE DEF out
    <2>6. \E h : Grouped(ms, k + 1, Joined(out, ms[k + 1]), h)
      BY <2>2, <2>5, GroupOneMore
    <2> QED BY <2>2, <2>3, <2>6 DEF out
  <1>5. n \in E
    <2> HIDE DEF E
    <2> QED BY <1>2, <1>3, <1>4, UpTo
  <1>6. f[n] \in Seq(Message) /\ enforceAlternatingTurns(ms) = f[n]
    BY <1>1, <1>2 DEF JoinSteps
  <1> QED BY <1>5, <1>6

\* The last message stays the last, maybe behind others of its role.
LEMMA EnforcedLast ==
  ASSUME NEW ms \in Seq(Message), ms # <<>>
  PROVE  LET r == enforceAlternatingTurns(ms)
             m == ms[Len(ms)]
         IN /\ r # <<>>
            /\ \/ r[Len(r)] = m
               \/ \E a \in Message : Role(a) = Role(m) /\ r[Len(r)] = Merged(a, m)
  <1> DEFINE n == Len(ms)
             m == ms[n]
  <1>1. PICK f : JoinSteps(ms, f)
    BY JoinRecursion
  <1>2. n \in 1 .. n /\ n - 1 \in 0 .. n /\ m \in Message
    OBVIOUS
  <1>3. f[n] = Joined(f[n - 1], m) /\ f[n - 1] \in Seq(Message)
    BY <1>1, <1>2 DEF JoinSteps
  <1> DEFINE out == f[n - 1]
             r == Joined(out, m)
  <1>4. enforceAlternatingTurns(ms) = r
    BY <1>1, <1>3 DEF JoinSteps
  <1>5. out \in Seq(Message) /\ Len(out) \in Nat
    BY <1>3
  <1> HIDE DEF out, r, m
  <1>6. CASE /\ out # <<>> /\ Role(out[Len(out)]) = Role(m)
             /\ Len(r) = Len(out) /\ r[Len(out)] = Merged(out[Len(out)], m)
    <2>1. out[Len(out)] \in Message /\ Len(r) # 0
      BY <1>5, <1>6
    <2>2. r # <<>>
      BY <2>1
    <2> QED BY <1>4, <1>6, <2>1, <2>2 DEF m
  <1>7. CASE Len(r) = Len(out) + 1 /\ r[Len(out) + 1] = m
    <2>1. r # <<>>
      BY <1>5, <1>7
    <2> QED BY <1>4, <1>7, <2>1 DEF m
  <1>8. \/ /\ out # <<>> /\ Role(out[Len(out)]) = Role(m)
           /\ Len(r) = Len(out) /\ r[Len(out)] = Merged(out[Len(out)], m)
        \/ Len(r) = Len(out) + 1 /\ r[Len(out) + 1] = m
    BY <1>2, <1>5, JoinedMessages DEF r
  <1> QED BY <1>6, <1>7, <1>8

\* OnlyUses takes calls out of a message, and nothing else.
LEMMA OnlyUsesMessage ==
  ASSUME NEW m \in Message, NEW C
  PROVE  LET r == OnlyUses(m, C) IN
         /\ r \in Message
         /\ r.type = m.type /\ r.plain = m.plain /\ r.text = m.text
         /\ r.results = m.results
         /\ ToSet(r.uses) = ToSet(m.uses) \cap C
  <1> DEFINE u == m.uses
             I == {i \in DOMAIN u : u[i] \in C}
             v == At(u, I)
             r == OnlyUses(m, C)
  <1>1. u \in Seq(ToolCall)
    BY MessageFields
  <1>2. v \in Seq(ToolCall) /\ \E h : Placed(v, u, I, Len(u), h)
    <2> HIDE DEF u, I
    <2> QED BY <1>1, AtPlaces
  <1>3. PICK h : Placed(v, u, I, Len(u), h)
    BY <1>2
  <1>4. ToSet(v) = ToSet(u) \cap C
    <2>1. DOMAIN u = 1 .. Len(u) /\ DOMAIN v = 1 .. Len(v)
      BY <1>1, <1>2
    <2>2. ASSUME NEW c, c \in ToSet(v) PROVE c \in ToSet(u) \cap C
      <3> HIDE DEF u, v
      <3>1. PICK k \in 1 .. Len(v) : v[k] = c
        BY <2>1, <2>2 DEF ToSet
      <3>2. h[k] \in I /\ v[k] = u[h[k]] /\ h[k] \in 1 .. Len(u)
        BY <1>3 DEF Placed
      <3> QED BY <2>1, <3>1, <3>2 DEF ToSet
    <2>3. ASSUME NEW c, c \in ToSet(u), c \in C PROVE c \in ToSet(v)
      <3> HIDE DEF u, v
      <3>1. PICK i \in 1 .. Len(u) : u[i] = c
        BY <2>1, <2>3 DEF ToSet
      <3>2. i \in I
        BY <2>1, <2>3, <3>1
      <3>3. PICK k \in 1 .. Len(v) : h[k] = i
        BY <1>3, <3>2 DEF Placed
      <3>4. v[k] = u[h[k]]
        BY <1>3 DEF Placed
      <3> QED BY <2>1, <3>1, <3>3, <3>4 DEF ToSet
    <2> QED BY <2>2, <2>3
  <1>5. u = <<>> => v = <<>>
    <2>1. ASSUME u = <<>>, v # <<>> PROVE FALSE
      <3>1. 1 \in 1 .. Len(v) /\ Len(u) = 0
        BY <1>2, <2>1
      <3>2. h[1] \in 1 .. Len(u)
        BY <1>3, <3>1 DEF Placed
      <3> QED BY <3>1, <3>2
    <2> QED BY <2>1
  <1>6. r = [m EXCEPT !.uses = v]
    BY DEF OnlyUses
  <1> HIDE DEF v, r
  <1>7. /\ r \in Message /\ r.type = m.type /\ r.plain = m.plain /\ r.text = m.text
        /\ r.results = m.results /\ r.uses = v
    <2>1. CASE m \in AssistantMessage
      BY <1>2, <1>6, <2>1 DEF Message, AssistantMessage
    <2>2. CASE m \in UserMessage
      <3>1. v = <<>>
        BY <1>5, <2>2 DEF UserMessage, PlainMessage, MixedMessage
      <3> QED BY <1>6, <2>2, <3>1 DEF Message, UserMessage, PlainMessage, MixedMessage
    <2>3. CASE m \in ResultMessage
      <3>1. v = <<>>
        BY <1>5, <2>3 DEF ResultMessage
      <3> QED BY <1>6, <2>3, <3>1 DEF Message, ResultMessage
    <2> QED BY <2>1, <2>2, <2>3 DEF Message
  <1> QED BY <1>4, <1>7 DEF r, u

-----------------------------------------------------------------------------
(* The repair of a history.                                                *)

\* The calls repairToolResultPairing knows an answer of.
Paired(ms) ==
  Declared(ms) \cap UNION {ms[i].results : i \in {j \in DOMAIN ms : ms[j].type = "tool_result"}}

\* It is one of the messages that are kept.
Stays(ms, i) ==
  \/ ms[i].type = "user"
  \/ ms[i].type = "assistant" /\ (ms[i].text # <<>> \/ ToSet(ms[i].uses) \cap Paired(ms) # {})
  \/ ms[i].type = "tool_result" /\ ms[i].results \subseteq Paired(ms)

\* h tells where in ms the messages of r come from.
Repaired(ms, r, h) ==
  /\ h \in [1 .. Len(r) -> 1 .. Len(ms)]
  /\ \A j, k \in 1 .. Len(r) : j < k => h[j] < h[k]
  /\ \A k \in 1 .. Len(r) :
       /\ r[k].type = ms[h[k]].type
       /\ r[k].plain = ms[h[k]].plain
       /\ r[k].text = ms[h[k]].text
       /\ r[k].results = ms[h[k]].results
       /\ ToSet(r[k].uses) = ToSet(ms[h[k]].uses) \cap Paired(ms)
  /\ \A i \in 1 .. Len(ms) : Stays(ms, i) => \E k \in 1 .. Len(r) : h[k] = i

\* repairToolResultPairing keeps the order, and of the messages all that say
\* something or whose calls are paired.
LEMMA RepairedMessages ==
  ASSUME NEW ms \in Seq(Message)
  PROVE  /\ repairToolResultPairing(ms) \in Seq(Message)
         /\ \E h : Repaired(ms, repairToolResultPairing(ms), h)
  <1> DEFINE kept(m) == CASE m.type = "assistant"   -> m.text # <<>> \/ m.uses # <<>>
                          [] m.type = "tool_result" -> m.results \subseteq Paired(ms)
                          [] OTHER                  -> TRUE
             pruned == [i \in DOMAIN ms |-> OnlyUses(ms[i], Paired(ms))]
             I == {i \in DOMAIN ms : kept(pruned[i])}
             r == At(pruned, I)
  <1>1. repairToolResultPairing(ms) = r
    BY DEF repairToolResultPairing, Paired
  <1>2. DOMAIN ms = 1 .. Len(ms) /\ Len(ms) \in Nat
    OBVIOUS
  <1>3. ASSUME NEW i \in 1 .. Len(ms)
        PROVE  /\ pruned[i] \in Message
               /\ pruned[i].type = ms[i].type
               /\ pruned[i].plain = ms[i].plain
               /\ pruned[i].text = ms[i].text
               /\ pruned[i].results = ms[i].results
               /\ ToSet(pruned[i].uses) = ToSet(ms[i].uses) \cap Paired(ms)
    <2>1. ms[i] \in Message
      OBVIOUS
    <2>2. pruned[i] = OnlyUses(ms[i], Paired(ms))
      BY <1>2
    <2> HIDE DEF pruned
    <2> QED BY <2>1, <2>2, OnlyUsesMessage
  <1>4. pruned \in Seq(Message) /\ Len(pruned) = Len(ms)
    <2>1. pruned \in [1 .. Len(ms) -> Message]
      <3>1. pruned = [i \in 1 .. Len(ms) |-> pruned[i]]
        BY <1>2
      <3> HIDE DEF pruned
      <3> QED BY <1>3, <3>1
    <2> HIDE DEF pruned
    <2> QED BY <1>2, <2>1
  <1> HIDE DEF pruned
  <1>5. r \in Seq(Message) /\ \E h : Placed(r, pruned, I, Len(pruned), h)
    <2> HIDE DEF I
    <2> QED BY <1>4, AtPlaces
  <1>6. PICK h : Placed(r, pruned, I, Len(pruned), h)
    BY <1>5
  <1>7. ASSUME NEW i \in 1 .. Len(ms), Stays(ms, i) PROVE i \in I
    <2>1. pruned[i] \in Message
      BY <1>3
    <2>2. CASE ms[i].type = "user"
      BY <1>2, <1>3, <2>2
    <2>3. CASE ms[i].type = "assistant"
      <3>1. CASE ms[i].text # <<>>
        BY <1>2, <1>3, <2>3, <3>1
      <3>2. CASE ToSet(ms[i].uses) \cap Paired(ms) # {}
        <4>1. ToSet(pruned[i].uses) # {}
          BY <1>3, <3>2
        <4>2. pruned[i].uses # <<>>
          <5>1. ToSet(<<>>) = {}
            BY DEF ToSet
          <5> QED BY <4>1, <5>1
        <4> QED BY <1>2, <1>3, <2>3, <4>2
      <3> QED BY <1>7, <2>3, <3>1, <3>2 DEF Stays
    <2>4. CASE ms[i].type = "tool_result"
      <3>1. ms[i].results \subseteq Paired(ms)
        BY <1>7, <2>4 DEF Stays
      <3> QED BY <1>2, <1>3, <2>4, <3>1
    <2> QED BY <1>7, <2>2, <2>3, <2>4 DEF Stays
  <1> HIDE DEF I, r
  <1>8. h \in [1 .. Len(r) -> 1 .. Len(ms)]
    BY <1>4, <1>6 DEF Placed
  <1>9. ASSUME NEW k \in 1 .. Len(r)
        PROVE  /\ r[k].type = ms[h[k]].type
               /\ r[k].plain = ms[h[k]].plain
               /\ r[k].text = ms[h[k]].text
               /\ r[k].results = ms[h[k]].results
               /\ ToSet(r[k].uses) = ToSet(ms[h[k]].uses) \cap Paired(ms)
    <2>1. r[k] = pruned[h[k]] /\ h[k] \in 1 .. Len(ms)
      BY <1>6, <1>8 DEF Placed
    <2> QED BY <1>3, <2>1
  <1>10. \A j, k \in 1 .. Len(r) : j < k => h[j] < h[k]
    BY <1>6 DEF Placed
  <1>11. \A i \in 1 .. Len(ms) : Stays(ms, i) => \E k \in 1 .. Len(r) : h[k] = i
    BY <1>4, <1>6, <1>7 DEF Placed
  <1>12. Repaired(ms, r, h)
    BY <1>8, <1>9, <1>10, <1>11 DEF Repaired
  <1> QED BY <1>1, <1>5, <1>12

\* The last message of a user stays the last message.
LEMMA RepairedLast ==
  ASSUME NEW ms \in Seq(Message), ms # <<>>, ms[Len(ms)].type = "user"
  PROVE  LET r == repairToolResultPairing(ms) IN
         /\ r \in Seq(Message) /\ r # <<>>
         /\ r[Len(r)].type = "user"
         /\ r[Len(r)].plain = ms[Len(ms)].plain
         /\ r[Len(r)].text = ms[Len(ms)].text
  <1> DEFINE r == repairToolResultPairing(ms)
  <1>1. PICK h : Repaired(ms, r, h)
    BY RepairedMessages
  <1>2. r \in Seq(Message) /\ Len(ms) \in 1 .. Len(ms) /\ Stays(ms, Len(ms))
    <2>1. r \in Seq(Message)
      BY RepairedMessages
    <2> QED BY <2>1 DEF Stays
  <1> HIDE DEF r
  <1>3. PICK k \in 1 .. Len(r) : h[k] = Len(ms)
    BY <1>1, <1>2 DEF Repaired
  <1>4. k = Len(r)
    <2>1. ASSUME k # Len(r) PROVE FALSE
      <3>1. k < Len(r) /\ Len(r) \in 1 .. Len(r)
        BY <1>2, <2>1
      <3>2. h[k] < h[Len(r)] /\ h[Len(r)] \in 1 .. Len(ms)
        BY <1>1, <3>1 DEF Repaired
      <3> QED BY <1>3, <3>2
    <2> QED BY <2>1
  <1>5. r # <<>>
    BY <1>2, <1>3
  <1> QED BY <1>1, <1>2, <1>3, <1>4, <1>5 DEF Repaired, r

-----------------------------------------------------------------------------
(* The user's last text.                                                   *)

\* Every set of numbers with a bound has a greatest one.
LEMMA Greatest ==
  ASSUME NEW n \in Nat, NEW T \in SUBSET (1 .. n), T # {}
  PROVE  Max(T) \in T /\ \A i \in T : i <= Max(T)
  <1> DEFINE D == {n - i : i \in T}
  <1>1. D \in SUBSET Nat /\ D # {}
    <2>1. ASSUME NEW i \in T PROVE n - i \in Nat
      <3>1. i \in 1 .. n
        OBVIOUS
      <3> QED BY <3>1
    <2> QED BY <2>1
  <1>2. PICK d \in D : \A e \in D : d <= e
    <2> HIDE DEF D
    <2> QED BY <1>1, Least
  <1>3. PICK m \in T : d = n - m
    OBVIOUS
  <1>4. ASSUME NEW i \in T PROVE m >= i
    <2>1. n - m <= n - i
      BY <1>2, <1>3
    <2> QED BY <2>1
  <1>5. Max(T) \in T /\ \A i \in T : Max(T) >= i
    BY <1>4 DEF Max
  <1>6. Max(T) \in 1 .. n
    BY <1>5
  <1> QED BY <1>5, <1>6

\* LastUser finds the last message of a user.
LEMMA LastUserFound ==
  ASSUME NEW ms \in Seq(Message), LastUser(ms) # 0
  PROVE  /\ LastUser(ms) \in 1 .. Len(ms)
         /\ ms[LastUser(ms)].type = "user"
         /\ \A j \in 1 .. Len(ms) : j > LastUser(ms) => ms[j].type # "user"
  <1> DEFINE T == {i \in 1 .. Len(ms) : ms[i].type = "user"}
  <1>1. T # {} /\ LastUser(ms) = Max(T)
    BY DEF LastUser, SelectLastInSeq
  <1>2. Max(T) \in T /\ \A i \in T : i <= Max(T)
    <2>1. Len(ms) \in Nat /\ T \in SUBSET (1 .. Len(ms))
      OBVIOUS
    <2> HIDE DEF T
    <2> QED BY <1>1, <2>1, Greatest
  <1>3. Max(T) \in 1 .. Len(ms)
    BY <1>2
  <1>4. ASSUME NEW j \in 1 .. Len(ms), j > LastUser(ms) PROVE ms[j].type # "user"
    <2>1. ASSUME j \in T PROVE FALSE
      <3>1. j <= Max(T)
        BY <1>2, <2>1
      <3> HIDE DEF T
      <3> QED BY <1>1, <1>3, <1>4, <3>1
    <2> QED BY <2>1
  <1> QED BY <1>1, <1>2, <1>4

\* The blocks of a text that say something.
Words(text) == At(text, {j \in DOMAIN text : text[j].kind # "empty"})

\* The text would be taken for an approval or a cancellation, but it is no newer
\* than text number a.
Stale(text, a) ==
  LET w == Words(text)
  IN Len(w) = 1 /\ w[1].kind \in {"approve", "cancel"} /\ ~(w[1].n > a)

\* A text that ends with a block that says something is taken for that block or
\* for nothing.
LEMMA LastWord ==
  ASSUME NEW text \in Seq(TextBlock), text # <<>>, NEW a,
         text[Len(text)].kind # "empty", Stale(text, a)
  PROVE  text[Len(text)].kind \in {"approve", "cancel"} /\ ~(text[Len(text)].n > a)
  <1> DEFINE I == {j \in DOMAIN text : text[j].kind # "empty"}
  <1>1. Len(text) \in I
    OBVIOUS
  <1> HIDE DEF I
  <1>2. At(text, I)[Len(At(text, I))] = text[Len(text)]
    BY <1>1, AtLast
  <1>3. Words(text) = At(text, I)
    BY DEF Words, I
  <1> QED BY <1>2, <1>3 DEF Stale

\* A message of a user, apart from the program's report of progress.
Remark(m) == m.type = "user" /\ ~IsMarker(m, "progress")

\* The last of them.
LastSays(ms, i) ==
  Remark(ms[i]) /\ \A j \in 1 .. Len(ms) : j > i => ~Remark(ms[j])

\* What the user said last answers nothing, or is newer than text number a.
FreshAnswer(ms, a) ==
  \A i \in 1 .. Len(ms) : LastSays(ms, i) => ~Stale(ms[i].text, a)

\* What detectPlanResponse finds in such a history.
LEMMA FreshDetected ==
  ASSUME NEW ms \in Seq(Message), NEW a, FreshAnswer(ms, a),
         detectPlanResponse(ms) # <<>>
  PROVE  \/ detectPlanResponse(ms)[1].kind = "revise"
         \/ detectPlanResponse(ms)[1].n > a
  <1> DEFINE i == LastUser(ms)
             t == IF i = 0 THEN <<>> ELSE Words(ms[i].text)
  <1>1. detectPlanResponse(ms) =
          IF t # <<>> /\ (\/ t[1].kind = "revise"
                          \/ Len(t) = 1 /\ t[1].kind \in {"approve", "cancel"})
          THEN <<t[1]>> ELSE <<>>
    BY DEF detectPlanResponse, Words
  <1>2. t # <<>> /\ detectPlanResponse(ms)[1] = t[1]
    <2> HIDE DEF t
    <2> QED BY <1>1
  <1>3. i # 0 /\ t = Words(ms[i].text)
    BY <1>2
  <1>4. /\ i \in 1 .. Len(ms) /\ ms[i].type = "user"
        /\ \A j \in 1 .. Len(ms) : j > i => ms[j].type # "user"
    BY <1>3, LastUserFound
  <1> HIDE DEF i, t
  <1>5. SUFFICES ASSUME Len(t) = 1, t[1].kind \in {"approve", "cancel"}
                 PROVE  t[1].n > a
    BY <1>1, <1>2
  <1>6. CASE IsMarker(ms[i], "progress")
    <2> DEFINE x == ms[i].text
               I == {j \in DOMAIN x : x[j].kind # "empty"}
    <2>1. x \in Seq(TextBlock)
      BY <1>4, MessageFields
    <2>2. x[1].kind = "progress"
      BY <1>6 DEF IsMarker
    <2>3. t = At(x, I)
      BY <1>3 DEF Words
    <2>4. PICK h : Placed(t, x, I, Len(x), h)
      <3> HIDE DEF I, x
      <3> QED BY <2>1, <2>3, AtPlaces
    <2>5. h[1] \in 1 .. Len(x) /\ t[1] = x[h[1]]
      BY <1>5, <2>4 DEF Placed
    <2>6. 1 \in 1 .. Len(x) /\ 1 \in DOMAIN x
      BY <2>1, <2>5
    <2>7. 1 \in I
      BY <2>2, <2>6
    <2>8. PICK k \in 1 .. Len(t) : h[k] = 1
      <3> HIDE DEF I, x
      <3> QED BY <2>4, <2>6, <2>7 DEF Placed
    <2>9. k = 1
      BY <1>5, <2>8
    <2> QED BY <1>5, <2>2, <2>5, <2>8, <2>9
  <1>7. CASE ~IsMarker(ms[i], "progress")
    <2>1. LastSays(ms, i)
      BY <1>4, <1>7 DEF LastSays, Remark
    <2>2. ~Stale(ms[i].text, a)
      BY <1>4, <2>1 DEF FreshAnswer
    <2> QED BY <1>3, <1>5, <2>2 DEF Stale
  <1> QED BY <1>6, <1>7

\* A message of a user that ends with new words, or with words that answer
\* nothing, is the last thing said.
LEMMA FreshEnd ==
  ASSUME NEW ms \in Seq(Message), ms # <<>>, NEW a,
         ms[Len(ms)].type = "user", ~IsMarker(ms[Len(ms)], "progress"),
         ~Stale(ms[Len(ms)].text, a)
  PROVE  FreshAnswer(ms, a)
  <1> SUFFICES ASSUME NEW i \in 1 .. Len(ms), LastSays(ms, i)
               PROVE  ~Stale(ms[i].text, a)
    BY DEF FreshAnswer
  <1>1. Len(ms) \in 1 .. Len(ms)
    OBVIOUS
  <1>2. ~(Len(ms) > i)
    BY <1>1 DEF LastSays, Remark
  <1>3. i = Len(ms)
    BY <1>1, <1>2
  <1> QED BY <1>3

-----------------------------------------------------------------------------
(* Histories that are cut.                                                 *)

\* What a user or the program says in one block.
LEMMA UserText ==
  ASSUME NEW b \in TextBlock
  PROVE  /\ User(b) \in Message
         /\ User(b).type = "user" /\ User(b).plain
         /\ User(b).text = <<b>> /\ User(b).text # <<>>
         /\ User(b).uses = <<>> /\ User(b).results = {}
         /\ ToSet(User(b).uses) = {}
  <1>1. <<b>> \in Seq(TextBlock) /\ <<b>> # <<>>
    OBVIOUS
  <1>2. ToSet(<<>>) = {}
    BY DEF ToSet
  <1> QED BY <1>1, <1>2 DEF User, Message, UserMessage, PlainMessage

\* Such a text is stale only if it is an old answer.
LEMMA UserSays ==
  ASSUME NEW b \in TextBlock, NEW a
  PROVE  /\ b.kind \notin {"empty", "progress"} => Remark(User(b))
         /\ b.kind # "empty" /\ (b.kind \in {"approve", "cancel"} => b.n > a)
              => ~Stale(User(b).text, a)
  <1>1. User(b).text = <<b>> /\ User(b).type = "user"
    BY UserText
  <1> DEFINE t == <<b>>
  <1>2. t \in Seq(TextBlock) /\ t # <<>> /\ t[Len(t)] = b /\ t[1] = b
    OBVIOUS
  <1> HIDE DEF t
  <1>3. b.kind \notin {"empty", "progress"} => Remark(User(b))
    BY <1>1, <1>2 DEF Remark, IsMarker, t
  <1>4. b.kind # "empty" /\ (b.kind \in {"approve", "cancel"} => b.n > a)
          => ~Stale(t, a)
    BY <1>2, LastWord
  <1> QED BY <1>1, <1>3, <1>4 DEF t

\* The program's own messages at the start of a history that was cut.
Notes == {Marker("dropped"), Marker("summary"), Marker("progress")}

\* They are user's messages that answer no call and no plan.
LEMMA NoteFields ==
  ASSUME NEW x \in Notes
  PROVE  /\ x \in Message /\ x.type = "user" /\ x.text # <<>>
         /\ ToSet(x.uses) = {} /\ x.results = {}
         /\ \A a : ~Stale(x.text, a)
  <1>1. PICK k \in {"dropped", "summary", "progress"} : x = User(Block(k))
    BY DEF Notes, Marker
  <1>2. Block(k) \in TextBlock /\ Block(k).kind = k
    <2>1. k \in Noted
      BY DEF Noted
    <2> QED BY <2>1 DEF Block, TextBlock
  <1>3. \A a : ~Stale(User(Block(k)).text, a)
    BY <1>2, UserSays
  <1> QED BY <1>1, <1>2, <1>3, UserText

\* r is ms after a cut: h tells where its messages come from, 0 for the notes.
\* No remark after a message that was kept is left out.
Drawn(r, ms, h) ==
  /\ h \in [1 .. Len(r) -> 0 .. Len(ms)]
  /\ \A k \in 1 .. Len(r) : IF h[k] = 0 THEN r[k] \in Notes ELSE r[k] = ms[h[k]]
  /\ \A j, k \in 1 .. Len(r) : j < k /\ h[j] # 0 /\ h[k] # 0 => h[j] < h[k]
  /\ \A k \in 1 .. Len(r), j \in 1 .. Len(ms) :
       h[k] # 0 /\ h[k] < j /\ Remark(ms[j]) => \E i \in 1 .. Len(r) : h[i] = j
\* r can be had from ms by a cut.
IsCut(r, ms) == r \in Seq(Message) /\ \E h : Drawn(r, ms, h)

\* A history is a cut of itself.
LEMMA CutNothing ==
  ASSUME NEW ms \in Seq(Message)
  PROVE  IsCut(ms, ms)
  <1> DEFINE h == [k \in 1 .. Len(ms) |-> k]
  <1>1. Drawn(ms, ms, h)
    BY DEF Drawn
  <1> QED BY <1>1 DEF IsCut

\* A cut of a cut.
LEMMA CutTwice ==
  ASSUME NEW ms \in Seq(Message), NEW q, NEW r, IsCut(q, ms), IsCut(r, q)
  PROVE  IsCut(r, ms)
  <1>1. q \in Seq(Message) /\ r \in Seq(Message)
    BY DEF IsCut
  <1>2. PICK g : Drawn(q, ms, g)
    BY DEF IsCut
  <1>3. PICK h : Drawn(r, q, h)
    BY DEF IsCut
  <1> DEFINE f == [k \in 1 .. Len(r) |-> IF h[k] = 0 THEN 0 ELSE g[h[k]]]
  <1>4. \A k \in 1 .. Len(r) : h[k] \in 0 .. Len(q) /\ (h[k] # 0 => h[k] \in 1 .. Len(q))
    BY <1>1, <1>3 DEF Drawn
  <1>5. \A k \in 1 .. Len(q) : g[k] \in 0 .. Len(ms)
    BY <1>2 DEF Drawn
  <1>6. Len(q) \in Nat /\ Len(r) \in Nat /\ Len(ms) \in Nat
    BY <1>1
  <1>7. f \in [1 .. Len(r) -> 0 .. Len(ms)]
    BY <1>4, <1>5, <1>6
  <1>8. \A k \in 1 .. Len(r) : /\ h[k] = 0 => f[k] = 0
                               /\ h[k] # 0 => f[k] = g[h[k]]
    OBVIOUS
  <1> HIDE DEF f
  <1>9. ASSUME NEW k \in 1 .. Len(r)
        PROVE  IF f[k] = 0 THEN r[k] \in Notes ELSE r[k] = ms[f[k]]
    <2>1. CASE h[k] = 0
      BY <1>3, <1>8, <2>1 DEF Drawn
    <2>2. CASE h[k] # 0
      <3>1. r[k] = q[h[k]] /\ h[k] \in 1 .. Len(q) /\ f[k] = g[h[k]]
        BY <1>3, <1>4, <1>8, <2>2 DEF Drawn
      <3> QED BY <1>2, <3>1 DEF Drawn
    <2> QED BY <2>1, <2>2
  <1>10. ASSUME NEW j \in 1 .. Len(r), NEW k \in 1 .. Len(r), j < k, f[j] # 0, f[k] # 0
         PROVE  f[j] < f[k]
    <2>1. h[j] # 0 /\ h[k] # 0 /\ f[j] = g[h[j]] /\ f[k] = g[h[k]]
      BY <1>8, <1>10
    <2>2. h[j] < h[k] /\ h[j] \in 1 .. Len(q) /\ h[k] \in 1 .. Len(q)
      BY <1>3, <1>4, <1>10, <2>1 DEF Drawn
    <2> QED BY <1>2, <1>10, <2>1, <2>2 DEF Drawn
  <1>11. ASSUME NEW k \in 1 .. Len(r), NEW j \in 1 .. Len(ms),
                f[k] # 0, f[k] < j, Remark(ms[j])
         PROVE  \E i \in 1 .. Len(r) : f[i] = j
    <2>1. h[k] # 0 /\ h[k] \in 1 .. Len(q) /\ f[k] = g[h[k]]
      BY <1>4, <1>8, <1>11
    <2>2. PICK i \in 1 .. Len(q) : g[i] = j
      BY <1>2, <1>11, <2>1 DEF Drawn
    <2>3. q[i] = ms[j]
      <3>1. j # 0
        OBVIOUS
      <3> QED BY <1>2, <2>2, <3>1 DEF Drawn
    <2>4. h[k] < i
      <3>1. ASSUME i < h[k] PROVE FALSE
        <4>1. g[i] < g[h[k]]
          BY <1>2, <1>11, <2>1, <2>2, <3>1 DEF Drawn
        <4>2. g[h[k]] \in 0 .. Len(ms)
          BY <1>5, <2>1
        <4> QED BY <1>6, <1>11, <2>1, <2>2, <4>1, <4>2
      <3>2. i # h[k]
        BY <1>6, <1>11, <2>1, <2>2
      <3> QED BY <1>6, <2>1, <3>1, <3>2
    <2>5. PICK x \in 1 .. Len(r) : h[x] = i
      BY <1>3, <1>11, <2>1, <2>3, <2>4 DEF Drawn
    <2>6. f[x] = j
      BY <1>6, <1>8, <2>2, <2>5
    <2> QED BY <2>6
  <1>12. Drawn(r, ms, f)
    BY <1>7, <1>9, <1>10, <1>11 DEF Drawn
  <1> QED BY <1>1, <1>12 DEF IsCut

\* The messages from the i-th on, maybe none.
LEMMA CutFrom ==
  ASSUME NEW ms \in Seq(Message), NEW i \in 1 .. Len(ms) + 1
  PROVE  IsCut(From(ms, i), ms)
  <1> DEFINE n == Len(ms)
             r == From(ms, i)
  <1>1. n \in Nat
    OBVIOUS
  <1>2. /\ r \in Seq(Message) /\ Len(r) = n - i + 1
        /\ \A k \in 1 .. n - i + 1 : r[k] = ms[i + k - 1]
    <2>1. \A k \in i .. n : ms[k] \in Message
      BY <1>1
    <2>2. n \in i - 1 .. n
      BY <1>1
    <2> HIDE DEF n
    <2>3. /\ SubSeq(ms, i, n) \in Seq(Message)
          /\ Len(SubSeq(ms, i, n)) = IF i <= n THEN n - i + 1 ELSE 0
          /\ \A k \in 1 .. n - i + 1 : SubSeq(ms, i, n)[k] = ms[i + k - 1]
      BY <1>1, <2>1, <2>2, SubSeqProperties
    <2>4. (IF i <= n THEN n - i + 1 ELSE 0) = n - i + 1
      BY <1>1, <2>2
    <2> QED BY <2>3, <2>4 DEF From, n
  <1> DEFINE h == [k \in 1 .. Len(r) |-> i + k - 1]
  <1> HIDE DEF r
  <1>3. \A k \in 1 .. Len(r) : h[k] = i + k - 1 /\ h[k] \in 1 .. n /\ h[k] # 0
    BY <1>1, <1>2
  <1>4. h \in [1 .. Len(r) -> 0 .. n]
    BY <1>1, <1>2
  <1>5. \A j, k \in 1 .. Len(r) : j < k => h[j] < h[k]
    BY <1>1, <1>2
  <1>6. ASSUME NEW k \in 1 .. Len(r), NEW j \in 1 .. n, h[k] < j
        PROVE  \E x \in 1 .. Len(r) : h[x] = j
    <2>1. j - i + 1 \in 1 .. Len(r) /\ i + (j - i + 1) - 1 = j
      BY <1>1, <1>2, <1>3, <1>6
    <2> QED BY <2>1
  <1> HIDE DEF h, n
  <1>7. Drawn(r, ms, h)
    BY <1>2, <1>3, <1>4, <1>5, <1>6 DEF Drawn, n
  <1> QED BY <1>2, <1>7 DEF IsCut, r

\* With a note in front.
LEMMA CutNote ==
  ASSUME NEW ms \in Seq(Message), NEW r, IsCut(r, ms), NEW x \in Notes
  PROVE  IsCut(<<x>> \o r, ms)
  <1>1. r \in Seq(Message) /\ Len(r) \in Nat /\ x \in Message
    BY NoteFields DEF IsCut
  <1>2. PICK h : Drawn(r, ms, h)
    BY DEF IsCut
  <1> DEFINE q == <<x>> \o r
             g == [k \in 1 .. Len(r) + 1 |-> IF k = 1 THEN 0 ELSE h[k - 1]]
  <1>3. /\ q \in Seq(Message) /\ Len(q) = Len(r) + 1 /\ q[1] = x
        /\ \A k \in 1 .. Len(r) : q[k + 1] = r[k]
    BY <1>1
  <1> HIDE DEF q
  <1>4. Len(ms) \in Nat /\ h \in [1 .. Len(r) -> 0 .. Len(ms)]
    BY <1>2 DEF Drawn
  <1>5. g[1] = 0 /\ \A k \in 1 .. Len(r) : g[k + 1] = h[k]
    BY <1>1
  <1>6. g \in [1 .. Len(q) -> 0 .. Len(ms)]
    <2>1. \A k \in 1 .. Len(q) : k # 1 => k - 1 \in 1 .. Len(r)
      BY <1>1, <1>3
    <2> QED BY <1>1, <1>3, <1>4, <2>1
  <1>7. \A k \in 1 .. Len(q) : k = 1 \/ \E j \in 1 .. Len(r) : k = j + 1
    <2> TAKE k \in 1 .. Len(q)
    <2>1. k # 1 => k - 1 \in 1 .. Len(r) /\ k = (k - 1) + 1
      BY <1>1, <1>3
    <2> QED BY <2>1
  <1> HIDE DEF g
  <1>8. ASSUME NEW k \in 1 .. Len(q)
        PROVE  IF g[k] = 0 THEN q[k] \in Notes ELSE q[k] = ms[g[k]]
    <2>1. CASE k = 1
      BY <1>3, <1>5, <2>1
    <2>2. ASSUME NEW j \in 1 .. Len(r), k = j + 1
          PROVE IF g[k] = 0 THEN q[k] \in Notes ELSE q[k] = ms[g[k]]
      BY <1>2, <1>3, <1>5, <2>2 DEF Drawn
    <2> QED BY <1>7, <2>1, <2>2
  <1>9. ASSUME NEW j \in 1 .. Len(q), NEW k \in 1 .. Len(q), j < k, g[j] # 0, g[k] # 0
        PROVE  g[j] < g[k]
    <2>1. PICK i \in 1 .. Len(r) : j = i + 1
      BY <1>5, <1>7, <1>9
    <2>2. PICK l \in 1 .. Len(r) : k = l + 1
      BY <1>5, <1>7, <1>9
    <2>3. i < l
      BY <1>9, <2>1, <2>2
    <2> QED BY <1>2, <1>5, <1>9, <2>1, <2>2, <2>3 DEF Drawn
  <1>10. ASSUME NEW k \in 1 .. Len(q), NEW j \in 1 .. Len(ms),
                g[k] # 0, g[k] < j, Remark(ms[j])
         PROVE  \E i \in 1 .. Len(q) : g[i] = j
    <2>1. PICK l \in 1 .. Len(r) : k = l + 1
      BY <1>5, <1>7, <1>10
    <2>2. PICK i \in 1 .. Len(r) : h[i] = j
      BY <1>2, <1>5, <1>10, <2>1 DEF Drawn
    <2>3. i + 1 \in 1 .. Len(q) /\ g[i + 1] = j
      BY <1>1, <1>3, <1>5, <2>2
    <2> QED BY <2>3
  <1>11. Drawn(q, ms, g)
    BY <1>6, <1>8, <1>9, <1>10 DEF Drawn
  <1> QED BY <1>3, <1>11 DEF IsCut, q

\* The rest of a sequence starts at its second element.
LEMMA TailFrom ==
  ASSUME NEW T, NEW s \in Seq(T), s # <<>>
  PROVE  Tail(s) = From(s, 2)
  <1> DEFINE n == Len(s)
             t == Tail(s)
             u == SubSeq(s, 2, n)
  <1>1. n \in Nat /\ n >= 1
    OBVIOUS
  <1>2. t \in Seq(T) /\ Len(t) = n - 1 /\ \A k \in 1 .. n - 1 : t[k] = s[k + 1]
    OBVIOUS
  <1>3. u \in Seq(T) /\ Len(u) = n - 1 /\ \A k \in 1 .. n - 1 : u[k] = s[k + 1]
    <2>1. \A k \in 2 .. n : s[k] \in T
      BY <1>1
    <2> HIDE DEF n
    <2>2. n \in 2 - 1 .. n
      BY <1>1
    <2>3. /\ SubSeq(s, 2, n) \in Seq(T)
          /\ Len(SubSeq(s, 2, n)) = IF 2 <= n THEN n - 2 + 1 ELSE 0
          /\ \A k \in 1 .. n - 2 + 1 : SubSeq(s, 2, n)[k] = s[2 + k - 1]
      BY <1>1, <2>1, <2>2, SubSeqProperties
    <2>4. (IF 2 <= n THEN n - 2 + 1 ELSE 0) = n - 1 /\ n - 2 + 1 = n - 1
      BY <1>1
    <2>5. \A k \in 1 .. n - 1 : 2 + k - 1 = k + 1
      OBVIOUS
    <2>6. \A k \in 1 .. n - 1 : u[k] = s[k + 1]
      BY <2>3, <2>4, <2>5
    <2> QED BY <2>3, <2>4, <2>6
  <1> HIDE DEF t, u
  <1>4. t = u
    BY <1>1, <1>2, <1>3, SeqEqual
  <1> QED BY <1>4 DEF t, u, n, From

\* Without its first message.
LEMMA CutTail ==
  ASSUME NEW ms \in Seq(Message), ms # <<>>
  PROVE  IsCut(Tail(ms), ms)
  <1>1. Tail(ms) = From(ms, 2)
    BY TailFrom
  <1>2. 2 \in 1 .. Len(ms) + 1
    OBVIOUS
  <1> QED BY <1>1, <1>2, CutFrom

\* A history has a text of the user or of the program, and it is the first
\* message unless an MCP prompt's messages were put before it (late).
Begins(ms, late) ==
  \E i \in 1 .. Len(ms) : ms[i].type = "user" /\ ms[i].text # <<>> /\ (i # 1 => late)

\* A cut with a note in front of it starts with that note.
LEMMA CutBegins ==
  ASSUME NEW late, NEW ms \in Seq(Message), NEW r, IsCut(r, ms), NEW x \in Notes
  PROVE  IsCut(<<x>> \o r, ms) /\ Begins(<<x>> \o r, late)
  <1>1. r \in Seq(Message) /\ x \in Message /\ x.type = "user" /\ x.text # <<>>
    BY NoteFields DEF IsCut
  <1>2. <<x>> \o r # <<>> /\ (<<x>> \o r)[1] = x
    BY <1>1
  <1>3. Begins(<<x>> \o r, late)
    <2>1. 1 \in 1 .. Len(<<x>> \o r)
      BY <1>1
    <2> HIDE DEF Notes
    <2> QED BY <1>1, <1>2, <2>1 DEF Begins
  <1> QED BY <1>3, CutNote

\* The later turns of a history start at one of its messages.
LEMMA LaterPlaces ==
  ASSUME NEW ms \in Seq(Message), Later(ms) # {}
  PROVE  Later(ms) \subseteq 1 .. Len(ms) /\ Min(Later(ms)) \in 1 .. Len(ms) + 1
  <1>1. Later(ms) \subseteq 1 .. Len(ms) /\ Len(ms) \in Nat
    BY DEF Later, identifyTurns
  <1>2. Later(ms) \in SUBSET Nat
    BY <1>1
  <1>3. PICK x \in Later(ms) : \A y \in Later(ms) : x <= y
    BY <1>2, Least
  <1>4. Min(Later(ms)) \in Later(ms)
    BY <1>3 DEF Min
  <1> QED BY <1>1, <1>4

\* Dropping a turn is a cut.
LEMMA DropCuts ==
  ASSUME NEW late, NEW ms \in Seq(Message)
  PROVE  /\ IsCut(dropOldestTurns(ms), ms)
         /\ Begins(ms, late) => Begins(dropOldestTurns(ms), late)
  <1> DEFINE source == IF ms # <<>> /\ IsMarker(Head(ms), "dropped") THEN Tail(ms) ELSE ms
             i == Min(Later(source))
  <1>1. IsCut(source, ms)
    BY CutTail, CutNothing
  <1>2. source \in Seq(Message)
    BY <1>1 DEF IsCut
  <1>3. dropOldestTurns(ms) = IF Later(source) = {} THEN ms
                              ELSE <<Marker("dropped")>> \o From(source, i)
    BY DEF dropOldestTurns
  <1> HIDE DEF source
  <1>4. CASE Later(source) = {}
    BY <1>3, <1>4, CutNothing
  <1>5. CASE Later(source) # {}
    <2>1. i \in 1 .. Len(source) + 1
      BY <1>2, <1>5, LaterPlaces
    <2> HIDE DEF i
    <2>2. IsCut(From(source, i), source)
      BY <1>2, <2>1, CutFrom
    <2>3. IsCut(From(source, i), ms)
      BY <1>1, <2>2, CutTwice
    <2>4. Marker("dropped") \in Notes
      BY DEF Notes
    <2> QED BY <1>3, <1>5, <2>3, <2>4, CutBegins
  <1> QED BY <1>4, <1>5

\* Dropping up to three turns.
LEMMA DroppedCuts ==
  ASSUME NEW late, NEW ms \in Seq(Message), NEW r \in Dropped(ms)
  PROVE  IsCut(r, ms) /\ (Begins(ms, late) => Begins(r, late))
  <1> DEFINE one == dropOldestTurns(ms)
             two == dropOldestTurns(one)
             three == dropOldestTurns(two)
  <1>1. r \in {ms, one, two, three}
    BY DEF Dropped
  <1>2. IsCut(one, ms) /\ (Begins(ms, late) => Begins(one, late))
    BY DropCuts
  <1> HIDE DEF one
  <1>3. IsCut(two, ms) /\ (Begins(ms, late) => Begins(two, late))
    <2>1. one \in Seq(Message)
      BY <1>2 DEF IsCut
    <2>2. IsCut(two, one) /\ (Begins(one, late) => Begins(two, late))
      BY <2>1, DropCuts
    <2> QED BY <1>2, <2>2, CutTwice
  <1> HIDE DEF two
  <1>4. IsCut(three, ms) /\ (Begins(ms, late) => Begins(three, late))
    <2>1. two \in Seq(Message)
      BY <1>3 DEF IsCut
    <2>2. IsCut(three, two) /\ (Begins(two, late) => Begins(three, late))
      BY <2>1, DropCuts
    <2> QED BY <1>3, <2>2, CutTwice
  <1> HIDE DEF three
  <1>5. IsCut(ms, ms)
    BY CutNothing
  <1> QED BY <1>1, <1>2, <1>3, <1>4, <1>5

\* A summary takes the place of the turns before the tail.
LEMMA SummaryCuts ==
  ASSUME NEW late, NEW ms \in Seq(Message), NEW r \in autocompact(ms)
  PROVE  IsCut(r, ms) /\ Begins(r, late)
  <1> DEFINE rest == extractPreviousSummary(ms)
  <1>1. IsCut(rest, ms)
    BY CutTail, CutNothing DEF extractPreviousSummary
  <1>2. rest \in Seq(Message)
    BY <1>1 DEF IsCut
  <1> HIDE DEF rest
  <1>3. PICK i \in Later(rest) : r = <<Marker("summary")>> \o From(rest, i)
    BY DEF autocompact, rest
  <1>4. i \in 1 .. Len(rest) + 1
    <2>1. i \in 1 .. Len(rest)
      BY <1>2, LaterPlaces
    <2> QED BY <1>2, <2>1
  <1>5. IsCut(From(rest, i), rest)
    BY <1>2, <1>4, CutFrom
  <1>6. IsCut(From(rest, i), ms)
    BY <1>1, <1>5, CutTwice
  <1>7. Marker("summary") \in Notes
    BY DEF Notes
  <1> QED BY <1>3, <1>6, <1>7, CutBegins

\* The report of progress takes the place of an older one.
LEMMA ProgressCuts ==
  ASSUME NEW late, NEW ms \in Seq(Message)
  PROVE  IsCut(InjectProgress(ms), ms) /\ Begins(InjectProgress(ms), late)
  <1> DEFINE I == {i \in DOMAIN ms : ~IsMarker(ms[i], "progress")}
             r == At(ms, I)
  <1>1. r \in Seq(Message) /\ \E h : Placed(r, ms, I, Len(ms), h)
    <2> HIDE DEF I
    <2> QED BY AtPlaces
  <1>2. PICK h : Placed(r, ms, I, Len(ms), h)
    BY <1>1
  <1> HIDE DEF r
  <1>3. Drawn(r, ms, h)
    <2>1. \A k \in 1 .. Len(r) : h[k] \in 1 .. Len(ms) /\ h[k] # 0
      BY <1>2 DEF Placed
    <2>2. h \in [1 .. Len(r) -> 0 .. Len(ms)]
      BY <1>2 DEF Placed
    <2>3. \A k \in 1 .. Len(r) : IF h[k] = 0 THEN r[k] \in Notes ELSE r[k] = ms[h[k]]
      BY <1>2, <2>1 DEF Placed
    <2>4. \A j \in 1 .. Len(ms) : Remark(ms[j]) => j \in I
      BY DEF Remark
    <2> HIDE DEF I
    <2>5. \A j \in 1 .. Len(ms) : Remark(ms[j]) => \E i \in 1 .. Len(r) : h[i] = j
      BY <1>2, <2>4 DEF Placed
    <2>6. \A j, k \in 1 .. Len(r) : j < k => h[j] < h[k]
      BY <1>2 DEF Placed
    <2> QED BY <2>2, <2>3, <2>5, <2>6 DEF Drawn
  <1>4. IsCut(r, ms)
    BY <1>1, <1>3 DEF IsCut
  <1>5. InjectProgress(ms) = <<Marker("progress")>> \o r
    BY DEF InjectProgress, r
  <1>6. Marker("progress") \in Notes
    BY DEF Notes
  <1> QED BY <1>4, <1>5, <1>6, CutBegins

\* What compaction may leave of a history.
LEMMA CompactCuts ==
  ASSUME NEW late, NEW ms \in Seq(Message),
         NEW kept \in UNION {Dropped(q) : q \in {ms} \cup autocompact(ms)}
  PROVE  IsCut(InjectProgress(kept), ms) /\ Begins(InjectProgress(kept), late)
  <1>1. PICK q \in {ms} \cup autocompact(ms) : kept \in Dropped(q)
    OBVIOUS
  <1>2. IsCut(q, ms)
    BY <1>1, CutNothing, SummaryCuts
  <1>3. q \in Seq(Message)
    BY <1>2 DEF IsCut
  <1>4. IsCut(kept, q)
    BY <1>1, <1>3, DroppedCuts
  <1>5. IsCut(kept, ms)
    BY <1>2, <1>4, CutTwice
  <1>6. kept \in Seq(Message)
    BY <1>4 DEF IsCut
  <1>7. IsCut(InjectProgress(kept), kept) /\ Begins(InjectProgress(kept), late)
    BY <1>6, ProgressCuts
  <1> QED BY <1>5, <1>7, CutTwice

\* Of a set of n places one has any given number of them from it on.
LEMMA LastPlaces ==
  ASSUME NEW n \in Nat, NEW T \in SUBSET (1 .. n),
         NEW t \in Nat \ {0}, t < Cardinality(T)
  PROVE  \E i \in T : Cardinality({j \in T : j >= i}) = t
  <1> DEFINE E == {k \in 0 .. t :
                     k = 0 \/ \E i \in T : Cardinality({j \in T : j >= i}) = k}
  <1>1. IsFiniteSet(T) /\ T \in SUBSET Nat
    <2>1. IsFiniteSet(1 .. n)
      BY FS_Interval
    <2>2. IsFiniteSet(T)
      BY <2>1, FS_Subset
    <2> QED BY <2>2
  <1>2. 0 \in E
    OBVIOUS
  <1>3. ASSUME NEW k \in 0 .. t, k < t, k \in E PROVE k + 1 \in E
    <2>1. CASE k = 0
      <3>1. T # {}
        BY <1>1, <1>3, <2>1, FS_EmptySet
      <3>2. Max(T) \in T /\ \A i \in T : i <= Max(T)
        BY <3>1, Greatest
      <3> DEFINE m == Max(T)
      <3>3. {j \in T : j >= m} = {m}
        <4>1. m \in T /\ m \in Nat /\ \A j \in T : j \in Nat /\ j <= m
          BY <1>1, <3>2
        <4> HIDE DEF m
        <4>2. ASSUME NEW j \in T PROVE j >= m <=> j = m
          BY <4>1
        <4> QED BY <4>1, <4>2
      <3> HIDE DEF m
      <3>4. Cardinality({j \in T : j >= m}) = 1
        BY <3>3, FS_Singleton
      <3>5. 1 \in 0 .. t /\ m \in T
        BY <1>3, <2>1, <3>2 DEF m
      <3> QED BY <2>1, <3>4, <3>5
    <2>2. CASE k # 0
      <3>1. PICK i \in T : Cardinality({j \in T : j >= i}) = k
        BY <1>3, <2>2
      <3> DEFINE B == {j \in T : j < i}
                 A == {j \in T : j >= i}
      <3>2. B # {}
        <4>1. ASSUME B = {} PROVE FALSE
          <5>1. \A j \in T : j \in Nat /\ ~(j < i)
            BY <1>1, <4>1
          <5>2. ASSUME NEW j \in T PROVE j >= i
            <6>1. i \in Nat /\ j \in Nat /\ ~(j < i)
              BY <1>1, <5>1
            <6> QED BY <6>1
          <5>3. A = T
            BY <5>2
          <5> QED BY <1>3, <3>1, <5>3
        <4> QED BY <4>1
      <3>3. B \in SUBSET (1 .. n)
        OBVIOUS
      <3> DEFINE m == Max(B)
      <3>4. m \in B /\ \A j \in B : j <= m
        <4> HIDE DEF B
        <4> QED BY <3>2, <3>3, Greatest
      <3> HIDE DEF m
      <3>5. {j \in T : j >= m} = A \cup {m}
        <4>1. ASSUME NEW j \in T, j >= m PROVE j \in A \cup {m}
          BY <1>1, <3>4, <4>1
        <4>2. ASSUME NEW j \in A PROVE j \in T /\ j >= m
          BY <1>1, <3>4
        <4>3. m \in T /\ m >= m
          BY <1>1, <3>4
        <4> QED BY <4>1, <4>2, <4>3
      <3>6. m \notin A
        BY <1>1, <3>4
      <3>7. IsFiniteSet(A)
        <4>1. A \in SUBSET T
          OBVIOUS
        <4> QED BY <1>1, <4>1, FS_Subset
      <3> HIDE DEF A
      <3>8. Cardinality({j \in T : j >= m}) = k + 1
        BY <3>1, <3>5, <3>6, <3>7, FS_AddElement DEF A
      <3>9. k + 1 \in 0 .. t /\ m \in T
        BY <1>3, <3>4
      <3> QED BY <3>8, <3>9
    <2> QED BY <2>1, <2>2
  <1>4. t \in E
    <2> HIDE DEF E
    <2> QED BY <1>2, <1>3, UpTo
  <1> QED BY <1>4

\* The fresh context of goal mode is a cut.
LEMMA TrimCuts ==
  ASSUME NEW late, NEW ms \in Seq(Message), NEW t \in Nat \ {0}
  PROVE  /\ IsCut(trimForFreshContext(ms, t), ms)
         /\ Begins(ms, late) => Begins(trimForFreshContext(ms, t), late)
  <1> DEFINE turns == identifyTurns(ms)
             first == CHOOSE i \in turns : Cardinality({j \in turns : j >= i}) = t
             tail == From(ms, first)
             r == extractPreviousSummary(tail)
  <1>1. trimForFreshContext(ms, t) =
          IF Cardinality(turns) <= t THEN ms ELSE <<Marker("summary")>> \o r
    BY DEF trimForFreshContext
  <1>2. turns \in SUBSET (1 .. Len(ms)) /\ Len(ms) \in Nat
    BY DEF identifyTurns
  <1> HIDE DEF turns
  <1>3. CASE Cardinality(turns) <= t
    BY <1>1, <1>3, CutNothing
  <1>4. CASE ~(Cardinality(turns) <= t)
    <2>1. t < Cardinality(turns)
      <3>1. IsFiniteSet(turns)
        <4>1. IsFiniteSet(1 .. Len(ms))
          BY <1>2, FS_Interval
        <4> QED BY <1>2, <4>1, FS_Subset
      <3>2. Cardinality(turns) \in Nat
        BY <3>1, FS_CardinalityType
      <3> QED BY <1>4, <3>2
    <2>2. first \in turns
      <3>1. \E i \in turns : Cardinality({j \in turns : j >= i}) = t
        BY <1>2, <2>1, LastPlaces
      <3> QED BY <3>1
    <2>3. first \in 1 .. Len(ms) + 1
      <3>1. first \in 1 .. Len(ms)
        BY <1>2, <2>2
      <3> HIDE DEF first
      <3> QED BY <1>2, <3>1
    <2> HIDE DEF first
    <2>4. IsCut(tail, ms)
      BY <2>3, CutFrom
    <2>5. tail \in Seq(Message)
      BY <2>4 DEF IsCut
    <2> HIDE DEF tail
    <2>6. IsCut(r, tail)
      BY <2>5, CutTail, CutNothing DEF extractPreviousSummary
    <2>7. IsCut(r, ms)
      BY <2>4, <2>6, CutTwice
    <2>8. Marker("summary") \in Notes
      BY DEF Notes
    <2> HIDE DEF r
    <2> QED BY <1>1, <1>4, <2>7, <2>8, CutBegins
  <1> QED BY <1>3, <1>4

\* A cut shows no answer that the history did not show.
LEMMA CutFresh ==
  ASSUME NEW ms \in Seq(Message), NEW r, IsCut(r, ms), NEW a, FreshAnswer(ms, a)
  PROVE  FreshAnswer(r, a)
  <1> SUFFICES ASSUME NEW i \in 1 .. Len(r), LastSays(r, i)
               PROVE  ~Stale(r[i].text, a)
    BY DEF FreshAnswer
  <1>1. r \in Seq(Message)
    BY DEF IsCut
  <1>2. PICK h : Drawn(r, ms, h)
    BY DEF IsCut
  <1>3. CASE h[i] = 0
    BY <1>2, <1>3, NoteFields DEF Drawn
  <1>4. CASE h[i] # 0
    <2>1. r[i] = ms[h[i]] /\ h[i] \in 1 .. Len(ms)
      BY <1>2, <1>4 DEF Drawn
    <2>2. ASSUME NEW j \in 1 .. Len(ms), j > h[i], Remark(ms[j]) PROVE FALSE
      <3>1. PICK x \in 1 .. Len(r) : h[x] = j
        BY <1>2, <1>4, <2>1, <2>2 DEF Drawn
      <3>2. r[x] = ms[j]
        BY <1>2, <2>1, <2>2, <3>1 DEF Drawn
      <3>3. ~(x < i)
        <4>1. ASSUME x < i PROVE h[x] < h[i]
          BY <1>2, <1>4, <2>1, <2>2, <3>1, <4>1 DEF Drawn
        <4> QED BY <2>1, <2>2, <3>1, <4>1
      <3>4. x # i
        BY <2>1, <2>2, <3>1
      <3>5. x > i
        BY <1>1, <3>3, <3>4
      <3> QED BY <2>2, <3>2, <3>5 DEF LastSays
    <2>3. LastSays(ms, h[i])
      BY <2>1, <2>2 DEF LastSays
    <2> QED BY <2>1, <2>3 DEF FreshAnswer
  <1> QED BY <1>3, <1>4

-----------------------------------------------------------------------------
(* Calls and their answers.                                                *)

\* Each call is declared once and answered once, and the model did not speak
\* between the two.
Tidy(ms) ==
  /\ \A i, j \in 1 .. Len(ms) : \A c :
       c \in ToSet(ms[i].uses) /\ c \in ToSet(ms[j].uses) => i = j
  /\ \A i, j \in 1 .. Len(ms) : \A c :
       c \in ms[i].results /\ c \in ms[j].results => i = j
  /\ \A i, j \in 1 .. Len(ms) : \A c :
       c \in ToSet(ms[i].uses) /\ c \in ms[j].results
         => i < j /\ \A k \in 1 .. Len(ms) : i < k /\ k < j => ms[k].type # "assistant"

\* No call has a number above n.
Known(ms, n) ==
  \A i \in 1 .. Len(ms) : \A c :
    c \in ToSet(ms[i].uses) \/ c \in ms[i].results => c.id <= n

\* Every call and every answer of r, a history that comes of ms, is at a place
\* of ms, and the model's messages of r are some of those of ms, in their order.
Descends(r, ms, h) ==
  /\ h \in [1 .. Len(r) -> 0 .. Len(ms)]
  /\ \A k \in 1 .. Len(r) : \A c :
       /\ c \in ToSet(r[k].uses) => h[k] # 0 /\ c \in ToSet(ms[h[k]].uses)
       /\ c \in r[k].results => h[k] # 0 /\ c \in ms[h[k]].results
  /\ \A k \in 1 .. Len(r) :
       r[k].type = "assistant" => h[k] # 0 /\ ms[h[k]].type = "assistant"
  /\ \A j, k \in 1 .. Len(r) : j < k /\ h[j] # 0 /\ h[k] # 0 => h[j] < h[k]

\* It is tidy too, and shows no other call.
LEMMA DescendsTidy ==
  ASSUME NEW ms \in Seq(Message), NEW r \in Seq(Message), NEW h, Descends(r, ms, h)
  PROVE  /\ Tidy(ms) => Tidy(r)
         /\ \A n : Known(ms, n) => Known(r, n)
  <1>1. \A k \in 1 .. Len(r) : h[k] \in 0 .. Len(ms) /\ (h[k] # 0 => h[k] \in 1 .. Len(ms))
    BY DEF Descends
  <1>2. ASSUME NEW j \in 1 .. Len(r), NEW k \in 1 .. Len(r),
               h[j] # 0, h[k] # 0, h[j] = h[k]
        PROVE  j = k
    <2>1. ~(j < k) /\ ~(k < j)
      BY <1>1, <1>2 DEF Descends
    <2> QED BY <2>1
  <1>3. ASSUME NEW n, Known(ms, n) PROVE Known(r, n)
    BY <1>1, <1>3 DEF Known, Descends
  <1>4. ASSUME Tidy(ms) PROVE Tidy(r)
    <2>1. ASSUME NEW i \in 1 .. Len(r), NEW j \in 1 .. Len(r), NEW c,
                 c \in ToSet(r[i].uses), c \in ToSet(r[j].uses)
          PROVE  i = j
      <3>1. /\ h[i] # 0 /\ c \in ToSet(ms[h[i]].uses)
            /\ h[j] # 0 /\ c \in ToSet(ms[h[j]].uses)
        BY <2>1 DEF Descends
      <3>2. h[i] = h[j]
        BY <1>1, <1>4, <3>1 DEF Tidy
      <3> QED BY <1>2, <3>1, <3>2
    <2>2. ASSUME NEW i \in 1 .. Len(r), NEW j \in 1 .. Len(r), NEW c,
                 c \in r[i].results, c \in r[j].results
          PROVE  i = j
      <3>1. /\ h[i] # 0 /\ c \in ms[h[i]].results
            /\ h[j] # 0 /\ c \in ms[h[j]].results
        BY <2>2 DEF Descends
      <3>2. h[i] = h[j]
        BY <1>1, <1>4, <3>1 DEF Tidy
      <3> QED BY <1>2, <3>1, <3>2
    <2>3. ASSUME NEW i \in 1 .. Len(r), NEW j \in 1 .. Len(r), NEW c,
                 c \in ToSet(r[i].uses), c \in r[j].results
          PROVE  i < j /\ \A k \in 1 .. Len(r) : i < k /\ k < j => r[k].type # "assistant"
      <3>1. /\ h[i] # 0 /\ c \in ToSet(ms[h[i]].uses)
            /\ h[j] # 0 /\ c \in ms[h[j]].results
        BY <2>3 DEF Descends
      <3>2. /\ h[i] < h[j]
            /\ \A k \in 1 .. Len(ms) : h[i] < k /\ k < h[j] => ms[k].type # "assistant"
        BY <1>1, <1>4, <3>1 DEF Tidy
      <3>3. i < j
        <4>1. i # j
          BY <1>1, <3>2
        <4>2. ~(j < i)
          <5>1. ASSUME j < i PROVE h[j] < h[i]
            BY <3>1, <5>1 DEF Descends
          <5> QED BY <1>1, <3>2, <5>1
        <4> QED BY <4>1, <4>2
      <3>4. ASSUME NEW k \in 1 .. Len(r), i < k, k < j, r[k].type = "assistant"
            PROVE  FALSE
        <4>1. h[k] # 0 /\ ms[h[k]].type = "assistant" /\ h[k] \in 1 .. Len(ms)
          BY <1>1, <3>4 DEF Descends
        <4>2. h[i] < h[k] /\ h[k] < h[j]
          BY <3>1, <3>4, <4>1 DEF Descends
        <4> QED BY <3>2, <4>1, <4>2
      <3> QED BY <3>3, <3>4
    <2> QED BY <2>1, <2>2, <2>3 DEF Tidy
  <1> QED BY <1>3, <1>4

\* So is a cut.
LEMMA CutTidy ==
  ASSUME NEW ms \in Seq(Message), NEW r, IsCut(r, ms)
  PROVE  /\ Tidy(ms) => Tidy(r)
         /\ \A n : Known(ms, n) => Known(r, n)
  <1>1. r \in Seq(Message)
    BY DEF IsCut
  <1>2. PICK h : Drawn(r, ms, h)
    BY DEF IsCut
  <1>3. ASSUME NEW k \in 1 .. Len(r)
        PROVE  \/ /\ h[k] = 0 /\ ToSet(r[k].uses) = {} /\ r[k].results = {}
                  /\ r[k].type = "user"
               \/ h[k] # 0 /\ r[k] = ms[h[k]]
    BY <1>2, NoteFields DEF Drawn
  <1>4. Descends(r, ms, h)
    BY <1>2, <1>3 DEF Drawn, Descends
  <1> QED BY <1>1, <1>4, DescendsTidy

\* So is a history that was repaired, and it starts like the old one.
LEMMA RepairTidy ==
  ASSUME NEW late, NEW ms \in Seq(Message)
  PROVE  /\ Tidy(ms) => Tidy(repairToolResultPairing(ms))
         /\ \A n : Known(ms, n) => Known(repairToolResultPairing(ms), n)
         /\ Begins(ms, late) => Begins(repairToolResultPairing(ms), late)
  <1> DEFINE r == repairToolResultPairing(ms)
  <1>1. r \in Seq(Message)
    BY RepairedMessages
  <1>2. PICK h : Repaired(ms, r, h)
    BY RepairedMessages
  <1> HIDE DEF r
  <1>3. \A k \in 1 .. Len(r) : h[k] \in 1 .. Len(ms) /\ h[k] # 0 /\ h[k] \in 0 .. Len(ms)
    BY <1>2 DEF Repaired
  <1>4. Descends(r, ms, h)
    <2>1. h \in [1 .. Len(r) -> 0 .. Len(ms)]
      BY <1>2, <1>3 DEF Repaired
    <2> QED BY <1>2, <1>3, <2>1 DEF Repaired, Descends
  <1>5. ASSUME Begins(ms, late) PROVE Begins(r, late)
    <2>1. PICK i \in 1 .. Len(ms) :
            ms[i].type = "user" /\ ms[i].text # <<>> /\ (i # 1 => late)
      BY <1>5 DEF Begins
    <2>2. PICK k \in 1 .. Len(r) : h[k] = i
      BY <1>2, <2>1 DEF Repaired, Stays
    <2>3. k # 1 => i # 1
      <3>1. ASSUME k # 1 PROVE i # 1
        <4>1. 1 \in 1 .. Len(r) /\ 1 < k
          BY <1>1, <3>1
        <4>2. h[1] < h[k] /\ h[1] \in 1 .. Len(ms)
          BY <1>2, <1>3, <4>1 DEF Repaired
        <4> QED BY <2>2, <4>2
      <3> QED BY <3>1
    <2>4. r[k].type = "user" /\ r[k].text # <<>>
      BY <1>2, <2>1, <2>2 DEF Repaired
    <2> QED BY <2>1, <2>3, <2>4 DEF Begins
  <1> QED BY <1>1, <1>4, <1>5, DescendsTidy DEF r

\* Messages of a role put together are tidy if they were, and start as before.
LEMMA EnforceTidy ==
  ASSUME NEW late, NEW ms \in Seq(Message)
  PROVE  /\ Tidy(ms) => Tidy(enforceAlternatingTurns(ms))
         /\ \A n : Known(ms, n) => Known(enforceAlternatingTurns(ms), n)
         /\ Begins(ms, late) => Begins(enforceAlternatingTurns(ms), late)
  <1> DEFINE r == enforceAlternatingTurns(ms)
  <1>1. r \in Seq(Message)
    BY Enforced
  <1>2. PICK g : Grouped(ms, Len(ms), r, g)
    BY Enforced
  <1> HIDE DEF r
  <1>3. /\ \A i \in 1 .. Len(ms) : ms[i] \in Message /\ g[i] \in 1 .. Len(r)
        /\ \A k \in 1 .. Len(r) : r[k] \in Message
    <2>1. g \in [1 .. Len(ms) -> 1 .. Len(r)]
      BY <1>2 DEF Grouped
    <2> QED BY <1>1, <2>1
  <1>4. ASSUME NEW k \in 1 .. Len(r), NEW c, c \in ToSet(r[k].uses)
        PROVE  \E i \in 1 .. Len(ms) : g[i] = k /\ c \in ToSet(ms[i].uses)
    BY <1>2, <1>4 DEF Grouped
  <1>5. ASSUME NEW k \in 1 .. Len(r), NEW c, c \in r[k].results
        PROVE  \E i \in 1 .. Len(ms) : g[i] = k /\ c \in ms[i].results
    BY <1>2, <1>5 DEF Grouped
  <1>6. \A i, j \in 1 .. Len(ms) : g[i] < g[j] => i < j
    <2> TAKE i, j \in 1 .. Len(ms)
    <2>1. i = j \/ i < j \/ j < i
      OBVIOUS
    <2>2. j < i => g[j] <= g[i]
      BY <1>2 DEF Grouped
    <2> QED BY <1>3, <2>1, <2>2
  <1>7. ASSUME NEW n, Known(ms, n) PROVE Known(r, n)
    BY <1>4, <1>5, <1>7 DEF Known
  <1>8. ASSUME Tidy(ms) PROVE Tidy(r)
    <2>1. ASSUME NEW k \in 1 .. Len(r), NEW l \in 1 .. Len(r), NEW c,
                 c \in ToSet(r[k].uses), c \in ToSet(r[l].uses)
          PROVE  k = l
      <3>1. PICK i \in 1 .. Len(ms) : g[i] = k /\ c \in ToSet(ms[i].uses)
        BY <1>4, <2>1
      <3>2. PICK j \in 1 .. Len(ms) : g[j] = l /\ c \in ToSet(ms[j].uses)
        BY <1>4, <2>1
      <3> QED BY <1>8, <3>1, <3>2 DEF Tidy
    <2>2. ASSUME NEW k \in 1 .. Len(r), NEW l \in 1 .. Len(r), NEW c,
                 c \in r[k].results, c \in r[l].results
          PROVE  k = l
      <3>1. PICK i \in 1 .. Len(ms) : g[i] = k /\ c \in ms[i].results
        BY <1>5, <2>2
      <3>2. PICK j \in 1 .. Len(ms) : g[j] = l /\ c \in ms[j].results
        BY <1>5, <2>2
      <3> QED BY <1>8, <3>1, <3>2 DEF Tidy
    <2>3. ASSUME NEW k \in 1 .. Len(r), NEW l \in 1 .. Len(r), NEW c,
                 c \in ToSet(r[k].uses), c \in r[l].results
          PROVE  k < l /\ \A x \in 1 .. Len(r) : k < x /\ x < l => r[x].type # "assistant"
      <3>1. PICK i \in 1 .. Len(ms) : g[i] = k /\ c \in ToSet(ms[i].uses)
        BY <1>4, <2>3
      <3>2. PICK j \in 1 .. Len(ms) : g[j] = l /\ c \in ms[j].results
        BY <1>5, <2>3
      <3>3. /\ i < j
            /\ \A x \in 1 .. Len(ms) : i < x /\ x < j => ms[x].type # "assistant"
        BY <1>8, <3>1, <3>2 DEF Tidy
      <3>4. k <= l
        BY <1>2, <3>1, <3>2, <3>3 DEF Grouped
      <3>5. k # l
        <4>1. ms[i].uses # <<>> /\ ms[j].results # {}
          BY <3>1, <3>2 DEF ToSet
        <4>2. Role(ms[i]) = "assistant" /\ Role(ms[j]) # "assistant"
          BY <1>3, <4>1, MessageFields
        <4>3. Role(ms[i]) = Role(r[k]) /\ Role(ms[j]) = Role(r[l])
          BY <1>2, <3>1, <3>2 DEF Grouped
        <4> QED BY <4>2, <4>3
      <3>6. ASSUME NEW x \in 1 .. Len(r), k < x, x < l, r[x].type = "assistant"
            PROVE  FALSE
        <4>1. PICK y \in 1 .. Len(ms) : g[y] = x
          BY <1>2 DEF Grouped
        <4>2. i < y /\ y < j
          BY <1>6, <3>1, <3>2, <3>6, <4>1
        <4>3. Role(ms[y]) = Role(r[x])
          BY <1>2, <4>1 DEF Grouped
        <4>4. ms[y].type = "assistant"
          BY <1>3, <3>6, <4>3, MessageFields
        <4> QED BY <3>3, <4>2, <4>4
      <3> QED BY <3>4, <3>5, <3>6
    <2> QED BY <2>1, <2>2, <2>3 DEF Tidy
  <1>9. ASSUME Begins(ms, late) PROVE Begins(r, late)
    <2>1. PICK i \in 1 .. Len(ms) :
            ms[i].type = "user" /\ ms[i].text # <<>> /\ (i # 1 => late)
      BY <1>9 DEF Begins
    <2> DEFINE k == g[i]
    <2>2. k \in 1 .. Len(r)
      BY <1>3
    <2>3. k # 1 => i # 1
      <3>1. 1 \in 1 .. Len(r)
        BY <1>1, <2>2
      <3>2. PICK j \in 1 .. Len(ms) : g[j] = 1
        BY <1>2, <3>1 DEF Grouped
      <3>3. j = i \/ i < j \/ j < i
        OBVIOUS
      <3>4. i < j => g[i] <= 1
        BY <1>2, <3>2 DEF Grouped
      <3> QED BY <2>2, <3>2, <3>3, <3>4
    <2>4. Role(ms[i]) = Role(r[k]) /\ r[k].text # <<>>
      BY <1>2, <2>1 DEF Grouped
    <2> HIDE DEF k
    <2>5. Role(r[k]) = "user"
      BY <2>1, <2>4 DEF Role
    <2>6. r[k].type = "user"
      <3>1. r[k] \in Message
        BY <1>3, <2>2
      <3>2. r[k].type # "assistant"
        BY <2>5, <3>1, MessageFields
      <3>3. r[k] \in ResultMessage => r[k].text = <<>>
        BY DEF ResultMessage
      <3> QED BY <2>4, <3>1, <3>2, <3>3, MessageFields
    <2> QED BY <2>1, <2>2, <2>3, <2>4, <2>6 DEF Begins
  <1> QED BY <1>7, <1>8, <1>9 DEF r

\* What every history of the program is, if n calls were made.
History(ms, n, late) ==
  ms \in Seq(Message) /\ Begins(ms, late) /\ Tidy(ms) /\ Known(ms, n)

\* The history of a checkpoint stays one when it is sanitized.
LEMMA SanitizeHistory ==
  ASSUME NEW late, NEW ms, NEW n, History(ms, n, late)
  PROVE  History(sanitizeResumedMessages(ms), n, late)
  <1> DEFINE q == repairToolResultPairing(ms)
             r == enforceAlternatingTurns(q)
  <1>1. ms \in Seq(Message) /\ Begins(ms, late) /\ Tidy(ms) /\ Known(ms, n)
    BY DEF History
  <1>2. q \in Seq(Message) /\ Begins(q, late) /\ Tidy(q) /\ Known(q, n)
    BY <1>1, RepairedMessages, RepairTidy
  <1> HIDE DEF q
  <1>3. r \in Seq(Message) /\ Begins(r, late) /\ Tidy(r) /\ Known(r, n)
    BY <1>2, Enforced, EnforceTidy
  <1> HIDE DEF r
  <1>4. sanitizeResumedMessages(ms) = r
    BY DEF sanitizeResumedMessages, q, r
  <1> QED BY <1>3, <1>4 DEF History

\* A cut that starts with a note, or with what the history started with.
LEMMA CutHistory ==
  ASSUME NEW late, NEW ms, NEW n, History(ms, n, late), NEW r, IsCut(r, ms), Begins(r, late)
  PROVE  History(r, n, late)
  <1>1. ms \in Seq(Message) /\ r \in Seq(Message)
    BY DEF History, IsCut
  <1> QED BY <1>1, CutTidy DEF History

\* The elements of a sequence with one more.
LEMMA AppendPlaces ==
  ASSUME NEW T, NEW s \in Seq(T), NEW x \in T
  PROVE  /\ Append(s, x) \in Seq(T) /\ Append(s, x) # <<>>
         /\ Len(Append(s, x)) = Len(s) + 1
         /\ \A i \in 1 .. Len(s) : Append(s, x)[i] = s[i]
         /\ Append(s, x)[Len(s) + 1] = x
         /\ \A i \in 1 .. Len(s) + 1 : i \in 1 .. Len(s) \/ i = Len(s) + 1
  OBVIOUS

\* A message that answers no call, with new calls or none, at the end.
LEMMA AppendHistory ==
  ASSUME NEW late, NEW ms, NEW n \in Nat, History(ms, n, late), NEW p \in Nat, n <= p,
         NEW m \in Message, m.results = {},
         \A c \in ToSet(m.uses) : ~(c.id <= n) /\ c.id <= p
  PROVE  History(Append(ms, m), p, late)
  <1> DEFINE r == Append(ms, m)
             L == Len(ms)
  <1>1. ms \in Seq(Message) /\ Begins(ms, late) /\ Tidy(ms) /\ Known(ms, n) /\ L \in Nat
    BY DEF History
  <1>2. /\ r \in Seq(Message) /\ r # <<>> /\ Len(r) = L + 1
        /\ \A i \in 1 .. L : r[i] = ms[i]
        /\ r[L + 1] = m
        /\ \A i \in 1 .. Len(r) : i \in 1 .. L \/ i = L + 1
    BY <1>1, AppendPlaces
  <1> HIDE DEF r, L
  <1>3. ASSUME NEW i \in 1 .. L, NEW c, c \in ToSet(m.uses)
        PROVE  c \notin ToSet(ms[i].uses) /\ c \notin ms[i].results
    BY <1>1, <1>3 DEF Known, L
  <1>4. Begins(r, late)
    <2>1. PICK i \in 1 .. L : ms[i].type = "user" /\ ms[i].text # <<>> /\ (i # 1 => late)
      BY <1>1 DEF Begins, L
    <2>2. i \in 1 .. Len(r) /\ r[i] = ms[i]
      BY <1>1, <1>2, <2>1
    <2> QED BY <2>1, <2>2 DEF Begins
  <1>5. Known(r, p)
    <2> SUFFICES ASSUME NEW i \in 1 .. Len(r), NEW c,
                        c \in ToSet(r[i].uses) \/ c \in r[i].results
                 PROVE  c.id <= p
      BY DEF Known
    <2>1. CASE i \in 1 .. L
      <3>1. c.id <= n
        BY <1>1, <1>2, <2>1 DEF Known, L
      <3>2. c.id \in Nat
        <4>1. ms[i] \in Message
          BY <1>1, <2>1 DEF L
        <4>2. ms[i].uses \in Seq(ToolCall) /\ ms[i].results \in SUBSET ToolCall
          BY <4>1, MessageFields
        <4>3. c \in ToolCall
          BY <1>2, <2>1, <4>2 DEF ToSet
        <4> QED BY <4>3 DEF ToolCall
      <3> QED BY <3>1, <3>2
    <2>2. CASE i = L + 1
      BY <1>2, <2>2
    <2> QED BY <1>2, <2>1, <2>2
  <1>6. Tidy(r)
    <2>1. ASSUME NEW i \in 1 .. Len(r), NEW j \in 1 .. Len(r), NEW c,
                 c \in ToSet(r[i].uses), c \in ToSet(r[j].uses)
          PROVE  i = j
      BY <1>1, <1>2, <1>3, <2>1 DEF Tidy, L
    <2>2. ASSUME NEW i \in 1 .. Len(r), NEW j \in 1 .. Len(r), NEW c,
                 c \in r[i].results, c \in r[j].results
          PROVE  i = j
      BY <1>1, <1>2, <2>2 DEF Tidy, L
    <2>3. ASSUME NEW i \in 1 .. Len(r), NEW j \in 1 .. Len(r), NEW c,
                 c \in ToSet(r[i].uses), c \in r[j].results
          PROVE  i < j /\ \A k \in 1 .. Len(r) : i < k /\ k < j => r[k].type # "assistant"
      <3>1. j \in 1 .. L /\ i \in 1 .. L
        BY <1>2, <1>3, <2>3
      <3>2. /\ i < j
            /\ \A k \in 1 .. L : i < k /\ k < j => ms[k].type # "assistant"
        BY <1>1, <1>2, <2>3, <3>1 DEF Tidy, L
      <3>3. \A k \in 1 .. Len(r) : k < j => k \in 1 .. L
        BY <1>1, <1>2, <3>1
      <3> QED BY <1>2, <3>2, <3>3
    <2> QED BY <2>1, <2>2, <2>3 DEF Tidy
  <1> QED BY <1>2, <1>4, <1>5, <1>6 DEF History, r

\* A text of the user or of the program.
LEMMA TextHistory ==
  ASSUME NEW late, NEW b \in TextBlock, NEW n \in Nat
  PROVE  /\ History(<<User(b)>>, n, late) /\ Append(<<>>, User(b)) = <<User(b)>>
         /\ \A ms : History(ms, n, late) => History(Append(ms, User(b)), n, late)
  <1> DEFINE u == User(b)
             r == <<u>>
  <1>1. u \in Message /\ u.type = "user" /\ u.text # <<>> /\ ToSet(u.uses) = {} /\ u.results = {}
    BY UserText
  <1> HIDE DEF u
  <1>2. r \in Seq(Message) /\ r # <<>> /\ Len(r) = 1 /\ r[1] = u
    BY <1>1
  <1> HIDE DEF r
  <1>3. History(r, n, late)
    <2>1. \A i \in 1 .. Len(r) : i = 1 /\ ToSet(r[i].uses) = {} /\ r[i].results = {}
      BY <1>1, <1>2
    <2>2. Begins(r, late)
      <3>1. 1 \in 1 .. Len(r)
        BY <1>2
      <3> QED BY <1>1, <1>2, <3>1 DEF Begins
    <2>3. Tidy(r)
      BY <2>1 DEF Tidy
    <2>4. Known(r, n)
      BY <2>1 DEF Known
    <2> QED BY <1>2, <2>2, <2>3, <2>4 DEF History
  <1>4. ASSUME NEW ms, History(ms, n, late) PROVE History(Append(ms, u), n, late)
    BY <1>1, <1>4, AppendHistory
  <1>5. Append(<<>>, u) = <<u>>
    OBVIOUS
  <1> QED BY <1>3, <1>4, <1>5 DEF u, r

\* A message of the model without calls.
LEMMA AssistantHistory ==
  ASSUME NEW late, NEW t \in Seq(TextBlock), NEW n \in Nat
  PROVE  /\ Assistant(t, <<>>) \in Message
         /\ \A ms : History(ms, n, late) => History(Append(ms, Assistant(t, <<>>)), n, late)
  <1> DEFINE m == Assistant(t, <<>>)
  <1>1. m \in Message /\ m.results = {} /\ ToSet(m.uses) = {}
    <2>1. <<>> \in Seq(ToolCall) /\ ToSet(<<>>) = {}
      BY DEF ToSet
    <2> QED BY <2>1 DEF Message, AssistantMessage, Assistant
  <1> HIDE DEF m
  <1>2. ASSUME NEW ms, History(ms, n, late) PROVE History(Append(ms, m), n, late)
    BY <1>1, <1>2, AppendHistory
  <1> QED BY <1>1, <1>2 DEF m

\* The answer to a plan gives way to its outcome: the calls stay.
LEMMA StripMessages ==
  ASSUME NEW ms \in Seq(Message), NEW k \in {"approve", "cancel", "revise"},
         NEW r, r = stripSentinelFromMessages(ms, k)
  PROVE  /\ r \in Seq(Message) /\ Len(r) = Len(ms)
         /\ \A i \in 1 .. Len(ms) :
              /\ r[i].type = ms[i].type /\ r[i].uses = ms[i].uses
              /\ r[i].results = ms[i].results
              /\ ms[i].text # <<>> => r[i].text # <<>>
  <1> DEFINE i == LastUser(ms)
             x == ms[i].text
             t == [j \in DOMAIN x |-> [x[j] EXCEPT !.kind = OutcomeOf(k)]]
             m == [ms[i] EXCEPT !.text = t]
  <1>1. r = IF i = 0 THEN ms ELSE [ms EXCEPT ![i] = m]
    BY DEF stripSentinelFromMessages
  <1>2. CASE i = 0
    BY <1>1, <1>2
  <1>3. CASE i # 0
    <2>1. i \in 1 .. Len(ms) /\ ms[i].type = "user"
      BY <1>3, LastUserFound
    <2> HIDE DEF i
    <2>2. ms[i] \in UserMessage /\ x \in Seq(TextBlock)
      <3>1. ms[i] \in Message
        BY <2>1
      <3> QED BY <2>1, <3>1, MessageFields
    <2>3. t \in Seq(TextBlock) /\ (x # <<>> => t # <<>>)
      <3>1. OutcomeOf(k) \in Outcomes
        BY DEF OutcomeOf, Outcomes
      <3>2. ASSUME NEW j \in DOMAIN x
            PROVE  [x[j] EXCEPT !.kind = OutcomeOf(k)] \in TextBlock
        <4>1. x[j] \in TextBlock
          BY <2>2
        <4> QED BY <3>1, <4>1 DEF TextBlock
      <3>3. DOMAIN x = 1 .. Len(x) /\ Len(x) \in Nat
        BY <2>2
      <3> HIDE DEF x
      <3>4. t \in [1 .. Len(x) -> TextBlock]
        BY <3>2, <3>3
      <3>5. t \in Seq(TextBlock) /\ Len(t) = Len(x)
        <4> HIDE DEF t
        <4> QED BY <3>3, <3>4
      <3>6. x # <<>> => Len(x) # 0
        BY <2>2
      <3> HIDE DEF t
      <3> QED BY <3>5, <3>6
    <2> HIDE DEF t
    <2>4. /\ m \in Message /\ m.type = ms[i].type /\ m.uses = ms[i].uses
          /\ m.results = ms[i].results /\ m.text = t
      <3> HIDE DEF x
      <3>1. CASE ms[i] \in PlainMessage
        BY <2>3, <3>1 DEF Message, UserMessage, PlainMessage
      <3>2. CASE ms[i] \in MixedMessage
        BY <2>3, <3>2 DEF Message, UserMessage, MixedMessage
      <3> QED BY <2>2, <3>1, <3>2 DEF UserMessage
    <2> HIDE DEF m
    <2>5. r = [ms EXCEPT ![i] = m]
      BY <1>1, <1>3
    <2>6. r \in Seq(Message) /\ Len(r) = Len(ms)
      BY <2>1, <2>4, <2>5
    <2>7. \A j \in 1 .. Len(ms) : r[j] = IF j = i THEN m ELSE ms[j]
      BY <2>1, <2>5
    <2> QED BY <2>3, <2>4, <2>6, <2>7
  <1> QED BY <1>2, <1>3

\* The history stays one.
LEMMA StripHistory ==
  ASSUME NEW late, NEW ms, NEW n, History(ms, n, late), NEW k \in {"approve", "cancel", "revise"}
  PROVE  History(stripSentinelFromMessages(ms, k), n, late)
  <1> DEFINE r == stripSentinelFromMessages(ms, k)
             h == [i \in 1 .. Len(ms) |-> i]
  <1>1. ms \in Seq(Message)
    BY DEF History
  <1> HIDE DEF r
  <1>2. /\ r \in Seq(Message) /\ Len(r) = Len(ms)
        /\ \A i \in 1 .. Len(ms) :
             /\ r[i].type = ms[i].type /\ r[i].uses = ms[i].uses
             /\ r[i].results = ms[i].results
             /\ ms[i].text # <<>> => r[i].text # <<>>
    BY <1>1, StripMessages DEF r
  <1>3. Descends(r, ms, h)
    <2>1. \A i \in 1 .. Len(ms) : h[i] = i /\ h[i] # 0 /\ h[i] \in 0 .. Len(ms)
      BY <1>1
    <2> HIDE DEF h
    <2>2. h \in [1 .. Len(r) -> 0 .. Len(ms)]
      BY <1>2, <2>1 DEF h
    <2> QED BY <1>2, <2>1, <2>2 DEF Descends
  <1>4. Begins(r, late)
    <2>1. PICK i \in 1 .. Len(ms) :
            ms[i].type = "user" /\ ms[i].text # <<>> /\ (i # 1 => late)
      BY DEF History, Begins
    <2>2. i \in 1 .. Len(r) /\ r[i].type = "user" /\ r[i].text # <<>>
      BY <1>2, <2>1
    <2> QED BY <2>1, <2>2 DEF Begins
  <1> HIDE DEF h
  <1>5. Tidy(r) /\ Known(r, n)
    BY <1>1, <1>2, <1>3, DescendsTidy DEF History
  <1> QED BY <1>2, <1>4, <1>5 DEF History, r

\* The calls of the last message wait for their results.
Pending(ms) ==
  /\ ms # <<>>
  /\ ms[Len(ms)].type = "assistant"
  /\ \A i, j \in 1 .. Len(ms[Len(ms)].uses) :
       ms[Len(ms)].uses[i] = ms[Len(ms)].uses[j] => i = j
  /\ \A c \in ToSet(ms[Len(ms)].uses), i \in 1 .. Len(ms) : c \notin ms[i].results

\* r are results of some of the calls of us, in their order.
AreResults(r, us, lost) ==
  /\ r \in Seq(Message)
  /\ \A k \in 1 .. Len(r) :
       /\ r[k].type = "tool_result" /\ ToSet(r[k].uses) = {}
       /\ \E c \in ToSet(us) \ lost : r[k].results = {c}
  /\ \A c \in ToSet(us) \ lost : \E k \in 1 .. Len(r) : r[k].results = {c}
  /\ (\A i, j \in 1 .. Len(us) : us[i] = us[j] => i = j)
       => \A i, j \in 1 .. Len(r) : r[i].results = r[j].results => i = j

\* Results has one for every call of the last message that was not lost.
LEMMA ResultsOfCalls ==
  ASSUME messages \in Seq(Message), messages # <<>>, NEW lost
  PROVE  AreResults(Results(lost), messages[Len(messages)].uses, lost)
  <1> DEFINE us == messages[Len(messages)].uses
             I == {i \in DOMAIN us : us[i] \notin lost}
             kept == At(us, I)
             r == [i \in DOMAIN kept |-> ToolResult(kept[i])]
  <1>1. Results(lost) = r
    BY DEF Results, Last
  <1>2. us \in Seq(ToolCall)
    <2>1. messages[Len(messages)] \in Message
      OBVIOUS
    <2> QED BY <2>1, MessageFields
  <1> HIDE DEF us
  <1>3. kept \in Seq(ToolCall) /\ \E h : Placed(kept, us, I, Len(us), h)
    <2> HIDE DEF I
    <2> QED BY <1>2, AtPlaces
  <1>4. PICK h : Placed(kept, us, I, Len(us), h)
    BY <1>3
  <1> HIDE DEF kept
  <1>5. ASSUME NEW c \in ToolCall
        PROVE  /\ ToolResult(c) \in Message /\ ToolResult(c).type = "tool_result"
               /\ ToSet(ToolResult(c).uses) = {} /\ ToolResult(c).results = {c}
    <2>1. ToSet(<<>>) = {}
      BY DEF ToSet
    <2>2. ToolResult(c) \in ResultMessage
      BY DEF ToolResult, ResultMessage
    <2> QED BY <2>1, <2>2 DEF ToolResult, Message
  <1>6. DOMAIN kept = 1 .. Len(kept) /\ DOMAIN us = 1 .. Len(us) /\ Len(kept) \in Nat
    BY <1>2, <1>3
  <1>7. ASSUME NEW k \in 1 .. Len(kept)
        PROVE  /\ r[k] \in Message /\ r[k].type = "tool_result" /\ ToSet(r[k].uses) = {}
               /\ r[k].results = {kept[k]}
               /\ kept[k] = us[h[k]] /\ h[k] \in I /\ kept[k] \in ToSet(us) \ lost
    <2>1. kept[k] \in ToolCall /\ r[k] = ToolResult(kept[k])
      BY <1>3, <1>6
    <2>2. kept[k] = us[h[k]] /\ h[k] \in I
      BY <1>4 DEF Placed
    <2>3. kept[k] \in ToSet(us) \ lost
      BY <1>6, <2>2 DEF ToSet
    <2> HIDE DEF r, I
    <2> QED BY <1>5, <2>1, <2>2, <2>3
  <1>8. r \in [1 .. Len(kept) -> Message]
    <2>1. r = [k \in 1 .. Len(kept) |-> r[k]]
      BY <1>6
    <2> HIDE DEF r
    <2> QED BY <1>7, <2>1
  <1> HIDE DEF r
  <1>9. r \in Seq(Message) /\ Len(r) = Len(kept)
    BY <1>6, <1>8
  <1>10. ASSUME NEW c \in ToSet(us) \ lost
         PROVE  \E k \in 1 .. Len(r) : r[k].results = {c}
    <2>1. PICK i \in 1 .. Len(us) : us[i] = c
      BY <1>6 DEF ToSet
    <2>2. i \in I
      BY <1>6, <2>1
    <2>3. PICK k \in 1 .. Len(kept) : h[k] = i
      BY <1>4, <2>2 DEF Placed
    <2> QED BY <1>7, <1>9, <2>1, <2>3
  <1>11. ASSUME \A i, j \in 1 .. Len(us) : us[i] = us[j] => i = j,
                NEW i \in 1 .. Len(r), NEW j \in 1 .. Len(r),
                r[i].results = r[j].results
         PROVE  i = j
    <2>1. us[h[i]] = us[h[j]]
      <3>1. kept[i] = us[h[i]] /\ kept[j] = us[h[j]]
        BY <1>7, <1>9
      <3>2. {kept[i]} = {kept[j]}
        BY <1>7, <1>9, <1>11
      <3>3. kept[i] = kept[j]
        BY <3>2
      <3> QED BY <3>1, <3>3
    <2>2. h[i] \in 1 .. Len(us) /\ h[j] \in 1 .. Len(us)
      BY <1>4, <1>9 DEF Placed
    <2>3. h[i] = h[j]
      BY <1>11, <2>1, <2>2
    <2>4. ~(i < j) /\ ~(j < i)
      BY <1>4, <1>9, <2>2, <2>3 DEF Placed
    <2> QED BY <2>4
  <1> QED BY <1>1, <1>7, <1>9, <1>10, <1>11 DEF AreResults, us

\* The history with the results of its last calls.
LEMMA ResultsHistory ==
  ASSUME NEW late, NEW ms, NEW n, History(ms, n, late), Pending(ms), NEW r, NEW lost,
         AreResults(r, ms[Len(ms)].uses, lost)
  PROVE  History(ms \o r, n, late)
  <1> DEFINE L == Len(ms)
             us == ms[L].uses
             q == ms \o r
  <1>1. /\ ms \in Seq(Message) /\ Begins(ms, late) /\ Tidy(ms) /\ Known(ms, n)
        /\ L \in 1 .. L /\ L \in Nat /\ r \in Seq(Message) /\ Len(r) \in Nat
    BY DEF History, Pending, AreResults
  <1>2. /\ q \in Seq(Message) /\ Len(q) = L + Len(r) /\ q # <<>>
        /\ \A i \in 1 .. L : q[i] = ms[i] /\ i \in 1 .. Len(q)
        /\ \A k \in 1 .. Len(r) : q[L + k] = r[k]
        /\ \A i \in 1 .. Len(q) : i \in 1 .. L \/ \E k \in 1 .. Len(r) : i = L + k
    <2>1. q \in Seq(Message) /\ Len(q) = L + Len(r)
      BY <1>1
    <2>2. \A i \in 1 .. L : q[i] = ms[i] /\ i \in 1 .. Len(q)
      BY <1>1
    <2>3. \A k \in 1 .. Len(r) : q[L + k] = r[k]
      BY <1>1
    <2>4. ASSUME NEW i \in 1 .. Len(q), i \notin 1 .. L
          PROVE  \E k \in 1 .. Len(r) : i = L + k
      <3>1. i - L \in 1 .. Len(r) /\ i = L + (i - L)
        BY <1>1, <2>1, <2>4
      <3> QED BY <3>1
    <2>5. q # <<>>
      <3> HIDE DEF q
      <3> QED BY <1>1, <2>1
    <2> HIDE DEF q
    <2> QED BY <2>1, <2>2, <2>3, <2>4, <2>5
  <1> HIDE DEF q, L
  <1>3. ASSUME NEW k \in 1 .. Len(r)
        PROVE  /\ q[L + k].type = "tool_result" /\ ToSet(q[L + k].uses) = {}
               /\ \E c \in ToSet(us) : q[L + k].results = {c}
    <2>1. AreResults(r, us, lost)
      BY DEF L
    <2> HIDE DEF us
    <2>2. /\ r[k].type = "tool_result" /\ ToSet(r[k].uses) = {}
          /\ \E c \in ToSet(us) : r[k].results = {c}
      BY <2>1 DEF AreResults
    <2> QED BY <1>2, <2>2
  <1>4. \A c \in ToSet(us), i \in 1 .. L : c \notin q[i].results
    BY <1>2 DEF Pending, L
  <1>5. \A i, j \in 1 .. Len(r) : r[i].results = r[j].results => i = j
    BY DEF AreResults, Pending, L
  <1> HIDE DEF us
  <1>6. ASSUME NEW i \in 1 .. Len(q), NEW c, c \in ToSet(q[i].uses)
        PROVE  i \in 1 .. L
    BY <1>2, <1>3, <1>6
  <1>7. Begins(q, late)
    <2>1. PICK i \in 1 .. L : ms[i].type = "user" /\ ms[i].text # <<>> /\ (i # 1 => late)
      BY <1>1 DEF Begins, L
    <2>2. i \in 1 .. Len(q) /\ q[i] = ms[i]
      BY <1>1, <1>2, <2>1
    <2> QED BY <2>1, <2>2 DEF Begins
  <1>8. ASSUME NEW i \in 1 .. Len(q), NEW c,
               c \in ToSet(q[i].uses) \/ c \in q[i].results
        PROVE  c.id <= n
    <2>1. CASE i \in 1 .. L
      BY <1>1, <1>2, <1>8, <2>1 DEF Known, L
    <2>2. ASSUME NEW k \in 1 .. Len(r), i = L + k PROVE c.id <= n
      <3>1. c \in ToSet(us)
        BY <1>3, <1>8, <2>2
      <3> QED BY <1>1, <3>1 DEF Known, L, us
    <2> QED BY <1>2, <2>1, <2>2
  <1>9. ASSUME NEW i \in 1 .. Len(q), NEW j \in 1 .. Len(q), NEW c,
               c \in ToSet(q[i].uses), c \in ToSet(q[j].uses)
        PROVE  i = j
    <2>1. i \in 1 .. L /\ j \in 1 .. L
      BY <1>6, <1>9
    <2> QED BY <1>1, <1>2, <1>9, <2>1 DEF Tidy, L
  <1>10. ASSUME NEW i \in 1 .. Len(q), NEW j \in 1 .. Len(q), NEW c,
                c \in q[i].results, c \in q[j].results
         PROVE  i = j
    <2>1. CASE i \in 1 .. L /\ j \in 1 .. L
      BY <1>1, <1>2, <1>10, <2>1 DEF Tidy, L
    <2>2. ASSUME NEW k \in 1 .. Len(r), i = L + k, j \in 1 .. L PROVE FALSE
      BY <1>3, <1>4, <1>10, <2>2
    <2>3. ASSUME NEW k \in 1 .. Len(r), j = L + k, i \in 1 .. L PROVE FALSE
      BY <1>3, <1>4, <1>10, <2>3
    <2>4. ASSUME NEW k \in 1 .. Len(r), i = L + k, NEW l \in 1 .. Len(r), j = L + l
          PROVE  i = j
      <3>1. q[i].results = {c} /\ q[j].results = {c}
        BY <1>3, <1>10, <2>4
      <3>2. r[k].results = r[l].results
        BY <1>2, <2>4, <3>1
      <3> QED BY <1>5, <2>4, <3>2
    <2> QED BY <1>2, <2>1, <2>2, <2>3, <2>4
  <1>11. ASSUME NEW i \in 1 .. Len(q), NEW j \in 1 .. Len(q), NEW c,
                c \in ToSet(q[i].uses), c \in q[j].results
         PROVE  i < j /\ \A k \in 1 .. Len(q) : i < k /\ k < j => q[k].type # "assistant"
    <2>1. i \in 1 .. L
      BY <1>6, <1>11
    <2>2. CASE j \in 1 .. L
      <3>1. /\ i < j
            /\ \A k \in 1 .. L : i < k /\ k < j => ms[k].type # "assistant"
        BY <1>1, <1>2, <1>11, <2>1, <2>2 DEF Tidy, L
      <3>2. \A k \in 1 .. Len(q) : k < j => k \in 1 .. L
        BY <1>1, <1>2, <2>2
      <3> QED BY <1>2, <3>1, <3>2
    <2>3. ASSUME NEW l \in 1 .. Len(r), j = L + l
          PROVE  i < j /\ \A k \in 1 .. Len(q) : i < k /\ k < j => q[k].type # "assistant"
      <3>1. c \in ToSet(us)
        BY <1>3, <1>11, <2>3
      <3>2. i = L
        BY <1>1, <1>2, <1>11, <2>1, <3>1 DEF Tidy, L, us
      <3>3. \A k \in 1 .. Len(q) : L < k => q[k].type # "assistant"
        <4> TAKE k \in 1 .. Len(q)
        <4>1. L < k => \E x \in 1 .. Len(r) : k = L + x
          BY <1>1, <1>2
        <4> QED BY <1>3, <4>1
      <3> QED BY <1>1, <2>3, <3>2, <3>3
    <2> QED BY <1>2, <2>2, <2>3
  <1>12. Tidy(q) /\ Known(q, n)
    BY <1>8, <1>9, <1>10, <1>11 DEF Tidy, Known
  <1> QED BY <1>2, <1>7, <1>12 DEF History, q

-----------------------------------------------------------------------------
(* What the model is sent.                                                 *)

\* A pair: declared at i and answered at a later place j.
LEMMA PairPlaces ==
  ASSUME NEW ms \in Seq(Message), NEW c
  PROVE  c \in ValidPairs(ms)
           <=> \E i, j \in 1 .. Len(ms) :
                 i < j /\ c \in ToSet(ms[i].uses) /\ c \in ms[j].results
  <1>1. DOMAIN ms = 1 .. Len(ms)
    OBVIOUS
  <1> QED BY <1>1 DEF ValidPairs, Answered

\* A history that goes on keeps its pairs.
LEMMA PairsStay ==
  ASSUME NEW ms \in Seq(Message), NEW r \in Seq(Message), Len(ms) <= Len(r),
         \A i \in 1 .. Len(ms) : r[i].uses = ms[i].uses /\ r[i].results = ms[i].results
  PROVE  ValidPairs(ms) \subseteq ValidPairs(r)
  <1> SUFFICES ASSUME NEW c, c \in ValidPairs(ms) PROVE c \in ValidPairs(r)
    OBVIOUS
  <1>1. PICK i \in 1 .. Len(ms), j \in 1 .. Len(ms) :
          i < j /\ c \in ToSet(ms[i].uses) /\ c \in ms[j].results
    BY PairPlaces
  <1>2. i \in 1 .. Len(r) /\ j \in 1 .. Len(r)
    OBVIOUS
  <1> QED BY <1>1, <1>2, PairPlaces

\* One more message.
LEMMA PairsAppend ==
  ASSUME NEW ms \in Seq(Message), NEW m \in Message
  PROVE  ValidPairs(ms) \subseteq ValidPairs(Append(ms, m))
  <1> DEFINE r == Append(ms, m)
  <1>1. /\ r \in Seq(Message) /\ Len(ms) <= Len(r)
        /\ \A i \in 1 .. Len(ms) : r[i] = ms[i]
    OBVIOUS
  <1> HIDE DEF r
  <1>2. ValidPairs(ms) \subseteq ValidPairs(r)
    BY <1>1, PairsStay
  <1> QED BY <1>2 DEF r

\* More messages.
LEMMA PairsConcat ==
  ASSUME NEW ms \in Seq(Message), NEW q \in Seq(Message)
  PROVE  ValidPairs(ms) \subseteq ValidPairs(ms \o q)
  <1> DEFINE r == ms \o q
  <1>1. /\ r \in Seq(Message) /\ Len(ms) <= Len(r)
        /\ \A i \in 1 .. Len(ms) : r[i] = ms[i]
    OBVIOUS
  <1> HIDE DEF r
  <1>2. ValidPairs(ms) \subseteq ValidPairs(r)
    BY <1>1, PairsStay
  <1> QED BY <1>2 DEF r

\* The report of progress takes no call and no answer away.
LEMMA PairsProgress ==
  ASSUME NEW ms \in Seq(Message)
  PROVE  ValidPairs(ms) \subseteq ValidPairs(InjectProgress(ms))
  <1> DEFINE I == {i \in DOMAIN ms : ~IsMarker(ms[i], "progress")}
             q == At(ms, I)
             x == Marker("progress")
             r == <<x>> \o q
  <1>1. q \in Seq(Message) /\ \E h : Placed(q, ms, I, Len(ms), h)
    <2> HIDE DEF I
    <2> QED BY AtPlaces
  <1>2. PICK h : Placed(q, ms, I, Len(ms), h)
    BY <1>1
  <1> HIDE DEF q
  <1>3. x \in Message
    <2>1. x \in Notes
      BY DEF Notes
    <2> HIDE DEF x
    <2> QED BY <2>1, NoteFields
  <1> HIDE DEF x
  <1>4. /\ r \in Seq(Message) /\ Len(r) = Len(q) + 1
        /\ \A k \in 1 .. Len(q) : r[k + 1] = q[k]
    BY <1>1, <1>3
  <1>5. InjectProgress(ms) = r
    BY DEF InjectProgress, q, x
  <1> HIDE DEF r
  <1>6. ASSUME NEW i \in 1 .. Len(ms), IsMarker(ms[i], "progress")
        PROVE  ToSet(ms[i].uses) = {} /\ ms[i].results = {}
    <2>1. ms[i] \in Message /\ ms[i].plain
      BY <1>6 DEF IsMarker
    <2>2. ms[i].uses = <<>> /\ ms[i].results = {}
      <3>1. ms[i].type = "user" /\ ms[i].results = {}
        BY <2>1, MessageFields
      <3> QED BY <2>1, <3>1, MessageFields
    <2>3. ToSet(<<>>) = {}
      BY DEF ToSet
    <2> QED BY <2>2, <2>3
  <1>7. \A i \in 1 .. Len(ms) : ~IsMarker(ms[i], "progress") => i \in I
    OBVIOUS
  <1> HIDE DEF I
  <1>8. ASSUME NEW c, c \in ValidPairs(ms) PROVE c \in ValidPairs(r)
    <2>1. PICK i \in 1 .. Len(ms), j \in 1 .. Len(ms) :
            i < j /\ c \in ToSet(ms[i].uses) /\ c \in ms[j].results
      BY <1>8, PairPlaces
    <2>2. i \in I /\ j \in I
      BY <1>6, <1>7, <2>1
    <2>3. PICK k \in 1 .. Len(q) : h[k] = i
      BY <1>2, <2>2 DEF Placed
    <2>4. PICK l \in 1 .. Len(q) : h[l] = j
      BY <1>2, <2>2 DEF Placed
    <2>5. k < l
      <3>1. k # l
        BY <2>1, <2>3, <2>4
      <3>2. ~(l < k)
        <4>1. ASSUME l < k PROVE h[l] < h[k]
          BY <1>2, <4>1 DEF Placed
        <4> QED BY <2>1, <2>3, <2>4, <4>1
      <3> QED BY <3>1, <3>2
    <2>6. q[k] = ms[i] /\ q[l] = ms[j]
      BY <1>2, <2>3, <2>4 DEF Placed
    <2>7. /\ k + 1 \in 1 .. Len(r) /\ l + 1 \in 1 .. Len(r) /\ k + 1 < l + 1
          /\ r[k + 1] = ms[i] /\ r[l + 1] = ms[j]
      BY <1>1, <1>4, <2>5, <2>6
    <2> QED BY <1>4, <2>1, <2>7, PairPlaces
  <1> QED BY <1>5, <1>8

\* The results of the last calls make pairs of them.
LEMMA PairsOfResults ==
  ASSUME NEW ms \in Seq(Message), ms # <<>>, NEW r, NEW lost,
         AreResults(r, ms[Len(ms)].uses, lost),
         NEW c \in ToSet(ms[Len(ms)].uses) \ lost
  PROVE  c \in ValidPairs(ms \o r)
  <1> DEFINE L == Len(ms)
             q == ms \o r
  <1>1. r \in Seq(Message) /\ \E k \in 1 .. Len(r) : r[k].results = {c}
    BY DEF AreResults
  <1>2. PICK k \in 1 .. Len(r) : r[k].results = {c}
    BY <1>1
  <1>3. /\ q \in Seq(Message) /\ Len(q) = L + Len(r)
        /\ q[L] = ms[L] /\ q[L + k] = r[k]
        /\ L \in 1 .. Len(q) /\ L + k \in 1 .. Len(q) /\ L < L + k
    BY <1>1
  <1> HIDE DEF q
  <1>4. c \in ToSet(q[L].uses) /\ c \in q[L + k].results
    BY <1>2, <1>3
  <1>5. c \in ValidPairs(q)
    BY <1>3, <1>4, PairPlaces
  <1> QED BY <1>5 DEF q

\* h tells where in ms the messages of r come from, a history of which only the
\* calls in C and their answers were kept, and the messages that say something.
Thinned(ms, r, C, h) ==
  /\ h \in [1 .. Len(r) -> 1 .. Len(ms)]
  /\ \A j, k \in 1 .. Len(r) : j < k => h[j] < h[k]
  /\ \A k \in 1 .. Len(r) :
       /\ r[k].type = ms[h[k]].type
       /\ r[k].text = ms[h[k]].text
       /\ r[k].results = ms[h[k]].results \cap C
       /\ ToSet(r[k].uses) = ToSet(ms[h[k]].uses) \cap C
  /\ \A i \in 1 .. Len(ms) :
       \/ ms[i].type = "user" /\ ms[i].text # <<>>
       \/ ToSet(ms[i].uses) \cap C # {}
       \/ ms[i].results \cap C # {}
       => \E k \in 1 .. Len(r) : h[k] = i

\* pairLeaderToolMessages does that to the pairs.
LEMMA SentMessages ==
  ASSUME NEW ms \in Seq(Message), NEW C
  PROVE  /\ Speaking(OnlyPairs(ms, C)) \in Seq(Message)
         /\ \E h : Thinned(ms, Speaking(OnlyPairs(ms, C)), C, h)
  <1> DEFINE p == OnlyPairs(ms, C)
             I == {i \in DOMAIN p : Says(p[i])}
             T == {p[i] : i \in 1 .. Len(ms)}
             r == At(p, I)
  <1>1. DOMAIN ms = 1 .. Len(ms) /\ Len(ms) \in Nat
    OBVIOUS
  <1>2. p = [i \in 1 .. Len(ms) |-> [OnlyUses(ms[i], C) EXCEPT !.results = @ \cap C]]
    BY <1>1 DEF OnlyPairs
  <1> HIDE DEF p
  <1>3. p \in Seq(T) /\ Len(p) = Len(ms) /\ DOMAIN p = 1 .. Len(ms)
    <2>1. p \in [1 .. Len(ms) -> T]
      <3>1. p = [i \in 1 .. Len(ms) |-> p[i]]
        BY <1>2
      <3> QED BY <3>1
    <2> HIDE DEF T
    <2> QED BY <1>1, <2>1
  <1>4. Speaking(p) = r
    BY DEF Speaking
  <1>5. ASSUME NEW i \in 1 .. Len(ms)
        PROVE  /\ p[i].type = ms[i].type /\ p[i].text = ms[i].text
               /\ p[i].results = ms[i].results \cap C
               /\ ToSet(p[i].uses) = ToSet(ms[i].uses) \cap C
               /\ Says(p[i]) => p[i] \in Message
    <2> DEFINE m == OnlyUses(ms[i], C)
               b == m.results \cap C
               u == [m EXCEPT !.results = b]
    <2>1. ms[i] \in Message
      OBVIOUS
    <2>2. /\ m \in Message /\ m.type = ms[i].type /\ m.text = ms[i].text
          /\ m.results = ms[i].results /\ ToSet(m.uses) = ToSet(ms[i].uses) \cap C
      BY <2>1, OnlyUsesMessage
    <2>3. p[i] = u
      BY <1>2
    <2> HIDE DEF m
    <2>4. /\ u.type = m.type /\ u.text = m.text /\ u.uses = m.uses /\ u.results = b
          /\ Says(u) => u \in Message
      <3> HIDE DEF b
      <3>1. CASE m \in AssistantMessage
        <4>1. b = {}
          BY <3>1 DEF b, AssistantMessage
        <4> QED BY <3>1, <4>1 DEF Message, AssistantMessage
      <3>2. CASE m \in PlainMessage
        <4>1. b = {}
          BY <3>2 DEF b, PlainMessage
        <4> QED BY <3>2, <4>1 DEF Message, UserMessage, PlainMessage
      <3>3. CASE m \in MixedMessage
        <4>1. b \in SUBSET ToolCall
          BY <3>3 DEF b, MixedMessage
        <4> QED BY <3>3, <4>1 DEF Message, UserMessage, MixedMessage
      <3>4. CASE m \in ResultMessage
        <4>1. PICK c \in ToolCall : m.results = {c}
          BY <3>4 DEF ResultMessage
        <4>2. b # {} => b = {c}
          BY <4>1 DEF b
        <4>3. /\ u.type = m.type /\ u.text = m.text /\ u.uses = m.uses /\ u.results = b
              /\ u.type = "tool_result"
          BY <3>4 DEF ResultMessage
        <4>4. b = {c} => u \in ResultMessage
          BY <3>4 DEF ResultMessage
        <4>5. Says(u) => b # {}
          <5> HIDE DEF u
          <5> QED BY <4>3 DEF Says
        <4> QED BY <4>2, <4>3, <4>4, <4>5 DEF Message
      <3> QED BY <2>2, <3>1, <3>2, <3>3, <3>4 DEF Message, UserMessage
    <2> HIDE DEF u
    <2> QED BY <2>2, <2>3, <2>4 DEF b
  <1>6. r \in Seq(T) /\ \E h : Placed(r, p, I, Len(p), h)
    <2> HIDE DEF I, T
    <2> QED BY <1>3, AtPlaces
  <1>7. PICK h : Placed(r, p, I, Len(p), h)
    BY <1>6
  <1> HIDE DEF T, r
  <1>8. ASSUME NEW k \in 1 .. Len(r)
        PROVE  /\ h[k] \in 1 .. Len(ms) /\ r[k] = p[h[k]] /\ r[k] \in Message
    <2>1. h[k] \in 1 .. Len(ms) /\ r[k] = p[h[k]] /\ h[k] \in I
      BY <1>3, <1>7 DEF Placed
    <2>2. Says(p[h[k]])
      BY <2>1
    <2> QED BY <1>5, <2>1, <2>2
  <1>9. r \in Seq(Message)
    <2>1. \A k \in 1 .. Len(r) : r[k] \in Message
      BY <1>8
    <2>2. DOMAIN r = 1 .. Len(r) /\ Len(r) \in Nat /\ r \in [1 .. Len(r) -> T]
      BY <1>6
    <2>3. r \in [1 .. Len(r) -> Message]
      BY <2>1, <2>2
    <2> QED BY <2>2, <2>3
  <1>10. ASSUME NEW i \in 1 .. Len(ms),
                \/ ms[i].type = "user" /\ ms[i].text # <<>>
                \/ ToSet(ms[i].uses) \cap C # {}
                \/ ms[i].results \cap C # {}
         PROVE  i \in I
    <2>1. ms[i] \in Message
      OBVIOUS
    <2>2. Says(p[i])
      <3>1. CASE ms[i].type = "user" /\ ms[i].text # <<>>
        BY <1>5, <3>1 DEF Says
      <3>2. CASE ToSet(ms[i].uses) \cap C # {}
        <4>1. ms[i].uses # <<>> /\ p[i].uses # <<>>
          <5>1. ToSet(<<>>) = {}
            BY DEF ToSet
          <5> QED BY <1>5, <3>2, <5>1
        <4>2. ms[i].type = "assistant"
          BY <2>1, <4>1, MessageFields
        <4> QED BY <1>5, <4>1, <4>2 DEF Says
      <3>3. CASE ms[i].results \cap C # {}
        <4>1. ms[i].type # "assistant"
          BY <2>1, <3>3, MessageFields
        <4>2. ms[i].type \in {"user", "tool_result"}
          BY <2>1, <4>1, MessageFields
        <4> QED BY <1>5, <3>3, <4>2 DEF Says
      <3> QED BY <1>10, <3>1, <3>2, <3>3
    <2> QED BY <1>3, <2>2
  <1> HIDE DEF I
  <1>11. Thinned(ms, r, C, h)
    <2>1. h \in [1 .. Len(r) -> 1 .. Len(ms)]
      BY <1>3, <1>7 DEF Placed
    <2>2. \A j, k \in 1 .. Len(r) : j < k => h[j] < h[k]
      BY <1>7 DEF Placed
    <2>3. \A i \in 1 .. Len(ms) : i \in I => \E k \in 1 .. Len(r) : h[k] = i
      BY <1>3, <1>7 DEF Placed
    <2> QED BY <1>5, <1>8, <1>10, <2>1, <2>2, <2>3 DEF Thinned
  <1> QED BY <1>4, <1>9, <1>11 DEF p

\* The calls of a history that are pairs are sent, with their answers.
LEMMA PairsSent ==
  ASSUME NEW ms \in Seq(Message)
  PROVE  ValidPairs(ms) \subseteq Declared(pairLeaderToolMessages(ms))
                                    \cap Answered(pairLeaderToolMessages(ms))
  <1> DEFINE C == ValidPairs(ms)
             r == Speaking(OnlyPairs(ms, C))
  <1>1. pairLeaderToolMessages(ms) = r
    BY DEF pairLeaderToolMessages
  <1>2. r \in Seq(Message) /\ \E h : Thinned(ms, r, C, h)
    <2> HIDE DEF C
    <2> QED BY SentMessages
  <1>3. PICK h : Thinned(ms, r, C, h)
    BY <1>2
  <1> HIDE DEF r
  <1>4. ASSUME NEW c \in C PROVE c \in Declared(r) /\ c \in Answered(r)
    <2>1. PICK i \in 1 .. Len(ms), j \in 1 .. Len(ms) :
            i < j /\ c \in ToSet(ms[i].uses) /\ c \in ms[j].results
      BY PairPlaces
    <2> HIDE DEF C
    <2>2. ToSet(ms[i].uses) \cap C # {} /\ ms[j].results \cap C # {}
      BY <2>1
    <2>3. PICK k \in 1 .. Len(r) : h[k] = i
      BY <1>3, <2>2 DEF Thinned
    <2>4. PICK l \in 1 .. Len(r) : h[l] = j
      BY <1>3, <2>2 DEF Thinned
    <2>5. c \in ToSet(r[k].uses) /\ c \in r[l].results
      BY <1>3, <2>1, <2>3, <2>4 DEF Thinned
    <2>6. DOMAIN r = 1 .. Len(r)
      BY <1>2
    <2> QED BY <2>5, <2>6 DEF Declared, Answered
  <1> QED BY <1>1, <1>4

\* Every history of the program gives messages that the provider takes.
LEMMA HistoryIsSent ==
  ASSUME NEW late, NEW ms, NEW n, History(ms, n, late)
  PROVE  /\ WellFormed(enforceAlternatingTurns(pairLeaderToolMessages(ms)))
         /\ enforceAlternatingTurns(pairLeaderToolMessages(ms))[1].type = "assistant" => late
  <1> DEFINE C == ValidPairs(ms)
             s == Speaking(OnlyPairs(ms, C))
             w == enforceAlternatingTurns(s)
  <1>1. ms \in Seq(Message) /\ Begins(ms, late) /\ Tidy(ms)
    BY DEF History
  <1>2. pairLeaderToolMessages(ms) = s
    BY DEF pairLeaderToolMessages
  <1>3. s \in Seq(Message) /\ \E h : Thinned(ms, s, C, h)
    <2> HIDE DEF C
    <2> QED BY <1>1, SentMessages
  <1>4. PICK h : Thinned(ms, s, C, h)
    BY <1>3
  <1> HIDE DEF s
  <1>5. \A k \in 1 .. Len(s) : h[k] \in 1 .. Len(ms) /\ h[k] # 0 /\ h[k] \in 0 .. Len(ms)
    BY <1>4 DEF Thinned
  <1>6. Tidy(s)
    <2> HIDE DEF C
    <2>1. h \in [1 .. Len(s) -> 0 .. Len(ms)]
      BY <1>4, <1>5 DEF Thinned
    <2>2. Descends(s, ms, h)
      BY <1>4, <1>5, <2>1 DEF Thinned, Descends
    <2> QED BY <1>1, <1>3, <2>2, DescendsTidy
  <1>7. Begins(s, late)
    <2> HIDE DEF C
    <2>1. PICK i \in 1 .. Len(ms) :
            ms[i].type = "user" /\ ms[i].text # <<>> /\ (i # 1 => late)
      BY <1>1 DEF Begins
    <2>2. PICK k \in 1 .. Len(s) : h[k] = i
      BY <1>4, <2>1 DEF Thinned
    <2>3. k # 1 => i # 1
      <3>1. ASSUME k # 1 PROVE i # 1
        <4>1. 1 \in 1 .. Len(s) /\ 1 < k
          BY <1>3, <3>1
        <4>2. h[1] < h[k] /\ h[1] \in 1 .. Len(ms)
          BY <1>4, <1>5, <4>1 DEF Thinned
        <4> QED BY <2>2, <4>2
      <3> QED BY <3>1
    <2>4. s[k].type = "user" /\ s[k].text # <<>>
      BY <1>4, <2>1, <2>2 DEF Thinned
    <2> QED BY <2>1, <2>3, <2>4 DEF Begins
  <1>8. w \in Seq(Message) /\ Tidy(w) /\ Begins(w, late)
    BY <1>3, <1>6, <1>7, Enforced, EnforceTidy
  <1>9. PICK g : Grouped(s, Len(s), w, g)
    BY <1>3, Enforced
  <1> HIDE DEF w
  <1>10. DOMAIN w = 1 .. Len(w) /\ Len(w) \in Nat
    BY <1>8
  <1>11. \A i \in 1 .. Len(s) : g[i] \in 1 .. Len(w)
    <2>1. g \in [1 .. Len(s) -> 1 .. Len(w)]
      BY <1>9 DEF Grouped
    <2> QED BY <2>1
  <1>12. ASSUME NEW c \in C
         PROVE  \E i, j \in 1 .. Len(w) : c \in ToSet(w[i].uses) /\ c \in w[j].results
    <2>1. PICK i \in 1 .. Len(ms), j \in 1 .. Len(ms) :
            i < j /\ c \in ToSet(ms[i].uses) /\ c \in ms[j].results
      BY <1>1, PairPlaces
    <2> HIDE DEF C
    <2>2. ToSet(ms[i].uses) \cap C # {} /\ ms[j].results \cap C # {}
      BY <2>1
    <2>3. PICK k \in 1 .. Len(s) : h[k] = i
      BY <1>4, <2>2 DEF Thinned
    <2>4. PICK l \in 1 .. Len(s) : h[l] = j
      BY <1>4, <2>2 DEF Thinned
    <2>5. c \in ToSet(s[k].uses) /\ c \in s[l].results
      BY <1>4, <2>1, <2>3, <2>4 DEF Thinned
    <2>6. c \in ToSet(w[g[k]].uses) /\ c \in w[g[l]].results
      BY <1>9, <1>11, <2>5 DEF Grouped
    <2> QED BY <1>11, <2>6
  <1>13. ASSUME NEW i \in 1 .. Len(w), NEW c,
                c \in ToSet(w[i].uses) \/ c \in w[i].results
         PROVE  c \in C
    <2> HIDE DEF C
    <2>1. PICK k \in 1 .. Len(s) : c \in ToSet(s[k].uses) \/ c \in s[k].results
      BY <1>9, <1>13 DEF Grouped
    <2> QED BY <1>4, <2>1 DEF Thinned
  <1> HIDE DEF C
  <1>14. /\ w # <<>> /\ (w[1].type = "assistant" => late) /\ 1 \in 1 .. Len(w)
    <2>1. PICK i \in 1 .. Len(w) :
            w[i].type = "user" /\ w[i].text # <<>> /\ (i # 1 => late)
      BY <1>8 DEF Begins
    <2>2. 1 \in 1 .. Len(w) /\ w # <<>>
      BY <1>10, <2>1
    <2> QED BY <2>1, <2>2
  <1>15. w[1].results = {}
    <2>1. ASSUME NEW c, c \in w[1].results PROVE FALSE
      <3>1. PICK i \in 1 .. Len(w) : c \in ToSet(w[i].uses)
        BY <1>12, <1>13, <1>14, <2>1
      <3>2. i < 1
        BY <1>8, <1>14, <2>1, <3>1 DEF Tidy
      <3> QED BY <3>2
    <2> QED BY <2>1
  <1>16. ASSUME NEW i \in 1 .. Len(w), w[i].type = "assistant"
         PROVE  ToSet(w[i].uses) = IF i = Len(w) THEN {} ELSE w[i + 1].results
    <2>1. ASSUME NEW c, c \in ToSet(w[i].uses)
          PROVE  i # Len(w) /\ c \in w[i + 1].results
      <3>1. PICK j \in 1 .. Len(w) : c \in w[j].results
        BY <1>12, <1>13, <2>1
      <3>2. i < j /\ \A k \in 1 .. Len(w) : i < k /\ k < j => w[k].type # "assistant"
        BY <1>8, <2>1, <3>1 DEF Tidy
      <3>3. i + 1 \in 1 .. Len(w) /\ i \in 1 .. Len(w) - 1 /\ i # Len(w)
        <4>1. j \in 1 .. Len(w) /\ i < j /\ Len(w) \in Nat
          BY <1>10, <3>2
        <4> QED BY <4>1
      <3>4. j = i + 1
        <4>1. ASSUME j # i + 1 PROVE FALSE
          <5>1. i + 2 \in 1 .. Len(w) /\ i + 1 \in 1 .. Len(w) - 1 /\ i + 2 <= j
                /\ (i + 1) + 1 = i + 2
            BY <1>10, <3>2, <4>1
          <5>2. Role(w[i]) # Role(w[i + 1]) /\ Role(w[i + 1]) # Role(w[i + 2])
            BY <1>9, <3>3, <5>1 DEF Grouped
          <5>3. w[i] \in Message /\ w[i + 1] \in Message /\ w[i + 2] \in Message
                /\ w[j] \in Message
            BY <1>8, <3>3, <5>1
          <5>4. Role(w[i]) = "assistant"
            BY <1>16, <5>3, MessageFields
          <5>5. Role(w[i + 1]) = "user"
            BY <5>2, <5>3, <5>4, MessageFields
          <5>6. w[i + 2].type = "assistant"
            BY <5>2, <5>3, <5>5, MessageFields
          <5>7. i + 2 = j
            BY <3>2, <5>1, <5>6
          <5> QED BY <3>1, <5>3, <5>6, <5>7, MessageFields
        <4> QED BY <4>1
      <3> QED BY <3>1, <3>3, <3>4
    <2>2. ASSUME i # Len(w), NEW c, c \in w[i + 1].results
          PROVE  c \in ToSet(w[i].uses)
      <3>1. i + 1 \in 1 .. Len(w)
        <4>1. i \in 1 .. Len(w) /\ i # Len(w) /\ Len(w) \in Nat
          BY <1>10, <2>2
        <4> QED BY <4>1
      <3>2. PICK k \in 1 .. Len(w) : c \in ToSet(w[k].uses)
        BY <1>12, <1>13, <2>2, <3>1
      <3>3. /\ k < i + 1
            /\ \A x \in 1 .. Len(w) : k < x /\ x < i + 1 => w[x].type # "assistant"
        BY <1>8, <2>2, <3>1, <3>2 DEF Tidy
      <3>4. ~(k < i)
        BY <1>16, <3>3
      <3>5. k = i
        BY <3>3, <3>4
      <3> QED BY <3>2, <3>5
    <2> QED BY <2>1, <2>2
  <1>17. WellFormed(w)
    BY <1>10, <1>14, <1>15, <1>16 DEF WellFormed
  <1> QED BY <1>2, <1>14, <1>17 DEF w

\* A checkpoint without embedded answers keeps its calls when it is sanitized.
LEMMA SanitizeKeepsCalls ==
  ASSUME NEW ms \in Seq(Message),
         \A i \in 1 .. Len(ms) : ms[i].type = "user" => ms[i].results = {},
         NEW i \in 1 .. Len(ms), NEW j \in 1 .. Len(ms), NEW c,
         c \in ToSet(ms[i].uses), c \in ms[j].results
  PROVE  c \in Declared(sanitizeResumedMessages(ms))
         /\ c \in Answered(sanitizeResumedMessages(ms))
  <1> DEFINE q == repairToolResultPairing(ms)
             r == enforceAlternatingTurns(q)
  <1>1. q \in Seq(Message)
    BY RepairedMessages
  <1>2. PICK h : Repaired(ms, q, h)
    BY RepairedMessages
  <1> HIDE DEF q
  <1>3. r \in Seq(Message)
    BY <1>1, Enforced
  <1>4. PICK g : Grouped(q, Len(q), r, g)
    BY <1>1, Enforced
  <1> HIDE DEF r
  <1>5. ms[i] \in Message /\ ms[j] \in Message
    OBVIOUS
  <1>6. ms[i].type = "assistant"
    <2>1. ms[i].uses # <<>>
      BY DEF ToSet
    <2> QED BY <1>5, <2>1, MessageFields
  <1>7. ms[j].type = "tool_result" /\ ms[j].results = {c}
    <2>1. ms[j].type # "user" /\ ms[j].type # "assistant"
      BY <1>5, MessageFields
    <2>2. ms[j].type = "tool_result"
      BY <1>5, <2>1, MessageFields
    <2>3. PICK d \in ToolCall : ms[j].results = {d}
      BY <1>5, <2>2, MessageFields
    <2> QED BY <2>2, <2>3
  <1>8. c \in Paired(ms)
    <2>1. DOMAIN ms = 1 .. Len(ms)
      OBVIOUS
    <2> QED BY <1>7, <2>1 DEF Paired, Declared
  <1>9. Stays(ms, i) /\ Stays(ms, j)
    BY <1>6, <1>7, <1>8 DEF Stays
  <1>10. PICK k \in 1 .. Len(q) : h[k] = i
    BY <1>2, <1>9 DEF Repaired
  <1>11. PICK l \in 1 .. Len(q) : h[l] = j
    BY <1>2, <1>9 DEF Repaired
  <1>12. c \in ToSet(q[k].uses) /\ c \in q[l].results
    BY <1>2, <1>8, <1>10, <1>11 DEF Repaired
  <1>13. g[k] \in 1 .. Len(r) /\ g[l] \in 1 .. Len(r)
    <2>1. g \in [1 .. Len(q) -> 1 .. Len(r)]
      BY <1>4 DEF Grouped
    <2> QED BY <2>1
  <1>14. c \in ToSet(r[g[k]].uses) /\ c \in r[g[l]].results
    BY <1>4, <1>12, <1>13 DEF Grouped
  <1>15. sanitizeResumedMessages(ms) = r
    BY DEF sanitizeResumedMessages, q, r
  <1>16. DOMAIN r = 1 .. Len(r)
    BY <1>3
  <1> QED BY <1>13, <1>14, <1>15, <1>16 DEF Declared, Answered

-----------------------------------------------------------------------------
(* The histories of a task.                                                *)

\* The history of a run and that of the checkpoint are tidy and have a text of
\* the user, which is first unless the task was started with an MCP prompt's
\* messages; while calls run, those of the last message are the only open ones.
HistoryInv ==
  /\ turn \in Nat /\ request \in Nat /\ runs \in Nat /\ texts \in Nat /\ calls \in Nat
  /\ saved \in [messages : Seq(Message), turn : Nat, request : Nat]
  /\ runs = 0 => ~primed
  /\ saved.messages # <<>> => History(saved.messages, calls, primed)
  /\ IF pc \in {"ended", "dead"} THEN messages = <<>> ELSE History(messages, calls, primed)
  /\ pc = "tools" => Pending(messages)
  /\ pc = "plan" => Response(messages) # <<>>
  /\ pc = "answered" => reply[1].kind \in {"approve", "cancel", "revise"}

\* An answer is one of three.
LEMMA AnswerKinds ==
  ASSUME NEW ms, detectPlanResponse(ms) # <<>>
  PROVE  detectPlanResponse(ms)[1].kind \in {"approve", "cancel", "revise"}
  <1> DEFINE i == LastUser(ms)
             t == IF i = 0 THEN <<>>
                  ELSE At(ms[i].text, {j \in DOMAIN ms[i].text : ms[i].text[j].kind # "empty"})
  <1>1. detectPlanResponse(ms) =
          IF t # <<>> /\ (\/ t[1].kind = "revise"
                          \/ Len(t) = 1 /\ t[1].kind \in {"approve", "cancel"})
          THEN <<t[1]>> ELSE <<>>
    BY DEF detectPlanResponse
  <1> HIDE DEF t
  <1> QED BY <1>1

\* What the user types.
LEMMA PromptText ==
  ASSUME NEW k \in Prompts, NEW n \in Nat
  PROVE  [kind |-> k, n |-> n] \in TextBlock
  <1>1. k \in Typed
    BY AgentLoopAssumption DEF Typed
  <1> QED BY <1>1 DEF TextBlock

\* What the program says.
LEMMA MarkerText ==
  ASSUME NEW k \in Noted
  PROVE  Block(k) \in TextBlock /\ Block(k).kind = k /\ Block(k).n = 0
         /\ Marker(k) = User(Block(k))
  BY DEF Block, TextBlock, Marker

\* A history stays one when more calls are made.
LEMMA MoreCalls ==
  ASSUME NEW late, NEW ms, NEW n \in Nat, NEW p \in Nat, n <= p, History(ms, n, late),
         NEW later, late => later
  PROVE  History(ms, p, later)
  <1>1. ms \in Seq(Message) /\ Known(ms, n)
    BY DEF History
  <1>2. ASSUME NEW i \in 1 .. Len(ms), NEW c,
               c \in ToSet(ms[i].uses) \/ c \in ms[i].results
        PROVE  c.id <= p
    <2>1. ms[i] \in Message /\ c.id <= n
      BY <1>1, <1>2 DEF Known
    <2>2. ms[i].uses \in Seq(ToolCall) /\ ms[i].results \in SUBSET ToolCall
      BY <2>1, MessageFields
    <2>3. c \in ToolCall
      BY <1>2, <2>2 DEF ToSet
    <2>4. c.id \in Nat
      BY <2>3 DEF ToolCall
    <2> QED BY <2>1, <2>4
  <1>3. Begins(ms, later)
    BY DEF History, Begins
  <1> QED BY <1>2, <1>3 DEF History, Known

\* What an MCP prompt puts before and into the user's first text is a history.
LEMMA FirstHistory ==
  ASSUME NEW p \in McpPrompts, NEW b \in TextBlock, NEW n \in Nat
  PROVE  History(Append(p.before, FirstText(b, p.blocks)), n, p.before # <<>>)
  <1> DEFINE q == p.before
             c == p.blocks
             m == FirstText(b, c)
             r == Append(q, m)
             late == q # <<>>
  <1>1. ASSUME NEW x \in Contents PROVE x \in Seq(TextBlock)
    <2>1. Block("said") \in TextBlock /\ Block("empty") \in TextBlock
      BY DEF Block, TextBlock, Noted
    <2>2. CASE x = <<>>
      BY <2>2
    <2>3. ASSUME NEW y \in Blocks, x = <<y>> PROVE x \in Seq(TextBlock)
      <3>1. y \in TextBlock
        BY <2>1 DEF Blocks
      <3> QED BY <2>3, <3>1
    <2> QED BY <2>2, <2>3 DEF Contents
  <1>2. ToSet(<<>>) = {}
    BY DEF ToSet
  <1>3. ASSUME NEW x \in PromptMessages
        PROVE  x \in Message /\ ToSet(x.uses) = {} /\ x.results = {}
    <2>1. PICK t \in Contents : x = Assistant(t, <<>>) \/ x = Rendered(t)
      BY DEF PromptMessages
    <2>2. t \in Seq(TextBlock)
      BY <1>1
    <2>3. CASE x = Assistant(t, <<>>)
      <3>1. <<>> \in Seq(ToolCall)
        OBVIOUS
      <3> QED BY <1>2, <2>2, <2>3, <3>1 DEF Assistant, Message, AssistantMessage
    <2>4. CASE x = Rendered(t)
      BY <1>2, <2>2, <2>4 DEF Rendered, Message, UserMessage, MixedMessage
    <2> QED BY <2>1, <2>3, <2>4
  <1>4. q \in Seq(PromptMessages) /\ c \in Contents
    <2>1. p \in [before : Seq(PromptMessages), blocks : Contents]
      BY AgentLoopAssumption
    <2> HIDE DEF PromptMessages, Contents
    <2> QED BY <2>1
  <1> HIDE DEF q
  <1>5. /\ m \in Message /\ m.type = "user" /\ m.text # <<>>
        /\ ToSet(m.uses) = {} /\ m.results = {}
    <2>1. CASE c = <<>>
      <3>1. m = User(b)
        BY <2>1 DEF FirstText
      <3> HIDE DEF m
      <3> QED BY <3>1, UserText
    <2>2. CASE c # <<>>
      <3> DEFINE t == <<b>> \o c
      <3>1. m = Rendered(t)
        BY <2>2 DEF FirstText
      <3>2. t \in Seq(TextBlock) /\ t # <<>>
        <4>1. c \in Seq(TextBlock)
          BY <1>1, <1>4
        <4> HIDE DEF c
        <4> QED BY <4>1
      <3> HIDE DEF t, m
      <3> QED BY <1>2, <3>1, <3>2 DEF Rendered, Message, UserMessage, MixedMessage
    <2> QED BY <2>1, <2>2
  <1> HIDE DEF m, c
  <1>6. q \in Seq(Message)
    <2>1. DOMAIN q = 1 .. Len(q) /\ Len(q) \in Nat /\ q \in [1 .. Len(q) -> PromptMessages]
      <3> HIDE DEF PromptMessages
      <3> QED BY <1>4
    <2>2. \A i \in 1 .. Len(q) : q[i] \in PromptMessages
      BY <2>1
    <2>3. \A i \in 1 .. Len(q) : q[i] \in Message
      BY <1>3, <2>2
    <2>4. q \in [1 .. Len(q) -> Message]
      BY <2>1, <2>3
    <2> QED BY <2>1, <2>4
  <1>7. /\ r \in Seq(Message) /\ Len(r) = Len(q) + 1 /\ Len(q) \in Nat
        /\ \A i \in 1 .. Len(q) : r[i] = q[i]
        /\ r[Len(q) + 1] = m
        /\ \A i \in 1 .. Len(r) : i \in 1 .. Len(q) \/ i = Len(q) + 1
    BY <1>5, <1>6, AppendPlaces
  <1> HIDE DEF r
  <1>8. \A i \in 1 .. Len(r) : ToSet(r[i].uses) = {} /\ r[i].results = {}
    <2>1. \A i \in 1 .. Len(q) : ToSet(q[i].uses) = {} /\ q[i].results = {}
      <3>1. \A i \in 1 .. Len(q) : q[i] \in PromptMessages
        <4> HIDE DEF PromptMessages
        <4> QED BY <1>4
      <3> QED BY <1>3, <3>1
    <2> QED BY <1>5, <1>7, <2>1
  <1>9. Begins(r, late)
    <2>1. Len(q) + 1 \in 1 .. Len(r)
      BY <1>7
    <2>2. Len(q) + 1 # 1 => late
      BY <1>6
    <2> HIDE DEF late
    <2> QED BY <1>5, <1>7, <2>1, <2>2 DEF Begins
  <1>10. Tidy(r) /\ Known(r, n)
    BY <1>8 DEF Tidy, Known
  <1> QED BY <1>7, <1>9, <1>10 DEF History, r, q, m, c

\* The history of a run that starts.
LEMMA StartHistory ==
  ASSUME HistoryInv, NEW h, NEW late, History(h, calls, late),
         NEW t \in Nat, NEW id \in Nat, NEW known, NEW first,
         StartLoop(h, t, id, known, first), texts' \in Nat,
         primed' = late, primed => late
  PROVE  HistoryInv'
  <1> DEFINE initial == IF Len(h) > 1 THEN sanitizeResumedMessages(h) ELSE h
  <1>1. History(initial, calls, late)
    BY SanitizeHistory
  <1>2. /\ messages' = initial /\ pc' = "top" /\ turn' = t /\ request' = id
        /\ runs' = runs + 1 /\ saved' = saved /\ calls' = calls
    BY DEF StartLoop
  <1> HIDE DEF initial
  <1>3. /\ runs \in Nat /\ calls \in Nat
        /\ saved \in [messages : Seq(Message), turn : Nat, request : Nat]
        /\ saved.messages # <<>> => History(saved.messages, calls, late)
    <2>1. calls \in Nat /\ calls <= calls
      BY DEF HistoryInv
    <2> QED BY <2>1, MoreCalls DEF HistoryInv
  <1>4. runs' \in Nat /\ runs' # 0
    BY <1>2, <1>3
  <1> QED BY <1>1, <1>2, <1>3, <1>4 DEF HistoryInv

\* The checkpoint's history with one more text.
LEMMA SavedText ==
  ASSUME HistoryInv, NEW b \in TextBlock
  PROVE  History(Append(saved.messages, User(b)), calls, primed)
  <1>1. calls \in Nat
    BY DEF HistoryInv
  <1>2. CASE saved.messages = <<>>
    BY <1>1, <1>2, TextHistory
  <1>3. CASE saved.messages # <<>>
    BY <1>1, <1>3, TextHistory DEF HistoryInv
  <1> QED BY <1>2, <1>3

\* A run that starts leaves the histories in order.
LEMMA StartsHistory ==
  ASSUME HistoryInv, Begin \/ FollowUp \/ Recover \/ Resume \/ Wake
  PROVE  HistoryInv'
  <1>0. /\ runs \in Nat /\ texts \in Nat /\ calls \in Nat /\ runs + 1 \in Nat
        /\ texts + 1 \in Nat
        /\ saved \in [messages : Seq(Message), turn : Nat, request : Nat]
    BY DEF HistoryInv
  <1>1. CASE FollowUp
    <2>1. PICK k \in Prompts, first \in BOOLEAN :
            StartLoop(Append(saved.messages, User([kind |-> k, n |-> texts + 1])),
                      1, runs + 1, findOpenPlanRequestId, first)
      BY <1>1 DEF FollowUp
    <2>2. texts' \in Nat /\ primed' = primed
      BY <1>0, <1>1 DEF FollowUp
    <2> DEFINE b == [kind |-> k, n |-> texts + 1]
    <2>3. b \in TextBlock
      BY <1>0, PromptText
    <2> HIDE DEF b
    <2>4. History(Append(saved.messages, User(b)), calls, primed)
      BY <2>3, SavedText
    <2>5. StartLoop(Append(saved.messages, User(b)), 1, runs + 1,
                    findOpenPlanRequestId, first)
      BY <2>1 DEF b
    <2> DEFINE id == runs + 1
    <2>6. id \in Nat
      BY <1>0
    <2> HIDE DEF id
    <2> QED BY <2>2, <2>4, <2>5, <2>6, StartHistory DEF id
  <1>2. CASE Leave("ended") /\ UNCHANGED <<saved, open, runs, texts, calls, asked, primed>>
    BY <1>0, <1>2 DEF Leave, HistoryInv
  <1>3. ASSUME saved.messages # <<>>, UNCHANGED <<texts, primed>>,
               StartLoop(Append(saved.messages, Marker("recovery")),
                         1, runs + 1, findOpenPlanRequestId, FALSE)
        PROVE  HistoryInv'
    <2> DEFINE b == Block("recovery")
               id == runs + 1
    <2>1. b \in TextBlock /\ Marker("recovery") = User(b)
      BY MarkerText DEF Noted
    <2>2. /\ StartLoop(Append(saved.messages, User(b)), 1, id, findOpenPlanRequestId, FALSE)
          /\ texts' = texts /\ primed' = primed
      BY <1>3, <2>1
    <2>3. id \in Nat
      BY <1>0
    <2> HIDE DEF b, id
    <2>4. History(Append(saved.messages, User(b)), calls, primed)
      BY <2>1, SavedText
    <2> QED BY <1>0, <2>2, <2>3, <2>4, StartHistory
  <1>4. CASE Resume
    <2> DEFINE b == Block("empty")
               h == sanitizeResumedMessages(saved.messages)
               t == saved.turn
               id == saved.request
    <2>1. b \in TextBlock /\ Marker("empty") = User(b)
      BY MarkerText DEF Noted
    <2>2. StartLoop(Append(h, User(b)), t, id, 0, FALSE) /\ texts' = texts
          /\ primed' = primed
      BY <1>4, <2>1 DEF Resume
    <2>3. t \in Nat /\ id \in Nat
      BY <1>0
    <2>4. History(h, calls, primed)
      BY <1>4, SanitizeHistory DEF Resume, HistoryInv
    <2> HIDE DEF b, h, t, id
    <2>5. History(Append(h, User(b)), calls, primed)
      BY <1>0, <2>1, <2>4, TextHistory
    <2> QED BY <1>0, <2>2, <2>3, <2>5, StartHistory
  <1>5. CASE Wake
    <2> DEFINE b == Block("empty")
               id == runs + 1
    <2>1. b \in TextBlock /\ Marker("empty") = User(b)
      BY MarkerText DEF Noted
    <2>2. StartLoop(<<User(b)>>, 1, id, 0, FALSE) /\ texts' = texts
          /\ primed' = primed
      BY <1>5, <2>1 DEF Wake
    <2>3. id \in Nat
      BY <1>0
    <2> HIDE DEF b, id
    <2>4. History(<<User(b)>>, calls, primed)
      BY <1>0, <2>1, TextHistory
    <2> QED BY <1>0, <2>2, <2>3, <2>4, StartHistory
  <1>6. CASE Begin
    <2>1. PICK k \in Prompts, p \in McpPrompts, first \in BOOLEAN :
            /\ StartLoop(Append(p.before, FirstText([kind |-> k, n |-> texts + 1], p.blocks)),
                         1, runs + 1, 0, first)
            /\ primed' = (p.before # <<>>)
      BY <1>6 DEF Begin
    <2>2. texts' \in Nat
      BY <1>0, <1>6 DEF Begin
    <2> DEFINE b == [kind |-> k, n |-> texts + 1]
               h == Append(p.before, FirstText(b, p.blocks))
               id == runs + 1
               late == p.before # <<>>
    <2>3. b \in TextBlock
      BY <1>0, PromptText
    <2> HIDE DEF b
    <2>4. History(h, calls, late)
      BY <1>0, <2>3, FirstHistory
    <2>5. StartLoop(h, 1, id, 0, first) /\ primed' = late
      BY <2>1 DEF b
    <2>6. id \in Nat
      BY <1>0
    <2>7. primed => late
      BY <1>6 DEF Begin, HistoryInv
    <2> HIDE DEF id, h, late
    <2> QED BY <2>2, <2>4, <2>5, <2>6, <2>7, StartHistory
  <1>7. Recover => HistoryInv'
    BY <1>2, <1>3 DEF Recover
  <1> QED BY <1>1, <1>4, <1>5, <1>6, <1>7

\* The end of a run loses its history; the checkpoint is what it was or new.
LEMMA LeaveHistory ==
  ASSUME HistoryInv, NEW to \in {"ended", "dead"}, Leave(to),
         runs' = runs, texts' = texts, calls' = calls, primed' = primed,
         \/ saved' = saved
         \/ \E ms : History(ms, calls, primed) /\ saved' = buildCheckpoint(ms, turn)
  PROVE  HistoryInv'
  <1>1. /\ runs \in Nat /\ texts \in Nat /\ calls \in Nat /\ turn \in Nat /\ request \in Nat
        /\ runs = 0 => ~primed
        /\ saved \in [messages : Seq(Message), turn : Nat, request : Nat]
        /\ saved.messages # <<>> => History(saved.messages, calls, primed)
    BY DEF HistoryInv
  <1>2. /\ saved' \in [messages : Seq(Message), turn : Nat, request : Nat]
        /\ saved'.messages # <<>> => History(saved'.messages, calls, primed)
    <2>1. CASE saved' = saved
      BY <1>1, <2>1
    <2>2. ASSUME NEW ms, History(ms, calls, primed), saved' = buildCheckpoint(ms, turn)
          PROVE  /\ saved' \in [messages : Seq(Message), turn : Nat, request : Nat]
                 /\ saved'.messages # <<>> => History(saved'.messages, calls, primed)
      <3>1. ms \in Seq(Message)
        BY <2>2 DEF History
      <3> QED BY <1>1, <2>2, <3>1 DEF buildCheckpoint
    <2> QED BY <2>1, <2>2
  <1>3. pc' = to /\ messages' = <<>> /\ turn' = 0 /\ request' = 0
    BY DEF Leave
  <1> QED BY <1>1, <1>2, <1>3 DEF HistoryInv

\* Another turn.
LEMMA NextTurnHistory ==
  ASSUME HistoryInv, NEW ms, History(ms, calls, primed), NextTurn(ms),
         request' = request, runs' = runs, texts' = texts, calls' = calls,
         primed' = primed
  PROVE  HistoryInv'
  <1>1. /\ runs \in Nat /\ texts \in Nat /\ calls \in Nat /\ turn \in Nat /\ request \in Nat
        /\ runs = 0 => ~primed
        /\ turn + 1 \in Nat
    BY DEF HistoryInv
  <1>2. /\ pc' = "top" /\ messages' = ms /\ turn' = turn + 1
        /\ saved' = [messages |-> ms, turn |-> turn + 1, request |-> request]
    BY DEF NextTurn, buildCheckpoint
  <1>3. ms \in Seq(Message)
    BY DEF History
  <1>4. /\ saved' \in [messages : Seq(Message), turn : Nat, request : Nat]
        /\ saved'.messages = ms
    BY <1>1, <1>2, <1>3
  <1> QED BY <1>1, <1>2, <1>4 DEF HistoryInv

\* What the model says.
LEMMA ReplyText ==
  /\ <<>> \in Seq(TextBlock)
  /\ <<Block("said")>> \in Seq(TextBlock) /\ <<Block("thinking")>> \in Seq(TextBlock)
  <1>1. Block("said") \in TextBlock /\ Block("thinking") \in TextBlock
    BY DEF Block, TextBlock
  <1> QED BY <1>1

\* No message, no call: nothing was made yet.
LEMMA HistoryInit == Init => HistoryInv
  <1> SUFFICES ASSUME Init PROVE HistoryInv
    OBVIOUS
  <1>1. <<>> \in Seq(Message)
    OBVIOUS
  <1> QED BY <1>1 DEF Init, HistoryInv, NoCheckpoint

\* The steps before the model is called.
LEMMA TopHistory ==
  ASSUME HistoryInv, FreshContext \/ Drain \/ Fits \/ Compact
  PROVE  HistoryInv'
  <1>0. /\ runs \in Nat /\ texts \in Nat /\ calls \in Nat /\ turn \in Nat /\ request \in Nat
        /\ runs = 0 => ~primed
        /\ texts + 1 \in Nat
        /\ saved \in [messages : Seq(Message), turn : Nat, request : Nat]
        /\ saved.messages # <<>> => History(saved.messages, calls, primed)
    BY DEF HistoryInv
  <1>1. CASE FreshContext
    <2> DEFINE r == trimForFreshContext(saved.messages, TailTurns)
    <2>1. saved' = [saved EXCEPT !.messages = r] /\ pc = "ended" /\ pc' = pc
          /\ UNCHANGED <<messages, turn, request, reply, runs, texts, calls, primed>>
      BY <1>1 DEF FreshContext, memory, ghosts
    <2>2. saved.messages \in Seq(Message) /\ TailTurns \in Nat \ {0}
      BY <1>0, AgentLoopAssumption
    <2>3. IsCut(r, saved.messages) /\ (Begins(saved.messages, primed) => Begins(r, primed))
      BY <2>2, TrimCuts
    <2> HIDE DEF r
    <2>4. r \in Seq(Message)
      BY <2>3 DEF IsCut
    <2>5. r # <<>> => History(r, calls, primed)
      <3>1. CASE saved.messages = <<>>
        <4>1. identifyTurns(<<>>) = {}
          BY DEF identifyTurns
        <4>2. Cardinality({}) = 0 /\ 0 <= TailTurns
          BY <2>2, FS_EmptySet
        <4>3. r = <<>>
          BY <3>1, <4>1, <4>2 DEF r, trimForFreshContext
        <4> QED BY <4>3
      <3>2. CASE saved.messages # <<>>
        <4>1. Begins(r, primed)
          BY <1>0, <2>3, <3>2 DEF History
        <4> QED BY <1>0, <2>3, <3>2, <4>1, CutHistory
      <3> QED BY <3>1, <3>2
    <2>6. saved' \in [messages : Seq(Message), turn : Nat, request : Nat]
          /\ saved'.messages = r
      BY <1>0, <2>1, <2>4
    <2> QED BY <1>0, <2>1, <2>5, <2>6 DEF HistoryInv
  <1>2. CASE Drain
    <2>1. /\ pc = "top" /\ pc' = "compact"
          /\ UNCHANGED <<turn, request, reply, saved, runs, calls, primed>>
      BY <1>2 DEF Drain, ghosts
    <2>2. History(messages, calls, primed)
      BY <2>1 DEF HistoryInv
    <2>3. texts' \in Nat /\ History(messages', calls, primed)
      <3>1. CASE UNCHANGED <<messages, texts>>
        BY <1>0, <2>2, <3>1
      <3>2. ASSUME NEW k \in Prompts, texts' = texts + 1,
                   messages' = Append(messages, User([kind |-> k, n |-> texts + 1]))
            PROVE  texts' \in Nat /\ History(messages', calls, primed)
        <4> DEFINE b == [kind |-> k, n |-> texts + 1]
        <4>1. b \in TextBlock
          BY <1>0, PromptText
        <4> HIDE DEF b
        <4>2. History(Append(messages, User(b)), calls, primed)
          BY <1>0, <2>2, <4>1, TextHistory
        <4> QED BY <1>0, <3>2, <4>2 DEF b
      <3> QED BY <1>2, <3>1, <3>2 DEF Drain
    <2> QED BY <1>0, <2>1, <2>3 DEF HistoryInv
  <1>3. CASE Fits
    <2>1. /\ pc = "compact" /\ pc' = IF Response(messages') # <<>> THEN "plan" ELSE "model"
          /\ UNCHANGED <<messages, turn, plan, request, reply, saved, runs, texts, calls, primed>>
      BY <1>3 DEF Fits, Go, memory, ghosts
    <2>2. History(messages, calls, primed)
      BY <2>1 DEF HistoryInv
    <2>3. pc' \in {"plan", "model"} /\ (pc' = "plan" => Response(messages)' # <<>>)
      BY <2>1 DEF Response
    <2> QED BY <1>0, <2>1, <2>2, <2>3 DEF HistoryInv
  <1>4. CASE Compact
    <2>1. /\ pc = "compact" /\ pc' = IF Response(messages') # <<>> THEN "plan" ELSE "model"
          /\ UNCHANGED <<turn, plan, request, reply, saved, runs, texts, calls, primed>>
      BY <1>4 DEF Compact, Go
    <2>2. History(messages, calls, primed) /\ messages \in Seq(Message)
      BY <2>1 DEF HistoryInv, History
    <2>3. PICK kept \in UNION {Dropped(ms) : ms \in {messages} \cup autocompact(messages)} :
            messages' = InjectProgress(kept)
      BY <1>4 DEF Compact, Rewrite
    <2>4. IsCut(messages', messages) /\ Begins(messages', primed)
      BY <2>2, <2>3, CompactCuts
    <2>5. History(messages', calls, primed)
      BY <2>2, <2>4, CutHistory
    <2>6. pc' \in {"plan", "model"} /\ (pc' = "plan" => Response(messages)' # <<>>)
      BY <2>1 DEF Response
    <2> QED BY <1>0, <2>1, <2>5, <2>6 DEF HistoryInv
  <1> QED BY <1>1, <1>2, <1>3, <1>4

\* The answer to a plan is replaced.
LEMMA PlanHistory ==
  ASSUME HistoryInv, LeavePlan \/ Substitute
  PROVE  HistoryInv'
  <1>0. /\ runs \in Nat /\ texts \in Nat /\ calls \in Nat /\ turn \in Nat /\ request \in Nat
        /\ runs = 0 => ~primed
        /\ saved \in [messages : Seq(Message), turn : Nat, request : Nat]
        /\ saved.messages # <<>> => History(saved.messages, calls, primed)
    BY DEF HistoryInv
  <1>1. CASE LeavePlan
    <2>1. /\ pc = "plan" /\ pc' = "answered" /\ reply' = Response(messages)
          /\ UNCHANGED <<messages, turn, request, saved, runs, texts, calls, primed>>
      BY <1>1 DEF LeavePlan, ghosts
    <2>2. History(messages, calls, primed) /\ Response(messages) # <<>>
      BY <2>1 DEF HistoryInv
    <2>3. Response(messages)[1].kind \in {"approve", "cancel", "revise"}
      <3>1. Response(messages) = detectPlanResponse(messages)
        BY <2>2 DEF Response
      <3> QED BY <2>2, <3>1, AnswerKinds
    <2> QED BY <1>0, <2>1, <2>2, <2>3 DEF HistoryInv
  <1>2. CASE Substitute
    <2> DEFINE k == reply[1].kind
               ms == stripSentinelFromMessages(messages, k)
               said == <<Block("said")>>
               last == Append(ms, Assistant(said, <<>>))
    <2>1. pc = "answered" /\ UNCHANGED <<open, runs, texts, calls, asked, primed>>
      BY <1>2 DEF Substitute
    <2>2. k \in {"approve", "cancel", "revise"} /\ History(messages, calls, primed)
      BY <2>1 DEF HistoryInv
    <2>3. \/ saved' = buildCheckpoint(last, turn) /\ Leave("ended")
          \/ /\ saved' = buildCheckpoint(ms, turn) /\ messages' = ms /\ pc' = "model"
             /\ UNCHANGED <<turn, request>>
      BY <1>2 DEF Substitute, End
    <2> HIDE DEF k
    <2>4. History(ms, calls, primed)
      BY <2>2, StripHistory
    <2> HIDE DEF ms
    <2>5. said \in Seq(TextBlock)
      BY ReplyText
    <2> HIDE DEF said
    <2>6. History(last, calls, primed)
      BY <1>0, <2>4, <2>5, AssistantHistory
    <2> HIDE DEF last
    <2>7. CASE saved' = buildCheckpoint(last, turn) /\ Leave("ended")
      BY <2>1, <2>6, <2>7, LeaveHistory
    <2>8. CASE /\ saved' = buildCheckpoint(ms, turn) /\ messages' = ms /\ pc' = "model"
               /\ UNCHANGED <<turn, request>>
      <3>1. saved' = [messages |-> ms, turn |-> turn, request |-> request]
        BY <2>8 DEF buildCheckpoint
      <3>2. ms \in Seq(Message)
        BY <2>4 DEF History
      <3>3. saved' \in [messages : Seq(Message), turn : Nat, request : Nat]
            /\ saved'.messages = ms
        BY <1>0, <3>1, <3>2
      <3> QED BY <1>0, <2>1, <2>4, <2>8, <3>3 DEF HistoryInv
    <2> QED BY <2>3, <2>7, <2>8
  <1> QED BY <1>1, <1>2

\* A reply without calls.
LEMMA ReplyHistory ==
  ASSUME HistoryInv, Finish \/ Think
  PROVE  HistoryInv'
  <1>0. calls \in Nat
    BY DEF HistoryInv
  <1>1. CASE Finish
    <2>1. PICK t \in {<<>>, <<Block("said")>>} :
            saved' = buildCheckpoint(Append(messages, Assistant(t, <<>>)), turn)
      BY <1>1 DEF Finish
    <2>2. /\ pc = "model" /\ Leave("ended")
          /\ runs' = runs /\ texts' = texts /\ calls' = calls
        /\ primed' = primed
      BY <1>1 DEF Finish, End
    <2>3. t \in Seq(TextBlock)
      BY ReplyText
    <2>4. History(messages, calls, primed)
      BY <2>2 DEF HistoryInv
    <2>5. History(Append(messages, Assistant(t, <<>>)), calls, primed)
      BY <1>0, <2>3, <2>4, AssistantHistory
    <2> QED BY <2>1, <2>2, <2>5, LeaveHistory
  <1>2. CASE Think
    <2> DEFINE a == Assistant(<<Block("thinking")>>, <<>>)
               b == Block("continue")
               u == User(b)
               ms == Append(Append(messages, a), u)
    <2>1. <<Block("thinking")>> \in Seq(TextBlock)
      BY ReplyText
    <2>2. History(messages, calls, primed) /\ messages \in Seq(Message)
      BY <1>2 DEF Think, HistoryInv, History
    <2>3. a \in Message /\ History(Append(messages, a), calls, primed)
      BY <1>0, <2>1, <2>2, AssistantHistory
    <2>4. b \in TextBlock /\ Marker("continue") = u
      BY MarkerText DEF Noted
    <2> HIDE DEF a, b
    <2>5. History(ms, calls, primed) /\ u \in Message
      BY <1>0, <2>3, <2>4, TextHistory, UserText
    <2> HIDE DEF u
    <2>6. messages \o <<a, u>> = ms
      BY <2>2, <2>3, <2>5
    <2> HIDE DEF ms
    <2>7. NextTurn(ms)
      <3>1. NextTurn(messages \o <<a, u>>)
        BY <1>2, <2>4 DEF Think, a
      <3> QED BY <2>6, <3>1
    <2>8. UNCHANGED <<request, runs, texts, calls, primed>>
      BY <1>2 DEF Think
    <2> QED BY <2>5, <2>7, <2>8, NextTurnHistory
  <1> QED BY <1>1, <1>2

\* A reply with calls.
LEMMA CallHistory ==
  ASSUME HistoryInv, Call
  PROVE  HistoryInv'
  <1>0. /\ runs \in Nat /\ texts \in Nat /\ calls \in Nat /\ turn \in Nat /\ request \in Nat
        /\ runs = 0 => ~primed
        /\ saved \in [messages : Seq(Message), turn : Nat, request : Nat]
        /\ saved.messages # <<>> => History(saved.messages, calls, primed)
    BY DEF HistoryInv
  <1>1. /\ pc = "model" /\ pc' = "tools"
        /\ UNCHANGED <<turn, request, reply, saved, runs, texts, primed>>
    BY DEF Call
  <1>2. History(messages, calls, primed) /\ messages \in Seq(Message)
    BY <1>1 DEF HistoryInv, History
  <1>3. PICK r \in Replies :
          /\ calls' = calls + Len(r.tools)
          /\ todo' = [i \in DOMAIN r.tools |-> [id |-> calls + i, tool |-> r.tools[i]]]
          /\ messages' = Append(messages, Assistant(r.text, todo'))
    BY DEF Call
  <1> DEFINE L == Len(r.tools)
             us == [i \in 1 .. L |-> [id |-> calls + i, tool |-> r.tools[i]]]
             m == Assistant(r.text, us)
  <1>4. /\ r.tools \in Seq({"enter", "exit", "work"}) /\ r.text \in Seq(TextBlock)
        /\ DOMAIN r.tools = 1 .. L /\ L \in Nat
    <2>1. r \in [text : {<<>>, <<Block("said")>>}, tools : Seq({"enter", "exit", "work"})]
      BY AgentLoopAssumption
    <2>2. <<Block("said")>> \in Seq(TextBlock) /\ <<>> \in Seq(TextBlock)
      BY ReplyText
    <2> DEFINE ts == r.tools
               x == r.text
    <2>3. ts \in Seq({"enter", "exit", "work"}) /\ x \in {<<>>, <<Block("said")>>}
      BY <2>1
    <2> HIDE DEF ts, x
    <2>4. DOMAIN ts = 1 .. Len(ts) /\ Len(ts) \in Nat
      BY <2>3
    <2>5. x \in Seq(TextBlock)
      BY <2>2, <2>3
    <2> QED BY <2>3, <2>4, <2>5 DEF ts, x
  <1>5. todo' = us
    BY <1>3, <1>4
  <1>6. ASSUME NEW i \in 1 .. L
        PROVE  us[i] = [id |-> calls + i, tool |-> r.tools[i]] /\ us[i] \in ToolCall
               /\ us[i].id = calls + i
    <2>1. r.tools[i] \in {"enter", "exit", "work"} /\ calls + i \in Nat
      BY <1>0, <1>4
    <2> QED BY <2>1 DEF ToolCall
  <1> HIDE DEF L
  <1>7. us \in Seq(ToolCall) /\ Len(us) = L /\ DOMAIN us = 1 .. L
    <2>1. us \in [1 .. L -> ToolCall]
      <3>1. us = [i \in 1 .. L |-> us[i]]
        OBVIOUS
      <3> HIDE DEF us
      <3> QED BY <1>6, <3>1
    <2> HIDE DEF us
    <2> QED BY <1>4, <2>1 DEF L
  <1> HIDE DEF us
  <1>8. /\ m \in Message /\ m.type = "assistant" /\ m.results = {} /\ m.uses = us
    BY <1>4, <1>7 DEF Message, AssistantMessage, Assistant
  <1> DEFINE p == calls + L
  <1>9. p \in Nat /\ calls <= p /\ calls' = p
    BY <1>0, <1>3, <1>4 DEF L
  <1>10. \A c \in ToSet(us) : \E i \in 1 .. L : us[i] = c
    BY <1>7 DEF ToSet
  <1>11. \A c \in ToSet(m.uses) : ~(c.id <= calls) /\ c.id <= p
    <2>1. ASSUME NEW c \in ToSet(us) PROVE ~(c.id <= calls) /\ c.id <= p
      <3>1. PICK i \in 1 .. L : us[i] = c
        BY <1>10
      <3>2. c.id = calls + i
        BY <1>6, <3>1
      <3> QED BY <1>0, <1>4, <3>2 DEF L
    <2> QED BY <1>8, <2>1
  <1> HIDE DEF p, m
  <1>12. messages' = Append(messages, m)
    BY <1>3, <1>5 DEF m
  <1>13. History(messages', calls', primed')
    <2>1. History(Append(messages, m), p, primed)
      BY <1>0, <1>2, <1>8, <1>9, <1>11, AppendHistory
    <2> QED BY <1>1, <1>9, <1>12, <2>1
  <1>14. Pending(messages')
    <2> DEFINE q == messages'
    <2>1. /\ q \in Seq(Message) /\ q # <<>> /\ Len(q) = Len(messages) + 1
          /\ \A i \in 1 .. Len(messages) : q[i] = messages[i]
          /\ q[Len(messages) + 1] = m
          /\ \A i \in 1 .. Len(q) : i \in 1 .. Len(messages) \/ i = Len(messages) + 1
      BY <1>2, <1>8, <1>12, AppendPlaces
    <2>2. q[Len(q)] = m
      BY <2>1
    <2> HIDE DEF q
    <2>3. ASSUME NEW i \in 1 .. Len(us), NEW j \in 1 .. Len(us), us[i] = us[j]
          PROVE  i = j
      <3>1. i \in 1 .. L /\ j \in 1 .. L
        BY <1>7
      <3>2. calls + i = calls + j
        BY <1>6, <2>3, <3>1
      <3> QED BY <1>0, <3>2
    <2>4. ASSUME NEW c \in ToSet(us), NEW i \in 1 .. Len(q) PROVE c \notin q[i].results
      <3>1. CASE i \in 1 .. Len(messages)
        <4>1. c \in messages[i].results => c.id <= calls
          BY <1>2, <3>1 DEF History, Known
        <4> QED BY <1>8, <1>11, <2>1, <3>1, <4>1
      <3>2. CASE i = Len(messages) + 1
        BY <1>8, <2>1, <3>2
      <3> QED BY <2>1, <3>1, <3>2
    <2>5. Pending(q)
      BY <1>8, <2>1, <2>2, <2>3, <2>4 DEF Pending
    <2> QED BY <2>5 DEF q
  <1>15. saved'.messages # <<>> => History(saved'.messages, calls', primed')
    BY <1>0, <1>1, <1>9, MoreCalls
  <1> QED BY <1>0, <1>1, <1>9, <1>13, <1>14, <1>15 DEF HistoryInv

\* The results of the calls.
LEMMA RecordHistory ==
  ASSUME HistoryInv, Record
  PROVE  HistoryInv'
  <1>1. /\ pc = "tools" /\ runs' = runs /\ texts' = texts /\ calls' = calls
        /\ primed' = primed
    BY DEF Record
  <1>2. History(messages, calls, primed) /\ Pending(messages) /\ messages \in Seq(Message)
        /\ messages # <<>>
    BY <1>1 DEF HistoryInv, History, Pending
  <1>3. PICK lost :
          IF Halts
          THEN saved' = buildCheckpoint(messages \o Results(lost), turn) /\ Leave("ended")
          ELSE NextTurn(messages \o Results(lost)) /\ request' = request
    BY DEF Record, End
  <1> DEFINE r == Results(lost)
             ms == messages \o r
  <1>4. AreResults(r, messages[Len(messages)].uses, lost)
    BY <1>2, ResultsOfCalls
  <1> HIDE DEF r
  <1>5. History(ms, calls, primed)
    BY <1>2, <1>4, ResultsHistory
  <1> HIDE DEF ms
  <1>6. CASE Halts
    <2>1. saved' = buildCheckpoint(ms, turn) /\ Leave("ended")
      BY <1>3, <1>6 DEF ms, r
    <2> QED BY <1>1, <1>5, <2>1, LeaveHistory
  <1>7. CASE ~Halts
    <2>1. NextTurn(ms) /\ request' = request
      BY <1>3, <1>7 DEF ms, r
    <2> QED BY <1>1, <1>5, <2>1, NextTurnHistory
  <1> QED BY <1>6, <1>7

\* Every step keeps the histories in order.
LEMMA HistoryStep == HistoryInv /\ [Next]_vars => HistoryInv'
  <1> SUFFICES ASSUME HistoryInv, [Next]_vars PROVE HistoryInv'
    OBVIOUS
  <1>1. CASE Begin \/ FollowUp \/ Recover \/ Resume \/ Wake
    BY <1>1, StartsHistory
  <1>2. CASE FreshContext \/ Drain \/ Fits \/ Compact
    BY <1>2, TopHistory
  <1>3. CASE LeavePlan \/ Substitute
    BY <1>3, PlanHistory
  <1>4. CASE Finish \/ Think
    BY <1>4, ReplyHistory
  <1>5. CASE Call
    BY <1>5, CallHistory
  <1>6. CASE Execute
    <2>1. pc = "tools" /\ UNCHANGED <<pc, messages, turn, request, reply, saved, runs, texts, calls, primed>>
      BY <1>6 DEF Execute
    <2> QED BY <2>1 DEF HistoryInv
  <1>7. CASE Record
    BY <1>7, RecordHistory
  <1>8. CASE Stop
    BY <1>8, LeaveHistory DEF Stop, End
  <1>9. CASE Crash
    BY <1>9, LeaveHistory DEF Crash
  <1>10. CASE UNCHANGED vars
    <2>1. UNCHANGED <<pc, messages, turn, plan, request, reply, saved, runs, texts, calls, primed>>
      BY <1>10 DEF vars, memory, ghosts
    <2>2. Response(messages)' = Response(messages)
      BY <2>1 DEF Response
    <2> QED BY <2>1, <2>2 DEF HistoryInv
  <1> QED BY <1>1, <1>2, <1>3, <1>4, <1>5, <1>6, <1>7, <1>8, <1>9, <1>10 DEF Next

\* The history in memory and that of the checkpoint declare and answer no call
\* twice, let no reply pass between a call and its answer, name no call that was
\* never made and keep a text of the user (HistoryInv): whatever is repaired,
\* merged, compacted, trimmed or lost. That text is the first message, except
\* where an MCP prompt's messages were put before it (prompt-message-projection.ts:118).
THEOREM HistoriesInOrder == Spec => []HistoryInv
  BY HistoryInit, HistoryStep, PTL DEF Spec

\* The provider accepts every history that the loop sends it (SentIsWellFormed):
\* what pairing leaves is never empty and has the answers to a reply's calls in
\* the next message (message-pairing.ts:22); a reply is the first message only in
\* a task that was started with an MCP prompt's messages.
THEOREM SentIsAccepted == Spec => []SentIsWellFormed
  <1>1. ASSUME HistoryInv PROVE SentIsWellFormed
    <2> SUFFICES ASSUME pc = "model"
                 PROVE  /\ WellFormed(enforceAlternatingTurns(Sent))
                        /\ enforceAlternatingTurns(Sent)[1].type = "assistant" => primed
      BY DEF SentIsWellFormed
    <2>1. History(messages, calls, primed)
      BY <1>1 DEF HistoryInv
    <2> QED BY <2>1, HistoryIsSent DEF Sent
  <1> QED BY <1>1, HistoriesInOrder, PTL

\* The calls that ran in a run are pairs of its history.
ToldInv == told \subseteq ValidPairs(messages)

\* Every step keeps them.
LEMMA ToldStep == HistoryInv /\ HistoryInv' /\ ToldInv /\ [Next]_vars => ToldInv'
  <1> SUFFICES ASSUME HistoryInv, HistoryInv', ToldInv, [Next]_vars PROVE ToldInv'
    OBVIOUS
  <1>1. ASSUME pc \notin {"ended", "dead"}
        PROVE  messages \in Seq(Message) /\ messages # <<>>
    <2>1. messages \in Seq(Message) /\ Begins(messages, primed)
      BY <1>1 DEF HistoryInv, History
    <2> QED BY <2>1 DEF Begins
  <1>2. ASSUME NEW to, Leave(to) PROVE ToldInv'
    BY <1>2 DEF Leave, ToldInv
  <1>3. ASSUME NEW r \in Seq(Message), NEW ms, messages' = ms, told' = told,
               messages \in Seq(Message), Len(messages) <= Len(r), ms = r,
               \A i \in 1 .. Len(messages) : r[i].uses = messages[i].uses
                                              /\ r[i].results = messages[i].results
        PROVE  ToldInv'
    <2>1. ValidPairs(messages) \subseteq ValidPairs(r)
      BY <1>3, PairsStay
    <2> QED BY <1>3, <2>1 DEF ToldInv
  <1>4. CASE Begin \/ FollowUp \/ Recover \/ Resume \/ Wake
    <2>1. pc \in {"ended", "dead"}
      BY <1>4 DEF Begin, FollowUp, Recover, Resume, Wake
    <2>2. ValidPairs(<<>>) = {}
      BY DEF ValidPairs
    <2>3. told = {}
      BY <2>1, <2>2 DEF HistoryInv, ToldInv
    <2>4. told' = {}
      <3>1. told' = told \/ told' = {}
        BY <1>4 DEF Begin, FollowUp, Recover, Resume, Wake, StartLoop, Leave
      <3> QED BY <2>3, <3>1
    <2> QED BY <2>4 DEF ToldInv
  <1>5. CASE Drain
    <2>1. messages \in Seq(Message) /\ told' = told
      BY <1>1, <1>5 DEF Drain, ghosts
    <2>2. CASE messages' = messages
      BY <2>1, <2>2 DEF ToldInv
    <2>3. ASSUME NEW k \in Prompts,
                 messages' = Append(messages, User([kind |-> k, n |-> texts + 1]))
          PROVE  ToldInv'
      <3> DEFINE b == [kind |-> k, n |-> texts + 1]
      <3>1. b \in TextBlock
        <4>1. texts + 1 \in Nat
          BY DEF HistoryInv
        <4> QED BY <4>1, PromptText
      <3> HIDE DEF b
      <3>2. User(b) \in Message
        BY <3>1, UserText
      <3>3. ValidPairs(messages) \subseteq ValidPairs(Append(messages, User(b)))
        BY <2>1, <3>2, PairsAppend
      <3> QED BY <2>1, <2>3, <3>3 DEF ToldInv, b
    <2> QED BY <1>5, <2>2, <2>3 DEF Drain
  <1>6. CASE Compact
    <2>1. messages \in Seq(Message)
      BY <1>1, <1>6 DEF Compact
    <2>2. PICK kept : messages' = InjectProgress(kept)
                      /\ told' = IF kept = messages THEN told ELSE {}
      BY <1>6 DEF Compact, Rewrite
    <2>3. ValidPairs(messages) \subseteq ValidPairs(InjectProgress(messages))
      BY <2>1, PairsProgress
    <2> QED BY <2>2, <2>3 DEF ToldInv
  <1>7. CASE Substitute
    <2> DEFINE ms == stripSentinelFromMessages(messages, reply[1].kind)
    <2>1. pc = "answered"
          /\ (Leave("ended") \/ (messages' = ms /\ told' = told))
      BY <1>7 DEF Substitute, End
    <2>2. messages \in Seq(Message) /\ reply[1].kind \in {"approve", "cancel", "revise"}
      BY <1>1, <2>1 DEF HistoryInv
    <2>3. /\ ms \in Seq(Message) /\ Len(ms) = Len(messages)
          /\ \A i \in 1 .. Len(messages) : ms[i].uses = messages[i].uses
                                            /\ ms[i].results = messages[i].results
      BY <2>2, StripMessages
    <2> HIDE DEF ms
    <2>4. Len(messages) <= Len(ms)
      BY <2>2, <2>3
    <2> QED BY <1>2, <1>3, <2>1, <2>2, <2>3, <2>4
  <1>8. CASE Think
    <2> DEFINE q == <<Assistant(<<Block("thinking")>>, <<>>), Marker("continue")>>
    <2>1. messages \in Seq(Message) /\ messages' = messages \o q /\ told' = told
      BY <1>1, <1>8 DEF Think, NextTurn
    <2>2. q \in Seq(Message)
      <3>1. Assistant(<<Block("thinking")>>, <<>>) \in Message
        <4>1. 0 \in Nat
          OBVIOUS
        <4> QED BY <4>1, ReplyText, AssistantHistory
      <3>2. Marker("continue") \in Message
        BY MarkerText, UserText DEF Noted
      <3> QED BY <3>1, <3>2
    <2> HIDE DEF q
    <2>3. ValidPairs(messages) \subseteq ValidPairs(messages \o q)
      BY <2>1, <2>2, PairsConcat
    <2> QED BY <2>1, <2>3 DEF ToldInv
  <1>9. CASE Call
    <2>1. PICK m : messages' = Append(messages, m)
      BY <1>9 DEF Call
    <2>2. messages \in Seq(Message) /\ told' = told
      BY <1>1, <1>9 DEF Call
    <2>3. m \in Message
      <3>1. messages' \in Seq(Message)
        BY <1>9 DEF Call, HistoryInv, History
      <3> DEFINE q == Append(messages, m)
      <3>2. Len(q) = Len(messages) + 1 /\ q[Len(messages) + 1] = m
        <4>1. messages \in Seq(Message \cup {m}) /\ m \in Message \cup {m}
          BY <2>2
        <4> QED BY <4>1, AppendPlaces
      <3>3. Len(messages) + 1 \in 1 .. Len(q)
        <4>1. Len(messages) \in Nat
          BY <2>2
        <4> QED BY <3>2, <4>1
      <3> HIDE DEF q
      <3>4. q \in Seq(Message)
        BY <2>1, <3>1 DEF q
      <3>5. q[Len(messages) + 1] \in Message
        BY <3>3, <3>4
      <3> QED BY <3>2, <3>5
    <2>4. ValidPairs(messages) \subseteq ValidPairs(Append(messages, m))
      BY <2>2, <2>3, PairsAppend
    <2> QED BY <2>1, <2>2, <2>4 DEF ToldInv
  <1>10. CASE Record
    <2>1. pc = "tools" /\ messages \in Seq(Message) /\ messages # <<>>
      BY <1>1, <1>10 DEF Record
    <2>2. PICK lost :
            \/ Leave("ended")
            \/ /\ NextTurn(messages \o Results(lost))
               /\ told' = told \cup (ToSet(Last(messages).uses) \ lost)
      BY <1>10 DEF Record, End
    <2>3. ASSUME messages' = messages \o Results(lost),
                 told' = told \cup (ToSet(Last(messages).uses) \ lost)
          PROVE  ToldInv'
      <3> DEFINE r == Results(lost)
                 us == messages[Len(messages)].uses
      <3>1. AreResults(r, us, lost)
        BY <2>1, ResultsOfCalls
      <3>2. Last(messages).uses = us
        BY DEF Last
      <3> HIDE DEF r
      <3>3. r \in Seq(Message)
        BY <3>1 DEF AreResults
      <3>4. ValidPairs(messages) \subseteq ValidPairs(messages \o r)
        BY <2>1, <3>3, PairsConcat
      <3>5. \A c \in ToSet(us) \ lost : c \in ValidPairs(messages \o r)
        BY <2>1, <3>1, PairsOfResults
      <3> HIDE DEF us
      <3> QED BY <2>3, <3>2, <3>4, <3>5 DEF ToldInv, r
    <2> QED BY <1>2, <2>2, <2>3 DEF NextTurn
  <1>11. CASE Finish \/ Stop \/ Crash
    BY <1>2, <1>11 DEF Finish, Stop, Crash, End
  <1>12. CASE FreshContext \/ Fits \/ LeavePlan \/ Execute \/ UNCHANGED vars
    <2>1. messages' = messages /\ told' = told
      BY <1>12 DEF FreshContext, Fits, LeavePlan, Execute, vars, memory, ghosts
    <2> QED BY <2>1 DEF ToldInv
  <1> QED BY <1>4, <1>5, <1>6, <1>7, <1>8, <1>9, <1>10, <1>11, <1>12 DEF Next

\* Whatever ran in a run and was not compacted is in what the model is sent, the
\* call and its answer (WorkIsTold), so that it is not made again.
THEOREM WorkStaysTold == Spec => []WorkIsTold
  <1>1. Init => ToldInv
    BY DEF Init, ToldInv
  <1>2. ASSUME HistoryInv, ToldInv PROVE WorkIsTold
    <2> SUFFICES ASSUME pc = "model" PROVE told \subseteq Declared(Sent) \cap Answered(Sent)
      BY DEF WorkIsTold
    <2>1. messages \in Seq(Message)
      BY <1>2 DEF HistoryInv, History
    <2>2. ValidPairs(messages) \subseteq Declared(Sent) \cap Answered(Sent)
      BY <2>1, PairsSent DEF Sent
    <2> QED BY <1>2, <2>2 DEF ToldInv
  <1>3. Spec => []ToldInv
    BY <1>1, ToldStep, HistoriesInOrder, PTL DEF Spec
  <1> QED BY <1>2, <1>3, HistoriesInOrder, PTL

\* The first repair of a checkpoint (sanitizeResumedMessages) keeps every call
\* that was answered in it (FollowUpKeepsCalls).
THEOREM CallsFollow == Spec => FollowUpKeepsCalls
  <1>1. ASSUME HistoryInv, FollowUp \/ Recover, pc' = "top", Embedded(saved.messages) = {}
        PROVE  Declared(saved.messages) \cap Answered(saved.messages)
                 \subseteq Declared(messages') \cap Answered(messages')
    <2> DEFINE ms == saved.messages
    <2>1. ms \in Seq(Message) /\ texts + 1 \in Nat
      BY <1>1 DEF HistoryInv
    <2>2. \E b \in TextBlock : LET h == Append(ms, User(b)) IN
            messages' = IF Len(h) > 1 THEN sanitizeResumedMessages(h) ELSE h
      <3>1. CASE FollowUp
        <4>1. PICK k \in Prompts, first \in BOOLEAN :
                StartLoop(Append(ms, User([kind |-> k, n |-> texts + 1])),
                          1, runs + 1, findOpenPlanRequestId, first)
          BY <3>1 DEF FollowUp
        <4>2. [kind |-> k, n |-> texts + 1] \in TextBlock
          BY <2>1, PromptText
        <4> QED BY <4>1, <4>2 DEF StartLoop
      <3>2. CASE Recover
        <4>1. StartLoop(Append(ms, Marker("recovery")), 1, runs + 1,
                        findOpenPlanRequestId, FALSE)
          BY <1>1, <3>2 DEF Recover, Leave
        <4>2. Block("recovery") \in TextBlock /\ Marker("recovery") = User(Block("recovery"))
          BY MarkerText DEF Noted
        <4> QED BY <4>1, <4>2 DEF StartLoop
      <3> QED BY <1>1, <3>1, <3>2
    <2>3. PICK b \in TextBlock :
            messages' = IF Len(Append(ms, User(b))) > 1
                        THEN sanitizeResumedMessages(Append(ms, User(b)))
                        ELSE Append(ms, User(b))
      BY <2>2
    <2> DEFINE h == Append(ms, User(b))
    <2> HIDE DEF ms
    <2>4. User(b) \in Message /\ User(b).results = {}
      BY UserText
    <2>5. /\ h \in Seq(Message) /\ Len(h) = Len(ms) + 1
          /\ \A i \in 1 .. Len(ms) : h[i] = ms[i] /\ i \in 1 .. Len(h)
          /\ h[Len(ms) + 1] = User(b)
          /\ \A i \in 1 .. Len(h) : i \in 1 .. Len(ms) \/ i = Len(ms) + 1
      <3>1. \A i \in 1 .. Len(ms) : i \in 1 .. Len(ms) + 1
        BY <2>1
      <3> QED BY <2>1, <2>4, <3>1, AppendPlaces
    <2>6. messages' = IF Len(h) > 1 THEN sanitizeResumedMessages(h) ELSE h
      BY <2>3
    <2> HIDE DEF h
    <2>7. DOMAIN ms = 1 .. Len(ms) /\ Len(ms) \in Nat
      BY <2>1
    <2>8. \A i \in 1 .. Len(h) : h[i].type = "user" => h[i].results = {}
      <3>1. \A i \in 1 .. Len(ms) : ms[i].type = "user" => ms[i].results = {}
        <4>1. Embedded(ms) = {}
          BY <1>1 DEF ms
        <4> QED BY <2>7, <4>1 DEF Embedded
      <3> QED BY <2>4, <2>5, <3>1
    <2>9. ASSUME NEW c, c \in Declared(ms), c \in Answered(ms)
          PROVE  c \in Declared(messages') /\ c \in Answered(messages')
      <3>1. PICK i \in 1 .. Len(ms) : c \in ToSet(ms[i].uses)
        BY <2>7, <2>9 DEF Declared
      <3>2. PICK j \in 1 .. Len(ms) : c \in ms[j].results
        BY <2>7, <2>9 DEF Answered
      <3>3. /\ i \in 1 .. Len(h) /\ c \in ToSet(h[i].uses)
            /\ j \in 1 .. Len(h) /\ c \in h[j].results
        BY <2>5, <3>1, <3>2
      <3>4. messages' = sanitizeResumedMessages(h)
        <4>1. Len(h) > 1
          BY <2>5, <2>7, <3>1
        <4> QED BY <2>6, <4>1
      <3> QED BY <2>5, <2>8, <3>3, <3>4, SanitizeKeepsCalls
    <2> QED BY <2>9 DEF ms
  <1> QED BY <1>1, HistoriesInOrder, PTL DEF FollowUpKeepsCalls, Spec

\* While a plan the run was told of waits, what the user said last is no old answer.
AnswerInv ==
  /\ asked \in Nat /\ asked <= texts
  /\ pc \in {"top", "compact", "plan", "model"} /\ plan = "AWAITING_APPROVAL"
       /\ informed /\ open # 0 => FreshAnswer(messages, asked)
  /\ pc = "answered" => plan # "AWAITING_APPROVAL"

\* A history that ends with a text of the user that is new, or with one of the
\* program's that says something.
LEMMA FreshText ==
  ASSUME NEW ms \in Seq(Message), NEW a, NEW b \in TextBlock,
         b.kind \notin {"empty", "progress"}, b.kind \in {"approve", "cancel"} => b.n > a
  PROVE  FreshAnswer(Append(ms, User(b)), a)
  <1> DEFINE r == Append(ms, User(b))
  <1>1. User(b) \in Message /\ User(b).type = "user"
    BY UserText
  <1>2. r \in Seq(Message) /\ r # <<>> /\ r[Len(r)] = User(b)
    BY <1>1
  <1>3. Remark(User(b)) /\ ~Stale(User(b).text, a)
    BY UserSays
  <1> HIDE DEF r
  <1>4. FreshAnswer(r, a)
    BY <1>1, <1>2, <1>3, FreshEnd DEF Remark
  <1> QED BY <1>4 DEF r

\* So does a checkpoint's history that is sanitized after it was added.
LEMMA FreshSanitized ==
  ASSUME NEW ms \in Seq(Message), NEW a, NEW b \in TextBlock,
         b.kind \notin {"empty", "progress"}, b.kind \in {"approve", "cancel"} => b.n > a
  PROVE  FreshAnswer(sanitizeResumedMessages(Append(ms, User(b))), a)
  <1> DEFINE h == Append(ms, User(b))
             q == repairToolResultPairing(h)
             r == enforceAlternatingTurns(q)
  <1>1. /\ User(b) \in Message /\ User(b).type = "user" /\ User(b).plain
        /\ User(b).text = <<b>>
    BY UserText
  <1>2. h \in Seq(Message) /\ h # <<>> /\ h[Len(h)] = User(b)
    BY <1>1
  <1> HIDE DEF h
  <1>3. q \in Seq(Message) /\ q # <<>> /\ q[Len(q)].type = "user" /\ q[Len(q)].text = <<b>>
    BY <1>1, <1>2, RepairedLast
  <1> HIDE DEF q
  <1> DEFINE m == q[Len(q)]
  <1>4. m \in Message
    BY <1>3
  <1>5. /\ r \in Seq(Message) /\ r # <<>>
        /\ \/ r[Len(r)] = m
           \/ \E x \in Message : Role(x) = Role(m) /\ r[Len(r)] = Merged(x, m)
    <2>1. r \in Seq(Message)
      BY <1>3, Enforced
    <2> QED BY <1>3, <2>1, EnforcedLast
  <1> HIDE DEF r
  <1> DEFINE z == r[Len(r)]
  <1>6. /\ z \in Message /\ z.type = "user"
        /\ z.text \in Seq(TextBlock) /\ z.text # <<>> /\ z.text[Len(z.text)] = b
        /\ z.plain => z.text[1] = b
    <2>1. CASE z = m
      <3>1. z.text = <<b>> /\ z.type = "user"
        BY <1>3, <2>1
      <3> QED BY <1>4, <2>1, <3>1
    <2>2. ASSUME NEW x \in Message, Role(x) = Role(m), z = Merged(x, m)
          PROVE  /\ z \in Message /\ z.type = "user"
                 /\ z.text \in Seq(TextBlock) /\ z.text # <<>> /\ z.text[Len(z.text)] = b
                 /\ z.plain => z.text[1] = b
      <3>1. m.text = <<b>> /\ Role(m) = "user"
        BY <1>3 DEF Role
      <3> HIDE DEF z, m
      <3>2. /\ z \in Message /\ z.type = Role(x) /\ z.plain = FALSE
            /\ z.text = x.text \o m.text
        BY <1>4, <2>2, MergedMessage
      <3> DEFINE t == x.text
      <3>3. t \in Seq(TextBlock)
        BY MessageFields
      <3> HIDE DEF t
      <3>4. /\ t \o <<b>> \in Seq(TextBlock) /\ t \o <<b>> # <<>>
            /\ (t \o <<b>>)[Len(t \o <<b>>)] = b
        BY <3>3
      <3> QED BY <2>2, <3>1, <3>2, <3>4 DEF t
    <2> QED BY <1>5, <2>1, <2>2
  <1>7. ~IsMarker(z, "progress")
    BY <1>6 DEF IsMarker
  <1>8. ~Stale(z.text, a)
    BY <1>6, LastWord
  <1>9. FreshAnswer(r, a)
    BY <1>5, <1>6, <1>7, <1>8, FreshEnd
  <1> QED BY <1>9 DEF sanitizeResumedMessages, h, q, r

\* So does the history of a run that starts.
LEMMA StartFresh ==
  ASSUME NEW ms \in Seq(Message), NEW a, NEW b \in TextBlock,
         b.kind \notin {"empty", "progress"}, b.kind \in {"approve", "cancel"} => b.n > a,
         NEW t, NEW id, NEW known, NEW first,
         StartLoop(Append(ms, User(b)), t, id, known, first)
  PROVE  FreshAnswer(messages', a) /\ pc' = "top" /\ asked' = asked
  <1>1. /\ messages' = IF Len(Append(ms, User(b))) > 1
                       THEN sanitizeResumedMessages(Append(ms, User(b)))
                       ELSE Append(ms, User(b))
        /\ pc' = "top" /\ asked' = asked
    BY DEF StartLoop
  <1>2. FreshAnswer(sanitizeResumedMessages(Append(ms, User(b))), a)
    BY FreshSanitized
  <1>3. FreshAnswer(Append(ms, User(b)), a)
    BY FreshText
  <1> QED BY <1>1, <1>2, <1>3

\* The user's next text is newer than the last proposal.
LEMMA NewText ==
  ASSUME HistoryInv, AnswerInv, NEW k \in Prompts, NEW b,
         b = [kind |-> k, n |-> texts + 1]
  PROVE  /\ b \in TextBlock /\ b.kind \notin {"empty", "progress"} /\ b.n > asked
  <1>1. texts \in Nat /\ asked \in Nat /\ asked <= texts
    BY DEF HistoryInv, AnswerInv
  <1>2. b \in TextBlock
    BY <1>1, PromptText
  <1>3. k \in {"say", "approve", "cancel", "revise"}
    BY AgentLoopAssumption
  <1>4. b.kind = k /\ b.n = texts + 1
    OBVIOUS
  <1> QED BY <1>1, <1>2, <1>3, <1>4

\* Every step keeps old answers from being the last thing said.
LEMMA AnswerStep == HistoryInv /\ HistoryInv' /\ AnswerInv /\ [Next]_vars => AnswerInv'
  <1> SUFFICES ASSUME HistoryInv, HistoryInv', AnswerInv, [Next]_vars PROVE AnswerInv'
    OBVIOUS
  <1>1. /\ texts \in Nat /\ asked \in Nat /\ asked <= texts /\ asked <= texts + 1
        /\ texts + 1 \in Nat /\ saved.messages \in Seq(Message)
    BY DEF HistoryInv, AnswerInv
  <1>2. ASSUME NEW to \in {"ended", "dead"}, Leave(to), texts' = texts, asked' = asked
        PROVE  AnswerInv'
    BY <1>1, <1>2 DEF Leave, AnswerInv
  <1>3. CASE FollowUp
    <2>1. texts' = texts + 1
      BY <1>3 DEF FollowUp
    <2>2. PICK k \in Prompts, first \in BOOLEAN :
            StartLoop(Append(saved.messages, User([kind |-> k, n |-> texts + 1])),
                      1, runs + 1, findOpenPlanRequestId, first)
      BY <1>3 DEF FollowUp
    <2> DEFINE b == [kind |-> k, n |-> texts + 1]
    <2>3. b \in TextBlock /\ b.kind \notin {"empty", "progress"} /\ b.n > asked
      BY NewText
    <2>4. StartLoop(Append(saved.messages, User(b)), 1, runs + 1,
                    findOpenPlanRequestId, first)
      BY <2>2
    <2> HIDE DEF b
    <2>5. FreshAnswer(messages', asked) /\ pc' = "top" /\ asked' = asked
      BY <1>1, <2>3, <2>4, StartFresh
    <2> QED BY <1>1, <2>1, <2>5 DEF AnswerInv
  <1>4. CASE Recover
    <2>1. CASE Leave("ended") /\ UNCHANGED <<texts, asked>>
      BY <1>2, <2>1
    <2>2. CASE ~(Leave("ended") /\ UNCHANGED <<texts, asked>>)
      <3> DEFINE b == Block("recovery")
      <3>1. b \in TextBlock /\ b.kind = "recovery" /\ Marker("recovery") = User(b)
        BY MarkerText DEF Noted
      <3>2. texts' = texts
            /\ StartLoop(Append(saved.messages, User(b)), 1, runs + 1,
                         findOpenPlanRequestId, FALSE)
        BY <1>4, <2>2, <3>1 DEF Recover
      <3> HIDE DEF b
      <3>3. FreshAnswer(messages', asked) /\ pc' = "top" /\ asked' = asked
        BY <1>1, <3>1, <3>2, StartFresh
      <3> QED BY <1>1, <3>2, <3>3 DEF AnswerInv
    <2> QED BY <2>1, <2>2
  <1>5. CASE Begin \/ Resume \/ Wake
    <2>1. informed' = (open = 0) /\ (texts' = texts \/ texts' = texts + 1)
      BY <1>5 DEF Begin, Resume, Wake
    <2>2. pc' = "top" /\ open' = open /\ asked' = asked
      BY <1>5 DEF Begin, Resume, Wake, StartLoop
    <2> QED BY <1>1, <2>1, <2>2 DEF AnswerInv
  <1>6. CASE Drain
    <2>1. /\ pc = "top" /\ pc' = "compact" /\ UNCHANGED <<plan, open, informed, asked>>
      BY <1>6 DEF Drain, ghosts
    <2>2. messages \in Seq(Message)
      BY <2>1 DEF HistoryInv, History
    <2>3. CASE UNCHANGED <<messages, texts>>
      BY <2>1, <2>3 DEF AnswerInv
    <2>4. ASSUME NEW k \in Prompts, texts' = texts + 1,
                 messages' = Append(messages, User([kind |-> k, n |-> texts + 1]))
          PROVE  AnswerInv'
      <3> DEFINE b == [kind |-> k, n |-> texts + 1]
      <3>1. b \in TextBlock /\ b.kind \notin {"empty", "progress"} /\ b.n > asked
        BY NewText
      <3>2. messages' = Append(messages, User(b))
        BY <2>4
      <3> HIDE DEF b
      <3>3. FreshAnswer(Append(messages, User(b)), asked)
        BY <2>2, <3>1, FreshText
      <3> QED BY <1>1, <2>1, <2>4, <3>2, <3>3 DEF AnswerInv
    <2> QED BY <1>6, <2>3, <2>4 DEF Drain
  <1>7. CASE Compact
    <2>1. /\ pc = "compact" /\ UNCHANGED <<plan, open, informed, asked, texts>>
          /\ pc' \in {"plan", "model"}
      BY <1>7 DEF Compact, Go
    <2>2. messages \in Seq(Message)
      BY <2>1 DEF HistoryInv, History
    <2>3. PICK kept \in UNION {Dropped(ms) : ms \in {messages} \cup autocompact(messages)} :
            messages' = InjectProgress(kept)
      BY <1>7 DEF Compact, Rewrite
    <2>4. IsCut(messages', messages)
      BY <2>2, <2>3, CompactCuts
    <2>5. FreshAnswer(messages, asked) => FreshAnswer(messages', asked)
      BY <2>2, <2>4, CutFresh
    <2> QED BY <2>1, <2>5 DEF AnswerInv
  <1>8. CASE Fits
    <2>1. /\ pc = "compact" /\ pc' \in {"plan", "model"}
          /\ UNCHANGED <<messages, plan, open, informed, asked, texts>>
      BY <1>8 DEF Fits, Go, memory, ghosts
    <2> QED BY <2>1 DEF AnswerInv
  <1>9. CASE LeavePlan
    <2>1. /\ pc' = "answered" /\ texts' = texts /\ asked' = asked
          /\ plan' \in {"PLANNING", "IDLE"}
      BY <1>9 DEF LeavePlan, ghosts, AfterExit
    <2> QED BY <1>1, <2>1 DEF AnswerInv
  <1>10. CASE Substitute
    <2>1. pc = "answered" /\ texts' = texts /\ asked' = asked
      BY <1>10 DEF Substitute
    <2>2. CASE Leave("ended")
      BY <1>2, <2>1, <2>2
    <2>3. CASE pc' = "model" /\ plan' = plan
      BY <2>1, <2>3 DEF AnswerInv
    <2> QED BY <1>10, <2>2, <2>3 DEF Substitute, End
  <1>11. CASE Finish \/ Stop \/ Crash
    BY <1>2, <1>11 DEF Finish, Stop, Crash, End
  <1>12. CASE Think
    <2> DEFINE a == Assistant(<<Block("thinking")>>, <<>>)
               b == Block("continue")
    <2>1. /\ pc = "model" /\ pc' = "top" /\ UNCHANGED <<texts, asked>>
          /\ messages' = messages \o <<a, Marker("continue")>>
      BY <1>12 DEF Think, NextTurn
    <2>2. messages \in Seq(Message)
      BY <2>1 DEF HistoryInv, History
    <2>3. a \in Message
      <3>1. 0 \in Nat
        OBVIOUS
      <3> QED BY <3>1, ReplyText, AssistantHistory
    <2>4. b \in TextBlock /\ b.kind = "continue" /\ Marker("continue") = User(b)
      BY MarkerText DEF Noted
    <2> HIDE DEF a, b
    <2>5. User(b) \in Message
      BY <2>4, UserText
    <2> DEFINE u == User(b)
    <2> HIDE DEF u
    <2>6. messages \o <<a, u>> = Append(Append(messages, a), u)
      BY <2>2, <2>3, <2>5 DEF u
    <2>7. Append(messages, a) \in Seq(Message)
      BY <2>2, <2>3
    <2>8. FreshAnswer(Append(Append(messages, a), User(b)), asked)
      BY <2>4, <2>7, FreshText
    <2> QED BY <1>1, <2>1, <2>4, <2>6, <2>8 DEF AnswerInv, u
  <1>13. CASE Call
    <2>1. pc' = "tools" /\ texts' = texts /\ asked' = asked
      BY <1>13 DEF Call
    <2> QED BY <1>1, <2>1 DEF AnswerInv
  <1>14. CASE Execute
    <2>1. pc' = "tools" /\ texts' = texts /\ (asked' = asked \/ asked' = texts)
      BY <1>14 DEF Execute, Effect
    <2> QED BY <1>1, <2>1 DEF AnswerInv
  <1>15. CASE Record
    <2>1. texts' = texts /\ asked' = asked
      BY <1>15 DEF Record
    <2>2. CASE Leave("ended")
      BY <1>2, <2>1, <2>2
    <2>3. CASE pc' = "top" /\ plan' = plan /\ ~Halts
      BY <1>1, <2>1, <2>3 DEF AnswerInv, Halts
    <2> QED BY <1>15, <2>2, <2>3 DEF Record, End, NextTurn
  <1>16. CASE FreshContext
    <2>1. pc = "ended" /\ pc' = pc /\ texts' = texts /\ asked' = asked
      BY <1>16 DEF FreshContext, ghosts
    <2> QED BY <1>1, <2>1 DEF AnswerInv
  <1>17. CASE UNCHANGED vars
    <2>1. UNCHANGED <<pc, messages, plan, open, texts, informed, asked>>
      BY <1>17 DEF vars, memory, ghosts
    <2> QED BY <2>1 DEF AnswerInv
  <1> QED BY <1>3, <1>4, <1>5, <1>6, <1>7, <1>8, <1>9, <1>10, <1>11, <1>12, <1>13,
             <1>14, <1>15, <1>16, <1>17 DEF Next

\* A plan the run was told of is approved or cancelled by a text that came after
\* exit_plan_mode (AnswerFollowsPlan), whatever of the history was merged or cut.
THEOREM AnswerIsNew == Spec => AnswerFollowsPlan
  <1>1. Init => AnswerInv
    BY DEF Init, AnswerInv
  <1>2. Spec => []AnswerInv
    BY <1>1, AnswerStep, HistoriesInOrder, PTL DEF Spec
  <1>3. ASSUME HistoryInv, AnswerInv, LeavePlan, informed, open # 0
        PROVE  reply'[1].kind = "revise" \/ reply'[1].n > asked
    <2>1. pc = "plan" /\ reply' = Response(messages)
      BY <1>3 DEF LeavePlan
    <2>2. Response(messages) # <<>> /\ messages \in Seq(Message)
      BY <1>3, <2>1 DEF HistoryInv, History
    <2>3. plan = "AWAITING_APPROVAL" /\ Response(messages) = detectPlanResponse(messages)
      BY <2>2 DEF Response
    <2>4. FreshAnswer(messages, asked)
      BY <1>3, <2>1, <2>3 DEF AnswerInv
    <2> QED BY <2>1, <2>2, <2>3, <2>4, FreshDetected
  <1>4. HistoryInv /\ AnswerInv /\ [Next]_vars
          => [LeavePlan /\ informed /\ open # 0
                => reply'[1].kind = "revise" \/ reply'[1].n > asked]_vars
    BY <1>3
  <1> QED BY <1>2, <1>4, HistoriesInOrder, PTL DEF AnswerFollowsPlan, Spec

-----------------------------------------------------------------------------
(* The gate of plan mode.                                                  *)

\* A run that was told of the open proposal is waiting for its answer, and
\* knows which request proposed it.
GateInv ==
  informed /\ open # 0 => plan = "AWAITING_APPROVAL" /\ current = open

\* Starting a run keeps the gate, if the run learns of the open proposal
\* (StartLoop: the event log before the history).
LEMMA StartKeepsGate ==
  ASSUME NEW history, NEW startTurn, NEW id, NEW known, NEW planFirst,
         StartLoop(history, startTurn, id, known, planFirst),
         informed' /\ open # 0 => known = open
  PROVE  GateInv'
  <1> SUFFICES ASSUME informed', open' # 0
               PROVE  plan' = "AWAITING_APPROVAL" /\ current' = open'
    BY DEF GateInv
  <1>1. open' = open /\ current' = known
    BY DEF StartLoop
  <1>2. known # 0 /\ known = open
    BY <1>1
  <1>3. plan' = "AWAITING_APPROVAL"
    BY <1>2 DEF StartLoop
  <1> QED BY <1>1, <1>2, <1>3

\* No step of a run opens or forgets a proposal without the run's plan and its
\* request following.
LEMMA GateStep == GateInv /\ [Next]_vars => GateInv'
  <1> SUFFICES ASSUME GateInv, [Next]_vars PROVE GateInv'
    OBVIOUS
  <1>1. CASE FollowUp
    <2>1. PICK h, id, known, b :
            /\ StartLoop(h, 1, id, known, b)
            /\ known = findOpenPlanRequestId
            /\ informed' = (saved.messages # <<>> \/ open = 0)
      BY <1>1 DEF FollowUp
    <2>2. informed' /\ open # 0 => known = open
      BY <2>1 DEF findOpenPlanRequestId
    <2> QED BY <2>1, <2>2, StartKeepsGate
  <1>2. CASE Recover
    <2>1. CASE Leave("ended")
      BY <2>1 DEF Leave, GateInv
    <2>2. CASE ~Leave("ended")
      <3>1. PICK h, id, known :
              StartLoop(h, 1, id, known, FALSE) /\ known = findOpenPlanRequestId
        BY <1>2, <2>2 DEF Recover
      <3>2. known = open
        BY <1>2, <2>2, <3>1 DEF Recover, findOpenPlanRequestId
      <3> QED BY <3>1, <3>2, StartKeepsGate
    <2> QED BY <2>1, <2>2
  <1>3. CASE Resume
    <2>1. informed' = (open = 0)
      BY <1>3 DEF Resume
    <2>2. PICK h, t, id : StartLoop(h, t, id, 0, FALSE)
      BY <1>3 DEF Resume
    <2> QED BY <2>1, <2>2, StartKeepsGate
  <1>4. CASE Begin \/ Wake
    <2>1. informed' = (open = 0)
      BY <1>4 DEF Begin, Wake
    <2>2. PICK h, id, b : StartLoop(h, 1, id, 0, b)
      BY <1>4 DEF Begin, Wake
    <2> QED BY <2>1, <2>2, StartKeepsGate
  <1>5. CASE FreshContext \/ Drain \/ Fits \/ Compact \/ UNCHANGED vars
    BY <1>5 DEF FreshContext, Drain, Fits, Compact, memory, ghosts, vars, GateInv
  <1>6. CASE LeavePlan
    BY <1>6 DEF LeavePlan, ghosts, GateInv
  <1>7. CASE Substitute
    BY <1>7 DEF Substitute, End, Leave, GateInv
  <1>8. CASE Finish \/ Stop \/ Crash
    BY <1>8 DEF Finish, Stop, Crash, End, Leave, GateInv
  <1>9. CASE Think \/ Call
    BY <1>9 DEF Think, Call, NextTurn, GateInv
  <1>10. CASE Execute
    <2>1. informed' = informed
      BY <1>10 DEF Execute
    <2>2. CASE UNCHANGED <<plan, current, open, asked>>
      BY <2>1, <2>2 DEF GateInv
    <2>3. CASE Effect("enter")
      <3>1. plan' = (IF plan = "IDLE" THEN "PLANNING" ELSE plan)
            /\ current' = current /\ open' = open
        BY <2>3 DEF Effect
      <3> QED BY <2>1, <3>1 DEF GateInv
    <2>4. CASE Effect("exit") /\ plan = "PLANNING"
      <3>1. plan' = "AWAITING_APPROVAL" /\ open' = request /\ current' = request
        BY <2>4 DEF Effect
      <3> QED BY <3>1 DEF GateInv
    <2>5. ASSUME NEW tool, Effect(tool), tool # "enter",
                 ~(tool = "exit" /\ plan = "PLANNING")
          PROVE  UNCHANGED <<plan, current, open, asked>>
      BY <2>5 DEF Effect
    <2> QED BY <1>10, <2>2, <2>3, <2>4, <2>5 DEF Execute
  <1>11. CASE Record
    BY <1>11 DEF Record, Halts, End, Leave, NextTurn, GateInv
  <1> QED BY <1>1, <1>2, <1>3, <1>4, <1>5, <1>6, <1>7, <1>8, <1>9, <1>10,
             <1>11 DEF Next

\* While a plan waits for its user nothing is done, also in later runs and
\* after a crash (autonomous-loop-service.ts:285): for every history, whatever
\* compaction and repair left of the plan in it.
THEOREM OpenPlanGates == Spec => []OpenPlanGatesWork
  <1>1. Init => GateInv
    BY DEF Init, GateInv
  <1>2. GateInv => OpenPlanGatesWork
    BY DEF GateInv, OpenPlanGatesWork, Works
  <1> QED BY <1>1, <1>2, GateStep, PTL DEF Spec
=============================================================================
