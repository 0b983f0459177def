------------------------ MODULE ContextBudget_proofs ------------------------
(***************************************************************************)
(* Proofs about the context of a turn, for every history, window, budget   *)
(* and system prompt.                                                      *)
(*                                                                         *)
(* The invariant of the loop: of the messages that were stored when the    *)
(* turn read the conversation, it has kept the newest and paid for each of *)
(* them.  The stored history itself changes at any moment and is not part  *)
(* of the argument.  What a message costs is summed by a recursive         *)
(* function, about which induction over the length of a sequence is needed.*)
(***************************************************************************)
EXTENDS ContextBudget, FiniteSetTheorems, SequenceTheorems, TLAPS

-----------------------------------------------------------------------------
\* Induction over the naturals, as a fact about sets: a set of naturals has a
\* least element, because the intervals 1 .. n are finite and the finite
\* subsets of a set are well-founded.

LEMMA LeastElement ==
    ASSUME NEW T \in SUBSET Nat, T # {}
    PROVE  \E n \in T : \A m \in T : n <= m
<1>0. PICK k \in T : TRUE OBVIOUS
<1> DEFINE S == 1 .. k
           Intervals == {X \in FiniteSubsetsOf(S) : \E n \in T : X = 1 .. n}
<1>1. IsFiniteSet(S) BY FS_Interval
<1>2. IsWellFoundedOn(StrictSubsetOrdering(S), FiniteSubsetsOf(S))
  BY FS_StrictSubsetOrderingWellFounded
<1>3. Intervals # {}
  <2>1. S \in FiniteSubsetsOf(S) BY <1>1 DEF FiniteSubsetsOf
  <2> QED BY <2>1
<1>4. PICK X \in Intervals : \A Y \in Intervals : ~ (<<Y, X>> \in StrictSubsetOrdering(S))
  <2>1. Intervals \subseteq FiniteSubsetsOf(S) OBVIOUS
  <2> HIDE DEF Intervals, S
  <2> QED BY <1>2, <1>3, <2>1, WFMin
<1>5. PICK n \in T : X = 1 .. n BY <1>4
<1>6. X \subseteq S BY <1>4 DEF FiniteSubsetsOf
<1>7. ASSUME NEW m \in T, m < n PROVE FALSE
  <2>1. 1 .. m \subseteq 1 .. n /\ 1 .. m # 1 .. n
    <3>1. n \in 1 .. n /\ n \notin 1 .. m BY <1>7
    <3> QED BY <1>7, <3>1
  <2>2. IsFiniteSet(1 .. m) BY FS_Interval
  <2>3. 1 .. m \in FiniteSubsetsOf(S) BY <1>5, <1>6, <2>1, <2>2 DEF FiniteSubsetsOf
  <2>4. <<1 .. m, X>> \in StrictSubsetOrdering(S)
    BY <1>5, <1>6, <2>1, <2>3 DEF StrictSubsetOrdering
  <2> QED BY <1>4, <2>3, <2>4
<1> QED BY <1>7

LEMMA Induction ==
    ASSUME NEW S, 0 \in S, \A n \in Nat : n \in S => n + 1 \in S
    PROVE  Nat \subseteq S
<1> DEFINE T == Nat \ S
<1> SUFFICES ASSUME T # {} PROVE FALSE OBVIOUS
<1>1. PICK n \in T : \A m \in T : n <= m
  <2>1. T \in SUBSET Nat OBVIOUS
  <2> HIDE DEF T
  <2> QED BY <2>1, LeastElement
<1>2. n # 0 /\ n - 1 \in Nat /\ n = (n - 1) + 1 OBVIOUS
<1>3. n - 1 \in S BY <1>1, <1>2
<1> QED BY <1>2, <1>3

-----------------------------------------------------------------------------
\* Estimates and costs.

LEMMA EstimateType == \A length \in Nat : EstimateTokens(length) \in Nat /\ EstimateTokens(length) >= 4
BY DEF EstimateTokens, CharsPerToken, MessageTokenOverhead

\* The sums of the estimates of the first n messages.
IsPrefixCost(f, messages) ==
    f = [n \in 0 .. Len(messages) |->
            IF n = 0 THEN 0 ELSE f[n - 1] + EstimateTokens(messages[n])]

PrefixCost(messages) == CHOOSE f : IsPrefixCost(f, messages)

LEMMA CostIsPrefixCost ==
    ASSUME NEW messages
    PROVE  Cost(messages) = PrefixCost(messages)[Len(messages)]
BY DEF Cost, PrefixCost, IsPrefixCost

\* The recursive definition of the sums defines a function.
LEMMA PrefixCostExists ==
    ASSUME NEW messages \in Seq(Nat)
    PROVE  \E f : IsPrefixCost(f, messages)
<1> DEFINE L == Len(messages)
           Upto(f, k) == /\ DOMAIN f = 0 .. k
                         /\ \A n \in 0 .. k :
                                f[n] = IF n = 0 THEN 0 ELSE f[n - 1] + EstimateTokens(messages[n])
           S == {k \in Nat : \E f : f = [n \in 0 .. k |-> f[n]] /\ Upto(f, k)}
<1>1. 0 \in S
  <2> DEFINE f == [n \in 0 .. 0 |-> 0]
  <2>1. f = [n \in 0 .. 0 |-> f[n]] /\ Upto(f, 0) OBVIOUS
  <2> QED BY <2>1
<1>2. ASSUME NEW k \in Nat, k \in S PROVE k + 1 \in S
  <2>1. PICK f : Upto(f, k) BY <1>2
  <2> DEFINE g == [n \in 0 .. k + 1 |->
                      IF n = k + 1 THEN f[k] + EstimateTokens(messages[n]) ELSE f[n]]
  <2>2. DOMAIN g = 0 .. k + 1 /\ g = [n \in 0 .. k + 1 |-> g[n]] OBVIOUS
  <2>3. ASSUME NEW n \in 0 .. k + 1
        PROVE  g[n] = IF n = 0 THEN 0 ELSE g[n - 1] + EstimateTokens(messages[n])
    <3>1. CASE n = k + 1 BY <3>1
    <3>2. CASE n \in 0 .. k
      <4>1. g[n] = f[n] BY <3>2
      <4>2. n # 0 => g[n - 1] = f[n - 1] BY <3>2
      <4> QED BY <2>1, <3>2, <4>1, <4>2
    <3> QED BY <3>1, <3>2
  <2> HIDE DEF g
  <2>4. Upto(g, k + 1) BY <2>2, <2>3
  <2> HIDE DEF Upto
  <2>5. \E h : h = [n \in 0 .. k + 1 |-> h[n]] /\ Upto(h, k + 1) BY <2>2, <2>4
  <2> QED BY <2>5
<1>3. L \in S
  <2>1. Nat \subseteq S
    <3> HIDE DEF S
    <3> QED BY <1>1, <1>2, Induction
  <2> QED BY <2>1
<1>4. PICK f : f = [n \in 0 .. L |-> f[n]] /\ Upto(f, L) BY <1>3
<1>5. f = [n \in 0 .. L |-> IF n = 0 THEN 0 ELSE f[n - 1] + EstimateTokens(messages[n])]
  BY <1>4
<1> QED BY <1>5 DEF IsPrefixCost

LEMMA PrefixCostDef ==
    ASSUME NEW messages \in Seq(Nat)
    PROVE  \A n \in 0 .. Len(messages) :
               PrefixCost(messages)[n] =
                   IF n = 0 THEN 0 ELSE PrefixCost(messages)[n - 1] + EstimateTokens(messages[n])
<1>1. IsPrefixCost(PrefixCost(messages), messages) BY PrefixCostExists DEF PrefixCost
<1> HIDE DEF PrefixCost
<1> QED BY <1>1 DEF IsPrefixCost

\* The sums are naturals.
LEMMA PrefixCostType ==
    ASSUME NEW messages \in Seq(Nat)
    PROVE  \A n \in 0 .. Len(messages) : PrefixCost(messages)[n] \in Nat
<1> DEFINE S == {n \in Nat : n <= Len(messages) => PrefixCost(messages)[n] \in Nat}
<1>1. 0 \in S BY PrefixCostDef
<1>2. ASSUME NEW n \in Nat, n \in S PROVE n + 1 \in S
  <2> SUFFICES ASSUME n + 1 <= Len(messages) PROVE PrefixCost(messages)[n + 1] \in Nat OBVIOUS
  <2>1. n + 1 \in 0 .. Len(messages) /\ n + 1 # 0 /\ (n + 1) - 1 = n OBVIOUS
  <2>2. EstimateTokens(messages[n + 1]) \in Nat
    <3>1. messages[n + 1] \in Nat BY <2>1
    <3> QED BY <3>1, EstimateType
  <2>3. PrefixCost(messages)[n] \in Nat BY <1>2
  <2>4. PrefixCost(messages)[n + 1] = PrefixCost(messages)[n] + EstimateTokens(messages[n + 1])
    BY <2>1, PrefixCostDef
  <2> QED BY <2>2, <2>3, <2>4
<1>3. Nat \subseteq S
  <2> HIDE DEF S
  <2> QED BY <1>1, <1>2, Induction
<1> QED BY <1>3

LEMMA CostType == ASSUME NEW messages \in Seq(Nat) PROVE Cost(messages) \in Nat
BY CostIsPrefixCost, PrefixCostType

LEMMA CostOfNone == Cost(<< >>) = 0
<1>1. PICK none : none = << >> OBVIOUS
<1>2. none \in Seq(Nat) /\ Len(none) = 0 BY <1>1, EmptySeq
<1>3. PrefixCost(none)[0] = 0
  <2>1. 0 \in 0 .. Len(none) BY <1>2
  <2> HIDE DEF PrefixCost
  <2> QED BY <1>2, <2>1, PrefixCostDef
<1> QED BY <1>1, <1>2, <1>3, CostIsPrefixCost

\* What a message in front of the others adds.
LEMMA CostOfCons ==
    ASSUME NEW messages \in Seq(Nat), NEW first \in Nat
    PROVE  Cost(<<first>> \o messages) = EstimateTokens(first) + Cost(messages)
<1> DEFINE longer == <<first>> \o messages
           L == Len(messages)
           S == {n \in Nat : n <= L => PrefixCost(longer)[n + 1] =
                                       EstimateTokens(first) + PrefixCost(messages)[n]}
<1>0. /\ longer \in Seq(Nat) /\ Len(longer) = L + 1 /\ L \in Nat
      /\ longer[1] = first /\ \A i \in 1 .. L : longer[i + 1] = messages[i]
  OBVIOUS
<1> HIDE DEF longer
<1>1. 0 \in S
  <2>1. PrefixCost(messages)[0] = 0 BY <1>0, PrefixCostDef
  <2>2. PrefixCost(longer)[0] = 0 BY <1>0, PrefixCostDef
  <2>3. PrefixCost(longer)[1] = PrefixCost(longer)[1 - 1] + EstimateTokens(first)
    <3>1. 1 \in 0 .. Len(longer) BY <1>0
    <3> QED BY <1>0, <3>1, PrefixCostDef
  <2>4. PrefixCost(longer)[0 + 1] = EstimateTokens(first) + PrefixCost(messages)[0]
    <3>1. EstimateTokens(first) \in Nat BY EstimateType
    <3> QED BY <2>1, <2>2, <2>3, <3>1
  <2> QED BY <2>4
<1>2. ASSUME NEW n \in Nat, n \in S PROVE n + 1 \in S
  <2> SUFFICES ASSUME n + 1 <= L
               PROVE  PrefixCost(longer)[(n + 1) + 1] =
                          EstimateTokens(first) + PrefixCost(messages)[n + 1]
    OBVIOUS
  <2>1. PrefixCost(longer)[n + 1] = EstimateTokens(first) + PrefixCost(messages)[n] BY <1>0, <1>2
  <2>2. PrefixCost(messages)[n + 1] = PrefixCost(messages)[n] + EstimateTokens(messages[n + 1])
    <3>1. n + 1 \in 0 .. L /\ n + 1 # 0 /\ (n + 1) - 1 = n BY <1>0
    <3> QED BY <3>1, PrefixCostDef
  <2>3. PrefixCost(longer)[(n + 1) + 1] =
            PrefixCost(longer)[n + 1] + EstimateTokens(messages[n + 1])
    <3>1. (n + 1) + 1 \in 0 .. Len(longer) /\ (n + 1) + 1 # 0 /\ ((n + 1) + 1) - 1 = n + 1
      BY <1>0
    <3>2. longer[(n + 1) + 1] = messages[n + 1] BY <1>0
    <3>3. PrefixCost(longer)[(n + 1) + 1] =
              PrefixCost(longer)[((n + 1) + 1) - 1] + EstimateTokens(longer[(n + 1) + 1])
      BY <1>0, <3>1, PrefixCostDef
    <3> QED BY <3>1, <3>2, <3>3
  <2>4. /\ EstimateTokens(first) \in Nat /\ EstimateTokens(messages[n + 1]) \in Nat
        /\ PrefixCost(messages)[n] \in Nat
    <3>1. messages[n + 1] \in Nat /\ n \in 0 .. L BY <1>0
    <3> QED BY <3>1, EstimateType, PrefixCostType
  <2> QED BY <2>1, <2>2, <2>3, <2>4
<1>3. L \in S
  <2>1. Nat \subseteq S
    <3> HIDE DEF S
    <3> QED BY <1>1, <1>2, Induction
  <2> QED BY <1>0, <2>1
<1>4. Cost(longer) = PrefixCost(longer)[L + 1] BY <1>0, CostIsPrefixCost
<1>5. Cost(messages) = PrefixCost(messages)[L] BY CostIsPrefixCost
<1> QED BY <1>0, <1>3, <1>4, <1>5 DEF longer

-----------------------------------------------------------------------------
\* messages[-n:].

LEMMA NewestProperties ==
    ASSUME NEW S, NEW messages \in Seq(S), NEW n \in Nat
    PROVE  /\ Newest(messages, n) \in Seq(S)
           /\ Len(Newest(messages, n)) = IF n < Len(messages) THEN n ELSE Len(messages)
           /\ \A i \in 1 .. Len(Newest(messages, n)) :
                  Newest(messages, n)[i] = messages[Len(messages) - Len(Newest(messages, n)) + i]
<1> DEFINE L == Len(messages)
           m == IF n < L THEN L - n + 1 ELSE 1
<1>1. L \in Nat /\ m \in Nat /\ m >= 1 /\ m <= L + 1 OBVIOUS
<1>2. \A i \in m .. L : messages[i] \in S BY <1>1
<1>3. Newest(messages, n) = SubSeq(messages, m, L) BY DEF Newest
<1>4. /\ SubSeq(messages, m, L) \in Seq(S)
      /\ Len(SubSeq(messages, m, L)) = IF m <= L THEN L - m + 1 ELSE 0
      /\ \A i \in 1 .. L - m + 1 : SubSeq(messages, m, L)[i] = messages[m + i - 1]
  <2> HIDE DEF m, L
  <2> QED BY <1>1, <1>2, SubSeqProperties
<1>5. Len(SubSeq(messages, m, L)) = L - m + 1
  <2> HIDE DEF m, L
  <2> QED BY <1>1, <1>4
<1>6. L - m + 1 = IF n < L THEN n ELSE L BY <1>1
<1>7. ASSUME NEW i \in 1 .. Len(Newest(messages, n))
      PROVE  Newest(messages, n)[i] = messages[L - Len(Newest(messages, n)) + i]
  <2>1. L - (L - m + 1) + i = m + i - 1 BY <1>1, <1>3, <1>5
  <2> QED BY <1>3, <1>4, <1>5, <1>7, <2>1
<1> QED BY <1>3, <1>4, <1>5, <1>6, <1>7

\* One message more is the next older message in front.
LEMMA NewestCons ==
    ASSUME NEW S, NEW messages \in Seq(S), NEW n \in Nat, n < Len(messages)
    PROVE  /\ messages[Len(messages) - n] \in S
           /\ Newest(messages, n + 1) = <<messages[Len(messages) - n]>> \o Newest(messages, n)
<1> DEFINE first == messages[Len(messages) - n]
           s == Newest(messages, n)
           t == Newest(messages, n + 1)
<1>1. first \in S OBVIOUS
<1>2. /\ s \in Seq(S) /\ Len(s) = n
      /\ \A i \in 1 .. n : s[i] = messages[Len(messages) - n + i]
  BY NewestProperties
<1>3. /\ t \in Seq(S) /\ Len(t) = n + 1
      /\ \A i \in 1 .. n + 1 : t[i] = messages[Len(messages) - (n + 1) + i]
  <2>1. n + 1 \in Nat /\ (n + 1 < Len(messages) \/ n + 1 = Len(messages)) OBVIOUS
  <2> HIDE DEF t
  <2>2. Len(t) = n + 1 BY <2>1, NewestProperties DEF t
  <2> QED BY <2>1, <2>2, NewestProperties DEF t
<1> HIDE DEF first, s, t
<1>4. /\ <<first>> \o s \in Seq(S) /\ Len(<<first>> \o s) = n + 1
      /\ (<<first>> \o s)[1] = first
      /\ \A i \in 2 .. n + 1 : (<<first>> \o s)[i] = s[i - 1]
  BY <1>1, <1>2
<1>5. ASSUME NEW i \in 1 .. n + 1 PROVE (<<first>> \o s)[i] = t[i]
  <2>1. Len(messages) \in Nat OBVIOUS
  <2>2. CASE i = 1
    <3>1. Len(messages) - (n + 1) + 1 = Len(messages) - n BY <2>1
    <3> QED BY <1>3, <1>4, <2>2, <3>1 DEF first
  <2>3. CASE i \in 2 .. n + 1
    <3>1. i - 1 \in 1 .. n /\ Len(messages) - n + (i - 1) = Len(messages) - (n + 1) + i
      BY <2>1, <2>3
    <3>2. s[i - 1] = messages[Len(messages) - n + (i - 1)] BY <1>2, <3>1
    <3>3. t[i] = messages[Len(messages) - (n + 1) + i] BY <1>3
    <3>4. (<<first>> \o s)[i] = s[i - 1] BY <1>4, <2>3
    <3> QED BY <3>1, <3>2, <3>3, <3>4
  <2>4. i = 1 \/ i \in 2 .. n + 1 OBVIOUS
  <2> QED BY <2>2, <2>3, <2>4
<1>6. <<first>> \o s = t BY <1>3, <1>4, <1>5, SeqEqual
<1> QED BY <1>1, <1>6 DEF first, s, t

\* The whole of a short history is its newest part.
LEMMA NewestOfNone ==
    ASSUME NEW S, NEW messages \in Seq(S) PROVE Newest(messages, 0) = << >>
<1>1. Newest(messages, 0) \in Seq(S) /\ Len(Newest(messages, 0)) = 0
  BY NewestProperties
<1> QED BY <1>1, EmptySeq

\* More messages cost more.
LEMMA NewestCostGrows ==
    ASSUME NEW messages \in Seq(Nat), NEW k \in Nat, NEW n \in Nat,
           k <= n, n <= Len(messages)
    PROVE  Cost(Newest(messages, k)) <= Cost(Newest(messages, n))
<1> DEFINE C(i) == Cost(Newest(messages, i))
           S == {d \in Nat : k + d <= Len(messages) => C(k) <= C(k + d)}
<1>0. \A i \in Nat : C(i) \in Nat BY CostType, NewestProperties
<1>1. 0 \in S BY <1>0
<1>2. ASSUME NEW d \in Nat, d \in S PROVE d + 1 \in S
  <2> SUFFICES ASSUME k + (d + 1) <= Len(messages) PROVE C(k) <= C(k + (d + 1)) OBVIOUS
  <2> DEFINE m == k + d
  <2>1. m \in Nat /\ m < Len(messages) /\ k + (d + 1) = m + 1 OBVIOUS
  <2>2. C(k) <= C(m) BY <1>2, <2>1
  <2> DEFINE first == messages[Len(messages) - m]
  <2>3. first \in Nat /\ Newest(messages, m + 1) = <<first>> \o Newest(messages, m)
    <3> HIDE DEF m
    <3> QED BY <2>1, NewestCons
  <2>4. C(m + 1) = EstimateTokens(first) + C(m)
    <3>1. Newest(messages, m) \in Seq(Nat) BY <2>1, NewestProperties
    <3> HIDE DEF m, first
    <3> QED BY <2>3, <3>1, CostOfCons
  <2>5. EstimateTokens(first) \in Nat BY <2>3, EstimateType
  <2> HIDE DEF C, first, m
  <2>6. m + 1 \in Nat BY <2>1
  <2>7. C(k) \in Nat /\ C(m) \in Nat /\ C(m + 1) \in Nat BY <1>0, <2>1, <2>6
  <2> QED BY <2>1, <2>2, <2>4, <2>5, <2>7
<1>3. Nat \subseteq S
  <2> HIDE DEF S
  <2> QED BY <1>1, <1>2, Induction
<1>4. n - k \in Nat /\ k + (n - k) = n OBVIOUS
<1> HIDE DEF C
<1>5. C(k) <= C(n) BY <1>3, <1>4
<1> QED BY <1>5 DEF C

\* A partly loaded conversation to which a message is appended has the same
\* newest messages as the whole conversation with that message.
LEMMA NewestAfterAppend ==
    ASSUME NEW S, NEW messages \in Seq(S), NEW message \in S, NEW n \in Nat
    PROVE  Newest(Append(Newest(messages, n), message), n) = Newest(Append(messages, message), n)
<1> DEFINE part == Newest(messages, n)
           a == Append(part, message)
           b == Append(messages, message)
           L == Len(messages)
           P == Len(part)
           s == Newest(a, n)
           t == Newest(b, n)
           K == IF n < L + 1 THEN n ELSE L + 1
<1>1. /\ part \in Seq(S) /\ P = IF n < L THEN n ELSE L
      /\ \A i \in 1 .. P : part[i] = messages[L - P + i]
  BY NewestProperties
<1>2. L \in Nat /\ P \in Nat /\ P <= L /\ K \in Nat /\ K <= P + 1 BY <1>1
<1> HIDE DEF part
<1>3. /\ a \in Seq(S) /\ Len(a) = P + 1 /\ a[P + 1] = message
      /\ \A i \in 1 .. P : a[i] = part[i]
  BY <1>1
<1>4. /\ b \in Seq(S) /\ Len(b) = L + 1 /\ b[L + 1] = message
      /\ \A i \in 1 .. L : b[i] = messages[i]
  OBVIOUS
<1> HIDE DEF a, b, L, P
<1>5. /\ s \in Seq(S) /\ Len(s) = K /\ \A i \in 1 .. K : s[i] = a[P + 1 - K + i]
  <2>1. Len(s) = K
    <3>1. Len(s) = IF n < P + 1 THEN n ELSE P + 1 BY <1>3, NewestProperties
    <3> QED BY <1>1, <1>2, <3>1
  <2>2. s \in Seq(S) /\ \A i \in 1 .. Len(s) : s[i] = a[Len(a) - Len(s) + i]
    BY <1>3, NewestProperties
  <2> HIDE DEF s, K
  <2> QED BY <1>2, <1>3, <2>1, <2>2
<1>6. /\ t \in Seq(S) /\ Len(t) = K /\ \A i \in 1 .. K : t[i] = b[L + 1 - K + i]
  <2>1. Len(t) = K BY <1>4, NewestProperties
  <2>2. t \in Seq(S) /\ \A i \in 1 .. Len(t) : t[i] = b[Len(b) - Len(t) + i]
    BY <1>4, NewestProperties
  <2> HIDE DEF t, K
  <2> QED BY <1>2, <1>4, <2>1, <2>2
<1> HIDE DEF s, t, K
<1>7. ASSUME NEW i \in 1 .. K PROVE s[i] = t[i]
  <2>1. s[i] = a[P + 1 - K + i] /\ t[i] = b[L + 1 - K + i] BY <1>5, <1>6
  <2>2. CASE i = K
    <3>1. P + 1 - K + i = P + 1 /\ L + 1 - K + i = L + 1 BY <1>2, <2>2
    <3> QED BY <1>3, <1>4, <2>1, <3>1
  <2>3. CASE i \in 1 .. K - 1
    <3> DEFINE j == P + 1 - K + i
    <3>1. /\ j \in 1 .. P /\ L - P + j \in 1 .. L /\ L + 1 - K + i = L - P + j
      BY <1>2, <2>3
    <3>2. a[j] = messages[L - P + j] BY <1>1, <1>3, <3>1
    <3>3. b[L - P + j] = messages[L - P + j] BY <1>4, <3>1
    <3> QED BY <2>1, <3>1, <3>2, <3>3
  <2>4. i = K \/ i \in 1 .. K - 1 BY <1>2
  <2> QED BY <2>2, <2>3, <2>4
<1>8. s = t BY <1>5, <1>6, <1>7, SeqEqual
<1> QED BY <1>8 DEF s, t, a, b, part

-----------------------------------------------------------------------------
\* The inductive invariant.

\* A command is executed after _validate_input has accepted it.
AcceptedInv ==
    pc \in {"start", "store", "build", "select", "request", "exhausted"} => Acceptable(command)

\* Once loaded the aggregate answers for the conversation as it was then.
LoadedInv ==
    pc \in {"store", "build", "select", "request", "exhausted"} =>
        /\ seen # << >> /\ seen[Len(seen)] = command.text
        /\ CanRecall(conversation, command.window)
        /\ Recent = Newest(seen, command.window)

\* The tokens that the system prompt leaves.
Room == IF Reserved < command.budget THEN command.budget - Reserved ELSE 0

\* The loop has kept the newest messages and paid for each.
SelectedInv ==
    /\ pc \in {"idle", "start", "store", "build"} => selected = << >>
    /\ pc \in {"select", "request", "exhausted"} =>
           /\ Len(selected) <= Len(Recent)
           /\ selected = Newest(seen, Len(selected))
           /\ remaining + Cost(selected) = Room

\* The loop ends where nothing more fits.
StoppedInv == /\ pc \in {"request", "exhausted"} => ~ Fits
              /\ pc = "request" => selected # << >>
              /\ pc = "exhausted" => selected = << >>

IInv == TypeOK /\ HistoryIsLoaded /\ AcceptedInv /\ LoadedInv /\ SelectedInv /\ StoppedInv

LEMMA Lengths ==
    /\ Texts \union Contents \subseteq Nat /\ Texts \subseteq Nat /\ SystemPrompts \subseteq Nat
    /\ \A c \in Command : c.text \in Texts /\ c.text \in Nat /\ c.window \in Nat /\ c.budget \in Nat
    /\ \A messages \in Seq(Texts \union Contents) : messages \in Seq(Nat)
<1>1. Texts \union Contents \subseteq Nat /\ Texts \subseteq Nat /\ SystemPrompts \subseteq Nat
  BY LengthsAssumption
<1>2. \A c \in Command : c.text \in Texts /\ c.text \in Nat /\ c.window \in Nat /\ c.budget \in Nat
  BY LengthsAssumption, SettingsAssumption DEF Command
<1>3. \A messages \in Seq(Texts \union Contents) : messages \in Seq(Nat) BY <1>1, SeqMonotonic
<1> QED BY <1>1, <1>2, <1>3

LEMMA RoomType == ASSUME TypeOK PROVE Reserved \in Nat /\ Reserved >= 4 /\ Room \in Nat
<1>1. system \in Nat /\ command.budget \in Nat BY Lengths DEF TypeOK
<1>2. Reserved \in Nat /\ Reserved >= 4 BY <1>1, EstimateType DEF Reserved
<1> QED BY <1>1, <1>2 DEF Room

\* What the loop considers next is the next older message of the conversation.
LEMMA CandidateIsNext ==
    ASSUME IInv, pc \in {"select", "request", "exhausted"}, More
    PROVE  LET n == Len(selected) IN
           /\ n \in Nat /\ n < Len(seen) /\ n < command.window
           /\ Candidate = seen[Len(seen) - n] /\ Candidate \in Texts \union Contents
           /\ Newest(seen, n + 1) = <<Candidate>> \o selected
           /\ Cost(Newest(seen, n + 1)) = EstimateTokens(Candidate) + Cost(selected)
<1> DEFINE n == Len(selected)
           w == command.window
<1>0. /\ seen \in Seq(Texts \union Contents) /\ selected \in Seq(Texts \union Contents)
      /\ seen \in Seq(Nat) /\ selected \in Seq(Nat) /\ w \in Nat
  BY Lengths DEF IInv, TypeOK
<1>1. /\ Recent = Newest(seen, w) /\ n < Len(Recent) /\ selected = Newest(seen, n)
  BY DEF IInv, LoadedInv, SelectedInv, More
<1>2. n \in Nat BY <1>0
<1>3. /\ Len(Recent) = IF w < Len(seen) THEN w ELSE Len(seen)
      /\ \A i \in 1 .. Len(Recent) : Recent[i] = seen[Len(seen) - Len(Recent) + i]
  <2>1. /\ Len(Newest(seen, w)) = IF w < Len(seen) THEN w ELSE Len(seen)
        /\ \A i \in 1 .. Len(Newest(seen, w)) :
               Newest(seen, w)[i] = seen[Len(seen) - Len(Newest(seen, w)) + i]
    <3> HIDE DEF w
    <3> QED BY <1>0, NewestProperties
  <2> QED BY <1>1, <2>1
<1>4. n < Len(seen) /\ n < w /\ Len(seen) \in Nat /\ Len(Recent) \in Nat
  BY <1>0, <1>1, <1>2, <1>3
<1>5. Candidate = seen[Len(seen) - n]
  <2>1. Len(Recent) - n \in 1 .. Len(Recent) BY <1>1, <1>2, <1>4
  <2>2. Len(seen) - Len(Recent) + (Len(Recent) - n) = Len(seen) - n BY <1>2, <1>4
  <2> QED BY <1>3, <2>1, <2>2 DEF Candidate
<1>6. Candidate \in Texts \union Contents /\ Newest(seen, n + 1) = <<Candidate>> \o selected
  BY <1>0, <1>1, <1>2, <1>4, <1>5, NewestCons
<1>7. Candidate \in Nat BY <1>6, Lengths
<1>8. Cost(<<Candidate>> \o selected) = EstimateTokens(Candidate) + Cost(selected)
  BY <1>0, <1>7, CostOfCons
<1> QED BY <1>2, <1>4, <1>5, <1>6, <1>8

-----------------------------------------------------------------------------
\* The steps of the invariant's proof.

LEMMA InitEstablishesIInv == ASSUME Init PROVE IInv
<1>1. << >> \in Seq(Texts \union Contents) BY EmptySeq
<1>2. TypeOK BY <1>1 DEF Init, TypeOK, NoConversation, Whole
<1> QED BY <1>2 DEF Init, IInv, HistoryIsLoaded, AcceptedInv, LoadedInv, SelectedInv, StoppedInv

\* A message is stored, wherever its created_at places it.
LEMMA InsertType ==
    ASSUME NEW S, history \in Seq(S), NEW message \in S, Insert(message)
    PROVE  history' \in Seq(S)
<1>1. PICK older \in 0 .. Len(history) :
          history' = SubSeq(history, 1, older) \o <<message>>
                         \o SubSeq(history, older + 1, Len(history))
  BY DEF Insert
<1>2. \A n \in 1 .. Len(history) : history[n] \in S OBVIOUS
<1>3. SubSeq(history, 1, older) \in Seq(S)
  <2>1. \A n \in 1 .. older : history[n] \in S BY <1>2
  <2> QED BY <2>1, SubSeqProperties
<1>4. SubSeq(history, older + 1, Len(history)) \in Seq(S)
  <2>1. \A n \in older + 1 .. Len(history) : history[n] \in S BY <1>2
  <2> QED BY <2>1, SubSeqProperties
<1> QED BY <1>1, <1>3, <1>4

\* What other turns store does not concern this one.
LEMMA StoreKeepsIInv == ASSUME IInv, NEW content \in Contents, StoreMessage(content) PROVE IInv'
<1>0. UNCHANGED <<system, command, conversation, seen, remaining, selected, pc>> /\ Insert(content)
  BY DEF StoreMessage
<1>1. history' \in Seq(Texts \union Contents) BY <1>0, InsertType DEF IInv, TypeOK
<1>2. UNCHANGED <<Recent, Room, Fits>>
  BY <1>0 DEF Recent, Room, Reserved, Fits, More, Candidate
<1>3. TypeOK' /\ HistoryIsLoaded' /\ AcceptedInv'
  BY <1>0, <1>1 DEF IInv, TypeOK, HistoryIsLoaded, AcceptedInv, Acceptable
<1>4. LoadedInv' BY <1>0, <1>2 DEF IInv, LoadedInv, CanRecall
<1>5. SelectedInv' /\ StoppedInv' BY <1>0, <1>2 DEF IInv, SelectedInv, StoppedInv
<1> QED BY <1>3, <1>4, <1>5 DEF IInv

\* A turn is ended.
LEMMA EndKeepsIInv == ASSUME IInv, NEW answer \in Contents, EndTurn(answer) PROVE IInv'
<1>1. TypeOK'
  <2>1. << >> \in Seq(Texts \union Contents) BY EmptySeq
  <2>2. NoConversation \in [messages : Seq(Texts \union Contents), window : Nat]
    BY <2>1 DEF NoConversation, Whole
  <2>3. history' \in Seq(Texts \union Contents) BY InsertType DEF IInv, TypeOK, EndTurn
  <2> QED BY <2>1, <2>2, <2>3 DEF IInv, TypeOK, EndTurn
<1>2. pc' = "idle" /\ selected' = << >> BY DEF EndTurn
<1> QED BY <1>1, <1>2 DEF IInv, HistoryIsLoaded, AcceptedInv, LoadedInv, SelectedInv, StoppedInv

\* _start_turn loads enough.
LEMMA LoadKeepsIInv == ASSUME IInv, LoadWindow PROVE IInv'
<1> DEFINE w == command.window
           S == Texts \union Contents
           text == command.text
<1>0. /\ TypeOK /\ pc' = "store" /\ UNCHANGED <<system, history, command, remaining, selected>>
      /\ conversation' = Appended(Loaded(history, w), text) /\ seen' = Append(history, text)
      /\ Acceptable(command) /\ selected = << >>
  BY DEF IInv, LoadWindow, AcceptedInv, SelectedInv
<1>1. /\ history \in Seq(S) /\ w \in Nat /\ w > 0 /\ text \in S
  BY <1>0, Lengths DEF TypeOK, Acceptable
<1>2. Newest(history, w) \in Seq(S) BY <1>1, NewestProperties
<1>3. /\ conversation'.messages = Append(Newest(history, w), text)
      /\ conversation'.window \in Nat
      /\ conversation'.window # Whole => conversation'.window = w + 1
      /\ conversation' \in [messages : Seq(S), window : Nat]
  BY <1>0, <1>1, <1>2 DEF Appended, Loaded, Whole
<1>4. TypeOK'
  <2>1. seen' \in Seq(S) BY <1>0, <1>1
  <2> QED BY <1>0, <1>3, <2>1 DEF TypeOK
<1>5. seen' # << >> /\ seen'[Len(seen')] = command'.text BY <1>0, <1>1
<1>6. CanRecall(conversation', command'.window) BY <1>0, <1>1, <1>3 DEF CanRecall
<1>7. Recent' = Newest(seen', command'.window)
  <2>1. Newest(Append(Newest(history, w), text), w) = Newest(Append(history, text), w)
    <3> HIDE DEF w, text, S
    <3> QED BY <1>1, NewestAfterAppend
  <2> QED BY <1>0, <1>3, <2>1 DEF Recent
<1>8. LoadedInv' BY <1>0, <1>5, <1>6, <1>7 DEF LoadedInv
<1>9. HistoryIsLoaded' /\ AcceptedInv' /\ SelectedInv' /\ StoppedInv'
  BY <1>0 DEF HistoryIsLoaded, AcceptedInv, SelectedInv, StoppedInv, Acceptable
<1> QED BY <1>4, <1>8, <1>9 DEF IInv

\* The INSERT of the input leaves the aggregate as it is.
LEMMA StoreInputKeepsIInv == ASSUME IInv, StoreInput PROVE IInv'
<1>0. /\ UNCHANGED <<system, command, conversation, seen, remaining, selected>>
      /\ Insert(command.text) /\ pc = "store" /\ pc' = "build"
  BY DEF StoreInput
<1>1. command.text \in Texts \union Contents BY Lengths DEF IInv, TypeOK
<1>2. history' \in Seq(Texts \union Contents) BY <1>0, <1>1, InsertType DEF IInv, TypeOK
<1>3. UNCHANGED Recent BY <1>0 DEF Recent
<1>4. TypeOK' /\ HistoryIsLoaded' /\ AcceptedInv'
  BY <1>0, <1>2 DEF IInv, TypeOK, HistoryIsLoaded, AcceptedInv, Acceptable
<1>5. LoadedInv' BY <1>0, <1>3 DEF IInv, LoadedInv, CanRecall
<1>6. SelectedInv' /\ StoppedInv' BY <1>0 DEF IInv, SelectedInv, StoppedInv
<1> QED BY <1>4, <1>5, <1>6 DEF IInv

\* _build_request starts with the room that the system prompt leaves.
LEMMA BuildKeepsIInv == ASSUME IInv, BuildRequest PROVE IInv'
<1>0. /\ TypeOK /\ LoadedInv /\ AcceptedInv /\ pc = "build" /\ selected = << >>
      /\ UNCHANGED <<system, history, command, conversation, seen, selected>>
      /\ remaining' = Room /\ pc' = "select"
  BY DEF IInv, LoadedInv, SelectedInv, BuildRequest, Room
<1>1. Room \in Nat BY <1>0, RoomType
<1>2. TypeOK' BY <1>0, <1>1 DEF TypeOK
<1>3. Recent' = Recent /\ Room' = Room BY <1>0 DEF Recent, Room, Reserved
<1>4. AcceptedInv' /\ LoadedInv'
  BY <1>0, <1>3 DEF AcceptedInv, LoadedInv, Acceptable, CanRecall
<1>5. SelectedInv'
  <2>1. Len(selected') = 0 /\ Len(selected') <= Len(Recent')
    <3>1. Recent \in Seq(Nat)
      <4>1. seen \in Seq(Nat) /\ command.window \in Nat BY <1>0, Lengths DEF TypeOK
      <4> QED BY <1>0, <4>1, NewestProperties DEF LoadedInv
    <3> QED BY <1>0, <1>3, <3>1
  <2>2. selected' = Newest(seen', Len(selected'))
    BY <1>0, <2>1, NewestOfNone DEF TypeOK
  <2>3. remaining' + Cost(selected') = Room' BY <1>0, <1>1, <1>3, CostOfNone
  <2> QED BY <1>0, <2>1, <2>2, <2>3 DEF SelectedInv
<1> QED BY <1>0, <1>2, <1>4, <1>5 DEF IInv, HistoryIsLoaded, StoppedInv

\* An iteration of the loop keeps a message and pays for it.
LEMMA SelectKeepsIInv == ASSUME IInv, SelectMessage PROVE IInv'
<1> DEFINE n == Len(selected)
<1>0. /\ TypeOK /\ LoadedInv /\ AcceptedInv /\ SelectedInv
      /\ pc = "select" /\ More /\ EstimateTokens(Candidate) <= remaining
      /\ UNCHANGED <<system, history, command, conversation, seen, pc>>
      /\ selected' = <<Candidate>> \o selected
      /\ remaining' = remaining - EstimateTokens(Candidate)
  BY DEF IInv, SelectMessage, Fits
<1>1. /\ n \in Nat /\ n < Len(seen)
      /\ Candidate \in Texts \union Contents
      /\ Newest(seen, n + 1) = <<Candidate>> \o selected
      /\ Cost(Newest(seen, n + 1)) = EstimateTokens(Candidate) + Cost(selected)
  BY <1>0, CandidateIsNext
<1>2. /\ EstimateTokens(Candidate) \in Nat /\ remaining \in Nat /\ remaining' \in Nat
      /\ selected \in Seq(Texts \union Contents) /\ Cost(selected) \in Nat
  <2>1. Candidate \in Nat /\ selected \in Seq(Nat) BY <1>0, <1>1, Lengths DEF TypeOK
  <2>2. EstimateTokens(Candidate) \in Nat /\ Cost(selected) \in Nat
    BY <2>1, EstimateType, CostType
  <2> QED BY <1>0, <2>2 DEF TypeOK
<1>3. /\ selected' \in Seq(Texts \union Contents) /\ Len(selected') = n + 1
      /\ selected' # << >>
  BY <1>0, <1>1, <1>2
<1>4. TypeOK' BY <1>0, <1>2, <1>3 DEF TypeOK
<1>5. Recent' = Recent /\ Room' = Room BY <1>0 DEF Recent, Room, Reserved
<1>6. AcceptedInv' /\ LoadedInv'
  BY <1>0, <1>5 DEF AcceptedInv, LoadedInv, Acceptable, CanRecall
<1>7. SelectedInv'
  <2>1. Len(selected') <= Len(Recent')
    <3>1. n < Len(Recent) /\ Len(Recent) \in Nat
      <4>1. seen \in Seq(Nat) /\ command.window \in Nat BY <1>0, Lengths DEF TypeOK
      <4>2. Recent \in Seq(Nat) BY <1>0, <4>1, NewestProperties DEF LoadedInv
      <4> QED BY <1>0, <4>2 DEF More
    <3> QED BY <1>1, <1>3, <1>5, <3>1
  <2>2. selected' = Newest(seen', Len(selected')) BY <1>0, <1>1, <1>3
  <2>3. remaining' + Cost(selected') = Room'
    <3>1. remaining + Cost(selected) = Room BY <1>0 DEF SelectedInv
    <3>2. Cost(selected') = EstimateTokens(Candidate) + Cost(selected) BY <1>0, <1>1
    <3> QED BY <1>0, <1>2, <1>5, <3>1, <3>2
  <2> QED BY <1>0, <2>1, <2>2, <2>3 DEF SelectedInv
<1> QED BY <1>0, <1>4, <1>6, <1>7 DEF IInv, HistoryIsLoaded, StoppedInv

LEMMA StopKeepsIInv == ASSUME IInv, StopSelecting PROVE IInv'
<1>0. /\ TypeOK /\ LoadedInv /\ AcceptedInv /\ SelectedInv /\ pc = "select" /\ ~ Fits
      /\ UNCHANGED <<system, history, command, conversation, seen, remaining, selected>>
      /\ pc' = IF selected = << >> THEN "exhausted" ELSE "request"
  BY DEF IInv, StopSelecting
<1>1. /\ Recent' = Recent /\ Room' = Room /\ Fits' = Fits
  BY <1>0 DEF Recent, Room, Reserved, Fits, More, Candidate
<1>2. TypeOK' /\ HistoryIsLoaded' BY <1>0 DEF TypeOK, HistoryIsLoaded
<1>3. AcceptedInv' /\ LoadedInv'
  BY <1>0, <1>1 DEF AcceptedInv, LoadedInv, Acceptable, CanRecall
<1>4. SelectedInv' /\ StoppedInv' BY <1>0, <1>1 DEF SelectedInv, StoppedInv
<1> QED BY <1>2, <1>3, <1>4 DEF IInv

\* Every reachable state satisfies the invariant.
THEOREM IInvInductive == Spec => []IInv
<1>1. IInv /\ [Next]_vars => IInv'
  <2> SUFFICES ASSUME IInv, [Next]_vars PROVE IInv' OBVIOUS
  <2>1. ASSUME NEW content \in Contents, StoreMessage(content) \/ EndTurn(content) PROVE IInv'
    BY <2>1, StoreKeepsIInv, EndKeepsIInv
  <2>2. ASSUME NEW c \in Command, ValidateInput(c) PROVE IInv'
    <3>1. /\ TypeOK' /\ selected' = << >> /\ pc' \in {"idle", "start"}
          /\ pc' = "start" => Acceptable(command')
      BY <2>2 DEF IInv, TypeOK, SelectedInv, ValidateInput
    <3> QED BY <3>1 DEF IInv, HistoryIsLoaded, AcceptedInv, LoadedInv, SelectedInv, StoppedInv
  <2>3. CASE UNCHANGED vars
    <3>1. UNCHANGED <<Recent, Room, Fits>>
      BY <2>3 DEF vars, Recent, Room, Reserved, Fits, More, Candidate
    <3>2. TypeOK' /\ HistoryIsLoaded' /\ AcceptedInv'
      BY <2>3 DEF vars, IInv, TypeOK, HistoryIsLoaded, AcceptedInv, Acceptable
    <3>3. LoadedInv' BY <2>3, <3>1 DEF vars, IInv, LoadedInv, CanRecall
    <3>4. SelectedInv' /\ StoppedInv' BY <2>3, <3>1 DEF vars, IInv, SelectedInv, StoppedInv
    <3> QED BY <3>2, <3>3, <3>4 DEF IInv
  <2> QED BY <2>1, <2>2, <2>3, LoadKeepsIInv, StoreInputKeepsIInv, BuildKeepsIInv, SelectKeepsIInv,
         StopKeepsIInv
      DEF Next
<1> QED BY <1>1, InitEstablishesIInv, PTL DEF Spec

-----------------------------------------------------------------------------
\* recent_messages() never raises conversation_history_not_loaded in a turn:
\* the window that _start_turn loads is the one _build_request asks for.
THEOREM HistoryAlwaysLoaded == Spec => []HistoryIsLoaded
<1>1. IInv => HistoryIsLoaded BY DEF IInv
<1> QED BY <1>1, IInvInductive, PTL

\* The messages of a request are the newest that were stored when _start_turn
\* read the conversation, and the message to answer is the last of them, whatever
\* other turns store meanwhile.
THEOREM NewestContext == Spec => []ContextIsNewest
<1>1. IInv => ContextIsNewest
  <2> SUFFICES ASSUME IInv, pc = "request"
               PROVE  /\ selected = Newest(seen, Len(selected))
                      /\ Len(selected) \in 1 .. command.window
                      /\ selected[Len(selected)] = command.text
    BY DEF ContextIsNewest
  <2> DEFINE n == Len(selected)
             L == Len(seen)
  <2>0. /\ seen \in Seq(Nat) /\ selected \in Seq(Nat) /\ command.window \in Nat
    BY Lengths DEF IInv, TypeOK
  <2>1. /\ selected = Newest(seen, n) /\ n <= Len(Recent) /\ selected # << >>
        /\ seen[L] = command.text /\ Recent = Newest(seen, command.window)
    BY DEF IInv, SelectedInv, StoppedInv, LoadedInv
  <2>2. Len(Recent) = IF command.window < L THEN command.window ELSE L
    <3>1. Len(Newest(seen, command.window)) =
              IF command.window < L THEN command.window ELSE L
      BY <2>0, NewestProperties
    <3> QED BY <2>1, <3>1
  <2>3. n \in Nat /\ n > 0 /\ L \in Nat BY <2>0, <2>1, EmptySeq
  <2>4. n <= L /\ n <= command.window BY <2>0, <2>1, <2>2, <2>3
  <2>5. Newest(seen, n)[n] = seen[L - n + n]
    <3>1. Len(Newest(seen, n)) = n BY <2>1
    <3>2. n \in 1 .. Len(Newest(seen, n)) BY <2>3, <3>1
    <3> HIDE DEF n, L
    <3>3. \A i \in 1 .. Len(Newest(seen, n)) :
              Newest(seen, n)[i] = seen[L - Len(Newest(seen, n)) + i]
      BY <2>0, <2>3, NewestProperties DEF L
    <3> QED BY <3>1, <3>2, <3>3
  <2>6. L - n + n = L BY <2>3
  <2>7. selected[n] = command.text BY <2>1, <2>5, <2>6
  <2> QED BY <2>1, <2>3, <2>4, <2>7, <2>0
<1> QED BY <1>1, IInvInductive, PTL

\* What a request that has a message costs.
LEMMA RequestCost ==
    ASSUME IInv, pc = "request"
    PROVE  /\ Reserved \in Nat /\ Cost(selected) \in Nat /\ remaining \in Nat
           /\ command.budget \in Nat
           /\ Reserved + Cost(selected) + remaining = command.budget
<1>1. /\ Reserved \in Nat /\ Room \in Nat BY RoomType DEF IInv
<1>2. /\ selected \in Seq(Nat) /\ seen \in Seq(Nat) /\ remaining \in Nat
      /\ command.budget \in Nat /\ selected # << >>
      /\ remaining + Cost(selected) = Room /\ selected = Newest(seen, Len(selected))
  BY Lengths DEF IInv, TypeOK, SelectedInv, StoppedInv
<1>3. Cost(selected) \in Nat BY <1>2, CostType
<1>4. Cost(selected) >= 4
  <2> DEFINE n == Len(selected)
  <2>1. n \in Nat /\ n # 0 BY <1>2, EmptySeq
  <2>2. n <= Len(seen)
    <3>1. Len(Newest(seen, n)) = IF n < Len(seen) THEN n ELSE Len(seen)
      BY <1>2, <2>1, NewestProperties
    <3>2. Len(seen) \in Nat BY <1>2
    <3> QED BY <1>2, <2>1, <3>1, <3>2
  <2>3. PICK m \in Nat : n = m + 1 /\ m < Len(seen)
    <3>1. n - 1 \in Nat /\ n = (n - 1) + 1 /\ n - 1 < Len(seen) BY <1>2, <2>1, <2>2
    <3> QED BY <3>1
  <2>4. /\ seen[Len(seen) - m] \in Nat
        /\ Newest(seen, m + 1) = <<seen[Len(seen) - m]>> \o Newest(seen, m)
    BY <1>2, <2>3, NewestCons
  <2> DEFINE first == seen[Len(seen) - m]
  <2>5. Newest(seen, m) \in Seq(Nat) BY <1>2, NewestProperties
  <2>6. Cost(selected) = EstimateTokens(first) + Cost(Newest(seen, m))
    <3>1. selected = <<first>> \o Newest(seen, m) BY <1>2, <2>3, <2>4
    <3> HIDE DEF first
    <3> QED BY <2>4, <2>5, <3>1, CostOfCons DEF first
  <2>7. /\ EstimateTokens(first) \in Nat /\ EstimateTokens(first) >= 4
        /\ Cost(Newest(seen, m)) \in Nat
    BY <2>4, <2>5, EstimateType, CostType
  <2> HIDE DEF first
  <2> QED BY <2>6, <2>7
<1>5. Room # 0 BY <1>1, <1>2, <1>3, <1>4
<1>6. Room = command.budget - Reserved /\ Reserved < command.budget BY <1>5 DEF Room
<1>7. remaining + Cost(selected) = command.budget - Reserved BY <1>2, <1>6
<1>8. remaining \in Nat /\ command.budget \in Nat BY <1>2
<1> HIDE DEF Reserved
<1>9. Reserved + Cost(selected) + remaining = command.budget BY ONLY <1>1, <1>3, <1>7, <1>8
<1> QED BY <1>1, <1>3, <1>8, <1>9

\* The request never exceeds max_context_tokens, system prompt included.
THEOREM WithinBudget == Spec => []ContextFits
<1>1. IInv => ContextFits BY RequestCost DEF ContextFits, Reserved
<1> QED BY <1>1, IInvInductive, PTL

\* No longer suffix of the conversation as _start_turn read it, within the window,
\* would have fitted into the budget.
THEOREM MaximalContext == Spec => []ContextIsMaximal
<1>1. IInv => ContextIsMaximal
  <2> SUFFICES ASSUME IInv PROVE ContextIsMaximal OBVIOUS
  <2> DEFINE k == Len(selected)
  <2>0. /\ seen \in Seq(Nat) /\ selected \in Seq(Nat) /\ command.window \in Nat
    BY Lengths DEF IInv, TypeOK
  <2> SUFFICES ASSUME pc = "request", NEW n \in Len(selected) + 1 .. Len(seen),
                      n <= command.window
               PROVE  Reserved + Cost(Newest(seen, n)) > command.budget
    BY <2>0 DEF ContextIsMaximal, Reserved
  <2>1. k \in Nat /\ Len(seen) \in Nat /\ n \in Nat /\ k + 1 <= n /\ n <= Len(seen)
    BY <2>0
  <2>2. More
    <3>1. Len(Newest(seen, command.window)) =
              IF command.window < Len(seen) THEN command.window ELSE Len(seen)
      BY <2>0, NewestProperties
    <3>2. Recent = Newest(seen, command.window) BY DEF IInv, LoadedInv
    <3> QED BY <2>0, <2>1, <3>1, <3>2 DEF More
  <2>3. /\ Candidate \in Nat
        /\ Cost(Newest(seen, k + 1)) = EstimateTokens(Candidate) + Cost(selected)
    BY <2>2, CandidateIsNext, Lengths
  <2>4. EstimateTokens(Candidate) > remaining /\ EstimateTokens(Candidate) \in Nat
    <3>1. EstimateTokens(Candidate) \in Nat BY <2>3, EstimateType
    <3>2. ~ (EstimateTokens(Candidate) <= remaining) /\ remaining \in Nat
      BY <2>2 DEF IInv, StoppedInv, Fits, TypeOK
    <3> QED BY <3>1, <3>2
  <2>5. Cost(Newest(seen, k + 1)) <= Cost(Newest(seen, n))
    <3>1. k + 1 \in Nat BY <2>1
    <3> QED BY <2>0, <2>1, <3>1, NewestCostGrows
  <2>6. Cost(Newest(seen, n)) \in Nat BY <2>0, <2>1, NewestProperties, CostType
  <2>7. /\ Reserved \in Nat /\ Cost(selected) \in Nat /\ remaining \in Nat /\ command.budget \in Nat
        /\ Reserved + Cost(selected) + remaining = command.budget
    BY RequestCost
  <2> QED BY <2>3, <2>4, <2>5, <2>6, <2>7
<1> QED BY <1>1, IInvInductive, PTL

\* agent_context_budget_exhausted is raised only for a message that does not
\* fit together with the system prompt.
THEOREM ExhaustedByPrompt == Spec => []ExhaustedOnlyByPrompt
<1>1. IInv => ExhaustedOnlyByPrompt
  <2> SUFFICES ASSUME IInv, pc = "exhausted"
               PROVE  Reserved + EstimateTokens(command.text) > command.budget
    BY DEF ExhaustedOnlyByPrompt, Reserved
  <2>0. /\ seen \in Seq(Nat) /\ command.window \in Nat /\ command.text \in Nat
        /\ command.budget \in Nat /\ remaining \in Nat
    BY Lengths DEF IInv, TypeOK
  <2>1. /\ selected = << >> /\ ~ Fits /\ Recent = Newest(seen, command.window)
        /\ seen # << >> /\ seen[Len(seen)] = command.text /\ command.window > 0
        /\ remaining + Cost(selected) = Room
    BY DEF IInv, StoppedInv, LoadedInv, SelectedInv, AcceptedInv, Acceptable
  <2>2. Len(selected) = 0 /\ Len(seen) \in Nat /\ Len(seen) > 0
    BY <2>0, <2>1, EmptySeq
  <2>3. More
    <3>1. Len(Newest(seen, command.window)) =
              IF command.window < Len(seen) THEN command.window ELSE Len(seen)
      BY <2>0, NewestProperties
    <3> QED BY <2>0, <2>1, <2>2, <3>1 DEF More
  <2>4. Candidate = command.text
    <3>1. Candidate = seen[Len(seen) - Len(selected)] BY <2>3, CandidateIsNext
    <3>2. Len(seen) - Len(selected) = Len(seen) BY <2>2
    <3> QED BY <2>1, <3>1, <3>2
  <2>5. EstimateTokens(command.text) \in Nat BY <2>0, EstimateType
  <2>6. ~ (EstimateTokens(command.text) <= remaining) BY <2>1, <2>3, <2>4 DEF Fits
  <2>7. remaining = Room BY <2>0, <2>1, CostOfNone
  <2>8. Reserved \in Nat BY RoomType DEF IInv
  <2> QED BY <2>0, <2>5, <2>6, <2>7, <2>8 DEF Room
<1> QED BY <1>1, IInvInductive, PTL
=============================================================================
