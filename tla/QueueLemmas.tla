----------------------------- MODULE QueueLemmas -----------------------------
(***************************************************************************)
(* Facts about queues, which are sequences read at their head and written  *)
(* at their end: what Append, Head and Tail do to the elements and to the  *)
(* places of a queue.  The proofs about all modules with queues use them.  *)
(***************************************************************************)
EXTENDS Naturals, Sequences, TLAPS

Holds(q, x) == \E i \in DOMAIN q : q[i] = x

(* Reading a queue that is not empty.                                      *)
LEMMA ReadQueue ==
  ASSUME NEW S, NEW q \in Seq(S), q # <<>>
  PROVE  /\ Len(q) \in Nat /\ Len(q) >= 1 /\ DOMAIN q = 1 .. Len(q)
         /\ Head(q) = q[1] /\ Head(q) \in S
         /\ Tail(q) \in Seq(S)
         /\ Len(Tail(q)) = Len(q) - 1
         /\ DOMAIN Tail(q) = 1 .. Len(q) - 1
         /\ \A i \in 1 .. Len(q) - 1 : Tail(q)[i] = q[i + 1]
<1>1. Len(q) \in Nat /\ Len(q) >= 1 /\ DOMAIN q = 1 .. Len(q)
  OBVIOUS
<1>2. Head(q) = q[1] /\ q[1] \in S
  BY <1>1
<1>3. Tail(q) \in Seq(S) /\ Len(Tail(q)) = Len(q) - 1
  BY <1>1
<1>4. \A i \in 1 .. Len(q) - 1 : Tail(q)[i] = q[i + 1]
  BY <1>1
<1> QED
  BY <1>1, <1>2, <1>3, <1>4

(* Writing to a queue.                                                     *)
LEMMA WriteQueue ==
  ASSUME NEW S, NEW q \in Seq(S), NEW x \in S
  PROVE  /\ Len(q) \in Nat /\ DOMAIN q = 1 .. Len(q)
         /\ Append(q, x) \in Seq(S)
         /\ Len(Append(q, x)) = Len(q) + 1
         /\ DOMAIN Append(q, x) = 1 .. Len(q) + 1
         /\ \A i \in 1 .. Len(q) : Append(q, x)[i] = q[i]
         /\ Append(q, x)[Len(q) + 1] = x
<1>1. Len(q) \in Nat /\ DOMAIN q = 1 .. Len(q)
  OBVIOUS
<1>2. Append(q, x) \in Seq(S) /\ Len(Append(q, x)) = Len(q) + 1
  OBVIOUS
<1>3. \A i \in 1 .. Len(q) : Append(q, x)[i] = q[i]
  BY <1>1
<1>4. Append(q, x)[Len(q) + 1] = x
  BY <1>1
<1> QED
  BY <1>1, <1>2, <1>3, <1>4

(* What a queue holds once its head was read, ...                          *)
LEMMA TailHolds ==
  ASSUME NEW S, NEW q \in Seq(S), q # <<>>
  PROVE  \A x : Holds(q, x) <=> x = Head(q) \/ Holds(Tail(q), x)
<1> SUFFICES ASSUME NEW x PROVE Holds(q, x) <=> x = Head(q) \/ Holds(Tail(q), x)
  OBVIOUS
<1> USE ReadQueue DEF Holds
<1>1. ASSUME NEW i \in DOMAIN q, q[i] = x, x # Head(q)
      PROVE  Holds(Tail(q), x)
  <2>1. i \in 2 .. Len(q)
    BY <1>1
  <2>2. i - 1 \in 1 .. Len(q) - 1 /\ Tail(q)[i - 1] = q[i]
    BY <2>1
  <2> QED
    BY <1>1, <2>2
<1>2. ASSUME NEW i \in DOMAIN Tail(q), Tail(q)[i] = x
      PROVE  Holds(q, x)
  <2>1. i + 1 \in 1 .. Len(q) /\ q[i + 1] = x
    BY <1>2
  <2> QED
    BY <2>1
<1>3. Holds(q, Head(q))
  <2>1. 1 \in DOMAIN q /\ q[1] = Head(q)
    OBVIOUS
  <2> QED
    BY <2>1
<1> QED
  BY <1>1, <1>2, <1>3

(* ... and once an element was appended.                                   *)
LEMMA AppendHolds ==
  ASSUME NEW S, NEW q \in Seq(S), NEW y \in S
  PROVE  \A x : Holds(Append(q, y), x) <=> Holds(q, x) \/ x = y
<1> SUFFICES ASSUME NEW x PROVE Holds(Append(q, y), x) <=> Holds(q, x) \/ x = y
  OBVIOUS
<1> USE WriteQueue DEF Holds
<1>1. ASSUME NEW i \in DOMAIN Append(q, y), Append(q, y)[i] = x
      PROVE  Holds(q, x) \/ x = y
  <2>1. i \in 1 .. Len(q) \/ i = Len(q) + 1
    OBVIOUS
  <2> QED
    BY <1>1, <2>1
<1>2. ASSUME NEW i \in DOMAIN q, q[i] = x
      PROVE  Holds(Append(q, y), x)
  <2>1. i \in 1 .. Len(q) + 1 /\ Append(q, y)[i] = x
    BY <1>2
  <2> QED
    BY <2>1
<1>3. Holds(Append(q, y), y)
  <2>1. Len(q) + 1 \in DOMAIN Append(q, y) /\ Append(q, y)[Len(q) + 1] = y
    OBVIOUS
  <2> QED
    BY <2>1
<1> QED
  BY <1>1, <1>2, <1>3

(* An empty queue holds nothing.                                           *)
LEMMA EmptyHolds == \A x : ~Holds(<<>>, x)
BY DEF Holds

(* The places of a queue and what is at them.                              *)
LEMMA Elements ==
  ASSUME NEW S, NEW q \in Seq(S)
  PROVE  Len(q) \in Nat /\ DOMAIN q = 1 .. Len(q) /\ \A i \in DOMAIN q : q[i] \in S
OBVIOUS

(* A queue over a set is one over any larger set.                           *)
LEMMA Larger ==
  ASSUME NEW S, NEW T, S \subseteq T, NEW q \in Seq(S)
  PROVE  q \in Seq(T)
<1>1. Len(q) \in Nat /\ q = [i \in 1 .. Len(q) |-> q[i]] /\ \A i \in 1 .. Len(q) : q[i] \in T
  BY Elements
<1> QED
  BY <1>1

=============================================================================
