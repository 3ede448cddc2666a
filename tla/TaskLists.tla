----------------------------- MODULE TaskLists -----------------------------
(***************************************************************************)
(* What the list operations of the kernel do to the tasks on a list: facts *)
(* about Append, Tail, <<e>> \o s and InsertAt, in terms of the range of a *)
(* sequence, of its injectivity, and of the order of its elements; and     *)
(* what they do to the pointers of a linked list.                          *)
(***************************************************************************)
EXTENDS Chains, SequencesExt, SequenceTheorems, FiniteSetTheorems,
        WellFoundedInduction, TLAPS

\* The elements of s are in the order of their keys.
Ordered(s, key) ==
  \A i, j \in 1 .. Len(s) : i < j => key[s[i]] <= key[s[j]]

\* The empty list is the one with no task on it.
LEMMA EmptyRange ==
  ASSUME NEW S, NEW s \in Seq(S)
  PROVE  s = <<>> <=> Range(s) = {}
  <1>1. Range(s) = {s[i] : i \in 1 .. Len(s)}
    BY RangeEquality
  <1>2. CASE s = <<>>
    BY <1>1, <1>2
  <1>3. CASE s # <<>>
    <2>1. Len(s) \in Nat \ {0}
      BY <1>3, EmptySeq
    <2> QED BY <1>1, <1>3, <2>1
  <1> QED BY <1>2, <1>3

\* The empty list has each of its tasks once, and in order.
LEMMA EmptyList ==
  ASSUME NEW key
  PROVE  IsInjective(<<>>) /\ Ordered(<<>>, key)
  BY DEF IsInjective, Ordered

\* A list with one task has it once.
LEMMA SingletonList ==
  ASSUME NEW S, NEW e \in S
  PROVE  IsInjective(<<e>>) /\ Range(<<e>>) = {e}
  <1>1. <<e>> \in Seq(S) /\ Len(<<e>>) = 1 /\ <<e>>[1] = e /\ DOMAIN <<e>> = 1 .. 1
    OBVIOUS
  <1>2. Range(<<e>>) = {<<e>>[i] : i \in 1 .. 1}
    BY <1>1, RangeEquality
  <1>3. 1 .. 1 = {1}
    OBVIOUS
  <1> QED BY <1>1, <1>2, <1>3 DEF IsInjective

\* q is s with e put in at position i: what all four ways of adding a task to
\* a list have in common.
Inserted(S, s, q, i, e) ==
  /\ q \in Seq(S)
  /\ Len(q) = Len(s) + 1
  /\ i \in 1 .. Len(s) + 1
  /\ q[i] = e
  /\ \A j \in 1 .. i - 1 : q[j] = s[j]
  /\ \A j \in i + 1 .. Len(s) + 1 : q[j] = s[j - 1]

\* Putting in a new element keeps the elements distinct, and adds just it.
LEMMA InsertedRange ==
  ASSUME NEW S, NEW s \in Seq(S), NEW q, NEW i, NEW e \in S,
         Inserted(S, s, q, i, e)
  PROVE  /\ Range(q) = Range(s) \cup {e}
         /\ IsInjective(s) /\ e \notin Range(s) => IsInjective(q)
  <1>1. Len(s) \in Nat /\ Len(q) \in Nat
    BY LenProperties DEF Inserted
  <1>2. /\ Range(s) = {s[j] : j \in 1 .. Len(s)}
        /\ Range(q) = {q[j] : j \in 1 .. Len(s) + 1}
    BY RangeEquality DEF Inserted
  <1>3. /\ DOMAIN s = 1 .. Len(s)
        /\ DOMAIN q = 1 .. Len(s) + 1
    BY LenProperties DEF Inserted
  <1>4. /\ i \in 1 .. Len(s) + 1
        /\ q[i] = e
        /\ \A j \in 1 .. i - 1 : j \in 1 .. Len(s) /\ q[j] = s[j]
        /\ \A j \in i + 1 .. Len(s) + 1 : j - 1 \in 1 .. Len(s) /\ q[j] = s[j - 1]
    BY <1>1 DEF Inserted
  <1>5. \A j \in 1 .. Len(s) + 1 : j \in 1 .. i - 1 \/ j = i \/ j \in i + 1 .. Len(s) + 1
    BY <1>1, <1>4
  <1>6. Range(q) = Range(s) \cup {e}
    <2>1. \A j \in 1 .. Len(s) + 1 : q[j] \in {s[k] : k \in 1 .. Len(s)} \cup {e}
      BY <1>4, <1>5
    <2>2. \A k \in 1 .. Len(s) : \E j \in 1 .. Len(s) + 1 : q[j] = s[k]
      <3> SUFFICES ASSUME NEW k \in 1 .. Len(s)
                   PROVE  \E j \in 1 .. Len(s) + 1 : q[j] = s[k]
        OBVIOUS
      <3>1. CASE k < i
        BY <1>1, <1>4, <3>1
      <3>2. CASE k >= i
        <4>1. k + 1 \in i + 1 .. Len(s) + 1 /\ (k + 1) - 1 = k
          BY <1>1, <1>4, <3>2
        <4>2. q[k + 1] = s[k]
          BY <1>4, <4>1
        <4> QED BY <1>1, <1>4, <4>1, <4>2
      <3> QED BY <1>1, <1>4, <3>1, <3>2
    <2>3. i \in 1 .. Len(s) + 1 /\ q[i] = e
      BY <1>4
    <2>4. Range(q) \subseteq Range(s) \cup {e}
      BY <1>2, <2>1
    <2>5. Range(s) \subseteq Range(q)
      BY <1>2, <2>2
    <2>6. e \in Range(q)
      BY <1>2, <2>3
    <2> QED BY <2>4, <2>5, <2>6
  <1>7. ASSUME IsInjective(s), e \notin Range(s)
        PROVE  IsInjective(q)
    <2> SUFFICES ASSUME NEW j \in 1 .. Len(s) + 1, NEW k \in 1 .. Len(s) + 1,
                        q[j] = q[k], j < k
                 PROVE  FALSE
      BY <1>1, <1>3 DEF IsInjective
    <2>1. \A m, n \in 1 .. Len(s) : s[m] = s[n] => m = n
      BY <1>3, <1>7 DEF IsInjective
    <2>2. \A m \in 1 .. Len(s) : s[m] # e
      BY <1>2, <1>7
    <2>3. CASE j < i /\ k < i
      BY <1>1, <1>4, <2>1, <2>3
    <2>4. CASE j < i /\ k > i
      <3>1. q[j] = s[j] /\ q[k] = s[k - 1] /\ j \in 1 .. Len(s) /\ k - 1 \in 1 .. Len(s)
        BY <1>1, <1>4, <2>4
      <3>2. j = k - 1
        BY <2>1, <3>1
      <3> QED BY <1>1, <1>4, <2>4, <3>2
    <2>5. CASE j > i
      <3>1. q[j] = s[j - 1] /\ q[k] = s[k - 1] /\ j - 1 \in 1 .. Len(s) /\ k - 1 \in 1 .. Len(s)
        BY <1>1, <1>4, <2>5
      <3>2. j - 1 = k - 1
        BY <2>1, <3>1
      <3> QED BY <1>1, <3>2
    <2>6. CASE j = i \/ k = i
      BY <1>1, <1>4, <2>2, <2>6
    <2> QED BY <1>1, <1>4, <2>3, <2>4, <2>5, <2>6
  <1> QED BY <1>6, <1>7

\* Putting in an element after those that precede it in the order, and before
\* the others, keeps a list ordered.
LEMMA InsertedOrdered ==
  ASSUME NEW S, NEW s \in Seq(S), NEW q, NEW i, NEW e \in S,
         NEW key, \A x \in S : key[x] \in Int,
         Inserted(S, s, q, i, e),
         Ordered(s, key),
         \A j \in 1 .. i - 1 : key[s[j]] <= key[e],
         i <= Len(s) => key[e] <= key[s[i]]
  PROVE  Ordered(q, key)
  <1>1. Len(s) \in Nat /\ \A j \in 1 .. Len(s) : s[j] \in S
    BY LenProperties, ElementOfSeq
  <1>2. /\ Len(q) = Len(s) + 1
        /\ i \in 1 .. Len(s) + 1
        /\ q[i] = e
        /\ \A j \in 1 .. i - 1 : j \in 1 .. Len(s) /\ q[j] = s[j]
        /\ \A j \in i + 1 .. Len(s) + 1 : j - 1 \in 1 .. Len(s) /\ q[j] = s[j - 1]
    BY <1>1 DEF Inserted
  <1>3. \A m, n \in 1 .. Len(s) : m <= n => key[s[m]] <= key[s[n]]
    BY <1>1 DEF Ordered
  <1>4. \A n \in i .. Len(s) : key[e] <= key[s[n]]
    <2> SUFFICES ASSUME NEW n \in i .. Len(s)
                 PROVE  key[e] <= key[s[n]]
      OBVIOUS
    <2>1. i \in 1 .. Len(s) /\ n \in 1 .. Len(s) /\ i <= n
      BY <1>1, <1>2
    <2>2. key[e] <= key[s[i]] /\ key[s[i]] <= key[s[n]]
      BY <1>3, <2>1
    <2>3. key[e] \in Int /\ key[s[i]] \in Int /\ key[s[n]] \in Int
      BY <1>1, <2>1
    <2> QED BY <2>2, <2>3
  <1> SUFFICES ASSUME NEW j \in 1 .. Len(s) + 1, NEW k \in 1 .. Len(s) + 1, j < k
               PROVE  key[q[j]] <= key[q[k]]
    BY <1>2 DEF Ordered
  <1>5. CASE k < i
    BY <1>1, <1>2, <1>3, <1>5
  <1>6. CASE k = i
    BY <1>1, <1>2, <1>6
  <1>7. CASE j < i /\ k > i
    <2>1. q[j] = s[j] /\ q[k] = s[k - 1] /\ j \in 1 .. Len(s) /\ k - 1 \in 1 .. Len(s) /\ j <= k - 1
      BY <1>1, <1>2, <1>7
    <2> QED BY <1>3, <2>1
  <1>8. CASE j = i
    <2>1. q[k] = s[k - 1] /\ k - 1 \in i .. Len(s)
      BY <1>1, <1>2, <1>8
    <2> QED BY <1>2, <1>4, <1>8, <2>1
  <1>9. CASE j > i
    <2>1. q[j] = s[j - 1] /\ q[k] = s[k - 1] /\ j - 1 \in 1 .. Len(s) /\ k - 1 \in 1 .. Len(s) /\ j - 1 <= k - 1
      BY <1>1, <1>2, <1>9
    <2> QED BY <1>3, <2>1
  <1> QED BY <1>1, <1>2, <1>5, <1>6, <1>7, <1>8, <1>9

\* Append, <<e>> \o s and InsertAt put in one element.
LEMMA AppendInserts ==
  ASSUME NEW S, NEW s \in Seq(S), NEW e \in S
  PROVE  Inserted(S, s, Append(s, e), Len(s) + 1, e)
  <1>1. Len(s) \in Nat
    BY LenProperties
  <1> QED BY <1>1, AppendProperties DEF Inserted

\* A list with a task put in front (list_add_to_head) is that list with one task
\* inserted at position 1.
LEMMA ConsInserts ==
  ASSUME NEW S, NEW s \in Seq(S), NEW e \in S
  PROVE  Inserted(S, s, <<e>> \o s, 1, e)
  <1> DEFINE q == <<e>> \o s
  <1>1. Len(s) \in Nat /\ <<e>> \in Seq(S) /\ Len(<<e>>) = 1 /\ <<e>>[1] = e
    BY LenProperties
  <1>2. /\ q \in Seq(S)
        /\ Len(q) = 1 + Len(s)
        /\ \A j \in 1 .. 1 + Len(s) : q[j] = IF j <= 1 THEN <<e>>[j] ELSE s[j - 1]
    BY <1>1, ConcatProperties
  <1> HIDE DEF q
  <1>3. Inserted(S, s, q, 1, e)
    BY <1>1, <1>2 DEF Inserted
  <1> QED BY <1>3 DEF q

\* Inserting a task at any position, as task_insert_by_prio and os_task_sleep do,
\* adds that task and keeps the others in their order.
LEMMA InsertAtInserts ==
  ASSUME NEW S, NEW s \in Seq(S), NEW e \in S, NEW i \in 1 .. Len(s) + 1
  PROVE  Inserted(S, s, InsertAt(s, i, e), i, e)
  <1> DEFINE front == SubSeq(s, 1, i - 1)
             back  == SubSeq(s, i, Len(s))
             mid   == front \o <<e>>
             q     == mid \o back
  <1>1. Len(s) \in Nat /\ i \in Nat /\ i - 1 \in 0 .. Len(s)
    BY LenProperties
  <1>2. /\ front \in Seq(S)
        /\ Len(front) = i - 1
        /\ \A j \in 1 .. i - 1 : front[j] = s[j]
    <2>1. \A j \in 1 .. i - 1 : s[j] \in S /\ 1 + j - 1 = j
      BY <1>1, ElementOfSeq
    <2>2. 1 .. i - 1 \subseteq DOMAIN s
      BY <1>1, LenProperties
    <2> QED BY <1>1, <2>1, <2>2, SubSeqProperties
  <1>3. /\ back \in Seq(S)
        /\ Len(back) = Len(s) - i + 1
        /\ \A j \in 1 .. Len(s) - i + 1 : back[j] = s[i + j - 1]
    <2>1. \A j \in i .. Len(s) : s[j] \in S
      BY <1>1, ElementOfSeq
    <2>2. i .. Len(s) \subseteq DOMAIN s
      BY <1>1, LenProperties
    <2> QED BY <1>1, <2>1, <2>2, SubSeqProperties
  <1>4. <<e>> \in Seq(S) /\ Len(<<e>>) = 1 /\ <<e>>[1] = e
    OBVIOUS
  <1> HIDE DEF front, back
  <1>5. /\ mid \in Seq(S)
        /\ Len(mid) = i
        /\ \A j \in 1 .. i - 1 : mid[j] = s[j]
        /\ mid[i] = e
    <2>1. /\ mid \in Seq(S)
          /\ Len(mid) = Len(front) + Len(<<e>>)
          /\ \A j \in 1 .. Len(front) + Len(<<e>>) :
               mid[j] = IF j <= Len(front) THEN front[j] ELSE <<e>>[j - Len(front)]
      BY <1>2, <1>4, ConcatProperties
    <2> HIDE DEF mid
    <2>2. Len(front) + Len(<<e>>) = i
      BY <1>1, <1>2, <1>4
    <2>3. \A j \in 1 .. i - 1 : mid[j] = s[j]
      BY <1>1, <1>2, <2>1, <2>2
    <2>4. mid[i] = <<e>>[i - (i - 1)] /\ i - (i - 1) = 1
      BY <1>1, <1>2, <2>1, <2>2
    <2> QED BY <1>4, <2>1, <2>2, <2>3, <2>4
  <1> HIDE DEF mid
  <1>6. /\ q \in Seq(S)
        /\ Len(q) = Len(mid) + Len(back)
        /\ \A j \in 1 .. Len(mid) + Len(back) :
             q[j] = IF j <= Len(mid) THEN mid[j] ELSE back[j - Len(mid)]
    BY <1>3, <1>5, ConcatProperties
  <1> HIDE DEF q
  <1>7. Len(q) = Len(s) + 1
    BY <1>1, <1>3, <1>5, <1>6
  <1>8. \A j \in 1 .. i : q[j] = mid[j]
    BY <1>1, <1>3, <1>5, <1>6
  <1>9. ASSUME NEW j \in i + 1 .. Len(s) + 1
        PROVE  q[j] = s[j - 1]
    <2>1. q[j] = back[j - i] /\ j - i \in 1 .. Len(s) - i + 1 /\ i + (j - i) - 1 = j - 1
      BY <1>1, <1>3, <1>5, <1>6
    <2> QED BY <1>3, <2>1
  <1>10. Inserted(S, s, q, i, e)
    BY <1>1, <1>5, <1>6, <1>7, <1>8, <1>9 DEF Inserted
  <1> QED BY <1>10 DEF q, mid, front, back, InsertAt

\* Taking the first task off a list with no task twice on it removes just it.
LEMMA TailRemoves ==
  ASSUME NEW S, NEW s \in Seq(S), s # <<>>, IsInjective(s), NEW key
  PROVE  /\ Head(s) \in Range(s)
         /\ Range(s) \subseteq S
         /\ Tail(s) \in Seq(S)
         /\ IsInjective(Tail(s))
         /\ Range(Tail(s)) = Range(s) \ {Head(s)}
         /\ Ordered(s, key) => Ordered(Tail(s), key)
         /\ Ordered(s, key) /\ (\A x \in S : key[x] \in Int)
              => \A x \in Range(s) : key[Head(s)] <= key[x]
  <1> DEFINE q == Tail(s)
             n == Len(s)
  <1>1. /\ n \in Nat \ {0}
        /\ q \in Seq(S)
        /\ Len(q) = n - 1
        /\ \A j \in 1 .. n - 1 : q[j] = s[j + 1]
        /\ Head(s) = s[1]
    BY HeadTailProperties, EmptySeq, LenProperties
  <1> HIDE DEF q
  <1>2. /\ Range(s) = {s[j] : j \in 1 .. n}
        /\ Range(q) = {q[j] : j \in 1 .. n - 1}
        /\ DOMAIN s = 1 .. n
        /\ DOMAIN q = 1 .. n - 1
    BY <1>1, RangeEquality, LenProperties
  <1>3. \A j, k \in 1 .. n : s[j] = s[k] => j = k
    BY <1>2 DEF IsInjective
  <1>4. \A j \in 1 .. n : s[j] \in S
    BY ElementOfSeq
  <1>5. \A j \in 1 .. n - 1 : j + 1 \in 1 .. n /\ j + 1 # 1
    BY <1>1
  <1> HIDE DEF n
  <1>6. IsInjective(q)
    BY <1>1, <1>2, <1>3, <1>5 DEF IsInjective
  <1>7. Range(q) = Range(s) \ {Head(s)}
    <2>1. \A j \in 1 .. n - 1 : q[j] \in Range(s) \ {Head(s)}
      BY <1>1, <1>2, <1>3, <1>5
    <2>2. \A j \in 1 .. n : s[j] # Head(s) => \E k \in 1 .. n - 1 : q[k] = s[j]
      <3> SUFFICES ASSUME NEW j \in 1 .. n, s[j] # Head(s)
                   PROVE  \E k \in 1 .. n - 1 : q[k] = s[j]
        OBVIOUS
      <3>1. j - 1 \in 1 .. n - 1 /\ (j - 1) + 1 = j
        BY <1>1
      <3> QED BY <1>1, <3>1
    <2> QED BY <1>2, <2>1, <2>2
  <1>8. ASSUME Ordered(s, key)
        PROVE  Ordered(q, key)
    <2>1. \A j, k \in 1 .. n : j < k => key[s[j]] <= key[s[k]]
      BY <1>8 DEF Ordered, n
    <2>2. SUFFICES ASSUME NEW j \in 1 .. n - 1, NEW k \in 1 .. n - 1, j < k
                   PROVE  key[q[j]] <= key[q[k]]
      BY <1>1 DEF Ordered
    <2>3. j + 1 < k + 1 /\ q[j] = s[j + 1] /\ q[k] = s[k + 1]
      BY <1>1, <2>2
    <2> QED BY <1>5, <2>1, <2>3
  <1>9. ASSUME Ordered(s, key), \A x \in S : key[x] \in Int
        PROVE  \A x \in Range(s) : key[Head(s)] <= key[x]
    <2> SUFFICES ASSUME NEW j \in 1 .. n
                 PROVE  key[s[1]] <= key[s[j]]
      BY <1>1, <1>2
    <2>1. CASE j = 1
      BY <1>4, <1>9, <2>1
    <2>2. CASE j > 1
      BY <1>1, <1>9, <2>2 DEF Ordered, n
    <2> QED BY <1>1, <2>1, <2>2
  <1>10. Head(s) \in Range(s) /\ Range(s) \subseteq S
    BY <1>1, <1>2, <1>4
  <1> QED BY <1>1, <1>6, <1>7, <1>8, <1>9, <1>10 DEF q

-----------------------------------------------------------------------------
(* Induction.  It is stated of a set, and so needs no operator parameter.  *)

\* The order of the natural numbers, as the library has it.
LessThan == {x \in Nat \X Nat : x[1] < x[2]}

\* Every set of natural numbers has a least one.
LEMMA Least ==
  ASSUME NEW S, S \subseteq Nat, S # {}
  PROVE  \E m \in S : \A k \in S : m <= k
  <1>1. IsWellFoundedOn(LessThan, Nat)
    BY NatLessThanWellFounded DEF OpToRel, LessThan
  <1>2. PICK m \in S : \A k \in S : ~ (<<k, m>> \in LessThan)
    BY <1>1, WFMin
  <1>3. \A k \in S : ~ (k < m)
    BY <1>2 DEF LessThan
  <1> QED BY <1>3

\* Induction: what holds of 0, and of n + 1 if it holds of n, holds of all.
LEMMA Induction ==
  ASSUME NEW S, 0 \in S, \A n \in Nat : n \in S => n + 1 \in S
  PROVE  Nat \subseteq S
  <1> SUFFICES ASSUME Nat \ S # {} PROVE FALSE
    OBVIOUS
  <1>1. PICK m \in Nat \ S : \A k \in Nat \ S : m <= k
    BY Least
  <1>2. m - 1 \in Nat /\ m - 1 \notin Nat \ S /\ (m - 1) + 1 = m
    BY <1>1
  <1> QED BY <1>1, <1>2

\* What the function that Walk recurses with has for n, given what it has for
\* n - 1.
Layer(w, next, node, null, n) ==
  [t \in node \cup {null} |->
     IF n = 0 \/ t = null THEN <<>> ELSE <<t>> \o w[n - 1][next[t]]]

\* That function, up to m.
IsWalk(w, next, node, null, m) ==
  w = [n \in 0 .. m |-> Layer(w, next, node, null, n)]

\* There is such a function.
LEMMA WalkExists ==
  ASSUME NEW next, NEW node, NEW null, NEW m \in Nat
  PROVE  \E w : IsWalk(w, next, node, null, m)
  <1> DEFINE L(w, n) == Layer(w, next, node, null, n)
             S == {k \in Nat : \E w : w = [n \in 0 .. k |-> L(w, n)]}
  <1>1. ASSUME NEW v, NEW w, NEW n, n = 0 \/ v[n - 1] = w[n - 1]
        PROVE  L(v, n) = L(w, n)
    BY <1>1 DEF Layer
  <1> HIDE DEF L
  <1>2. 0 \in S
    <2> DEFINE w == [n \in 0 .. 0 |-> L(<<>>, n)]
    <2>1. \A n \in 0 .. 0 : n = 0
      OBVIOUS
    <2>2. \A n \in 0 .. 0 : L(<<>>, n) = L(w, n)
      <3> HIDE DEF w
      <3> QED BY <1>1, <2>1
    <2>3. w = [n \in 0 .. 0 |-> L(w, n)]
      <3>1. w = [n \in 0 .. 0 |-> L(<<>>, n)]
        OBVIOUS
      <3> HIDE DEF w
      <3> QED BY <2>2, <3>1
    <2> QED BY <2>3
  <1>3. ASSUME NEW k \in Nat, k \in S PROVE k + 1 \in S
    <2>1. PICK w : w = [n \in 0 .. k |-> L(w, n)]
      BY <1>3
    <2> DEFINE v == [n \in 0 .. k + 1 |-> L(w, n)]
    <2>2. \A n \in 0 .. k : w[n] = L(w, n)
      BY <2>1
    <2>3. \A n \in 0 .. k : v[n] = L(w, n)
      OBVIOUS
    <2>4. v = [n \in 0 .. k + 1 |-> L(w, n)]
      OBVIOUS
    <2> HIDE DEF v
    <2>5. ASSUME NEW n \in 0 .. k + 1 PROVE L(w, n) = L(v, n)
      <3>1. n = 0 \/ n - 1 \in 0 .. k
        OBVIOUS
      <3>2. n = 0 \/ v[n - 1] = w[n - 1]
        BY <2>2, <2>3, <3>1
      <3> QED BY <1>1, <3>2
    <2>6. v = [n \in 0 .. k + 1 |-> L(v, n)]
      BY <2>4, <2>5
    <2> QED BY <2>6
  <1> HIDE DEF S
  <1>4. m \in S
    BY <1>2, <1>3, Induction
  <1> QED BY <1>4 DEF S, L, IsWalk

\* Walk is the last layer of such a function.
LEMMA WalkIsWalk ==
  ASSUME NEW first, NEW next, NEW node, NEW null, NEW m \in Nat
  PROVE  \E w : IsWalk(w, next, node, null, m) /\ Walk(first, next, node, null, m) = w[m][first]
  <1>1. \E w : IsWalk(w, next, node, null, m)
    BY WalkExists
  <1> DEFINE w == CHOOSE w : IsWalk(w, next, node, null, m)
  <1>2. IsWalk(w, next, node, null, m)
    BY <1>1
  <1>3. Walk(first, next, node, null, m) = w[m][first]
    BY DEF Walk, IsWalk, Layer
  <1> QED BY <1>2, <1>3

\* Following next from first leads along s to null.
IsChain(first, next, null, s) ==
  /\ first = IF s = <<>> THEN null ELSE s[1]
  /\ \A i \in 1 .. Len(s) : next[s[i]] = IF i = Len(s) THEN null ELSE s[i + 1]

\* A walk long enough to see the end of a list finds the list.
LEMMA WalkIs ==
  ASSUME NEW node, NEW null, null \notin node, NEW s \in Seq(node), NEW size \in Nat,
         Len(s) <= size, NEW first, NEW next, IsChain(first, next, null, s)
  PROVE  Walk(first, next, node, null, size) = s
  <1>1. PICK w : /\ IsWalk(w, next, node, null, size)
                 /\ Walk(first, next, node, null, size) = w[size][first]
    BY WalkIsWalk
  <1>2. /\ Len(s) \in Nat
        /\ \A i \in 1 .. Len(s) : s[i] \in node /\ s[i] # null
    BY LenProperties, ElementOfSeq
  <1>3. \A n \in 0 .. size, t \in node \cup {null} :
          w[n][t] = IF n = 0 \/ t = null THEN <<>> ELSE <<t>> \o w[n - 1][next[t]]
    <2>1. \A n \in 0 .. size : w[n] = Layer(w, next, node, null, n)
      <3>1. w = [n \in 0 .. size |-> Layer(w, next, node, null, n)]
        BY <1>1 DEF IsWalk
      <3> QED BY <3>1
    <2>2. ASSUME NEW n \in 0 .. size, NEW t \in node \cup {null}
          PROVE  w[n][t] = IF n = 0 \/ t = null THEN <<>> ELSE <<t>> \o w[n - 1][next[t]]
      <3>1. w[n] = Layer(w, next, node, null, n)
        BY <2>1
      <3>2. Layer(w, next, node, null, n)[t] =
              IF n = 0 \/ t = null THEN <<>> ELSE <<t>> \o w[n - 1][next[t]]
        BY DEF Layer
      <3> QED BY <3>1, <3>2
    <2> QED BY <2>2
  <1> DEFINE R(k) == SubSeq(s, Len(s) + 1 - k, Len(s))
             S == {k \in Nat : k \in 1 .. Len(s) =>
                     \A n \in k .. size : w[n][s[Len(s) + 1 - k]] = R(k)}
  <1>4. \A n \in 0 .. size : w[n][null] = <<>>
    BY <1>3
  <1>5. 0 \in S
    OBVIOUS
  <1>6. ASSUME NEW k \in 1 .. Len(s)
        PROVE  R(k) = <<s[Len(s) + 1 - k]>> \o (IF k = 1 THEN <<>> ELSE R(k - 1))
    <2>1. CASE k = 1
      <3>1. Len(s) + 1 - k = Len(s) /\ Len(s) \in 1 .. Len(s) /\ Len(s) \in Len(s) .. Len(s)
        BY <1>2, <2>1
      <3>2. SubSeq(s, Len(s), Len(s)) = <<s[Len(s)]>> \o SubSeq(s, Len(s) + 1, Len(s))
        BY <3>1, SubSeqRecursiveFirst
      <3>3. SubSeq(s, Len(s) + 1, Len(s)) = <<>>
        BY <1>2, SubSeqEmpty
      <3> QED BY <2>1, <3>1, <3>2, <3>3
    <2>2. CASE k # 1
      <3>1. PICK i : i = Len(s) + 1 - k
        OBVIOUS
      <3>3. i \in 1 .. Len(s) /\ Len(s) \in i .. Len(s) /\ i + 1 = Len(s) + 1 - (k - 1)
        BY <1>2, <2>2, <3>1
      <3>2. SubSeq(s, i, Len(s)) = <<s[i]>> \o SubSeq(s, i + 1, Len(s))
        BY <3>3, SubSeqRecursiveFirst
      <3> QED BY <2>2, <3>1, <3>2, <3>3
    <2> QED BY <2>1, <2>2
  <1> HIDE DEF R
  <1>7. ASSUME NEW k \in Nat, k \in S PROVE k + 1 \in S
    <2> SUFFICES ASSUME k + 1 \in 1 .. Len(s), NEW n \in k + 1 .. size
                 PROVE  w[n][s[Len(s) + 1 - (k + 1)]] = R(k + 1)
      OBVIOUS
    <2>1. PICK i \in 1 .. Len(s) : i = Len(s) + 1 - (k + 1)
      BY <1>2
    <2>2. w[n][s[i]] = <<s[i]>> \o w[n - 1][next[s[i]]]
      <3>1. s[i] \in node \cup {null} /\ s[i] # null /\ n \in 0 .. size /\ n # 0
        BY <1>2
      <3> HIDE DEF S
      <3> QED BY <1>3, <3>1
    <2>3. w[n - 1][next[s[i]]] = IF k + 1 = 1 THEN <<>> ELSE R(k)
      <3>1. CASE k = 0
        <4>1. next[s[i]] = null /\ n - 1 \in 0 .. size
          BY <1>2, <2>1, <3>1 DEF IsChain
        <4> QED BY <1>4, <3>1, <4>1
      <3>2. CASE k # 0
        <4>1. k \in 1 .. Len(s) /\ n - 1 \in k .. size /\ i + 1 = Len(s) + 1 - k
              /\ i # Len(s) /\ k + 1 # 1
          BY <1>2, <2>1, <3>2
        <4>2. next[s[i]] = s[Len(s) + 1 - k]
          BY <4>1 DEF IsChain
        <4>3. w[n - 1][s[Len(s) + 1 - k]] = R(k)
          BY <1>7, <4>1
        <4> QED BY <4>1, <4>2, <4>3
      <3> QED BY <3>1, <3>2
    <2>4. R(k + 1) = <<s[i]>> \o (IF k + 1 = 1 THEN <<>> ELSE R(k))
      BY <1>6, <2>1
    <2> QED BY <2>1, <2>2, <2>3, <2>4
  <1>8. \A k \in Nat : k \in S
    <2> HIDE DEF S
    <2> QED BY <1>5, <1>7, Induction
  <1>9. CASE s = <<>>
    BY <1>1, <1>4, <1>9 DEF IsChain
  <1>10. CASE s # <<>>
    <2>1. Len(s) \in 1 .. Len(s) /\ size \in Len(s) .. size /\ Len(s) + 1 - Len(s) = 1
      BY <1>2, <1>10, EmptySeq
    <2>2. w[size][s[1]] = R(Len(s))
      BY <1>8, <2>1
    <2>3. R(Len(s)) = s
      <3>1. R(Len(s)) = SubSeq(s, 1, Len(s))
        BY <2>1 DEF R
      <3> QED BY <3>1
    <2> QED BY <1>1, <1>10, <2>2, <2>3 DEF IsChain
  <1> QED BY <1>9, <1>10

\* A list of different nodes is not longer than there are nodes.
LEMMA InjectiveIsShort ==
  ASSUME NEW S, IsFiniteSet(S), NEW s \in Seq(S), IsInjective(s)
  PROVE  Len(s) <= Cardinality(S)
  <1>1. Len(s) \in Nat /\ s \in [1 .. Len(s) -> S] /\ DOMAIN s = 1 .. Len(s)
    BY LenProperties
  <1>2. IsFiniteSet(1 .. Len(s)) /\ Cardinality(1 .. Len(s)) = Len(s)
    BY <1>1, FS_Interval
  <1>3. s \in Injection(1 .. Len(s), S)
    BY <1>1 DEF Injection, IsInjective
  <1>4. Cardinality(1 .. Len(s)) <= Cardinality(S)
    BY <1>2, <1>3, FS_Injection
  <1> QED BY <1>2, <1>4

\* Pointers of nodes that are not on a list do not matter to it.
LEMMA ChainFrame ==
  ASSUME NEW S, NEW s \in Seq(S), NEW null, NEW first, NEW next, NEW next2,
         IsChain(first, next, null, s),
         \A x \in Range(s) : next2[x] = next[x]
  PROVE  IsChain(first, next2, null, s)
  <1>1. \A i \in 1 .. Len(s) : s[i] \in Range(s)
    BY RangeEquality
  <1> QED BY <1>1 DEF IsChain

\* Taking the first node off a list moves first on to what it points to.
LEMMA ChainTail ==
  ASSUME NEW S, NEW s \in Seq(S), s # <<>>, NEW null, NEW first, NEW next,
         IsChain(first, next, null, s)
  PROVE  /\ first = Head(s)
         /\ IsChain(next[first], next, null, Tail(s))
  <1>1. /\ Len(s) \in Nat \ {0}
        /\ Tail(s) \in Seq(S)
        /\ Len(Tail(s)) = Len(s) - 1
        /\ \A j \in 1 .. Len(s) - 1 : Tail(s)[j] = s[j + 1]
        /\ Head(s) = s[1]
    BY HeadTailProperties, EmptySeq, LenProperties
  <1>2. Tail(s) = <<>> <=> Len(s) = 1
    BY <1>1, EmptySeq
  <1> DEFINE q == Tail(s)
  <1> HIDE DEF q
  <1>3. /\ Len(q) = Len(s) - 1 /\ (q = <<>> <=> Len(s) = 1)
        /\ \A j \in 1 .. Len(s) - 1 : q[j] = s[j + 1]
    BY <1>1, <1>2 DEF q
  <1>4. first = s[1] /\ \A i \in 1 .. Len(s) : next[s[i]] = IF i = Len(s) THEN null ELSE s[i + 1]
    BY DEF IsChain
  <1>5. next[first] = IF q = <<>> THEN null ELSE q[1]
    <2>1. CASE Len(s) = 1
      BY <1>3, <1>4, <2>1
    <2>2. CASE Len(s) # 1
      <3>1. Len(s) \in Nat /\ 1 \in 1 .. Len(s) /\ 1 \in 1 .. Len(s) - 1 /\ 1 + 1 = 2
        BY <1>1, <2>2
      <3>2. next[s[1]] = s[2] /\ q[1] = s[2]
        BY <1>3, <1>4, <2>2, <3>1
      <3> QED BY <1>3, <1>4, <2>2, <3>2
    <2> QED BY <2>1, <2>2
  <1>6. ASSUME NEW i \in 1 .. Len(q)
        PROVE  next[q[i]] = IF i = Len(q) THEN null ELSE q[i + 1]
    <2>1. i \in 1 .. Len(s) - 1 /\ i + 1 \in 1 .. Len(s)
      BY <1>1, <1>3
    <2>2. CASE i = Len(q)
      <3>1. i + 1 = Len(s)
        BY <1>1, <1>3, <2>2
      <3> QED BY <1>3, <1>4, <2>1, <2>2, <3>1
    <2>3. CASE i # Len(q)
      <3>1. i # Len(s) - 1 /\ Len(s) \in Nat
        BY <1>1, <1>3, <2>3
      <3>2. i + 1 # Len(s) /\ i + 1 \in 1 .. Len(s) - 1
        BY <2>1, <3>1
      <3> QED BY <1>3, <1>4, <2>1, <2>3, <3>2
    <2> QED BY <2>2, <2>3
  <1>7. IsChain(next[first], next, null, q)
    BY <1>5, <1>6 DEF IsChain
  <1> QED BY <1>1, <1>4, <1>7 DEF q

\* Putting a node on a list: it points to the one that is to follow it, and the
\* one before it, or first, to it.
LEMMA ChainInserted ==
  ASSUME NEW S, NEW s \in Seq(S), IsInjective(s), NEW q, NEW i, NEW e \in S,
         Inserted(S, s, q, i, e), e \notin Range(s),
         NEW null, NEW first, NEW next, IsChain(first, next, null, s),
         NEW first2, first2 = IF i = 1 THEN e ELSE first,
         NEW next2,
         next2[e] = IF i = Len(s) + 1 THEN null ELSE s[i],
         \A j \in 1 .. Len(s) : next2[s[j]] = IF j = i - 1 THEN e ELSE next[s[j]]
  PROVE  IsChain(first2, next2, null, q)
  <1>1. Len(s) \in Nat
    BY LenProperties
  <1>2. /\ Len(q) = Len(s) + 1
        /\ i \in 1 .. Len(s) + 1
        /\ q[i] = e
        /\ \A j \in 1 .. i - 1 : j \in 1 .. Len(s) /\ q[j] = s[j]
        /\ \A j \in i + 1 .. Len(s) + 1 : j - 1 \in 1 .. Len(s) /\ q[j] = s[j - 1]
    BY <1>1 DEF Inserted
  <1>3. /\ first = IF s = <<>> THEN null ELSE s[1]
        /\ \A j \in 1 .. Len(s) : next[s[j]] = IF j = Len(s) THEN null ELSE s[j + 1]
    BY DEF IsChain
  <1>4. q # <<>> /\ (i # 1 => s # <<>>)
    BY <1>1, <1>2
  <1>5. first2 = q[1]
    <2>1. CASE i = 1
      BY <1>2, <2>1
    <2>2. CASE i # 1
      <3>1. 1 \in 1 .. i - 1
        BY <1>1, <1>2, <2>2
      <3> QED BY <1>2, <1>3, <1>4, <2>2, <3>1
    <2> QED BY <2>1, <2>2
  <1>6. ASSUME NEW j \in 1 .. Len(s) + 1
        PROVE  next2[q[j]] = IF j = Len(s) + 1 THEN null ELSE q[j + 1]
    <2>1. CASE j = i
      <3>1. CASE i = Len(s) + 1
        BY <1>2, <2>1, <3>1
      <3>2. CASE i # Len(s) + 1
        <4>1. i + 1 \in i + 1 .. Len(s) + 1 /\ (i + 1) - 1 = i
          BY <1>1, <1>2, <3>2
        <4>2. q[i + 1] = s[i]
          BY <1>2, <4>1
        <4> QED BY <1>2, <2>1, <3>2, <4>2
      <3> QED BY <3>1, <3>2
    <2>2. CASE j = i - 1
      <3>1. j \in 1 .. i - 1 /\ j + 1 = i /\ j # Len(s) + 1
        BY <1>1, <1>2, <2>2
      <3> QED BY <1>2, <2>2, <3>1
    <2>3. CASE j < i - 1
      <3>1. /\ j \in 1 .. i - 1 /\ j + 1 \in 1 .. i - 1 /\ j \in 1 .. Len(s)
            /\ j # Len(s) /\ j # Len(s) + 1 /\ j # i - 1
        BY <1>1, <1>2, <2>3
      <3> QED BY <1>2, <1>3, <3>1
    <2>4. CASE j > i
      <3>1. j \in i + 1 .. Len(s) + 1 /\ j - 1 \in 1 .. Len(s) /\ j - 1 # i - 1
        BY <1>1, <1>2, <2>4
      <3>2. next2[q[j]] = IF j - 1 = Len(s) THEN null ELSE s[(j - 1) + 1]
        BY <1>2, <1>3, <3>1
      <3>3. CASE j = Len(s) + 1
        <4>1. j - 1 = Len(s)
          BY <1>1, <3>3
        <4> QED BY <3>2, <3>3, <4>1
      <3>4. CASE j # Len(s) + 1
        <4>1. /\ j - 1 # Len(s) /\ j + 1 \in i + 1 .. Len(s) + 1
              /\ (j + 1) - 1 = (j - 1) + 1
          BY <1>1, <1>2, <3>1, <3>4
        <4>2. q[j + 1] = s[(j - 1) + 1]
          BY <1>2, <4>1
        <4> QED BY <3>2, <3>4, <4>1, <4>2
      <3> QED BY <3>3, <3>4
    <2> QED BY <1>1, <1>2, <2>1, <2>2, <2>3, <2>4
  <1> QED BY <1>2, <1>4, <1>5, <1>6 DEF IsChain
=============================================================================
