---------------------------- MODULE Inbox_proofs ----------------------------
(***************************************************************************)
(* What Inbox promises, for any messages, stamps and times.  Its loops are *)
(* recursive functions; what they compute is shown by looking at the first *)
(* turn that would go wrong (Least), and that they compute anything at all *)
(* by extending a run by one turn (Iterates).                              *)
(***************************************************************************)
EXTENDS Inbox, FiniteSetTheorems, SequenceTheorems, TLAPS

-----------------------------------------------------------------------------
(* Loops.                                                                  *)

\* A set of naturals that is not empty has a least element: of the intervals
\* from zero to its elements one has no other one strictly within it, since
\* strict inclusion of finite sets is well-founded.
LEMMA Least ==
  ASSUME NEW S \in SUBSET Nat, S # {}
  PROVE  \E m \in S : \A x \in S : m <= x
<1> DEFINE W == {0 .. x : x \in S}
<1>1. IsWellFoundedOn(StrictSubsetOrdering(Nat), FiniteSubsetsOf(Nat))
  BY FS_StrictSubsetOrderingWellFounded
<1>2. \A x \in S : 0 .. x \in FiniteSubsetsOf(Nat)
  <2> TAKE x \in S
  <2>1. IsFiniteSet(0 .. x)
    BY FS_Interval
  <2> QED BY <2>1 DEF FiniteSubsetsOf
<1>3. W \subseteq FiniteSubsetsOf(Nat) /\ W # {}
  BY <1>2
<1> HIDE DEF W
<1>4. PICK w \in W : \A y \in W : <<y, w>> \notin StrictSubsetOrdering(Nat)
  BY <1>1, <1>3, WFMin
<1>5. PICK m \in S : w = 0 .. m
  BY DEF W
<1>6. ASSUME NEW x \in S
      PROVE  m <= x
  <2> SUFFICES ASSUME x < m PROVE FALSE
    OBVIOUS
  <2>1. 0 .. x \subseteq 0 .. m /\ m \in 0 .. m /\ m \notin 0 .. x
    OBVIOUS
  <2>2. 0 .. x # 0 .. m
    BY <2>1
  <2>3. 0 .. x \in SUBSET Nat /\ 0 .. m \in SUBSET Nat
    OBVIOUS
  <2>4. <<0 .. x, 0 .. m>> \in StrictSubsetOrdering(Nat)
    BY <2>1, <2>2, <2>3 DEF StrictSubsetOrdering
  <2> QED BY <1>4, <1>5, <2>4 DEF W
<1> QED BY <1>6

\* A run of a loop over values in V: N turns from base.
HasRun(V, base, N, step) ==
  \E g \in [0 .. N -> V] :
    g[0] = base /\ \A n \in 1 .. N : g[n] = step[n][g[n - 1]]

\* There is one, whatever its length.
LEMMA Iterates ==
  ASSUME NEW V, NEW base \in V, NEW N \in Nat, NEW step \in [1 .. N -> [V -> V]]
  PROVE  HasRun(V, base, N, step)
<1> DEFINE Run(g, m) == /\ g \in [0 .. m -> V] /\ g[0] = base
                        /\ \A n \in 1 .. m : g[n] = step[n][g[n - 1]]
           Bad == {m \in 0 .. N : ~ \E g : Run(g, m)}
<1>1. Bad = {}
  <2> SUFFICES ASSUME Bad # {} PROVE FALSE
    OBVIOUS
  <2>1. Bad \in SUBSET Nat
    OBVIOUS
  <2>2. PICK m \in Bad : \A x \in Bad : m <= x
    <3> HIDE DEF Bad
    <3> QED BY <2>1, Least
  <2>3. CASE m = 0
    <3>1. Run([n \in 0 .. 0 |-> base], 0)
      OBVIOUS
    <3> QED BY <2>2, <2>3, <3>1
  <2>4. CASE m # 0
    <3>1. m - 1 \in 0 .. N /\ m - 1 \notin Bad /\ m \in 1 .. N
      <4> HIDE DEF Run
      <4>1. m \in 0 .. N /\ \A x \in Bad : m <= x
        BY <2>2
      <4> HIDE DEF Bad
      <4> QED BY <4>1, <2>4
    <3>2. PICK g : Run(g, m - 1)
      <4> HIDE DEF Run
      <4> QED BY <3>1
    <3> DEFINE h == [n \in 0 .. m |-> IF n < m THEN g[n] ELSE step[m][g[m - 1]]]
    <3>3. g[m - 1] \in V /\ step[m][g[m - 1]] \in V
      BY <3>1, <3>2
    <3>4. h \in [0 .. m -> V] /\ h[0] = base
      BY <3>1, <3>2, <3>3
    <3>5. \A n \in 1 .. m : h[n] = step[n][h[n - 1]]
      BY <3>1, <3>2
    <3>6. Run(h, m)
      BY <3>4, <3>5
    <3> HIDE DEF Run, h
    <3> QED BY <2>2, <3>6
  <2> QED BY <2>3, <2>4
<1>2. N \in 0 .. N
  OBVIOUS
<1>3. \E g : Run(g, N)
  <2> HIDE DEF Run
  <2> QED BY <1>1, <1>2
<1> QED BY <1>3 DEF HasRun

-----------------------------------------------------------------------------
(* What the loops of Inbox compute.                                        *)

Increasing(q) == \A j, k \in 1 .. Len(q) : j < k => q[j] < q[k]
At(q) == {q[k] : k \in 1 .. Len(q)}

Match(n) == inbox[n] # Gone /\ InFrame(inbox[n])

\* hasMoreMessages finds the positions of the messages that are in the time
\* frame, all of them, each once and in order.
LEMMA MatchingFinds ==
  ASSUME inbox \in Seq(Msgs \cup {Gone})
  PROVE  /\ Matching \in Seq(Nat)
         /\ Increasing(Matching)
         /\ At(Matching) = {i \in 1 .. Len(inbox) : Match(i)}
<1> DEFINE N == Len(inbox)
           V == Seq(Nat)
           Def(f) == f = [n \in 0 .. N |->
                            IF n = 0 THEN <<>>
                            ELSE IF inbox[n] # Gone /\ InFrame(inbox[n])
                            THEN Append(f[n - 1], n) ELSE f[n - 1]]
           u == CHOOSE f : Def(f)
           step == [n \in 1 .. N |-> [v \in V |-> IF Match(n) THEN Append(v, n) ELSE v]]
<1>1. N \in Nat
  OBVIOUS
<1>2. \E f : Def(f)
  <2>1. step \in [1 .. N -> [V -> V]] /\ <<>> \in V
    <3>1. \A n \in 1 .. N, v \in V : Append(v, n) \in V
      BY <1>1
    <3> HIDE DEF V, N
    <3> QED BY <3>1 DEF V
  <2>2. PICK g \in [0 .. N -> V] :
          g[0] = <<>> /\ \A n \in 1 .. N : g[n] = step[n][g[n - 1]]
    <3> HIDE DEF step, V, N
    <3>1. HasRun(V, <<>>, N, step)
      BY <1>1, <2>1, Iterates
    <3> QED BY <3>1 DEF HasRun
  <2>3. \A n \in 1 .. N : g[n - 1] \in V /\ step[n][g[n - 1]] =
          IF Match(n) THEN Append(g[n - 1], n) ELSE g[n - 1]
    <3> HIDE DEF V
    <3> QED BY <1>1, <2>2
  <2>4. Def(g)
    <3> HIDE DEF step, V, N
    <3>1. \A n \in 0 .. N : n # 0 => n \in 1 .. N
      BY <1>1
    <3>2. \A n \in 0 .. N :
            g[n] = IF n = 0 THEN <<>>
                   ELSE IF inbox[n] # Gone /\ InFrame(inbox[n])
                   THEN Append(g[n - 1], n) ELSE g[n - 1]
      BY <2>2, <2>3, <3>1 DEF Match
    <3>3. g = [n \in 0 .. N |-> g[n]]
      BY <2>2
    <3> QED BY <3>2, <3>3
  <2> QED BY <2>4
<1>3. Def(u)
  <2> HIDE DEF Def
  <2> QED BY <1>2
<1>4. Matching = u[N]
  BY DEF Matching
<1>5. u[0] = <<>> /\ \A n \in 1 .. N :
        u[n] = IF Match(n) THEN Append(u[n - 1], n) ELSE u[n - 1]
  <2> HIDE DEF u, N
  <2>1. 0 \in 0 .. N /\ \A n \in 1 .. N : n \in 0 .. N /\ n # 0
    BY <1>1
  <2>2. \A n \in 0 .. N :
          u[n] = IF n = 0 THEN <<>>
                 ELSE IF inbox[n] # Gone /\ InFrame(inbox[n])
                 THEN Append(u[n - 1], n) ELSE u[n - 1]
    BY <1>3
  <2> QED BY <2>1, <2>2 DEF Match
<1> HIDE DEF u, Def, N
<1> DEFINE Good(n) == /\ u[n] \in Seq(Nat)
                      /\ Increasing(u[n])
                      /\ At(u[n]) = {i \in 1 .. n : Match(i)}
           Bad == {n \in 0 .. N : ~Good(n)}
<1>6. Good(0)
  BY <1>5 DEF Increasing, At
<1>7. ASSUME NEW n \in 1 .. N, Good(n - 1)
      PROVE  Good(n)
  <2> DEFINE q == u[n - 1]
  <2>1. q \in Seq(Nat) /\ Increasing(q) /\ At(q) = {i \in 1 .. n - 1 : Match(i)}
    BY <1>7
  <2>2. n \in Nat /\ 1 .. n = (1 .. n - 1) \cup {n} /\ n \notin 1 .. n - 1
    BY <1>1
  <2> HIDE DEF q
  <2>3. CASE ~Match(n)
    BY <1>5, <2>1, <2>2, <2>3 DEF q
  <2>4. CASE Match(n)
    <3>1. u[n] = Append(q, n)
      BY <1>5, <2>4 DEF q
    <3>2. /\ u[n] \in Seq(Nat) /\ Len(u[n]) = Len(q) + 1
          /\ \A k \in 1 .. Len(q) : u[n][k] = q[k]
          /\ u[n][Len(q) + 1] = n
      BY <2>1, <2>2, <3>1
    <3>3. At(u[n]) = At(q) \cup {n}
      <4>1. Len(q) \in Nat /\ 1 .. Len(u[n]) = (1 .. Len(q)) \cup {Len(q) + 1}
        BY <2>1, <3>2
      <4> QED BY <3>2, <4>1 DEF At
    <3>4. \A k \in 1 .. Len(q) : q[k] < n
      <4>1. \A k \in 1 .. Len(q) : q[k] \in At(q)
        BY DEF At
      <4> QED BY <2>1, <2>2, <4>1
    <3>5. Increasing(u[n])
      <4> SUFFICES ASSUME NEW j \in 1 .. Len(u[n]), NEW k \in 1 .. Len(u[n]), j < k
                   PROVE  u[n][j] < u[n][k]
        BY DEF Increasing
      <4>1. Len(q) \in Nat
        BY <2>1
      <4>2. j \in 1 .. Len(q) /\ (k \in 1 .. Len(q) \/ k = Len(q) + 1)
        BY <3>2, <4>1
      <4> QED BY <2>1, <3>2, <3>4, <4>2 DEF Increasing
    <3> QED BY <2>1, <2>2, <2>4, <3>2, <3>3, <3>5
  <2> QED BY <2>3, <2>4
<1> HIDE DEF Good
<1>8. Bad = {}
  <2> SUFFICES ASSUME Bad # {} PROVE FALSE
    OBVIOUS
  <2>1. Bad \in SUBSET Nat
    BY <1>1
  <2>2. PICK m \in Bad : \A x \in Bad : m <= x
    <3> HIDE DEF Bad
    <3> QED BY <2>1, Least
  <2>3. m \in 1 .. N /\ m - 1 \in 0 .. N
    BY <1>1, <1>6, <2>2
  <2>4. m - 1 \notin Bad
    <3> HIDE DEF Bad
    <3> QED BY <2>2, <2>3
  <2> QED BY <1>7, <2>2, <2>3, <2>4
<1>9. Good(N)
  BY <1>1, <1>8
<1> QED BY <1>4, <1>9 DEF Good, N

\* Erasing one element closes the gap.
LEMMA RemoveCloses ==
  ASSUME NEW E, NEW s \in Seq(E), NEW i \in 1 .. Len(s)
  PROVE  /\ RemoveAt(s, i) \in Seq(E)
         /\ Len(RemoveAt(s, i)) = Len(s) - 1
         /\ \A j \in 1 .. Len(s) - 1 :
              RemoveAt(s, i)[j] = IF j < i THEN s[j] ELSE s[j + 1]
<1> DEFINE a == SubSeq(s, 1, i - 1)
           b == SubSeq(s, i + 1, Len(s))
<1>1. Len(s) \in Nat /\ i \in Int /\ 1 <= i /\ i <= Len(s)
  OBVIOUS
<1>2. /\ a \in Seq(E) /\ Len(a) = i - 1
      /\ \A j \in 1 .. i - 1 : a[j] = s[j]
  <2>1. \A j \in 1 .. i - 1 : s[j] \in E
    BY <1>1
  <2>2. /\ a \in Seq(E) /\ Len(a) = IF 1 <= i - 1 THEN i - 1 - 1 + 1 ELSE 0
        /\ \A j \in 1 .. (i - 1) - 1 + 1 : a[j] = s[1 + j - 1]
    BY <1>1, <2>1, SubSeqProperties
  <2>3. (i - 1) - 1 + 1 = i - 1 /\ \A j \in 1 .. i - 1 : 1 + j - 1 = j
    BY <1>1
  <2> HIDE DEF a
  <2> QED BY <1>1, <2>2, <2>3
<1>3. /\ b \in Seq(E) /\ Len(b) = Len(s) - i
      /\ \A j \in 1 .. Len(s) - i : b[j] = s[i + j]
  <2>1. \A j \in i + 1 .. Len(s) : s[j] \in E
    BY <1>1
  <2>2. /\ b \in Seq(E)
        /\ Len(b) = IF i + 1 <= Len(s) THEN Len(s) - (i + 1) + 1 ELSE 0
        /\ \A j \in 1 .. Len(s) - (i + 1) + 1 : b[j] = s[i + 1 + j - 1]
    BY <1>1, <2>1, SubSeqProperties
  <2>3. /\ Len(s) - (i + 1) + 1 = Len(s) - i
        /\ \A j \in 1 .. Len(s) - i : i + 1 + j - 1 = i + j
    BY <1>1
  <2>4. Len(b) = Len(s) - i
    <3>1. CASE i + 1 <= Len(s)
      BY <1>1, <2>2, <3>1
    <3>2. CASE ~(i + 1 <= Len(s))
      BY <1>1, <2>2, <3>2
    <3> QED BY <3>1, <3>2
  <2> HIDE DEF b
  <2>5. \A j \in 1 .. Len(s) - i : b[j] = s[i + j]
    BY <2>2, <2>3
  <2> QED BY <2>2, <2>4, <2>5
<1> HIDE DEF a, b
<1>4. RemoveAt(s, i) = a \o b
  BY DEF RemoveAt, a, b
<1>5. /\ a \o b \in Seq(E) /\ Len(a \o b) = Len(s) - 1
      /\ \A j \in 1 .. Len(s) - 1 :
           (a \o b)[j] = IF j <= Len(a) THEN a[j] ELSE b[j - Len(a)]
  <2>1. /\ a \o b \in Seq(E) /\ Len(a \o b) = Len(a) + Len(b)
        /\ \A j \in 1 .. Len(a) + Len(b) :
             (a \o b)[j] = IF j <= Len(a) THEN a[j] ELSE b[j - Len(a)]
    BY <1>2, <1>3, ConcatProperties
  <2>2. Len(a) + Len(b) = Len(s) - 1
    BY <1>1, <1>2, <1>3
  <2> QED BY <2>1, <2>2
<1>6. \A j \in 1 .. Len(s) - 1 :
        (a \o b)[j] = IF j < i THEN s[j] ELSE s[j + 1]
  <2> SUFFICES ASSUME NEW j \in 1 .. Len(s) - 1
               PROVE  (a \o b)[j] = IF j < i THEN s[j] ELSE s[j + 1]
    OBVIOUS
  <2>1. CASE j < i
    <3>1. j <= Len(a) /\ j \in 1 .. i - 1
      BY <1>1, <1>2, <2>1
    <3> QED BY <1>2, <1>5, <2>1, <3>1
  <2>2. CASE ~(j < i)
    <3>1. ~(j <= Len(a)) /\ j - Len(a) \in 1 .. Len(s) - i /\ i + (j - Len(a)) = j + 1
      BY <1>1, <1>2, <2>2
    <3> QED BY <1>3, <1>5, <2>2, <3>1
  <2> QED BY <2>1, <2>2
<1> QED BY <1>4, <1>5, <1>6

\* Erasing one after the other has a run.
LEMMA EraseRuns ==
  ASSUME NEW E, NEW s \in Seq(E), NEW qs \in Seq(Nat \ {0})
  PROVE  \E u : /\ EraseEach(s, qs) = u[Len(qs)]
                /\ u[0] = s
                /\ \A n \in 1 .. Len(qs) :
                     u[n] = IF qs[n] <= Len(u[n - 1])
                            THEN RemoveAt(u[n - 1], qs[n]) ELSE Front(u[n - 1])
<1> DEFINE N == Len(qs)
           V == Seq(E)
           Turn(n, v) == IF qs[n] <= Len(v) THEN RemoveAt(v, qs[n]) ELSE Front(v)
           Def(f) == f = [n \in 0 .. N |->
                            IF n = 0 THEN s
                            ELSE IF qs[n] <= Len(f[n - 1]) THEN RemoveAt(f[n - 1], qs[n])
                            ELSE Front(f[n - 1])]
           u == CHOOSE f : Def(f)
           step == [n \in 1 .. N |-> [v \in V |-> Turn(n, v)]]
<1>1. N \in Nat
  OBVIOUS
<1>2. \A n \in 1 .. N, v \in V : Turn(n, v) \in V
  <2> SUFFICES ASSUME NEW n \in 1 .. N, NEW v \in V PROVE Turn(n, v) \in V
    OBVIOUS
  <2>1. qs[n] \in Nat \ {0} /\ Len(v) \in Nat
    BY <1>1
  <2>2. CASE qs[n] <= Len(v)
    <3>1. qs[n] \in 1 .. Len(v)
      BY <2>1, <2>2
    <3> QED BY <2>2, <3>1, RemoveCloses
  <2>3. CASE ~(qs[n] <= Len(v))
    <3>1. Len(v) - 1 \in Int /\ \A j \in 1 .. Len(v) - 1 : v[j] \in E
      BY <2>1
    <3>2. Front(v) \in V
      BY <3>1, SubSeqProperties DEF Front
    <3> QED BY <2>3, <3>2
  <2> QED BY <2>2, <2>3
<1> HIDE DEF Turn
<1>3. \E f : Def(f)
  <2>1. step \in [1 .. N -> [V -> V]] /\ s \in V
    <3> HIDE DEF N
    <3> QED BY <1>2
  <2>2. PICK g \in [0 .. N -> V] :
          g[0] = s /\ \A n \in 1 .. N : g[n] = step[n][g[n - 1]]
    <3> HIDE DEF step, V, N, Def, u
    <3>1. HasRun(V, s, N, step)
      BY <1>1, <2>1, Iterates
    <3> QED BY <3>1 DEF HasRun
  <2>3. \A n \in 1 .. N : g[n - 1] \in V /\ step[n][g[n - 1]] = Turn(n, g[n - 1])
    <3> HIDE DEF V
    <3> QED BY <1>1, <2>2
  <2> HIDE DEF step, V, N
  <2>4. \A n \in 0 .. N : n # 0 => n \in 1 .. N
    BY <1>1
  <2>5. \A n \in 0 .. N :
          g[n] = IF n = 0 THEN s
                 ELSE IF qs[n] <= Len(g[n - 1]) THEN RemoveAt(g[n - 1], qs[n])
                 ELSE Front(g[n - 1])
    BY <2>2, <2>3, <2>4 DEF Turn
  <2>6. g = [n \in 0 .. N |-> g[n]]
    BY <2>2
  <2> QED BY <2>5, <2>6
<1>4. Def(u)
  <2> HIDE DEF Def
  <2> QED BY <1>3
<1>5. EraseEach(s, qs) = u[N]
  BY DEF EraseEach
<1>6. u[0] = s /\ \A n \in 1 .. N :
        u[n] = IF qs[n] <= Len(u[n - 1])
               THEN RemoveAt(u[n - 1], qs[n]) ELSE Front(u[n - 1])
  <2> HIDE DEF u, N
  <2>1. 0 \in 0 .. N /\ \A n \in 1 .. N : n \in 0 .. N /\ n # 0
    BY <1>1
  <2>2. \A n \in 0 .. N :
          u[n] = IF n = 0 THEN s
                 ELSE IF qs[n] <= Len(u[n - 1]) THEN RemoveAt(u[n - 1], qs[n])
                 ELSE Front(u[n - 1])
    BY <1>4
  <2> QED BY <2>1, <2>2
<1> HIDE DEF u
<1> QED BY <1>5, <1>6

\* The k-th of increasing positions is k at least.
LEMMA NotBefore ==
  ASSUME NEW ps \in Seq(Nat \ {0}), Increasing(ps)
  PROVE  \A k \in 1 .. Len(ps) : ps[k] >= k
<1> DEFINE Bad == {k \in 1 .. Len(ps) : ps[k] < k}
<1> SUFFICES Bad = {}
  <2>1. \A k \in 1 .. Len(ps) : ps[k] \in Nat /\ k \in Nat
    OBVIOUS
  <2> QED BY <2>1
<1> SUFFICES ASSUME Bad # {} PROVE FALSE
  OBVIOUS
<1>1. Bad \in SUBSET Nat
  OBVIOUS
<1>2. PICK m \in Bad : \A x \in Bad : m <= x
  <2> HIDE DEF Bad
  <2> QED BY <1>1, Least
<1>3. m \in 1 .. Len(ps) /\ ps[m] < m /\ ps[m] \in Nat \ {0} /\ Len(ps) \in Nat
  BY <1>2
<1>4. m - 1 \in 1 .. Len(ps) /\ ps[m - 1] \in Nat /\ m - 1 < m
  <2>1. m - 1 \in 1 .. Len(ps)
    BY <1>3
  <2> QED BY <1>3, <2>1
<1>5. m - 1 \notin Bad
  <2> HIDE DEF Bad
  <2> QED BY <1>2, <1>3
<1>6. ps[m - 1] >= m - 1
  BY <1>3, <1>4, <1>5
<1>7. ps[m - 1] < ps[m]
  BY <1>3, <1>4 DEF Increasing
<1> QED BY <1>3, <1>4, <1>6, <1>7

\* r has just the elements of s that are not at positions ps, each once: m
\* says where it was.
Rest(s, ps, r) ==
  \E m \in [1 .. Len(r) -> 1 .. Len(s)] :
    /\ \A i, j \in 1 .. Len(r) : m[i] = m[j] => i = j
    /\ {m[j] : j \in 1 .. Len(r)} = (1 .. Len(s)) \ At(ps)
    /\ \A j \in 1 .. Len(r) : r[j] = s[m[j]]

\* That is what the end of an iteration leaves.
LEMMA ShiftedErases ==
  ASSUME NEW E, NEW s \in Seq(E), NEW ps \in Seq(Nat), Increasing(ps),
         At(ps) \subseteq 1 .. Len(s)
  PROVE  /\ EraseEach(s, Shifted(ps)) \in Seq(E)
         /\ Rest(s, ps, EraseEach(s, Shifted(ps)))
<1> DEFINE N == Len(ps)
           L == Len(s)
           qs == Shifted(ps)
           last(n) == IF n = 0 THEN 0 ELSE ps[n]
           First(n) == {ps[k] : k \in 1 .. n}
<1>1. N \in Nat /\ L \in Nat /\ ps \in Seq(Nat \ {0})
      /\ \A n \in 1 .. N : ps[n] \in 1 .. L
  <2>1. N \in Nat /\ L \in Nat /\ \A n \in 1 .. N : ps[n] \in 1 .. L
    BY DEF At
  <2>2. \A n \in 1 .. N : ps[n] \in Nat \ {0}
    BY <2>1
  <2>3. ps \in Seq(Nat \ {0})
    BY <2>2
  <2> QED BY <2>1, <2>3
<1>2. \A n \in 1 .. N : ps[n] >= n
  BY <1>1, NotBefore
<1>3. /\ qs \in Seq(Nat \ {0}) /\ Len(qs) = N
      /\ \A n \in 1 .. N : qs[n] = ps[n] - (n - 1)
  <2>1. \A n \in 1 .. N : ps[n] - (n - 1) \in Nat \ {0}
    BY <1>1, <1>2
  <2>2. DOMAIN ps = 1 .. N
    OBVIOUS
  <2>3. qs = [n \in 1 .. N |-> ps[n] - (n - 1)]
    BY <2>2 DEF Shifted
  <2> HIDE DEF qs, N
  <2> QED BY <1>1, <2>1, <2>3
<1> HIDE DEF qs
<1>4. PICK u : /\ EraseEach(s, qs) = u[Len(qs)]
               /\ u[0] = s
               /\ \A n \in 1 .. Len(qs) :
                    u[n] = IF qs[n] <= Len(u[n - 1])
                           THEN RemoveAt(u[n - 1], qs[n]) ELSE Front(u[n - 1])
  BY <1>3, EraseRuns
<1> DEFINE Maps(m, n) ==
             /\ m \in [1 .. L - n -> 1 .. L]
             /\ \A i, j \in 1 .. L - n : m[i] = m[j] => i = j
             /\ {m[j] : j \in 1 .. L - n} = (1 .. L) \ First(n)
             /\ \A j \in 1 .. L - n : u[n][j] = s[m[j]]
             /\ \A j \in 1 .. L - n : j > last(n) - n => m[j] = j + n
           Good(n) == u[n] \in Seq(E) /\ Len(u[n]) = L - n /\ \E m : Maps(m, n)
           Bad == {n \in 0 .. N : ~Good(n)}
<1>5. Good(0)
  <2>1. Maps([j \in 1 .. L |-> j], 0)
    <3>1. First(0) = {} /\ L - 0 = L /\ last(0) = 0
      BY <1>1
    <3> HIDE DEF First, L, last
    <3> QED BY <1>1, <1>4, <3>1
  <2> HIDE DEF Maps
  <2> QED BY <1>1, <1>4, <2>1
<1>6. ASSUME NEW n \in 1 .. N, Good(n - 1)
      PROVE  Good(n)
  <2> DEFINE v == u[n - 1]
             p == ps[n] - (n - 1)
             K == L - n
  <2>1. n \in Nat /\ n - 1 \in Nat /\ L - (n - 1) = K + 1 /\ K \in Int
    BY <1>1
  <2>2. PICK m : Maps(m, n - 1)
    BY <1>6
  <2>3. v \in Seq(E) /\ Len(v) = K + 1
    BY <1>6, <2>1
  <2>4. /\ p \in 1 .. K + 1 /\ p > last(n - 1) - (n - 1) /\ p + (n - 1) = ps[n]
        /\ last(n - 1) < ps[n] /\ last(n - 1) \in Nat
    <3>1. p \in 1 .. K + 1 /\ p + (n - 1) = ps[n]
      BY <1>1, <1>2, <2>1
    <3>2. last(n - 1) < ps[n] /\ last(n - 1) \in Nat
      <4>1. CASE n = 1
        BY <1>1, <4>1
      <4>2. CASE n # 1
        <5>1. n - 1 \in 1 .. N /\ n - 1 < n
          BY <1>1, <4>2
        <5>2. ps[n - 1] < ps[n] /\ ps[n - 1] \in Nat
          BY <1>1, <5>1 DEF Increasing
        <5> QED BY <4>2, <5>1, <5>2
      <4> QED BY <4>1, <4>2
    <3> QED BY <1>1, <2>1, <3>1, <3>2
  <2>5. u[n] = RemoveAt(v, p)
    BY <1>3, <1>4, <2>3, <2>4
  <2>6. /\ u[n] \in Seq(E) /\ Len(u[n]) = K
        /\ \A j \in 1 .. K : u[n][j] = IF j < p THEN v[j] ELSE v[j + 1]
    <3> HIDE DEF p, K, v
    <3>1. K + 1 - 1 = K /\ p \in 1 .. Len(v)
      BY <2>1, <2>3, <2>4
    <3>2. /\ RemoveAt(v, p) \in Seq(E) /\ Len(RemoveAt(v, p)) = Len(v) - 1
          /\ \A j \in 1 .. Len(v) - 1 :
               RemoveAt(v, p)[j] = IF j < p THEN v[j] ELSE v[j + 1]
      BY <2>3, <3>1, RemoveCloses
    <3>3. Len(v) - 1 = K
      BY <2>1, <2>3
    <3> QED BY <2>5, <3>2, <3>3
  <2> DEFINE k == [j \in 1 .. K |-> IF j < p THEN m[j] ELSE m[j + 1]]
  <2>7. /\ m \in [1 .. K + 1 -> 1 .. L]
        /\ \A i, j \in 1 .. K + 1 : m[i] = m[j] => i = j
        /\ {m[j] : j \in 1 .. K + 1} = (1 .. L) \ First(n - 1)
        /\ \A j \in 1 .. K + 1 : v[j] = s[m[j]]
        /\ \A j \in 1 .. K + 1 : j > last(n - 1) - (n - 1) => m[j] = j + (n - 1)
    BY <2>1, <2>2
  <2>8. m[p] = ps[n]
    BY <2>4, <2>7
  <2>9. First(n) = First(n - 1) \cup {ps[n]}
    <3>1. 1 .. n = (1 .. n - 1) \cup {n}
      BY <2>1
    <3> QED BY <3>1
  <2> HIDE DEF p, K, v, First, Maps, last
  <2>10. Maps(k, n)
    <3>1. \A j \in 1 .. K : /\ j \in 1 .. K + 1 /\ j + 1 \in 1 .. K + 1
                           /\ (j < p => j # p) /\ (~(j < p) => j + 1 # p)
      BY <2>1, <2>4
    <3>2. k \in [1 .. K -> 1 .. L]
      BY <2>7, <3>1
    <3>3. \A i, j \in 1 .. K : k[i] = k[j] => i = j
      <4> SUFFICES ASSUME NEW i \in 1 .. K, NEW j \in 1 .. K, k[i] = k[j]
                   PROVE  i = j
        OBVIOUS
      <4>1. (IF i < p THEN i ELSE i + 1) = (IF j < p THEN j ELSE j + 1)
        BY <2>7, <3>1
      <4> QED BY <2>1, <2>4, <4>1
    <3>4. {k[j] : j \in 1 .. K} = {m[j] : j \in 1 .. K + 1} \ {m[p]}
      <4>1. \A j \in 1 .. K : k[j] \in {m[i] : i \in 1 .. K + 1} \ {m[p]}
        BY <2>4, <2>7, <3>1
      <4>2. ASSUME NEW i \in 1 .. K + 1, i # p
            PROVE  m[i] \in {k[j] : j \in 1 .. K}
        <5>1. CASE i < p
          <6>1. i \in 1 .. K /\ k[i] = m[i]
            BY <2>1, <2>4, <5>1
          <6> HIDE DEF k
          <6> QED BY <6>1
        <5>2. CASE ~(i < p)
          <6>1. i - 1 \in 1 .. K /\ ~(i - 1 < p) /\ (i - 1) + 1 = i
            BY <2>1, <2>4, <4>2, <5>2
          <6>2. k[i - 1] = m[i]
            BY <6>1
          <6> HIDE DEF k
          <6> QED BY <6>1, <6>2
        <5> QED BY <5>1, <5>2
      <4> HIDE DEF k
      <4>3. \A i \in 1 .. K + 1 : m[i] # m[p] => m[i] \in {k[j] : j \in 1 .. K}
        BY <4>2
      <4> QED BY <4>1, <4>3
    <3>5. {k[j] : j \in 1 .. K} = (1 .. L) \ First(n)
      <4> HIDE DEF k
      <4> QED BY <2>7, <2>8, <2>9, <3>4
    <3>6. \A j \in 1 .. K : u[n][j] = s[k[j]]
      BY <2>6, <2>7, <3>1
    <3>7. \A j \in 1 .. K : j > last(n) - n => k[j] = j + n
      <4> SUFFICES ASSUME NEW j \in 1 .. K, j > last(n) - n
                   PROVE  k[j] = j + n
        OBVIOUS
      <4>1. last(n) = ps[n] /\ ps[n] \in Nat /\ j \in Nat
        BY <1>1, <2>1 DEF last
      <4>2. ~(j < p) /\ j + 1 > last(n - 1) - (n - 1) /\ (j + 1) + (n - 1) = j + n
        BY <2>1, <2>4, <4>1
      <4> QED BY <2>7, <3>1, <4>2
    <3> HIDE DEF k
    <3> QED BY <3>2, <3>3, <3>5, <3>6, <3>7 DEF Maps, K
  <2> QED BY <2>6, <2>10 DEF K
<1> HIDE DEF Good
<1>7. Bad = {}
  <2> SUFFICES ASSUME Bad # {} PROVE FALSE
    OBVIOUS
  <2>1. Bad \in SUBSET Nat
    BY <1>1
  <2>2. PICK i \in Bad : \A x \in Bad : i <= x
    <3> HIDE DEF Bad
    <3> QED BY <2>1, Least
  <2>3. i \in 1 .. N /\ i - 1 \in 0 .. N
    BY <1>1, <1>5, <2>2
  <2>4. i - 1 \notin Bad
    <3> HIDE DEF Bad
    <3> QED BY <2>2, <2>3
  <2> QED BY <1>6, <2>2, <2>3, <2>4
<1>8. Good(N)
  BY <1>1, <1>7
<1>9. PICK m : Maps(m, N)
  BY <1>8 DEF Good
<1>10. EraseEach(s, qs) = u[N] /\ u[N] \in Seq(E) /\ Len(u[N]) = L - N
  BY <1>3, <1>4, <1>8 DEF Good
<1>11. First(N) = At(ps)
  BY DEF At
<1> DEFINE r == EraseEach(s, qs)
<1>12. r \in Seq(E) /\ Len(r) = L - N
  BY <1>10
<1>13. /\ m \in [1 .. Len(r) -> 1 .. L]
       /\ \A i, j \in 1 .. Len(r) : m[i] = m[j] => i = j
       /\ {m[j] : j \in 1 .. Len(r)} = (1 .. L) \ At(ps)
       /\ \A j \in 1 .. Len(r) : r[j] = s[m[j]]
  <2> HIDE DEF r, First, L, N
  <2> QED BY <1>9, <1>10, <1>11, <1>12 DEF r
<1>14. Rest(s, ps, r)
  <2> HIDE DEF r, Maps
  <2> QED BY <1>13 DEF Rest
<1> QED BY <1>12, <1>14 DEF qs

-----------------------------------------------------------------------------
(* The invariant: where the null pointers are, and who has what.           *)

\* The positions whose message the client has taken in this iteration.
TakenAt ==
  {found[k] : k \in {k \in 1 .. Len(found) : k < it \/ (k = it /\ mode # "take")}}

TypeInv ==
  /\ time \in Nat
  /\ inbox \in Seq(Msgs \cup {Gone})
  /\ found \in Seq(Nat)
  /\ it \in Nat \ {0}
  /\ mode \in {"free", "take", "crashed"}
  /\ arrived \subseteq Msgs
  /\ given \in Seq(Msgs)

IterInv ==
  /\ Increasing(found) /\ At(found) \subseteq 1 .. Len(inbox)
  /\ found # <<>> => it <= Len(found)
  /\ mode = "take" => found # <<>>

Once(q) == \A i, j \in 1 .. Len(q) : q[i] = q[j] /\ q[i] # Gone => i = j

HeldInv ==
  /\ \A i \in 1 .. Len(inbox) : inbox[i] = Gone <=> i \in TakenAt
  /\ Once(inbox) /\ Once(given)
  /\ At(inbox) \ {Gone} = arrived \ At(given)
  /\ At(given) \subseteq arrived

IInv == TypeInv /\ IterInv /\ HeldInv

LEMMA InitInv == Init => IInv
  BY DEF Init, IInv, TypeInv, IterInv, HeldInv, Increasing, At, Once, TakenAt

\* A message arrives behind all others, amid an iteration or not.
LEMMA ArrivesInv ==
  ASSUME IInv, NEW m \in Msgs, NewMessage(m)
  PROVE  IInv'
<1> DEFINE L == Len(inbox)
<1>1. L \in Nat /\ inbox \in Seq(Msgs \cup {Gone}) /\ m # Gone /\ m \notin arrived
  BY InboxAssumption DEF IInv, TypeInv, NewMessage
<1>2. /\ inbox' \in Seq(Msgs \cup {Gone}) /\ Len(inbox') = L + 1
      /\ \A i \in 1 .. L : inbox'[i] = inbox[i]
      /\ inbox'[L + 1] = m
  BY <1>1 DEF NewMessage
<1>3. 1 .. L + 1 = (1 .. L) \cup {L + 1} /\ L + 1 \notin 1 .. L
  BY <1>1
<1> HIDE DEF L
<1>4. At(inbox') = At(inbox) \cup {m}
  BY <1>2, <1>3 DEF At, L
<1>5. m \notin At(inbox)
  BY <1>1 DEF IInv, HeldInv
<1>6. TypeInv'
  BY <1>2 DEF IInv, TypeInv, NewMessage
<1>7. IterInv'
  BY <1>2, <1>3 DEF IInv, IterInv, NewMessage, Increasing, At, L
<1>8. TakenAt' = TakenAt /\ TakenAt \subseteq 1 .. L
  BY DEF IInv, IterInv, TakenAt, NewMessage, At, L
<1>9. \A i \in 1 .. Len(inbox') : inbox'[i] = Gone <=> i \in TakenAt'
  BY <1>1, <1>2, <1>3, <1>8 DEF IInv, HeldInv, L
<1>10. Once(inbox')
  <2>1. \A i \in 1 .. L : inbox[i] # m
    BY <1>5 DEF At, L
  <2>2. Once(inbox)
    BY DEF IInv, HeldInv
  <2> QED BY <1>2, <1>3, <2>1, <2>2 DEF Once, L
<1>11. given' = given /\ arrived' = arrived \cup {m}
  BY DEF NewMessage
<1>12. m \notin At(given)
  BY <1>1 DEF IInv, HeldInv
<1>13. HeldInv'
  <2>1. Once(given') /\ At(given') = At(given) /\ At(given') \subseteq arrived'
    BY <1>11 DEF IInv, HeldInv
  <2>2. At(inbox') \ {Gone} = arrived' \ At(given')
    BY <1>1, <1>4, <1>5, <1>11, <1>12, <2>1 DEF IInv, HeldInv
  <2> QED BY <1>9, <1>10, <2>1, <2>2 DEF HeldInv
<1> QED BY <1>6, <1>7, <1>13 DEF IInv

\* An iteration begins.
LEMMA FirstInv ==
  ASSUME IInv, HasMoreFirst
  PROVE  IInv'
<1>1. inbox \in Seq(Msgs \cup {Gone}) /\ mode = "free" /\ found = <<>>
  BY DEF IInv, TypeInv, HasMoreFirst
<1>2. /\ found' \in Seq(Nat) /\ Increasing(found')
      /\ At(found') = {i \in 1 .. Len(inbox) : Match(i)}
  BY <1>1, MatchingFinds DEF HasMoreFirst
<1>3. /\ inbox' = inbox /\ given' = given /\ arrived' = arrived /\ time' = time
      /\ it' = 1 /\ mode' = IF found' = <<>> THEN "free" ELSE "take"
  BY DEF HasMoreFirst
<1>4. Len(found') \in Nat /\ (found' # <<>> => 1 <= Len(found'))
      /\ (found' = <<>> => Len(found') = 0)
  BY <1>2
<1>5. TakenAt = {} /\ TakenAt' = {}
  BY <1>1, <1>3, <1>4 DEF TakenAt
<1>6. TypeInv'
  BY <1>2, <1>3 DEF IInv, TypeInv
<1>7. IterInv'
  BY <1>2, <1>3, <1>4 DEF IterInv
<1>8. HeldInv'
  BY <1>3, <1>5 DEF IInv, HeldInv
<1> QED BY <1>6, <1>7, <1>8 DEF IInv

\* An iteration goes on.
LEMMA GoesOnInv ==
  ASSUME IInv, HasMoreNext, it < Len(found)
  PROVE  IInv'
<1>1. /\ it' = it + 1 /\ mode = "free" /\ mode' = "take" /\ found # <<>>
      /\ inbox' = inbox /\ found' = found /\ given' = given /\ arrived' = arrived
      /\ time' = time
  BY DEF HasMoreNext, Following
<1>2. it \in Nat \ {0} /\ Len(found) \in Nat
  BY DEF IInv, TypeInv
<1>3. TakenAt' = TakenAt
  <2>1. \A k \in 1 .. Len(found) : k < it + 1 <=> k < it \/ k = it
    BY <1>2
  <2> QED BY <1>1, <2>1 DEF TakenAt
<1>4. TypeInv'
  BY <1>1, <1>2 DEF IInv, TypeInv
<1>5. IterInv'
  BY <1>1, <1>2 DEF IInv, IterInv
<1>6. HeldInv'
  BY <1>1, <1>3 DEF IInv, HeldInv
<1> QED BY <1>4, <1>5, <1>6 DEF IInv

\* An iteration ends: what was taken is erased, and nothing else.
LEMMA EndsInv ==
  ASSUME IInv, HasMoreNext, ~(it < Len(found))
  PROVE  IInv'
<1> DEFINE L == Len(inbox)
           r == EraseEach(inbox, Shifted(found))
<1>1. /\ inbox' = r /\ found' = <<>> /\ it' = 1 /\ mode' = mode /\ mode = "free"
      /\ given' = given /\ arrived' = arrived /\ time' = time /\ found # <<>>
  BY DEF HasMoreNext
<1>2. /\ inbox \in Seq(Msgs \cup {Gone}) /\ found \in Seq(Nat) /\ Increasing(found)
      /\ At(found) \subseteq 1 .. L /\ it \in Nat \ {0} /\ Len(found) \in Nat
      /\ it = Len(found)
  BY <1>1 DEF IInv, TypeInv, IterInv
<1>3. r \in Seq(Msgs \cup {Gone}) /\ Rest(inbox, found, r)
  BY <1>2, ShiftedErases
<1> HIDE DEF r
<1>4. PICK m \in [1 .. Len(r) -> 1 .. L] :
        /\ \A i, j \in 1 .. Len(r) : m[i] = m[j] => i = j
        /\ {m[j] : j \in 1 .. Len(r)} = (1 .. L) \ At(found)
        /\ \A j \in 1 .. Len(r) : r[j] = inbox[m[j]]
  BY <1>3 DEF Rest
<1> HIDE DEF L
<1>5. TakenAt = At(found) /\ TakenAt' = {}
  <2>1. TakenAt = At(found)
    <3>1. \A k \in 1 .. Len(found) : k < it \/ (k = it /\ mode # "take")
      BY <1>1, <1>2
    <3> QED BY <3>1 DEF TakenAt, At
  <2>2. TakenAt' = {}
    BY <1>1 DEF TakenAt
  <2> QED BY <2>1, <2>2
<1>6. \A i \in 1 .. L : inbox[i] = Gone <=> i \in At(found)
  BY <1>5 DEF IInv, HeldInv, L
<1>7. \A j \in 1 .. Len(r) : r[j] # Gone
  BY <1>4, <1>6
<1>8. Once(r)
  BY <1>4 DEF IInv, HeldInv, Once, L
<1>9. At(r) = At(inbox) \ {Gone}
  <2>1. \A j \in 1 .. Len(r) : r[j] \in At(inbox) \ {Gone}
    BY <1>4, <1>7 DEF At, L
  <2>2. ASSUME NEW i \in 1 .. L, inbox[i] # Gone
        PROVE  inbox[i] \in At(r)
    <3>1. i \in {m[j] : j \in 1 .. Len(r)}
      BY <1>4, <1>6, <2>2
    <3>2. PICK j \in 1 .. Len(r) : m[j] = i
      BY <3>1
    <3> QED BY <1>4, <3>2 DEF At
  <2> QED BY <2>1, <2>2 DEF At, L
<1>10. TypeInv'
  BY <1>1, <1>3 DEF IInv, TypeInv
<1>11. IterInv'
  BY <1>1 DEF IterInv, Increasing, At
<1>12. HeldInv'
  BY <1>1, <1>5, <1>7, <1>8, <1>9 DEF IInv, HeldInv
<1> QED BY <1>10, <1>11, <1>12 DEF IInv

\* What the client is given is behind what it was given before.
LEMMA GivenGrows ==
  ASSUME TypeInv, NEW m, m \in Msgs, Once(given), m \notin At(given),
         given' = Append(given, m)
  PROVE  /\ given' \in Seq(Msgs) /\ At(given') = At(given) \cup {m} /\ Once(given')
<1> DEFINE G == Len(given)
<1>1. G \in Nat /\ 1 .. G + 1 = (1 .. G) \cup {G + 1} /\ G + 1 \notin 1 .. G
  BY DEF TypeInv
<1>2. /\ given' \in Seq(Msgs) /\ Len(given') = G + 1 /\ given'[G + 1] = m
      /\ \A i \in 1 .. G : given'[i] = given[i]
  BY DEF TypeInv
<1> HIDE DEF G
<1>3. At(given') = At(given) \cup {m}
  BY <1>1, <1>2 DEF At, G
<1>4. \A i \in 1 .. G : given[i] # m
  BY DEF At, G
<1>5. Once(given')
  BY <1>1, <1>2, <1>4 DEF Once, G
<1> QED BY <1>2, <1>3, <1>5

\* The client takes the message of the position the iteration is at.
LEMMA TakesInv ==
  ASSUME IInv, GetNextInboxMessage
  PROVE  IInv'
<1> DEFINE L == Len(inbox)
           p == found[it]
           m == inbox[p]
<1>1. /\ mode = "take" /\ mode' = "free" /\ given' = Append(given, m)
      /\ inbox' = [inbox EXCEPT ![p] = Gone]
      /\ found' = found /\ it' = it /\ arrived' = arrived /\ time' = time
  BY DEF GetNextInboxMessage, Cleared
<1>2. /\ TypeInv /\ inbox \in Seq(Msgs \cup {Gone}) /\ found \in Seq(Nat)
      /\ Increasing(found) /\ At(found) \subseteq 1 .. L
      /\ it \in Nat \ {0} /\ it <= Len(found) /\ Len(found) \in Nat /\ L \in Nat
  BY <1>1 DEF IInv, TypeInv, IterInv
<1>3. it \in 1 .. Len(found) /\ p \in At(found) /\ p \in 1 .. L
  BY <1>2 DEF At
<1>4. p \notin TakenAt /\ TakenAt' = TakenAt \cup {p}
  <2>1. \A k \in 1 .. Len(found) : k < it => found[k] # p
    <3> SUFFICES ASSUME NEW k \in 1 .. Len(found), k < it PROVE found[k] # p
      OBVIOUS
    <3>1. found[k] < p /\ found[k] \in Nat /\ p \in Nat
      BY <1>2, <1>3 DEF Increasing
    <3> QED BY <3>1
  <2> HIDE DEF p
  <2>2. p \notin TakenAt
    BY <1>1, <2>1 DEF TakenAt
  <2>3. TakenAt = {found[k] : k \in {k \in 1 .. Len(found) : k < it}}
    BY <1>1 DEF TakenAt
  <2>4. TakenAt' = {found[k] : k \in {k \in 1 .. Len(found) : k < it \/ k = it}}
    BY <1>1 DEF TakenAt
  <2>5. TakenAt' = TakenAt \cup {p}
    BY <1>3, <2>3, <2>4 DEF p
  <2> QED BY <2>2, <2>5
<1> HIDE DEF p, m
<1>5. m # Gone /\ m \in Msgs /\ m \in At(inbox) /\ m \notin At(given) /\ m \in arrived
  <2>1. m # Gone
    BY <1>3, <1>4 DEF IInv, HeldInv, m
  <2>2. m \in At(inbox) /\ m \in Msgs
    BY <1>2, <1>3, <2>1 DEF At, m
  <2> QED BY <2>1, <2>2 DEF IInv, HeldInv
<1>6. /\ given' \in Seq(Msgs) /\ At(given') = At(given) \cup {m} /\ Once(given')
  BY <1>1, <1>2, <1>5, GivenGrows DEF IInv, HeldInv
<1>7. /\ inbox' \in Seq(Msgs \cup {Gone}) /\ Len(inbox') = L
      /\ \A i \in 1 .. L : inbox'[i] = IF i = p THEN Gone ELSE inbox[i]
  BY <1>1, <1>2, <1>3
<1> HIDE DEF L
<1>8. \A i \in 1 .. L : inbox'[i] = Gone <=> i \in TakenAt'
  BY <1>4, <1>7 DEF IInv, HeldInv, L
<1>9. Once(inbox')
  BY <1>7 DEF IInv, HeldInv, Once, L
<1>10. At(inbox') \ {Gone} = (At(inbox) \ {Gone}) \ {m}
  <2>1. \A i \in 1 .. L : i # p => inbox[i] # m
    BY <1>3, <1>5 DEF IInv, HeldInv, Once, m, L
  <2>2. \A i \in 1 .. L : inbox'[i] # Gone => inbox'[i] \in (At(inbox) \ {Gone}) \ {m}
    BY <1>7, <2>1 DEF At, L
  <2>3. \A i \in 1 .. L : inbox[i] # m => inbox[i] \in At(inbox')
    <3> SUFFICES ASSUME NEW i \in 1 .. L, inbox[i] # m PROVE inbox[i] \in At(inbox')
      OBVIOUS
    <3>1. i # p
      BY DEF m
    <3> QED BY <1>7, <3>1 DEF At
  <2> QED BY <1>7, <2>2, <2>3 DEF At, L
<1>11. TypeInv'
  BY <1>1, <1>6, <1>7 DEF IInv, TypeInv
<1>12. IterInv'
  BY <1>1, <1>7 DEF IInv, IterInv, L
<1>13. HeldInv'
  <2>1. At(inbox') \ {Gone} = arrived' \ At(given')
    BY <1>1, <1>6, <1>10 DEF IInv, HeldInv
  <2>2. At(given') \subseteq arrived'
    BY <1>1, <1>5, <1>6 DEF IInv, HeldInv
  <2> QED BY <1>6, <1>7, <1>8, <1>9, <2>1, <2>2 DEF HeldInv
<1> QED BY <1>11, <1>12, <1>13 DEF IInv

\* One message is taken by getAllInboxMessages: nothing is erased before it.
LEMMA TakesAllInv ==
  ASSUME IInv, GetAllInboxMessages, Batch <= 1
  PROVE  IInv'
<1>1. CASE /\ mode' = "crashed"
           /\ UNCHANGED <<inbox, given>>
  <2>1. /\ inbox' = inbox /\ given' = given /\ time' = time /\ found' = found
        /\ it' = it /\ arrived' = arrived /\ mode = "free" /\ mode' = "crashed"
    BY <1>1 DEF GetAllInboxMessages
  <2>2. TakenAt' = TakenAt
    BY <2>1 DEF TakenAt
  <2> QED BY <2>1, <2>2 DEF IInv, TypeInv, IterInv, HeldInv
<1>2. CASE /\ ~Contains(inbox, Gone)
           /\ given' = given \o [k \in DOMAIN Matching |-> inbox[Matching[k]]]
           /\ inbox' = EraseEach(inbox, Matching)
           /\ UNCHANGED mode
  <2> DEFINE L == Len(inbox)
             q == Matching
             p == q[1]
             m == inbox[p]
  <2>1. /\ mode = "free" /\ mode' = mode /\ Len(q) \in 1 .. Batch /\ time' = time
        /\ found' = found /\ it' = it /\ arrived' = arrived
    BY <1>2 DEF GetAllInboxMessages
  <2>2. TypeInv /\ inbox \in Seq(Msgs \cup {Gone}) /\ L \in Nat /\ found \in Seq(Nat)
        /\ it \in Nat \ {0}
    BY DEF IInv, TypeInv
  <2>3. q \in Seq(Nat) /\ At(q) = {i \in 1 .. L : Match(i)}
    BY <2>2, MatchingFinds
  <2> HIDE DEF q
  <2>4. Len(q) = 1
    <3>1. 1 .. Batch \subseteq {1}
      BY InboxAssumption
    <3>2. Len(q) \in 1 .. Batch
      BY <2>1
    <3> QED BY <3>1, <3>2
  <2>5. p \in 1 .. L /\ q \in Seq(Nat \ {0})
    <3>1. p \in At(q) /\ p \in Nat
      BY <2>3, <2>4 DEF At
    <3>2. p \in 1 .. L
      BY <2>3, <3>1
    <3>3. \A i \in 1 .. Len(q) : q[i] \in Nat \ {0}
      BY <2>2, <2>4, <3>2
    <3>4. q \in Seq(Nat \ {0})
      BY <2>3, <3>3
    <3> QED BY <3>2, <3>4
  <2>6. m \in Msgs /\ m # Gone
    BY <1>2, <2>2, <2>5 DEF Contains
  <2>7. found = <<>>
    <3> SUFFICES ASSUME found # <<>> PROVE FALSE
      OBVIOUS
    <3>1. it \in 1 .. Len(found)
      BY <2>2 DEF IInv, IterInv
    <3>2. found[it] \in TakenAt /\ found[it] \in 1 .. L
      BY <2>1, <3>1 DEF IInv, IterInv, TakenAt, At
    <3> QED BY <1>2, <3>2 DEF IInv, HeldInv, Contains
  <2>8. given' = Append(given, m)
    <3>1. [k \in DOMAIN q |-> inbox[q[k]]] = <<m>>
      BY <2>3, <2>4
    <3> HIDE DEF m
    <3>2. given \in Seq(Msgs)
      BY <2>2 DEF TypeInv
    <3> QED BY <1>2, <2>6, <3>1, <3>2 DEF q
  <2>9. inbox' = RemoveAt(inbox, p)
    <3>1. PICK u : /\ EraseEach(inbox, q) = u[Len(q)]
                   /\ u[0] = inbox
                   /\ \A n \in 1 .. Len(q) :
                        u[n] = IF q[n] <= Len(u[n - 1])
                               THEN RemoveAt(u[n - 1], q[n]) ELSE Front(u[n - 1])
      BY <2>2, <2>5, EraseRuns
    <3>2. u[1] = RemoveAt(inbox, p)
      BY <2>4, <2>5, <3>1
    <3> QED BY <1>2, <2>4, <3>1, <3>2 DEF q
  <2> HIDE DEF p, m
  <2>10. /\ inbox' \in Seq(Msgs \cup {Gone}) /\ Len(inbox') = L - 1
         /\ \A j \in 1 .. L - 1 : inbox'[j] = IF j < p THEN inbox[j] ELSE inbox[j + 1]
    BY <2>2, <2>5, <2>9, RemoveCloses
  <2>11. /\ \A i \in 1 .. L : inbox[i] # Gone
         /\ \A i, j \in 1 .. L : inbox[i] = inbox[j] => i = j
    BY <1>2 DEF IInv, HeldInv, Once, Contains
  <2>12. /\ \A j \in 1 .. L - 1 : inbox'[j] # Gone
         /\ Once(inbox')
    <3>1. \A j \in 1 .. L - 1 : /\ j \in 1 .. L /\ j + 1 \in 1 .. L
                               /\ inbox'[j] = inbox[IF j < p THEN j ELSE j + 1]
      BY <2>2, <2>10
    <3>2. \A i, j \in 1 .. L - 1 : inbox'[i] = inbox'[j] => i = j
      <4> SUFFICES ASSUME NEW i \in 1 .. L - 1, NEW j \in 1 .. L - 1, inbox'[i] = inbox'[j]
                   PROVE  i = j
        OBVIOUS
      <4>1. (IF i < p THEN i ELSE i + 1) = (IF j < p THEN j ELSE j + 1)
        BY <2>11, <3>1
      <4> QED BY <2>2, <2>5, <4>1
    <3> QED BY <2>10, <2>11, <3>1, <3>2 DEF Once
  <2>13. At(inbox') = At(inbox) \ {m}
    <3>1. \A j \in 1 .. L - 1 : inbox'[j] \in At(inbox) \ {m}
      BY <2>2, <2>5, <2>10, <2>11 DEF At, m
    <3>2. ASSUME NEW i \in 1 .. L, i # p
          PROVE  inbox[i] \in At(inbox')
      <4>1. CASE i < p
        <5>1. i \in 1 .. L - 1 /\ inbox'[i] = inbox[i]
          BY <2>2, <2>5, <2>10, <4>1
        <5> QED BY <2>10, <5>1 DEF At
      <4>2. CASE ~(i < p)
        <5>1. i - 1 \in 1 .. L - 1 /\ ~(i - 1 < p) /\ (i - 1) + 1 = i
          BY <2>2, <2>5, <3>2, <4>2
        <5>2. inbox'[i - 1] = inbox[i]
          BY <2>10, <5>1
        <5> QED BY <2>10, <5>1, <5>2 DEF At
      <4> QED BY <4>1, <4>2
    <3>3. \A i \in 1 .. L : inbox[i] # m => i # p
      BY DEF m
    <3> HIDE DEF L
    <3> QED BY <2>10, <3>1, <3>2, <3>3 DEF At, L
  <2>14. m \in At(inbox) /\ m \notin At(given) /\ m \in arrived
    <3>1. m \in At(inbox)
      BY <2>5 DEF At, m
    <3> QED BY <2>6, <3>1 DEF IInv, HeldInv
  <2>15. given' \in Seq(Msgs) /\ At(given') = At(given) \cup {m} /\ Once(given')
    BY <2>2, <2>6, <2>8, <2>14, GivenGrows DEF IInv, HeldInv
  <2>16. TypeInv'
    BY <2>1, <2>10, <2>15 DEF IInv, TypeInv
  <2>17. IterInv'
    BY <2>1, <2>7 DEF IInv, IterInv, Increasing, At
  <2>18. TakenAt' = {}
    BY <2>1, <2>7 DEF TakenAt
  <2>19. HeldInv'
    <3>1. At(inbox') \ {Gone} = arrived' \ At(given')
      BY <2>1, <2>13, <2>15 DEF IInv, HeldInv
    <3>2. At(given') \subseteq arrived'
      BY <2>1, <2>14, <2>15 DEF IInv, HeldInv
    <3> QED BY <2>10, <2>12, <2>15, <2>18, <3>1, <3>2 DEF HeldInv
  <2> QED BY <2>16, <2>17, <2>19 DEF IInv
<1> QED BY <1>1, <1>2 DEF GetAllInboxMessages

LEMMA NextInv ==
  ASSUME IInv, [Next]_vars, Batch <= 1
  PROVE  IInv'
<1>1. CASE Advance \/ UNCHANGED vars
  <2>1. /\ inbox' = inbox /\ given' = given /\ found' = found /\ mode' = mode
        /\ it' = it /\ arrived' = arrived
    BY <1>1 DEF Advance, vars
  <2>2. time' \in Nat
    BY <1>1, InboxAssumption DEF Advance, vars, IInv, TypeInv
  <2>3. TakenAt' = TakenAt
    BY <2>1 DEF TakenAt
  <2> QED BY <2>1, <2>2, <2>3 DEF IInv, TypeInv, IterInv, HeldInv
<1>2. CASE \E m \in Msgs : NewMessage(m)
  BY <1>2, ArrivesInv
<1>3. CASE HasMoreFirst
  BY <1>3, FirstInv
<1>4. CASE HasMoreNext
  BY <1>4, GoesOnInv, EndsInv
<1>5. CASE GetNextInboxMessage
  BY <1>5, TakesInv
<1>6. CASE GetAllInboxMessages
  BY <1>6, TakesAllInv
<1> QED BY <1>1, <1>2, <1>3, <1>4, <1>5, <1>6 DEF Next

-----------------------------------------------------------------------------
(* The theorems.                                                           *)

\* What a run of the simulator never gets wrong: where the null pointers are
\* and who has which message (the calls of ObjectCommInterface in any order).
THEOREM InboxKeeps == Batch <= 1 => (Spec => []IInv)
<1> SUFFICES ASSUME Batch <= 1 PROVE Spec => []IInv
  OBVIOUS
<1>1. Init => IInv
  BY InitInv
<1>2. IInv /\ [Next]_vars => IInv'
  BY NextInv
<1> QED BY <1>1, <1>2, PTL DEF Spec

\* No message is given twice by hasMoreMessages and getNextInboxMessage, nor
\* by a getAllInboxMessages that finds no more than one message.
THEOREM GivesOnce == Batch <= 1 => (Spec => []GivenOnce)
<1>1. IInv => GivenOnce
  <2> SUFFICES ASSUME IInv PROVE GivenOnce
    OBVIOUS
  <2>1. DOMAIN given = 1 .. Len(given) /\ \A i \in 1 .. Len(given) : given[i] # Gone
    BY InboxAssumption DEF IInv, TypeInv
  <2> QED BY <2>1 DEF IInv, HeldInv, GivenOnce, IsInjective, ToSet, Once, At
<1> QED BY <1>1, InboxKeeps, PTL

\* The end of an iteration erases what the client took and nothing else,
\* whatever newMessage appended amid it.
THEOREM LosesNothing == Batch <= 1 => (Spec => []NothingLost)
<1>1. IInv => NothingLost
  <2> SUFFICES ASSUME IInv PROVE NothingLost
    OBVIOUS
  <2>1. ToSet(given) = At(given) /\ ToSet(inbox) = At(inbox)
    BY DEF IInv, TypeInv, ToSet, At
  <2>2. arrived \subseteq At(given) \cup At(inbox)
    BY DEF IInv, HeldInv
  <2>3. ASSUME found = <<>>
        PROVE  At(inbox) = arrived \ At(given)
    <3>1. TakenAt = {}
      BY <2>3 DEF TakenAt
    <3>2. Gone \notin At(inbox)
      BY <3>1 DEF IInv, HeldInv, At
    <3> QED BY <3>2 DEF IInv, HeldInv
  <2> QED BY <2>1, <2>2, <2>3 DEF NothingLost
<1> QED BY <1>1, InboxKeeps, PTL

\* The positions hasMoreMessages found once stay those of the messages it
\* found, through all that happens before the iteration ends.
THEOREM PositionsStay == Batch <= 1 => (Spec => []PositionsValid)
<1>1. IInv => PositionsValid
  <2> SUFFICES ASSUME IInv, NEW k \in DOMAIN found
               PROVE  /\ found[k] \in DOMAIN inbox
                      /\ k < it => inbox[found[k]] = Gone
                      /\ k > it => inbox[found[k]] \in arrived \ ToSet(given)
    BY DEF PositionsValid
  <2>1. /\ k \in 1 .. Len(found) /\ found \in Seq(Nat) /\ it \in Nat
        /\ DOMAIN inbox = 1 .. Len(inbox)
        /\ ToSet(given) = At(given)
    BY DEF IInv, TypeInv, ToSet, At
  <2>2. found[k] \in 1 .. Len(inbox)
    BY <2>1 DEF IInv, IterInv, At
  <2>3. ASSUME k < it PROVE inbox[found[k]] = Gone
    BY <2>1, <2>2, <2>3 DEF IInv, HeldInv, TakenAt
  <2>4. ASSUME k > it PROVE inbox[found[k]] \in arrived \ At(given)
    <3>1. found[k] \notin TakenAt
      <4>1. \A j \in 1 .. Len(found) : j < it \/ j = it => found[j] # found[k]
        <5> SUFFICES ASSUME NEW j \in 1 .. Len(found), j < it \/ j = it
                     PROVE  found[j] # found[k]
          OBVIOUS
        <5>1. j < k
          BY <2>1, <2>4
        <5>2. found[j] < found[k] /\ found[j] \in Nat /\ found[k] \in Nat
          BY <2>1, <5>1 DEF IInv, IterInv, Increasing
        <5> QED BY <5>2
      <4> QED BY <4>1 DEF TakenAt
    <3>2. inbox[found[k]] \in At(inbox) \ {Gone}
      BY <2>2, <3>1 DEF IInv, HeldInv, At
    <3> QED BY <3>2 DEF IInv, HeldInv
  <2> QED BY <2>1, <2>2, <2>3, <2>4
<1> QED BY <1>1, InboxKeeps, PTL
=============================================================================
