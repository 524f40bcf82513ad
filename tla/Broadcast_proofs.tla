-------------------------- MODULE Broadcast_proofs --------------------------
(***************************************************************************)
(* What is proved of Broadcast, for any objects, messages and metrics.     *)
(***************************************************************************)
EXTENDS Broadcast, FiniteSetTheorems, TLAPS

-----------------------------------------------------------------------------
(* Sums of the counts in a table, as the number of its entries.            *)

Pairs(f) == UNION {{t} \X (1 .. f[t]) : t \in DOMAIN f}

LEMMA PairsOf ==
  ASSUME NEW T, NEW f \in [T -> Nat], NEW e
  PROVE  e \in Pairs(f) <=>
           \E t \in T, i \in Nat : e = <<t, i>> /\ 1 <= i /\ i <= f[t]
  BY DEF Pairs

LEMMA PairsFinite ==
  ASSUME NEW T, IsFiniteSet(T), NEW f \in [T -> Nat]
  PROVE  IsFiniteSet(Pairs(f))
<1> DEFINE g == [t \in T |-> {t} \X (1 .. f[t])]
           R == {{t} \X (1 .. f[t]) : t \in T}
<1>1. g \in Surjection(T, R)
  BY DEF Surjection
<1>2. IsFiniteSet(R)
  BY <1>1, FS_Surjection
<1>3. ASSUME NEW t \in T PROVE IsFiniteSet({t} \X (1 .. f[t]))
  <2>1. IsFiniteSet({t}) /\ f[t] \in Int
    BY FS_Singleton
  <2>2. IsFiniteSet(1 .. f[t])
    BY <2>1, FS_Interval
  <2> QED BY <2>1, <2>2, FS_Product
<1>4. \A r \in R : IsFiniteSet(r)
  BY <1>3
<1> QED BY <1>2, <1>4, FS_UNION DEF Pairs

LEMMA TotalType ==
  ASSUME NEW T, IsFiniteSet(T), NEW f \in [T -> Nat]
  PROVE  Total(f) \in Nat
  BY PairsFinite, FS_CardinalityType DEF Total, Pairs

\* The sums of two tables are added.
IsSum(f, g, h, T) ==
  /\ IsFiniteSet(T)
  /\ f \in [T -> Nat] /\ g \in [T -> Nat] /\ h \in [T -> Nat]
  /\ \A t \in T : f[t] = g[t] + h[t]

LEMMA TotalSum ==
  ASSUME NEW T, NEW f, NEW g, NEW h, IsSum(f, g, h, T)
  PROVE  Total(f) = Total(g) + Total(h)
<1> USE DEF IsSum
<1> DEFINE B == Pairs(f) \ Pairs(g)
           shift == [e \in Pairs(h) |-> <<e[1], e[2] + g[e[1]]>>]
<1>1. IsFiniteSet(Pairs(f)) /\ IsFiniteSet(Pairs(g)) /\ IsFiniteSet(Pairs(h))
  BY PairsFinite
<1>2. Pairs(g) \subseteq Pairs(f)
  <2>1. ASSUME NEW t \in T, NEW i \in Nat, 1 <= i, i <= g[t] PROVE i <= f[t]
    BY <2>1
  <2> QED BY <2>1, PairsOf
<1>3. \A t \in T, i \in Nat :
        <<t, i>> \in B <=> g[t] < i /\ i <= f[t]
  <2> SUFFICES ASSUME NEW t \in T, NEW i \in Nat
               PROVE  <<t, i>> \in B <=> g[t] < i /\ i <= f[t]
    OBVIOUS
  <2>1. <<t, i>> \in Pairs(f) <=> 1 <= i /\ i <= f[t]
    BY PairsOf
  <2>2. <<t, i>> \in Pairs(g) <=> 1 <= i /\ i <= g[t]
    BY PairsOf
  <2> QED BY <2>1, <2>2
<1>4. \A e \in B : \E t \in T, i \in Nat : e = <<t, i>>
  BY PairsOf
<1>5. \A e \in Pairs(h) : \E t \in T, i \in Nat : e = <<t, i>> /\ 1 <= i /\ i <= h[t]
  BY PairsOf
<1>6. shift \in [Pairs(h) -> B]
  <2> SUFFICES ASSUME NEW e \in Pairs(h) PROVE <<e[1], e[2] + g[e[1]]>> \in B
    OBVIOUS
  <2>1. PICK t \in T, i \in Nat : e = <<t, i>> /\ 1 <= i /\ i <= h[t]
    BY <1>5
  <2>2. i + g[t] \in Nat /\ g[t] < i + g[t] /\ i + g[t] <= f[t]
    BY <2>1
  <2>3. <<t, i + g[t]>> \in B
    BY <1>3, <2>2
  <2> QED BY <2>1, <2>3
<1>7. \A d, e \in Pairs(h) : shift[d] = shift[e] => d = e
  <2> SUFFICES ASSUME NEW d \in Pairs(h), NEW e \in Pairs(h), shift[d] = shift[e]
               PROVE  d = e
    OBVIOUS
  <2>1. PICK t \in T, i \in Nat : d = <<t, i>>
    BY <1>5
  <2>2. PICK u \in T, j \in Nat : e = <<u, j>>
    BY <1>5
  <2>3. t = u /\ i + g[t] = j + g[u]
    BY <2>1, <2>2
  <2> QED BY <2>1, <2>2, <2>3
<1>8. \A b \in B : \E e \in Pairs(h) : shift[e] = b
  <2> SUFFICES ASSUME NEW b \in B PROVE \E e \in Pairs(h) : shift[e] = b
    OBVIOUS
  <2>1. PICK t \in T, i \in Nat : b = <<t, i>>
    BY <1>4
  <2>2. g[t] < i /\ i <= f[t]
    BY <1>3, <2>1
  <2>3. i - g[t] \in Nat /\ 1 <= i - g[t] /\ i - g[t] <= h[t]
    BY <2>2
  <2>4. <<t, i - g[t]>> \in Pairs(h)
    BY <2>3, PairsOf
  <2>5. shift[<<t, i - g[t]>>] = <<t, (i - g[t]) + g[t]>>
    BY <2>4
  <2>6. (i - g[t]) + g[t] = i
    OBVIOUS
  <2> QED BY <2>1, <2>4, <2>5, <2>6
<1>9. ExistsBijection(Pairs(h), B)
  <2> HIDE DEF shift, B
  <2>1. shift \in Injection(Pairs(h), B) /\ shift \in Surjection(Pairs(h), B)
    BY <1>6, <1>7, <1>8 DEF Injection, IsInjective, Surjection
  <2> QED BY <2>1 DEF ExistsBijection, Bijection
<1>10. Cardinality(B) = Cardinality(Pairs(h))
  BY <1>1, <1>9, FS_Bijection
<1>11. Pairs(f) \cap Pairs(g) = Pairs(g)
  BY <1>2
<1>12. Cardinality(B) = Cardinality(Pairs(f)) - Cardinality(Pairs(f) \cap Pairs(g))
  BY <1>1, FS_Difference
<1>13. /\ Cardinality(Pairs(f)) \in Nat /\ Cardinality(Pairs(g)) \in Nat
       /\ Cardinality(Pairs(h)) \in Nat
  BY <1>1, FS_CardinalityType
<1>14. Cardinality(B) = Cardinality(Pairs(f)) - Cardinality(Pairs(g))
  BY <1>11, <1>12, Zenon
<1> HIDE DEF B
<1>15. Cardinality(Pairs(f)) = Cardinality(Pairs(g)) + Cardinality(Pairs(h))
  BY <1>10, <1>13, <1>14
<1> QED BY <1>15 DEF Total, Pairs

\* The sum over a part of the table.
LEMMA TotalPart ==
  ASSUME NEW T, NEW L \in SUBSET T, NEW f \in [T -> Nat]
  PROVE  Total([t \in L |-> f[t]]) = Total([t \in T |-> IF t \in L THEN f[t] ELSE 0])
<1> DEFINE g == [t \in L |-> f[t]]
           h == [t \in T |-> IF t \in L THEN f[t] ELSE 0]
<1>1. g \in [L -> Nat] /\ h \in [T -> Nat]
  OBVIOUS
<1>2. ASSUME NEW e PROVE e \in Pairs(g) <=> e \in Pairs(h)
  <2>1. e \in Pairs(g) <=> \E t \in L, i \in Nat : e = <<t, i>> /\ 1 <= i /\ i <= g[t]
    BY <1>1, PairsOf
  <2>2. e \in Pairs(h) <=> \E t \in T, i \in Nat : e = <<t, i>> /\ 1 <= i /\ i <= h[t]
    BY <1>1, PairsOf
  <2> QED BY <2>1, <2>2
<1>3. Pairs(g) = Pairs(h)
  BY <1>2
<1> QED BY <1>3 DEF Total, Pairs

\* A table with one count.
LEMMA TotalOne ==
  ASSUME NEW T, NEW u \in T, NEW k \in Nat
  PROVE  Total([t \in T |-> IF t = u THEN k ELSE 0]) = k
<1> DEFINE h == [t \in T |-> IF t = u THEN k ELSE 0]
<1>1. h \in [T -> Nat]
  OBVIOUS
<1>2. ASSUME NEW e PROVE e \in Pairs(h) <=> e \in {u} \X (1 .. k)
  BY <1>1, PairsOf
<1>3. Pairs(h) = {u} \X (1 .. k)
  BY <1>2
<1>4. IsFiniteSet({u}) /\ Cardinality({u}) = 1
  BY FS_Singleton
<1>5. IsFiniteSet(1 .. k) /\ Cardinality(1 .. k) = k
  BY FS_Interval
<1>6. Cardinality({u} \X (1 .. k)) = 1 * k
  BY <1>4, <1>5, FS_Product
<1> HIDE DEF h
<1>7. Cardinality(Pairs(h)) = k
  <2>1. 1 * k = k
    OBVIOUS
  <2> QED BY <1>3, <1>6, <2>1
<1> QED BY <1>7 DEF h, Total, Pairs

\* A table of the zeros.
LEMMA TotalNone ==
  ASSUME NEW T
  PROVE  Total([t \in T |-> 0]) = 0
<1> DEFINE h == [t \in T |-> 0]
<1>1. ASSUME NEW e \in Pairs(h) PROVE FALSE
  BY PairsOf
<1>2. Pairs(h) = {}
  BY <1>1
<1> QED BY <1>2, FS_EmptySet DEF Total, Pairs

\* A table of how many elements of a set have each key.
IsCount(h, key, S, T) ==
  /\ IsFiniteSet(S) /\ key \in [S -> T] /\ h \in [T -> Nat]
  /\ \A t \in T : h[t] = Cardinality({c \in S : key[c] = t})

LEMMA TotalCount ==
  ASSUME NEW T, NEW S, NEW key, NEW h, IsCount(h, key, S, T)
  PROVE  Total(h) = Cardinality(S)
<1> USE DEF IsCount
<1> DEFINE With(t) == {c \in S : key[c] = t}
           num == [t \in T |-> CHOOSE b : b \in Bijection(1 .. h[t], With(t))]
           at == [e \in Pairs(h) |-> num[e[1]][e[2]]]
<1>1. \A t \in T : num[t] \in Bijection(1 .. h[t], With(t))
  <2> SUFFICES ASSUME NEW t \in T
               PROVE  \E b : b \in Bijection(1 .. h[t], With(t))
    OBVIOUS
  <2>1. IsFiniteSet(With(t))
    BY FS_Subset
  <2> QED BY <2>1, FS_CardinalityType DEF ExistsBijection
<1> HIDE DEF num
<1>2. \A t \in T : /\ \A i \in 1 .. h[t] : num[t][i] \in With(t)
                   /\ \A i, j \in 1 .. h[t] : num[t][i] = num[t][j] => i = j
                   /\ \A c \in With(t) : \E i \in 1 .. h[t] : num[t][i] = c
  BY <1>1 DEF Bijection, Injection, IsInjective, Surjection
<1>3. \A e \in Pairs(h) : \E t \in T : \E i \in 1 .. h[t] : e = <<t, i>>
  BY PairsOf
<1>4. \A t \in T : \A i \in 1 .. h[t] : <<t, i>> \in Pairs(h) /\ at[<<t, i>>] = num[t][i]
  <2> SUFFICES ASSUME NEW t \in T, NEW i \in 1 .. h[t]
               PROVE  <<t, i>> \in Pairs(h) /\ at[<<t, i>>] = num[t][i]
    OBVIOUS
  <2>1. <<t, i>> \in Pairs(h)
    BY PairsOf
  <2> QED BY <2>1
<1> HIDE DEF at
<1>5. at \in [Pairs(h) -> S]
  <2> SUFFICES ASSUME NEW e \in Pairs(h) PROVE at[e] \in S
    BY DEF at
  <2>1. PICK t \in T : \E i \in 1 .. h[t] : e = <<t, i>>
    BY <1>3
  <2> QED BY <1>2, <1>4, <2>1
<1>6. \A d, e \in Pairs(h) : at[d] = at[e] => d = e
  <2> SUFFICES ASSUME NEW d \in Pairs(h), NEW e \in Pairs(h), at[d] = at[e]
               PROVE  d = e
    OBVIOUS
  <2>1. PICK t \in T : \E i \in 1 .. h[t] : d = <<t, i>>
    BY <1>3
  <2>2. PICK i \in 1 .. h[t] : d = <<t, i>>
    BY <2>1
  <2>3. PICK u \in T : \E j \in 1 .. h[u] : e = <<u, j>>
    BY <1>3
  <2>4. PICK j \in 1 .. h[u] : e = <<u, j>>
    BY <2>3
  <2>5. num[t][i] \in With(t) /\ num[u][j] \in With(u) /\ num[t][i] = num[u][j]
    BY <1>2, <1>4, <2>2, <2>4
  <2>6. t = u
    BY <2>5
  <2> QED BY <1>2, <2>2, <2>4, <2>5, <2>6
<1>7. \A c \in S : \E e \in Pairs(h) : at[e] = c
  <2> SUFFICES ASSUME NEW c \in S PROVE \E e \in Pairs(h) : at[e] = c
    OBVIOUS
  <2>1. key[c] \in T /\ c \in With(key[c])
    OBVIOUS
  <2>2. PICK i \in 1 .. h[key[c]] : num[key[c]][i] = c
    BY <1>2, <2>1
  <2> DEFINE e == <<key[c], i>>
  <2>3. e \in Pairs(h) /\ at[e] = c
    BY <1>4, <2>1, <2>2
  <2> HIDE DEF e
  <2> QED BY <2>3
<1>8. at \in Bijection(Pairs(h), S)
  BY <1>5, <1>6, <1>7 DEF Bijection, Injection, IsInjective, Surjection
<1>9. at \in Injection(Pairs(h), S) /\ at \in Surjection(Pairs(h), S)
  BY <1>8 DEF Bijection
<1> QED BY <1>9, FS_Injection DEF Total, Pairs

-----------------------------------------------------------------------------
(* Types, and what the network simulator has not taken has no copies.      *)

TypeInv ==
  /\ unit \in Units
  /\ now \in 0 .. Horizon
  /\ loc \in [Msgs -> {"unsent", "toNet", "taken", "dropped"}]
  /\ stamp \in [Msgs -> 0 .. Horizon]
  /\ copy \in [Copies -> {"none", "held", "toTick", "discarded", "dropped", "received"}]
  /\ packets \in [Stamps -> Nat]
  /\ sent \in Nat
  /\ received \in Nat
  /\ lost \in [Stamps -> Nat]

NoCopyYet == \A c \in Copies : loc[c[1]] # "taken" => copy[c] = "none"

LEMMA Constants ==
  /\ Horizon \in Nat /\ Loss \in Nat /\ LastSend \in Nat
  /\ Units \subseteq Nat \ {0}
  /\ From \in [Msgs -> Objects] /\ To \in [Msgs -> Objects]
  /\ Units # {} => Max(Units) \in Units /\ \A u \in Units : u <= Max(Units)
<1>1. PICK w \in Units : \A v \in Units : v <= w
  BY BroadcastAssumption
<1>2. w \in Units /\ \A v \in Units : w >= v
  BY <1>1, BroadcastAssumption
<1>3. Max(Units) \in Units /\ \A v \in Units : Max(Units) >= v
  BY <1>2 DEF Max
<1> QED BY <1>3, BroadcastAssumption

LEMMA CopiesFinite ==
  /\ IsFiniteSet(Copies)
  /\ \A S \in SUBSET Copies : IsFiniteSet(S) /\ Cardinality(S) \in Nat
<1>1. IsFiniteSet(Copies)
  BY BroadcastAssumption, FS_Product DEF Copies
<1> QED BY <1>1, FS_Subset, FS_CardinalityType

LEMMA StampsFinite == IsFiniteSet(Stamps) /\ Stamps \subseteq Nat
<1>1. Max(Units) \in Nat
  BY Constants, BroadcastAssumption
<1>2. Horizon * Max(Units) \in Nat
  BY <1>1, Constants
<1> QED BY <1>2, FS_Interval DEF Stamps

LEMMA StampInRange ==
  ASSUME TypeInv
  PROVE  /\ \A m \in Msgs : stamp[m] \in Stamps
         /\ \A c \in Copies : StampOf(c) \in Stamps
<1>1. Max(Units) \in Nat /\ Max(Units) >= 1 /\ unit \in Nat /\ unit <= Max(Units)
  <2>1. unit \in Units /\ Units # {}
    BY DEF TypeInv
  <2>2. Max(Units) \in Units /\ unit <= Max(Units)
    BY <2>1, Constants
  <2>3. \A u \in Units : u \in Nat /\ u >= 1
    BY Constants
  <2> QED BY <2>1, <2>2, <2>3
<1>2. ASSUME NEW x \in 0 .. Horizon
      PROVE  x \in Stamps /\ unit * x \in Stamps
  <2>1. x \in Nat /\ Horizon \in Nat /\ x <= Horizon
    BY <1>2, Constants
  <2> DEFINE M == Max(Units)
  <2>2. M \in Nat /\ M >= 1 /\ unit \in Nat /\ unit <= M
    BY <1>1
  <2> HIDE DEF M
  <2>3. unit * x <= M * x /\ M * x <= M * Horizon /\ unit * x \in Nat
    BY <2>1, <2>2
  <2>4. x <= M * Horizon
    BY <2>1, <2>2
  <2>5. M * Horizon = Horizon * M /\ Horizon * M \in Nat
    BY <2>1, <2>2
  <2>6. unit * x <= Horizon * M /\ x <= Horizon * M
    BY <2>2, <2>3, <2>4, <2>5
  <2> QED BY <2>1, <2>3, <2>5, <2>6 DEF Stamps, M
<1> QED BY <1>2 DEF TypeInv, StampOf, Copies

\* A message counts for as many as get a copy of it.
MsgCopies(m) == {c \in Copies : c[1] = m /\ c[2] \in Receivers(m)}

LEMMA CountedRight ==
  ASSUME NEW m \in Msgs
  PROVE  /\ IsFiniteSet(MsgCopies(m)) /\ IsFiniteSet(Receivers(m))
         /\ Cardinality(MsgCopies(m)) = Counted(m)
         /\ Cardinality(Receivers(m)) = Counted(m)
         /\ Counted(m) \in Nat
<1>1. IsFiniteSet(Objects) /\ From[m] \in Objects /\ To[m] \in Objects
  BY BroadcastAssumption
<1>2. /\ Receivers(m) \subseteq Objects /\ IsFiniteSet(Receivers(m))
      /\ Cardinality(Receivers(m)) = Counted(m)
  <2>1. CASE m \in Bcast
    BY <1>1, <2>1, FS_RemoveElement DEF Receivers, Counted
  <2>2. CASE m \notin Bcast
    BY <1>1, <2>2, FS_Singleton DEF Receivers, Counted
  <2> QED BY <2>1, <2>2
<1>3. Counted(m) \in Nat
  BY <1>2, FS_CardinalityType
<1>4. MsgCopies(m) = {m} \X Receivers(m)
  BY <1>2 DEF MsgCopies, Copies
<1>5. IsFiniteSet({m}) /\ Cardinality({m}) = 1
  BY FS_Singleton
<1>6. /\ IsFiniteSet({m} \X Receivers(m))
      /\ Cardinality({m} \X Receivers(m)) = 1 * Counted(m)
  BY <1>2, <1>5, FS_Product
<1> QED BY <1>2, <1>3, <1>4, <1>6

\* What a step takes from a set of copies or adds to it.
LEMMA Moved ==
  ASSUME NEW A \in SUBSET Copies, NEW B \in SUBSET Copies
  PROVE  /\ A \cap B = {} => Cardinality(A \cup B) = Cardinality(A) + Cardinality(B)
         /\ B \subseteq A => Cardinality(A \ B) = Cardinality(A) - Cardinality(B)
<1>1. IsFiniteSet(A) /\ IsFiniteSet(B) /\ Cardinality(A) \in Nat /\ Cardinality(B) \in Nat
  BY CopiesFinite
<1>2. ASSUME A \cap B = {}
      PROVE  Cardinality(A \cup B) = Cardinality(A) + Cardinality(B)
  <2>1. Cardinality(A \cup B) = Cardinality(A) + Cardinality(B) - Cardinality(A \cap B)
    BY <1>1, FS_Union
  <2>2. Cardinality(A \cap B) = 0
    BY <1>2, FS_EmptySet
  <2> QED BY <1>1, <2>1, <2>2
<1>3. ASSUME B \subseteq A
      PROVE  Cardinality(A \ B) = Cardinality(A) - Cardinality(B)
  <2>1. Cardinality(A \ B) = Cardinality(A) - Cardinality(A \cap B)
    BY <1>1, FS_Difference
  <2>2. A \cap B = B
    BY <1>3
  <2> QED BY <2>1, <2>2
<1> QED BY <1>2, <1>3

LEMMA MinOfTwo ==
  ASSUME NEW a \in Nat, NEW b \in Nat
  PROVE  /\ Min({a, b}) = IF a <= b THEN a ELSE b
         /\ Max({0, a - b}) = IF a >= b THEN a - b ELSE 0
<1>1. Min({a, b}) = IF a <= b THEN a ELSE b
  <2>1. CASE a <= b
    BY <2>1 DEF Min
  <2>2. CASE ~(a <= b)
    BY <2>2 DEF Min
  <2> QED BY <2>1, <2>2
<1>2. Max({0, a - b}) = IF a >= b THEN a - b ELSE 0
  <2>1. CASE a >= b
    BY <2>1 DEF Max
  <2>2. CASE ~(a >= b)
    BY <2>2 DEF Max
  <2> QED BY <2>1, <2>2
<1> QED BY <1>1, <1>2

\* What a step of the network simulator does: of the copies D at their end
\* the copies S are sent on, as many of each time stamp as the table has; what
\* is left of the late time stamps L is reported.
NetStepIs(D, S, L, left) ==
  /\ \A t \in Stamps :
       /\ packets[t] = left[t] + Cardinality(WithStamp(S, t))
       /\ left[t] = 0 \/ WithStamp(S, t) = WithStamp(D, t)
  /\ copy' = [c \in Copies |-> IF c \in S THEN "toTick"
                              ELSE IF c \in D THEN "discarded" ELSE copy[c]]
  /\ packets' = [t \in Stamps |-> IF t \in L THEN 0 ELSE left[t]]
  /\ received' = received + Total([t \in L |-> left[t]])
  /\ lost' = [t \in Stamps |-> IF t \in L THEN lost[t] + left[t] ELSE lost[t]]

LEMMA NetStepDone ==
  ASSUME TypeInv, NetStep
  PROVE  \E D \in SUBSET InState("held"), L \in SUBSET Stamps, left \in [Stamps -> Nat] :
           \E S \in SUBSET D : NetStepIs(D, S, L, left)
<1> DEFINE Left(S) == [t \in Stamps |->
                         Max({0, packets[t] - Cardinality(WithStamp(S, t))})]
           Late(S) == {t \in Stamps : Reported(t, Left(S)[t])}
           Sends(D, S) ==
             /\ \A t \in Stamps : Cardinality(WithStamp(S, t)) =
                  Min({Cardinality(WithStamp(D, t)), packets[t]})
             /\ copy' = [c \in Copies |-> IF c \in S THEN "toTick"
                                         ELSE IF c \in D THEN "discarded" ELSE copy[c]]
             /\ packets' = [t \in Stamps |-> IF t \in Late(S) THEN 0 ELSE Left(S)[t]]
             /\ received' = received + Total([t \in Late(S) |-> Left(S)[t]])
             /\ lost' = [t \in Stamps |-> IF t \in Late(S) THEN lost[t] + Left(S)[t]
                                         ELSE lost[t]]
<1>0. PICK D \in SUBSET {c \in Copies : copy[c] = "held"} :
        \E S \in SUBSET D : Sends(D, S)
  BY DEF NetStep, SentOn
<1>1. PICK S \in SUBSET D : Sends(D, S)
  BY <1>0
<1> DEFINE left == Left(S)
           late == Late(S)
<1>2. ASSUME NEW t \in Stamps
      PROVE  /\ left[t] \in Nat
             /\ packets[t] = left[t] + Cardinality(WithStamp(S, t))
             /\ left[t] = 0 \/ WithStamp(S, t) = WithStamp(D, t)
  <2>1. /\ WithStamp(S, t) \in SUBSET WithStamp(D, t)
        /\ WithStamp(S, t) \in SUBSET Copies /\ WithStamp(D, t) \in SUBSET Copies
    BY <1>1 DEF WithStamp
  <2>2. /\ Cardinality(WithStamp(S, t)) \in Nat /\ Cardinality(WithStamp(D, t)) \in Nat
        /\ IsFiniteSet(WithStamp(D, t))
    BY <2>1, CopiesFinite
  <2>3. packets[t] \in Nat
    BY DEF TypeInv
  <2>4. Cardinality(WithStamp(S, t)) = IF Cardinality(WithStamp(D, t)) <= packets[t]
                                       THEN Cardinality(WithStamp(D, t)) ELSE packets[t]
    BY <1>1, <2>2, <2>3, MinOfTwo
  <2>5. left[t] = packets[t] - Cardinality(WithStamp(S, t))
    BY <2>2, <2>3, <2>4, MinOfTwo
  <2>6. Cardinality(WithStamp(S, t)) = Cardinality(WithStamp(D, t)) =>
          WithStamp(S, t) = WithStamp(D, t)
    BY <2>1, <2>2, FS_Subset
  <2> HIDE DEF Left
  <2> QED BY <2>2, <2>3, <2>4, <2>5, <2>6
<1>3. left \in [Stamps -> Nat] /\ late \in SUBSET Stamps /\ D \in SUBSET InState("held")
  BY <1>0, <1>2 DEF InState
<1> HIDE DEF left, late
<1>4. /\ copy' = [c \in Copies |-> IF c \in S THEN "toTick"
                                  ELSE IF c \in D THEN "discarded" ELSE copy[c]]
      /\ packets' = [t \in Stamps |-> IF t \in late THEN 0 ELSE left[t]]
      /\ received' = received + Total([t \in late |-> left[t]])
      /\ lost' = [t \in Stamps |-> IF t \in late THEN lost[t] + left[t] ELSE lost[t]]
  BY <1>1 DEF left, late
<1> HIDE DEF Left, Late, Sends, left, late
<1>5. NetStepIs(D, S, late, left)
  BY <1>2, <1>4 DEF NetStepIs
<1> QED BY <1>3, <1>5

\* What leaves the table is what is sent on and what is reported.
LEMMA TableLeft ==
  ASSUME TypeInv, NEW D \in SUBSET InState("held"), NEW S \in SUBSET D,
         NEW L \in SUBSET Stamps, NEW left \in [Stamps -> Nat],
         NetStepIs(D, S, L, left)
  PROVE  /\ Total([t \in L |-> left[t]]) \in Nat
         /\ Total(packets) = Total(packets') + Total([t \in L |-> left[t]])
                               + Cardinality(S)
<1> DEFINE late == [t \in Stamps |-> IF t \in L THEN left[t] ELSE 0]
           num == [t \in Stamps |-> Cardinality(WithStamp(S, t))]
           key == [c \in S |-> StampOf(c)]
<1>1. S \in SUBSET Copies /\ IsFiniteSet(S)
  BY CopiesFinite DEF InState
<1>2. num \in [Stamps -> Nat]
  <2>1. \A t \in Stamps : WithStamp(S, t) \in SUBSET Copies
    BY <1>1 DEF WithStamp
  <2>2. \A t \in Stamps : Cardinality(WithStamp(S, t)) \in Nat
    BY <2>1, CopiesFinite
  <2> QED BY <2>2
<1>3. Total(num) = Cardinality(S)
  <2>1. key \in [S -> Stamps]
    BY <1>1, StampInRange
  <2>2. \A t \in Stamps : {c \in S : key[c] = t} = WithStamp(S, t)
    BY DEF WithStamp
  <2>3. \A t \in Stamps : num[t] = Cardinality({c \in S : key[c] = t})
    BY <2>2
  <2> HIDE DEF num, key
  <2>4. IsCount(num, key, S, Stamps)
    BY <1>1, <1>2, <2>1, <2>3 DEF IsCount
  <2> QED BY <2>4, TotalCount
<1>40. late \in [Stamps -> Nat] /\ packets \in [Stamps -> Nat]
  BY DEF TypeInv
<1>41. packets' \in [Stamps -> Nat]
  BY DEF NetStepIs
<1>42. IsFiniteSet(Stamps)
  BY StampsFinite
<1>4. /\ late \in [Stamps -> Nat] /\ packets \in [Stamps -> Nat]
      /\ packets' \in [Stamps -> Nat]
  BY <1>40, <1>41
<1>5. Total([t \in L |-> left[t]]) = Total(late)
  BY TotalPart
<1>6. \A t \in Stamps : packets[t] = left[t] + num[t]
  BY DEF NetStepIs
<1>7. \A t \in Stamps : left[t] = packets'[t] + late[t]
  BY DEF NetStepIs
<1> HIDE DEF late, num
<1>8. Total(packets) = Total(left) + Total(num)
  <2>1. IsSum(packets, left, num, Stamps)
    BY <1>2, <1>4, <1>42, <1>6 DEF IsSum
  <2> QED BY <2>1, TotalSum
<1>9. Total(left) = Total(packets') + Total(late)
  <2>1. IsSum(left, packets', late, Stamps)
    BY <1>4, <1>42, <1>7 DEF IsSum
  <2> QED BY <2>1, TotalSum
<1>10. Total(late) \in Nat /\ Total(packets') \in Nat /\ Total(num) \in Nat
  BY <1>2, <1>4, StampsFinite, TotalType
<1> QED BY <1>3, <1>5, <1>8, <1>9, <1>10

LEMMA TypeNext == TypeInv /\ NoCopyYet /\ [Next]_vars => TypeInv' /\ NoCopyYet'
<1> SUFFICES ASSUME TypeInv, NoCopyYet, [Next]_vars PROVE TypeInv' /\ NoCopyYet'
  OBVIOUS
<1> USE DEF TypeInv, NoCopyYet
<1>0. Horizon \in Nat /\ \A t \in 0 .. Horizon : t \in Nat
  BY Constants
<1>1. CASE UNCHANGED vars
  BY <1>1 DEF vars, StampOf
<1>2. ASSUME NEW m \in Msgs, Send(m) PROVE TypeInv' /\ NoCopyYet'
  <2>1. Counted(m) \in Nat
    BY CountedRight
  <2> QED BY <1>0, <1>2, <2>1 DEF Send, Copies
<1>3. ASSUME NEW m \in Msgs, NetReceive(m) PROVE TypeInv' /\ NoCopyYet'
  <2>1. CASE stamp[m] < GraceTime(NetTime)
    BY <1>3, <2>1 DEF NetReceive, Copies
  <2>2. CASE ~(stamp[m] < GraceTime(NetTime))
    <3>1. Cardinality(Receivers(m)) \in Nat
      BY CountedRight
    <3>2. stamp[m] \in Stamps
      BY StampInRange
    <3>3. /\ loc[m] = "toNet" /\ loc' = [loc EXCEPT ![m] = "taken"]
          /\ copy' = [c \in Copies |-> IF c[1] = m /\ c[2] \in Receivers(m)
                                       THEN "held" ELSE copy[c]]
          /\ packets' = [packets EXCEPT ![stamp[m]] = @ + Cardinality(Receivers(m))]
          /\ UNCHANGED <<unit, now, stamp, sent, received, lost>>
      BY <1>3, <2>2 DEF NetReceive
    <3>4. packets' \in [Stamps -> Nat]
      BY <3>1, <3>2, <3>3
    <3>5. TypeInv'
      BY <3>3, <3>4
    <3>6. \A c \in Copies : c[1] \in Msgs
      BY DEF Copies
    <3>7. \A c \in Copies : copy'[c] # copy[c] => loc'[c[1]] = "taken"
      BY <3>3, <3>6
    <3>8. \A c \in Copies : loc'[c[1]] # "taken" => loc[c[1]] # "taken"
      BY <3>3, <3>6
    <3> QED BY <3>5, <3>7, <3>8
  <2> QED BY <2>1, <2>2
<1>4. ASSUME NetStep PROVE TypeInv' /\ NoCopyYet'
  <2>1. PICK D \in SUBSET InState("held"), L \in SUBSET Stamps, left \in [Stamps -> Nat] :
          \E S \in SUBSET D : NetStepIs(D, S, L, left)
    BY <1>4, NetStepDone
  <2>2. PICK S \in SUBSET D : NetStepIs(D, S, L, left)
    BY <2>1
  <2>3. Total([t \in L |-> left[t]]) \in Nat
    <3>1. IsFiniteSet(L)
      BY StampsFinite, FS_Subset
    <3> DEFINE f == [t \in L |-> left[t]]
    <3>2. f \in [L -> Nat]
      OBVIOUS
    <3> HIDE DEF f
    <3>3. Total(f) \in Nat
      BY <3>1, <3>2, TotalType
    <3> QED BY <3>3 DEF f
  <2>4. /\ packets' \in [Stamps -> Nat] /\ lost' \in [Stamps -> Nat]
        /\ received' \in Nat
    BY <2>2, <2>3 DEF NetStepIs
  <2>5. now' \in 0 .. Horizon /\ UNCHANGED <<unit, loc, stamp, sent>>
    BY <1>0, <1>4 DEF NetStep
  <2>6. copy' = [c \in Copies |-> IF c \in S THEN "toTick"
                               ELSE IF c \in D THEN "discarded" ELSE copy[c]]
    BY <2>2 DEF NetStepIs
  <2>7. \A c \in D : copy[c] = "held" /\ c \in Copies
    BY DEF InState
  <2> QED BY <2>4, <2>5, <2>6, <2>7
<1>5. ASSUME NEW c \in Copies, TickReceive(c) PROVE TypeInv' /\ NoCopyYet'
  BY <1>5 DEF TickReceive
<1> QED BY <1>1, <1>2, <1>3, <1>4, <1>5 DEF Next

-----------------------------------------------------------------------------
(* What was sent and not received is under way or was dropped.             *)

\* The numbers the totals are compared with.
LEMMA Numbers ==
  ASSUME TypeInv
  PROVE  /\ CopiesOf("toNet") \in SUBSET Copies /\ CopiesOf("dropped") \in SUBSET Copies
         /\ InState("toTick") \in SUBSET Copies /\ InState("dropped") \in SUBSET Copies
         /\ Cardinality(CopiesOf("toNet")) \in Nat
         /\ Cardinality(CopiesOf("dropped")) \in Nat
         /\ Cardinality(InState("toTick")) \in Nat
         /\ Cardinality(InState("dropped")) \in Nat
         /\ Total(packets) \in Nat
<1>1. /\ CopiesOf("toNet") \in SUBSET Copies /\ CopiesOf("dropped") \in SUBSET Copies
      /\ InState("toTick") \in SUBSET Copies /\ InState("dropped") \in SUBSET Copies
  BY DEF CopiesOf, InState
<1>2. Total(packets) \in Nat
  BY StampsFinite, TotalType DEF TypeInv
<1> QED BY <1>1, <1>2, CopiesFinite

\* The copies of the messages in one state when one message enters or leaves it.
Goes(m, from, to, other) ==
  /\ loc[m] = from /\ loc' = [loc EXCEPT ![m] = to]
  /\ from # to /\ other # from /\ other # to

LEMMA EnterLeave ==
  ASSUME TypeInv, NEW m \in Msgs, NEW from, NEW to, NEW other,
         Goes(m, from, to, other)
  PROVE  /\ Cardinality(CopiesOf(to)') = Cardinality(CopiesOf(to)) + Counted(m)
         /\ Cardinality(CopiesOf(from)') = Cardinality(CopiesOf(from)) - Counted(m)
         /\ Cardinality(CopiesOf(other)') = Cardinality(CopiesOf(other))
<1> USE DEF Goes
<1>1. \A c \in Copies : c[1] \in Msgs
  BY DEF Copies
<1>2. \A n \in Msgs : loc'[n] = IF n = m THEN to ELSE loc[n]
  BY DEF TypeInv
<1>3. \A l : CopiesOf(l)' = {c \in Copies : loc'[c[1]] = l /\ c[2] \in Receivers(c[1])}
  BY DEF CopiesOf, Receivers, Copies
<1>4. \A l : CopiesOf(l) = {c \in Copies : loc[c[1]] = l /\ c[2] \in Receivers(c[1])}
  BY DEF CopiesOf
<1>5. /\ \A c \in MsgCopies(m) : c \in Copies /\ c[1] = m /\ c[2] \in Receivers(m)
      /\ \A c \in Copies : c[1] = m /\ c[2] \in Receivers(m) => c \in MsgCopies(m)
  BY DEF MsgCopies
<1>6. CopiesOf(to)' = CopiesOf(to) \cup MsgCopies(m)
  <2>1. ASSUME NEW c PROVE c \in CopiesOf(to)' <=> c \in CopiesOf(to) \/ c \in MsgCopies(m)
    <3>1. c \in CopiesOf(to)' <=>
            c \in Copies /\ loc'[c[1]] = to /\ c[2] \in Receivers(c[1])
      BY <1>3
    <3>2. c \in CopiesOf(to) <=>
            c \in Copies /\ loc[c[1]] = to /\ c[2] \in Receivers(c[1])
      BY <1>4
    <3>3. CASE c \in Copies /\ c[1] = m
      BY <1>2, <1>5, <3>1, <3>2, <3>3
    <3>4. CASE c \in Copies /\ c[1] # m
      BY <1>1, <1>2, <1>5, <3>1, <3>2, <3>4
    <3>5. CASE c \notin Copies
      BY <1>5, <3>1, <3>2, <3>5
    <3> QED BY <3>3, <3>4, <3>5
  <2> QED BY <2>1
<1>7. CopiesOf(from)' = CopiesOf(from) \ MsgCopies(m)
  <2>1. ASSUME NEW c PROVE c \in CopiesOf(from)' <=> c \in CopiesOf(from) /\ c \notin MsgCopies(m)
    <3>1. c \in CopiesOf(from)' <=>
            c \in Copies /\ loc'[c[1]] = from /\ c[2] \in Receivers(c[1])
      BY <1>3
    <3>2. c \in CopiesOf(from) <=>
            c \in Copies /\ loc[c[1]] = from /\ c[2] \in Receivers(c[1])
      BY <1>4
    <3>3. CASE c \in Copies /\ c[1] = m
      BY <1>2, <1>5, <3>1, <3>2, <3>3
    <3>4. CASE c \in Copies /\ c[1] # m
      BY <1>1, <1>2, <1>5, <3>1, <3>2, <3>4
    <3>5. CASE c \notin Copies
      BY <3>1, <3>2, <3>5
    <3> QED BY <3>3, <3>4, <3>5
  <2> QED BY <2>1
<1>8. CopiesOf(other)' = CopiesOf(other)
  <2>1. \A c \in Copies : loc'[c[1]] = other <=> loc[c[1]] = other
    BY <1>1, <1>2
  <2> QED BY <1>3, <1>4, <2>1
<1>9. /\ CopiesOf(to) \cap MsgCopies(m) = {} /\ MsgCopies(m) \subseteq CopiesOf(from)
      /\ MsgCopies(m) \in SUBSET Copies
      /\ CopiesOf(to) \in SUBSET Copies /\ CopiesOf(from) \in SUBSET Copies
  BY <1>4, <1>5
<1>10. Cardinality(MsgCopies(m)) = Counted(m)
  BY CountedRight
<1> QED BY <1>6, <1>7, <1>8, <1>9, <1>10, Moved

\* One lemma for each action.
LEMMA BalanceSend ==
  ASSUME TypeInv, Balanced, NEW m \in Msgs, Send(m)
  PROVE  Balanced'
<1> SUFFICES sent' - received' =
               Cardinality(CopiesOf("toNet")') + Total(packets')
                 + Cardinality(InState("toTick")')
                 + (Cardinality(CopiesOf("dropped")') + Cardinality(InState("dropped")'))
  BY DEF Balanced, Dropped
<1>00. /\ Cardinality(CopiesOf("toNet")) \in Nat
       /\ Cardinality(CopiesOf("dropped")) \in Nat
       /\ Cardinality(InState("toTick")) \in Nat
       /\ Cardinality(InState("dropped")) \in Nat
       /\ Total(packets) \in Nat
  BY Numbers
<1>0. sent - received =
        Cardinality(CopiesOf("toNet")) + Total(packets)
          + Cardinality(InState("toTick"))
          + (Cardinality(CopiesOf("dropped")) + Cardinality(InState("dropped")))
  BY DEF Balanced, Dropped
<1>1. /\ loc[m] = "unsent" /\ loc' = [loc EXCEPT ![m] = "toNet"]
      /\ sent' = sent + Counted(m)
      /\ UNCHANGED <<copy, packets, received>>
  BY DEF Send
<1>2. /\ Cardinality(CopiesOf("toNet")') = Cardinality(CopiesOf("toNet")) + Counted(m)
      /\ Cardinality(CopiesOf("dropped")') = Cardinality(CopiesOf("dropped"))
  <2>1. Goes(m, "unsent", "toNet", "dropped")
    BY <1>1 DEF Goes
  <2> QED BY <2>1, EnterLeave
<1>3. /\ Cardinality(InState("toTick")') = Cardinality(InState("toTick"))
      /\ Cardinality(InState("dropped")') = Cardinality(InState("dropped"))
      /\ Total(packets') = Total(packets)
  BY <1>1 DEF InState
<1>4. Counted(m) \in Nat /\ sent \in Nat /\ received \in Nat
  BY CountedRight DEF TypeInv
<1>5. sent' = sent + Counted(m) /\ received' = received
  BY <1>1
<1>6. sent' - received' = (sent - received) + Counted(m)
  BY <1>4, <1>5
<1> QED BY <1>0, <1>00, <1>2, <1>3, <1>4, <1>6

LEMMA BalanceNetReceive ==
  ASSUME TypeInv, NoCopyYet, Balanced, NEW m \in Msgs, NetReceive(m)
  PROVE  Balanced'
<1> SUFFICES sent' - received' =
               Cardinality(CopiesOf("toNet")') + Total(packets')
                 + Cardinality(InState("toTick")')
                 + (Cardinality(CopiesOf("dropped")') + Cardinality(InState("dropped")'))
  BY DEF Balanced, Dropped
<1>00. /\ Cardinality(CopiesOf("toNet")) \in Nat
       /\ Cardinality(CopiesOf("dropped")) \in Nat
       /\ Cardinality(InState("toTick")) \in Nat
       /\ Cardinality(InState("dropped")) \in Nat
       /\ Total(packets) \in Nat
  BY Numbers
<1>0. sent - received =
        Cardinality(CopiesOf("toNet")) + Total(packets)
          + Cardinality(InState("toTick"))
          + (Cardinality(CopiesOf("dropped")) + Cardinality(InState("dropped")))
  BY DEF Balanced, Dropped
<1>1. loc[m] = "toNet" /\ UNCHANGED <<sent, received, stamp>>
  BY DEF NetReceive
<1>2. Counted(m) \in Nat /\ sent \in Nat /\ received \in Nat
  BY CountedRight DEF TypeInv
<1>3. CASE stamp[m] < GraceTime(NetTime)
  <2>1. loc' = [loc EXCEPT ![m] = "dropped"] /\ UNCHANGED <<copy, packets>>
    BY <1>3 DEF NetReceive
  <2>2. /\ Cardinality(CopiesOf("dropped")') = Cardinality(CopiesOf("dropped")) + Counted(m)
        /\ Cardinality(CopiesOf("toNet")') = Cardinality(CopiesOf("toNet")) - Counted(m)
    <3>1. Goes(m, "toNet", "dropped", "unsent")
      BY <1>1, <2>1 DEF Goes
    <3> QED BY <3>1, EnterLeave
  <2>3. /\ InState("toTick")' = InState("toTick") /\ InState("dropped")' = InState("dropped")
        /\ Total(packets') = Total(packets)
    BY <2>1 DEF InState
  <2> QED BY <1>0, <1>00, <1>1, <1>2, <2>2, <2>3
<1>4. CASE ~(stamp[m] < GraceTime(NetTime))
  <2>1. /\ loc' = [loc EXCEPT ![m] = "taken"]
        /\ copy' = [c \in Copies |-> IF c[1] = m /\ c[2] \in Receivers(m)
                                     THEN "held" ELSE copy[c]]
        /\ packets' = [packets EXCEPT ![stamp[m]] = @ + Cardinality(Receivers(m))]
    BY <1>4 DEF NetReceive
  <2>2. /\ Cardinality(CopiesOf("toNet")') = Cardinality(CopiesOf("toNet")) - Counted(m)
        /\ Cardinality(CopiesOf("dropped")') = Cardinality(CopiesOf("dropped"))
    <3>1. Goes(m, "toNet", "taken", "dropped")
      BY <1>1, <2>1 DEF Goes
    <3> QED BY <3>1, EnterLeave
  <2>3. \A c \in Copies : c[1] = m => copy[c] = "none"
    BY <1>1 DEF NoCopyYet
  <2>4. InState("toTick")' = InState("toTick") /\ InState("dropped")' = InState("dropped")
    BY <2>1, <2>3 DEF InState
  <2>5. Total(packets') = Total(packets) + Counted(m)
    <3> DEFINE more == [t \in Stamps |-> IF t = stamp[m] THEN Counted(m) ELSE 0]
    <3>1. stamp[m] \in Stamps
      BY StampInRange
    <3>2. Total(more) = Counted(m)
      BY <1>2, <3>1, TotalOne
    <3>3. more \in [Stamps -> Nat] /\ packets \in [Stamps -> Nat]
      BY <1>2 DEF TypeInv
    <3>4. Cardinality(Receivers(m)) = Counted(m)
      BY CountedRight
    <3>5. /\ packets' \in [Stamps -> Nat]
          /\ \A t \in Stamps : packets'[t] = packets[t] + more[t]
      BY <1>2, <2>1, <3>1, <3>3, <3>4
    <3> HIDE DEF more
    <3>6. IsSum(packets', packets, more, Stamps)
      BY <3>3, <3>5, StampsFinite DEF IsSum
    <3> QED BY <3>2, <3>6, TotalSum
  <2> QED BY <1>0, <1>00, <1>1, <1>2, <2>2, <2>4, <2>5
<1> QED BY <1>3, <1>4

LEMMA BalanceNetStep ==
  ASSUME TypeInv, Balanced, NetStep
  PROVE  Balanced'
<1> SUFFICES sent' - received' =
               Cardinality(CopiesOf("toNet")') + Total(packets')
                 + Cardinality(InState("toTick")')
                 + (Cardinality(CopiesOf("dropped")') + Cardinality(InState("dropped")'))
  BY DEF Balanced, Dropped
<1>00. /\ Cardinality(CopiesOf("toNet")) \in Nat
       /\ Cardinality(CopiesOf("dropped")) \in Nat
       /\ Cardinality(InState("toTick")) \in Nat
       /\ Cardinality(InState("dropped")) \in Nat
       /\ Total(packets) \in Nat
  BY Numbers
<1>0. sent - received =
        Cardinality(CopiesOf("toNet")) + Total(packets)
          + Cardinality(InState("toTick"))
          + (Cardinality(CopiesOf("dropped")) + Cardinality(InState("dropped")))
  BY DEF Balanced, Dropped
<1>1. PICK D \in SUBSET InState("held"), L \in SUBSET Stamps, left \in [Stamps -> Nat] :
        \E S \in SUBSET D : NetStepIs(D, S, L, left)
  BY NetStepDone
<1>2. PICK S \in SUBSET D : NetStepIs(D, S, L, left)
  BY <1>1
<1> DEFINE reported == Total([t \in L |-> left[t]])
<1>3. /\ reported \in Nat
      /\ Total(packets) = Total(packets') + reported + Cardinality(S)
  BY <1>2, TableLeft
<1>4. received' = received + reported
  BY <1>2 DEF NetStepIs
<1> HIDE DEF reported
<1>5. \A c \in D : c \in Copies /\ copy[c] = "held"
  BY DEF InState
<1>6. /\ InState("toTick")' = InState("toTick") \cup S
      /\ InState("dropped")' = InState("dropped")
  <2>1. copy' = [c \in Copies |-> IF c \in S THEN "toTick"
                               ELSE IF c \in D THEN "discarded" ELSE copy[c]]
    BY <1>2 DEF NetStepIs
  <2> QED BY <1>5, <2>1 DEF InState
<1>7. S \in SUBSET Copies /\ InState("toTick") \cap S = {}
  BY <1>5 DEF InState
<1>8. Cardinality(InState("toTick")') = Cardinality(InState("toTick")) + Cardinality(S)
  BY <1>6, <1>7, Moved, Numbers
<1>9. UNCHANGED <<loc, sent>>
  BY DEF NetStep
<1>10. CopiesOf("toNet")' = CopiesOf("toNet") /\ CopiesOf("dropped")' = CopiesOf("dropped")
  BY <1>9 DEF CopiesOf, Receivers, Copies
<1>11. /\ Cardinality(S) \in Nat /\ sent \in Nat /\ received \in Nat
       /\ Total(packets') \in Nat
  <2>1. Cardinality(S) \in Nat
    BY <1>7, CopiesFinite
  <2>2. packets' \in [Stamps -> Nat]
    BY <1>2 DEF NetStepIs
  <2> QED BY <2>1, <2>2, StampsFinite, TotalType DEF TypeInv
<1>12. /\ sent' = sent
       /\ Cardinality(CopiesOf("toNet")') = Cardinality(CopiesOf("toNet"))
       /\ Cardinality(CopiesOf("dropped")') = Cardinality(CopiesOf("dropped"))
       /\ Cardinality(InState("dropped")') = Cardinality(InState("dropped"))
  BY <1>6, <1>9, <1>10
<1>13. sent' - received' = (sent - received) - reported
  BY <1>3, <1>4, <1>11, <1>12
<1> QED BY <1>0, <1>00, <1>3, <1>8, <1>11, <1>12, <1>13

LEMMA BalanceTickReceive ==
  ASSUME TypeInv, Balanced, NEW c \in Copies, TickReceive(c)
  PROVE  Balanced'
<1> SUFFICES sent' - received' =
               Cardinality(CopiesOf("toNet")') + Total(packets')
                 + Cardinality(InState("toTick")')
                 + (Cardinality(CopiesOf("dropped")') + Cardinality(InState("dropped")'))
  BY DEF Balanced, Dropped
<1>00. /\ Cardinality(CopiesOf("toNet")) \in Nat
       /\ Cardinality(CopiesOf("dropped")) \in Nat
       /\ Cardinality(InState("toTick")) \in Nat
       /\ Cardinality(InState("dropped")) \in Nat
       /\ Total(packets) \in Nat
  BY Numbers
<1>0. sent - received =
        Cardinality(CopiesOf("toNet")) + Total(packets)
          + Cardinality(InState("toTick"))
          + (Cardinality(CopiesOf("dropped")) + Cardinality(InState("dropped")))
  BY DEF Balanced, Dropped
<1>1. copy[c] = "toTick" /\ UNCHANGED <<loc, packets, sent>>
  BY DEF TickReceive
<1>2. /\ Cardinality(CopiesOf("toNet")') = Cardinality(CopiesOf("toNet"))
      /\ Cardinality(CopiesOf("dropped")') = Cardinality(CopiesOf("dropped"))
      /\ Total(packets') = Total(packets)
  BY <1>1 DEF CopiesOf, Receivers, Copies
<1>3. c \in InState("toTick") /\ c \notin InState("dropped")
  BY <1>1 DEF InState
<1>4. /\ {c} \in SUBSET Copies /\ Cardinality({c}) = 1
      /\ InState("toTick") \in SUBSET Copies /\ InState("dropped") \in SUBSET Copies
      /\ {c} \subseteq InState("toTick") /\ InState("dropped") \cap {c} = {}
  BY <1>3, FS_Singleton DEF InState
<1>5. sent \in Nat /\ received \in Nat
  BY DEF TypeInv
<1>6. Cardinality(InState("toTick") \ {c}) = Cardinality(InState("toTick")) - 1
  BY <1>4, Moved
<1>7. Cardinality(InState("dropped") \cup {c}) = Cardinality(InState("dropped")) + 1
  BY <1>4, Moved
<1>8. CASE StampOf(c) < GraceTime(now)
  <2>1. copy' = [copy EXCEPT ![c] = "dropped"] /\ received' = received
    BY <1>8 DEF TickReceive
  <2>2. /\ InState("toTick")' = InState("toTick") \ {c}
        /\ InState("dropped")' = InState("dropped") \cup {c}
    BY <2>1 DEF InState, TypeInv
  <2>3. /\ Cardinality(InState("toTick")') = Cardinality(InState("toTick")) - 1
        /\ Cardinality(InState("dropped")') = Cardinality(InState("dropped")) + 1
        /\ received' = received /\ sent' = sent
    BY <1>1, <1>6, <1>7, <2>1, <2>2
  <2> QED BY <1>0, <1>00, <1>2, <1>5, <2>3
<1>9. CASE ~(StampOf(c) < GraceTime(now))
  <2>1. copy' = [copy EXCEPT ![c] = "received"] /\ received' = received + 1
    BY <1>9 DEF TickReceive
  <2>2. /\ InState("toTick")' = InState("toTick") \ {c}
        /\ InState("dropped")' = InState("dropped")
    BY <1>3, <2>1 DEF InState, TypeInv
  <2>3. /\ Cardinality(InState("toTick")') = Cardinality(InState("toTick")) - 1
        /\ Cardinality(InState("dropped")') = Cardinality(InState("dropped"))
        /\ received' = received + 1 /\ sent' = sent
    BY <1>1, <1>6, <2>1, <2>2
  <2>4. sent' - received' = (sent - received) - 1
    BY <1>5, <2>3
  <2> QED BY <1>0, <1>00, <1>2, <2>3, <2>4
<1> QED BY <1>8, <1>9

LEMMA BalanceInit == Init => TypeInv /\ NoCopyYet /\ Balanced
<1> SUFFICES ASSUME Init PROVE TypeInv /\ NoCopyYet /\ Balanced
  OBVIOUS
<1>1. TypeInv /\ NoCopyYet
  BY Constants DEF Init, TypeInv, NoCopyYet, Copies
<1>2. Total(packets) = 0
  BY TotalNone DEF Init
<1>3. /\ CopiesOf("toNet") = {} /\ CopiesOf("dropped") = {}
      /\ InState("toTick") = {} /\ InState("dropped") = {}
  BY DEF Init, CopiesOf, InState, Copies
<1>4. sent = 0 /\ received = 0 /\ Cardinality({}) = 0
  BY FS_EmptySet DEF Init
<1> QED BY <1>1, <1>2, <1>3, <1>4 DEF Balanced, Dropped

\* What is sent and not received is under way, as the network simulator's
\* table has it, or was dropped for its age: whatever the number of objects and
\* the metric, a broadcast is counted for what the table gets, and whatever
\* leaves the table is received or reported (packetLostCalculator).
THEOREM SentIsAccounted == Spec => []Balanced
<1>1. /\ Init => TypeInv /\ NoCopyYet /\ Balanced
      /\ TypeInv /\ NoCopyYet /\ Balanced /\ [Next]_vars
           => TypeInv' /\ NoCopyYet' /\ Balanced'
  <2>1. ASSUME TypeInv, NoCopyYet, Balanced, [Next]_vars PROVE Balanced'
    <3>1. CASE UNCHANGED vars
      BY <2>1, <3>1 DEF vars, Balanced, Dropped, CopiesOf, InState, Receivers, Copies
    <3>2. ASSUME NEW m \in Msgs, Send(m) PROVE Balanced'
      BY <2>1, <3>2, BalanceSend
    <3>3. ASSUME NEW m \in Msgs, NetReceive(m) PROVE Balanced'
      BY <2>1, <3>3, BalanceNetReceive
    <3>4. ASSUME NetStep PROVE Balanced'
      BY <2>1, <3>4, BalanceNetStep
    <3>5. ASSUME NEW c \in Copies, TickReceive(c) PROVE Balanced'
      BY <2>1, <3>5, BalanceTickReceive
    <3> QED BY <2>1, <3>1, <3>2, <3>3, <3>4, <3>5 DEF Next
  <2> QED BY <2>1, BalanceInit, TypeNext
<1> QED BY <1>1, PTL DEF Spec

-----------------------------------------------------------------------------
(* In framework time a copy is sent on or reported, and not both.          *)

\* The copies with a time stamp: all, those sent on and those thrown away.
Made(t) == WithStamp({c \in Copies : copy[c] # "none"}, t)
On(t) == WithStamp(InState("toTick") \cup InState("received")
                     \cup InState("dropped"), t)
Gone(t) == WithStamp(InState("discarded"), t)

Right(t) == /\ Cardinality(Made(t)) = Cardinality(On(t)) + packets[t] + lost[t]
            /\ Cardinality(Gone(t)) <= lost[t]

LEMMA RightIs == LostOrSent <=> (unit = 1 => \A t \in Stamps : Right(t))
  BY DEF LostOrSent, Right, Made, On, Gone

Further == {"toTick", "received", "dropped"}

LEMMA SetsAre ==
  ASSUME NEW t
  PROVE  /\ Made(t) = {c \in Copies : copy[c] # "none" /\ StampOf(c) = t}
         /\ On(t) = {c \in Copies : copy[c] \in Further /\ StampOf(c) = t}
         /\ Gone(t) = {c \in Copies : copy[c] = "discarded" /\ StampOf(c) = t}
  BY DEF Made, On, Gone, WithStamp, InState, Further

LEMMA SetsAreNext ==
  ASSUME NEW t
  PROVE  /\ Made(t)' = {c \in Copies : copy'[c] # "none" /\ StampOf(c)' = t}
         /\ On(t)' = {c \in Copies : copy'[c] \in Further /\ StampOf(c)' = t}
         /\ Gone(t)' = {c \in Copies : copy'[c] = "discarded" /\ StampOf(c)' = t}
  BY DEF Made, On, Gone, WithStamp, InState, Further, Copies

LEMMA SetsNumbers ==
  ASSUME NEW t
  PROVE  /\ Made(t) \in SUBSET Copies /\ On(t) \in SUBSET Copies
         /\ Gone(t) \in SUBSET Copies
         /\ Cardinality(Made(t)) \in Nat /\ Cardinality(On(t)) \in Nat
         /\ Cardinality(Gone(t)) \in Nat
<1>1. /\ Made(t) \in SUBSET Copies /\ On(t) \in SUBSET Copies
      /\ Gone(t) \in SUBSET Copies
  BY SetsAre
<1> QED BY <1>1, CopiesFinite

\* A step that moves no copy between these sets and touches no count.
LEMMA RightSame ==
  ASSUME NEW t, Right(t),
         \A c \in Copies :
           /\ copy[c] # "none" \/ copy'[c] # "none" => StampOf(c)' = StampOf(c)
           /\ copy[c] # "none" <=> copy'[c] # "none"
           /\ copy[c] \in Further <=> copy'[c] \in Further
           /\ copy[c] = "discarded" <=> copy'[c] = "discarded",
         UNCHANGED <<packets, lost>>
  PROVE  Right(t)'
<1>1. "none" \notin Further /\ "none" # "discarded"
  BY DEF Further
<1>2. Made(t)' = Made(t)
  <2>1. \A c \in Copies : copy[c] # "none" /\ StampOf(c) = t
                          <=> copy'[c] # "none" /\ StampOf(c)' = t
    OBVIOUS
  <2>2. Made(t) = {c \in Copies : copy[c] # "none" /\ StampOf(c) = t}
    BY SetsAre
  <2>3. Made(t)' = {c \in Copies : copy'[c] # "none" /\ StampOf(c)' = t}
    BY SetsAreNext
  <2> QED BY <2>1, <2>2, <2>3
<1>3. On(t)' = On(t)
  BY <1>1, SetsAre, SetsAreNext
<1>4. Gone(t)' = Gone(t)
  BY <1>1, SetsAre, SetsAreNext
<1> QED BY <1>2, <1>3, <1>4 DEF Right

LEMMA RightSend ==
  ASSUME TypeInv, NoCopyYet, NEW m \in Msgs, Send(m), NEW t, Right(t)
  PROVE  Right(t)'
<1>1. loc[m] = "unsent" /\ stamp' = [stamp EXCEPT ![m] = now]
  BY DEF Send
<1>2. UNCHANGED <<unit, copy, packets, lost>>
  BY DEF Send
<1>3. \A c \in Copies : c[1] \in Msgs
  BY DEF Copies
<1>4. ASSUME NEW c \in Copies, copy[c] # "none" PROVE StampOf(c)' = StampOf(c)
  <2>1. c[1] # m
    BY <1>1, <1>4 DEF NoCopyYet
  <2>2. stamp'[c[1]] = stamp[c[1]]
    BY <1>1, <1>3, <2>1 DEF TypeInv
  <2> QED BY <1>2, <2>2 DEF StampOf
<1> QED BY <1>2, <1>4, RightSame

LEMMA RightNetReceive ==
  ASSUME TypeInv, NoCopyYet, unit = 1, NEW m \in Msgs, NetReceive(m),
         NEW t \in Stamps, Right(t)
  PROVE  Right(t)'
<1>1. loc[m] = "toNet" /\ UNCHANGED <<unit, stamp, lost>>
  BY DEF NetReceive
<1>2. \A c \in Copies : StampOf(c)' = StampOf(c)
  BY <1>1 DEF StampOf
<1>3. CASE stamp[m] < GraceTime(NetTime)
  <2>1. UNCHANGED <<copy, packets>>
    BY <1>3 DEF NetReceive
  <2> QED BY <1>1, <1>2, <2>1, RightSame
<1>4. CASE ~(stamp[m] < GraceTime(NetTime))
  <2>1. /\ copy' = [c \in Copies |-> IF c \in MsgCopies(m) THEN "held" ELSE copy[c]]
        /\ packets' = [packets EXCEPT ![stamp[m]] = @ + Cardinality(Receivers(m))]
    BY <1>4 DEF NetReceive, MsgCopies
  <2>2. \A c \in Copies : c[1] = m => copy[c] = "none"
    BY <1>1 DEF NoCopyYet
  <2>3. \A c \in MsgCopies(m) : c \in Copies /\ c[1] = m
    BY DEF MsgCopies
  <2>4. \A c \in MsgCopies(m) : StampOf(c) = stamp[m] /\ copy[c] = "none"
    <3>1. stamp[m] \in Int
      BY Constants DEF TypeInv
    <3> QED BY <2>2, <2>3, <3>1 DEF StampOf
  <2>5. On(t)' = On(t) /\ Gone(t)' = Gone(t)
    <3>1. "none" \notin Further /\ "held" \notin Further
      BY DEF Further
    <3>2. \A c \in Copies : /\ copy[c] \in Further <=> copy'[c] \in Further
                            /\ copy[c] = "discarded" <=> copy'[c] = "discarded"
      BY <2>1, <2>4, <3>1
    <3>3. On(t)' = On(t)
      <4>1. \A c \in Copies : copy[c] \in Further /\ StampOf(c) = t
                              <=> copy'[c] \in Further /\ StampOf(c)' = t
        BY <1>2, <3>2
      <4> QED BY <4>1, SetsAre, SetsAreNext
    <3>4. Gone(t)' = Gone(t)
      <4>1. \A c \in Copies : copy[c] = "discarded" /\ StampOf(c) = t
                              <=> copy'[c] = "discarded" /\ StampOf(c)' = t
        BY <1>2, <3>2
      <4> QED BY <4>1, SetsAre, SetsAreNext
    <3> QED BY <3>3, <3>4
  <2>6. Cardinality(Made(t)) \in Nat /\ Cardinality(On(t)) \in Nat
    BY SetsNumbers
  <2>7. packets[t] \in Nat /\ lost[t] \in Nat /\ lost'[t] = lost[t]
    BY <1>1 DEF TypeInv
  <2>8. CASE t = stamp[m]
    <3>1. Made(t)' = Made(t) \cup MsgCopies(m) /\ Made(t) \cap MsgCopies(m) = {}
      BY <1>2, <2>1, <2>3, <2>4, <2>8, SetsAre, SetsAreNext
    <3>2. Made(t) \in SUBSET Copies /\ MsgCopies(m) \in SUBSET Copies
      BY <2>3, SetsNumbers
    <3>3. Cardinality(Made(t)') = Cardinality(Made(t)) + Counted(m)
      BY <3>1, <3>2, CountedRight, Moved
    <3>4. packets'[t] = packets[t] + Counted(m) /\ Counted(m) \in Nat
      BY <2>1, <2>8, CountedRight DEF TypeInv
    <3> QED BY <2>5, <2>6, <2>7, <3>3, <3>4 DEF Right
  <2>9. CASE t # stamp[m]
    <3>1. Made(t)' = Made(t)
      BY <1>2, <2>1, <2>4, <2>9, SetsAre, SetsAreNext
    <3>2. packets'[t] = packets[t]
      BY <2>1, <2>9 DEF TypeInv
    <3> QED BY <2>5, <2>7, <3>1, <3>2 DEF Right
  <2> QED BY <2>8, <2>9
<1> QED BY <1>3, <1>4

LEMMA RightTickReceive ==
  ASSUME TypeInv, NEW c \in Copies, TickReceive(c), NEW t, Right(t)
  PROVE  Right(t)'
<1>1. copy[c] = "toTick" /\ UNCHANGED <<unit, stamp, packets, lost>>
  BY DEF TickReceive
<1>2. \A d \in Copies : StampOf(d)' = StampOf(d)
  BY <1>1 DEF StampOf
<1>3. \/ copy' = [copy EXCEPT ![c] = "dropped"]
      \/ copy' = [copy EXCEPT ![c] = "received"]
  BY DEF TickReceive
<1>4. \A d \in Copies : copy'[d] = copy[d] \/ (copy[d] \in Further /\ copy'[d] \in Further)
  <2>1. \A d \in Copies : d # c => copy'[d] = copy[d]
    BY <1>3 DEF TypeInv
  <2>2. copy'[c] \in Further /\ copy[c] \in Further
    BY <1>1, <1>3 DEF TypeInv, Further
  <2> SUFFICES ASSUME NEW d \in Copies
               PROVE  copy'[d] = copy[d] \/ (copy[d] \in Further /\ copy'[d] \in Further)
    OBVIOUS
  <2>3. CASE d = c
    BY <2>2, <2>3
  <2>4. CASE d # c
    BY <2>1, <2>4
  <2> QED BY <2>3, <2>4
<1>5. "none" \notin Further /\ "discarded" \notin Further
  BY DEF Further
<1> QED BY <1>1, <1>2, <1>4, <1>5, RightSame

\* What the table has no entry for was sent on or reported before, so that what
\* is thrown away now are copies whose share was reported.
LEMMA RightNetStep ==
  ASSUME TypeInv, NetStep, NEW t \in Stamps, Right(t)
  PROVE  Right(t)'
<1>1. PICK D \in SUBSET InState("held"), L \in SUBSET Stamps, left \in [Stamps -> Nat] :
        \E S \in SUBSET D : NetStepIs(D, S, L, left)
  BY NetStepDone
<1>2. PICK S \in SUBSET D : NetStepIs(D, S, L, left)
  BY <1>1
<1> DEFINE DD == WithStamp(D, t)
           SS == WithStamp(S, t)
<1>3. copy' = [c \in Copies |-> IF c \in S THEN "toTick"
                             ELSE IF c \in D THEN "discarded" ELSE copy[c]]
  BY <1>2 DEF NetStepIs
<1>4. /\ packets[t] = left[t] + Cardinality(SS)
      /\ left[t] = 0 \/ SS = DD
      /\ packets'[t] = IF t \in L THEN 0 ELSE left[t]
      /\ lost'[t] = IF t \in L THEN lost[t] + left[t] ELSE lost[t]
  BY <1>2 DEF NetStepIs
<1>5. \A c \in Copies : StampOf(c)' = StampOf(c)
  BY DEF NetStep, StampOf
<1>6. \A c \in D : c \in Copies /\ copy[c] = "held"
  BY DEF InState
<1>7. /\ "held" \notin Further /\ "none" \notin Further /\ "discarded" \notin Further
      /\ "toTick" \in Further
  BY DEF Further
<1>8. Made(t)' = Made(t)
  <2>1. \A c \in Copies : copy[c] # "none" <=> copy'[c] # "none"
    BY <1>3, <1>6
  <2> QED BY <1>5, <2>1, SetsAre, SetsAreNext
<1>9. On(t)' = On(t) \cup SS /\ On(t) \cap SS = {}
  BY <1>3, <1>5, <1>6, <1>7, SetsAre, SetsAreNext DEF WithStamp
<1>10. Gone(t)' = Gone(t) \cup (DD \ SS)
  BY <1>3, <1>5, <1>6, SetsAre, SetsAreNext DEF WithStamp
<1>11. /\ SS \in SUBSET Copies /\ On(t)' \in SUBSET Made(t) /\ Gone(t)' \in SUBSET Made(t)
       /\ On(t)' \cap Gone(t)' = {}
  <2>1. SS \in SUBSET Copies
    BY <1>6 DEF WithStamp
  <2>2. On(t)' \in SUBSET Made(t)' /\ Gone(t)' \in SUBSET Made(t)' /\ On(t)' \cap Gone(t)' = {}
    BY <1>7, SetsAreNext
  <2> QED BY <1>8, <2>1, <2>2
<1>12. /\ Made(t) \in SUBSET Copies /\ On(t) \in SUBSET Copies
       /\ Cardinality(Made(t)) \in Nat /\ Cardinality(On(t)) \in Nat
       /\ Cardinality(Gone(t)) \in Nat
  BY SetsNumbers
<1>13. Cardinality(On(t)') = Cardinality(On(t)) + Cardinality(SS)
  BY <1>9, <1>11, <1>12, Moved
<1>14. left[t] \in Nat /\ packets[t] \in Nat /\ lost[t] \in Nat
  BY DEF TypeInv
<1>15. Cardinality(SS) \in Nat
  BY <1>11, CopiesFinite
<1>16. /\ Cardinality(Made(t)) = Cardinality(On(t)) + packets[t] + lost[t]
       /\ Cardinality(Gone(t)) <= lost[t]
  BY DEF Right
<1>17. Cardinality(Made(t)') = Cardinality(On(t)') + packets'[t] + lost'[t]
  <2>1. Cardinality(Made(t)') = Cardinality(Made(t))
    BY <1>8
  <2>2. packets'[t] + lost'[t] = left[t] + lost[t] /\ packets'[t] \in Nat /\ lost'[t] \in Nat
    BY <1>4, <1>14
  <2> HIDE DEF SS, DD
  <2> QED BY <1>4, <1>12, <1>13, <1>14, <1>15, <1>16, <2>1, <2>2
<1>18. Cardinality(Gone(t)') <= lost'[t]
  <2>1. CASE SS = DD
    <3>1. Gone(t)' = Gone(t)
      BY <1>10, <2>1
    <3>2. lost[t] <= lost'[t] /\ lost'[t] \in Nat
      BY <1>4, <1>14
    <3> QED BY <1>12, <1>14, <1>16, <3>1, <3>2
  <2>2. CASE left[t] = 0
    <3>1. packets'[t] = 0 /\ lost'[t] = lost[t]
      BY <1>4, <1>14, <2>2
    <3>2. On(t)' \cup Gone(t)' \in SUBSET Made(t)
      BY <1>11
    <3>3. /\ On(t)' \in SUBSET Copies /\ Gone(t)' \in SUBSET Copies
          /\ IsFiniteSet(Made(t))
      BY <1>11, <1>12, CopiesFinite
    <3>4. Cardinality(On(t)' \cup Gone(t)') = Cardinality(On(t)') + Cardinality(Gone(t)')
      BY <1>11, <3>3, Moved
    <3>5. Cardinality(On(t)' \cup Gone(t)') <= Cardinality(Made(t))
      BY <3>2, <3>3, FS_Subset
    <3>6. Cardinality(On(t)') \in Nat /\ Cardinality(Gone(t)') \in Nat
      BY <3>3, CopiesFinite
    <3>7. Cardinality(Made(t)) = Cardinality(On(t)') + lost[t]
      BY <1>8, <1>14, <1>17, <3>1, <3>6
    <3> QED BY <1>14, <3>1, <3>4, <3>5, <3>6, <3>7
  <2> QED BY <1>4, <2>1, <2>2
<1> QED BY <1>17, <1>18 DEF Right

\* In framework time every copy the network simulator was told of is sent on or
\* reported and none is both, though its table has only counts; and it throws
\* away no more copies than it reported (removeMessageTimeout).
THEOREM LostCopiesAreReported == Spec => []LostOrSent
<1>1. Init => TypeInv /\ NoCopyYet /\ LostOrSent
  <2> SUFFICES ASSUME Init, NEW t \in Stamps PROVE Right(t)
    BY BalanceInit, RightIs
  <2>1. Made(t) = {} /\ On(t) = {} /\ Gone(t) = {}
    BY SetsAre DEF Init, Further
  <2>2. packets[t] = 0 /\ lost[t] = 0 /\ Cardinality({}) = 0
    BY FS_EmptySet DEF Init
  <2> QED BY <2>1, <2>2 DEF Right
<1>2. ASSUME TypeInv, NoCopyYet, LostOrSent, [Next]_vars PROVE LostOrSent'
  <2>1. unit' = unit
    BY <1>2 DEF Next, vars, Send, NetReceive, NetStep, TickReceive
  <2>2. ASSUME unit = 1, NEW t \in Stamps PROVE Right(t)'
    <3>1. Right(t)
      BY <1>2, <2>2, RightIs
    <3>2. CASE UNCHANGED vars
      <4>1. UNCHANGED <<copy, packets, lost>> /\ \A c \in Copies : StampOf(c)' = StampOf(c)
        BY <3>2 DEF vars, StampOf
      <4> QED BY <3>1, <4>1, RightSame
    <3>3. ASSUME NEW m \in Msgs, Send(m) PROVE Right(t)'
      BY <1>2, <3>1, <3>3, RightSend
    <3>4. ASSUME NEW m \in Msgs, NetReceive(m) PROVE Right(t)'
      BY <1>2, <2>2, <3>1, <3>4, RightNetReceive
    <3>5. CASE NetStep
      BY <1>2, <3>1, <3>5, <2>2, RightNetStep
    <3>6. ASSUME NEW c \in Copies, TickReceive(c) PROVE Right(t)'
      BY <1>2, <3>1, <3>6, RightTickReceive
    <3> QED BY <1>2, <3>2, <3>3, <3>4, <3>5, <3>6 DEF Next
  <2>3. LostOrSent' <=> (unit' = 1 => \A t \in Stamps : Right(t)')
    BY DEF LostOrSent, Right, Made, On, Gone, Stamps
  <2> QED BY <2>1, <2>2, <2>3
<1> QED BY <1>1, <1>2, TypeNext, PTL DEF Spec
=============================================================================
