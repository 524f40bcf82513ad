------------------------- MODULE Speculation_proofs -------------------------
(***************************************************************************)
(* Proofs about Speculation, for any number of power simulators, of        *)
(* generations of children and of simulations.                             *)
(***************************************************************************)
EXTENDS Speculation, FiniteSetTheorems, TLAPS

-----------------------------------------------------------------------------
(* What a process is.                                                      *)

Replies == [time: Nat, value: Nat, context: Nat]

Places == Calls \cup {"idle", "work", "blocked", "attach", "reinit", "connect", "init",
                      "none", "killed", "exited", "ended"}

Memory ==
  [pc: Places, rep: {None} \cup BOOLEAN \cup Replies, cur: Nat, granted: Nat,
   asked: Nat, param: Nat, base: Nat, respond: BOOLEAN, busy: BOOLEAN,
   est: Nat, offer: Nat \cup {None}, myMin: Nat, min: Nat, isChild: BOOLEAN,
   child: Contexts \cup {None}, comm: BOOLEAN, specFail: Nat, specDiff: Nat,
   specStart: Nat]

Lives(r) == r.pc \notin {"none", "killed", "exited", "ended"}

\* It lives, and does not just wait to be killed.
Acts(r) == Lives(r) /\ r.pc # "blocked"

\* The answers of a collective divide the loop of a process into three parts:
\* from the agreement on a minimum to the barrier, from the barrier to the
\* agreement on the difference, and from there to that on a minimum.
Phase(r) ==
  CASE r.pc = "barrier" -> IF r.rep = None THEN "ahead" ELSE "together"
    [] r.pc = "work" -> IF r.cur < r.granted THEN "ahead" ELSE "together"
    [] r.pc = "sr" -> IF r.rep = None THEN "together" ELSE "agreeing"
    [] r.pc \in {"min", "action"} -> IF r.rep = None THEN "agreeing" ELSE "ahead"
    [] OTHER -> "ahead"

\* The time it is granted, or is about to be.
Due(r) ==
  CASE r.pc \in {"min", "action"} /\ r.rep # None -> r.rep.time
    [] r.pc \in {"attach", "reinit", "connect", "init"} -> r.min
    [] OTHER -> r.granted

\* It is about to fork.
Pending(r) == r.pc = "action" /\ r.rep # None /\ r.child = None /\ r.rep.value # 0

\* The context of its child, once what it has been answered is carried out.
Heir(r) ==
  IF Pending(r) THEN r.rep.context
  ELSE IF \/ r.pc = "action" /\ r.rep # None /\ r.rep.value \in {DoFailAll, Failed}
          \/ r.pc = "sr" /\ r.rep = TRUE
  THEN None
  ELSE r.child

\* A parent whose child, and a child that, is not yet connected.
Hangs(r) == Pending(r) \/ r.pc = "attach" \/ (r.pc = "reinit" /\ r.rep = None)
Connecting(r) == r.pc = "connect" \/ (r.pc = "init" /\ r.rep = None)

\* It still runs on the word of the others' parents alone.
Young(r) == r.isChild /\ ~(r.pc = "barrier" /\ r.rep # None)

Local(s, r) ==
  /\ r \in Memory
  /\ s = NetSim => r.cur >= r.granted
  /\ r.pc = "barrier" /\ ~r.busy => r.cur >= r.granted
  /\ r.pc = "sr" => r.rep \in BOOLEAN \cup {None}
  /\ r.pc \in {"min", "action"} => r.rep \in Replies \cup {None}
  /\ r.pc \in {"attach", "connect"} => r.rep = None
  /\ r.pc \in {"connect", "init"} => r.isChild /\ r.child = None
  /\ r.pc \in {"none", "killed"} => r.child = None

-----------------------------------------------------------------------------
(* The inductive invariant, of the processes pr and of what the broker     *)
(* keeps: the calls made, the number of contexts n, the parent contexts    *)
(* par, what is under way, the connections ini, re and done.               *)

Typed(pr, calls, n, par, un, ini, re, done) ==
  /\ pr \in [Contexts -> [Sims -> Memory]]
  /\ calls \in [Contexts -> [Calls -> SUBSET Sims]]
  /\ n \in Contexts
  /\ par \in [Contexts -> Contexts \cup {None}]
  /\ un \in [Contexts -> BOOLEAN]
  /\ ini \subseteq Contexts \X Sims \X Contexts
  /\ re \in [Contexts -> SUBSET Sims]
  /\ done \in [Contexts -> BOOLEAN]

AllLocal(pr) == \A c \in Contexts, s \in Sims : Local(s, pr[c][s])

\* Who has called waits for the answer, unless it was killed meanwhile.
CallsMade(pr, calls) ==
  \A c \in Contexts, k \in Calls : \A s \in calls[c][k] :
    /\ \/ pr[c][s].pc = k /\ pr[c][s].rep = None
       \/ pr[c][s].pc = "killed"
    /\ k = "action" => pr[c][s].offer \in Nat

\* The processes of a context are in the same part of the loop, are granted
\* the same time and have children in the same context.
Alike(pr) ==
  \A c \in Contexts : \A s, t \in Sims :
    Acts(pr[c][s]) /\ Acts(pr[c][t]) =>
      /\ Phase(pr[c][s]) = Phase(pr[c][t])
      /\ Due(pr[c][s]) = Due(pr[c][t])
      /\ Heir(pr[c][s]) = Heir(pr[c][t])

\* They grow up together, and nothing is sent before.
GrowUp(pr, un) ==
  \A c \in Contexts : \A s \in Sims :
    Lives(pr[c][s]) /\ Young(pr[c][s]) =>
      /\ ~un[c]
      /\ \A t \in Sims : Lives(pr[c][t]) => Young(pr[c][t])

\* What is about to be forked goes into a context of its own.
Forking(pr, n, par, un) ==
  \A c \in Contexts, s \in Sims : Pending(pr[c][s]) =>
    LET g == pr[c][s].rep.context
    IN /\ g \in Contexts /\ g <= n /\ par[g] = c
       /\ pr[g][s].pc = "none"
       /\ ~un[g]
       /\ \A t \in Sims :
            /\ Lives(pr[g][t]) =>
                 Connecting(pr[g][t]) /\ pr[g][t].min = pr[c][s].rep.value
            /\ Pending(pr[c][t]) => pr[c][t].rep.value = pr[c][s].rep.value

Unused(pr, n, un) ==
  \A g \in Contexts : g > n =>
    /\ ~un[g]
    /\ \A s \in Sims : pr[g][s].pc = "none"

\* The contexts are a tree, and a child is in a context below its parent's.
Tree(pr, n, par) ==
  /\ \A g \in Contexts : par[g] # None =>
       /\ par[g] < g /\ g <= n
       /\ \A s \in Sims : pr[par[g]][s].pc # "none"
  /\ \A c \in Contexts, s \in Sims : pr[c][s].child # None =>
       LET g == pr[c][s].child
       IN g \in Contexts /\ g <= n /\ par[g] = c /\ pr[g][s].pc # "none"

\* A context whose simulators have not all connected.
Unborn(pr, par, ini, g) ==
  /\ par[g] # None
  /\ \E s \in Sims :
       \/ Pending(pr[par[g]][s]) /\ pr[par[g]][s].rep.context = g
       \/ Connecting(pr[g][s])
       \/ <<par[g], s, g>> \in ini

\* Its parents wait for it, and for no other.
Births(pr, par, ini, done) ==
  /\ \A g \in Contexts, s \in Sims : Connecting(pr[g][s]) => par[g] # None
  /\ \A g \in Contexts : Unborn(pr, par, ini, g) =>
       /\ ~done[par[g]]
       /\ \A t \in Sims : Acts(pr[par[g]][t]) =>
            Hangs(pr[par[g]][t]) /\ Heir(pr[par[g]][t]) = g
  /\ \A g, h \in Contexts :
       Unborn(pr, par, ini, g) /\ Unborn(pr, par, ini, h) /\ par[g] = par[h] => g = h

\* The broker's maps.
Connected(pr, par, ini, re, done) ==
  /\ \A c \in Contexts, s \in Sims :
       /\ done[c] \/ s \in re[c] => pr[c][s].pc # "none"
       /\ Acts(pr[c][s]) =>
            /\ done[c] => Hangs(pr[c][s]) /\ ~Pending(pr[c][s])
            /\ s \in re[c] => pr[c][s].pc = "reinit" /\ pr[c][s].rep = None
  /\ \A x \in ini :
       /\ par[x[3]] = x[1]
       /\ pr[x[3]][x[2]].pc # "none"
       /\ Acts(pr[x[3]][x[2]]) =>
            pr[x[3]][x[2]].pc = "init" /\ pr[x[3]][x[2]].rep = None

Good(pr, calls, n, par, un, ini, re, done) ==
  /\ Typed(pr, calls, n, par, un, ini, re, done)
  /\ AllLocal(pr)
  /\ CallsMade(pr, calls)
  /\ Alike(pr)
  /\ GrowUp(pr, un)
  /\ Forking(pr, n, par, un)
  /\ Unused(pr, n, un)
  /\ Tree(pr, n, par)
  /\ Births(pr, par, ini, done)
  /\ Connected(pr, par, ini, re, done)

Shared == [Contexts -> [Sims -> [action: Nat, failTime: Nat]]]

IInv ==
  /\ setting \in Settings
  /\ shm \in Shared
  /\ Good(proc, in, contexts, parent, under, childIni, reinit, initDone)

-----------------------------------------------------------------------------
(* What keeps it.                                                          *)

\* The memory of one process is another one.
LEMMA Updated ==
  ASSUME NEW pr \in [Contexts -> [Sims -> Memory]], NEW c \in Contexts, NEW s \in Sims,
         NEW r \in Memory
  PROVE  LET q == [pr EXCEPT ![c][s] = r]
         IN /\ q \in [Contexts -> [Sims -> Memory]]
            /\ \A d \in Contexts, t \in Sims :
                 q[d][t] = IF d = c /\ t = s THEN r ELSE pr[d][t]
<1> HIDE DEF Memory
<1> QED OBVIOUS

LEMMA TreeKept ==
  ASSUME NEW pr, NEW q, NEW n, NEW par \in [Contexts -> Contexts \cup {None}],
         Tree(pr, n, par),
         \A g \in Contexts, t \in Sims :
           /\ pr[g][t].pc # "none" => q[g][t].pc # "none"
           /\ q[g][t].child # None => q[g][t].child = pr[g][t].child
  PROVE  Tree(q, n, par)
<1>1. ASSUME NEW g \in Contexts, par[g] # None
      PROVE  /\ par[g] < g /\ g <= n
             /\ \A s \in Sims : q[par[g]][s].pc # "none"
  <2>1. par[g] \in Contexts
    BY <1>1
  <2> QED BY <1>1, <2>1 DEF Tree
<1>2. ASSUME NEW c \in Contexts, NEW s \in Sims, q[c][s].child # None
      PROVE  LET g == q[c][s].child
             IN g \in Contexts /\ g <= n /\ par[g] = c /\ q[g][s].pc # "none"
  <2> DEFINE g == pr[c][s].child
  <2>1. q[c][s].child = g
    BY <1>2
  <2>2. g \in Contexts /\ g <= n /\ par[g] = c /\ pr[g][s].pc # "none"
    BY <1>2, <2>1 DEF Tree
  <2> HIDE DEF g
  <2> QED BY <2>1, <2>2
<1> QED BY <1>1, <1>2 DEF Tree

\* A process that nothing waits for goes on in its part of the loop, or ends.
LEMMA Move ==
  ASSUME NEW pr, NEW calls, NEW n, NEW par, NEW un, NEW ini, NEW re, NEW done,
         Good(pr, calls, n, par, un, ini, re, done),
         NEW c \in Contexts, NEW s \in Sims, NEW r,
         Acts(pr[c][s]), ~Hangs(pr[c][s]), ~Connecting(pr[c][s]),
         \A k \in Calls : s \notin calls[c][k],
         Local(s, r), r.child \in {None, pr[c][s].child}, r.pc # "none",
         ~Pending(r), ~Connecting(r),
         Lives(r) => (Young(r) <=> Young(pr[c][s])),
         Acts(r) => /\ Phase(r) = Phase(pr[c][s])
                    /\ Due(r) = Due(pr[c][s])
                    /\ Heir(r) = Heir(pr[c][s])
  PROVE  Good([pr EXCEPT ![c][s] = r], calls, n, par, un, ini, re, done)
<1> DEFINE q == [pr EXCEPT ![c][s] = r]
<1>1. /\ q \in [Contexts -> [Sims -> Memory]]
      /\ \A d \in Contexts, t \in Sims :
           q[d][t] = IF d = c /\ t = s THEN r ELSE pr[d][t]
  BY Updated DEF Good, Typed, Local
<1> HIDE DEF q, Memory
<1> USE DEF Good
<1>2. Typed(q, calls, n, par, un, ini, re, done)
  BY <1>1 DEF Typed
<1>3. AllLocal(q)
  BY <1>1 DEF AllLocal
<1>4. CallsMade(q, calls)
  <2> SUFFICES ASSUME NEW d \in Contexts, NEW k \in Calls, NEW t \in calls[d][k]
               PROVE  /\ \/ q[d][t].pc = k /\ q[d][t].rep = None
                         \/ q[d][t].pc = "killed"
                      /\ k = "action" => q[d][t].offer \in Nat
    BY DEF CallsMade
  <2>1. t \in Sims
    BY DEF Typed
  <2>2. q[d][t] = pr[d][t]
    BY <1>1, <2>1
  <2> QED BY <2>2 DEF CallsMade
<1>5. Alike(q)
  BY <1>1 DEF Alike
<1>6. GrowUp(q, un)
  <2>1. Lives(pr[c][s])
    BY DEF Acts
  <2> QED BY <1>1, <2>1 DEF GrowUp
<1>7. Forking(q, n, par, un)
  <2> SUFFICES ASSUME NEW d \in Contexts, NEW u \in Sims, Pending(q[d][u])
               PROVE  LET g == q[d][u].rep.context
                      IN /\ g \in Contexts /\ g <= n /\ par[g] = d
                         /\ q[g][u].pc = "none"
                         /\ ~un[g]
                         /\ \A t \in Sims :
                              /\ Lives(q[g][t]) =>
                                   Connecting(q[g][t]) /\ q[g][t].min = q[d][u].rep.value
                              /\ Pending(q[d][t]) => q[d][t].rep.value = q[d][u].rep.value
    BY DEF Forking
  <2>1. q[d][u] = pr[d][u] /\ Pending(pr[d][u])
    BY <1>1
  <2> DEFINE g == pr[d][u].rep.context
  <2>2. /\ g \in Contexts /\ g <= n /\ par[g] = d
        /\ pr[g][u].pc = "none"
        /\ ~un[g]
        /\ \A t \in Sims :
             /\ Lives(pr[g][t]) =>
                  Connecting(pr[g][t]) /\ pr[g][t].min = pr[d][u].rep.value
             /\ Pending(pr[d][t]) => pr[d][t].rep.value = pr[d][u].rep.value
    <3>1. Forking(pr, n, par, un)
      OBVIOUS
    <3> HIDE DEF Good
    <3> QED BY <2>1, <3>1 DEF Forking
  <2>3. \A t \in Sims : ~(g = c /\ t = s)
    BY <2>2 DEF Acts
  <2> HIDE DEF g
  <2>4. \A t \in Sims : q[g][t] = pr[g][t]
    BY <1>1, <2>2, <2>3
  <2>5. \A t \in Sims : Pending(q[d][t]) => Pending(pr[d][t]) /\ q[d][t] = pr[d][t]
    BY <1>1
  <2>6. q[d][u].rep.context = g
    BY <2>1 DEF g
  <2> HIDE DEF Good
  <2>7. \A t \in Sims :
          /\ Lives(q[g][t]) => Connecting(q[g][t]) /\ q[g][t].min = q[d][u].rep.value
          /\ Pending(q[d][t]) => q[d][t].rep.value = q[d][u].rep.value
    BY <2>1, <2>2, <2>4, <2>5
  <2>8. q[g][u].pc = "none"
    BY <2>2, <2>4
  <2> QED BY <2>2, <2>6, <2>7, <2>8
<1>8. Unused(q, n, un)
  <2>1. pr[c][s].pc # "none"
    BY DEF Acts, Lives
  <2> QED BY <1>1, <2>1 DEF Unused
<1>9. Tree(q, n, par)
  <2>1. \A g \in Contexts, t \in Sims :
          /\ pr[g][t].pc # "none" => q[g][t].pc # "none"
          /\ q[g][t].child # None => q[g][t].child = pr[g][t].child
    BY <1>1
  <2> QED BY <2>1, TreeKept, ZenonT(60) DEF Typed
<1>10. \A g \in Contexts : Unborn(q, par, ini, g) => Unborn(pr, par, ini, g) /\ par[g] # c
  <2> SUFFICES ASSUME NEW g \in Contexts, Unborn(q, par, ini, g)
               PROVE  Unborn(pr, par, ini, g) /\ par[g] # c
    OBVIOUS
  <2>1. par[g] \in Contexts
    BY DEF Unborn, Typed
  <2>2. \A t \in Sims : /\ Pending(q[par[g]][t]) => q[par[g]][t] = pr[par[g]][t]
                        /\ Connecting(q[g][t]) => q[g][t] = pr[g][t]
    BY <1>1, <2>1
  <2>3. Unborn(pr, par, ini, g)
    BY <2>2 DEF Unborn
  <2> QED BY <2>3 DEF Births
<1>11. Births(q, par, ini, done)
  <2>1. \A g \in Contexts, t \in Sims : Connecting(q[g][t]) => Connecting(pr[g][t])
    BY <1>1
  <2>2. \A g \in Contexts : Unborn(q, par, ini, g) =>
          \A t \in Sims : q[par[g]][t] = pr[par[g]][t]
    BY <1>1, <1>10 DEF Unborn, Typed
  <2> QED BY <2>1, <2>2, <1>10 DEF Births
<1>12. Connected(q, par, ini, re, done)
  <2>1. ~done[c] /\ s \notin re[c]
    BY DEF Connected, Hangs, Typed
  <2>2. \A x \in ini : ~(x[3] = c /\ x[2] = s)
    BY DEF Connected, Connecting
  <2>3. \A x \in ini : x[3] \in Contexts /\ x[2] \in Sims
    BY DEF Typed
  <2> QED BY <1>1, <2>1, <2>2, <2>3 DEF Connected
<1> QED BY <1>2, <1>3, <1>4, <1>5, <1>6, <1>7, <1>8, <1>9, <1>11, <1>12 DEF q

\* A process is killed.
LEMMA Kills ==
  ASSUME NEW pr, NEW calls, NEW n, NEW par, NEW un, NEW ini, NEW re, NEW done,
         Good(pr, calls, n, par, un, ini, re, done),
         NEW c \in Contexts, NEW s \in Sims, NEW r,
         pr[c][s].pc # "none",
         Local(s, r), r.pc = "killed", r.offer = pr[c][s].offer
  PROVE  Good([pr EXCEPT ![c][s] = r], calls, n, par, un, ini, re, done)
<1> DEFINE q == [pr EXCEPT ![c][s] = r]
<1>1. /\ q \in [Contexts -> [Sims -> Memory]]
      /\ \A d \in Contexts, t \in Sims :
           q[d][t] = IF d = c /\ t = s THEN r ELSE pr[d][t]
  BY Updated DEF Good, Typed, Local
<1>0. /\ ~Lives(r) /\ ~Acts(r) /\ ~Pending(r) /\ ~Connecting(r) /\ r.pc # "none"
      /\ r.child = None
  BY DEF Acts, Lives, Pending, Connecting, Local
<1> HIDE DEF q, Memory
<1> USE DEF Good
<1>2. Typed(q, calls, n, par, un, ini, re, done)
  BY <1>1 DEF Typed
<1>3. AllLocal(q)
  BY <1>1 DEF AllLocal
<1>4. CallsMade(q, calls)
  <2> SUFFICES ASSUME NEW d \in Contexts, NEW k \in Calls, NEW t \in calls[d][k]
               PROVE  /\ \/ q[d][t].pc = k /\ q[d][t].rep = None
                         \/ q[d][t].pc = "killed"
                      /\ k = "action" => q[d][t].offer \in Nat
    BY DEF CallsMade
  <2>1. t \in Sims
    BY DEF Typed
  <2>2. \/ q[d][t] = pr[d][t]
        \/ q[d][t].pc = "killed" /\ q[d][t].offer = pr[d][t].offer
    BY <1>1, <2>1
  <2> QED BY <2>2 DEF CallsMade
<1>5. Alike(q)
  BY <1>0, <1>1 DEF Alike
<1>6. GrowUp(q, un)
  BY <1>0, <1>1 DEF GrowUp
<1>7. Forking(q, n, par, un)
  <2> SUFFICES ASSUME NEW d \in Contexts, NEW u \in Sims, Pending(q[d][u])
               PROVE  LET g == q[d][u].rep.context
                      IN /\ g \in Contexts /\ g <= n /\ par[g] = d
                         /\ q[g][u].pc = "none"
                         /\ ~un[g]
                         /\ \A t \in Sims :
                              /\ Lives(q[g][t]) =>
                                   Connecting(q[g][t]) /\ q[g][t].min = q[d][u].rep.value
                              /\ Pending(q[d][t]) => q[d][t].rep.value = q[d][u].rep.value
    BY DEF Forking
  <2>1. q[d][u] = pr[d][u] /\ Pending(pr[d][u])
    BY <1>0, <1>1
  <2> DEFINE g == pr[d][u].rep.context
  <2>2. /\ g \in Contexts /\ g <= n /\ par[g] = d
        /\ pr[g][u].pc = "none"
        /\ ~un[g]
        /\ \A t \in Sims :
             /\ Lives(pr[g][t]) =>
                  Connecting(pr[g][t]) /\ pr[g][t].min = pr[d][u].rep.value
             /\ Pending(pr[d][t]) => pr[d][t].rep.value = pr[d][u].rep.value
    <3>1. Forking(pr, n, par, un)
      OBVIOUS
    <3> HIDE DEF Good
    <3> QED BY <2>1, <3>1 DEF Forking
  <2>3. ~(g = c /\ u = s)
    BY <2>2
  <2> HIDE DEF g
  <2>4. /\ q[g][u] = pr[g][u]
        /\ \A t \in Sims : Lives(q[g][t]) => q[g][t] = pr[g][t]
        /\ \A t \in Sims : Pending(q[d][t]) => q[d][t] = pr[d][t]
    BY <1>0, <1>1, <2>2, <2>3
  <2> QED BY <2>1, <2>2, <2>4 DEF g
<1>8. Unused(q, n, un)
  BY <1>1 DEF Unused
<1>9. Tree(q, n, par)
  <2>1. \A g \in Contexts, t \in Sims :
          /\ pr[g][t].pc # "none" => q[g][t].pc # "none"
          /\ q[g][t].child # None => q[g][t].child = pr[g][t].child
    BY <1>0, <1>1
  <2> QED BY <2>1, TreeKept, SMTT(30) DEF Typed
<1>10. \A g \in Contexts : Unborn(q, par, ini, g) => Unborn(pr, par, ini, g)
  <2> SUFFICES ASSUME NEW g \in Contexts, Unborn(q, par, ini, g)
               PROVE  Unborn(pr, par, ini, g)
    OBVIOUS
  <2>1. par[g] \in Contexts
    BY DEF Unborn, Typed
  <2>2. \A t \in Sims : /\ Pending(q[par[g]][t]) => q[par[g]][t] = pr[par[g]][t]
                        /\ Connecting(q[g][t]) => q[g][t] = pr[g][t]
    BY <1>0, <1>1, <2>1
  <2> QED BY <2>2 DEF Unborn
<1>11. Births(q, par, ini, done)
  <2>1. \A g \in Contexts, t \in Sims :
          /\ Connecting(q[g][t]) => Connecting(pr[g][t])
          /\ Acts(q[g][t]) => q[g][t] = pr[g][t]
    BY <1>0, <1>1
  <2>2. \A g \in Contexts : Unborn(q, par, ini, g) => par[g] \in Contexts
    BY DEF Unborn, Typed
  <2> QED BY <2>1, <2>2, <1>10 DEF Births
<1>12. Connected(q, par, ini, re, done)
  <2>1. \A d \in Contexts, t \in Sims :
          /\ Acts(q[d][t]) => q[d][t] = pr[d][t]
          /\ pr[d][t].pc # "none" => q[d][t].pc # "none"
    BY <1>0, <1>1
  <2>2. \A x \in ini : x[3] \in Contexts /\ x[2] \in Sims
    BY DEF Typed
  <2> QED BY <2>1, <2>2 DEF Connected
<1> QED BY <1>2, <1>3, <1>4, <1>5, <1>6, <1>7, <1>8, <1>9, <1>11, <1>12 DEF q

\* A process makes a call.
LEMMA Joins ==
  ASSUME NEW pr, NEW calls, NEW n, NEW par, NEW un, NEW ini, NEW re, NEW done,
         Good(pr, calls, n, par, un, ini, re, done),
         NEW c \in Contexts, NEW s \in Sims, NEW k \in Calls,
         pr[c][s].pc = k, pr[c][s].rep = None,
         k = "action" => pr[c][s].offer \in Nat
  PROVE  Good(pr, [calls EXCEPT ![c][k] = @ \cup {s}], n, par, un, ini, re, done)
<1> DEFINE C == [calls EXCEPT ![c][k] = @ \cup {s}]
<1> USE DEF Good
<1>1. /\ C \in [Contexts -> [Calls -> SUBSET Sims]]
      /\ \A d \in Contexts, j \in Calls :
           C[d][j] = IF d = c /\ j = k THEN calls[d][j] \cup {s} ELSE calls[d][j]
  <2>1. calls \in [Contexts -> [Calls -> SUBSET Sims]]
    BY DEF Typed
  <2> HIDE DEF Calls, Good
  <2> QED BY <2>1
<1> HIDE DEF C
<1>2. Typed(pr, C, n, par, un, ini, re, done)
  BY <1>1 DEF Typed
<1>3. CallsMade(pr, C)
  <2> SUFFICES ASSUME NEW d \in Contexts, NEW j \in Calls, NEW t \in C[d][j]
               PROVE  /\ \/ pr[d][t].pc = j /\ pr[d][t].rep = None
                         \/ pr[d][t].pc = "killed"
                      /\ j = "action" => pr[d][t].offer \in Nat
    BY DEF CallsMade
  <2>1. t \in calls[d][j] \/ (d = c /\ j = k /\ t = s)
    <3>1. CASE d = c /\ j = k
      <4>1. C[d][j] = calls[d][j] \cup {s}
        BY <1>1, <3>1
      <4> QED BY <4>1, <3>1
    <3>2. CASE ~(d = c /\ j = k)
      <4>1. C[d][j] = calls[d][j]
        BY <1>1, <3>2
      <4> QED BY <4>1
    <3> QED BY <3>1, <3>2
  <2> QED BY <2>1 DEF CallsMade
<1> QED BY <1>2, <1>3 DEF C

AllAnswered(pr, c, a) ==
  [pr EXCEPT ![c] = [t \in Sims |-> [pr[c][t] EXCEPT !.rep = a]]]

\* All processes of a context are given an answer.
LEMMA AnswersAll ==
  ASSUME NEW pr \in [Contexts -> [Sims -> Memory]], NEW c \in Contexts,
         NEW a \in BOOLEAN \cup Replies
  PROVE  LET q == AllAnswered(pr, c, a)
         IN /\ q \in [Contexts -> [Sims -> Memory]]
            /\ \A d \in Contexts, t \in Sims :
                 /\ d # c => q[d][t] = pr[d][t]
                 /\ q[c][t].rep = a /\ q[c][t].pc = pr[c][t].pc
                 /\ q[c][t].cur = pr[c][t].cur /\ q[c][t].granted = pr[c][t].granted
                 /\ q[c][t].busy = pr[c][t].busy /\ q[c][t].offer = pr[c][t].offer
                 /\ q[c][t].min = pr[c][t].min /\ q[c][t].isChild = pr[c][t].isChild
                 /\ q[c][t].child = pr[c][t].child
<1> DEFINE q == AllAnswered(pr, c, a)
<1>1. ASSUME NEW r \in Memory
      PROVE  LET x == [r EXCEPT !.rep = a]
             IN /\ x \in Memory
                /\ x.rep = a /\ x.pc = r.pc /\ x.cur = r.cur /\ x.granted = r.granted
                /\ x.busy = r.busy /\ x.offer = r.offer /\ x.min = r.min
                /\ x.isChild = r.isChild /\ x.child = r.child
  <2>1. [r EXCEPT !.rep = a] \in Memory
    <3> HIDE DEF Replies, Places
    <3> QED BY DEF Memory
  <2> QED BY <2>1 DEF Memory
<1> HIDE DEF Memory
<1>2. q[c] = [t \in Sims |-> [pr[c][t] EXCEPT !.rep = a]]
      /\ \A d \in Contexts : d # c => q[d] = pr[d]
  BY DEF AllAnswered
<1>3. q \in [Contexts -> [Sims -> Memory]]
  <2>1. [t \in Sims |-> [pr[c][t] EXCEPT !.rep = a]] \in [Sims -> Memory]
    BY <1>1
  <2> QED BY <2>1 DEF AllAnswered
<1> HIDE DEF q
<1>4. \A t \in Sims : q[c][t] = [pr[c][t] EXCEPT !.rep = a] /\ pr[c][t] \in Memory
  BY <1>2
<1>5. \A t \in Sims :
                 /\ q[c][t].rep = a /\ q[c][t].pc = pr[c][t].pc
                 /\ q[c][t].cur = pr[c][t].cur /\ q[c][t].granted = pr[c][t].granted
                 /\ q[c][t].busy = pr[c][t].busy /\ q[c][t].offer = pr[c][t].offer
                 /\ q[c][t].min = pr[c][t].min /\ q[c][t].isChild = pr[c][t].isChild
                 /\ q[c][t].child = pr[c][t].child
  <2> TAKE t \in Sims
  <2> DEFINE x == [pr[c][t] EXCEPT !.rep = a]
  <2>1. q[c][t] = x
    BY <1>4
  <2>2. /\ x.rep = a /\ x.pc = pr[c][t].pc /\ x.cur = pr[c][t].cur
        /\ x.granted = pr[c][t].granted
        /\ x.busy = pr[c][t].busy /\ x.offer = pr[c][t].offer /\ x.min = pr[c][t].min
        /\ x.isChild = pr[c][t].isChild /\ x.child = pr[c][t].child
    BY <1>1, <1>4
  <2> HIDE DEF x
  <2> QED BY <2>1, <2>2
<1> QED BY <1>2, <1>3, <1>5 DEF q

AnswersTo(k) ==
  IF k = "barrier" THEN {TRUE} ELSE IF k = "sr" THEN BOOLEAN ELSE Replies

PhaseAfter(k) ==
  IF k = "barrier" THEN "together" ELSE IF k = "sr" THEN "agreeing" ELSE "ahead"

\* x is what process r becomes when call k is answered.
Answering(s, r, x, k) ==
  /\ Local(s, r) /\ r.pc = k /\ r.rep = None
  /\ x \in Memory /\ x.pc = r.pc /\ x.cur = r.cur /\ x.granted = r.granted
  /\ x.busy = r.busy /\ x.offer = r.offer /\ x.min = r.min
  /\ x.isChild = r.isChild /\ x.child = r.child
  /\ x.rep \in AnswersTo(k)

\* What the answer does to it.
Effect(s, r, x, k) ==
  /\ Local(s, x) /\ Acts(x) /\ Acts(r)
  /\ ~Connecting(x) /\ ~Connecting(r)
  /\ Phase(x) = PhaseAfter(k)
  /\ k \in {"barrier", "sr"} => Due(x) = Due(r)
  /\ k \in {"min", "action"} => Due(x) = x.rep.time
  /\ Heir(r) = r.child
  /\ k = "barrier" => Heir(x) = Heir(r) /\ ~Young(x)
  /\ k # "barrier" => (Young(x) <=> Young(r))
  /\ k = "sr" => Heir(x) = IF x.rep = TRUE THEN None ELSE r.child
  /\ k = "min" => Heir(x) = Heir(r)
  /\ k # "action" => ~Pending(x)
  /\ k = "action" => (Pending(x) <=> (r.child = None /\ x.rep.value # 0))
  /\ k = "action" /\ Pending(x) => Heir(x) = x.rep.context
  /\ k = "action" /\ ~Pending(x) =>
       Heir(x) = IF x.rep.value \in {DoFailAll, Failed} THEN None ELSE r.child

LEMMA Answer1 ==
  ASSUME NEW s \in Sims, NEW r, NEW x, NEW k \in Calls, Answering(s, r, x, k)
  PROVE  Effect(s, r, x, k)
<1> USE DEF Answering, Effect
<1> USE DEF AnswersTo, PhaseAfter
<1>1. x.rep # None
  BY SpeculationAssumption DEF Replies
<1>2. Local(s, x)
  <2> HIDE DEF Memory, Replies
  <2> QED BY <1>1 DEF Local, Calls
<1>3. /\ Acts(x) /\ Acts(r) /\ ~Connecting(x) /\ ~Connecting(r)
      /\ Heir(r) = r.child
  BY <1>1, SpeculationAssumption DEF Calls, Acts, Lives, Connecting, Heir, Pending
<1>4. CASE k = "barrier"
  BY <1>1, <1>2, <1>3, <1>4 DEF Phase, Due, Heir, Young, Pending
<1>5. CASE k = "sr"
  BY <1>1, <1>2, <1>3, <1>5 DEF Phase, Due, Heir, Young, Pending
<1>6. CASE k = "min"
  BY <1>1, <1>2, <1>3, <1>6 DEF Phase, Due, Heir, Young, Pending
<1>7. CASE k = "action"
  <2>1. /\ Phase(x) = "ahead" /\ Due(x) = x.rep.time
        /\ Pending(x) <=> (r.child = None /\ x.rep.value # 0)
        /\ (Young(x) <=> Young(r))
    BY <1>1, <1>7 DEF Phase, Due, Young, Pending
  <2>2. Pending(x) => Heir(x) = x.rep.context
    BY DEF Heir
  <2>3. ~Pending(x) => Heir(x) = IF x.rep.value \in {DoFailAll, Failed} THEN None ELSE r.child
    BY <1>1, <1>7 DEF Heir
  <2> QED BY <1>2, <1>3, <1>7, <2>1, <2>2, <2>3
<1> QED BY <1>4, <1>5, <1>6, <1>7 DEF Calls

\* The last one has made its call, and all are answered: the barrier, the
\* difference, or a minimum while there is a difference.
LEMMA Completes ==
  ASSUME NEW pr, NEW calls, NEW n, NEW par, NEW un, NEW ini, NEW re, NEW done,
         Good(pr, calls, n, par, un, ini, re, done),
         NEW c \in Contexts, NEW s \in Sims, Acts(pr[c][s]),
         NEW k \in Calls \ {"action"}, calls[c][k] = Sims,
         NEW a \in AnswersTo(k)
  PROVE  Good(AllAnswered(pr, c, a),
              [calls EXCEPT ![c][k] = {}], n, par, un, ini, re, done)
<1> DEFINE q == AllAnswered(pr, c, a)
           C == [calls EXCEPT ![c][k] = {}]
<1> USE DEF Good
<1>1. /\ q \in [Contexts -> [Sims -> Memory]]
      /\ \A d \in Contexts, t \in Sims :
           /\ d # c => q[d][t] = pr[d][t]
           /\ q[c][t].rep = a /\ q[c][t].pc = pr[c][t].pc
           /\ q[c][t].cur = pr[c][t].cur /\ q[c][t].granted = pr[c][t].granted
           /\ q[c][t].busy = pr[c][t].busy /\ q[c][t].offer = pr[c][t].offer
           /\ q[c][t].min = pr[c][t].min /\ q[c][t].isChild = pr[c][t].isChild
           /\ q[c][t].child = pr[c][t].child
  <2>1. pr \in [Contexts -> [Sims -> Memory]]
    BY DEF Typed
  <2>2. a \in BOOLEAN \cup Replies
    BY DEF AnswersTo
  <2> QED BY <2>1, <2>2, AnswersAll
<1>2. /\ C \in [Contexts -> [Calls -> SUBSET Sims]]
      /\ \A d \in Contexts, j \in Calls : C[d][j] \subseteq calls[d][j]
      /\ C[c][k] = {}
  <2>1. calls \in [Contexts -> [Calls -> SUBSET Sims]]
    BY DEF Typed
  <2> HIDE DEF Calls, Good
  <2> QED BY <2>1
<1> HIDE DEF q, C, Memory
<1>3. \A t \in Sims : \/ pr[c][t].pc = k /\ pr[c][t].rep = None
                      \/ pr[c][t].pc = "killed"
  BY DEF CallsMade
<1>4. \A t \in Sims : pr[c][t].pc = "killed" =>
        /\ ~Lives(q[c][t]) /\ ~Acts(q[c][t]) /\ ~Pending(q[c][t]) /\ ~Connecting(q[c][t])
        /\ ~Lives(pr[c][t]) /\ ~Acts(pr[c][t]) /\ Local(t, q[c][t])
  <2> SUFFICES ASSUME NEW t \in Sims, pr[c][t].pc = "killed"
               PROVE  /\ ~Lives(q[c][t]) /\ ~Acts(q[c][t]) /\ ~Pending(q[c][t])
                      /\ ~Connecting(q[c][t])
                      /\ ~Lives(pr[c][t]) /\ ~Acts(pr[c][t]) /\ Local(t, q[c][t])
    OBVIOUS
  <2>1. q[c][t].pc = "killed" /\ q[c][t] \in Memory /\ q[c][t].child = None
        /\ (t = NetSim => q[c][t].cur >= q[c][t].granted)
    <3>1. Local(t, pr[c][t])
      BY DEF AllLocal
    <3> QED BY <1>1, <3>1 DEF Local
  <2> QED BY <2>1 DEF Lives, Acts, Pending, Connecting, Local
<1>5. \A t \in Sims : pr[c][t].pc = k /\ pr[c][t].rep = None =>
         /\ Local(t, q[c][t]) /\ Acts(q[c][t]) /\ Acts(pr[c][t])
         /\ ~Connecting(q[c][t]) /\ ~Connecting(pr[c][t])
         /\ Phase(q[c][t]) = PhaseAfter(k)
         /\ k \in {"barrier", "sr"} => Due(q[c][t]) = Due(pr[c][t])
         /\ k = "min" => Due(q[c][t]) = a.time
         /\ Heir(pr[c][t]) = pr[c][t].child
         /\ Heir(q[c][t]) = IF k = "sr" /\ a = TRUE THEN None ELSE Heir(pr[c][t])
         /\ k = "barrier" => ~Young(q[c][t])
         /\ k # "barrier" => (Young(q[c][t]) <=> Young(pr[c][t]))
         /\ ~Pending(q[c][t])
  <2> TAKE t \in Sims
  <2> HAVE pr[c][t].pc = k /\ pr[c][t].rep = None
  <2>1. Local(t, pr[c][t]) /\ q[c][t] \in Memory
    BY <1>1 DEF AllLocal
  <2>2. k \in Calls /\ k # "action"
    OBVIOUS
  <2> DEFINE r == pr[c][t]
             x == q[c][t]
  <2>3. Answering(t, r, x, k)
    BY <1>1, <2>1 DEF Answering
  <2> HIDE DEF r, x, Good
  <2>4. Effect(t, r, x, k)
    BY <2>2, <2>3, Answer1
  <2>6. x.rep = a
    BY <1>1 DEF x
  <2>5. Heir(x) = IF k = "sr" /\ a = TRUE THEN None ELSE Heir(r)
    BY <2>2, <2>3, <2>4, <2>6 DEF Calls, Effect
  <2> QED BY <2>2, <2>3, <2>4, <2>5, <2>6 DEF r, x, Effect
<1>6. Typed(q, C, n, par, un, ini, re, done)
  BY <1>1, <1>2 DEF Typed
<1>7. AllLocal(q)
  BY <1>1, <1>3, <1>4, <1>5 DEF AllLocal
<1>8. CallsMade(q, C)
  <2> SUFFICES ASSUME NEW d \in Contexts, NEW j \in Calls, NEW t \in C[d][j]
               PROVE  /\ \/ q[d][t].pc = j /\ q[d][t].rep = None
                         \/ q[d][t].pc = "killed"
                      /\ j = "action" => q[d][t].offer \in Nat
    BY DEF CallsMade
  <2>1. t \in calls[d][j] /\ t \in Sims /\ ~(d = c /\ j = k)
    BY <1>2 DEF Typed
  <2>2. /\ \/ pr[d][t].pc = j /\ pr[d][t].rep = None
           \/ pr[d][t].pc = "killed"
        /\ j = "action" => pr[d][t].offer \in Nat
    BY <2>1 DEF CallsMade
  <2>3. CASE d # c
    BY <1>1, <2>1, <2>2, <2>3
  <2>4. CASE d = c
    BY <1>1, <1>3, <2>1, <2>2, <2>4
  <2> QED BY <2>3, <2>4
<1>9. Alike(q)
  <2> SUFFICES ASSUME NEW d \in Contexts, NEW t \in Sims, NEW u \in Sims,
                      Acts(q[d][t]), Acts(q[d][u])
               PROVE  /\ Phase(q[d][t]) = Phase(q[d][u])
                      /\ Due(q[d][t]) = Due(q[d][u])
                      /\ Heir(q[d][t]) = Heir(q[d][u])
    BY DEF Alike
  <2>1. CASE d # c
    <3>1. q[d][t] = pr[d][t] /\ q[d][u] = pr[d][u]
      BY <1>1, <2>1
    <3> QED BY <3>1 DEF Alike
  <2>2. CASE d = c
    <3>1. /\ pr[c][t].pc = k /\ pr[c][t].rep = None
          /\ pr[c][u].pc = k /\ pr[c][u].rep = None
      BY <1>3, <1>4, <2>2
    <3>2. Due(pr[c][t]) = Due(pr[c][u]) /\ Heir(pr[c][t]) = Heir(pr[c][u])
      BY <1>5, <3>1 DEF Alike
    <3>3. Phase(q[c][t]) = Phase(q[c][u]) /\ Heir(q[c][t]) = Heir(q[c][u])
      BY <1>5, <3>1, <3>2
    <3>4. Due(q[c][t]) = Due(q[c][u])
      BY <1>5, <3>1, <3>2 DEF Calls
    <3> QED BY <2>2, <3>3, <3>4
  <2> QED BY <2>1, <2>2
<1>10. GrowUp(q, un)
  <2> SUFFICES ASSUME NEW d \in Contexts, NEW t \in Sims, Lives(q[d][t]), Young(q[d][t])
               PROVE  ~un[d] /\ \A u \in Sims : Lives(q[d][u]) => Young(q[d][u])
    BY DEF GrowUp
  <2>1. CASE d # c
    <3>1. \A u \in Sims : q[d][u] = pr[d][u]
      BY <1>1, <2>1
    <3> QED BY <3>1 DEF GrowUp
  <2>2. CASE d = c
    <3>1. pr[c][t].pc = k /\ pr[c][t].rep = None /\ k # "barrier" /\ Young(pr[c][t])
      BY <1>3, <1>4, <1>5, <2>2
    <3>2. ~un[c] /\ \A u \in Sims : Lives(pr[c][u]) => Young(pr[c][u])
      BY <1>5, <3>1 DEF GrowUp, Acts
    <3>3. \A u \in Sims : Lives(q[c][u]) =>
            pr[c][u].pc = k /\ pr[c][u].rep = None /\ Lives(pr[c][u])
      BY <1>3, <1>4, <1>5 DEF Acts
    <3> QED BY <1>5, <2>2, <3>1, <3>2, <3>3
  <2> QED BY <2>1, <2>2
<1>11. \A g \in Contexts, t \in Sims :
         /\ q[g][t].pc = pr[g][t].pc /\ q[g][t].child = pr[g][t].child
         /\ Pending(q[g][t]) => g # c
         /\ Connecting(q[g][t]) => g # c
  BY <1>1, <1>3, <1>4, <1>5
<1>12. \A t \in Sims : pr[c][t].pc # "none"
  BY <1>3 DEF Calls
<1>13. Forking(q, n, par, un)
  <2> SUFFICES ASSUME NEW d \in Contexts, NEW u \in Sims, Pending(q[d][u])
               PROVE  LET g == q[d][u].rep.context
                      IN /\ g \in Contexts /\ g <= n /\ par[g] = d
                         /\ q[g][u].pc = "none"
                         /\ ~un[g]
                         /\ \A t \in Sims :
                              /\ Lives(q[g][t]) =>
                                   Connecting(q[g][t]) /\ q[g][t].min = q[d][u].rep.value
                              /\ Pending(q[d][t]) => q[d][t].rep.value = q[d][u].rep.value
    BY DEF Forking
  <2>1. d # c /\ \A t \in Sims : q[d][t] = pr[d][t]
    BY <1>1, <1>11
  <2> DEFINE g == pr[d][u].rep.context
  <2>2. /\ g \in Contexts /\ g <= n /\ par[g] = d
        /\ pr[g][u].pc = "none"
        /\ ~un[g]
        /\ \A t \in Sims :
             /\ Lives(pr[g][t]) =>
                  Connecting(pr[g][t]) /\ pr[g][t].min = pr[d][u].rep.value
             /\ Pending(pr[d][t]) => pr[d][t].rep.value = pr[d][u].rep.value
    <3>1. Forking(pr, n, par, un)
      OBVIOUS
    <3> HIDE DEF Good
    <3> QED BY <2>1, <3>1 DEF Forking
  <2> HIDE DEF g
  <2>3. g # c /\ \A t \in Sims : q[g][t] = pr[g][t]
    BY <1>1, <1>12, <2>2
  <2> QED BY <2>1, <2>2, <2>3, SMTT(30) DEF g
<1>14. Unused(q, n, un)
  BY <1>11 DEF Unused
<1>15. Tree(q, n, par)
  <2>1. /\ par \in [Contexts -> Contexts \cup {None}] /\ Tree(pr, n, par)
        /\ \A g \in Contexts, t \in Sims :
             /\ pr[g][t].pc # "none" => q[g][t].pc # "none"
             /\ q[g][t].child # None => q[g][t].child = pr[g][t].child
    BY <1>11 DEF Typed
  <2> QED BY <2>1, TreeKept
<1>16. \A g \in Contexts : Unborn(q, par, ini, g) => Unborn(pr, par, ini, g) /\ par[g] # c
  <2> SUFFICES ASSUME NEW g \in Contexts, Unborn(q, par, ini, g)
               PROVE  Unborn(pr, par, ini, g) /\ par[g] # c
    OBVIOUS
  <2>1. par[g] \in Contexts
    BY DEF Unborn, Typed
  <2>2. \A t \in Sims : /\ Pending(q[par[g]][t]) => q[par[g]][t] = pr[par[g]][t]
                        /\ Connecting(q[g][t]) => q[g][t] = pr[g][t]
    BY <1>1, <1>11, <2>1
  <2>3. Unborn(pr, par, ini, g)
    BY <2>2 DEF Unborn
  <2>4. ~Hangs(pr[c][s])
    BY <1>3 DEF Hangs, Pending, Acts, Lives, Calls
  <2> QED BY <2>3, <2>4 DEF Births
<1>17. Births(q, par, ini, done)
  <2>1. \A g \in Contexts, t \in Sims : Connecting(q[g][t]) => Connecting(pr[g][t])
    BY <1>1, <1>11
  <2>2. \A g \in Contexts : Unborn(q, par, ini, g) =>
          par[g] \in Contexts /\ \A t \in Sims : q[par[g]][t] = pr[par[g]][t]
    <3>1. \A g \in Contexts : Unborn(q, par, ini, g) => par[g] \in Contexts /\ par[g] # c
      BY <1>16 DEF Unborn, Typed
    <3> QED BY <1>1, <3>1
  <2> QED BY <2>1, <2>2, <1>16 DEF Births
<1>18. Connected(q, par, ini, re, done)
  <2>1. \A t \in Sims : Acts(pr[c][t]) => ~Hangs(pr[c][t]) /\ pr[c][t].pc \notin {"reinit", "init"}
    BY <1>3 DEF Hangs, Pending, Acts, Lives, Calls
  <2>2. ~done[c] /\ \A t \in Sims : Acts(pr[c][t]) => t \notin re[c]
    BY <2>1 DEF Connected
  <2>3. \A x \in ini : x[3] \in Contexts /\ x[2] \in Sims
    BY DEF Typed
  <2>4. \A t \in Sims : Acts(q[c][t]) => Acts(pr[c][t])
    BY <1>3, <1>4, <1>5
  <2>5. \A d \in Contexts, t \in Sims :
          /\ done[d] \/ t \in re[d] => q[d][t].pc # "none"
          /\ Acts(q[d][t]) =>
               /\ done[d] => Hangs(q[d][t]) /\ ~Pending(q[d][t])
               /\ t \in re[d] => q[d][t].pc = "reinit" /\ q[d][t].rep = None
    BY <1>1, <1>12, <2>2, <2>4 DEF Connected
  <2>6. \A x \in ini :
          /\ par[x[3]] = x[1]
          /\ q[x[3]][x[2]].pc # "none"
          /\ Acts(q[x[3]][x[2]]) =>
               q[x[3]][x[2]].pc = "init" /\ q[x[3]][x[2]].rep = None
    BY <1>1, <1>11, <2>1, <2>3, <2>4 DEF Connected
  <2> QED BY <2>5, <2>6 DEF Connected
<1> QED BY <1>6, <1>7, <1>8, <1>9, <1>10, <1>13, <1>14, <1>15, <1>17, <1>18 DEF q, C

\* The same for the actions: all may be about to fork, into the next context.
LEMMA Agrees ==
  ASSUME NEW pr, NEW calls, NEW n, NEW par, NEW un, NEW ini, NEW re, NEW done,
         Good(pr, calls, n, par, un, ini, re, done),
         NEW c \in Contexts, NEW s \in Sims, Acts(pr[c][s]),
         calls[c]["action"] = Sims,
         NEW a \in Replies, a.context = n + 1, NEW m, NEW above,
         IF a.value # 0 /\ \A t \in Sims : pr[c][t].child = None
         THEN n + 1 \in Contexts /\ m = n + 1 /\ above = [par EXCEPT ![n + 1] = c]
         ELSE m = n /\ above = par
  PROVE  Good(AllAnswered(pr, c, a),
              [calls EXCEPT ![c]["action"] = {}], m, above, un, ini, re, done)
<1> DEFINE forks == a.value # 0 /\ \A t \in Sims : pr[c][t].child = None
           k == "action"
           q == AllAnswered(pr, c, a)
           C == [calls EXCEPT ![c]["action"] = {}]
<1>a. k \in Calls /\ k = "action"
  BY DEF Calls
<1>b. IF forks THEN n + 1 \in Contexts /\ m = n + 1 /\ above = [par EXCEPT ![n + 1] = c]
               ELSE m = n /\ above = par
  OBVIOUS
<1>c. C = [calls EXCEPT ![c][k] = {}] /\ calls[c][k] = Sims
  OBVIOUS
<1>d. a.value \in Nat /\ a.context = n + 1 /\ a \in Replies
  BY DEF Replies
<1>n. n \in Nat /\ \A g \in Contexts : g \in Nat
  BY SpeculationAssumption DEF Good, Typed, Contexts
<1> HIDE DEF forks, k
<1> USE DEF Good
<1>1. /\ q \in [Contexts -> [Sims -> Memory]]
      /\ \A d \in Contexts, t \in Sims :
           /\ d # c => q[d][t] = pr[d][t]
           /\ q[c][t].rep = a /\ q[c][t].pc = pr[c][t].pc
           /\ q[c][t].cur = pr[c][t].cur /\ q[c][t].granted = pr[c][t].granted
           /\ q[c][t].busy = pr[c][t].busy /\ q[c][t].offer = pr[c][t].offer
           /\ q[c][t].min = pr[c][t].min /\ q[c][t].isChild = pr[c][t].isChild
           /\ q[c][t].child = pr[c][t].child
  <2>1. pr \in [Contexts -> [Sims -> Memory]]
    BY DEF Typed
  <2>2. a \in BOOLEAN \cup Replies
    BY <1>d
  <2> QED BY <2>1, <2>2, AnswersAll
<1>2. /\ C \in [Contexts -> [Calls -> SUBSET Sims]]
      /\ \A d \in Contexts, j \in Calls : C[d][j] \subseteq calls[d][j]
      /\ C[c][k] = {}
  <2>1. calls \in [Contexts -> [Calls -> SUBSET Sims]]
    BY DEF Typed
  <2> HIDE DEF Calls, Good
  <2> QED BY <2>1, <1>a, <1>c
<1> HIDE DEF q, C, Memory
<1>3. \A t \in Sims : \/ pr[c][t].pc = k /\ pr[c][t].rep = None
                      \/ pr[c][t].pc = "killed"
  BY <1>a, <1>c DEF CallsMade
<1>4. \A t \in Sims : pr[c][t].pc = "killed" =>
        /\ ~Lives(q[c][t]) /\ ~Acts(q[c][t]) /\ ~Pending(q[c][t]) /\ ~Connecting(q[c][t])
        /\ ~Lives(pr[c][t]) /\ ~Acts(pr[c][t]) /\ Local(t, q[c][t])
  <2> SUFFICES ASSUME NEW t \in Sims, pr[c][t].pc = "killed"
               PROVE  /\ ~Lives(q[c][t]) /\ ~Acts(q[c][t]) /\ ~Pending(q[c][t])
                      /\ ~Connecting(q[c][t])
                      /\ ~Lives(pr[c][t]) /\ ~Acts(pr[c][t]) /\ Local(t, q[c][t])
    OBVIOUS
  <2>1. q[c][t].pc = "killed" /\ q[c][t] \in Memory /\ q[c][t].child = None
        /\ (t = NetSim => q[c][t].cur >= q[c][t].granted)
    <3>1. Local(t, pr[c][t])
      BY DEF AllLocal
    <3> QED BY <1>1, <3>1 DEF Local
  <2> QED BY <2>1 DEF Lives, Acts, Pending, Connecting, Local
<1>5. \A t \in Sims : pr[c][t].pc = k /\ pr[c][t].rep = None =>
         /\ Local(t, q[c][t]) /\ Acts(q[c][t]) /\ Acts(pr[c][t])
         /\ ~Connecting(q[c][t]) /\ ~Connecting(pr[c][t])
         /\ Phase(q[c][t]) = "ahead" /\ Due(q[c][t]) = a.time
         /\ Heir(pr[c][t]) = pr[c][t].child
         /\ Young(q[c][t]) <=> Young(pr[c][t])
         /\ Pending(q[c][t]) <=> (pr[c][t].child = None /\ a.value # 0)
         /\ Pending(q[c][t]) => Heir(q[c][t]) = n + 1
         /\ ~Pending(q[c][t]) =>
              Heir(q[c][t]) = IF a.value \in {DoFailAll, Failed} THEN None
                              ELSE pr[c][t].child
  <2> TAKE t \in Sims
  <2> HAVE pr[c][t].pc = k /\ pr[c][t].rep = None
  <2>1. Local(t, pr[c][t]) /\ q[c][t] \in Memory
    BY <1>1 DEF AllLocal
  <2> DEFINE r == pr[c][t]
             x == q[c][t]
  <2>3. Answering(t, r, x, "action")
    BY <1>1, <1>a, <1>d, <2>1 DEF Answering, AnswersTo
  <2>6. x.rep = a
    BY <1>1 DEF x
  <2> HIDE DEF r, x, Good
  <2>4. Effect(t, r, x, "action")
    BY <1>a, <2>3, Answer1
  <2> QED BY <2>4, <2>6, <1>d DEF r, x, Effect, PhaseAfter
\* All of them fork or none does.
<1>e. \A t \in Sims : Acts(pr[c][t]) => pr[c][t].child = pr[c][s].child
  <2>1. \A t \in Sims : Acts(pr[c][t]) => Heir(pr[c][t]) = pr[c][t].child
    BY <1>3, <1>4, <1>5
  <2> QED BY <2>1 DEF Alike
<1>f. \A t \in Sims : pr[c][t].pc = "killed" => pr[c][t].child = None
  BY DEF AllLocal, Local
<1>g. \A t \in Sims : Pending(q[c][t]) => forks
  <2> SUFFICES ASSUME NEW t \in Sims, Pending(q[c][t])
               PROVE  forks
    OBVIOUS
  <2>1. pr[c][t].child = None /\ a.value # 0 /\ Acts(pr[c][t])
    BY <1>3, <1>4, <1>5
  <2>2. \A u \in Sims : pr[c][u].child = None
    BY <1>3, <1>4, <1>5, <1>e, <1>f, <2>1
  <2> QED BY <2>1, <2>2 DEF forks
<1>h. forks => \A t \in Sims : Acts(q[c][t]) => Pending(q[c][t])
  BY <1>3, <1>4, <1>5 DEF forks
<1>12. \A t \in Sims : pr[c][t].pc # "none"
  BY <1>3, <1>a
<1>i. c <= n
  <2>1. c \in Nat /\ pr[c][s].pc # "none"
    BY <1>n, <1>12
  <2> QED BY <1>n, <2>1 DEF Unused
\* The tree of contexts grows at most by the next one.
<1>j. /\ m \in Contexts /\ above \in [Contexts -> Contexts \cup {None}]
      /\ n <= m
      /\ \A g \in Contexts : g <= n => above[g] = par[g]
      /\ \A g \in Contexts : g > n => par[g] = None
      /\ \A g \in Contexts : above[g] = par[g] \/ (g = n + 1 /\ forks /\ above[g] = c)
      /\ forks => n + 1 \in Contexts /\ above[n + 1] = c /\ m = n + 1
  <2>1. par \in [Contexts -> Contexts \cup {None}] /\ n \in Contexts
    BY DEF Typed
  <2>2. \A g \in Contexts : g > n => par[g] = None
    BY <1>n DEF Tree
  <2>3. CASE forks
    <3>1. n + 1 \in Contexts /\ m = n + 1 /\ above = [par EXCEPT ![n + 1] = c]
      BY <1>b, <2>3
    <3>2. above \in [Contexts -> Contexts \cup {None}] /\ above[n + 1] = c
          /\ \A g \in Contexts : g # n + 1 => above[g] = par[g]
      BY <2>1, <3>1
    <3> QED BY <1>n, <2>1, <2>2, <2>3, <3>1, <3>2
  <2>4. CASE ~forks
    BY <1>b, <1>n, <2>1, <2>2, <2>4
  <2> QED BY <2>3, <2>4
<1>6. Typed(q, C, m, above, un, ini, re, done)
  BY <1>1, <1>2, <1>j DEF Typed
<1>7. AllLocal(q)
  BY <1>1, <1>3, <1>4, <1>5 DEF AllLocal
<1>8. CallsMade(q, C)
  <2> SUFFICES ASSUME NEW d \in Contexts, NEW j \in Calls, NEW t \in C[d][j]
               PROVE  /\ \/ q[d][t].pc = j /\ q[d][t].rep = None
                         \/ q[d][t].pc = "killed"
                      /\ j = "action" => q[d][t].offer \in Nat
    BY DEF CallsMade
  <2>1. t \in calls[d][j] /\ t \in Sims /\ ~(d = c /\ j = k)
    BY <1>2 DEF Typed
  <2>2. /\ \/ pr[d][t].pc = j /\ pr[d][t].rep = None
           \/ pr[d][t].pc = "killed"
        /\ j = "action" => pr[d][t].offer \in Nat
    BY <2>1 DEF CallsMade
  <2>3. CASE d # c
    BY <1>1, <2>1, <2>2, <2>3
  <2>4. CASE d = c
    BY <1>1, <1>3, <2>1, <2>2, <2>4
  <2> QED BY <2>3, <2>4
<1>9. Alike(q)
  <2> SUFFICES ASSUME NEW d \in Contexts, NEW t \in Sims, NEW u \in Sims,
                      Acts(q[d][t]), Acts(q[d][u])
               PROVE  /\ Phase(q[d][t]) = Phase(q[d][u])
                      /\ Due(q[d][t]) = Due(q[d][u])
                      /\ Heir(q[d][t]) = Heir(q[d][u])
    BY DEF Alike
  <2>1. CASE d # c
    <3>1. q[d][t] = pr[d][t] /\ q[d][u] = pr[d][u]
      BY <1>1, <2>1
    <3> QED BY <3>1 DEF Alike
  <2>2. CASE d = c
    <3>1. /\ pr[c][t].pc = k /\ pr[c][t].rep = None
          /\ pr[c][u].pc = k /\ pr[c][u].rep = None
      BY <1>3, <1>4, <2>2
    <3>2. pr[c][t].child = pr[c][u].child
      BY <1>5, <1>e, <3>1
    <3>3. Phase(q[c][t]) = Phase(q[c][u]) /\ Due(q[c][t]) = Due(q[c][u])
      BY <1>5, <3>1
    <3>4. Heir(q[c][t]) = Heir(q[c][u])
      BY <1>5, <3>1, <3>2
    <3> QED BY <2>2, <3>3, <3>4
  <2> QED BY <2>1, <2>2
<1>10. GrowUp(q, un)
  <2> SUFFICES ASSUME NEW d \in Contexts, NEW t \in Sims, Lives(q[d][t]), Young(q[d][t])
               PROVE  ~un[d] /\ \A u \in Sims : Lives(q[d][u]) => Young(q[d][u])
    BY DEF GrowUp
  <2>1. CASE d # c
    <3>1. \A u \in Sims : q[d][u] = pr[d][u]
      BY <1>1, <2>1
    <3> QED BY <3>1 DEF GrowUp
  <2>2. CASE d = c
    <3>1. pr[c][t].pc = k /\ pr[c][t].rep = None /\ Young(pr[c][t])
      BY <1>3, <1>4, <1>5, <2>2
    <3>2. ~un[c] /\ \A u \in Sims : Lives(pr[c][u]) => Young(pr[c][u])
      BY <1>5, <3>1 DEF GrowUp, Acts
    <3>3. \A u \in Sims : Lives(q[c][u]) =>
            pr[c][u].pc = k /\ pr[c][u].rep = None /\ Lives(pr[c][u])
      BY <1>3, <1>4, <1>5 DEF Acts
    <3> QED BY <1>5, <2>2, <3>2, <3>3
  <2> QED BY <2>1, <2>2
<1>11. \A g \in Contexts, t \in Sims :
         /\ q[g][t].pc = pr[g][t].pc /\ q[g][t].child = pr[g][t].child
         /\ Pending(q[g][t]) => g # c \/ (forks /\ q[g][t].rep = a)
         /\ Connecting(q[g][t]) => g # c
  BY <1>1, <1>3, <1>4, <1>5, <1>g
<1>13. Forking(q, m, above, un)
  <2> SUFFICES ASSUME NEW d \in Contexts, NEW u \in Sims, Pending(q[d][u])
               PROVE  LET g == q[d][u].rep.context
                      IN /\ g \in Contexts /\ g <= m /\ above[g] = d
                         /\ q[g][u].pc = "none"
                         /\ ~un[g]
                         /\ \A t \in Sims :
                              /\ Lives(q[g][t]) =>
                                   Connecting(q[g][t]) /\ q[g][t].min = q[d][u].rep.value
                              /\ Pending(q[d][t]) => q[d][t].rep.value = q[d][u].rep.value
    BY DEF Forking
  <2>1. CASE d # c
    <3>1. \A t \in Sims : q[d][t] = pr[d][t]
      BY <1>1, <2>1
    <3> DEFINE g == pr[d][u].rep.context
    <3>2. /\ g \in Contexts /\ g <= n /\ par[g] = d
          /\ pr[g][u].pc = "none"
          /\ ~un[g]
          /\ \A t \in Sims :
               /\ Lives(pr[g][t]) =>
                    Connecting(pr[g][t]) /\ pr[g][t].min = pr[d][u].rep.value
               /\ Pending(pr[d][t]) => pr[d][t].rep.value = pr[d][u].rep.value
      <4>1. Forking(pr, n, par, un)
        OBVIOUS
      <4> HIDE DEF Good
      <4> QED BY <3>1, <4>1 DEF Forking
    <3> HIDE DEF g
    <3>3. g # c /\ \A t \in Sims : q[g][t] = pr[g][t]
      BY <1>1, <1>12, <3>2
    <3>4. g <= m /\ above[g] = d
      BY <1>j, <1>n, <3>2
    <3>5. q[d][u].rep.context = g
      BY <3>1 DEF g
    <3>6. \A t \in Sims :
            /\ Lives(q[g][t]) =>
                 Connecting(q[g][t]) /\ q[g][t].min = q[d][u].rep.value
            /\ Pending(q[d][t]) => q[d][t].rep.value = q[d][u].rep.value
      BY <3>1, <3>2, <3>3
    <3> QED BY <3>2, <3>3, <3>4, <3>5, <3>6
  <2>2. CASE d = c
    <3>1. forks /\ q[c][u].rep = a /\ n + 1 \in Contexts /\ m = n + 1 /\ above[n + 1] = c
      BY <1>11, <1>j, <2>2
    <3>2. ~un[n + 1] /\ \A t \in Sims : pr[n + 1][t].pc = "none"
      BY <1>n, <3>1 DEF Unused
    <3>3. n + 1 # c /\ \A t \in Sims : q[n + 1][t].pc = "none" /\ ~Lives(q[n + 1][t])
      BY <1>i, <1>n, <1>11, <3>1, <3>2 DEF Lives
    <3>4. \A t \in Sims : q[c][t].rep = a
      BY <1>1
    <3>5. n + 1 <= m
      BY <1>n, <3>1
    <3> QED BY <1>d, <2>2, <3>1, <3>2, <3>3, <3>4, <3>5
  <2> QED BY <2>1, <2>2
<1>14. Unused(q, m, un)
  BY <1>11, <1>j, <1>n DEF Unused
<1>15. Tree(q, m, above)
  <2>1. /\ par \in [Contexts -> Contexts \cup {None}] /\ Tree(pr, n, par)
        /\ \A g \in Contexts, t \in Sims :
             /\ pr[g][t].pc # "none" => q[g][t].pc # "none"
             /\ q[g][t].child # None => q[g][t].child = pr[g][t].child
    BY <1>11 DEF Typed
  <2>2. Tree(q, n, par)
    BY <2>1, TreeKept
  <2>3. ASSUME NEW g \in Contexts, above[g] # None
        PROVE  /\ above[g] < g /\ g <= m
               /\ \A t \in Sims : q[above[g]][t].pc # "none"
    <3>1. CASE above[g] = par[g]
      BY <1>j, <1>n, <2>2, <2>3, <3>1 DEF Tree
    <3>2. CASE g = n + 1 /\ forks /\ above[g] = c
      <4>1. above[g] < g /\ g <= m
        BY <1>i, <1>j, <1>n, <3>2
      <4>2. \A t \in Sims : q[c][t].pc # "none"
        BY <1>11, <1>12
      <4> QED BY <3>2, <4>1, <4>2
    <3> QED BY <1>j, <3>1, <3>2
  <2>4. ASSUME NEW d \in Contexts, NEW t \in Sims, q[d][t].child # None
        PROVE  LET g == q[d][t].child
               IN g \in Contexts /\ g <= m /\ above[g] = d /\ q[g][t].pc # "none"
    <3> DEFINE g == q[d][t].child
    <3>1. g \in Contexts /\ g <= n /\ par[g] = d /\ q[g][t].pc # "none"
      BY <2>2, <2>4 DEF Tree
    <3> HIDE DEF g
    <3>2. g <= m /\ above[g] = d
      BY <1>j, <1>n, <3>1
    <3> QED BY <3>1, <3>2 DEF g
  <2> QED BY <2>3, <2>4 DEF Tree
<1>16. \A g \in Contexts : Unborn(q, above, ini, g) =>
         \/ Unborn(pr, par, ini, g) /\ par[g] # c /\ above[g] = par[g]
         \/ forks /\ g = n + 1 /\ above[g] = c
  <2> SUFFICES ASSUME NEW g \in Contexts, Unborn(q, above, ini, g),
                      ~(forks /\ g = n + 1 /\ above[g] = c)
               PROVE  Unborn(pr, par, ini, g) /\ par[g] # c /\ above[g] = par[g]
    OBVIOUS
  <2>1. par[g] \in Contexts /\ above[g] = par[g]
    BY <1>j DEF Unborn, Typed
  <2>2. \A t \in Sims :
          /\ Pending(q[par[g]][t]) /\ q[par[g]][t].rep.context = g =>
               q[par[g]][t] = pr[par[g]][t]
          /\ Connecting(q[g][t]) => q[g][t] = pr[g][t]
    <3> TAKE t \in Sims
    <3>1. Connecting(q[g][t]) => q[g][t] = pr[g][t]
      BY <1>1, <1>11
    <3>2. Pending(q[par[g]][t]) /\ par[g] = c => forks /\ q[par[g]][t].rep.context = n + 1
      BY <1>11, <1>d, <2>1
    <3> QED BY <1>1, <2>1, <3>1, <3>2
  <2>3. Unborn(pr, par, ini, g)
    BY <2>1, <2>2 DEF Unborn
  <2>4. ~Hangs(pr[c][s])
    BY <1>3, <1>a DEF Hangs, Pending, Acts, Lives
  <2> QED BY <2>1, <2>3, <2>4 DEF Births
<1>o. ~done[c] /\ \A t \in Sims : Acts(pr[c][t]) =>
        /\ t \notin re[c] /\ pr[c][t].pc \notin {"reinit", "init"}
  <2>1. \A t \in Sims : Acts(pr[c][t]) =>
          ~Hangs(pr[c][t]) /\ pr[c][t].pc \notin {"reinit", "init"}
    BY <1>3, <1>a DEF Hangs, Pending, Acts, Lives
  <2> QED BY <2>1 DEF Connected
<1>17. Births(q, above, ini, done)
  <2>1. \A g \in Contexts, t \in Sims : Connecting(q[g][t]) => above[g] # None
    <3>1. \A g \in Contexts, t \in Sims : Connecting(q[g][t]) => par[g] # None
      BY <1>1, <1>11 DEF Births
    <3>2. c # None
      BY <1>n, SpeculationAssumption
    <3> QED BY <1>j, <3>1, <3>2
  <2>2. ASSUME NEW g \in Contexts, Unborn(q, above, ini, g)
        PROVE  /\ ~done[above[g]]
               /\ \A t \in Sims : Acts(q[above[g]][t]) =>
                    Hangs(q[above[g]][t]) /\ Heir(q[above[g]][t]) = g
    <3>1. CASE Unborn(pr, par, ini, g) /\ par[g] # c /\ above[g] = par[g]
      <4>1. par[g] \in Contexts
        BY <3>1 DEF Unborn, Typed
      <4>2. \A t \in Sims : q[par[g]][t] = pr[par[g]][t]
        BY <1>1, <3>1, <4>1
      <4> QED BY <3>1, <4>2 DEF Births
    <3>2. CASE forks /\ g = n + 1 /\ above[g] = c
      <4>1. \A t \in Sims : Acts(q[c][t]) => Pending(q[c][t])
        BY <1>h, <3>2
      <4>2. \A t \in Sims : Acts(q[c][t]) => Heir(q[c][t]) = n + 1
        BY <1>3, <1>4, <1>5, <4>1
      <4> QED BY <1>o, <3>2, <4>1, <4>2 DEF Hangs
    <3> QED BY <1>16, <2>2, <3>1, <3>2
  <2>3. ASSUME NEW g \in Contexts, NEW h \in Contexts,
               Unborn(q, above, ini, g), Unborn(q, above, ini, h), above[g] = above[h]
        PROVE  g = h
    <3>1. \/ Unborn(pr, par, ini, g) /\ par[g] # c /\ above[g] = par[g]
          \/ g = n + 1 /\ above[g] = c
      BY <1>16, <2>3
    <3>2. \/ Unborn(pr, par, ini, h) /\ par[h] # c /\ above[h] = par[h]
          \/ h = n + 1 /\ above[h] = c
      BY <1>16, <2>3
    <3> QED BY <2>3, <3>1, <3>2 DEF Births
  <2> QED BY <2>1, <2>2, <2>3 DEF Births
<1>18. Connected(q, above, ini, re, done)
  <2>3. \A x \in ini : x[3] \in Contexts /\ x[2] \in Sims
    BY DEF Typed
  <2>4. \A t \in Sims : Acts(q[c][t]) => Acts(pr[c][t])
    BY <1>3, <1>4, <1>5
  <2>5. \A d \in Contexts, t \in Sims :
          /\ done[d] \/ t \in re[d] => q[d][t].pc # "none"
          /\ Acts(q[d][t]) =>
               /\ done[d] => Hangs(q[d][t]) /\ ~Pending(q[d][t])
               /\ t \in re[d] => q[d][t].pc = "reinit" /\ q[d][t].rep = None
    BY <1>1, <1>11, <1>12, <1>o, <2>4 DEF Connected
  <2>6. \A x \in ini :
          /\ above[x[3]] = x[1]
          /\ q[x[3]][x[2]].pc # "none"
          /\ Acts(q[x[3]][x[2]]) =>
               q[x[3]][x[2]].pc = "init" /\ q[x[3]][x[2]].rep = None
    <3> SUFFICES ASSUME NEW x \in ini
                 PROVE  /\ above[x[3]] = x[1]
                        /\ q[x[3]][x[2]].pc # "none"
                        /\ Acts(q[x[3]][x[2]]) =>
                             q[x[3]][x[2]].pc = "init" /\ q[x[3]][x[2]].rep = None
      OBVIOUS
    <3>1. /\ par[x[3]] = x[1] /\ pr[x[3]][x[2]].pc # "none"
          /\ Acts(pr[x[3]][x[2]]) => pr[x[3]][x[2]].pc = "init" /\ pr[x[3]][x[2]].rep = None
      BY DEF Connected
    <3>2. x[3] <= n
      BY <1>n, <2>3, <3>1 DEF Unused
    <3>3. above[x[3]] = x[1]
      BY <1>j, <2>3, <3>1, <3>2
    <3> QED BY <1>1, <1>11, <1>o, <2>3, <2>4, <3>1, <3>3
  <2> QED BY <2>5, <2>6 DEF Connected
<1> QED BY <1>6, <1>7, <1>8, <1>9, <1>10, <1>13, <1>14, <1>15, <1>17, <1>18 DEF q, C

\* A process forks.
LEMMA Forks1 ==
  ASSUME NEW pr, NEW calls, NEW n, NEW par, NEW un, NEW ini, NEW re, NEW done,
         Good(pr, calls, n, par, un, ini, re, done),
         NEW c \in Contexts, NEW s \in Sims, Pending(pr[c][s]),
         NEW g, g = pr[c][s].rep.context, NEW a, NEW b,
         Local(s, a), a.pc = "attach", a.child = g, a.min = pr[c][s].rep.time,
         a.isChild = pr[c][s].isChild,
         Local(s, b), b.pc = "connect", b.min = pr[c][s].rep.value
  PROVE  Good([pr EXCEPT ![c][s] = a, ![g][s] = b], calls, n, par, un, ini, re, done)
<1> DEFINE q == [pr EXCEPT ![c][s] = a, ![g][s] = b]
<1>0. /\ g \in Contexts /\ g <= n /\ par[g] = c
      /\ pr[g][s].pc = "none"
      /\ ~un[g]
      /\ \A t \in Sims :
           /\ Lives(pr[g][t]) => Connecting(pr[g][t]) /\ pr[g][t].min = pr[c][s].rep.value
           /\ Pending(pr[c][t]) => pr[c][t].rep.value = pr[c][s].rep.value
  <2> DEFINE h == pr[c][s].rep.context
  <2>1. Forking(pr, n, par, un)
    BY DEF Good
  <2> HIDE DEF Good
  <2>2. /\ h \in Contexts /\ h <= n /\ par[h] = c
        /\ pr[h][s].pc = "none"
        /\ ~un[h]
        /\ \A t \in Sims :
             /\ Lives(pr[h][t]) => Connecting(pr[h][t]) /\ pr[h][t].min = pr[c][s].rep.value
             /\ Pending(pr[c][t]) => pr[c][t].rep.value = pr[c][s].rep.value
    BY <2>1 DEF Forking
  <2>3. g = h
    OBVIOUS
  <2> HIDE DEF h
  <2> QED BY <2>2, <2>3
<1>n. n \in Nat /\ \A d \in Contexts : d \in Nat
  BY SpeculationAssumption DEF Good, Typed, Contexts
<1>d. c < g /\ c # g /\ c # None /\ g # None
  <2>1. c # None /\ g # None
    <3> HIDE DEF Good
    <3> QED BY <1>0, SpeculationAssumption DEF Contexts
  <2>2. Tree(pr, n, par)
    BY DEF Good
  <2>3. c \in Nat /\ g \in Nat
    BY <1>0, <1>n
  <2> HIDE DEF Good
  <2>4. par[g] < g
    BY <1>0, <2>1, <2>2 DEF Tree
  <2>5. c < g
    BY <1>0, <2>4
  <2> QED BY <2>1, <2>3, <2>5
<1>1. /\ q \in [Contexts -> [Sims -> Memory]]
      /\ \A d \in Contexts, t \in Sims :
           q[d][t] = IF d = c /\ t = s THEN a ELSE IF d = g /\ t = s THEN b ELSE pr[d][t]
  <2> DEFINE o == [pr EXCEPT ![c][s] = a]
  <2>1. pr \in [Contexts -> [Sims -> Memory]] /\ a \in Memory /\ b \in Memory
    BY DEF Good, Typed, Local
  <2>2. o \in [Contexts -> [Sims -> Memory]]
        /\ \A d \in Contexts, t \in Sims : o[d][t] = IF d = c /\ t = s THEN a ELSE pr[d][t]
    BY <2>1, Updated
  <2>3. q = [o EXCEPT ![g][s] = b]
    OBVIOUS
  <2> HIDE DEF o, q, Memory, Good
  <2>4. q \in [Contexts -> [Sims -> Memory]]
        /\ \A d \in Contexts, t \in Sims : q[d][t] = IF d = g /\ t = s THEN b ELSE o[d][t]
    <3>1. g \in Contexts
      BY <1>0
    <3> QED BY <2>1, <2>2, <2>3, <3>1, Updated
  <2> QED BY <2>2, <2>4, <1>d
<1>2. /\ Acts(a) /\ Lives(a) /\ Phase(a) = "ahead" /\ Due(a) = pr[c][s].rep.time
      /\ Heir(a) = g /\ Hangs(a) /\ ~Pending(a) /\ ~Connecting(a)
      /\ Young(a) <=> Young(pr[c][s])
      /\ a.pc # "none"
  BY DEF Acts, Lives, Phase, Due, Heir, Hangs, Pending, Connecting, Young
<1>3. /\ Acts(b) /\ Lives(b) /\ Phase(b) = "ahead" /\ Due(b) = pr[c][s].rep.value
      /\ Heir(b) = None /\ ~Hangs(b) /\ ~Pending(b) /\ Connecting(b)
      /\ Young(b) /\ b.pc # "none" /\ b.child = None
  BY DEF Local, Acts, Lives, Phase, Due, Heir, Hangs, Pending, Connecting, Young
<1>4. /\ Acts(pr[c][s]) /\ Lives(pr[c][s]) /\ Phase(pr[c][s]) = "ahead"
      /\ Due(pr[c][s]) = pr[c][s].rep.time /\ Heir(pr[c][s]) = g
      /\ Hangs(pr[c][s]) /\ ~Connecting(pr[c][s]) /\ pr[c][s].pc = "action"
      /\ pr[c][s].rep # None
  BY DEF Acts, Lives, Phase, Due, Heir, Hangs, Pending, Connecting
\* Who is in the child's context already is connecting too.
<1>5. \A t \in Sims : Lives(pr[g][t]) =>
        /\ Phase(pr[g][t]) = "ahead" /\ Due(pr[g][t]) = pr[c][s].rep.value
        /\ Heir(pr[g][t]) = None /\ Young(pr[g][t]) /\ ~Hangs(pr[g][t])
        /\ ~Pending(pr[g][t])
  <2> SUFFICES ASSUME NEW t \in Sims, Lives(pr[g][t])
               PROVE  /\ Phase(pr[g][t]) = "ahead" /\ Due(pr[g][t]) = pr[c][s].rep.value
                      /\ Heir(pr[g][t]) = None /\ Young(pr[g][t]) /\ ~Hangs(pr[g][t])
                      /\ ~Pending(pr[g][t])
    OBVIOUS
  <2>1. Connecting(pr[g][t]) /\ pr[g][t].min = pr[c][s].rep.value /\ Local(t, pr[g][t])
    BY <1>0 DEF Good, AllLocal
  <2> QED BY <2>1 DEF Local, Phase, Due, Heir, Hangs, Pending, Connecting, Young
<1> HIDE DEF q, Memory
<1> USE DEF Good
<1>6. Typed(q, calls, n, par, un, ini, re, done)
  BY <1>1 DEF Typed
<1>7. AllLocal(q)
  BY <1>1 DEF AllLocal
<1>8. CallsMade(q, calls)
  <2> SUFFICES ASSUME NEW d \in Contexts, NEW k \in Calls, NEW t \in calls[d][k]
               PROVE  /\ \/ q[d][t].pc = k /\ q[d][t].rep = None
                         \/ q[d][t].pc = "killed"
                      /\ k = "action" => q[d][t].offer \in Nat
    BY DEF CallsMade
  <2>1. t \in Sims
    BY DEF Typed
  <2>2. /\ \/ pr[d][t].pc = k /\ pr[d][t].rep = None
           \/ pr[d][t].pc = "killed"
        /\ k = "action" => pr[d][t].offer \in Nat
    BY DEF CallsMade
  <2>3. ~(d = c /\ t = s) /\ ~(d = g /\ t = s)
    BY <2>2, <1>0, <1>4 DEF Calls
  <2> QED BY <1>1, <2>1, <2>2, <2>3
<1>9. Alike(q)
  <2> SUFFICES ASSUME NEW d \in Contexts, NEW t \in Sims, NEW u \in Sims,
                      Acts(q[d][t]), Acts(q[d][u])
               PROVE  /\ Phase(q[d][t]) = Phase(q[d][u])
                      /\ Due(q[d][t]) = Due(q[d][u])
                      /\ Heir(q[d][t]) = Heir(q[d][u])
    BY DEF Alike
  <2>1. CASE d # g
    <3>1. \A v \in Sims : Acts(q[d][v]) =>
            /\ Acts(pr[d][v]) /\ Phase(q[d][v]) = Phase(pr[d][v])
            /\ Due(q[d][v]) = Due(pr[d][v]) /\ Heir(q[d][v]) = Heir(pr[d][v])
      BY <1>1, <1>2, <1>4, <2>1
    <3> QED BY <3>1 DEF Alike
  <2>2. CASE d = g
    <3>1. \A v \in Sims : Acts(q[g][v]) =>
            /\ Phase(q[g][v]) = "ahead" /\ Due(q[g][v]) = pr[c][s].rep.value
            /\ Heir(q[g][v]) = None
      <4>1. \A v \in Sims : Acts(q[g][v]) => Lives(q[g][v])
        BY DEF Acts
      <4>2. q[g][s] = b /\ \A v \in Sims \ {s} : q[g][v] = pr[g][v]
        BY <1>0, <1>1, <1>d
      <4> QED BY <1>3, <1>5, <4>1, <4>2
    <3> QED BY <2>2, <3>1
  <2> QED BY <2>1, <2>2
<1>10. GrowUp(q, un)
  <2> SUFFICES ASSUME NEW d \in Contexts, NEW t \in Sims, Lives(q[d][t]), Young(q[d][t])
               PROVE  ~un[d] /\ \A u \in Sims : Lives(q[d][u]) => Young(q[d][u])
    BY DEF GrowUp
  <2>1. CASE d # g
    <3>1. \A v \in Sims : Lives(q[d][v]) =>
            Lives(pr[d][v]) /\ (Young(q[d][v]) <=> Young(pr[d][v]))
      BY <1>1, <1>2, <1>4, <2>1
    <3>2. \A v \in Sims : Lives(pr[d][v]) => Lives(q[d][v])
      BY <1>1, <1>2, <1>4, <2>1
    <3> QED BY <3>1, <3>2 DEF GrowUp
  <2>2. CASE d = g
    BY <1>0, <1>1, <1>3, <1>5, <1>d, <2>2
  <2> QED BY <2>1, <2>2
<1>11. Forking(q, n, par, un)
  <2> SUFFICES ASSUME NEW d \in Contexts, NEW u \in Sims, Pending(q[d][u])
               PROVE  LET h == q[d][u].rep.context
                      IN /\ h \in Contexts /\ h <= n /\ par[h] = d
                         /\ q[h][u].pc = "none"
                         /\ ~un[h]
                         /\ \A t \in Sims :
                              /\ Lives(q[h][t]) =>
                                   Connecting(q[h][t]) /\ q[h][t].min = q[d][u].rep.value
                              /\ Pending(q[d][t]) => q[d][t].rep.value = q[d][u].rep.value
    BY DEF Forking
  <2>1. q[d][u] = pr[d][u] /\ Pending(pr[d][u]) /\ ~(d = c /\ u = s)
    BY <1>1, <1>2, <1>3
  <2> DEFINE h == pr[d][u].rep.context
  <2>2. /\ h \in Contexts /\ h <= n /\ par[h] = d
        /\ pr[h][u].pc = "none"
        /\ ~un[h]
        /\ \A t \in Sims :
             /\ Lives(pr[h][t]) =>
                  Connecting(pr[h][t]) /\ pr[h][t].min = pr[d][u].rep.value
             /\ Pending(pr[d][t]) => pr[d][t].rep.value = pr[d][u].rep.value
    <3>1. Forking(pr, n, par, un)
      OBVIOUS
    <3> HIDE DEF Good
    <3> QED BY <2>1, <3>1 DEF Forking
  <2>3. q[d][u].rep.context = h
    BY <2>1
  <2> HIDE DEF h
  <2>4. h # c
    BY <2>2, <1>4
  <2>5. h = g => d = c
    BY <1>0, <2>2
  <2>6. q[h][u].pc = "none"
    BY <1>1, <2>1, <2>2, <2>4, <2>5
  <2>7. \A t \in Sims : Pending(q[d][t]) => q[d][t].rep.value = q[d][u].rep.value
    BY <1>1, <1>2, <1>3, <2>1, <2>2
  <2>8. \A t \in Sims : Lives(q[h][t]) =>
          Connecting(q[h][t]) /\ q[h][t].min = q[d][u].rep.value
    <3> SUFFICES ASSUME NEW t \in Sims, Lives(q[h][t])
                 PROVE  Connecting(q[h][t]) /\ q[h][t].min = q[d][u].rep.value
      OBVIOUS
    <3>1. CASE h = g /\ t = s
      <4>1. q[h][t] = b /\ d = c
        BY <1>1, <1>d, <2>2, <2>5, <3>1
      <4>2. pr[d][u].rep.value = pr[c][s].rep.value
        BY <1>0, <2>1, <4>1
      <4> QED BY <1>3, <2>1, <4>1, <4>2
    <3>2. CASE ~(h = g /\ t = s)
      BY <1>1, <2>1, <2>2, <2>4, <3>2
    <3> QED BY <3>1, <3>2
  <2> QED BY <2>2, <2>3, <2>6, <2>7, <2>8
<1>12. Unused(q, n, un)
  <2> SUFFICES ASSUME NEW d \in Contexts, d > n
               PROVE  ~un[d] /\ \A t \in Sims : q[d][t].pc = "none"
    BY DEF Unused
  <2>0. d > n
    OBVIOUS
  <2>1. ~un[d] /\ \A t \in Sims : pr[d][t].pc = "none"
    BY DEF Unused
  <2>2. d # g /\ d # c
    <3>1. pr[c][s].pc # "none"
      BY <1>4
    <3>2. g <= n /\ n \in Nat /\ g \in Nat /\ d \in Nat
      BY <1>0, <1>n
    <3> HIDE DEF Good
    <3>3. d # g
      BY <2>0, <3>2
    <3> QED BY <2>1, <3>1, <3>3
  <2> QED BY <1>1, <2>1, <2>2
<1>13. Tree(q, n, par)
  <2>0. \A d \in Contexts, t \in Sims : pr[d][t].pc # "none" => q[d][t].pc # "none"
    BY <1>1, <1>2, <1>3
  <2>1. ASSUME NEW d \in Contexts, par[d] # None
        PROVE  /\ par[d] < d /\ d <= n
               /\ \A t \in Sims : q[par[d]][t].pc # "none"
    <3>1. par[d] \in Contexts
      BY <2>1 DEF Typed
    <3> QED BY <2>0, <2>1, <3>1 DEF Tree
  <2>2. ASSUME NEW d \in Contexts, NEW t \in Sims, q[d][t].child # None
        PROVE  LET h == q[d][t].child
               IN h \in Contexts /\ h <= n /\ par[h] = d /\ q[h][t].pc # "none"
    <3>1. CASE d = c /\ t = s
      <4>1. q[d][t] = a /\ q[g][s] = b
        BY <1>0, <1>1, <1>d, <3>1
      <4> HIDE DEF Good
      <4> QED BY <1>0, <1>3, <3>1, <4>1
    <3>2. CASE ~(d = c /\ t = s)
      <4>1. ~(d = g /\ t = s) /\ q[d][t] = pr[d][t]
        BY <1>1, <1>3, <2>2, <3>2
      <4> DEFINE h == pr[d][t].child
      <4>2. h \in Contexts /\ h <= n /\ par[h] = d /\ pr[h][t].pc # "none"
        BY <2>2, <4>1 DEF Tree
      <4> HIDE DEF h
      <4>3. q[h][t].pc # "none"
        BY <2>0, <4>2
      <4> QED BY <4>1, <4>2, <4>3 DEF h
    <3> QED BY <3>1, <3>2
  <2> QED BY <2>1, <2>2 DEF Tree
<1>14. \A h \in Contexts : Unborn(q, par, ini, h) => Unborn(pr, par, ini, h)
  <2> SUFFICES ASSUME NEW h \in Contexts, Unborn(q, par, ini, h)
               PROVE  Unborn(pr, par, ini, h)
    OBVIOUS
  <2>1. par[h] \in Contexts
    BY DEF Unborn, Typed
  <2>2. CASE h = g
    BY <1>0, <1>d, <2>2 DEF Unborn
  <2>3. CASE h # g
    <3>1. \A t \in Sims : /\ Pending(q[par[h]][t]) => q[par[h]][t] = pr[par[h]][t]
                          /\ Connecting(q[h][t]) => q[h][t] = pr[h][t]
      BY <1>1, <1>2, <1>3, <2>1, <2>3
    <3> QED BY <3>1 DEF Unborn
  <2> QED BY <2>2, <2>3
<1>15. Births(q, par, ini, done)
  <2>1. \A h \in Contexts, t \in Sims : Connecting(q[h][t]) => par[h] # None
    <3>1. \A h \in Contexts, t \in Sims : Connecting(q[h][t]) => Connecting(pr[h][t]) \/ h = g
      BY <1>1, <1>2
    <3> QED BY <1>0, <1>d, <3>1 DEF Births
  <2>2. ASSUME NEW h \in Contexts, Unborn(q, par, ini, h)
        PROVE  /\ ~done[par[h]]
               /\ \A t \in Sims : Acts(q[par[h]][t]) =>
                    Hangs(q[par[h]][t]) /\ Heir(q[par[h]][t]) = h
    <3>1. Unborn(pr, par, ini, h) /\ par[h] \in Contexts /\ par[h] # None
      BY <1>14, <2>2 DEF Unborn, Typed
    <3>2. par[h] # g
      BY <1>0, <3>1 DEF Tree
    <3>3. /\ ~done[par[h]]
          /\ \A t \in Sims : Acts(pr[par[h]][t]) =>
               Hangs(pr[par[h]][t]) /\ Heir(pr[par[h]][t]) = h
      BY <3>1 DEF Births
    <3> QED BY <1>1, <1>2, <1>4, <3>1, <3>2, <3>3
  <2> QED BY <2>1, <2>2, <1>14 DEF Births
<1>16. Connected(q, par, ini, re, done)
  <2>1. ~done[c] /\ s \notin re[c] /\ ~done[g] /\ s \notin re[g]
    BY <1>0, <1>4 DEF Connected
  <2>2. \A x \in ini : /\ x[3] \in Contexts /\ x[2] \in Sims
                       /\ ~(x[3] = c /\ x[2] = s) /\ ~(x[3] = g /\ x[2] = s)
    <3> SUFFICES ASSUME NEW x \in ini
                 PROVE  /\ x[3] \in Contexts /\ x[2] \in Sims
                        /\ ~(x[3] = c /\ x[2] = s) /\ ~(x[3] = g /\ x[2] = s)
      OBVIOUS
    <3>1. x \in Contexts \X Sims \X Contexts
      BY DEF Typed
    <3>2. /\ pr[x[3]][x[2]].pc # "none"
          /\ Acts(pr[x[3]][x[2]]) => pr[x[3]][x[2]].pc = "init"
      BY DEF Connected
    <3>3. pr[c][s].pc # "init" /\ Acts(pr[c][s]) /\ pr[g][s].pc = "none"
      BY <1>0, <1>4
    <3> HIDE DEF Good
    <3> QED BY <3>1, <3>2, <3>3
  <2> QED BY <1>1, <1>2, <1>3, <2>1, <2>2 DEF Connected
<1> QED BY <1>6, <1>7, <1>8, <1>9, <1>10, <1>11, <1>12, <1>13, <1>15, <1>16 DEF q

\* A parent attaches, and asks to connect again.
LEMMA Attaches ==
  ASSUME NEW pr, NEW calls, NEW n, NEW par, NEW un, NEW ini, NEW re, NEW done,
         Good(pr, calls, n, par, un, ini, re, done),
         NEW c \in Contexts, NEW s \in Sims, pr[c][s].pc = "attach", NEW a,
         Local(s, a), a.pc = "reinit", a.rep = None, a.child = pr[c][s].child,
         a.min = pr[c][s].min, a.isChild = pr[c][s].isChild
  PROVE  Good([pr EXCEPT ![c][s] = a], calls, n, par, un, ini,
              [re EXCEPT ![c] = @ \cup {s}], done)
<1> DEFINE q == [pr EXCEPT ![c][s] = a]
           R == [re EXCEPT ![c] = @ \cup {s}]
<1>1. /\ q \in [Contexts -> [Sims -> Memory]]
      /\ \A d \in Contexts, t \in Sims :
           q[d][t] = IF d = c /\ t = s THEN a ELSE pr[d][t]
  BY Updated DEF Good, Typed, Local
<1>2. /\ R \in [Contexts -> SUBSET Sims]
      /\ \A d \in Contexts : R[d] = IF d = c THEN re[c] \cup {s} ELSE re[d]
  <2>1. re \in [Contexts -> SUBSET Sims]
    BY DEF Good, Typed
  <2> HIDE DEF Good
  <2> QED BY <2>1
<1>3. /\ Acts(a) /\ Lives(a) /\ Phase(a) = "ahead" /\ Due(a) = pr[c][s].min
      /\ Heir(a) = pr[c][s].child /\ Hangs(a) /\ ~Pending(a) /\ ~Connecting(a)
      /\ Young(a) <=> Young(pr[c][s])
      /\ a.pc # "none"
  BY DEF Acts, Lives, Phase, Due, Heir, Hangs, Pending, Connecting, Young
<1>4. /\ Acts(pr[c][s]) /\ Lives(pr[c][s]) /\ Phase(pr[c][s]) = "ahead"
      /\ Due(pr[c][s]) = pr[c][s].min /\ Heir(pr[c][s]) = pr[c][s].child
      /\ Hangs(pr[c][s]) /\ ~Pending(pr[c][s]) /\ ~Connecting(pr[c][s])
      /\ pr[c][s].pc # "none"
  BY DEF Acts, Lives, Phase, Due, Heir, Hangs, Pending, Connecting
<1>5. \A d \in Contexts, t \in Sims :
        /\ Acts(q[d][t]) <=> Acts(pr[d][t])
        /\ Lives(q[d][t]) <=> Lives(pr[d][t])
        /\ Phase(q[d][t]) = Phase(pr[d][t])
        /\ Due(q[d][t]) = Due(pr[d][t])
        /\ Heir(q[d][t]) = Heir(pr[d][t])
        /\ Hangs(q[d][t]) <=> Hangs(pr[d][t])
        /\ Connecting(q[d][t]) <=> Connecting(pr[d][t])
        /\ Connecting(q[d][t]) => q[d][t] = pr[d][t]
        /\ Pending(q[d][t]) <=> Pending(pr[d][t])
        /\ Pending(q[d][t]) => q[d][t] = pr[d][t]
        /\ Young(q[d][t]) <=> Young(pr[d][t])
        /\ q[d][t].child = pr[d][t].child
        /\ q[d][t].pc # "none" <=> pr[d][t].pc # "none"
  BY <1>1, <1>3, <1>4
<1> HIDE DEF q, R, Memory
<1> USE DEF Good
<1>6. Typed(q, calls, n, par, un, ini, R, done)
  BY <1>1, <1>2 DEF Typed
<1>7. AllLocal(q)
  BY <1>1 DEF AllLocal
<1>8. CallsMade(q, calls)
  <2> SUFFICES ASSUME NEW d \in Contexts, NEW k \in Calls, NEW t \in calls[d][k]
               PROVE  /\ \/ q[d][t].pc = k /\ q[d][t].rep = None
                         \/ q[d][t].pc = "killed"
                      /\ k = "action" => q[d][t].offer \in Nat
    BY DEF CallsMade
  <2>1. t \in Sims
    BY DEF Typed
  <2>2. /\ \/ pr[d][t].pc = k /\ pr[d][t].rep = None
           \/ pr[d][t].pc = "killed"
        /\ k = "action" => pr[d][t].offer \in Nat
    BY DEF CallsMade
  <2>3. ~(d = c /\ t = s)
    BY <2>2 DEF Calls
  <2> QED BY <1>1, <2>1, <2>2, <2>3
<1>9. Alike(q)
  BY <1>5 DEF Alike
<1>10. GrowUp(q, un)
  BY <1>5 DEF GrowUp
<1>11. Forking(q, n, par, un)
  <2> SUFFICES ASSUME NEW d \in Contexts, NEW u \in Sims, Pending(q[d][u])
               PROVE  LET h == q[d][u].rep.context
                      IN /\ h \in Contexts /\ h <= n /\ par[h] = d
                         /\ q[h][u].pc = "none"
                         /\ ~un[h]
                         /\ \A t \in Sims :
                              /\ Lives(q[h][t]) =>
                                   Connecting(q[h][t]) /\ q[h][t].min = q[d][u].rep.value
                              /\ Pending(q[d][t]) => q[d][t].rep.value = q[d][u].rep.value
    BY DEF Forking
  <2>1. q[d][u] = pr[d][u] /\ Pending(pr[d][u])
    BY <1>5
  <2> DEFINE h == pr[d][u].rep.context
  <2>2. /\ h \in Contexts /\ h <= n /\ par[h] = d
        /\ pr[h][u].pc = "none"
        /\ ~un[h]
        /\ \A t \in Sims :
             /\ Lives(pr[h][t]) =>
                  Connecting(pr[h][t]) /\ pr[h][t].min = pr[d][u].rep.value
             /\ Pending(pr[d][t]) => pr[d][t].rep.value = pr[d][u].rep.value
    <3>1. Forking(pr, n, par, un)
      OBVIOUS
    <3> HIDE DEF Good
    <3> QED BY <2>1, <3>1 DEF Forking
  <2>3. q[d][u].rep.context = h
    BY <2>1
  <2> HIDE DEF h
  <2>4. q[h][u].pc = "none"
    BY <1>5, <2>2
  <2>5. \A t \in Sims :
          /\ Lives(q[h][t]) => Connecting(q[h][t]) /\ q[h][t].min = q[d][u].rep.value
          /\ Pending(q[d][t]) => q[d][t].rep.value = q[d][u].rep.value
    BY <1>5, <2>1, <2>2
  <2> QED BY <2>2, <2>3, <2>4, <2>5
<1>12. Unused(q, n, un)
  BY <1>5 DEF Unused
<1>13. Tree(q, n, par)
  <2>1. par \in [Contexts -> Contexts \cup {None}] /\ Tree(pr, n, par)
    BY DEF Typed
  <2> QED BY <1>5, <2>1, TreeKept
<1>14. \A h \in Contexts : Unborn(q, par, ini, h) => Unborn(pr, par, ini, h) /\ par[h] \in Contexts
  <2> SUFFICES ASSUME NEW h \in Contexts, Unborn(q, par, ini, h)
               PROVE  Unborn(pr, par, ini, h) /\ par[h] \in Contexts
    OBVIOUS
  <2>1. par[h] \in Contexts
    BY DEF Unborn, Typed
  <2> QED BY <1>5, <2>1 DEF Unborn
<1>15. Births(q, par, ini, done)
  BY <1>5, <1>14 DEF Births
<1>16. Connected(q, par, ini, R, done)
  <2>1. \A x \in ini : /\ x[3] \in Contexts /\ x[2] \in Sims
                       /\ ~(x[3] = c /\ x[2] = s)
    BY <1>4 DEF Connected, Typed
  <2>2. \A x \in ini : q[x[3]][x[2]] = pr[x[3]][x[2]]
    BY <1>1, <2>1
  <2>3. ASSUME NEW d \in Contexts, NEW t \in Sims
        PROVE  /\ done[d] \/ t \in R[d] => q[d][t].pc # "none"
               /\ Acts(q[d][t]) =>
                    /\ done[d] => Hangs(q[d][t]) /\ ~Pending(q[d][t])
                    /\ t \in R[d] => q[d][t].pc = "reinit" /\ q[d][t].rep = None
    <3>1. CASE d = c /\ t = s
      <4>1. q[d][t] = a
        BY <1>1, <3>1
      <4> QED BY <1>3, <4>1
    <3>2. CASE ~(d = c /\ t = s)
      <4>1. q[d][t] = pr[d][t]
        BY <1>1, <3>2
      <4>2. t \in R[d] => t \in re[d]
        BY <1>2, <3>2
      <4> QED BY <4>1, <4>2 DEF Connected
    <3> QED BY <3>1, <3>2
  <2> QED BY <2>2, <2>3 DEF Connected
<1> QED BY <1>6, <1>7, <1>8, <1>9, <1>10, <1>11, <1>12, <1>13, <1>15, <1>16 DEF q, R

\* A child connects.
LEMMA Connects ==
  ASSUME NEW pr, NEW calls, NEW n, NEW par, NEW un, NEW ini, NEW re, NEW done,
         Good(pr, calls, n, par, un, ini, re, done),
         NEW c \in Contexts, NEW s \in Sims, pr[c][s].pc = "connect", NEW a,
         Local(s, a), a.pc = "init", a.rep = None, a.min = pr[c][s].min
  PROVE  Good([pr EXCEPT ![c][s] = a], calls, n, par, un,
              ini \cup {<<par[c], s, c>>}, re, done)
<1> DEFINE q == [pr EXCEPT ![c][s] = a]
           I == ini \cup {<<par[c], s, c>>}
<1>1. /\ q \in [Contexts -> [Sims -> Memory]]
      /\ \A d \in Contexts, t \in Sims :
           q[d][t] = IF d = c /\ t = s THEN a ELSE pr[d][t]
  BY Updated DEF Good, Typed, Local
<1>2. /\ par[c] \in Contexts /\ par[c] # None
      /\ I \subseteq Contexts \X Sims \X Contexts
      /\ ini \subseteq I
      /\ \A x \in I : x \in ini \/ x = <<par[c], s, c>>
  <2>1. Connecting(pr[c][s])
    BY DEF Connecting
  <2>2. par[c] \in Contexts /\ par[c] # None
    BY <2>1 DEF Good, Births, Typed
  <2>3. ini \subseteq Contexts \X Sims \X Contexts
    BY DEF Good, Typed
  <2> HIDE DEF Good
  <2> QED BY <2>2, <2>3
<1>l. Local(s, pr[c][s])
  BY DEF Good, AllLocal
<1>3. /\ Acts(a) /\ Lives(a) /\ Phase(a) = "ahead" /\ Due(a) = pr[c][s].min
      /\ Heir(a) = None /\ ~Hangs(a) /\ ~Pending(a) /\ Connecting(a)
      /\ Young(a)
      /\ a.pc # "none" /\ a.child = None
  BY DEF Local, Acts, Lives, Phase, Due, Heir, Hangs, Pending, Connecting, Young
<1>4. /\ Acts(pr[c][s]) /\ Lives(pr[c][s]) /\ Phase(pr[c][s]) = "ahead"
      /\ Due(pr[c][s]) = pr[c][s].min /\ Heir(pr[c][s]) = None
      /\ ~Hangs(pr[c][s]) /\ ~Pending(pr[c][s]) /\ Connecting(pr[c][s])
      /\ Young(pr[c][s])
      /\ pr[c][s].pc # "none" /\ pr[c][s].child = None
  BY <1>l DEF Local, Acts, Lives, Phase, Due, Heir, Hangs, Pending, Connecting, Young
<1>5. \A d \in Contexts, t \in Sims :
        /\ Acts(q[d][t]) <=> Acts(pr[d][t])
        /\ Lives(q[d][t]) <=> Lives(pr[d][t])
        /\ Phase(q[d][t]) = Phase(pr[d][t])
        /\ Due(q[d][t]) = Due(pr[d][t])
        /\ Heir(q[d][t]) = Heir(pr[d][t])
        /\ Hangs(q[d][t]) <=> Hangs(pr[d][t])
        /\ Connecting(q[d][t]) <=> Connecting(pr[d][t])
        /\ Connecting(q[d][t]) => q[d][t].min = pr[d][t].min
        /\ Pending(q[d][t]) <=> Pending(pr[d][t])
        /\ Pending(q[d][t]) => q[d][t] = pr[d][t]
        /\ Young(q[d][t]) <=> Young(pr[d][t])
        /\ q[d][t].child = pr[d][t].child
        /\ q[d][t].pc # "none" <=> pr[d][t].pc # "none"
  BY <1>1, <1>3, <1>4
<1> HIDE DEF q, I, Memory
<1> USE DEF Good
<1>6. Typed(q, calls, n, par, un, I, re, done)
  BY <1>1, <1>2 DEF Typed
<1>7. AllLocal(q)
  BY <1>1 DEF AllLocal
<1>8. CallsMade(q, calls)
  <2> SUFFICES ASSUME NEW d \in Contexts, NEW k \in Calls, NEW t \in calls[d][k]
               PROVE  /\ \/ q[d][t].pc = k /\ q[d][t].rep = None
                         \/ q[d][t].pc = "killed"
                      /\ k = "action" => q[d][t].offer \in Nat
    BY DEF CallsMade
  <2>1. t \in Sims
    BY DEF Typed
  <2>2. /\ \/ pr[d][t].pc = k /\ pr[d][t].rep = None
           \/ pr[d][t].pc = "killed"
        /\ k = "action" => pr[d][t].offer \in Nat
    BY DEF CallsMade
  <2>3. ~(d = c /\ t = s)
    BY <2>2 DEF Calls
  <2> QED BY <1>1, <2>1, <2>2, <2>3
<1>9. Alike(q)
  BY <1>5 DEF Alike
<1>10. GrowUp(q, un)
  BY <1>5 DEF GrowUp
<1>11. Forking(q, n, par, un)
  <2> SUFFICES ASSUME NEW d \in Contexts, NEW u \in Sims, Pending(q[d][u])
               PROVE  LET h == q[d][u].rep.context
                      IN /\ h \in Contexts /\ h <= n /\ par[h] = d
                         /\ q[h][u].pc = "none"
                         /\ ~un[h]
                         /\ \A t \in Sims :
                              /\ Lives(q[h][t]) =>
                                   Connecting(q[h][t]) /\ q[h][t].min = q[d][u].rep.value
                              /\ Pending(q[d][t]) => q[d][t].rep.value = q[d][u].rep.value
    BY DEF Forking
  <2>1. q[d][u] = pr[d][u] /\ Pending(pr[d][u])
    BY <1>5
  <2> DEFINE h == pr[d][u].rep.context
  <2>2. /\ h \in Contexts /\ h <= n /\ par[h] = d
        /\ pr[h][u].pc = "none"
        /\ ~un[h]
        /\ \A t \in Sims :
             /\ Lives(pr[h][t]) =>
                  Connecting(pr[h][t]) /\ pr[h][t].min = pr[d][u].rep.value
             /\ Pending(pr[d][t]) => pr[d][t].rep.value = pr[d][u].rep.value
    <3>1. Forking(pr, n, par, un)
      OBVIOUS
    <3> HIDE DEF Good
    <3> QED BY <2>1, <3>1 DEF Forking
  <2>3. q[d][u].rep.context = h
    BY <2>1
  <2> HIDE DEF h
  <2>4. q[h][u].pc = "none"
    BY <1>5, <2>2
  <2>5. \A t \in Sims :
          /\ Lives(q[h][t]) => Connecting(q[h][t]) /\ q[h][t].min = q[d][u].rep.value
          /\ Pending(q[d][t]) => q[d][t].rep.value = q[d][u].rep.value
    BY <1>5, <2>1, <2>2
  <2> QED BY <2>2, <2>3, <2>4, <2>5
<1>12. Unused(q, n, un)
  BY <1>5 DEF Unused
<1>13. Tree(q, n, par)
  <2>1. par \in [Contexts -> Contexts \cup {None}] /\ Tree(pr, n, par)
    BY DEF Typed
  <2> QED BY <1>5, <2>1, TreeKept
<1>14. \A h \in Contexts : Unborn(q, par, I, h) => Unborn(pr, par, ini, h) /\ par[h] \in Contexts
  <2> SUFFICES ASSUME NEW h \in Contexts, Unborn(q, par, I, h)
               PROVE  Unborn(pr, par, ini, h) /\ par[h] \in Contexts
    OBVIOUS
  <2>1. par[h] \in Contexts /\ par[h] # None
    BY DEF Unborn, Typed
  <2>2. CASE h = c
    BY <1>4, <2>1, <2>2 DEF Unborn
  <2>3. CASE h # c
    <3>1. \A t \in Sims : <<par[h], t, h>> \in I => <<par[h], t, h>> \in ini
      BY <1>2, <2>3
    <3> QED BY <1>5, <2>1, <3>1 DEF Unborn
  <2> QED BY <2>2, <2>3
<1>15. Births(q, par, I, done)
  BY <1>5, <1>14 DEF Births
<1>16. Connected(q, par, I, re, done)
  <2>1. \A d \in Contexts, t \in Sims :
          /\ done[d] \/ t \in re[d] => q[d][t].pc # "none"
          /\ Acts(q[d][t]) =>
               /\ done[d] => Hangs(q[d][t]) /\ ~Pending(q[d][t])
               /\ t \in re[d] => q[d][t].pc = "reinit" /\ q[d][t].rep = None
    BY <1>1, <1>4, <1>5 DEF Connected
  <2>2. ASSUME NEW x \in I
        PROVE  /\ par[x[3]] = x[1]
               /\ q[x[3]][x[2]].pc # "none"
               /\ Acts(q[x[3]][x[2]]) =>
                    q[x[3]][x[2]].pc = "init" /\ q[x[3]][x[2]].rep = None
    <3>1. x[3] \in Contexts /\ x[2] \in Sims
      BY <1>2
    <3>2. CASE x[3] = c /\ x[2] = s
      <4>1. q[x[3]][x[2]] = a
        BY <1>1, <3>2
      <4>2. par[x[3]] = x[1]
        BY <1>2, <3>2 DEF Connected
      <4> QED BY <4>1, <4>2, <1>3
    <3>3. CASE ~(x[3] = c /\ x[2] = s)
      <4>1. x \in ini /\ q[x[3]][x[2]] = pr[x[3]][x[2]]
        BY <1>1, <1>2, <3>1, <3>3
      <4> QED BY <4>1 DEF Connected
    <3> QED BY <3>2, <3>3
  <2> QED BY <2>1, <2>2 DEF Connected
<1> QED BY <1>6, <1>7, <1>8, <1>9, <1>10, <1>11, <1>12, <1>13, <1>15, <1>16 DEF q, I

LEMMA Released ==
  ASSUME NEW pr \in [Contexts -> [Sims -> Memory]], NEW c \in Contexts
  PROVE  LET q == AllAnswered(pr, c, TRUE)
         IN /\ q \in [Contexts -> [Sims -> Memory]]
            /\ \A d \in Contexts, t \in Sims :
                 /\ d # c => q[d][t] = pr[d][t]
                 /\ q[c][t].rep = TRUE /\ q[c][t].pc = pr[c][t].pc
                 /\ q[c][t].cur = pr[c][t].cur /\ q[c][t].granted = pr[c][t].granted
                 /\ q[c][t].busy = pr[c][t].busy /\ q[c][t].offer = pr[c][t].offer
                 /\ q[c][t].min = pr[c][t].min /\ q[c][t].isChild = pr[c][t].isChild
                 /\ q[c][t].child = pr[c][t].child
<1>1. TRUE \in BOOLEAN \cup Replies
  OBVIOUS
<1> HIDE DEF Memory, Replies
<1> QED BY <1>1, AnswersAll, ZenonT(60)

\* The parents and their children are all connected: the parents go on.
LEMMA Reconnects ==
  ASSUME NEW pr, NEW calls, NEW n, NEW par, NEW un, NEW ini, NEW re, NEW done,
         Good(pr, calls, n, par, un, ini, re, done),
         NEW c \in Contexts, re[c] = Sims, done[c]
  PROVE  Good(AllAnswered(pr, c, TRUE), calls, n, par, un, ini,
              [re EXCEPT ![c] = {}], [done EXCEPT ![c] = FALSE])
<1> DEFINE q == AllAnswered(pr, c, TRUE)
           R == [re EXCEPT ![c] = {}]
           D == [done EXCEPT ![c] = FALSE]
<1>1. /\ q \in [Contexts -> [Sims -> Memory]]
      /\ \A d \in Contexts, t \in Sims :
           /\ d # c => q[d][t] = pr[d][t]
           /\ q[c][t].rep = TRUE /\ q[c][t].pc = pr[c][t].pc
           /\ q[c][t].cur = pr[c][t].cur /\ q[c][t].granted = pr[c][t].granted
           /\ q[c][t].busy = pr[c][t].busy /\ q[c][t].offer = pr[c][t].offer
           /\ q[c][t].min = pr[c][t].min /\ q[c][t].isChild = pr[c][t].isChild
           /\ q[c][t].child = pr[c][t].child
  <2>1. pr \in [Contexts -> [Sims -> Memory]]
    BY DEF Good, Typed
  <2> HIDE DEF Memory, Good
  <2> QED BY <2>1, Released, ZenonT(60)
<1>n. TRUE # None
  BY SpeculationAssumption
<1>2. /\ R \in [Contexts -> SUBSET Sims]
      /\ D \in [Contexts -> BOOLEAN]
      /\ R[c] = {} /\ \A d \in Contexts : d # c => R[d] = re[d]
      /\ ~D[c] /\ \A d \in Contexts : d # c => (D[d] <=> done[d])
  <2>1. re \in [Contexts -> SUBSET Sims] /\ done \in [Contexts -> BOOLEAN]
    BY DEF Good, Typed
  <2> HIDE DEF Good
  <2> QED BY <2>1
<1> HIDE DEF q, R, D, Memory
<1> USE DEF Good
<1>0. \A t \in Sims : pr[c][t].pc # "none"
  BY DEF Connected
<1>3. \A t \in Sims : /\ Acts(pr[c][t]) => pr[c][t].pc = "reinit"
                      /\ pr[c][t].pc \in {"reinit", "none", "killed", "exited", "ended", "blocked"}
                      /\ pr[c][t].pc = "reinit" => pr[c][t].rep = None
  <2> TAKE t \in Sims
  <2>1. Acts(pr[c][t]) => pr[c][t].pc = "reinit" /\ pr[c][t].rep = None
    BY DEF Connected
  <2> QED BY <2>1 DEF Acts, Lives
\* Only the answer changes, which ends the wait.
<1>4. \A t \in Sims :
        /\ Local(t, q[c][t])
        /\ Lives(q[c][t]) <=> Lives(pr[c][t])
        /\ Acts(q[c][t]) <=> Acts(pr[c][t])
        /\ ~Connecting(q[c][t])
        /\ ~Pending(q[c][t])
        /\ Young(q[c][t]) /\ Lives(q[c][t]) <=> Young(pr[c][t]) /\ Lives(pr[c][t])
        /\ Acts(q[c][t]) => /\ Phase(q[c][t]) = Phase(pr[c][t])
                            /\ Due(q[c][t]) = Due(pr[c][t])
                            /\ Heir(q[c][t]) = Heir(pr[c][t])
  <2> SUFFICES ASSUME NEW t \in Sims
               PROVE  /\ Local(t, q[c][t])
                      /\ Lives(q[c][t]) <=> Lives(pr[c][t])
                      /\ Acts(q[c][t]) <=> Acts(pr[c][t])
                      /\ ~Connecting(q[c][t])
                      /\ ~Pending(q[c][t])
                      /\ Young(q[c][t]) /\ Lives(q[c][t]) <=> Young(pr[c][t]) /\ Lives(pr[c][t])
                      /\ Acts(q[c][t]) => /\ Phase(q[c][t]) = Phase(pr[c][t])
                                          /\ Due(q[c][t]) = Due(pr[c][t])
                                          /\ Heir(q[c][t]) = Heir(pr[c][t])
    OBVIOUS
  <2> DEFINE r == pr[c][t]
             x == q[c][t]
  <2>1. /\ x \in Memory /\ x.rep = TRUE /\ x.pc = r.pc /\ x.cur = r.cur
        /\ x.granted = r.granted /\ x.busy = r.busy /\ x.min = r.min
        /\ x.isChild = r.isChild /\ x.child = r.child
    BY <1>1
  <2>2. Local(t, r) /\ ~(r.pc \notin {"reinit", "none", "killed", "exited", "ended", "blocked"})
        /\ (r.pc = "reinit" => r.rep = None)
    BY <1>3 DEF AllLocal
  <2> HIDE DEF r, x, Good
  <2>3. /\ Lives(x) <=> Lives(r)
        /\ Acts(x) <=> Acts(r)
        /\ ~Connecting(x) /\ ~Pending(x)
    BY <1>n, <2>1, <2>2 DEF Lives, Acts, Connecting, Pending
  <2>4. Local(t, x)
    BY <1>n, <2>1, <2>2 DEF Local
  <2>5. Young(x) /\ Lives(x) <=> Young(r) /\ Lives(r)
    BY <1>n, <2>1, <2>2 DEF Young, Lives
  <2>6. Acts(x) => Phase(x) = Phase(r) /\ Due(x) = Due(r) /\ Heir(x) = Heir(r)
    BY <1>n, <2>1, <2>2 DEF Acts, Lives, Phase, Due, Heir, Pending
  <2> QED BY <2>3, <2>4, <2>5, <2>6 DEF r, x
<1>5. \A d \in Contexts, t \in Sims :
        /\ Acts(q[d][t]) <=> Acts(pr[d][t])
        /\ Lives(q[d][t]) <=> Lives(pr[d][t])
        /\ Acts(q[d][t]) => /\ Phase(q[d][t]) = Phase(pr[d][t])
                            /\ Due(q[d][t]) = Due(pr[d][t])
                            /\ Heir(q[d][t]) = Heir(pr[d][t])
        /\ Connecting(q[d][t]) => d # c /\ q[d][t] = pr[d][t]
        /\ Pending(q[d][t]) => d # c /\ q[d][t] = pr[d][t]
        /\ Young(q[d][t]) /\ Lives(q[d][t]) <=> Young(pr[d][t]) /\ Lives(pr[d][t])
        /\ q[d][t].child = pr[d][t].child
        /\ q[d][t].pc = pr[d][t].pc
  BY <1>1, <1>4
<1>6. Typed(q, calls, n, par, un, ini, R, D)
  BY <1>1, <1>2 DEF Typed
<1>7. AllLocal(q)
  BY <1>1, <1>4 DEF AllLocal
<1>8. CallsMade(q, calls)
  <2> SUFFICES ASSUME NEW d \in Contexts, NEW k \in Calls, NEW t \in calls[d][k]
               PROVE  /\ \/ q[d][t].pc = k /\ q[d][t].rep = None
                         \/ q[d][t].pc = "killed"
                      /\ k = "action" => q[d][t].offer \in Nat
    BY DEF CallsMade
  <2>1. t \in Sims
    BY DEF Typed
  <2>2. /\ \/ pr[d][t].pc = k /\ pr[d][t].rep = None
           \/ pr[d][t].pc = "killed"
        /\ k = "action" => pr[d][t].offer \in Nat
    BY DEF CallsMade
  <2>3. d = c => pr[d][t].pc = "killed"
    BY <2>1, <2>2, <1>3 DEF Calls
  <2> QED BY <1>1, <2>1, <2>2, <2>3
<1>9. Alike(q)
  BY <1>5 DEF Alike
<1>10. GrowUp(q, un)
  BY <1>5 DEF GrowUp
<1>11. Forking(q, n, par, un)
  <2> SUFFICES ASSUME NEW d \in Contexts, NEW u \in Sims, Pending(q[d][u])
               PROVE  LET h == q[d][u].rep.context
                      IN /\ h \in Contexts /\ h <= n /\ par[h] = d
                         /\ q[h][u].pc = "none"
                         /\ ~un[h]
                         /\ \A t \in Sims :
                              /\ Lives(q[h][t]) =>
                                   Connecting(q[h][t]) /\ q[h][t].min = q[d][u].rep.value
                              /\ Pending(q[d][t]) => q[d][t].rep.value = q[d][u].rep.value
    BY DEF Forking
  <2>1. q[d][u] = pr[d][u] /\ Pending(pr[d][u])
    BY <1>5
  <2> DEFINE h == pr[d][u].rep.context
  <2>2. /\ h \in Contexts /\ h <= n /\ par[h] = d
        /\ pr[h][u].pc = "none"
        /\ ~un[h]
        /\ \A t \in Sims :
             /\ Lives(pr[h][t]) =>
                  Connecting(pr[h][t]) /\ pr[h][t].min = pr[d][u].rep.value
             /\ Pending(pr[d][t]) => pr[d][t].rep.value = pr[d][u].rep.value
    <3>1. Forking(pr, n, par, un)
      OBVIOUS
    <3> HIDE DEF Good
    <3> QED BY <2>1, <3>1 DEF Forking
  <2>3. q[d][u].rep.context = h
    BY <2>1
  <2> HIDE DEF h
  <2>4. h # c
    BY <1>0, <2>2
  <2>5. q[h][u].pc = "none"
    BY <1>5, <2>2
  <2>6. \A t \in Sims :
          /\ Lives(q[h][t]) => Connecting(q[h][t]) /\ q[h][t].min = q[d][u].rep.value
          /\ Pending(q[d][t]) => q[d][t].rep.value = q[d][u].rep.value
    BY <1>1, <1>5, <2>1, <2>2, <2>4
  <2> QED BY <2>2, <2>3, <2>5, <2>6
<1>12. Unused(q, n, un)
  BY <1>5 DEF Unused
<1>13. Tree(q, n, par)
  <2>1. par \in [Contexts -> Contexts \cup {None}] /\ Tree(pr, n, par)
    BY DEF Typed
  <2> QED BY <1>5, <2>1, TreeKept
<1>14. \A h \in Contexts : Unborn(q, par, ini, h) =>
         Unborn(pr, par, ini, h) /\ par[h] \in Contexts /\ par[h] # c
  <2> SUFFICES ASSUME NEW h \in Contexts, Unborn(q, par, ini, h)
               PROVE  Unborn(pr, par, ini, h) /\ par[h] \in Contexts /\ par[h] # c
    OBVIOUS
  <2>1. par[h] \in Contexts
    BY DEF Unborn, Typed
  <2>2. Unborn(pr, par, ini, h)
    BY <1>5, <2>1 DEF Unborn
  <2> QED BY <2>1, <2>2 DEF Births
<1>15. Births(q, par, ini, D)
  <2>1. \A h \in Contexts, t \in Sims : Connecting(q[h][t]) => par[h] # None
    BY <1>5 DEF Births
  <2>2. \A h \in Contexts : Unborn(q, par, ini, h) =>
          /\ ~D[par[h]]
          /\ \A t \in Sims : q[par[h]][t] = pr[par[h]][t]
    BY <1>1, <1>2, <1>14 DEF Births
  <2> QED BY <2>1, <2>2, <1>14 DEF Births
<1>16. Connected(q, par, ini, R, D)
  <2>1. ASSUME NEW d \in Contexts, NEW t \in Sims
        PROVE  /\ D[d] \/ t \in R[d] => q[d][t].pc # "none"
               /\ Acts(q[d][t]) =>
                    /\ D[d] => Hangs(q[d][t]) /\ ~Pending(q[d][t])
                    /\ t \in R[d] => q[d][t].pc = "reinit" /\ q[d][t].rep = None
    <3>1. CASE d = c
      BY <1>2, <3>1
    <3>2. CASE d # c
      <4>1. q[d][t] = pr[d][t] /\ R[d] = re[d] /\ (D[d] <=> done[d])
        BY <1>1, <1>2, <3>2
      <4> QED BY <4>1 DEF Connected
    <3> QED BY <3>1, <3>2
  <2>2. ASSUME NEW x \in ini
        PROVE  /\ par[x[3]] = x[1]
               /\ q[x[3]][x[2]].pc # "none"
               /\ Acts(q[x[3]][x[2]]) =>
                    q[x[3]][x[2]].pc = "init" /\ q[x[3]][x[2]].rep = None
    <3>1. x[3] \in Contexts /\ x[2] \in Sims
      BY DEF Typed
    <3>2. /\ par[x[3]] = x[1] /\ pr[x[3]][x[2]].pc # "none"
          /\ Acts(pr[x[3]][x[2]]) => pr[x[3]][x[2]].pc = "init" /\ pr[x[3]][x[2]].rep = None
      BY DEF Connected
    <3>3. Acts(pr[x[3]][x[2]]) => x[3] # c
      BY <1>3, <3>1, <3>2
    <3> QED BY <1>1, <1>5, <3>1, <3>2, <3>3
  <2> QED BY <2>1, <2>2 DEF Connected
<1> QED BY <1>6, <1>7, <1>8, <1>9, <1>10, <1>11, <1>12, <1>13, <1>15, <1>16 DEF q, R, D

\* The children of a context have all connected: they are started.
LEMMA Starts ==
  ASSUME NEW pr, NEW calls, NEW n, NEW par, NEW un, NEW ini, NEW re, NEW done,
         Good(pr, calls, n, par, un, ini, re, done),
         NEW c \in Contexts, \A t \in Sims : <<par[c], t, c>> \in ini
  PROVE  Good(AllAnswered(pr, c, TRUE), calls, n, par, un, {}, re,
              [done EXCEPT ![par[c]] = TRUE])
<1> DEFINE q == AllAnswered(pr, c, TRUE)
           D == [done EXCEPT ![par[c]] = TRUE]
           p == par[c]
<1>p. p \in Contexts /\ p # None /\ Unborn(pr, par, ini, c) /\ p # c
  <2>1. <<p, NetSim, c>> \in ini
    BY DEF Sims
  <2>2. p \in Contexts
    BY <2>1 DEF Good, Typed
  <2>3. p # None
    BY <2>2, SpeculationAssumption DEF Contexts
  <2>4. p < c
    BY <2>3 DEF Good, Tree
  <2>5. p # c
    <3>1. p \in Nat /\ c \in Nat
      BY <2>2, SpeculationAssumption DEF Contexts
    <3> HIDE DEF p, Good
    <3> QED BY <2>4, <3>1
  <2>6. Unborn(pr, par, ini, c)
    <3>1. NetSim \in Sims
      BY DEF Sims
    <3> QED BY <2>1, <2>3, <3>1 DEF Unborn
  <2> QED BY <2>2, <2>3, <2>5, <2>6
<1>1. /\ q \in [Contexts -> [Sims -> Memory]]
      /\ \A d \in Contexts, t \in Sims :
           /\ d # c => q[d][t] = pr[d][t]
           /\ q[c][t].rep = TRUE /\ q[c][t].pc = pr[c][t].pc
           /\ q[c][t].cur = pr[c][t].cur /\ q[c][t].granted = pr[c][t].granted
           /\ q[c][t].busy = pr[c][t].busy /\ q[c][t].offer = pr[c][t].offer
           /\ q[c][t].min = pr[c][t].min /\ q[c][t].isChild = pr[c][t].isChild
           /\ q[c][t].child = pr[c][t].child
  <2>1. pr \in [Contexts -> [Sims -> Memory]]
    BY DEF Good, Typed
  <2> HIDE DEF Memory, Good
  <2> QED BY <2>1, Released
<1>n. TRUE # None
  BY SpeculationAssumption
<1>2. /\ D \in [Contexts -> BOOLEAN]
      /\ D[p] /\ \A d \in Contexts : d # p => (D[d] <=> done[d])
      /\ {} \subseteq Contexts \X Sims \X Contexts
  <2>1. done \in [Contexts -> BOOLEAN]
    BY DEF Good, Typed
  <2> HIDE DEF Good
  <2> QED BY <2>1, <1>p
<1> HIDE DEF q, D, p, Memory
<1> USE DEF Good
<1>a. p = par[c]
  BY DEF p
<1>3. \A t \in Sims : /\ Acts(pr[c][t]) => pr[c][t].pc = "init"
                      /\ pr[c][t].pc \in {"init", "none", "killed", "exited", "ended", "blocked"}
                      /\ pr[c][t].pc = "init" => pr[c][t].rep = None
                      /\ pr[c][t].pc # "none"
  <2> TAKE t \in Sims
  <2>1. /\ Acts(pr[c][t]) => pr[c][t].pc = "init" /\ pr[c][t].rep = None
        /\ pr[c][t].pc # "none"
    <3> DEFINE x == <<p, t, c>>
    <3>1. x \in ini /\ x[3] = c /\ x[2] = t
      BY <1>a
    <3> QED BY <3>1 DEF Connected
  <2> QED BY <2>1 DEF Acts, Lives
<1>0. \A t \in Sims : pr[c][t].pc # "none"
  BY <1>3
\* Only the answer changes, which ends the wait.
<1>4. \A t \in Sims :
        /\ Local(t, q[c][t])
        /\ Lives(q[c][t]) <=> Lives(pr[c][t])
        /\ Acts(q[c][t]) <=> Acts(pr[c][t])
        /\ ~Connecting(q[c][t])
        /\ ~Pending(q[c][t])
        /\ Young(q[c][t]) /\ Lives(q[c][t]) <=> Young(pr[c][t]) /\ Lives(pr[c][t])
        /\ Acts(q[c][t]) => /\ Phase(q[c][t]) = Phase(pr[c][t])
                            /\ Due(q[c][t]) = Due(pr[c][t])
                            /\ Heir(q[c][t]) = Heir(pr[c][t])
  <2> SUFFICES ASSUME NEW t \in Sims
               PROVE  /\ Local(t, q[c][t])
                      /\ Lives(q[c][t]) <=> Lives(pr[c][t])
                      /\ Acts(q[c][t]) <=> Acts(pr[c][t])
                      /\ ~Connecting(q[c][t])
                      /\ ~Pending(q[c][t])
                      /\ Young(q[c][t]) /\ Lives(q[c][t]) <=> Young(pr[c][t]) /\ Lives(pr[c][t])
                      /\ Acts(q[c][t]) => /\ Phase(q[c][t]) = Phase(pr[c][t])
                                          /\ Due(q[c][t]) = Due(pr[c][t])
                                          /\ Heir(q[c][t]) = Heir(pr[c][t])
    OBVIOUS
  <2> DEFINE r == pr[c][t]
             x == q[c][t]
  <2>1. /\ x \in Memory /\ x.rep = TRUE /\ x.pc = r.pc /\ x.cur = r.cur
        /\ x.granted = r.granted /\ x.busy = r.busy /\ x.min = r.min
        /\ x.isChild = r.isChild /\ x.child = r.child
    BY <1>1
  <2>2. Local(t, r) /\ ~(r.pc \notin {"init", "none", "killed", "exited", "ended", "blocked"})
        /\ (r.pc = "init" => r.rep = None)
    BY <1>3 DEF AllLocal
  <2> HIDE DEF r, x, Good
  <2>3. /\ Lives(x) <=> Lives(r)
        /\ Acts(x) <=> Acts(r)
        /\ ~Connecting(x) /\ ~Pending(x)
    BY <1>n, <2>1, <2>2 DEF Lives, Acts, Connecting, Pending
  <2>4. Local(t, x)
    BY <1>n, <2>1, <2>2 DEF Local
  <2>5. Young(x) /\ Lives(x) <=> Young(r) /\ Lives(r)
    BY <1>n, <2>1, <2>2 DEF Young, Lives
  <2>6. Acts(x) => Phase(x) = Phase(r) /\ Due(x) = Due(r) /\ Heir(x) = Heir(r)
    BY <1>n, <2>1, <2>2 DEF Acts, Lives, Phase, Due, Heir, Pending
  <2> QED BY <2>3, <2>4, <2>5, <2>6 DEF r, x
<1>5. \A d \in Contexts, t \in Sims :
        /\ Acts(q[d][t]) <=> Acts(pr[d][t])
        /\ Lives(q[d][t]) <=> Lives(pr[d][t])
        /\ Acts(q[d][t]) => /\ Phase(q[d][t]) = Phase(pr[d][t])
                            /\ Due(q[d][t]) = Due(pr[d][t])
                            /\ Heir(q[d][t]) = Heir(pr[d][t])
        /\ Connecting(q[d][t]) => d # c /\ q[d][t] = pr[d][t]
        /\ Pending(q[d][t]) => d # c /\ q[d][t] = pr[d][t]
        /\ Young(q[d][t]) /\ Lives(q[d][t]) <=> Young(pr[d][t]) /\ Lives(pr[d][t])
        /\ q[d][t].child = pr[d][t].child
        /\ q[d][t].pc = pr[d][t].pc
  BY <1>1, <1>4
<1>6. Typed(q, calls, n, par, un, {}, re, D)
  BY <1>1, <1>2 DEF Typed
<1>7. AllLocal(q)
  BY <1>1, <1>4 DEF AllLocal
<1>8. CallsMade(q, calls)
  <2> SUFFICES ASSUME NEW d \in Contexts, NEW k \in Calls, NEW t \in calls[d][k]
               PROVE  /\ \/ q[d][t].pc = k /\ q[d][t].rep = None
                         \/ q[d][t].pc = "killed"
                      /\ k = "action" => q[d][t].offer \in Nat
    BY DEF CallsMade
  <2>1. t \in Sims
    BY DEF Typed
  <2>2. /\ \/ pr[d][t].pc = k /\ pr[d][t].rep = None
           \/ pr[d][t].pc = "killed"
        /\ k = "action" => pr[d][t].offer \in Nat
    BY DEF CallsMade
  <2>3. d = c => pr[d][t].pc = "killed"
    BY <2>1, <2>2, <1>3 DEF Calls
  <2> QED BY <1>1, <2>1, <2>2, <2>3
<1>9. Alike(q)
  BY <1>5 DEF Alike
<1>10. GrowUp(q, un)
  BY <1>5 DEF GrowUp
<1>11. Forking(q, n, par, un)
  <2> SUFFICES ASSUME NEW d \in Contexts, NEW u \in Sims, Pending(q[d][u])
               PROVE  LET h == q[d][u].rep.context
                      IN /\ h \in Contexts /\ h <= n /\ par[h] = d
                         /\ q[h][u].pc = "none"
                         /\ ~un[h]
                         /\ \A t \in Sims :
                              /\ Lives(q[h][t]) =>
                                   Connecting(q[h][t]) /\ q[h][t].min = q[d][u].rep.value
                              /\ Pending(q[d][t]) => q[d][t].rep.value = q[d][u].rep.value
    BY DEF Forking
  <2>1. q[d][u] = pr[d][u] /\ Pending(pr[d][u])
    BY <1>5
  <2> DEFINE h == pr[d][u].rep.context
  <2>2. /\ h \in Contexts /\ h <= n /\ par[h] = d
        /\ pr[h][u].pc = "none"
        /\ ~un[h]
        /\ \A t \in Sims :
             /\ Lives(pr[h][t]) =>
                  Connecting(pr[h][t]) /\ pr[h][t].min = pr[d][u].rep.value
             /\ Pending(pr[d][t]) => pr[d][t].rep.value = pr[d][u].rep.value
    <3>1. Forking(pr, n, par, un)
      OBVIOUS
    <3> HIDE DEF Good
    <3> QED BY <2>1, <3>1 DEF Forking
  <2>3. q[d][u].rep.context = h
    BY <2>1
  <2> HIDE DEF h
  <2>4. h # c
    BY <1>0, <2>2
  <2>5. q[h][u].pc = "none"
    BY <1>5, <2>2
  <2>6. \A t \in Sims :
          /\ Lives(q[h][t]) => Connecting(q[h][t]) /\ q[h][t].min = q[d][u].rep.value
          /\ Pending(q[d][t]) => q[d][t].rep.value = q[d][u].rep.value
    BY <1>1, <1>5, <2>1, <2>2, <2>4
  <2> QED BY <2>2, <2>3, <2>5, <2>6
<1>12. Unused(q, n, un)
  BY <1>5 DEF Unused
<1>13. Tree(q, n, par)
  <2>1. par \in [Contexts -> Contexts \cup {None}] /\ Tree(pr, n, par)
    BY DEF Typed
  <2> QED BY <1>5, <2>1, TreeKept
<1>14. \A h \in Contexts : Unborn(q, par, {}, h) =>
         /\ Unborn(pr, par, ini, h) /\ par[h] \in Contexts /\ par[h] # p
         /\ par[h] = c => \A t \in Sims : ~Acts(pr[c][t])
  <2> SUFFICES ASSUME NEW h \in Contexts, Unborn(q, par, {}, h)
               PROVE  /\ Unborn(pr, par, ini, h) /\ par[h] \in Contexts /\ par[h] # p
                      /\ par[h] = c => \A t \in Sims : ~Acts(pr[c][t])
    OBVIOUS
  <2>1. par[h] \in Contexts
    BY DEF Unborn, Typed
  <2>2. Unborn(pr, par, ini, h)
    BY <1>5, <2>1 DEF Unborn
  <2>3. h # c
    <3>1. \A t \in Sims : ~(Pending(q[p][t]) /\ q[p][t].rep.context = c)
      BY <1>0, <1>5, <1>p DEF Forking
    <3> QED BY <1>5, <1>a, <3>1 DEF Unborn
  <2>4. par[h] # p
    BY <1>p, <1>a, <2>2, <2>3 DEF Births
  <2>5. par[h] = c => \A t \in Sims : ~Acts(pr[c][t])
    BY <1>3, <2>2 DEF Births, Hangs, Pending
  <2> QED BY <2>1, <2>2, <2>4, <2>5
<1>15. Births(q, par, {}, D)
  <2>1. \A h \in Contexts, t \in Sims : Connecting(q[h][t]) => par[h] # None
    BY <1>5 DEF Births
  <2>2. \A h \in Contexts : Unborn(q, par, {}, h) =>
          /\ ~D[par[h]]
          /\ \A t \in Sims : Acts(q[par[h]][t]) => q[par[h]][t] = pr[par[h]][t]
    BY <1>1, <1>2, <1>5, <1>14 DEF Births
  <2> QED BY <2>1, <2>2, <1>5, <1>14 DEF Births
<1>16. Connected(q, par, {}, re, D)
  <2>1. ASSUME NEW d \in Contexts, NEW t \in Sims
        PROVE  /\ D[d] \/ t \in re[d] => q[d][t].pc # "none"
               /\ Acts(q[d][t]) =>
                    /\ D[d] => Hangs(q[d][t]) /\ ~Pending(q[d][t])
                    /\ t \in re[d] => q[d][t].pc = "reinit" /\ q[d][t].rep = None
    <3>1. CASE d = c
      <4>1. Acts(pr[c][t]) => ~done[c] /\ t \notin re[c]
        BY <1>3 DEF Connected, Hangs, Pending
      <4> QED BY <1>0, <1>2, <1>5, <1>p, <3>1, <4>1
    <3>2. CASE d = p
      <4>1. q[p][t] = pr[p][t]
        BY <1>1, <1>p
      <4>2. pr[p][t].pc # "none"
        BY <1>a, <1>p DEF Tree
      <4>3. Acts(pr[p][t]) => Hangs(pr[p][t]) /\ Heir(pr[p][t]) = c
        BY <1>a, <1>p DEF Births
      <4>4. Pending(pr[p][t]) => pr[p][t].rep.context # c
        BY <1>0, <1>p DEF Forking
      <4>5. Acts(pr[p][t]) => ~Pending(pr[p][t])
        BY <4>3, <4>4 DEF Heir
      <4> QED BY <1>p, <3>2, <4>1, <4>2, <4>3, <4>5 DEF Connected
    <3>3. CASE d # c /\ d # p
      <4>1. q[d][t] = pr[d][t] /\ (D[d] <=> done[d])
        BY <1>1, <1>2, <3>3
      <4> QED BY <4>1 DEF Connected
    <3> QED BY <3>1, <3>2, <3>3
  <2> QED BY <2>1 DEF Connected
<1> QED BY <1>6, <1>7, <1>8, <1>9, <1>10, <1>11, <1>12, <1>13, <1>15, <1>16 DEF q, D, p

-----------------------------------------------------------------------------
(* What the broker answers.                                                *)

\* A set of naturals that is not empty has a minimum: the intervals up to
\* its elements are well-founded by inclusion.
LEMMA MinIn ==
  ASSUME NEW S \in SUBSET Nat, S # {}
  PROVE  Min(S) \in S
<1> DEFINE W == {0 .. x : x \in S}
<1>1. IsWellFoundedOn(StrictSubsetOrdering(Nat), FiniteSubsetsOf(Nat))
  BY FS_StrictSubsetOrderingWellFounded
<1>2. \A x \in S : 0 .. x \in FiniteSubsetsOf(Nat)
  <2> TAKE x \in S
  <2>1. IsFiniteSet(0 .. x)
    BY FS_Interval
  <2> QED BY <2>1 DEF FiniteSubsetsOf
<1>3. W \subseteq FiniteSubsetsOf(Nat) /\ W # {}
  BY <1>2
<1> HIDE DEF W
<1>4. PICK w \in W : \A y \in W : <<y, w>> \notin StrictSubsetOrdering(Nat)
  BY <1>1, <1>3, WFMin
<1>5. PICK m \in S : w = 0 .. m
  BY DEF W
<1>6. ASSUME NEW x \in S
      PROVE  m <= x
  <2> SUFFICES ASSUME x < m PROVE FALSE
    OBVIOUS
  <2>1. 0 .. x \subseteq 0 .. m /\ m \in 0 .. m /\ m \notin 0 .. x
    OBVIOUS
  <2>2. 0 .. x # 0 .. m
    BY <2>1
  <2>3. 0 .. x \in SUBSET Nat /\ 0 .. m \in SUBSET Nat
    OBVIOUS
  <2>4. <<0 .. x, 0 .. m>> \in StrictSubsetOrdering(Nat)
    BY <2>1, <2>2, <2>3 DEF StrictSubsetOrdering
  <2> QED BY <1>4, <1>5, <2>4 DEF W
<1> QED BY <1>6 DEF Min

-----------------------------------------------------------------------------
(* The steps of a process.                                                 *)

\* In memory x process s goes on from r in its part of the loop, or ends.
Onward(s, r, x) ==
  /\ Local(s, x)
  /\ x.child \in {None, r.child} /\ x.pc # "none"
  /\ ~Pending(x) /\ ~Connecting(x)
  /\ Lives(x) => (Young(x) <=> Young(r))
  /\ Acts(x) => /\ Phase(x) = Phase(r)
                /\ Due(x) = Due(r)
                /\ Heir(x) = Heir(r)

\* Nothing keeps process s of context c from going on.
Free(pr, calls, c, s) ==
  /\ Acts(pr[c][s]) /\ ~Hangs(pr[c][s]) /\ ~Connecting(pr[c][s])
  /\ \A k \in Calls : s \notin calls[c][k]

LEMMA GoesOn ==
  ASSUME NEW pr, NEW calls, NEW n, NEW par, NEW un, NEW ini, NEW re, NEW done,
         Good(pr, calls, n, par, un, ini, re, done),
         NEW c \in Contexts, NEW s \in Sims, NEW x,
         Free(pr, calls, c, s), Onward(s, pr[c][s], x)
  PROVE  Good([pr EXCEPT ![c][s] = x], calls, n, par, un, ini, re, done)
<1> HIDE DEF Good
<1> QED BY Move DEF Free, Onward

Fits(k, mem, a) ==
  /\ k # "action" => a \in AnswersTo(k) /\ ~Forks(k, mem, a)
  /\ k = "action" =>
       /\ a \in Replies /\ a.context = contexts + 1
       /\ a.value # 0 /\ (\A t \in Sims : mem[t].child = None) =>
            contexts + 1 \in Contexts

\* The answer to a complete call is one.
LEMMA AnswerFits ==
  ASSUME NEW mem, NEW k \in Calls, under \in [Contexts -> BOOLEAN], contexts \in Contexts,
         NEW c \in Contexts,
         \A t \in Sims : mem[t].est \in Nat /\ (k = "action" => mem[t].offer \in Nat)
  PROVE  Fits(k, mem, Answer(k, mem, under[c]))
<1> DEFINE time == Min({mem[t].est : t \in Sims})
           least == Min({mem[t].offer : t \in Sims})
           full == contexts = MaxContext /\ \E t \in Sims : mem[t].child = None
           a == Answer(k, mem, under[c])
<1>1. time \in Nat
  <2>1. {mem[t].est : t \in Sims} \in SUBSET Nat /\ {mem[t].est : t \in Sims} # {}
    BY DEF Sims
  <2> QED BY <2>1, MinIn
<1>2. contexts \in Nat /\ MaxContext \in Nat /\ contexts <= MaxContext
  BY SpeculationAssumption DEF Contexts
<1>3. under[c] \in BOOLEAN
  OBVIOUS
<1> HIDE DEF time, least, full
<1>4. CASE k = "barrier"
  BY <1>4 DEF Fits, Answer, AnswersTo, Forks
<1>5. CASE k = "sr"
  BY <1>3, <1>5 DEF Fits, Answer, AnswersTo, Forks
<1>6. CASE k = "min"
  <2>1. a = [time |-> time, value |-> 0, context |-> contexts]
    BY <1>6 DEF Answer, time
  <2> QED BY <1>1, <1>2, <1>6, <2>1 DEF Fits, AnswersTo, Replies, Forks
<1>7. CASE k = "action"
  <2>1. least \in Nat
    <3>1. {mem[t].offer : t \in Sims} \in SUBSET Nat /\ {mem[t].offer : t \in Sims} # {}
      BY <1>7 DEF Sims
    <3> QED BY <3>1, MinIn DEF least
  <2>2. a = [time |-> time, value |-> IF full THEN 0 ELSE least,
             context |-> contexts + 1]
    BY <1>7 DEF Answer, time, least, full
  <2>3. a \in Replies /\ a.context = contexts + 1
    BY <1>1, <1>2, <2>1, <2>2 DEF Replies
  <2>4. ASSUME a.value # 0, \A t \in Sims : mem[t].child = None
        PROVE  contexts + 1 \in Contexts
    <3>1. ~full
      BY <2>2, <2>4
    <3>2. contexts # MaxContext
      BY <2>4, <3>1 DEF full, Sims
    <3> HIDE DEF a
    <3> QED BY <1>2, <3>2 DEF Contexts
  <2> QED BY <1>7, <2>3, <2>4 DEF Fits
<1> QED BY <1>4, <1>5, <1>6, <1>7 DEF Calls

\* Process r, when it has made call k.
Calling(r, k) == [r EXCEPT !.pc = k, !.rep = None]

\* Process s of context c, in memory all, makes call k, and may complete it.
LEMMA Collects ==
  ASSUME NEW pr, NEW un, NEW ini, NEW re, NEW done,
         Good(pr, in, contexts, parent, un, ini, re, done),
         under \in [Contexts -> BOOLEAN],
         NEW c \in Contexts, NEW s \in Sims, NEW k \in Calls, NEW all \in [Contexts -> [Sims -> Memory]],
         Free(pr, in, c, s),
         \A d \in Contexts, t \in Sims : d # c \/ t # s => all[d][t] = pr[d][t],
         Onward(s, pr[c][s], Calling(all[c][s], k)),
         k = "action" => all[c][s].offer \in Nat,
         Collect(all, c, s, k)
  PROVE  Good(proc', in', contexts', parent', un, ini, re, done)
<1> DEFINE x == Calling(all[c][s], k)
           q == [pr EXCEPT ![c][s] = x]
           mem == [all[c] EXCEPT ![s].pc = k, ![s].rep = None]
           came == in[c][k] \cup {s}
           calls == [in EXCEPT ![c][k] = @ \cup {s}]
           a == Answer(k, mem, under[c])
<1>1. /\ x \in Memory /\ x.pc = k /\ x.rep = None /\ x.offer = all[c][s].offer
  <2>1. x \in Memory
    BY DEF Onward, Local
  <2>2. all[c][s] \in Memory
    OBVIOUS
  <2> QED BY <2>1, <2>2 DEF Memory, Calling
<1>2. /\ pr \in [Contexts -> [Sims -> Memory]]
      /\ in \in [Contexts -> [Calls -> SUBSET Sims]]
      /\ contexts \in Contexts
      /\ parent \in [Contexts -> Contexts \cup {None}]
  BY DEF Good, Typed
<1>3. /\ q \in [Contexts -> [Sims -> Memory]]
      /\ \A d \in Contexts, t \in Sims :
           q[d][t] = IF d = c /\ t = s THEN x ELSE pr[d][t]
  <2> HIDE DEF Memory, x
  <2> QED BY <1>1, <1>2, Updated
<1>4. mem = [t \in Sims |-> IF t = s THEN x ELSE all[c][t]]
  <2> HIDE DEF Memory
  <2>1. all[c] \in [Sims -> Memory]
    OBVIOUS
  <2> QED BY <2>1 DEF Calling
<1>5. mem = q[c] /\ \A d \in Contexts : d # c => q[d] = all[d]
  <2> HIDE DEF x, q, mem, Memory
  <2>1. \A t \in Sims : mem[t] = q[c][t]
    BY <1>3, <1>4
  <2>2. q[c] \in [Sims -> Memory]
    BY <1>3
  <2>3. mem = q[c]
    BY <1>4, <2>1, <2>2
  <2>4. ASSUME NEW d \in Contexts, d # c
        PROVE  q[d] = all[d]
    <3>1. \A t \in Sims : q[d][t] = all[d][t]
      BY <1>3, <2>4
    <3>2. q[d] \in [Sims -> Memory] /\ all[d] \in [Sims -> Memory]
      BY <1>3
    <3> QED BY <3>1, <3>2
  <2> QED BY <2>3, <2>4
<1>6. [all EXCEPT ![c] = mem] = q
  <2> HIDE DEF x, q, mem, Memory
  <2> QED BY <1>3, <1>5
<1>7. Good(q, in, contexts, parent, un, ini, re, done)
  <2> HIDE DEF Good, x, Onward, Free
  <2>1. Onward(s, pr[c][s], x)
    BY DEF x
  <2> QED BY <2>1, GoesOn
<1>8. Good(q, calls, contexts, parent, un, ini, re, done)
  <2>1. q[c][s] = x
    BY <1>3
  <2>2. q[c][s].pc = k /\ q[c][s].rep = None /\ (k = "action" => q[c][s].offer \in Nat)
    BY <1>1, <2>1
  <2> HIDE DEF Good, x, q
  <2> QED BY <1>7, <2>2, Joins
<1>9. /\ calls = [in EXCEPT ![c][k] = came]
      /\ calls[c][k] = came
      /\ [calls EXCEPT ![c][k] = {}] = [in EXCEPT ![c][k] = {}]
  BY <1>2
<1>10. Acts(q[c][s])
  <2>1. q[c][s] = x
    BY <1>3
  <2> HIDE DEF q, x
  <2> QED BY <1>1, <2>1 DEF Acts, Lives, Calls
<1>11. CASE /\ proc' = [all EXCEPT ![c] = mem] /\ in' = [in EXCEPT ![c][k] = came]
            /\ contexts' = contexts /\ parent' = parent
  <2>1. proc' = q /\ in' = calls /\ contexts' = contexts /\ parent' = parent
    <3> HIDE DEF q, x, mem, calls
    <3> QED BY <1>6, <1>9, <1>11
  <2> HIDE DEF Good, q, calls
  <2> QED BY <1>8, <2>1
<1>12. CASE /\ came = Sims
            /\ proc' = [all EXCEPT ![c] = [t \in Sims |-> [mem[t] EXCEPT !.rep = a]]]
            /\ in' = [in EXCEPT ![c][k] = {}]
            /\ IF Forks(k, mem, a)
               THEN /\ contexts' = contexts + 1
                    /\ parent' = [parent EXCEPT ![contexts + 1] = c]
               ELSE contexts' = contexts /\ parent' = parent
  <2>1. /\ proc' = [all EXCEPT ![c] = [t \in Sims |-> [mem[t] EXCEPT !.rep = a]]]
        /\ in' = [in EXCEPT ![c][k] = {}]
        /\ IF Forks(k, mem, a)
           THEN /\ contexts' = contexts + 1
                /\ parent' = [parent EXCEPT ![contexts + 1] = c]
           ELSE contexts' = contexts /\ parent' = parent
    BY <1>12
  <2>2. \A t \in Sims : mem[t].est \in Nat /\ (k = "action" => mem[t].offer \in Nat)
    <3> TAKE t \in Sims
    <3>1. mem[t] = q[c][t] /\ q[c][t] \in Memory
      BY <1>3, <1>5
    <3>2. k = "action" => q[c][t].offer \in Nat
      <4>1. t \in calls[c][k]
        BY <1>9, <1>12
      <4> HIDE DEF calls, q
      <4> QED BY <1>8, <4>1 DEF Good, CallsMade
    <3> HIDE DEF mem, q
    <3> QED BY <3>1, <3>2 DEF Memory
  <2>3. Fits(k, mem, a)
    <3> HIDE DEF mem, Contexts
    <3> QED BY <1>2, <2>2, AnswerFits
  <2> USE DEF Fits
  <2>4. proc' = AllAnswered(q, c, a)
    <3>1. [t \in Sims |-> [mem[t] EXCEPT !.rep = a]] = [t \in Sims |-> [q[c][t] EXCEPT !.rep = a]]
      BY <1>5
    <3> DEFINE X == [t \in Sims |-> [q[c][t] EXCEPT !.rep = a]]
    <3>2. [all EXCEPT ![c] = X] = [q EXCEPT ![c] = X]
      <4> HIDE DEF X, q, Memory
      <4> QED BY <1>3, <1>5
    <3> HIDE DEF q, mem, a
    <3> QED BY <2>1, <3>1, <3>2 DEF AllAnswered
  <2>5. in' = [calls EXCEPT ![c][k] = {}] /\ calls[c][k] = Sims
    <3> HIDE DEF calls
    <3> QED BY <1>9, <1>12, <2>1
  <2> HIDE DEF q, calls, a, Good
  <2>6. CASE k # "action"
    <3>1. Good(AllAnswered(q, c, a), [calls EXCEPT ![c][k] = {}], contexts, parent, un, ini, re, done)
      BY <1>8, <1>10, <2>3, <2>5, <2>6, Completes
    <3> QED BY <2>1, <2>3, <2>4, <2>5, <2>6, <3>1
  <2>7. CASE k = "action"
    <3>1. IF a.value # 0 /\ \A t \in Sims : q[c][t].child = None
          THEN /\ contexts + 1 \in Contexts /\ contexts' = contexts + 1
               /\ parent' = [parent EXCEPT ![contexts + 1] = c]
          ELSE contexts' = contexts /\ parent' = parent
      <4>1. \A t \in Sims : mem[t].child = q[c][t].child
        BY <1>5
      <4>2. Forks(k, mem, a) <=> a.value # 0 /\ \A t \in Sims : q[c][t].child = None
        <5> HIDE DEF mem
        <5> QED BY <2>7, <4>1 DEF Forks
      <4> HIDE DEF mem
      <4> QED BY <2>1, <2>3, <2>7, <4>1, <4>2
    <3> DEFINE m == contexts'
               above == parent'
    <3>2. IF a.value # 0 /\ \A t \in Sims : q[c][t].child = None
          THEN /\ contexts + 1 \in Contexts /\ m = contexts + 1
               /\ above = [parent EXCEPT ![contexts + 1] = c]
          ELSE m = contexts /\ above = parent
      BY <3>1
    <3>3. a \in Replies /\ a.context = contexts + 1 /\ calls[c]["action"] = Sims
      BY <2>3, <2>5, <2>7
    <3> HIDE DEF m, above, Replies
    <3>4. Good(AllAnswered(q, c, a), [calls EXCEPT ![c]["action"] = {}], m, above, un, ini, re, done)
      BY <1>8, <1>10, <3>2, <3>3, Agrees, ZenonT(60)
    <3> QED BY <2>4, <2>5, <2>7, <3>4 DEF m, above
  <2> QED BY <2>6, <2>7
<1> QED BY <1>11, <1>12 DEF Collect

\* Process o, whose memory is r but for its place, can be granted time.
Ready(o, r, time) ==
  /\ Phase(o) = "ahead" /\ Due(o) = time /\ o.pc # "barrier"
  /\ r.isChild = o.isChild /\ r.child = Heir(o) /\ r.child \in {None, o.child}

LEMMA StartFits ==
  ASSUME setting \in Settings
  PROVE  /\ Start \in Memory /\ Infinity \in Nat
         /\ setting.lookAhead \in Nat
         /\ \A how \in Places :
              /\ Gone(how) \in Memory /\ Gone(how).pc = how /\ Gone(how).rep = None
              /\ Gone(how).child = None /\ Gone(how).isChild = FALSE
              /\ Gone(how).cur = 0 /\ Gone(how).granted = 0
<1>1. Infinity \in Nat /\ setting.lookAhead \in Nat
  BY SpeculationAssumption DEF Infinity
<1>2. Start \in Memory
  <2> HIDE DEF Infinity
  <2> QED BY <1>1 DEF Start, Memory, Places, Replies
<1>3. ASSUME NEW how \in Places
      PROVE  /\ Gone(how) \in Memory /\ Gone(how).pc = how /\ Gone(how).rep = None
             /\ Gone(how).child = None /\ Gone(how).isChild = FALSE
             /\ Gone(how).cur = 0 /\ Gone(how).granted = 0
  <2>1. Gone(how) = [Start EXCEPT !.pc = how]
    BY DEF Gone
  <2>2. Gone(how) \in Memory
    <3> HIDE DEF Start, Places, Replies, Infinity
    <3> QED BY <1>2, <2>1 DEF Memory
  <2>3. Start.rep = None /\ Start.child = None /\ Start.isChild = FALSE
        /\ Start.cur = 0 /\ Start.granted = 0
    BY DEF Start
  <2>4. Gone(how).pc = how /\ Gone(how).rep = Start.rep
        /\ Gone(how).child = Start.child /\ Gone(how).isChild = Start.isChild
        /\ Gone(how).cur = Start.cur /\ Gone(how).granted = Start.granted
    <3> HIDE DEF Start
    <3> QED BY <1>2, <2>1 DEF Memory
  <2> QED BY <2>2, <2>3, <2>4
<1> QED BY <1>1, <1>2, <1>3

\* The call returns.
LEMMA Returns ==
  ASSUME NEW s \in Sims, NEW o, NEW r \in Memory, NEW time \in Nat, NEW now \in Nat,
         s = NetSim => now >= time, Ready(o, r, time)
  PROVE  LET x == [Locals(r) EXCEPT !.pc = "idle", !.cur = now,
                                    !.granted = GrantedTime(r, time)]
         IN x \in Memory /\ Onward(s, o, x)
<1> DEFINE x == [Locals(r) EXCEPT !.pc = "idle", !.cur = now,
                                  !.granted = GrantedTime(r, time)]
<1>1. Locals(r) \in Memory /\ Locals(r).child = r.child /\ Locals(r).isChild = r.isChild
      /\ Locals(r).rep = None
  <2> HIDE DEF Replies, Places
  <2> QED BY DEF Memory, Locals
<1>2. /\ x \in Memory /\ x.pc = "idle" /\ x.cur = now /\ x.granted = time
      /\ x.child = r.child /\ x.isChild = r.isChild /\ x.rep = None
  <2>1. "idle" \in Places
    BY DEF Places
  <2> HIDE DEF Replies, Places, Locals
  <2> QED BY <1>1, <2>1 DEF Memory, GrantedTime
<1> HIDE DEF x, Memory
<1>3. Local(s, x)
  BY <1>2 DEF Local
<1>4. ~Pending(x) /\ ~Connecting(x) /\ (Young(x) <=> x.isChild)
  BY <1>2 DEF Pending, Connecting, Young
<1>5. Phase(x) = "ahead" /\ Due(x) = time /\ Heir(x) = r.child
  BY <1>2, <1>4 DEF Phase, Due, Heir
<1>6. Young(o) <=> o.isChild
  BY DEF Young, Ready
<1> QED BY <1>2, <1>3, <1>4, <1>5, <1>6 DEF Onward, Ready, x

\* The loop goes on.
LEMMA Repeats ==
  ASSUME NEW s \in Sims, NEW o, NEW r \in Memory, NEW time \in Nat,
         s # NetSim, Ready(o, r, time), NEW again,
         again = [r EXCEPT !.busy = TRUE, !.param = time, !.base = time,
                           !.granted = GrantedTime(r, time)]
  PROVE  again \in Memory /\ Onward(s, o, Calling(again, "barrier"))
<1> DEFINE x == Calling(again, "barrier")
<1>1. again \in Memory /\ again.child = r.child /\ again.isChild = r.isChild
      /\ again.granted = time /\ again.busy = TRUE
  <2> HIDE DEF Replies, Places
  <2> QED BY DEF Memory, GrantedTime
<1>2. /\ x \in Memory /\ x.pc = "barrier" /\ x.granted = time /\ x.busy = TRUE
      /\ x.child = r.child /\ x.isChild = r.isChild /\ x.rep = None
  <2>1. "barrier" \in Places
    BY DEF Places, Calls
  <2> HIDE DEF Replies, Places
  <2> QED BY <1>1, <2>1, ZenonT(60) DEF Memory, Calling
<1> HIDE DEF x, Memory
<1>3. Local(s, x)
  BY <1>2 DEF Local
<1>4. ~Pending(x) /\ ~Connecting(x) /\ (Young(x) <=> x.isChild)
  BY <1>2 DEF Pending, Connecting, Young
<1>5. Phase(x) = "ahead" /\ Due(x) = time /\ Heir(x) = r.child
  BY <1>2, <1>4 DEF Phase, Due, Heir
<1>6. Young(o) <=> o.isChild
  BY DEF Young, Ready
<1> QED BY <1>1, <1>2, <1>3, <1>4, <1>5, <1>6 DEF Onward, Ready, x

Put(pr, c, s, x) == [pr EXCEPT ![c][s] = x]

\* Two functions of processes that differ at one process only.
LEMMA Elsewhere ==
  ASSUME NEW pr \in [Contexts -> [Sims -> Memory]], NEW all \in [Contexts -> [Sims -> Memory]],
         NEW c \in Contexts, NEW s \in Sims, NEW x \in Memory,
         \A d \in Contexts, t \in Sims : d # c \/ t # s => all[d][t] = pr[d][t]
  PROVE  /\ [all EXCEPT ![c][s] = x] \in [Contexts -> [Sims -> Memory]]
         /\ \A d \in Contexts, t \in Sims :
              [all EXCEPT ![c][s] = x][d][t] = IF d = c /\ t = s THEN x ELSE pr[d][t]
<1> DEFINE p == [all EXCEPT ![c][s] = x]
<1>1. /\ p \in [Contexts -> [Sims -> Memory]]
      /\ \A d \in Contexts, t \in Sims : p[d][t] = IF d = c /\ t = s THEN x ELSE all[d][t]
  <2> HIDE DEF Memory
  <2> QED BY Updated
<1> HIDE DEF p, Memory
<1>2. \A d \in Contexts, t \in Sims : p[d][t] = IF d = c /\ t = s THEN x ELSE pr[d][t]
  BY <1>1
<1> QED BY <1>1, <1>2 DEF p

LEMMA OneDiffers ==
  ASSUME NEW pr \in [Contexts -> [Sims -> Memory]], NEW all \in [Contexts -> [Sims -> Memory]],
         NEW c \in Contexts, NEW s \in Sims, NEW x \in Memory,
         \A d \in Contexts, t \in Sims : d # c \/ t # s => all[d][t] = pr[d][t]
  PROVE  Put(all, c, s, x) = Put(pr, c, s, x)
<1> DEFINE p == [all EXCEPT ![c][s] = x]
           q == [pr EXCEPT ![c][s] = x]
<1>1. /\ q \in [Contexts -> [Sims -> Memory]]
      /\ \A d \in Contexts, t \in Sims : q[d][t] = IF d = c /\ t = s THEN x ELSE pr[d][t]
  <2> HIDE DEF Memory
  <2> QED BY Updated
<1>2. /\ p \in [Contexts -> [Sims -> Memory]]
      /\ \A d \in Contexts, t \in Sims : p[d][t] = IF d = c /\ t = s THEN x ELSE all[d][t]
  <2> HIDE DEF Memory
  <2> QED BY Updated
<1> HIDE DEF p, q, Memory
<1>3. \A d \in Contexts : p[d] = q[d]
  <2> TAKE d \in Contexts
  <2>1. \A t \in Sims : p[d][t] = q[d][t]
    BY <1>1, <1>2
  <2>2. p[d] \in [Sims -> Memory] /\ q[d] \in [Sims -> Memory]
    BY <1>1, <1>2
  <2> QED BY <2>1, <2>2
<1>4. p = q
  BY <1>1, <1>2, <1>3
<1> QED BY <1>4 DEF Put, p, q

\* The rest of GetNextTime, for a process that can be granted time.
LEMMA Proceeds ==
  ASSUME NEW pr, NEW un, NEW ini, NEW re, NEW done,
         Good(pr, in, contexts, parent, un, ini, re, done),
         under \in [Contexts -> BOOLEAN], setting \in Settings,
         NEW c \in Contexts, NEW s \in Sims, NEW all \in [Contexts -> [Sims -> Memory]],
         Free(pr, in, c, s),
         \A d \in Contexts, t \in Sims : d # c \/ t # s => all[d][t] = pr[d][t],
         NEW time \in Nat, Ready(pr[c][s], all[c][s], time),
         Proceed(all, c, s, time)
  PROVE  Good(proc', in', contexts', parent', un, ini, re, done)
<1> DEFINE r == all[c][s]
           o == pr[c][s]
           back(now) == [Locals(r) EXCEPT !.pc = "idle", !.cur = now,
                                          !.granted = GrantedTime(r, time)]
           again == [r EXCEPT !.busy = TRUE, !.param = time, !.base = time,
                              !.granted = GrantedTime(r, time)]
<1>1. r \in Memory /\ pr \in [Contexts -> [Sims -> Memory]]
  BY DEF Good, Typed
<1>2. ASSUME NEW x \in Memory, Onward(s, o, x),
             proc' = [all EXCEPT ![c][s] = x], NoCall
      PROVE  Good(proc', in', contexts', parent', un, ini, re, done)
  <2>1. proc' = [pr EXCEPT ![c][s] = x]
    <3>1. Put(all, c, s, x) = Put(pr, c, s, x)
      <4> HIDE DEF Memory, Good, o, r, back, again
      <4> QED BY <1>1, OneDiffers
    <3> QED BY <1>2, <3>1 DEF Put
  <2>2. in' = in /\ contexts' = contexts /\ parent' = parent
    BY <1>2 DEF NoCall
  <2>3. Good([pr EXCEPT ![c][s] = x], in, contexts, parent, un, ini, re, done)
    <3>1. Onward(s, pr[c][s], x)
      BY <1>2
    <3> HIDE DEF Good, Free, Onward, o, r, back, again
    <3> QED BY <3>1, GoesOn
  <2> HIDE DEF Good
  <2> QED BY <2>1, <2>2, <2>3
<1>3. CASE s = NetSim /\ time = Infinity
  <2>1. /\ "ended" \in Places
    BY DEF Places
  <2>2. /\ Gone("ended") \in Memory /\ Gone("ended").pc = "ended"
        /\ Gone("ended").child = None /\ Gone("ended").rep = None
        /\ Gone("ended").cur = 0 /\ Gone("ended").granted = 0
    BY <2>1, StartFits
  <2> DEFINE x == Gone("ended")
  <2> HIDE DEF x, Memory
  <2>3. Onward(s, o, x)
    BY <2>2 DEF Onward, Local, Pending, Connecting, Lives, Acts, x
  <2>4. proc' = [all EXCEPT ![c][s] = x] /\ NoCall
    BY <1>3 DEF Proceed, x
  <2> QED BY <1>2, <2>2, <2>3, <2>4 DEF x
<1>4. CASE s = NetSim /\ time # Infinity
  <2>1. back(time) \in Memory /\ Onward(s, o, back(time))
    <3> HIDE DEF Memory, r, o
    <3>1. Ready(o, r, time)
      BY DEF r, o
    <3>2. time >= time
      OBVIOUS
    <3> QED BY <1>1, <3>1, <3>2, Returns
  <2>2. proc' = [all EXCEPT ![c][s] = back(time)] /\ NoCall
    BY <1>4 DEF Proceed
  <2> HIDE DEF back, Memory
  <2> QED BY <1>2, <2>1, <2>2
<1>5. CASE s # NetSim /\ time < r.myMin
  <2> DEFINE A == [all EXCEPT ![c][s] = again]
  <2>1. again \in Memory /\ Onward(s, o, Calling(again, "barrier"))
    <3> HIDE DEF Memory, r, o
    <3>1. Ready(o, r, time)
      BY DEF r, o
    <3> QED BY <1>1, <1>5, <3>1, Repeats
  <2>2. Collect(A, c, s, "barrier")
    BY <1>5 DEF Proceed
  <2>3. /\ A \in [Contexts -> [Sims -> Memory]]
        /\ \A d \in Contexts, t \in Sims :
             A[d][t] = IF d = c /\ t = s THEN again ELSE pr[d][t]
    <3> HIDE DEF Memory, again, Good
    <3> QED BY <1>1, <2>1, Elsewhere
  <2> HIDE DEF A, again
  <2>4. Onward(s, o, Calling(A[c][s], "barrier"))
    BY <2>1, <2>3
  <2>5. "barrier" \in Calls /\ \A d \in Contexts, t \in Sims : d # c \/ t # s => A[d][t] = pr[d][t]
    BY <2>3 DEF Calls
  <2>6. "barrier" # "action" /\ Onward(s, pr[c][s], Calling(A[c][s], "barrier"))
    BY <2>4
  <2> HIDE DEF Good, Free, Onward, Memory, o, r, back
  <2> QED BY <2>2, <2>3, <2>5, <2>6, Collects, ZenonT(60)
<1>6. CASE s # NetSim /\ ~(time < r.myMin)
  <2>1. r.myMin \in Nat
    BY <1>1 DEF Memory
  <2>2. back(r.myMin) \in Memory /\ Onward(s, o, back(r.myMin))
    <3> HIDE DEF Memory, r, o
    <3>1. Ready(o, r, time)
      BY DEF r, o
    <3> QED BY <1>1, <1>6, <2>1, <3>1, Returns
  <2>3. proc' = [all EXCEPT ![c][s] = back(r.myMin)] /\ NoCall
    BY <1>6 DEF Proceed
  <2> HIDE DEF back, Memory
  <2> QED BY <1>2, <2>2, <2>3
<1> QED BY <1>3, <1>4, <1>5, <1>6

-----------------------------------------------------------------------------
(* The actions.                                                            *)

LEMMA SharedFits ==
  ASSUME shm \in Shared, NEW p, NEW s \in Sims, NEW v \in Nat
  PROVE  /\ [shm EXCEPT ![p][s].failTime = v] \in Shared
         /\ [shm EXCEPT ![p][s].action = v] \in Shared
         /\ [shm EXCEPT ![p][s] = Fresh] \in Shared
<1> DEFINE M == [action: Nat, failTime: Nat]
<1>1. Fresh \in M
  BY DEF Fresh, NoInfo, Undefined
<1>2. \A x \in M : [x EXCEPT !.failTime = v] \in M /\ [x EXCEPT !.action = v] \in M
  OBVIOUS
<1>3. ASSUME NEW x, NEW d \in Contexts, d = p => x \in M
      PROVE  [shm EXCEPT ![p][s] = x][d] \in [Sims -> M]
  BY <1>3 DEF Shared
<1>4. ASSUME NEW x, p \in Contexts => x \in M
      PROVE  [shm EXCEPT ![p][s] = x] \in Shared
  <2> HIDE DEF M
  <2>1. \A d \in Contexts : [shm EXCEPT ![p][s] = x][d] \in [Sims -> M]
    BY <1>3, <1>4
  <2>2. [shm EXCEPT ![p][s] = x] = [d \in Contexts |-> [shm EXCEPT ![p][s] = x][d]]
    BY DEF Shared
  <2>3. [d \in Contexts |-> [shm EXCEPT ![p][s] = x][d]] \in [Contexts -> [Sims -> M]]
    BY <2>1
  <2> QED BY <2>2, <2>3 DEF Shared, M
<1>5. p \in Contexts => shm[p][s] \in M
  BY DEF Shared
<1> HIDE DEF M
<1>6. [shm EXCEPT ![p][s] = [shm[p][s] EXCEPT !.failTime = v]] \in Shared
  <2> DEFINE x == [shm[p][s] EXCEPT !.failTime = v]
  <2>1. p \in Contexts => x \in M
    BY <1>2, <1>5
  <2> HIDE DEF x
  <2> QED BY <1>4, <2>1 DEF x
<1>7. [shm EXCEPT ![p][s] = [shm[p][s] EXCEPT !.action = v]] \in Shared
  <2> DEFINE x == [shm[p][s] EXCEPT !.action = v]
  <2>1. p \in Contexts => x \in M
    BY <1>2, <1>5
  <2> HIDE DEF x
  <2> QED BY <1>4, <2>1 DEF x
<1>8. [shm EXCEPT ![p][s].failTime = v] = [shm EXCEPT ![p][s] = [shm[p][s] EXCEPT !.failTime = v]]
  BY DEF Shared
<1>9. [shm EXCEPT ![p][s].action = v] = [shm EXCEPT ![p][s] = [shm[p][s] EXCEPT !.action = v]]
  BY DEF Shared
<1> QED BY <1>1, <1>4, <1>6, <1>7, <1>8, <1>9

LEMMA Frees ==
  ASSUME IInv, NEW c \in Contexts, NEW s \in Sims,
         Acts(proc[c][s]), ~Hangs(proc[c][s]), ~Connecting(proc[c][s]),
         proc[c][s].pc \notin Calls \/ proc[c][s].rep # None
  PROVE  Free(proc, in, c, s)
<1> SUFFICES ASSUME NEW k \in Calls, s \in in[c][k]
             PROVE  FALSE
  BY DEF Free
<1>1. \/ proc[c][s].pc = k /\ proc[c][s].rep = None
      \/ proc[c][s].pc = "killed"
  BY DEF IInv, Good, CallsMade
<1> QED BY <1>1 DEF Acts, Lives

LEMMA StepBecomes ==
  ASSUME IInv, NEW c \in Contexts, NEW s \in Sims, NEW x,
         Free(proc, in, c, s), Onward(s, proc[c][s], x),
         Becomes(c, s, x), NoCall, NoConnection,
         setting' = setting, under' = under, shm' \in Shared
  PROVE  IInv'
<1>1. Good([proc EXCEPT ![c][s] = x], in, contexts, parent, under, childIni, reinit, initDone)
  <2> HIDE DEF Good, Free, Onward
  <2> QED BY GoesOn DEF IInv
<1> HIDE DEF Good
<1> QED BY <1>1 DEF IInv, Becomes, NoCall, NoConnection

\* Here the memory of the others may be that after a SIGKILL, and a message
\* may have been sent.
LEMMA StepCollects ==
  ASSUME IInv, NEW c \in Contexts, NEW s \in Sims, NEW pr, NEW un,
         Good(pr, in, contexts, parent, un, childIni, reinit, initDone),
         NEW x \in Memory, NEW k \in Calls, Free(pr, in, c, s),
         Onward(s, pr[c][s], Calling(x, k)),
         k = "action" => x.offer \in Nat,
         Collect([pr EXCEPT ![c][s] = x], c, s, k), NoConnection,
         setting' = setting, under' = un, shm' \in Shared
  PROVE  IInv'
<1> DEFINE all == [pr EXCEPT ![c][s] = x]
<1>1. /\ all \in [Contexts -> [Sims -> Memory]]
      /\ \A d \in Contexts, t \in Sims : all[d][t] = IF d = c /\ t = s THEN x ELSE pr[d][t]
  <2>1. pr \in [Contexts -> [Sims -> Memory]]
    BY DEF Good, Typed
  <2> HIDE DEF Memory
  <2> QED BY <2>1, Updated
<1>2. under \in [Contexts -> BOOLEAN]
  BY DEF IInv, Good, Typed
<1> HIDE DEF all, Good, Free, Onward, Memory
<1>3. Onward(s, pr[c][s], Calling(all[c][s], k))
  BY <1>1
<1>a. k = "action" => all[c][s].offer \in Nat
  BY <1>1
<1>b. \A d \in Contexts, t \in Sims : d # c \/ t # s => all[d][t] = pr[d][t]
  BY <1>1
<1>c. all \in [Contexts -> [Sims -> Memory]]
  BY <1>1
<1>4. Collect(all, c, s, k)
  BY DEF all
<1>5. Good(proc', in', contexts', parent', un, childIni, reinit, initDone)
  BY <1>2, <1>3, <1>4, <1>a, <1>b, <1>c, Collects, SMTT(30)
<1> QED BY <1>5 DEF IInv, NoConnection

LEMMA StepProceeds ==
  ASSUME IInv, NEW c \in Contexts, NEW s \in Sims, NEW pr,
         Good(pr, in, contexts, parent, under, childIni, reinit, initDone),
         NEW x \in Memory, NEW time \in Nat, Free(pr, in, c, s),
         Ready(pr[c][s], x, time),
         Proceed([pr EXCEPT ![c][s] = x], c, s, time), NoConnection,
         setting' = setting, under' = under, shm' \in Shared
  PROVE  IInv'
<1> DEFINE all == [pr EXCEPT ![c][s] = x]
<1>1. /\ all \in [Contexts -> [Sims -> Memory]]
      /\ \A d \in Contexts, t \in Sims : all[d][t] = IF d = c /\ t = s THEN x ELSE pr[d][t]
  <2>1. pr \in [Contexts -> [Sims -> Memory]]
    BY DEF Good, Typed
  <2> HIDE DEF Memory
  <2> QED BY <2>1, Updated
<1>2. under \in [Contexts -> BOOLEAN] /\ setting \in Settings
  BY DEF IInv, Good, Typed
<1> HIDE DEF all, Good, Free, Onward, Memory
<1>3. Ready(pr[c][s], all[c][s], time)
      /\ \A d \in Contexts, t \in Sims : d # c \/ t # s => all[d][t] = pr[d][t]
  BY <1>1
<1>4. Proceed(all, c, s, time)
  BY DEF all
<1>5. Good(proc', in', contexts', parent', under, childIni, reinit, initDone)
  BY <1>1, <1>2, <1>3, <1>4, Proceeds, ZenonT(60)
<1> QED BY <1>5 DEF IInv, NoConnection

\* SIGKILL to a child.
LEMMA KillsChild ==
  ASSUME IInv, NEW c \in Contexts, NEW s \in Sims, proc[c][s].child # None
  PROVE  LET q == Killed(proc, c, s)
         IN /\ Good(q, in, contexts, parent, under, childIni, reinit, initDone)
            /\ \A t \in Sims : q[c][t] = proc[c][t]
<1> DEFINE g == proc[c][s].child
           o == proc[g][s]
           x == [Gone("killed") EXCEPT !.est = o.est, !.offer = o.offer]
<1>1. g \in Contexts /\ parent[g] = c /\ o.pc # "none"
  BY DEF IInv, Good, Tree
<1>2. g # c
  <2>1. parent[g] # None
    BY <1>1, SpeculationAssumption DEF Contexts
  <2>2. parent[g] < g
    BY <1>1, <2>1 DEF IInv, Good, Tree
  <2>3. g \in Nat
    BY <1>1 DEF Contexts
  <2> HIDE DEF g
  <2> QED BY <1>1, <2>2, <2>3
<1>3. proc \in [Contexts -> [Sims -> Memory]] /\ o \in Memory
  BY <1>1 DEF IInv, Good, Typed
<1>4. /\ Gone("killed") \in Memory /\ Gone("killed").pc = "killed"
      /\ Gone("killed").rep = None /\ Gone("killed").child = None
      /\ Gone("killed").cur = 0 /\ Gone("killed").granted = 0
  BY StartFits DEF IInv, Places
<1>5. x \in Memory /\ x.pc = "killed" /\ x.child = None /\ x.offer = o.offer
      /\ x.cur = 0 /\ x.granted = 0
  <2> HIDE DEF Replies, Places, o
  <2> QED BY <1>3, <1>4 DEF Memory
<1>6. Local(s, x)
  <2> HIDE DEF x, Memory
  <2> QED BY <1>5 DEF Local
<1>7. Killed(proc, c, s) = [proc EXCEPT ![g][s] = x]
  BY DEF Killed
<1>8. Good([proc EXCEPT ![g][s] = x], in, contexts, parent, under, childIni, reinit, initDone)
  <2>1. Good(proc, in, contexts, parent, under, childIni, reinit, initDone)
    BY DEF IInv
  <2> HIDE DEF Good, g, x
  <2> QED BY <1>1, <1>5, <1>6, <2>1, Kills DEF o
<1>9. \A t \in Sims : [proc EXCEPT ![g][s] = x][c][t] = proc[c][t]
  <2> HIDE DEF g, x, Memory
  <2> QED BY <1>1, <1>2, <1>3
<1> QED BY <1>7, <1>8, <1>9

\* A message is sent by one that runs for itself.
LEMMA Sends ==
  ASSUME NEW pr, NEW calls, NEW n, NEW par, NEW un, NEW ini, NEW re, NEW done,
         Good(pr, calls, n, par, un, ini, re, done),
         NEW c \in Contexts, NEW s \in Sims, Lives(pr[c][s]), ~Young(pr[c][s])
  PROVE  Good(pr, calls, n, par, [un EXCEPT ![c] = TRUE], ini, re, done)
<1> DEFINE U == [un EXCEPT ![c] = TRUE]
<1> USE DEF Good
<1>1. /\ U \in [Contexts -> BOOLEAN]
      /\ \A d \in Contexts : d # c => (U[d] <=> un[d])
  BY DEF Typed
<1> HIDE DEF U
<1>2. Typed(pr, calls, n, par, U, ini, re, done)
  BY <1>1 DEF Typed
<1>3. \A t \in Sims : ~(Lives(pr[c][t]) /\ Young(pr[c][t]))
  BY DEF GrowUp
<1>4. GrowUp(pr, U)
  BY <1>1, <1>3 DEF GrowUp
<1>5. Forking(pr, n, par, U)
  <2> SUFFICES ASSUME NEW d \in Contexts, NEW u \in Sims, Pending(pr[d][u])
               PROVE  LET g == pr[d][u].rep.context
                      IN g \in Contexts /\ ~U[g]
    <3>1. Forking(pr, n, par, un)
      OBVIOUS
    <3> HIDE DEF Good
    <3> QED BY <3>1 DEF Forking
  <2> DEFINE g == pr[d][u].rep.context
  <2>1. /\ g \in Contexts /\ ~un[g]
        /\ \A t \in Sims : Lives(pr[g][t]) => Connecting(pr[g][t])
    BY DEF Forking
  <2> HIDE DEF g
  <2>2. g # c
    <3> SUFFICES ASSUME g = c PROVE FALSE
      OBVIOUS
    <3>1. Connecting(pr[c][s]) /\ Local(s, pr[c][s])
      BY <2>1 DEF AllLocal
    <3> QED BY <3>1 DEF Connecting, Local, Young
  <2> QED BY <1>1, <2>1, <2>2 DEF g
<1>6. Unused(pr, n, U)
  <2>1. pr[c][s].pc # "none"
    BY DEF Lives
  <2> QED BY <1>1, <2>1 DEF Unused
<1> QED BY <1>2, <1>4, <1>5, <1>6 DEF U

\* The messages of a context arrive.
LEMMA Arrives ==
  ASSUME NEW pr, NEW calls, NEW n, NEW par, NEW un, NEW ini, NEW re, NEW done,
         Good(pr, calls, n, par, un, ini, re, done), NEW c \in Contexts
  PROVE  Good(pr, calls, n, par, [un EXCEPT ![c] = FALSE], ini, re, done)
<1> DEFINE U == [un EXCEPT ![c] = FALSE]
<1> USE DEF Good
<1>1. /\ U \in [Contexts -> BOOLEAN]
      /\ \A d \in Contexts : U[d] => un[d]
  BY DEF Typed
<1> HIDE DEF U
<1>2. Typed(pr, calls, n, par, U, ini, re, done)
  BY <1>1 DEF Typed
<1>3. GrowUp(pr, U)
  BY <1>1 DEF GrowUp
<1>4. Forking(pr, n, par, U)
  <2> SUFFICES ASSUME NEW d \in Contexts, NEW u \in Sims, Pending(pr[d][u])
               PROVE  LET g == pr[d][u].rep.context
                      IN g \in Contexts /\ ~U[g]
    <3>1. Forking(pr, n, par, un)
      OBVIOUS
    <3> HIDE DEF Good
    <3> QED BY <3>1 DEF Forking
  <2> DEFINE g == pr[d][u].rep.context
  <2>1. g \in Contexts /\ ~un[g]
    BY DEF Forking
  <2> HIDE DEF g
  <2> QED BY <1>1, <2>1 DEF g
<1>5. Unused(pr, n, U)
  BY <1>1 DEF Unused
<1> QED BY <1>2, <1>3, <1>4, <1>5 DEF U

\* What the broker has been told is forgotten.
LEMMA Forgets ==
  ASSUME NEW pr, NEW calls, NEW n, NEW par, NEW un, NEW ini, NEW re, NEW done,
         Good(pr, calls, n, par, un, ini, re, done), NEW less, less \subseteq ini
  PROVE  Good(pr, calls, n, par, un, less, re, done)
<1> USE DEF Good
<1>1. Typed(pr, calls, n, par, un, less, re, done)
  BY DEF Typed
<1>2. \A g \in Contexts : Unborn(pr, par, less, g) => Unborn(pr, par, ini, g)
  BY DEF Unborn
<1>3. Births(pr, par, less, done)
  BY <1>2 DEF Births
<1>4. Connected(pr, par, less, re, done)
  BY DEF Connected
<1> QED BY <1>1, <1>3, <1>4

LEMMA Here ==
  ASSUME IInv, NEW c \in Contexts, NEW s \in Sims
  PROVE  /\ Local(s, proc[c][s]) /\ proc[c][s] \in Memory
         /\ Good(proc, in, contexts, parent, under, childIni, reinit, initDone)
BY DEF IInv, Good, AllLocal, Local

LEMMA StepStartEarlyKeeps ==
  ASSUME IInv, NEW c \in Contexts, NEW s \in Sims, StepStartEarly(c, s)
  PROVE  IInv'
<1> DEFINE r == proc[c][s]
           x == [r EXCEPT !.pc = "work"]
<1>1. /\ r.pc = "idle" /\ r.cur < r.granted
      /\ Becomes(c, s, x) /\ NoCall /\ NoConnection
      /\ setting' = setting /\ under' = under
      /\ shm' = IF r.isChild /\ r.comm
                THEN [shm EXCEPT ![parent[c]][s].failTime = Reached(r)] ELSE shm
  BY DEF StepStartEarly, At
<1>2. Local(s, r) /\ r \in Memory
  BY Here
<1>3. shm' \in Shared
  <2>1. Reached(r) \in Nat /\ shm \in Shared
    BY <1>2 DEF Reached, Memory, IInv
  <2> HIDE DEF r
  <2> QED BY <1>1, <2>1, SharedFits
<1>4. /\ x \in Memory /\ x.pc = "work" /\ x.cur = r.cur /\ x.granted = r.granted
      /\ x.isChild = r.isChild /\ x.child = r.child
  <2> HIDE DEF r, Replies
  <2> QED BY <1>2 DEF Memory, Places
<1>5. Free(proc, in, c, s)
  <2> HIDE DEF IInv
  <2> QED BY <1>1, Frees DEF Acts, Lives, Hangs, Pending, Connecting, Calls
<1>6. Onward(s, r, x)
  <2> HIDE DEF x, r, Memory
  <2> USE <1>1, <1>2, <1>4
  <2>1. Local(s, x)
    BY DEF Local
  <2>2. ~Pending(x) /\ ~Connecting(x) /\ (Young(x) <=> Young(r))
    BY DEF Pending, Connecting, Young
  <2>3. Phase(x) = Phase(r) /\ Due(x) = Due(r) /\ Heir(x) = Heir(r)
    BY DEF Phase, Due, Heir, Pending
  <2> QED BY <2>1, <2>2, <2>3 DEF Onward
<1> HIDE DEF x, IInv
<1> QED BY <1>1, <1>3, <1>5, <1>6, StepBecomes

\* A process makes call k in the memory it had, or one it has just got.
LEMMA CallingFits ==
  ASSUME NEW r \in Memory, NEW k \in Calls
  PROVE  LET x == Calling(r, k)
         IN /\ x \in Memory /\ x.pc = k /\ x.rep = None /\ x.cur = r.cur
            /\ x.granted = r.granted /\ x.busy = r.busy /\ x.isChild = r.isChild
            /\ x.child = r.child
<1>1. k \in Places
  BY DEF Places
<1> HIDE DEF Replies, Places, Calls
<1> QED BY <1>1 DEF Calling, Memory

LEMMA Unchanged ==
  ASSUME IInv, NEW c \in Contexts, NEW s \in Sims
  PROVE  [proc EXCEPT ![c][s] = proc[c][s]] = proc
<1>1. proc \in [Contexts -> [Sims -> Memory]]
  BY DEF IInv, Good, Typed
<1> HIDE DEF Memory
<1> QED BY <1>1

LEMMA StepStartKeeps ==
  ASSUME IInv, NEW c \in Contexts, NEW s \in Sims, StepStart(c, s)
  PROVE  IInv'
<1> DEFINE r == proc[c][s]
           x == Calling(r, "barrier")
<1>1. /\ r.pc = "idle" /\ r.cur >= r.granted
      /\ Collect(proc, c, s, "barrier") /\ NoConnection
      /\ setting' = setting /\ under' = under /\ shm' = shm
  BY DEF StepStart, At
<1>2. Local(s, r) /\ r \in Memory /\ "barrier" \in Calls
      /\ Good(proc, in, contexts, parent, under, childIni, reinit, initDone)
  BY Here DEF Calls
<1>3. shm' \in Shared
  BY <1>1 DEF IInv
<1>4. /\ x \in Memory /\ x.pc = "barrier" /\ x.rep = None /\ x.cur = r.cur
      /\ x.granted = r.granted /\ x.isChild = r.isChild /\ x.child = r.child
  BY <1>2, CallingFits
<1>5. Free(proc, in, c, s)
  <2> HIDE DEF IInv
  <2> QED BY <1>1, Frees DEF Acts, Lives, Hangs, Pending, Connecting, Calls
<1>6. Onward(s, r, x)
  <2> HIDE DEF x, r, Memory
  <2> USE <1>1, <1>2, <1>4
  <2>1. Local(s, x)
    BY DEF Local
  <2>2. ~Pending(x) /\ ~Connecting(x) /\ (Young(x) <=> Young(r))
    BY DEF Pending, Connecting, Young
  <2>3. Phase(x) = Phase(r) /\ Due(x) = Due(r) /\ Heir(x) = Heir(r)
    BY DEF Phase, Due, Heir, Pending
  <2> QED BY <2>1, <2>2, <2>3 DEF Onward
<1>7. Collect([proc EXCEPT ![c][s] = r], c, s, "barrier")
  BY <1>1, Unchanged
<1> HIDE DEF IInv, Good, Memory
<1> QED BY <1>1, <1>2, <1>3, <1>5, <1>6, <1>7, StepCollects

LEMMA BarrierDoneKeeps ==
  ASSUME IInv, NEW c \in Contexts, NEW s \in Sims, BarrierDone(c, s)
  PROVE  IInv'
<1> DEFINE r == proc[c][s]
           next == IF r.isChild THEN TakesOver(r) ELSE r
<1>1. /\ r.pc = "barrier" /\ r.rep # None
      /\ shm' = IF r.isChild /\ r.comm
                THEN [shm EXCEPT ![parent[c]][s].action = Success] ELSE shm
      /\ IF r.busy
         THEN Collect([proc EXCEPT ![c][s] = next], c, s, "sr")
         ELSE Becomes(c, s, [next EXCEPT !.pc = "work", !.rep = None]) /\ NoCall
      /\ NoConnection /\ setting' = setting /\ under' = under
  BY DEF BarrierDone, Answered, At
<1>2. Local(s, r) /\ r \in Memory /\ "sr" \in Calls
      /\ Good(proc, in, contexts, parent, under, childIni, reinit, initDone)
  BY Here DEF Calls
<1>3. shm' \in Shared
  <2>1. Success \in Nat /\ shm \in Shared
    BY DEF Success, IInv
  <2> HIDE DEF r
  <2> QED BY <1>1, <2>1, SharedFits
<1>4. Free(proc, in, c, s)
  <2> HIDE DEF IInv
  <2> QED BY <1>1, Frees DEF Acts, Lives, Hangs, Pending, Connecting, Calls
<1>5. /\ next \in Memory /\ next.cur = r.cur /\ next.pc = r.pc
      /\ next.granted = r.granted /\ ~next.isChild /\ next.child = r.child
      /\ next.busy = r.busy
  <2>1. \A time \in Nat : AfterSuccess(r, time) \in Nat
    <3>1. r.specDiff \in Nat /\ r.specStart \in Nat /\ Wrap \in Nat \ {0}
      BY <1>2, SpeculationAssumption DEF Memory
    <3> HIDE DEF r
    <3> QED BY <3>1 DEF AfterSuccess
  <2>2. Infinity \in Nat
    BY StartFits DEF IInv
  <2> HIDE DEF r, Replies, Places, Infinity
  <2>3. (IF r.busy THEN r.base ELSE r.cur) \in Nat
    BY <1>2 DEF Memory
  <2>4. TakesOver(r) \in Memory /\ TakesOver(r).cur = r.cur /\ TakesOver(r).pc = r.pc
        /\ TakesOver(r).granted = r.granted /\ TakesOver(r).isChild = FALSE
        /\ TakesOver(r).child = r.child /\ TakesOver(r).busy = r.busy
    BY <1>2, <2>1, <2>2, <2>3 DEF Memory, TakesOver
  <2> QED BY <1>2, <2>4 DEF Memory
<1> HIDE DEF next
<1>6. Young(r) <=> FALSE
  BY <1>1 DEF Young
<1>7. Phase(r) = "together" /\ Due(r) = r.granted /\ Heir(r) = r.child
  BY <1>1 DEF Phase, Due, Heir, Pending
<1>8. CASE r.busy
  <2> DEFINE x == Calling(next, "sr")
  <2>1. /\ x \in Memory /\ x.pc = "sr" /\ x.rep = None /\ x.cur = r.cur
        /\ x.granted = r.granted /\ x.isChild = next.isChild /\ x.child = r.child
    BY <1>2, <1>5, CallingFits
  <2>2. Onward(s, r, x)
    <3> HIDE DEF x, r, Memory
    <3> USE <1>1, <1>2, <1>5, <1>6, <1>7, <2>1
    <3>1. Local(s, x)
      BY DEF Local
    <3>2. ~Pending(x) /\ ~Connecting(x) /\ ~Young(x)
      BY DEF Pending, Connecting, Young
    <3>3. Phase(x) = "together" /\ Due(x) = x.granted /\ Heir(x) = x.child
      BY SpeculationAssumption DEF Phase, Due, Heir, Pending
    <3> QED BY <3>1, <3>2, <3>3 DEF Onward
  <2>3. Collect([proc EXCEPT ![c][s] = next], c, s, "sr")
    BY <1>1, <1>8
  <2> HIDE DEF IInv, Good, Memory
  <2> QED BY <1>1, <1>2, <1>3, <1>4, <1>5, <2>2, <2>3, StepCollects
<1>9. CASE ~r.busy
  <2> DEFINE x == [next EXCEPT !.pc = "work", !.rep = None]
  <2>1. /\ x \in Memory /\ x.pc = "work" /\ x.rep = None /\ x.cur = r.cur
        /\ x.granted = r.granted /\ x.isChild = next.isChild /\ x.child = r.child
    <3>1. "work" \in Places
      BY DEF Places
    <3> HIDE DEF Replies, Places
    <3> QED BY <1>5, <3>1 DEF Memory
  <2>2. ~(x.cur < x.granted)
    <3>1. r.cur >= r.granted /\ r.cur \in Nat /\ r.granted \in Nat
      BY <1>1, <1>2, <1>9 DEF Local, Memory
    <3> HIDE DEF x, r
    <3> QED BY <2>1, <3>1
  <2>3. Onward(s, r, x)
    <3> HIDE DEF x, r, Memory
    <3> USE <1>1, <1>2, <1>5, <1>6, <1>7, <2>1, <2>2
    <3>1. Local(s, x)
      BY DEF Local
    <3>2. ~Pending(x) /\ ~Connecting(x) /\ ~Young(x)
      BY DEF Pending, Connecting, Young
    <3>3. Phase(x) = "together" /\ Due(x) = x.granted /\ Heir(x) = x.child
      BY DEF Phase, Due, Heir, Pending
    <3> QED BY <3>1, <3>2, <3>3 DEF Onward
  <2>4. Becomes(c, s, x) /\ NoCall
    BY <1>1, <1>9
  <2> HIDE DEF IInv, x
  <2> QED BY <1>1, <1>3, <1>4, <2>3, <2>4, StepBecomes
<1> QED BY <1>8, <1>9

LEMMA SendInChildKeeps ==
  ASSUME IInv, NEW c \in Contexts, NEW s \in Sims, SendInChild(c, s)
  PROVE  IInv'
<1> DEFINE r == proc[c][s]
           x == [Gone("blocked") EXCEPT !.isChild = TRUE]
<1>1. /\ r.pc = "work" /\ r.isChild
      /\ Becomes(c, s, x) /\ NoCall /\ NoConnection
      /\ setting' = setting /\ under' = under
      /\ shm' = IF r.comm THEN [shm EXCEPT ![parent[c]][s].action = Failed] ELSE shm
  BY DEF SendInChild, At, Stopped
<1>2. shm' \in Shared
  <2>1. Failed \in Nat /\ shm \in Shared
    BY DEF Failed, IInv
  <2> HIDE DEF r
  <2> QED BY <1>1, <2>1, SharedFits
<1>3. /\ x \in Memory /\ x.pc = "blocked" /\ x.cur = 0 /\ x.granted = 0
      /\ x.isChild = TRUE /\ x.child = None
  <2>1. /\ Gone("blocked") \in Memory /\ Gone("blocked").pc = "blocked"
        /\ Gone("blocked").child = None
        /\ Gone("blocked").cur = 0 /\ Gone("blocked").granted = 0
    BY StartFits DEF IInv, Places
  <2> HIDE DEF Replies, Places
  <2> QED BY <2>1 DEF Memory
<1>4. Free(proc, in, c, s)
  <2> HIDE DEF IInv
  <2> QED BY <1>1, Frees DEF Acts, Lives, Hangs, Pending, Connecting, Calls
<1>5. Onward(s, r, x)
  <2> HIDE DEF x, r, Memory
  <2> USE <1>1, <1>3
  <2>1. Local(s, x)
    BY DEF Local
  <2>2. ~Pending(x) /\ ~Connecting(x) /\ Young(x) /\ Young(r) /\ ~Acts(x)
    BY DEF Pending, Connecting, Young, Acts
  <2> QED BY <2>1, <2>2 DEF Onward
<1> HIDE DEF x, IInv
<1> QED BY <1>1, <1>2, <1>4, <1>5, StepBecomes

LEMMA GetNextTimeKeeps ==
  ASSUME IInv, NEW c \in Contexts, NEW s \in Sims, GetNextTime(c, s)
  PROVE  IInv'
<1> DEFINE r == proc[c][s]
           asks == IF s \in Ticks THEN r.cur + Stride[s] ELSE Infinity
           behind == s \in Ticks /\ r.cur < r.granted
           time == IF behind THEN r.granted ELSE r.cur
           next == [r EXCEPT !.asked = asks, !.param = r.cur, !.base = time,
                             !.busy = behind, !.respond = FALSE,
                             !.specFail = ForgetFailTime(r, time)]
           un == IF Sending(c, s) THEN [under EXCEPT ![c] = TRUE] ELSE under
<1>1. /\ r.pc = "work" /\ ~Stopped(c, s) /\ NoConnection
      /\ setting' = setting /\ shm' = shm /\ under' = un
      /\ IF s \in Ticks /\ asks <= r.granted
         THEN Becomes(c, s, [r EXCEPT !.pc = "idle", !.cur = asks]) /\ NoCall
         ELSE Collect([proc EXCEPT ![c][s] = next], c, s,
                      IF behind THEN "barrier" ELSE "sr")
  BY DEF GetNextTime, At
<1>2. Local(s, r) /\ r \in Memory
      /\ Good(proc, in, contexts, parent, under, childIni, reinit, initDone)
  BY Here
<1>3. shm' \in Shared
  BY <1>1 DEF IInv
<1>4. Free(proc, in, c, s)
  <2> HIDE DEF IInv
  <2> QED BY <1>1, Frees DEF Acts, Lives, Hangs, Pending, Connecting, Calls
<1>5. Good(proc, in, contexts, parent, un, childIni, reinit, initDone)
  <2>1. CASE Sending(c, s)
    <3>1. Lives(proc[c][s]) /\ ~Young(proc[c][s])
      BY <1>1, <2>1 DEF Lives, Young, Stopped
    <3> HIDE DEF Good
    <3> QED BY <1>2, <2>1, <3>1, Sends
  <2>2. CASE ~Sending(c, s)
    BY <1>2, <2>2
  <2> QED BY <2>1, <2>2
<1>6. /\ r.cur \in Nat /\ r.granted \in Nat /\ r.specFail \in Nat
      /\ s \in Ticks => Stride[s] \in Nat \ {0}
      /\ Infinity \in Nat
  BY <1>2, StartFits, SpeculationAssumption DEF Memory, IInv
<1>7. asks \in Nat /\ time \in Nat /\ ForgetFailTime(r, time) \in Nat
  <2> HIDE DEF r, Infinity
  <2> QED BY <1>6 DEF ForgetFailTime
<1>8. /\ Due(r) = r.granted /\ Heir(r) = r.child
      /\ r.cur < r.granted => Phase(r) = "ahead"
      /\ ~(r.cur < r.granted) => Phase(r) = "together"
  BY <1>1 DEF Due, Heir, Pending, Phase
<1>a. Young(r) <=> r.isChild
  BY <1>1 DEF Young
<1>9. CASE s \in Ticks /\ asks <= r.granted
  <2> DEFINE x == [r EXCEPT !.pc = "idle", !.cur = asks]
  <2>1. s # NetSim
    BY <1>9, SpeculationAssumption
  <2>2. r.cur < r.granted
    <3> HIDE DEF r
    <3> QED BY <1>6, <1>9
  <2>3. /\ x \in Memory /\ x.pc = "idle"
        /\ x.granted = r.granted /\ x.isChild = r.isChild /\ x.child = r.child
    <3>1. "idle" \in Places
      BY DEF Places
    <3> HIDE DEF r, Replies, Places, asks
    <3> QED BY <1>2, <1>7, <3>1 DEF Memory
  <2>4. Onward(s, r, x)
    <3> HIDE DEF x, r, Memory
    <3> USE <1>8, <1>a, <2>1, <2>2, <2>3
    <3>1. Local(s, x)
      BY DEF Local
    <3>2. ~Pending(x) /\ ~Connecting(x) /\ (Young(x) <=> Young(r))
      BY DEF Pending, Connecting, Young
    <3>3. Phase(x) = Phase(r)
      BY DEF Phase
    <3>4. Due(x) = Due(r) /\ Heir(x) = Heir(r)
      BY DEF Due, Heir, Pending
    <3> QED BY <3>1, <3>2, <3>3, <3>4 DEF Onward
  <2>5. Becomes(c, s, x) /\ NoCall
    BY <1>1, <1>9
  <2>6. Good([proc EXCEPT ![c][s] = x], in, contexts, parent, un, childIni, reinit, initDone)
    <3> HIDE DEF Good, Free, Onward, x, un
    <3> QED BY <1>4, <1>5, <2>4, GoesOn
  <2> HIDE DEF Good, x, un
  <2> QED BY <1>1, <1>3, <2>5, <2>6 DEF IInv, Becomes, NoCall, NoConnection
<1>10. CASE ~(s \in Ticks /\ asks <= r.granted)
  <2> DEFINE k == IF behind THEN "barrier" ELSE "sr"
             x == Calling(next, k)
  <2>1. k \in Calls
    BY DEF Calls
  <2>2. /\ next \in Memory /\ next.cur = r.cur /\ next.granted = r.granted
        /\ next.isChild = r.isChild /\ next.child = r.child /\ (next.busy <=> behind)
    <3>1. behind \in BOOLEAN
      OBVIOUS
    <3> DEFINE ff == ForgetFailTime(r, time)
    <3> HIDE DEF r, Replies, Places, asks, time, behind, ff
    <3> QED BY <1>2, <1>7, <3>1 DEF Memory, ff
  <2>3. /\ x \in Memory /\ x.pc = k /\ x.rep = None /\ x.cur = r.cur
        /\ x.granted = r.granted /\ x.isChild = r.isChild /\ x.child = r.child
        /\ (x.busy <=> behind)
    <3> HIDE DEF next, k, behind
    <3> QED BY <2>1, <2>2, CallingFits
  <2>4. behind => r.cur < r.granted /\ s # NetSim
    BY SpeculationAssumption
  <2>5. ~behind => ~(r.cur < r.granted)
    <3>1. CASE s \in Ticks
      BY <3>1
    <3>2. CASE s = NetSim
      <4> r.cur >= r.granted
        BY <1>2, <3>2 DEF Local
      <4> HIDE DEF r
      <4> QED BY <1>6
    <3> QED BY <3>1, <3>2 DEF Sims
  <2>6. Onward(s, r, x)
    <3>k. (behind => k = "barrier") /\ (~behind => k = "sr")
      OBVIOUS
    <3> HIDE DEF x, r, Memory, behind, k
    <3> USE <1>8, <1>a, <2>3, <2>4, <2>5, <3>k
    <3>1. Local(s, x)
      BY <1>2 DEF Local
    <3>2. ~Pending(x) /\ ~Connecting(x) /\ (Young(x) <=> Young(r))
      BY DEF Pending, Connecting, Young
    <3>3. Phase(x) = Phase(r)
      <4>1. CASE behind
        BY <4>1 DEF Phase
      <4>2. CASE ~behind
        BY <4>2 DEF Phase
      <4> QED BY <4>1, <4>2
    <3>4. Due(x) = Due(r)
      BY DEF Due
    <3>5. Heir(x) = Heir(r)
      BY SpeculationAssumption DEF Heir, Pending
    <3> QED BY <2>3, <3>1, <3>2, <3>3, <3>4, <3>5 DEF Onward
  <2>7. Collect([proc EXCEPT ![c][s] = next], c, s, k)
    BY <1>1, <1>10
  <2>8. k # "action"
    OBVIOUS
  <2> HIDE DEF IInv, Good, Memory, next, k, un
  <2> QED BY <1>1, <1>3, <1>4, <1>5, <2>1, <2>2, <2>6, <2>7, <2>8, StepCollects
<1> QED BY <1>9, <1>10

\* A memory that keeps what the others depend on.
Kin(x, r) ==
  /\ x \in Memory /\ x.pc = r.pc /\ x.rep = r.rep /\ x.cur = r.cur
  /\ x.granted = r.granted /\ x.isChild = r.isChild

\* What a process may learn from the child that is about to be killed.
LEMMA ChildDiedFits ==
  ASSUME setting \in Settings, NEW r \in Memory, NEW failTime \in Nat
  PROVE  LET x == ChildDied(r, failTime)
         IN /\ Kin(x, r) /\ x.child = None
            /\ Kin([x EXCEPT !.specFail = Infinity], r)
            /\ [x EXCEPT !.specFail = Infinity].child = None
<1>1. AfterFailure(r, failTime) \in Nat
  <2>1. r.specStart \in Nat /\ r.specDiff \in Nat /\ Wrap \in Nat \ {0}
    BY SpeculationAssumption DEF Memory
  <2> HIDE DEF Memory
  <2> QED BY <2>1 DEF AfterFailure
<1>2. Infinity \in Nat
  BY StartFits
<1> DEFINE x == ChildDied(r, failTime)
           ff == AfterFailure(r, failTime)
<1>3. Kin(x, r) /\ x.child = None
  <2>1. x = [r EXCEPT !.child = None, !.comm = FALSE, !.specFail = failTime, !.specDiff = ff]
    BY DEF ChildDied
  <2> HIDE DEF x, ff, Replies, Places
  <2> QED BY <1>1, <2>1 DEF Kin, Memory, ff
<1> HIDE DEF x, Infinity, Replies, Places
<1>4. Kin([x EXCEPT !.specFail = Infinity], r) /\ [x EXCEPT !.specFail = Infinity].child = None
  BY <1>2, <1>3 DEF Kin, Memory
<1> QED BY <1>3, <1>4 DEF x

LEMMA ProposalsFit ==
  ASSUME setting \in Settings, NEW r \in Memory, NEW s, NEW diff \in BOOLEAN, NEW action \in Nat
  PROVE  /\ Kin(TickProposal(r, s, diff, action), r)
         /\ TickProposal(r, s, diff, action).child = r.child
         /\ TickProposal(r, s, diff, action).offer \in Nat
         /\ Kin(NetProposal(r, action), r)
         /\ NetProposal(r, action).child = r.child
         /\ NetProposal(r, action).offer \in Nat
<1>1. Infinity \in Nat
  BY StartFits
<1>2. NextSpec(r) \in Nat
  <2>1. r.base \in Nat /\ r.specDiff \in Nat /\ Wrap \in Nat \ {0}
    BY SpeculationAssumption DEF Memory
  <2> HIDE DEF Memory, Infinity
  <2> QED BY <1>1, <2>1 DEF NextSpec
<1> DEFINE stable == ~diff /\ ~r.respond
           myMin == IF stable THEN r.asked ELSE r.param + Step
           trust == stable /\ r.specFail # Infinity /\ r.asked < r.specFail
           est == IF trust THEN r.specFail ELSE myMin
           sf == IF trust THEN Infinity ELSE r.specFail
           offer == IF r.child # None THEN action
                    ELSE IF stable /\ ~trust /\ Worth(r) THEN NextSpec(r) ELSE 0
           no == ~stable
           netOffer == IF r.child # None THEN action ELSE Infinity
<1>3. myMin \in Nat /\ no \in BOOLEAN
  <2>1. r.asked \in Nat /\ r.param + Step \in Nat
    BY DEF Step, Memory
  <2> QED BY <2>1
<1>4. est \in Nat /\ sf \in Nat
  <2>1. r.specFail \in Nat
    BY DEF Memory
  <2> QED BY <1>1, <1>3, <2>1
<1>5. offer \in Nat /\ netOffer \in Nat
  BY <1>1, <1>2
<1>6. TickProposal(r, s, diff, action) =
        [r EXCEPT !.respond = no, !.myMin = myMin, !.est = est, !.specFail = sf, !.offer = offer]
  BY DEF TickProposal
<1>7. NetProposal(r, action) =
        [r EXCEPT !.est = Infinity, !.myMin = Infinity, !.offer = netOffer]
  BY DEF NetProposal
<1> HIDE DEF stable, myMin, trust, est, sf, offer, no, netOffer, Infinity, Replies, Places
<1>8. /\ Kin(TickProposal(r, s, diff, action), r)
      /\ TickProposal(r, s, diff, action).child = r.child
      /\ TickProposal(r, s, diff, action).offer \in Nat
  BY <1>3, <1>4, <1>5, <1>6, ZenonT(60) DEF Kin, Memory
<1>9. /\ Kin(NetProposal(r, action), r)
      /\ NetProposal(r, action).child = r.child
      /\ NetProposal(r, action).offer \in Nat
  BY <1>1, <1>5, <1>7, ZenonT(60) DEF Kin, Memory
<1> QED BY <1>8, <1>9

LEMMA SendRecvDoneKeeps ==
  ASSUME IInv, NEW c \in Contexts, NEW s \in Sims, SendRecvDone(c, s)
  PROVE  IInv'
<1> DEFINE r == proc[c][s]
           diff == r.rep
           kill == diff /\ r.child # None
           here == IF kill THEN [ChildDied(r, shm[c][s].failTime) EXCEPT !.specFail = Infinity]
                   ELSE r
           next == IF s \in Ticks THEN TickProposal(here, s, diff, shm[c][s].action)
                   ELSE NetProposal(here, shm[c][s].action)
           pr == IF kill THEN Killed(proc, c, s) ELSE proc
           k == IF diff THEN "min" ELSE "action"
           x == Calling(next, k)
<1>1. /\ r.pc = "sr" /\ r.rep # None
      /\ Collect([pr EXCEPT ![c][s] = next], c, s, k) /\ NoConnection
      /\ setting' = setting /\ under' = under /\ shm' = shm
  BY DEF SendRecvDone, Answered, At
<1>2. Local(s, r) /\ r \in Memory
      /\ Good(proc, in, contexts, parent, under, childIni, reinit, initDone)
  BY Here
<1>3. shm' \in Shared /\ setting \in Settings
      /\ shm[c][s].failTime \in Nat /\ shm[c][s].action \in Nat
  BY <1>1 DEF IInv, Shared
<1>4. diff \in BOOLEAN
  BY <1>1, <1>2 DEF Local
<1>5. /\ Good(pr, in, contexts, parent, under, childIni, reinit, initDone)
      /\ pr[c][s] = r
  <2>1. CASE kill
    <3>1. r.child # None /\ pr = Killed(proc, c, s)
      BY <2>1
    <3> HIDE DEF pr, IInv, Good
    <3> QED BY <3>1, KillsChild
  <2>2. CASE ~kill
    BY <1>2, <2>2
  <2> QED BY <2>1, <2>2
<1>6. Kin(here, r) /\ here.child = IF diff THEN None ELSE r.child
  <2>1. CASE kill
    <3>1. here = [ChildDied(r, shm[c][s].failTime) EXCEPT !.specFail = Infinity]
      BY <2>1
    <3> HIDE DEF here, r, Infinity
    <3> QED BY <1>2, <1>3, <2>1, <3>1, ChildDiedFits
  <2>2. CASE ~kill
    <3>1. here = r
      BY <2>2
    <3> HIDE DEF here
    <3> QED BY <1>2, <1>4, <2>2, <3>1 DEF Kin
  <2> QED BY <2>1, <2>2
<1>7. Kin(next, r) /\ next.child = here.child /\ next.offer \in Nat
  <2>1. here \in Memory
    BY <1>6 DEF Kin
  <2> DEFINE a == shm[c][s].action
  <2>2. a \in Nat
    BY <1>3
  <2>3. next = IF s \in Ticks THEN TickProposal(here, s, diff, a) ELSE NetProposal(here, a)
    OBVIOUS
  <2> HIDE DEF here, next, diff, a
  <2>4. /\ Kin(TickProposal(here, s, diff, a), here)
        /\ TickProposal(here, s, diff, a).child = here.child
        /\ TickProposal(here, s, diff, a).offer \in Nat
        /\ Kin(NetProposal(here, a), here)
        /\ NetProposal(here, a).child = here.child
        /\ NetProposal(here, a).offer \in Nat
    BY <1>3, <1>4, <2>1, <2>2, ProposalsFit
  <2>5. Kin(next, here) /\ next.child = here.child /\ next.offer \in Nat
    BY <2>3, <2>4
  <2> QED BY <1>6, <2>5 DEF Kin
<1>8. k \in Calls
  BY DEF Calls
<1>9. /\ x \in Memory /\ x.pc = k /\ x.rep = None /\ x.cur = r.cur
      /\ x.granted = r.granted /\ x.isChild = r.isChild
      /\ x.child = IF diff THEN None ELSE r.child
  <2> HIDE DEF next, here, k, diff
  <2> QED BY <1>6, <1>7, <1>8, CallingFits DEF Kin
<1>10. Free(pr, in, c, s)
  <2>1. Free(proc, in, c, s)
    <3> HIDE DEF IInv
    <3> QED BY <1>1, Frees DEF Acts, Lives, Hangs, Pending, Connecting, Calls
  <2> HIDE DEF pr
  <2> QED BY <1>5, <2>1 DEF Free
<1>11. Onward(s, r, x)
  <2>k. k \in {"min", "action"}
    OBVIOUS
  <2>r. r.rep = diff
    OBVIOUS
  <2> HIDE DEF x, r, Memory, k, diff
  <2> USE <1>1, <1>2, <1>4, <1>9, <2>k, <2>r
  <2>1. Local(s, x)
    BY DEF Local
  <2>2. ~Pending(x) /\ ~Connecting(x) /\ (Young(x) <=> Young(r))
    BY DEF Pending, Connecting, Young
  <2>3. Phase(x) = Phase(r) /\ Due(x) = Due(r)
    BY DEF Phase, Due
  <2>4. Heir(x) = x.child
    BY DEF Heir, Pending
  <2>5. Heir(r) = IF diff THEN None ELSE r.child
    BY DEF Heir, Pending
  <2> QED BY <2>1, <2>2, <2>3, <2>4, <2>5 DEF Onward
<1>12. Onward(s, pr[c][s], x)
  <2> HIDE DEF x, pr
  <2> QED BY <1>5, <1>11
<1>13. next \in Memory /\ (k = "action" => next.offer \in Nat)
  BY <1>7 DEF Kin
<1> HIDE DEF IInv, Good, Memory, pr, next, k
<1> QED BY <1>1, <1>3, <1>5, <1>8, <1>10, <1>12, <1>13, StepCollects

\* Who is answered a minimum can be granted its time.
LEMMA AgreedFits ==
  ASSUME NEW s, NEW o, Local(s, o), o.pc \in {"min", "action"}, o.rep # None, ~Pending(o)
  PROVE  /\ o.rep \in Replies /\ o.rep.time \in Nat /\ o.rep.value \in Nat
         /\ Phase(o) = "ahead" /\ Due(o) = o.rep.time /\ o.pc # "barrier"
         /\ o.pc = "action" /\ o.rep.value \in {DoFailAll, Failed} => Heir(o) = None
         /\ ~(o.pc = "action" /\ o.rep.value \in {DoFailAll, Failed}) => Heir(o) = o.child
<1>1. o.rep \in Replies
  BY DEF Local
<1>2. o.rep.time \in Nat /\ o.rep.value \in Nat
  BY <1>1 DEF Replies
<1>3. Phase(o) = "ahead" /\ Due(o) = o.rep.time
  BY DEF Phase, Due
<1>4. o.pc = "action" /\ o.rep.value \in {DoFailAll, Failed} => Heir(o) = None
  BY DEF Heir
<1>5. ~(o.pc = "action" /\ o.rep.value \in {DoFailAll, Failed}) => Heir(o) = o.child
  BY DEF Heir
<1> QED BY <1>1, <1>2, <1>3, <1>4, <1>5

LEMMA MinDoneKeeps ==
  ASSUME IInv, NEW c \in Contexts, NEW s \in Sims, MinDone(c, s)
  PROVE  IInv'
<1> DEFINE r == proc[c][s]
           time == r.rep.time
<1>1. /\ r.pc = "min" /\ r.rep # None
      /\ Proceed(proc, c, s, time) /\ NoConnection
      /\ setting' = setting /\ under' = under /\ shm' = shm
  BY DEF MinDone, Answered, At
<1>2. Local(s, r) /\ r \in Memory
      /\ Good(proc, in, contexts, parent, under, childIni, reinit, initDone)
  BY Here
<1>3. shm' \in Shared
  BY <1>1 DEF IInv
<1>4. Free(proc, in, c, s)
  <2> HIDE DEF IInv
  <2> QED BY <1>1, Frees DEF Acts, Lives, Hangs, Pending, Connecting, Calls
<1>5. ~Pending(r)
  BY <1>1 DEF Pending
<1>6. time \in Nat /\ Ready(r, r, time)
  <2> HIDE DEF r, Memory
  <2> QED BY <1>1, <1>2, <1>5, AgreedFits DEF Ready
<1>7. Proceed([proc EXCEPT ![c][s] = r], c, s, time)
  BY <1>1, Unchanged
<1> HIDE DEF IInv, Good, Memory, time
<1> QED BY <1>1, <1>2, <1>3, <1>4, <1>6, <1>7, StepProceeds

LEMMA NoSpeculationKeeps ==
  ASSUME IInv, NEW c \in Contexts, NEW s \in Sims, NoSpeculation(c, s)
  PROVE  IInv'
<1> DEFINE r == proc[c][s]
           time == r.rep.time
<1>1. /\ r.pc = "action" /\ r.rep # None /\ r.child = None /\ r.rep.value = 0
      /\ Proceed(proc, c, s, time) /\ NoConnection
      /\ setting' = setting /\ under' = under /\ shm' = shm
  BY DEF NoSpeculation, Answered, At
<1>2. Local(s, r) /\ r \in Memory
      /\ Good(proc, in, contexts, parent, under, childIni, reinit, initDone)
  BY Here
<1>3. shm' \in Shared
  BY <1>1 DEF IInv
<1>5. ~Pending(r)
  BY <1>1 DEF Pending
<1>4. Free(proc, in, c, s)
  <2> HIDE DEF IInv
  <2> QED BY <1>1, <1>5, Frees DEF Acts, Lives, Hangs, Connecting, Calls
<1>6. time \in Nat /\ Ready(r, r, time)
  <2> HIDE DEF r, Memory
  <2> QED BY <1>1, <1>2, <1>5, AgreedFits DEF Ready, DoFailAll
<1>7. Proceed([proc EXCEPT ![c][s] = r], c, s, time)
  BY <1>1, Unchanged
<1> HIDE DEF IInv, Good, Memory, time
<1> QED BY <1>1, <1>2, <1>3, <1>4, <1>6, <1>7, StepProceeds

LEMMA ForkKeeps ==
  ASSUME IInv, NEW c \in Contexts, NEW s \in Sims, Fork(c, s)
  PROVE  IInv'
<1> DEFINE o == proc[c][s]
           r == [o EXCEPT !.specStart = o.base]
           g == r.rep.context
           a == [r EXCEPT !.pc = "attach", !.rep = None, !.child = g, !.min = r.rep.time]
           b == [r EXCEPT !.pc = "connect", !.rep = None, !.isChild = TRUE,
                          !.min = r.rep.value, !.specFail = Infinity]
<1>1. /\ o.pc = "action" /\ o.rep # None /\ o.child = None /\ o.rep.value # 0
      /\ proc' = [proc EXCEPT ![c][s] = a, ![g][s] = b]
      /\ NoCall /\ NoConnection
      /\ setting' = setting /\ under' = under /\ shm' = shm
  BY DEF Fork, Answered, At
<1>2. Local(s, o) /\ o \in Memory
      /\ Good(proc, in, contexts, parent, under, childIni, reinit, initDone)
  BY Here
<1>3. Pending(o)
  BY <1>1 DEF Pending
<1>4. /\ o.rep \in Replies
      /\ o.rep.time \in Nat /\ o.rep.value \in Nat /\ o.rep.context \in Contexts
      /\ s = NetSim => o.cur >= o.granted
  <2>1. o.rep \in Replies /\ (s = NetSim => o.cur >= o.granted)
    BY <1>1, <1>2 DEF Local
  <2>2. o.rep.context \in Contexts
    BY <1>2, <1>3 DEF Good, Forking
  <2> HIDE DEF o
  <2> QED BY <2>1, <2>2 DEF Replies
<1>5. /\ r \in Memory /\ r.rep = o.rep /\ r.child = o.child /\ r.isChild = o.isChild
      /\ r.cur = o.cur /\ r.granted = o.granted
  <2> HIDE DEF Replies, Places, o
  <2> QED BY <1>2 DEF Memory
<1>6. Infinity \in Nat
  BY StartFits DEF IInv
<1>7. /\ a \in Memory /\ a.pc = "attach" /\ a.rep = None /\ a.child = o.rep.context
      /\ a.min = o.rep.time /\ a.isChild = o.isChild /\ a.cur = o.cur /\ a.granted = o.granted
  <2>1. "attach" \in Places
    BY DEF Places
  <2> HIDE DEF r, o, Replies, Places
  <2> QED BY <1>4, <1>5, <2>1 DEF Memory
<1>8. /\ b \in Memory /\ b.pc = "connect" /\ b.rep = None /\ b.child = None
      /\ b.min = o.rep.value /\ b.isChild = TRUE /\ b.cur = o.cur /\ b.granted = o.granted
  <2>1. "connect" \in Places
    BY DEF Places
  <2> HIDE DEF r, o, Replies, Places, Infinity
  <2> QED BY <1>1, <1>4, <1>5, <1>6, <2>1 DEF Memory
<1>9. g = o.rep.context
  <2> HIDE DEF r, o
  <2> QED BY <1>5
<1> HIDE DEF a, b
<1>10. Local(s, a) /\ Local(s, b)
  <2> HIDE DEF o, Memory
  <2> QED BY <1>4, <1>7, <1>8 DEF Local
<1> HIDE DEF g, Good
<1>11. Good([proc EXCEPT ![c][s] = a, ![g][s] = b], in, contexts, parent, under,
            childIni, reinit, initDone)
  <2>1. Pending(proc[c][s]) /\ g = proc[c][s].rep.context
        /\ a.child = g /\ a.min = proc[c][s].rep.time /\ a.isChild = proc[c][s].isChild
        /\ b.min = proc[c][s].rep.value
    BY <1>3, <1>7, <1>8, <1>9
  <2> HIDE DEF o, r
  <2> QED BY <1>2, <1>7, <1>8, <1>10, <2>1, Forks1
<1> QED BY <1>1, <1>11 DEF IInv, NoCall, NoConnection

LEMMA VerdictKeeps ==
  ASSUME IInv, NEW c \in Contexts, NEW s \in Sims, Verdict(c, s)
  PROVE  IInv'
<1> DEFINE r == proc[c][s]
           value == r.rep.value
           time == r.rep.time
           h == shm[c][s]
<1>1. /\ r.pc = "action" /\ r.rep # None /\ r.child # None
      /\ \/ value = NoInfo /\ Limbo(c, s)
         \/ value = DoFailAll /\ FailAll(c, s)
         \/ value = Failed /\ FailedChild(c, s)
         \/ value = Success /\ ParentDie(c, s)
         \/ /\ value = Undefined
            /\ Proceed(proc, c, s, time)
            /\ shm' = shm
      /\ NoConnection
      /\ setting' = setting /\ under' = under
  BY DEF Verdict, Answered, At, GlobalAction
<1>2. Local(s, r) /\ r \in Memory
      /\ Good(proc, in, contexts, parent, under, childIni, reinit, initDone)
  BY Here
<1>3. shm \in Shared /\ setting \in Settings /\ h.failTime \in Nat /\ h.action \in Nat
      /\ proc \in [Contexts -> [Sims -> Memory]]
  BY <1>2 DEF IInv, Shared, Good, Typed
<1>4. ~Pending(r)
  BY <1>1 DEF Pending
<1>5. Free(proc, in, c, s)
  <2> HIDE DEF IInv
  <2> QED BY <1>1, <1>4, Frees DEF Acts, Lives, Hangs, Connecting, Calls
<1>6. /\ time \in Nat /\ Phase(r) = "ahead" /\ Due(r) = time /\ r.pc # "barrier"
      /\ value \in {DoFailAll, Failed} => Heir(r) = None
      /\ value \notin {DoFailAll, Failed} => Heir(r) = r.child
  <2> HIDE DEF r, Memory
  <2> QED BY <1>1, <1>2, <1>4, AgreedFits
<1> DEFINE q == Killed(proc, c, s)
<1>7. /\ Good(q, in, contexts, parent, under, childIni, reinit, initDone)
      /\ q[c][s] = r /\ Free(q, in, c, s)
      /\ q \in [Contexts -> [Sims -> Memory]]
  <2>1. Good(q, in, contexts, parent, under, childIni, reinit, initDone)
        /\ q[c][s] = r
    <3> HIDE DEF q, IInv, Good
    <3> QED BY <1>1, KillsChild DEF q
  <2>2. q \in [Contexts -> [Sims -> Memory]]
    BY <2>1 DEF Good, Typed
  <2> HIDE DEF q
  <2> QED BY <1>5, <2>1, <2>2 DEF Free
<1>8. ASSUME value = NoInfo, Limbo(c, s)
      PROVE  IInv'
  <2> DEFINE far == h.failTime > time
             sf == IF far THEN h.failTime ELSE r.specFail
             x == [r EXCEPT !.specFail = sf]
  <2>1. /\ shm' = IF ~far /\ h.action = Failed
                  THEN [shm EXCEPT ![c][s].action = DoFailAll] ELSE shm
        /\ Proceed([proc EXCEPT ![c][s].specFail =
                      IF far THEN h.failTime ELSE @], c, s, time)
    BY <1>8 DEF Limbo
  <2>2. shm' \in Shared
    <3>1. DoFailAll \in Nat
      BY DEF DoFailAll
    <3> HIDE DEF far
    <3> QED BY <1>3, <2>1, <3>1, SharedFits
  <2>3. Kin(x, r) /\ x.child = r.child
    <3>1. sf \in Nat
      BY <1>2, <1>3 DEF Memory
    <3> HIDE DEF r, sf, Replies, Places
    <3> QED BY <1>2, <3>1 DEF Kin, Memory
  <2>4. Proceed([proc EXCEPT ![c][s] = x], c, s, time)
    <3>1. [proc EXCEPT ![c][s].specFail = IF far THEN h.failTime ELSE @]
            = [proc EXCEPT ![c][s] = x]
      <4> HIDE DEF Memory, far
      <4> QED BY <1>3
    <3> QED BY <2>1, <3>1
  <2>5. Ready(r, x, time)
    <3>1. Heir(r) = r.child
      BY <1>6, <1>8 DEF NoInfo, DoFailAll, Failed
    <3> HIDE DEF r, x, time
    <3> QED BY <1>6, <2>3, <3>1 DEF Ready, Kin
  <2>6. x \in Memory
    BY <2>3 DEF Kin
  <2> HIDE DEF IInv, Good, Memory, time, x
  <2> QED BY <1>1, <1>2, <1>5, <1>6, <2>2, <2>4, <2>5, <2>6, StepProceeds
<1>9. ASSUME value = DoFailAll, FailAll(c, s)
      PROVE  IInv'
  <2> DEFINE x == [r EXCEPT !.specFail = Infinity, !.child = None, !.comm = FALSE]
  <2>1. /\ shm' = [shm EXCEPT ![c][s].failTime = 0]
        /\ Proceed([q EXCEPT ![c][s].specFail = Infinity,
                             ![c][s].child = None, ![c][s].comm = FALSE], c, s, time)
    BY <1>9 DEF FailAll
  <2>2. shm' \in Shared
    BY <1>3, <2>1, SharedFits
  <2>3. Kin(x, r) /\ x.child = None
    <3>1. Infinity \in Nat
      BY <1>3, StartFits
    <3> HIDE DEF r, Infinity, Replies, Places
    <3> QED BY <1>2, <3>1 DEF Kin, Memory
  <2>4. Proceed([q EXCEPT ![c][s] = x], c, s, time)
    <3>1. [q EXCEPT ![c][s].specFail = Infinity, ![c][s].child = None, ![c][s].comm = FALSE]
            = [q EXCEPT ![c][s] = [q[c][s] EXCEPT !.specFail = Infinity, !.child = None,
                                                  !.comm = FALSE]]
      <4> HIDE DEF Memory, q, Infinity
      <4> QED BY <1>7
    <3> HIDE DEF q
    <3> QED BY <1>7, <2>1, <3>1
  <2>5. Ready(r, x, time)
    <3>1. Heir(r) = None
      BY <1>6, <1>9
    <3> HIDE DEF r, x, time
    <3> QED BY <1>6, <2>3, <3>1 DEF Ready, Kin
  <2>6. x \in Memory
    BY <2>3 DEF Kin
  <2> HIDE DEF IInv, Good, Memory, time, x, q
  <2> QED BY <1>1, <1>6, <1>7, <2>2, <2>4, <2>5, <2>6, StepProceeds
<1>10. ASSUME value = Failed, FailedChild(c, s)
       PROVE  IInv'
  <2> DEFINE x == ChildDied(r, h.failTime)
  <2>1. /\ shm' = shm
        /\ Proceed([q EXCEPT ![c][s] = x], c, s, time)
    BY <1>10 DEF FailedChild
  <2>2. shm' \in Shared
    BY <1>3, <2>1
  <2>3. Kin(x, r) /\ x.child = None
    <3> HIDE DEF r, x, h
    <3> QED BY <1>2, <1>3, ChildDiedFits DEF x
  <2>5. Ready(r, x, time)
    <3>1. Heir(r) = None
      BY <1>6, <1>10
    <3> HIDE DEF r, x, time
    <3> QED BY <1>6, <2>3, <3>1 DEF Ready, Kin
  <2>6. x \in Memory
    BY <2>3 DEF Kin
  <2> HIDE DEF IInv, Good, Memory, time, x, q
  <2> QED BY <1>1, <1>6, <1>7, <2>1, <2>2, <2>5, <2>6, StepProceeds
<1>11. ASSUME value = Success, ParentDie(c, s)
       PROVE  IInv'
  <2> DEFINE x == [Gone("exited") EXCEPT !.child = r.child]
  <2>1. proc' = [q EXCEPT ![c][s] = x] /\ NoCall /\ shm' = shm
    BY <1>11 DEF ParentDie
  <2>2. /\ x \in Memory /\ x.pc = "exited" /\ x.cur = 0 /\ x.granted = 0
        /\ x.child = r.child
    <3>1. /\ Gone("exited") \in Memory /\ Gone("exited").pc = "exited"
          /\ Gone("exited").cur = 0 /\ Gone("exited").granted = 0
      BY <1>3, StartFits DEF Places
    <3>2. r.child \in Contexts \cup {None}
      BY <1>2 DEF Memory
    <3> HIDE DEF r, Replies, Places
    <3> QED BY <3>1, <3>2 DEF Memory
  <2> HIDE DEF x
  <2>3. Onward(s, r, x)
    <3> HIDE DEF Memory, r
    <3> QED BY <2>2 DEF Onward, Local, Pending, Connecting, Lives, Acts
  <2>4. Good([q EXCEPT ![c][s] = x], in, contexts, parent, under, childIni, reinit, initDone)
    <3> HIDE DEF Good, Free, Onward, q
    <3>1. Onward(s, q[c][s], x)
      BY <1>7, <2>3
    <3> QED BY <1>7, <3>1, GoesOn
  <2> HIDE DEF Good, q
  <2> QED BY <1>1, <1>3, <2>1, <2>4 DEF IInv, NoCall, NoConnection
<1>12. ASSUME value = Undefined, Proceed(proc, c, s, time), shm' = shm
       PROVE  IInv'
  <2>1. shm' \in Shared
    BY <1>3, <1>12
  <2>2. Proceed([proc EXCEPT ![c][s] = r], c, s, time)
    BY <1>12, Unchanged
  <2>3. Ready(r, r, time)
    <3>1. Heir(r) = r.child
      BY <1>6, <1>12 DEF Undefined, DoFailAll, Failed
    <3> HIDE DEF r, time
    <3> QED BY <1>6, <3>1 DEF Ready
  <2> HIDE DEF IInv, Good, Memory, time
  <2> QED BY <1>1, <1>2, <1>5, <1>6, <2>1, <2>2, <2>3, StepProceeds
<1> QED BY <1>1, <1>8, <1>9, <1>10, <1>11, <1>12

LEMMA ParentContinuesKeeps ==
  ASSUME IInv, NEW c \in Contexts, NEW s \in Sims, ParentContinues(c, s)
  PROVE  IInv'
<1> DEFINE r == proc[c][s]
           time == r.min
<1>1. /\ r.pc = "reinit" /\ r.rep # None
      /\ Proceed(proc, c, s, time) /\ NoConnection
      /\ setting' = setting /\ under' = under /\ shm' = shm
  BY DEF ParentContinues, Answered, At
<1>2. Local(s, r) /\ r \in Memory
      /\ Good(proc, in, contexts, parent, under, childIni, reinit, initDone)
  BY Here
<1>3. shm' \in Shared
  BY <1>1 DEF IInv
<1>4. Free(proc, in, c, s)
  <2> HIDE DEF IInv
  <2> QED BY <1>1, Frees DEF Acts, Lives, Hangs, Pending, Connecting, Calls
<1>5. time \in Nat /\ Ready(r, r, time)
  <2>1. time \in Nat
    BY <1>2 DEF Memory
  <2> HIDE DEF r, Memory
  <2> QED BY <1>1, <2>1 DEF Ready, Phase, Due, Heir, Pending
<1>6. Proceed([proc EXCEPT ![c][s] = r], c, s, time)
  BY <1>1, Unchanged
<1> HIDE DEF IInv, Good, Memory, time
<1> QED BY <1>1, <1>2, <1>3, <1>4, <1>5, <1>6, StepProceeds

LEMMA ChildStartsKeeps ==
  ASSUME IInv, NEW c \in Contexts, NEW s \in Sims, ChildStarts(c, s)
  PROVE  IInv'
<1> DEFINE r == proc[c][s]
           time == r.min
           x == [r EXCEPT !.comm = TRUE]
<1>1. /\ r.pc = "init" /\ r.rep # None
      /\ Proceed([proc EXCEPT ![c][s].comm = TRUE], c, s, time) /\ NoConnection
      /\ setting' = setting /\ under' = under
      /\ shm' = [shm EXCEPT ![parent[c]][s] = Fresh]
  BY DEF ChildStarts, Answered, At
<1>2. Local(s, r) /\ r \in Memory
      /\ Good(proc, in, contexts, parent, under, childIni, reinit, initDone)
      /\ proc \in [Contexts -> [Sims -> Memory]]
  BY Here DEF Good, Typed
<1>3. shm' \in Shared
  <2>1. shm \in Shared /\ 0 \in Nat
    BY DEF IInv
  <2> QED BY <1>1, <2>1, SharedFits
<1>4. Free(proc, in, c, s)
  <2> HIDE DEF IInv
  <2> QED BY <1>1, Frees DEF Acts, Lives, Hangs, Pending, Connecting, Calls
<1>5. Kin(x, r) /\ x.child = r.child
  <2> HIDE DEF r, Replies, Places
  <2> QED BY <1>2 DEF Kin, Memory
<1>6. time \in Nat /\ Ready(r, x, time)
  <2>1. time \in Nat
    BY <1>2 DEF Memory
  <2> HIDE DEF r, x, Memory
  <2> QED BY <1>1, <1>5, <2>1 DEF Ready, Phase, Due, Heir, Pending, Kin
<1>7. Proceed([proc EXCEPT ![c][s] = x], c, s, time)
  <2>1. [proc EXCEPT ![c][s].comm = TRUE] = [proc EXCEPT ![c][s] = x]
    <3> HIDE DEF Memory
    <3> QED BY <1>2
  <2> QED BY <1>1, <2>1
<1>8. x \in Memory
  BY <1>5 DEF Kin
<1> HIDE DEF IInv, Good, Memory, time, x
<1> QED BY <1>1, <1>2, <1>3, <1>4, <1>6, <1>7, <1>8, StepProceeds

LEMMA DeliverKeeps ==
  ASSUME IInv, NEW c \in Contexts, Deliver(c)
  PROVE  IInv'
<1>1. Good(proc, in, contexts, parent, [under EXCEPT ![c] = FALSE], childIni, reinit, initDone)
  <2>1. Good(proc, in, contexts, parent, under, childIni, reinit, initDone)
    BY DEF IInv
  <2> HIDE DEF Good
  <2> QED BY <2>1, Arrives
<1> HIDE DEF Good
<1>2. under' = [under EXCEPT ![c] = FALSE] \/ under' = under
  BY DEF Deliver
<1> QED BY <1>1, <1>2 DEF IInv, Deliver

\* What the broker's maps become when it is told of came and back.
Told(c, came, back, re, done) ==
  /\ came \in SUBSET Sims /\ back \in BOOLEAN
  /\ re = [reinit EXCEPT ![c] = came] /\ done = [initDone EXCEPT ![c] = back]

\* parent_reinit_checker, for what the broker has just been told.
LEMMA Reconnected ==
  ASSUME NEW pr, NEW calls, NEW n, NEW par, NEW un, NEW ini, NEW re, NEW done,
         Good(pr, calls, n, par, un, ini, re, done), NEW c \in Contexts,
         reinit \in [Contexts -> SUBSET Sims], initDone \in [Contexts -> BOOLEAN],
         NEW came, NEW back, Told(c, came, back, re, done),
         Reconnect(pr, c, came, back)
  PROVE  Good(proc', calls, n, par, un, ini, reinit', initDone')
<1> USE DEF Told
<1>1. CASE /\ AllBack(came, back)
           /\ proc' = [pr EXCEPT ![c] = [t \in Sims |-> [pr[c][t] EXCEPT !.rep = TRUE]]]
           /\ reinit' = [reinit EXCEPT ![c] = {}]
           /\ initDone' = [initDone EXCEPT ![c] = FALSE]
  <2>1. re[c] = Sims /\ done[c]
    BY <1>1 DEF AllBack
  <2>2. /\ [re EXCEPT ![c] = {}] = [reinit EXCEPT ![c] = {}]
        /\ [done EXCEPT ![c] = FALSE] = [initDone EXCEPT ![c] = FALSE]
    OBVIOUS
  <2>3. /\ proc' = AllAnswered(pr, c, TRUE)
        /\ reinit' = [re EXCEPT ![c] = {}] /\ initDone' = [done EXCEPT ![c] = FALSE]
    BY <1>1, <2>2 DEF AllAnswered
  <2> HIDE DEF Good
  <2>4. Good(AllAnswered(pr, c, TRUE), calls, n, par, un, ini,
             [re EXCEPT ![c] = {}], [done EXCEPT ![c] = FALSE])
    BY <2>1, Reconnects
  <2> QED BY <2>3, <2>4
<1>2. CASE /\ proc' = pr /\ reinit' = [reinit EXCEPT ![c] = came]
           /\ initDone' = [initDone EXCEPT ![c] = back]
  <2>1. proc' = pr /\ reinit' = re /\ initDone' = done
    BY <1>2
  <2> HIDE DEF Good
  <2> QED BY <2>1
<1> QED BY <1>1, <1>2 DEF Reconnect

LEMMA ParentReinitKeeps ==
  ASSUME IInv, NEW c \in Contexts, NEW s \in Sims, ParentReinit(c, s)
  PROVE  IInv'
<1> DEFINE r == proc[c][s]
           a == [r EXCEPT !.pc = "reinit", !.comm = TRUE]
           q == [proc EXCEPT ![c][s] = a]
           came == reinit[c] \cup {s}
           R == [reinit EXCEPT ![c] = @ \cup {s}]
<1>1. /\ r.pc = "attach"
      /\ shm' = [shm EXCEPT ![c][s] = Fresh]
      /\ Reconnect([proc EXCEPT ![c][s].pc = "reinit", ![c][s].comm = TRUE],
                   c, came, initDone[c])
      /\ UNCHANGED <<in, contexts, parent>> /\ setting' = setting /\ under' = under
      /\ childIni' = childIni
  BY DEF ParentReinit, At
<1>2. /\ Local(s, r) /\ r \in Memory
      /\ Good(proc, in, contexts, parent, under, childIni, reinit, initDone)
      /\ proc \in [Contexts -> [Sims -> Memory]]
      /\ reinit \in [Contexts -> SUBSET Sims] /\ initDone \in [Contexts -> BOOLEAN]
  BY Here DEF Good, Typed
<1>3. shm' \in Shared
  <2>1. shm \in Shared /\ 0 \in Nat
    BY DEF IInv
  <2> QED BY <1>1, <2>1, SharedFits
<1>4. /\ a \in Memory /\ a.pc = "reinit" /\ a.rep = None /\ a.child = r.child
      /\ a.min = r.min /\ a.isChild = r.isChild /\ a.cur = r.cur /\ a.granted = r.granted
  <2>1. "reinit" \in Places
    BY DEF Places
  <2>2. r.rep = None
    BY <1>1, <1>2 DEF Local
  <2> HIDE DEF r, Replies, Places
  <2> QED BY <1>2, <2>1, <2>2 DEF Memory
<1>5. [proc EXCEPT ![c][s].pc = "reinit", ![c][s].comm = TRUE] = q
  <2> HIDE DEF Memory
  <2> QED BY <1>2
<1> HIDE DEF a
<1>6. Local(s, a)
  <2> HIDE DEF r, Memory
  <2> QED BY <1>2, <1>4 DEF Local
<1>7. Good(q, in, contexts, parent, under, childIni, R, initDone)
  <2> HIDE DEF Good
  <2> QED BY <1>1, <1>2, <1>4, <1>6, Attaches
<1>8. /\ R = [reinit EXCEPT ![c] = came]
      /\ initDone = [initDone EXCEPT ![c] = initDone[c]]
      /\ came \in SUBSET Sims /\ initDone[c] \in BOOLEAN
  BY <1>2
<1>9. Good(proc', in, contexts, parent, under, childIni, reinit', initDone')
  <2> DEFINE b == initDone[c]
  <2>1. Reconnect(q, c, came, b)
    BY <1>1, <1>5
  <2>2. initDone = [initDone EXCEPT ![c] = b] /\ b \in BOOLEAN
    BY <1>8
  <2>3. Told(c, came, b, R, initDone)
    BY <1>8, <2>2 DEF Told
  <2>4. reinit \in [Contexts -> SUBSET Sims] /\ initDone \in [Contexts -> BOOLEAN]
    BY <1>2
  <2> HIDE DEF Good, q, R, came, b
  <2> QED BY <1>7, <2>1, <2>2, <2>3, <2>4, Reconnected
<1> HIDE DEF Good
<1> QED BY <1>1, <1>3, <1>9 DEF IInv

\* As many connections as there are simulators, with one parent context, are
\* those of all the simulators of one context.
LEMMA AllConnected ==
  ASSUME NEW pr, NEW calls, NEW n, NEW par, NEW un, NEW ini, NEW re, NEW done,
         Good(pr, calls, n, par, un, ini, re, done),
         NEW c \in Contexts, NEW s \in Sims, <<par[c], s, c>> \in ini,
         Cardinality(ini) = Cardinality(Sims), \A x, y \in ini : x[1] = y[1]
  PROVE  \A t \in Sims : <<par[c], t, c>> \in ini
<1> DEFINE p == par[c]
           T == {<<p, t, c>> : t \in Sims}
           f == [t \in Sims |-> <<p, t, c>>]
<1>1. IsFiniteSet(Sims)
  BY SpeculationAssumption, FS_AddElement DEF Sims
<1>2. IsFiniteSet(T) /\ Cardinality(T) = Cardinality(Sims)
  <2>1. f \in [Sims -> T] /\ (\A t, u \in Sims : f[t] = f[u] => t = u)
        /\ \A x \in T : \E t \in Sims : f[t] = x
    <3> HIDE DEF p
    <3> QED OBVIOUS
  <2> HIDE DEF f, T
  <2>2. f \in Bijection(Sims, T)
    BY <2>1 DEF Bijection, Injection, IsInjective, Surjection
  <2>3. ExistsBijection(Sims, T)
    BY <2>2 DEF ExistsBijection
  <2> QED BY <1>1, <2>3, FS_Bijection
<1>3. ini \subseteq Contexts \X Sims \X Contexts /\ \A x \in ini : par[x[3]] = x[1]
  BY DEF Good, Typed, Connected
<1>4. p \in Contexts /\ p # None
  <2> DEFINE x == <<p, s, c>>
  <2>1. x \in Contexts \X Sims \X Contexts
    BY <1>3
  <2>2. p \in Contexts
    BY <2>1
  <2> QED BY <2>2, SpeculationAssumption DEF Contexts
<1>5. ASSUME NEW x \in ini
      PROVE  x \in T
  <2>1. x \in Contexts \X Sims \X Contexts /\ x[1] = p /\ par[x[3]] = p
    <3> DEFINE y == <<p, s, c>>
    <3>1. y \in ini /\ y[1] = p
      OBVIOUS
    <3>2. x[1] = y[1]
      BY <3>1
    <3>3. x \in Contexts \X Sims \X Contexts /\ par[x[3]] = x[1]
      BY <1>3
    <3> HIDE DEF y, p
    <3> QED BY <3>1, <3>2, <3>3
  <2>2. x = <<p, x[2], x[3]>> /\ x[2] \in Sims /\ x[3] \in Contexts
    <3> HIDE DEF p
    <3> QED BY <2>1
  <2>3. Unborn(pr, par, ini, x[3])
    <3>1. <<par[x[3]], x[2], x[3]>> \in ini
      <4> HIDE DEF p
      <4> QED BY <2>1, <2>2
    <3> QED BY <1>4, <2>1, <2>2, <3>1 DEF Unborn
  <2>4. Unborn(pr, par, ini, c)
    BY <1>4 DEF Unborn
  <2>5. x[3] = c
    BY <2>1, <2>2, <2>3, <2>4 DEF Good, Births
  <2> HIDE DEF p
  <2> QED BY <2>2, <2>5
<1>6. ini = T
  <2>1. ini \in SUBSET T
    BY <1>5
  <2> HIDE DEF T
  <2> QED BY <1>2, <2>1, FS_Subset
<1> QED BY <1>6

LEMMA ChildInitKeeps ==
  ASSUME IInv, NEW c \in Contexts, NEW s \in Sims, ChildInit(c, s)
  PROVE  IInv'
<1> DEFINE r == proc[c][s]
           a == [r EXCEPT !.pc = "init"]
           q == [proc EXCEPT ![c][s] = a]
           p == parent[c]
           came == childIni \cup {<<p, s, c>>}
<1>1. /\ r.pc = "connect" /\ UNCHANGED <<in, contexts, parent>>
      /\ setting' = setting /\ shm' = shm /\ under' = under
  BY DEF ChildInit, At
<1>2. /\ Local(s, r) /\ r \in Memory
      /\ Good(proc, in, contexts, parent, under, childIni, reinit, initDone)
      /\ proc \in [Contexts -> [Sims -> Memory]]
      /\ reinit \in [Contexts -> SUBSET Sims] /\ initDone \in [Contexts -> BOOLEAN]
  BY Here DEF Good, Typed
<1>3. /\ a \in Memory /\ a.pc = "init" /\ a.rep = None /\ a.child = r.child
      /\ a.min = r.min /\ a.isChild = r.isChild /\ a.cur = r.cur /\ a.granted = r.granted
  <2>1. "init" \in Places
    BY DEF Places
  <2>2. r.rep = None
    BY <1>1, <1>2 DEF Local
  <2> HIDE DEF r, Replies, Places
  <2> QED BY <1>2, <2>1, <2>2 DEF Memory
<1>4. [proc EXCEPT ![c][s].pc = "init"] = q
  <2> HIDE DEF Memory
  <2> QED BY <1>2
<1> HIDE DEF a
<1>5. Local(s, a)
  <2>1. r.isChild /\ r.child = None
    BY <1>1, <1>2 DEF Local
  <2> HIDE DEF r, Memory
  <2> QED BY <1>2, <1>3, <2>1 DEF Local
<1>6. Good(q, in, contexts, parent, under, came, reinit, initDone)
  <2> HIDE DEF Good
  <2> QED BY <1>1, <1>2, <1>3, <1>5, Connects
<1>7. CASE Cardinality(came) # Cardinality(Sims)
  <2>1. childIni' = came /\ proc' = q /\ reinit' = reinit /\ initDone' = initDone
    BY <1>4, <1>7 DEF ChildInit
  <2> HIDE DEF Good, q, came
  <2> QED BY <1>1, <1>6, <2>1 DEF IInv
<1>8. CASE Cardinality(came) = Cardinality(Sims) /\ \E x, y \in came : x[1] # y[1]
  <2>1. childIni' = childIni /\ proc' = q /\ reinit' = reinit /\ initDone' = initDone
    BY <1>4, <1>8 DEF ChildInit
  <2>2. Good(q, in, contexts, parent, under, childIni, reinit, initDone)
    <3>1. childIni \subseteq came
      OBVIOUS
    <3> HIDE DEF Good, q, came
    <3> QED BY <1>6, <3>1, Forgets
  <2> HIDE DEF Good, q
  <2> QED BY <1>1, <2>1, <2>2 DEF IInv
<1>9. CASE Cardinality(came) = Cardinality(Sims) /\ \A x, y \in came : x[1] = y[1]
  <2> DEFINE A == AllAnswered(q, c, TRUE)
             D == [initDone EXCEPT ![p] = TRUE]
  <2>1. childIni' = {} /\ Reconnect(A, p, reinit[p], TRUE)
    <3> DEFINE all == [proc EXCEPT ![c][s].pc = "init"]
    <3>1. /\ childIni' = {}
          /\ Reconnect([all EXCEPT ![c] = [t \in Sims |-> [all[c][t] EXCEPT !.rep = TRUE]]],
                       p, reinit[p], TRUE)
      BY <1>9 DEF ChildInit
    <3>2. all = q
      BY <1>4
    <3> HIDE DEF all, q
    <3> QED BY <3>1, <3>2 DEF AllAnswered
  <2>2. \A t \in Sims : <<p, t, c>> \in came
    <3>1. <<p, s, c>> \in came
      OBVIOUS
    <3> HIDE DEF Good, q, came
    <3> QED BY <1>6, <1>9, <3>1, AllConnected
  <2>3. Good(A, in, contexts, parent, under, {}, reinit, D)
    <3> HIDE DEF Good, q, came
    <3> QED BY <1>6, <2>2, Starts
  <2>4. p \in Contexts
    <3> DEFINE x == <<p, s, c>>
    <3>1. x \in Contexts \X Sims \X Contexts
      BY <1>6 DEF Good, Typed
    <3> QED BY <3>1
  <2>5. Told(p, reinit[p], TRUE, reinit, D)
    <3>1. reinit = [reinit EXCEPT ![p] = reinit[p]] /\ reinit[p] \in SUBSET Sims
      BY <1>2, <2>4
    <3> QED BY <3>1 DEF Told
  <2>6. Good(proc', in, contexts, parent, under, {}, reinit', initDone')
    <3> HIDE DEF Good, A, D, p
    <3> QED BY <1>2, <2>1, <2>3, <2>4, <2>5, Reconnected
  <2> HIDE DEF Good
  <2> QED BY <1>1, <2>1, <2>6 DEF IInv
<1> QED BY <1>7, <1>8, <1>9

-----------------------------------------------------------------------------
(* The theorems.                                                           *)

LEMMA InitInv ==
  ASSUME Init
  PROVE  IInv
<1> USE DEF Init
<1>1. setting \in Settings /\ shm \in Shared
  <2>1. Fresh \in [action: Nat, failTime: Nat]
    BY DEF Fresh, NoInfo, Undefined
  <2> QED BY <2>1 DEF Shared
<1>2. /\ Start \in Memory /\ Gone("none") \in Memory /\ Gone("none").pc = "none"
      /\ Gone("none").child = None /\ Gone("none").cur = 0 /\ Gone("none").granted = 0
  BY <1>1, StartFits DEF Places
<1>3. Start.pc = "idle" /\ Start.rep = None /\ Start.cur = 0 /\ Start.granted = 0
      /\ Start.child = None /\ Start.isChild = FALSE
  BY DEF Start
<1>4. 1 \in Contexts /\ None \notin Contexts
  BY SpeculationAssumption DEF Contexts
<1> HIDE DEF Start, Memory
<1>5. proc \in [Contexts -> [Sims -> Memory]]
      /\ \A c \in Contexts, s \in Sims :
           proc[c][s] = IF c = 1 THEN Start ELSE Gone("none")
  BY <1>2
<1>6. /\ in \in [Contexts -> [Calls -> SUBSET Sims]]
      /\ \A c \in Contexts, k \in Calls : in[c][k] = {}
      /\ contexts = 1
      /\ parent \in [Contexts -> Contexts \cup {None}] /\ \A c \in Contexts : parent[c] = None
      /\ under \in [Contexts -> BOOLEAN] /\ \A c \in Contexts : under[c] = FALSE
      /\ childIni = {}
      /\ reinit \in [Contexts -> SUBSET Sims] /\ \A c \in Contexts : reinit[c] = {}
      /\ initDone \in [Contexts -> BOOLEAN] /\ \A c \in Contexts : initDone[c] = FALSE
  OBVIOUS
<1> HIDE DEF Init
<1>7. \A s \in Sims :
        /\ Local(s, Start) /\ Local(s, Gone("none"))
        /\ ~Pending(Start) /\ ~Pending(Gone("none"))
        /\ ~Connecting(Start) /\ ~Connecting(Gone("none"))
        /\ ~Young(Start) /\ ~Lives(Gone("none")) /\ ~Acts(Gone("none"))
  BY <1>2, <1>3 DEF Local, Pending, Connecting, Young, Lives, Acts
<1>8. Typed(proc, in, contexts, parent, under, childIni, reinit, initDone)
  BY <1>4, <1>5, <1>6 DEF Typed
<1>9. AllLocal(proc)
  BY <1>5, <1>7 DEF AllLocal
<1>10. CallsMade(proc, in)
  BY <1>6 DEF CallsMade
<1>11. Alike(proc)
  <2> SUFFICES ASSUME NEW c \in Contexts, NEW s \in Sims, NEW t \in Sims,
                      Acts(proc[c][s]), Acts(proc[c][t])
               PROVE  proc[c][s] = proc[c][t]
    BY DEF Alike
  <2> QED BY <1>5, <1>7
<1>12. GrowUp(proc, under)
  <2>1. \A c \in Contexts, s \in Sims : ~(Lives(proc[c][s]) /\ Young(proc[c][s]))
    BY <1>5, <1>7
  <2> QED BY <2>1 DEF GrowUp
<1>13. Forking(proc, contexts, parent, under)
  <2>1. \A c \in Contexts, s \in Sims : ~Pending(proc[c][s])
    BY <1>5, <1>7
  <2> QED BY <2>1 DEF Forking
<1>14. Unused(proc, contexts, under)
  BY <1>2, <1>5, <1>6 DEF Unused, Contexts
<1>15. Tree(proc, contexts, parent)
  <2>1. \A c \in Contexts, s \in Sims : proc[c][s].child = None
    BY <1>2, <1>3, <1>5
  <2> QED BY <1>6, <2>1 DEF Tree
<1>16. Births(proc, parent, childIni, initDone)
  <2>1. \A c \in Contexts, s \in Sims : ~Connecting(proc[c][s])
    BY <1>5, <1>7
  <2>2. \A g \in Contexts : ~Unborn(proc, parent, childIni, g)
    BY <1>6 DEF Unborn
  <2> QED BY <2>1, <2>2 DEF Births
<1>17. Connected(proc, parent, childIni, reinit, initDone)
  BY <1>6 DEF Connected
<1> QED BY <1>1, <1>8, <1>9, <1>10, <1>11, <1>12, <1>13, <1>14, <1>15, <1>16, <1>17
        DEF IInv, Good

LEMMA Inductive ==
  ASSUME IInv, [Next]_vars
  PROVE  IInv'
<1> HIDE DEF IInv
<1>1. ASSUME NEW c \in Contexts, Deliver(c)
      PROVE  IInv'
  BY <1>1, DeliverKeeps
<1>2. ASSUME NEW c \in Contexts, NEW s \in Sims, Process(c, s)
      PROVE  IInv'
  <2>1. CASE StepStart(c, s)
    BY <2>1, StepStartKeeps
  <2>2. CASE StepStartEarly(c, s)
    BY <2>2, StepStartEarlyKeeps
  <2>3. CASE BarrierDone(c, s)
    BY <2>3, BarrierDoneKeeps
  <2>4. CASE SendInChild(c, s)
    BY <2>4, SendInChildKeeps
  <2>5. CASE GetNextTime(c, s)
    BY <2>5, GetNextTimeKeeps
  <2>6. CASE SendRecvDone(c, s)
    BY <2>6, SendRecvDoneKeeps
  <2>7. CASE MinDone(c, s)
    BY <2>7, MinDoneKeeps
  <2>8. CASE NoSpeculation(c, s)
    BY <2>8, NoSpeculationKeeps
  <2>9. CASE Fork(c, s)
    BY <2>9, ForkKeeps
  <2>10. CASE Verdict(c, s)
    BY <2>10, VerdictKeeps
  <2>11. CASE ParentReinit(c, s)
    BY <2>11, ParentReinitKeeps
  <2>12. CASE ChildInit(c, s)
    BY <2>12, ChildInitKeeps
  <2>13. CASE ParentContinues(c, s)
    BY <2>13, ParentContinuesKeeps
  <2>14. CASE ChildStarts(c, s)
    BY <2>14, ChildStartsKeeps
  <2> QED BY <1>2, <2>1, <2>2, <2>3, <2>4, <2>5, <2>6, <2>7, <2>8, <2>9, <2>10, <2>11,
             <2>12, <2>13, <2>14 DEF Process
<1>3. CASE UNCHANGED vars
  BY <1>3 DEF IInv, vars, brokerVars
<1> QED BY <1>1, <1>2, <1>3 DEF Next

\* What every process of a generation of parents and children has in common,
\* and what the broker knows of them, whatever is sent, speculated and killed.
THEOREM SpeculationKeeps == Spec => []IInv
<1>1. Init => IInv
  BY InitInv
<1>2. IInv /\ [Next]_vars => IInv'
  BY Inductive
<1> QED BY <1>1, <1>2, PTL DEF Spec

\* For any simulators, strategies and numbers of generations: the simulators
\* of a context that run their own code have been granted the same time.
\* They are granted what one reduction agreed on, also when a verdict falls or
\* when they have waited for all parents and children to connect.
THEOREM GrantsAgree == Spec => []OneGrant
<1>1. IInv => OneGrant
  <2> SUFFICES ASSUME IInv, NEW c \in Contexts, NEW s \in Ticks, NEW t \in Ticks,
                      proc[c][s].pc \in {"idle", "work"}, proc[c][t].pc \in {"idle", "work"}
               PROVE  proc[c][s].granted = proc[c][t].granted
    BY DEF OneGrant
  <2>1. s \in Sims /\ t \in Sims
    BY DEF Sims
  <2>2. Acts(proc[c][s]) /\ Acts(proc[c][t])
        /\ Due(proc[c][s]) = proc[c][s].granted /\ Due(proc[c][t]) = proc[c][t].granted
    BY DEF Acts, Lives, Due
  <2> QED BY <2>1, <2>2 DEF IInv, Good, Alike
<1> QED BY <1>1, SpeculationKeeps, PTL

\* For any of them, those of a context that reduce actions have their children
\* in one context or have none: the broker's one map for times and actions is
\* never given some of each.
THEOREM ChildrenAgree == Spec => []OneChild
<1>1. IInv => OneChild
  <2> SUFFICES ASSUME IInv, NEW c \in Contexts,
                      NEW s \in in[c]["action"], NEW t \in in[c]["action"],
                      Alive(c, s), Alive(c, t)
               PROVE  proc[c][s].child = proc[c][t].child
    BY DEF OneChild
  <2>1. "action" \in Calls
    BY DEF Calls
  <2>2. s \in Sims /\ t \in Sims
    BY <2>1 DEF IInv, Good, Typed
  <2>3. /\ proc[c][s].pc = "action" /\ proc[c][s].rep = None
        /\ proc[c][t].pc = "action" /\ proc[c][t].rep = None
    BY <2>1 DEF IInv, Good, CallsMade, Alive
  <2>4. /\ Acts(proc[c][s]) /\ Heir(proc[c][s]) = proc[c][s].child
        /\ Acts(proc[c][t]) /\ Heir(proc[c][t]) = proc[c][t].child
    BY <2>3 DEF Acts, Lives, Heir, Pending
  <2> QED BY <2>2, <2>4 DEF IInv, Good, Alike
<1> QED BY <1>1, SpeculationKeeps, PTL

\* For any of them, a message is under way in a context only when no child in
\* it still speculates: the ones that send have all the others at the barrier
\* behind them.
THEOREM SpeculationIsolated == Spec => []Isolated
<1>1. IInv => Isolated
  <2> SUFFICES ASSUME IInv, NEW c \in Contexts, under[c], NEW s \in Sims,
                      Alive(c, s), proc[c][s].isChild
               PROVE  proc[c][s].pc = "barrier" /\ proc[c][s].rep # None
    BY DEF Isolated
  <2>1. Lives(proc[c][s])
    BY DEF Alive, Lives
  <2>2. ~Young(proc[c][s])
    BY <2>1 DEF IInv, Good, GrowUp
  <2> QED BY <2>2 DEF Young
<1> QED BY <1>1, SpeculationKeeps, PTL

=============================================================================
