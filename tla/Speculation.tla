----------------------------- MODULE Speculation ----------------------------
(***************************************************************************)
(* Optimistic synchronisation: OptimisticTickSyncAlgo for the power        *)
(* simulators, OptimisticCommSyncAlgo for the network simulator.  When all *)
(* of them find it worth while every simulator forks.  The children run    *)
(* ahead, alone, to a common time; the parents go on conservatively.  A    *)
(* child tells its parent through shared memory how far it is and how it   *)
(* ended, and the parents agree on the worst in the reduction they make    *)
(* anyway.  All processes reconnect to the broker, the children in a new   *)
(* context.                                                                *)
(*                                                                         *)
(* A process is a pair of a context and a simulator; its memory is a       *)
(* record, which fork copies.  The conservative part is GracePeriodSync's: *)
(* here a request and its handling are one step, the counters are reduced  *)
(* to whether a message of the context is under way, and the reduction of  *)
(* network delays, which carries nothing, is left out.  What an            *)
(* application does depends on its time only, as that of a fork must, and  *)
(* the simulators' time is framework time.                                 *)
(***************************************************************************)
EXTENDS Integers, FiniteSets, FiniteSetsExt

CONSTANTS
  Ticks, NetSim,
  Stride,      \* [Ticks -> Nat \ {0}]: how far ahead an application asks
  Settings,    \* the simulations: when the applications send, the name of the
               \* SpeculationTimeCalculationStrategy, its look-ahead time,
               \* and when the power simulators stop (a bound)
  Wrap,        \* TIME is unsigned: the number of its values
  MaxContext,  \* bound: the contexts the broker creates
  None

Sims == Ticks \cup {NetSim}
Contexts == 1 .. MaxContext
Infinity == Wrap - 1
Step == 1      \* Integrator::getOneTimeStep()

\* ACTION_DOFAILLALL ... ACTION_UNDEFINED
DoFailAll == 0
NoInfo == 1
Failed == 2
Success == 3
Undefined == 4

ASSUME SpeculationAssumption ==
  /\ IsFiniteSet(Ticks)
  /\ NetSim \notin Ticks
  /\ Stride \in [Ticks -> Nat \ {0}]
  /\ Settings \subseteq
       [sends: [Ticks -> SUBSET Nat], lookAhead: Nat \ {0}, stop: Nat,
        strategy: {"constant", "increasing", "infinity", "infinitywithkill"}]
  /\ Wrap \in Nat \ {0}
  /\ \A x \in Settings : x.stop + x.lookAhead < Infinity
  /\ MaxContext \in Nat \ {0}
  /\ None \notin Nat \cup BOOLEAN \cup [time: Nat, value: Nat, context: Nat]

VARIABLES
  setting,   \* which simulation this is
  proc,      \* the memory of every process
  shm,       \* the shared memory a process has created
  under,     \* a message of the context is under way
  \* the broker
  in,        \* who has made a collective call that is not complete
  contexts,  \* how many contexts there are
  parent,    \* parent_contexts
  childIni,  \* childIniMap, a connection as <<context, simulator, new one>>
  reinit,    \* reinitMap
  initDone,  \* child_init_complete
  broker     \* "up"; "dead" after its assertion that children have one parent
             \* context; "aborted" after one that a message can be sent

brokerVars == <<in, contexts, parent, childIni, reinit, initDone, broker>>
vars == <<setting, proc, shm, under, brokerVars>>

Calls == {"barrier", "sr", "min", "action"}

Start == [pc |-> "idle", rep |-> None, cur |-> 0, granted |-> 0, asked |-> 0,
          param |-> 0, base |-> 0, respond |-> FALSE, busy |-> FALSE,
          est |-> 0, offer |-> None, myMin |-> 0, min |-> 0,
          isChild |-> FALSE, child |-> None, comm |-> FALSE,
          specFail |-> Infinity, specDiff |-> setting.lookAhead, specStart |-> 0]

\* A process that is not there, or that will not run again.
Gone(how) == [Start EXCEPT !.pc = how]

Fresh == [action |-> IF setting.strategy = "infinitywithkill" THEN NoInfo ELSE Undefined,
          failTime |-> 0]

Init ==
  /\ setting \in Settings
  /\ proc = [c \in Contexts |-> [s \in Sims |-> IF c = 1 THEN Start ELSE Gone("none")]]
  /\ shm = [c \in Contexts |-> [s \in Sims |-> Fresh]]
  /\ under = [c \in Contexts |-> FALSE]
  /\ in = [c \in Contexts |-> [k \in Calls |-> {}]]
  /\ contexts = 1
  /\ parent = [c \in Contexts |-> None]
  /\ childIni = {}
  /\ reinit = [c \in Contexts |-> {}]
  /\ initDone = [c \in Contexts |-> FALSE]
  /\ broker = "up"

-----------------------------------------------------------------------------
(* SpeculationTimeCalculationStrategy.                                     *)

Endless == setting.strategy \in {"infinity", "infinitywithkill"}

NextSpec(r) == IF Endless THEN Infinity ELSE (r.base + r.specDiff) % Wrap

Worth(r) == Endless \/ NextSpec(r) < r.specFail

\* speculationFailed and speculationSuceeded; a period is unsigned.
AfterFailure(r, failTime) ==
  IF setting.strategy = "increasing" THEN (failTime - r.specStart) % Wrap ELSE r.specDiff

AfterSuccess(r, time) ==
  IF setting.strategy = "increasing" THEN (r.specDiff + time - r.specStart) % Wrap
  ELSE r.specDiff

-----------------------------------------------------------------------------
(* Collective calls.                                                       *)

\* The broker's answer to call k, for processes with memory mem.  (Once there
\* are as many contexts as the bound allows, nobody finds a fork worth while.)
Answer(k, mem, diff) ==
  LET time == Min({mem[s].est : s \in Sims})
      least == Min({mem[s].offer : s \in Sims})
      full == contexts = MaxContext /\ \E s \in Sims : mem[s].child = None
  IN CASE k = "barrier" -> TRUE
       [] k = "sr" -> diff
       [] k = "min" -> [time |-> time, value |-> 0, context |-> contexts]
       [] k = "action" -> [time |-> time, value |-> IF full THEN 0 ELSE least,
                           context |-> contexts + 1]

Forks(k, mem, answer) ==
  k = "action" /\ answer.value # 0 /\ \A s \in Sims : mem[s].child = None

\* Who was killed or has exited stays a member of its context, and its call
\* stays in the broker's maps.  A message to it fails once ZeroMQ has noticed
\* that the peer is gone, and the assertion in zmqx_send aborts the broker.
Unreachable(mem) == \E t \in Sims : mem[t].pc \in {"killed", "exited"}

\* Process s of context c makes call k; all is the processes' memory by then.
\* The last one to make a call completes it for everyone, unless the broker
\* aborts while it answers.  (Those it has answered by then go as far as their
\* next call, as they do if it does not abort; that they do is left out.)
Collect(all, c, s, k) ==
  LET mem == [all[c] EXCEPT ![s].pc = k, ![s].rep = None]
      came == in[c][k] \cup {s}
      answer == Answer(k, mem, under[c])
  IN \/ /\ came = Sims
        /\ proc' = [all EXCEPT ![c] =
                      [t \in Sims |-> [mem[t] EXCEPT !.rep = answer]]]
        /\ in' = [in EXCEPT ![c][k] = {}]
        /\ IF Forks(k, mem, answer)
           THEN /\ contexts' = contexts + 1
                /\ parent' = [parent EXCEPT ![contexts + 1] = c]
           ELSE UNCHANGED <<contexts, parent>>
        /\ UNCHANGED broker
     \/ /\ came # Sims \/ Unreachable(mem)
        /\ proc' = [all EXCEPT ![c] = mem]
        /\ in' = [in EXCEPT ![c][k] = came]
        /\ broker' = IF came = Sims THEN "aborted" ELSE broker
        /\ UNCHANGED <<contexts, parent>>

NoCall == UNCHANGED <<in, contexts, parent, broker>>
NoConnection == UNCHANGED <<childIni, reinit, initDone>>

At(c, s, here) == broker = "up" /\ proc[c][s].pc = here
Answered(c, s, here) == At(c, s, here) /\ proc[c][s].rep # None

Becomes(c, s, r) == proc' = [proc EXCEPT ![c][s] = r]

\* SIGKILL to the child of process s of context c; what it has told the
\* broker stays there.
Killed(all, c, s) ==
  [all EXCEPT ![proc[c][s].child][s] =
     [Gone("killed") EXCEPT !.est = all[proc[c][s].child][s].est,
                            !.offer = all[proc[c][s].child][s].offer]]

-----------------------------------------------------------------------------
(* timeStepStart.                                                          *)

\* What a child tells as its fail time.
Reached(r) == r.cur

\* Before the granted time a child only tells how far it is.
StepStartEarly(c, s) ==
  /\ At(c, s, "idle")
  /\ LET r == proc[c][s]
     IN /\ r.cur < r.granted
        /\ s \in Ticks => r.cur < setting.stop
        /\ Becomes(c, s, [r EXCEPT !.pc = "work"])
        /\ shm' = IF r.isChild /\ r.comm
                  THEN [shm EXCEPT ![parent[c]][s].failTime = Reached(r)]
                  ELSE shm
  /\ NoCall /\ NoConnection /\ UNCHANGED <<setting, under>>

StepStart(c, s) ==
  /\ At(c, s, "idle")
  /\ s \in Ticks => proc[c][s].cur < setting.stop
  /\ proc[c][s].cur >= proc[c][s].granted
  /\ Collect(proc, c, s, "barrier")
  /\ NoConnection /\ UNCHANGED <<setting, shm, under>>

\* A child whom all the others have reached at the granted time takes over.
TakesOver(r) ==
  LET time == IF r.busy THEN r.base ELSE r.cur
  IN [r EXCEPT !.isChild = FALSE, !.comm = FALSE, !.specFail = Infinity,
               !.specDiff = AfterSuccess(r, time)]

BarrierDone(c, s) ==
  /\ Answered(c, s, "barrier")
  /\ LET r == proc[c][s]
         next == IF r.isChild THEN TakesOver(r) ELSE r
     IN /\ shm' = IF r.isChild /\ r.comm
                  THEN [shm EXCEPT ![parent[c]][s].action = Success] ELSE shm
        /\ IF r.busy
           THEN Collect([proc EXCEPT ![c][s] = next], c, s, "sr")
           ELSE Becomes(c, s, [next EXCEPT !.pc = "work", !.rep = None]) /\ NoCall
  /\ NoConnection /\ UNCHANGED <<setting, under>>

-----------------------------------------------------------------------------
(* The step, and GetNextTime up to its first call.                         *)

Sending(c, s) == s \in Ticks /\ proc[c][s].cur \in setting.sends[s]

\* (mutant) nodeSentMessage lets everything pass.
NeverStopped(c, s) == FALSE

\* nodeSentMessage: a child must not send.
Stopped(c, s) == proc[c][s].isChild /\ Sending(c, s)

\* It has failed, and waits to be killed.
SendInChild(c, s) ==
  /\ At(c, s, "work")
  /\ Stopped(c, s)
  /\ shm' = IF proc[c][s].comm
            THEN [shm EXCEPT ![parent[c]][s].action = Failed] ELSE shm
  /\ Becomes(c, s, [Gone("blocked") EXCEPT !.isChild = TRUE])
  /\ NoCall /\ NoConnection /\ UNCHANGED <<setting, under>>

\* Past the time the last speculation failed at, speculate again.
ForgetFailTime(r, time) == IF time > r.specFail THEN Infinity ELSE r.specFail

GetNextTime(c, s) ==
  /\ At(c, s, "work")
  /\ ~Stopped(c, s)
  /\ under' = IF Sending(c, s) THEN [under EXCEPT ![c] = TRUE] ELSE under
  /\ LET r == proc[c][s]
         asks == IF s \in Ticks THEN r.cur + Stride[s] ELSE Infinity
         behind == s \in Ticks /\ r.cur < r.granted
         time == IF behind THEN r.granted ELSE r.cur
         next == [r EXCEPT !.asked = asks, !.param = r.cur, !.base = time,
                           !.busy = behind, !.respond = FALSE,
                           !.specFail = ForgetFailTime(r, time)]
     IN IF s \in Ticks /\ asks <= r.granted
        THEN Becomes(c, s, [r EXCEPT !.pc = "idle", !.cur = asks]) /\ NoCall
        ELSE Collect([proc EXCEPT ![c][s] = next], c, s,
                     IF behind THEN "barrier" ELSE "sr")
  /\ NoConnection /\ UNCHANGED <<setting, shm>>

-----------------------------------------------------------------------------
(* The reductions.                                                         *)

\* childDied, for a child that has told failTime.
ChildDied(r, failTime) ==
  [r EXCEPT !.child = None, !.comm = FALSE, !.specFail = failTime,
            !.specDiff = AfterFailure(r, failTime)]

\* What a power simulator proposes.  It may go as far as its failed child
\* went without a message.
TickProposal(r, s, diff, action) ==
  LET stable == ~diff /\ ~r.respond
      myMin == IF stable THEN r.asked ELSE r.param + Step
      trust == stable /\ r.specFail # Infinity /\ r.asked < r.specFail
  IN [r EXCEPT
       !.respond = ~stable,
       !.myMin = myMin,
       !.est = IF trust THEN r.specFail ELSE myMin,
       !.specFail = IF trust THEN Infinity ELSE @,
       !.offer = IF r.child # None THEN action
                 ELSE IF stable /\ ~trust /\ Worth(r) THEN NextSpec(r) ELSE 0]

NetProposal(r, action) ==
  [r EXCEPT !.est = Infinity, !.myMin = Infinity,
            !.offer = IF r.child # None THEN action ELSE Infinity]

\* The difference is known: a message under way ends the speculation.
SendRecvDone(c, s) ==
  /\ Answered(c, s, "sr")
  /\ LET r == proc[c][s]
         diff == r.rep
         kill == diff /\ r.child # None
         here == IF kill THEN [ChildDied(r, shm[c][s].failTime) EXCEPT !.specFail = Infinity]
                 ELSE r
         next == IF s \in Ticks THEN TickProposal(here, s, diff, shm[c][s].action)
                 ELSE NetProposal(here, shm[c][s].action)
     IN Collect([(IF kill THEN Killed(proc, c, s) ELSE proc) EXCEPT ![c][s] = next],
                c, s, IF diff THEN "min" ELSE "action")
  /\ NoConnection /\ UNCHANGED <<setting, shm, under>>

\* The local variables of GetNextTime are gone when it returns.
Locals(r) == [r EXCEPT !.rep = None, !.asked = 0, !.param = 0, !.base = 0,
                       !.respond = FALSE, !.busy = FALSE, !.est = 0,
                       !.offer = None, !.myMin = 0, !.min = 0]

\* (mutant) A simulator is granted what it proposed itself.
OwnProposal(r, time) == r.est

\* The granted time is the one agreed on.
GrantedTime(r, time) == time

\* The rest of GetNextTime, with the minimum agreed on: the call returns, or
\* its loop goes on at that time, where timeStepStart waits for everyone.
Proceed(all, c, s, time) ==
  LET r == all[c][s]
      back(now) == [Locals(r) EXCEPT !.pc = "idle", !.cur = now,
                                !.granted = GrantedTime(r, time)]
      again == [r EXCEPT !.busy = TRUE, !.param = time, !.base = time,
                         !.granted = GrantedTime(r, time)]
  IN IF s = NetSim
     THEN /\ proc' = [all EXCEPT ![c][s] =
                        IF time = Infinity THEN Gone("ended") ELSE back(time)]
          /\ NoCall
     ELSE IF time < r.myMin
     THEN Collect([all EXCEPT ![c][s] = again], c, s, "barrier")
     ELSE proc' = [all EXCEPT ![c][s] = back(r.myMin)] /\ NoCall

MinDone(c, s) ==
  /\ Answered(c, s, "min")
  /\ Proceed(proc, c, s, proc[c][s].rep.time)
  /\ NoConnection /\ UNCHANGED <<setting, shm, under>>

\* No speculation is under way and none begins.
NoSpeculation(c, s) ==
  /\ Answered(c, s, "action")
  /\ proc[c][s].child = None /\ proc[c][s].rep.value = 0
  /\ Proceed(proc, c, s, proc[c][s].rep.time)
  /\ NoConnection /\ UNCHANGED <<setting, shm, under>>

Fork(c, s) ==
  /\ Answered(c, s, "action")
  /\ proc[c][s].child = None /\ proc[c][s].rep.value # 0
  /\ LET r == [proc[c][s] EXCEPT !.specStart = proc[c][s].base]
         g == r.rep.context
     IN proc' = [proc EXCEPT
          ![c][s] = [r EXCEPT !.pc = "attach", !.rep = None, !.child = g,
                              !.min = r.rep.time],
          ![g][s] = [r EXCEPT !.pc = "connect", !.rep = None, !.isChild = TRUE,
                              !.min = r.rep.value, !.specFail = Infinity]]
  /\ NoCall /\ NoConnection /\ UNCHANGED <<setting, shm, under>>

\* testSpeculationState, with a child: what all the children's actions are
\* at the least decides about all of them.
Limbo(c, s) ==
  /\ LET r == proc[c][s]
         far == shm[c][s].failTime > r.rep.time
     IN /\ shm' = IF ~far /\ shm[c][s].action = Failed
                  THEN [shm EXCEPT ![c][s].action = DoFailAll] ELSE shm
        /\ Proceed([proc EXCEPT ![c][s].specFail =
                      IF far THEN shm[c][s].failTime ELSE @], c, s, r.rep.time)

FailAll(c, s) ==
  /\ shm' = [shm EXCEPT ![c][s].failTime = 0]
  /\ Proceed([Killed(proc, c, s) EXCEPT ![c][s].specFail = Infinity,
                ![c][s].child = None, ![c][s].comm = FALSE],
             c, s, proc[c][s].rep.time)

FailedChild(c, s) ==
  /\ Proceed([Killed(proc, c, s) EXCEPT
                ![c][s] = ChildDied(proc[c][s], shm[c][s].failTime)],
             c, s, proc[c][s].rep.time)
  /\ UNCHANGED shm

\* parentDie: terminate deletes the synchronisation algorithm, and its
\* destructor kills the child.
ParentDie(c, s) ==
  /\ proc' = [Killed(proc, c, s) EXCEPT ![c][s] = [Gone("exited") EXCEPT !.child = proc[c][s].child]]
  /\ NoCall /\ UNCHANGED shm

\* (mutant) The parent looks at the action of its own child.
OwnAction(c, s) == shm[c][s].action

\* The action agreed on.
GlobalAction(c, s) == proc[c][s].rep.value

Verdict(c, s) ==
  /\ Answered(c, s, "action")
  /\ proc[c][s].child # None
  /\ LET value == GlobalAction(c, s)
     IN \/ value = NoInfo /\ Limbo(c, s)
        \/ value = DoFailAll /\ FailAll(c, s)
        \/ value = Failed /\ FailedChild(c, s)
        \/ value = Success /\ ParentDie(c, s)
        \/ /\ value = Undefined
           /\ Proceed(proc, c, s, proc[c][s].rep.time)
           /\ UNCHANGED shm
  /\ NoConnection /\ UNCHANGED <<setting, under>>

-----------------------------------------------------------------------------
(* Connecting again.                                                       *)

\* (mutant) Compared as in the handler's test for too many.
TooMany(came, done) == done /\ Cardinality(came) > Cardinality(Sims)

AllBack(came, done) == done /\ came = Sims

\* parent_reinit_checker: the parents go on when all the children have
\* connected too.  No context is ever invalid: nobody sends CHILD_SUCCESS or
\* CHILD_FAILED.  A parent may itself be a child, and have been killed.
Reconnect(all, c, came, done) ==
  \/ /\ AllBack(came, done)
     /\ proc' = [all EXCEPT ![c] =
                   [t \in Sims |-> [all[c][t] EXCEPT !.rep = TRUE]]]
     /\ reinit' = [reinit EXCEPT ![c] = {}]
     /\ initDone' = [initDone EXCEPT ![c] = FALSE]
     /\ UNCHANGED broker
  \/ /\ ~AllBack(came, done) \/ Unreachable(all[c])
     /\ proc' = all
     /\ reinit' = [reinit EXCEPT ![c] = came]
     /\ initDone' = [initDone EXCEPT ![c] = done]
     /\ broker' = IF AllBack(came, done) THEN "aborted" ELSE broker

\* The parent attaches to the shared memory and sends PARENT_REINIT.
ParentReinit(c, s) ==
  /\ At(c, s, "attach")
  /\ shm' = [shm EXCEPT ![c][s] = Fresh]
  /\ Reconnect([proc EXCEPT ![c][s].pc = "reinit", ![c][s].comm = TRUE],
               c, reinit[c] \cup {s}, initDone[c])
  /\ UNCHANGED <<setting, under, in, contexts, parent, childIni>>

\* The child sends CHILD_INIT.  When as many have come as there are
\* simulators, they are the new context, and must have one parent context.
ChildInit(c, s) ==
  /\ At(c, s, "connect")
  /\ LET all == [proc EXCEPT ![c][s].pc = "init"]
         came == childIni \cup {<<parent[c], s, c>>}
     IN IF Cardinality(came) # Cardinality(Sims)
        THEN /\ childIni' = came
             /\ proc' = all
             /\ UNCHANGED <<reinit, initDone, broker>>
        ELSE IF \E x, y \in came : x[1] # y[1]
        THEN /\ broker' = "dead"
             /\ proc' = all
             /\ UNCHANGED <<childIni, reinit, initDone>>
        ELSE /\ childIni' = {}
             /\ Reconnect([all EXCEPT ![c] =
                             [t \in Sims |-> [all[c][t] EXCEPT !.rep = TRUE]]],
                          parent[c], reinit[parent[c]], TRUE)
  /\ UNCHANGED <<setting, shm, under, in, contexts, parent>>

ParentContinues(c, s) ==
  /\ Answered(c, s, "reinit")
  /\ Proceed(proc, c, s, proc[c][s].min)
  /\ NoConnection /\ UNCHANGED <<setting, shm, under>>

\* The child attaches too, and is granted the common time.
ChildStarts(c, s) ==
  /\ Answered(c, s, "init")
  /\ shm' = [shm EXCEPT ![parent[c]][s] = Fresh]
  /\ Proceed([proc EXCEPT ![c][s].comm = TRUE], c, s, proc[c][s].min)
  /\ NoConnection /\ UNCHANGED <<setting, under>>

\* The messages of a context arrive and are counted, unless the broker aborts
\* as it sends one on to somebody who is gone.
Deliver(c) ==
  /\ broker = "up" /\ under[c]
  /\ \/ under' = [under EXCEPT ![c] = FALSE] /\ UNCHANGED broker
     \/ Unreachable(proc[c]) /\ broker' = "aborted" /\ UNCHANGED under
  /\ UNCHANGED <<setting, proc, shm, in, contexts, parent, childIni, reinit, initDone>>

-----------------------------------------------------------------------------
Process(c, s) ==
  \/ StepStart(c, s) \/ StepStartEarly(c, s) \/ BarrierDone(c, s)
  \/ SendInChild(c, s) \/ GetNextTime(c, s) \/ SendRecvDone(c, s)
  \/ MinDone(c, s) \/ NoSpeculation(c, s) \/ Fork(c, s) \/ Verdict(c, s)
  \/ ParentReinit(c, s) \/ ChildInit(c, s)
  \/ ParentContinues(c, s) \/ ChildStarts(c, s)

Next == \E c \in Contexts : Deliver(c) \/ \E s \in Sims : Process(c, s)

Spec == Init /\ [][Next]_vars

\* Some process goes on as long as one can; the bounds leave nothing that
\* could keep one busy for ever at the expense of the others.
FairSpec == Spec /\ WF_vars(Next)

-----------------------------------------------------------------------------
(* Properties.                                                             *)

Alive(c, s) == proc[c][s].pc \notin {"none", "killed", "exited", "ended"}

\* "We know the spec will fail until this time, we won't fork": a parent goes
\* ahead on its failed child's word, further than the others have agreed on
\* conservatively, because the parent would have done there what the child
\* did; so it has no message to send on the way.  That rests on SendRecvDone:
\* a message from outside moves the parent off the child's path, and then "we
\* ignore what the child has reported as fail time".
TrustKept ==
  \A c \in Contexts, s \in Ticks :
    proc[c][s].pc = "work" /\ ~proc[c][s].isChild /\ Sending(c, s) =>
      proc[c][s].cur >= proc[c][s].granted

\* Whatever was trusted or speculated, the simulators of a context that run
\* their own code have been granted the same time.
OneGrant ==
  \A c \in Contexts : \A s, t \in Ticks :
    proc[c][s].pc \in {"idle", "work"} /\ proc[c][t].pc \in {"idle", "work"} =>
      proc[c][s].granted = proc[c][t].granted

\* The simulators of a context that reduce actions either all have a child in
\* the same context or have none: times of a speculation to come and actions
\* of one under way go through one map at the broker, which cannot tell.
OneChild ==
  \A c \in Contexts : \A s, t \in in[c]["action"] :
    Alive(c, s) /\ Alive(c, t) => proc[c][s].child = proc[c][t].child

\* Nothing that is sent speculatively reaches anyone: there is a message in a
\* context only once all its simulators are past what was speculated.
Isolated ==
  \A c \in Contexts : under[c] =>
    \A s \in Sims : Alive(c, s) /\ proc[c][s].isChild =>
      proc[c][s].pc = "barrier" /\ proc[c][s].rep # None

\* The parents get on though they wait for all to connect again, fork and kill
\* while the other context's collectives go on: each is granted times up to the
\* end or makes way for its child, or the broker has aborted.  It may where the
\* children's last one makes a call that a killed one has made before, and then
\* the parents hang: that they all get on whatever becomes of a speculation is
\* not so.
ParentsGoOn ==
  \A s \in Ticks :
    <>(\/ proc[1][s].granted >= setting.stop \/ proc[1][s].pc = "exited"
       \/ broker = "aborted")

\* A parent that makes way leaves a child to go on: "speculation worked so we
\* kill the parent".
Succeeded ==
  \A c \in Contexts, s \in Sims : proc[c][s].pc = "exited" =>
    proc[proc[c][s].child][s].pc # "killed"
=============================================================================
