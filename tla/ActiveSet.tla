----------------------------- MODULE ActiveSet ------------------------------
(***************************************************************************)
(* The active-set variant of the conservative synchronisation: power       *)
(* simulators under ActiveSetConservativeTick and the network simulator    *)
(* under ActiveSetConservativeCom.  REDUCE_MIN_TIME_SLEEP answers only the *)
(* simulators whose time has come (and the network simulator); the others  *)
(* sleep in that call, and the collectives go on without them, until their *)
(* time comes or a simulator that is awake has sent a message.             *)
(*                                                                         *)
(* The application, the communication managers, the messages and the       *)
(* requests are those of GracePeriodSync; `busy' is not used.  Simulators  *)
(* ask for times ahead of theirs: these algorithms have no end signal.     *)
(* The network simulator runs in framework time and steps are whole units, *)
(* so that no time is rounded below a grant.                               *)
(***************************************************************************)
EXTENDS GracePeriodSync

ASSUME ActiveAssumption ==
  /\ Unit[NetSim] = 1
  /\ \A s \in Ticks : Step[s] % Unit[s] = 0
  /\ IsFiniteSet(Ticks)

VARIABLES
  \* a simulator
  even,         \* the last difference was zero
  sentMessage,  \* a message was sent since the last minimum
  \* the broker's context
  world,        \* world_sizes: how many take part in the collectives
  incoming,     \* reduce_min_time_sleep_incoming: who has proposed
  sleepState,   \* reduce_min_time_sleep_state: the times proposed last
  sleepingSim   \* somebody sleeps

localVars == <<even, sentMessage>>
sleepVars == <<world, incoming, sleepState, sleepingSim>>
activeVars == <<vars, localVars, sleepVars>>

ActiveInit ==
  /\ Init
  /\ even = [s \in Sims |-> FALSE]
  /\ sentMessage = [s \in Sims |-> FALSE]
  /\ world = Cardinality(Sims)
  /\ incoming = {}
  /\ sleepState = [s \in Sims |-> 0]
  /\ sleepingSim = FALSE

-----------------------------------------------------------------------------
(* The simulators.                                                         *)

\* nodeSentMessage, for the messages handed over before sendAll took them.
NodeSentMessage(s) ==
  sentMessage' = [sentMessage EXCEPT ![s] = @ \/ (s \in Ticks /\ loc' # loc)]

ActiveStepStart(s) ==
  /\ StepStart(s)
  /\ NodeSentMessage(s)
  /\ UNCHANGED <<even, sleepVars>>

ActiveBarrierDone(s) == BarrierDone(s) /\ UNCHANGED <<localVars, sleepVars>>

\* GetNextTime, up to its first wait.
ActiveGetNextTime(s) ==
  /\ GetNextTime(s)
  /\ asked'[s] > cur[s]
  /\ NodeSentMessage(s)
  /\ UNCHANGED <<even, sleepVars>>

\* The difference is in, and reduceNetworkDelay is called; what the
\* simulator will propose is settled.
ActiveTickDiff(s) ==
  /\ TickDiff(s)
  /\ even' = [even EXCEPT ![s] = rep[s] = 0]
  /\ UNCHANGED <<sentMessage, sleepVars>>

\* (mutant) The counters are reset whatever the difference was.
AtAnyRate(s) == s \in Ticks

\* A power simulator resets its counters after a difference of zero, the
\* network simulator has done so before.
Resets(s) == s \in Ticks /\ even[s]

ActiveDelayDone(s) ==
  /\ TakeReply(s, "delay")
  /\ sendCount' = [sendCount EXCEPT ![s] = IF Resets(s) THEN 0 ELSE @]
  /\ receiveCount' = [receiveCount EXCEPT ![s] = IF Resets(s) THEN 0 ELSE @]
  /\ Call(s, "min")
  /\ UNCHANGED <<cur, granted, asked, base, est, respond, busy, sendCopy,
                 recvCopy, packets, brokerVars, msgVars, histVars, localVars,
                 sleepVars>>

\* The network simulator has the difference; its counters are zero after one
\* of zero, as they only hold what it reports as lost.
ActiveNetDiff ==
  /\ NetDiff
  /\ UNCHANGED <<localVars, sleepVars>>

\* The next round of the loop, from the instant in the reply.
Reiterate(s) ==
  /\ base' = [base EXCEPT ![s] = NewBase(s)]
  /\ sentMessage' = [sentMessage EXCEPT ![s] = FALSE]
  /\ RequestDiff(s, sendCount[s])
  /\ UNCHANGED <<cur, granted, asked, est, respond, busy, sendCount,
                 receiveCount, packets, brokerVars, msgVars, now,
                 sentIn, recvIn, even, sleepVars>>

\* Only the broadcast to all brings a power simulator an earlier time.
WokenUp(s) ==
  /\ s \in Ticks
  /\ TakeReply(s, "min")
  /\ rep[s] < est[s]
  /\ Reiterate(s)

NetAgain ==
  /\ TakeReply(NetSim, "min")
  /\ rep[NetSim] = granted[NetSim]
  /\ Reiterate(NetSim)

\* The time has come: the call returns (a proposal is never zero here).
ActiveTickGranted(s) ==
  /\ TickGranted(s)
  /\ sentMessage' = [sentMessage EXCEPT ![s] = FALSE]
  /\ UNCHANGED <<even, sleepVars>>

\* The network simulator has no end, not even at Infinity.
ActiveNetGranted ==
  /\ TakeReply(NetSim, "min")
  /\ rep[NetSim] # granted[NetSim]
  /\ granted' = [granted EXCEPT ![NetSim] = rep[NetSim]]
  /\ cur' = [cur EXCEPT ![NetSim] = FloorTo(NetSim, rep[NetSim])]
  /\ pc' = [pc EXCEPT ![NetSim] = "idle"]
  /\ UNCHANGED <<asked, base, est, respond, busy, commVars, brokerVars, req,
                 msgVars, histVars, localVars, sleepVars>>

-----------------------------------------------------------------------------
(* The broker.  Collectives are complete when the simulators that are      *)
(* awake are in, and are answered to those that are in.                    *)

ReplyTo(S, v) == rep' = [s \in Sims |-> IF s \in S THEN v ELSE rep[s]]

Complete(S) == Cardinality(S) = world

\* A request of s for a collection S that cannot be: a second one, or one
\* more than take part.
Excess(s, S) == s \in S \/ Cardinality(S \cup {s}) > world

ActiveBarrier(s) ==
  /\ Serve(s, "barrier")
  /\ LET in == barrier \cup {s}
     IN IF Excess(s, barrier)
        THEN GracefulDeath /\ UNCHANGED <<barrier, rep>>
        ELSE /\ IF Complete(in) /\ world > 1
                THEN barrier' = {} /\ ReplyTo(in, Ack)
                ELSE barrier' = in /\ UNCHANGED rep
             /\ UNCHANGED broker
  /\ UNCHANGED <<simVars, commVars, reduceSent, sentTotal, recvTotal,
                 reduceMin, msgVars, histVars, localVars, sleepVars>>

ActiveSendRecv(s) ==
  /\ Serve(s, "sr")
  /\ LET in == reduceSent \cup {s}
     IN IF Excess(s, reduceSent)
        THEN GracefulDeath /\ UNCHANGED <<reduceSent, sentTotal, recvTotal, rep>>
        ELSE /\ sentTotal' = sentTotal + sendCopy[s]
             /\ recvTotal' = recvTotal + recvCopy[s]
             /\ IF ~Complete(in)
                THEN reduceSent' = in /\ UNCHANGED <<rep, broker>>
                ELSE /\ reduceSent' = {}
                     /\ IF Impossible(sentTotal', recvTotal')
                        THEN GracefulDeath /\ UNCHANGED rep
                        ELSE ReplyTo(in, sentTotal' - recvTotal') /\ UNCHANGED broker
  /\ sentIn' = sentIn \cup Sent(s)
  /\ recvIn' = recvIn \cup (copied \cap Received(s))
  /\ UNCHANGED <<simVars, commVars, barrier, reduceMin, msgVars, now,
                 copied, localVars, sleepVars>>

Delaying == {s \in Sims : reduceMin[s] # None}

ActiveDelay(s) ==
  /\ Serve(s, "delay")
  /\ LET in == Delaying \cup {s}
     IN IF Excess(s, Delaying)
        THEN GracefulDeath /\ UNCHANGED <<reduceMin, rep>>
        ELSE /\ IF Complete(in)
                THEN reduceMin' = [t \in Sims |-> None] /\ ReplyTo(in, Infinity)
                ELSE /\ reduceMin' = [reduceMin EXCEPT ![s] = Infinity]
                     /\ UNCHANGED rep
             /\ UNCHANGED broker
  /\ UNCHANGED <<simVars, commVars, barrier, reduceSent, sentTotal, recvTotal,
                 msgVars, histVars, localVars, sleepVars>>

\* (mutant) What the simulators say of messages is ignored.
NoMessage(S) == FALSE

\* TimeBoolMapAccumulate: one of those who proposed has sent a message.
HadMessage(S) == \E s \in S : sentMessage[s]

\* (mutant) Only those who proposed count.
AwakeTimes(S) == [s \in Sims |-> IF s \in S THEN est[s] ELSE Infinity]

\* The proposals of S, and of the sleeping simulators what they proposed.
Times(S) == [s \in Sims |-> IF s \in S THEN est[s] ELSE sleepState[s]]

\* (mutant) Only the simulators that were asleep are told.
Sleepers(S) == Sims \ S

\* The broadcast goes to all, the sleeping simulators and those in S.
Woken(S) == Sims

\* (mutant) Only an earlier time wakes.
OnTime(f, t) == {s \in Sims : f[s] < t} \cup {NetSim}

\* Those whose time t has come.
Due(f, t) == {s \in Sims : f[s] = t} \cup {NetSim}

ReduceMinSleep(s) ==
  /\ Serve(s, "min")
  /\ LET in == incoming \cup {s}
         f == Times(in)
     IN IF Excess(s, incoming)
        THEN GracefulDeath /\ UNCHANGED <<rep, sleepVars, now>>
        ELSE /\ UNCHANGED broker
             /\ IF ~Complete(in)
                THEN incoming' = in /\ UNCHANGED <<rep, world, sleepState, sleepingSim, now>>
                ELSE /\ incoming' = {}
                     /\ IF HadMessage(in) /\ sleepingSim
                        THEN /\ \E t \in Smallest(sleepState) : ReplyTo(Woken(in), t)
                             /\ world' = Cardinality(Sims)
                             /\ sleepingSim' = FALSE
                             /\ UNCHANGED <<sleepState, now>>
                        ELSE \E t \in Smallest(f) :
                             /\ ReplyTo(Due(f, t), t)
                             /\ world' = Cardinality(Due(f, t))
                             /\ sleepingSim' = (Due(f, t) # Sims)
                             /\ sleepState' = f
                             /\ now' = t
  /\ UNCHANGED <<simVars, commVars, barrier, reduceSent, sentTotal, recvTotal,
                 reduceMin, msgVars, countVars, localVars>>

ActiveCarry(m) == Carry(m) /\ UNCHANGED <<localVars, sleepVars>>

-----------------------------------------------------------------------------
ActiveClientStep(s) ==
  \/ ActiveStepStart(s) \/ ActiveBarrierDone(s) \/ ActiveGetNextTime(s)
  \/ ActiveTickDiff(s) \/ ActiveDelayDone(s) \/ WokenUp(s) \/ ActiveTickGranted(s)

ActiveNetStep == ActiveNetDiff \/ NetAgain \/ ActiveNetGranted

ActiveBrokerStep(s) ==
  ActiveBarrier(s) \/ ActiveSendRecv(s) \/ ActiveDelay(s) \/ ReduceMinSleep(s)

ActiveNext ==
  \/ \E s \in Sims : ActiveClientStep(s) \/ ActiveBrokerStep(s)
  \/ ActiveNetStep
  \/ \E m \in Msgs : ActiveCarry(m)

ActiveSpec == ActiveInit /\ [][ActiveNext]_activeVars

\* As in GracePeriodSync.
ActiveFairness ==
  /\ \A s \in Sims : WF_activeVars(ActiveClientStep(s))
                     /\ WF_activeVars(ActiveBrokerStep(s))
  /\ WF_activeVars(ActiveNetStep)
  /\ \A m \in Msgs : WF_activeVars(ActiveCarry(m))

ActiveFairSpec == ActiveSpec /\ ActiveFairness

-----------------------------------------------------------------------------
(* Properties.                                                             *)

\* The broker has answered the others and not s.
Asleep(s) == pc[s] = "min" /\ s \notin req \cup incoming /\ rep[s] = None

\* Those whose call is about to return; the others that hold an answer were
\* woken and go through the reductions again, without the barrier.
ActiveOwed ==
  {s \in Sims : pc[s] = "min" /\ rep[s] # None
                /\ IF s = NetSim THEN rep[s] # granted[s] ELSE rep[s] >= est[s]}

NextCall(s) == IF pc[s] = "min" /\ rep[s] # None /\ s \notin ActiveOwed
               THEN "sr" ELSE Phase(s)

\* How many the broker waits for is how many will come: those that are not
\* asleep.  They go through the collectives together, whoever joins or
\* leaves them, and the broker never ends for one too many.
AwakeInStep ==
  /\ broker = "up"
  /\ world = Cardinality({s \in Sims : ~Asleep(s)})
  /\ \A s, t \in Sims : ~Asleep(s) /\ ~Asleep(t) => NextCall(s) = NextCall(t)

\* Whom the collectives go on without has nothing to do yet: the time it
\* proposed, which is also what the broker knows, is ahead of the instant the
\* others have reached, and those are exactly there.
SleepersAhead ==
  \A s \in Sims :
    IF Asleep(s) THEN sleepState[s] = est[s] /\ est[s] > now
    ELSE pc[s] \in InApp => cur[s] = now

\* Time does not move past an instant at which a message was sent to a
\* sleeping simulator unless that simulator has been woken since.
SendersWake ==
  [][\A m \in Msgs :
       now' # now /\ loc[m] # "unsent" /\ mtime[m] = now =>
         ~(Asleep(To[m]) /\ Asleep(To[m])')]_activeVars

\* Resetting the counters forgets nothing that was received or sent while
\* they were being reduced: outside the reductions the counters hold just
\* what is not in the broker's totals.
NothingForgotten ==
  \A s \in Ticks : pc[s] \in InApp \cup {"barrier", "min"} =>
    /\ sendCount[s] = Cardinality(Sent(s) \ sentIn)
    /\ receiveCount[s] = Cardinality(Received(s) \ recvIn)

\* A simulator that is awake and concludes that the network is stable is
\* right, though the sleeping ones have not reported for long.
AwakeMeansQuiet ==
  \A s \in Ticks :
    pc[s] \in {"delay", "min"} /\ rep[s] = None /\ ~respond[s] /\ ~Asleep(s) =>
      InFlight = {}

\* Every call for a time within the bound returns: whoever sleeps is woken.
SleepersReturn ==
  \A s \in Ticks : InCall(s) /\ asked[s] <= Horizon ~> ~InCall(s)

\* The promise to the applications is that of the grace-period algorithms.
ActiveLockStep == INSTANCE LockStepTime WITH clock <- cur, owed <- ActiveOwed

ActiveVirtualTime == ActiveLockStep!Spec

=============================================================================
