--------------------------- MODULE GracePeriodSync --------------------------
(***************************************************************************)
(* Conservative co-simulation as FNCS runs it by default: power ("tick")   *)
(* simulators under GracePeriodSyncAlgo and GracePeriodCommManager, one    *)
(* network simulator under CommunicatorSimulatorSyncalgo and               *)
(* CommunicationComManager, and the broker process whose handlers collect  *)
(* BARRIER, REDUCE_SEND_RECV and REDUCE_MIN_TIME requests from all of them *)
(* and route the asynchronous messages between them.                       *)
(*                                                                         *)
(* A simulator has at most one synchronous request outstanding, because    *)
(* every call of ZmqNetworkInterface waits for its reply.  So a request in *)
(* transit is membership in req: its operation is the pc of its sender and *)
(* its payload the sender's locals, which do not change while it waits.    *)
(* Inside any such wait the client also processes whatever has arrived on  *)
(* the asynchronous socket (i_recv); a message processed by the progress   *)
(* call at the start of the next request is processed here at the end of   *)
(* the previous wait, which neither the simulator nor the others can tell. *)
(*                                                                         *)
(* Times are framework times.  One context, always valid: contexts are     *)
(* created and invalidated by the speculative algorithms only.             *)
(***************************************************************************)
EXTENDS Integers, FiniteSets

CONSTANTS
  Ticks,      \* the power simulators
  NetSim,     \* the network simulator
  Msgs,       \* the messages the simulators may ever send
  From, To,   \* [Msgs -> Ticks]: owners of the sending and receiving objects
  Direct,     \* messages sent with delayThroughComm = false
  Unit,       \* [Sims -> Nat \ {0}]: metric of a simulator, in framework time
  Step,       \* [Ticks -> Nat \ {0}]: Integrator::getOneTimeStep()
  Strides,    \* [Sims -> SUBSET Nat]: how far ahead a simulator may ask for
  Loss,       \* Integrator::getPacketLostPeriod()
  Horizon,    \* bound: a tick simulator stops once its time reaches it
  Infinity,   \* the largest TIME
  None        \* no reply, no entry in a map

Sims == Ticks \cup {NetSim}

ASSUME SimsAssumption ==
  /\ Ticks # {}
  /\ NetSim \notin Ticks
  /\ IsFiniteSet(Msgs)
  /\ From \in [Msgs -> Ticks]
  /\ To \in [Msgs -> Ticks]
  /\ Direct \subseteq Msgs

ASSUME TimeAssumption ==
  /\ Unit \in [Sims -> Nat \ {0}]
  /\ Step \in [Ticks -> Nat \ {0}]
  /\ \A s \in Ticks : Step[s] >= Unit[s]
  /\ Strides \in [Sims -> SUBSET Nat]
  /\ \A s \in Ticks : 0 \notin Strides[s]
  /\ Loss \in Nat
  /\ Horizon \in Nat
  /\ Infinity \in Nat
  /\ Infinity > Horizon
  /\ None \notin Nat

VARIABLES
  \* the application and its synchronisation algorithm, per simulator
  pc,        \* where it is: in its own code or waiting inside a call
  cur,       \* the application's current time (getTimeCallBack)
  granted,   \* grantedTime
  asked,     \* the nextTime of the GetNextTime call in progress
  base,      \* the local currentTime of GetNextTime
  est,       \* nextEstTime / myminNextTime, what it proposes
  respond,   \* needToRespond
  busy,      \* busywait
  \* the communication managers
  sendCount, receiveCount,
  sendCopy, recvCopy,     \* the copies taken by reduceTotalSendReceive
  packets,   \* CommunicationComManager::packets: the messages it counts
  \* the broker's context
  broker,    \* "up", or "dead" after graceful_death(EXIT_FAILURE)
  barrier,   \* set of identities
  reduceSent,             \* identities in reduce_sent and reduce_recv
  sentTotal, recvTotal,   \* totals, the entries collected so far included
  reduceMin, \* reduce_min_time
  \* what is in transit
  req,       \* simulators whose synchronous request has not been handled
  rep,       \* [Sims -> Nat \cup {None}]: replies not yet received
  loc,       \* where each message is
  mtime,     \* the time stamp of each message
  \* history, read by properties only
  now,       \* the last agreed minimum
  copied,    \* messages whose receipt is in some copy of a counter
  sentIn,    \* messages whose sending is in sentTotal
  recvIn     \* messages whose receipt is in recvTotal

simVars  == <<pc, cur, granted, asked, base, est, respond, busy>>
commVars == <<sendCount, receiveCount, sendCopy, recvCopy, packets>>
brokerVars == <<broker, barrier, reduceSent, sentTotal, recvTotal, reduceMin>>
msgVars  == <<loc, mtime>>
countVars == <<copied, sentIn, recvIn>>
histVars == <<now, countVars>>
vars == <<simVars, commVars, brokerVars, req, rep, msgVars, histVars>>

InApp   == {"idle", "work", "finished"}
Waiting == {"barrier", "sr", "delay", "min"}
Locs == {"unsent", "delaying", "toNet", "held", "discarded",
         "routing", "toSim", "delivered", "dropped"}
Ack == 0   \* the payload of a barrier's reply

-----------------------------------------------------------------------------
(* Helpers.                                                                *)

\* convertToFrameworkTime(metric, convertToMyTime(metric, t)): the latest
\* multiple of the simulator's unit that is not after t.
FloorTo(s, t) == t - (t % Unit[s])

\* The oldest time stamp a receiver whose time is t still accepts.
GraceTime(t) == IF t < Loss THEN 0 ELSE t - Loss

\* (mutant) The granted time itself counts as granted already.
GrantedUpTo(s, t) == t <= granted[s]

\* The early return of timeStepStart and GetNextTime.
GrantedAlready(s, t) == t < granted[s]

\* What s may ask for next.  0 stands for the end signal, which only an
\* application that never advanced can give.
AskedTimes(s) == {cur[s] + d : d \in Strides[s]} \cup {Infinity}
                 \cup (IF granted[s] = 0 THEN {0} ELSE {})

\* What the outbox of s may hold when sendAll runs: new messages of a power
\* simulator, messages the network simulator has carried to their end.
Outbox(s) == IF s = NetSim
             THEN {m \in Msgs : loc[m] = "held"}
             ELSE {m \in Msgs : loc[m] = "unsent" /\ From[m] = s}

\* The messages a simulator has sent, and those it has received or, the
\* network simulator, given up.
Sent(s) == {m \in Msgs : From[m] = s /\ loc[m] # "unsent"}
Received(s) == IF s = NetSim
               THEN {m \in Msgs : loc[m] \in {"held", "discarded"}} \ packets
               ELSE {m \in Msgs : To[m] = s /\ loc[m] = "delivered"}

-----------------------------------------------------------------------------
Init ==
  /\ pc = [s \in Sims |-> "idle"]
  /\ cur = [s \in Sims |-> 0]
  /\ granted = [s \in Sims |-> 0]
  /\ asked = [s \in Sims |-> 0]
  /\ base = [s \in Sims |-> 0]
  /\ est = [s \in Sims |-> 0]
  /\ respond = [s \in Sims |-> FALSE]
  /\ busy = [s \in Sims |-> FALSE]
  /\ sendCount = [s \in Sims |-> 0]
  /\ receiveCount = [s \in Sims |-> 0]
  /\ sendCopy = [s \in Sims |-> 0]
  /\ recvCopy = [s \in Sims |-> 0]
  /\ packets = {}
  /\ broker = "up"
  /\ barrier = {}
  /\ reduceSent = {}
  /\ sentTotal = 0
  /\ recvTotal = 0
  /\ reduceMin = [s \in Sims |-> None]
  /\ req = {}
  /\ rep = [s \in Sims |-> None]
  /\ loc = [m \in Msgs |-> "unsent"]
  /\ mtime = [m \in Msgs |-> 0]
  /\ now = 0
  /\ copied = {}
  /\ sentIn = {}
  /\ recvIn = {}

-----------------------------------------------------------------------------
(* Client side.                                                            *)

\* Wait in call c: the request goes out, its reply is awaited.
Call(s, c) ==
  /\ pc' = [pc EXCEPT ![s] = c]
  /\ req' = req \cup {s}

\* (mutant) The result of removeMessageTimeout is ignored.
AnyMessage(m) == TRUE

\* removeMessageTimeout: the message has not been reported as lost.
NotTimedOut(m) == m \in packets

\* sendAll with the messages M in the outbox.  A power simulator counts each
\* one; the network simulator counts none and drops those whose time-out
\* entry is gone (an entry stands for a time stamp and a count, but all the
\* messages of a stamp time out together and none is accepted afterwards).
SendAll(s, M) ==
  IF s = NetSim
  THEN /\ loc' = [m \in Msgs |-> IF m \notin M THEN loc[m]
                                 ELSE IF NotTimedOut(m) THEN "routing"
                                 ELSE "discarded"]
       /\ packets' = packets \ M
       /\ UNCHANGED <<mtime, sendCount>>
  ELSE /\ loc' = [m \in Msgs |-> IF m \notin M THEN loc[m]
                                 ELSE IF m \in Direct THEN "routing"
                                 ELSE "delaying"]
       /\ mtime' = [m \in Msgs |-> IF m \in M THEN cur[s] ELSE mtime[m]]
       /\ sendCount' = [sendCount EXCEPT ![s] = @ + Cardinality(M)]
       /\ UNCHANGED packets

\* timeStepStart at a time the simulator has been granted: send, then wait
\* for everyone.  A tick simulator's main loop ends at Horizon.
StepStart(s) ==
  /\ pc[s] = "idle"
  /\ s \in Ticks => cur[s] < Horizon
  /\ ~GrantedAlready(s, cur[s])
  /\ \E M \in SUBSET Outbox(s) : SendAll(s, M)
  /\ Call(s, "barrier")
  /\ UNCHANGED <<cur, granted, asked, base, est, respond, busy, receiveCount,
                 sendCopy, recvCopy, brokerVars, rep, histVars>>

\* timeStepStart before the granted time returns at once.
StepStartEarly(s) ==
  /\ pc[s] = "idle"
  /\ GrantedAlready(s, cur[s])
  /\ pc' = [pc EXCEPT ![s] = "work"]
  /\ UNCHANGED <<cur, granted, asked, base, est, respond, busy, commVars,
                 brokerVars, req, rep, msgVars, histVars>>

\* The part of reduceTotalSendReceive before its reply: the counters as they
\* are now, the ones in sc included, are copied and sent.
RequestDiff(s, sc) ==
  /\ sendCopy' = [sendCopy EXCEPT ![s] = sc]
  /\ recvCopy' = [recvCopy EXCEPT ![s] = receiveCount[s]]
  /\ copied' = copied \cup Received(s)
  /\ Call(s, "sr")

\* Integrator::getNextTime: sendAll, then GetNextTime up to its first wait.
GetNextTime(s) ==
  /\ pc[s] = "work"
  /\ \E M \in SUBSET Outbox(s), next \in AskedTimes(s) :
       /\ ~GrantedAlready(s, next)
       /\ SendAll(s, M)
       /\ RequestDiff(s, sendCount'[s])
       /\ asked' = [asked EXCEPT ![s] = next]
  /\ base' = [base EXCEPT ![s] = cur[s]]
  /\ respond' = [respond EXCEPT ![s] = FALSE]
  /\ busy' = [busy EXCEPT ![s] = FALSE]
  /\ UNCHANGED <<cur, granted, est, receiveCount, brokerVars, rep, now,
                 sentIn, recvIn>>

\* GetNextTime for a time that was granted already synchronises nothing.
GetNextTimeEarly(s) ==
  /\ pc[s] = "work"
  /\ \E M \in SUBSET Outbox(s), next \in AskedTimes(s) :
       /\ GrantedAlready(s, next)
       /\ SendAll(s, M)
       /\ cur' = [cur EXCEPT ![s] = IF s = NetSim
                                    THEN FloorTo(s, granted[s]) ELSE next]
  /\ pc' = [pc EXCEPT ![s] = "idle"]
  /\ UNCHANGED <<granted, asked, base, est, respond, busy, receiveCount,
                 sendCopy, recvCopy, brokerVars, req, rep, histVars>>

\* A reply is taken from the socket.
TakeReply(s, c) ==
  /\ pc[s] = c
  /\ rep[s] # None
  /\ rep' = [rep EXCEPT ![s] = None]

\* The barrier of timeStepStart is over: the simulator computes its step.
BarrierDone(s) ==
  /\ TakeReply(s, "barrier")
  /\ ~busy[s]
  /\ pc' = [pc EXCEPT ![s] = "work"]
  /\ UNCHANGED <<cur, granted, asked, base, est, respond, busy, commVars,
                 brokerVars, req, msgVars, histVars>>

\* The barrier at the head of GetNextTime's loop is over.
BusyBarrierDone(s) ==
  /\ TakeReply(s, "barrier")
  /\ busy[s]
  /\ RequestDiff(s, sendCount[s])
  /\ UNCHANGED <<cur, granted, asked, base, est, respond, busy, sendCount,
                 receiveCount, packets, brokerVars, msgVars, now,
                 sentIn, recvIn>>

\* (mutant) resetCounters() was left in beside the subtraction.
ResetAndSubtract(count, copy, s) == [count EXCEPT ![s] = 0 - copy[s]]

\* The counters that were reported leave the local ones; receipts counted
\* meanwhile stay for the next round.
Subtract(count, copy, s) == [count EXCEPT ![s] = @ - copy[s]]

\* (mutant) The difference is not looked at.
NoRoundSawOne(s) == ~respond[s]

\* The difference is zero, and no earlier round of this call saw another.
Stable(s) == rep[s] = 0 /\ ~respond[s]

\* (mutant) The step is added to the time asked for.
StepFromAsked(s) == asked[s] + Step[s]

\* One step from the local time.
OneStepOn(s) == base[s] + Step[s]

\* A power simulator learns the difference and proposes what it asked for if
\* the network is stable, one step otherwise.  Then reduceNetworkDelay, whose result the algorithm ignores.
TickDiff(s) ==
  /\ s \in Ticks
  /\ TakeReply(s, "sr")
  /\ sendCount' = Subtract(sendCount, sendCopy, s)
  /\ receiveCount' = Subtract(receiveCount, recvCopy, s)
  /\ est' = [est EXCEPT ![s] = IF Stable(s) THEN asked[s] ELSE OneStepOn(s)]
  /\ respond' = [respond EXCEPT ![s] = ~Stable(s)]
  /\ Call(s, "delay")
  /\ UNCHANGED <<cur, granted, asked, base, busy, sendCopy, recvCopy,
                 packets, brokerVars, msgVars, histVars>>

\* packetLostCalculator: messages the simulated network has had for longer
\* than the loss period are reported as received.
LostPackets == {m \in packets : mtime[m] < GraceTime(base[NetSim])}

\* The network simulator learns the difference.
NetDiff ==
  /\ TakeReply(NetSim, "sr")
  /\ sendCount' = Subtract(sendCount, sendCopy, NetSim)
  /\ LET lost == IF rep[NetSim] > 0 THEN LostPackets ELSE {}
     IN /\ receiveCount' = [receiveCount EXCEPT
                              ![NetSim] = @ - recvCopy[NetSim] + Cardinality(lost)]
        /\ packets' = packets \ lost
  /\ est' = [est EXCEPT ![NetSim] = Infinity]
  /\ Call(NetSim, "delay")
  /\ UNCHANGED <<cur, granted, asked, base, respond, busy, sendCopy, recvCopy,
                 brokerVars, msgVars, histVars>>

\* reduceNetworkDelay returned: propose est.
DelayDone(s) ==
  /\ TakeReply(s, "delay")
  /\ Call(s, "min")
  /\ UNCHANGED <<cur, granted, asked, base, est, respond, busy, commVars,
                 brokerVars, msgVars, histVars>>

\* (mutant) The local time stays where the call found it.
SameBase(s) == base[s]

\* The agreed instant in the simulator's own metric.
NewBase(s) == FloorTo(s, rep[s])

\* The minimum is another simulator's: move the local time there and go
\* round the loop again.
BusyWait(s) ==
  /\ s \in Ticks
  /\ TakeReply(s, "min")
  /\ rep[s] # 0
  /\ rep[s] < est[s]
  /\ base' = [base EXCEPT ![s] = NewBase(s)]
  /\ busy' = [busy EXCEPT ![s] = TRUE]
  /\ Call(s, "barrier")
  /\ UNCHANGED <<cur, granted, asked, est, respond, commVars, brokerVars,
                 msgVars, histVars>>

\* The minimum is what this simulator proposed: the call returns it.
TickGranted(s) ==
  /\ s \in Ticks
  /\ TakeReply(s, "min")
  /\ rep[s] # 0
  /\ rep[s] >= est[s]
  /\ busy' = [busy EXCEPT ![s] = FALSE]
  /\ granted' = [granted EXCEPT ![s] = est[s]]
  /\ cur' = [cur EXCEPT ![s] = est[s]]
  /\ pc' = [pc EXCEPT ![s] = "idle"]
  /\ UNCHANGED <<asked, base, est, respond, commVars, brokerVars, req,
                 msgVars, histVars>>

\* A minimum of zero ends the co-simulation for a power simulator.
TickEnded(s) ==
  /\ s \in Ticks
  /\ TakeReply(s, "min")
  /\ rep[s] = 0
  /\ busy' = [busy EXCEPT ![s] = busy[s] /\ est[s] # 0]
  /\ cur' = [cur EXCEPT ![s] = 0]
  /\ pc' = [pc EXCEPT ![s] = "finished"]
  /\ UNCHANGED <<granted, asked, base, est, respond, commVars, brokerVars,
                 req, msgVars, histVars>>

\* The network simulator is always granted the minimum, in its own metric.
NetGranted ==
  /\ TakeReply(NetSim, "min")
  /\ rep[NetSim] # Infinity
  /\ granted' = [granted EXCEPT ![NetSim] = rep[NetSim]]
  /\ cur' = [cur EXCEPT ![NetSim] = FloorTo(NetSim, rep[NetSim])]
  /\ pc' = [pc EXCEPT ![NetSim] = "idle"]
  /\ UNCHANGED <<asked, base, est, respond, busy, commVars, brokerVars, req,
                 msgVars, histVars>>

\* Nobody proposed a time: the network simulator's loop ends.
NetEnded ==
  /\ TakeReply(NetSim, "min")
  /\ rep[NetSim] = Infinity
  /\ cur' = [cur EXCEPT ![NetSim] = FloorTo(NetSim, Infinity)]
  /\ pc' = [pc EXCEPT ![NetSim] = "finished"]
  /\ UNCHANGED <<granted, asked, base, est, respond, busy, commVars,
                 brokerVars, req, msgVars, histVars>>

\* processAsyncMessage at a power simulator: too old and it is dropped,
\* uncounted; otherwise it is counted and put in the object's inbox.
TickReceive(m) ==
  LET s == To[m]
      old == mtime[m] < GraceTime(cur[s])
  IN /\ loc[m] = "toSim"
     /\ pc[s] \in Waiting
     /\ loc' = [loc EXCEPT ![m] = IF old THEN "dropped" ELSE "delivered"]
     /\ receiveCount' = [receiveCount EXCEPT ![s] = IF old THEN @ ELSE @ + 1]
     /\ UNCHANGED <<simVars, sendCount, sendCopy, recvCopy, packets,
                    brokerVars, req, rep, mtime, histVars>>

\* processAsyncMessage at the network simulator.
NetReceive(m) ==
  LET old == mtime[m] < GraceTime(cur[NetSim])
  IN /\ loc[m] = "toNet"
     /\ pc[NetSim] \in Waiting
     /\ loc' = [loc EXCEPT ![m] = IF old THEN "dropped" ELSE "held"]
     /\ packets' = IF old THEN packets ELSE packets \cup {m}
     /\ UNCHANGED <<simVars, sendCount, receiveCount, sendCopy, recvCopy,
                    brokerVars, req, rep, mtime, histVars>>

-----------------------------------------------------------------------------
(* The broker: one action per handler.                                     *)

Serve(s, c) ==
  /\ broker = "up"
  /\ s \in req
  /\ pc[s] = c
  /\ req' = req \ {s}

Reply(v) == rep' = [s \in Sims |-> v]

GracefulDeath == broker' = "dead"

\* (mutant) The map is not cleared when everyone has been answered.
KeptEntries(S) == S

\* A collection, cleared when it is complete.
Entries(S) == IF S = Sims THEN {} ELSE S

BarrierHandler(s) ==
  /\ Serve(s, "barrier")
  /\ IF s \in barrier
     THEN GracefulDeath /\ UNCHANGED <<barrier, rep>>
     ELSE /\ barrier' = Entries(barrier \cup {s})
          /\ IF barrier \cup {s} = Sims THEN Reply(Ack) ELSE UNCHANGED rep
          /\ UNCHANGED broker
  /\ UNCHANGED <<simVars, commVars, reduceSent, sentTotal, recvTotal,
                 reduceMin, msgVars, histVars>>

\* (mutant) Equal totals are taken for an error.
NoneUnderWay(sent, recv) == sent <= recv

\* More was received than sent.
Impossible(sent, recv) == sent < recv

\* The totals are only read when every entry is in, so each entry is added
\* as it comes.
SendRecvHandler(s) ==
  /\ Serve(s, "sr")
  /\ IF s \in reduceSent
     THEN GracefulDeath /\ UNCHANGED <<reduceSent, sentTotal, recvTotal, rep>>
     ELSE /\ sentTotal' = sentTotal + sendCopy[s]
          /\ recvTotal' = recvTotal + recvCopy[s]
          /\ reduceSent' = Entries(reduceSent \cup {s})
          /\ IF reduceSent \cup {s} # Sims
             THEN UNCHANGED <<broker, rep>>
             ELSE IF Impossible(sentTotal', recvTotal')
             THEN GracefulDeath /\ UNCHANGED rep
             ELSE Reply(sentTotal' - recvTotal') /\ UNCHANGED broker
  /\ sentIn' = sentIn \cup Sent(s)
  /\ recvIn' = recvIn \cup (copied \cap Received(s))
  /\ UNCHANGED <<simVars, commVars, barrier, reduceMin, msgVars, now,
                 copied>>

\* The time a REDUCE_MIN_TIME request carries: minNetworkDelay, which nobody
\* reads, or the proposal.  Both go through the same map.
Proposal(s) == IF pc[s] = "delay" THEN Infinity ELSE est[s]

\* (mutant) The comparison is the wrong way round.
Largest(f) == {t \in {f[s] : s \in Sims} : \A s \in Sims : t >= f[s]}

Smallest(f) == {t \in {f[s] : s \in Sims} : \A s \in Sims : t <= f[s]}

ReduceMinHandler(s) ==
  /\ \E c \in {"delay", "min"} : Serve(s, c)
  /\ IF reduceMin[s] # None
     THEN GracefulDeath /\ UNCHANGED <<reduceMin, rep, now>>
     ELSE LET entries == [reduceMin EXCEPT ![s] = Proposal(s)]
          IN /\ UNCHANGED broker
             /\ IF \E t \in Sims : entries[t] = None
                THEN reduceMin' = entries /\ UNCHANGED <<rep, now>>
                ELSE \E t \in Smallest(entries) :
                       /\ Reply(t)
                       /\ reduceMin' = [r \in Sims |-> None]
                       /\ now' = IF pc[s] = "min" THEN t ELSE now
  /\ UNCHANGED <<simVars, commVars, barrier, reduceSent, sentTotal, recvTotal,
                 msgVars, countVars>>

\* delay_handler: to the network simulator.
DelayHandler(m) ==
  /\ broker = "up"
  /\ loc[m] = "delaying"
  /\ loc' = [loc EXCEPT ![m] = "toNet"]
  /\ UNCHANGED <<simVars, commVars, brokerVars, req, rep, mtime, histVars>>

\* route_handler: to the owner of the destination object.
RouteHandler(m) ==
  /\ broker = "up"
  /\ loc[m] = "routing"
  /\ loc' = [loc EXCEPT ![m] = "toSim"]
  /\ UNCHANGED <<simVars, commVars, brokerVars, req, rep, mtime, histVars>>

-----------------------------------------------------------------------------
ClientStep(s) ==
  \/ StepStart(s) \/ StepStartEarly(s) \/ GetNextTime(s) \/ GetNextTimeEarly(s)
  \/ BarrierDone(s) \/ BusyBarrierDone(s) \/ DelayDone(s)
  \/ TickDiff(s) \/ BusyWait(s) \/ TickGranted(s) \/ TickEnded(s)

NetStep == NetDiff \/ NetGranted \/ NetEnded

BrokerStep(s) == BarrierHandler(s) \/ SendRecvHandler(s) \/ ReduceMinHandler(s)

Carry(m) == DelayHandler(m) \/ RouteHandler(m) \/ TickReceive(m) \/ NetReceive(m)

Next ==
  \/ \E s \in Sims : ClientStep(s) \/ BrokerStep(s)
  \/ NetStep
  \/ \E m \in Msgs : Carry(m)

Spec == Init /\ [][Next]_vars

\* Processes run, the broker's loop serves both sockets, TCP delivers.
Fairness ==
  /\ \A s \in Sims : WF_vars(ClientStep(s)) /\ WF_vars(BrokerStep(s))
  /\ WF_vars(NetStep)
  /\ \A m \in Msgs : WF_vars(Carry(m))

FairSpec == Spec /\ Fairness

-----------------------------------------------------------------------------
(* Properties.                                                             *)

NoneOr(S) == S \cup {None}

TypeOK ==
  /\ pc \in [Sims -> InApp \cup Waiting]
  /\ cur \in [Sims -> Nat]
  /\ granted \in [Sims -> Nat]
  /\ asked \in [Sims -> Nat]
  /\ base \in [Sims -> Nat]
  /\ est \in [Sims -> Nat]
  /\ respond \in [Sims -> BOOLEAN]
  /\ busy \in [Sims -> BOOLEAN]
  /\ sendCount \in [Sims -> Nat]
  /\ receiveCount \in [Sims -> Nat]
  /\ sendCopy \in [Sims -> Nat]
  /\ recvCopy \in [Sims -> Nat]
  /\ packets \subseteq Msgs
  /\ broker \in {"up", "dead"}
  /\ barrier \subseteq Sims
  /\ reduceSent \subseteq Sims
  /\ sentTotal \in Nat
  /\ recvTotal \in Nat
  /\ reduceMin \in [Sims -> NoneOr(Nat)]
  /\ req \subseteq Sims
  /\ rep \in [Sims -> NoneOr(Nat)]
  /\ loc \in [Msgs -> Locs]
  /\ mtime \in [Msgs -> Nat]
  /\ now \in Nat
  /\ copied \subseteq Msgs
  /\ sentIn \subseteq Msgs
  /\ recvIn \subseteq Msgs

\* The identities the broker has collected for call c and not answered.
Collected(c) == CASE c = "barrier" -> barrier
                  [] c = "sr" -> reduceSent
                  [] c \in {"delay", "min"} -> {s \in Sims : reduceMin[s] # None}

\* The call s has to complete next.
After(c) == CASE c = "barrier" -> "sr"
              [] c = "sr" -> "delay"
              [] c = "delay" -> "min"
              [] c = "min" -> "barrier"

Phase(s) == CASE pc[s] \in {"idle", "finished"} -> "barrier"
              [] pc[s] = "work" -> "sr"
              [] OTHER -> IF rep[s] = None THEN pc[s] ELSE After(pc[s])


\* s has left its own code for GetNextTime.
InCall(s) == pc[s] \in {"sr", "delay", "min"} \/ (pc[s] = "barrier" /\ busy[s])

\* A simulator that waits is in exactly one place: its request is on its way,
\* or the broker has collected it under the very call the simulator waits in,
\* or the reply is on its way back.  So no handler meets an identity twice,
\* and no request is lost between the collections.
OneRequest ==
  \A s \in Sims :
    /\ s \in req => pc[s] \in Waiting /\ rep[s] = None
    /\ rep[s] # None => pc[s] \in Waiting
    /\ s \in barrier \cup reduceSent \/ reduceMin[s] # None =>
         pc[s] \in Waiting /\ s \notin req /\ rep[s] = None
    /\ s \in barrier => pc[s] = "barrier"
    /\ s \in reduceSent => pc[s] = "sr"
    /\ reduceMin[s] # None => pc[s] \in {"delay", "min"}
    /\ (broker = "up" /\ pc[s] \in Waiting) =>
         s \in req \/ rep[s] # None \/ s \in Collected(pc[s])

\* All simulators are in the same one of the four calls, the ones that have
\* its reply counting for the next: reduceNetworkDelay and reduceMinTime go
\* through one map at the broker, and nothing else keeps an entry of one from
\* being answered with the minimum of the other.
InStep == \A s, t \in Sims : Phase(s) = Phase(t)

\* What the simulators know about time fits the agreed instant.  A simulator
\* in its own code is exactly there; one inside GetNextTime lies less than a
\* step behind and proposes only what is still ahead, except for the end
\* signal, which is only given at time zero; a new instant takes effect when
\* the simulator receives it.
OneInstant ==
  /\ \A s \in Sims : pc[s] # "finished" /\ ~InCall(s) => cur[s] = now
  /\ \A s \in Sims : pc[s] = "min" /\ rep[s] # None => rep[s] = now
  /\ \A s \in Ticks : InCall(s) /\ ~(pc[s] = "min" /\ rep[s] # None) =>
       /\ base[s] <= now
       /\ now < base[s] + Step[s]
       /\ asked[s] > now \/ respond[s] \/ (asked[s] = 0 /\ now = 0)
       /\ pc[s] \in {"delay", "min"} =>
            est[s] > now \/ (est[s] = 0 /\ now = 0)

\* Messages that were sent and have not ended up anywhere yet.
InFlight == {m \in Msgs : loc[m] \in {"delaying", "toNet", "routing", "toSim"}}
            \cup packets

\* When a power simulator concludes from the counters that the network is
\* stable and proposes the time it asked for, no message is under way: not in
\* a socket, not at the broker and not inside the simulated network.
StableMeansQuiet ==
  \A s \in Ticks :
    pc[s] \in {"delay", "min"} /\ rep[s] = None /\ ~respond[s] => InFlight = {}

\* A power simulator that asks for whole steps is never moved past the time
\* it asked for (the end signal asks for no time).
NeverPastAsked ==
  \A s \in Ticks : ~InCall(s) /\ asked[s] # 0 => granted[s] <= asked[s]

\* The broker never gives up: no identity comes twice and the totals never
\* show more messages received than sent.
BrokerUp == broker = "up"

\* A power simulator asking for a time within the bound is granted one.
GetNextTimeReturns ==
  \A s \in Ticks : InCall(s) /\ asked[s] <= Horizon ~> ~InCall(s)

\* The promise to the applications: one virtual time.
Owed == {s \in Sims : pc[s] = "min" /\ rep[s] # None
                      /\ (s \in Ticks => rep[s] >= est[s])}

LockStep == INSTANCE LockStepTime WITH clock <- cur, owed <- Owed

OneVirtualTime == LockStep!Spec

=============================================================================
