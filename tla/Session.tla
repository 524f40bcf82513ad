------------------------------- MODULE Session ------------------------------
(***************************************************************************)
(* The life of one co-simulation: every simulator says hello, registers    *)
(* its objects, finalizes the registrations, goes through the collectives  *)
(* of its run, and ends; the broker collects, answers, publishes FINISHED  *)
(* and DIE, and ends last.                                                 *)
(*                                                                         *)
(* A simulator's requests reach the broker in order (one DEALER socket per *)
(* simulator); its published messages and its replies come over different  *)
(* connections and in any order.  The collectives of the run are one kind  *)
(* of call here, a minimum of proposals: module GracePeriodSync has them   *)
(* in detail.  A simulator that takes FINISHED or DIE ends at once, so of  *)
(* what is published only the first message not yet taken counts.          *)
(***************************************************************************)
EXTENDS Integers, FiniteSets, Sequences

CONSTANTS
  Ticks,       \* the power simulators
  NetSim,      \* the network simulator
  Objects,     \* object names
  Names,       \* [Sims -> SUBSET Objects]: what each simulator registers
  Configs,     \* the configurations, [Sims -> Kinds]
  Msgs,        \* messages sent during the run
  From, To,    \* [Msgs -> Sims], [Msgs -> Objects]
  Rounds,      \* bound: the calls a power simulator makes before it stops
  EndSignal,   \* simulators may propose 0 or Infinity, which end the run
  Signalled,   \* processes that may get SIGINT or SIGTERM
  Broker,      \* the broker, as a member of Signalled
  None

Sims == Ticks \cup {NetSim}

\* What a configuration file may be like: right, without parameters or with
\* unknown ones, with an algorithm that no factory knows, or that of a network
\* simulator.
Kinds == {"right", "parameters", "algorithm", "type"}

\* What a call may propose, in the order of time.
Zero == 0
Time == 1
Infinity == 2

ASSUME SessionAssumption ==
  /\ Ticks # {}
  /\ IsFiniteSet(Objects)
  /\ NetSim \notin Ticks
  /\ Names \in [Sims -> SUBSET Objects]
  /\ \A s, t \in Ticks : s # t => Names[s] \cap Names[t] = {}
  /\ Configs \subseteq [Sims -> Kinds]
  /\ \A c \in Configs : c[NetSim] # "type"
  /\ From \in [Msgs -> Sims]
  /\ To \in [Msgs -> UNION {Names[s] : s \in Ticks}]
  /\ Rounds \in Nat
  /\ EndSignal \in BOOLEAN
  /\ Signalled \subseteq Sims \cup {Broker}
  /\ Broker \notin Sims
  /\ None \notin Sims
  /\ None \notin Nat
  /\ None \notin {"FINISHED", "DIE"}

VARIABLES
  \* a simulator
  config,      \* its configuration
  pc,          \* where it is
  interfaces,  \* the objects it has registered
  count,       \* globalObjectCount
  rounds,      \* the calls it has made
  \* the broker
  broker,      \* "up", or how it ended
  newConnections, newNetSimID,
  objToID,     \* the owner of each registered object
  netSimObjCount,
  finalized, finished,
  proposals,   \* reduce_min_time
  \* in transit
  chan,        \* requests of each simulator, oldest first
  rep,         \* the reply to its request
  pub,         \* the first published message it has not taken
  mail,        \* where each message is
  \* history
  signals      \* the processes that got a signal

simVars    == <<config, pc, interfaces, count, rounds>>
regVars    == <<newConnections, newNetSimID, objToID, netSimObjCount, finalized>>
brokerVars == <<broker, regVars, finished, proposals>>
vars == <<simVars, brokerVars, chan, rep, pub, mail, signals>>

Waits == {"hello", "finalizing", "calling"}   \* inside i_recv
Ended == {"stopped", "left", "interrupted", "failed", "misconfigured"}
Gone(s) == pc[s] \in Ended

Init ==
  /\ config \in Configs
  /\ pc = [s \in Sims |-> "start"]
  /\ interfaces = [s \in Sims |-> {}]
  /\ count = [s \in Sims |-> 0]
  /\ rounds = [s \in Sims |-> 0]
  /\ broker = "up"
  /\ newConnections = {}
  /\ newNetSimID = None
  /\ objToID = [o \in Objects |-> None]
  /\ netSimObjCount = 0
  /\ finalized = {}
  /\ finished = {}
  /\ proposals = [s \in Sims |-> None]
  /\ chan = [s \in Sims |-> <<>>]
  /\ rep = [s \in Sims |-> None]
  /\ pub = [s \in Sims |-> None]
  /\ mail = [m \in Msgs |-> "unsent"]
  /\ signals = {}

-----------------------------------------------------------------------------
(* The simulators.                                                         *)

Goto(s, l) == pc' = [pc EXCEPT ![s] = l]

Send(s, op, arg) == chan' = [chan EXCEPT ![s] = Append(@, <<op, arg>>)]

TakeReply(s, l) ==
  /\ pc[s] = l
  /\ rep[s] # None
  /\ rep' = [rep EXCEPT ![s] = None]

\* FncsConfig::createIntegrator, up to the network interface: what is wrong
\* in the file ends the process before it has said anything.
ConfigFails(s) ==
  /\ pc[s] = "start"
  /\ config[s] = "parameters"
  /\ Goto(s, "misconfigured")
  /\ UNCHANGED <<config, interfaces, count, rounds, brokerVars, chan, rep, pub,
                 mail, signals>>

\* ZmqNetworkInterface::init, up to its wait.
Hello(s) ==
  /\ pc[s] = "start"
  /\ config[s] # "parameters"
  /\ Goto(s, "hello")
  /\ Send(s, "HELLO", IF s = NetSim \/ config[s] = "type" THEN "netsim" ELSE "sim")
  /\ UNCHANGED <<config, interfaces, count, rounds, brokerVars, rep, pub, mail,
                 signals>>

\* getSyncAlgoFactory, and what the Create of the algorithm requires.
Known(s) == config[s] # "algorithm"

\* The reply is the context; signals are caught from here on.  Only now is the
\* algorithm looked for, and the process ends if there is none.
HelloDone(s) ==
  /\ TakeReply(s, "hello")
  /\ Goto(s, IF Known(s) THEN "registering" ELSE "misconfigured")
  /\ UNCHANGED <<config, interfaces, count, rounds, brokerVars, chan, pub, mail,
                 signals>>

\* registerObject does not wait for anything.
RegisterObject(s) ==
  /\ pc[s] = "registering"
  /\ \E o \in Names[s] \ interfaces[s] :
       /\ interfaces' = [interfaces EXCEPT ![s] = @ \cup {o}]
       /\ Send(s, "REGISTER_OBJECT", o)
  /\ UNCHANGED <<config, pc, count, rounds, brokerVars, rep, pub, mail, signals>>

FinalizeRegistrations(s) ==
  /\ pc[s] = "registering"
  /\ interfaces[s] = Names[s]
  /\ Goto(s, "finalizing")
  /\ Send(s, "FINALIZE_REGISTRATIONS", s)
  /\ UNCHANGED <<config, interfaces, count, rounds, brokerVars, rep, pub, mail, signals>>

FinalizeDone(s) ==
  /\ TakeReply(s, "finalizing")
  /\ count' = [count EXCEPT ![s] = rep[s]]
  /\ Goto(s, "run")
  /\ UNCHANGED <<config, interfaces, rounds, brokerVars, chan, pub, mail, signals>>

\* The network simulator always proposes Infinity, a power simulator a time
\* or an end.
Proposes(s) == IF s = NetSim THEN {Infinity}
               ELSE IF EndSignal THEN {Zero, Time, Infinity} ELSE {Time}

\* A step of the run: messages go out, then the simulator waits for all.
Call(s) ==
  /\ pc[s] = "run"
  /\ s \in Ticks => rounds[s] < Rounds
  /\ \E M \in SUBSET {m \in Msgs : From[m] = s /\ mail[m] = "unsent"} :
       mail' = [m \in Msgs |-> IF m \in M THEN "routing" ELSE mail[m]]
  /\ \E v \in Proposes(s) : Send(s, "CALL", v)
  /\ rounds' = [rounds EXCEPT ![s] = IF s = NetSim THEN @ ELSE @ + 1]
  /\ Goto(s, "calling")
  /\ UNCHANGED <<config, interfaces, count, brokerVars, rep, pub, signals>>

\* isFinished: a minimum of zero ends a power simulator, a minimum of
\* Infinity the network simulator.  stopIntegrator then sends nothing.
Finishes(s, t) == t = IF s = NetSim THEN Infinity ELSE Zero

CallDone(s) ==
  /\ TakeReply(s, "calling")
  /\ Goto(s, IF Finishes(s, rep[s]) THEN "left" ELSE "run")
  /\ UNCHANGED <<config, interfaces, count, rounds, brokerVars, chan, pub, mail, signals>>

\* stopIntegrator, at the end of a power simulator's main loop.
StopIntegrator(s) ==
  /\ s \in Ticks
  /\ pc[s] = "run"
  /\ Goto(s, "stopped")
  /\ Send(s, "FINISHED", s)
  /\ UNCHANGED <<config, interfaces, count, rounds, brokerVars, rep, pub, mail, signals>>

\* processSubMessage, FINISHED.  Before the reply to HELLO the context it
\* sends is still -1.
TakeFinished(s) ==
  /\ pc[s] \in Waits
  /\ pub[s] = "FINISHED"
  /\ Goto(s, "stopped")
  /\ Send(s, IF pc[s] = "hello" THEN "NO_CONTEXT" ELSE "FINISHED", s)
  /\ UNCHANGED <<config, interfaces, count, rounds, brokerVars, rep, pub, mail, signals>>

\* processSubMessage, DIE.
TakeDie(s) ==
  /\ pc[s] \in Waits
  /\ pub[s] = "DIE"
  /\ Goto(s, "failed")
  /\ UNCHANGED <<config, interfaces, count, rounds, brokerVars, chan, rep, pub, mail,
                 signals>>

\* cleanup_handler: a simulator that catches a signal reports FINISHED.
Interrupt(s) ==
  /\ s \in Signalled
  /\ pc[s] \in {"registering", "finalizing", "run", "calling"}
  /\ Goto(s, "interrupted")
  /\ Send(s, "FINISHED", s)
  /\ signals' = signals \cup {s}
  /\ UNCHANGED <<config, interfaces, count, rounds, brokerVars, rep, pub, mail>>

-----------------------------------------------------------------------------
(* The broker.                                                             *)

Take(s, op) ==
  /\ broker = "up"
  /\ chan[s] # <<>>
  /\ Head(chan[s])[1] = op
  /\ chan' = [chan EXCEPT ![s] = Tail(@)]

Arg(s) == Head(chan[s])[2]

\* (mutant) Nothing is sent on the PUB socket.
Silent(x) == UNCHANGED pub

Publish(x) == pub' = [s \in Sims |-> IF pub[s] = None /\ pc[s] # "start" THEN x
                                     ELSE pub[s]]

\* DIE goes out, then the broker exits.
Death(how) == Publish("DIE") /\ broker' = how

\* Reply v to all.  The broker's ROUTER sockets report a peer that is known
\* to be gone, and zmqx_send asserts that there is none: the broker aborts,
\* having answered some.  A peer's end may also go unnoticed.
ReplyAll(v) ==
  LET gone == {s \in Sims : Gone(s)}
      ReplyTo(S) == rep' = [s \in Sims |-> IF s \in S THEN v ELSE rep[s]]
  IN \/ ReplyTo(Sims \ gone) /\ UNCHANGED broker
     \/ /\ gone # {}
        /\ \E S \in SUBSET (Sims \ gone) : ReplyTo(S)
        /\ broker' = "aborted"

\* (mutant) The last one to call itself the network simulator is it.
NoneIsSecond(s) == FALSE

\* There is one network simulator; a second one ends everything.
SecondNetSim(s) == Arg(s) = "netsim" /\ newNetSimID # None

HelloHandler(s) ==
  /\ Take(s, "HELLO")
  /\ newConnections' = newConnections \cup {s}
  /\ IF SecondNetSim(s)
     THEN Death("died") /\ UNCHANGED <<newNetSimID, rep>>
     ELSE /\ newNetSimID' = IF Arg(s) = "netsim" THEN s ELSE newNetSimID
          /\ IF newConnections' = Sims THEN ReplyAll(0)
             ELSE UNCHANGED <<rep, broker>>
          /\ UNCHANGED pub
  /\ UNCHANGED <<simVars, objToID, netSimObjCount, finalized, finished,
                 proposals, mail, signals>>

\* The network simulator's objects are only counted.
RegisterHandler(s) ==
  /\ Take(s, "REGISTER_OBJECT")
  /\ IF s = NetSim
     THEN netSimObjCount' = netSimObjCount + 1 /\ UNCHANGED <<objToID, broker, pub>>
     ELSE IF objToID[Arg(s)] # None
     THEN Death("died") /\ UNCHANGED <<objToID, netSimObjCount>>
     ELSE /\ objToID' = [objToID EXCEPT ![Arg(s)] = s]
          /\ UNCHANGED <<netSimObjCount, broker, pub>>
  /\ UNCHANGED <<simVars, newConnections, newNetSimID, finalized, finished, proposals, rep,
                 mail, signals>>

\* (mutant) The reply does not wait for the others.
AnyOne(S) == TRUE

\* All the simulators of the context are in.
Everyone(S) == S = Sims

FinalizeHandler(s) ==
  /\ Take(s, "FINALIZE_REGISTRATIONS")
  /\ finalized' = finalized \cup {s}
  /\ IF Everyone(finalized') THEN ReplyAll(netSimObjCount)
     ELSE UNCHANGED <<rep, broker>>
  /\ UNCHANGED <<simVars, newConnections, newNetSimID, objToID, netSimObjCount, finished,
                 proposals, pub, mail, signals>>

\* (mutant) A simulator that has finished is no longer waited for.
MissingActive(f) == \E s \in Sims \ finished : f[s] = None

\* The collective waits for the proposals of all simulators.
Missing(f) == \E s \in Sims : f[s] = None

Least(f) == LET V == {f[s] : s \in Sims} \ {None}
            IN CHOOSE v \in V : \A u \in V : v <= u

CallHandler(s) ==
  /\ Take(s, "CALL")
  /\ LET in == [proposals EXCEPT ![s] = Arg(s)]
     IN IF proposals[s] # None
        THEN Death("died") /\ UNCHANGED <<proposals, rep>>
        ELSE IF Missing(in)
        THEN proposals' = in /\ UNCHANGED <<broker, rep, pub>>
        ELSE /\ ReplyAll(Least(in))
             /\ proposals' = [t \in Sims |-> None]
             /\ UNCHANGED pub
  /\ UNCHANGED <<simVars, regVars, finished, mail, signals>>

\* Every simulator of the context has said FINISHED.
AllFinished(S) == S = Sims

\* finished_handler, and the end of the broker's loop.
FinishedHandler(s) ==
  /\ Take(s, "FINISHED")
  /\ finished' = finished \cup {s}
  /\ IF AllFinished(finished') THEN Death("ended")
     ELSE Publish("FINISHED") /\ UNCHANGED broker
  /\ UNCHANGED <<simVars, regVars, proposals, rep, mail, signals>>

\* A request whose context is below zero.
NoContextHandler(s) ==
  /\ Take(s, "NO_CONTEXT")
  /\ Death("died")
  /\ UNCHANGED <<simVars, regVars, finished, proposals, rep, mail, signals>>

\* route_handler and delay_handler: power simulators send to the network
\* simulator, it sends to the owner of the object.
Receiver(m) == IF From[m] = NetSim THEN objToID[To[m]] ELSE NetSim

Forward(m) ==
  /\ broker = "up"
  /\ mail[m] = "routing"
  /\ mail' = [mail EXCEPT ![m] = "forwarded"]
  /\ IF Receiver(m) = None THEN Death("died")
     ELSE /\ \/ UNCHANGED broker
             \/ Gone(Receiver(m)) /\ broker' = "aborted"
          /\ UNCHANGED pub
  /\ UNCHANGED <<simVars, regVars, finished, proposals, chan, rep, signals>>

\* graceful_death_handler.
InterruptBroker ==
  /\ Broker \in Signalled
  /\ broker = "up"
  /\ Death("died")
  /\ signals' = signals \cup {Broker}
  /\ UNCHANGED <<simVars, regVars, finished, proposals, chan, rep, mail>>

-----------------------------------------------------------------------------
SimStep(s) ==
  \/ ConfigFails(s) \/ Hello(s) \/ HelloDone(s) \/ RegisterObject(s) \/ FinalizeRegistrations(s)
  \/ FinalizeDone(s) \/ Call(s) \/ CallDone(s) \/ StopIntegrator(s)
  \/ TakeFinished(s) \/ TakeDie(s)

BrokerStep(s) ==
  \/ HelloHandler(s) \/ RegisterHandler(s) \/ FinalizeHandler(s)
  \/ CallHandler(s) \/ FinishedHandler(s) \/ NoContextHandler(s)

Next ==
  \/ \E s \in Sims : SimStep(s) \/ BrokerStep(s) \/ Interrupt(s)
  \/ \E m \in Msgs : Forward(m)
  \/ InterruptBroker

Spec == Init /\ [][Next]_vars

\* Processes run and sockets deliver; nobody has to send a signal.
Fairness ==
  /\ \A s \in Sims : WF_vars(SimStep(s)) /\ WF_vars(BrokerStep(s))
  /\ \A m \in Msgs : WF_vars(Forward(m))

FairSpec == Spec /\ Fairness

-----------------------------------------------------------------------------
(* Properties.                                                             *)

\* A simulator whose finalizeRegistrations has returned runs in a complete
\* world: every object of every power simulator has its owner at the broker,
\* and the number it was told is that of all the network simulator's objects.
\* (A registration is not answered; only its place before the request to
\* finalize in the queue of its sender makes it count.)
Resolved ==
  \A s \in Sims : pc[s] \in {"run", "calling"} =>
    /\ count[s] = Cardinality(Names[NetSim])
    /\ \A t \in Ticks : \A o \in Names[t] : objToID[o] = t

\* A co-simulation only begins with everyone in it: if a configuration is
\* wrong, be it found before the simulator says hello, after it, or by the
\* broker, no simulator's finalizeRegistrations ever returns.
BeginsComplete ==
  \A s, t \in Sims : pc[s] \in {"run", "calling"} => config[t] = "right"

\* A simulator fails, and the broker dies, only if some process was sent a
\* signal or there are two network simulators: the end of one simulator never
\* looks like a failure to another.
CleanExit ==
  signals = {} /\ (\A s \in Sims : config[s] # "type") =>
    broker # "died" /\ \A s \in Sims : pc[s] # "failed"

\* Nobody goes on alone: when a simulator has ended without a signal, no
\* other gets past the call it is in.
NoneGoesOn ==
  [][\A s \in Sims :
       (\E t \in Sims : pc[t] = "stopped") /\ signals = {} =>
         ~(rep[s] = None /\ rep'[s] # None)]_vars

\* Once one simulator has ended all simulators end, and so does the broker.
EndTogether ==
  \A s, t \in Sims : Gone(s) ~> Gone(t) /\ broker # "up"

\* One that says hello when the broker has ended waits for ever.
TooLate(s) == pc[s] = "hello" /\ rep[s] = None /\ pub[s] = None /\ broker # "up"

\* The same where nothing sets the simulators at odds: no simulator has left
\* after an end signal or because of its configuration, and the broker has not
\* met the socket of one that is gone.
EndsInOrder ==
  \A s, t \in Sims :
    Gone(s) ~> \/ Gone(t) /\ broker # "up"
               \/ TooLate(t)
               \/ broker = "aborted"
               \/ \E u \in Sims : pc[u] \in {"left", "misconfigured"}
=============================================================================
