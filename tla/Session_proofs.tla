--------------------------- MODULE Session_proofs ---------------------------
(***************************************************************************)
(* What Session promises, for any number of simulators, objects, messages, *)
(* calls and signals.  The inductive invariant has a part for what is      *)
(* queued, one for the start, one for the registrations, one for the run   *)
(* and one for the end.                                                    *)
(***************************************************************************)
EXTENDS Session, FiniteSetTheorems, TLAPS

Places == {"start", "hello", "registering", "finalizing", "run", "calling"} \cup Ended
Passed == {"registering", "finalizing", "run", "calling"}
InRun == {"run", "calling"}

Kind == {"HELLO", "REGISTER_OBJECT", "FINALIZE_REGISTRATIONS", "CALL",
         "FINISHED", "NO_CONTEXT"}
Args == {"sim", "netsim", Zero, Time, Infinity} \cup Objects \cup Sims
Requests == Kind \X Args

TypeInv ==
  /\ config \in Configs
  /\ pc \in [Sims -> Places]
  /\ interfaces \in [Sims -> SUBSET Objects]
  /\ DOMAIN count = Sims
  /\ newConnections \subseteq Sims /\ finalized \subseteq Sims /\ finished \subseteq Sims
  /\ objToID \in [Objects -> Sims \cup {None}]
  /\ netSimObjCount \in Nat
  /\ DOMAIN proposals = Sims
  /\ chan \in [Sims -> Seq(Requests)]
  /\ DOMAIN rep = Sims
  /\ DOMAIN pub = Sims
  /\ DOMAIN mail = Msgs

-----------------------------------------------------------------------------
(* What is queued.                                                         *)

Q(s) == {chan[s][i] : i \in 1 .. Len(chan[s])}
Has(s, k) == \E e \in Q(s) : e[1] = k

\* No two requests of one kind are on their way, except registrations of
\* different objects; and no registration comes after the end of them.
Distinct(q) ==
  \A i, j \in 1 .. Len(q) :
    i # j /\ q[i][1] = q[j][1] => q[i][1] = "REGISTER_OBJECT" /\ q[i] # q[j]
Ordered(q) ==
  \A i, j \in 1 .. Len(q) :
    i < j /\ q[i][1] = "FINALIZE_REGISTRATIONS" => q[j][1] # "REGISTER_OBJECT"

\* What a request adds to the queue of its sender.
LEMMA SendQ ==
  ASSUME TypeInv, NEW s \in Sims, NEW k \in Kind, NEW a \in Args, Send(s, k, a)
  PROVE  /\ chan' \in [Sims -> Seq(Requests)]
         /\ Q(s)' = Q(s) \cup {<<k, a>>}
         /\ \A t \in Sims \ {s} : chan'[t] = chan[t] /\ Q(t)' = Q(t)
         /\ Distinct(chan[s]) /\ <<k, a>> \notin Q(s)
              /\ (Has(s, k) => k = "REGISTER_OBJECT") => Distinct(chan'[s])
         /\ Ordered(chan[s])
              /\ (Has(s, "FINALIZE_REGISTRATIONS") => k # "REGISTER_OBJECT")
              => Ordered(chan'[s])
<1> DEFINE q == chan[s]
           e == <<k, a>>
<1>1. chan[s] \in Seq(Requests) /\ e \in Requests
  BY DEF TypeInv, Requests
<1>2. chan' = [chan EXCEPT ![s] = Append(q, e)]
  BY DEF Send
<1>3. /\ chan' \in [Sims -> Seq(Requests)] /\ chan'[s] = Append(q, e)
      /\ \A t \in Sims \ {s} : chan'[t] = chan[t]
  BY <1>1, <1>2 DEF TypeInv
<1>4. /\ Len(chan'[s]) = Len(q) + 1 /\ chan'[s][Len(q) + 1] = e /\ Len(q) \in Nat
      /\ \A i \in 1 .. Len(q) : chan'[s][i] = q[i]
  BY <1>1, <1>3
<1>5. Q(s)' = Q(s) \cup {e}
  <2>1. \A x \in Q(s)' : x \in Q(s) \cup {e}
    <3> SUFFICES ASSUME NEW x \in Q(s)' PROVE x \in Q(s) \cup {e}
      OBVIOUS
    <3>1. PICK i \in 1 .. Len(chan'[s]) : x = chan'[s][i]
      BY DEF Q
    <3>2. i \in 1 .. Len(q) \/ i = Len(q) + 1
      BY <1>4
    <3>3. CASE i \in 1 .. Len(q)
      BY <1>4, <3>1, <3>3 DEF Q
    <3>4. CASE i = Len(q) + 1
      BY <1>4, <3>1, <3>4
    <3> QED BY <3>2, <3>3, <3>4
  <2>2. \A x \in Q(s) : x \in Q(s)'
    BY <1>4 DEF Q
  <2>3. e \in Q(s)'
    BY <1>4 DEF Q
  <2> QED BY <2>1, <2>2, <2>3
<1>6. \A t \in Sims \ {s} : Q(t)' = Q(t)
  BY <1>3 DEF Q
<1>7. ASSUME Distinct(q), e \notin Q(s), Has(s, k) => k = "REGISTER_OBJECT"
      PROVE  Distinct(chan'[s])
  <2>1. \A i \in 1 .. Len(q) : q[i] \in Q(s) /\ q[i] # e
    BY <1>7 DEF Q
  <2>2. \A i \in 1 .. Len(q) : q[i][1] = k => k = "REGISTER_OBJECT"
    BY <1>7, <2>1 DEF Has
  <2>3. e[1] = k
    OBVIOUS
  <2> HIDE DEF e, q
  <2> QED BY <1>4, <1>7, <2>1, <2>2, <2>3 DEF Distinct
<1>8. ASSUME Ordered(q), Has(s, "FINALIZE_REGISTRATIONS") => k # "REGISTER_OBJECT"
      PROVE  Ordered(chan'[s])
  <2>1. \A i \in 1 .. Len(q) : q[i][1] = "FINALIZE_REGISTRATIONS" => k # "REGISTER_OBJECT"
    BY <1>8 DEF Has, Q
  <2>2. e[1] = k
    OBVIOUS
  <2> HIDE DEF e, q
  <2> QED BY <1>4, <1>8, <2>1, <2>2 DEF Ordered
<1> QED BY <1>3, <1>5, <1>6, <1>7, <1>8

\* A request of a kind that is not in the queue.
LEMMA SendNew ==
  ASSUME TypeInv, NEW s \in Sims, NEW k \in Kind \ {"REGISTER_OBJECT"}, NEW a \in Args,
         Send(s, k, a), ~Has(s, k), Distinct(chan[s]), Ordered(chan[s])
  PROVE  /\ Q(s)' = Q(s) \cup {<<k, a>>}
         /\ \A t \in Sims \ {s} : chan'[t] = chan[t] /\ Q(t)' = Q(t)
         /\ Distinct(chan'[s]) /\ Ordered(chan'[s])
         /\ \A j : j # k => (Has(s, j)' <=> Has(s, j))
<1>1. <<k, a>>[1] = k
  OBVIOUS
<1>2. <<k, a>> \notin Q(s)
  BY <1>1 DEF Has
<1>3. /\ Q(s)' = Q(s) \cup {<<k, a>>}
      /\ \A t \in Sims \ {s} : chan'[t] = chan[t] /\ Q(t)' = Q(t)
      /\ Distinct(chan'[s]) /\ Ordered(chan'[s])
  BY <1>2, SendQ
<1>4. \A j : j # k => (Has(s, j)' <=> Has(s, j))
  BY <1>1, <1>3 DEF Has
<1> QED BY <1>3, <1>4

\* What the broker takes is no longer in the queue, nor is another like it.
LEMMA TakeQ ==
  ASSUME TypeInv, NEW s \in Sims, NEW k \in Kind, Take(s, k),
         Distinct(chan[s]), Ordered(chan[s])
  PROVE  /\ chan' \in [Sims -> Seq(Requests)]
         /\ Arg(s) \in Args
         /\ <<k, Arg(s)>> \in Q(s)
         /\ Q(s)' = Q(s) \ {<<k, Arg(s)>>}
         /\ k # "REGISTER_OBJECT" => ~Has(s, k)'
         /\ k = "FINALIZE_REGISTRATIONS" => ~Has(s, "REGISTER_OBJECT")
         /\ \A t \in Sims \ {s} : chan'[t] = chan[t] /\ Q(t)' = Q(t)
         /\ Distinct(chan'[s]) /\ Ordered(chan'[s])
<1> DEFINE q == chan[s]
           e == <<k, Arg(s)>>
<1>1. q \in Seq(Requests) /\ q # <<>>
  BY DEF TypeInv, Take
<1>2. q[1] = e /\ Arg(s) \in Args
  <2>1. Head(q) = q[1] /\ q[1] \in Requests
    BY <1>1
  <2>2. q[1][1] = k /\ Arg(s) = q[1][2]
    BY <2>1 DEF Take, Arg
  <2> QED BY <2>1, <2>2 DEF Requests
<1>3. /\ chan' \in [Sims -> Seq(Requests)] /\ chan'[s] = Tail(q)
      /\ \A t \in Sims \ {s} : chan'[t] = chan[t]
  BY <1>1 DEF TypeInv, Take
<1>4. /\ Len(q) \in Nat \ {0} /\ Len(chan'[s]) = Len(q) - 1
      /\ \A i \in 1 .. Len(q) - 1 : chan'[s][i] = q[i + 1]
  BY <1>1, <1>3
<1>5. \A i \in 2 .. Len(q) : q[i] # e /\ (q[i][1] = k => k = "REGISTER_OBJECT")
  <2>1. e[1] = k
    OBVIOUS
  <2> HIDE DEF e, q
  <2> SUFFICES ASSUME NEW i \in 2 .. Len(q) PROVE q[i] # e /\ (q[i][1] = k => k = "REGISTER_OBJECT")
    OBVIOUS
  <2>2. Distinct(q)
    BY DEF q
  <2>3. i \in 1 .. Len(q) /\ 1 \in 1 .. Len(q) /\ i # 1
    BY <1>4
  <2>4. q[i][1] = q[1][1] => q[i][1] = "REGISTER_OBJECT" /\ q[i] # q[1]
    BY <2>2, <2>3 DEF Distinct
  <2> QED BY <1>2, <2>1, <2>4
<1>6. Q(s)' = Q(s) \ {e}
  <2>1. \A x \in Q(s)' : x \in Q(s) \ {e}
    <3> SUFFICES ASSUME NEW x \in Q(s)' PROVE x \in Q(s) \ {e}
      OBVIOUS
    <3>1. PICK i \in 1 .. Len(q) - 1 : x = chan'[s][i]
      BY <1>4 DEF Q
    <3>2. x = q[i + 1] /\ i + 1 \in 2 .. Len(q) /\ i + 1 \in 1 .. Len(q)
      BY <1>4, <3>1
    <3> QED BY <1>5, <3>2 DEF Q
  <2>2. \A x \in Q(s) \ {e} : x \in Q(s)'
    <3> SUFFICES ASSUME NEW x \in Q(s) \ {e} PROVE x \in Q(s)'
      OBVIOUS
    <3>1. PICK i \in 1 .. Len(q) : x = q[i]
      BY DEF Q
    <3> HIDE DEF e
    <3>0. i # 1
      BY <1>2, <3>1
    <3> DEFINE j == i - 1
    <3>2. j \in 1 .. Len(q) - 1 /\ i = j + 1
      BY <1>4, <3>0
    <3> HIDE DEF j
    <3>3. x = chan'[s][j] /\ j \in 1 .. Len(chan'[s])
      BY <1>4, <3>1, <3>2
    <3> QED BY <3>3 DEF Q
  <2> QED BY <2>1, <2>2
<1>7. <<k, Arg(s)>> \in Q(s)
  BY <1>2, <1>4 DEF Q
<1>8. \A x \in Q(s)' : \E i \in 2 .. Len(q) : x = q[i]
  <2> SUFFICES ASSUME NEW x \in Q(s)' PROVE \E i \in 2 .. Len(q) : x = q[i]
    OBVIOUS
  <2>1. PICK i \in 1 .. Len(q) - 1 : x = chan'[s][i]
    BY <1>4 DEF Q
  <2>2. x = q[i + 1] /\ i + 1 \in 2 .. Len(q)
    BY <1>4, <2>1
  <2> QED BY <2>2
<1>9. k # "REGISTER_OBJECT" => ~Has(s, k)'
  BY <1>5, <1>8 DEF Has
<1>10. k = "FINALIZE_REGISTRATIONS" => ~Has(s, "REGISTER_OBJECT")
  <2> SUFFICES ASSUME k = "FINALIZE_REGISTRATIONS", NEW x \in Q(s), x[1] = "REGISTER_OBJECT"
               PROVE  FALSE
    BY DEF Has
  <2>1. PICK i \in 1 .. Len(q) : x = q[i]
    BY DEF Q
  <2>2. q[1][1] = k
    BY <1>2
  <2>3. i # 1 /\ 1 < i /\ 1 \in 1 .. Len(q)
    BY <1>4, <2>1, <2>2
  <2> QED BY <2>1, <2>2, <2>3 DEF Ordered
<1>11. \A t \in Sims \ {s} : chan'[t] = chan[t] /\ Q(t)' = Q(t)
  BY <1>3 DEF Q
<1>12. Distinct(chan'[s])
  <2>1. Distinct(q)
    OBVIOUS
  <2>2. \A i \in 1 .. Len(chan'[s]) : i + 1 \in 1 .. Len(q) /\ chan'[s][i] = q[i + 1]
    BY <1>4
  <2> HIDE DEF q
  <2> QED BY <2>1, <2>2, <1>4 DEF Distinct
<1>13. Ordered(chan'[s])
  <2>1. Ordered(q)
    OBVIOUS
  <2>2. \A i \in 1 .. Len(chan'[s]) : i + 1 \in 1 .. Len(q) /\ chan'[s][i] = q[i + 1]
    BY <1>4
  <2> HIDE DEF q
  <2> QED BY SMTT(30), <2>1, <2>2, <1>4 DEF Ordered
<1> QED BY <1>2, <1>3, <1>6, <1>7, <1>9, <1>10, <1>11, <1>12, <1>13

-----------------------------------------------------------------------------
(* The invariant.                                                          *)

\* The registrations of s the broker has handled.
Handled(s) == {o \in interfaces[s] : <<"REGISTER_OBJECT", o>> \notin Q(s)}
\* It says that it is the network simulator.
AsNet(s) == s = NetSim \/ config[s] = "type"

\* What a request in the queue says of its sender.
QueueOf(s) ==
  /\ Distinct(chan[s]) /\ Ordered(chan[s])
  /\ pc[s] = "start" => Q(s) = {}
  /\ Has(s, "HELLO") => s \notin newConnections /\ config[s] # "parameters"
  /\ \A e \in Q(s) : /\ e[1] = "HELLO" => (e[2] = "netsim" <=> AsNet(s))
                     /\ e[1] = "REGISTER_OBJECT" => e[2] \in interfaces[s]
  /\ Has(s, "FINALIZE_REGISTRATIONS") =>
       /\ s \notin finalized
       /\ pc[s] \notin {"start", "hello", "registering"}
       /\ interfaces[s] = Names[s]
       /\ config[s] \notin {"parameters", "algorithm"}
  /\ Has(s, "CALL") => /\ proposals[s] = None
                       /\ (pc[s] = "calling" /\ rep[s] = None) \/ Gone(s)
  /\ Has(s, "FINISHED") \/ Has(s, "NO_CONTEXT") \/ s \in finished => Gone(s)

QueueInv == \A s \in Sims : QueueOf(s)

\* It has asked to go on.
Begun(s) == Has(s, "FINALIZE_REGISTRATIONS") \/ Has(s, "CALL")

\* Nothing begins before all have said hello, one of them as the network
\* simulator.
HelloInv ==
  /\ newConnections # Sims => \A s \in Sims :
       /\ pc[s] \in {"start", "hello"} \cup Ended
       /\ rep[s] = None
       /\ s \notin finalized /\ ~Begun(s)
  /\ \A s \in newConnections : pc[s] # "start" /\ config[s] # "parameters"
  /\ broker = "up" => \A s \in newConnections : AsNet(s) => newNetSimID = s
  /\ newNetSimID # None => newNetSimID \in newConnections /\ AsNet(newNetSimID)
  /\ (\E s \in Sims : pc[s] \in Passed \/ rep[s] # None \/ Begun(s)) =>
       \A s \in Sims : config[s] # "type"
  /\ \A s \in Sims :
       /\ pc[s] = "hello" => config[s] # "parameters"
       /\ pc[s] \in Passed => config[s] \notin {"parameters", "algorithm"}

\* The broker knows the objects whose registration is not queued any more.
OwnersInv ==
  /\ \A s \in Sims : /\ interfaces[s] \subseteq Names[s]
                     /\ pc[s] \in {"start", "hello"} => interfaces[s] = {}
  /\ \A o \in Objects : objToID[o] \in Ticks \cup {None}
  /\ \A s \in Ticks : \A o \in Objects : objToID[o] = s <=> o \in Handled(s)
  /\ netSimObjCount = Cardinality(Handled(NetSim))

\* The run begins when all have finalized their registrations.
FinalInv ==
  /\ \A s \in finalized : /\ pc[s] \notin {"start", "hello", "registering"}
                          /\ config[s] \notin {"parameters", "algorithm"}
                          /\ Handled(s) = Names[s] /\ interfaces[s] = Names[s]
  /\ finalized # Sims => \A s \in Sims :
       /\ pc[s] \notin InRun
       /\ rep[s] # None => pc[s] \in {"hello"} \cup Ended
  /\ \A s \in Sims :
       /\ rep[s] # None => pc[s] \in Waits \cup Ended
       /\ pc[s] = "finalizing" /\ rep[s] # None =>
            rep[s] = Cardinality(Names[NetSim])
       /\ pc[s] \in InRun => count[s] = Cardinality(Names[NetSim])
       /\ proposals[s] # None => (pc[s] = "calling" /\ rep[s] = None) \/ Gone(s)

\* Without a signal the first to end is one that stops in its run, and it
\* is missing in the collective the others wait in.
EndInv ==
  /\ \A m \in Msgs : mail[m] = "routing" => finalized = Sims
  /\ signals = {} =>
       /\ \A s \in Sims :
            /\ ~Has(s, "NO_CONTEXT") /\ pc[s] # "interrupted"
            /\ Has(s, "FINISHED") \/ s \in finished => pc[s] = "stopped"
            /\ pub[s] = "FINISHED" => \E t \in Sims : pc[t] = "stopped"
       /\ (\E s \in Sims : pc[s] = "stopped") =>
            /\ finalized = Sims
            /\ \E s \in Sims : /\ pc[s] = "stopped"
                               /\ proposals[s] = None /\ ~Has(s, "CALL")

\* Nor does anything fail, if there is one network simulator.
CleanInv ==
  signals = {} /\ (\A s \in Sims : config[s] # "type") =>
    /\ broker # "died"
    /\ \A s \in Sims : pc[s] # "failed" /\ (pub[s] = "DIE" => Gone(s))

IInv == TypeInv /\ QueueInv /\ HelloInv /\ OwnersInv /\ FinalInv /\ EndInv /\ CleanInv

-----------------------------------------------------------------------------
(* Types.                                                                  *)

\* What the clients send.
LEMMA TypeSend ==
  ASSUME TypeInv, NEW s \in Sims, SimStep(s) \/ Interrupt(s)
  PROVE  TypeInv'
<1> USE DEF TypeInv, Places, Ended, Goto, TakeReply, Gone
<1>1. /\ Names \in [Sims -> SUBSET Objects] /\ Sims \subseteq Args /\ Objects \subseteq Args
      /\ {"sim", "netsim", Zero, Time, Infinity} \subseteq Args
  BY SessionAssumption DEF Args
<1>2. CASE ConfigFails(s) \/ HelloDone(s) \/ FinalizeDone(s) \/ CallDone(s) \/ TakeDie(s)
  BY <1>2 DEF ConfigFails, HelloDone, FinalizeDone, CallDone, TakeDie, brokerVars, regVars
<1>3. CASE Hello(s)
  <2>1. chan' \in [Sims -> Seq(Requests)]
    BY <1>1, <1>3, SendQ DEF Hello, Kind
  <2> QED BY <1>3, <2>1 DEF Hello, brokerVars, regVars
<1>4. CASE RegisterObject(s)
  <2>1. PICK o \in Names[s] \ interfaces[s] :
          /\ interfaces' = [interfaces EXCEPT ![s] = @ \cup {o}]
          /\ Send(s, "REGISTER_OBJECT", o)
    BY <1>4 DEF RegisterObject
  <2>2. o \in Objects
    BY <1>1
  <2>3. chan' \in [Sims -> Seq(Requests)]
    BY <1>1, <2>1, <2>2, SendQ DEF Kind
  <2> QED BY <1>4, <2>1, <2>2, <2>3 DEF RegisterObject, brokerVars, regVars
<1>5. CASE FinalizeRegistrations(s)
  <2>1. chan' \in [Sims -> Seq(Requests)]
    BY <1>1, <1>5, SendQ DEF FinalizeRegistrations, Kind
  <2> QED BY <1>5, <2>1 DEF FinalizeRegistrations, brokerVars, regVars
<1>6. CASE Call(s)
  <2>1. PICK v \in Proposes(s) : Send(s, "CALL", v)
    BY <1>6 DEF Call
  <2>2. v \in Args
    BY <1>1 DEF Proposes
  <2>3. chan' \in [Sims -> Seq(Requests)]
    BY <2>1, <2>2, SendQ DEF Kind
  <2>4. DOMAIN mail' = Msgs
    BY <1>6 DEF Call
  <2> QED BY <1>6, <2>3, <2>4 DEF Call, brokerVars, regVars
<1>7. CASE StopIntegrator(s) \/ TakeFinished(s) \/ Interrupt(s)
  <2>1. PICK k \in {"FINISHED", "NO_CONTEXT"} : Send(s, k, s)
    BY <1>7 DEF StopIntegrator, TakeFinished, Interrupt
  <2>2. chan' \in [Sims -> Seq(Requests)]
    <3> HIDE DEF TypeInv, Places, Ended, Goto, TakeReply, Gone
    <3>1. k \in Kind /\ s \in Args
      BY <1>1 DEF Kind
    <3> QED BY <2>1, <3>1, SendQ
  <2> QED BY <1>7, <2>2 DEF StopIntegrator, TakeFinished, Interrupt, brokerVars, regVars
<1> QED BY <1>2, <1>3, <1>4, <1>5, <1>6, <1>7 DEF SimStep

\* What the broker does to the queues, the same for all handlers.
Handler(s, k) ==
  \/ k = "HELLO" /\ HelloHandler(s)
  \/ k = "REGISTER_OBJECT" /\ RegisterHandler(s)
  \/ k = "FINALIZE_REGISTRATIONS" /\ FinalizeHandler(s)
  \/ k = "CALL" /\ CallHandler(s)
  \/ k = "FINISHED" /\ FinishedHandler(s)
  \/ k = "NO_CONTEXT" /\ NoContextHandler(s)

LEMMA HandlerQ ==
  ASSUME TypeInv, QueueInv, NEW s \in Sims, BrokerStep(s)
  PROVE  \E k \in Kind : Handler(s, k) /\ Take(s, k)
BY DEF BrokerStep, Handler, Kind, HelloHandler, RegisterHandler, FinalizeHandler,
       CallHandler, FinishedHandler, NoContextHandler

LEMMA ReplyDomain ==
  ASSUME NEW v, ReplyAll(v)
  PROVE  DOMAIN rep' = Sims
BY DEF ReplyAll

LEMMA TypeHandle ==
  ASSUME TypeInv, QueueInv, NEW s \in Sims, BrokerStep(s)
  PROVE  TypeInv'
<1> USE DEF TypeInv
<1>1. chan' \in [Sims -> Seq(Requests)]
  BY HandlerQ, TakeQ DEF QueueInv, QueueOf
<1>2. DOMAIN pub' = Sims
  BY DEF BrokerStep, HelloHandler, RegisterHandler, FinalizeHandler, CallHandler,
         FinishedHandler, NoContextHandler, Death, Publish
<1>3. CASE HelloHandler(s)
  BY <1>1, <1>2, <1>3, ReplyDomain DEF HelloHandler, simVars
<1>4. CASE RegisterHandler(s)
  <2>1. objToID' \in [Objects -> Sims \cup {None}]
    BY <1>4 DEF RegisterHandler
  <2>2. netSimObjCount' \in Nat
    BY <1>4 DEF RegisterHandler
  <2>3. UNCHANGED <<simVars, newConnections, finalized, finished, proposals, rep, mail>>
    BY <1>4 DEF RegisterHandler
  <2> QED BY <1>1, <1>2, <2>1, <2>2, <2>3 DEF simVars
<1>5. CASE FinalizeHandler(s)
  BY <1>1, <1>2, <1>5, ReplyDomain DEF FinalizeHandler, simVars
<1>6. CASE CallHandler(s)
  BY <1>1, <1>2, <1>6, ReplyDomain DEF CallHandler, simVars, regVars
<1>7. CASE FinishedHandler(s) \/ NoContextHandler(s)
  BY <1>1, <1>2, <1>7 DEF FinishedHandler, NoContextHandler, simVars, regVars
<1> QED BY <1>3, <1>4, <1>5, <1>6, <1>7 DEF BrokerStep

LEMMA TypeOther ==
  ASSUME TypeInv, (\E m \in Msgs : Forward(m)) \/ InterruptBroker \/ UNCHANGED vars
  PROVE  TypeInv'
BY DEF TypeInv, Forward, InterruptBroker, Death, Publish, vars, simVars, brokerVars, regVars

-----------------------------------------------------------------------------
(* The queues.                                                             *)

LEMMA QueueSame ==
  ASSUME NEW t \in Sims, QueueOf(t),
         chan'[t] = chan[t], pc'[t] = pc[t], rep'[t] = rep[t],
         interfaces'[t] = interfaces[t], proposals'[t] = proposals[t],
         t \in newConnections' => t \in newConnections,
         t \in finalized' => t \in finalized,
         t \in finished' => t \in finished,
         config' = config
  PROVE  QueueOf(t)'
<1>1. Q(t)' = Q(t)
  BY DEF Q
<1> QED BY <1>1 DEF QueueOf, Has, AsNet, Gone

LEMMA QueueSend ==
  ASSUME TypeInv, QueueInv, HelloInv, FinalInv, NEW s \in Sims, SimStep(s) \/ Interrupt(s)
  PROVE  QueueInv'
<1> USE DEF TypeInv, Places, Ended, Gone, Waits
<1>1. /\ Names \in [Sims -> SUBSET Objects] /\ Sims \subseteq Args /\ Objects \subseteq Args
      /\ {"sim", "netsim", Zero, Time, Infinity} \subseteq Args
  BY SessionAssumption DEF Args
<1>2. /\ QueueOf(s) /\ \A t \in Sims : QueueOf(t)
      /\ config' = config /\ UNCHANGED <<newConnections, finalized, finished, proposals>>
  BY DEF QueueInv, SimStep, ConfigFails, Hello, HelloDone, RegisterObject,
         FinalizeRegistrations, FinalizeDone, Call, CallDone, StopIntegrator,
         TakeFinished, TakeDie, Interrupt, brokerVars, regVars
<1>3. \A t \in Sims \ {s} : pc'[t] = pc[t] /\ rep'[t] = rep[t] /\ interfaces'[t] = interfaces[t]
  BY DEF SimStep, ConfigFails, Hello, HelloDone, RegisterObject,
         FinalizeRegistrations, FinalizeDone, Call, CallDone, StopIntegrator,
         TakeFinished, TakeDie, Interrupt, Goto, TakeReply
<1>4. ASSUME \A t \in Sims \ {s} : chan'[t] = chan[t], QueueOf(s)'
      PROVE  QueueInv'
  BY <1>2, <1>3, <1>4, QueueSame DEF QueueInv
<1>5. CASE ConfigFails(s) \/ HelloDone(s) \/ FinalizeDone(s) \/ CallDone(s) \/ TakeDie(s)
  <2>1. chan' = chan /\ Q(s)' = Q(s) /\ interfaces' = interfaces
    BY <1>5 DEF ConfigFails, HelloDone, FinalizeDone, CallDone, TakeDie, Q
  <2>2. QueueOf(s)'
    BY <1>2, <1>5, <2>1
    DEF ConfigFails, HelloDone, FinalizeDone, CallDone, TakeDie, Goto, TakeReply,
        QueueOf, Has, AsNet
  <2> QED BY <1>4, <2>1, <2>2
<1>6. CASE Hello(s)
  <2> DEFINE a == IF s = NetSim \/ config[s] = "type" THEN "netsim" ELSE "sim"
  <2>1. Send(s, "HELLO", a) /\ pc[s] = "start" /\ config[s] # "parameters"
        /\ pc'[s] = "hello" /\ a \in Args /\ rep' = rep /\ interfaces' = interfaces
    BY <1>1, <1>6 DEF Hello, Goto
  <2>2. Q(s) = {} /\ s \notin newConnections
    BY <1>2, <2>1 DEF QueueOf, HelloInv
  <2>3. /\ Q(s)' = {<<"HELLO", a>>} /\ Distinct(chan'[s]) /\ Ordered(chan'[s])
        /\ \A t \in Sims \ {s} : chan'[t] = chan[t]
    <3>1. "HELLO" \in Kind /\ \A k \in Kind : ~Has(s, k)
      BY <2>2 DEF Kind, Has
    <3>2. "FINALIZE_REGISTRATIONS" \in Kind
      BY DEF Kind
    <3>3. Distinct(chan[s]) /\ Ordered(chan[s])
      BY <1>2 DEF QueueOf
    <3> HIDE DEF a
    <3>4. <<"HELLO", a>> \notin Q(s) /\ ~Has(s, "HELLO") /\ ~Has(s, "FINALIZE_REGISTRATIONS")
      BY <2>2, <3>1, <3>2
    <3>5. /\ Q(s)' = Q(s) \cup {<<"HELLO", a>>}
          /\ \A t \in Sims \ {s} : chan'[t] = chan[t]
      BY <2>1, <3>1, SendQ
    <3>6. Distinct(chan'[s])
      BY <2>1, <3>1, <3>3, <3>4, SendQ
    <3>7. Ordered(chan'[s])
      BY <2>1, <3>1, <3>3, <3>4, SendQ
    <3> QED BY <2>2, <3>5, <3>6, <3>7
  <2>4. a = "netsim" <=> AsNet(s)'
    BY <1>2 DEF AsNet
  <2> HIDE DEF a
  <2>5. QueueOf(s)'
    BY <1>2, <2>1, <2>2, <2>3, <2>4 DEF QueueOf, Has
  <2> QED BY <1>4, <2>3, <2>5
<1>7. CASE RegisterObject(s)
  <2>1. PICK o \in Names[s] \ interfaces[s] :
          /\ interfaces' = [interfaces EXCEPT ![s] = @ \cup {o}]
          /\ Send(s, "REGISTER_OBJECT", o)
    BY <1>7 DEF RegisterObject
  <2>2. o \in Args /\ pc[s] = "registering" /\ pc' = pc /\ rep' = rep
    BY <1>1, <1>7 DEF RegisterObject
  <2>3. <<"REGISTER_OBJECT", o>> \notin Q(s) /\ ~Has(s, "FINALIZE_REGISTRATIONS")
    BY <1>2, <2>1, <2>2 DEF QueueOf
  <2>4. /\ Q(s)' = Q(s) \cup {<<"REGISTER_OBJECT", o>>}
        /\ Distinct(chan'[s]) /\ Ordered(chan'[s])
        /\ \A t \in Sims \ {s} : chan'[t] = chan[t]
    BY <1>2, <2>1, <2>2, <2>3, SendQ DEF Kind, QueueOf
  <2>5. \A k : k # "REGISTER_OBJECT" => (Has(s, k)' <=> Has(s, k))
    BY <2>4 DEF Has
  <2>6. \A e \in Q(s)' : /\ e[1] = "HELLO" => (e[2] = "netsim" <=> AsNet(s)')
                         /\ e[1] = "REGISTER_OBJECT" => e[2] \in interfaces'[s]
    BY <1>2, <2>1, <2>4 DEF QueueOf, AsNet
  <2>7. QueueOf(s)'
    BY <1>2, <2>2, <2>3, <2>4, <2>5, <2>6 DEF QueueOf
  <2> QED BY <1>4, <2>4, <2>7
<1>8. CASE FinalizeRegistrations(s)
  <2>1. Send(s, "FINALIZE_REGISTRATIONS", s) /\ pc[s] = "registering" /\ s \in Args
        /\ pc'[s] = "finalizing" /\ interfaces[s] = Names[s] /\ UNCHANGED <<rep, interfaces>>
    BY <1>1, <1>8 DEF FinalizeRegistrations, Goto
  <2>2. ~Has(s, "FINALIZE_REGISTRATIONS") /\ s \notin finalized
        /\ config[s] \notin {"parameters", "algorithm"}
    BY <1>2, <2>1 DEF QueueOf, FinalInv, HelloInv, Passed
  <2>3. /\ Q(s)' = Q(s) \cup {<<"FINALIZE_REGISTRATIONS", s>>}
        /\ Distinct(chan'[s]) /\ Ordered(chan'[s])
        /\ \A t \in Sims \ {s} : chan'[t] = chan[t]
        /\ \A k : k # "FINALIZE_REGISTRATIONS" => (Has(s, k)' <=> Has(s, k))
    BY <1>2, <2>1, <2>2, SendNew DEF Kind, QueueOf
  <2>4. \A e \in Q(s)' : /\ e[1] = "HELLO" => (e[2] = "netsim" <=> AsNet(s)')
                         /\ e[1] = "REGISTER_OBJECT" => e[2] \in interfaces'[s]
    BY <1>2, <2>1, <2>3 DEF QueueOf, AsNet
  <2>5. /\ Has(s, "HELLO")' => Has(s, "HELLO")
        /\ ~Has(s, "CALL")' /\ ~Has(s, "FINISHED")' /\ ~Has(s, "NO_CONTEXT")'
        /\ s \notin finished'
    BY <1>2, <2>1, <2>3 DEF QueueOf
  <2>6. QueueOf(s)'
    BY <1>2, <2>1, <2>2, <2>3, <2>4, <2>5 DEF QueueOf
  <2> QED BY <1>4, <2>3, <2>6
<1>9. CASE Call(s)
  <2>1. PICK v \in Proposes(s) : Send(s, "CALL", v)
    BY <1>9 DEF Call
  <2>2. v \in Args /\ pc[s] = "run" /\ pc'[s] = "calling" /\ UNCHANGED <<rep, interfaces>>
    BY <1>1, <1>9 DEF Proposes, Call, Goto
  <2>3. ~Has(s, "CALL") /\ proposals[s] = None /\ rep[s] = None
    BY <1>2, <2>2 DEF QueueOf, FinalInv
  <2>4. /\ Q(s)' = Q(s) \cup {<<"CALL", v>>}
        /\ Distinct(chan'[s]) /\ Ordered(chan'[s])
        /\ \A t \in Sims \ {s} : chan'[t] = chan[t]
        /\ \A k : k # "CALL" => (Has(s, k)' <=> Has(s, k))
    BY <1>2, <2>1, <2>2, <2>3, SendNew DEF Kind, QueueOf
  <2>5. \A e \in Q(s)' : /\ e[1] = "HELLO" => (e[2] = "netsim" <=> AsNet(s)')
                         /\ e[1] = "REGISTER_OBJECT" => e[2] \in interfaces'[s]
    BY <1>2, <2>2, <2>4 DEF QueueOf, AsNet
  <2>6. /\ Has(s, "HELLO")' => Has(s, "HELLO")
        /\ Has(s, "FINALIZE_REGISTRATIONS")' => Has(s, "FINALIZE_REGISTRATIONS")
        /\ ~Has(s, "FINISHED")' /\ ~Has(s, "NO_CONTEXT")' /\ s \notin finished'
    BY <1>2, <2>2, <2>4 DEF QueueOf
  <2>7. QueueOf(s)'
    BY <1>2, <2>2, <2>3, <2>4, <2>5, <2>6 DEF QueueOf
  <2> QED BY <1>4, <2>4, <2>7
<1>10. CASE StopIntegrator(s) \/ TakeFinished(s) \/ Interrupt(s)
  <2>1. PICK k \in {"FINISHED", "NO_CONTEXT"} : Send(s, k, s)
    BY <1>10 DEF StopIntegrator, TakeFinished, Interrupt
  <2>2. /\ pc[s] \notin Ended /\ pc[s] # "start" /\ pc'[s] \in Ended
        /\ pc'[s] \notin {"start", "hello", "registering"}
        /\ s \in Args /\ UNCHANGED <<rep, interfaces>>
    BY <1>1, <1>10 DEF StopIntegrator, TakeFinished, Interrupt, Goto
  <2>3. ~Has(s, "FINISHED") /\ ~Has(s, "NO_CONTEXT")
    BY <1>2, <2>2 DEF QueueOf
  <2>4. /\ Q(s)' = Q(s) \cup {<<k, s>>}
        /\ Distinct(chan'[s]) /\ Ordered(chan'[s])
        /\ \A t \in Sims \ {s} : chan'[t] = chan[t]
        /\ \A j : j # k => (Has(s, j)' <=> Has(s, j))
    BY <1>2, <2>1, <2>2, <2>3, SendNew DEF Kind, QueueOf
  <2>5. \A e \in Q(s)' : /\ e[1] = "HELLO" => (e[2] = "netsim" <=> AsNet(s)')
                         /\ e[1] = "REGISTER_OBJECT" => e[2] \in interfaces'[s]
    BY <1>2, <2>2, <2>4 DEF QueueOf, AsNet
  <2>6. /\ Has(s, "HELLO")' => Has(s, "HELLO")
        /\ Has(s, "FINALIZE_REGISTRATIONS")' => Has(s, "FINALIZE_REGISTRATIONS")
        /\ Has(s, "CALL")' => Has(s, "CALL")
    BY <2>1, <2>4
  <2>7. QueueOf(s)'
    BY <1>2, <2>2, <2>4, <2>5, <2>6 DEF QueueOf
  <2> QED BY <1>4, <2>4, <2>7
<1> QED BY <1>5, <1>6, <1>7, <1>8, <1>9, <1>10 DEF SimStep

\* A queue that has only become shorter.
LEMMA QueueLess ==
  ASSUME NEW t \in Sims, QueueOf(t),
         Q(t)' \subseteq Q(t), Distinct(chan'[t]), Ordered(chan'[t]),
         UNCHANGED simVars,
         Has(t, "HELLO")' => t \notin newConnections',
         Has(t, "FINALIZE_REGISTRATIONS")' => t \notin finalized',
         Has(t, "CALL")' => proposals'[t] = None /\ (pc[t] = "calling" => rep'[t] = None),
         t \in finished' => Gone(t)
  PROVE  QueueOf(t)'
<1>1. \A k : Has(t, k)' => Has(t, k)
  BY DEF Has
<1>2. pc' = pc /\ interfaces' = interfaces /\ config' = config /\ Gone(t)' = Gone(t)
  BY DEF simVars, Gone
<1>3. Has(t, "CALL")' => (pc[t] = "calling" /\ rep[t] = None) \/ Gone(t)
  BY <1>1 DEF QueueOf
<1>4. \A e \in Q(t)' : /\ e[1] = "HELLO" => (e[2] = "netsim" <=> AsNet(t)')
                       /\ e[1] = "REGISTER_OBJECT" => e[2] \in interfaces'[t]
  BY <1>2 DEF QueueOf, AsNet
<1>5. Has(t, "FINISHED")' \/ Has(t, "NO_CONTEXT")' \/ t \in finished' => Gone(t)'
  BY <1>1, <1>2 DEF QueueOf
<1>6. Has(t, "CALL")' => /\ proposals'[t] = None
                         /\ (pc'[t] = "calling" /\ rep'[t] = None) \/ Gone(t)'
  BY <1>2, <1>3
<1>7. Has(t, "FINALIZE_REGISTRATIONS")' =>
         /\ t \notin finalized'
         /\ pc'[t] \notin {"start", "hello", "registering"}
         /\ interfaces'[t] = Names[t]
         /\ config'[t] \notin {"parameters", "algorithm"}
  BY <1>1, <1>2 DEF QueueOf
<1>8. Has(t, "HELLO")' => t \notin newConnections' /\ config'[t] # "parameters"
  BY <1>1, <1>2 DEF QueueOf
<1>9. pc'[t] = "start" => Q(t)' = {}
  BY <1>2 DEF QueueOf
<1> QED BY <1>4, <1>5, <1>6, <1>7, <1>8, <1>9 DEF QueueOf

\* Nobody is in the run while a simulator is still registering.
LEMMA NotInRun ==
  ASSUME TypeInv, HelloInv, FinalInv, newConnections # Sims \/ finalized # Sims
  PROVE  \A t \in Sims : pc[t] # "calling" /\ ~(pc[t] = "run")
BY DEF HelloInv, FinalInv, InRun, Ended

\* When the last proposal is in, nobody's is on its way.
LEMMA AllIn ==
  ASSUME TypeInv, QueueInv, FinalInv, NEW s \in Sims, CallHandler(s),
         ~Missing([proposals EXCEPT ![s] = Arg(s)])
  PROVE  /\ \A t \in Sims \ {s} : proposals[t] # None
         /\ \A t \in Sims : ~Has(t, "CALL")'
<1>1. Take(s, "CALL")
  BY DEF CallHandler
<1>2. \A t \in Sims \ {s} : proposals[t] # None
  BY DEF Missing, TypeInv
<1>3. /\ ~Has(s, "CALL")'
      /\ \A t \in Sims \ {s} : Q(t)' = Q(t)
  BY <1>1, TakeQ DEF Kind, QueueInv, QueueOf
<1>4. \A t \in Sims \ {s} : ~Has(t, "CALL")'
  BY <1>2, <1>3 DEF QueueInv, QueueOf, Has
<1> QED BY <1>2, <1>3, <1>4

LEMMA QueueHandle ==
  ASSUME TypeInv, QueueInv, HelloInv, FinalInv, NEW s \in Sims, BrokerStep(s)
  PROVE  QueueInv'
<1>1. PICK k \in Kind : Handler(s, k) /\ Take(s, k)
  BY HandlerQ
<1>2. /\ \A t \in Sims : QueueOf(t)
      /\ UNCHANGED simVars
  BY <1>1 DEF QueueInv, Handler, HelloHandler, RegisterHandler, FinalizeHandler,
              CallHandler, FinishedHandler, NoContextHandler
<1>3. /\ <<k, Arg(s)>> \in Q(s)
      /\ Q(s)' = Q(s) \ {<<k, Arg(s)>>}
      /\ k # "REGISTER_OBJECT" => ~Has(s, k)'
      /\ \A t \in Sims \ {s} : chan'[t] = chan[t] /\ Q(t)' = Q(t)
      /\ Distinct(chan'[s]) /\ Ordered(chan'[s])
  BY <1>1, <1>2, TakeQ DEF QueueOf
<1>4. \A t \in Sims : /\ Q(t)' \subseteq Q(t) /\ Distinct(chan'[t]) /\ Ordered(chan'[t])
                      /\ \A j : Has(t, j)' => Has(t, j)
  <2>1. \A t \in Sims : Q(t)' \subseteq Q(t) /\ Distinct(chan'[t]) /\ Ordered(chan'[t])
    BY <1>2, <1>3 DEF QueueOf
  <2> QED BY <2>1 DEF Has
<1>5. Has(s, k)
  <2>1. <<k, Arg(s)>>[1] = k
    OBVIOUS
  <2> QED BY <1>3, <2>1 DEF Has
<1> SUFFICES ASSUME NEW t \in Sims PROVE QueueOf(t)'
  BY DEF QueueInv
<1>6. /\ Has(t, "HELLO") => t \notin newConnections
      /\ Has(t, "FINALIZE_REGISTRATIONS") => t \notin finalized
      /\ Has(t, "CALL") => proposals[t] = None /\ (pc[t] = "calling" => rep[t] = None)
      /\ t \in finished => Gone(t)
  BY <1>2 DEF QueueOf, Gone, Ended
<1>7. CASE k = "HELLO"
  <2>1. /\ HelloHandler(s) /\ ~Has(s, "HELLO")'
    BY <1>1, <1>3, <1>7 DEF Handler
  <2>2. newConnections # Sims
    BY <1>2, <1>5, <1>7 DEF QueueOf
  <2>3. pc[t] # "calling"
    BY <2>2, NotInRun
  <2>4. /\ newConnections' = newConnections \cup {s}
        /\ finalized' = finalized /\ finished' = finished /\ proposals' = proposals
    BY <2>1 DEF HelloHandler
  <2> QED BY <1>2, <1>4, <1>6, <2>1, <2>3, <2>4, QueueLess
<1>8. CASE k = "REGISTER_OBJECT" \/ k = "NO_CONTEXT"
  <2>1. UNCHANGED <<newConnections, finalized, finished, proposals, rep>>
    BY <1>1, <1>8 DEF Handler, RegisterHandler, NoContextHandler, regVars
  <2> QED BY <1>2, <1>4, <1>6, <2>1, QueueLess
<1>9. CASE k = "FINALIZE_REGISTRATIONS"
  <2>1. FinalizeHandler(s) /\ ~Has(s, "FINALIZE_REGISTRATIONS")'
    BY <1>1, <1>3, <1>9 DEF Handler
  <2>2. finalized # Sims
    BY <1>2, <1>5, <1>9 DEF QueueOf
  <2>3. pc[t] # "calling"
    BY <2>2, NotInRun
  <2>4. /\ finalized' = finalized \cup {s}
        /\ newConnections' = newConnections /\ finished' = finished /\ proposals' = proposals
    BY <2>1 DEF FinalizeHandler
  <2> QED BY <1>2, <1>4, <1>6, <2>1, <2>3, <2>4, QueueLess
<1>10. CASE k = "CALL"
  <2>1. CallHandler(s) /\ ~Has(s, "CALL")'
    BY <1>1, <1>3, <1>10 DEF Handler
  <2>2. UNCHANGED <<newConnections, finalized, finished>>
    BY <2>1 DEF CallHandler, regVars
  <2>3. CASE ~Missing([proposals EXCEPT ![s] = Arg(s)])
    <3>1. ~Has(t, "CALL")'
      BY <2>1, <2>3, AllIn
    <3> QED BY <1>2, <1>4, <1>6, <2>2, <3>1, QueueLess
  <2>4. CASE Missing([proposals EXCEPT ![s] = Arg(s)])
    <3>1. rep' = rep /\ (t # s => proposals'[t] = proposals[t])
      BY <2>1, <2>4 DEF CallHandler, TypeInv
    <3> QED BY <1>2, <1>4, <1>6, <2>1, <2>2, <3>1, QueueLess
  <2> QED BY <2>3, <2>4
<1>11. CASE k = "FINISHED"
  <2>1. /\ UNCHANGED <<newConnections, finalized, proposals, rep>>
        /\ finished' = finished \cup {s}
    BY <1>1, <1>11 DEF Handler, FinishedHandler, regVars
  <2>2. Gone(s)
    BY <1>2, <1>5, <1>11 DEF QueueOf
  <2> QED BY <1>2, <1>4, <1>6, <2>1, <2>2, QueueLess
<1> QED BY <1>7, <1>8, <1>9, <1>10, <1>11 DEF Kind

LEMMA QueueOther ==
  ASSUME TypeInv, QueueInv, (\E m \in Msgs : Forward(m)) \/ InterruptBroker \/ UNCHANGED vars
  PROVE  QueueInv'
<1>1. UNCHANGED <<chan, config, pc, interfaces, rep, proposals, newConnections,
                  finalized, finished>>
  BY DEF Forward, InterruptBroker, vars, simVars, brokerVars, regVars
<1> QED BY <1>1, QueueSame DEF QueueInv

-----------------------------------------------------------------------------
(* The start.                                                              *)

\* Only one that is registering or running asks to go on.
LEMMA BegunSend ==
  ASSUME TypeInv, QueueInv, HelloInv, FinalInv, NEW s \in Sims, SimStep(s) \/ Interrupt(s)
  PROVE  \A t \in Sims : Begun(t)' => Begun(t) \/ (t = s /\ pc[s] \in {"registering", "run"})
<1>1. CASE ConfigFails(s) \/ HelloDone(s) \/ FinalizeDone(s) \/ CallDone(s) \/ TakeDie(s)
  <2>1. chan' = chan
    BY <1>1 DEF ConfigFails, HelloDone, FinalizeDone, CallDone, TakeDie
  <2> QED BY <2>1 DEF Begun, Has, Q
<1>2. CASE RegisterObject(s) \/ FinalizeRegistrations(s) \/ Call(s)
  <2>1. pc[s] \in {"registering", "run"} /\ \A t \in Sims \ {s} : chan'[t] = chan[t]
    BY <1>2 DEF RegisterObject, FinalizeRegistrations, Call, Send, TypeInv
  <2> QED BY <2>1 DEF Begun, Has, Q
<1>3. ASSUME NEW k \in {"HELLO", "FINISHED", "NO_CONTEXT"}, NEW a \in Args,
             Send(s, k, a), ~Has(s, k)
      PROVE  \A t \in Sims : Begun(t)' = Begun(t)
  <2>1. /\ \A j : j # k => (Has(s, j)' <=> Has(s, j))
        /\ \A t \in Sims \ {s} : Q(t)' = Q(t)
    BY <1>3, SendNew DEF Kind, QueueInv, QueueOf
  <2>2. \A t \in Sims \ {s} : Begun(t)' = Begun(t)
    BY <2>1 DEF Begun, Has
  <2>3. Begun(s)' = Begun(s)
    BY <1>3, <2>1 DEF Begun
  <2> QED BY <2>2, <2>3
<1>4. CASE Hello(s)
  <2>1. PICK a \in Args : Send(s, "HELLO", a)
    BY <1>4 DEF Hello, Args
  <2>2. ~Has(s, "HELLO")
    BY <1>4 DEF Hello, QueueInv, QueueOf, Has
  <2> QED BY <1>3, <2>1, <2>2
<1>5. CASE StopIntegrator(s) \/ TakeFinished(s) \/ Interrupt(s)
  <2>1. PICK k \in {"FINISHED", "NO_CONTEXT"} : Send(s, k, s)
    BY <1>5 DEF StopIntegrator, TakeFinished, Interrupt
  <2>2. pc[s] \notin Ended /\ s \in Args
    BY <1>5 DEF StopIntegrator, TakeFinished, Interrupt, Ended, Waits, Args
  <2>3. ~Has(s, k)
    BY <2>1, <2>2 DEF QueueInv, QueueOf, Gone
  <2> QED BY <1>3, <2>1, <2>2, <2>3
<1> QED BY <1>1, <1>2, <1>4, <1>5 DEF SimStep

LEMMA HelloSend ==
  ASSUME TypeInv, QueueInv, HelloInv, FinalInv, NEW s \in Sims, SimStep(s) \/ Interrupt(s)
  PROVE  HelloInv'
<1> USE DEF TypeInv, Places, Ended
<1>1. /\ UNCHANGED <<config, newConnections, newNetSimID, finalized, broker>>
      /\ \A t \in Sims \ {s} : pc'[t] = pc[t] /\ rep'[t] = rep[t]
      /\ rep'[s] # None => rep[s] # None
  BY DEF SimStep, ConfigFails, Hello, HelloDone, RegisterObject,
         FinalizeRegistrations, FinalizeDone, Call, CallDone, StopIntegrator,
         TakeFinished, TakeDie, Interrupt, Goto, TakeReply, brokerVars, regVars
<1>2. \A t : AsNet(t)' = AsNet(t)
  BY <1>1 DEF AsNet
<1>3. /\ pc'[s] \in Passed => pc[s] \in Passed \/ rep[s] # None
      /\ pc'[s] \in Passed =>
           (pc[s] \in Passed \/ (pc[s] = "hello" /\ config[s] # "algorithm"))
      /\ pc'[s] # "start"
      /\ pc'[s] = "hello" => config[s] # "parameters"
  BY DEF SimStep, ConfigFails, Hello, HelloDone, RegisterObject,
         FinalizeRegistrations, FinalizeDone, Call, CallDone, StopIntegrator,
         TakeFinished, TakeDie, Interrupt, Goto, TakeReply, Known, Passed
<1>4. \A t \in Sims : Begun(t)' => Begun(t) \/ pc[t] \in Passed
  BY BegunSend DEF Passed
<1>5. (\E t \in Sims : pc'[t] \in Passed \/ rep'[t] # None \/ Begun(t)') =>
        \A t \in Sims : config[t] # "type"
  BY <1>1, <1>3, <1>4 DEF HelloInv
<1>6. newConnections # Sims => \A t \in Sims :
        /\ pc'[t] \in {"start", "hello"} \cup Ended
        /\ rep'[t] = None /\ t \notin finalized /\ ~Begun(t)'
  <2> SUFFICES ASSUME newConnections # Sims, NEW t \in Sims
               PROVE  /\ pc'[t] \in {"start", "hello"} \cup Ended
                      /\ rep'[t] = None /\ t \notin finalized /\ ~Begun(t)'
    OBVIOUS
  <2>1. /\ pc[t] \in {"start", "hello"} \cup Ended /\ pc[s] \in {"start", "hello"} \cup Ended
        /\ rep[t] = None /\ rep[s] = None /\ t \notin finalized /\ ~Begun(t)
    BY DEF HelloInv
  <2>2. pc'[s] \in {"start", "hello"} \cup Ended
    BY <1>3, <2>1, TypeSend DEF Passed
  <2>3. ~Begun(t)'
    BY <1>4, <2>1 DEF Passed
  <2> QED BY <1>1, <2>1, <2>2, <2>3
<1>7. \A t \in Sims : /\ pc'[t] = "hello" => config[t] # "parameters"
                      /\ pc'[t] \in Passed => config[t] \notin {"parameters", "algorithm"}
  BY <1>1, <1>3 DEF HelloInv
<1>8. \A t \in newConnections : pc'[t] # "start" /\ config[t] # "parameters"
  BY <1>1, <1>3 DEF HelloInv
<1>9. /\ broker = "up" => \A t \in newConnections : AsNet(t) => newNetSimID = t
      /\ newNetSimID # None => newNetSimID \in newConnections /\ AsNet(newNetSimID)
  BY DEF HelloInv
<1> QED BY <1>1, <1>2, <1>5, <1>6, <1>7, <1>8, <1>9 DEF HelloInv

LEMMA HelloHandle ==
  ASSUME TypeInv, QueueInv, HelloInv, FinalInv, NEW s \in Sims, BrokerStep(s)
  PROVE  HelloInv'
<1>1. PICK k \in Kind : Handler(s, k) /\ Take(s, k)
  BY HandlerQ
<1>2. broker = "up" /\ UNCHANGED <<config, pc, interfaces>>
  BY <1>1 DEF Take, Handler, HelloHandler, RegisterHandler, FinalizeHandler,
              CallHandler, FinishedHandler, NoContextHandler, simVars
<1>3. /\ <<k, Arg(s)>> \in Q(s)
      /\ \A t \in Sims : Q(t)' \subseteq Q(t)
  BY <1>1, TakeQ DEF QueueInv, QueueOf
<1>4. Has(s, k) /\ \A t \in Sims : \A j : Has(t, j)' => Has(t, j)
  <2>1. <<k, Arg(s)>>[1] = k
    OBVIOUS
  <2> QED BY <1>3, <2>1 DEF Has
<1>9. \A t \in Sims : Begun(t)' => Begun(t)
  BY <1>4 DEF Begun
<1>5. \A t : AsNet(t)' = AsNet(t)
  BY <1>2 DEF AsNet
<1>6. CASE k = "HELLO"
  <2>1. /\ HelloHandler(s) /\ s \notin newConnections /\ config[s] # "parameters"
        /\ newConnections # Sims
        /\ (Arg(s) = "netsim" <=> AsNet(s))
        /\ pc[s] # "start"
    <3>1. <<k, Arg(s)>>[1] = "HELLO" /\ <<k, Arg(s)>>[2] = Arg(s)
      BY <1>6
    <3>2. Q(s) # {}
      BY <1>3
    <3> QED BY <1>1, <1>3, <1>4, <1>6, <3>1, <3>2 DEF QueueInv, QueueOf, Handler
  <2>2. /\ newConnections' = newConnections \cup {s}
        /\ finalized' = finalized
        /\ \A t \in Sims : rep[t] = None /\ pc[t] \in {"start", "hello"} \cup Ended
                           /\ t \notin finalized /\ ~Begun(t)
    BY <2>1 DEF HelloHandler, HelloInv
  <2>3. CASE SecondNetSim(s)
    <3>1. broker' = "died" /\ newNetSimID' = newNetSimID /\ rep' = rep
      BY <2>1, <2>3 DEF HelloHandler, Death
    <3> QED BY <1>2, <1>9, <1>5, <2>1, <2>2, <3>1 DEF HelloInv
  <2>4. CASE ~SecondNetSim(s)
    <3>1. /\ newNetSimID' = IF AsNet(s) THEN s ELSE newNetSimID
          /\ AsNet(s) => newNetSimID = None
      BY <2>1, <2>4 DEF HelloHandler, SecondNetSim
    <3>2. /\ \A t \in newConnections' : AsNet(t) => newNetSimID' = t
          /\ newNetSimID' # None => newNetSimID' \in newConnections' /\ AsNet(newNetSimID')
      BY <1>2, <2>2, <3>1, SessionAssumption DEF HelloInv, TypeInv
    <3>3. newConnections' # Sims => rep' = rep
      BY <2>1, <2>4 DEF HelloHandler
    <3>4. newConnections' = Sims => \A t \in Sims : config[t] # "type"
      BY <3>2, SessionAssumption DEF AsNet, Sims, TypeInv
    <3>5. (\E t \in Sims : pc'[t] \in Passed \/ rep'[t] # None) =>
            \A t \in Sims : config[t] # "type"
      BY <1>2, <1>9, <2>2, <3>3, <3>4 DEF HelloInv
    <3> QED BY <1>2, <1>9, <1>5, <2>1, <2>2, <3>2, <3>3, <3>5 DEF HelloInv
  <2> QED BY <2>3, <2>4
<1>7. CASE k \in {"FINALIZE_REGISTRATIONS", "CALL"}
  <2>1. newConnections = Sims /\ \A t \in Sims : config[t] # "type"
    BY <1>4, <1>7 DEF HelloInv, Begun
  <2>2. UNCHANGED <<newConnections, newNetSimID>>
    BY <1>1, <1>7 DEF Handler, FinalizeHandler, CallHandler, regVars
  <2> QED BY <1>2, <1>5, <2>1, <2>2 DEF HelloInv
<1>8. CASE k \in {"REGISTER_OBJECT", "FINISHED", "NO_CONTEXT"}
  <2>1. UNCHANGED <<newConnections, newNetSimID, rep, finalized>>
    BY <1>1, <1>8 DEF Handler, RegisterHandler, FinishedHandler, NoContextHandler, regVars
  <2> QED BY <1>2, <1>9, <1>5, <2>1 DEF HelloInv
<1> QED BY <1>6, <1>7, <1>8 DEF Kind

LEMMA HelloOther ==
  ASSUME TypeInv, HelloInv, (\E m \in Msgs : Forward(m)) \/ InterruptBroker \/ UNCHANGED vars
  PROVE  HelloInv'
<1>1. /\ UNCHANGED <<chan, config, pc, rep, newConnections, newNetSimID, finalized>>
      /\ broker' = "up" => broker = "up"
  BY DEF Forward, InterruptBroker, Death, vars, simVars, brokerVars, regVars
<1>2. \A t \in Sims : Q(t)' = Q(t)
  BY <1>1 DEF Q
<1> QED BY <1>1, <1>2 DEF HelloInv, Begun, Has, AsNet

-----------------------------------------------------------------------------
(* The registrations.                                                      *)

LEMMA HandledSend ==
  ASSUME TypeInv, QueueInv, NEW s \in Sims, SimStep(s) \/ Interrupt(s)
  PROVE  \A t \in Sims : Handled(t)' = Handled(t)
<1>1. CASE ConfigFails(s) \/ HelloDone(s) \/ FinalizeDone(s) \/ CallDone(s) \/ TakeDie(s)
  <2>1. chan' = chan /\ interfaces' = interfaces
    BY <1>1 DEF ConfigFails, HelloDone, FinalizeDone, CallDone, TakeDie
  <2> QED BY <2>1 DEF Handled, Q
<1>2. CASE RegisterObject(s)
  <2>1. PICK o \in Names[s] \ interfaces[s] :
          /\ interfaces' = [interfaces EXCEPT ![s] = @ \cup {o}]
          /\ Send(s, "REGISTER_OBJECT", o)
    BY <1>2 DEF RegisterObject
  <2>2. o \in Args
    BY SessionAssumption DEF Args
  <2>3. /\ Q(s)' = Q(s) \cup {<<"REGISTER_OBJECT", o>>}
        /\ \A t \in Sims \ {s} : Q(t)' = Q(t)
    BY <2>1, <2>2, SendQ DEF Kind
  <2>4. Handled(s)' = Handled(s)
    <3>1. \A p : <<"REGISTER_OBJECT", p>> \in Q(s)' <=> <<"REGISTER_OBJECT", p>> \in Q(s) \/ p = o
      BY <2>3
    <3>2. interfaces'[s] = interfaces[s] \cup {o} /\ o \notin interfaces[s]
      BY <2>1 DEF TypeInv
    <3> QED BY <3>1, <3>2 DEF Handled
  <2>5. \A t \in Sims \ {s} : Handled(t)' = Handled(t)
    BY <2>1, <2>3 DEF Handled, TypeInv
  <2> QED BY <2>4, <2>5
<1>3. CASE Hello(s) \/ FinalizeRegistrations(s) \/ Call(s) \/ StopIntegrator(s)
           \/ TakeFinished(s) \/ Interrupt(s)
  <2>1. PICK k \in Kind \ {"REGISTER_OBJECT"}, a \in Args : Send(s, k, a)
    BY <1>3 DEF Hello, FinalizeRegistrations, Call, Proposes, StopIntegrator,
                TakeFinished, Interrupt, Args, Kind
  <2>2. interfaces' = interfaces
    BY <1>3 DEF Hello, FinalizeRegistrations, Call, StopIntegrator, TakeFinished, Interrupt
  <2>3. /\ Q(s)' = Q(s) \cup {<<k, a>>}
        /\ \A t \in Sims \ {s} : Q(t)' = Q(t)
    BY <2>1, SendQ
  <2>4. \A t \in Sims, p \in Objects :
          <<"REGISTER_OBJECT", p>> \in Q(t)' <=> <<"REGISTER_OBJECT", p>> \in Q(t)
    BY <2>3
  <2> QED BY <2>2, <2>4 DEF Handled, TypeInv
<1> QED BY <1>1, <1>2, <1>3 DEF SimStep

\* Where the steps of a simulator lead.
LEMMA Ways ==
  ASSUME TypeInv, NEW s \in Sims, SimStep(s) \/ Interrupt(s)
  PROVE  /\ \A t \in Sims \ {s} : /\ pc'[t] = pc[t] /\ rep'[t] = rep[t]
                                  /\ interfaces'[t] = interfaces[t] /\ count'[t] = count[t]
         /\ UNCHANGED <<config, broker, newConnections, newNetSimID, objToID,
                        netSimObjCount, finalized, finished, proposals, pub>>
         /\ pc[s] \notin Ended
         /\ \/ /\ pc'[s] \in Ended \cup {"registering"}
               /\ rep'[s] = None \/ rep'[s] = rep[s]
               /\ pc'[s] = "registering" =>
                    pc[s] = "registering" \/ (pc[s] = "hello" /\ rep'[s] = None)
               /\ pc[s] # "registering" => interfaces'[s] = interfaces[s]
            \/ /\ pc[s] = "start" /\ pc'[s] = "hello"
               /\ UNCHANGED <<rep, interfaces>>
            \/ /\ pc[s] = "registering" /\ pc'[s] = "finalizing"
               /\ interfaces[s] = Names[s] /\ UNCHANGED <<rep, interfaces>>
            \/ /\ pc[s] = "finalizing" /\ pc'[s] = "run"
               /\ rep[s] # None /\ rep'[s] = None /\ count'[s] = rep[s]
               /\ UNCHANGED interfaces
            \/ /\ pc[s] = "run" /\ pc'[s] = "calling"
               /\ UNCHANGED <<rep, count, interfaces>>
            \/ /\ pc[s] = "calling" /\ pc'[s] = "run"
               /\ rep[s] # None /\ rep'[s] = None /\ UNCHANGED <<count, interfaces>>
         /\ interfaces'[s] \subseteq interfaces[s] \cup Names[s]
<1> USE DEF TypeInv, Goto, TakeReply, Ended, Waits
<1>1. CASE ConfigFails(s)
  BY <1>1 DEF ConfigFails, brokerVars, regVars
<1>2. CASE Hello(s)
  BY <1>2 DEF Hello, brokerVars, regVars
<1>3. CASE HelloDone(s)
  BY <1>3 DEF HelloDone, brokerVars, regVars
<1>4. CASE RegisterObject(s)
  BY <1>4 DEF RegisterObject, brokerVars, regVars
<1>5. CASE FinalizeRegistrations(s)
  BY <1>5 DEF FinalizeRegistrations, brokerVars, regVars
<1>6. CASE FinalizeDone(s)
  BY <1>6 DEF FinalizeDone, brokerVars, regVars
<1>7. CASE Call(s)
  BY <1>7 DEF Call, brokerVars, regVars
<1>8. CASE CallDone(s)
  BY <1>8 DEF CallDone, brokerVars, regVars
<1>9. CASE StopIntegrator(s) \/ TakeFinished(s) \/ TakeDie(s) \/ Interrupt(s)
  BY <1>9 DEF StopIntegrator, TakeFinished, TakeDie, Interrupt, brokerVars, regVars
<1> QED BY <1>1, <1>2, <1>3, <1>4, <1>5, <1>6, <1>7, <1>8, <1>9 DEF SimStep

LEMMA OwnersSend ==
  ASSUME TypeInv, QueueInv, OwnersInv, NEW s \in Sims, SimStep(s) \/ Interrupt(s)
  PROVE  OwnersInv'
<1>1. /\ UNCHANGED <<objToID, netSimObjCount>>
      /\ \A t \in Sims \ {s} : pc'[t] = pc[t] /\ interfaces'[t] = interfaces[t]
      /\ interfaces'[s] \subseteq interfaces[s] \cup Names[s]
      /\ pc'[s] \in {"start", "hello"} => pc[s] \in {"start", "hello"} /\ interfaces' = interfaces
  BY Ways DEF Ended
<1>2. NetSim \in Sims /\ Ticks \subseteq Sims
  BY DEF Sims
<1>3. \A t \in Sims : Handled(t)' = Handled(t)
  BY HandledSend
<1>4. \A t \in Sims : /\ interfaces'[t] \subseteq Names[t]
                      /\ pc'[t] \in {"start", "hello"} => interfaces'[t] = {}
  BY <1>1 DEF OwnersInv
<1> QED BY <1>1, <1>2, <1>3, <1>4 DEF OwnersInv

\* What a handler changes of what has been handled.
LEMMA HandledHandle ==
  ASSUME TypeInv, QueueInv, NEW s \in Sims, NEW k \in Kind, Take(s, k), UNCHANGED simVars
  PROVE  /\ \A t \in Sims \ {s} : Handled(t)' = Handled(t)
         /\ k # "REGISTER_OBJECT" => Handled(s)' = Handled(s)
         /\ k = "REGISTER_OBJECT" => /\ Arg(s) \in interfaces[s] \ Handled(s)
                                     /\ Handled(s)' = Handled(s) \cup {Arg(s)}
<1>1. /\ <<k, Arg(s)>> \in Q(s)
      /\ Q(s)' = Q(s) \ {<<k, Arg(s)>>}
      /\ \A t \in Sims \ {s} : Q(t)' = Q(t)
  BY TakeQ DEF QueueInv, QueueOf
<1>2. interfaces' = interfaces
  BY DEF simVars
<1>3. \A t \in Sims \ {s} : Handled(t)' = Handled(t)
  BY <1>1, <1>2 DEF Handled
<1>4. CASE k # "REGISTER_OBJECT"
  BY <1>1, <1>2, <1>3, <1>4 DEF Handled
<1>5. CASE k = "REGISTER_OBJECT"
  <2>1. Arg(s) \in interfaces[s]
    <3>1. <<k, Arg(s)>>[1] = k /\ <<k, Arg(s)>>[2] = Arg(s)
      OBVIOUS
    <3> QED BY <1>1, <1>5, <3>1 DEF QueueInv, QueueOf
  <2>2. \A p : <<"REGISTER_OBJECT", p>> \in Q(s)' <=>
               <<"REGISTER_OBJECT", p>> \in Q(s) /\ p # Arg(s)
    BY <1>1, <1>5
  <2> QED BY <1>1, <1>2, <1>3, <1>5, <2>1, <2>2 DEF Handled
<1> QED BY <1>4, <1>5, <1>3

\* One simulator's registration does not meet another's.
LEMMA NoClash ==
  ASSUME TypeInv, QueueInv, OwnersInv, NEW s \in Ticks, Take(s, "REGISTER_OBJECT"),
         UNCHANGED simVars
  PROVE  objToID[Arg(s)] = None
<1>1. s \in Sims /\ Arg(s) \in interfaces[s] \ Handled(s)
  BY HandledHandle DEF Kind, Sims
<1>2. Arg(s) \in Names[s] /\ Arg(s) \in Objects
  BY <1>1 DEF OwnersInv, TypeInv
<1>3. \A t \in Ticks : Arg(s) \in Handled(t) => t = s
  BY <1>2, SessionAssumption DEF OwnersInv, Handled, Sims
<1> QED BY <1>1, <1>2, <1>3 DEF OwnersInv

LEMMA OwnersHandle ==
  ASSUME TypeInv, QueueInv, OwnersInv, NEW s \in Sims, BrokerStep(s)
  PROVE  OwnersInv'
<1>1. PICK k \in Kind : Handler(s, k) /\ Take(s, k)
  BY HandlerQ
<1>2. UNCHANGED simVars /\ pc' = pc /\ interfaces' = interfaces
  BY <1>1 DEF Handler, HelloHandler, RegisterHandler, FinalizeHandler,
              CallHandler, FinishedHandler, NoContextHandler, simVars
<1>3. /\ \A t \in Sims \ {s} : Handled(t)' = Handled(t)
      /\ k # "REGISTER_OBJECT" => Handled(s)' = Handled(s)
      /\ k = "REGISTER_OBJECT" => /\ Arg(s) \in interfaces[s] \ Handled(s)
                                  /\ Handled(s)' = Handled(s) \cup {Arg(s)}
  BY <1>1, <1>2, HandledHandle
<1>4. NetSim \in Sims /\ Ticks \subseteq Sims /\ NetSim \notin Ticks
  BY SessionAssumption DEF Sims
<1>5. CASE k # "REGISTER_OBJECT"
  <2>1. UNCHANGED <<objToID, netSimObjCount>>
    BY <1>1, <1>5 DEF Handler, HelloHandler, FinalizeHandler, CallHandler,
                      FinishedHandler, NoContextHandler, regVars
  <2> QED BY <1>2, <1>3, <1>4, <1>5, <2>1 DEF OwnersInv
<1>6. CASE k = "REGISTER_OBJECT" /\ s = NetSim
  <2>1. netSimObjCount' = netSimObjCount + 1 /\ objToID' = objToID
    BY <1>1, <1>6 DEF Handler, RegisterHandler
  <2>2. IsFiniteSet(Handled(NetSim)) /\ Arg(s) \notin Handled(NetSim)
    <3>1. Handled(NetSim) \subseteq Objects
      BY <1>4 DEF Handled, TypeInv
    <3> QED BY <1>3, <1>6, <3>1, FS_Subset, SessionAssumption
  <2>3. Cardinality(Handled(NetSim) \cup {Arg(s)}) = Cardinality(Handled(NetSim)) + 1
    BY <2>2, FS_AddElement
  <2>4. netSimObjCount' = Cardinality(Handled(NetSim)')
    BY <1>3, <1>6, <2>1, <2>3 DEF OwnersInv
  <2>5. \A t \in Ticks : \A o \in Objects : objToID'[o] = t <=> o \in Handled(t)'
    BY <1>3, <1>4, <1>6, <2>1 DEF OwnersInv
  <2> QED BY <1>2, <2>1, <2>4, <2>5 DEF OwnersInv
<1>7. CASE k = "REGISTER_OBJECT" /\ s # NetSim
  <2>1. s \in Ticks /\ objToID[Arg(s)] = None
    BY <1>1, <1>2, <1>7, NoClash DEF Sims
  <2>2. objToID' = [objToID EXCEPT ![Arg(s)] = s] /\ netSimObjCount' = netSimObjCount
    BY <1>1, <1>7, <2>1 DEF Handler, RegisterHandler
  <2>3. Arg(s) \in Objects
    BY <1>3, <1>7 DEF TypeInv
  <2>4. \A o \in Objects : objToID'[o] = IF o = Arg(s) THEN s ELSE objToID[o]
    BY <2>2, <2>3 DEF TypeInv
  <2>5. \A t \in Ticks \ {s} : Arg(s) \notin Handled(t)
    BY <2>1, <2>3, SessionAssumption DEF OwnersInv, Sims
  <2>6. \A t \in Ticks : \A o \in Objects : objToID'[o] = t <=> o \in Handled(t)'
    <3>1. \A o \in Objects : objToID'[o] = s <=> o \in Handled(s)'
      BY <1>3, <1>7, <2>1, <2>4 DEF OwnersInv
    <3>2. ASSUME NEW t \in Ticks \ {s}, NEW o \in Objects
          PROVE  objToID'[o] = t <=> o \in Handled(t)'
      BY <1>3, <1>4, <1>7, <2>1, <2>4, <2>5, <3>2 DEF OwnersInv
    <3> QED BY <3>1, <3>2
  <2>7. netSimObjCount' = Cardinality(Handled(NetSim)')
    BY <1>3, <1>4, <1>7, <2>2 DEF OwnersInv
  <2>8. \A o \in Objects : objToID'[o] \in Ticks \cup {None}
    BY <2>1, <2>4 DEF OwnersInv
  <2> QED BY <1>2, <2>6, <2>7, <2>8 DEF OwnersInv
<1> QED BY <1>5, <1>6, <1>7

LEMMA OwnersOther ==
  ASSUME TypeInv, OwnersInv, (\E m \in Msgs : Forward(m)) \/ InterruptBroker \/ UNCHANGED vars
  PROVE  OwnersInv' /\ \A t \in Sims : Handled(t)' = Handled(t)
<1>1. UNCHANGED <<chan, interfaces, pc, objToID, netSimObjCount>>
  BY DEF Forward, InterruptBroker, vars, simVars, brokerVars, regVars
<1>2. \A t : Handled(t)' = Handled(t)
  BY <1>1 DEF Handled, Q
<1> QED BY <1>1, <1>2 DEF OwnersInv


-----------------------------------------------------------------------------
(* The run begins.                                                         *)

\* Only those that are not gone get an answer.
LEMMA Reply ==
  ASSUME NEW v, DOMAIN rep = Sims, ReplyAll(v)
  PROVE  \A t \in Sims : rep'[t] = rep[t] \/ (rep'[t] = v /\ ~Gone(t))
BY DEF ReplyAll

LEMMA FinalSend ==
  ASSUME TypeInv, QueueInv, HelloInv, FinalInv, NEW s \in Sims, SimStep(s) \/ Interrupt(s)
  PROVE  FinalInv'
<1> USE DEF Ended, Waits, InRun
<1> DEFINE n == Cardinality(Names[NetSim])
<1>1. /\ \A t \in Sims \ {s} : /\ pc'[t] = pc[t] /\ rep'[t] = rep[t]
                               /\ interfaces'[t] = interfaces[t] /\ count'[t] = count[t]
      /\ UNCHANGED <<config, finalized, proposals>>
      /\ pc[s] \notin Ended
      /\ finalized \subseteq Sims
  BY Ways DEF TypeInv
<1>2. \A t \in Sims : Handled(t)' = Handled(t)
  BY HandledSend
<1>3. \A t \in finalized :
        /\ pc'[t] \notin {"start", "hello", "registering"}
        /\ config'[t] \notin {"parameters", "algorithm"}
        /\ Handled(t)' = Names[t] /\ interfaces'[t] = Names[t]
  <2> SUFFICES ASSUME s \in finalized
               PROVE  /\ pc'[s] \notin {"start", "hello", "registering"}
                      /\ interfaces'[s] = Names[s]
    BY <1>1, <1>2 DEF FinalInv
  <2>1. pc[s] \notin {"start", "hello", "registering"} /\ interfaces[s] = Names[s]
    BY DEF FinalInv
  <2> QED BY <2>1, Ways
<1>4. \A t \in Sims : rep'[t] # None => pc'[t] \in Waits \cup Ended
  <2>1. rep[s] # None => pc[s] \in Waits
    BY <1>1 DEF FinalInv
  <2>2. rep'[s] # None => pc'[s] \in Waits \cup Ended
    BY <2>1, Ways
  <2> QED BY <1>1, <2>2 DEF FinalInv
<1>5. finalized # Sims => \A t \in Sims :
        pc'[t] \notin InRun /\ (rep'[t] # None => pc'[t] \in {"hello"} \cup Ended)
  <2> SUFFICES ASSUME finalized # Sims
               PROVE  pc'[s] \notin InRun /\ (rep'[s] # None => pc'[s] \in {"hello"} \cup Ended)
    BY <1>1 DEF FinalInv
  <2>1. pc[s] \notin InRun /\ (rep[s] # None => pc[s] = "hello")
    BY <1>1 DEF FinalInv
  <2> QED BY <2>1, Ways
<1>6. \A t \in Sims : /\ pc'[t] = "finalizing" /\ rep'[t] # None => rep'[t] = n
                      /\ pc'[t] \in InRun => count'[t] = n
  <2>1. /\ rep[s] # None => pc[s] \in Waits
        /\ pc[s] = "finalizing" /\ rep[s] # None => rep[s] = n
        /\ pc[s] \in InRun => count[s] = n
    BY <1>1 DEF FinalInv
  <2>2. /\ pc'[s] = "finalizing" /\ rep'[s] # None => rep'[s] = n
        /\ pc'[s] \in InRun => count'[s] = n
    <3> HIDE DEF n
    <3> QED BY <2>1, Ways
  <2> QED BY <1>1, <2>2 DEF FinalInv
<1>7. \A t \in Sims : proposals[t] # None =>
        (pc'[t] = "calling" /\ rep'[t] = None) \/ pc'[t] \in Ended
  <2>1. proposals[s] # None => pc[s] = "calling" /\ rep[s] = None
    BY <1>1 DEF FinalInv, Gone
  <2>2. proposals[s] # None => (pc'[s] = "calling" /\ rep'[s] = None) \/ pc'[s] \in Ended
    BY <2>1, Ways
  <2> QED BY <1>1, <2>2 DEF FinalInv, Gone
<1> QED BY <1>1, <1>3, <1>4, <1>5, <1>6, <1>7 DEF FinalInv, Gone

\* What has been finalized stays so, whatever the broker takes.
LEMMA FinalizedHandle ==
  ASSUME TypeInv, QueueInv, FinalInv, NEW s \in Sims, NEW k \in Kind,
         Handler(s, k), Take(s, k), UNCHANGED simVars
  PROVE  /\ finalized \subseteq finalized' /\ finalized' \subseteq finalized \cup {s}
         /\ k # "FINALIZE_REGISTRATIONS" => finalized' = finalized
         /\ \A t \in finalized' : /\ pc[t] \notin {"start", "hello", "registering"}
                                  /\ config[t] \notin {"parameters", "algorithm"}
                                  /\ Handled(t)' = Names[t] /\ interfaces[t] = Names[t]
<1>1. /\ \A t \in Sims \ {s} : Handled(t)' = Handled(t)
      /\ k # "REGISTER_OBJECT" => Handled(s)' = Handled(s)
      /\ k = "REGISTER_OBJECT" => Arg(s) \in interfaces[s] \ Handled(s)
  BY HandledHandle
<1>2. finalized \subseteq Sims /\ interfaces \in [Sims -> SUBSET Objects]
  BY DEF TypeInv
<1>3. CASE k = "FINALIZE_REGISTRATIONS"
  <2>1. finalized' = finalized \cup {s}
    BY <1>3 DEF Handler, FinalizeHandler
  <2>2. <<k, Arg(s)>> \in Q(s) /\ ~Has(s, "REGISTER_OBJECT")
    BY <1>3, TakeQ DEF QueueInv, QueueOf
  <2>3. <<k, Arg(s)>>[1] = k
    OBVIOUS
  <2>4. /\ pc[s] \notin {"start", "hello", "registering"}
        /\ interfaces[s] = Names[s]
        /\ config[s] \notin {"parameters", "algorithm"}
    BY <1>3, <2>2, <2>3 DEF QueueInv, QueueOf, Has
  <2>5. \A p : <<"REGISTER_OBJECT", p>> \notin Q(s)
    <3>1. \A p : <<"REGISTER_OBJECT", p>>[1] = "REGISTER_OBJECT"
      OBVIOUS
    <3> QED BY <2>2, <3>1 DEF Has
  <2>6. Handled(s) = interfaces[s]
    BY <2>5 DEF Handled
  <2> QED BY <1>1, <1>2, <1>3, <2>1, <2>4, <2>6 DEF FinalInv
<1>4. CASE k # "FINALIZE_REGISTRATIONS"
  <2>1. finalized' = finalized
    BY <1>4 DEF Handler, HelloHandler, RegisterHandler, CallHandler, FinishedHandler,
                NoContextHandler, regVars
  <2>2. k = "REGISTER_OBJECT" => s \notin finalized
    BY <1>1 DEF FinalInv
  <2> QED BY <1>1, <1>2, <1>4, <2>1, <2>2 DEF FinalInv
<1> QED BY <1>3, <1>4

LEMMA FinalHandle ==
  ASSUME TypeInv, QueueInv, HelloInv, OwnersInv, FinalInv, NEW s \in Sims, BrokerStep(s)
  PROVE  FinalInv'
<1> DEFINE n == Cardinality(Names[NetSim])
<1>1. PICK k \in Kind : Handler(s, k) /\ Take(s, k)
  BY HandlerQ
<1>2. UNCHANGED simVars
  BY <1>1 DEF Handler, HelloHandler, RegisterHandler, FinalizeHandler,
              CallHandler, FinishedHandler, NoContextHandler
<1>3. UNCHANGED <<config, pc, interfaces, count>> /\ \A t : Gone(t)' = Gone(t)
  BY <1>2 DEF simVars, Gone
<1>4. /\ finalized \subseteq finalized' /\ finalized' \subseteq finalized \cup {s}
      /\ k # "FINALIZE_REGISTRATIONS" => finalized' = finalized
      /\ \A t \in finalized' : /\ pc[t] \notin {"start", "hello", "registering"}
                               /\ config[t] \notin {"parameters", "algorithm"}
                               /\ Handled(t)' = Names[t] /\ interfaces[t] = Names[t]
  BY <1>1, <1>2, FinalizedHandle
<1>5. Has(s, k)
  <2>1. <<k, Arg(s)>> \in Q(s) /\ <<k, Arg(s)>>[1] = k
    BY <1>1, TakeQ DEF QueueInv, QueueOf
  <2> QED BY <2>1 DEF Has
<1>6. DOMAIN rep = Sims /\ finalized \subseteq Sims
  BY DEF TypeInv
\* The part about what is answered and proposed.
<1> DEFINE Told ==
      /\ finalized' # Sims => \A t \in Sims :
           pc[t] \notin InRun /\ (rep'[t] # None => pc[t] \in {"hello"} \cup Ended)
      /\ \A t \in Sims :
           /\ rep'[t] # None => pc[t] \in Waits \cup Ended
           /\ pc[t] = "finalizing" /\ rep'[t] # None => rep'[t] = n
           /\ proposals'[t] # None => (pc[t] = "calling" /\ rep'[t] = None) \/ Gone(t)
<1> SUFFICES Told
  <2>1. \A t \in Sims : pc[t] \in InRun => count[t] = n
    BY DEF FinalInv
  <2> HIDE DEF n
  <2> QED BY <1>3, <1>4, <2>1 DEF FinalInv, n
<1>7. ASSUME UNCHANGED <<rep, proposals>> PROVE Told
  <2>1. finalized' # Sims => finalized # Sims
    BY <1>4, <1>6
  <2> QED BY <1>7, <2>1 DEF FinalInv
<1>8. CASE k = "HELLO"
  <2>1. HelloHandler(s) /\ newConnections # Sims
    BY <1>1, <1>5, <1>8 DEF Handler, QueueInv, QueueOf
  <2>2. \A t \in Sims : /\ rep[t] = None /\ pc[t] \in {"start", "hello"} \cup Ended
                        /\ proposals[t] # None => Gone(t)
    BY <2>1 DEF HelloInv, FinalInv, Ended
  <2>3. proposals' = proposals /\ (rep' = rep \/ newConnections' = Sims)
    BY <2>1 DEF HelloHandler
  <2>4. newConnections' = Sims => \A t \in Sims : pc[t] # "start"
    BY <1>3, HelloHandle DEF HelloInv
  <2>5. \A t \in Sims : rep'[t] # None => pc[t] \in {"hello"} \cup Ended
    BY <2>2, <2>3, <2>4
  <2>6. \A t \in Sims : pc[t] \notin InRun /\ pc[t] # "finalizing"
    BY <2>2 DEF InRun, Ended
  <2> HIDE DEF n
  <2>7. Told
    BY <2>2, <2>3, <2>5, <2>6 DEF Waits
  <2> QED BY <2>7
<1>9. CASE k = "FINALIZE_REGISTRATIONS"
  <2>1. FinalizeHandler(s) /\ finalized # Sims /\ proposals' = proposals
    BY <1>1, <1>5, <1>9 DEF Handler, QueueInv, QueueOf, FinalizeHandler
  <2>2. \A t \in Sims : /\ pc[t] \notin InRun
                        /\ rep[t] # None => pc[t] \in {"hello"} \cup Ended
                        /\ proposals[t] # None => Gone(t)
    BY <2>1 DEF FinalInv, InRun
  <2>3. CASE finalized' # Sims
    <3>1. rep' = rep
      BY <2>1, <2>3 DEF FinalizeHandler, Everyone
    <3> QED BY <1>7, <2>1, <3>1
  <2>4. CASE finalized' = Sims
    <3>1. ReplyAll(netSimObjCount)
      BY <2>1, <2>4 DEF FinalizeHandler, Everyone
    <3>2. netSimObjCount = n
      <4>1. OwnersInv' /\ netSimObjCount' = netSimObjCount /\ NetSim \in Sims
        BY <2>1, OwnersHandle DEF FinalizeHandler, Sims
      <4>2. Handled(NetSim)' = Names[NetSim]
        BY <1>4, <2>4, <4>1
      <4> QED BY <4>1, <4>2 DEF OwnersInv
    <3>3. \A t \in Sims : pc[t] \in {"finalizing"} \cup Ended
      <4>1. \A t \in Sims : pc[t] \in Places \ {"start", "hello", "registering"}
        BY <1>4, <2>4 DEF TypeInv
      <4> QED BY <2>2, <4>1 DEF InRun, Places
    <3>4. \A t \in Sims : rep'[t] = rep[t] \/ rep'[t] = n
      BY <1>6, <3>1, <3>2, Reply
    <3> HIDE DEF n
    <3>5. Told
      BY <2>1, <2>2, <2>4, <3>3, <3>4 DEF Waits, Ended
    <3> QED BY <3>5
  <2> QED BY <2>3, <2>4
<1>10. CASE k = "CALL"
  <2>1. CallHandler(s) /\ finalized' = finalized
    BY <1>1, <1>4, <1>10 DEF Handler
  <2>2. proposals[s] = None /\ ((pc[s] = "calling" /\ rep[s] = None) \/ Gone(s))
    BY <1>5, <1>10 DEF QueueInv, QueueOf
  <2> DEFINE in == [proposals EXCEPT ![s] = Arg(s)]
  <2>3. CASE Missing(in)
    <3>1. rep' = rep /\ proposals' = in
      BY <2>1, <2>2, <2>3 DEF CallHandler
    <3>2. \A t \in Sims \ {s} : proposals'[t] = proposals[t]
      BY <3>1 DEF TypeInv
    <3>3. Told
      BY <2>1, <2>2, <3>1, <3>2 DEF FinalInv
    <3> QED BY <3>3
  <2>4. CASE ~Missing(in)
    <3>1. ReplyAll(Least(in)) /\ proposals' = [t \in Sims |-> None]
      BY <2>1, <2>2, <2>4 DEF CallHandler
    <3>2. \A t \in Sims : pc[t] = "calling" \/ Gone(t)
      BY <2>1, <2>2, <2>4, AllIn DEF FinalInv
    <3>3. \A t \in Sims : rep'[t] = rep[t] \/ ~Gone(t)
      BY <1>6, <3>1, Reply
    <3>4. finalized # Sims => \A t \in Sims : Gone(t)
      BY <3>2 DEF FinalInv, InRun
    <3>5. \A t \in Sims : pc[t] # "finalizing"
      BY <3>2 DEF Gone, Ended
    <3> HIDE DEF n
    <3>6. Told
      BY <2>1, <3>1, <3>2, <3>3, <3>4, <3>5 DEF Waits, InRun, Gone, Ended
    <3> QED BY <3>6
  <2> QED BY <2>3, <2>4
<1>11. CASE k \in {"REGISTER_OBJECT", "FINISHED", "NO_CONTEXT"}
  <2>1. UNCHANGED <<rep, proposals>>
    BY <1>1, <1>11 DEF Handler, RegisterHandler, FinishedHandler, NoContextHandler, regVars
  <2> QED BY <1>7, <2>1
<1> QED BY <1>8, <1>9, <1>10, <1>11 DEF Kind

LEMMA FinalOther ==
  ASSUME TypeInv, OwnersInv, FinalInv,
         (\E m \in Msgs : Forward(m)) \/ InterruptBroker \/ UNCHANGED vars
  PROVE  FinalInv'
<1>1. UNCHANGED <<config, pc, rep, interfaces, count, finalized, proposals>>
  BY DEF Forward, InterruptBroker, vars, simVars, brokerVars, regVars
<1>2. \A t \in Sims : Handled(t)' = Handled(t)
  BY OwnersOther
<1>3. finalized \subseteq Sims
  BY DEF TypeInv
<1> QED BY <1>1, <1>2, <1>3 DEF FinalInv, Gone

-----------------------------------------------------------------------------
(* The end.                                                                *)

\* A simulator that has stopped in its run, and whose proposal is missing.
Away(s) == pc[s] = "stopped" /\ proposals[s] = None /\ ~Has(s, "CALL")

\* What a simulator tells the broker when it ends.
LEMMA Farewell ==
  ASSUME TypeInv, QueueInv, HelloInv, FinalInv, NEW s \in Sims, SimStep(s) \/ Interrupt(s)
  PROVE  /\ \A t \in Sims \ {s} : Q(t)' = Q(t)
         /\ \A k \in {"FINISHED", "NO_CONTEXT"} : Has(s, k)' =>
              \/ Has(s, k)
              \/ k = "FINISHED" /\ (StopIntegrator(s) \/ TakeFinished(s) \/ Interrupt(s))
              \/ k = "NO_CONTEXT" /\ TakeFinished(s) /\ pc[s] = "hello"
         /\ Has(s, "CALL")' => Has(s, "CALL") \/ Call(s)
<1>1. CASE ConfigFails(s) \/ HelloDone(s) \/ FinalizeDone(s) \/ CallDone(s) \/ TakeDie(s)
  <2>1. chan' = chan
    BY <1>1 DEF ConfigFails, HelloDone, FinalizeDone, CallDone, TakeDie
  <2> QED BY <2>1 DEF Has, Q
<1>2. ASSUME NEW k \in Kind, NEW a \in Args, Send(s, k, a)
      PROVE  /\ \A t \in Sims \ {s} : Q(t)' = Q(t)
             /\ \A j : Has(s, j)' => Has(s, j) \/ j = k
  <2>1. Q(s)' = Q(s) \cup {<<k, a>>} /\ \A t \in Sims \ {s} : Q(t)' = Q(t)
    BY <1>2, SendQ
  <2>2. <<k, a>>[1] = k
    OBVIOUS
  <2> QED BY <2>1, <2>2 DEF Has
<1>3. CASE Hello(s) \/ RegisterObject(s) \/ FinalizeRegistrations(s) \/ Call(s)
  <2>1. PICK k \in Kind \ {"FINISHED", "NO_CONTEXT"}, a \in Args :
          Send(s, k, a) /\ (k = "CALL" => Call(s))
    <3>1. Objects \subseteq Args /\ Names \in [Sims -> SUBSET Objects] /\ s \in Args
      BY SessionAssumption DEF Args
    <3> QED BY <1>3, <3>1 DEF Hello, RegisterObject, FinalizeRegistrations, Call, Proposes,
                              Kind, Args
  <2> QED BY <1>2, <2>1
<1>4. CASE StopIntegrator(s) \/ TakeFinished(s) \/ Interrupt(s)
  <2>1. PICK k \in {"FINISHED", "NO_CONTEXT"} :
          Send(s, k, s) /\ (k = "NO_CONTEXT" => TakeFinished(s) /\ pc[s] = "hello")
    BY <1>4 DEF StopIntegrator, TakeFinished, Interrupt
  <2>2. s \in Args /\ k \in Kind
    BY DEF Args, Kind
  <2> QED BY <1>2, <1>4, <2>1, <2>2
<1> QED BY <1>1, <1>3, <1>4 DEF SimStep

LEMMA EndSend ==
  ASSUME TypeInv, QueueInv, HelloInv, FinalInv, EndInv, NEW s \in Sims,
         SimStep(s) \/ Interrupt(s)
  PROVE  EndInv'
<1>1. /\ UNCHANGED <<config, broker, newConnections, newNetSimID, finalized, finished,
                     proposals, pub>>
      /\ \A t \in Sims \ {s} : pc'[t] = pc[t]
      /\ pc[s] \notin Ended
  BY Ways
<1>2. \A t \in Sims \ {s} : \A k : Has(t, k)' <=> Has(t, k)
  BY Farewell DEF Has
<1>3. \A m \in Msgs : mail'[m] = "routing" => finalized' = Sims
  <2>1. mail' = mail \/ finalized = Sims
    <3>1. CASE Call(s)
      BY <3>1 DEF Call, FinalInv, InRun
    <3> QED BY <3>1 DEF SimStep, ConfigFails, Hello, HelloDone, RegisterObject,
                        FinalizeRegistrations, FinalizeDone, CallDone, StopIntegrator,
                        TakeFinished, TakeDie, Interrupt
  <2> QED BY <1>1, <2>1 DEF EndInv
<1>4. ASSUME signals' = {}
      PROVE  signals = {} /\ ~Interrupt(s)
  BY <1>4 DEF SimStep, ConfigFails, Hello, HelloDone, RegisterObject, FinalizeRegistrations,
              FinalizeDone, Call, CallDone, StopIntegrator, TakeFinished, TakeDie, Interrupt
<1> SUFFICES ASSUME signals' = {}
             PROVE  /\ \A t \in Sims :
                         /\ ~Has(t, "NO_CONTEXT")' /\ pc'[t] # "interrupted"
                         /\ Has(t, "FINISHED")' \/ t \in finished => pc'[t] = "stopped"
                         /\ pub[t] = "FINISHED" => \E u \in Sims : pc'[u] = "stopped"
                    /\ (\E t \in Sims : pc'[t] = "stopped") =>
                         finalized = Sims /\ \E t \in Sims : Away(t)'
  BY <1>1, <1>3 DEF EndInv, Away
<1>5. /\ SimStep(s) /\ signals = {}
      /\ \A t \in Sims :
           /\ ~Has(t, "NO_CONTEXT") /\ pc[t] # "interrupted"
           /\ Has(t, "FINISHED") \/ t \in finished => pc[t] = "stopped"
           /\ pub[t] = "FINISHED" => \E u \in Sims : pc[u] = "stopped"
      /\ (\E t \in Sims : pc[t] = "stopped") => finalized = Sims /\ \E t \in Sims : Away(t)
  BY <1>4 DEF EndInv, Away
<1>6. \A t \in Sims : pc[t] = "stopped" => pc'[t] = "stopped"
  BY <1>1 DEF Ended
<1>7. \A t \in Sims : Away(t) => Away(t)'
  <2> SUFFICES ASSUME NEW t \in Sims, Away(t) PROVE Away(t)'
    OBVIOUS
  <2>1. t # s
    BY <1>1 DEF Away, Ended
  <2> QED BY <1>1, <1>2, <1>6, <2>1 DEF Away
<1>8. pc'[s] = "stopped" => StopIntegrator(s) \/ TakeFinished(s)
  BY <1>1, <1>5 DEF SimStep, ConfigFails, Hello, HelloDone, RegisterObject, FinalizeRegistrations,
              FinalizeDone, Call, CallDone, TakeDie, TypeInv, Goto, Ended
<1>9. TakeFinished(s) => pc'[s] = "stopped" /\ finalized = Sims
                         /\ pc[s] # "hello" /\ \E t \in Sims : Away(t)
  <2> SUFFICES ASSUME TakeFinished(s)
               PROVE  pc'[s] = "stopped" /\ finalized = Sims
                      /\ pc[s] # "hello" /\ \E t \in Sims : Away(t)
    OBVIOUS
  <2>1. finalized = Sims /\ \E t \in Sims : Away(t)
    BY <1>5 DEF TakeFinished
  <2>2. pc[s] # "hello"
    BY <2>1 DEF FinalInv
  <2> QED BY <2>1, <2>2 DEF TakeFinished, Goto, TypeInv
<1>10. StopIntegrator(s) => pc'[s] = "stopped" /\ finalized = Sims /\ Away(s)'
  <2> SUFFICES ASSUME StopIntegrator(s)
               PROVE  pc'[s] = "stopped" /\ finalized = Sims /\ Away(s)'
    OBVIOUS
  <2>1. pc[s] = "run" /\ pc'[s] = "stopped"
    BY DEF StopIntegrator, Goto, TypeInv
  <2>2. finalized = Sims /\ proposals[s] = None /\ ~Has(s, "CALL")
    BY <2>1 DEF FinalInv, InRun, Gone, Ended, QueueInv, QueueOf
  <2>3. ~Has(s, "CALL")'
    <3>1. ~Call(s)
      BY <2>1 DEF Call, Goto, TypeInv
    <3> QED BY <2>2, <3>1, Farewell
  <2> QED BY <1>1, <2>1, <2>2, <2>3 DEF Away
<1>11. /\ ~Has(s, "NO_CONTEXT")' /\ pc'[s] # "interrupted"
       /\ Has(s, "FINISHED")' => pc'[s] = "stopped"
  <2>1. ~Has(s, "NO_CONTEXT")' /\ (Has(s, "FINISHED")' => pc'[s] = "stopped")
    BY <1>4, <1>5, <1>6, <1>9, <1>10, Farewell
  <2>2. pc'[s] # "interrupted"
    BY <1>5, <1>9, <1>10 DEF SimStep, ConfigFails, Hello, HelloDone, RegisterObject,
              FinalizeRegistrations, FinalizeDone, Call, CallDone, TakeDie, TypeInv, Goto
  <2> QED BY <2>1, <2>2
<1>12. \A t \in Sims : /\ ~Has(t, "NO_CONTEXT")' /\ pc'[t] # "interrupted"
                       /\ Has(t, "FINISHED")' \/ t \in finished => pc'[t] = "stopped"
  BY <1>1, <1>2, <1>5, <1>6, <1>11
<1>13. (\E t \in Sims : pc'[t] = "stopped") => finalized = Sims /\ \E t \in Sims : Away(t)'
  <2> SUFFICES ASSUME NEW t \in Sims, pc'[t] = "stopped"
               PROVE  finalized = Sims /\ \E u \in Sims : Away(u)'
    OBVIOUS
  <2>1. CASE pc[t] = "stopped"
    BY <1>5, <1>7, <2>1
  <2>2. CASE t = s
    BY <1>7, <1>8, <1>9, <1>10, <2>2
  <2> QED BY <1>1, <2>1, <2>2
<1>14. \A t \in Sims : pub[t] = "FINISHED" => \E u \in Sims : pc'[u] = "stopped"
  BY <1>5, <1>6
<1> QED BY <1>12, <1>13, <1>14

\* What is published, if it is not FINISHED or DIE already.
LEMMA Published ==
  ASSUME NEW x, Publish(x)
  PROVE  \A t \in Sims : pub'[t] = x \/ pub'[t] = pub[t]
BY DEF Publish

LEMMA EndHandle ==
  ASSUME TypeInv, QueueInv, HelloInv, FinalInv, EndInv, NEW s \in Sims, BrokerStep(s)
  PROVE  EndInv'
<1>1. PICK k \in Kind : Handler(s, k) /\ Take(s, k)
  BY HandlerQ
<1>2. UNCHANGED <<simVars, pc, mail, signals>>
  BY <1>1 DEF Handler, HelloHandler, RegisterHandler, FinalizeHandler,
              CallHandler, FinishedHandler, NoContextHandler, simVars
<1>3. /\ <<k, Arg(s)>> \in Q(s) /\ \A t \in Sims : Q(t)' \subseteq Q(t)
  BY <1>1, TakeQ DEF QueueInv, QueueOf
<1>4. Has(s, k) /\ \A t \in Sims : \A j : Has(t, j)' => Has(t, j)
  <2>1. <<k, Arg(s)>>[1] = k
    OBVIOUS
  <2> QED BY <1>3, <2>1 DEF Has
<1>5. finalized \subseteq finalized' /\ (finalized = Sims => finalized' = Sims)
  <2>1. finalized \subseteq finalized' /\ finalized' \subseteq finalized \cup {s}
    BY <1>1, <1>2, FinalizedHandle
  <2> QED BY <2>1
<1>6. \A m \in Msgs : mail'[m] = "routing" => finalized' = Sims
  BY <1>2, <1>5 DEF EndInv
<1> SUFFICES ASSUME signals = {}
             PROVE  /\ \A t \in Sims :
                         /\ ~Has(t, "NO_CONTEXT")' /\ pc[t] # "interrupted"
                         /\ Has(t, "FINISHED")' \/ t \in finished' => pc[t] = "stopped"
                         /\ pub'[t] = "FINISHED" => \E u \in Sims : pc[u] = "stopped"
                    /\ (\E t \in Sims : pc[t] = "stopped") =>
                         finalized' = Sims /\ \E t \in Sims : Away(t)'
  BY <1>2, <1>6 DEF EndInv, Away
<1>7. /\ \A t \in Sims :
           /\ ~Has(t, "NO_CONTEXT") /\ pc[t] # "interrupted"
           /\ Has(t, "FINISHED") \/ t \in finished => pc[t] = "stopped"
           /\ pub[t] = "FINISHED" => \E u \in Sims : pc[u] = "stopped"
      /\ (\E t \in Sims : pc[t] = "stopped") => finalized = Sims /\ \E t \in Sims : Away(t)
  BY DEF EndInv, Away
<1>8. CASE k = "FINISHED"
  <2>1. /\ finished' = finished \cup {s} /\ proposals' = proposals
        /\ Publish("FINISHED") \/ Publish("DIE")
    BY <1>1, <1>8 DEF Handler, FinishedHandler, Death
  <2>2. pc[s] = "stopped"
    BY <1>4, <1>7, <1>8
  <2>3. \A t \in Sims : Away(t) => Away(t)'
    BY <1>2, <1>4, <2>1 DEF Away
  <2> QED BY <1>4, <1>5, <1>7, <2>1, <2>2, <2>3
<1>9. CASE k # "FINISHED"
  <2>1. /\ finished' = finished
        /\ pub' = pub \/ Publish("DIE")
    BY <1>1, <1>9 DEF Handler, HelloHandler, RegisterHandler, FinalizeHandler,
                      CallHandler, NoContextHandler, Death
  <2>2. \A t \in Sims : pub'[t] = "FINISHED" => pub[t] = "FINISHED"
    BY <2>1, Published
  <2>3. \A t \in Sims : Away(t) => Away(t)'
    <3> SUFFICES ASSUME NEW t \in Sims, Away(t) PROVE proposals'[t] = None
      BY <1>2, <1>4 DEF Away
    <3>1. CASE k = "CALL"
      <4>1. CallHandler(s) /\ t # s /\ proposals[t] = None
        BY <1>1, <1>4, <3>1 DEF Handler, Away
      <4>2. Missing([proposals EXCEPT ![s] = Arg(s)])
        BY <4>1 DEF Missing, TypeInv
      <4> QED BY <4>1, <4>2 DEF CallHandler, TypeInv
    <3>2. CASE k # "CALL"
      BY <1>1, <1>9, <3>2 DEF Handler, HelloHandler, RegisterHandler, FinalizeHandler,
                              NoContextHandler, Away
    <3> QED BY <3>1, <3>2
  <2> QED BY <1>4, <1>5, <1>7, <2>1, <2>2, <2>3
<1> QED BY <1>8, <1>9

LEMMA EndOther ==
  ASSUME TypeInv, EndInv, (\E m \in Msgs : Forward(m)) \/ InterruptBroker \/ UNCHANGED vars
  PROVE  EndInv'
<1>1. /\ UNCHANGED <<pc, chan, proposals, finalized, finished>>
      /\ \A m \in Msgs : mail'[m] = "routing" => mail[m] = "routing"
      /\ pub' = pub \/ Publish("DIE")
      /\ signals' = {} => signals = {}
  BY DEF Forward, InterruptBroker, Death, vars, simVars, brokerVars, regVars, TypeInv
<1>2. \A t \in Sims : pub'[t] = "FINISHED" => pub[t] = "FINISHED"
  BY <1>1, Published
<1>3. \A t \in Sims : Q(t)' = Q(t)
  BY <1>1 DEF Q
<1> QED BY <1>1, <1>2, <1>3 DEF EndInv, Has

\* A message of the run has a receiver.
LEMMA Delivered ==
  ASSUME TypeInv, OwnersInv, FinalInv, NEW m \in Msgs, finalized = Sims
  PROVE  Receiver(m) # None
<1>1. NetSim # None /\ NetSim \in Sims /\ Ticks \subseteq Sims /\ None \notin Ticks
  BY SessionAssumption DEF Sims
<1>2. CASE From[m] = NetSim
  <2>1. PICK t \in Ticks : To[m] \in Names[t]
    BY SessionAssumption
  <2>2. To[m] \in Handled(t) /\ To[m] \in Objects
    BY <1>1, <2>1, SessionAssumption DEF FinalInv
  <2>3. objToID[To[m]] = t
    BY <2>1, <2>2 DEF OwnersInv
  <2> QED BY <1>1, <1>2, <2>3 DEF Receiver
<1>3. CASE From[m] # NetSim
  BY <1>1, <1>3 DEF Receiver
<1> QED BY <1>2, <1>3

LEMMA CleanSend ==
  ASSUME TypeInv, CleanInv, NEW s \in Sims, SimStep(s) \/ Interrupt(s)
  PROVE  CleanInv'
<1>1. /\ UNCHANGED <<config, broker, pub>>
      /\ \A t \in Sims \ {s} : pc'[t] = pc[t]
      /\ pc[s] \notin Ended
  BY Ways
<1> SUFFICES ASSUME signals' = {}, \A t \in Sims : config[t] # "type"
             PROVE  /\ broker # "died"
                    /\ \A t \in Sims : pc'[t] # "failed" /\ (pub[t] = "DIE" => Gone(t)')
  BY <1>1 DEF CleanInv
<1>2. /\ broker # "died"
      /\ \A t \in Sims : pc[t] # "failed" /\ (pub[t] = "DIE" => Gone(t))
  <2>1. signals = {}
    BY DEF SimStep, ConfigFails, Hello, HelloDone, RegisterObject, FinalizeRegistrations,
           FinalizeDone, Call, CallDone, StopIntegrator, TakeFinished, TakeDie, Interrupt
  <2> QED BY <2>1 DEF CleanInv
<1>3. pub[s] # "DIE"
  BY <1>1, <1>2 DEF Gone
<1>4. pc'[s] # "failed"
  BY <1>3 DEF SimStep, ConfigFails, Hello, HelloDone, RegisterObject, FinalizeRegistrations,
              FinalizeDone, Call, CallDone, StopIntegrator, TakeFinished, TakeDie, Interrupt,
              Goto, TypeInv, Waits, Places, Ended
<1> QED BY <1>1, <1>2, <1>3, <1>4 DEF Gone

LEMMA CleanHandle ==
  ASSUME IInv, NEW s \in Sims, BrokerStep(s)
  PROVE  CleanInv'
<1> USE DEF IInv
<1>1. PICK k \in Kind : Handler(s, k) /\ Take(s, k)
  BY HandlerQ
<1>2. UNCHANGED <<simVars, config, pc, signals>>
  BY <1>1 DEF Handler, HelloHandler, RegisterHandler, FinalizeHandler,
              CallHandler, FinishedHandler, NoContextHandler, simVars
<1>3. <<k, Arg(s)>> \in Q(s) /\ Has(s, k)
  <2>1. <<k, Arg(s)>> \in Q(s) /\ <<k, Arg(s)>>[1] = k
    BY <1>1, TakeQ DEF QueueInv, QueueOf
  <2> QED BY <2>1 DEF Has
<1> SUFFICES ASSUME signals = {}, \A t \in Sims : config[t] # "type"
             PROVE  /\ broker' # "died"
                    /\ \A t \in Sims : pub'[t] = "DIE" => Gone(t)
  BY <1>2 DEF CleanInv, Gone
<1>4. /\ broker # "died"
      /\ \A t \in Sims : pub[t] = "DIE" => Gone(t)
  BY DEF CleanInv
<1>5. \A v : ReplyAll(v) => broker' # "died"
  BY <1>4 DEF ReplyAll
<1>6. CASE k = "HELLO"
  <2>1. HelloHandler(s) /\ s \notin newConnections /\ (Arg(s) = "netsim" <=> AsNet(s))
    <3>1. <<k, Arg(s)>>[1] = "HELLO" /\ <<k, Arg(s)>>[2] = Arg(s)
      BY <1>6
    <3> QED BY <1>1, <1>3, <1>6, <3>1 DEF QueueInv, QueueOf, Handler
  <2>2. ~SecondNetSim(s)
    <3> SUFFICES ASSUME AsNet(s), newNetSimID # None PROVE FALSE
      BY <2>1 DEF SecondNetSim
    <3>1. newNetSimID \in newConnections /\ AsNet(newNetSimID) /\ newConnections \subseteq Sims
      BY DEF HelloInv, TypeInv
    <3>2. s = NetSim /\ newNetSimID = NetSim
      BY <3>1 DEF AsNet
    <3> QED BY <2>1, <3>1, <3>2
  <2>3. pub' = pub /\ (broker' = broker \/ ReplyAll(0))
    BY <2>1, <2>2 DEF HelloHandler
  <2> QED BY <1>4, <1>5, <2>3
<1>7. CASE k = "REGISTER_OBJECT"
  <2>1. RegisterHandler(s)
    BY <1>1, <1>7 DEF Handler
  <2>2. s # NetSim => objToID[Arg(s)] = None
    BY <1>1, <1>2, <1>7, NoClash DEF Sims
  <2>3. pub' = pub /\ broker' = broker
    BY <2>1, <2>2 DEF RegisterHandler
  <2> QED BY <1>4, <2>3
<1>8. CASE k = "FINALIZE_REGISTRATIONS"
  <2>1. pub' = pub /\ (broker' = broker \/ ReplyAll(netSimObjCount))
    BY <1>1, <1>8 DEF Handler, FinalizeHandler
  <2> QED BY <1>4, <1>5, <2>1
<1>9. CASE k = "CALL"
  <2>1. CallHandler(s) /\ proposals[s] = None
    BY <1>1, <1>3, <1>9 DEF Handler, QueueInv, QueueOf
  <2>2. pub' = pub /\ (broker' = broker \/ \E v : ReplyAll(v))
    BY <2>1 DEF CallHandler
  <2> QED BY <1>4, <1>5, <2>2
<1>10. CASE k = "FINISHED"
  <2>1. FinishedHandler(s)
    BY <1>1, <1>10 DEF Handler
  <2>2. CASE AllFinished(finished \cup {s})
    <3>1. \A t \in Sims : Gone(t)
      BY <1>3, <1>10, <2>2 DEF AllFinished, QueueInv, QueueOf
    <3>2. broker' = "ended"
      BY <2>1, <2>2 DEF FinishedHandler, Death
    <3> QED BY <3>1, <3>2
  <2>3. CASE ~AllFinished(finished \cup {s})
    <3>1. Publish("FINISHED") /\ broker' = broker
      BY <2>1, <2>3 DEF FinishedHandler
    <3> QED BY <1>4, <3>1, Published
  <2> QED BY <2>2, <2>3
<1>11. k # "NO_CONTEXT"
  BY <1>3, SessionAssumption DEF EndInv
<1> QED BY <1>6, <1>7, <1>8, <1>9, <1>10, <1>11 DEF Kind

LEMMA CleanOther ==
  ASSUME IInv, (\E m \in Msgs : Forward(m)) \/ InterruptBroker \/ UNCHANGED vars
  PROVE  CleanInv'
<1> USE DEF IInv
<1>1. CASE InterruptBroker
  BY <1>1 DEF InterruptBroker, CleanInv
<1>2. CASE UNCHANGED vars
  BY <1>2 DEF vars, simVars, brokerVars, regVars, CleanInv, Gone
<1>3. ASSUME NEW m \in Msgs, Forward(m) PROVE CleanInv'
  <2>1. finalized = Sims
    BY <1>3 DEF Forward, EndInv
  <2>2. Receiver(m) # None
    BY <2>1, Delivered
  <2>3. pub' = pub /\ (broker' = broker \/ broker' = "aborted")
    BY <1>3, <2>2 DEF Forward
  <2>4. UNCHANGED <<config, pc, signals>>
    BY <1>3 DEF Forward, simVars
  <2> QED BY <2>3, <2>4 DEF CleanInv, Gone
<1> QED BY <1>1, <1>2, <1>3

-----------------------------------------------------------------------------
(* The theorems.                                                           *)

LEMMA InitInv == Init => IInv
<1> SUFFICES ASSUME Init PROVE IInv
  OBVIOUS
<1> USE DEF Init
<1>1. TypeInv
  BY DEF TypeInv, Places
<1>2. \A s \in Sims : Q(s) = {} /\ chan[s] = <<>>
  BY DEF Q
<1>3. \A s \in Sims : \A k : ~Has(s, k)
  BY <1>2 DEF Has
<1>4. QueueInv
  <2> SUFFICES ASSUME NEW s \in Sims PROVE QueueOf(s)
    BY DEF QueueInv
  <2>1. Distinct(chan[s]) /\ Ordered(chan[s])
    BY <1>2 DEF Distinct, Ordered
  <2> QED BY <1>2, <1>3, <2>1 DEF QueueOf
<1>5. HelloInv
  BY <1>3 DEF HelloInv, Begun, Passed
<1>6. OwnersInv
  <2>1. \A s \in Sims : Handled(s) = {}
    BY DEF Handled
  <2>2. NetSim \in Sims /\ Ticks \subseteq Sims /\ None \notin Ticks
    BY SessionAssumption DEF Sims
  <2>3. netSimObjCount = Cardinality(Handled(NetSim))
    BY <2>1, <2>2, FS_EmptySet
  <2> QED BY <2>1, <2>2, <2>3 DEF OwnersInv
<1>7. FinalInv
  BY DEF FinalInv, InRun
<1>8. EndInv
  BY <1>3, SessionAssumption DEF EndInv
<1>9. CleanInv
  BY SessionAssumption DEF CleanInv
<1> QED BY <1>1, <1>4, <1>5, <1>6, <1>7, <1>8, <1>9 DEF IInv

LEMMA Inductive == IInv /\ [Next]_vars => IInv'
<1> SUFFICES ASSUME IInv, [Next]_vars PROVE IInv'
  OBVIOUS
<1>1. ASSUME NEW s \in Sims, SimStep(s) \/ Interrupt(s) PROVE IInv'
  BY <1>1, TypeSend, QueueSend, HelloSend, OwnersSend, FinalSend, EndSend, CleanSend DEF IInv
<1>2. ASSUME NEW s \in Sims, BrokerStep(s) PROVE IInv'
  BY <1>2, TypeHandle, QueueHandle, HelloHandle, OwnersHandle, FinalHandle, EndHandle,
     CleanHandle DEF IInv
<1>3. CASE (\E m \in Msgs : Forward(m)) \/ InterruptBroker \/ UNCHANGED vars
  BY <1>3, TypeOther, QueueOther, HelloOther, OwnersOther, FinalOther, EndOther, CleanOther
     DEF IInv
<1> QED BY <1>1, <1>2, <1>3 DEF Next

LEMMA Invariant == Spec => []IInv
BY InitInv, Inductive, PTL DEF Spec

\* A simulator that runs has been told the number of the network simulator's
\* objects, and the broker knows the owner of every other object: what was
\* registered is found, though no registration is answered (integrator.cpp:
\* registerObject and finalizeRegistrations; fncsbroker.cpp, their handlers).
THEOREM RunsResolved == Spec => []Resolved
<1>1. IInv => Resolved
  <2> SUFFICES ASSUME IInv, NEW s \in Sims, pc[s] \in {"run", "calling"}
               PROVE  /\ count[s] = Cardinality(Names[NetSim])
                      /\ \A t \in Ticks : \A o \in Names[t] : objToID[o] = t
    BY DEF Resolved
  <2>1. finalized = Sims /\ count[s] = Cardinality(Names[NetSim])
    BY DEF IInv, FinalInv, InRun
  <2>2. \A t \in Ticks : Handled(t) = Names[t] /\ Names[t] \subseteq Objects
    BY <2>1, SessionAssumption DEF IInv, FinalInv, Sims
  <2> QED BY <2>1, <2>2 DEF IInv, OwnersInv
<1> QED BY <1>1, Invariant, PTL

\* Nobody's finalizeRegistrations returns in a session one of whose
\* configurations is wrong (fncsconfig.cpp, integrator.cpp; the broker's
\* hello_handler and finalize_registrations_handler).
THEOREM RunsComplete == Spec => []BeginsComplete
<1>1. IInv => BeginsComplete
  <2> SUFFICES ASSUME IInv, NEW s \in Sims, NEW t \in Sims, pc[s] \in {"run", "calling"}
               PROVE  config[t] = "right"
    BY DEF BeginsComplete
  <2>1. finalized = Sims
    BY DEF IInv, FinalInv, InRun
  <2>2. config[t] \notin {"parameters", "algorithm"}
    BY <2>1 DEF IInv, FinalInv
  <2>3. config[t] # "type"
    BY DEF IInv, HelloInv, Passed
  <2>4. config[t] \in Kinds
    BY SessionAssumption DEF IInv, TypeInv
  <2> QED BY <2>2, <2>3, <2>4 DEF Kinds
<1> QED BY <1>1, Invariant, PTL

\* Without a signal, and with one network simulator, the broker does not die
\* and no simulator fails (zmqnetworkinterface.cpp, processSubMessage;
\* fncsbroker.cpp, all of its handlers).
THEOREM EndsClean == Spec => []CleanExit
<1>1. IInv => CleanExit
  BY DEF IInv, CleanInv, CleanExit
<1> QED BY <1>1, Invariant, PTL

\* When a simulator has stopped in its run, no call of another is answered any
\* more (fncsbroker.cpp: the collectives wait for all, and finished_handler
\* takes nobody out of them).
THEOREM StopsTogether == Spec => NoneGoesOn
<1> DEFINE Step == \A s \in Sims :
                     (\E t \in Sims : pc[t] = "stopped") /\ signals = {} =>
                       ~(rep[s] = None /\ rep'[s] # None)
<1>1. IInv /\ [Next]_vars => [Step]_vars
  <2> SUFFICES ASSUME IInv, Next, NEW s \in Sims, NEW t \in Sims, pc[t] = "stopped",
                      signals = {}, rep[s] = None, rep'[s] # None
               PROVE  FALSE
    OBVIOUS
  <2>1. finalized = Sims /\ newConnections = Sims /\ \E u \in Sims : Away(u)
    BY DEF IInv, EndInv, HelloInv, Away
  <2>2. ASSUME NEW u \in Sims, SimStep(u) \/ Interrupt(u) PROVE FALSE
    <3>1. IInv /\ TypeInv
      BY DEF IInv
    <3>2. rep'[u] = None \/ rep'[u] = rep[u]
      BY <2>2, <3>1, Ways
    <3>3. s # u => rep'[s] = rep[s]
      BY <2>2, <3>1, Ways
    <3> QED BY <3>2, <3>3
  <2>3. ASSUME NEW u \in Sims, BrokerStep(u) PROVE FALSE
    <3>1. PICK k \in Kind : Handler(u, k) /\ Take(u, k)
      BY <2>3, HandlerQ DEF IInv
    <3>2. <<k, Arg(u)>> \in Q(u) /\ <<k, Arg(u)>>[1] = k
      BY <3>1, TakeQ DEF IInv, QueueInv, QueueOf
    <3>3. k # "HELLO" /\ k # "FINALIZE_REGISTRATIONS"
      BY <2>1, <3>2 DEF IInv, QueueInv, QueueOf, Has
    <3>4. CASE k = "CALL"
      <4>1. CallHandler(u)
        BY <3>1, <3>4 DEF Handler
      <4>2. PICK w \in Sims : Away(w)
        BY <2>1
      <4>3. Has(u, "CALL")
        BY <3>2, <3>4 DEF Has
      <4>4. w # u /\ proposals[w] = None
        BY <4>2, <4>3 DEF Away
      <4>5. Missing([proposals EXCEPT ![u] = Arg(u)])
        BY <4>4 DEF Missing, IInv, TypeInv
      <4> QED BY <4>1, <4>5 DEF CallHandler
    <3>5. CASE k # "CALL"
      BY <3>1, <3>3, <3>5 DEF Handler, RegisterHandler, FinishedHandler, NoContextHandler
    <3> QED BY <3>4, <3>5
  <2>4. ASSUME (\E m \in Msgs : Forward(m)) \/ InterruptBroker PROVE FALSE
    BY <2>4 DEF Forward, InterruptBroker
  <2> QED BY <2>2, <2>3, <2>4 DEF Next
<1>2. NoneGoesOn <=> [][Step]_vars
  BY DEF NoneGoesOn
<1> QED BY <1>1, <1>2, Invariant, PTL DEF Spec
=============================================================================
