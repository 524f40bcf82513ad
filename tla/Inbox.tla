------------------------------- MODULE Inbox --------------------------------
(***************************************************************************)
(* The receiving side of ObjectCommInterface: the vector of messages that  *)
(* arrived for one object, and the two ways its client reads it: all at    *)
(* once (getAllInboxMessages), or one by one (hasMoreMessages, then        *)
(* getNextInboxMessage), where the messages to return are found once and   *)
(* leave the vector only when the iteration ends.  Client and framework    *)
(* share one thread: messages arrive and time advances while the client is *)
(* in a call that waits, which may be amid an iteration.  No buffer        *)
(* strategy is set (it is optional).                                       *)
(***************************************************************************)
EXTENDS Integers, SequencesExt

CONSTANTS
  Msgs,      \* the messages that may arrive
  Stamp,     \* [Msgs -> Nat]: their time stamps
  Loss,      \* Integrator::getPacketLostPeriod()
  MaxTime,   \* bound on the simulator's time
  Batch,     \* bound: the messages getAllInboxMessages may find at once
  Gone       \* the null pointer left where a message has been taken

ASSUME InboxAssumption ==
  /\ Stamp \in [Msgs -> Nat]
  /\ Loss \in Nat
  /\ MaxTime \in Nat
  /\ Batch \in Nat
  /\ Gone \notin Msgs

VARIABLES
  time,     \* Integrator::getCurSimTime()
  inbox,    \* the messages, and Gone
  found,    \* msgs: positions in inbox, fixed when an iteration starts
  it,       \* position in found
  mode,     \* "free", "take" after hasMoreMessages said yes, "crashed"
  arrived,  \* history: the messages that were put in the inbox
  given     \* history: what the client was given, in order

vars == <<time, inbox, found, it, mode, arrived, given>>

-----------------------------------------------------------------------------
GraceTime(t) == IF t < Loss THEN 0 ELSE t - Loss

InFrame(m) == Stamp[m] <= time /\ Stamp[m] >= GraceTime(time)

\* The loop that collects the positions of the messages of the time frame.
Matching ==
  LET upTo[n \in 0 .. Len(inbox)] ==
        IF n = 0 THEN <<>>
        ELSE IF inbox[n] # Gone /\ InFrame(inbox[n]) THEN Append(upTo[n - 1], n)
        ELSE upTo[n - 1]
  IN upTo[Len(inbox)]

Init ==
  /\ time = 0
  /\ inbox = <<>>
  /\ found = <<>>
  /\ it = 1
  /\ mode = "free"
  /\ arrived = {}
  /\ given = <<>>

\* The client is in a call that waits, perhaps amid an iteration.
Waits == mode = "free"

\* It is granted a later time.
Advance ==
  /\ Waits
  /\ \E t \in (time + 1) .. MaxTime : time' = t
  /\ UNCHANGED <<inbox, found, it, mode, arrived, given>>

\* newMessage, once AbsCommManager::messageReceived has looked at the age.
NewMessage(m) ==
  /\ Waits
  /\ m \notin arrived
  /\ Stamp[m] >= GraceTime(time)
  /\ inbox' = Append(inbox, m)
  /\ arrived' = arrived \cup {m}
  /\ UNCHANGED <<time, found, it, mode, given>>

\* hasMoreMessages, starting an iteration.
HasMoreFirst ==
  /\ mode = "free"
  /\ found = <<>>
  /\ found' = Matching
  /\ it' = 1
  /\ mode' = IF Matching = <<>> THEN "free" ELSE "take"
  /\ UNCHANGED <<time, inbox, arrived, given>>

\* The loop that erases the elements at positions ps one after the other.
\* Past the end that is undefined: the vector's last element goes, or the
\* process crashes.
EraseEach(s, ps) ==
  LET left[n \in 0 .. Len(ps)] ==
        IF n = 0 THEN s
        ELSE IF ps[n] <= Len(left[n - 1]) THEN RemoveAt(left[n - 1], ps[n])
        ELSE Front(left[n - 1])
  IN left[Len(ps)]

\* (mutant) The positions are not corrected for what was erased before them.
Unshifted(ps) == ps

\* Each position is corrected for the elements erased before it.
Shifted(ps) == [k \in DOMAIN ps |-> ps[k] - (k - 1)]

\* (mutant) The slot of the message is not cleared.
Kept(s, i) == s

\* The client's message leaves a null pointer behind.
Cleared(s, i) == [s EXCEPT ![i] = Gone]

\* (mutant) The iterator is not advanced.
Same(i) == i

\* ++it: the position the iteration returns next.
Following(i) == i + 1

\* hasMoreMessages within an iteration: the next one, or the end of it.
HasMoreNext ==
  /\ mode = "free"
  /\ found # <<>>
  /\ IF it < Len(found)
     THEN it' = Following(it) /\ mode' = "take" /\ UNCHANGED <<inbox, found>>
     ELSE /\ inbox' = EraseEach(inbox, Shifted(found))
          /\ found' = <<>>
          /\ it' = 1
          /\ UNCHANGED mode
  /\ UNCHANGED <<time, arrived, given>>

\* getNextInboxMessage: the client owns the message from now on.
GetNextInboxMessage ==
  /\ mode = "take"
  /\ given' = Append(given, inbox[found[it]])
  /\ inbox' = Cleared(inbox, found[it])
  /\ mode' = "free"
  /\ UNCHANGED <<time, found, it, arrived>>

\* Positions that are not corrected may be past the end by their turn.
PastEnd(s, ps) == \E k \in DOMAIN ps : ps[k] > Len(s) - (k - 1)

\* getAllInboxMessages; it looks at the time of every element, null or not.
GetAllInboxMessages ==
  /\ mode = "free"
  /\ Len(Matching) \in 1 .. Batch
  /\ \/ /\ Contains(inbox, Gone) \/ PastEnd(inbox, Matching)
        /\ mode' = "crashed"
        /\ UNCHANGED <<inbox, given>>
     \/ /\ ~Contains(inbox, Gone)
        /\ given' = given \o [k \in DOMAIN Matching |-> inbox[Matching[k]]]
        /\ inbox' = EraseEach(inbox, Matching)
        /\ UNCHANGED mode
  /\ UNCHANGED <<time, found, it, arrived>>

Next ==
  \/ Advance
  \/ \E m \in Msgs : NewMessage(m)
  \/ HasMoreFirst \/ HasMoreNext \/ GetNextInboxMessage
  \/ GetAllInboxMessages

Spec == Init /\ [][Next]_vars

-----------------------------------------------------------------------------
(* Properties.                                                             *)

\* No message is given to the client twice, and the client, who deletes what
\* it is given, never gets the null pointer of a message it took before.
\* That is so of reading one by one, and of getAllInboxMessages as long as it
\* finds one message at most (Batch <= 1); of several it erases the wrong ones,
\* and gives one again.
GivenOnce == IsInjective(given) /\ ToSet(given) \subseteq arrived

\* A message that arrived has been given to the client or is still there for
\* it, and nothing else is once an iteration has ended: whatever arrived amid
\* the iteration, the positions found at its start erase what was taken.
NothingLost ==
  /\ arrived \subseteq ToSet(given) \cup ToSet(inbox)
  /\ found = <<>> => ToSet(inbox) = arrived \ ToSet(given)

\* An iteration survives whatever happens between its calls: the positions it
\* found still hold what they held, except for the messages taken since.  (A
\* client that calls getAllInboxMessages meanwhile would erase under it; but
\* that call runs into a null pointer first.)
PositionsValid ==
  \A k \in DOMAIN found :
    /\ found[k] \in DOMAIN inbox
    /\ k < it => inbox[found[k]] = Gone
    /\ k > it => inbox[found[k]] \in arrived \ ToSet(given)
=============================================================================
