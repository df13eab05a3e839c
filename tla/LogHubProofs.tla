---------------------------- MODULE LogHubProofs ----------------------------
(***************************************************************************)
(* Theorems about LogHub, for any publishers, subscribers, buffer sizes    *)
(* and numbers of events.                                                  *)
(***************************************************************************)
EXTENDS LogHub, TLAPS

Events == Publishers \X Nat

(* What the variables hold, the contents of the channels included. *)
HubTypes ==
  /\ TypeOK
  /\ queue \in [Subs -> Seq(Events)] /\ received \in [Subs -> Seq(Events)]
  /\ count \in [Publishers -> Nat]
  /\ endless \in BOOLEAN

(* The two locks: a publisher is at a subscriber exactly while it holds     *)
(* that subscriber's mutex, and outside its fan-out it holds nothing.       *)
LocksAreHeld ==
  \A p \in Publishers :
    /\ pc[p] \in {"evict", "push"} <=> at[p] \in Subs
    /\ at[p] \in Subs => holder[at[p]] = p /\ at[p] \notin todo[p]
    /\ pc[p] = "idle" => todo[p] = {}

(* x may come before y in a channel. *)
Before(x, y) == x[1] = y[1] => x[2] < y[2]

(* The stream of a subscriber, its received and its buffered part apart. *)
StreamIsOrdered(s) ==
  /\ \A i, j \in 1..Len(received[s]) : i < j => Before(received[s][i], received[s][j])
  /\ \A i, j \in 1..Len(queue[s]) : i < j => Before(queue[s][i], queue[s][j])
  /\ \A i \in 1..Len(received[s]), j \in 1..Len(queue[s]) : Before(received[s][i], queue[s][j])

(* The event x has been begun and, if its publisher has yet to come to s,   *)
(* is not the one it is publishing.                                         *)
Past(s, x) ==
  /\ x[2] <= count[x[1]]
  /\ s \in todo[x[1]] \/ at[x[1]] = s => x[2] < count[x[1]]

StreamIsPast(s) ==
  /\ \A i \in 1..Len(received[s]) : Past(s, received[s][i])
  /\ \A i \in 1..Len(queue[s]) : Past(s, queue[s][i])

Numbered == ~endless => \A s \in Subs : StreamIsOrdered(s) /\ StreamIsPast(s)

Counted == ~endless => DropsAreCounted

-----------------------------------------------------------------------------
LEMMA CapacityIsPositive == ASSUME NEW s \in Subs PROVE Capacity(s) \in Nat /\ Capacity(s) >= 1
BY HubAssumption DEF Capacity

LEMMA TypesStep == ASSUME HubTypes, LocksAreHeld, [Next]_vars PROVE HubTypes'
<1> USE DEF HubTypes, TypeOK, Goto, Move
<1>1. ASSUME NEW p \in Publishers, PublishBegin(p)
      PROVE  HubTypes'
  <2>1. Increment(count[p]) \in Nat /\ Increment(count[p]) <= MaxEvents[p]
    <3>1. CASE endless
      <4>1. Increment(count[p]) = count[p]
        BY <3>1 DEF Increment
      <4> QED
        BY <4>1
    <3>2. CASE ~endless
      <4>1. Increment(count[p]) = count[p] + 1 /\ count[p] < MaxEvents[p]
        BY <1>1, <3>2 DEF PublishBegin, Increment
      <4> QED
        BY <4>1, HubAssumption
    <3> QED
      BY <3>1, <3>2
  <2>2. count' = [count EXCEPT ![p] = Increment(count[p])]
    BY <1>1 DEF PublishBegin
  <2>3. Registered \in SUBSET Subs
    BY DEF Registered
  <2> QED
    BY <1>1, <2>1, <2>2, <2>3 DEF PublishBegin
<1>2. ASSUME NEW p \in Publishers, NEW s \in Subs, LockSubscriber(p, s)
      PROVE  HubTypes'
  BY <1>2 DEF LockSubscriber
<1>3. ASSUME NEW p \in Publishers, DropOldest(p)
      PROVE  HubTypes'
  <2>1. at[p] \in Subs
    BY <1>3 DEF DropOldest, LocksAreHeld
  <2>2. CASE queue[at[p]] # <<>>
    <3>1. Tail(queue[at[p]]) \in Seq(Events) /\ Len(Tail(queue[at[p]])) <= Capacity(at[p])
      BY <2>1, <2>2, CapacityIsPositive
    <3> QED
      <4>1. queue' = [queue EXCEPT ![at[p]] = Tail(queue[at[p]])]
            /\ dropped' = [dropped EXCEPT ![at[p]] = Increment(dropped[at[p]])]
        BY <1>3, <2>2 DEF DropOldest
      <4>2. Increment(dropped[at[p]]) \in Nat
        BY <2>1 DEF Increment
      <4> QED
        BY <1>3, <2>1, <3>1, <4>1, <4>2 DEF DropOldest
  <2>3. CASE queue[at[p]] = <<>>
    BY <1>3, <2>3 DEF DropOldest
  <2> QED
    BY <2>2, <2>3
<1>4. ASSUME NEW p \in Publishers, PushEvent(p)
      PROVE  HubTypes'
  <2>1. at[p] \in Subs
    BY <1>4 DEF PushEvent, LocksAreHeld
  <2>2. Event(p) \in Events
    BY DEF Event, Events
  <2>3. CASE Len(queue[at[p]]) < Capacity(at[p])
    <3>1. Append(queue[at[p]], Event(p)) \in Seq(Events)
          /\ Len(Append(queue[at[p]], Event(p))) <= Capacity(at[p])
      BY <2>1, <2>2, <2>3, CapacityIsPositive
    <3> QED
      BY <1>4, <2>1, <2>3, <3>1 DEF PushEvent, Increment
  <2>4. CASE ~(Len(queue[at[p]]) < Capacity(at[p]))
    BY <1>4, <2>1, <2>4 DEF PushEvent, Increment
  <2> QED
    BY <2>3, <2>4
<1>5. ASSUME NEW p \in Publishers, PublishEnd(p)
      PROVE  HubTypes'
  BY <1>5 DEF PublishEnd
<1>6. ASSUME NEW s \in Subs, SubscribeBegin(s) \/ CloseBegin(s) \/ Locking(s)
      PROVE  HubTypes'
  BY <1>6 DEF SubscribeBegin, CloseBegin, Locking, SubscribeLocked, CloseLocked, CloseChannel
<1>7. ASSUME NEW s \in Subs, Receive(s)
      PROVE  HubTypes'
  <2>1. Tail(queue[s]) \in Seq(Events) /\ Len(Tail(queue[s])) <= Capacity(s)
        /\ Append(received[s], Head(queue[s])) \in Seq(Events)
    BY <1>7, CapacityIsPositive DEF Receive
  <2> QED
    BY <1>7, <2>1 DEF Receive
<1>8. CASE BoundsReached \/ UNCHANGED vars
  BY <1>8 DEF BoundsReached, vars
<1> QED
  BY <1>1, <1>2, <1>3, <1>4, <1>5, <1>6, <1>7, <1>8 DEF Next, Publishing

(* The locks.  Only a fan-out without anything in hand ends. *)
LEMMA LocksStep == ASSUME HubTypes, LocksAreHeld, [Next]_vars PROVE LocksAreHeld'
<1> USE HubAssumption DEF HubTypes, TypeOK, LocksAreHeld, Goto, Move
<1>1. ASSUME NEW p \in Publishers, PublishBegin(p)
      PROVE  LocksAreHeld'
  BY <1>1 DEF PublishBegin
<1>2. ASSUME NEW p \in Publishers, NEW s \in Subs, LockSubscriber(p, s)
      PROVE  LocksAreHeld'
  BY <1>2 DEF LockSubscriber
<1>3. ASSUME NEW p \in Publishers, DropOldest(p)
      PROVE  LocksAreHeld'
  BY <1>3 DEF DropOldest
<1>4. ASSUME NEW p \in Publishers, PushEvent(p)
      PROVE  LocksAreHeld'
  BY <1>4 DEF PushEvent
<1>5. ASSUME NEW p \in Publishers, PublishEnd(p)
      PROVE  LocksAreHeld'
  BY <1>5 DEF PublishEnd
<1>6. CASE UNCHANGED <<holder, pc, todo, at>>
  BY <1>6
<1> QED
  BY <1>1, <1>2, <1>3, <1>4, <1>5, <1>6
     DEF Next, Publishing, Locking, SubscribeBegin, CloseBegin, SubscribeLocked,
         CloseLocked, CloseChannel, Receive, BoundsReached, vars

(* Nothing is deleted during a fan-out, and only what is deleted is closed. *)
LEMMA NoSendStep ==
  ASSUME HubTypes, LocksAreHeld, NoSendOnClosed, [Next]_vars
  PROVE  NoSendOnClosed'
<1> USE HubAssumption DEF HubTypes, TypeOK, NoSendOnClosed, Goto, Move
<1>1. ASSUME NEW p \in Publishers, PublishBegin(p)
      PROVE  NoSendOnClosed'
  BY <1>1 DEF PublishBegin, Registered
<1>2. ASSUME NEW p \in Publishers, NEW s \in Subs, LockSubscriber(p, s)
      PROVE  NoSendOnClosed'
  BY <1>2 DEF LockSubscriber
<1>3. ASSUME NEW p \in Publishers, DropOldest(p) \/ PushEvent(p) \/ PublishEnd(p)
      PROVE  NoSendOnClosed'
  <2>1. phase' = phase /\ todo' = todo
    BY <1>3 DEF DropOldest, PushEvent, PublishEnd
  <2>2. \A q \in Publishers : at'[q] = at[q] \/ at'[q] = Nobody
    BY <1>3 DEF DropOldest, PushEvent, PublishEnd
  <2> QED
    BY <2>1, <2>2
<1>4. ASSUME NEW s \in Subs, SubscribeBegin(s) \/ CloseBegin(s)
      PROVE  NoSendOnClosed'
  <2>1. at' = at /\ todo' = todo
    BY <1>4 DEF SubscribeBegin, CloseBegin
  <2>2. \A t \in Subs : phase[t] \in {"open", "closing"} => phase'[t] \in {"open", "closing"}
    BY <1>4 DEF SubscribeBegin, CloseBegin
  <2> QED
    BY <2>1, <2>2
<1>5. ASSUME NEW s \in Subs, SubscribeLocked(s) \/ CloseLocked(s)
      PROVE  NoSendOnClosed'
  <2>1. \A p \in Publishers : at[p] = Nobody /\ todo[p] = {}
    <3>1. \A p \in Publishers : pc[p] = "idle"
      <4>1. ~ReadLocked
        BY <1>5 DEF SubscribeLocked, CloseLocked
      <4> QED
        BY <4>1 DEF ReadLocked
    <3>2. ASSUME NEW p \in Publishers
          PROVE  at[p] \notin Subs /\ todo[p] = {}
      <4>1. pc[p] \notin {"evict", "push"} /\ pc[p] = "idle"
        BY <3>1
      <4> QED
        BY <4>1 DEF LocksAreHeld
    <3> QED
      BY <3>2
  <2> QED
    BY <1>5, <2>1 DEF SubscribeLocked, CloseLocked
<1>6. ASSUME NEW s \in Subs, CloseChannel(s)
      PROVE  NoSendOnClosed'
  BY <1>6 DEF CloseChannel
<1>7. CASE UNCHANGED <<phase, at, todo>>
  BY <1>7
<1> QED
  BY <1>1, <1>2, <1>3, <1>4, <1>5, <1>6, <1>7
     DEF Next, Publishing, Locking, Receive, BoundsReached, vars

(* The producer that holds the mutex keeps the room it has found or made:   *)
(* others cannot push, and the reader only takes away.                      *)
LEMMA RoomStep ==
  ASSUME HubTypes, LocksAreHeld, NewestIsKept, [Next]_vars
  PROVE  NewestIsKept'
<1> USE HubAssumption, CapacityIsPositive DEF HubTypes, TypeOK, LocksAreHeld, NewestIsKept, Goto, Move
<1>1. ASSUME NEW p \in Publishers, PublishBegin(p)
      PROVE  NewestIsKept'
  BY <1>1 DEF PublishBegin
<1>2. ASSUME NEW p \in Publishers, NEW s \in Subs, LockSubscriber(p, s)
      PROVE  NewestIsKept'
  BY <1>2 DEF LockSubscriber
<1>3. ASSUME NEW p \in Publishers, DropOldest(p)
      PROVE  NewestIsKept'
  <2>1. at[p] \in Subs /\ at' = at /\ Len(queue'[at[p]]) < Capacity(at[p])
    BY <1>3 DEF DropOldest
  <2>2. \A s \in Subs \ {at[p]} : queue'[s] = queue[s]
    BY <1>3 DEF DropOldest
  <2> QED
    <3>1. pc' = [pc EXCEPT ![p] = "push"]
      BY <1>3 DEF DropOldest
    <3> QED
      BY <2>1, <2>2, <3>1
<1>4. ASSUME NEW p \in Publishers, PushEvent(p)
      PROVE  NewestIsKept'
  <2>1. at[p] \in Subs /\ pc' = [pc EXCEPT ![p] = "fanout"] /\ at' = [at EXCEPT ![p] = Nobody]
        /\ \A s \in Subs \ {at[p]} : queue'[s] = queue[s]
    BY <1>4 DEF PushEvent
  <2>2. ASSUME NEW q \in Publishers, pc'[q] = "push"
        PROVE  Len(queue'[at'[q]]) < Capacity(at'[q])
    <3>1. q # p /\ pc[q] = "push" /\ at'[q] = at[q]
      BY <2>1, <2>2
    <3>2. at[q] \in Subs \ {at[p]}
      BY <2>1, <3>1
    <3> QED
      BY <2>1, <3>1, <3>2
  <2> QED
    BY <2>2
<1>5. ASSUME NEW p \in Publishers, PublishEnd(p)
      PROVE  NewestIsKept'
  BY <1>5 DEF PublishEnd
<1>6. ASSUME NEW s \in Subs, Receive(s)
      PROVE  NewestIsKept'
  <2>1. Len(queue'[s]) <= Len(queue[s]) /\ Len(queue'[s]) \in Nat /\ Len(queue[s]) \in Nat
        /\ \A t \in Subs \ {s} : queue'[t] = queue[t]
    BY <1>6 DEF Receive
  <2> QED
    BY <1>6, <2>1 DEF Receive
<1>7. CASE UNCHANGED <<queue, pc, at>>
  BY <1>7
<1> QED
  BY <1>1, <1>2, <1>3, <1>4, <1>5, <1>6, <1>7
     DEF Next, Publishing, Locking, SubscribeBegin, CloseBegin, SubscribeLocked,
         CloseLocked, CloseChannel, BoundsReached, vars

(* Every event offered is somewhere: an overflow moves one from the buffer  *)
(* to the counter, a receive moves one to the reader.                       *)
LEMMA CountedStep ==
  ASSUME HubTypes, LocksAreHeld, Counted, [Next]_vars
  PROVE  Counted'
<1> SUFFICES ASSUME ~endless, DropsAreCounted
             PROVE  DropsAreCounted'
  <2>1. endless' = endless
    BY DEF Next, Publishing, Locking, PublishBegin, LockSubscriber, DropOldest, PushEvent,
           PublishEnd, SubscribeBegin, CloseBegin, SubscribeLocked, CloseLocked,
           CloseChannel, Receive, BoundsReached, vars
  <2> QED
    BY <2>1 DEF Counted
<1> USE HubAssumption, CapacityIsPositive DEF HubTypes, TypeOK, DropsAreCounted, Goto, Move
<1>1. ASSUME NEW p \in Publishers, DropOldest(p)
      PROVE  DropsAreCounted'
  <2>1. at[p] \in Subs
    BY <1>1 DEF DropOldest, LocksAreHeld
  <2>2. CASE queue[at[p]] # <<>>
    <3>1. queue' = [queue EXCEPT ![at[p]] = Tail(queue[at[p]])]
          /\ dropped' = [dropped EXCEPT ![at[p]] = dropped[at[p]] + 1]
          /\ received' = received /\ offered' = offered
      BY <1>1, <2>2 DEF DropOldest, Increment
    <3>2. Len(Tail(queue[at[p]])) = Len(queue[at[p]]) - 1 /\ Len(queue[at[p]]) \in Nat
      BY <2>1, <2>2
    <3> QED
      <4> TAKE t \in Subs
      <4>1. CASE t = at[p]
        <5>1. Len(queue'[t]) = Len(queue[t]) - 1 /\ dropped'[t] = dropped[t] + 1
              /\ Len(queue[t]) \in Nat /\ dropped[t] \in Nat /\ Len(received[t]) \in Nat
              /\ UNCHANGED <<offered[t], received[t]>>
          BY <2>1, <3>1, <3>2, <4>1
        <5>2. offered[t] = Len(received[t]) + Len(queue[t]) + dropped[t]
          OBVIOUS
        <5> QED
          BY <5>1, <5>2
      <4>2. CASE t # at[p]
        <5>1. UNCHANGED <<offered[t], received[t], queue[t], dropped[t]>>
          BY <2>1, <3>1, <3>2, <4>2
        <5> QED
          BY <5>1
      <4> QED
        BY <4>1, <4>2
  <2>3. CASE queue[at[p]] = <<>>
    BY <1>1, <2>3 DEF DropOldest
  <2> QED
    BY <2>2, <2>3
<1>2. ASSUME NEW p \in Publishers, PushEvent(p)
      PROVE  DropsAreCounted'
  <2>1. at[p] \in Subs /\ Event(p) \in Events
    BY <1>2 DEF PushEvent, LocksAreHeld, Event, Events
  <2>2. offered' = [offered EXCEPT ![at[p]] = offered[at[p]] + 1] /\ received' = received
    BY <1>2 DEF PushEvent, Increment
  <2>3. CASE Len(queue[at[p]]) < Capacity(at[p])
    <3>1. queue' = [queue EXCEPT ![at[p]] = Append(queue[at[p]], Event(p))] /\ dropped' = dropped
      BY <1>2, <2>3 DEF PushEvent
    <3>2. Len(Append(queue[at[p]], Event(p))) = Len(queue[at[p]]) + 1 /\ Len(queue[at[p]]) \in Nat
      BY <2>1
    <3> QED
      <4> TAKE t \in Subs
      <4>1. CASE t = at[p]
        BY <2>1, <2>2, <3>1, <3>2, <4>1
      <4>2. CASE t # at[p]
        <5>1. UNCHANGED <<offered[t], received[t], queue[t], dropped[t]>>
          BY <2>1, <2>2, <3>1, <3>2, <4>2
        <5> QED
          BY <5>1
      <4> QED
        BY <4>1, <4>2
  <2>4. CASE ~(Len(queue[at[p]]) < Capacity(at[p]))
    <3>1. queue' = queue /\ dropped' = [dropped EXCEPT ![at[p]] = dropped[at[p]] + 1]
      BY <1>2, <2>4 DEF PushEvent, Increment
    <3> QED
      <4> TAKE t \in Subs
      <4>1. CASE t = at[p]
        BY <2>1, <2>2, <3>1, <4>1
      <4>2. CASE t # at[p]
        <5>1. UNCHANGED <<offered[t], received[t], queue[t], dropped[t]>>
          BY <2>1, <2>2, <3>1, <4>2
        <5> QED
          BY <5>1
      <4> QED
        BY <4>1, <4>2
  <2> QED
    BY <2>3, <2>4
<1>3. ASSUME NEW s \in Subs, Receive(s)
      PROVE  DropsAreCounted'
  <2>1. queue' = [queue EXCEPT ![s] = Tail(queue[s])] /\ dropped' = dropped /\ offered' = offered
        /\ received' = [received EXCEPT ![s] = Append(received[s], Head(queue[s]))]
        /\ queue[s] # <<>>
    BY <1>3 DEF Receive
  <2>2. Len(Tail(queue[s])) = Len(queue[s]) - 1 /\ Len(queue[s]) \in Nat
        /\ Len(Append(received[s], Head(queue[s]))) = Len(received[s]) + 1
        /\ Len(received[s]) \in Nat
    BY <2>1
  <2> QED
    BY <2>1, <2>2
<1>4. CASE UNCHANGED <<queue, dropped, received, offered>>
  BY <1>4
<1> QED
  BY <1>1, <1>2, <1>3, <1>4
     DEF Next, Publishing, Locking, PublishBegin, LockSubscriber, PublishEnd, SubscribeBegin,
         CloseBegin, SubscribeLocked, CloseLocked, CloseChannel, BoundsReached, vars

-----------------------------------------------------------------------------
(* A publisher that begins an event is past all its earlier ones, and a     *)
(* subscriber is still to come exactly until its event is pushed.           *)
StillToCome(p, s) == s \in todo[p] \/ at[p] = s

LEMMA PastKept ==
  ASSUME HubTypes, HubTypes', NEW s \in Subs,
         \A p \in Publishers : \/ count'[p] > count[p]
                               \/ count'[p] = count[p] /\ (StillToCome(p, s)' => StillToCome(p, s))
  PROVE  \A x \in Events : Past(s, x) => Past(s, x)'
<1> TAKE x \in Events
<1> HAVE Past(s, x)
<1>1. x[1] \in Publishers /\ x[2] \in Nat /\ count[x[1]] \in Nat /\ count'[x[1]] \in Nat
  BY DEF Events, HubTypes, TypeOK
<1>2. x[2] <= count[x[1]] /\ (StillToCome(x[1], s) => x[2] < count[x[1]])
  BY DEF Past, StillToCome
<1>3. x[2] <= count'[x[1]] /\ (StillToCome(x[1], s)' => x[2] < count'[x[1]])
  BY <1>1, <1>2
<1> QED
  BY <1>3 DEF Past, StillToCome

LEMMA StreamContents ==
  ASSUME HubTypes, NEW s \in Subs
  PROVE  /\ received[s] \in Seq(Events) /\ queue[s] \in Seq(Events)
         /\ \A i \in 1..Len(received[s]) : received[s][i] \in Events
         /\ \A i \in 1..Len(queue[s]) : queue[s][i] \in Events
<1>1. received[s] \in Seq(Events) /\ queue[s] \in Seq(Events)
  BY DEF HubTypes
<1> QED
  BY <1>1

(* The channel of s as it is after a step: what was in it, in order, and    *)
(* perhaps a new event at its end.                                          *)
LEMMA SameStream ==
  ASSUME HubTypes, NEW s \in Subs, StreamIsOrdered(s), StreamIsPast(s),
         \A x \in Events : Past(s, x) => Past(s, x)',
         queue'[s] = queue[s], received'[s] = received[s]
  PROVE  StreamIsOrdered(s)' /\ StreamIsPast(s)'
<1>1. StreamIsOrdered(s)'
  BY DEF StreamIsOrdered, Before
<1>2. \A i \in 1..Len(received[s]) : received[s][i] \in Events /\ Past(s, received[s][i])
  BY StreamContents DEF StreamIsPast
<1>3. \A i \in 1..Len(queue[s]) : queue[s][i] \in Events /\ Past(s, queue[s][i])
  BY StreamContents DEF StreamIsPast
<1>4. StreamIsPast(s)'
  BY <1>2, <1>3 DEF StreamIsPast, Past
<1> QED
  BY <1>1, <1>4

LEMMA DroppedStream ==
  ASSUME HubTypes, NEW s \in Subs, StreamIsOrdered(s), StreamIsPast(s), queue[s] # <<>>,
         \A x \in Events : Past(s, x) => Past(s, x)',
         queue'[s] = Tail(queue[s]), received'[s] = received[s]
  PROVE  StreamIsOrdered(s)' /\ StreamIsPast(s)'
<1>0. Len(queue[s]) \in Nat /\ Len(queue'[s]) = Len(queue[s]) - 1
      /\ \A i \in 1..Len(queue'[s]) : queue'[s][i] = queue[s][i + 1] /\ i + 1 \in 1..Len(queue[s])
  <2>1. queue[s] \in Seq(Events)
    BY StreamContents
  <2> QED
    BY <2>1
<1>1. StreamIsOrdered(s)'
  <2>1. \A i, j \in 1..Len(queue'[s]) : i < j => Before(queue'[s][i], queue'[s][j])
    BY <1>0 DEF StreamIsOrdered
  <2>2. \A i \in 1..Len(received[s]), j \in 1..Len(queue'[s]) : Before(received[s][i], queue'[s][j])
    BY <1>0 DEF StreamIsOrdered
  <2>3. \A i, j \in 1..Len(received[s]) : i < j => Before(received[s][i], received[s][j])
    BY DEF StreamIsOrdered
  <2> QED
    BY <2>1, <2>2, <2>3 DEF StreamIsOrdered, Before
<1>2. \A i \in 1..Len(received[s]) : received[s][i] \in Events /\ Past(s, received[s][i])
  BY StreamContents DEF StreamIsPast
<1>3. \A i \in 1..Len(queue[s]) : queue[s][i] \in Events /\ Past(s, queue[s][i])
  BY StreamContents DEF StreamIsPast
<1>4. StreamIsPast(s)'
  <2>1. \A i \in 1..Len(queue'[s]) : queue'[s][i] \in Events /\ Past(s, queue'[s][i])
    BY <1>0, <1>3
  <2> QED
    BY <1>2, <2>1 DEF StreamIsPast, Past
<1> QED
  BY <1>1, <1>4

LEMMA ReceivedStream ==
  ASSUME HubTypes, NEW s \in Subs, StreamIsOrdered(s), StreamIsPast(s), queue[s] # <<>>,
         \A x \in Events : Past(s, x) => Past(s, x)',
         queue'[s] = Tail(queue[s]), received'[s] = Append(received[s], Head(queue[s]))
  PROVE  StreamIsOrdered(s)' /\ StreamIsPast(s)'
<1>0. Len(queue[s]) \in Nat /\ Len(queue'[s]) = Len(queue[s]) - 1 /\ 1 \in 1..Len(queue[s])
      /\ \A i \in 1..Len(queue'[s]) : queue'[s][i] = queue[s][i + 1] /\ i + 1 \in 1..Len(queue[s])
  BY DEF HubTypes, TypeOK
<1>1. Len(received[s]) \in Nat /\ Len(received'[s]) = Len(received[s]) + 1
      /\ (\A i \in 1..Len(received[s]) : received'[s][i] = received[s][i])
      /\ received'[s][Len(received[s]) + 1] = queue[s][1]
  BY <1>0 DEF HubTypes, TypeOK
<1>6. \A i \in 1..Len(received'[s]) :
        \/ i \in 1..Len(received[s]) /\ received'[s][i] = received[s][i]
        \/ i = Len(received[s]) + 1 /\ received'[s][i] = queue[s][1]
  BY <1>1
<1>2. StreamIsOrdered(s)'
  <2>1. \A i, j \in 1..Len(received'[s]) : i < j => Before(received'[s][i], received'[s][j])
    BY <1>0, <1>1, <1>6 DEF StreamIsOrdered
  <2>2. \A i, j \in 1..Len(queue'[s]) : i < j => Before(queue'[s][i], queue'[s][j])
    BY <1>0 DEF StreamIsOrdered
  <2>3. \A i \in 1..Len(received'[s]), j \in 1..Len(queue'[s]) : Before(received'[s][i], queue'[s][j])
    BY <1>0, <1>1, <1>6 DEF StreamIsOrdered
  <2> QED
    BY <2>1, <2>2, <2>3 DEF StreamIsOrdered, Before
<1>3. \A i \in 1..Len(received[s]) : received[s][i] \in Events /\ Past(s, received[s][i])
  BY StreamContents DEF StreamIsPast
<1>4. \A i \in 1..Len(queue[s]) : queue[s][i] \in Events /\ Past(s, queue[s][i])
  BY StreamContents DEF StreamIsPast
<1>5. StreamIsPast(s)'
  <2>1. \A i \in 1..Len(received'[s]) : received'[s][i] \in Events /\ Past(s, received'[s][i])
    BY <1>0, <1>3, <1>4, <1>6
  <2>2. \A i \in 1..Len(queue'[s]) : queue'[s][i] \in Events /\ Past(s, queue'[s][i])
    BY <1>0, <1>4
  <2> QED
    BY <2>1, <2>2 DEF StreamIsPast, Past
<1> QED
  BY <1>2, <1>5

LEMMA PushedStream ==
  ASSUME HubTypes, NEW s \in Subs, StreamIsOrdered(s), StreamIsPast(s),
         \A x \in Events : Past(s, x) => Past(s, x)',
         NEW e \in Events, Past(s, e)',
         StillToCome(e[1], s), e[2] = count[e[1]],
         queue'[s] = Append(queue[s], e), received'[s] = received[s]
  PROVE  StreamIsOrdered(s)' /\ StreamIsPast(s)'
<1>0. Len(queue[s]) \in Nat /\ Len(queue'[s]) = Len(queue[s]) + 1
      /\ (\A i \in 1..Len(queue[s]) : queue'[s][i] = queue[s][i])
      /\ queue'[s][Len(queue[s]) + 1] = e
  BY DEF HubTypes, TypeOK
<1>1. \A i \in 1..Len(received[s]) : received[s][i] \in Events /\ Past(s, received[s][i])
  BY StreamContents DEF StreamIsPast
<1>2. \A i \in 1..Len(queue[s]) : queue[s][i] \in Events /\ Past(s, queue[s][i])
  BY StreamContents DEF StreamIsPast
<1>3. \A x \in Events : Past(s, x) => Before(x, e)
  BY DEF Past, StillToCome, Before
<1>6. \A i \in 1..Len(queue'[s]) :
        \/ i \in 1..Len(queue[s]) /\ queue'[s][i] = queue[s][i]
        \/ i = Len(queue[s]) + 1 /\ queue'[s][i] = e
  BY <1>0
<1>4. StreamIsOrdered(s)'
  <2>1. \A i, j \in 1..Len(queue'[s]) : i < j => Before(queue'[s][i], queue'[s][j])
    BY <1>0, <1>2, <1>3, <1>6 DEF StreamIsOrdered
  <2>2. \A i \in 1..Len(received[s]), j \in 1..Len(queue'[s]) : Before(received[s][i], queue'[s][j])
    BY <1>0, <1>1, <1>3, <1>6 DEF StreamIsOrdered
  <2> QED
    BY <2>1, <2>2 DEF StreamIsOrdered, Before
<1>5. StreamIsPast(s)'
  <2>1. \A i \in 1..Len(queue'[s]) :
          queue'[s][i] = e \/ (queue'[s][i] \in Events /\ Past(s, queue'[s][i]))
    BY <1>2, <1>6
  <2> QED
    BY <1>1, <2>1 DEF StreamIsPast, Past
<1> QED
  BY <1>4, <1>5

LEMMA NumberedStep ==
  ASSUME HubTypes, HubTypes', LocksAreHeld, Numbered, [Next]_vars
  PROVE  Numbered'
<1> SUFFICES ASSUME ~endless, NEW s \in Subs, StreamIsOrdered(s), StreamIsPast(s)
             PROVE  StreamIsOrdered(s)' /\ StreamIsPast(s)'
  <2>1. endless' = endless
    BY DEF Next, Publishing, Locking, PublishBegin, LockSubscriber, DropOldest, PushEvent,
           PublishEnd, SubscribeBegin, CloseBegin, SubscribeLocked, CloseLocked,
           CloseChannel, Receive, BoundsReached, vars
  <2> QED
    BY <2>1 DEF Numbered
<1> USE DEF Goto, Move
<1>1. ASSUME NEW p \in Publishers, PublishBegin(p)
      PROVE  StreamIsOrdered(s)' /\ StreamIsPast(s)'
  <2>1. count' = [count EXCEPT ![p] = count[p] + 1] /\ at' = at
        /\ todo' = [todo EXCEPT ![p] = Registered] /\ queue' = queue /\ received' = received
    BY <1>1 DEF PublishBegin, Increment
  <2>2. \A q \in Publishers : \/ count'[q] > count[q]
                              \/ count'[q] = count[q] /\ (StillToCome(q, s)' => StillToCome(q, s))
    BY <2>1 DEF HubTypes, TypeOK, StillToCome
  <2> QED
    BY <2>1, <2>2, PastKept, SameStream
<1>2. ASSUME NEW p \in Publishers, NEW t \in Subs, LockSubscriber(p, t)
      PROVE  StreamIsOrdered(s)' /\ StreamIsPast(s)'
  <2>1. count' = count /\ at' = [at EXCEPT ![p] = t] /\ t \in todo[p]
        /\ todo' = [todo EXCEPT ![p] = todo[p] \ {t}] /\ queue' = queue /\ received' = received
    BY <1>2 DEF LockSubscriber
  <2>2. \A q \in Publishers : count'[q] = count[q] /\ (StillToCome(q, s)' => StillToCome(q, s))
    BY <2>1 DEF HubTypes, TypeOK, StillToCome
  <2> QED
    BY <2>1, <2>2, PastKept, SameStream
<1>3. ASSUME NEW p \in Publishers, DropOldest(p)
      PROVE  StreamIsOrdered(s)' /\ StreamIsPast(s)'
  <2>1. UNCHANGED <<count, at, todo, received>>
    BY <1>3 DEF DropOldest
  <2>2. \A x \in Events : Past(s, x) => Past(s, x)'
    BY <2>1 DEF Past
  <2>3. \/ queue'[s] = queue[s]
        \/ queue[s] # <<>> /\ queue'[s] = Tail(queue[s])
    BY <1>3 DEF DropOldest, HubTypes, TypeOK
  <2> QED
    BY <2>1, <2>2, <2>3, SameStream, DroppedStream
<1>4. ASSUME NEW p \in Publishers, PushEvent(p)
      PROVE  StreamIsOrdered(s)' /\ StreamIsPast(s)'
  <2>1. at[p] \in Subs /\ at[p] \notin todo[p] /\ count' = count /\ todo' = todo
        /\ at' = [at EXCEPT ![p] = Nobody] /\ received' = received
    BY <1>4 DEF PushEvent, LocksAreHeld
  <2>2. \A q \in Publishers : count'[q] = count[q] /\ (StillToCome(q, s)' => StillToCome(q, s))
    BY <2>1, HubAssumption DEF HubTypes, TypeOK, StillToCome
  <2>3. \A x \in Events : Past(s, x) => Past(s, x)'
    BY <2>2, PastKept
  <2>4. CASE queue'[s] = queue[s]
    BY <2>1, <2>3, <2>4, SameStream
  <2>5. CASE at[p] = s /\ queue'[s] = Append(queue[s], Event(p))
    <3>1. Event(p) \in Events /\ Event(p)[1] = p /\ Event(p)[2] = count[p]
      BY DEF Event, Events, HubTypes, TypeOK
    <3>2. ASSUME NEW e \in Events, e = Event(p)
          PROVE  StreamIsOrdered(s)' /\ StreamIsPast(s)'
      <4>1. e[1] = p /\ e[2] = count[p] /\ StillToCome(e[1], s)
        BY <2>5, <3>1, <3>2 DEF StillToCome
      <4>2. Past(s, e)'
        BY <2>1, <2>5, <4>1, HubAssumption DEF Past, HubTypes, TypeOK
      <4> QED
        BY <2>1, <2>3, <2>5, <3>2, <4>1, <4>2, PushedStream
    <3> QED
      BY <3>1, <3>2
  <2> QED
    BY <1>4, <2>1, <2>4, <2>5 DEF PushEvent, HubTypes, TypeOK
<1>5. ASSUME NEW p \in Publishers, PublishEnd(p)
      PROVE  StreamIsOrdered(s)' /\ StreamIsPast(s)'
  BY <1>5, SameStream DEF PublishEnd, Past
<1>6. ASSUME NEW t \in Subs, Receive(t)
      PROVE  StreamIsOrdered(s)' /\ StreamIsPast(s)'
  <2>1. UNCHANGED <<count, at, todo>>
    BY <1>6 DEF Receive
  <2>2. \A x \in Events : Past(s, x) => Past(s, x)'
    BY <2>1 DEF Past
  <2>3. \/ queue'[s] = queue[s] /\ received'[s] = received[s]
        \/ /\ queue[s] # <<>> /\ queue'[s] = Tail(queue[s])
           /\ received'[s] = Append(received[s], Head(queue[s]))
    BY <1>6 DEF Receive, HubTypes, TypeOK
  <2> QED
    BY <2>2, <2>3, SameStream, ReceivedStream
<1>7. CASE UNCHANGED <<queue, received, count, at, todo>>
  BY <1>7, SameStream DEF Past
<1> QED
  BY <1>1, <1>2, <1>3, <1>4, <1>5, <1>6, <1>7
     DEF Next, Publishing, Locking, SubscribeBegin, CloseBegin, SubscribeLocked,
         CloseLocked, CloseChannel, BoundsReached, vars

(* Received and buffered events in one sequence. *)
LEMMA WholeStreamOrdered ==
  ASSUME HubTypes, NEW s \in Subs, StreamIsOrdered(s)
  PROVE  LET all == received[s] \o queue[s] IN
           \A i, j \in DOMAIN all :
             (i < j /\ all[i][1] = all[j][1]) => all[i][2] < all[j][2]
<1> DEFINE all == received[s] \o queue[s]
           m == Len(received[s])
           n == Len(queue[s])
<1>1. m \in Nat /\ n \in Nat /\ DOMAIN all = 1..(m + n)
      /\ \A i \in 1..(m + n) : all[i] = IF i <= m THEN received[s][i] ELSE queue[s][i - m]
  BY DEF HubTypes, TypeOK
<1>3. /\ \A i, j \in 1..m : i < j => Before(received[s][i], received[s][j])
      /\ \A i, j \in 1..n : i < j => Before(queue[s][i], queue[s][j])
      /\ \A i \in 1..m, j \in 1..n : Before(received[s][i], queue[s][j])
  BY DEF StreamIsOrdered
<1> HIDE DEF all, m, n
<1>2. ASSUME NEW i \in 1..(m + n), NEW j \in 1..(m + n), i < j
      PROVE  Before(all[i], all[j])
  <2>0. m \in Nat /\ n \in Nat
    BY <1>1
  <2>1. CASE j <= m
    BY <1>1, <1>2, <1>3, <2>1
  <2>2. CASE i <= m /\ j > m
    <3>1. i \in 1..m /\ j - m \in 1..n
      BY <2>0, <2>2
    <3>2. all[i] = received[s][i] /\ all[j] = queue[s][j - m]
      BY <1>1, <2>2
    <3> QED
      BY <1>3, <3>1, <3>2
  <2>3. CASE i > m
    <3>1. i - m \in 1..n /\ j - m \in 1..n /\ i - m < j - m
      BY <1>2, <2>0, <2>3
    <3>2. all[i] = queue[s][i - m] /\ all[j] = queue[s][j - m]
      BY <1>1, <1>2, <2>3
    <3> QED
      BY <1>3, <3>1, <3>2
  <2> QED
    BY <1>2, <2>0, <2>1, <2>2, <2>3
<1>4. \A i, j \in DOMAIN all :
        (i < j /\ all[i][1] = all[j][1]) => all[i][2] < all[j][2]
  BY <1>1, <1>2 DEF Before
<1> QED
  BY <1>4 DEF all


-----------------------------------------------------------------------------
HubInv ==
  /\ HubTypes /\ LocksAreHeld
  /\ NoSendOnClosed /\ NewestIsKept
  /\ Counted /\ Numbered

(* The inductive invariant of the hub. *)
THEOREM HubInvariant == Spec => []HubInv
<1>1. Init => HubInv
  <2> SUFFICES ASSUME Init PROVE HubInv
    OBVIOUS
  <2>1. HubTypes
    BY HubAssumption, CapacityIsPositive DEF Init, HubTypes, TypeOK
  <2>2. LocksAreHeld /\ NoSendOnClosed /\ NewestIsKept
    BY HubAssumption DEF Init, LocksAreHeld, NoSendOnClosed, NewestIsKept
  <2>3. Counted /\ Numbered
    BY DEF Init, Counted, DropsAreCounted, Numbered, StreamIsOrdered, StreamIsPast
  <2> QED
    BY <2>1, <2>2, <2>3 DEF HubInv
<1>2. HubInv /\ [Next]_vars => HubInv'
  <2> SUFFICES ASSUME HubInv, [Next]_vars PROVE HubInv'
    OBVIOUS
  <2>1. HubTypes' /\ LocksAreHeld'
    BY TypesStep, LocksStep DEF HubInv
  <2>2. NoSendOnClosed' /\ NewestIsKept'
    BY NoSendStep, RoomStep DEF HubInv
  <2>3. Counted' /\ Numbered'
    BY <2>1, CountedStep, NumberedStep DEF HubInv
  <2> QED
    BY <2>1, <2>2, <2>3 DEF HubInv
<1> QED
  BY <1>1, <1>2, PTL DEF Spec

(* No Publish sends on a closed channel, for any publishers, subscribers,   *)
(* buffers and interleaving of Publish, Subscribe and Close.                *)
THEOREM NeverSendsOnClosed == Spec => []NoSendOnClosed
<1>1. HubInv => NoSendOnClosed
  BY DEF HubInv
<1> QED
  BY <1>1, HubInvariant, PTL

(* A subscriber gets a faithful tail of what was published: the newest      *)
(* event is never the one dropped, the drop counter is exact, and the       *)
(* events of one publisher keep their order.                                *)
THEOREM StreamsAreFaithful == Spec => []StreamIsFaithful
<1>1. HubInv => StreamIsFaithful
  <2> SUFFICES ASSUME HubInv PROVE StreamIsFaithful
    OBVIOUS
  <2>1. ~endless => DropsAreCounted
    BY DEF HubInv, Counted
  <2>2. ~endless => OrderedPerPublisher
    BY WholeStreamOrdered DEF HubInv, Numbered, OrderedPerPublisher
  <2> QED
    BY <2>1, <2>2 DEF HubInv, StreamIsFaithful
<1> QED
  BY <1>1, HubInvariant, PTL
=============================================================================
