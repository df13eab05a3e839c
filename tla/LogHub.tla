------------------------------- MODULE LogHub -------------------------------
(***************************************************************************)
(* The live-log fan-out hub, pkg/logstream/hub.go.                         *)
(*                                                                         *)
(* A Publish holds the hub's read lock across its whole fan-out and, while *)
(* it handles one subscriber, that subscriber's mutex.  The reader of a    *)
(* channel takes neither, so it may receive between any two steps of the   *)
(* publisher: between finding the channel full, popping its oldest event   *)
(* and pushing the new one.  Subscribe and Close take the hub's write      *)
(* lock; as with Go's RWMutex, a waiting writer holds up new readers.      *)
(*                                                                         *)
(* Events are <<publisher, n>>, the n-th event of a publisher.             *)
(***************************************************************************)
EXTENDS Integers, Sequences, FiniteSets

CONSTANTS
  Publishers,  (* goroutines that publish                                  *)
  Subs,        (* subscriptions that may be made                           *)
  BufInput,    (* the buffer size each Subscribe asks for                  *)
  MaxEvents,   (* bound: events each publisher publishes                   *)
  EndlessModes (* whether publishers may be endless, see endless           *)

Nobody == "nobody"

ASSUME HubAssumption ==
  /\ Nobody \notin Publishers \cup Subs
  /\ BufInput \in [Subs -> Int]
  /\ MaxEvents \in [Publishers -> Nat]
  /\ EndlessModes \subseteq BOOLEAN

VARIABLES
  phase,     (* life of a subscription                                     *)
  queue,     (* the buffered channel                                       *)
  dropped,   (* sub.dropped                                                *)
  holder,    (* who holds sub.mu; Nobody when it is free                   *)
  pc,        (* where a publisher is                                       *)
  todo,      (* the subscribers its fan-out has still to visit             *)
  at,        (* the subscriber it is handling; Nobody between two          *)
  count,     (* events it has begun to publish                             *)
  received,  (* history: what the reader of C has received                 *)
  offered,   (* history: events whose delivery to the subscriber is done   *)
  endless    (* the publishers publish for ever instead of MaxEvents times, *)
             (* and nothing is numbered, counted or recorded, so that the  *)
             (* states stay finite                                         *)

vars == <<phase, queue, dropped, holder, pc, todo, at, count, received, offered, endless>>

(* Subscribe treats a size below 1 as 1. *)
Capacity(s) == IF BufInput[s] < 1 THEN 1 ELSE BufInput[s]

(* h.subs: registered from the end of Subscribe's to the end of Close's     *)
(* critical section.                                                        *)
Registered == {s \in Subs : phase[s] \in {"open", "closing"}}

ReadLocked == \E p \in Publishers : pc[p] # "idle"
WriterWaits == \E s \in Subs : phase[s] \in {"joining", "closing"}

Event(p) == <<p, count[p]>>

Increment(n) == IF endless THEN n ELSE n + 1

Move(s, from, to) == phase[s] = from /\ phase' = [phase EXCEPT ![s] = to]
Goto(p, from, to) == pc[p] = from /\ pc' = [pc EXCEPT ![p] = to]

-----------------------------------------------------------------------------
(* Subscribe: ask for the write lock, then register under it. *)
SubscribeBegin(s) ==
  /\ Move(s, "new", "joining")
  /\ UNCHANGED <<queue, dropped, holder, pc, todo, at, count, received, offered, endless>>

SubscribeLocked(s) ==
  /\ ~ReadLocked
  /\ Move(s, "joining", "open")
  /\ UNCHANGED <<queue, dropped, holder, pc, todo, at, count, received, offered, endless>>

(* Close, inside once.Do: ask for the write lock, delete the subscriber     *)
(* under it, and close the channel after releasing it.                      *)
CloseBegin(s) ==
  /\ Move(s, "open", "closing")
  /\ UNCHANGED <<queue, dropped, holder, pc, todo, at, count, received, offered, endless>>

(* Mutant: deleting the subscriber without the write lock. *)
CloseUnlocked(s) ==
  /\ Move(s, "closing", "deleted")
  /\ UNCHANGED <<queue, dropped, holder, pc, todo, at, count, received, offered, endless>>

CloseLocked(s) ==
  /\ ~ReadLocked
  /\ Move(s, "closing", "deleted")
  /\ UNCHANGED <<queue, dropped, holder, pc, todo, at, count, received, offered, endless>>

CloseChannel(s) ==
  /\ Move(s, "deleted", "closed")
  /\ UNCHANGED <<queue, dropped, holder, pc, todo, at, count, received, offered, endless>>

(* Mutant: a read lock that passes waiting writers. *)
PublishBarging(p) ==
  /\ endless \/ count[p] < MaxEvents[p]
  /\ Goto(p, "idle", "fanout")
  /\ count' = [count EXCEPT ![p] = Increment(@)]
  /\ todo' = [todo EXCEPT ![p] = Registered]
  /\ UNCHANGED <<phase, queue, dropped, holder, at, received, offered, endless>>

(* Publish: take the read lock and range over the registered subscribers. *)
PublishBegin(p) ==
  /\ endless \/ count[p] < MaxEvents[p]
  /\ ~WriterWaits
  /\ Goto(p, "idle", "fanout")
  /\ count' = [count EXCEPT ![p] = Increment(@)]
  /\ todo' = [todo EXCEPT ![p] = Registered]
  /\ UNCHANGED <<phase, queue, dropped, holder, at, received, offered, endless>>

(* Mutant: handling a subscriber without its mutex. *)
SkipLock(p, s) ==
  /\ s \in todo[p]
  /\ Goto(p, "fanout", IF Len(queue[s]) = Capacity(s) THEN "evict" ELSE "push")
  /\ holder' = [holder EXCEPT ![s] = p]
  /\ todo' = [todo EXCEPT ![p] = @ \ {s}]
  /\ at' = [at EXCEPT ![p] = s]
  /\ UNCHANGED <<phase, queue, dropped, count, received, offered, endless>>

(* Lock the next subscriber and look whether its buffer is full. *)
LockSubscriber(p, s) ==
  /\ s \in todo[p]
  /\ holder[s] = Nobody
  /\ Goto(p, "fanout", IF Len(queue[s]) = Capacity(s) THEN "evict" ELSE "push")
  /\ holder' = [holder EXCEPT ![s] = p]
  /\ todo' = [todo EXCEPT ![p] = @ \ {s}]
  /\ at' = [at EXCEPT ![p] = s]
  /\ UNCHANGED <<phase, queue, dropped, count, received, offered, endless>>

(* Mutant: waiting for the reader instead. *)
WaitForReader(p) ==
  /\ Goto(p, "evict", "push")
  /\ Len(queue[at[p]]) < Capacity(at[p])
  /\ UNCHANGED <<phase, queue, dropped, holder, todo, at, count, received, offered, endless>>

(* The non-blocking receive that makes room: the reader may have emptied    *)
(* the channel meanwhile, and then nothing is dropped.                      *)
DropOldest(p) ==
  LET s == at[p] IN
  /\ Goto(p, "evict", "push")
  /\ \/ /\ queue[s] # <<>>
        /\ queue' = [queue EXCEPT ![s] = Tail(@)]
        /\ dropped' = [dropped EXCEPT ![s] = Increment(@)]
     \/ /\ queue[s] = <<>>
        /\ UNCHANGED <<queue, dropped>>
  /\ UNCHANGED <<phase, holder, todo, at, count, received, offered, endless>>

(* The non-blocking send, which drops the new event if the buffer is full,  *)
(* and the unlock.                                                          *)
PushEvent(p) ==
  LET s    == at[p]
      room == Len(queue[s]) < Capacity(s)
  IN  /\ Goto(p, "push", "fanout")
      /\ queue' = [queue EXCEPT ![s] = IF room THEN Append(@, Event(p)) ELSE @]
      /\ dropped' = [dropped EXCEPT ![s] = IF room THEN @ ELSE Increment(@)]
      /\ holder' = [holder EXCEPT ![s] = Nobody]
      /\ at' = [at EXCEPT ![p] = Nobody]
      /\ offered' = [offered EXCEPT ![s] = Increment(@)]
      /\ UNCHANGED <<phase, todo, count, received, endless>>

PublishEnd(p) ==
  /\ todo[p] = {}
  /\ Goto(p, "fanout", "idle")
  /\ UNCHANGED <<phase, queue, dropped, holder, todo, at, count, received, offered, endless>>

(* The reader of C, such as Logger.Subscribe's goroutine, takes the oldest  *)
(* buffered event; it may do so after Close, until the channel is drained.  *)
Receive(s) ==
  /\ queue[s] # <<>>
  /\ queue' = [queue EXCEPT ![s] = Tail(@)]
  /\ received' = [received EXCEPT ![s] = IF endless THEN @ ELSE Append(@, Head(queue[s]))]
  /\ UNCHANGED <<phase, dropped, holder, pc, todo, at, count, offered, endless>>

(* The bounds of the model are used up. *)
BoundsReached ==
  /\ \A p \in Publishers : pc[p] = "idle" /\ count[p] = MaxEvents[p]
  /\ \A s \in Subs : phase[s] = "closed" /\ queue[s] = <<>>
  /\ UNCHANGED vars

Init ==
  /\ phase = [s \in Subs |-> "new"]
  /\ queue = [s \in Subs |-> <<>>]
  /\ dropped = [s \in Subs |-> 0]
  /\ holder = [s \in Subs |-> Nobody]
  /\ pc = [p \in Publishers |-> "idle"]
  /\ todo = [p \in Publishers |-> {}]
  /\ at = [p \in Publishers |-> Nobody]
  /\ count = [p \in Publishers |-> 0]
  /\ received = [s \in Subs |-> <<>>]
  /\ offered = [s \in Subs |-> 0]
  /\ endless \in EndlessModes

Publishing(p) ==
  \/ \E s \in Subs : LockSubscriber(p, s)
  \/ DropOldest(p)
  \/ PushEvent(p)
  \/ PublishEnd(p)

Locking(s) == SubscribeLocked(s) \/ CloseLocked(s) \/ CloseChannel(s)

Next ==
  \/ \E p \in Publishers : PublishBegin(p) \/ Publishing(p)
  \/ \E s \in Subs : SubscribeBegin(s) \/ CloseBegin(s) \/ Locking(s) \/ Receive(s)
  \/ BoundsReached

Spec == Init /\ [][Next]_vars

(* A goroutine inside Publish, Subscribe or Close is scheduled again, and   *)
(* one that waits for a subscriber's mutex gets it although others keep     *)
(* taking it: sync.Mutex hands itself to a starving waiter.  Readers get no *)
(* fairness: a slow client may never read.                                  *)
FairSpec ==
  /\ Spec
  /\ \A p \in Publishers : SF_vars(Publishing(p))
  /\ \A s \in Subs : WF_vars(Locking(s))

-----------------------------------------------------------------------------
(* The types of the variables, the buffer's capacity included. *)
TypeOK ==
  /\ phase \in [Subs -> {"new", "joining", "open", "closing", "deleted", "closed"}]
  /\ \A s \in Subs : Len(queue[s]) <= Capacity(s)
  /\ dropped \in [Subs -> Nat]
  /\ offered \in [Subs -> Nat]
  /\ holder \in [Subs -> Publishers \cup {Nobody}]
  /\ pc \in [Publishers -> {"idle", "fanout", "evict", "push"}]
  /\ todo \in [Publishers -> SUBSET Subs]
  /\ at \in [Publishers -> Subs \cup {Nobody}]
  /\ \A p \in Publishers : count[p] \in 0..MaxEvents[p]

(* No Publish ever sends on a closed channel, which would panic: Close      *)
(* closes only after its write lock has waited out every fan-out, and a     *)
(* fan-out that starts later does not see the subscriber.                   *)
NoSendOnClosed ==
  \A p \in Publishers :
    /\ at[p] \in Subs => phase[at[p]] \in {"open", "closing"}
    /\ \A s \in todo[p] : phase[s] \in {"open", "closing"}

(* What a subscriber gets is a faithful tail of what was published.  After  *)
(* the overflow handling there is room, since producers are serialised by   *)
(* sub.mu and the reader only takes away: the newest event is never the one *)
(* that is dropped, not even with a buffer of 1.  (The comments of hub.go   *)
(* say that a buffer of 1 drops the new event; its second default branch is *)
(* never taken.)                                                            *)
NewestIsKept ==
  \A p \in Publishers : pc[p] = "push" => Len(queue[at[p]]) < Capacity(at[p])

(* Every event offered to a subscriber is received, still buffered, or      *)
(* counted as dropped: the drop counter is exact at every step.             *)
DropsAreCounted ==
  \A s \in Subs : offered[s] = Len(received[s]) + Len(queue[s]) + dropped[s]

(* A subscriber never sees an event twice, and sees the events of one       *)
(* publisher in the order they were published, whatever was dropped.        *)
OrderedPerPublisher ==
  \A s \in Subs :
    LET all == received[s] \o queue[s] IN
      \A i, j \in DOMAIN all :
         (i < j /\ all[i][1] = all[j][1]) => all[i][2] < all[j][2]

(* The three together (the last two speak of numbered events only).         *)
StreamIsFaithful ==
  /\ NewestIsKept
  /\ ~endless => DropsAreCounted /\ OrderedPerPublisher

(* A publisher is never blocked by a reader that does not read. *)
PublishCompletes == \A p \in Publishers : pc[p] # "idle" ~> pc[p] = "idle"

(* Close gets its lock past any stream of publishers, and the channel is    *)
(* closed, so the reader's range loop can end.                              *)
CloseCompletes == \A s \in Subs : phase[s] = "closing" ~> phase[s] = "closed"
=============================================================================
