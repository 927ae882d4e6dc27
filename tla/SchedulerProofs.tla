--------------------------- MODULE SchedulerProofs ---------------------------
(***************************************************************************)
(* What Scheduler guarantees for every number of requests, every capacity  *)
(* and every queue bound.  The inductive invariant joins the ownership of  *)
(* the slots with the contents of the queue: a waiter's entry is in the    *)
(* queue, so removing it is always defined, and a slot that is not free is *)
(* held, so active never exceeds the capacity.                             *)
(***************************************************************************)
EXTENDS MCScheduler, FiniteSetTheorems, SequenceTheorems,
        WellFoundedInduction, TLAPS

(* q holds the requests of S, each once.                                   *)
Lists(q, S) ==
    /\ q \in Seq(Requests)
    /\ \A i, j \in DOMAIN q : q[i] = q[j] => i = j
    /\ \A r \in Requests : r \in S <=> \E i \in DOMAIN q : q[i] = r

Inv == TypeOK /\ SlotsShared /\ QueueIsWaiters

----------------------------------------------------------------------------
(* Removing an element from a sequence without duplicates.                 *)
LEMMA RemoveAtProperties ==
    ASSUME NEW S, NEW q \in Seq(S), NEW n \in 1..Len(q)
    PROVE  /\ RemoveAt(q, n) \in Seq(S)
           /\ Len(RemoveAt(q, n)) = Len(q) - 1
           /\ \A i \in 1..(Len(q) - 1) : RemoveAt(q, n)[i] = IF i < n THEN q[i] ELSE q[i + 1]
  <1> DEFINE a == SubSeq(q, 1, n - 1)
             b == SubSeq(q, n + 1, Len(q))
  <1>1. /\ a \in Seq(S) /\ Len(a) = n - 1
        /\ \A i \in 1..(n - 1) : a[i] = q[i]
    <2>1. \A i \in 1..(n - 1) : q[i] \in S
      BY ElementOfSeq
    <2> QED BY <2>1, SubSeqProperties
  <1>2. /\ b \in Seq(S) /\ Len(b) = Len(q) - n
        /\ \A i \in 1..(Len(q) - n) : b[i] = q[n + i]
    <2>1. \A i \in (n + 1)..Len(q) : q[i] \in S
      BY ElementOfSeq
    <2>2. /\ SubSeq(q, n + 1, Len(q)) \in Seq(S)
          /\ Len(SubSeq(q, n + 1, Len(q))) = IF n + 1 <= Len(q) THEN Len(q) - (n + 1) + 1 ELSE 0
          /\ \A i \in 1..(Len(q) - (n + 1) + 1) : SubSeq(q, n + 1, Len(q))[i] = q[n + 1 + i - 1]
      BY <2>1, SubSeqProperties
    <2> QED BY <2>2
  <1>3. /\ a \o b \in Seq(S)
        /\ Len(a \o b) = Len(a) + Len(b)
        /\ \A i \in 1..(Len(a) + Len(b)) :
             (a \o b)[i] = IF i <= Len(a) THEN a[i] ELSE b[i - Len(a)]
    BY <1>1, <1>2, ConcatProperties
  <1>4. RemoveAt(q, n) = a \o b
    BY DEF RemoveAt
  <1> HIDE DEF a, b
  <1>5. Len(a) + Len(b) = Len(q) - 1
    BY <1>1, <1>2
  <1>6. ASSUME NEW i \in 1..(Len(q) - 1)
        PROVE  (a \o b)[i] = IF i < n THEN q[i] ELSE q[i + 1]
    <2>1. CASE i < n
      BY <2>1, <1>1, <1>3, <1>5
    <2>2. CASE i >= n
      <3>1. (a \o b)[i] = b[i - (n - 1)] /\ i - (n - 1) \in 1..(Len(q) - n)
        BY <2>2, <1>1, <1>3, <1>5
      <3>2. b[i - (n - 1)] = q[n + (i - (n - 1))]
        BY <3>1, <1>2
      <3> QED BY <3>1, <3>2, <2>2
    <2>3. i < n \/ i >= n
      <3>1. i \in Int /\ n \in Int
        BY LenProperties
      <3> QED BY <3>1
    <2> QED BY <2>1, <2>2, <2>3
  <1> QED BY <1>3, <1>4, <1>5, <1>6

(* self.queue.remove(entry) takes out r and nothing else.                  *)
LEMMA WithoutLists ==
    ASSUME NEW q, NEW S, NEW r \in S, S \subseteq Requests, Lists(q, S)
    PROVE  Lists(Without(q, r), S \ {r}) /\ Len(Without(q, r)) = Len(q) - 1
  <1> DEFINE n == Position(q, r)
             t == Without(q, r)
  <1>1. n \in 1..Len(q) /\ q[n] = r
    BY DEF Lists, Position
  <1>2. /\ t \in Seq(Requests) /\ Len(t) = Len(q) - 1
        /\ \A i \in 1..(Len(q) - 1) : t[i] = IF i < n THEN q[i] ELSE q[i + 1]
    <2>1. q \in Seq(Requests)
      BY DEF Lists
    <2>2. t = RemoveAt(q, n)
      BY DEF Without
    <2> HIDE DEF n, t
    <2> QED BY <1>1, <2>1, <2>2, RemoveAtProperties
  <1>3. \A i, j \in 1..Len(q) : q[i] = q[j] => i = j
    BY DEF Lists
  <1> HIDE DEF n, t
  <1>4. \A i, j \in DOMAIN t : t[i] = t[j] => i = j
    BY <1>1, <1>2, <1>3
  <1>5. ASSUME NEW o \in Requests
        PROVE  o \in S \ {r} <=> \E i \in DOMAIN t : t[i] = o
    <2>1. ASSUME o \in S \ {r} PROVE \E i \in DOMAIN t : t[i] = o
      <3>1. PICK i \in 1..Len(q) : q[i] = o
        BY <2>1 DEF Lists
      <3>2. i # n
        BY <1>1, <2>1, <3>1
      <3>3. CASE i < n
        BY <1>1, <1>2, <3>1, <3>3
      <3>4. CASE i > n
        <4>1. i - 1 \in DOMAIN t /\ t[i - 1] = q[(i - 1) + 1]
          BY <1>1, <1>2, <3>1, <3>4
        <4> QED BY <4>1, <3>1
      <3> QED BY <3>2, <3>3, <3>4, <1>1
    <2>2. ASSUME NEW i \in DOMAIN t, t[i] = o PROVE o \in S \ {r}
      <3>1. PICK k \in 1..Len(q) : q[k] = o /\ k # n
        BY <1>1, <1>2, <2>2
      <3>2. o # r
        BY <1>1, <1>3, <3>1
      <3> QED BY <3>1, <3>2 DEF Lists
    <2> QED BY <2>1, <2>2
  <1> QED BY <1>2, <1>4, <1>5 DEF Lists, t

(* self.queue.append(entry).                                               *)
LEMMA AppendLists ==
    ASSUME NEW q, NEW S, NEW r \in Requests, r \notin S, Lists(q, S)
    PROVE  Lists(Append(q, r), S \cup {r}) /\ Len(Append(q, r)) = Len(q) + 1
  <1> DEFINE t == Append(q, r)
  <1>1. q \in Seq(Requests) /\ Len(q) \in Nat /\ DOMAIN q = 1..Len(q)
    BY LenProperties DEF Lists
  <1>2. /\ t \in Seq(Requests) /\ Len(t) = Len(q) + 1
        /\ \A i \in 1..Len(q) : t[i] = q[i]
        /\ t[Len(q) + 1] = r
    BY <1>1, AppendProperties
  <1>3. DOMAIN t = 1..(Len(q) + 1)
    BY <1>2, LenProperties
  <1> HIDE DEF t
  <1>4. \A i \in 1..Len(q) : q[i] \in S
    BY <1>1, ElementOfSeq DEF Lists
  <1>5. \A i, j \in DOMAIN t : t[i] = t[j] => i = j
    BY <1>1, <1>2, <1>3, <1>4 DEF Lists
  <1>6. ASSUME NEW o \in Requests
        PROVE  o \in S \cup {r} <=> \E i \in DOMAIN t : t[i] = o
    <2>1. o \in S <=> \E i \in 1..Len(q) : q[i] = o
      BY <1>1 DEF Lists
    <2> QED BY <1>1, <1>2, <1>3, <2>1
  <1> QED BY <1>2, <1>5, <1>6 DEF Lists, t

(* The queue of a good state lists its waiters.                            *)
LEMMA QueueListsWaiting ==
    ASSUME TypeOK
    PROVE  QueueIsWaiters <=> Lists(queue, Waiting)
  BY DEF TypeOK, QueueIsWaiters, Lists, Waiting

(* The constructor makes as many slots as the capacity says.               *)
LEMMA SlotsFinite == IsFiniteSet(Slots) /\ Cardinality(Slots) = Capacity
  <1>1. IsFiniteSet(0..(Capacity - 1))
        /\ Cardinality(0..(Capacity - 1)) = IF 0 > Capacity - 1 THEN 0 ELSE Capacity - 1 - 0 + 1
    BY FS_Interval, SchedulerAssumption
  <1> QED BY <1>1, SchedulerAssumption DEF Slots

(* A slot is never mistaken for slot=None.                                 *)
LEMMA SlotsAreNumbers == \A s \in Slots : s \in Nat /\ s # None
  <1> SUFFICES ASSUME NEW s \in Slots PROVE s \in Nat /\ s # None
    OBVIOUS
  <1>1. s \in Nat
    BY SchedulerAssumption DEF Slots
  <1> QED BY <1>1, SchedulerAssumption

(* Counting an outcome keeps every counter a natural number.               *)
LEMMA CountType ==
    ASSUME TypeOK, NEW c \in Counters, Count(c)
    PROVE  stats' \in [Counters -> Nat]
  BY DEF TypeOK, Count

----------------------------------------------------------------------------
(* A scheduler just made has all slots free and nobody waiting.            *)
LEMMA InitInv == Init => Inv
  <1> SUFFICES ASSUME Init PROVE Inv
    OBVIOUS
  <1>1. TypeOK
    <2>1. active \in 0..Capacity
      BY SchedulerAssumption DEF Init
    <2>2. queue \in Seq(Requests)
      BY EmptySeq DEF Init
    <2>3. /\ phase \in [Requests -> Phases]
          /\ held \in [Requests -> Slots \cup {None}]
          /\ stats \in [Counters -> Nat]
      BY DEF Init, Phases
    <2> QED BY <2>1, <2>2, <2>3 DEF Init, TypeOK
  <1>2. SlotsShared
    <2>1. Running = {}
      BY DEF Init, Running
    <2>2. active + Cardinality(freeSlots) = Capacity
      BY SlotsFinite, SchedulerAssumption DEF Init
    <2> QED BY <2>1, <2>2 DEF Init, SlotsShared
  <1>3. QueueIsWaiters
    BY DEF Init, QueueIsWaiters
  <1> QED BY <1>1, <1>2, <1>3 DEF Inv

(* A request that leaves the loop with a slot, from the queue q it is in.  *)
LEMMA AdmitPreserves ==
    ASSUME Inv, NEW r \in Requests, phase[r] \in {"idle", "waiting"},
           NEW q, Lists(q, Waiting \cup {r}), Admit(q, r), Frame
    PROVE  Inv'
  <1> DEFINE s == Available(r)
  <1>1. s \in freeSlots /\ s \in Slots /\ s # None
    <2>1. s \in freeSlots
      BY DEF Admit, CanAdmit
    <2> HIDE DEF s
    <2> QED BY <2>1, SlotsAreNumbers DEF Inv, TypeOK
  <1>2. /\ queue' = Without(q, r)
        /\ freeSlots' = freeSlots \ {s}
        /\ held' = [held EXCEPT ![r] = s]
        /\ active' = active + 1
        /\ phase' = [phase EXCEPT ![r] = "running"]
        /\ Count("admitted")
    BY DEF Admit
  <1> HIDE DEF s
  <1>3. Running' = Running \cup {r} /\ r \notin Running
    BY <1>2 DEF Inv, TypeOK, Running
  <1>4. Waiting' = (Waiting \cup {r}) \ {r}
    BY <1>2 DEF Inv, TypeOK, Waiting
  <1>5. Lists(queue', Waiting')
    BY <1>2, <1>4, WithoutLists DEF Waiting
  <1>6. active' + Cardinality(freeSlots') = Capacity /\ active' \in 0..Capacity
    <2>1. IsFiniteSet(freeSlots)
      BY SlotsFinite, FS_Subset DEF Inv, TypeOK
    <2>2. Cardinality(freeSlots') = Cardinality(freeSlots) - 1
          /\ Cardinality(freeSlots') \in Nat /\ Cardinality(freeSlots) \in Nat
      BY <1>1, <1>2, <2>1, FS_RemoveElement, FS_CardinalityType
    <2> QED BY <1>2, <2>2, SchedulerAssumption DEF Inv, TypeOK, SlotsShared
  <1>7. TypeOK'
    BY <1>1, <1>2, <1>5, <1>6, CountType DEF Inv, TypeOK, Frame, Phases, Counters, Lists
  <1>8. SlotsShared'
    <2>1. \A t \in Requests : held'[t] # None <=> phase'[t] = "running"
      BY <1>1, <1>2 DEF Inv, TypeOK, SlotsShared
    <2>2. \A t \in Running : held[t] # s
      BY <1>1 DEF Inv, SlotsShared
    <2>3. \A t, u \in Running' : held'[t] = held'[u] => t = u
      BY <1>2, <1>3, <2>2 DEF Inv, TypeOK, SlotsShared, Running
    <2>4. \A x \in Slots : x \in freeSlots' <=> \A t \in Running' : held'[t] # x
      BY <1>2, <1>3, <2>2 DEF Inv, TypeOK, SlotsShared, Running
    <2> QED BY <1>6, <2>1, <2>3, <2>4 DEF SlotsShared
  <1>9. QueueIsWaiters'
    BY <1>5 DEF Lists, QueueIsWaiters, Waiting
  <1> QED BY <1>7, <1>8, <1>9 DEF Inv

(* A request that leaves the loop by an exception.                         *)
LEMMA LeavePreserves ==
    ASSUME Inv, NEW r \in Requests, phase[r] \in {"idle", "waiting"},
           NEW q, Lists(q, Waiting \cup {r}), NEW why \in Outcomes,
           Leave(q, r, why), Frame, stats' \in [Counters -> Nat]
    PROVE  Inv'
  <1>1. /\ queue' = Without(q, r)
        /\ phase' = [phase EXCEPT ![r] = why]
        /\ UNCHANGED <<held, freeSlots, active>>
    BY DEF Leave
  <1>2. Running' = Running /\ Waiting' = (Waiting \cup {r}) \ {r}
    BY <1>1 DEF Inv, TypeOK, Running, Waiting, Outcomes
  <1>3. Lists(queue', Waiting')
    BY <1>1, <1>2, WithoutLists DEF Waiting
  <1>4. TypeOK'
    BY <1>1, <1>3 DEF Inv, TypeOK, Frame, Phases, Lists
  <1>5. SlotsShared'
    <2>1. \A t \in Requests : held'[t] # None <=> phase'[t] = "running"
      BY <1>1 DEF Inv, TypeOK, SlotsShared, Outcomes
    <2> QED BY <1>1, <1>2, <2>1 DEF Inv, SlotsShared
  <1>6. QueueIsWaiters'
    BY <1>3 DEF Lists, QueueIsWaiters, Waiting
  <1> QED BY <1>4, <1>5, <1>6 DEF Inv

(* The two exceptions of the loop, with their counters.                    *)
LEMMA CancelPreserves ==
    ASSUME Inv, NEW r \in Requests, phase[r] \in {"idle", "waiting"},
           NEW q, Lists(q, Waiting \cup {r}), Cancel(q, r) \/ TimeOut(q, r), Frame
    PROVE  Inv'
  <1>1. stats' \in [Counters -> Nat]
    BY CountType DEF Inv, Cancel, TimeOut, Counters
  <1>2. Leave(q, r, "cancelled") \/ Leave(q, r, "timed_out")
    BY DEF Cancel, TimeOut
  <1> QED BY <1>1, <1>2, LeavePreserves DEF Outcomes

(* A new request may go at once, give up at once, or wait in the queue.    *)
LEMMA EnterPreserves ==
    ASSUME Inv, NEW r \in Requests, Enter(r)
    PROVE  Inv'
  <1> DEFINE q == Append(queue, r)
  <1>1. phase[r] = "idle" /\ r \notin Waiting /\ Frame
    BY DEF Enter, Waiting
  <1>2. Lists(queue, Waiting)
    BY QueueListsWaiting DEF Inv
  <1>3. Lists(q, Waiting \cup {r})
    BY <1>1, <1>2, AppendLists
  <1>4. \/ Admit(q, r) \/ Cancel(q, r) \/ TimeOut(q, r)
        \/ /\ queue' = q
           /\ phase' = [phase EXCEPT ![r] = "waiting"]
           /\ UNCHANGED <<held, freeSlots, active, stats>>
    BY DEF Enter
  <1> HIDE DEF q
  <1>5. CASE Admit(q, r)
    BY <1>1, <1>3, <1>5, AdmitPreserves
  <1>6. CASE Cancel(q, r) \/ TimeOut(q, r)
    BY <1>1, <1>3, <1>6, CancelPreserves
  <1>7. CASE /\ queue' = q
             /\ phase' = [phase EXCEPT ![r] = "waiting"]
             /\ UNCHANGED <<held, freeSlots, active, stats>>
    <2>1. Running' = Running /\ Waiting' = Waiting \cup {r}
      BY <1>1, <1>7 DEF Inv, TypeOK, Running, Waiting
    <2>2. Lists(queue', Waiting')
      BY <1>3, <1>7, <2>1
    <2>3. TypeOK'
      BY <1>1, <1>7, <2>2 DEF Inv, TypeOK, Frame, Phases, Lists
    <2>4. SlotsShared'
      <3>1. \A t \in Requests : held'[t] # None <=> phase'[t] = "running"
        BY <1>1, <1>7 DEF Inv, TypeOK, SlotsShared
      <3> QED BY <1>7, <2>1, <3>1 DEF Inv, SlotsShared
    <2>5. QueueIsWaiters'
      BY <2>2 DEF Lists, QueueIsWaiters, Waiting
    <2> QED BY <2>3, <2>4, <2>5 DEF Inv
  <1> QED BY <1>4, <1>5, <1>6, <1>7

(* A waiter that is woken by close() or by its turn.                       *)
LEMMA WakePreserves ==
    ASSUME Inv, NEW r \in Requests, Wake(r)
    PROVE  Inv'
  <1>1. phase[r] = "waiting" /\ Waiting \cup {r} = Waiting /\ Frame
    BY DEF Wake, Waiting
  <1>2. Lists(queue, Waiting \cup {r})
    BY <1>1, QueueListsWaiting DEF Inv
  <1>3. CASE closed
    <2>1. Leave(queue, r, "closed") /\ UNCHANGED stats
      BY <1>3 DEF Wake
    <2>2. stats' \in [Counters -> Nat]
      BY <2>1 DEF Inv, TypeOK
    <2> QED BY <1>1, <1>2, <2>1, <2>2, LeavePreserves DEF Outcomes
  <1>4. CASE ~closed
    <2>1. Admit(queue, r) \/ Cancel(queue, r) \/ TimeOut(queue, r)
      BY <1>4 DEF Wake
    <2> QED BY <1>1, <1>2, <2>1, AdmitPreserves, CancelPreserves
  <1> QED BY <1>3, <1>4

(* A running request gives its slot back.                                  *)
LEMMA FinishPreserves ==
    ASSUME Inv, NEW r \in Requests, Finish(r)
    PROVE  Inv'
  <1> DEFINE s == held[r]
  <1>1. /\ phase[r] = "running"
        /\ phase' = [phase EXCEPT ![r] = "completed"]
        /\ active' = active - 1
        /\ freeSlots' = freeSlots \cup {s}
        /\ held' = [held EXCEPT ![r] = None]
        /\ Count("completed")
        /\ UNCHANGED queue
        /\ Frame
    BY DEF Finish
  <1>2. s \in Slots /\ s \notin freeSlots
    BY <1>1 DEF Inv, TypeOK, SlotsShared, Running
  <1>3. \A t \in Running : held[t] = s => t = r
    BY <1>1 DEF Inv, SlotsShared, Running
  <1> HIDE DEF s
  <1>4. Running' = Running \ {r} /\ Waiting' = Waiting
    BY <1>1 DEF Inv, TypeOK, Running, Waiting
  <1>5. active' + Cardinality(freeSlots') = Capacity /\ active' \in 0..Capacity
    <2>1. IsFiniteSet(freeSlots) /\ IsFiniteSet(freeSlots')
      BY <1>1, <1>2, SlotsFinite, FS_Subset DEF Inv, TypeOK
    <2>2. Cardinality(freeSlots') = Cardinality(freeSlots) + 1
      BY <1>1, <1>2, <2>1, FS_AddElement
    <2>3. Cardinality(freeSlots') <= Capacity
      <3>1. freeSlots' \in SUBSET Slots
        BY <1>1, <1>2 DEF Inv, TypeOK
      <3> QED BY <3>1, SlotsFinite, FS_Subset
    <2>4. Cardinality(freeSlots) \in Nat /\ Cardinality(freeSlots') \in Nat
      BY <2>1, FS_CardinalityType
    <2>5. active \in Nat /\ active + Cardinality(freeSlots) = Capacity
      BY SchedulerAssumption DEF Inv, TypeOK, SlotsShared
    <2> QED BY <1>1, <2>2, <2>3, <2>4, <2>5, SchedulerAssumption
  <1>6. TypeOK'
    BY <1>1, <1>2, <1>5, CountType DEF Inv, TypeOK, Frame, Phases, Outcomes, Counters
  <1>7. SlotsShared'
    <2>1. \A t \in Requests : held'[t] # None <=> phase'[t] = "running"
      BY <1>1 DEF Inv, TypeOK, SlotsShared
    <2>2. \A t \in Running' : t \in Running /\ held'[t] = held[t]
      BY <1>1, <1>4 DEF Inv, TypeOK, Running
    <2>3. \A t, u \in Running' : held'[t] = held'[u] => t = u
      BY <2>2 DEF Inv, SlotsShared
    <2>4. \A x \in Slots : x \in freeSlots' <=> \A t \in Running' : held'[t] # x
      <3> SUFFICES ASSUME NEW x \in Slots
                   PROVE  x \in freeSlots' <=> \A t \in Running' : held'[t] # x
        OBVIOUS
      <3>1. x \in freeSlots <=> \A t \in Running : held[t] # x
        BY DEF Inv, SlotsShared
      <3>2. r \in Running /\ held[r] = s
        BY <1>1 DEF Running, s
      <3> QED BY <1>1, <1>3, <1>4, <2>2, <3>1, <3>2
    <2> QED BY <1>5, <2>1, <2>3, <2>4 DEF SlotsShared
  <1>8. QueueIsWaiters'
    BY <1>1 DEF Inv, TypeOK, QueueIsWaiters
  <1> QED BY <1>6, <1>7, <1>8 DEF Inv

(* A request that is turned away at the door.                              *)
LEMMA RefusePreserves ==
    ASSUME Inv, NEW r \in Requests, Refuse(r)
    PROVE  Inv'
  <1>1. PICK why \in {"closed", "full"} : phase' = [phase EXCEPT ![r] = why]
    BY DEF Refuse
  <1>2. /\ phase[r] = "idle"
        /\ UNCHANGED <<held, queue, freeSlots, active>>
        /\ Frame
        /\ stats' = stats \/ Count("rejected")
    BY DEF Refuse
  <1>3. stats' \in [Counters -> Nat]
    BY <1>2, CountType DEF Inv, TypeOK, Counters
  <1>4. TypeOK'
    BY <1>1, <1>2, <1>3 DEF Inv, TypeOK, Frame, Phases, Outcomes
  <1>5. Running' = Running /\ \A t \in Requests : phase'[t] = "running" <=> phase[t] = "running"
    BY <1>1, <1>2 DEF Inv, TypeOK, Running
  <1>6. SlotsShared'
    BY <1>2, <1>5 DEF Inv, SlotsShared
  <1>7. QueueIsWaiters'
    BY <1>1, <1>2 DEF Inv, TypeOK, QueueIsWaiters
  <1> QED BY <1>4, <1>6, <1>7 DEF Inv

(* Every step keeps the inductive invariant.                               *)
LEMMA NextInv == Inv /\ [Next]_vars => Inv'
  <1> SUFFICES ASSUME Inv, [Next]_vars PROVE Inv'
    OBVIOUS
  <1>1. CASE Close
    BY <1>1 DEF Close, Inv, TypeOK, SlotsShared, QueueIsWaiters, Running
  <1>2. ASSUME NEW r \in Requests, Refuse(r) PROVE Inv'
    BY <1>2, RefusePreserves
  <1>3. ASSUME NEW r \in Requests, Enter(r) PROVE Inv'
    BY <1>3, EnterPreserves
  <1>4. ASSUME NEW r \in Requests, Wake(r) PROVE Inv'
    BY <1>4, WakePreserves
  <1>5. ASSUME NEW r \in Requests, Finish(r) PROVE Inv'
    BY <1>5, FinishPreserves
  <1>6. ASSUME NEW r \in Requests, Disconnect(r) \/ Expire(r) PROVE Inv'
    BY <1>6 DEF Disconnect, Expire, Inv, TypeOK, SlotsShared, QueueIsWaiters, Running
  <1>7. CASE UNCHANGED vars
    BY <1>7 DEF vars, Inv, TypeOK, SlotsShared, QueueIsWaiters, Running
  <1> QED BY <1>1, <1>2, <1>3, <1>4, <1>5, <1>6, <1>7 DEF Next

----------------------------------------------------------------------------
(* admit() keeps its variables in their ranges: active stays in            *)
(* 0..capacity and every slot number is one of the engine's.               *)
THEOREM TypeCorrect == Spec => []TypeOK
  <1>1. Inv => TypeOK
    BY DEF Inv
  <1> QED BY <1>1, InitInv, NextInv, PTL DEF Spec

(* Free and running share out the slots: the `with scheduler.admit()` body *)
(* of two requests never holds one slot, and no exception path loses one.  *)
THEOREM SlotsCorrect == Spec => []SlotsShared
  <1>1. Inv => SlotsShared
    BY DEF Inv
  <1> QED BY <1>1, InitInv, NextInv, PTL DEF Spec

(* The deque is exactly the set of threads in admit()'s loop.              *)
THEOREM QueueCorrect == Spec => []QueueIsWaiters
  <1>1. Inv => QueueIsWaiters
    BY DEF Inv
  <1> QED BY <1>1, InitInv, NextInv, PTL DEF Spec

----------------------------------------------------------------------------
(* The length of the queue changes by at most one, and grows only when the *)
(* entry test has found room for another waiter.                           *)
LEMMA BoundedNext == Inv /\ QueueBounded /\ [Next]_vars => QueueBounded'
  <1> SUFFICES ASSUME Inv, QueueBounded, [Next]_vars PROVE QueueBounded'
    OBVIOUS
  <1> DEFINE bound == IF MaxQueue = 0 THEN 1 ELSE MaxQueue
  <1>1. Len(queue) \in Nat /\ Len(queue) <= bound
    BY LenProperties DEF Inv, TypeOK, QueueBounded
  <1>2. Lists(queue, Waiting)
    BY QueueListsWaiting DEF Inv
  <1>3. ASSUME NEW r \in Requests, Enter(r) PROVE Len(queue') <= bound
    <2> DEFINE q == Append(queue, r)
    <2>1. r \notin Waiting /\ ~QueueFull
      BY <1>3 DEF Enter, Waiting
    <2>2. Lists(q, Waiting \cup {r}) /\ Len(q) = Len(queue) + 1
      BY <1>2, <2>1, AppendLists
    <2>3. Len(Without(q, r)) = Len(q) - 1
      BY <2>2, WithoutLists DEF Waiting
    <2>4. queue' = Without(q, r) \/ queue' = q
      BY <1>3 DEF Enter, Admit, Cancel, TimeOut, Leave
    <2>5. queue = <<>> => Len(queue) = 0
      OBVIOUS
    <2>6. Len(queue) + 1 <= bound
      BY <1>1, <2>1, <2>5, SchedulerAssumption DEF QueueFull
    <2> HIDE DEF q, bound
    <2> QED BY <1>1, <2>2, <2>3, <2>4, <2>6
  <1>4. ASSUME NEW r \in Requests, Wake(r) PROVE Len(queue') <= bound
    <2>1. r \in Waiting /\ queue' = Without(queue, r)
      BY <1>4 DEF Wake, Waiting, Admit, Cancel, TimeOut, Leave
    <2>2. Len(queue') = Len(queue) - 1
      BY <1>2, <2>1, WithoutLists DEF Waiting
    <2> QED BY <1>1, <2>2, SchedulerAssumption
  <1>5. ASSUME UNCHANGED queue PROVE Len(queue') <= bound
    BY <1>1, <1>5
  <1> HIDE DEF bound
  <1>6. Len(queue') <= bound
    BY <1>3, <1>4, <1>5
       DEF Next, vars, Close, Refuse, Finish, Disconnect, Expire
  <1> QED BY <1>6 DEF QueueBounded, bound

(* No sequence of admissions makes more requests wait than max_queue, but  *)
(* for the one that waits for its pinned slot when max_queue is 0.         *)
THEOREM QueueIsBounded == Spec => []QueueBounded
  <1>1. Init => QueueBounded
    <2>1. Init => Len(queue) = 0
      BY DEF Init
    <2> QED BY <2>1, SchedulerAssumption DEF QueueBounded
  <1> QED BY <1>1, InitInv, NextInv, BoundedNext, PTL DEF Spec

----------------------------------------------------------------------------
(* A set of naturals that is not empty has its Min.                        *)
LEMMA MinOfNaturals ==
    ASSUME NEW S \in SUBSET Nat, S # {}
    PROVE  Min(S) \in S /\ \A x \in S : Min(S) <= x
  <1> DEFINE less == {ss \in Nat \X Nat : ss[1] < ss[2]}
  <1>1. IsWellFoundedOn(less, Nat)
    BY NatLessThanWellFounded, Zenon DEF OpToRel
  <1>2. \E m \in S : \A y \in S : <<y, m>> \notin less
    <2> HIDE DEF less
    <2> QED BY <1>1, WFMin
  <1>3. \E m \in S : \A y \in S : m <= y
    <2>1. PICK m \in S : \A y \in S : <<y, m>> \notin less
      BY <1>2
    <2>2. ASSUME NEW y \in S PROVE m <= y
      <3>1. y \in Nat /\ m \in Nat /\ ~(y < m)
        BY <2>1
      <3> QED BY <3>1
    <2> QED BY <2>2
  <1> QED BY <1>3 DEF Min

(* In every state of the invariant the oldest waiter that wants a free     *)
(* slot may have it: nobody before it wants any of the free ones.          *)
LEMMA InvWorkConserving == Inv => WorkConserving
  <1> SUFFICES ASSUME Inv, NEW w \in Waiting,
                      freeSlots # {}, want[w] \in freeSlots \cup {None}
               PROVE  \E r \in Waiting : CanAdmit(queue, r)
    BY DEF WorkConserving
  <1> DEFINE eligible == {i \in DOMAIN queue : want[queue[i]] \in freeSlots \cup {None}}
             first == Min(eligible)
             r == queue[first]
  <1>1. eligible # {} /\ eligible \in SUBSET Nat
    BY DEF Inv, TypeOK, QueueIsWaiters, Waiting
  <1>2. first \in eligible /\ \A i \in eligible : first <= i
    BY <1>1, MinOfNaturals
  <1>3. first \in DOMAIN queue /\ want[r] \in freeSlots \cup {None}
    BY <1>2
  <1>4. \A i \in 1..(first - 1) : want[queue[i]] \notin freeSlots \cup {None}
    <2> SUFFICES ASSUME NEW i \in 1..(first - 1),
                        want[queue[i]] \in freeSlots \cup {None}
                 PROVE  FALSE
      OBVIOUS
    <2>1. DOMAIN queue = 1..Len(queue) /\ Len(queue) \in Nat
      BY LenProperties DEF Inv, TypeOK
    <2>2. i \in DOMAIN queue
      BY <1>3, <2>1
    <2>3. i \in eligible /\ i < first
      BY <1>3, <2>1, <2>2
    <2> HIDE DEF first
    <2>4. first \in Nat /\ i \in Nat
      BY <1>3, <2>1
    <2> QED BY <1>2, <2>3, <2>4
  <1> HIDE DEF eligible, first
  <1>5. r \in Waiting
    BY <1>3, ElementOfSeq DEF Inv, TypeOK, QueueIsWaiters, Waiting
  <1>6. Position(queue, r) = first
    BY <1>3 DEF Position, Inv, QueueIsWaiters
  <1>7. Available(r) \in freeSlots
    <2>1. freeSlots \in SUBSET Nat /\ None \notin freeSlots
      BY SlotsAreNumbers DEF Inv, TypeOK
    <2>2. Min(freeSlots) \in freeSlots
      BY <2>1, MinOfNaturals
    <2> QED BY <1>3, <2>2 DEF Available
  <1>8. CanAdmit(queue, r)
    BY <1>4, <1>6, <1>7 DEF CanAdmit
  <1> QED BY <1>5, <1>8

(* The (#B2) rule of admit(): a free slot that a waiter wants is never     *)
(* kept from all of them by the order of the queue.                        *)
THEOREM NoHeadOfLineBlocking == Spec => []WorkConserving
  <1> QED BY InitInv, NextInv, InvWorkConserving, PTL DEF Spec

----------------------------------------------------------------------------
(* Who is waiting and running after the step had its turn in the step.     *)
LEMMA OnlyAdmitRuns ==
    ASSUME Inv, [Next]_vars, NEW j \in DOMAIN queue, phase'[queue[j]] = "running"
    PROVE  Admit(queue, queue[j])
  <1> DEFINE r == queue[j]
  <1>1. r \in Requests /\ phase[r] = "waiting"
    BY ElementOfSeq DEF Inv, TypeOK, QueueIsWaiters
  <1>2. phase \in [Requests -> Phases]
    BY DEF Inv, TypeOK
  <1>3. phase'[r] = "running"
    OBVIOUS
  <1> HIDE DEF r
  <1>4. ASSUME NEW t \in Requests, Wake(t) PROVE Admit(queue, r)
    <2>1. phase' = [phase EXCEPT ![t] = phase'[t]]
      BY <1>2, <1>4 DEF Wake, Admit, Cancel, TimeOut, Leave
    <2>2. t = r
      BY <1>1, <1>2, <1>3, <2>1
    <2> QED BY <1>1, <1>2, <1>3, <1>4, <2>2 DEF Wake, Cancel, TimeOut, Leave
  <1>5. ASSUME NEW t \in Requests, Enter(t) PROVE FALSE
    <2>1. phase' = [phase EXCEPT ![t] = phase'[t]] /\ phase[t] = "idle"
      BY <1>2, <1>5 DEF Enter, Admit, Cancel, TimeOut, Leave
    <2> QED BY <1>1, <1>2, <1>3, <2>1
  <1>6. ASSUME NEW t \in Requests, Refuse(t) PROVE FALSE
    BY <1>1, <1>2, <1>3, <1>6 DEF Refuse
  <1>7. ASSUME NEW t \in Requests, Finish(t) PROVE FALSE
    BY <1>1, <1>2, <1>3, <1>7 DEF Finish
  <1>8. ASSUME UNCHANGED phase PROVE FALSE
    BY <1>1, <1>3, <1>8
  <1>9. Admit(queue, r)
    BY <1>4, <1>5, <1>6, <1>7, <1>8 DEF Next, vars, Close, Disconnect, Expire
  <1> QED BY <1>9 DEF r

(* Whatever the others ask for, a waiter keeps its place at the slot it    *)
(* wants: the scan of the earlier entries in CanAdmit sees it.             *)
THEOREM NobodyIsOvertaken == Spec => NoOvertaking
  <1> DEFINE Step ==
        \A i, j \in DOMAIN queue :
           /\ i < j
           /\ want[queue[i]] \in {None, want[queue[j]], held'[queue[j]]}
           /\ phase'[queue[j]] = "running"
           => phase'[queue[i]] # "waiting"
  <1>1. Inv /\ [Next]_vars => Step
    <2> SUFFICES ASSUME Inv, [Next]_vars,
                        NEW i \in DOMAIN queue, NEW j \in DOMAIN queue, i < j,
                        want[queue[i]] \in {None, want[queue[j]], held'[queue[j]]},
                        phase'[queue[j]] = "running"
                 PROVE  FALSE
      OBVIOUS
    <2>1. Admit(queue, queue[j])
      BY OnlyAdmitRuns
    <2>2. Position(queue, queue[j]) = j
      BY DEF Position, Inv, QueueIsWaiters
    <2>3. i \in 1..(j - 1)
      BY LenProperties DEF Inv, TypeOK
    <2>4. want[queue[i]] \notin {None, Available(queue[j])}
      BY <2>1, <2>2, <2>3 DEF Admit, CanAdmit
    <2>5. held'[queue[j]] = Available(queue[j])
      <3>1. queue[j] \in Requests
        BY ElementOfSeq DEF Inv, TypeOK
      <3> QED BY <2>1, <3>1 DEF Admit, Inv, TypeOK
    <2>6. want[queue[j]] # None => want[queue[j]] = Available(queue[j])
      BY DEF Available
    <2> QED BY <2>4, <2>5, <2>6
  <1> QED BY <1>1, InitInv, NextInv, PTL DEF Spec, NoOvertaking

----------------------------------------------------------------------------
(* Counting requests by phase.                                             *)
Those(ps) == {r \in Requests : phase[r] \in ps}

(* A request that moves from one phase to another moves one count.         *)
LEMMA MoveCounts ==
    ASSUME phase \in [Requests -> Phases], NEW r \in Requests, NEW why,
           phase' = [phase EXCEPT ![r] = why], NEW ps
    PROVE  /\ Cardinality(Those(ps)) \in Nat
           /\ Cardinality(Those(ps)') =
                IF why \in ps /\ phase[r] \notin ps THEN Cardinality(Those(ps)) + 1
                ELSE IF why \notin ps /\ phase[r] \in ps THEN Cardinality(Those(ps)) - 1
                ELSE Cardinality(Those(ps))
  <1>1. IsFiniteSet(Those(ps)) /\ Cardinality(Those(ps)) \in Nat
    BY SchedulerAssumption, FS_Subset, FS_CardinalityType DEF Those
  <1>2. CASE why \in ps /\ phase[r] \notin ps
    <2>1. Those(ps)' = Those(ps) \cup {r} /\ r \notin Those(ps)
      BY <1>2 DEF Those
    <2> QED BY <1>1, <1>2, <2>1, FS_AddElement
  <1>3. CASE why \notin ps /\ phase[r] \in ps
    <2>1. Those(ps)' = Those(ps) \ {r} /\ r \in Those(ps)
      BY <1>3 DEF Those
    <2> QED BY <1>1, <1>3, <2>1, FS_RemoveElement
  <1>4. CASE why \in ps <=> phase[r] \in ps
    <2>1. Those(ps)' = Those(ps)
      BY <1>4 DEF Those
    <2> QED BY <1>1, <1>4, <2>1
  <1> QED BY <1>1, <1>2, <1>3, <1>4

(* The ways a step moves a request, with what it does to the counters.     *)
Move(r, from, to) == phase[r] \in from /\ phase' = [phase EXCEPT ![r] = to]

(* Each move of a request is counted in one way.                           *)
LEMMA StepMoves ==
    ASSUME Inv, [Next]_vars
    PROVE  \/ UNCHANGED <<phase, active, stats>>
           \/ \E r \in Requests :
                \/ Move(r, {"idle", "waiting"}, "running") /\ active' = active + 1 /\ Count("admitted")
                \/ Move(r, {"running"}, "completed") /\ active' = active - 1 /\ Count("completed")
                \/ Move(r, {"idle"}, "full") /\ UNCHANGED active /\ Count("rejected")
                \/ Move(r, {"idle", "waiting"}, "cancelled") /\ UNCHANGED active /\ Count("cancelled")
                \/ Move(r, {"idle", "waiting"}, "timed_out") /\ UNCHANGED active /\ Count("timed_out")
                \/ \E to \in {"closed", "waiting"} :
                      Move(r, {"idle", "waiting"}, to) /\ UNCHANGED <<active, stats>>
  <1>1. ASSUME NEW r \in Requests, Refuse(r)
        PROVE  \/ Move(r, {"idle"}, "full") /\ UNCHANGED active /\ Count("rejected")
               \/ Move(r, {"idle", "waiting"}, "closed") /\ UNCHANGED <<active, stats>>
    BY <1>1 DEF Refuse, Move
  <1>2. ASSUME NEW r \in Requests, NEW q, Admit(q, r), phase[r] \in {"idle", "waiting"}
        PROVE  Move(r, {"idle", "waiting"}, "running") /\ active' = active + 1 /\ Count("admitted")
    BY <1>2 DEF Admit, Move
  <1>3. ASSUME NEW r \in Requests, NEW q, Cancel(q, r), phase[r] \in {"idle", "waiting"}
        PROVE  Move(r, {"idle", "waiting"}, "cancelled") /\ UNCHANGED active /\ Count("cancelled")
    BY <1>3 DEF Cancel, Leave, Move
  <1>4. ASSUME NEW r \in Requests, NEW q, TimeOut(q, r), phase[r] \in {"idle", "waiting"}
        PROVE  Move(r, {"idle", "waiting"}, "timed_out") /\ UNCHANGED active /\ Count("timed_out")
    BY <1>4 DEF TimeOut, Leave, Move
  <1>5. ASSUME NEW r \in Requests, Enter(r)
        PROVE  \/ \E q : Admit(q, r) \/ Cancel(q, r) \/ TimeOut(q, r)
               \/ Move(r, {"idle", "waiting"}, "waiting") /\ UNCHANGED <<active, stats>>
    BY <1>5 DEF Enter, Move
  <1>6. ASSUME NEW r \in Requests, Wake(r)
        PROVE  \/ \E q : Admit(q, r) \/ Cancel(q, r) \/ TimeOut(q, r)
               \/ Move(r, {"idle", "waiting"}, "closed") /\ UNCHANGED <<active, stats>>
    BY <1>6 DEF Wake, Leave, Move
  <1>7. ASSUME NEW r \in Requests, Enter(r) \/ Wake(r)
        PROVE  phase[r] \in {"idle", "waiting"}
    BY <1>7 DEF Enter, Wake
  <1>8. ASSUME NEW r \in Requests, Finish(r)
        PROVE  Move(r, {"running"}, "completed") /\ active' = active - 1 /\ Count("completed")
    BY <1>8 DEF Finish, Move
  <1>9. ASSUME Close \/ (\E r \in Requests : Disconnect(r) \/ Expire(r)) \/ UNCHANGED vars
        PROVE  UNCHANGED <<phase, active, stats>>
    BY <1>9 DEF Close, Disconnect, Expire, vars
  <1>10. ASSUME NEW r \in Requests, Enter(r) \/ Wake(r)
         PROVE  \/ Move(r, {"idle", "waiting"}, "running") /\ active' = active + 1 /\ Count("admitted")
                \/ Move(r, {"idle", "waiting"}, "cancelled") /\ UNCHANGED active /\ Count("cancelled")
                \/ Move(r, {"idle", "waiting"}, "timed_out") /\ UNCHANGED active /\ Count("timed_out")
                \/ \E to \in {"closed", "waiting"} :
                      Move(r, {"idle", "waiting"}, to) /\ UNCHANGED <<active, stats>>
    <2>1. CASE \E q : Admit(q, r)
      BY <1>2, <1>7, <1>10, <2>1
    <2>2. CASE \E q : Cancel(q, r)
      BY <1>3, <1>7, <1>10, <2>2
    <2>3. CASE \E q : TimeOut(q, r)
      BY <1>4, <1>7, <1>10, <2>3
    <2> QED BY <1>5, <1>6, <1>10, <2>1, <2>2, <2>3
  <1> QED BY <1>1, <1>8, <1>9, <1>10 DEF Next

(* The counters of the metrics endpoint and the phases agree.              *)
Counted ==
    /\ stats["admitted"] = stats["completed"] + active
    /\ stats["admitted"] = Cardinality(Those({"running", "completed"}))
    /\ stats["rejected"] = Cardinality(Those({"full"}))
    /\ stats["timed_out"] = Cardinality(Those({"timed_out"}))
    /\ stats["cancelled"] = Cardinality(Those({"cancelled"}))

(* Whichever way a call of admit() ends, one counter says so.              *)
LEMMA CountedNext == Inv /\ Counted /\ [Next]_vars => Counted'
  <1> SUFFICES ASSUME Inv, Counted, [Next]_vars PROVE Counted'
    OBVIOUS
  <1>1. /\ stats \in [Counters -> Nat] /\ active \in Nat
        /\ phase \in [Requests -> Phases]
    BY SchedulerAssumption DEF Inv, TypeOK
  <1>2. CASE UNCHANGED <<phase, active, stats>>
    BY <1>2 DEF Counted, Those
  <1>3. ASSUME NEW r \in Requests,
               \/ Move(r, {"idle", "waiting"}, "running") /\ active' = active + 1 /\ Count("admitted")
               \/ Move(r, {"running"}, "completed") /\ active' = active - 1 /\ Count("completed")
               \/ Move(r, {"idle"}, "full") /\ UNCHANGED active /\ Count("rejected")
               \/ Move(r, {"idle", "waiting"}, "cancelled") /\ UNCHANGED active /\ Count("cancelled")
               \/ Move(r, {"idle", "waiting"}, "timed_out") /\ UNCHANGED active /\ Count("timed_out")
               \/ \E to \in {"closed", "waiting"} :
                     Move(r, {"idle", "waiting"}, to) /\ UNCHANGED <<active, stats>>
        PROVE  Counted'
    <2>1. PICK to : phase' = [phase EXCEPT ![r] = to]
      BY <1>3 DEF Move
    <2>2. /\ Cardinality(Those({"running", "completed"})') =
               IF to \in {"running", "completed"} /\ phase[r] \notin {"running", "completed"}
               THEN Cardinality(Those({"running", "completed"})) + 1
               ELSE IF to \notin {"running", "completed"} /\ phase[r] \in {"running", "completed"}
               THEN Cardinality(Those({"running", "completed"})) - 1
               ELSE Cardinality(Those({"running", "completed"}))
          /\ \A p \in {"full", "timed_out", "cancelled"} :
               Cardinality(Those({p})') =
                 IF to = p /\ phase[r] # p THEN Cardinality(Those({p})) + 1
                 ELSE IF to # p /\ phase[r] = p THEN Cardinality(Those({p})) - 1
                 ELSE Cardinality(Those({p}))
      BY <1>1, <2>1, MoveCounts
    <2>3. phase'[r] = to
      BY <1>1, <2>1
    <2>4. CASE Move(r, {"idle", "waiting"}, "running") /\ active' = active + 1 /\ Count("admitted")
      <3>1. to = "running" /\ phase[r] \in {"idle", "waiting"}
        BY <1>1, <2>3, <2>4 DEF Move
      <3> QED BY <1>1, <2>2, <2>4, <3>1 DEF Counted, Count, Counters
    <2>5. CASE Move(r, {"running"}, "completed") /\ active' = active - 1 /\ Count("completed")
      <3>1. to = "completed" /\ phase[r] = "running"
        BY <1>1, <2>3, <2>5 DEF Move
      <3> QED BY <1>1, <2>2, <2>5, <3>1 DEF Counted, Count, Counters
    <2>6. CASE Move(r, {"idle"}, "full") /\ UNCHANGED active /\ Count("rejected")
      <3>1. to = "full" /\ phase[r] = "idle"
        BY <1>1, <2>3, <2>6 DEF Move
      <3> QED BY <1>1, <2>2, <2>6, <3>1 DEF Counted, Count, Counters
    <2>7. CASE Move(r, {"idle", "waiting"}, "cancelled") /\ UNCHANGED active /\ Count("cancelled")
      <3>1. to = "cancelled" /\ phase[r] \in {"idle", "waiting"}
        BY <1>1, <2>3, <2>7 DEF Move
      <3> QED BY <1>1, <2>2, <2>7, <3>1 DEF Counted, Count, Counters
    <2>8. CASE Move(r, {"idle", "waiting"}, "timed_out") /\ UNCHANGED active /\ Count("timed_out")
      <3>1. to = "timed_out" /\ phase[r] \in {"idle", "waiting"}
        BY <1>1, <2>3, <2>8 DEF Move
      <3> QED BY <1>1, <2>2, <2>8, <3>1 DEF Counted, Count, Counters
    <2>9. CASE \E t \in {"closed", "waiting"} :
                  Move(r, {"idle", "waiting"}, t) /\ UNCHANGED <<active, stats>>
      <3>1. to \in {"closed", "waiting"} /\ phase[r] \in {"idle", "waiting"}
        BY <1>1, <2>3, <2>9 DEF Move
      <3> QED BY <1>1, <2>2, <2>9, <3>1 DEF Counted
    <2> QED BY <1>3, <2>4, <2>5, <2>6, <2>7, <2>8, <2>9
  <1> QED BY <1>2, <1>3, StepMoves

(* The counters a scrape of /metrics or /health reads are those of what    *)
(* really happened, in every state between two critical sections.          *)
THEOREM CountersCorrect == Spec => []CountersAgree
  <1>1. Init => Counted
    <2> SUFFICES ASSUME Init PROVE Counted
      OBVIOUS
    <2>1. \A ps \in SUBSET (Phases \ {"idle"}) : Those(ps) = {}
      BY DEF Init, Those
    <2>2. /\ Those({"running", "completed"}) = {} /\ Those({"full"}) = {}
          /\ Those({"timed_out"}) = {} /\ Those({"cancelled"}) = {}
      BY <2>1 DEF Phases, Outcomes
    <2>3. Cardinality({}) = 0
      BY FS_EmptySet
    <2>4. active = 0 /\ \A c \in Counters : stats[c] = 0
      BY DEF Init
    <2>5. /\ stats["admitted"] = 0 /\ stats["completed"] = 0 /\ stats["rejected"] = 0
          /\ stats["timed_out"] = 0 /\ stats["cancelled"] = 0
      BY <2>4 DEF Counters
    <2> QED BY <2>2, <2>3, <2>4, <2>5 DEF Counted
  <1>2. Counted => CountersAgree
    <2>1. \A p : Those({p}) = {r \in Requests : phase[r] = p}
      BY DEF Those
    <2>2. Those({"running", "completed"}) = {r \in Requests : phase[r] \in {"running", "completed"}}
      BY DEF Those
    <2> QED BY <2>1, <2>2 DEF Counted, CountersAgree
  <1> QED BY <1>1, <1>2, InitInv, NextInv, CountedNext, PTL DEF Spec

----------------------------------------------------------------------------
(* Owners inverts a function that gives no slot to two requests.           *)
LEMMA OwnersProperties ==
    ASSUME NEW h \in [Requests -> Slots \cup {None}],
           \A r, t \in Requests : h[r] = h[t] /\ h[r] # None => r = t
    PROVE  /\ Owners(h) \in [Slots -> Requests \cup {None}]
           /\ \A s \in Slots, r \in Requests : Owners(h)[s] = r <=> h[r] = s
  <1> SUFFICES ASSUME NEW s \in Slots
               PROVE  /\ Owners(h)[s] \in Requests \cup {None}
                      /\ \A r \in Requests : Owners(h)[s] = r <=> h[r] = s
    BY DEF Owners
  <1>1. CASE \E r \in Requests : h[r] = s
    <2> DEFINE o == CHOOSE r \in Requests : h[r] = s
    <2>1. o \in Requests /\ h[o] = s
      BY <1>1
    <2>2. Owners(h)[s] = o
      BY <1>1 DEF Owners
    <2> HIDE DEF o
    <2> QED BY <2>1, <2>2, SlotsAreNumbers
  <1>2. CASE ~ \E r \in Requests : h[r] = s
    BY <1>2, SchedulerAssumption DEF Owners
  <1> QED BY <1>1, <1>2

(* No two requests hold the same slot.                                     *)
LEMMA HeldIsInjective ==
    ASSUME TypeOK, SlotsShared
    PROVE  /\ held \in [Requests -> Slots \cup {None}]
           /\ \A r, t \in Requests : held[r] = held[t] /\ held[r] # None => r = t
  BY DEF TypeOK, SlotsShared, Running

(* A request that is admitted acquires its slot, and one that finishes     *)
(* releases it.                                                            *)
LEMMA AdmitAcquires ==
    ASSUME Inv, Inv', NEW r \in Requests, phase[r] # "running", NEW q, Admit(q, r)
    PROVE  Pool!Acquire(r, Available(r))
  <1> DEFINE s == Available(r)
             o == Owners(held)
             p == Owners(held')
  <1>1. s \in freeSlots /\ held' = [held EXCEPT ![r] = s]
    BY DEF Admit, CanAdmit
  <1> HIDE DEF s
  <1>2. /\ s \in Slots
        /\ held[r] = None
        /\ \A t \in Requests : held[t] # s
    <2>1. s \in Slots /\ s # None
      BY <1>1, SlotsAreNumbers DEF Inv, TypeOK
    <2> QED BY <1>1, <2>1 DEF Inv, TypeOK, SlotsShared, Running
  <1>3. /\ o \in [Slots -> Requests \cup {None}]
        /\ \A x \in Slots, t \in Requests : o[x] = t <=> held[t] = x
    BY HeldIsInjective, OwnersProperties DEF Inv
  <1>4. /\ p \in [Slots -> Requests \cup {None}]
        /\ \A x \in Slots, t \in Requests : p[x] = t <=> held'[t] = x
    <2>1. /\ held' \in [Requests -> Slots \cup {None}]
          /\ \A t, u \in Requests : held'[t] = held'[u] /\ held'[t] # None => t = u
      BY DEF Inv, TypeOK, SlotsShared, Running
    <2> QED BY <2>1, OwnersProperties
  <1> HIDE DEF o, p
  <1>5. held \in [Requests -> Slots \cup {None}] /\ None \notin Slots
    BY SlotsAreNumbers DEF Inv, TypeOK
  <1>6. o[s] = None /\ \A x \in Slots : o[x] # r
    BY <1>2, <1>3, <1>5
  <1>7. ASSUME NEW x \in Slots PROVE p[x] = [o EXCEPT ![s] = r][x]
    <2>1. CASE x = s
      BY <1>1, <1>2, <1>3, <1>4, <1>5, <2>1
    <2>2. CASE x # s
      <3>1. \A t \in Requests : held'[t] = x <=> held[t] = x
        BY <1>1, <1>2, <1>5, <2>2
      <3> QED BY <1>3, <1>4, <2>2, <3>1
    <2> QED BY <2>1, <2>2
  <1>8. p = [o EXCEPT ![s] = r]
    BY <1>3, <1>4, <1>7
  <1> QED BY <1>6, <1>8 DEF Pool!Acquire, Holder, o, p, s

(* The finally clause takes the owner off one slot.                        *)
LEMMA FinishReleases ==
    ASSUME Inv, Inv', NEW r \in Requests, Finish(r)
    PROVE  Pool!Release(r, held[r])
  <1> DEFINE s == held[r]
             o == Owners(held)
             p == Owners(held')
  <1>1. phase[r] = "running" /\ held' = [held EXCEPT ![r] = None]
    BY DEF Finish
  <1>2. s \in Slots
    BY <1>1 DEF Inv, TypeOK, SlotsShared
  <1>3. \A t \in Requests : held[t] = s => t = r
    BY <1>2, SlotsAreNumbers, HeldIsInjective DEF Inv
  <1>4. /\ o \in [Slots -> Requests \cup {None}]
        /\ \A x \in Slots, t \in Requests : o[x] = t <=> held[t] = x
    BY HeldIsInjective, OwnersProperties DEF Inv
  <1>5. /\ p \in [Slots -> Requests \cup {None}]
        /\ \A x \in Slots, t \in Requests : p[x] = t <=> held'[t] = x
    <2>1. /\ held' \in [Requests -> Slots \cup {None}]
          /\ \A t, u \in Requests : held'[t] = held'[u] /\ held'[t] # None => t = u
      BY DEF Inv, TypeOK, SlotsShared, Running
    <2> QED BY <2>1, OwnersProperties
  <1>6. held \in [Requests -> Slots \cup {None}] /\ None \notin Slots
    BY SlotsAreNumbers DEF Inv, TypeOK
  <1> HIDE DEF o, p
  <1>7. o[s] = r
    BY <1>2, <1>4
  <1>8. ASSUME NEW x \in Slots PROVE p[x] = [o EXCEPT ![s] = None][x]
    <2>1. CASE x = s
      <3>1. \A t \in Requests : held'[t] # x
        BY <1>1, <1>3, <1>6, <2>1
      <3> QED BY <1>4, <1>5, <2>1, <3>1
    <2>2. CASE x # s
      <3>1. \A t \in Requests : held'[t] = x <=> held[t] = x
        BY <1>1, <1>6, <2>2
      <3> QED BY <1>4, <1>5, <2>2, <3>1
    <2> QED BY <2>1, <2>2
  <1>9. p = [o EXCEPT ![s] = None]
    BY <1>4, <1>5, <1>8
  <1> QED BY <1>7, <1>9 DEF Pool!Release, Holder, o, p

(* Every step of the scheduler is a step of SlotPool or leaves every slot  *)
(* with its owner.                                                         *)
LEMMA StepRefines == Inv /\ Inv' /\ [Next]_vars => [Pool!Next]_Holder
  <1> SUFFICES ASSUME Inv, Inv', [Next]_vars PROVE [Pool!Next]_Holder
    OBVIOUS
  <1>1. ASSUME NEW r \in Requests, phase[r] # "running", NEW q, Admit(q, r)
        PROVE  Pool!Next
    <2>1. Pool!Acquire(r, Available(r))
      BY <1>1, AdmitAcquires
    <2>2. Available(r) \in Slots
      BY <1>1 DEF Admit, CanAdmit, Inv, TypeOK
    <2> QED BY <2>1, <2>2 DEF Pool!Next
  <1>2. ASSUME NEW r \in Requests, Finish(r) PROVE Pool!Next
    <2>1. Pool!Release(r, held[r])
      BY <1>2, FinishReleases
    <2>2. held[r] \in Slots
      BY <1>2 DEF Finish, Inv, TypeOK, SlotsShared
    <2> QED BY <2>1, <2>2 DEF Pool!Next
  <1>3. ASSUME NEW r \in Requests, Enter(r) \/ Wake(r)
        PROVE  Pool!Next \/ UNCHANGED held
    <2>1. phase[r] # "running"
      BY <1>3 DEF Enter, Wake
    <2>2. (\E q : Admit(q, r)) \/ UNCHANGED held
      BY <1>3 DEF Enter, Wake, Cancel, TimeOut, Leave
    <2> QED BY <1>1, <2>1, <2>2
  <1>4. Pool!Next \/ UNCHANGED held
    BY <1>2, <1>3 DEF Next, vars, Close, Refuse, Disconnect, Expire
  <1> QED BY <1>4 DEF Holder

(* The scheduler implements SlotPool: read through Holder, admit() only    *)
(* hands out free slots and the finally clause only returns held ones.     *)
THEOREM SchedulerImplementsSlotPool == Spec => ImplementsSlotPool
  <1>1. Init => Pool!Init
    BY SlotsAreNumbers DEF Init, Pool!Init, Holder, Owners
  <1> QED BY <1>1, InitInv, NextInv, StepRefines, PTL DEF Spec, ImplementsSlotPool, Pool!Spec
=============================================================================
