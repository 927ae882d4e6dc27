----------------------------- MODULE Scheduler -----------------------------
(***************************************************************************)
(* GenerationScheduler of c/openai_server.py: bounded admission of HTTP    *)
(* requests to the engine's KV slots.  Every request is one handler thread *)
(* that calls admit() once.  The scheduler's state is only touched under   *)
(* its condition variable, and a waiter re-examines it after every notify  *)
(* and at least every 0.25 s, so one pass of the while loop of admit() is  *)
(* one atomic step.                                                        *)
(***************************************************************************)
EXTENDS Naturals, FiniteSets, SequencesExt

CONSTANTS Requests,  \* the handler threads, each with one call of admit()
          Capacity,  \* KV slots (capacity)
          MaxQueue,  \* max_queue
          None       \* slot=None: any slot will do

ASSUME SchedulerAssumption ==
    /\ IsFiniteSet(Requests)
    /\ Capacity \in Nat \ {0}
    /\ MaxQueue \in Nat
    /\ None \notin Nat /\ None \notin Requests

Slots == 0..(Capacity - 1)

VARIABLES
    want,       \* the slot each request asks for, or None
    phase,      \* where each handler thread stands
    held,       \* the slot a running request was given
    queue,      \* self.queue: waiting requests, oldest first
    freeSlots,  \* self.free_slots
    active,     \* self.active
    closed,     \* self.closed
    stats,      \* self.admitted, completed, rejected, timed_out, cancelled
    gone,       \* requests whose client has disconnected: cancelled()
    late        \* requests whose deadline, counted from the call of admit(), has passed

vars == <<want, phase, held, queue, freeSlots, active, closed, stats, gone, late>>

Outcomes == {"completed", "full", "closed", "cancelled", "timed_out"}
Phases == {"idle", "waiting", "running"} \cup Outcomes

Counters == {"admitted", "completed", "rejected", "timed_out", "cancelled"}
Count(c) == stats' = [stats EXCEPT ![c] = @ + 1]

Init ==
    /\ want \in [Requests -> Slots \cup {None}]
    /\ phase = [r \in Requests |-> "idle"]
    /\ held = [r \in Requests |-> None]
    /\ queue = <<>>
    /\ freeSlots = Slots
    /\ active = 0
    /\ closed = FALSE
    /\ stats = [c \in Counters |-> 0]
    /\ gone = {}
    /\ late = {}

----------------------------------------------------------------------------
(* The slot r would be given now: the lowest free one if any will do.      *)
Available(r) == IF want[r] = None /\ freeSlots # {} THEN Min(freeSlots) ELSE want[r]

Position(q, r) == CHOOSE i \in DOMAIN q : q[i] = r

\* Mutants: the strict FIFO head rule, and no scan of the queue at all.
CanAdmitHead(q, r) == Available(r) \in freeSlots /\ Position(q, r) = 1
CanAdmitAny(q, r) == Available(r) \in freeSlots

\* r may have its slot if it is free and no earlier waiter of q wants it too.
CanAdmit(q, r) ==
    /\ Available(r) \in freeSlots
    /\ \A i \in 1..(Position(q, r) - 1) : want[q[i]] \notin {None, Available(r)}

\* self.queue.remove(entry)
Without(q, r) == RemoveAt(q, Position(q, r))

\* Mutant: off by one at the bound.
QueueFullLate == (active >= Capacity \/ queue # <<>>) /\ Len(queue) > MaxQueue

\* The entry test of admit(): the queue is full, and r would have to wait.
QueueFull == (active >= Capacity \/ queue # <<>>) /\ Len(queue) >= MaxQueue

\* Mutant: the slot stays in free_slots.
AdmitKeepsSlot(q, r) ==
    /\ CanAdmit(q, r)
    /\ queue' = Without(q, r)
    /\ held' = [held EXCEPT ![r] = Available(r)]
    /\ active' = active + 1
    /\ phase' = [phase EXCEPT ![r] = "running"]
    /\ Count("admitted")
    /\ UNCHANGED freeSlots

\* r leaves the loop with a slot.
Admit(q, r) ==
    /\ CanAdmit(q, r)
    /\ queue' = Without(q, r)
    /\ freeSlots' = freeSlots \ {Available(r)}
    /\ held' = [held EXCEPT ![r] = Available(r)]
    /\ active' = active + 1
    /\ phase' = [phase EXCEPT ![r] = "running"]
    /\ Count("admitted")

\* Mutant: the entry stays in the queue.
LeaveInQueue(q, r, why) ==
    /\ queue' = q
    /\ phase' = [phase EXCEPT ![r] = why]
    /\ UNCHANGED <<held, freeSlots, active>>

\* r leaves the loop by an exception.
Leave(q, r, why) ==
    /\ queue' = Without(q, r)
    /\ phase' = [phase EXCEPT ![r] = why]
    /\ UNCHANGED <<held, freeSlots, active>>

\* Mutant: the cancellation is not counted.
CancelUncounted(q, r) ==
    /\ ~CanAdmit(q, r)
    /\ r \in gone
    /\ Leave(q, r, "cancelled")
    /\ UNCHANGED stats

Cancel(q, r) ==
    /\ ~CanAdmit(q, r)
    /\ r \in gone
    /\ Leave(q, r, "cancelled")
    /\ Count("cancelled")

TimeOut(q, r) ==
    /\ ~CanAdmit(q, r)
    /\ r \notin gone
    /\ r \in late
    /\ Leave(q, r, "timed_out")
    /\ Count("timed_out")

----------------------------------------------------------------------------
\* The shared tail of the steps below: what no call of admit() changes.
Frame == UNCHANGED <<want, closed, gone, late>>

(* admit() up to its first wait().  The entry tests, the append and the    *)
(* first pass of the loop are one critical section.                        *)
Refuse(r) ==
    /\ phase[r] = "idle"
    /\ closed \/ QueueFull
    /\ phase' = [phase EXCEPT ![r] = IF closed THEN "closed" ELSE "full"]
    /\ IF closed THEN UNCHANGED stats ELSE Count("rejected")
    /\ UNCHANGED <<held, queue, freeSlots, active>>
    /\ Frame

Enter(r) ==
    /\ phase[r] = "idle"
    /\ ~closed
    /\ ~QueueFull
    /\ LET q == Append(queue, r) IN
         \/ Admit(q, r)
         \/ Cancel(q, r)
         \/ TimeOut(q, r)
         \/ /\ ~CanAdmit(q, r)
            /\ r \notin gone \cup late
            /\ queue' = q
            /\ phase' = [phase EXCEPT ![r] = "waiting"]
            /\ UNCHANGED <<held, freeSlots, active, stats>>
    /\ Frame

(* A pass of the loop after a wait().  A pass that ends in another wait()  *)
(* changes nothing.                                                        *)
Wake(r) ==
    /\ phase[r] = "waiting"
    /\ IF closed
       THEN Leave(queue, r, "closed") /\ UNCHANGED stats
       ELSE Admit(queue, r) \/ Cancel(queue, r) \/ TimeOut(queue, r)
    /\ Frame

\* Mutants: active is not lowered; the slot is not given back.
FinishKeepsActive(r) ==
    /\ phase[r] = "running"
    /\ phase' = [phase EXCEPT ![r] = "completed"]
    /\ freeSlots' = freeSlots \cup {held[r]}
    /\ held' = [held EXCEPT ![r] = None]
    /\ Count("completed")
    /\ UNCHANGED <<queue, active>>
    /\ Frame

FinishLosesSlot(r) ==
    /\ phase[r] = "running"
    /\ phase' = [phase EXCEPT ![r] = "completed"]
    /\ active' = active - 1
    /\ held' = [held EXCEPT ![r] = None]
    /\ Count("completed")
    /\ UNCHANGED <<queue, freeSlots>>
    /\ Frame

(* The finally clause: the handler's generation is over, well or badly.    *)
Finish(r) ==
    /\ phase[r] = "running"
    /\ phase' = [phase EXCEPT ![r] = "completed"]
    /\ active' = active - 1
    /\ freeSlots' = freeSlots \cup {held[r]}
    /\ held' = [held EXCEPT ![r] = None]
    /\ Count("completed")
    /\ UNCHANGED queue
    /\ Frame

Close ==
    /\ ~closed
    /\ closed' = TRUE
    /\ UNCHANGED <<want, phase, held, queue, freeSlots, active, stats, gone, late>>

\* The environment: a client hangs up, a deadline passes.
Disconnect(r) ==
    /\ r \notin gone
    /\ phase[r] \in {"idle", "waiting"}
    /\ gone' = gone \cup {r}
    /\ UNCHANGED <<want, phase, held, queue, freeSlots, active, closed, stats, late>>

Expire(r) ==
    /\ r \notin late
    /\ phase[r] \in {"idle", "waiting"}
    /\ late' = late \cup {r}
    /\ UNCHANGED <<want, phase, held, queue, freeSlots, active, closed, stats, gone>>

Next ==
    \/ Close
    \/ \E r \in Requests :
         \/ Refuse(r) \/ Enter(r) \/ Wake(r) \/ Finish(r)
         \/ Disconnect(r) \/ Expire(r)

Spec == Init /\ [][Next]_vars

(* A waiting thread wakes at least every 0.25 s, and a generation ends     *)
(* (the engine bounds it by max_tokens).  Nobody has to close the server,  *)
(* hang up or time out.                                                    *)
Fairness == \A r \in Requests : WF_vars(Wake(r) \/ Finish(r))

FairSpec == Spec /\ Fairness

----------------------------------------------------------------------------
Running == {r \in Requests : phase[r] = "running"}
Waiting == {r \in Requests : phase[r] = "waiting"}

TypeOK ==
    /\ want \in [Requests -> Slots \cup {None}]
    /\ phase \in [Requests -> Phases]
    /\ held \in [Requests -> Slots \cup {None}]
    /\ queue \in Seq(Requests)
    /\ freeSlots \subseteq Slots
    /\ active \in 0..Capacity
    /\ closed \in BOOLEAN
    /\ stats \in [Counters -> Nat]
    /\ gone \subseteq Requests
    /\ late \subseteq Requests

(* The running requests and the free slots share out the slots: no slot is *)
(* given twice, none is lost, and active, which the entry test of admit()  *)
(* reads instead of the slots, agrees with them.                           *)
SlotsShared ==
    /\ \A r \in Requests : held[r] # None <=> phase[r] = "running"
    /\ \A r, s \in Running : held[r] = held[s] => r = s
    /\ \A s \in Slots : s \in freeSlots <=> \A r \in Running : held[r] # s
    /\ active + Cardinality(freeSlots) = Capacity

(* The deque holds exactly the threads that are in the loop, each once:    *)
(* no exception path leaves a dead entry behind to block the slot.         *)
QueueIsWaiters ==
    /\ \A r \in Requests : phase[r] = "waiting" <=> \E i \in DOMAIN queue : queue[i] = r
    /\ \A i, j \in DOMAIN queue : queue[i] = queue[j] => i = j

(* What the (#B2) comment of admit() promises: no head-of-line blocking.   *)
(* If some free slot is wanted by a waiter then some waiter may have one.  *)
WorkConserving ==
    (\E r \in Waiting : freeSlots # {} /\ want[r] \in freeSlots \cup {None})
        => \E r \in Waiting : CanAdmit(queue, r)

(* The queue never outgrows its bound.  With max_queue=0 one request       *)
(* pinned to a busy slot may still wait while another slot is free.        *)
QueueBounded == Len(queue) <= IF MaxQueue = 0 THEN 1 ELSE MaxQueue

(* Every call of admit() that is admitted, refused for want of room, timed *)
(* out or cancelled ends in exactly one counter; those refused by shutdown *)
(* are in none.                                                            *)
CountersAgree ==
    /\ stats["admitted"] = stats["completed"] + active
    /\ stats["admitted"] = Cardinality({r \in Requests : phase[r] \in {"running", "completed"}})
    /\ stats["rejected"] = Cardinality({r \in Requests : phase[r] = "full"})
    /\ stats["timed_out"] = Cardinality({r \in Requests : phase[r] = "timed_out"})
    /\ stats["cancelled"] = Cardinality({r \in Requests : phase[r] = "cancelled"})

(* No waiter starves: generations end, so every waiter leaves the queue,   *)
(* even if it never times out and whatever slots the others ask for.       *)
Served(r) == phase[r] = "waiting" ~> phase[r] # "waiting"
WaitersServed == \A r \in Requests : Served(r)

(* A request is never overtaken at a slot it wants (#B2): while it waits   *)
(* no later one is given that slot, or any slot at all if it would take    *)
(* any.                                                                    *)
NoOvertaking ==
    [][\A i, j \in DOMAIN queue :
         /\ i < j
         /\ want[queue[i]] \in {None, want[queue[j]], held'[queue[j]]}
         /\ phase'[queue[j]] = "running"
         => phase'[queue[i]] # "waiting"]_vars
=============================================================================
