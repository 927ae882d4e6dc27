------------------------------- MODULE MCLive -------------------------------
(* What must eventually happen where threads wait for one another: a       *)
(* request on its way through the gateway and an engine of one slot, the   *)
(* waiters of the scheduler, and the batches of the expert-load pool, each *)
(* on its own instance and under its own fairness.  The initial state      *)
(* chooses one; the others are at rest, where no thread of them has        *)
(* anything to do.                                                         *)
EXTENDS PipePool

CONSTANTS Parts,                \* the parts to explore: "server", "queue", "pool"
          r1, r2, r3, None      \* model values

VARIABLES part,
          hpc, slot, pending, events, accepted, asked, dispatcher, closing, stdin, stdout,
          alive, epc, req, emitted, rows, prefill, flag, spec,
          want, phase, held, queue, freeSlots, active, closed, stats, gone, late

Server == INSTANCE Gateway WITH
    Requests <- {r1, r2, r3}, NSlots <- 1, MaxTokens <- 3, HeaderWrites <- {TRUE}, job <- prefill

Admission == INSTANCE Scheduler WITH Requests <- {r1, r2, r3}, Capacity <- 2, MaxQueue <- 2

\* The number of misses never grows from one batch to the next; or it does.
Shrinking == {<<3, 3, 2>>, <<3, 2, 1>>, <<2, 2, 2>>}
Growing == {<<1, 2>>, <<2, 1, 3>>}

\* Every handler has returned and the engine is gone.
ServerRests ==
    /\ hpc = [r \in {r1, r2, r3} |-> "over"] /\ slot = [r \in {r1, r2, r3} |-> None]
    /\ pending = {} /\ events = [r \in {r1, r2, r3} |-> <<>>]
    /\ accepted = [r \in {r1, r2, r3} |-> FALSE] /\ asked = [r \in {r1, r2, r3} |-> None]
    /\ dispatcher = "stopped" /\ closing = "no" /\ stdin = <<>> /\ stdout = <<>>
    /\ alive = FALSE /\ epc = "poll" /\ req = [s \in {0} |-> None] /\ emitted = [s \in {0} |-> 0]
    /\ rows = {} /\ prefill = None /\ flag = None /\ spec = FALSE

\* Every request was refused by a server that had been closed.
QueueRests ==
    /\ want = [r \in {r1, r2, r3} |-> None] /\ phase = [r \in {r1, r2, r3} |-> "closed"]
    /\ held = want /\ queue = <<>> /\ freeSlots = {0, 1} /\ active = 0 /\ closed = TRUE
    /\ stats = [counter \in Admission!Counters |-> 0] /\ gone = {} /\ late = {}

\* No batch, and every worker is parked.
PoolRests ==
    /\ sizes = <<>> /\ block = FALSE /\ batch = 0 /\ mpc = "idle" /\ q = 0
    /\ cur = [gen |-> 0, idx |-> 0] /\ njobs = 0 /\ layer = Unset
    /\ eids = [i \in Jobs |-> Unset] /\ ready = [i \in Jobs |-> FALSE]
    /\ ws = [i \in Jobs |-> NoExpert] /\ wpc = [w \in Workers |-> "parked"]
    /\ seen = [w \in Workers |-> 0] /\ c = [w \in Workers |-> cur]
    /\ job = [w \in Workers |-> NoExpert]

\* Of two initial states that differ by the names of r2 and r3, one is enough.
Rank(wanted) == IF wanted = None THEN 2 ELSE wanted

LiveInit ==
    /\ part \in Parts
    /\ IF part = "server" THEN Server!Init ELSE ServerRests
    /\ IF part = "queue" THEN Admission!Init /\ Rank(want[r2]) <= Rank(want[r3]) ELSE QueueRests
    /\ IF part = "pool" THEN Init ELSE PoolRests

serverVars == <<hpc, slot, pending, events, accepted, asked, dispatcher, closing, stdin, stdout,
                alive, epc, req, emitted, rows, prefill, flag, spec>>
queueVars == <<want, phase, held, queue, freeSlots, active, closed, stats, gone, late>>
liveVars == <<part, serverVars, queueVars, vars>>

ServerStep == part = "server" /\ Server!Next /\ UNCHANGED <<part, queueVars, vars>>
QueueStep == part = "queue" /\ Admission!Next /\ UNCHANGED <<part, serverVars, vars>>
PoolStep == part = "pool" /\ Next /\ UNCHANGED <<part, serverVars, queueVars>>

LiveNext == ServerStep \/ QueueStep \/ PoolStep

\* The fairness of the three modules, for the part that runs.
LiveFairness ==
    /\ \A r \in {r1, r2, r3} : WF_serverVars(part = "server" /\ Server!Handler(r))
    /\ WF_serverVars(part = "server" /\ Server!Dispatcher)
    /\ WF_serverVars(part = "server" /\ Server!Closer)
    /\ WF_serverVars(part = "server" /\ Server!EngineStep)
    /\ \A r \in {r1, r2, r3} : WF_queueVars(part = "queue" /\ (Admission!Wake(r) \/ Admission!Finish(r)))
    /\ WF_vars(part = "pool" /\ Main)
    /\ \A w \in Workers : /\ WF_vars(part = "pool" /\ Progress(w))
                          /\ SF_vars(part = "pool" /\ CasWins(w))

LiveSpec == LiveInit /\ [][LiveNext]_liveVars /\ LiveFairness

----------------------------------------------------------------------------
(* Neither module tells requests apart: what holds of r1, whatever it and  *)
(* the others ask for, holds of each.                                      *)

(* Whatever dies, and whenever the server is closed, a request that was    *)
(* admitted ends: its handler is told, and gives the slot back.            *)
RequestsEnd == Server!Ends(r1)

(* No waiter of admit() starves: generations end, so every waiter leaves   *)
(* the queue, even if it never times out and whatever slots the others ask *)
(* for.                                                                    *)
WaitersServed == Admission!Served(r1)
=============================================================================
