---------------------------- MODULE GatewayProofs ----------------------------
(***************************************************************************)
(* What the gateway and the engine guarantee for any number of requests,   *)
(* slots and tokens.  Two of the theorems need that the response headers   *)
(* can be written: when that fails a handler gives its slot away while the *)
(* engine still computes in it.                                            *)
(*                                                                         *)
(* The inductive invariant follows one request through both processes: as  *)
(* long as its SUBMIT is in the pipe there is no frame for it, while the   *)
(* engine has it there is no last frame, and a STOP or CANCEL finds it in  *)
(* a slot or its last frame already written.  If headers are written, then *)
(* whatever slot the engine uses, or was told to use, belongs to no other  *)
(* request that may still be submitted.                                    *)
(***************************************************************************)
EXTENDS Gateway, TLAPS, SequenceTheorems

\* Writing the response headers never fails.
HeadersAreWritten == HeaderWrites = {TRUE}

Phases == {"idle", "admitted", "registered", "waiting", "leaving", "over"}
Early == {"idle", "admitted", "registered"}
Opening == {"ACCEPT", "REFUSED", "SLOT_BUSY"}
Endings == {"DONE", "REFUSED", "SLOT_BUSY", "CANCELLED"}
EngineKinds == {"ACCEPT", "DATA", "NOT_FOUND"} \cup Endings
EngineFrames == [kind : EngineKinds, id : Requests]
Events == [kind : EngineKinds \cup {"FAILED"}, id : Requests]
Lines == [kind : {"SUBMIT", "STOP", "CANCEL"}, id : Requests, slot : Slots]
Jobs == [id : Requests, slot : Slots]

Typed ==
    /\ hpc \in [Requests -> Phases]
    /\ slot \in [Requests -> Slots \cup {None}]
    /\ pending \subseteq Requests
    /\ events \in [Requests -> Seq(Events)]
    /\ \A r \in Requests : \A i \in DOMAIN events[r] : events[r][i].id = r
    /\ accepted \in [Requests -> BOOLEAN]
    /\ asked \in [Requests -> {None, "STOP", "CANCEL"}]
    /\ dispatcher \in {"running", "error_set", "stopped"}
    /\ closing \in {"no", "closed", "failed", "terminated"}
    /\ stdin \in Seq(Lines)
    /\ stdout \in Seq(EngineFrames)
    /\ alive \in BOOLEAN
    /\ epc \in {"poll", "prefill", "round", "spec", "ctl"}
    /\ req \in [Slots -> Requests \cup {None}]
    /\ emitted \in [Slots -> 0..MaxTokens]
    /\ epc = "prefill" => job \in Jobs
    /\ spec \in BOOLEAN

\* The engine's own state; a process that is gone has none, and its pipe is
\* not written to any more.
Engine ==
    /\ rows \subseteq {s \in Slots : req[s] # None}
    /\ epc # "round" => rows = {}
    /\ epc \in {"spec", "ctl"} => NSlots = 1 /\ \E s \in Slots : req[s] # None
    /\ spec => NSlots = 1
    /\ epc = "prefill" => req[job.slot] = None
    /\ ~alive => stdin = <<>> /\ epc = "poll" /\ \A s \in Slots : req[s] = None
    /\ dispatcher # "running" => ~alive

InEngine(r) == (epc = "prefill" /\ job.id = r) \/ \E s \in Slots : req[s] = r
Said(r, kinds) == \E i \in DOMAIN stdout : stdout[i].id = r /\ stdout[i].kind \in kinds
Heard(r, kinds) == \E i \in DOMAIN events[r] : events[r][i].kind \in kinds
Sent(r, kinds) == \E i \in DOMAIN stdin : stdin[i].id = r /\ stdin[i].kind \in kinds
Submitted(r) == Sent(r, {"SUBMIT"})

\* A request nobody has submitted yet.
Fresh ==
    \A r \in Requests : hpc[r] \in Early =>
        /\ ~InEngine(r) /\ ~Sent(r, {"SUBMIT", "STOP", "CANCEL"}) /\ ~Said(r, EngineKinds)
        /\ ~accepted[r] /\ ~Heard(r, EngineKinds)
        /\ hpc[r] # "registered" => r \notin pending /\ events[r] = <<>>
        /\ Len(events[r]) <= 1
        /\ hpc[r] = "registered" /\ r \notin pending => closing # "no" \/ dispatcher # "running"

\* A request whose SUBMIT the engine has not read yet.
Unread ==
    \A i \in DOMAIN stdin : stdin[i].kind = "SUBMIT" =>
        LET r == stdin[i].id IN
        /\ \A j \in DOMAIN stdin : stdin[j].id = r => i = j
        /\ ~InEngine(r) /\ ~Said(r, EngineKinds) /\ ~Heard(r, EngineKinds) /\ ~accepted[r]

\* A request the engine works on.
Working ==
    \A r \in Requests : InEngine(r) =>
        /\ ~Said(r, Endings \cup {"NOT_FOUND"})
        /\ hpc[r] = "waiting" /\ r \in pending =>
             accepted[r] \/ Said(r, EngineKinds) \/ Heard(r, EngineKinds)

\* A request that has put out a token, or that is being stopped.
Begun ==
    \A r \in Requests :
        alive /\ (Sent(r, {"STOP", "CANCEL"}) \/ Said(r, {"DATA"}) \/ Heard(r, {"DATA"})) =>
            r \notin pending \/ (\E s \in Slots : req[s] = r) \/ Said(r, Endings)

\* Who leaves pending is told, with the answer to a late STOP left out.
Told ==
    \A r \in Requests :
        /\ hpc[r] \in {"registered", "waiting"} /\ r \notin pending => Heard(r, Terminal)
        /\ r \in pending => ~Heard(r, Terminal)
        /\ ~Heard(r, {"NOT_FOUND"})
        /\ r \in pending => \A j \in DOMAIN stdout : stdout[j].id = r /\ stdout[j].kind = "NOT_FOUND" =>
               \E i \in 1..(j - 1) : stdout[i].id = r /\ stdout[i].kind \in Endings

\* The order of the frames a waiting handler has not taken yet.
Ordered(r, u, begun) ==
    \A i \in DOMAIN u : u[i].id = r =>
        /\ u[i].kind \in Opening => ~begun /\ \A j \in DOMAIN u : u[j].id = r => i <= j
        /\ u[i].kind \notin Opening \cup {"FAILED"} =>
             begun \/ \E j \in 1..(i - 1) : u[j].id = r
        /\ u[i].kind \in Terminal =>
             \A j \in DOMAIN u : u[j].id = r /\ i < j => u[j].kind = "NOT_FOUND"

InOrder == \A r \in Requests : hpc[r] = "waiting" => Ordered(r, Unheard(r), accepted[r])

\* The slot s is busy with r in the engine, or will be.
Engages(r, s) ==
    \/ \E i \in DOMAIN stdin : stdin[i] = [kind |-> "SUBMIT", id |-> r, slot |-> s]
    \/ epc = "prefill" /\ job = [id |-> r, slot |-> s]
    \/ req[s] = r

\* Whoever is between admission and the end has a slot, and the engine has a
\* request in one place only.
Placed ==
    /\ \A r \in Requests : slot[r] = None <=> hpc[r] \in {"idle", "over"}
    /\ \A r \in Requests, s, t \in Slots : Engages(r, s) /\ Engages(r, t) => s = t

\* A slot has one request, in the gateway and in the engine.
Exclusive ==
    /\ \A r, o \in Requests : slot[r] = slot[o] /\ slot[r] # None => r = o
    /\ \A r \in Requests, s \in Slots : Engages(r, s) =>
         /\ \A o \in Requests : Engages(o, s) => o = r
         /\ \A o \in Requests : hpc[o] \in {"registered", "waiting"} /\ slot[o] = s => o = r
         /\ closing = "no" => hpc[r] = "waiting" /\ slot[r] = s /\ r \in pending

Inv ==
    /\ Typed /\ Engine /\ Fresh /\ Unread /\ Working
    /\ Begun /\ Told /\ InOrder /\ Placed
    /\ HeadersAreWritten => Exclusive

----------------------------------------------------------------------------
(* Elements of sequences.                                                  *)

LEMMA SeqAt ==
    ASSUME NEW S, NEW q \in Seq(S)
    PROVE  /\ DOMAIN q = 1..Len(q) /\ Len(q) \in Nat
           /\ \A i \in DOMAIN q : q[i] \in S /\ i \in Nat /\ i >= 1
  BY ElementOfSeq, LenProperties

LEMMA AppendAt ==
    ASSUME NEW S, NEW q \in Seq(S), NEW x \in S
    PROVE  /\ Append(q, x) \in Seq(S)
           /\ Len(Append(q, x)) = Len(q) + 1
           /\ DOMAIN Append(q, x) = 1..(Len(q) + 1)
           /\ \A i \in DOMAIN q : Append(q, x)[i] = q[i]
           /\ Append(q, x)[Len(q) + 1] = x
  BY AppendProperties

LEMMA TailAt ==
    ASSUME NEW S, NEW q \in Seq(S), q # <<>>
    PROVE  /\ Tail(q) \in Seq(S)
           /\ Head(q) = q[1] /\ 1 \in DOMAIN q
           /\ \A i \in DOMAIN Tail(q) : i + 1 \in DOMAIN q /\ Tail(q)[i] = q[i + 1]
           /\ \A i \in DOMAIN q : i # 1 => i - 1 \in DOMAIN Tail(q) /\ Tail(q)[i - 1] = q[i]
           /\ Len(Tail(q)) = Len(q) - 1
  <1>1. Tail(q) \in Seq(S) /\ Len(Tail(q)) = Len(q) - 1 /\ Head(q) = q[1] /\ 1 \in DOMAIN q
    BY HeadTailProperties, EmptySeq
  <1>2. \A i \in 1..Len(Tail(q)) : Tail(q)[i] = q[i + 1]
    BY <1>1, HeadTailProperties
  <1> QED BY <1>1, <1>2, LenProperties

LEMMA ConcatAt ==
    ASSUME NEW S, NEW q \in Seq(S), NEW e \in Seq(S)
    PROVE  /\ q \o e \in Seq(S)
           /\ Len(q \o e) = Len(q) + Len(e)
           /\ \A i \in DOMAIN q : i \in DOMAIN (q \o e) /\ (q \o e)[i] = q[i]
           /\ \A i \in DOMAIN e : Len(q) + i \in DOMAIN (q \o e) /\ (q \o e)[Len(q) + i] = e[i]
           /\ \A i \in DOMAIN (q \o e) :
                \/ i \in DOMAIN q
                \/ i - Len(q) \in DOMAIN e /\ (q \o e)[i] = e[i - Len(q)] /\ i > Len(q)
  BY ConcatProperties, LenProperties

LEMMA Regroup ==
    ASSUME NEW q \in Seq(Events), NEW e \in Seq(Events), NEW f \in Seq(Events)
    PROVE  q \o (e \o f) = (q \o e) \o f
  <1>1. q \o (e \o f) \in Seq(Events) /\ (q \o e) \o f \in Seq(Events)
    BY ConcatProperties
  <1>2. Len(q \o (e \o f)) = Len((q \o e) \o f)
    BY ConcatProperties, LenProperties
  <1>3. \A i \in 1..Len(q \o (e \o f)) : (q \o (e \o f))[i] = ((q \o e) \o f)[i]
    BY ConcatProperties, LenProperties
  <1> QED BY <1>1, <1>2, <1>3, SeqEqual

LEMMA KindsAndTypes ==
    /\ EngineFrames \subseteq Events
    /\ <<>> \in Seq(EngineFrames) /\ <<>> \in Seq(Events) /\ <<>> \in Seq(Lines)
    /\ Opening \cap {"FAILED", "DATA", "NOT_FOUND"} = {}
    /\ Terminal = Endings \cup {"FAILED"}
    /\ \A k \in EngineKinds, r \in Requests : Frame(k, r) \in EngineFrames
  BY EmptySeq DEF EngineFrames, Events, EngineKinds, Endings, Opening, Terminal, Frame

LEMMA TypedAt ==
    ASSUME Typed
    PROVE  /\ \A r \in Requests :
                /\ events[r] \in Seq(Events) /\ DOMAIN events[r] = 1..Len(events[r]) /\ Len(events[r]) \in Nat
                /\ \A i \in DOMAIN events[r] : events[r][i].kind \in EngineKinds \cup {"FAILED"} /\ events[r][i].id = r
           /\ \A i \in DOMAIN stdin :
                stdin[i].id \in Requests /\ stdin[i].slot \in Slots /\ stdin[i].kind \in {"SUBMIT", "STOP", "CANCEL"}
           /\ \A i \in DOMAIN stdout : stdout[i].kind \in EngineKinds /\ stdout[i].id \in Requests
           /\ DOMAIN stdin = 1..Len(stdin) /\ Len(stdin) \in Nat
           /\ DOMAIN stdout = 1..Len(stdout) /\ Len(stdout) \in Nat
           /\ stdout \in Seq(Events) /\ stdout \in Seq(EngineFrames) /\ stdin \in Seq(Lines)
  <1>1. ASSUME NEW r \in Requests
        PROVE  /\ events[r] \in Seq(Events) /\ DOMAIN events[r] = 1..Len(events[r]) /\ Len(events[r]) \in Nat
               /\ \A i \in DOMAIN events[r] : events[r][i].kind \in EngineKinds \cup {"FAILED"} /\ events[r][i].id = r
    <2>1. events[r] \in Seq(Events)
      BY DEF Typed
    <2>2. /\ DOMAIN events[r] = 1..Len(events[r]) /\ Len(events[r]) \in Nat
          /\ \A i \in DOMAIN events[r] : events[r][i] \in Events
      BY <2>1, SeqAt
    <2> QED BY <2>1, <2>2 DEF Typed, Events
  <1>2. stdin \in Seq(Lines) /\ stdout \in Seq(EngineFrames)
    BY DEF Typed
  <1>3. /\ DOMAIN stdin = 1..Len(stdin) /\ Len(stdin) \in Nat
        /\ \A i \in DOMAIN stdin : stdin[i] \in Lines
    BY <1>2, SeqAt
  <1>4. /\ DOMAIN stdout = 1..Len(stdout) /\ Len(stdout) \in Nat
        /\ \A i \in DOMAIN stdout : stdout[i] \in EngineFrames
    BY <1>2, SeqAt
  <1>5. \A i \in DOMAIN stdin :
          stdin[i].id \in Requests /\ stdin[i].slot \in Slots /\ stdin[i].kind \in {"SUBMIT", "STOP", "CANCEL"}
    BY <1>3 DEF Lines
  <1>6. \A i \in DOMAIN stdout : stdout[i].kind \in EngineKinds /\ stdout[i].id \in Requests
    BY <1>4 DEF EngineFrames
  <1>7. stdout \in Seq(Events)
    BY <1>2, SeqMonotonic, KindsAndTypes
  <1> QED BY <1>1, <1>2, <1>3, <1>4, <1>5, <1>6, <1>7

----------------------------------------------------------------------------
(* The order of frames: taking one, losing a suffix, getting more.         *)

LEMMA PrefixOrdered ==
    ASSUME NEW r \in Requests, NEW begun \in BOOLEAN, NEW q \in Seq(Events), NEW e \in Seq(Events), Ordered(r, q \o e, begun)
    PROVE  Ordered(r, q, begun)
  <1>1. \A i \in DOMAIN q : i \in DOMAIN (q \o e) /\ (q \o e)[i] = q[i]
    BY ConcatAt
  <1>2. DOMAIN q = 1..Len(q)
    BY LenProperties
  <1> QED BY <1>1, <1>2 DEF Ordered

LEMMA ConcatOrdered ==
    ASSUME NEW r \in Requests, NEW begun \in BOOLEAN, NEW q \in Seq(Events), NEW e \in Seq(Events), Ordered(r, q, begun),
           \A i \in DOMAIN e : e[i].id = r /\ e[i].kind \in Opening =>
               /\ ~begun
               /\ \A j \in DOMAIN q : q[j].id # r
               /\ \A j \in DOMAIN e : e[j].id = r => i <= j,
           \A i \in DOMAIN e : e[i].id = r /\ e[i].kind \notin Opening \cup {"FAILED"} =>
               begun \/ (\E j \in DOMAIN q : q[j].id = r) \/ \E j \in 1..(i - 1) : e[j].id = r,
           \A i, j \in DOMAIN e : e[i].id = r /\ e[i].kind \in Terminal /\ e[j].id = r /\ i < j =>
               e[j].kind = "NOT_FOUND",
           \A i \in DOMAIN q : q[i].id = r /\ q[i].kind \in Terminal =>
               \A j \in DOMAIN e : e[j].id = r => e[j].kind = "NOT_FOUND"
    PROVE  Ordered(r, q \o e, begun)
  <1>1. DOMAIN q = 1..Len(q) /\ DOMAIN e = 1..Len(e) /\ Len(q) \in Nat /\ Len(e) \in Nat
    BY LenProperties
  <1> DEFINE u == q \o e
  <1>2. /\ \A i \in DOMAIN q : i \in DOMAIN u /\ u[i] = q[i]
        /\ \A i \in DOMAIN e : Len(q) + i \in DOMAIN u /\ u[Len(q) + i] = e[i]
        /\ \A i \in DOMAIN u : \/ i \in DOMAIN q
                               \/ i - Len(q) \in DOMAIN e /\ u[i] = e[i - Len(q)] /\ i > Len(q)
        /\ DOMAIN u \subseteq Nat
    BY ConcatAt, LenProperties
  <1> HIDE DEF u
  <1> SUFFICES ASSUME NEW i \in DOMAIN u, u[i].id = r
               PROVE  /\ u[i].kind \in Opening => ~begun /\ \A j \in DOMAIN u : u[j].id = r => i <= j
                      /\ u[i].kind \notin Opening \cup {"FAILED"} =>
                           begun \/ \E j \in 1..(i - 1) : u[j].id = r
                      /\ u[i].kind \in Terminal =>
                           \A j \in DOMAIN u : u[j].id = r /\ i < j => u[j].kind = "NOT_FOUND"
    BY DEF Ordered, u
  <1>3. CASE i \in DOMAIN q
    <2>1. u[i].kind \in Opening => ~begun /\ \A j \in DOMAIN u : u[j].id = r => i <= j
      BY <1>1, <1>2, <1>3 DEF Ordered
    <2>2. ASSUME u[i].kind \notin Opening \cup {"FAILED"}, ~begun
          PROVE  \E j \in 1..(i - 1) : u[j].id = r
      <3>1. PICK j \in 1..(i - 1) : q[j].id = r
        BY <2>2, <1>2, <1>3 DEF Ordered
      <3>2. j \in DOMAIN q
        BY <1>1, <1>3
      <3> QED BY <3>1, <3>2, <1>2
    <2>3. u[i].kind \in Terminal => \A j \in DOMAIN u : u[j].id = r /\ i < j => u[j].kind = "NOT_FOUND"
      BY <1>1, <1>2, <1>3 DEF Ordered
    <2> QED BY <2>1, <2>2, <2>3
  <1>4. CASE i \notin DOMAIN q
    <2> DEFINE k == i - Len(q)
    <2>0. k \in DOMAIN e /\ u[i] = e[k] /\ i > Len(q) /\ k \in Nat /\ i = Len(q) + k
      BY <1>1, <1>2, <1>4
    <2> HIDE DEF k
    <2>1. u[i].kind \in Opening => ~begun /\ \A j \in DOMAIN u : u[j].id = r => i <= j
      BY <2>0, <1>1, <1>2
    <2>2. ASSUME u[i].kind \notin Opening \cup {"FAILED"}, ~begun
          PROVE  \E j \in 1..(i - 1) : u[j].id = r
      <3>1. CASE \E j \in DOMAIN q : q[j].id = r
        BY <2>0, <1>1, <1>2, <3>1
      <3>2. CASE \E j \in 1..(k - 1) : e[j].id = r
        <4>1. PICK j \in 1..(k - 1) : e[j].id = r
          BY <3>2
        <4>2. j \in DOMAIN e /\ Len(q) + j \in 1..(i - 1)
          BY <4>1, <2>0, <1>1
        <4> QED BY <4>1, <4>2, <1>2
      <3> QED BY <2>0, <2>2, <3>1, <3>2
    <2>3. u[i].kind \in Terminal => \A j \in DOMAIN u : u[j].id = r /\ i < j => u[j].kind = "NOT_FOUND"
      <3> SUFFICES ASSUME u[i].kind \in Terminal, NEW j \in DOMAIN u, u[j].id = r, i < j
                   PROVE  u[j].kind = "NOT_FOUND"
        OBVIOUS
      <3>1. j - Len(q) \in DOMAIN e /\ u[j] = e[j - Len(q)] /\ k < j - Len(q)
        BY <2>0, <1>1, <1>2
      <3> QED BY <3>1, <2>0
    <2> QED BY <2>1, <2>2, <2>3
  <1> QED BY <1>3, <1>4

LEMMA FailedOrdered ==
    ASSUME NEW r \in Requests, NEW begun \in BOOLEAN, NEW q \in Seq(Events), NEW x \in Events,
           Ordered(r, q, begun), x.kind = "FAILED",
           \A i \in DOMAIN q : q[i].kind \notin Terminal
    PROVE  Ordered(r, Append(q, x), begun)
  <1>1. /\ DOMAIN q = 1..Len(q) /\ Len(q) \in Nat
        /\ DOMAIN Append(q, x) = 1..(Len(q) + 1)
        /\ \A i \in DOMAIN q : Append(q, x)[i] = q[i]
        /\ Append(q, x)[Len(q) + 1] = x
    BY AppendAt, SeqAt
  <1> DEFINE u == Append(q, x)
  <1>2. \A i \in DOMAIN u : (i \in DOMAIN q /\ u[i] = q[i]) \/ (i = Len(q) + 1 /\ u[i].kind = "FAILED")
    BY <1>1
  <1>3. \A i \in DOMAIN q : i \in DOMAIN u /\ u[i] = q[i]
    BY <1>1
  <1>4. DOMAIN u = 1..(Len(q) + 1)
    BY <1>1
  <1> HIDE DEF u
  <1> SUFFICES ASSUME NEW i \in DOMAIN u, u[i].id = r
               PROVE  /\ u[i].kind \in Opening => ~begun /\ \A j \in DOMAIN u : u[j].id = r => i <= j
                      /\ u[i].kind \notin Opening \cup {"FAILED"} =>
                           begun \/ \E j \in 1..(i - 1) : u[j].id = r
                      /\ u[i].kind \in Terminal =>
                           \A j \in DOMAIN u : u[j].id = r /\ i < j => u[j].kind = "NOT_FOUND"
    BY DEF Ordered, u
  <1>5. CASE i \in DOMAIN q /\ u[i] = q[i]
    <2>1. u[i].kind \in Opening => ~begun /\ \A j \in DOMAIN u : u[j].id = r => i <= j
      BY <1>1, <1>2, <1>4, <1>5 DEF Ordered
    <2>2. ASSUME u[i].kind \notin Opening \cup {"FAILED"}, ~begun
          PROVE  \E j \in 1..(i - 1) : u[j].id = r
      <3>1. PICK j \in 1..(i - 1) : q[j].id = r
        BY <2>2, <1>5 DEF Ordered
      <3>2. j \in DOMAIN q
        BY <1>1, <1>5
      <3> QED BY <3>1, <3>2, <1>3
    <2> QED BY <2>1, <2>2, <1>5
  <1>6. CASE i = Len(q) + 1 /\ u[i].kind = "FAILED"
    BY <1>6, <1>4, KindsAndTypes
  <1> QED BY <1>2, <1>5, <1>6

LEMMA TailOrdered ==
    ASSUME NEW r \in Requests, NEW begun \in BOOLEAN, NEW u \in Seq(Events), u # <<>>,
           Ordered(r, u, begun), u[1].id = r
    PROVE  Ordered(r, Tail(u), TRUE)
  <1>1. \A i \in DOMAIN Tail(u) : i + 1 \in DOMAIN u /\ Tail(u)[i] = u[i + 1] /\ i \in Nat /\ i >= 1
    BY TailAt, SeqAt
  <1>2. 1 \in DOMAIN u
    BY TailAt
  <1> QED BY <1>1, <1>2 DEF Ordered

LEMMA TailOfConcat ==
    ASSUME NEW q \in Seq(Events), NEW e \in Seq(Events), q # <<>>
    PROVE  q \o e # <<>> /\ (q \o e)[1] = q[1] /\ Tail(q \o e) = Tail(q) \o e
  <1>1. /\ q \o e \in Seq(Events) /\ Len(q \o e) = Len(q) + Len(e) /\ Len(q) \in Nat /\ Len(e) \in Nat
        /\ Tail(q) \in Seq(Events) /\ Len(Tail(q)) = Len(q) - 1 /\ Len(Tail(q)) \in Nat
        /\ 1 \in DOMAIN q
    BY ConcatAt, TailAt, SeqAt
  <1>2. q \o e # <<>> /\ (q \o e)[1] = q[1]
    BY <1>1, ConcatAt
  <1>3. /\ Tail(q \o e) \in Seq(Events) /\ Len(Tail(q \o e)) = Len(q) + Len(e) - 1
        /\ \A i \in DOMAIN Tail(q \o e) : i + 1 \in DOMAIN (q \o e) /\ Tail(q \o e)[i] = (q \o e)[i + 1]
        /\ DOMAIN Tail(q \o e) = 1..(Len(q) + Len(e) - 1)
    BY <1>1, <1>2, TailAt, SeqAt
  <1>4. /\ Tail(q) \o e \in Seq(Events) /\ Len(Tail(q) \o e) = Len(q) - 1 + Len(e)
        /\ \A i \in 1..Len(Tail(q) \o e) : (Tail(q) \o e)[i] = (q \o e)[i + 1]
    <2>1. Tail(q) \o e \in Seq(Events) /\ Len(Tail(q) \o e) = Len(q) - 1 + Len(e)
      BY <1>1, ConcatAt
    <2>2. \A i \in 1..Len(Tail(q) \o e) :
            (Tail(q) \o e)[i] = IF i <= Len(Tail(q)) THEN Tail(q)[i] ELSE e[i - Len(Tail(q))]
      BY <1>1, ConcatProperties
    <2>3. \A i \in 1..(Len(q) + Len(e)) : (q \o e)[i] = IF i <= Len(q) THEN q[i] ELSE e[i - Len(q)]
      BY <1>1, ConcatProperties
    <2>4. \A i \in 1..Len(Tail(q)) : Tail(q)[i] = q[i + 1]
      BY <1>1, TailAt, SeqAt
    <2> QED BY <1>1, <2>1, <2>2, <2>3, <2>4
  <1>5. \A i \in 1..Len(Tail(q \o e)) : Tail(q \o e)[i] = (Tail(q) \o e)[i]
    BY <1>1, <1>3, <1>4
  <1>6. Len(Tail(q \o e)) = Len(Tail(q) \o e)
    BY <1>1, <1>3, <1>4
  <1>7. Tail(q \o e) = Tail(q) \o e
    BY <1>3, <1>4, <1>5, <1>6, SeqEqual
  <1> QED BY <1>2, <1>7

LEMMA Shift ==
    ASSUME NEW q \in Seq(Events), NEW e \in Seq(Events), e # <<>>
    PROVE  q \o e = Append(q, Head(e)) \o Tail(e)
  <1>1. Head(e) \in Events /\ Tail(e) \in Seq(Events) /\ <<Head(e)>> \in Seq(Events) /\ e = <<Head(e)>> \o Tail(e)
    <2>1. Head(e) \in Events /\ Tail(e) \in Seq(Events) /\ <<Head(e)>> \in Seq(Events)
      BY TailAt, SeqAt
    <2> DEFINE one == <<Head(e)>>
    <2>2. one \in Seq(Events) /\ Len(one) = 1 /\ one[1] = e[1]
      BY <2>1, TailAt
    <2>3. /\ Len(Tail(e)) = Len(e) - 1 /\ Len(e) \in Nat /\ Len(Tail(e)) \in Nat
          /\ \A i \in 1..Len(e) : i # 1 => Tail(e)[i - 1] = e[i]
      BY <2>1, TailAt, SeqAt
    <2> HIDE DEF one
    <2>4. one \o Tail(e) \in Seq(Events) /\ Len(one \o Tail(e)) = Len(e)
      BY <2>1, <2>2, <2>3, ConcatAt
    <2>5. \A i \in 1..Len(e) : (one \o Tail(e))[i] = IF i <= 1 THEN one[i] ELSE Tail(e)[i - 1]
      BY <2>1, <2>2, <2>3, <2>4, ConcatProperties
    <2>6. ASSUME NEW i \in 1..Len(e) PROVE (one \o Tail(e))[i] = e[i]
      <3>1. CASE i = 1
        BY <3>1, <2>2, <2>3, <2>5
      <3>2. CASE i # 1
        <4>1. i \in Nat /\ ~(i <= 1)
          BY <3>2, <2>3
        <4>2. (one \o Tail(e))[i] = Tail(e)[i - 1]
          BY <4>1, <2>5
        <4>3. Tail(e)[i - 1] = e[i]
          BY <3>2, <2>3
        <4> QED BY <4>2, <4>3
      <3> QED BY <3>1, <3>2
    <2>7. one \o Tail(e) = e
      BY <2>4, <2>6, SeqEqual
    <2> QED BY <2>1, <2>7 DEF one
  <1>2. Append(q, Head(e)) = q \o <<Head(e)>>
    BY <1>1, AppendIsConcat
  <1>3. q \o (<<Head(e)>> \o Tail(e)) = (q \o <<Head(e)>>) \o Tail(e)
    BY <1>1, Regroup
  <1> QED BY <1>1, <1>2, <1>3

LEMMA OthersFrame ==
    ASSUME NEW r \in Requests, NEW begun \in BOOLEAN, NEW q \in Seq(Events), NEW e \in Seq(Events), e # <<>>,
           Head(e).id # r, Ordered(r, q \o e, begun)
    PROVE  Ordered(r, q \o Tail(e), begun)
  <1> DEFINE u == q \o e
             v == q \o Tail(e)
             n == Len(q)
  <1>1. /\ n \in Nat /\ DOMAIN q = 1..n
        /\ Tail(e) \in Seq(Events) /\ e[1].id # r /\ 1 \in DOMAIN e
    BY TailAt, SeqAt
  <1>2. /\ \A i \in DOMAIN q : i \in DOMAIN u /\ u[i] = q[i] /\ i \in DOMAIN v /\ v[i] = q[i]
        /\ \A i \in DOMAIN u : i \in Nat /\ i >= 1 /\ (i > n => i - n \in DOMAIN e /\ u[i] = e[i - n])
        /\ \A i \in DOMAIN v : i \in Nat /\ i >= 1 /\ (i > n => i - n \in DOMAIN Tail(e) /\ v[i] = Tail(e)[i - n])
        /\ \A i \in DOMAIN e : n + i \in DOMAIN u /\ u[n + i] = e[i] /\ i \in Nat /\ i >= 1
        /\ \A i \in DOMAIN Tail(e) : n + i \in DOMAIN v /\ v[n + i] = Tail(e)[i] /\ i \in Nat /\ i >= 1
    BY <1>1, ConcatAt, SeqAt
  <1>3. /\ \A i \in DOMAIN Tail(e) : i + 1 \in DOMAIN e /\ Tail(e)[i] = e[i + 1]
        /\ \A i \in DOMAIN e : i # 1 => i - 1 \in DOMAIN Tail(e) /\ Tail(e)[i - 1] = e[i]
    BY TailAt
  <1> HIDE DEF u, v, n
  <1> DEFINE at(i) == IF i <= n THEN i ELSE i + 1
  <1>4. \A i \in DOMAIN v : at(i) \in DOMAIN u /\ u[at(i)] = v[i]
    <2> SUFFICES ASSUME NEW i \in DOMAIN v PROVE at(i) \in DOMAIN u /\ u[at(i)] = v[i]
      OBVIOUS
    <2>1. CASE i <= n
      BY <2>1, <1>1, <1>2
    <2>2. CASE i > n
      <3>1. i - n \in DOMAIN Tail(e) /\ v[i] = Tail(e)[i - n] /\ i \in Nat
        BY <2>2, <1>2
      <3>2. i - n + 1 \in DOMAIN e /\ v[i] = e[i - n + 1]
        BY <3>1, <1>3
      <3>3. n + (i - n + 1) = i + 1
        <4>1. i \in Nat /\ n \in Nat
          BY <3>1, <1>1
        <4> QED BY <4>1
      <3>4. n + (i - n + 1) \in DOMAIN u /\ u[n + (i - n + 1)] = e[i - n + 1]
        BY <3>2, <1>2
      <3>5. i + 1 \in DOMAIN u /\ u[i + 1] = v[i]
        BY <3>2, <3>3, <3>4
      <3>6. ~(i <= n)
        BY <3>1, <2>2, <1>1
      <3> QED BY <3>5, <3>6
    <2> QED BY <2>1, <2>2, <1>1, <1>2
  <1>5. \A k \in DOMAIN u : u[k].id = r => \E i \in DOMAIN v : at(i) = k /\ v[i] = u[k]
    <2> SUFFICES ASSUME NEW k \in DOMAIN u, u[k].id = r PROVE \E i \in DOMAIN v : at(i) = k /\ v[i] = u[k]
      OBVIOUS
    <2>1. CASE k <= n
      BY <2>1, <1>1, <1>2
    <2>2. CASE k > n
      <3>1. k - n \in DOMAIN e /\ u[k] = e[k - n] /\ k \in Nat
        BY <2>2, <1>2
      <3>2. k - n # 1
        BY <3>1, <1>1
      <3>3. k - n - 1 \in DOMAIN Tail(e) /\ Tail(e)[k - n - 1] = u[k] /\ k - n - 1 >= 1
        BY <3>1, <3>2, <1>2, <1>3
      <3>4. n + (k - n - 1) = k - 1 /\ k - 1 > n
        <4>1. k \in Nat /\ n \in Nat /\ k - n - 1 >= 1
          BY <3>1, <3>3, <1>1
        <4> QED BY <4>1
      <3>5. k - 1 \in DOMAIN v /\ v[k - 1] = u[k]
        BY <3>3, <3>4, <1>2
      <3> QED BY <3>1, <3>4, <3>5, <1>1
    <2> QED BY <2>1, <2>2, <1>1, <1>2
  <1>6. \A i, j \in DOMAIN v : /\ (at(i) < at(j) <=> i < j) /\ (at(i) <= at(j) <=> i <= j)
                               /\ i \in Nat /\ i >= 1 /\ at(i) \in Nat
    BY <1>1, <1>2
  <1> HIDE DEF at
  <1> SUFFICES ASSUME NEW i \in DOMAIN v, v[i].id = r
               PROVE  /\ v[i].kind \in Opening => ~begun /\ \A j \in DOMAIN v : v[j].id = r => i <= j
                      /\ v[i].kind \notin Opening \cup {"FAILED"} =>
                           begun \/ \E j \in 1..(i - 1) : v[j].id = r
                      /\ v[i].kind \in Terminal =>
                           \A j \in DOMAIN v : v[j].id = r /\ i < j => v[j].kind = "NOT_FOUND"
    BY DEF Ordered, v
  <1>7. /\ u[at(i)].kind \in Opening => ~begun /\ \A j \in DOMAIN u : u[j].id = r => at(i) <= j
        /\ u[at(i)].kind \notin Opening \cup {"FAILED"} =>
             begun \/ \E j \in 1..(at(i) - 1) : u[j].id = r
        /\ u[at(i)].kind \in Terminal =>
             \A j \in DOMAIN u : u[j].id = r /\ at(i) < j => u[j].kind = "NOT_FOUND"
    BY <1>4 DEF Ordered, u
  <1>8. v[i].kind \in Opening => ~begun /\ \A j \in DOMAIN v : v[j].id = r => i <= j
    BY <1>4, <1>6, <1>7
  <1>9. ASSUME v[i].kind \notin Opening \cup {"FAILED"}, ~begun
        PROVE  \E j \in 1..(i - 1) : v[j].id = r
    <2>1. PICK k \in 1..(at(i) - 1) : u[k].id = r
      BY <1>4, <1>7, <1>9
    <2>2. k \in DOMAIN u /\ k < at(i)
      <3>1. u \in Seq(Events)
        BY ConcatAt DEF u
      <3>2. DOMAIN u = 1..Len(u) /\ Len(u) \in Nat
        BY <3>1, SeqAt
      <3> QED BY <3>2, <1>4, <1>6
    <2>3. PICK j \in DOMAIN v : at(j) = k /\ v[j] = u[k]
      BY <2>1, <2>2, <1>5
    <2>4. j \in 1..(i - 1)
      BY <2>2, <2>3, <1>6
    <2> QED BY <2>1, <2>3, <2>4
  <1>10. v[i].kind \in Terminal => \A j \in DOMAIN v : v[j].id = r /\ i < j => v[j].kind = "NOT_FOUND"
    BY <1>4, <1>6, <1>7
  <1> QED BY <1>8, <1>9, <1>10

----------------------------------------------------------------------------
(* A step of the engine writes some frames and may have read a line.  What *)
(* is required of the frames: ACCEPT and the early errors answer a SUBMIT  *)
(* just read, and come alone; the answer to a late STOP or CANCEL comes    *)
(* alone and for a request that has no slot; the rest is for a request the *)
(* engine works on, which ends with its last frame.                        *)
Reading == stdin # <<>> /\ stdin' = Tail(stdin)
InSlot(r) == \E s \in Slots : req[s] = r

Answers(ext) ==
    \A i \in DOMAIN ext :
        /\ ext[i].kind \in Opening =>
             /\ Reading /\ Head(stdin).kind = "SUBMIT" /\ Head(stdin).id = ext[i].id
             /\ DOMAIN ext = {1}
        /\ ext[i].kind = "NOT_FOUND" =>
             /\ Reading /\ Head(stdin).kind \in {"STOP", "CANCEL"} /\ Head(stdin).id = ext[i].id
             /\ ~InSlot(ext[i].id) /\ DOMAIN ext = {1}

Outputs(ext) ==
    \A i \in DOMAIN ext : ext[i].kind \in {"DATA", "DONE", "CANCELLED"} =>
        /\ InEngine(ext[i].id)
        /\ ext[i].kind # "DATA" => \A j \in DOMAIN ext : i < j => ext[j].id # ext[i].id

Occupies(ext) ==
    /\ \A r \in Requests, s \in Slots : Engages(r, s)' => Engages(r, s)
    /\ \A r \in Requests : InEngine(r)' =>
         /\ InEngine(r) \/ \E i \in DOMAIN ext : ext[i] = Frame("ACCEPT", r)
         /\ \A i \in DOMAIN ext : ext[i].id = r => ext[i].kind \in {"ACCEPT", "DATA"}
    /\ \A r \in Requests : InSlot(r) \/ (\E i \in DOMAIN ext : ext[i] = Frame("DATA", r)) =>
         InSlot(r)' \/ \E i \in DOMAIN ext : ext[i].id = r /\ ext[i].kind \in Endings

\* What the frames of a request show when it comes to be answered.
LEMMA NoEarlierFrame ==
    ASSUME Inv, stdin # <<>>, Head(stdin).kind = "SUBMIT", NEW r \in Requests, Head(stdin).id = r
    PROVE  /\ ~InEngine(r) /\ ~Said(r, EngineKinds) /\ ~Heard(r, EngineKinds) /\ ~accepted[r]
           /\ \A i \in DOMAIN stdin : i # 1 => stdin[i].id # r
           /\ Submitted(r)
  <1>1. 1 \in DOMAIN stdin /\ Head(stdin) = stdin[1]
    BY TailAt DEF Inv, Typed
  <1>2. stdin[1].kind = "SUBMIT" /\ stdin[1].id = r
    BY <1>1
  <1>3. \A j \in DOMAIN stdin : stdin[j].id = r => j = 1
    BY <1>1, <1>2 DEF Inv, Unread
  <1> QED BY <1>1, <1>2, <1>3 DEF Inv, Unread, Submitted, Sent

LEMMA StepOfEngine ==
    ASSUME Inv, Typed', Engine', OutsideEngine,
           NEW ext \in Seq(EngineFrames), stdout' = stdout \o ext,
           stdin' = stdin \/ Reading,
           Answers(ext), Outputs(ext), Occupies(ext)
    PROVE  Inv'
  <1>1. /\ \A i \in DOMAIN stdout : i \in DOMAIN stdout' /\ stdout'[i] = stdout[i]
        /\ \A i \in DOMAIN ext : Len(stdout) + i \in DOMAIN stdout' /\ stdout'[Len(stdout) + i] = ext[i]
        /\ \A i \in DOMAIN stdout' :
             \/ i \in DOMAIN stdout
             \/ i - Len(stdout) \in DOMAIN ext /\ stdout'[i] = ext[i - Len(stdout)] /\ i > Len(stdout)
        /\ DOMAIN stdout = 1..Len(stdout) /\ DOMAIN stdout' \subseteq Nat /\ Len(stdout) \in Nat
        /\ DOMAIN ext \subseteq Nat
    <2>1. stdout \in Seq(EngineFrames) /\ stdout' \in Seq(EngineFrames)
      BY DEF Inv, Typed
    <2> DEFINE u == stdout \o ext
    <2>2. /\ \A i \in DOMAIN stdout : i \in DOMAIN u /\ u[i] = stdout[i]
          /\ \A i \in DOMAIN ext : Len(stdout) + i \in DOMAIN u /\ u[Len(stdout) + i] = ext[i]
          /\ \A i \in DOMAIN u :
               \/ i \in DOMAIN stdout
               \/ i - Len(stdout) \in DOMAIN ext /\ u[i] = ext[i - Len(stdout)] /\ i > Len(stdout)
      BY <2>1, ConcatAt
    <2>3. DOMAIN stdout = 1..Len(stdout) /\ Len(stdout) \in Nat /\ DOMAIN stdout' \subseteq Nat /\ DOMAIN ext \subseteq Nat
      BY <2>1, SeqAt
    <2>4. stdout' = u
      OBVIOUS
    <2> HIDE DEF u
    <2> QED BY <2>2, <2>3, <2>4
  <1>2. \A i \in DOMAIN stdin' : \E j \in DOMAIN stdin : stdin'[i] = stdin[j]
    <2>1. stdin \in Seq(Lines)
      BY DEF Inv, Typed
    <2>2. Reading => \A i \in DOMAIN Tail(stdin) : i + 1 \in DOMAIN stdin /\ Tail(stdin)[i] = stdin[i + 1]
      BY <2>1, TailAt DEF Reading
    <2> QED BY <2>2 DEF Reading
  <1>3. /\ hpc' = hpc /\ slot' = slot /\ pending' = pending /\ events' = events /\ accepted' = accepted
        /\ asked' = asked /\ dispatcher' = dispatcher /\ closing' = closing /\ alive' = alive /\ alive
    BY DEF OutsideEngine, gateway
  <1>4. \A i \in DOMAIN ext : ext[i] \in EngineFrames /\ ext[i].kind \in EngineKinds /\ ext[i].id \in Requests
    <2>1. \A i \in DOMAIN ext : ext[i] \in EngineFrames
      BY SeqAt
    <2> QED BY <2>1 DEF EngineFrames
  <1>5. \A r, K : Said(r, K)' <=> Said(r, K) \/ \E i \in DOMAIN ext : ext[i].id = r /\ ext[i].kind \in K
    <2>1. ASSUME NEW r, NEW K, NEW i \in DOMAIN stdout', stdout'[i].id = r, stdout'[i].kind \in K
          PROVE  Said(r, K) \/ \E j \in DOMAIN ext : ext[j].id = r /\ ext[j].kind \in K
      BY <1>1, <2>1 DEF Said
    <2>2. ASSUME NEW r, NEW K, Said(r, K) \/ \E j \in DOMAIN ext : ext[j].id = r /\ ext[j].kind \in K
          PROVE  \E i \in DOMAIN stdout' : stdout'[i].id = r /\ stdout'[i].kind \in K
      BY <1>1, <2>2 DEF Said
    <2> QED BY <2>1, <2>2 DEF Said
  <1>6. \A r, K : Sent(r, K)' => Sent(r, K)
    BY <1>2 DEF Sent
  <1>7. \A r, K : Heard(r, K)' <=> Heard(r, K)
    BY <1>3 DEF Heard
  <1>8. \A i \in DOMAIN ext : LET r == ext[i].id IN
            /\ ext[i].kind \in Opening => Submitted(r)
            /\ ext[i].kind = "NOT_FOUND" => Sent(r, {"STOP", "CANCEL"})
            /\ ext[i].kind \notin Opening \cup {"NOT_FOUND"} => InEngine(r)
    <2>1. stdin # <<>> => 1 \in DOMAIN stdin /\ Head(stdin) = stdin[1]
      BY TailAt DEF Inv, Typed
    <2> QED BY <2>1, <1>4 DEF Answers, Outputs, Reading, Submitted, Sent, EngineKinds, Endings, Opening
  <1>f. Fresh'
    <2> SUFFICES ASSUME NEW r \in Requests, hpc[r] \in Early
                 PROVE  /\ ~InEngine(r)' /\ ~Sent(r, {"SUBMIT", "STOP", "CANCEL"})' /\ ~Said(r, EngineKinds)'
                        /\ ~accepted[r] /\ ~Heard(r, EngineKinds)
                        /\ hpc[r] # "registered" => r \notin pending /\ events[r] = <<>>
                        /\ Len(events[r]) <= 1
                        /\ hpc[r] = "registered" /\ r \notin pending => closing # "no" \/ dispatcher # "running"
      BY <1>3, <1>7 DEF Fresh
    <2>1. /\ ~InEngine(r) /\ ~Sent(r, {"SUBMIT", "STOP", "CANCEL"}) /\ ~Said(r, EngineKinds)
          /\ ~accepted[r] /\ ~Heard(r, EngineKinds)
          /\ hpc[r] # "registered" => r \notin pending /\ events[r] = <<>>
          /\ Len(events[r]) <= 1
          /\ hpc[r] = "registered" /\ r \notin pending => closing # "no" \/ dispatcher # "running"
      BY DEF Inv, Fresh
    <2>2. ~Sent(r, {"SUBMIT", "STOP", "CANCEL"})'
      BY <2>1, <1>6
    <2>3. ~Submitted(r) /\ ~Sent(r, {"STOP", "CANCEL"})
      BY <2>1 DEF Submitted, Sent
    <2>4. \A i \in DOMAIN ext : ext[i].id # r
      BY <2>1, <2>3, <1>8
    <2>5. ~Said(r, EngineKinds)'
      BY <2>1, <2>4, <1>5
    <2>6. ~InEngine(r)'
      BY <2>1, <2>4 DEF Occupies, Frame
    <2> QED BY <2>1, <2>2, <2>5, <2>6
  <1>u. Unread'
    <2> SUFFICES ASSUME NEW i \in DOMAIN stdin', stdin'[i].kind = "SUBMIT", NEW r, r = stdin'[i].id
                 PROVE  /\ \A j \in DOMAIN stdin' : stdin'[j].id = r => i = j
                        /\ ~InEngine(r)' /\ ~Said(r, EngineKinds)' /\ ~Heard(r, EngineKinds) /\ ~accepted[r]
      BY <1>3, <1>7 DEF Unread
    <2>0. /\ stdin \in Seq(Lines) /\ DOMAIN stdin \subseteq Nat
          /\ \A j \in DOMAIN stdin : stdin[j].id \in Requests
      <3>1. stdin \in Seq(Lines)
        BY DEF Inv, Typed
      <3>2. \A j \in DOMAIN stdin : stdin[j] \in Lines /\ j \in Nat
        BY <3>1, SeqAt
      <3> QED BY <3>1, <3>2 DEF Lines
    <2>1. PICK k \in DOMAIN stdin :
             /\ stdin[k] = stdin'[i] /\ (stdin' = stdin => k = i)
             /\ Reading => k = i + 1 /\ k # 1 /\ 1 \in DOMAIN stdin /\ Head(stdin) = stdin[1]
      <3>1. CASE Reading
        <4>1. DOMAIN stdin' \subseteq Nat /\ \A j \in DOMAIN stdin' : j >= 1
          BY <3>1, <2>0, TailAt, SeqAt DEF Reading
        <4>2. i + 1 \in DOMAIN stdin /\ stdin'[i] = stdin[i + 1] /\ 1 \in DOMAIN stdin /\ Head(stdin) = stdin[1]
          BY <3>1, <2>0, TailAt DEF Reading
        <4>3. stdin' # stdin
          <5>1. Len(stdin') = Len(stdin) - 1 /\ Len(stdin) \in Nat
            BY <3>1, <2>0, TailAt, SeqAt DEF Reading
          <5> QED BY <5>1
        <4> QED BY <4>1, <4>2, <4>3
      <3>2. CASE ~Reading
        BY <3>2
      <3> QED BY <3>1, <3>2
    <2>2. /\ \A j \in DOMAIN stdin : stdin[j].id = r => k = j
          /\ ~InEngine(r) /\ ~Said(r, EngineKinds) /\ ~Heard(r, EngineKinds) /\ ~accepted[r]
      BY <2>1 DEF Inv, Unread
    <2>3. \A j \in DOMAIN stdin' : stdin'[j].id = r => i = j
      <3> SUFFICES ASSUME NEW j \in DOMAIN stdin', stdin'[j].id = r PROVE i = j
        OBVIOUS
      <3>1. CASE stdin' = stdin
        BY <3>1, <2>1, <2>2
      <3>2. CASE Reading
        <4>1. j + 1 \in DOMAIN stdin /\ stdin[j + 1].id = r /\ j \in Nat /\ i \in Nat
          BY <3>2, <2>0, TailAt, LenProperties DEF Reading
        <4> QED BY <4>1, <3>2, <2>1, <2>2
      <3> QED BY <3>1, <3>2
    <2>4. r \in Requests
      BY <2>0, <2>1
    <2>5. Reading => Head(stdin).id # r
      BY <2>1, <2>2
    <2>6. \A j \in DOMAIN ext : ext[j].id # r
      BY <2>2, <2>5, <1>8 DEF Answers
    <2> QED BY <2>2, <2>3, <2>4, <2>6, <1>5 DEF Occupies, Frame
  <1>w. Working'
    <2> SUFFICES ASSUME NEW r \in Requests, InEngine(r)'
                 PROVE  /\ ~Said(r, Endings \cup {"NOT_FOUND"})'
                        /\ hpc[r] = "waiting" /\ r \in pending =>
                             accepted[r] \/ Said(r, EngineKinds)' \/ Heard(r, EngineKinds)
      BY <1>3, <1>7 DEF Working
    <2>1. \A i \in DOMAIN ext : ext[i].id = r => ext[i].kind \notin Endings \cup {"NOT_FOUND"}
      BY DEF Occupies, Endings
    <2>2. CASE InEngine(r)
      BY <2>1, <2>2, <1>5 DEF Inv, Working
    <2>3. CASE \E i \in DOMAIN ext : ext[i] = Frame("ACCEPT", r)
      <3>0. PICK i \in DOMAIN ext : ext[i] = Frame("ACCEPT", r)
        BY <2>3
      <3>1. ext[i].id = r /\ ext[i].kind = "ACCEPT"
        BY <3>0 DEF Frame
      <3>2. ~Said(r, EngineKinds)
        BY <3>1, NoEarlierFrame DEF Answers, Opening, Reading
      <3>3. ~Said(r, Endings \cup {"NOT_FOUND"})
        BY <3>2 DEF Said, EngineKinds
      <3> QED BY <3>1, <3>3, <2>1, <1>5 DEF EngineKinds
    <2> QED BY <2>2, <2>3 DEF Occupies
  <1>b. Begun'
    <2> SUFFICES ASSUME NEW r \in Requests,
                        Sent(r, {"STOP", "CANCEL"})' \/ Said(r, {"DATA"})' \/ Heard(r, {"DATA"})
                 PROVE  r \notin pending \/ InSlot(r)' \/ Said(r, Endings)'
      BY <1>3, <1>7 DEF Begun, InSlot
    <2>1. CASE \E i \in DOMAIN ext : ext[i].id = r /\ ext[i].kind = "DATA"
      <3>1. PICK i \in DOMAIN ext : ext[i].id = r /\ ext[i].kind = "DATA"
        BY <2>1
      <3>2. ext[i] = Frame("DATA", r)
        BY <3>1, <1>4 DEF Frame, EngineFrames
      <3> QED BY <3>2, <1>5 DEF Occupies
    <2>2. CASE ~\E i \in DOMAIN ext : ext[i].id = r /\ ext[i].kind = "DATA"
      <3>1. Sent(r, {"STOP", "CANCEL"}) \/ Said(r, {"DATA"}) \/ Heard(r, {"DATA"})
        BY <2>2, <1>5, <1>6
      <3>2. r \notin pending \/ InSlot(r) \/ Said(r, Endings)
        BY <3>1, <1>3 DEF Inv, Begun, InSlot
      <3> QED BY <3>2, <1>5 DEF Occupies
    <2> QED BY <2>1, <2>2
  <1>t. Told'
    <2>1. ASSUME NEW r \in Requests, r \in pending, NEW j \in DOMAIN stdout',
                 stdout'[j].id = r, stdout'[j].kind = "NOT_FOUND"
          PROVE  \E i \in 1..(j - 1) : stdout'[i].id = r /\ stdout'[i].kind \in Endings
      <3>1. CASE j \in DOMAIN stdout
        <4>1. PICK i \in 1..(j - 1) : stdout[i].id = r /\ stdout[i].kind \in Endings
          BY <3>1, <2>1, <1>1 DEF Inv, Told
        <4> QED BY <4>1, <3>1, <1>1
      <3>2. CASE j \notin DOMAIN stdout
        <4>1. PICK k \in DOMAIN ext : k = j - Len(stdout) /\ ext[k].id = r /\ ext[k].kind = "NOT_FOUND" /\ j > Len(stdout)
          BY <3>2, <2>1, <1>1
        <4>2. Sent(r, {"STOP", "CANCEL"}) /\ ~InSlot(r)
          BY <4>1, <1>8 DEF Answers
        <4>3. Said(r, Endings)
          BY <4>2, <2>1, <1>3 DEF Inv, Begun, InSlot
        <4> QED BY <4>1, <4>3, <1>1 DEF Said
      <3> QED BY <3>1, <3>2
    <2> QED BY <2>1, <1>3, <1>7 DEF Inv, Told
  <1>o. InOrder'
    <2> SUFFICES ASSUME NEW r \in Requests, hpc[r] = "waiting"
                 PROVE  Ordered(r, Unheard(r)', accepted[r])
      BY <1>3 DEF InOrder
    <2>0. /\ Ordered(r, Unheard(r), accepted[r])
          /\ events[r] \in Seq(Events) /\ stdout \in Seq(Events) /\ ext \in Seq(Events)
          /\ accepted[r] \in BOOLEAN
          /\ \A i \in DOMAIN events[r] : events[r][i].id = r
      BY SeqMonotonic, KindsAndTypes DEF Inv, InOrder, Typed
    <2>1. CASE r \notin pending
      BY <2>0, <2>1, <1>3 DEF Unheard
    <2>2. CASE r \in pending
      <3> DEFINE u == events[r] \o stdout
      <3>1. Unheard(r)' = u \o ext /\ Unheard(r) = u /\ u \in Seq(Events)
        <4>1. Unheard(r)' = events[r] \o (stdout \o ext) /\ Unheard(r) = u
          BY <2>2, <1>3 DEF Unheard
        <4>2. events[r] \o (stdout \o ext) = (events[r] \o stdout) \o ext
          BY <2>0, Regroup
        <4>3. u \in Seq(Events)
          BY <2>0, ConcatAt
        <4> QED BY <4>1, <4>2, <4>3
      <3>2. /\ \A i \in DOMAIN u : \/ i \in DOMAIN events[r] /\ u[i] = events[r][i]
                                   \/ i - Len(events[r]) \in DOMAIN stdout /\ u[i] = stdout[i - Len(events[r])]
            /\ \A i \in DOMAIN events[r] : i \in DOMAIN u /\ u[i] = events[r][i]
            /\ \A i \in DOMAIN stdout : Len(events[r]) + i \in DOMAIN u /\ u[Len(events[r]) + i] = stdout[i]
        <4>1. /\ \A i \in DOMAIN u : \/ i \in DOMAIN events[r]
                                     \/ i - Len(events[r]) \in DOMAIN stdout /\ u[i] = stdout[i - Len(events[r])]
              /\ \A i \in DOMAIN events[r] : i \in DOMAIN u /\ u[i] = events[r][i]
              /\ \A i \in DOMAIN stdout : Len(events[r]) + i \in DOMAIN u /\ u[Len(events[r]) + i] = stdout[i]
          BY <2>0, ConcatAt
        <4> QED BY <4>1
      <3> HIDE DEF u
      <3>3. /\ \A i \in DOMAIN events[r] : events[r][i].kind \in EngineKinds \cup {"FAILED"}
            /\ \A i \in DOMAIN stdout : stdout[i].kind \in EngineKinds
        <4>1. \A i \in DOMAIN events[r] : events[r][i] \in Events
          BY <2>0, SeqAt
        <4>2. \A i \in DOMAIN stdout : stdout[i] \in EngineFrames
          BY SeqAt DEF Inv, Typed
        <4> QED BY <4>1, <4>2 DEF Events, EngineFrames
      <3>4. ~Heard(r, Terminal)
        BY <2>2 DEF Inv, Told
      <3>5. ASSUME ~Said(r, EngineKinds), ~Heard(r, EngineKinds) PROVE \A j \in DOMAIN u : u[j].id # r
        BY <3>2, <3>3, <3>4, <3>5, KindsAndTypes DEF Said, Heard
      <3>6. ASSUME Said(r, EngineKinds) \/ Heard(r, EngineKinds) PROVE \E j \in DOMAIN u : u[j].id = r
        BY <3>2, <3>6, <2>0 DEF Said, Heard
      <3>7. ASSUME NEW i \in DOMAIN ext, ext[i].id = r, ext[i].kind \in Opening
            PROVE  /\ ~accepted[r] /\ \A j \in DOMAIN u : u[j].id # r
                   /\ \A j \in DOMAIN ext : i <= j
                   /\ DOMAIN ext = {1}
        <4>1. /\ stdin # <<>> /\ Head(stdin).kind = "SUBMIT" /\ Head(stdin).id = r /\ DOMAIN ext = {1}
          BY <3>7 DEF Answers, Reading
        <4>2. ~Said(r, EngineKinds) /\ ~Heard(r, EngineKinds) /\ ~accepted[r]
          BY <4>1, NoEarlierFrame
        <4> QED BY <4>1, <4>2, <3>5
      <3>8. ASSUME NEW i \in DOMAIN ext, ext[i].id = r, ext[i].kind \notin Opening
            PROVE  accepted[r] \/ \E j \in DOMAIN u : u[j].id = r
        <4>1. CASE ext[i].kind = "NOT_FOUND"
          <5>1. Sent(r, {"STOP", "CANCEL"}) /\ ~InSlot(r)
            BY <3>8, <4>1, <1>8 DEF Answers
          <5>2. Said(r, Endings)
            BY <5>1, <2>2, <1>3 DEF Inv, Begun, InSlot
          <5> QED BY <5>2, <3>6 DEF Said, EngineKinds
        <4>2. CASE ext[i].kind # "NOT_FOUND"
          <5>1. InEngine(r)
            BY <3>8, <4>2, <1>8
          <5>2. accepted[r] \/ Said(r, EngineKinds) \/ Heard(r, EngineKinds)
            BY <5>1, <2>2 DEF Inv, Working
          <5> QED BY <5>2, <3>6
        <4> QED BY <4>1, <4>2
      <3>9. ASSUME NEW i \in DOMAIN ext, NEW j \in DOMAIN ext, ext[i].id = r, ext[j].id = r,
                   ext[i].kind \in Terminal, i < j
            PROVE  FALSE
        <4>1. CASE ext[i].kind \in Opening
          BY <4>1, <3>9, <3>7
        <4>2. CASE ext[i].kind \notin Opening
          <5>1. ext[i].kind \in {"DONE", "CANCELLED"}
            BY <4>2, <3>9, <1>4 DEF Terminal, EngineKinds, Opening, Endings
          <5> QED BY <5>1, <3>9 DEF Outputs
        <4> QED BY <4>1, <4>2
      <3>10. ASSUME NEW i \in DOMAIN u, u[i].id = r, u[i].kind \in Terminal, NEW j \in DOMAIN ext, ext[j].id = r
             PROVE  ext[j].kind = "NOT_FOUND"
        <4>1. Said(r, Endings)
          BY <3>10, <3>2, <3>3, <3>4, KindsAndTypes DEF Said, Heard, EngineKinds
        <4>2. Said(r, EngineKinds) /\ Said(r, Endings \cup {"NOT_FOUND"})
          BY <4>1 DEF Said, EngineKinds
        <4>3. ~InEngine(r)
          BY <4>2 DEF Inv, Working
        <4>4. ext[j].kind \notin Opening
          BY <3>10, <3>7
        <4> QED BY <4>3, <4>4, <3>10, <1>8
      <3>11. Ordered(r, u \o ext, accepted[r])
        BY <3>1, <3>7, <3>8, <3>9, <3>10, <2>0, ConcatOrdered
      <3> QED BY <3>1, <3>11
    <2> QED BY <2>1, <2>2
  <1>e. HeadersAreWritten => Exclusive'
    <2> SUFFICES ASSUME HeadersAreWritten PROVE Exclusive'
      OBVIOUS
    <2> QED BY <1>3 DEF Inv, Exclusive, Occupies
  <1>p. Placed'
    BY <1>3 DEF Inv, Placed, Occupies
  <1> QED BY <1>f, <1>u, <1>w, <1>b, <1>t, <1>o, <1>e, <1>p DEF Inv

----------------------------------------------------------------------------
(* The engine's actions, each through StepOfEngine.                        *)
Frames(kinds, r) == [i \in 1..Len(kinds) |-> Frame(kinds[i], r)]

LEMMA FramesAt ==
    ASSUME NEW r \in Requests, NEW kinds \in Seq(EngineKinds)
    PROVE  /\ Frames(kinds, r) \in Seq(EngineFrames)
           /\ DOMAIN Frames(kinds, r) = 1..Len(kinds) /\ Len(kinds) \in Nat
           /\ \A i \in 1..Len(kinds) : /\ Frames(kinds, r)[i] = Frame(kinds[i], r)
                                       /\ Frames(kinds, r)[i].kind = kinds[i]
                                       /\ Frames(kinds, r)[i].id = r
                                       /\ kinds[i] \in EngineKinds
  <1>1. Len(kinds) \in Nat /\ \A i \in 1..Len(kinds) : kinds[i] \in EngineKinds
    BY SeqAt
  <1>2. \A i \in 1..Len(kinds) : Frame(kinds[i], r) \in EngineFrames
    BY <1>1, KindsAndTypes
  <1>3. Frames(kinds, r) \in Seq(EngineFrames)
    BY <1>1, <1>2 DEF Frames
  <1> QED BY <1>1, <1>3 DEF Frames, Frame

LEMMA OneFrame ==
    ASSUME NEW r \in Requests, NEW k \in EngineKinds
    PROVE  /\ Frames(<<k>>, r) \in Seq(EngineFrames)
           /\ DOMAIN Frames(<<k>>, r) = {1}
           /\ Frames(<<k>>, r)[1] = Frame(k, r)
           /\ Frames(<<k>>, r)[1].kind = k
           /\ Frames(<<k>>, r)[1].id = r
  <1> DEFINE kinds == <<k>>
  <1>1. kinds \in Seq(EngineKinds) /\ Len(kinds) = 1 /\ kinds[1] = k
    OBVIOUS
  <1> HIDE DEF kinds
  <1>2. /\ Frames(kinds, r) \in Seq(EngineFrames) /\ DOMAIN Frames(kinds, r) = {1}
        /\ Frames(kinds, r)[1] = Frame(k, r) /\ Frames(kinds, r)[1].kind = k /\ Frames(kinds, r)[1].id = r
    BY <1>1, FramesAt
  <1> QED BY <1>2 DEF kinds

LEMMA NoFrame ==
    ASSUME Typed, stdout' = stdout
    PROVE  /\ <<>> \in Seq(EngineFrames) /\ stdout' = stdout \o <<>>
           /\ Answers(<<>>) /\ Outputs(<<>>)
  <1>1. stdout \in Seq(EngineFrames) /\ <<>> \in Seq(EngineFrames)
    BY KindsAndTypes DEF Typed
  <1>2. stdout \o <<>> = stdout
    BY <1>1, ConcatEmptySeq
  <1> QED BY <1>1, <1>2 DEF Answers, Outputs

\* What the engine reads, and what a step that reads leaves in the pipe.
LEMMA ReadsLine ==
    ASSUME Typed, NEW kinds, NEW pc, Reads(kinds, pc)
    PROVE  /\ Reading /\ Head(stdin) \in Lines /\ 1 \in DOMAIN stdin /\ Head(stdin) = stdin[1]
           /\ Head(stdin).id \in Requests /\ Head(stdin).slot \in Slots /\ Head(stdin).kind \in kinds
           /\ Head(stdin) = [kind |-> Head(stdin).kind, id |-> Head(stdin).id, slot |-> Head(stdin).slot]
           /\ stdin' \in Seq(Lines)
           /\ \A i \in DOMAIN stdin' : \E j \in DOMAIN stdin : stdin'[i] = stdin[j]
           /\ OutsideEngine
  <1>1. stdin \in Seq(Lines) /\ stdin # <<>> /\ stdin' = Tail(stdin)
    BY DEF Typed, Reads
  <1>2. Head(stdin) \in Lines /\ 1 \in DOMAIN stdin /\ Head(stdin) = stdin[1]
    BY <1>1, TailAt, SeqAt
  <1> QED BY <1>1, <1>2, TailAt DEF Reads, Reading, Lines

\* The engine has a request in one place only.
LEMMA OneSlot ==
    ASSUME Inv, NEW r \in Requests, NEW s \in Slots, Engages(r, s)
    PROVE  \A t \in Slots : Engages(r, t) => t = s
  BY DEF Inv, Placed

LEMMA Kept ==
    ASSUME Typed, stdin' \in Seq(Lines), stdout' \in Seq(EngineFrames),
           epc' \in {"poll", "prefill", "round", "spec", "ctl"},
           req' \in [Slots -> Requests \cup {None}], emitted' \in [Slots -> 0..MaxTokens],
           epc' = "prefill" => job' \in Jobs, OutsideEngine
    PROVE  Typed'
  BY DEF Typed, OutsideEngine, gateway

LEMMA ReadStopStep ==
    ASSUME Inv, ReadStop
    PROVE  Inv'
  <1> DEFINE r == Head(stdin).id
  <1>t. Typed /\ Engine /\ None \notin Requests
    BY GatewayAssumption DEF Inv
  <1>0. /\ Reads({"STOP", "CANCEL"}, "poll") /\ ToRound(Active \ SlotOf(r)) /\ epc = "poll"
        /\ OutsideEngine /\ UNCHANGED <<job, flag>>
    BY DEF ReadStop, Reads
  <1>1. Reading /\ r \in Requests /\ Head(stdin).kind \in {"STOP", "CANCEL"} /\ stdin' \in Seq(Lines)
        /\ \A i \in DOMAIN stdin' : \E j \in DOMAIN stdin : stdin'[i] = stdin[j]
    BY <1>t, <1>0, ReadsLine
  <1>2. stdin' = stdin \/ Reading
    BY <1>1
  <1>3. /\ epc' \in {"poll", "round"} /\ rows' = Active \ SlotOf(r) /\ (epc' = "poll" <=> rows' = {})
    BY <1>0 DEF ToRound
  <1>4. stdout \in Seq(EngineFrames) /\ req \in [Slots -> Requests \cup {None}] /\ emitted \in [Slots -> 0..MaxTokens]
    BY <1>t DEF Typed
  <1>a. CASE SlotOf(r) = {}
    <2> DEFINE ext == Frames(<<"NOT_FOUND">>, r)
    <2>1. ext \in Seq(EngineFrames) /\ DOMAIN ext = {1} /\ ext[1].kind = "NOT_FOUND" /\ ext[1].id = r
      BY <1>1, OneFrame DEF EngineKinds
    <2>2. stdout' = stdout \o ext /\ req' = req /\ emitted' = emitted
      BY <1>a DEF ReadStop, Say, Frames
    <2> HIDE DEF ext
    <2>3. stdout' \in Seq(EngineFrames)
      BY <1>4, <2>1, <2>2, ConcatAt
    <2>4. ~InSlot(r)
      BY <1>a DEF SlotOf, InSlot
    <2>5. Typed'
      BY <1>t, <1>0, <1>1, <1>3, <1>4, <2>2, <2>3, Kept
    <2>6. Engine'
      BY <1>t, <1>0, <1>1, <1>3, <2>2 DEF Engine, Active, OutsideEngine, gateway
    <2>7. Answers(ext) /\ Outputs(ext)
      BY <1>1, <2>1, <2>4 DEF Answers, Outputs, Opening
    <2>8. Occupies(ext)
      <3>1. \A o \in Requests, s \in Slots : Engages(o, s)' => Engages(o, s)
        BY <1>1, <1>3, <2>2 DEF Engages
      <3>2. \A o \in Requests : InEngine(o)' => InEngine(o) /\ InSlot(o)
        BY <1>3, <2>2 DEF InEngine, InSlot
      <3>3. \A o \in Requests : InSlot(o) => InSlot(o)'
        BY <2>2 DEF InSlot
      <3> QED BY <3>1, <3>2, <3>3, <2>1, <2>4 DEF Occupies, Frame
    <2> QED BY <1>0, <1>2, <2>1, <2>2, <2>5, <2>6, <2>7, <2>8, StepOfEngine
  <1>b. CASE SlotOf(r) # {}
    <2> DEFINE k == IF Head(stdin).kind = "STOP" THEN "DONE" ELSE "CANCELLED"
               ext == Frames(<<k>>, r)
    <2>1. ext \in Seq(EngineFrames) /\ DOMAIN ext = {1} /\ ext[1].kind = k /\ ext[1].id = r
          /\ k \in {"DONE", "CANCELLED"}
      BY <1>1, OneFrame DEF EngineKinds, Endings
    <2>2. stdout' = stdout \o ext /\ \E s \in SlotOf(r) : Free(s)
      BY <1>b DEF ReadStop, Say, Frames
    <2>3. PICK s \in Slots : /\ req[s] = r /\ req' = [req EXCEPT ![s] = None]
                             /\ emitted' = [emitted EXCEPT ![s] = 0]
      BY <2>2 DEF SlotOf, Free
    <2> HIDE DEF ext, k
    <2>4. stdout' \in Seq(EngineFrames)
      BY <1>4, <2>1, <2>2, ConcatAt
    <2>5. \A t \in Slots : req[t] = r => t = s
      BY <1>1, <2>3, OneSlot DEF Engages
    <2>6. req' \in [Slots -> Requests \cup {None}] /\ emitted' \in [Slots -> 0..MaxTokens]
          /\ \A t \in Slots : req'[t] = IF t = s THEN None ELSE req[t]
      BY <1>4, <2>3, GatewayAssumption
    <2>7. Typed'
      BY <1>t, <1>0, <1>1, <1>3, <2>4, <2>6, Kept
    <2>8. Engine'
      BY <1>t, <1>0, <1>1, <1>3, <2>3, <2>6 DEF Engine, Active, SlotOf, OutsideEngine, gateway
    <2>9. Answers(ext) /\ Outputs(ext)
      BY <1>1, <2>1, <2>3 DEF Answers, Outputs, Opening, InEngine
    <2>10. Occupies(ext)
      <3>1. \A o \in Requests, t \in Slots : Engages(o, t)' => Engages(o, t)
        BY <1>1, <1>3, <1>t, <2>6 DEF Engages
      <3>2. \A o \in Requests : InEngine(o)' => InEngine(o) /\ o # r
        BY <1>3, <1>t, <2>5, <2>6 DEF InEngine
      <3>3. \A o \in Requests : InSlot(o) => InSlot(o)' \/ o = r
        BY <2>3, <2>6 DEF InSlot
      <3> QED BY <3>1, <3>2, <3>3, <2>1 DEF Occupies, Frame, Endings
    <2> QED BY <1>0, <1>2, <2>1, <2>2, <2>7, <2>8, <2>9, <2>10, StepOfEngine
  <1> QED BY <1>a, <1>b

LEMMA ReadSubmitStep ==
    ASSUME Inv, ReadSubmit
    PROVE  Inv'
  <1> DEFINE line == Head(stdin)
             r == Head(stdin).id
  <1>t. Typed /\ Engine /\ None \notin Requests
    BY GatewayAssumption DEF Inv
  <1>0. /\ Reads({"SUBMIT"}, "poll") /\ epc = "poll" /\ OutsideEngine
        /\ UNCHANGED <<req, emitted, flag>>
    BY DEF ReadSubmit, Reads
  <1>1. Reading /\ r \in Requests /\ line.slot \in Slots /\ line.kind = "SUBMIT" /\ stdin' \in Seq(Lines)
        /\ line = [kind |-> "SUBMIT", id |-> r, slot |-> line.slot]
        /\ 1 \in DOMAIN stdin /\ line = stdin[1]
        /\ \A i \in DOMAIN stdin' : \E j \in DOMAIN stdin : stdin'[i] = stdin[j]
    BY <1>t, <1>0, ReadsLine
  <1>2. stdin' = stdin \/ Reading
    BY <1>1
  <1>3. ~InEngine(r)
    BY <1>1, NoEarlierFrame DEF Reading
  <1>4. stdout \in Seq(EngineFrames) /\ req \in [Slots -> Requests \cup {None}] /\ emitted \in [Slots -> 0..MaxTokens]
    BY <1>t DEF Typed
  <1>5. \A o \in Requests : InSlot(o) => InSlot(o)'
    BY <1>0 DEF InSlot
  <1>a. ASSUME NEW k \in {"SLOT_BUSY", "REFUSED"}, Say(<<k>>, r), ToRound(Active), UNCHANGED job
        PROVE  Inv'
    <2> DEFINE ext == Frames(<<k>>, r)
    <2>1. ext \in Seq(EngineFrames) /\ DOMAIN ext = {1} /\ ext[1].kind = k /\ ext[1].id = r
      BY <1>1, OneFrame DEF EngineKinds, Endings
    <2>2. stdout' = stdout \o ext
      BY <1>a DEF Say, Frames
    <2> HIDE DEF ext
    <2>3. /\ epc' \in {"poll", "round"} /\ rows' = Active /\ (epc' = "poll" <=> rows' = {})
      BY <1>a DEF ToRound
    <2>4. stdout' \in Seq(EngineFrames)
      BY <1>4, <2>1, <2>2, ConcatAt
    <2>5. Typed'
      BY <1>t, <1>0, <1>1, <1>4, <2>3, <2>4, Kept
    <2>6. Engine'
      BY <1>t, <1>0, <1>1, <2>3 DEF Engine, Active, OutsideEngine, gateway
    <2>7. Answers(ext) /\ Outputs(ext)
      BY <1>1, <2>1 DEF Answers, Outputs, Opening
    <2>8. Occupies(ext)
      <3>1. \A o \in Requests, s \in Slots : Engages(o, s)' => Engages(o, s)
        BY <1>0, <1>1, <2>3 DEF Engages
      <3>2. \A o \in Requests : InEngine(o)' => InEngine(o) /\ o # r
        BY <1>0, <1>3, <2>3 DEF InEngine
      <3> QED BY <3>1, <3>2, <1>5, <2>1 DEF Occupies, Frame
    <2> QED BY <1>0, <1>2, <2>1, <2>2, <2>5, <2>6, <2>7, <2>8, StepOfEngine
  <1>b. CASE /\ req[line.slot] = None
             /\ Say(<<"ACCEPT">>, r)
             /\ epc' = "prefill"
             /\ job' = [id |-> r, slot |-> line.slot]
             /\ UNCHANGED rows
    <2> DEFINE ext == Frames(<<"ACCEPT">>, r)
    <2>1. ext \in Seq(EngineFrames) /\ DOMAIN ext = {1} /\ ext[1].kind = "ACCEPT" /\ ext[1].id = r
          /\ ext[1] = Frame("ACCEPT", r)
      BY <1>1, OneFrame DEF EngineKinds
    <2>2. stdout' = stdout \o ext
      BY <1>b DEF Say, Frames
    <2> HIDE DEF ext
    <2>4. stdout' \in Seq(EngineFrames) /\ job' \in Jobs
      BY <1>1, <1>b, <1>4, <2>1, <2>2, ConcatAt DEF Jobs
    <2>5. Typed'
      BY <1>t, <1>0, <1>1, <1>b, <1>4, <2>4, Kept
    <2>6. Engine'
      BY <1>t, <1>0, <1>1, <1>b DEF Engine, OutsideEngine, gateway
    <2>7. Answers(ext) /\ Outputs(ext)
      BY <1>1, <2>1 DEF Answers, Outputs, Opening
    <2>8. Occupies(ext)
      <3>1. \A o \in Requests, s \in Slots : Engages(o, s)' => Engages(o, s)
        BY <1>0, <1>1, <1>b DEF Engages
      <3>2. \A o \in Requests : InEngine(o)' => InEngine(o) \/ o = r
        BY <1>0, <1>b DEF InEngine
      <3> QED BY <3>1, <3>2, <1>5, <2>1 DEF Occupies, Frame
    <2> QED BY <1>0, <1>2, <2>1, <2>2, <2>5, <2>6, <2>7, <2>8, StepOfEngine
  <1> QED BY <1>a, <1>b DEF ReadSubmit

LEMMA QuietStep ==
    ASSUME Inv, OutsideEngine, UNCHANGED <<stdin, stdout, req, emitted, job>>,
           epc' \in {"poll", "round", "spec", "ctl"}, Engine', epc # "prefill"
    PROVE  Inv'
  <1>t. Typed /\ None \notin Requests
    BY GatewayAssumption DEF Inv
  <1>1. <<>> \in Seq(EngineFrames) /\ stdout' = stdout \o <<>> /\ Answers(<<>>) /\ Outputs(<<>>)
    BY <1>t, NoFrame
  <1>2. Typed'
    BY <1>t DEF Typed, OutsideEngine, gateway
  <1>3. Occupies(<<>>)
    BY DEF Occupies, Engages, InEngine, InSlot
  <1> QED BY <1>1, <1>2, <1>3, StepOfEngine

LEMMA SkipPollStep ==
    ASSUME Inv, SkipPoll
    PROVE  Inv'
  <1>1. epc' \in {"poll", "round"} /\ rows' = Active /\ (epc' = "poll" <=> rows' = {})
    BY DEF SkipPoll, ToRound
  <1>2. Engine'
    BY <1>1 DEF SkipPoll, Inv, Engine, Active, OutsideEngine, gateway
  <1> QED BY <1>1, <1>2, QuietStep DEF SkipPoll

LEMMA CtlDoneStep ==
    ASSUME Inv, CtlDone
    PROVE  Inv'
  <1>2. Engine'
    BY DEF CtlDone, Inv, Engine, OutsideEngine, gateway
  <1> QED BY <1>2, QuietStep DEF CtlDone

LEMMA PrefillStep ==
    ASSUME Inv, Prefill
    PROVE  Inv'
  <1> DEFINE s == job.slot
             r == job.id
  <1>t. Typed /\ Engine /\ None \notin Requests
    BY GatewayAssumption DEF Inv
  <1>0. epc = "prefill" /\ job' = None /\ OutsideEngine /\ UNCHANGED stdin
    BY DEF Prefill
  <1>1. r \in Requests /\ s \in Slots /\ job = [id |-> r, slot |-> s]
    BY <1>t, <1>0 DEF Typed, Jobs
  <1>4. stdout \in Seq(EngineFrames) /\ req \in [Slots -> Requests \cup {None}] /\ emitted \in [Slots -> 0..MaxTokens]
        /\ stdin \in Seq(Lines)
    BY <1>t DEF Typed
  <1>5. req[s] = None /\ rows = {}
    BY <1>t, <1>0 DEF Engine
  <1>6. Engages(r, s) /\ InEngine(r)
    BY <1>0, <1>1 DEF Engages, InEngine
  <1>7. ~InSlot(r)
    BY <1>1, <1>5, <1>6, <1>t, OneSlot DEF InSlot, Engages
  <1>a. ASSUME NEW kinds \in {<<"DONE">>, <<"DATA", "DONE">>}, Say(kinds, r), ToRound(Active),
               UNCHANGED <<req, emitted>>
        PROVE  Inv'
    <2> DEFINE ext == Frames(kinds, r)
    <2>1. /\ kinds \in Seq(EngineKinds) /\ Len(kinds) \in 1..2 /\ kinds[Len(kinds)] = "DONE"
          /\ \A i \in 1..Len(kinds) : i # Len(kinds) => kinds[i] = "DATA"
      <3>1. <<"DONE">> \in Seq(EngineKinds) /\ <<"DATA", "DONE">> \in Seq(EngineKinds)
        BY DEF EngineKinds, Endings
      <3>2. CASE kinds = <<"DONE">>
        BY <3>1, <3>2
      <3>3. CASE kinds = <<"DATA", "DONE">>
        BY <3>1, <3>3
      <3> QED BY <1>a, <3>2, <3>3
    <2>2. /\ ext \in Seq(EngineFrames) /\ DOMAIN ext = 1..Len(kinds)
          /\ \A i \in 1..Len(kinds) : ext[i].kind = kinds[i] /\ ext[i].id = r
      BY <1>1, <2>1, FramesAt
    <2>3. stdout' = stdout \o ext
      BY <1>a DEF Say, Frames
    <2> HIDE DEF ext
    <2>4. /\ epc' \in {"poll", "round"} /\ rows' = Active /\ (epc' = "poll" <=> rows' = {})
      BY <1>a DEF ToRound
    <2>5. stdout' \in Seq(EngineFrames)
      BY <1>4, <2>2, <2>3, ConcatAt
    <2>6. Typed'
      BY <1>t, <1>0, <1>a, <1>4, <2>4, <2>5, Kept
    <2>7. Engine'
      BY <1>t, <1>0, <1>a, <2>4 DEF Engine, Active, OutsideEngine, gateway
    <2>8. Answers(ext) /\ Outputs(ext)
      BY <1>6, <2>1, <2>2 DEF Answers, Outputs, Opening
    <2>9. Occupies(ext)
      <3>1. \A o \in Requests, t \in Slots : Engages(o, t)' => Engages(o, t)
        BY <1>0, <1>a, <2>4 DEF Engages
      <3>2. \A o \in Requests : InEngine(o)' => InEngine(o) /\ o # r
        BY <1>7, <1>a, <2>4 DEF InEngine, InSlot
      <3>3. \A o \in Requests : InSlot(o) => InSlot(o)'
        BY <1>a DEF InSlot
      <3>4. Len(kinds) \in DOMAIN ext /\ ext[Len(kinds)].kind \in Endings /\ ext[Len(kinds)].id = r
        BY <2>1, <2>2 DEF Endings
      <3> QED BY <3>1, <3>2, <3>3, <3>4, <2>2 DEF Occupies, Frame
    <2> QED BY <1>0, <2>2, <2>3, <2>6, <2>7, <2>8, <2>9, StepOfEngine
  <1>b. CASE /\ MaxTokens > 1
             /\ Say(<<"DATA">>, r)
             /\ req' = [req EXCEPT ![s] = r]
             /\ emitted' = [emitted EXCEPT ![s] = 1]
             /\ ToRound(Active \cup {s})
    <2> DEFINE ext == Frames(<<"DATA">>, r)
    <2>1. ext \in Seq(EngineFrames) /\ DOMAIN ext = {1} /\ ext[1].kind = "DATA" /\ ext[1].id = r
      BY <1>1, OneFrame DEF EngineKinds
    <2>2. stdout' = stdout \o ext
      BY <1>b DEF Say, Frames
    <2> HIDE DEF ext
    <2>3. epc' = "round" /\ rows' = Active \cup {s}
      BY <1>b DEF ToRound
    <2>4. stdout' \in Seq(EngineFrames)
      BY <1>4, <2>1, <2>2, ConcatAt
    <2>5. /\ req' \in [Slots -> Requests \cup {None}] /\ emitted' \in [Slots -> 0..MaxTokens]
          /\ \A t \in Slots : req'[t] = IF t = s THEN r ELSE req[t]
      BY <1>1, <1>4, <1>b, GatewayAssumption
    <2>6. Typed'
      BY <1>t, <1>0, <1>4, <2>3, <2>4, <2>5, Kept
    <2>7. Engine'
      BY <1>t, <1>0, <1>1, <2>3, <2>5 DEF Engine, Active, OutsideEngine, gateway
    <2>8. Answers(ext) /\ Outputs(ext)
      BY <1>6, <2>1 DEF Answers, Outputs, Opening
    <2>9. Occupies(ext)
      <3>1. \A o \in Requests, t \in Slots : Engages(o, t)' => Engages(o, t)
        <4>1. \A o \in Requests, t \in Slots : Engages(o, t)' => Engages(o, t) \/ (o = r /\ t = s)
          BY <1>0, <2>3, <2>5 DEF Engages
        <4> QED BY <4>1, <1>6
      <3>2. \A o \in Requests : InEngine(o)' => InEngine(o)
        BY <1>6, <2>3, <2>5 DEF InEngine
      <3>3. \A o \in Requests : InSlot(o) \/ o = r => InSlot(o)'
        BY <1>1, <1>5, <1>t, <2>5 DEF InSlot
      <3> QED BY <3>1, <3>2, <3>3, <2>1 DEF Occupies, Frame
    <2> QED BY <1>0, <2>1, <2>2, <2>6, <2>7, <2>8, <2>9, StepOfEngine
  <1>c. CASE /\ spec
             /\ req' = [req EXCEPT ![s] = r]
             /\ epc' = "spec"
             /\ UNCHANGED <<stdout, emitted, rows>>
    <2>1. <<>> \in Seq(EngineFrames) /\ stdout' = stdout \o <<>> /\ Answers(<<>>) /\ Outputs(<<>>)
      BY <1>t, <1>c, NoFrame
    <2>5. /\ req' \in [Slots -> Requests \cup {None}]
          /\ \A t \in Slots : req'[t] = IF t = s THEN r ELSE req[t]
      BY <1>1, <1>4, <1>c
    <2>6. Typed'
      BY <1>t, <1>0, <1>c, <1>4, <2>5, Kept
    <2>7. Engine'
      BY <1>t, <1>0, <1>1, <1>c, <1>5, <2>5 DEF Engine, OutsideEngine, gateway
    <2>9. Occupies(<<>>)
      <3>1. \A o \in Requests, t \in Slots : Engages(o, t)' => Engages(o, t)
        <4>1. \A o \in Requests, t \in Slots : Engages(o, t)' => Engages(o, t) \/ (o = r /\ t = s)
          BY <1>0, <1>c, <2>5 DEF Engages
        <4> QED BY <4>1, <1>6
      <3>2. \A o \in Requests : InEngine(o)' => InEngine(o)
        BY <1>6, <1>c, <2>5 DEF InEngine
      <3>3. \A o \in Requests : InSlot(o) => InSlot(o)'
        BY <1>1, <1>5, <1>t, <2>5 DEF InSlot
      <3> QED BY <3>1, <3>2, <3>3 DEF Occupies
    <2> QED BY <1>0, <2>1, <2>6, <2>7, <2>9, StepOfEngine
  <1> QED BY <1>a, <1>b, <1>c DEF Prefill

LEMMA DecodeRowStep ==
    ASSUME Inv, NEW s \in Slots, DecodeRow(s)
    PROVE  Inv'
  <1> DEFINE r == req[s]
  <1>t. Typed /\ Engine /\ None \notin Requests
    BY GatewayAssumption DEF Inv
  <1>0. /\ epc = "round" /\ s \in rows /\ OutsideEngine /\ UNCHANGED <<stdin, job, flag>>
        /\ rows' = rows \ {s} /\ epc' = IF rows = {s} THEN "poll" ELSE "round"
    BY DEF DecodeRow
  <1>1. r \in Requests /\ r # None
    BY <1>t, <1>0 DEF Typed, Engine
  <1>4. stdout \in Seq(EngineFrames) /\ req \in [Slots -> Requests \cup {None}] /\ emitted \in [Slots -> 0..MaxTokens]
        /\ stdin \in Seq(Lines)
    BY <1>t DEF Typed
  <1>5. InEngine(r) /\ Engages(r, s)
    BY DEF InEngine, Engages
  <1>6. \A t \in Slots : req[t] = r => t = s
    BY <1>1, <1>5, OneSlot DEF Engages
  <1>7. epc' \in {"poll", "round"} /\ (epc' # "round" => rows' = {})
    BY <1>0
  <1>8. PICK n \in 0..(MaxTokens - emitted[s]) :
          LET data == [i \in 1..n |-> "DATA"] IN
            \/ /\ n > 0 /\ emitted[s] + n < MaxTokens
               /\ Say(data, r)
               /\ emitted' = [emitted EXCEPT ![s] = @ + n]
               /\ UNCHANGED req
            \/ Say(Append(data, "DONE"), r) /\ Free(s)
    BY DEF DecodeRow
  <1> DEFINE data == [i \in 1..n |-> "DATA"]
  <1>9. n \in Nat /\ emitted[s] \in Nat
    BY <1>4, GatewayAssumption
  <1>10. /\ data \in Seq(EngineKinds) /\ Len(data) = n /\ \A i \in 1..n : data[i] = "DATA"
    BY <1>9 DEF EngineKinds
  <1>11. /\ Append(data, "DONE") \in Seq(EngineKinds) /\ Len(Append(data, "DONE")) = n + 1
         /\ Append(data, "DONE")[n + 1] = "DONE"
         /\ \A i \in 1..n : Append(data, "DONE")[i] = "DATA"
    <2> HIDE DEF data
    <2>1. "DONE" \in EngineKinds /\ DOMAIN data = 1..n
      BY <1>10, SeqAt DEF EngineKinds, Endings
    <2> QED BY <1>10, <2>1, AppendAt
  <1> HIDE DEF data
  <1>a. CASE /\ n > 0 /\ emitted[s] + n < MaxTokens
             /\ Say(data, r)
             /\ emitted' = [emitted EXCEPT ![s] = @ + n]
             /\ UNCHANGED req
    <2> DEFINE ext == Frames(data, r)
    <2>1. /\ ext \in Seq(EngineFrames) /\ DOMAIN ext = 1..n
          /\ \A i \in 1..n : ext[i].kind = "DATA" /\ ext[i].id = r
      BY <1>1, <1>10, FramesAt
    <2>2. stdout' = stdout \o ext
      BY <1>a DEF Say, Frames
    <2> HIDE DEF ext
    <2>3. stdout' \in Seq(EngineFrames)
      BY <1>4, <2>1, <2>2, ConcatAt
    <2>4. emitted' \in [Slots -> 0..MaxTokens]
      BY <1>4, <1>9, <1>a, GatewayAssumption
    <2>5. Typed'
      BY <1>t, <1>0, <1>4, <1>7, <1>a, <2>3, <2>4, Kept
    <2>6. Engine'
      BY <1>t, <1>0, <1>7, <1>a DEF Engine, OutsideEngine, gateway
    <2>7. Answers(ext) /\ Outputs(ext)
      BY <1>5, <2>1 DEF Answers, Outputs, Opening
    <2>8. Occupies(ext)
      <3>1. \A o \in Requests, t \in Slots : Engages(o, t)' => Engages(o, t)
        BY <1>0, <1>7, <1>a DEF Engages
      <3>2. \A o \in Requests : InEngine(o)' => InEngine(o)
        BY <1>7, <1>a DEF InEngine
      <3>3. \A o \in Requests : InSlot(o) \/ o = r => InSlot(o)'
        BY <1>a DEF InSlot
      <3> QED BY <3>1, <3>2, <3>3, <2>1 DEF Occupies, Frame
    <2> QED BY <1>0, <2>1, <2>2, <2>5, <2>6, <2>7, <2>8, StepOfEngine
  <1>b. CASE Say(Append(data, "DONE"), r) /\ Free(s)
    <2> DEFINE kinds == Append(data, "DONE")
               ext == Frames(Append(data, "DONE"), r)
    <2>0. /\ kinds \in Seq(EngineKinds) /\ Len(kinds) = n + 1 /\ kinds[n + 1] = "DONE"
          /\ \A i \in 1..n : kinds[i] = "DATA"
      BY <1>11
    <2>1. /\ ext \in Seq(EngineFrames) /\ DOMAIN ext = 1..(n + 1)
          /\ ext[n + 1].kind = "DONE" /\ ext[n + 1].id = r
          /\ \A i \in 1..n : ext[i].kind = "DATA" /\ ext[i].id = r
      <3> HIDE DEF kinds
      <3>1. /\ Frames(kinds, r) \in Seq(EngineFrames) /\ DOMAIN Frames(kinds, r) = 1..(n + 1)
            /\ \A i \in 1..(n + 1) : Frames(kinds, r)[i].kind = kinds[i] /\ Frames(kinds, r)[i].id = r
        BY <1>1, <2>0, FramesAt
      <3>2. \A i \in 1..n : i \in 1..(n + 1)
        BY <1>9
      <3>3. n + 1 \in 1..(n + 1)
        BY <1>9
      <3> QED BY <3>1, <3>2, <3>3, <2>0 DEF kinds
    <2>2. stdout' = stdout \o ext
      BY <1>b DEF Say, Frames
    <2> HIDE DEF ext, kinds
    <2>3. stdout' \in Seq(EngineFrames)
      BY <1>4, <2>1, <2>2, ConcatAt
    <2>4. /\ req' \in [Slots -> Requests \cup {None}] /\ emitted' \in [Slots -> 0..MaxTokens]
          /\ \A t \in Slots : req'[t] = IF t = s THEN None ELSE req[t]
      BY <1>4, <1>b, GatewayAssumption DEF Free
    <2>5. Typed'
      BY <1>t, <1>0, <1>4, <1>7, <2>3, <2>4, Kept
    <2>6. Engine'
      BY <1>t, <1>0, <1>7, <2>4 DEF Engine, OutsideEngine, gateway
    <2>7. Answers(ext) /\ Outputs(ext)
      BY <1>5, <1>9, <2>1 DEF Answers, Outputs, Opening
    <2>8. Occupies(ext)
      <3>1. \A o \in Requests, t \in Slots : Engages(o, t)' => Engages(o, t)
        BY <1>0, <1>7, <1>t, <2>4 DEF Engages
      <3>2. \A o \in Requests : InEngine(o)' => InEngine(o) /\ o # r
        BY <1>7, <1>6, <1>t, <2>4 DEF InEngine
      <3>3. \A o \in Requests : InSlot(o) => InSlot(o)' \/ o = r
        BY <2>4 DEF InSlot
      <3>4. n + 1 \in DOMAIN ext
        BY <1>9, <2>1
      <3>5. \A i \in DOMAIN ext : ext[i].id = r
        BY <1>9, <2>1
      <3> QED BY <3>1, <3>2, <3>3, <3>4, <3>5, <2>1 DEF Occupies, Frame, Endings
    <2> QED BY <1>0, <2>1, <2>2, <2>5, <2>6, <2>7, <2>8, StepOfEngine
  <1> QED BY <1>8, <1>a, <1>b DEF data

LEMMA InterruptStep ==
    ASSUME Inv, Interrupt
    PROVE  Inv'
  <1>t. Typed /\ Engine /\ None \notin Requests /\ NSlots \in Nat
    BY GatewayAssumption DEF Inv
  <1>0. /\ epc = "poll" /\ OutsideEngine /\ UNCHANGED <<stdin, epc, rows, job, flag>>
        /\ req' = [s \in Slots |-> None] /\ emitted' = [s \in Slots |-> 0]
    BY DEF Interrupt
  <1>1. PICK n \in 1..NSlots : \E order \in [1..n -> Active] :
          /\ \A i, j \in 1..n : i < j => order[i] < order[j]
          /\ \A s \in Active : \E i \in 1..n : order[i] = s
          /\ stdout' = stdout \o [i \in 1..n |-> Frame("DONE", req[order[i]])]
    BY DEF Interrupt
  <1>2. PICK order \in [1..n -> Active] :
          /\ \A i, j \in 1..n : i < j => order[i] < order[j]
          /\ \A s \in Active : \E i \in 1..n : order[i] = s
          /\ stdout' = stdout \o [i \in 1..n |-> Frame("DONE", req[order[i]])]
    BY <1>1
  <1> DEFINE ext == [i \in 1..n |-> Frame("DONE", req[order[i]])]
  <1>4. stdout \in Seq(EngineFrames) /\ req \in [Slots -> Requests \cup {None}] /\ stdin \in Seq(Lines)
    BY <1>t DEF Typed
  <1>5. \A i \in 1..n : order[i] \in Slots /\ req[order[i]] \in Requests
    BY <1>4 DEF Active
  <1>6. /\ ext \in Seq(EngineFrames) /\ DOMAIN ext = 1..n
        /\ \A i \in 1..n : ext[i].kind = "DONE" /\ ext[i].id = req[order[i]]
    <2>1. \A i \in 1..n : Frame("DONE", req[order[i]]) \in EngineFrames
      BY <1>5, KindsAndTypes DEF EngineKinds, Endings
    <2>2. n \in Nat
      BY <1>t
    <2> QED BY <2>1, <2>2 DEF Frame
  <1> HIDE DEF ext
  <1>7. stdout' = stdout \o ext
    BY <1>2 DEF ext
  <1>8. stdout' \in Seq(EngineFrames)
    BY <1>4, <1>6, <1>7, ConcatAt
  <1>9. /\ req' \in [Slots -> Requests \cup {None}] /\ emitted' \in [Slots -> 0..MaxTokens]
        /\ \A s \in Slots : req'[s] = None
    BY <1>0, GatewayAssumption
  <1>10. Typed'
    BY <1>t, <1>0, <1>4, <1>8, <1>9, Kept
  <1>11. Engine'
    BY <1>t, <1>0, <1>9 DEF Engine, OutsideEngine, gateway
  <1>12. ASSUME NEW i \in 1..n, NEW j \in 1..n, i < j PROVE req[order[i]] # req[order[j]]
    <2>1. order[i] \in Slots /\ order[j] \in Slots /\ order[i] < order[j]
      BY <1>2, <1>5, <1>12
    <2>2. order[i] # order[j]
      BY <2>1, <1>t DEF Slots
    <2> QED BY <2>1, <2>2, <1>5, OneSlot DEF Engages
  <1>13. Answers(ext) /\ Outputs(ext)
    BY <1>5, <1>6, <1>12 DEF Answers, Outputs, Opening, InEngine
  <1>14. Occupies(ext)
    <2>1. \A o \in Requests, t \in Slots : Engages(o, t)' => Engages(o, t)
      BY <1>0, <1>t, <1>9 DEF Engages
    <2>2. \A o \in Requests : ~InEngine(o)'
      BY <1>0, <1>t, <1>9 DEF InEngine
    <2>3. ASSUME NEW o \in Requests, InSlot(o) PROVE \E i \in DOMAIN ext : ext[i].id = o /\ ext[i].kind \in Endings
      <3>1. PICK s \in Active : req[s] = o
        BY <2>3, <1>t DEF InSlot, Active
      <3>2. PICK i \in 1..n : order[i] = s
        BY <1>2
      <3> QED BY <3>1, <3>2, <1>6 DEF Endings
    <2> QED BY <2>1, <2>2, <2>3, <1>6 DEF Occupies, Frame
  <1> QED BY <1>0, <1>6, <1>7, <1>10, <1>11, <1>13, <1>14, StepOfEngine

LEMMA SpecEmitStep ==
    ASSUME Inv, NEW s \in Slots, SpecEmit(s)
    PROVE  Inv'
  <1> DEFINE r == req[s]
             ext == Frames(<<"DATA">>, r)
  <1>t. Typed /\ Engine /\ None \notin Requests
    BY GatewayAssumption DEF Inv
  <1>0. /\ epc = "spec" /\ r # None /\ emitted[s] < MaxTokens /\ OutsideEngine /\ epc' = "ctl"
        /\ UNCHANGED <<stdin, req, rows, job, flag>> /\ emitted' = [emitted EXCEPT ![s] = @ + 1]
    BY DEF SpecEmit, Active
  <1>4. stdout \in Seq(EngineFrames) /\ req \in [Slots -> Requests \cup {None}] /\ emitted \in [Slots -> 0..MaxTokens]
        /\ stdin \in Seq(Lines)
    BY <1>t DEF Typed
  <1>1. r \in Requests /\ InEngine(r)
    BY <1>0, <1>4 DEF InEngine
  <1>2. ext \in Seq(EngineFrames) /\ DOMAIN ext = {1} /\ ext[1].kind = "DATA" /\ ext[1].id = r
    BY <1>1, OneFrame DEF EngineKinds
  <1>3. stdout' = stdout \o ext
    BY DEF SpecEmit, Say, Frames
  <1> HIDE DEF ext
  <1>5. stdout' \in Seq(EngineFrames)
    BY <1>4, <1>2, <1>3, ConcatAt
  <1>6. emitted' \in [Slots -> 0..MaxTokens]
    BY <1>0, <1>4, GatewayAssumption
  <1>7. Typed'
    BY <1>t, <1>0, <1>4, <1>5, <1>6, Kept
  <1>8. Engine'
    BY <1>t, <1>0 DEF Engine, OutsideEngine, gateway
  <1>9. Answers(ext) /\ Outputs(ext)
    BY <1>1, <1>2 DEF Answers, Outputs, Opening
  <1>10. Occupies(ext)
    <2>1. \A o \in Requests, t \in Slots : Engages(o, t)' => Engages(o, t)
      BY <1>0 DEF Engages
    <2>2. \A o \in Requests : InEngine(o)' => InEngine(o)
      BY <1>0 DEF InEngine
    <2>3. \A o \in Requests : InSlot(o) \/ o = r => InSlot(o)'
      BY <1>0 DEF InSlot
    <2> QED BY <2>1, <2>2, <2>3, <1>2 DEF Occupies, Frame
  <1> QED BY <1>0, <1>2, <1>3, <1>7, <1>8, <1>9, <1>10, StepOfEngine

LEMMA SpecEndStep ==
    ASSUME Inv, NEW s \in Slots, SpecEnd(s)
    PROVE  Inv'
  <1> DEFINE r == req[s]
             k == IF flag = "CANCEL" THEN "CANCELLED" ELSE "DONE"
             ext == Frames(<<k>>, r)
  <1>t. Typed /\ Engine /\ None \notin Requests
    BY GatewayAssumption DEF Inv
  <1>0. /\ epc = "spec" /\ r # None /\ OutsideEngine /\ epc' = "poll" /\ Free(s)
        /\ UNCHANGED <<stdin, rows, job, flag>>
    BY DEF SpecEnd, Active
  <1>4. stdout \in Seq(EngineFrames) /\ req \in [Slots -> Requests \cup {None}] /\ emitted \in [Slots -> 0..MaxTokens]
        /\ stdin \in Seq(Lines)
    BY <1>t DEF Typed
  <1>1. r \in Requests /\ InEngine(r) /\ Engages(r, s)
    BY <1>0, <1>4 DEF InEngine, Engages
  <1>2. ext \in Seq(EngineFrames) /\ DOMAIN ext = {1} /\ ext[1].kind = k /\ ext[1].id = r
        /\ k \in {"DONE", "CANCELLED"}
    BY <1>1, OneFrame DEF EngineKinds, Endings
  <1>3. stdout' = stdout \o ext
    BY DEF SpecEnd, Say, Frames
  <1> HIDE DEF ext, k
  <1>5. stdout' \in Seq(EngineFrames)
    BY <1>4, <1>2, <1>3, ConcatAt
  <1>6. /\ req' \in [Slots -> Requests \cup {None}] /\ emitted' \in [Slots -> 0..MaxTokens]
        /\ \A t \in Slots : req'[t] = IF t = s THEN None ELSE req[t]
    BY <1>0, <1>4, GatewayAssumption DEF Free
  <1>7. Typed'
    BY <1>t, <1>0, <1>4, <1>5, <1>6, Kept
  <1>8. Engine'
    BY <1>t, <1>0, <1>6 DEF Engine, OutsideEngine, gateway
  <1>9. Answers(ext) /\ Outputs(ext)
    BY <1>1, <1>2 DEF Answers, Outputs, Opening
  <1>10. Occupies(ext)
    <2>1. \A o \in Requests, t \in Slots : Engages(o, t)' => Engages(o, t)
      BY <1>0, <1>t, <1>6 DEF Engages
    <2>2. \A t \in Slots : req[t] = r => t = s
      BY <1>1, OneSlot DEF Engages
    <2>3. \A o \in Requests : InEngine(o)' => InEngine(o) /\ o # r
      BY <1>0, <1>t, <1>6, <2>2 DEF InEngine
    <2>4. \A o \in Requests : InSlot(o) => InSlot(o)' \/ o = r
      BY <1>6 DEF InSlot
    <2> QED BY <2>1, <2>3, <2>4, <1>2 DEF Occupies, Frame, Endings
  <1> QED BY <1>0, <1>2, <1>3, <1>7, <1>8, <1>9, <1>10, StepOfEngine

LEMMA CtlReadStep ==
    ASSUME Inv, CtlRead
    PROVE  Inv'
  <1> DEFINE line == Head(stdin)
             r == Head(stdin).id
  <1>t. Typed /\ Engine /\ None \notin Requests
    BY GatewayAssumption DEF Inv
  <1>0. /\ Reads({"STOP", "CANCEL", "SUBMIT"}, "ctl") /\ epc = "ctl" /\ OutsideEngine
        /\ UNCHANGED <<epc, req, emitted, rows, job>>
    BY DEF CtlRead, Reads
  <1>1. /\ Reading /\ r \in Requests /\ line.kind \in {"STOP", "CANCEL", "SUBMIT"} /\ stdin' \in Seq(Lines)
        /\ \A i \in DOMAIN stdin' : \E j \in DOMAIN stdin : stdin'[i] = stdin[j]
    BY <1>t, <1>0, ReadsLine
  <1>2. stdin' = stdin \/ Reading
    BY <1>1
  <1>4. stdout \in Seq(EngineFrames) /\ req \in [Slots -> Requests \cup {None}] /\ emitted \in [Slots -> 0..MaxTokens]
    BY <1>t DEF Typed
  <1>5. Engine'
    BY <1>t, <1>0 DEF Engine, OutsideEngine, gateway
  <1>6. /\ \A o \in Requests, t \in Slots : Engages(o, t)' => Engages(o, t)
        /\ \A o \in Requests : InEngine(o)' => InSlot(o) /\ InEngine(o)
        /\ \A o \in Requests : InSlot(o) => InSlot(o)'
    BY <1>0, <1>1 DEF Engages, InEngine, InSlot
  <1>a. ASSUME NEW k \in {"SLOT_BUSY", "NOT_FOUND"}, Say(<<k>>, r), ~InSlot(r),
               k = "SLOT_BUSY" <=> line.kind = "SUBMIT"
        PROVE  Inv'
    <2> DEFINE ext == Frames(<<k>>, r)
    <2>1. ext \in Seq(EngineFrames) /\ DOMAIN ext = {1} /\ ext[1].kind = k /\ ext[1].id = r
      BY <1>1, OneFrame DEF EngineKinds, Endings
    <2>2. stdout' = stdout \o ext
      BY <1>a DEF Say, Frames
    <2> HIDE DEF ext
    <2>3. stdout' \in Seq(EngineFrames)
      BY <1>4, <2>1, <2>2, ConcatAt
    <2>4. Typed'
      BY <1>t, <1>0, <1>1, <1>4, <2>3, Kept
    <2>5. Answers(ext) /\ Outputs(ext)
      BY <1>1, <1>a, <2>1 DEF Answers, Outputs, Opening
    <2>6. Occupies(ext)
      BY <1>6, <1>a, <2>1 DEF Occupies, Frame
    <2> QED BY <1>0, <1>2, <1>5, <2>1, <2>2, <2>4, <2>5, <2>6, StepOfEngine
  <1>b. CASE line.kind = "SUBMIT"
    <2>1. ~InEngine(r)
      BY <1>1, <1>b, NoEarlierFrame DEF Reading
    <2>2. ~InSlot(r)
      BY <2>1 DEF InEngine, InSlot
    <2> QED BY <1>a, <1>b, <2>2 DEF CtlRead
  <1>c. CASE line.kind # "SUBMIT" /\ ~InSlot(r)
    <2>1. r \notin {req[s] : s \in Slots}
      BY <1>c DEF InSlot
    <2> QED BY <1>a, <1>c, <2>1 DEF CtlRead
  <1>d. CASE line.kind # "SUBMIT" /\ InSlot(r)
    <2>1. r \in {req[s] : s \in Slots}
      BY <1>d DEF InSlot
    <2>2. UNCHANGED stdout
      BY <1>d, <2>1 DEF CtlRead
    <2>3. <<>> \in Seq(EngineFrames) /\ stdout' = stdout \o <<>> /\ Answers(<<>>) /\ Outputs(<<>>)
      BY <1>t, <2>2, NoFrame
    <2>4. Typed'
      BY <1>t, <1>0, <1>1, <1>4, <2>2, Kept
    <2>5. Occupies(<<>>)
      BY <1>6 DEF Occupies
    <2> QED BY <1>0, <1>2, <1>5, <2>3, <2>4, <2>5, StepOfEngine
  <1> QED BY <1>b, <1>c, <1>d

----------------------------------------------------------------------------
(* The end of the engine, of the dispatcher and of the server.             *)

LEMMA EngineGoneStep ==
    ASSUME Inv, EngineGone, UNCHANGED <<hpc, slot, pending, events, accepted, asked, dispatcher>>,
           closing' = closing \/ (closing = "failed" /\ closing' = "terminated")
    PROVE  Inv'
  <1>1. /\ Typed /\ Engine /\ Fresh /\ Unread /\ Working /\ Begun /\ Told /\ InOrder /\ Placed
        /\ HeadersAreWritten => Exclusive
        /\ None \notin Requests
    BY GatewayAssumption DEF Inv
  <1>2. /\ alive' = FALSE /\ stdin' = <<>> /\ epc' = "poll" /\ rows' = {} /\ stdout' = stdout /\ spec' = spec
        /\ req' \in [Slots -> Requests \cup {None}] /\ emitted' \in [Slots -> 0..MaxTokens]
        /\ \A s \in Slots : req'[s] = None
        /\ stdin' \in Seq(Lines) /\ DOMAIN stdin' = {}
    BY GatewayAssumption, KindsAndTypes DEF EngineGone
  <1>3. \A r, K : (Said(r, K)' <=> Said(r, K)) /\ (Heard(r, K)' <=> Heard(r, K)) /\ ~Sent(r, K)'
    BY <1>2 DEF Said, Heard, Sent
  <1>4. (\A r \in Requests : ~InEngine(r)') /\ (\A r \in Requests, s \in Slots : ~Engages(r, s)')
    BY <1>1, <1>2 DEF InEngine, Engages
  <1>5. Typed'
    BY <1>1, <1>2 DEF Typed
  <1>6. Engine'
    BY <1>1, <1>2 DEF Engine
  <1>7. Fresh'
    BY <1>1, <1>3, <1>4 DEF Fresh
  <1>8. Unread'
    BY <1>2 DEF Unread
  <1>9. Working' /\ Begun'
    BY <1>2, <1>4 DEF Working, Begun
  <1>10. Told'
    BY <1>1, <1>2, <1>3 DEF Told
  <1>11. InOrder'
    BY <1>1, <1>2 DEF InOrder, Unheard
  <1>12. HeadersAreWritten => Exclusive'
    <2> SUFFICES ASSUME HeadersAreWritten PROVE Exclusive'
      OBVIOUS
    <2> QED BY <1>1, <1>4 DEF Exclusive
  <1>13. Placed'
    BY <1>1, <1>4 DEF Placed
  <1> QED BY <1>5, <1>6, <1>7, <1>8, <1>9, <1>10, <1>11, <1>12, <1>13 DEF Inv

\* A step that changes nothing but dispatcher and closing.
LEMMA MarkStep ==
    ASSUME Inv, UNCHANGED <<hpc, slot, pending, events, accepted, asked, stdin, stdout, alive, engine, spec>>,
           dispatcher' \in {"running", "error_set", "stopped"}, closing' \in {"no", "closed", "failed", "terminated"},
           dispatcher' = "running" => dispatcher = "running", dispatcher' # "running" => ~alive,
           closing' = "no" => closing = "no"
    PROVE  Inv'
  <1>1. /\ Typed /\ Engine /\ Fresh /\ Unread /\ Working /\ Begun /\ Told /\ InOrder /\ Placed
        /\ HeadersAreWritten => Exclusive
    BY DEF Inv
  <1>2. UNCHANGED <<epc, req, emitted, rows, job, flag>>
    BY DEF engine
  <1>5. Typed' /\ Engine'
    BY <1>1, <1>2 DEF Typed, Engine
  <1>7. Fresh'
    BY <1>1, <1>2 DEF Fresh, Said, Sent, Heard, InEngine
  <1>8. Unread' /\ Working' /\ Begun'
    BY <1>1, <1>2 DEF Unread, Working, Begun, Said, Sent, Heard, InEngine
  <1>10. Told'
    BY <1>1 DEF Told, Heard
  <1>11. InOrder'
    BY <1>1 DEF InOrder, Unheard
  <1>12. HeadersAreWritten => Exclusive'
    <2> SUFFICES ASSUME HeadersAreWritten PROVE Exclusive'
      OBVIOUS
    <2> QED BY <1>1, <1>2 DEF Exclusive, Engages
  <1>13. Placed'
    BY <1>1, <1>2 DEF Placed, Engages
  <1> QED BY <1>5, <1>7, <1>8, <1>10, <1>11, <1>12, <1>13 DEF Inv

LEMMA FailPendingStep ==
    ASSUME Inv, FailPending,
           \/ dispatcher = "error_set" /\ dispatcher' = "stopped" /\ closing' = closing
           \/ closing = "closed" /\ closing' = "failed" /\ dispatcher' = dispatcher
    PROVE  Inv'
  <1>1. /\ Typed /\ Engine /\ Fresh /\ Unread /\ Working /\ Begun /\ Told /\ InOrder /\ Placed
        /\ HeadersAreWritten => Exclusive
        /\ None \notin Requests
    BY GatewayAssumption DEF Inv
  <1>2. /\ UNCHANGED <<hpc, slot, accepted, asked, stdin, stdout, alive, spec>> /\ pending' = {}
        /\ UNCHANGED <<epc, req, emitted, rows, job, flag>>
        /\ events' = [r \in Requests |-> IF r \in pending THEN Append(events[r], Frame("FAILED", r))
                                                          ELSE events[r]]
    BY DEF FailPending, OutsideGateway, engine
  <1>3. \A r, K : (Said(r, K)' <=> Said(r, K)) /\ (Sent(r, K)' <=> Sent(r, K))
    BY <1>2 DEF Said, Sent
  <1>4. /\ \A r \in Requests : InEngine(r)' <=> InEngine(r)
        /\ \A r \in Requests, s \in Slots : Engages(r, s)' <=> Engages(r, s)
    BY <1>2 DEF InEngine, Engages
  <1>5. \A r \in Requests :
          /\ events[r] \in Seq(Events) /\ DOMAIN events[r] = 1..Len(events[r]) /\ Len(events[r]) \in Nat
          /\ Frame("FAILED", r) \in Events /\ Frame("FAILED", r).kind = "FAILED" /\ Frame("FAILED", r).id = r
    BY <1>1, TypedAt DEF Frame, Events
  <1>6. \A r \in Requests : r \in pending =>
          /\ events'[r] = Append(events[r], Frame("FAILED", r)) /\ events'[r] \in Seq(Events)
          /\ DOMAIN events'[r] = 1..(Len(events[r]) + 1) /\ Len(events'[r]) = Len(events[r]) + 1
          /\ \A i \in DOMAIN events[r] : i \in DOMAIN events'[r] /\ events'[r][i] = events[r][i]
          /\ events'[r][Len(events[r]) + 1] = Frame("FAILED", r)
          /\ Len(events[r]) + 1 \in DOMAIN events'[r]
          /\ \A i \in DOMAIN events'[r] : (i \in DOMAIN events[r] /\ events'[r][i] = events[r][i])
                                          \/ events'[r][i] = Frame("FAILED", r)
    <2> SUFFICES ASSUME NEW r \in Requests, r \in pending
                 PROVE  /\ events'[r] = Append(events[r], Frame("FAILED", r)) /\ events'[r] \in Seq(Events)
                        /\ DOMAIN events'[r] = 1..(Len(events[r]) + 1) /\ Len(events'[r]) = Len(events[r]) + 1
                        /\ \A i \in DOMAIN events[r] : i \in DOMAIN events'[r] /\ events'[r][i] = events[r][i]
                        /\ events'[r][Len(events[r]) + 1] = Frame("FAILED", r)
                        /\ Len(events[r]) + 1 \in DOMAIN events'[r]
                        /\ \A i \in DOMAIN events'[r] : (i \in DOMAIN events[r] /\ events'[r][i] = events[r][i])
                                                        \/ events'[r][i] = Frame("FAILED", r)
      OBVIOUS
    <2> DEFINE q == Append(events[r], Frame("FAILED", r))
    <2>1. events'[r] = q
      BY <1>2
    <2>2. /\ q \in Seq(Events) /\ Len(q) = Len(events[r]) + 1 /\ DOMAIN q = 1..(Len(events[r]) + 1)
          /\ \A i \in DOMAIN events[r] : q[i] = events[r][i]
          /\ q[Len(events[r]) + 1] = Frame("FAILED", r)
      BY <1>5, AppendAt
    <2> HIDE DEF q
    <2>3. DOMAIN events[r] = 1..Len(events[r]) /\ Len(events[r]) \in Nat
      BY <1>5
    <2>4. \A i \in 1..(Len(events[r]) + 1) : i \in 1..Len(events[r]) \/ i = Len(events[r]) + 1
      BY <2>3
    <2>5. events'[r] = Append(events[r], Frame("FAILED", r))
      BY <2>1 DEF q
    <2> QED BY <2>1, <2>2, <2>3, <2>4, <2>5
  <1>7. \A r \in Requests : r \notin pending => events'[r] = events[r]
    BY <1>2
  <1>8. \A r \in Requests : \A K : Heard(r, K) => Heard(r, K)'
    BY <1>6, <1>7 DEF Heard
  <1>9. \A r \in Requests : \A K : Heard(r, K)' => Heard(r, K) \/ (r \in pending /\ "FAILED" \in K)
    BY <1>5, <1>6, <1>7 DEF Heard
  <1>10. \A r \in Requests : r \in pending => Heard(r, {"FAILED"})' /\ Heard(r, Terminal)'
    BY <1>5, <1>6 DEF Heard, Terminal
  <1>a. Typed'
    <2>1. \A r \in Requests : events'[r] \in Seq(Events)
      BY <1>5, <1>6, <1>7
    <2>2. \A r \in Requests : \A i \in DOMAIN events'[r] : events'[r][i].id = r
      <3> SUFFICES ASSUME NEW r \in Requests, NEW i \in DOMAIN events'[r] PROVE events'[r][i].id = r
        OBVIOUS
      <3>1. \A j \in DOMAIN events[r] : events[r][j].id = r
        BY <1>1, TypedAt
      <3>2. CASE r \in pending
        BY <3>1, <3>2, <1>5, <1>6
      <3>3. CASE r \notin pending
        BY <3>1, <3>3, <1>7
      <3> QED BY <3>2, <3>3
    <2>3. events' \in [Requests -> Seq(Events)]
      BY <1>2, <2>1
    <2> QED BY <1>1, <1>2, <2>2, <2>3 DEF Typed
  <1>b. Engine'
    BY <1>1, <1>2 DEF Engine
  <1>c. Fresh'
    <2> SUFFICES ASSUME NEW r \in Requests, hpc[r] \in Early
                 PROVE  /\ ~InEngine(r)' /\ ~Sent(r, {"SUBMIT", "STOP", "CANCEL"})' /\ ~Said(r, EngineKinds)'
                        /\ ~accepted[r] /\ ~Heard(r, EngineKinds)'
                        /\ hpc[r] # "registered" => events'[r] = <<>>
                        /\ Len(events'[r]) <= 1
                        /\ hpc[r] = "registered" => closing' # "no" \/ dispatcher' # "running"
      BY <1>2 DEF Fresh
    <2>1. "FAILED" \notin EngineKinds
      BY DEF EngineKinds, Endings
    <2>2. ~Heard(r, EngineKinds) /\ (r \in pending => ~Heard(r, Terminal))
      BY <1>1 DEF Fresh, Told
    <2>3. r \in pending => Len(events[r]) = 0
      <3>1. \A i \in DOMAIN events[r] : events[r][i].kind \in EngineKinds \cup {"FAILED"}
        BY <1>1, TypedAt
      <3>2. r \in pending => \A i \in DOMAIN events[r] : FALSE
        BY <2>2, <3>1 DEF Heard, Terminal
      <3>3. DOMAIN events[r] = 1..Len(events[r]) /\ Len(events[r]) \in Nat
        BY <1>5
      <3>4. Len(events[r]) # 0 => 1 \in DOMAIN events[r]
        BY <3>3
      <3> QED BY <3>2, <3>4
    <2>4. ~InEngine(r)' /\ ~Sent(r, {"SUBMIT", "STOP", "CANCEL"})' /\ ~Said(r, EngineKinds)' /\ ~accepted[r]
      BY <1>1, <1>3, <1>4 DEF Fresh
    <2>5. ~Heard(r, EngineKinds)'
      BY <2>1, <2>2, <1>9
    <2>6. CASE r \in pending
      <3>1. hpc[r] = "registered"
        BY <2>6, <1>1 DEF Fresh, Early
      <3>2. Len(events'[r]) <= 1
        BY <2>6, <2>3, <1>6
      <3> QED BY <3>1, <3>2, <2>4, <2>5
    <2>7. CASE r \notin pending
      BY <2>4, <2>5, <2>7, <1>1, <1>7 DEF Fresh
    <2> QED BY <2>6, <2>7
  <1>d. Unread'
    <2>1. "FAILED" \notin EngineKinds
      BY DEF EngineKinds, Endings
    <2>2. \A i \in DOMAIN stdin : stdin[i].id \in Requests
      BY <1>1, TypedAt
    <2> QED BY <1>1, <1>2, <1>3, <1>4, <1>9, <2>1, <2>2 DEF Unread
  <1>e. Working' /\ Begun'
    BY <1>1, <1>2, <1>3, <1>4 DEF Working, Begun
  <1>f. Told'
    BY <1>1, <1>2, <1>8, <1>9, <1>10 DEF Told, Terminal
  <1>g. InOrder'
    <2> SUFFICES ASSUME NEW r \in Requests, hpc[r] = "waiting"
                 PROVE  Ordered(r, Unheard(r)', accepted[r])
      BY <1>2 DEF InOrder
    <2>0. /\ Ordered(r, Unheard(r), accepted[r]) /\ accepted[r] \in BOOLEAN
          /\ events[r] \in Seq(Events) /\ stdout \in Seq(Events)
      BY <1>1, SeqMonotonic, KindsAndTypes DEF InOrder, Typed
    <2>1. CASE r \notin pending
      BY <2>0, <2>1, <1>2, <1>7 DEF Unheard
    <2>2. CASE r \in pending
      <3>1. Ordered(r, events[r] \o stdout, accepted[r])
        BY <2>0, <2>2 DEF Unheard
      <3>2. Ordered(r, events[r], accepted[r])
        BY <2>0, <3>1, PrefixOrdered
      <3>3. \A i \in DOMAIN events[r] : events[r][i].kind \notin Terminal
        BY <2>2, <1>1 DEF Told, Heard
      <3>4. Ordered(r, Append(events[r], Frame("FAILED", r)), accepted[r])
        BY <2>0, <3>2, <3>3, <1>5, FailedOrdered
      <3>5. Unheard(r)' = events'[r]
        BY <1>2, <1>6, <2>2, ConcatEmptySeq DEF Unheard
      <3> QED BY <3>4, <3>5, <1>6, <2>2
    <2> QED BY <2>1, <2>2
  <1>h. HeadersAreWritten => Exclusive'
    <2> SUFFICES ASSUME HeadersAreWritten PROVE Exclusive'
      OBVIOUS
    <2>1. closing' = "no" => dispatcher # "running"
      OBVIOUS
    <2>2. closing' = "no" => \A r \in Requests, s \in Slots : ~Engages(r, s)
      BY <2>1, <1>1 DEF Engine, Engages
    <2>3. closing' = "no" => closing = "no"
      OBVIOUS
    <2> QED BY <1>1, <1>2, <1>4, <2>2 DEF Exclusive
  <1>p. Placed'
    BY <1>1, <1>2, <1>4 DEF Placed
  <1> QED BY <1>a, <1>b, <1>c, <1>d, <1>e, <1>f, <1>g, <1>h, <1>p DEF Inv

----------------------------------------------------------------------------
(* The handlers' actions.                                                  *)

LEMMA OutsideIsTheSame ==
    ASSUME OutsideGateway
    PROVE  /\ UNCHANGED <<stdout, alive, spec, epc, req, emitted, rows, job, flag>>
           /\ \A r, K : Said(r, K)' <=> Said(r, K)
           /\ \A r : InEngine(r)' <=> InEngine(r)
           /\ Engine /\ stdin' = stdin /\ dispatcher' = dispatcher => Engine'
           /\ stdin' = stdin => \A r, s : Engages(r, s)' <=> Engages(r, s)
  BY DEF OutsideGateway, engine, Said, InEngine, Engine, Engages

LEMMA AdmitStep ==
    ASSUME Inv, NEW r \in Requests, NEW s \in Slots, Admit(r, s)
    PROVE  Inv'
  <1>1. /\ Typed /\ Engine /\ Fresh /\ Unread /\ Working /\ Begun /\ Told /\ InOrder /\ Placed
        /\ HeadersAreWritten => Exclusive
        /\ None \notin Requests /\ None \notin Slots
    BY GatewayAssumption DEF Inv, Slots
  <1>2. /\ hpc[r] = "idle" /\ hpc' = [hpc EXCEPT ![r] = "admitted"] /\ slot' = [slot EXCEPT ![r] = s]
        /\ \A o \in Requests : slot[o] # s
        /\ UNCHANGED <<pending, events, accepted, asked, dispatcher, closing, stdin>> /\ OutsideGateway
    BY DEF Admit, Step
  <1>3. \A o \in Requests : /\ hpc'[o] = IF o = r THEN "admitted" ELSE hpc[o]
                            /\ slot'[o] = IF o = r THEN s ELSE slot[o]
    BY <1>1, <1>2 DEF Typed
  <1>4. /\ \A o, K : (Said(o, K)' <=> Said(o, K)) /\ (Heard(o, K)' <=> Heard(o, K)) /\ (Sent(o, K)' <=> Sent(o, K))
        /\ \A o : InEngine(o)' <=> InEngine(o)
        /\ \A o, t : Engages(o, t)' <=> Engages(o, t)
        /\ alive' = alive /\ stdout' = stdout /\ req' = req
    BY <1>2, OutsideIsTheSame DEF Heard, Sent
  <1>a. Typed' /\ Engine'
    <2>1. Engine'
      BY <1>1, <1>2, OutsideIsTheSame
    <2>2. hpc' \in [Requests -> Phases] /\ slot' \in [Requests -> Slots \cup {None}]
      BY <1>1, <1>2 DEF Typed, Phases
    <2>3. Typed'
      BY <1>1, <1>2, <2>2, OutsideIsTheSame DEF Typed
    <2> QED BY <2>1, <2>3
  <1>b. Fresh'
    BY <1>1, <1>2, <1>3, <1>4 DEF Fresh, Early
  <1>c. Unread'
    BY <1>1, <1>2, <1>4 DEF Unread
  <1>d. Working'
    <2>1. \A o \in Requests : hpc'[o] = "waiting" <=> hpc[o] = "waiting"
      BY <1>2, <1>3
    <2> QED BY <2>1, <1>1, <1>2, <1>4 DEF Working
  <1>h. Begun'
    BY <1>1, <1>2, <1>4 DEF Begun
  <1>e. Told'
    BY <1>1, <1>2, <1>3, <1>4 DEF Told
  <1>f. InOrder'
    BY <1>1, <1>2, <1>3, <1>4 DEF InOrder, Unheard
  <1>g. HeadersAreWritten => Exclusive'
    <2> SUFFICES ASSUME HeadersAreWritten PROVE Exclusive'
      OBVIOUS
    <2>1. \A o, p \in Requests : slot'[o] = slot'[p] /\ slot'[o] # None => o = p
      BY <1>1, <1>2, <1>3 DEF Exclusive
    <2>3. \A t \in Slots : ~Engages(r, t)
      BY <1>1, <1>2 DEF Fresh, Early, Engages, InEngine, Sent
    <2> QED BY <1>1, <1>2, <1>3, <1>4, <2>1, <2>3 DEF Exclusive
  <1>p. Placed'
    BY <1>1, <1>2, <1>3, <1>4 DEF Placed
  <1> QED BY <1>a, <1>b, <1>c, <1>d, <1>e, <1>f, <1>g, <1>h, <1>p DEF Inv

LEMMA RegisterStep ==
    ASSUME Inv, NEW r \in Requests, Register(r)
    PROVE  Inv'
  <1> DEFINE to == IF Usable THEN "registered" ELSE "leaving"
  <1>1. /\ Typed /\ Engine /\ Fresh /\ Unread /\ Working /\ Begun /\ Told /\ InOrder /\ Placed
        /\ HeadersAreWritten => Exclusive
        /\ None \notin Requests
    BY GatewayAssumption DEF Inv
  <1>2. /\ hpc[r] = "admitted" /\ hpc' = [hpc EXCEPT ![r] = to]
        /\ pending' = IF Usable THEN pending \cup {r} ELSE pending
        /\ UNCHANGED <<slot, events, accepted, asked, dispatcher, closing, stdin>> /\ OutsideGateway
    BY DEF Register, Step
  <1>3. /\ \A o \in Requests : hpc'[o] = IF o = r THEN to ELSE hpc[o]
        /\ \A o \in Requests : o \in pending' <=> o \in pending \/ (o = r /\ Usable)
        /\ to = "registered" <=> Usable
        /\ to \in {"registered", "leaving"}
    BY <1>1, <1>2 DEF Typed
  <1> HIDE DEF to
  <1>4. /\ \A o, K : (Said(o, K)' <=> Said(o, K)) /\ (Heard(o, K)' <=> Heard(o, K)) /\ (Sent(o, K)' <=> Sent(o, K))
        /\ \A o : InEngine(o)' <=> InEngine(o)
        /\ \A o, t : Engages(o, t)' <=> Engages(o, t)
        /\ alive' = alive /\ stdout' = stdout /\ req' = req
    BY <1>2, OutsideIsTheSame DEF Heard, Sent
  <1>5. /\ ~InEngine(r) /\ ~Sent(r, {"SUBMIT", "STOP", "CANCEL"}) /\ ~Said(r, EngineKinds)
        /\ ~accepted[r] /\ ~Heard(r, EngineKinds) /\ r \notin pending /\ events[r] = <<>>
    BY <1>1, <1>2 DEF Fresh, Early
  <1>6. \A K : ~Heard(r, K)
    BY <1>5 DEF Heard
  <1>a. Typed' /\ Engine'
    <2>1. Engine'
      BY <1>1, <1>2, OutsideIsTheSame
    <2>2. hpc' \in [Requests -> Phases] /\ pending' \subseteq Requests
      BY <1>1, <1>2, <1>3 DEF Typed, Phases
    <2>3. Typed'
      BY <1>1, <1>2, <2>2, OutsideIsTheSame DEF Typed
    <2> QED BY <2>1, <2>3
  <1>b. Fresh'
    <2>1. Len(events[r]) <= 1
      BY <1>1, <1>2 DEF Fresh, Early
    <2> QED BY <1>1, <1>2, <1>3, <1>4, <1>5, <2>1 DEF Fresh, Early
  <1>c. Unread'
    BY <1>1, <1>2, <1>4 DEF Unread
  <1>d. Working'
    BY <1>1, <1>2, <1>3, <1>4, <1>5 DEF Working
  <1>e. Begun'
    <2>1. ~Sent(r, {"STOP", "CANCEL"}) /\ ~Said(r, {"DATA"})
      BY <1>5 DEF Sent, Said, EngineKinds
    <2> QED BY <1>1, <1>3, <1>4, <1>6, <2>1 DEF Begun
  <1>f. Told'
    <2>1. \A j \in DOMAIN stdout : ~(stdout[j].id = r /\ stdout[j].kind = "NOT_FOUND")
      BY <1>5 DEF Said, EngineKinds
    <2> QED BY <1>1, <1>3, <1>4, <1>6, <2>1 DEF Told
  <1>g. InOrder'
    BY <1>1, <1>2, <1>3, <1>4 DEF InOrder, Unheard
  <1>h. HeadersAreWritten => Exclusive'
    <2> SUFFICES ASSUME HeadersAreWritten PROVE Exclusive'
      OBVIOUS
    <2>1. \A t \in Slots : ~Engages(r, t)
      BY <1>5 DEF Engages, InEngine, Sent
    <2>3. ASSUME NEW o \in Requests, NEW t \in Slots, Engages(o, t), hpc'[r] = "registered", slot[r] = t
          PROVE  r = o
      <3>1. closing = "no"
        BY <2>3, <1>3 DEF Usable
      <3>2. slot[o] = t /\ t # None
        BY <2>3, <3>1, <1>1, GatewayAssumption DEF Exclusive, Slots
      <3> QED BY <2>3, <3>2, <1>1 DEF Exclusive
    <2>4. ASSUME NEW o \in Requests, NEW t \in Slots, Engages(o, t)
          PROVE  /\ \A p \in Requests : Engages(p, t) => p = o
                 /\ \A p \in Requests : hpc'[p] \in {"registered", "waiting"} /\ slot[p] = t => p = o
                 /\ closing = "no" => hpc'[o] = "waiting" /\ slot[o] = t /\ o \in pending'
      <3>1. o # r
        BY <2>1, <2>4
      <3>2. \A p \in Requests : hpc'[p] \in {"registered", "waiting"} /\ slot[p] = t => p = o
        BY <2>3, <2>4, <1>1, <1>3 DEF Exclusive
      <3> QED BY <2>4, <3>1, <3>2, <1>1, <1>3 DEF Exclusive
    <2> QED BY <1>1, <1>2, <1>4, <2>4 DEF Exclusive
  <1>p. Placed'
    BY <1>1, <1>2, <1>3, <1>4 DEF Placed
  <1> QED BY <1>a, <1>b, <1>c, <1>d, <1>e, <1>f, <1>g, <1>h, <1>p DEF Inv

LEMMA WriteSubmitStep ==
    ASSUME Inv, NEW r \in Requests, WriteSubmit(r)
    PROVE  Inv'
  <1>1. /\ Typed /\ Engine /\ Fresh /\ Unread /\ Working /\ Begun /\ Told /\ InOrder /\ Placed
        /\ HeadersAreWritten => Exclusive
        /\ None \notin Requests
    BY GatewayAssumption DEF Inv
  <1>2. /\ hpc[r] = "registered" /\ hpc' = [hpc EXCEPT ![r] = IF alive THEN "waiting" ELSE "leaving"]
        /\ stdin' = IF alive THEN Append(stdin, Line("SUBMIT", r)) ELSE stdin
        /\ pending' = IF alive THEN pending ELSE pending \ {r}
        /\ UNCHANGED <<slot, events, accepted, asked, dispatcher, closing>> /\ OutsideGateway
    BY DEF WriteSubmit, Step
  <1>3. \A o \in Requests : hpc'[o] = IF o = r THEN (IF alive THEN "waiting" ELSE "leaving") ELSE hpc[o]
    BY <1>1, <1>2 DEF Typed
  <1>4. /\ \A o, K : (Said(o, K)' <=> Said(o, K)) /\ (Heard(o, K)' <=> Heard(o, K))
        /\ \A o : InEngine(o)' <=> InEngine(o)
        /\ UNCHANGED <<stdout, alive, spec, epc, req, emitted, rows, job, flag>>
    BY <1>2, OutsideIsTheSame DEF Heard
  <1>5. /\ ~InEngine(r) /\ ~Sent(r, {"SUBMIT", "STOP", "CANCEL"}) /\ ~Said(r, EngineKinds)
        /\ ~accepted[r] /\ ~Heard(r, EngineKinds) /\ Len(events[r]) <= 1
        /\ r \notin pending => closing # "no" \/ dispatcher # "running"
    BY <1>1, <1>2 DEF Fresh, Early
  <1>6. /\ slot[r] \in Slots /\ slot[r] # None
    <2>1. slot[r] # None
      BY <1>1, <1>2 DEF Placed
    <2> QED BY <2>1, <1>1 DEF Typed
  <1> DEFINE line == [kind |-> "SUBMIT", id |-> r, slot |-> slot[r]]
  <1>7. line \in Lines /\ Line("SUBMIT", r) = line
    BY <1>6 DEF Lines, Line
  <1>8. /\ DOMAIN stdin = 1..Len(stdin) /\ Len(stdin) \in Nat /\ stdin \in Seq(Lines)
        /\ \A i \in DOMAIN stdin : stdin[i].id \in Requests /\ stdin[i].slot \in Slots
                                   /\ stdin[i].kind \in {"SUBMIT", "STOP", "CANCEL"}
    BY <1>1, TypedAt
  <1>9. \A i \in DOMAIN stdin : stdin[i].id # r
    BY <1>5, <1>8 DEF Sent
  <1>10. alive => /\ stdin' \in Seq(Lines) /\ DOMAIN stdin' = 1..(Len(stdin) + 1)
                  /\ \A i \in DOMAIN stdin : i \in DOMAIN stdin' /\ stdin'[i] = stdin[i]
                  /\ Len(stdin) + 1 \in DOMAIN stdin' /\ stdin'[Len(stdin) + 1] = line
                  /\ \A i \in DOMAIN stdin' : (i \in DOMAIN stdin /\ stdin'[i] = stdin[i])
                                              \/ (i = Len(stdin) + 1 /\ stdin'[i] = line)
    <2> SUFFICES ASSUME alive
                 PROVE  /\ stdin' \in Seq(Lines) /\ DOMAIN stdin' = 1..(Len(stdin) + 1)
                        /\ \A i \in DOMAIN stdin : i \in DOMAIN stdin' /\ stdin'[i] = stdin[i]
                        /\ Len(stdin) + 1 \in DOMAIN stdin' /\ stdin'[Len(stdin) + 1] = line
                        /\ \A i \in DOMAIN stdin' : (i \in DOMAIN stdin /\ stdin'[i] = stdin[i])
                                                    \/ (i = Len(stdin) + 1 /\ stdin'[i] = line)
      OBVIOUS
    <2> HIDE DEF line
    <2>1. /\ stdin' \in Seq(Lines) /\ DOMAIN stdin' = 1..(Len(stdin) + 1)
          /\ \A i \in DOMAIN stdin : stdin'[i] = stdin[i]
          /\ stdin'[Len(stdin) + 1] = line
      BY <1>2, <1>7, <1>8, AppendAt
    <2> QED BY <2>1, <1>8
  <1>11. line.kind = "SUBMIT" /\ line.id = r /\ line.slot = slot[r]
    OBVIOUS
  <1> HIDE DEF line
  <1>12. \A o, K : Sent(o, K)' => Sent(o, K) \/ (o = r /\ "SUBMIT" \in K)
    BY <1>2, <1>10, <1>11 DEF Sent
  <1>a. Typed' /\ Engine'
    <2>1. hpc' \in [Requests -> Phases] /\ pending' \subseteq Requests
      BY <1>1, <1>2 DEF Typed, Phases
    <2>2. stdin' \in Seq(Lines)
      BY <1>2, <1>8, <1>10
    <2>3. Typed'
      BY <1>1, <1>2, <1>4, <2>1, <2>2 DEF Typed
    <2>4. Engine'
      BY <1>1, <1>2, <1>4 DEF Engine
    <2> QED BY <2>3, <2>4
  <1>b. Fresh'
    <2> SUFFICES ASSUME NEW o \in Requests, hpc'[o] \in Early
                 PROVE  /\ ~InEngine(o)' /\ ~Sent(o, {"SUBMIT", "STOP", "CANCEL"})' /\ ~Said(o, EngineKinds)'
                        /\ ~accepted'[o] /\ ~Heard(o, EngineKinds)'
                        /\ hpc'[o] # "registered" => o \notin pending' /\ events'[o] = <<>>
                        /\ Len(events'[o]) <= 1
                        /\ hpc'[o] = "registered" /\ o \notin pending' => closing' # "no" \/ dispatcher' # "running"
      BY DEF Fresh
    <2>1. o # r /\ hpc'[o] = hpc[o] /\ (o \in pending' <=> o \in pending)
      BY <1>2, <1>3 DEF Early
    <2> QED BY <2>1, <1>1, <1>2, <1>4, <1>12 DEF Fresh
  <1>c. Unread'
    <2> SUFFICES ASSUME NEW i \in DOMAIN stdin', stdin'[i].kind = "SUBMIT", NEW o, o = stdin'[i].id
                 PROVE  /\ \A j \in DOMAIN stdin' : stdin'[j].id = o => i = j
                        /\ ~InEngine(o) /\ ~Said(o, EngineKinds) /\ ~Heard(o, EngineKinds) /\ ~accepted[o]
      BY <1>2, <1>4 DEF Unread
    <2>1. CASE i \in DOMAIN stdin /\ stdin'[i] = stdin[i]
      <3>1. o # r
        BY <2>1, <1>9
      <3>2. \A j \in DOMAIN stdin' : stdin'[j].id = o => j \in DOMAIN stdin /\ stdin'[j] = stdin[j]
        BY <3>1, <1>2, <1>10, <1>11
      <3> QED BY <2>1, <3>2, <1>1 DEF Unread
    <2>2. CASE ~(i \in DOMAIN stdin /\ stdin'[i] = stdin[i])
      <3>1. alive /\ i = Len(stdin) + 1 /\ stdin'[i] = line /\ o = r
        BY <2>2, <1>2, <1>10, <1>11
      <3>2. \A j \in DOMAIN stdin' : stdin'[j].id = o => i = j
        BY <3>1, <1>9, <1>10
      <3> QED BY <3>1, <3>2, <1>5
    <2> QED BY <2>1, <2>2
  <1>d. Working'
    BY <1>1, <1>2, <1>3, <1>4, <1>5 DEF Working
  <1>e. Begun'
    BY <1>1, <1>2, <1>4, <1>12 DEF Begun
  <1>f. Told'
    BY <1>1, <1>2, <1>3, <1>4 DEF Told
  <1>g. InOrder'
    <2> SUFFICES ASSUME NEW o \in Requests, hpc'[o] = "waiting"
                 PROVE  Ordered(o, Unheard(o)', accepted[o])
      BY <1>2 DEF InOrder
    <2>1. CASE o # r
      <3>1. hpc[o] = "waiting" /\ Unheard(o)' = Unheard(o)
        BY <2>1, <1>2, <1>3, <1>4 DEF Unheard
      <3> QED BY <3>1, <1>1 DEF InOrder
    <2>2. CASE o = r
      <3>1. alive /\ Unheard(o)' = Unheard(r)
        <4>1. alive
          BY <2>2, <1>3
        <4>2. pending' = pending /\ events' = events /\ stdout' = stdout
          BY <4>1, <1>2, <1>4
        <4> QED BY <2>2, <4>1, <4>2 DEF Unheard
      <3>2. /\ events[r] \in Seq(Events) /\ DOMAIN events[r] = 1..Len(events[r]) /\ Len(events[r]) \in Nat
            /\ \A i \in DOMAIN events[r] : events[r][i].kind \in EngineKinds \cup {"FAILED"}
            /\ \A i \in DOMAIN stdout : stdout[i].kind \in EngineKinds
            /\ stdout \in Seq(Events)
        BY <1>1, TypedAt
      <3>3. \A i \in DOMAIN events[r] : events[r][i].kind = "FAILED"
        BY <3>2, <1>5 DEF Heard
      <3>4. \A i \in DOMAIN stdout : stdout[i].id # r
        BY <3>2, <1>5 DEF Said
      <3>5. CASE r \in pending
        <4>1. Unheard(r) = events[r] \o stdout
          BY <3>5 DEF Unheard
        <4>2. \A i \in DOMAIN events[r] : FALSE
          BY <3>3, <3>5, <1>1 DEF Told, Heard, Terminal
        <4>3. \A i \in DOMAIN (events[r] \o stdout) : (events[r] \o stdout)[i].id # r
          BY <3>2, <3>4, <4>2, ConcatAt
        <4> QED BY <4>1, <4>3, <3>1, <2>2 DEF Ordered
      <3>6. CASE r \notin pending
        <4>1. Unheard(r) = events[r]
          BY <3>2, <3>6, ConcatEmptySeq DEF Unheard
        <4>2. \A i, j \in DOMAIN events[r] : i = j
          BY <3>2, <1>5
        <4>3. \A i, j \in DOMAIN events[r] : ~(i < j)
          BY <3>2, <4>2
        <4> QED BY <4>1, <4>3, <3>1, <3>3, <2>2, KindsAndTypes DEF Ordered
      <3> QED BY <3>5, <3>6
    <2> QED BY <2>1, <2>2
  <1>h. HeadersAreWritten => Exclusive'
    <2> SUFFICES ASSUME HeadersAreWritten PROVE Exclusive'
      OBVIOUS
    <2>1. \A o \in Requests, t \in Slots : Engages(o, t)' => Engages(o, t) \/ (alive /\ o = r /\ t = slot[r])
      BY <1>2, <1>4, <1>10, <1>11 DEF Engages
    <2>2. \A t \in Slots : ~Engages(r, t)
      BY <1>5 DEF Engages, InEngine, Sent
    <2>3. \A o \in Requests : ~Engages(o, slot[r])
      BY <2>2, <1>1, <1>2, <1>6 DEF Exclusive
    <2>5. alive /\ closing = "no" => r \in pending'
      BY <1>1, <1>2, <1>5 DEF Engine
    <2>6. ASSUME NEW o \in Requests, NEW t \in Slots, Engages(o, t)
          PROVE  /\ \A p \in Requests : Engages(p, t)' => p = o
                 /\ \A p \in Requests : hpc'[p] \in {"registered", "waiting"} /\ slot[p] = t => p = o
                 /\ closing = "no" => hpc'[o] = "waiting" /\ slot[o] = t /\ o \in pending'
      <3>1. o # r /\ t # slot[r]
        BY <2>2, <2>3, <2>6
      <3>2. \A p \in Requests : Engages(p, t) => p = o
        BY <2>6, <1>1 DEF Exclusive
      <3>3. \A p \in Requests : hpc'[p] \in {"registered", "waiting"} /\ slot[p] = t => p = o
        BY <2>6, <3>1, <1>1, <1>3 DEF Exclusive
      <3>4. closing = "no" => hpc'[o] = "waiting" /\ slot[o] = t /\ o \in pending'
        BY <2>6, <3>1, <1>1, <1>2, <1>3 DEF Exclusive
      <3> QED BY <3>1, <3>2, <3>3, <3>4, <2>1
    <2>7. ASSUME alive
          PROVE  /\ \A p \in Requests : Engages(p, slot[r])' => p = r
                 /\ \A p \in Requests : hpc'[p] \in {"registered", "waiting"} /\ slot[p] = slot[r] => p = r
                 /\ closing = "no" => hpc'[r] = "waiting" /\ r \in pending'
      <3>1. \A p \in Requests : Engages(p, slot[r])' => p = r
        <4>1. slot' = slot
          BY <1>2
        <4> QED BY <4>1, <2>1, <2>3, <1>6
      <3>2. \A p \in Requests : slot[p] = slot[r] => p = r
        BY <1>1, <1>6 DEF Exclusive
      <3> QED BY <3>1, <3>2, <2>5, <2>7, <1>3
    <2> QED BY <1>1, <1>2, <2>1, <2>6, <2>7 DEF Exclusive
  <1>p. Placed'
    <2>1. \A o \in Requests : slot[o] = None <=> hpc'[o] \in {"idle", "over"}
      BY <1>1, <1>2, <1>3 DEF Placed
    <2>2. \A o \in Requests, t \in Slots : Engages(o, t)' => Engages(o, t) \/ (o = r /\ t = slot[r])
      BY <1>2, <1>4, <1>10, <1>11 DEF Engages
    <2>3. \A t \in Slots : ~Engages(r, t)
      BY <1>5 DEF Engages, InEngine, Sent
    <2> QED BY <2>1, <2>2, <2>3, <1>1, <1>2 DEF Placed
  <1> QED BY <1>a, <1>b, <1>c, <1>d, <1>e, <1>f, <1>g, <1>h, <1>p DEF Inv

\* The handler takes an ACCEPT or DATA; after a DATA it may send a line, and
\* it leaves if the engine is gone.
LEMMA TakeFrameStep ==
    ASSUME Inv, NEW r \in Requests, Takes(r, {"ACCEPT", "DATA"}), OutsideGateway,
           accepted' = [accepted EXCEPT ![r] = TRUE],
           UNCHANGED <<slot, pending, dispatcher, closing>>,
           asked' \in [Requests -> {None, "STOP", "CANCEL"}],
           hpc' = hpc \/ hpc' = [hpc EXCEPT ![r] = "leaving"],
           HeadersAreWritten /\ alive => hpc' = hpc,
           \/ stdin' = stdin
           \/ /\ alive /\ Head(events[r]).kind = "DATA"
              /\ \E l \in {"STOP", "CANCEL"} : stdin' = Append(stdin, Line(l, r))
    PROVE  Inv'
  <1>1. /\ Typed /\ Engine /\ Fresh /\ Unread /\ Working /\ Begun /\ Told /\ InOrder /\ Placed
        /\ HeadersAreWritten => Exclusive
        /\ None \notin Requests
    BY GatewayAssumption DEF Inv
  <1>2. /\ hpc[r] = "waiting" /\ events[r] # <<>> /\ Head(events[r]).kind \in {"ACCEPT", "DATA"}
        /\ events' = [events EXCEPT ![r] = Tail(events[r])]
    BY DEF Takes
  <1>3. /\ \A o \in Requests : o # r => hpc'[o] = hpc[o] /\ events'[o] = events[o] /\ accepted'[o] = accepted[o]
        /\ hpc'[r] = "waiting" \/ hpc'[r] = "leaving"
        /\ hpc' \in [Requests -> Phases]
        /\ events'[r] = Tail(events[r]) /\ accepted'[r] = TRUE
        /\ \A o \in Requests : hpc'[o] = "waiting" => hpc[o] = "waiting"
        /\ \A o \in Requests : hpc'[o] \in {"registered", "waiting"} => hpc[o] \in {"registered", "waiting"}
        /\ \A o \in Requests : hpc'[o] \in Early => hpc[o] = hpc'[o] /\ o # r
        /\ \A o \in Requests : hpc'[o] \in {"idle", "over"} <=> hpc[o] \in {"idle", "over"}
    <2>1. hpc \in [Requests -> Phases] /\ events \in [Requests -> Seq(Events)] /\ accepted \in [Requests -> BOOLEAN]
      BY <1>1 DEF Typed
    <2>2. \A o \in Requests : o # r => hpc'[o] = hpc[o] /\ events'[o] = events[o] /\ accepted'[o] = accepted[o]
      BY <2>1, <1>2
    <2>3. hpc'[r] = "waiting" \/ hpc'[r] = "leaving"
      BY <2>1, <1>2
    <2>4. hpc' \in [Requests -> Phases]
      BY <2>1 DEF Phases
    <2>5. events'[r] = Tail(events[r]) /\ accepted'[r] = TRUE
      BY <2>1, <1>2
    <2> QED BY <2>2, <2>3, <2>4, <2>5, <1>2 DEF Early
  <1>4. /\ \A o, K : Said(o, K)' <=> Said(o, K)
        /\ \A o : InEngine(o)' <=> InEngine(o)
        /\ UNCHANGED <<stdout, alive, spec, epc, req, emitted, rows, job, flag>>
    BY OutsideIsTheSame
  <1>5. /\ events[r] \in Seq(Events) /\ DOMAIN events[r] = 1..Len(events[r]) /\ Len(events[r]) \in Nat
        /\ \A i \in DOMAIN events[r] : events[r][i].id = r
        /\ Tail(events[r]) \in Seq(Events) /\ 1 \in DOMAIN events[r] /\ Head(events[r]) = events[r][1]
        /\ \A i \in DOMAIN Tail(events[r]) : i + 1 \in DOMAIN events[r] /\ Tail(events[r])[i] = events[r][i + 1]
        /\ \A i \in DOMAIN events[r] : i # 1 => i - 1 \in DOMAIN Tail(events[r]) /\ Tail(events[r])[i - 1] = events[r][i]
    <2>1. /\ events[r] \in Seq(Events) /\ DOMAIN events[r] = 1..Len(events[r]) /\ Len(events[r]) \in Nat
          /\ \A i \in DOMAIN events[r] : events[r][i].id = r
      BY <1>1, TypedAt
    <2> QED BY <2>1, <1>2, TailAt
  <1>6. Heard(r, EngineKinds)
    BY <1>2, <1>5 DEF Heard, EngineKinds
  <1>7. \A o \in Requests : \A K : Heard(o, K)' => Heard(o, K)
    <2>1. ASSUME NEW o \in Requests, NEW K, Heard(o, K)' PROVE Heard(o, K)
      <3>1. CASE o # r
        BY <2>1, <3>1, <1>3 DEF Heard
      <3>2. CASE o = r
        BY <2>1, <3>2, <1>3, <1>5 DEF Heard
      <3> QED BY <3>1, <3>2
    <2> QED BY <2>1
  <1>8. \A o \in Requests : Heard(o, Terminal) => Heard(o, Terminal)'
    <2>1. ASSUME NEW o \in Requests, Heard(o, Terminal) PROVE Heard(o, Terminal)'
      <3>1. CASE o # r
        BY <2>1, <3>1, <1>3 DEF Heard
      <3>2. CASE o = r
        <4>1. PICK i \in DOMAIN events[r] : events[r][i].kind \in Terminal
          BY <2>1, <3>2 DEF Heard
        <4>2. i # 1
          BY <4>1, <1>2, <1>5 DEF Terminal
        <4>3. i - 1 \in DOMAIN events'[r] /\ events'[r][i - 1] = events[r][i]
          BY <4>2, <1>3, <1>5
        <4> QED BY <3>2, <4>1, <4>3 DEF Heard
      <3> QED BY <3>1, <3>2
    <2> QED BY <2>1
  <1>9. /\ DOMAIN stdin = 1..Len(stdin) /\ Len(stdin) \in Nat /\ stdin \in Seq(Lines)
        /\ \A i \in DOMAIN stdin : stdin[i].id \in Requests
    BY <1>1, TypedAt
  <1>10. /\ stdin' \in Seq(Lines)
         /\ \A i \in DOMAIN stdin' : \/ i \in DOMAIN stdin /\ stdin'[i] = stdin[i]
                                     \/ /\ alive /\ Head(events[r]).kind = "DATA"
                                        /\ stdin'[i].id = r /\ stdin'[i].kind \in {"STOP", "CANCEL"}
    <2>1. CASE stdin' = stdin
      BY <2>1, <1>9
    <2>2. CASE stdin' # stdin
      <3>1. PICK l \in {"STOP", "CANCEL"} : stdin' = Append(stdin, Line(l, r))
        BY <2>2
      <3>2. alive /\ Head(events[r]).kind = "DATA"
        BY <2>2
      <3> DEFINE line == Line(l, r)
      <3>3. line.id = r /\ line.kind \in {"STOP", "CANCEL"} /\ line \in Lines
        <4>1. slot[r] # None
          BY <1>1, <1>2 DEF Placed
        <4>2. slot[r] \in Slots
          BY <4>1, <1>1 DEF Typed
        <4> QED BY <4>2 DEF Line, Lines
      <3>4. stdin' = Append(stdin, line)
        BY <3>1
      <3> HIDE DEF line
      <3>5. /\ stdin' \in Seq(Lines) /\ DOMAIN stdin' = 1..(Len(stdin) + 1)
            /\ \A i \in DOMAIN stdin : stdin'[i] = stdin[i]
            /\ stdin'[Len(stdin) + 1] = line
        <4>1. /\ Append(stdin, line) \in Seq(Lines) /\ DOMAIN Append(stdin, line) = 1..(Len(stdin) + 1)
              /\ \A i \in DOMAIN stdin : Append(stdin, line)[i] = stdin[i]
              /\ Append(stdin, line)[Len(stdin) + 1] = line
          BY <3>3, <1>9, AppendAt
        <4> QED BY <4>1, <3>4
      <3>6. \A i \in DOMAIN stdin' : i \in DOMAIN stdin \/ i = Len(stdin) + 1
        BY <3>5, <1>9
      <3> QED BY <3>2, <3>3, <3>5, <3>6
    <2> QED BY <2>1, <2>2
  <1>11. \A o, K : Sent(o, K)' => Sent(o, K) \/ (o = r /\ alive /\ Head(events[r]).kind = "DATA")
    BY <1>10 DEF Sent
  <1>12. \A o, t : Engages(o, t)' => Engages(o, t)
    BY <1>4, <1>10 DEF Engages
  <1>a. Typed' /\ Engine'
    <2>1. events' \in [Requests -> Seq(Events)] /\ accepted' \in [Requests -> BOOLEAN]
      BY <1>1, <1>2, <1>5 DEF Typed
    <2>2. \A o \in Requests : \A i \in DOMAIN events'[o] : events'[o][i].id = o
      <3> SUFFICES ASSUME NEW o \in Requests, NEW i \in DOMAIN events'[o] PROVE events'[o][i].id = o
        OBVIOUS
      <3>1. CASE o = r
        BY <3>1, <1>3, <1>5
      <3>2. CASE o # r
        BY <3>2, <1>1, <1>3, TypedAt
      <3> QED BY <3>1, <3>2
    <2>3. Typed'
      BY <1>1, <1>3, <1>4, <1>10, <2>1, <2>2 DEF Typed
    <2>4. Engine'
      BY <1>1, <1>4 DEF Engine
    <2> QED BY <2>3, <2>4
  <1>b. Fresh'
    <2> SUFFICES ASSUME NEW o \in Requests, hpc'[o] \in Early
                 PROVE  /\ ~InEngine(o)' /\ ~Sent(o, {"SUBMIT", "STOP", "CANCEL"})' /\ ~Said(o, EngineKinds)'
                        /\ ~accepted'[o] /\ ~Heard(o, EngineKinds)'
                        /\ hpc'[o] # "registered" => o \notin pending' /\ events'[o] = <<>>
                        /\ Len(events'[o]) <= 1
                        /\ hpc'[o] = "registered" /\ o \notin pending' => closing' # "no" \/ dispatcher' # "running"
      BY DEF Fresh
    <2>1. o # r /\ hpc'[o] = hpc[o]
      BY <1>3
    <2> QED BY <2>1, <1>1, <1>3, <1>4, <1>7, <1>11 DEF Fresh
  <1>c. Unread'
    <2> SUFFICES ASSUME NEW i \in DOMAIN stdin', stdin'[i].kind = "SUBMIT", NEW o, o = stdin'[i].id
                 PROVE  /\ \A j \in DOMAIN stdin' : stdin'[j].id = o => i = j
                        /\ ~InEngine(o) /\ ~Said(o, EngineKinds) /\ ~Heard(o, EngineKinds)' /\ ~accepted'[o]
      BY <1>4 DEF Unread
    <2>1. i \in DOMAIN stdin /\ stdin'[i] = stdin[i]
      BY <1>10
    <2>2. o \in Requests /\ o # r
      BY <2>1, <1>1, <1>6, <1>9 DEF Unread
    <2>3. \A j \in DOMAIN stdin' : stdin'[j].id = o => j \in DOMAIN stdin /\ stdin'[j] = stdin[j]
      BY <2>2, <1>10
    <2> QED BY <2>1, <2>2, <2>3, <1>1, <1>3, <1>7 DEF Unread
  <1>d. Working'
    <2> SUFFICES ASSUME NEW o \in Requests, InEngine(o)
                 PROVE  /\ ~Said(o, Endings \cup {"NOT_FOUND"})
                        /\ hpc'[o] = "waiting" /\ o \in pending =>
                             accepted'[o] \/ Said(o, EngineKinds) \/ Heard(o, EngineKinds)'
      BY <1>4 DEF Working
    <2>1. CASE o = r
      BY <2>1, <1>1, <1>3 DEF Working
    <2>2. CASE o # r
      <3>1. Heard(o, EngineKinds)' <=> Heard(o, EngineKinds)
        BY <2>2, <1>3 DEF Heard
      <3>2. hpc'[o] = hpc[o] /\ accepted'[o] = accepted[o]
        BY <2>2, <1>3
      <3> QED BY <3>1, <3>2, <1>1 DEF Working
    <2> QED BY <2>1, <2>2
  <1>e. Begun'
    <2> SUFFICES ASSUME NEW o \in Requests, alive,
                        Sent(o, {"STOP", "CANCEL"})' \/ Said(o, {"DATA"}) \/ Heard(o, {"DATA"})'
                 PROVE  o \notin pending \/ (\E s \in Slots : req[s] = o) \/ Said(o, Endings)
      BY <1>4 DEF Begun
    <2>1. o = r /\ Head(events[r]).kind = "DATA" => Heard(o, {"DATA"})
      BY <1>5 DEF Heard
    <2> QED BY <2>1, <1>1, <1>7, <1>11 DEF Begun
  <1>f. Told'
    BY <1>1, <1>3, <1>4, <1>7, <1>8 DEF Told
  <1>g. InOrder'
    <2> SUFFICES ASSUME NEW o \in Requests, hpc'[o] = "waiting"
                 PROVE  Ordered(o, Unheard(o)', accepted'[o])
      BY DEF InOrder
    <2>1. CASE o # r
      <3>1. hpc[o] = "waiting" /\ Unheard(o)' = Unheard(o)
        BY <2>1, <1>3, <1>4 DEF Unheard
      <3> QED BY <2>1, <3>1, <1>1, <1>3 DEF InOrder
    <2>2. CASE o = r
      <3> DEFINE rest == IF r \in pending THEN stdout ELSE <<>>
      <3>1. rest \in Seq(Events)
        BY <1>1, TypedAt, KindsAndTypes
      <3>2. Unheard(r)' = Tail(events[r]) \o rest /\ Unheard(r) = events[r] \o rest
        BY <1>3, <1>4 DEF Unheard
      <3> HIDE DEF rest
      <3>3. /\ Unheard(r) # <<>> /\ Unheard(r)[1] = events[r][1]
            /\ Tail(Unheard(r)) = Unheard(r)'
            /\ Unheard(r) \in Seq(Events)
        <4>1. /\ events[r] \o rest # <<>> /\ (events[r] \o rest)[1] = events[r][1]
              /\ Tail(events[r] \o rest) = Tail(events[r]) \o rest
          BY <1>2, <1>5, <3>1, TailOfConcat
        <4>2. events[r] \o rest \in Seq(Events)
          BY <1>5, <3>1, ConcatAt
        <4> QED BY <4>1, <4>2, <3>2
      <3>4. Ordered(r, Unheard(r), accepted[r]) /\ Unheard(r)[1].id = r /\ accepted[r] \in BOOLEAN
        BY <3>3, <1>1, <1>2, <1>5 DEF InOrder, Typed
      <3>5. Ordered(r, Tail(Unheard(r)), TRUE)
        BY <3>3, <3>4, TailOrdered
      <3> QED BY <2>2, <3>3, <3>5, <1>3
    <2> QED BY <2>1, <2>2
  <1>h. HeadersAreWritten => Exclusive'
    <2> SUFFICES ASSUME HeadersAreWritten PROVE Exclusive'
      OBVIOUS
    <2>1. ASSUME NEW o \in Requests, NEW t \in Slots, Engages(o, t)
          PROVE  /\ \A p \in Requests : Engages(p, t) => p = o
                 /\ \A p \in Requests : hpc'[p] \in {"registered", "waiting"} /\ slot[p] = t => p = o
                 /\ closing = "no" => hpc'[o] = "waiting" /\ slot[o] = t /\ o \in pending
      <3>1. alive
        BY <2>1, <1>1, <1>9 DEF Engine, Engages
      <3>2. hpc'[o] = hpc[o]
        BY <3>1
      <3> QED BY <2>1, <3>2, <1>1, <1>3 DEF Exclusive
    <2> QED BY <1>1, <1>3, <1>12, <2>1 DEF Exclusive
  <1>p. Placed'
    BY <1>1, <1>3, <1>12 DEF Placed
  <1> QED BY <1>a, <1>b, <1>c, <1>d, <1>e, <1>f, <1>g, <1>h, <1>p DEF Inv

LEMMA TakeAcceptStep ==
    ASSUME Inv, NEW r \in Requests, TakeAccept(r)
    PROVE  Inv'
  <1>1. /\ Typed /\ InOrder
    BY DEF Inv
  <1>2. hpc[r] = "waiting" /\ events[r] # <<>> /\ Head(events[r]).kind = "ACCEPT"
        /\ Takes(r, {"ACCEPT", "DATA"})
    BY DEF TakeAccept, Takes
  <1>3. ~accepted[r]
    <2> DEFINE rest == IF r \in pending THEN stdout ELSE <<>>
    <2>1. rest \in Seq(Events) /\ events[r] \in Seq(Events)
      BY <1>1, TypedAt, KindsAndTypes
    <2>2. Unheard(r) = events[r] \o rest
      BY DEF Unheard
    <2>3. /\ 1 \in DOMAIN events[r] /\ Head(events[r]) = events[r][1] /\ events[r][1].id = r
      BY <1>1, <1>2, <2>1, TailAt, TypedAt
    <2> HIDE DEF rest
    <2>4. 1 \in DOMAIN Unheard(r) /\ Unheard(r)[1] = events[r][1]
      BY <2>1, <2>2, <2>3, ConcatAt
    <2> QED BY <1>1, <1>2, <2>3, <2>4 DEF InOrder, Ordered, Opening
  <1>4. /\ hpc' = hpc \/ hpc' = [hpc EXCEPT ![r] = "leaving"]
        /\ HeadersAreWritten => hpc' = hpc
    <2>1. PICK ok \in HeaderWrites : hpc' = [hpc EXCEPT ![r] = IF ok /\ ~accepted[r] THEN @ ELSE "leaving"]
      BY DEF TakeAccept
    <2>2. hpc \in [Requests -> Phases]
      BY <1>1 DEF Typed
    <2>3. HeadersAreWritten => ok = TRUE
      BY DEF HeadersAreWritten
    <2>4. ok = TRUE => hpc' = hpc
      BY <2>1, <2>2, <1>3
    <2> QED BY <2>1, <2>2, <2>3, <2>4
  <1>5. asked' \in [Requests -> {None, "STOP", "CANCEL"}]
    BY <1>1 DEF TakeAccept, Typed
  <1> QED BY <1>2, <1>4, <1>5, TakeFrameStep DEF TakeAccept

LEMMA TakeDataStep ==
    ASSUME Inv, NEW r \in Requests, TakeData(r)
    PROVE  Inv'
  <1>1. Typed
    BY DEF Inv
  <1>2. /\ Takes(r, {"ACCEPT", "DATA"}) /\ Head(events[r]).kind = "DATA" /\ OutsideGateway
        /\ accepted' = [accepted EXCEPT ![r] = TRUE] /\ UNCHANGED <<slot, pending, dispatcher, closing>>
    BY DEF TakeData, Takes
  <1>3. CASE UNCHANGED <<hpc, asked, stdin>>
    <2>1. asked' \in [Requests -> {None, "STOP", "CANCEL"}]
      BY <1>1, <1>3 DEF Typed
    <2> QED BY <1>2, <1>3, <2>1, TakeFrameStep
  <1>4. ASSUME NEW l \in {"STOP", "CANCEL"},
               asked' = [asked EXCEPT ![r] = l],
               stdin' = IF alive THEN Append(stdin, Line(l, r)) ELSE stdin,
               hpc' = [hpc EXCEPT ![r] = IF alive THEN @ ELSE "leaving"]
        PROVE  Inv'
    <2>1. asked' \in [Requests -> {None, "STOP", "CANCEL"}]
      BY <1>1, <1>4 DEF Typed
    <2>2. /\ hpc' = hpc \/ hpc' = [hpc EXCEPT ![r] = "leaving"]
          /\ alive => hpc' = hpc
      BY <1>1, <1>4 DEF Typed
    <2>3. stdin' = stdin \/ (alive /\ \E m \in {"STOP", "CANCEL"} : stdin' = Append(stdin, Line(m, r)))
      BY <1>4
    <2> QED BY <1>2, <2>1, <2>2, <2>3, TakeFrameStep
  <1> QED BY <1>3, <1>4 DEF TakeData

LEMMA TakeTerminalStep ==
    ASSUME Inv, NEW r \in Requests, TakeTerminal(r)
    PROVE  Inv'
  <1>1. /\ Typed /\ Engine /\ Fresh /\ Unread /\ Working /\ Begun /\ Told /\ InOrder /\ Placed
        /\ HeadersAreWritten => Exclusive
        /\ None \notin Requests
    BY GatewayAssumption DEF Inv
  <1>2. /\ hpc[r] = "waiting" /\ events[r] # <<>> /\ Head(events[r]).kind \in Terminal \cup {"NOT_FOUND"}
        /\ events' = [events EXCEPT ![r] = Tail(events[r])] /\ hpc' = [hpc EXCEPT ![r] = "leaving"]
        /\ UNCHANGED <<slot, pending, accepted, asked, dispatcher, closing, stdin>> /\ OutsideGateway
    BY DEF TakeTerminal, Takes
  <1>3. /\ \A o \in Requests : o # r => hpc'[o] = hpc[o] /\ events'[o] = events[o]
        /\ hpc'[r] = "leaving" /\ events'[r] = Tail(events[r])
    BY <1>1, <1>2 DEF Typed
  <1>4. /\ \A o, K : (Said(o, K)' <=> Said(o, K)) /\ (Sent(o, K)' <=> Sent(o, K))
        /\ \A o : InEngine(o)' <=> InEngine(o)
        /\ \A o, t : Engages(o, t)' <=> Engages(o, t)
        /\ UNCHANGED <<stdout, alive, spec, epc, req, emitted, rows, job, flag>>
    BY <1>2, OutsideIsTheSame DEF Sent
  <1>5. /\ events[r] \in Seq(Events) /\ DOMAIN events[r] = 1..Len(events[r]) /\ Len(events[r]) \in Nat
        /\ \A i \in DOMAIN events[r] : events[r][i].id = r
        /\ Tail(events[r]) \in Seq(Events) /\ 1 \in DOMAIN events[r] /\ Head(events[r]) = events[r][1]
        /\ \A i \in DOMAIN Tail(events[r]) : i + 1 \in DOMAIN events[r] /\ Tail(events[r])[i] = events[r][i + 1]
    <2>1. /\ events[r] \in Seq(Events) /\ DOMAIN events[r] = 1..Len(events[r]) /\ Len(events[r]) \in Nat
          /\ \A i \in DOMAIN events[r] : events[r][i].id = r
      BY <1>1, TypedAt
    <2> QED BY <2>1, <1>2, TailAt
  <1>6. Heard(r, Terminal) /\ r \notin pending
    <2>1. Heard(r, Terminal)
      BY <1>1, <1>2, <1>5 DEF Told, Heard
    <2> QED BY <2>1, <1>1 DEF Told
  <1>7. /\ \A o \in Requests : \A K : Heard(o, K)' => Heard(o, K)
        /\ \A o \in Requests : \A K : o # r => (Heard(o, K)' <=> Heard(o, K))
    <2>1. ASSUME NEW o \in Requests, NEW K, o # r PROVE Heard(o, K)' <=> Heard(o, K)
      BY <2>1, <1>3 DEF Heard
    <2>2. ASSUME NEW K, Heard(r, K)' PROVE Heard(r, K)
      BY <2>2, <1>3, <1>5 DEF Heard
    <2> QED BY <2>1, <2>2
  <1>a. Typed' /\ Engine'
    <2>1. events' \in [Requests -> Seq(Events)] /\ hpc' \in [Requests -> Phases]
      BY <1>1, <1>2, <1>5 DEF Typed, Phases
    <2>2. \A o \in Requests : \A i \in DOMAIN events'[o] : events'[o][i].id = o
      <3> SUFFICES ASSUME NEW o \in Requests, NEW i \in DOMAIN events'[o] PROVE events'[o][i].id = o
        OBVIOUS
      <3>1. CASE o = r
        BY <3>1, <1>3, <1>5
      <3>2. CASE o # r
        BY <3>2, <1>1, <1>3, TypedAt
      <3> QED BY <3>1, <3>2
    <2>3. Typed'
      BY <1>1, <1>2, <1>4, <2>1, <2>2 DEF Typed
    <2>4. Engine'
      BY <1>1, <1>2, <1>4 DEF Engine
    <2> QED BY <2>3, <2>4
  <1>b. Fresh'
    <2> SUFFICES ASSUME NEW o \in Requests, hpc'[o] \in Early
                 PROVE  /\ ~InEngine(o)' /\ ~Sent(o, {"SUBMIT", "STOP", "CANCEL"})' /\ ~Said(o, EngineKinds)'
                        /\ ~accepted'[o] /\ ~Heard(o, EngineKinds)'
                        /\ hpc'[o] # "registered" => o \notin pending' /\ events'[o] = <<>>
                        /\ Len(events'[o]) <= 1
                        /\ hpc'[o] = "registered" /\ o \notin pending' => closing' # "no" \/ dispatcher' # "running"
      BY DEF Fresh
    <2>1. o # r /\ hpc'[o] = hpc[o] /\ events'[o] = events[o]
      BY <1>3 DEF Early
    <2> QED BY <2>1, <1>1, <1>2, <1>4, <1>7 DEF Fresh
  <1>c. Unread'
    <2>1. \A i \in DOMAIN stdin : stdin[i].id \in Requests
      BY <1>1, TypedAt
    <2> QED BY <2>1, <1>1, <1>2, <1>4, <1>7 DEF Unread
  <1>d. Working'
    <2> SUFFICES ASSUME NEW o \in Requests, InEngine(o)
                 PROVE  /\ ~Said(o, Endings \cup {"NOT_FOUND"})
                        /\ hpc'[o] = "waiting" /\ o \in pending =>
                             accepted[o] \/ Said(o, EngineKinds) \/ Heard(o, EngineKinds)'
      BY <1>2, <1>4 DEF Working
    <2>1. CASE o = r
      BY <2>1, <1>1, <1>3 DEF Working
    <2>2. CASE o # r
      BY <2>2, <1>1, <1>3, <1>7 DEF Working
    <2> QED BY <2>1, <2>2
  <1>e. Begun'
    BY <1>1, <1>2, <1>4, <1>7 DEF Begun
  <1>f. Told'
    <2> SUFFICES ASSUME NEW o \in Requests
                 PROVE  /\ hpc'[o] \in {"registered", "waiting"} /\ o \notin pending => Heard(o, Terminal)'
                        /\ o \in pending => ~Heard(o, Terminal)'
                        /\ ~Heard(o, {"NOT_FOUND"})'
      BY <1>1, <1>2, <1>4 DEF Told
    <2> QED BY <1>1, <1>3, <1>7 DEF Told
  <1>g. InOrder'
    <2> SUFFICES ASSUME NEW o \in Requests, hpc'[o] = "waiting"
                 PROVE  Ordered(o, Unheard(o)', accepted[o])
      BY <1>2 DEF InOrder
    <2>1. o # r
      BY <1>3
    <2>2. hpc[o] = "waiting" /\ Unheard(o)' = Unheard(o)
      BY <2>1, <1>2, <1>3, <1>4 DEF Unheard
    <2> QED BY <2>2, <1>1 DEF InOrder
  <1>h. HeadersAreWritten => Exclusive'
    <2> SUFFICES ASSUME HeadersAreWritten PROVE Exclusive'
      OBVIOUS
    <2>2. ASSUME NEW o \in Requests, NEW t \in Slots, Engages(o, t)
          PROVE  /\ \A p \in Requests : Engages(p, t) => p = o
                 /\ \A p \in Requests : hpc'[p] \in {"registered", "waiting"} /\ slot[p] = t => p = o
                 /\ closing = "no" => hpc'[o] = "waiting" /\ slot[o] = t /\ o \in pending
      <3>1. closing = "no" => hpc[o] = "waiting" /\ slot[o] = t /\ o \in pending
        BY <2>2, <1>1 DEF Exclusive
      <3>2. closing = "no" => o # r
        BY <3>1, <1>6
      <3>3. \A p \in Requests : Engages(p, t) => p = o
        BY <2>2, <1>1 DEF Exclusive
      <3>4. \A p \in Requests : hpc'[p] \in {"registered", "waiting"} /\ slot[p] = t => p = o
        BY <2>2, <1>1, <1>3 DEF Exclusive
      <3> QED BY <3>1, <3>2, <3>3, <3>4, <1>3
    <2> QED BY <1>1, <1>2, <1>4, <2>2 DEF Exclusive
  <1>p. Placed'
    BY <1>1, <1>2, <1>3, <1>4 DEF Placed
  <1> QED BY <1>a, <1>b, <1>c, <1>d, <1>e, <1>f, <1>g, <1>h, <1>p DEF Inv

LEMMA LeaveStep ==
    ASSUME Inv, NEW r \in Requests, Leave(r)
    PROVE  Inv'
  <1>1. /\ Typed /\ Engine /\ Fresh /\ Unread /\ Working /\ Begun /\ Told /\ InOrder /\ Placed
        /\ HeadersAreWritten => Exclusive
        /\ None \notin Requests /\ None \notin Slots
    BY GatewayAssumption DEF Inv, Slots
  <1>2. /\ hpc[r] = "leaving" /\ hpc' = [hpc EXCEPT ![r] = "over"]
        /\ slot' = [slot EXCEPT ![r] = None] /\ events' = [events EXCEPT ![r] = <<>>]
        /\ accepted' = [accepted EXCEPT ![r] = FALSE] /\ asked' = [asked EXCEPT ![r] = None]
        /\ UNCHANGED <<pending, dispatcher, closing, stdin>> /\ OutsideGateway
    BY DEF Leave, Step
  <1>3. /\ \A o \in Requests : o # r => /\ hpc'[o] = hpc[o] /\ events'[o] = events[o] /\ slot'[o] = slot[o]
                                        /\ accepted'[o] = accepted[o]
        /\ hpc'[r] = "over" /\ events'[r] = <<>> /\ slot'[r] = None /\ accepted'[r] = FALSE
    BY <1>1, <1>2 DEF Typed
  <1>4. /\ \A o, K : (Said(o, K)' <=> Said(o, K)) /\ (Sent(o, K)' <=> Sent(o, K))
        /\ \A o : InEngine(o)' <=> InEngine(o)
        /\ \A o, t : Engages(o, t)' <=> Engages(o, t)
        /\ UNCHANGED <<stdout, alive, spec, epc, req, emitted, rows, job, flag>>
    BY <1>2, OutsideIsTheSame DEF Sent
  <1>5. /\ \A o \in Requests : \A K : Heard(o, K)' => Heard(o, K)
        /\ \A o \in Requests : \A K : o # r => (Heard(o, K)' <=> Heard(o, K))
    <2>1. ASSUME NEW o \in Requests, NEW K, o # r PROVE Heard(o, K)' <=> Heard(o, K)
      BY <2>1, <1>3 DEF Heard
    <2>2. ASSUME NEW K PROVE ~Heard(r, K)'
      BY <1>3 DEF Heard
    <2> QED BY <2>1, <2>2
  <1>a. Typed' /\ Engine'
    <2>1. /\ events' \in [Requests -> Seq(Events)] /\ hpc' \in [Requests -> Phases]
          /\ slot' \in [Requests -> Slots \cup {None}] /\ accepted' \in [Requests -> BOOLEAN]
          /\ asked' \in [Requests -> {None, "STOP", "CANCEL"}]
      BY <1>1, <1>2, KindsAndTypes DEF Typed, Phases
    <2>2. \A o \in Requests : \A i \in DOMAIN events'[o] : events'[o][i].id = o
      <3> SUFFICES ASSUME NEW o \in Requests, NEW i \in DOMAIN events'[o] PROVE events'[o][i].id = o
        OBVIOUS
      <3>1. CASE o = r
        BY <3>1, <1>3
      <3>2. CASE o # r
        BY <3>2, <1>1, <1>3, TypedAt
      <3> QED BY <3>1, <3>2
    <2>3. Typed'
      BY <1>1, <1>2, <1>4, <2>1, <2>2 DEF Typed
    <2>4. Engine'
      BY <1>1, <1>2, <1>4 DEF Engine
    <2> QED BY <2>3, <2>4
  <1>b. Fresh'
    <2> SUFFICES ASSUME NEW o \in Requests, hpc'[o] \in Early
                 PROVE  /\ ~InEngine(o)' /\ ~Sent(o, {"SUBMIT", "STOP", "CANCEL"})' /\ ~Said(o, EngineKinds)'
                        /\ ~accepted'[o] /\ ~Heard(o, EngineKinds)'
                        /\ hpc'[o] # "registered" => o \notin pending' /\ events'[o] = <<>>
                        /\ Len(events'[o]) <= 1
                        /\ hpc'[o] = "registered" /\ o \notin pending' => closing' # "no" \/ dispatcher' # "running"
      BY DEF Fresh
    <2>1. o # r /\ hpc'[o] = hpc[o] /\ events'[o] = events[o] /\ accepted'[o] = accepted[o]
      BY <1>3 DEF Early
    <2> QED BY <2>1, <1>1, <1>2, <1>4, <1>5 DEF Fresh
  <1>c. Unread'
    <2>1. \A i \in DOMAIN stdin : stdin[i].id \in Requests
      BY <1>1, TypedAt
    <2>2. \A o \in Requests : ~accepted[o] => ~accepted'[o]
      BY <1>3
    <2> QED BY <2>1, <2>2, <1>1, <1>2, <1>4, <1>5 DEF Unread
  <1>d. Working'
    <2> SUFFICES ASSUME NEW o \in Requests, InEngine(o)
                 PROVE  /\ ~Said(o, Endings \cup {"NOT_FOUND"})
                        /\ hpc'[o] = "waiting" /\ o \in pending =>
                             accepted'[o] \/ Said(o, EngineKinds) \/ Heard(o, EngineKinds)'
      BY <1>2, <1>4 DEF Working
    <2>1. CASE o = r
      BY <2>1, <1>1, <1>3 DEF Working
    <2>2. CASE o # r
      BY <2>2, <1>1, <1>3, <1>5 DEF Working
    <2> QED BY <2>1, <2>2
  <1>e. Begun'
    BY <1>1, <1>2, <1>4, <1>5 DEF Begun
  <1>f. Told'
    <2> SUFFICES ASSUME NEW o \in Requests
                 PROVE  /\ hpc'[o] \in {"registered", "waiting"} /\ o \notin pending => Heard(o, Terminal)'
                        /\ o \in pending => ~Heard(o, Terminal)'
                        /\ ~Heard(o, {"NOT_FOUND"})'
      BY <1>1, <1>2, <1>4 DEF Told
    <2> QED BY <1>1, <1>3, <1>5 DEF Told
  <1>g. InOrder'
    <2> SUFFICES ASSUME NEW o \in Requests, hpc'[o] = "waiting"
                 PROVE  Ordered(o, Unheard(o)', accepted'[o])
      BY DEF InOrder
    <2>1. o # r
      BY <1>3
    <2>2. hpc[o] = "waiting" /\ Unheard(o)' = Unheard(o) /\ accepted'[o] = accepted[o]
      BY <2>1, <1>2, <1>3, <1>4 DEF Unheard
    <2> QED BY <2>2, <1>1 DEF InOrder
  <1>h. HeadersAreWritten => Exclusive'
    <2> SUFFICES ASSUME HeadersAreWritten PROVE Exclusive'
      OBVIOUS
    <2>2. \A o, p \in Requests : slot'[o] = slot'[p] /\ slot'[o] # None => o = p
      BY <1>1, <1>3 DEF Exclusive
    <2>3. ASSUME NEW o \in Requests, NEW t \in Slots, Engages(o, t)
          PROVE  /\ \A p \in Requests : Engages(p, t) => p = o
                 /\ \A p \in Requests : hpc'[p] \in {"registered", "waiting"} /\ slot'[p] = t => p = o
                 /\ closing = "no" => hpc'[o] = "waiting" /\ slot'[o] = t /\ o \in pending
      <3>1. closing = "no" => hpc[o] = "waiting" /\ slot[o] = t /\ o \in pending
        BY <2>3, <1>1 DEF Exclusive
      <3>2. closing = "no" => o # r
        BY <3>1, <1>2
      <3>3. \A p \in Requests : Engages(p, t) => p = o
        BY <2>3, <1>1 DEF Exclusive
      <3>4. \A p \in Requests : hpc'[p] \in {"registered", "waiting"} /\ slot'[p] = t => p = o
        BY <2>3, <1>1, <1>3 DEF Exclusive
      <3> QED BY <3>1, <3>2, <3>3, <3>4, <1>3
    <2> QED BY <1>1, <1>2, <1>4, <2>2, <2>3 DEF Exclusive
  <1>p. Placed'
    BY <1>1, <1>2, <1>3, <1>4 DEF Placed
  <1> QED BY <1>a, <1>b, <1>c, <1>d, <1>e, <1>f, <1>g, <1>h, <1>p DEF Inv

----------------------------------------------------------------------------
(* The dispatcher routes one frame.                                        *)

LEMMA DispatchStep ==
    ASSUME Inv, Dispatch
    PROVE  Inv'
  <1>f0. PICK f : f = Head(stdout)
    OBVIOUS
  <1>r0. PICK r : r = f.id
    OBVIOUS
  <1>1. /\ Typed /\ Engine /\ Fresh /\ Unread /\ Working /\ Begun /\ Told /\ InOrder /\ Placed
        /\ HeadersAreWritten => Exclusive
        /\ None \notin Requests
    BY GatewayAssumption DEF Inv
  <1>2. /\ stdout # <<>> /\ stdout' = Tail(stdout) /\ dispatcher = "running"
        /\ IF f.id \in pending THEN events' = [events EXCEPT ![f.id] = Append(events[f.id], f)] ELSE events' = events
        /\ pending' = IF f.kind \in {"ACCEPT", "DATA"} THEN pending ELSE pending \ {f.id}
        /\ UNCHANGED <<hpc, slot, accepted, asked, dispatcher, closing, stdin, alive, spec>>
        /\ UNCHANGED <<epc, req, emitted, rows, job, flag>>
    BY <1>f0 DEF Dispatch, Put, engine
  <1>3. /\ stdout \in Seq(EngineFrames) /\ stdout \in Seq(Events)
        /\ DOMAIN stdout = 1..Len(stdout) /\ Len(stdout) \in Nat
        /\ stdout' \in Seq(EngineFrames) /\ stdout' \in Seq(Events)
        /\ f = stdout[1] /\ 1 \in DOMAIN stdout
        /\ \A i \in DOMAIN stdout' : i + 1 \in DOMAIN stdout /\ stdout'[i] = stdout[i + 1] /\ i \in Nat /\ i >= 1
        /\ \A i \in DOMAIN stdout : i # 1 => i - 1 \in DOMAIN stdout' /\ stdout'[i - 1] = stdout[i]
    <2>1. /\ stdout \in Seq(EngineFrames) /\ stdout \in Seq(Events)
          /\ DOMAIN stdout = 1..Len(stdout) /\ Len(stdout) \in Nat
      BY <1>1, TypedAt
    <2>2. /\ stdout' \in Seq(EngineFrames) /\ stdout' \in Seq(Events)
          /\ f = stdout[1] /\ 1 \in DOMAIN stdout
          /\ \A i \in DOMAIN stdout' : i + 1 \in DOMAIN stdout /\ stdout'[i] = stdout[i + 1]
          /\ \A i \in DOMAIN stdout : i # 1 => i - 1 \in DOMAIN stdout' /\ stdout'[i - 1] = stdout[i]
      BY <1>f0, <1>2, <2>1, TailAt
    <2>3. \A i \in DOMAIN stdout' : i \in Nat /\ i >= 1
      BY <2>2, SeqAt
    <2> QED BY <2>1, <2>2, <2>3
  <1>4. f.kind \in EngineKinds /\ f.id = r /\ r \in Requests /\ f \in Events
    <2>1. f \in EngineFrames
      BY <1>3, SeqAt
    <2> QED BY <1>r0, <2>1, KindsAndTypes DEF EngineFrames
  <1>5. /\ \A o \in Requests : o # r \/ o \notin pending => events'[o] = events[o]
        /\ r \in pending => events'[r] = Append(events[r], f)
    <2>1. events \in [Requests -> Seq(Events)]
      BY <1>1 DEF Typed
    <2> QED BY <2>1, <1>2, <1>4
  <1>6. /\ events[r] \in Seq(Events) /\ DOMAIN events[r] = 1..Len(events[r]) /\ Len(events[r]) \in Nat
        /\ \A i \in DOMAIN events[r] : events[r][i].id = r
    BY <1>1, <1>4, TypedAt
  <1>7. r \in pending =>
          /\ events'[r] \in Seq(Events)
          /\ \A i \in DOMAIN events[r] : i \in DOMAIN events'[r] /\ events'[r][i] = events[r][i]
          /\ Len(events[r]) + 1 \in DOMAIN events'[r] /\ events'[r][Len(events[r]) + 1] = f
          /\ \A i \in DOMAIN events'[r] : (i \in DOMAIN events[r] /\ events'[r][i] = events[r][i]) \/ events'[r][i] = f
    <2> SUFFICES ASSUME r \in pending
                 PROVE  /\ events'[r] \in Seq(Events)
                        /\ \A i \in DOMAIN events[r] : i \in DOMAIN events'[r] /\ events'[r][i] = events[r][i]
                        /\ Len(events[r]) + 1 \in DOMAIN events'[r] /\ events'[r][Len(events[r]) + 1] = f
                        /\ \A i \in DOMAIN events'[r] :
                             (i \in DOMAIN events[r] /\ events'[r][i] = events[r][i]) \/ events'[r][i] = f
      OBVIOUS
    <2> DEFINE q == Append(events[r], f)
    <2>1. /\ q \in Seq(Events) /\ DOMAIN q = 1..(Len(events[r]) + 1)
          /\ \A i \in DOMAIN events[r] : q[i] = events[r][i]
          /\ q[Len(events[r]) + 1] = f
      BY <1>4, <1>6, AppendAt
    <2>2. events'[r] = q
      BY <1>5
    <2> HIDE DEF q
    <2>3. \A i \in 1..(Len(events[r]) + 1) : i \in 1..Len(events[r]) \/ i = Len(events[r]) + 1
      BY <1>6
    <2> QED BY <2>1, <2>2, <2>3, <1>6
  <1>8. /\ \A o, K : Said(o, K)' => Said(o, K)
        /\ \A o, K : Said(o, K) => Said(o, K)' \/ (o = r /\ f.kind \in K)
    <2>1. ASSUME NEW o, NEW K, Said(o, K)' PROVE Said(o, K)
      BY <2>1, <1>3 DEF Said
    <2>2. ASSUME NEW o, NEW K, Said(o, K), ~(o = r /\ f.kind \in K) PROVE Said(o, K)'
      <3>1. PICK i \in DOMAIN stdout : stdout[i].id = o /\ stdout[i].kind \in K
        BY <2>2 DEF Said
      <3>2. i # 1
        BY <2>2, <3>1, <1>3, <1>4
      <3> QED BY <3>1, <3>2, <1>3 DEF Said
    <2> QED BY <2>1, <2>2
  <1>9. Said(r, {f.kind}) /\ Said(r, EngineKinds)
    BY <1>3, <1>4 DEF Said
  <1>10. /\ \A o \in Requests : \A K : Heard(o, K) => Heard(o, K)'
         /\ \A o \in Requests : \A K : Heard(o, K)' => Heard(o, K) \/ (o = r /\ r \in pending /\ f.kind \in K)
         /\ \A K : r \in pending /\ f.kind \in K => Heard(r, K)'
    <2>1. ASSUME NEW o \in Requests, NEW K, o # r \/ o \notin pending PROVE Heard(o, K)' <=> Heard(o, K)
      BY <2>1, <1>5 DEF Heard
    <2>2. ASSUME r \in pending, NEW K PROVE Heard(r, K)' <=> Heard(r, K) \/ f.kind \in K
      <3>1. Heard(r, K)' => Heard(r, K) \/ f.kind \in K
        BY <2>2, <1>7 DEF Heard
      <3>2. Heard(r, K) => Heard(r, K)'
        BY <2>2, <1>7 DEF Heard
      <3>3. f.kind \in K => Heard(r, K)'
        BY <2>2, <1>7 DEF Heard
      <3> QED BY <3>1, <3>2, <3>3
    <2> QED BY <2>1, <2>2
  <1>11. /\ \A o : InEngine(o)' <=> InEngine(o)
         /\ \A o, K : Sent(o, K)' <=> Sent(o, K)
         /\ \A o, t : Engages(o, t)' <=> Engages(o, t)
    BY <1>2 DEF InEngine, Sent, Engages
  <1>12. \A o \in Requests : /\ o \in pending' => o \in pending /\ (o = r => f.kind \in {"ACCEPT", "DATA"})
                             /\ o \in pending /\ o \notin pending' => o = r /\ f.kind \notin {"ACCEPT", "DATA"}
    BY <1>2, <1>4
  <1>13. r \in pending => f.kind # "NOT_FOUND"
    <2> SUFFICES ASSUME r \in pending, f.kind = "NOT_FOUND" PROVE FALSE
      OBVIOUS
    <2>1. \E i \in 1..(1 - 1) : stdout[i].id = r /\ stdout[i].kind \in Endings
      BY <1>1, <1>3, <1>4 DEF Told
    <2> QED BY <2>1
  <1>14. f.kind \notin {"ACCEPT", "DATA", "NOT_FOUND"} <=> f.kind \in Endings
    BY <1>4 DEF EngineKinds, Endings
  <1>a. Typed' /\ Engine'
    <2>1. events' \in [Requests -> Seq(Events)]
      BY <1>1, <1>2, <1>4, <1>5, <1>7 DEF Typed
    <2>2. \A o \in Requests : \A i \in DOMAIN events'[o] : events'[o][i].id = o
      <3> SUFFICES ASSUME NEW o \in Requests, NEW i \in DOMAIN events'[o] PROVE events'[o][i].id = o
        OBVIOUS
      <3>1. CASE o = r /\ o \in pending
        BY <3>1, <1>4, <1>6, <1>7
      <3>2. CASE o # r \/ o \notin pending
        BY <3>2, <1>1, <1>5, TypedAt
      <3> QED BY <3>1, <3>2
    <2>3. pending' \subseteq Requests
      BY <1>1, <1>2 DEF Typed
    <2>4. Typed'
      BY <1>1, <1>2, <1>3, <2>1, <2>2, <2>3 DEF Typed
    <2>5. Engine'
      BY <1>1, <1>2 DEF Engine
    <2> QED BY <2>4, <2>5
  <1>b. Fresh'
    <2> SUFFICES ASSUME NEW o \in Requests, hpc[o] \in Early
                 PROVE  /\ ~InEngine(o)' /\ ~Sent(o, {"SUBMIT", "STOP", "CANCEL"})' /\ ~Said(o, EngineKinds)'
                        /\ ~accepted[o] /\ ~Heard(o, EngineKinds)'
                        /\ hpc[o] # "registered" => o \notin pending' /\ events'[o] = <<>>
                        /\ Len(events'[o]) <= 1
                        /\ hpc[o] = "registered" /\ o \notin pending' => closing # "no" \/ dispatcher # "running"
      BY <1>2 DEF Fresh
    <2>1. o # r
      BY <1>1, <1>9 DEF Fresh
    <2>2. events'[o] = events[o] /\ (o \in pending' <=> o \in pending)
      BY <2>1, <1>5, <1>12
    <2> QED BY <2>1, <2>2, <1>1, <1>8, <1>10, <1>11 DEF Fresh
  <1>c. Unread'
    <2> SUFFICES ASSUME NEW i \in DOMAIN stdin, stdin[i].kind = "SUBMIT", NEW o, o = stdin[i].id
                 PROVE  /\ \A j \in DOMAIN stdin : stdin[j].id = o => i = j
                        /\ ~InEngine(o) /\ ~Said(o, EngineKinds)' /\ ~Heard(o, EngineKinds)' /\ ~accepted[o]
      BY <1>2, <1>11 DEF Unread
    <2>1. o \in Requests /\ o # r
      BY <1>1, <1>9, TypedAt DEF Unread
    <2> QED BY <2>1, <1>1, <1>8, <1>10 DEF Unread
  <1>d. Working'
    <2> SUFFICES ASSUME NEW o \in Requests, InEngine(o)
                 PROVE  /\ ~Said(o, Endings \cup {"NOT_FOUND"})'
                        /\ hpc[o] = "waiting" /\ o \in pending' =>
                             accepted[o] \/ Said(o, EngineKinds)' \/ Heard(o, EngineKinds)'
      BY <1>2, <1>11 DEF Working
    <2>1. ~Said(o, Endings \cup {"NOT_FOUND"})'
      BY <1>1, <1>8 DEF Working
    <2>2. ASSUME hpc[o] = "waiting", o \in pending'
          PROVE  accepted[o] \/ Said(o, EngineKinds)' \/ Heard(o, EngineKinds)'
      <3>1. o \in pending
        BY <2>2, <1>12
      <3>2. accepted[o] \/ Said(o, EngineKinds) \/ Heard(o, EngineKinds)
        BY <2>2, <3>1, <1>1 DEF Working
      <3>3. CASE Said(o, EngineKinds)
        BY <3>1, <3>3, <1>4, <1>8, <1>10
      <3> QED BY <3>2, <3>3, <1>10
    <2> QED BY <2>1, <2>2
  <1>e. Begun'
    <2> SUFFICES ASSUME NEW o \in Requests, alive,
                        Sent(o, {"STOP", "CANCEL"}) \/ Said(o, {"DATA"})' \/ Heard(o, {"DATA"})'
                 PROVE  o \notin pending' \/ (\E s \in Slots : req[s] = o) \/ Said(o, Endings)'
      BY <1>2, <1>11 DEF Begun
    <2>1. Sent(o, {"STOP", "CANCEL"}) \/ Said(o, {"DATA"}) \/ Heard(o, {"DATA"})
      <3>1. o = r /\ f.kind \in {"DATA"} => Said(o, {"DATA"})
        BY <1>9 DEF Said
      <3> QED BY <3>1, <1>8, <1>10
    <2>2. o \notin pending \/ (\E s \in Slots : req[s] = o) \/ Said(o, Endings)
      BY <2>1, <1>1 DEF Begun
    <2>3. Said(o, Endings) => Said(o, Endings)' \/ o \notin pending'
      BY <1>8, <1>12, <1>14
    <2> QED BY <2>2, <2>3, <1>12
  <1>f. Told'
    <2> SUFFICES ASSUME NEW o \in Requests
                 PROVE  /\ hpc[o] \in {"registered", "waiting"} /\ o \notin pending' => Heard(o, Terminal)'
                        /\ o \in pending' => ~Heard(o, Terminal)'
                        /\ ~Heard(o, {"NOT_FOUND"})'
                        /\ o \in pending' => \A j \in DOMAIN stdout' :
                               stdout'[j].id = o /\ stdout'[j].kind = "NOT_FOUND" =>
                                 \E i \in 1..(j - 1) : stdout'[i].id = o /\ stdout'[i].kind \in Endings
      BY <1>2 DEF Told
    <2>1. ASSUME hpc[o] \in {"registered", "waiting"}, o \notin pending' PROVE Heard(o, Terminal)'
      <3>1. CASE o \in pending
        <4>1. o = r /\ f.kind \in Terminal
          BY <2>1, <3>1, <1>12, <1>13, <1>14, KindsAndTypes
        <4> QED BY <3>1, <4>1, <1>10
      <3>2. CASE o \notin pending
        BY <2>1, <3>2, <1>1, <1>10 DEF Told
      <3> QED BY <3>1, <3>2
    <2>2. o \in pending' => ~Heard(o, Terminal)'
      BY <1>1, <1>10, <1>12 DEF Told, Terminal
    <2>3. ~Heard(o, {"NOT_FOUND"})'
      BY <1>1, <1>10, <1>13 DEF Told
    <2>4. ASSUME o \in pending', NEW j \in DOMAIN stdout', stdout'[j].id = o, stdout'[j].kind = "NOT_FOUND"
          PROVE  \E i \in 1..(j - 1) : stdout'[i].id = o /\ stdout'[i].kind \in Endings
      <3>1. j + 1 \in DOMAIN stdout /\ stdout[j + 1].id = o /\ stdout[j + 1].kind = "NOT_FOUND" /\ j \in Nat
        BY <2>4, <1>3
      <3>2. o \in pending
        BY <2>4, <1>12
      <3>3. PICK i \in 1..(j + 1 - 1) : stdout[i].id = o /\ stdout[i].kind \in Endings
        BY <3>1, <3>2, <1>1 DEF Told
      <3>4. i # 1
        BY <2>4, <3>3, <1>3, <1>4, <1>12, <1>14
      <3>5. i \in DOMAIN stdout /\ i - 1 \in 1..(j - 1)
        <4>1. i \in 1..j /\ j + 1 \in 1..Len(stdout)
          BY <3>1, <3>3, <1>3
        <4> QED BY <3>1, <3>4, <4>1, <1>3
      <3>6. stdout'[i - 1] = stdout[i]
        BY <3>4, <3>5, <1>3
      <3> QED BY <3>3, <3>5, <3>6
    <2> QED BY <2>1, <2>2, <2>3, <2>4
  <1>g. InOrder'
    <2> SUFFICES ASSUME NEW o \in Requests, hpc[o] = "waiting"
                 PROVE  Ordered(o, Unheard(o)', accepted[o])
      BY <1>2 DEF InOrder
    <2>0. /\ Ordered(o, Unheard(o), accepted[o]) /\ accepted[o] \in BOOLEAN
          /\ events[o] \in Seq(Events)
      BY <1>1, TypedAt DEF InOrder, Typed
    <2>1. CASE o \notin pending
      <3>1. Unheard(o)' = Unheard(o)
        BY <2>1, <1>5, <1>12 DEF Unheard
      <3> QED BY <3>1, <2>0
    <2>2. CASE o \in pending
      <3>0. Unheard(o) = events[o] \o stdout
        BY <2>2 DEF Unheard
      <3>1. CASE o # r
        <4>1. Unheard(o)' = events[o] \o Tail(stdout)
          BY <2>2, <3>1, <1>2, <1>5, <1>12 DEF Unheard
        <4>2. Ordered(o, events[o] \o stdout, accepted[o]) /\ Head(stdout).id # o
          BY <2>0, <3>0, <3>1, <1>f0, <1>4
        <4>3. Ordered(o, events[o] \o Tail(stdout), accepted[o])
          BY <2>0, <4>2, <1>2, <1>3, OthersFrame
        <4> QED BY <4>1, <4>3
      <3>2. CASE o = r
        <4>1. events[o] \o stdout = Append(events[o], Head(stdout)) \o Tail(stdout)
          BY <2>0, <1>2, <1>3, Shift
        <4>2. events'[o] = Append(events[o], Head(stdout)) /\ events'[o] \in Seq(Events)
          BY <2>2, <3>2, <1>f0, <1>5, <1>7
        <4>3. Ordered(o, events'[o] \o stdout', accepted[o])
          BY <2>0, <3>0, <4>1, <4>2, <1>2
        <4>4. Ordered(o, events'[o], accepted[o])
          BY <2>0, <4>2, <4>3, <1>3, PrefixOrdered
        <4>5. Unheard(o)' = IF o \in pending' THEN events'[o] \o stdout' ELSE events'[o]
          BY <4>2, ConcatEmptySeq DEF Unheard
        <4> QED BY <4>3, <4>4, <4>5
      <3> QED BY <3>1, <3>2
    <2> QED BY <2>1, <2>2
  <1>h. HeadersAreWritten => Exclusive'
    <2> SUFFICES ASSUME HeadersAreWritten PROVE Exclusive'
      OBVIOUS
    <2>1. ASSUME NEW o \in Requests, NEW t \in Slots, Engages(o, t), o \in pending PROVE o \in pending'
      <3>1. CASE InEngine(o)
        <4>1. ~Said(o, Endings \cup {"NOT_FOUND"})
          BY <3>1, <1>1 DEF Working
        <4>2. o # r \/ f.kind \notin Endings \cup {"NOT_FOUND"}
          BY <4>1, <1>9 DEF Said
        <4> QED BY <2>1, <4>2, <1>12, <1>14
      <3>2. CASE ~InEngine(o)
        <4>1. PICK i \in DOMAIN stdin : stdin[i].kind = "SUBMIT" /\ stdin[i].id = o
          BY <2>1, <3>2 DEF Engages, InEngine
        <4>2. ~Said(o, EngineKinds)
          BY <4>1, <1>1 DEF Unread
        <4> QED BY <2>1, <4>2, <1>9, <1>12
      <3> QED BY <3>1, <3>2
    <2> QED BY <1>1, <1>2, <1>11, <2>1 DEF Exclusive
  <1>p. Placed'
    BY <1>1, <1>2, <1>11 DEF Placed
  <1> QED BY <1>a, <1>b, <1>c, <1>d, <1>e, <1>f, <1>g, <1>h, <1>p DEF Inv

----------------------------------------------------------------------------
LEMMA InitOfInv ==
    Init => Inv
  <1> SUFFICES ASSUME Init PROVE Inv
    OBVIOUS
  <1>1. None \notin Requests /\ NSlots \in Nat /\ NSlots > 0 /\ MaxTokens \in Nat
    BY GatewayAssumption
  <1>2. /\ \A r, K : ~Sent(r, K) /\ ~Said(r, K)
        /\ \A r \in Requests : \A K : ~Heard(r, K)
        /\ \A r \in Requests : ~InEngine(r)
        /\ \A r \in Requests, s \in Slots : ~Engages(r, s)
    BY <1>1 DEF Init, Sent, Said, Heard, InEngine, Engages
  <1>3. Typed
    <2>1. /\ hpc \in [Requests -> Phases] /\ slot \in [Requests -> Slots \cup {None}]
          /\ events \in [Requests -> Seq(Events)] /\ \A r \in Requests : DOMAIN events[r] = {}
          /\ accepted \in [Requests -> BOOLEAN] /\ asked \in [Requests -> {None, "STOP", "CANCEL"}]
      BY KindsAndTypes DEF Init, Phases
    <2>2. stdin \in Seq(Lines) /\ stdout \in Seq(EngineFrames)
      BY KindsAndTypes DEF Init
    <2>3. req \in [Slots -> Requests \cup {None}] /\ emitted \in [Slots -> 0..MaxTokens]
      BY <1>1 DEF Init
    <2>4. spec \in BOOLEAN
      <3>1. spec \in (IF NSlots = 1 THEN BOOLEAN ELSE {FALSE})
        BY DEF Init
      <3> QED BY <3>1
    <2>5. epc = "poll" /\ alive = TRUE /\ dispatcher = "running" /\ closing = "no" /\ pending = {}
      BY DEF Init
    <2> QED BY <2>1, <2>2, <2>3, <2>4, <2>5 DEF Typed
  <1>4. Engine
    BY <1>1 DEF Init, Engine
  <1>5. Fresh
    BY <1>2, KindsAndTypes DEF Init, Fresh, Early
  <1>6. Unread /\ Working /\ Begun /\ Told
    BY <1>2 DEF Init, Unread, Working, Begun, Told
  <1>7. InOrder
    BY DEF Init, InOrder
  <1>8. Exclusive /\ Placed
    BY <1>2 DEF Init, Exclusive, Placed
  <1> QED BY <1>3, <1>4, <1>5, <1>6, <1>7, <1>8 DEF Inv

LEMMA StutterStep ==
    ASSUME Inv, UNCHANGED vars
    PROVE  Inv'
  BY MarkStep DEF vars, gateway, Inv, Typed, Engine

LEMMA NextStep ==
    ASSUME Inv, [Next]_vars
    PROVE  Inv'
  <1>1. ASSUME NEW r \in Requests, Handler(r) PROVE Inv'
    BY <1>1, AdmitStep, RegisterStep, WriteSubmitStep, TakeAcceptStep, TakeDataStep, TakeTerminalStep,
       LeaveStep DEF Handler
  <1>2. CASE DispatcherStops
    BY <1>2, MarkStep DEF DispatcherStops, OutsideGateway, Inv, Typed
  <1>3. CASE DispatcherFailsPending
    BY <1>3, FailPendingStep DEF DispatcherFailsPending
  <1>4. CASE Close
    BY <1>4, MarkStep DEF Close, OutsideGateway, Inv, Typed, Engine
  <1>5. CASE CloseFailsPending
    BY <1>5, FailPendingStep DEF CloseFailsPending
  <1>6. CASE Terminate
    BY <1>6, EngineGoneStep DEF Terminate
  <1>7. CASE EngineExits
    BY <1>7, EngineGoneStep DEF EngineExits, gateway
  <1>8. CASE EngineStep
    BY <1>8, ReadStopStep, ReadSubmitStep, SkipPollStep, PrefillStep, CtlReadStep, CtlDoneStep,
       DecodeRowStep, SpecEmitStep, SpecEndStep DEF EngineStep
  <1> QED BY <1>1, <1>2, <1>3, <1>4, <1>5, <1>6, <1>7, <1>8, DispatchStep, InterruptStep, StutterStep
          DEF Next, Dispatcher, Closer

LEMMA Invariance ==
    Spec => []Inv
  <1>1. Inv /\ [Next]_vars => Inv'
    BY NextStep
  <1> QED BY <1>1, InitOfInv, PTL DEF Spec

\* The types of the variables.
THEOREM TypeCorrect ==
    Spec => []TypeOK
  <1>1. Inv => TypeOK
    BY DEF Inv, Typed, Engine, TypeOK, Active, Phases
  <1> QED BY <1>1, Invariance, PTL

\* The frames of a request come in the order that docs/serve_protocol.md and
\* mux_submit state, for any number of requests and slots.
THEOREM FramesAreInOrder ==
    Spec => []FramesInOrder
  <1>1. ASSUME Inv PROVE FramesInOrder
    <2> SUFFICES ASSUME NEW r \in Requests, hpc[r] = "waiting", NEW i \in Own(r)
                 PROVE  LET kind == Unheard(r)[i].kind
                            first == ~accepted[r] /\ \A j \in Own(r) : i <= j
                        IN
                        /\ kind = "ACCEPT" <=> first /\ kind \notin {"REFUSED", "SLOT_BUSY", "FAILED"}
                        /\ kind \in {"REFUSED", "SLOT_BUSY"} => first
                        /\ \A j \in Own(r) : j < i /\ Unheard(r)[j].kind \in Terminal => kind = "NOT_FOUND"
      BY DEF FramesInOrder
    <2> DEFINE u == Unheard(r)
    <2>1. u \in Seq(Events)
      <3>1. events[r] \in Seq(Events) /\ stdout \in Seq(Events) /\ <<>> \in Seq(Events)
        BY <1>1, TypedAt, KindsAndTypes DEF Inv
      <3>2. events[r] \o stdout \in Seq(Events) /\ events[r] \o <<>> \in Seq(Events)
        BY <3>1, ConcatAt
      <3> QED BY <3>2 DEF Unheard
    <2>2. Ordered(r, u, accepted[r])
      BY <1>1 DEF Inv, InOrder
    <2>3. Own(r) = {j \in DOMAIN u : u[j].id = r}
      BY DEF Own
    <2> HIDE DEF u
    <2>4. DOMAIN u = 1..Len(u) /\ Len(u) \in Nat
      BY <2>1, SeqAt
    <2>5. i \in DOMAIN u /\ u[i].id = r /\ i \in Nat
      BY <2>3, <2>4
    <2>6. u[i].kind \in Opening => ~accepted[r] /\ \A j \in Own(r) : i <= j
      BY <2>2, <2>3, <2>5 DEF Ordered
    <2>7. ASSUME u[i].kind \notin Opening \cup {"FAILED"} PROVE ~(~accepted[r] /\ \A j \in Own(r) : i <= j)
      <3>1. accepted[r] \/ \E j \in 1..(i - 1) : u[j].id = r
        BY <2>2, <2>5, <2>7 DEF Ordered
      <3>2. ASSUME NEW j \in 1..(i - 1), u[j].id = r PROVE j \in Own(r) /\ ~(i <= j)
        BY <3>2, <2>3, <2>4, <2>5
      <3> QED BY <3>1, <3>2
    <2>8. \A j \in Own(r) : j < i /\ u[j].kind \in Terminal => u[i].kind = "NOT_FOUND"
      BY <2>2, <2>3, <2>5 DEF Ordered
    <2> QED BY <2>6, <2>7, <2>8 DEF Opening, u
  <1> QED BY <1>1, Invariance, PTL

\* Whoever is taken out of pending is told: by the frame that ended the
\* request, or when the dispatcher or the server gives up.
THEOREM NobodyIsOrphaned ==
    Spec => []NoOrphan
  <1>1. Inv => NoOrphan
    BY DEF Inv, Told, Heard, NoOrphan
  <1> QED BY <1>1, Invariance, PTL

\* When the engine answers NOT_FOUND, the dispatcher has already removed the
\* request.
THEOREM LateStopsAreSilent ==
    Spec => []LateStopIsSilent
  <1>1. Inv => LateStopIsSilent
    BY DEF Inv, Told, Heard, LateStopIsSilent
  <1> QED BY <1>1, Invariance, PTL

\* The scheduler of the gateway and the slots of the engine agree, until the
\* server is closed.
THEOREM SlotsAgree ==
    ASSUME HeadersAreWritten
    PROVE  Spec => []EngineSlotsAreHeld
  <1>1. ASSUME Inv PROVE EngineSlotsAreHeld
    <2> SUFFICES ASSUME closing = "no", NEW s \in DOMAIN req, req[s] # None PROVE slot[req[s]] = s
      BY DEF EngineSlotsAreHeld
    <2>1. s \in Slots /\ req[s] \in Requests
      BY <1>1 DEF Inv, Typed
    <2>2. Engages(req[s], s)
      BY DEF Engages
    <2> QED BY <1>1, <2>1, <2>2 DEF Inv, Exclusive
  <1> QED BY <1>1, Invariance, PTL

\* No SUBMIT waits in the pipe while the engine polls it in the middle of a
\* speculative turn.
THEOREM NoSubmitWhileBusy ==
    ASSUME HeadersAreWritten
    PROVE  Spec => []SlotNeverBusy
  <1>1. ASSUME Inv, stdin # <<>>, Head(stdin).kind = "SUBMIT", epc = "ctl" PROVE FALSE
    <2>1. 1 \in DOMAIN stdin /\ Head(stdin) = stdin[1] /\ stdin[1] \in Lines
      BY <1>1, TailAt, SeqAt DEF Inv, Typed
    <2>2. PICK r \in Requests, t \in Slots : stdin[1] = [kind |-> "SUBMIT", id |-> r, slot |-> t]
      BY <1>1, <2>1 DEF Lines
    <2>3. PICK s \in Slots : req[s] # None /\ NSlots = 1
      BY <1>1 DEF Inv, Engine
    <2>4. s = t /\ req[s] \in Requests
      <3>1. Slots = {0}
        BY <2>3 DEF Slots
      <3> QED BY <3>1, <2>3, <1>1 DEF Inv, Typed
    <2>5. Engages(r, t) /\ Engages(req[s], s)
      BY <2>1, <2>2 DEF Engages
    <2>6. req[s] = r
      BY <1>1, <2>2, <2>4, <2>5 DEF Inv, Exclusive
    <2>7. ~InEngine(r)
      BY <1>1, <2>1, <2>2, NoEarlierFrame
    <2> QED BY <2>6, <2>7 DEF InEngine
  <1>2. Inv => SlotNeverBusy
    BY <1>1 DEF SlotNeverBusy
  <1> QED BY <1>2, Invariance, PTL
=============================================================================
