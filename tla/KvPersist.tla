----------------------------- MODULE KvPersist -----------------------------
(***************************************************************************)
(* c/kv_persist.h and its callers in run_serve_mux of c/colibri.c: the     *)
(* .coli_kv file of one KV slot, through turns, crashes and restarts.      *)
(*                                                                         *)
(* The KV row of position p is a function of the tokens up to p, so a row  *)
(* is modelled as that prefix.  The file is a header and an array of       *)
(* cells; a record takes as many cells as its layout is wide (rows carry   *)
(* the DSA indexer keys or not), so records of two layouts overlap.  One   *)
(* step writes one cell or one header field; a crash may fall between any  *)
(* two steps and keeps what was written: the process dies, not the disk.   *)
(***************************************************************************)
EXTENDS Naturals, Sequences, SequencesExt

CONSTANTS Tokens,     \* the vocabulary
          Layouts,    \* row layouts a process may run with (DSA on or off)
          Width,      \* cells per record, for each layout
          Contexts,   \* the values of CTX a process may be started with
          Margin,     \* 8+g_draft of kv_disk_load
          MaxTurns,   \* bound on the turns of a run
          MaxCrashes, \* bound on its crashes and restarts
          NoHeader    \* the header of a file that has none

ASSUME KvPersistAssumption ==
    /\ Width \in [Layouts -> Nat \ {0}]
    /\ Contexts \subseteq Nat
    /\ Margin \in Nat \ {0}
    /\ MaxTurns \in Nat /\ MaxCrashes \in Nat
    /\ NoHeader \notin Layouts

VARIABLES
    exists,     \* the file is there
    header,     \* the layout its header names, or NoHeader
    nrec,       \* the record count of its header
    cells,      \* its cells: what was written at each position
    pc,         \* where the process is
    layout,     \* the layout the process runs with
    ctx,        \* its CTX
    rows,       \* the KV rows of the slot: sc->hist, sc->len and Lc, Rc, Ic
    diskNrec,   \* KVState.disk_nrec
    prompt,     \* the prompt of the turn
    at,         \* cells of the append still to come start here
    turns, crashes

file == <<exists, header, nrec, cells>>
process == <<layout, ctx, rows, diskNrec, prompt, at>>
counts == <<turns, crashes>>
vars == <<file, pc, process, counts>>

\* Row p (from 1) of a conversation is its prefix of length p.
RowsOf(hist) == [p \in 1..Len(hist) |-> SubSeq(hist, 1, p)]
\* The tokens of a slot, as far as its rows are sound.
Hist(rs) == IF rs = <<>> THEN <<>> ELSE rs[Len(rs)]
\* What a row reads as when its cells were written as something else.
Garbage == <<>>
Sound(rs) == rs = RowsOf(Hist(rs))

\* All conversations that fit the context c.
Histories(c) == UNION {[1..n -> Tokens] : n \in 0..c}

Init ==
    /\ exists = FALSE /\ header = NoHeader /\ nrec = 0 /\ cells = <<>>
    /\ pc = "down"
    /\ layout \in Layouts
    /\ ctx \in Contexts
    /\ rows = <<>> /\ diskNrec = 0 /\ prompt = <<>> /\ at = 0
    /\ turns = 0 /\ crashes = 0

----------------------------------------------------------------------------
(* The record of row p as layout l lays it out, and what reading it back   *)
(* gives.                                                                  *)
Cell(l, row, part) == [layout |-> l, row |-> row, part |-> part]

Intact(l, p) ==
    LET first == (p - 1) * Width[l] + 1 IN
    /\ first + Width[l] - 1 <= Len(cells)
    /\ \A k \in 0..(Width[l] - 1) :
         /\ cells[first + k].layout = l
         /\ cells[first + k].row = cells[first].row
         /\ cells[first + k].part = k

ReadRow(l, p) == IF Intact(l, p) THEN cells[(p - 1) * Width[l] + 1].row ELSE Garbage

\* Records below the header's count, up to the end of the file.
Readable(l) == CHOOSE n \in 0..nrec :
    /\ n * Width[l] <= Len(cells)
    /\ n = nrec \/ (n + 1) * Width[l] > Len(cells)

\* kv_disk_load: nothing from another layout, an empty save or one that exceeds the context.
Load(l, c) ==
    IF exists /\ header = l /\ nrec >= 1 /\ nrec + Margin < c
    THEN [p \in 1..Readable(l) |-> ReadRow(l, p)]
    ELSE <<>>

\* serve_ctx_init: a process starts on the file it finds.
Start(l, c) ==
    /\ pc = "down"
    /\ pc' = "ready"
    /\ layout' = l /\ ctx' = c
    /\ rows' = Load(l, c)
    /\ diskNrec' = Len(Load(l, c))
    /\ prompt' = <<>> /\ at' = 0
    /\ UNCHANGED <<file, counts>>

----------------------------------------------------------------------------
(* A turn: mux_submit, the decode, mux_done.                               *)
CommonPrefix(h, k) ==
    Max({n \in 0..Len(h) : n <= Len(k) /\ SubSeq(h, 1, n) = SubSeq(k, 1, n)})

(* The prompt keeps the prefix it shares with the slot's history.  A       *)
(* shorter history is first recorded in the file (kv_disk_truncate).       *)
Submit(p) ==
    /\ pc = "ready"
    /\ turns < MaxTurns
    /\ Len(p) >= 1
    /\ Len(p) <= ctx - 2
    /\ turns' = turns + 1
    /\ prompt' = p
    /\ LET keep == CommonPrefix(Hist(rows), p) IN
         /\ rows' = SubSeq(rows, 1, keep)
         /\ pc' = IF keep < Len(rows) THEN "truncate" ELSE "prefill"
    /\ UNCHANGED <<file, layout, ctx, diskNrec, at, crashes>>

\* Mutants: the file's count is not lowered; the copy in memory is not.
TruncateInMemory ==
    /\ pc = "truncate"
    /\ pc' = "prefill"
    /\ diskNrec' = IF exists THEN Len(rows) ELSE 0
    /\ UNCHANGED <<file, layout, ctx, rows, prompt, at, counts>>

TruncateOnDisk ==
    /\ pc = "truncate"
    /\ pc' = "prefill"
    /\ nrec' = IF exists THEN Len(rows) ELSE nrec
    /\ UNCHANGED <<exists, header, cells, process, counts>>

Truncate ==
    /\ pc = "truncate"
    /\ pc' = "prefill"
    /\ diskNrec' = IF exists THEN Len(rows) ELSE 0
    /\ nrec' = IF exists THEN Len(rows) ELSE nrec
    /\ UNCHANGED <<exists, header, cells, layout, ctx, rows, prompt, at, counts>>

Prefill ==
    /\ pc = "prefill"
    /\ pc' = "decode"
    /\ rows' = rows \o [i \in 1..(Len(prompt) - Len(rows)) |-> RowsOf(prompt)[Len(rows) + i]]
    /\ UNCHANGED <<file, layout, ctx, diskNrec, prompt, at, counts>>

(* One more token joins the history.  max_tokens is clamped to the room    *)
(* left, and the last token of a turn is not computed.                     *)
Decode(t) ==
    /\ pc = "decode"
    /\ Len(rows) < ctx - 2
    /\ rows' = Append(rows, Append(Hist(rows), t))
    /\ UNCHANGED <<file, pc, layout, ctx, diskNrec, prompt, at, counts>>

(* DONE, STOP and CANCEL all end in kv_disk_append, which returns at once  *)
(* if there is no new row, and else opens the file or makes it.            *)
Finish ==
    /\ pc = "decode"
    /\ pc' = IF Len(rows) <= diskNrec THEN "ready" ELSE IF exists THEN "rows" ELSE "create"
    /\ at' = diskNrec * Width[layout]
    /\ UNCHANGED <<file, layout, ctx, rows, diskNrec, prompt, counts>>

\* kv_disk_open of a file that is not there: fopen, then the header.
CreateFile ==
    /\ pc = "create"
    /\ pc' = "create_header"
    /\ exists' = TRUE
    /\ UNCHANGED <<header, nrec, cells, process, counts>>

CreateHeader ==
    /\ pc = "create_header"
    /\ pc' = "rows"
    /\ header' = layout /\ nrec' = 0
    /\ UNCHANGED <<exists, cells, process, counts>>

\* Mutant: the count goes out with the first row.
WriteCellAndCount ==
    /\ pc = "rows"
    /\ at < Len(rows) * Width[layout]
    /\ LET cell == Cell(layout, rows[(at \div Width[layout]) + 1], at % Width[layout]) IN
         cells' = IF at < Len(cells) THEN [cells EXCEPT ![at + 1] = cell] ELSE Append(cells, cell)
    /\ at' = at + 1
    /\ nrec' = Len(rows)
    /\ UNCHANGED <<exists, header, pc, layout, ctx, rows, diskNrec, prompt, counts>>

(* kv_disk_append writes the rows from disk_nrec on, then the count.       *)
WriteCell ==
    /\ pc = "rows"
    /\ at < Len(rows) * Width[layout]
    /\ LET cell == Cell(layout, rows[(at \div Width[layout]) + 1], at % Width[layout]) IN
         cells' = IF at < Len(cells) THEN [cells EXCEPT ![at + 1] = cell] ELSE Append(cells, cell)
    /\ at' = at + 1
    /\ UNCHANGED <<exists, header, nrec, pc, layout, ctx, rows, diskNrec, prompt, counts>>

WriteNrec ==
    /\ pc = "rows"
    /\ at = Len(rows) * Width[layout]
    /\ pc' = "ready"
    /\ nrec' = Len(rows)
    /\ diskNrec' = Len(rows)
    /\ UNCHANGED <<exists, header, cells, layout, ctx, rows, prompt, at, counts>>

\* The process dies, or is stopped between turns; memory is lost.
Crash ==
    /\ pc # "down"
    /\ crashes < MaxCrashes
    /\ crashes' = crashes + 1
    /\ pc' = "down"
    /\ UNCHANGED <<file, process, turns>>

Next ==
    \/ \E l \in Layouts, c \in Contexts : Start(l, c)
    \/ pc = "ready" /\ turns < MaxTurns /\ \E p \in Histories(ctx) : Submit(p)
    \/ Truncate \/ Prefill \/ Finish \/ CreateFile \/ CreateHeader
    \/ \E t \in Tokens : Decode(t)
    \/ WriteCell \/ WriteNrec \/ Crash

Spec == Init /\ [][Next]_vars

----------------------------------------------------------------------------
TypeOK ==
    /\ pc \in {"down", "ready", "truncate", "prefill", "decode", "create", "create_header", "rows"}
    /\ layout \in Layouts /\ ctx \in Contexts
    /\ header \in Layouts \cup {NoHeader}
    /\ nrec \in Nat /\ diskNrec \in Nat
    /\ \A p \in 1..Len(rows) : rows[p] \in Histories(ctx)
    /\ rows # <<>> => Len(rows) <= ctx - 2

(* The conversation a process works on is one it, or an earlier one, has   *)
(* really computed: a resumed history never mixes rows of two              *)
(* conversations or of two layouts (kv_persist.h, crash-safe: nrec last).  *)
RowsAreOneConversation == pc # "down" => Sound(rows)

(* Killed at any point of a turn, the process leaves a file from which the *)
(* next one resumes a prefix of the conversation that was in memory.  Only *)
(* a turn that has just dropped its tail has yet to say so in the file.    *)
CrashKeepsAPrefix ==
    pc \notin {"down", "truncate"} => IsPrefix(Load(layout, ctx), rows)

(* Between turns the file holds the whole conversation, unless it exceeds  *)
(* the context it could be resumed in or lost its header when it was made; *)
(* and at any time a prefix of it.                                         *)
TurnIsSaved ==
    /\ CrashKeepsAPrefix
    /\ pc = "ready" /\ header # NoHeader /\ Len(rows) >= 1 /\ Len(rows) + Margin < ctx
         => Load(layout, ctx) = rows
=============================================================================
