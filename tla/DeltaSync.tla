----------------------------- MODULE DeltaSync -----------------------------
(***************************************************************************)
(* Incremental sync of one list between the server and the mobile app's    *)
(* encrypted store (ADR-0025 WP6), both ends: the changes_since pages of   *)
(* the server (changesync.go, conversation_changes.go) and the engine that *)
(* applies them (sync/engine.ts, the specs of syncManager.ts, repo.ts).    *)
(*                                                                         *)
(* A write is stamped when its statement runs and visible when its         *)
(* transaction commits; a page is three statements (clock, rows,           *)
(* tombstones), each seeing what is committed then.  On the device a page  *)
(* is applied in one transaction with the cursor that follows it.  A list  *)
(* has one run at a time (SyncManager.running), a transcript may have two: *)
(* the project's run and the one an opened thread starts.                  *)
(*                                                                         *)
(* Stamps are clock readings; an item's stamps are distinct, and its       *)
(* content is identified by its stamp.                                     *)
(***************************************************************************)
EXTENDS Naturals, FiniteSets

CONSTANTS
    NItems,     \* BOUND: items are numbered 1 .. NItems, in id order
    Runners,    \* the runs that may be under way at once over this list
    Transcript, \* the list is a transcript: its cursor is deleted with its rows
    PageLimit,  \* rows and tombstones per page (MaxLimit)
    Window,     \* SettleWindow
    Retention,  \* TombstoneRetention
    MaxNow,     \* BOUND: the last clock reading
    MaxGen      \* BOUND: generation after which no role change is explored

ASSUME NItemsAssumption == NItems \in Nat /\ PageLimit \in Nat \ {0}
ASSUME TimeAssumption ==
    /\ Window \in Nat \ {0} /\ Retention \in Nat \ {0} /\ Window <= Retention
    /\ MaxNow \in Nat /\ MaxGen \in Nat
ASSUME TranscriptAssumption == Transcript \in BOOLEAN

Items == 1 .. NItems

\* Position: a place in a stream ordered by (stamp, id); LastId is math.MaxInt64.
LastId == NItems + 1
Position(at, id) == <<at, id>>
After(p, q) == p[1] > q[1] \/ (p[1] = q[1] /\ p[2] > q[2])
Start == Position(0, 0)

\* A cursor: "0" (a full sync), or a position in each of the two streams.
Cursor(rowsPos, tombsPos) == [full |-> FALSE, rows |-> rowsPos, tombs |-> tombsPos]
FullCursor == [full |-> TRUE, rows |-> Start, tombs |-> Start]

VARIABLES
    now,       \* the database clock
    ver,       \* per item: sync_at of its committed row, 0 before it exists
    dead,      \* per item: deleted_at, 0 while it is not deleted
    purged,    \* items whose tombstone the retention sweep deleted
    writing,   \* per item: stamp of its uncommitted write, 0 if none
    deleting,  \* items whose uncommitted write is a deletion
    store,     \* device, per item: stamp of the stored row, 0 if not stored
    rowGen,    \* device, per item: sync_gen of the stored row
    known,     \* device: the list has a sync_state row
    state,     \* device: that row (cursor, gen, full_gen); full_gen 0 is NULL
    evicted,   \* device: items retention dropped since they were last delivered
    pc,        \* per run: where syncScope waits
    mem,       \* per run: its in-memory state row
    resets,    \* per run: full resyncs it started after a refused cursor
    page       \* per run: the page being read or applied

serverVars == <<now, ver, dead, purged, writing, deleting>>
deviceVars == <<store, rowGen, known, state, evicted>>
runVars    == <<pc, mem, resets, page>>
vars == <<serverVars, deviceVars, runVars>>

NewState == [cursor |-> FullCursor, gen |-> 0, fullGen |-> 0]
NoPage == [at |-> 0, rows |-> [i \in Items |-> 0], tombs |-> {}, next |-> FullCursor, more |-> FALSE]

Max2(a, b) == IF a > b THEN a ELSE b

Positions == Nat \X Nat
Cursors == [full : BOOLEAN, rows : Positions, tombs : Positions]
States == [cursor : Cursors, gen : Nat, fullGen : Nat]
Pages == [at : Nat, rows : [Items -> Nat], tombs : SUBSET Items, next : Cursors, more : BOOLEAN]

TypeOK ==
    /\ now \in Nat
    /\ ver \in [Items -> Nat] /\ dead \in [Items -> Nat] /\ writing \in [Items -> Nat]
    /\ purged \subseteq Items /\ deleting \subseteq Items
    /\ store \in [Items -> Nat] /\ rowGen \in [Items -> Nat] /\ evicted \subseteq Items
    /\ known \in BOOLEAN /\ state \in States
    /\ pc \in [Runners -> {"idle", "reset", "fetch", "rows", "tombs", "apply"}]
    /\ mem \in [Runners -> States] /\ resets \in [Runners -> {0, 1}]
    /\ page \in [Runners -> Pages]

Init ==
    /\ now = Window + 1
    /\ ver = [i \in Items |-> 0] /\ dead = [i \in Items |-> 0] /\ purged = {}
    /\ writing = [i \in Items |-> 0] /\ deleting = {}
    /\ store = [i \in Items |-> 0] /\ rowGen = [i \in Items |-> 0] /\ evicted = {}
    /\ known = FALSE /\ state = NewState
    /\ pc = [r \in Runners |-> "idle"] /\ mem = [r \in Runners |-> NewState]
    /\ resets = [r \in Runners |-> 0] /\ page = [r \in Runners |-> NoPage]

-----------------------------------------------------------------------------
(* The server. *)

Alive(i) == ver[i] # 0 /\ dead[i] = 0

\* Time passes; a write is committed before it leaves the settle window.
Tick ==
    /\ now < MaxNow
    /\ \A i \in Items : writing[i] # 0 => now + 1 - Window < writing[i]
    /\ now' = now + 1
    /\ UNCHANGED <<ver, dead, purged, writing, deleting, deviceVars, runVars>>

\* A statement creates, changes or deletes an item: the trigger stamps it.
Write(i, deletion) ==
    /\ dead[i] = 0 /\ writing[i] = 0 /\ now > ver[i] /\ now + Window < MaxNow
    /\ deletion => ver[i] # 0
    /\ writing' = [writing EXCEPT ![i] = now]
    /\ deleting' = IF deletion THEN deleting \cup {i} ELSE deleting
    /\ UNCHANGED <<now, ver, dead, purged, deviceVars, runVars>>

\* Its transaction commits: the new row, or the tombstone, is visible.
Commit(i) ==
    /\ writing[i] # 0
    /\ IF i \in deleting
       THEN dead' = [dead EXCEPT ![i] = writing[i]] /\ UNCHANGED ver
       ELSE ver' = [ver EXCEPT ![i] = writing[i]] /\ UNCHANGED dead
    /\ writing' = [writing EXCEPT ![i] = 0] /\ deleting' = deleting \ {i}
    /\ UNCHANGED <<now, purged, deviceVars, runVars>>

\* elitea-scheduler deletes a tombstone older than the retention.  A request is
\* assumed not to straddle the instant its tombstones expire.
Purge(i) ==
    /\ dead[i] # 0 /\ i \notin purged /\ dead[i] + Retention < now
    /\ \A r \in Runners : pc[r] \in {"rows", "tombs"} => dead[i] + Retention < page[r].at
    /\ purged' = purged \cup {i}
    /\ UNCHANGED <<now, ver, dead, writing, deleting, deviceVars, runVars>>

\* The items of a stream after a position, and the ones a page carries.
Behind(stamps, pos) == {i \in Items : stamps[i] # 0 /\ After(Position(stamps[i], i), pos)}
Served(stamps, pos) ==
    LET ahead == Behind(stamps, pos)
    IN {i \in ahead :
          Cardinality({j \in ahead : ~After(Position(stamps[j], j), Position(stamps[i], i))}) <= PageLimit}

\* The mutated form of Advance: the cursor moves to the last item returned, settled or not.
AdvanceToLast(stamps, pos, bound) ==
    LET served == Served(stamps, pos)
        last == CHOOSE i \in served : \A j \in served : ~After(Position(stamps[j], j), Position(stamps[i], i))
    IN IF served # {} THEN [pos |-> Position(stamps[last], last), more |-> served # Behind(stamps, pos)]
       ELSE [pos |-> pos, more |-> FALSE]

\* Advance: the last item of a page that was cut short before the settle bound,
\* else everything up to the bound; never backwards.
Advance(stamps, pos, bound) ==
    LET served == Served(stamps, pos)
        last == CHOOSE i \in served : \A j \in served : ~After(Position(stamps[j], j), Position(stamps[i], i))
        ceiling == Position(bound, LastId)
        truncated == served # Behind(stamps, pos)
    IN IF truncated /\ ~After(Position(stamps[last], last), ceiling)
       THEN [pos |-> Position(stamps[last], last), more |-> TRUE]
       ELSE [pos |-> IF After(ceiling, pos) THEN ceiling ELSE pos, more |-> FALSE]

\* CheckExpiry: the tombstone position is older than the retention.
Expired(c) == ~c.full /\ c.tombs[1] + Retention < now

AliveStamps == [i \in Items |-> IF Alive(i) THEN ver[i] ELSE 0]
TombStamps == [i \in Items |-> IF i \in purged THEN 0 ELSE dead[i]]

-----------------------------------------------------------------------------
(* A run of the device: syncScope. *)

Stop(r) == pc' = [pc EXCEPT ![r] = "idle"] /\ page' = [page EXCEPT ![r] = NoPage]
                /\ mem' = [mem EXCEPT ![r] = NewState] /\ resets' = [resets EXCEPT ![r] = 0]

\* readState: the stored state row, inserted when there is none.
Begin(r) ==
    /\ pc[r] = "idle"
    /\ known' = TRUE
    /\ mem' = [mem EXCEPT ![r] = state]
    /\ pc' = [pc EXCEPT ![r] = IF known /\ ~(state.cursor.full /\ state.fullGen = 0) THEN "fetch" ELSE "reset"]
    /\ UNCHANGED <<serverVars, store, rowGen, state, evicted, resets, page>>

\* The mutated form of Reset: the resync reuses the current generation.
ResetSameGen(r) ==
    /\ pc[r] = "reset"
    /\ LET next == [mem[r] EXCEPT !.cursor = FullCursor, !.fullGen = Max2(Max2(mem[r].gen, mem[r].fullGen), 1)]
       IN /\ mem' = [mem EXCEPT ![r] = next]
          /\ state' = IF known THEN [state EXCEPT !.cursor = FullCursor, !.fullGen = next.fullGen] ELSE state
    /\ pc' = [pc EXCEPT ![r] = "fetch"]
    /\ UNCHANGED <<serverVars, store, rowGen, known, evicted, resets, page>>

\* startFullResync: from "0" under a new generation.
Reset(r) ==
    /\ pc[r] = "reset"
    /\ LET next == [mem[r] EXCEPT !.cursor = FullCursor, !.fullGen = Max2(mem[r].gen, mem[r].fullGen) + 1]
       IN /\ mem' = [mem EXCEPT ![r] = next]
          /\ state' = IF known THEN [state EXCEPT !.cursor = FullCursor, !.fullGen = next.fullGen] ELSE state
    /\ pc' = [pc EXCEPT ![r] = "fetch"]
    /\ UNCHANGED <<serverVars, store, rowGen, known, evicted, resets, page>>

\* The request arrives: the server reads its clock and accepts the cursor.
Fetch(r) ==
    /\ pc[r] = "fetch" /\ ~Expired(mem[r].cursor)
    /\ page' = [page EXCEPT ![r] = [NoPage EXCEPT !.at = now]]
    /\ pc' = [pc EXCEPT ![r] = "rows"]
    /\ UNCHANGED <<serverVars, deviceVars, mem, resets>>

\* The mutated form of Refuse: every refused cursor starts another full resync.
RefuseEvery(r) ==
    /\ pc[r] = "fetch" /\ ~mem[r].cursor.full
    /\ Expired(mem[r].cursor) \/ Max2(mem[r].gen, mem[r].fullGen) < MaxGen
    /\ resets' = [resets EXCEPT ![r] = @ + 1] /\ pc' = [pc EXCEPT ![r] = "reset"]
    /\ UNCHANGED <<serverVars, deviceVars, mem, page>>

\* The cursor is refused: expired (410), or issued under another role (410) or
\* filter (400).  One full resync per run; a second refusal ends it.
Refuse(r) ==
    /\ pc[r] = "fetch" /\ ~mem[r].cursor.full
    /\ Expired(mem[r].cursor) \/ Max2(mem[r].gen, mem[r].fullGen) < MaxGen
    /\ IF resets[r] = 0
       THEN /\ resets' = [resets EXCEPT ![r] = 1] /\ pc' = [pc EXCEPT ![r] = "reset"]
            /\ UNCHANGED <<mem, page>>
       ELSE Stop(r)
    /\ UNCHANGED <<serverVars, deviceVars>>

\* The rows statement.
ReadRows(r) ==
    /\ pc[r] = "rows"
    /\ LET from == IF mem[r].cursor.full THEN Start ELSE mem[r].cursor.rows
           step == Advance(AliveStamps, from, page[r].at - Window)
       IN page' = [page EXCEPT ![r].rows = [i \in Items |-> IF i \in Served(AliveStamps, from) THEN ver[i] ELSE 0],
                               ![r].next = Cursor(step.pos, Start),
                               ![r].more = step.more]
    /\ pc' = [pc EXCEPT ![r] = "tombs"]
    /\ UNCHANGED <<serverVars, deviceVars, mem, resets>>

\* The mutated form of TombstonesFrom: a full sync's tombstones start at the clock.
TombstonesFromNow(c, bound) == IF c.full THEN Position(bound + Window, LastId) ELSE c.tombs

\* TombstonesStart: a full sync's tombstones start at the settle bound.
TombstonesFrom(c, bound) == IF c.full THEN Position(bound, 0) ELSE c.tombs

\* The tombstone statement; the page is answered.
ReadTombs(r) ==
    /\ pc[r] = "tombs"
    /\ LET bound == page[r].at - Window
           from == TombstonesFrom(mem[r].cursor, bound)
           step == Advance(TombStamps, from, bound)
       IN page' = [page EXCEPT ![r].tombs = Served(TombStamps, from),
                               ![r].next = Cursor(@.rows, step.pos),
                               ![r].more = @ \/ step.more]
    /\ pc' = [pc EXCEPT ![r] = "apply"]
    /\ UNCHANGED <<serverVars, deviceVars, mem, resets>>

\* The state row a page leads to.
Followed(r) ==
    IF ~page[r].more /\ mem[r].fullGen # 0
    THEN [cursor |-> page[r].next, gen |-> mem[r].fullGen, fullGen |-> 0]
    ELSE [mem[r] EXCEPT !.cursor = page[r].next]

WriteGen(r) == IF mem[r].fullGen # 0 THEN mem[r].fullGen ELSE mem[r].gen

\* The stored stamp of an item after a page: tombstones first, then rows.
AfterPage(r, i) ==
    IF page[r].rows[i] # 0 THEN page[r].rows[i]
    ELSE IF i \in page[r].tombs THEN 0
    ELSE store[i]

GenAfterPage(r, i) == IF page[r].rows[i] # 0 THEN WriteGen(r) ELSE rowGen[i]

\* The mutated form of Swept: the sweep runs with every page of a full resync.
SweptEveryPage(r, i) == mem[r].fullGen # 0 /\ GenAfterPage(r, i) < mem[r].fullGen

\* The last page of a full resync sweeps what the pass did not return.
Swept(r, i) == ~page[r].more /\ mem[r].fullGen # 0 /\ GenAfterPage(r, i) < mem[r].fullGen

\* The page, the sweep and the cursor, in one transaction; then the next page,
\* or the end of the run (the last page, or a cursor that did not move).
Apply(r) ==
    /\ pc[r] = "apply"
    /\ store' = [i \in Items |-> IF Swept(r, i) THEN 0 ELSE AfterPage(r, i)]
    /\ rowGen' = [i \in Items |-> IF store'[i] = 0 THEN 0 ELSE GenAfterPage(r, i)]
    /\ state' = IF known THEN Followed(r) ELSE state
    /\ evicted' = {i \in evicted : page[r].rows[i] = 0 /\ i \notin page[r].tombs}
    /\ IF page[r].more /\ page[r].next # mem[r].cursor
       THEN /\ mem' = [mem EXCEPT ![r] = Followed(r)] /\ pc' = [pc EXCEPT ![r] = "fetch"]
            /\ page' = [page EXCEPT ![r] = NoPage] /\ UNCHANGED resets
       ELSE Stop(r)
    /\ UNCHANGED <<serverVars, known>>

\* The run ends early: no answer, a malformed page, the page cap, the store
\* closed, or the app killed.  Nothing stored changes.
Abandon(r) ==
    /\ pc[r] # "idle" /\ Stop(r)
    /\ UNCHANGED <<serverVars, deviceVars>>

Forget ==
    /\ store' = [i \in Items |-> 0] /\ rowGen' = [i \in Items |-> 0] /\ evicted' = {}
    /\ known' = FALSE /\ state' = NewState

\* 403 (or 404 on a transcript): everything stored for the list goes.
Forbidden(r) ==
    /\ pc[r] = "fetch" /\ Forget /\ Stop(r)
    /\ UNCHANGED serverVars

\* Retention: a list loses one item and keeps its cursor; a transcript goes as
\* a unit, with its cursor.
Evict(i) ==
    /\ store[i] # 0
    /\ IF Transcript THEN Forget
       ELSE /\ store' = [store EXCEPT ![i] = 0] /\ rowGen' = [rowGen EXCEPT ![i] = 0]
            /\ evicted' = evicted \cup {i} /\ UNCHANGED <<known, state>>
    /\ UNCHANGED <<serverVars, runVars>>

RunStep(r) ==
    Begin(r) \/ Reset(r) \/ Fetch(r) \/ Refuse(r) \/ ReadRows(r) \/ ReadTombs(r) \/ Apply(r)

Next ==
    \/ Tick
    \/ \E i \in Items : Commit(i) \/ Purge(i) \/ Evict(i) \/ \E d \in BOOLEAN : Write(i, d)
    \/ \E r \in Runners : RunStep(r) \/ Abandon(r) \/ Forbidden(r)

Spec == Init /\ [][Next]_vars

\* The clock and the transactions go on; runs are asked for again and again and
\* in the end one is answered to its last page.
Fairness ==
    /\ WF_vars(Tick) /\ \A i \in Items : WF_vars(Commit(i))
    /\ \A r \in Runners :
          /\ WF_vars(Begin(r)) /\ SF_vars(Reset(r)) /\ SF_vars(Fetch(r) \/ Refuse(r))
          /\ SF_vars(ReadRows(r)) /\ SF_vars(ReadTombs(r)) /\ SF_vars(Apply(r))

FairSpec == Spec /\ Fairness

-----------------------------------------------------------------------------
(* Properties. *)

\* What the store has of an item is what the server has.
Current(i) == store[i] = (IF Alive(i) THEN ver[i] ELSE 0)

\* The stored cursor never passes a change the store does not have: whatever is
\* missing, outdated or deleted on the server will still be delivered after it,
\* or the cursor is expired and the list resynced (the settle window, the page
\* in one transaction with its cursor, the sweep of a full resync).
CursorCovers ==
    known /\ ~state.cursor.full /\ state.fullGen = 0 =>
        \A i \in Items \ evicted :
            \/ Current(i)
            \/ Alive(i) /\ After(Position(ver[i], i), state.cursor.rows)
            \/ dead[i] # 0 /\ After(Position(dead[i], i), state.cursor.tombs)

\* "Rows the full pass did not return are swept when its last page lands": once a
\* full resync has ended, an item the server deleted is stored only while its
\* tombstone is still to come.
ResyncSweeps ==
    known /\ ~state.cursor.full /\ state.fullGen = 0 =>
        \A i \in Items : store[i] # 0 /\ dead[i] # 0 => After(Position(dead[i], i), state.cursor.tombs)

\* "The old rows stay readable until then, so an interrupted resync loses
\* nothing": a page removes an item the server still has only when its last
\* change was still settling when the page was read.
ResyncLosesNothing ==
    [][\A i \in Items, r \in Runners :
         pc[r] = "apply" /\ pc'[r] # "apply" /\ store[i] # 0 /\ store'[i] = 0
         => dead[i] # 0 \/ writing[i] # 0 \/ ver[i] > page[r].at - Window]_vars

\* Once the server's writes are over, a list that is not dropped for good ends
\* with exactly the server's items, bar the ones retention dropped: every refused
\* cursor, cut page and interrupted resync is made up for by a later run.
CatchesUp == <>[]known => <>[](\A i \in Items \ evicted : Current(i))

=============================================================================
