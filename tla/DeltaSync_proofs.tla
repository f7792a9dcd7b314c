-------------------------- MODULE DeltaSync_proofs --------------------------
(***************************************************************************)
(* TLAPS proofs about DeltaSync, for any number of items, any page limit,  *)
(* settle window and retention.                                            *)
(***************************************************************************)
EXTENDS DeltaSync, TLAPS, FiniteSetTheorems, WellFoundedInduction

-----------------------------------------------------------------------------
(* Order, and the items a page carries. *)

LEMMA LeastNatural ==
  ASSUME NEW S \in SUBSET Nat, S # {}
  PROVE  \E n \in S : \A m \in S : n <= m
<1> DEFINE R == OpToRel(<, Nat)
<1>1. IsWellFoundedOn(R, Nat)
  BY NatLessThanWellFounded
<1>2. ASSUME NEW x \in Nat, NEW y \in Nat, x < y
      PROVE  <<x, y>> \in R
  BY <1>2 DEF OpToRel
<1> HIDE DEF R
<1>3. PICK n \in S : \A m \in S : ~ (<<m, n>> \in R)
  BY <1>1, WFMin
<1>4. ASSUME NEW m \in S
      PROVE  n <= m
  <2>1. m \in Nat /\ n \in Nat
    OBVIOUS
  <2>2. ~ (m < n)
    BY <1>2, <1>3, <2>1
  <2> QED
    BY <2>1, <2>2
<1> QED
  BY <1>4

\* Positions are totally ordered.
LEMMA AfterOrder ==
  /\ \A p \in Positions : ~After(p, p)
  /\ \A p, q \in Positions : After(p, q) => ~After(q, p)
  /\ \A p, q, s \in Positions : After(p, q) /\ After(q, s) => After(p, s)
  /\ \A p, q, s \in Positions : ~After(p, q) /\ ~After(q, s) => ~After(p, s)
<1>1. \A p \in Positions : p[1] \in Nat /\ p[2] \in Nat
  BY DEF Positions
<1> QED
  BY <1>1 DEF After

LEMMA ItemPositions ==
  ASSUME NEW stamps \in [Items -> Nat]
  PROVE  \A i \in Items : /\ Position(stamps[i], i) \in Positions
                          /\ Position(stamps[i], i)[1] = stamps[i] /\ Position(stamps[i], i)[2] = i
<1> SUFFICES ASSUME NEW i \in Items
             PROVE  /\ Position(stamps[i], i) \in Positions
                    /\ Position(stamps[i], i)[1] = stamps[i] /\ Position(stamps[i], i)[2] = i
  OBVIOUS
<1>1. i \in Nat /\ stamps[i] \in Nat
  BY NItemsAssumption DEF Items
<1> QED
  BY <1>1 DEF Positions, Position

LEMMA FiniteItems ==
  ASSUME NEW S \in SUBSET Items
  PROVE  IsFiniteSet(S) /\ Cardinality(S) \in Nat
<1>1. IsFiniteSet(Items)
  <2>1. 1 \in Int /\ NItems \in Int
    BY NItemsAssumption
  <2> QED
    BY <2>1, FS_Interval DEF Items
<1>2. IsFiniteSet(S)
  BY <1>1, FS_Subset
<1> QED
  BY <1>2, FS_CardinalityType

\* The items of S after, and not after, item i in the order of the stamps.
Later(stamps, S, i) == {j \in S : After(Position(stamps[j], j), Position(stamps[i], i))}
UpTo(stamps, S, i) == {j \in S : ~After(Position(stamps[j], j), Position(stamps[i], i))}

LEMMA LastExists ==
  ASSUME NEW stamps \in [Items -> Nat], NEW S \in SUBSET Items, S # {}
  PROVE  \E i \in S : Later(stamps, S, i) = {}
<1> DEFINE Size(i) == Cardinality(Later(stamps, S, i))
<1>1. \A i \in S : Later(stamps, S, i) \in SUBSET Items
  BY DEF Later
<1>2. \A i \in S : IsFiniteSet(Later(stamps, S, i)) /\ Size(i) \in Nat
  BY <1>1, FiniteItems
<1>3. PICK i \in S : \A j \in S : Size(i) <= Size(j)
  <2> DEFINE T == {Size(j) : j \in S}
  <2>1. T \in SUBSET Nat /\ T # {}
    BY <1>2
  <2>2. PICK n \in T : \A m \in T : n <= m
    <3> HIDE DEF T
    <3> QED
      BY <2>1, LeastNatural
  <2> QED
    BY <2>2
<1>4. ASSUME NEW j \in Later(stamps, S, i)
      PROVE  FALSE
  <2>1. j \in S /\ j \in Items /\ i \in Items /\ After(Position(stamps[j], j), Position(stamps[i], i))
    BY DEF Later
  <2>2. ASSUME NEW k \in Later(stamps, S, j)
        PROVE  k \in Later(stamps, S, i)
    BY <2>1, AfterOrder, ItemPositions DEF Later
  <2>3. j \notin Later(stamps, S, j)
    BY <2>1, AfterOrder, ItemPositions DEF Later
  <2>4. Later(stamps, S, j) # Later(stamps, S, i)
    BY <2>3
  <2>5. Later(stamps, S, j) \in SUBSET Later(stamps, S, i)
    BY <2>2
  <2>6. Size(j) <= Size(i) /\ Size(i) # Size(j)
    BY <1>2, <2>4, <2>5, FS_Subset
  <2>7. Size(i) <= Size(j) /\ Size(i) \in Nat /\ Size(j) \in Nat
    BY <1>2, <1>3, <2>1
  <2> HIDE DEF Size
  <2> QED
    BY <2>6, <2>7
<1> QED
  BY <1>4

LEMMA FirstExists ==
  ASSUME NEW stamps \in [Items -> Nat], NEW S \in SUBSET Items, S # {}
  PROVE  \E i \in S : UpTo(stamps, S, i) = {i}
<1> DEFINE Size(i) == Cardinality(UpTo(stamps, S, i))
<1>1. \A i \in S : UpTo(stamps, S, i) \in SUBSET Items
  BY DEF UpTo
<1>2. \A i \in S : IsFiniteSet(UpTo(stamps, S, i)) /\ Size(i) \in Nat
  BY <1>1, FiniteItems
<1>3. PICK i \in S : \A j \in S : Size(i) <= Size(j)
  <2> DEFINE T == {Size(j) : j \in S}
  <2>1. T \in SUBSET Nat /\ T # {}
    BY <1>2
  <2>2. PICK n \in T : \A m \in T : n <= m
    <3> HIDE DEF T
    <3> QED
      BY <2>1, LeastNatural
  <2> QED
    BY <2>2
<1>4. i \in UpTo(stamps, S, i)
  BY AfterOrder, ItemPositions DEF UpTo
<1>5. ASSUME NEW j \in UpTo(stamps, S, i), j # i
      PROVE  FALSE
  <2>1. j \in S /\ j \in Items /\ i \in Items /\ ~After(Position(stamps[j], j), Position(stamps[i], i))
    BY DEF UpTo
  <2>2. After(Position(stamps[i], i), Position(stamps[j], j))
    <3>1. stamps[i] \in Nat /\ stamps[j] \in Nat /\ i \in Nat /\ j \in Nat
      BY <2>1, NItemsAssumption DEF Items
    <3> QED
      BY <1>5, <2>1, <3>1 DEF After, Position
  <2>3. ASSUME NEW k \in UpTo(stamps, S, j)
        PROVE  k \in UpTo(stamps, S, i)
    BY <2>1, AfterOrder, ItemPositions DEF UpTo
  <2>4. i \notin UpTo(stamps, S, j)
    BY <2>2 DEF UpTo
  <2>5. UpTo(stamps, S, j) # UpTo(stamps, S, i)
    BY <1>4, <2>4
  <2>6. UpTo(stamps, S, j) \in SUBSET UpTo(stamps, S, i)
    BY <2>3
  <2>7. Size(j) <= Size(i) /\ Size(i) # Size(j)
    BY <1>2, <2>5, <2>6, FS_Subset
  <2>8. Size(i) <= Size(j) /\ Size(i) \in Nat /\ Size(j) \in Nat
    BY <1>2, <1>3, <2>1
  <2> HIDE DEF Size
  <2> QED
    BY <2>7, <2>8
<1> QED
  BY <1>4, <1>5

\* A page is a beginning of what lies behind its cursor: not empty when something
\* does, and everything it leaves out comes after all it carries.
LEMMA ServedFirst ==
  ASSUME NEW stamps \in [Items -> Nat], NEW pos \in Positions
  PROVE  /\ Behind(stamps, pos) \subseteq Items /\ Served(stamps, pos) \subseteq Behind(stamps, pos)
         /\ Behind(stamps, pos) # {} => Served(stamps, pos) # {}
         /\ \A i \in Behind(stamps, pos) \ Served(stamps, pos), j \in Served(stamps, pos) :
               After(Position(stamps[i], i), Position(stamps[j], j))
<1> DEFINE S == Behind(stamps, pos)
<1>1. S \in SUBSET Items
  BY DEF Behind
<1>2. Served(stamps, pos) = {i \in S : Cardinality(UpTo(stamps, S, i)) <= PageLimit}
  BY DEF Served, UpTo
<1> HIDE DEF S
<1>3. ASSUME S # {} PROVE Served(stamps, pos) # {}
  <2>1. PICK i \in S : UpTo(stamps, S, i) = {i}
    BY <1>1, <1>3, FirstExists
  <2>2. Cardinality(UpTo(stamps, S, i)) = 1
    BY <2>1, FS_Singleton
  <2> QED
    BY <1>2, <2>2, NItemsAssumption
<1>4. ASSUME NEW i \in S, i \notin Served(stamps, pos), NEW j \in Served(stamps, pos),
             ~After(Position(stamps[i], i), Position(stamps[j], j))
      PROVE  FALSE
  <2>1. j \in S /\ i \in Items /\ j \in Items /\ Cardinality(UpTo(stamps, S, j)) <= PageLimit
    BY <1>1, <1>2
  <2>2. ASSUME NEW k \in UpTo(stamps, S, i)
        PROVE  k \in UpTo(stamps, S, j)
    BY <1>1, <1>4, <2>1, AfterOrder, ItemPositions DEF UpTo
  <2>3. UpTo(stamps, S, i) \in SUBSET UpTo(stamps, S, j) /\ UpTo(stamps, S, j) \in SUBSET Items
    BY <1>1, <2>2 DEF UpTo
  <2>4. IsFiniteSet(UpTo(stamps, S, j)) /\ Cardinality(UpTo(stamps, S, j)) \in Nat
    BY <2>3, FiniteItems
  <2>5. UpTo(stamps, S, i) \in SUBSET Items
    BY <2>3
  <2>6. Cardinality(UpTo(stamps, S, i)) <= Cardinality(UpTo(stamps, S, j)) /\ Cardinality(UpTo(stamps, S, i)) \in Nat
    BY <2>3, <2>4, <2>5, FS_Subset, FiniteItems
  <2>7. Cardinality(UpTo(stamps, S, i)) <= PageLimit
    BY <2>1, <2>4, <2>6, NItemsAssumption
  <2> QED
    BY <1>2, <1>4, <2>7
<1> QED
  BY <1>1, <1>2, <1>3, <1>4 DEF S

\* Advance: the new position is inside the settle bound when the old one was,
\* nothing that the page leaves out is at or before it, and a page that is not
\* followed by another reaches the bound.
LEMMA AdvanceSkipsNothing ==
  ASSUME NEW stamps \in [Items -> Nat], NEW pos \in Positions, NEW bound \in Nat
  PROVE  LET a == Advance(stamps, pos, bound)
         IN /\ a.pos \in Positions /\ a.more \in BOOLEAN
            /\ pos[1] <= bound => a.pos[1] <= bound
            /\ \A i \in Behind(stamps, pos) \ Served(stamps, pos) : After(Position(stamps[i], i), a.pos)
            /\ ~a.more => ~After(Position(bound, LastId), a.pos)
<1> DEFINE served == Served(stamps, pos)
           last == CHOOSE i \in served : \A j \in served : ~After(Position(stamps[j], j), Position(stamps[i], i))
           ceiling == Position(bound, LastId)
           truncated == served # Behind(stamps, pos)
           cut == truncated /\ ~After(Position(stamps[last], last), ceiling)
           target == IF After(ceiling, pos) THEN ceiling ELSE pos
<1>1. Advance(stamps, pos, bound) = IF cut THEN [pos |-> Position(stamps[last], last), more |-> TRUE]
                                    ELSE [pos |-> target, more |-> FALSE]
  BY DEF Advance
<1>2. served \in SUBSET Items /\ served \subseteq Behind(stamps, pos) /\ Behind(stamps, pos) \subseteq Items
  BY ServedFirst
<1>3. ASSUME truncated
      PROVE  last \in served /\ \A j \in served : ~After(Position(stamps[j], j), Position(stamps[last], last))
  <2>1. served # {}
    BY <1>2, <1>3, ServedFirst
  <2>2. \E i \in served : Later(stamps, served, i) = {}
    <3> HIDE DEF served
    <3> QED
      BY <1>2, <2>1, LastExists
  <2>3. \E i \in served : \A j \in served : ~After(Position(stamps[j], j), Position(stamps[i], i))
    BY <2>2 DEF Later
  <2> HIDE DEF served
  <2> QED
    BY <2>3
<1>4. ceiling \in Positions /\ ceiling[1] = bound /\ ceiling[2] = LastId /\ LastId \in Nat
  BY NItemsAssumption DEF Position, Positions, LastId
<1>5. \A i \in Items : /\ Position(stamps[i], i) \in Positions
                       /\ Position(stamps[i], i)[1] = stamps[i] /\ stamps[i] \in Nat
  BY ItemPositions
<1>6. pos[1] \in Nat /\ pos[2] \in Nat
  BY DEF Positions
<1>7. target \in Positions /\ ~After(ceiling, target) /\ (pos[1] <= bound => target[1] <= bound)
  BY <1>4, AfterOrder
<1>8. \A i \in Behind(stamps, pos) \ served : \A j \in served : After(Position(stamps[i], i), Position(stamps[j], j))
  BY ServedFirst
<1>9. \A i \in Behind(stamps, pos) : i \in Items /\ After(Position(stamps[i], i), pos)
  BY DEF Behind
<1> HIDE DEF served, last, ceiling, target
<1>10. CASE cut
  <2>1. last \in served /\ last \in Items
    BY <1>2, <1>3, <1>10
  <2>2. stamps[last] <= bound
    BY <1>4, <1>5, <1>10, <2>1 DEF After
  <2>3. \A i \in Behind(stamps, pos) \ served : After(Position(stamps[i], i), Position(stamps[last], last))
    BY <1>8, <2>1
  <2>4. Advance(stamps, pos, bound) = [pos |-> Position(stamps[last], last), more |-> TRUE]
    BY <1>1, <1>10
  <2> QED
    BY <1>5, <2>1, <2>2, <2>3, <2>4 DEF served
<1>11. CASE ~cut
  <2>1. Advance(stamps, pos, bound) = [pos |-> target, more |-> FALSE]
    BY <1>1, <1>11
  <2>2. ASSUME NEW i \in Behind(stamps, pos) \ served
        PROVE  After(Position(stamps[i], i), target)
    <3>1. truncated
      BY <1>2
    <3>2. last \in served /\ last \in Items /\ i \in Items
      BY <1>2, <1>3, <3>1
    <3>3. After(Position(stamps[last], last), ceiling)
      BY <1>11, <3>1
    <3>4. After(Position(stamps[i], i), ceiling)
      BY <1>4, <1>5, <1>8, <3>2, <3>3, AfterOrder
    <3>5. After(Position(stamps[i], i), pos)
      BY <1>9
    <3> QED
      BY <3>4, <3>5 DEF target
  <2> QED
    BY <1>7, <2>1, <2>2 DEF served, ceiling
<1> QED
  BY <1>10, <1>11

-----------------------------------------------------------------------------
(* The invariant of any number of runs. *)

\* Stamps are clock readings; a write that is not committed is inside the settle
\* window and newer than its row; what is purged has expired.
Stamped ==
    /\ now > Window
    /\ \A i \in Items :
          /\ ver[i] <= now /\ dead[i] <= now
          /\ dead[i] # 0 => ver[i] # 0
          /\ writing[i] # 0 => /\ writing[i] <= now /\ now < writing[i] + Window
                               /\ dead[i] = 0 /\ ver[i] < writing[i]
          /\ i \in deleting => writing[i] # 0 /\ ver[i] # 0
          /\ i \in purged => dead[i] # 0 /\ dead[i] + Retention < now

\* A cursor issued by time t has not entered the settle window of t.
Within(c, t) == c.rows[1] + Window <= t /\ c.tombs[1] + Window <= t

\* Every cursor stops before the settle window, so what commits later comes after it.
Settled ==
    /\ Within(state.cursor, now)
    /\ \A r \in Runners :
          /\ Within(mem[r].cursor, now)
          /\ pc[r] \in {"rows", "tombs", "apply"} =>
                /\ Window < page[r].at /\ page[r].at <= now
                /\ Within(mem[r].cursor, page[r].at)
          /\ pc[r] \in {"tombs", "apply"} => Within(page[r].next, page[r].at) /\ ~page[r].next.full

\* No tombstone after an accepted cursor is purged while its page is read.
Accepted ==
    \A r \in Runners : pc[r] \in {"rows", "tombs"} =>
        /\ mem[r].cursor.full \/ page[r].at <= mem[r].cursor.tombs[1] + Retention
        /\ \A i \in purged : dead[i] + Retention < page[r].at
        /\ page[r].tombs = {}

\* The device has rows of items that exist, and an item that was deleted after a
\* page read its row was deleted inside the page's settle window.
Existing ==
    /\ \A i \in Items : store[i] # 0 => ver[i] # 0 /\ i \notin evicted
    /\ \A r \in Runners, i \in Items : pc[r] \in {"tombs", "apply"} =>
          /\ page[r].rows[i] # 0 => ver[i] # 0 /\ (dead[i] # 0 => page[r].at < dead[i] + Window)
          /\ i \in page[r].tombs => dead[i] # 0

\* The rows of a last page reach the settle bound.
Complete ==
    \A r \in Runners : pc[r] \in {"tombs", "apply"} /\ ~page[r].more =>
        ~After(Position(page[r].at - Window, LastId), page[r].next.rows)

Paged == TypeOK /\ Stamped /\ Settled /\ Accepted /\ Existing /\ Complete

LEMMA Constants ==
  /\ NItems \in Nat /\ PageLimit \in Nat /\ Window \in Nat /\ Window > 0 /\ Retention \in Nat /\ Window <= Retention
  /\ Start \in Positions /\ Start[1] = 0 /\ Start[2] = 0 /\ LastId \in Nat
  /\ \A i \in Items : i \in Nat /\ i > 0 /\ i < LastId
<1>1. NItems \in Nat
  BY NItemsAssumption
<1> QED
  BY <1>1, NItemsAssumption, TimeAssumption DEF Start, Position, Positions, LastId, Items

LEMMA EmptyValues ==
  /\ FullCursor \in Cursors /\ FullCursor.full /\ FullCursor.rows = Start /\ FullCursor.tombs = Start
  /\ NewState \in States /\ NewState.cursor = FullCursor /\ NewState.gen = 0 /\ NewState.fullGen = 0
  /\ NoPage \in Pages /\ NoPage.tombs = {}
<1>1. FullCursor \in Cursors /\ FullCursor.full /\ FullCursor.rows = Start /\ FullCursor.tombs = Start
  BY Constants DEF FullCursor, Cursors
<1>2. NewState \in States /\ NewState.cursor = FullCursor /\ NewState.gen = 0 /\ NewState.fullGen = 0
  BY <1>1 DEF NewState, States
<1>3. NoPage \in Pages /\ NoPage.tombs = {}
  BY <1>1 DEF NoPage, Pages
<1> QED
  BY <1>1, <1>2, <1>3

LEMMA MakeCursor ==
  ASSUME NEW p \in Positions, NEW q \in Positions
  PROVE  /\ Cursor(p, q) \in Cursors /\ ~Cursor(p, q).full
         /\ Cursor(p, q).rows = p /\ Cursor(p, q).tombs = q
  BY DEF Cursor, Cursors

LEMMA StampsTyped ==
  ASSUME TypeOK
  PROVE  /\ AliveStamps \in [Items -> Nat] /\ \A i \in Items : AliveStamps[i] = IF Alive(i) THEN ver[i] ELSE 0
         /\ TombStamps \in [Items -> Nat] /\ \A i \in Items : TombStamps[i] = IF i \in purged THEN 0 ELSE dead[i]
  BY DEF TypeOK, AliveStamps, TombStamps

\* A page in which three parts are replaced.
WithRows(p, a, b, c) == [p EXCEPT !.rows = a, !.next = b, !.more = c]

LEMMA RowsUpdate ==
  ASSUME NEW p \in Pages, NEW a \in [Items -> Nat], NEW b \in Cursors, NEW c \in BOOLEAN
  PROVE  LET q == WithRows(p, a, b, c)
         IN q \in Pages /\ q.at = p.at /\ q.rows = a /\ q.tombs = p.tombs /\ q.next = b /\ q.more = c
<1>1. /\ [p EXCEPT !.rows = a] \in Pages /\ [p EXCEPT !.rows = a].at = p.at /\ [p EXCEPT !.rows = a].rows = a
      /\ [p EXCEPT !.rows = a].tombs = p.tombs
  BY DEF Pages
<1>2. PICK p1 \in Pages : p1 = [p EXCEPT !.rows = a]
  BY <1>1
<1>3. /\ [p1 EXCEPT !.next = b] \in Pages /\ [p1 EXCEPT !.next = b].at = p.at /\ [p1 EXCEPT !.next = b].rows = a
      /\ [p1 EXCEPT !.next = b].tombs = p.tombs /\ [p1 EXCEPT !.next = b].next = b
  BY <1>1, <1>2 DEF Pages
<1>4. PICK p2 \in Pages : p2 = [p1 EXCEPT !.next = b]
  BY <1>3
<1>5. /\ [p2 EXCEPT !.more = c] \in Pages /\ [p2 EXCEPT !.more = c].at = p.at /\ [p2 EXCEPT !.more = c].rows = a
      /\ [p2 EXCEPT !.more = c].tombs = p.tombs /\ [p2 EXCEPT !.more = c].next = b /\ [p2 EXCEPT !.more = c].more = c
  BY <1>3, <1>4 DEF Pages
<1>6. WithRows(p, a, b, c) = [p2 EXCEPT !.more = c]
  BY <1>2, <1>4 DEF WithRows
<1> QED
  BY <1>5, <1>6

WithTombs(p, a, b, c) == [p EXCEPT !.tombs = a, !.next = b, !.more = c]

LEMMA TombsUpdate ==
  ASSUME NEW p \in Pages, NEW a \in SUBSET Items, NEW b \in Cursors, NEW c \in BOOLEAN
  PROVE  LET q == WithTombs(p, a, b, c)
         IN q \in Pages /\ q.at = p.at /\ q.rows = p.rows /\ q.tombs = a /\ q.next = b /\ q.more = c
<1>1. /\ [p EXCEPT !.tombs = a] \in Pages /\ [p EXCEPT !.tombs = a].at = p.at /\ [p EXCEPT !.tombs = a].rows = p.rows
      /\ [p EXCEPT !.tombs = a].tombs = a
  BY DEF Pages
<1>2. PICK p1 \in Pages : p1 = [p EXCEPT !.tombs = a]
  BY <1>1
<1>3. /\ [p1 EXCEPT !.next = b] \in Pages /\ [p1 EXCEPT !.next = b].at = p.at /\ [p1 EXCEPT !.next = b].rows = p.rows
      /\ [p1 EXCEPT !.next = b].tombs = a /\ [p1 EXCEPT !.next = b].next = b
  BY <1>1, <1>2 DEF Pages
<1>4. PICK p2 \in Pages : p2 = [p1 EXCEPT !.next = b]
  BY <1>3
<1>5. /\ [p2 EXCEPT !.more = c] \in Pages /\ [p2 EXCEPT !.more = c].at = p.at /\ [p2 EXCEPT !.more = c].rows = p.rows
      /\ [p2 EXCEPT !.more = c].tombs = a /\ [p2 EXCEPT !.more = c].next = b /\ [p2 EXCEPT !.more = c].more = c
  BY <1>3, <1>4 DEF Pages
<1>6. WithTombs(p, a, b, c) = [p2 EXCEPT !.more = c]
  BY <1>2, <1>4 DEF WithTombs
<1> QED
  BY <1>5, <1>6

LEMMA RowsReplaced ==
  ASSUME NEW P \in [Runners -> Pages], NEW r \in Runners, NEW a, NEW b, NEW c
  PROVE  [P EXCEPT ![r].rows = a, ![r].next = b, ![r].more = c]
           = [P EXCEPT ![r] = WithRows(P[r], a, b, c)]
  BY DEF WithRows

LEMMA TombsReplaced ==
  ASSUME NEW P \in [Runners -> Pages], NEW r \in Runners, NEW a, NEW b, NEW c
  PROVE  [P EXCEPT ![r].tombs = a, ![r].next = b, ![r].more = c]
           = [P EXCEPT ![r] = WithTombs(P[r], a, b, c)]
  BY DEF WithTombs

\* What the rows statement puts into the page.
From(r) == IF mem[r].cursor.full THEN Start ELSE mem[r].cursor.rows
TombsFrom(r) == TombstonesFrom(mem[r].cursor, page[r].at - Window)

LEMMA RowsPage ==
  ASSUME TypeOK, Settled, NEW r \in Runners, ReadRows(r)
  PROVE  LET step == Advance(AliveStamps, From(r), page[r].at - Window)
             rows == [i \in Items |-> IF i \in Served(AliveStamps, From(r)) THEN ver[i] ELSE 0]
             next == Cursor(step.pos, Start)
             new == WithRows(page[r], rows, next, step.more)
         IN /\ From(r) \in Positions /\ page[r].at - Window \in Nat /\ From(r)[1] <= page[r].at - Window
            /\ step.pos \in Positions /\ step.more \in BOOLEAN /\ rows \in [Items -> Nat]
            /\ new \in Pages /\ page' = [page EXCEPT ![r] = new]
            /\ new.at = page[r].at /\ new.rows = rows /\ new.tombs = page[r].tombs /\ new.next = next
            /\ new.more = step.more /\ next.rows = step.pos /\ next.tombs = Start /\ ~next.full
<1> DEFINE bound == page[r].at - Window
           step == Advance(AliveStamps, From(r), bound)
           rows == [i \in Items |-> IF i \in Served(AliveStamps, From(r)) THEN ver[i] ELSE 0]
           next == Cursor(step.pos, Start)
           new == WithRows(page[r], rows, next, step.more)
<1>1. pc[r] = "rows" /\ page[r] \in Pages /\ mem[r].cursor \in Cursors
  BY DEF ReadRows, TypeOK, States
<1>2. page[r].at \in Nat /\ page[r].tombs \in SUBSET Items /\ mem[r].cursor.rows \in Positions
  BY <1>1 DEF Pages, Cursors
<1>3. bound \in Nat
  BY <1>1, <1>2, Constants DEF Settled
<1>4. From(r) \in Positions /\ From(r)[1] <= bound
  <2>1. mem[r].cursor.rows[1] \in Nat
    BY <1>2 DEF Positions
  <2> QED
    BY <1>1, <1>2, <1>3, <2>1, Constants DEF From, Settled, Within
<1>5. step.pos \in Positions /\ step.more \in BOOLEAN
  <2> HIDE DEF bound
  <2> QED
    BY <1>3, <1>4, AdvanceSkipsNothing, StampsTyped
<1>6. rows \in [Items -> Nat]
  BY DEF TypeOK
<1>7. next \in Cursors /\ ~next.full /\ next.rows = step.pos /\ next.tombs = Start
  <2> HIDE DEF step
  <2> QED
    BY <1>5, MakeCursor, Constants
<1>8. page' = [page EXCEPT ![r] = new]
  <2>1. page' = [page EXCEPT ![r].rows = rows, ![r].next = next, ![r].more = step.more]
    BY DEF ReadRows, From
  <2>2. page \in [Runners -> Pages]
    BY DEF TypeOK
  <2> HIDE DEF step, rows, next
  <2> QED
    BY <2>1, <2>2, RowsReplaced DEF WithRows
<1>9. /\ new \in Pages /\ new.at = page[r].at /\ new.rows = rows /\ new.tombs = page[r].tombs
      /\ new.next = next /\ new.more = step.more
  <2> HIDE DEF step, rows, next
  <2> QED
    BY <1>1, <1>5, <1>6, <1>7, RowsUpdate
<1> QED
  BY <1>3, <1>4, <1>5, <1>6, <1>7, <1>8, <1>9

\* What the tombstone statement adds to it.
LEMMA TombsPage ==
  ASSUME TypeOK, Settled, NEW r \in Runners, ReadTombs(r)
  PROVE  LET step == Advance(TombStamps, TombsFrom(r), page[r].at - Window)
             tombs == Served(TombStamps, TombsFrom(r))
             next == Cursor(page[r].next.rows, step.pos)
             more == page[r].more \/ step.more
             new == WithTombs(page[r], tombs, next, more)
         IN /\ TombsFrom(r) \in Positions /\ page[r].at - Window \in Nat /\ TombsFrom(r)[1] <= page[r].at - Window
            /\ step.pos \in Positions /\ step.more \in BOOLEAN
            /\ new \in Pages /\ page' = [page EXCEPT ![r] = new]
            /\ new.at = page[r].at /\ new.rows = page[r].rows /\ new.tombs = tombs /\ new.next = next
            /\ new.more = more /\ next.rows = page[r].next.rows /\ next.tombs = step.pos /\ ~next.full
<1> DEFINE bound == page[r].at - Window
           step == Advance(TombStamps, TombsFrom(r), bound)
           tombs == Served(TombStamps, TombsFrom(r))
           next == Cursor(page[r].next.rows, step.pos)
           more == page[r].more \/ step.more
           new == WithTombs(page[r], tombs, next, more)
<1>1. pc[r] = "tombs" /\ page[r] \in Pages /\ mem[r].cursor \in Cursors
  BY DEF ReadTombs, TypeOK, States
<1>2. /\ page[r].at \in Nat /\ page[r].rows \in [Items -> Nat] /\ mem[r].cursor.tombs \in Positions
      /\ page[r].next.rows \in Positions /\ page[r].more \in BOOLEAN
  BY <1>1 DEF Pages, Cursors
<1>3. bound \in Nat
  BY <1>1, <1>2, Constants DEF Settled
<1>4. TombsFrom(r) \in Positions /\ TombsFrom(r)[1] <= bound
  <2>1. mem[r].cursor.tombs[1] \in Nat
    BY <1>2 DEF Positions
  <2>2. CASE mem[r].cursor.full
    <3>1. TombsFrom(r) = <<bound, 0>>
      BY <2>2 DEF TombsFrom, TombstonesFrom, Position
    <3> QED
      BY <1>3, <3>1 DEF Positions
  <2>3. CASE ~mem[r].cursor.full
    <3>1. TombsFrom(r) = mem[r].cursor.tombs
      BY <2>3 DEF TombsFrom, TombstonesFrom
    <3> QED
      BY <1>1, <1>2, <1>3, <2>1, <3>1, Constants DEF Settled, Within
  <2> QED
    BY <2>2, <2>3
<1>5. step.pos \in Positions /\ step.more \in BOOLEAN
  <2> HIDE DEF bound
  <2> QED
    BY <1>3, <1>4, AdvanceSkipsNothing, StampsTyped
<1>6. tombs \in SUBSET Items
  BY <1>4, ServedFirst, StampsTyped
<1>7. next \in Cursors /\ ~next.full /\ next.rows = page[r].next.rows /\ next.tombs = step.pos
  <2> HIDE DEF step
  <2> QED
    BY <1>2, <1>5, MakeCursor
<1>8. page' = [page EXCEPT ![r] = new]
  <2>1. page' = [page EXCEPT ![r].tombs = tombs, ![r].next = Cursor(@.rows, step.pos), ![r].more = @ \/ step.more]
    BY DEF ReadTombs, TombsFrom
  <2>2. page' = [page EXCEPT ![r].tombs = tombs, ![r].next = next, ![r].more = more]
    BY <1>1, <2>1 DEF TypeOK, Pages
  <2>3. page \in [Runners -> Pages]
    BY DEF TypeOK
  <2> HIDE DEF step, tombs, next, more
  <2> QED
    BY <2>2, <2>3, TombsReplaced DEF WithTombs
<1>9. /\ new \in Pages /\ new.at = page[r].at /\ new.rows = page[r].rows /\ new.tombs = tombs
      /\ new.next = next /\ new.more = more
  <2>1. more \in BOOLEAN
    BY <1>2, <1>5
  <2> HIDE DEF step, tombs, next, more
  <2> QED
    BY <1>1, <1>6, <1>7, <2>1, TombsUpdate
<1> QED
  BY <1>3, <1>4, <1>5, <1>6, <1>7, <1>8, <1>9

LEMMA FullWithin ==
  ASSUME TypeOK, Stamped
  PROVE  Within(FullCursor, now) /\ Within(NewState.cursor, now)
  BY Constants, EmptyValues DEF TypeOK, Stamped, Within

LEMMA PagedInit == Init => Paged
<1> SUFFICES ASSUME Init PROVE Paged
  OBVIOUS
<1>1. TypeOK
  <2>1. now \in Nat /\ state \in States
    BY Constants, EmptyValues DEF Init
  <2>2. mem \in [Runners -> States] /\ page \in [Runners -> Pages]
    BY EmptyValues DEF Init
  <2>3. known \in BOOLEAN
    BY DEF Init
  <2> QED
    BY <2>1, <2>2, <2>3 DEF Init, TypeOK
<1>2. Stamped
  BY Constants DEF Init, Stamped
<1>3. Settled
  BY Constants, EmptyValues DEF Init, Settled, Within
<1>4. Accepted /\ Existing /\ Complete
  BY DEF Init, Accepted, Existing, Complete
<1> QED
  BY <1>1, <1>2, <1>3, <1>4 DEF Paged

LEMMA PagedTick ==
  ASSUME Paged, Tick
  PROVE  Paged'
<1> USE DEF Paged
<1>1. TypeOK'
  BY Constants DEF TypeOK, Tick, deviceVars, runVars, States, Cursors, Positions, Pages
<1>2. Stamped'
  BY Constants DEF TypeOK, Stamped, Tick, deviceVars, runVars, States, Cursors, Positions, Pages
<1>3. Settled'
  BY Constants DEF TypeOK, Settled, Within, Tick, deviceVars, runVars, States, Cursors, Positions, Pages
<1>4. Accepted'
  BY Constants DEF TypeOK, Accepted, Tick, deviceVars, runVars, States, Cursors, Positions, Pages
<1>5. Existing'
  BY Constants DEF TypeOK, Existing, Tick, deviceVars, runVars, States, Cursors, Positions, Pages
<1>6. Complete'
  BY Constants DEF TypeOK, Complete, Tick, deviceVars, runVars, States, Cursors, Positions, Pages
<1> QED
  BY <1>1, <1>2, <1>3, <1>4, <1>5, <1>6

LEMMA PagedWrite ==
  ASSUME Paged, NEW i \in Items, NEW d \in BOOLEAN, Write(i, d)
  PROVE  Paged'
<1> USE DEF Paged
<1>1. TypeOK'
  BY Constants DEF TypeOK, Write, deviceVars, runVars
<1>2. Stamped'
  BY Constants DEF TypeOK, Stamped, Write, deviceVars, runVars
<1>3. Settled'
  BY Constants DEF TypeOK, Settled, Within, Write, deviceVars, runVars
<1>4. Accepted'
  BY Constants DEF TypeOK, Accepted, Write, deviceVars, runVars
<1>5. Existing'
  BY Constants DEF TypeOK, Existing, Write, deviceVars, runVars
<1>6. Complete'
  BY Constants DEF TypeOK, Complete, Write, deviceVars, runVars
<1> QED
  BY <1>1, <1>2, <1>3, <1>4, <1>5, <1>6

LEMMA PagedCommit ==
  ASSUME Paged, NEW i \in Items, Commit(i)
  PROVE  Paged'
<1> USE DEF Paged
<1>1. TypeOK'
  BY Constants DEF TypeOK, Commit, deviceVars, runVars, Pages
<1>2. Stamped'
  BY Constants DEF TypeOK, Stamped, Commit, deviceVars, runVars, Pages
<1>3. Settled'
  BY Constants DEF TypeOK, Settled, Within, Commit, deviceVars, runVars, Pages
<1>4. Accepted'
  BY DEF TypeOK, Stamped, Accepted, Commit, deviceVars, runVars
<1>5. Existing'
  <2>1. \A j \in Items : ver'[j] # ver[j] => ver'[j] # 0 /\ dead'[j] = dead[j]
    BY DEF TypeOK, Commit
  <2>2. \A j \in Items : dead'[j] # dead[j] => ver'[j] = ver[j] /\ dead[j] = 0 /\ now < dead'[j] + Window
    BY Constants DEF TypeOK, Stamped, Commit
  <2>3. \A r \in Runners : pc[r] \in {"tombs", "apply"} => page[r].at \in Nat /\ page[r].at <= now
    BY DEF TypeOK, Pages, Settled
  <2>4. \A j \in Items : ver[j] \in Nat /\ dead[j] \in Nat /\ ver'[j] \in Nat /\ dead'[j] \in Nat
    BY <1>1 DEF TypeOK
  <2> QED
    BY <2>1, <2>2, <2>3, <2>4, Constants DEF TypeOK, Existing, Commit, deviceVars, runVars
<1>6. Complete'
  BY Constants DEF TypeOK, Complete, Commit, deviceVars, runVars, Pages
<1> QED
  BY <1>1, <1>2, <1>3, <1>4, <1>5, <1>6

LEMMA PagedPurge ==
  ASSUME Paged, NEW i \in Items, Purge(i)
  PROVE  Paged'
<1> USE DEF Paged
<1>1. TypeOK'
  BY Constants DEF TypeOK, Purge, deviceVars, runVars
<1>2. Stamped'
  BY Constants DEF TypeOK, Stamped, Purge, deviceVars, runVars
<1>3. Settled'
  BY Constants DEF TypeOK, Settled, Within, Purge, deviceVars, runVars
<1>4. Accepted'
  BY Constants DEF TypeOK, Accepted, Purge, deviceVars, runVars
<1>5. Existing'
  BY Constants DEF TypeOK, Existing, Purge, deviceVars, runVars
<1>6. Complete'
  BY Constants DEF TypeOK, Complete, Purge, deviceVars, runVars
<1> QED
  BY <1>1, <1>2, <1>3, <1>4, <1>5, <1>6

LEMMA PagedEvict ==
  ASSUME Paged, NEW i \in Items, Evict(i)
  PROVE  Paged'
<1> USE DEF Paged
<1>1. TypeOK'
  <2>1. state' \in States
    BY EmptyValues DEF TypeOK, Evict, Forget
  <2>2. known' \in BOOLEAN
    BY DEF TypeOK, Evict, Forget
  <2>3. store' \in [Items -> Nat] /\ rowGen' \in [Items -> Nat] /\ evicted' \subseteq Items
    BY DEF TypeOK, Evict, Forget
  <2> QED
    BY <2>1, <2>2, <2>3 DEF TypeOK, Evict, serverVars, runVars
<1>2. Stamped'
  BY Constants, EmptyValues DEF TypeOK, Stamped, Evict, Forget, serverVars, runVars
<1>3. Settled'
  <2>1. Within(state'.cursor, now)
    BY Constants, EmptyValues DEF TypeOK, Settled, Stamped, Within, Evict, Forget
  <2> QED
    BY <2>1 DEF Settled, Within, Evict, serverVars, runVars
<1>4. Accepted'
  BY Constants, EmptyValues DEF TypeOK, Accepted, Evict, Forget, serverVars, runVars
<1>5. Existing'
  BY Constants, EmptyValues DEF TypeOK, Existing, Evict, Forget, serverVars, runVars
<1>6. Complete'
  BY Constants, EmptyValues DEF TypeOK, Complete, Evict, Forget, serverVars, runVars
<1> QED
  BY <1>1, <1>2, <1>3, <1>4, <1>5, <1>6

LEMMA PagedBegin ==
  ASSUME Paged, NEW r \in Runners, Begin(r)
  PROVE  Paged'
<1> USE DEF Paged
<1>1. TypeOK'
  BY Constants, EmptyValues DEF TypeOK, Begin, serverVars, States
<1>2. Stamped'
  BY Constants, EmptyValues DEF TypeOK, Stamped, Begin, serverVars, States
<1>3. Settled'
  BY Constants, EmptyValues DEF TypeOK, Settled, Within, Begin, serverVars, States
<1>4. Accepted'
  BY Constants, EmptyValues DEF TypeOK, Accepted, Begin, serverVars, States
<1>5. Existing'
  BY Constants, EmptyValues DEF TypeOK, Existing, Begin, serverVars, States
<1>6. Complete'
  BY Constants, EmptyValues DEF TypeOK, Complete, Begin, serverVars, States
<1> QED
  BY <1>1, <1>2, <1>3, <1>4, <1>5, <1>6

LEMMA PagedReset ==
  ASSUME Paged, NEW r \in Runners, Reset(r)
  PROVE  Paged'
<1> USE DEF Paged
<1>1. TypeOK'
  <2> DEFINE next == [mem[r] EXCEPT !.cursor = FullCursor, !.fullGen = Max2(mem[r].gen, mem[r].fullGen) + 1]
  <2>1. mem[r] \in States /\ mem[r].gen \in Nat /\ mem[r].fullGen \in Nat
    BY DEF TypeOK, States
  <2>2. Max2(mem[r].gen, mem[r].fullGen) + 1 \in Nat
    BY <2>1 DEF Max2
  <2>3. next \in States /\ next.fullGen \in Nat
    BY <2>1, <2>2, EmptyValues DEF States
  <2>4. state' \in States
    <3> HIDE DEF next
    <3>1. state' = IF known THEN [state EXCEPT !.cursor = FullCursor, !.fullGen = next.fullGen] ELSE state
      BY DEF Reset, next
    <3> QED
      BY <2>3, <3>1, EmptyValues DEF TypeOK, States
  <2>5. mem' = [mem EXCEPT ![r] = next]
    BY DEF Reset
  <2> HIDE DEF next
  <2>6. mem' \in [Runners -> States]
    BY <2>3, <2>5 DEF TypeOK
  <2> QED
    BY <2>4, <2>6 DEF TypeOK, Reset, serverVars
<1>2. Stamped'
  BY Constants, EmptyValues DEF TypeOK, Stamped, Reset, serverVars, States
<1>3. Settled'
  <2>1. Within(state'.cursor, now) /\ mem'[r].cursor = FullCursor
    BY FullWithin DEF TypeOK, States, Settled, Reset
  <2>2. \A q \in Runners : q # r => mem'[q] = mem[q] /\ pc'[q] = pc[q]
    BY DEF TypeOK, Reset
  <2> QED
    BY <2>1, <2>2, FullWithin DEF TypeOK, Settled, Reset, serverVars
<1>4. Accepted'
  BY Constants, EmptyValues DEF TypeOK, Accepted, Reset, serverVars, States
<1>5. Existing'
  BY Constants, EmptyValues DEF TypeOK, Existing, Reset, serverVars, States
<1>6. Complete'
  BY Constants, EmptyValues DEF TypeOK, Complete, Reset, serverVars, States
<1> QED
  BY <1>1, <1>2, <1>3, <1>4, <1>5, <1>6

LEMMA PagedFetch ==
  ASSUME Paged, NEW r \in Runners, Fetch(r)
  PROVE  Paged'
<1> USE DEF Paged
<1>1. TypeOK'
  BY Constants, EmptyValues DEF TypeOK, Fetch, serverVars, deviceVars, Expired, Pages
<1>2. Stamped'
  BY Constants, EmptyValues DEF TypeOK, Stamped, Fetch, serverVars, deviceVars, Expired, Pages
<1>3. Settled'
  <2>1. page'[r].at = now /\ pc'[r] = "rows"
    BY EmptyValues DEF TypeOK, Fetch, Pages
  <2>2. \A q \in Runners : q # r => page'[q] = page[q] /\ pc'[q] = pc[q]
    BY DEF TypeOK, Fetch
  <2> QED
    BY <2>1, <2>2 DEF TypeOK, Stamped, Settled, Fetch, serverVars, deviceVars
<1>4. Accepted'
  <2>1. page'[r].at = now /\ page'[r].tombs = {} /\ pc'[r] = "rows"
    BY EmptyValues DEF TypeOK, Fetch, Pages
  <2>2. \A q \in Runners : q # r => page'[q] = page[q] /\ pc'[q] = pc[q]
    BY DEF TypeOK, Fetch
  <2>3. mem[r].cursor.full \/ now <= mem[r].cursor.tombs[1] + Retention
    <3>1. mem[r].cursor.tombs[1] \in Nat
      BY DEF TypeOK, States, Cursors, Positions
    <3> QED
      BY <3>1, Constants DEF TypeOK, Fetch, Expired
  <2>4. \A i \in purged : dead[i] + Retention < now
    BY DEF TypeOK, Stamped
  <2> QED
    BY <2>1, <2>2, <2>3, <2>4 DEF Accepted, Fetch, serverVars, deviceVars
<1>5. Existing'
  BY Constants, EmptyValues DEF TypeOK, Existing, Fetch, serverVars, deviceVars, Expired, Pages
<1>6. Complete'
  BY Constants, EmptyValues DEF TypeOK, Complete, Fetch, serverVars, deviceVars, Expired, Pages
<1> QED
  BY <1>1, <1>2, <1>3, <1>4, <1>5, <1>6

LEMMA PagedAbandon ==
  ASSUME Paged, NEW r \in Runners, Abandon(r)
  PROVE  Paged'
<1> USE DEF Paged
<1>1. TypeOK'
  BY Constants, EmptyValues DEF TypeOK, Abandon, Stop, serverVars, deviceVars
<1>2. Stamped'
  BY Constants, EmptyValues DEF TypeOK, Stamped, Abandon, Stop, serverVars, deviceVars
<1>3. Settled'
  BY FullWithin DEF TypeOK, Settled, Abandon, Stop, serverVars, deviceVars
<1>4. Accepted'
  BY Constants, EmptyValues DEF TypeOK, Accepted, Abandon, Stop, serverVars, deviceVars
<1>5. Existing'
  BY Constants, EmptyValues DEF TypeOK, Existing, Abandon, Stop, serverVars, deviceVars
<1>6. Complete'
  BY Constants, EmptyValues DEF TypeOK, Complete, Abandon, Stop, serverVars, deviceVars
<1> QED
  BY <1>1, <1>2, <1>3, <1>4, <1>5, <1>6

LEMMA PagedForbidden ==
  ASSUME Paged, NEW r \in Runners, Forbidden(r)
  PROVE  Paged'
<1> USE DEF Paged
<1>1. TypeOK'
  BY Constants, EmptyValues DEF TypeOK, Forbidden, Forget, Stop, serverVars
<1>2. Stamped'
  BY Constants, EmptyValues DEF TypeOK, Stamped, Forbidden, Forget, Stop, serverVars
<1>3. Settled'
  BY FullWithin DEF TypeOK, Settled, Forbidden, Forget, Stop, serverVars
<1>4. Accepted'
  BY Constants, EmptyValues DEF TypeOK, Accepted, Forbidden, Forget, Stop, serverVars
<1>5. Existing'
  BY Constants, EmptyValues DEF TypeOK, Existing, Forbidden, Forget, Stop, serverVars
<1>6. Complete'
  BY Constants, EmptyValues DEF TypeOK, Complete, Forbidden, Forget, Stop, serverVars
<1> QED
  BY <1>1, <1>2, <1>3, <1>4, <1>5, <1>6

LEMMA PagedRefuse ==
  ASSUME Paged, NEW r \in Runners, Refuse(r)
  PROVE  Paged'
<1> USE DEF Paged
<1>1. TypeOK'
  BY Constants, EmptyValues DEF TypeOK, Refuse, Stop, serverVars, deviceVars
<1>2. Stamped'
  BY Constants, EmptyValues DEF TypeOK, Stamped, Refuse, Stop, serverVars, deviceVars
<1>3. Settled'
  BY FullWithin DEF TypeOK, Settled, Refuse, Stop, serverVars, deviceVars
<1>4. Accepted'
  BY Constants, EmptyValues DEF TypeOK, Accepted, Refuse, Stop, serverVars, deviceVars
<1>5. Existing'
  BY Constants, EmptyValues DEF TypeOK, Existing, Refuse, Stop, serverVars, deviceVars
<1>6. Complete'
  BY Constants, EmptyValues DEF TypeOK, Complete, Refuse, Stop, serverVars, deviceVars
<1> QED
  BY <1>1, <1>2, <1>3, <1>4, <1>5, <1>6

\* The page after the rows statement: rows of items that exist, none skipped
\* between the cursor and the next one.
LEMMA RowsRead ==
  ASSUME TypeOK, Settled, NEW r \in Runners, ReadRows(r)
  PROVE  /\ page' \in [Runners -> Pages] /\ \A q \in Runners : q # r => page'[q] = page[q]
         /\ page'[r].at = page[r].at /\ page'[r].tombs = page[r].tombs
         /\ ~page'[r].next.full /\ page'[r].next.tombs = Start /\ page'[r].next.rows \in Positions
         /\ page[r].at - Window \in Nat /\ page'[r].next.rows[1] <= page[r].at - Window
         /\ \A i \in Items : page'[r].rows[i] # 0 => page'[r].rows[i] = ver[i] /\ Alive(i)
         /\ \A i \in Items : Alive(i) /\ After(Position(ver[i], i), From(r)) /\ page'[r].rows[i] = 0 =>
                After(Position(ver[i], i), page'[r].next.rows)
         /\ ~page'[r].more => ~After(Position(page[r].at - Window, LastId), page'[r].next.rows)
<1> DEFINE bound == page[r].at - Window
           step == Advance(AliveStamps, From(r), bound)
           served == Served(AliveStamps, From(r))
           rows == [i \in Items |-> IF i \in served THEN ver[i] ELSE 0]
           next == Cursor(step.pos, Start)
           new == WithRows(page[r], rows, next, step.more)
<1>1. /\ From(r) \in Positions /\ bound \in Nat /\ From(r)[1] <= bound /\ step.pos \in Positions
      /\ new \in Pages /\ page' = [page EXCEPT ![r] = new]
      /\ new.at = page[r].at /\ new.rows = rows /\ new.tombs = page[r].tombs /\ new.next = next
      /\ new.more = step.more /\ next.rows = step.pos /\ next.tombs = Start /\ ~next.full
  BY RowsPage
<1>2. page \in [Runners -> Pages] /\ ver \in [Items -> Nat]
  BY DEF TypeOK
<1>3. page'[r] = new /\ page' \in [Runners -> Pages] /\ \A q \in Runners : q # r => page'[q] = page[q]
  <2> HIDE DEF new
  <2> QED
    BY <1>1, <1>2
<1>4. /\ step.pos[1] <= bound /\ (~step.more => ~After(Position(bound, LastId), step.pos))
      /\ \A i \in Behind(AliveStamps, From(r)) \ served : After(Position(AliveStamps[i], i), step.pos)
  <2> HIDE DEF bound
  <2> QED
    BY <1>1, AdvanceSkipsNothing, StampsTyped
<1>5. \A i \in Items : i \in served => Alive(i)
  BY <1>1, ServedFirst, StampsTyped DEF Behind
<1>6. \A i \in Items : Alive(i) /\ After(Position(ver[i], i), From(r)) =>
         i \in Behind(AliveStamps, From(r)) /\ AliveStamps[i] = ver[i]
  BY StampsTyped DEF Behind, Alive
<1>7. \A i \in Items : Alive(i) => ver[i] # 0
  BY DEF Alive
<1>8. \A i \in Items : rows[i] = IF i \in served THEN ver[i] ELSE 0
  OBVIOUS
<1>9. page'[r].rows = rows /\ page'[r].next.rows = step.pos /\ page'[r].more = step.more
  BY <1>1, <1>3
<1>10. ASSUME NEW i \in Items, Alive(i), After(Position(ver[i], i), From(r)), page'[r].rows[i] = 0
       PROVE  After(Position(ver[i], i), page'[r].next.rows)
  <2> HIDE DEF served, step, rows
  <2>1. i \notin served
    BY <1>7, <1>8, <1>9, <1>10
  <2> QED
    BY <1>4, <1>6, <1>9, <1>10, <2>1
<1>11. \A i \in Items : page'[r].rows[i] # 0 => page'[r].rows[i] = ver[i] /\ Alive(i)
  <2> HIDE DEF served, rows
  <2> QED
    BY <1>5, <1>8, <1>9
<1> HIDE DEF step, next, new, rows, served
<1> QED
  BY <1>1, <1>3, <1>4, <1>9, <1>10, <1>11

\* The page after the tombstone statement.
LEMMA TombsRead ==
  ASSUME TypeOK, Settled, NEW r \in Runners, ReadTombs(r)
  PROVE  /\ page' \in [Runners -> Pages] /\ \A q \in Runners : q # r => page'[q] = page[q]
         /\ page'[r].at = page[r].at /\ page'[r].rows = page[r].rows /\ page'[r].next.rows = page[r].next.rows
         /\ ~page'[r].next.full /\ page'[r].next.tombs \in Positions /\ TombsFrom(r) \in Positions
         /\ page[r].at - Window \in Nat /\ page'[r].next.tombs[1] <= page[r].at - Window
         /\ \A i \in Items : i \in page'[r].tombs => dead[i] # 0
         /\ \A i \in Items : dead[i] # 0 /\ i \notin purged /\ After(Position(dead[i], i), TombsFrom(r))
                             /\ i \notin page'[r].tombs => After(Position(dead[i], i), page'[r].next.tombs)
         /\ ~page'[r].more => ~page[r].more
<1> DEFINE bound == page[r].at - Window
           step == Advance(TombStamps, TombsFrom(r), bound)
           tombs == Served(TombStamps, TombsFrom(r))
           next == Cursor(page[r].next.rows, step.pos)
           more == page[r].more \/ step.more
           new == WithTombs(page[r], tombs, next, more)
<1>1. /\ TombsFrom(r) \in Positions /\ bound \in Nat /\ TombsFrom(r)[1] <= bound
      /\ new \in Pages /\ page' = [page EXCEPT ![r] = new]
      /\ new.at = page[r].at /\ new.rows = page[r].rows /\ new.tombs = tombs /\ new.next = next
      /\ new.more = more /\ next.rows = page[r].next.rows /\ next.tombs = step.pos /\ ~next.full
  BY TombsPage
<1>2. page \in [Runners -> Pages] /\ dead \in [Items -> Nat]
  BY DEF TypeOK
<1>3. page'[r] = new /\ page' \in [Runners -> Pages] /\ \A q \in Runners : q # r => page'[q] = page[q]
  <2> HIDE DEF new
  <2> QED
    BY <1>1, <1>2
<1>4. /\ step.pos \in Positions /\ step.pos[1] <= bound
      /\ \A i \in Behind(TombStamps, TombsFrom(r)) \ tombs : After(Position(TombStamps[i], i), step.pos)
  <2> HIDE DEF bound
  <2> QED
    BY <1>1, AdvanceSkipsNothing, StampsTyped
<1>5. \A i \in Items : i \in tombs => dead[i] # 0
  BY <1>1, ServedFirst, StampsTyped DEF Behind
<1>6. \A i \in Items : dead[i] # 0 /\ i \notin purged /\ After(Position(dead[i], i), TombsFrom(r)) =>
         i \in Behind(TombStamps, TombsFrom(r)) /\ TombStamps[i] = dead[i]
  BY StampsTyped DEF Behind
<1>7. page'[r].tombs = tombs /\ page'[r].next.tombs = step.pos /\ page'[r].more = more
  BY <1>1, <1>3
<1>8. ASSUME NEW i \in Items, dead[i] # 0, i \notin purged, After(Position(dead[i], i), TombsFrom(r)),
             i \notin page'[r].tombs
       PROVE  After(Position(dead[i], i), page'[r].next.tombs)
  <2> HIDE DEF tombs, step
  <2> QED
    BY <1>4, <1>6, <1>7, <1>8
<1>9. ~page'[r].more => ~page[r].more
  BY <1>7
<1> HIDE DEF step, next, new, tombs, more
<1> QED
  BY <1>1, <1>3, <1>4, <1>5, <1>7, <1>8, <1>9

LEMMA PagedReadRows ==
  ASSUME Paged, NEW r \in Runners, ReadRows(r)
  PROVE  Paged'
<1> USE DEF Paged
<1>1. /\ pc[r] = "rows" /\ pc' = [pc EXCEPT ![r] = "tombs"]
      /\ UNCHANGED <<serverVars, deviceVars, mem, resets>>
  BY DEF ReadRows
<1>2. pc'[r] = "tombs" /\ \A q \in Runners : q # r => pc'[q] = pc[q] /\ page'[q] = page[q]
  BY <1>1, RowsRead DEF TypeOK
<1>3. TypeOK'
  BY <1>1, RowsRead DEF TypeOK, serverVars, deviceVars
<1>4. Stamped'
  BY <1>1 DEF Stamped, serverVars
<1>5. Settled'
  <2>1. Within(page'[r].next, page'[r].at) /\ ~page'[r].next.full
    <3>1. page[r].at \in Nat /\ page'[r].next.rows[1] \in Nat
      BY RowsRead DEF TypeOK, Pages, Positions
    <3> QED
      BY <1>1, <3>1, RowsRead, Constants DEF Settled, Within
  <2>2. page'[r].at = page[r].at
    BY RowsRead
  <2> QED
    BY <1>1, <1>2, <2>1, <2>2 DEF Settled, serverVars, deviceVars
<1>6. Accepted'
  <2>1. page'[r].at = page[r].at /\ page'[r].tombs = page[r].tombs
    BY RowsRead
  <2> QED
    BY <1>1, <1>2, <2>1 DEF Accepted, serverVars
<1>7. Existing'
  <2>1. \A i \in Items : page'[r].rows[i] # 0 => ver[i] # 0 /\ dead[i] = 0
    BY RowsRead DEF Alive
  <2>2. page'[r].tombs = {}
    BY <1>1, RowsRead DEF Accepted
  <2> QED
    BY <1>1, <1>2, <2>1, <2>2 DEF Existing, serverVars, deviceVars
<1>8. Complete'
  <2>1. page'[r].at = page[r].at /\ (~page'[r].more => ~After(Position(page[r].at - Window, LastId), page'[r].next.rows))
    BY RowsRead
  <2> QED
    BY <1>1, <1>2, <2>1 DEF Complete
<1> QED
  BY <1>3, <1>4, <1>5, <1>6, <1>7, <1>8

LEMMA PagedReadTombs ==
  ASSUME Paged, NEW r \in Runners, ReadTombs(r)
  PROVE  Paged'
<1> USE DEF Paged
<1>1. /\ pc[r] = "tombs" /\ pc' = [pc EXCEPT ![r] = "apply"]
      /\ UNCHANGED <<serverVars, deviceVars, mem, resets>>
  BY DEF ReadTombs
<1>2. pc'[r] = "apply" /\ \A q \in Runners : q # r => pc'[q] = pc[q] /\ page'[q] = page[q]
  BY <1>1, TombsRead DEF TypeOK
<1>3. TypeOK'
  BY <1>1, TombsRead DEF TypeOK, serverVars, deviceVars
<1>4. Stamped'
  BY <1>1 DEF Stamped, serverVars
<1>5. Settled'
  <2>1. Within(page'[r].next, page'[r].at) /\ ~page'[r].next.full
    <3>1. page[r].at \in Nat /\ page'[r].next.tombs[1] \in Nat
      BY TombsRead DEF TypeOK, Pages, Positions
    <3> QED
      BY <1>1, <3>1, TombsRead, Constants DEF Settled, Within
  <2>2. page'[r].at = page[r].at
    BY TombsRead
  <2> QED
    BY <1>1, <1>2, <2>1, <2>2 DEF Settled, serverVars, deviceVars
<1>6. Accepted'
  BY <1>1, <1>2 DEF Accepted, serverVars
<1>7. Existing'
  <2>1. page'[r].rows = page[r].rows /\ page'[r].at = page[r].at /\ \A i \in Items : i \in page'[r].tombs => dead[i] # 0
    BY TombsRead
  <2> QED
    BY <1>1, <1>2, <2>1 DEF Existing, serverVars, deviceVars
<1>8. Complete'
  <2>1. page'[r].at = page[r].at /\ page'[r].next.rows = page[r].next.rows /\ (~page'[r].more => ~page[r].more)
    BY TombsRead
  <2> QED
    BY <1>1, <1>2, <2>1 DEF Complete
<1> QED
  BY <1>3, <1>4, <1>5, <1>6, <1>7, <1>8

\* The state row that follows a page.
LEMMA FollowedState ==
  ASSUME TypeOK, NEW r \in Runners
  PROVE  /\ Followed(r) \in States /\ Followed(r).cursor = page[r].next
         /\ ~page[r].more /\ mem[r].fullGen # 0 => Followed(r).gen = mem[r].fullGen /\ Followed(r).fullGen = 0
         /\ page[r].more \/ mem[r].fullGen = 0 => Followed(r).gen = mem[r].gen /\ Followed(r).fullGen = mem[r].fullGen
<1>1. mem[r] \in States /\ mem[r].gen \in Nat /\ mem[r].fullGen \in Nat /\ page[r].next \in Cursors
  BY DEF TypeOK, States, Pages
<1> QED
  BY <1>1 DEF Followed, States

\* What applying a page leaves in the run: the next fetch, or nothing.
LEMMA ApplyRun ==
  ASSUME TypeOK, NEW r \in Runners, Apply(r)
  PROVE  /\ pc[r] = "apply" /\ pc'[r] \in {"idle", "fetch"}
         /\ page' = [page EXCEPT ![r] = NoPage]
         /\ mem' \in [Runners -> States] /\ mem'[r] = (IF pc'[r] = "fetch" THEN Followed(r) ELSE NewState)
         /\ pc' \in [Runners -> {"idle", "reset", "fetch", "rows", "tombs", "apply"}]
         /\ resets' \in [Runners -> {0, 1}]
         /\ \A q \in Runners : q # r => pc'[q] = pc[q] /\ mem'[q] = mem[q] /\ page'[q] = page[q]
<1>1. Followed(r) \in States /\ NewState \in States
  BY FollowedState, EmptyValues
<1>2. CASE page[r].more /\ page[r].next # mem[r].cursor
  BY <1>1, <1>2 DEF Apply, TypeOK
<1>3. CASE ~(page[r].more /\ page[r].next # mem[r].cursor)
  BY <1>1, <1>3 DEF Apply, Stop, TypeOK
<1> QED
  BY <1>2, <1>3

LEMMA PagedApply ==
  ASSUME Paged, NEW r \in Runners, Apply(r)
  PROVE  Paged'
<1> USE DEF Paged
<1>1. Within(page[r].next, now)
  <2>1. page[r].next.rows[1] \in Nat /\ page[r].next.tombs[1] \in Nat /\ page[r].at \in Nat /\ now \in Nat
    BY DEF TypeOK, Pages, Cursors, Positions
  <2>2. Within(page[r].next, page[r].at) /\ page[r].at <= now
    BY DEF Apply, Settled
  <2> QED
    BY <2>1, <2>2, Constants DEF Within
<1>2. TypeOK'
  <2>1. state' \in States
    BY FollowedState DEF Apply, TypeOK
  <2>2. WriteGen(r) \in Nat
    BY DEF TypeOK, States, WriteGen
  <2>3. \A i \in Items : AfterPage(r, i) \in Nat /\ GenAfterPage(r, i) \in Nat
    BY <2>2 DEF TypeOK, Pages, AfterPage, GenAfterPage
  <2>4. store' \in [Items -> Nat]
    BY <2>3 DEF Apply
  <2>5. rowGen' \in [Items -> Nat] /\ evicted' \subseteq Items
    BY <2>3 DEF Apply, TypeOK
  <2>6. page' \in [Runners -> Pages]
    BY ApplyRun, EmptyValues DEF TypeOK
  <2> QED
    BY <2>1, <2>4, <2>5, <2>6, ApplyRun DEF TypeOK, Apply, serverVars
<1>3. Stamped'
  BY DEF Stamped, Apply, serverVars
<1>4. Settled'
  <2>1. Within(state'.cursor, now) /\ Within(mem'[r].cursor, now)
    BY <1>1, FollowedState, FullWithin, ApplyRun DEF Apply, Settled
  <2>2. now' = now
    BY DEF Apply, serverVars
  <2> QED
    BY <2>1, <2>2, ApplyRun DEF Settled
<1>5. Accepted'
  BY ApplyRun DEF Accepted, Apply, serverVars
<1>6. Existing'
  <2>1. UNCHANGED <<ver, dead>>
    BY DEF Apply, serverVars
  <2>2. ASSUME NEW i \in Items, store'[i] # 0
        PROVE  ver[i] # 0 /\ i \notin evicted'
    <3>1. AfterPage(r, i) # 0
      BY <2>2 DEF Apply
    <3> QED
      BY <3>1, ApplyRun DEF AfterPage, Apply, Existing
  <2> QED
    BY <2>1, <2>2, ApplyRun DEF Existing
<1>7. Complete'
  BY ApplyRun DEF Complete
<1> QED
  BY <1>2, <1>3, <1>4, <1>5, <1>6, <1>7

LEMMA PagedNext ==
  ASSUME Paged, [Next]_vars
  PROVE  Paged'
<1>1. CASE UNCHANGED vars
  BY <1>1 DEF vars, serverVars, deviceVars, runVars, Paged, TypeOK, Stamped, Settled, Within, Accepted, Existing, Complete
<1>2. CASE Next
  BY <1>2, PagedTick, PagedWrite, PagedCommit, PagedPurge, PagedEvict, PagedBegin, PagedReset, PagedFetch,
     PagedRefuse, PagedReadRows, PagedReadTombs, PagedApply, PagedAbandon, PagedForbidden DEF Next, RunStep
<1> QED
  BY <1>1, <1>2

\* Type correctness of the server, the store and every run, for any number of
\* concurrent runs over the list.
THEOREM TypeCorrect == Spec => []TypeOK
<1>1. Paged => TypeOK
  BY DEF Paged
<1> QED
  BY <1>1, PagedInit, PagedNext, PTL DEF Spec

-----------------------------------------------------------------------------
(* The invariant of a list that has one run at a time. *)

\* SyncManager.running: one run over a list.
OneRun == \A r, s \in Runners : r = s

\* A run works on the stored state row; only a transcript that retention dropped
\* under its run loses the row meanwhile.  A run that fetches from "0" is a resync.
Recorded ==
    /\ ~known => state = NewState
    /\ \A r \in Runners :
          /\ pc[r] # "idle" /\ known => mem[r] = state
          /\ pc[r] # "idle" /\ ~Transcript => known
          /\ pc[r] \in {"fetch", "rows", "tombs", "apply"} => mem[r].fullGen # 0 \/ ~mem[r].cursor.full

\* A resync has a generation no stored row has yet.
Generations ==
    ~Transcript =>
        /\ state.fullGen # 0 => state.gen < state.fullGen
        /\ \A i \in Items :
              /\ rowGen[i] <= Max2(state.gen, state.fullGen)
              /\ state.cursor.full /\ state.fullGen # 0 => rowGen[i] < state.fullGen

\* What the store will have of an item once a resync of generation g has swept it.
Kept(i, g) == IF g # 0 /\ rowGen[i] < g THEN 0 ELSE store[i]

\* The stored value v of item i, with row stamp a and tombstone stamp d on the
\* server, is right, or what makes it right comes after the cursor.
Sound(v, a, d, i, c) ==
    /\ a # 0 /\ d = 0 => v = a \/ After(Position(a, i), c.rows)
    /\ ~(a # 0 /\ d = 0) /\ ~Transcript => v = 0 \/ (d # 0 /\ After(Position(d, i), c.tombs))

Covers(s) == ~s.cursor.full => \A i \in Items \ evicted : Sound(Kept(i, s.fullGen), ver[i], dead[i], i, s.cursor)

\* The same of a page that is being read (its rows) and of one to be applied.
PageValue(r, i) ==
    IF page[r].rows[i] # 0 THEN page[r].rows[i]
    ELSE IF i \in page[r].tombs THEN 0 ELSE Kept(i, mem[r].fullGen)
Reached(r, i) == i \notin evicted \/ page[r].rows[i] # 0 \/ i \in page[r].tombs
RowsCover(r) ==
    \A i \in Items : ver[i] # 0 /\ dead[i] = 0 /\ Reached(r, i) =>
        PageValue(r, i) = ver[i] \/ After(Position(ver[i], i), page[r].next.rows)
PageCovers(r) == \A i \in Items : Reached(r, i) => Sound(PageValue(r, i), ver[i], dead[i], i, page[r].next)

\* A dropped transcript has only rows of the run that goes on writing it.
AllFresh(r) == \A i \in Items : store[i] # 0 => mem[r].fullGen <= rowGen[i]

RunCovers(r) ==
    \/ ~known /\ AllFresh(r)
    \/ Covers(mem[r]) /\ (pc[r] = "tombs" => RowsCover(r)) /\ (pc[r] = "apply" => PageCovers(r))

Covered == Covers(state) /\ \A r \in Runners : RunCovers(r)

Tracked == Recorded /\ Generations /\ Covered

LEMMA TrackedInit == Init => Tracked
<1> SUFFICES ASSUME Init PROVE Tracked
  OBVIOUS
<1>1. Recorded /\ Generations
  BY EmptyValues DEF Init, Recorded, Generations, Max2
<1>2. Covered
  BY EmptyValues DEF Init, Covered, Covers, RunCovers
<1> QED
  BY <1>1, <1>2 DEF Tracked

LEMMA TrackedSame ==
  ASSUME Tracked, UNCHANGED <<ver, dead, deviceVars, runVars>>
  PROVE  Tracked'
  BY DEF Tracked, Recorded, Generations, Covered, Covers, RunCovers, RowsCover, PageCovers, AllFresh, PageValue,
         Reached, Kept, deviceVars, runVars

\* A commit comes after every cursor that stopped before the settle window.
LEMMA CommitSound ==
  ASSUME Paged, NEW i \in Items, Commit(i), NEW j \in Items, NEW c \in Cursors, NEW t \in Nat, t <= now,
         Within(c, t), NEW v, Sound(v, ver[j], dead[j], j, c)
  PROVE  Sound(v, ver'[j], dead'[j], j, c)
<1>1. CASE j # i
  <2>1. ver'[j] = ver[j] /\ dead'[j] = dead[j]
    BY <1>1 DEF Commit, Paged, TypeOK
  <2> QED
    BY <2>1
<1>2. CASE j = i
  <2>1. c.rows[1] \in Nat /\ c.tombs[1] \in Nat
    BY DEF Cursors, Positions
  <2>2. writing[i] \in Nat /\ writing[i] # 0 /\ now < writing[i] + Window /\ dead[i] = 0 /\ now \in Nat
    BY DEF Commit, Paged, TypeOK, Stamped
  <2>3. writing[i] > c.rows[1] /\ writing[i] > c.tombs[1]
    BY <2>1, <2>2, Constants DEF Within
  <2>4. After(Position(writing[i], i), c.rows) /\ After(Position(writing[i], i), c.tombs)
    BY <2>3 DEF After, Position
  <2>5. CASE i \in deleting
    <3>1. dead'[i] = writing[i]
      BY <2>5 DEF Commit, Paged, TypeOK
    <3> QED
      BY <1>2, <2>2, <2>4, <3>1 DEF Sound
  <2>6. CASE i \notin deleting
    <3>1. ver'[i] = writing[i] /\ dead'[i] = 0
      BY <2>2, <2>6 DEF Commit, Paged, TypeOK
    <3> QED
      BY <1>2, <2>2, <2>4, <3>1 DEF Sound
  <2> QED
    BY <2>5, <2>6
<1> QED
  BY <1>1, <1>2

LEMMA TrackedCommit ==
  ASSUME Paged, Tracked, NEW i \in Items, Commit(i)
  PROVE  Tracked'
<1>1. UNCHANGED <<now, deviceVars, runVars>>
  BY DEF Commit
<1>2. Recorded' /\ Generations'
  BY <1>1 DEF Tracked, Recorded, Generations, deviceVars, runVars
<1>3. ASSUME NEW s \in States, Within(s.cursor, now), Covers(s)
      PROVE  ~s.cursor.full => \A j \in Items \ evicted : Sound(Kept(j, s.fullGen), ver'[j], dead'[j], j, s.cursor)
  <2>1. s.cursor \in Cursors /\ now \in Nat /\ now <= now
    BY DEF States, Paged, TypeOK
  <2> QED
    BY <1>3, <2>1, CommitSound DEF Covers
<1>4. Covers(state)'
  BY <1>1, <1>3 DEF Covers, Kept, deviceVars, Tracked, Covered, Paged, TypeOK, Settled
<1>5. ASSUME NEW r \in Runners
      PROVE  RunCovers(r)'
  <2>1. CASE ~known /\ AllFresh(r)
    BY <1>1, <2>1 DEF RunCovers, AllFresh, deviceVars, runVars
  <2>2. CASE Covers(mem[r]) /\ (pc[r] = "tombs" => RowsCover(r)) /\ (pc[r] = "apply" => PageCovers(r))
    <3>1. Covers(mem[r])'
      BY <1>1, <1>3, <2>2 DEF Covers, Kept, deviceVars, runVars, Paged, TypeOK, Settled
    <3>2. ASSUME pc[r] = "apply" PROVE PageCovers(r)'
      <4>1. page[r].next \in Cursors /\ page[r].at \in Nat /\ page[r].at <= now /\ Within(page[r].next, page[r].at)
        BY <3>2 DEF Paged, TypeOK, Pages, Settled
      <4>2. \A j \in Items : Reached(r, j) => Sound(PageValue(r, j), ver'[j], dead'[j], j, page[r].next)
        BY <2>2, <3>2, <4>1, CommitSound DEF PageCovers
      <4> QED
        BY <1>1, <4>2 DEF PageCovers, Reached, PageValue, Kept, deviceVars, runVars
    <3>3. ASSUME pc[r] = "tombs" PROVE RowsCover(r)'
      <4>1. page[r].next \in Cursors /\ page[r].at \in Nat /\ page[r].at <= now /\ Within(page[r].next, page[r].at)
        BY <3>3 DEF Paged, TypeOK, Pages, Settled
      <4>2. ASSUME NEW j \in Items, ver'[j] # 0, dead'[j] = 0, Reached(r, j)
            PROVE  PageValue(r, j) = ver'[j] \/ After(Position(ver'[j], j), page[r].next.rows)
        <5>1. CASE ver[j] # 0 /\ dead[j] = 0
          <6>1. PageValue(r, j) = ver[j] \/ After(Position(ver[j], j), page[r].next.rows)
            BY <2>2, <3>3, <4>2, <5>1 DEF RowsCover
          <6>2. \E v : v = PageValue(r, j) /\ Sound(v, ver[j], dead[j], j, page[r].next)
            BY <5>1, <6>1 DEF Sound
          <6> QED
            BY <4>1, <4>2, <6>2, CommitSound DEF Sound
        <5>2. CASE ~(ver[j] # 0 /\ dead[j] = 0)
          <6>1. dead[j] = 0 /\ ver[j] = 0
            BY <4>2, <5>2 DEF Commit, Paged, TypeOK, Stamped
          <6>2. Sound(0, ver[j], dead[j], j, page[r].next)
            BY <6>1 DEF Sound
          <6>3. Sound(0, ver'[j], dead'[j], j, page[r].next)
            BY <4>1, <6>2, CommitSound
          <6> QED
            BY <4>2, <6>3 DEF Sound
        <5> QED
          BY <5>1, <5>2
      <4> QED
        BY <1>1, <4>2 DEF RowsCover, Reached, PageValue, Kept, deviceVars, runVars
    <3> QED
      BY <1>1, <3>1, <3>2, <3>3 DEF RunCovers, runVars
  <2> QED
    BY <2>1, <2>2 DEF Tracked, Covered, RunCovers
<1> QED
  BY <1>2, <1>4, <1>5 DEF Tracked, Covered

\* Retention takes a list's row away from the store and from what must be covered.
LEMMA TrackedEvict ==
  ASSUME Paged, Tracked, NEW i \in Items, Evict(i)
  PROVE  Tracked'
<1>1. UNCHANGED <<serverVars, runVars>>
  BY DEF Evict
<1>2. CASE Transcript
  <2>1. Forget
    BY <1>2 DEF Evict
  <2>2. Recorded' /\ Generations'
    BY <1>1, <1>2, <2>1 DEF Tracked, Recorded, Generations, Forget, runVars
  <2>3. Covered'
    BY <2>1, EmptyValues DEF Covered, Covers, RunCovers, AllFresh, Forget
  <2> QED
    BY <2>2, <2>3 DEF Tracked
<1>3. CASE ~Transcript
  <2>1. /\ store' = [store EXCEPT ![i] = 0] /\ rowGen' = [rowGen EXCEPT ![i] = 0]
        /\ evicted' = evicted \cup {i} /\ UNCHANGED <<known, state>>
    BY <1>3 DEF Evict
  <2>2. \A j \in Items : j # i => store'[j] = store[j] /\ rowGen'[j] = rowGen[j]
    BY <2>1 DEF Paged, TypeOK
  <2>3. store'[i] = 0 /\ rowGen'[i] = 0 /\ i \in evicted'
    BY <2>1 DEF Paged, TypeOK
  <2>4. Recorded'
    BY <1>1, <2>1 DEF Tracked, Recorded, runVars
  <2>5. Generations'
    <3>1. \A j \in Items : rowGen'[j] <= rowGen[j] /\ rowGen'[j] \in Nat /\ rowGen[j] \in Nat
      BY <2>2, <2>3 DEF Paged, TypeOK
    <3>2. state.gen \in Nat /\ state.fullGen \in Nat
      BY DEF Paged, TypeOK, States
    <3> QED
      BY <1>3, <2>1, <3>1, <3>2 DEF Tracked, Generations, Max2
  <2>6. \A s : Covers(s) => (~s.cursor.full => \A j \in Items \ evicted' :
                  Sound(IF s.fullGen # 0 /\ rowGen'[j] < s.fullGen THEN 0 ELSE store'[j], ver[j], dead[j], j, s.cursor))
    BY <2>1, <2>2 DEF Covers, Kept
  <2>7. Covers(state)'
    BY <1>1, <2>1, <2>6 DEF Covers, Kept, serverVars, Tracked, Covered
  <2>8. ASSUME NEW r \in Runners PROVE RunCovers(r)'
    <3>1. CASE ~known /\ AllFresh(r)
      BY <1>1, <2>1, <2>2, <2>3, <3>1 DEF RunCovers, AllFresh, runVars
    <3>2. CASE Covers(mem[r]) /\ (pc[r] = "tombs" => RowsCover(r)) /\ (pc[r] = "apply" => PageCovers(r))
      <4>1. Covers(mem[r])'
        BY <1>1, <2>6, <3>2 DEF Covers, Kept, serverVars, runVars
      <4>2. \A j \in Items : Reached(r, j)' => Reached(r, j) /\ PageValue(r, j)' = PageValue(r, j)
        BY <1>1, <2>1, <2>2, <2>3 DEF Reached, PageValue, Kept, runVars
      <4>3. pc[r] = "tombs" => RowsCover(r)'
        BY <1>1, <3>2, <4>2 DEF RowsCover, serverVars, runVars
      <4>4. pc[r] = "apply" => PageCovers(r)'
        BY <1>1, <3>2, <4>2 DEF PageCovers, serverVars, runVars
      <4> QED
        BY <1>1, <4>1, <4>3, <4>4 DEF RunCovers, runVars
    <3> QED
      BY <3>1, <3>2 DEF Tracked, Covered, RunCovers
  <2> QED
    BY <2>4, <2>5, <2>7, <2>8 DEF Tracked, Covered
<1> QED
  BY <1>2, <1>3

\* The stored state row is covered when neither it, the store nor the server moves.
LEMMA StateStillCovered ==
  ASSUME Tracked, UNCHANGED <<ver, dead, store, rowGen, evicted, state>>
  PROVE  Covers(state)' /\ Generations'
  BY DEF Tracked, Covered, Covers, Kept, Generations

\* A run that has ended, or is not there, has nothing to cover but its state row.
LEMMA StoppedCovers ==
  ASSUME NEW r \in Runners, mem'[r].cursor.full, pc'[r] \notin {"tombs", "apply"}
  PROVE  RunCovers(r)'
  BY DEF RunCovers, Covers

LEMMA TrackedBegin ==
  ASSUME OneRun, Paged, Tracked, NEW r \in Runners, Begin(r)
  PROVE  Tracked'
<1>1. /\ UNCHANGED <<serverVars, store, rowGen, state, evicted, resets, page>> /\ known'
      /\ mem'[r] = state /\ pc'[r] \in {"fetch", "reset"}
      /\ pc'[r] = "fetch" => known /\ ~(state.cursor.full /\ state.fullGen = 0)
  BY DEF Begin, Paged, TypeOK
<1>2. \A s \in Runners : s = r
  BY DEF OneRun
<1>3. Recorded'
  BY <1>1, <1>2 DEF Recorded
<1>4. Covers(state)' /\ Generations'
  BY <1>1, StateStillCovered DEF serverVars
<1>5. RunCovers(r)'
  BY <1>1, <1>4 DEF RunCovers, Covers, Kept
<1> QED
  BY <1>2, <1>3, <1>4, <1>5 DEF Tracked, Covered

LEMMA TrackedReset ==
  ASSUME OneRun, Paged, Tracked, NEW r \in Runners, Reset(r)
  PROVE  Tracked'
<1> DEFINE g == Max2(mem[r].gen, mem[r].fullGen) + 1
<1>1. \A s \in Runners : s = r
  BY DEF OneRun
<1>2. mem[r] \in States /\ mem[r].gen \in Nat /\ mem[r].fullGen \in Nat /\ g \in Nat /\ g > 0
      /\ mem[r].gen < g /\ mem[r].fullGen < g
  <2>1. mem[r] \in States /\ mem[r].gen \in Nat /\ mem[r].fullGen \in Nat
    BY DEF Paged, TypeOK, States
  <2> QED
    BY <2>1 DEF Max2
<1>3. /\ pc[r] = "reset" /\ pc'[r] = "fetch" /\ UNCHANGED <<serverVars, store, rowGen, known, evicted>>
      /\ mem'[r] = [mem[r] EXCEPT !.cursor = FullCursor, !.fullGen = g]
      /\ state' = IF known THEN [state EXCEPT !.cursor = FullCursor, !.fullGen = g] ELSE state
  <2>1. [mem[r] EXCEPT !.cursor = FullCursor, !.fullGen = g].fullGen = g
    <3> HIDE DEF g
    <3> QED
      BY <1>2 DEF States
  <2> QED
    BY <2>1 DEF Reset, Paged, TypeOK
<1> HIDE DEF g
<1>4. mem'[r].cursor = FullCursor /\ mem'[r].fullGen = g /\ mem'[r].gen = mem[r].gen
  BY <1>2, <1>3 DEF States
<1>5. known => mem[r] = state /\ state' = mem'[r]
  BY <1>3 DEF Tracked, Recorded
<1>6. Recorded'
  <2>1. ~known => state = NewState
    BY DEF Tracked, Recorded
  <2>2. ~known' => state' = NewState
    BY <1>3, <2>1
  <2>3. known' => mem'[r] = state'
    BY <1>3, <1>5
  <2>4. ~Transcript => known'
    BY <1>3 DEF Tracked, Recorded
  <2>5. mem'[r].fullGen # 0
    BY <1>2, <1>4
  <2> QED
    BY <1>1, <2>2, <2>3, <2>4, <2>5 DEF Recorded
<1>7. Generations'
  <2>1. ASSUME ~Transcript
        PROVE  /\ state'.fullGen = g /\ state'.gen = mem[r].gen /\ state = mem[r]
               /\ \A i \in Items : rowGen'[i] \in Nat /\ rowGen'[i] < g
    <3>1. known /\ state = mem[r] /\ state' = mem'[r]
      BY <1>3, <1>5, <2>1 DEF Tracked, Recorded
    <3>2. \A i \in Items : rowGen[i] <= Max2(mem[r].gen, mem[r].fullGen) /\ rowGen[i] \in Nat
      BY <2>1, <3>1 DEF Tracked, Generations, Paged, TypeOK
    <3> QED
      BY <1>2, <1>3, <1>4, <3>1, <3>2 DEF Max2
  <2> QED
    BY <1>2, <2>1 DEF Generations, Max2
<1>8. Covers(state)'
  BY <1>3, <1>4, <1>5, EmptyValues DEF Covers, Tracked, Recorded
<1>9. RunCovers(r)'
  BY <1>3, <1>4, EmptyValues, StoppedCovers
<1> QED
  BY <1>1, <1>6, <1>7, <1>8, <1>9 DEF Tracked, Covered

LEMMA TrackedFetch ==
  ASSUME OneRun, Paged, Tracked, NEW r \in Runners, Fetch(r)
  PROVE  Tracked'
<1>1. \A s \in Runners : s = r
  BY DEF OneRun
<1>2. pc[r] = "fetch" /\ pc'[r] = "rows" /\ UNCHANGED <<serverVars, deviceVars, mem, resets>>
  BY DEF Fetch, Paged, TypeOK
<1>3. Recorded'
  BY <1>1, <1>2 DEF Tracked, Recorded, deviceVars
<1>4. Covers(state)' /\ Generations'
  BY <1>2, StateStillCovered DEF serverVars, deviceVars
<1>5. RunCovers(r)'
  BY <1>2 DEF Tracked, Covered, RunCovers, AllFresh, Covers, Kept, serverVars, deviceVars
<1> QED
  BY <1>1, <1>3, <1>4, <1>5 DEF Tracked, Covered

\* A run that stops without touching the store.
LEMMA TrackedStop ==
  ASSUME OneRun, Paged, Tracked, NEW r \in Runners, Stop(r), UNCHANGED <<serverVars, deviceVars>>
  PROVE  Tracked'
<1>1. \A s \in Runners : s = r
  BY DEF OneRun
<1>2. pc'[r] = "idle" /\ mem'[r] = NewState
  BY DEF Stop, Paged, TypeOK
<1>3. Recorded'
  BY <1>1, <1>2 DEF Tracked, Recorded, deviceVars
<1>4. Covers(state)' /\ Generations'
  BY StateStillCovered DEF serverVars, deviceVars
<1>5. RunCovers(r)'
  BY <1>2, EmptyValues, StoppedCovers
<1> QED
  BY <1>1, <1>3, <1>4, <1>5 DEF Tracked, Covered

LEMMA TrackedRefuse ==
  ASSUME OneRun, Paged, Tracked, NEW r \in Runners, Refuse(r)
  PROVE  Tracked'
<1>1. UNCHANGED <<serverVars, deviceVars>>
  BY DEF Refuse
<1>2. CASE resets[r] # 0
  BY <1>1, <1>2, TrackedStop DEF Refuse
<1>3. CASE resets[r] = 0
  <2>1. \A s \in Runners : s = r
    BY DEF OneRun
  <2>2. pc[r] = "fetch" /\ pc'[r] = "reset" /\ mem' = mem
    BY <1>3 DEF Refuse, Paged, TypeOK
  <2>3. Recorded'
    BY <1>1, <2>1, <2>2 DEF Tracked, Recorded, deviceVars
  <2>4. Covers(state)' /\ Generations'
    BY <1>1, StateStillCovered DEF serverVars, deviceVars
  <2>5. RunCovers(r)'
    BY <1>1, <2>2 DEF Tracked, Covered, RunCovers, AllFresh, Covers, Kept, serverVars, deviceVars
  <2> QED
    BY <2>1, <2>3, <2>4, <2>5 DEF Tracked, Covered
<1> QED
  BY <1>2, <1>3

LEMMA TrackedForbidden ==
  ASSUME OneRun, Paged, Tracked, NEW r \in Runners, Forbidden(r)
  PROVE  Tracked'
<1>1. \A s \in Runners : s = r
  BY DEF OneRun
<1>2. pc'[r] = "idle" /\ mem'[r] = NewState
  BY DEF Forbidden, Stop, Paged, TypeOK
<1>3. ~known' /\ state' = NewState /\ \A i \in Items : rowGen'[i] = 0
  BY DEF Forbidden, Forget
<1>4. Recorded'
  BY <1>1, <1>2, <1>3 DEF Recorded
<1>5. Covers(state)' /\ Generations'
  BY <1>3, EmptyValues DEF Covers, Generations, Max2
<1>6. RunCovers(r)'
  BY <1>2, EmptyValues, StoppedCovers
<1> QED
  BY <1>1, <1>4, <1>5, <1>6 DEF Tracked, Covered

\* The rows of a page and the cursor after them, from what the old cursor covers.
LEMMA TrackedReadRows ==
  ASSUME OneRun, Paged, Tracked, NEW r \in Runners, ReadRows(r)
  PROVE  Tracked'
<1>1. \A s \in Runners : s = r
  BY DEF OneRun
<1>2. pc[r] = "rows" /\ pc'[r] = "tombs" /\ UNCHANGED <<serverVars, deviceVars, mem, resets>>
  BY DEF ReadRows, Paged, TypeOK
<1>3. Recorded'
  BY <1>1, <1>2 DEF Tracked, Recorded, deviceVars
<1>4. Covers(state)' /\ Generations'
  BY <1>2, StateStillCovered DEF serverVars, deviceVars
<1>5. ASSUME Covers(mem[r])
      PROVE  Covers(mem[r])' /\ RowsCover(r)'
  <2>1. Covers(mem[r])'
    BY <1>2, <1>5 DEF Covers, Kept, serverVars, deviceVars
  <2>2. page'[r].tombs = {}
    BY <1>2, RowsRead DEF Paged, Accepted
  <2>3. ASSUME NEW i \in Items, ver[i] # 0, dead[i] = 0, i \notin evicted \/ page'[r].rows[i] # 0
        PROVE  \/ page'[r].rows[i] # 0 /\ page'[r].rows[i] = ver[i]
               \/ page'[r].rows[i] = 0 /\ Kept(i, mem[r].fullGen) = ver[i]
               \/ After(Position(ver[i], i), page'[r].next.rows)
    <3>1. CASE page'[r].rows[i] # 0
      BY <3>1, RowsRead DEF Paged
    <3>2. CASE page'[r].rows[i] = 0 /\ mem[r].cursor.full
      <4>1. After(Position(ver[i], i), From(r))
        <5>1. ver[i] \in Nat
          BY DEF Paged, TypeOK
        <5> QED
          BY <2>3, <3>2, <5>1, Constants DEF From, After, Position
      <4> QED
        BY <2>3, <3>2, <4>1, RowsRead DEF Paged, Alive
    <3>3. CASE page'[r].rows[i] = 0 /\ ~mem[r].cursor.full
      <4>1. Kept(i, mem[r].fullGen) = ver[i] \/ After(Position(ver[i], i), mem[r].cursor.rows)
        BY <1>5, <2>3, <3>3 DEF Covers, Sound
      <4> QED
        BY <2>3, <3>3, <4>1, RowsRead DEF Paged, Alive, From
    <3> QED
      BY <3>1, <3>2, <3>3
  <2>4. RowsCover(r)'
    BY <1>2, <2>2, <2>3 DEF RowsCover, Reached, PageValue, Kept, serverVars, deviceVars
  <2> QED
    BY <2>1, <2>4
<1>6. RunCovers(r)'
  BY <1>2, <1>5 DEF Tracked, Covered, RunCovers, AllFresh, deviceVars
<1> QED
  BY <1>1, <1>3, <1>4, <1>6 DEF Tracked, Covered

\* The tombstones of a page: what a cursor of the accepted age leaves out of it is
\* still stored, and what a full pass leaves out is of an older generation.
LEMMA TrackedReadTombs ==
  ASSUME OneRun, Paged, Tracked, NEW r \in Runners, ReadTombs(r)
  PROVE  Tracked'
<1>1. \A s \in Runners : s = r
  BY DEF OneRun
<1>2. pc[r] = "tombs" /\ pc'[r] = "apply" /\ UNCHANGED <<serverVars, deviceVars, mem, resets>>
  BY DEF ReadTombs, Paged, TypeOK
<1>3. Recorded'
  BY <1>1, <1>2 DEF Tracked, Recorded, deviceVars
<1>4. Covers(state)' /\ Generations'
  BY <1>2, StateStillCovered DEF serverVars, deviceVars
<1>5. ASSUME Covers(mem[r]), RowsCover(r)
      PROVE  Covers(mem[r])' /\ PageCovers(r)'
  <2>1. Covers(mem[r])'
    BY <1>2, <1>5 DEF Covers, Kept, serverVars, deviceVars
  <2>2. /\ page'[r].at = page[r].at /\ page'[r].rows = page[r].rows /\ page'[r].next.rows = page[r].next.rows
        /\ page'[r].next.tombs[1] <= page[r].at - Window /\ page'[r].next.tombs[1] \in Nat /\ page[r].at \in Nat
        /\ page[r].at - Window \in Nat
        /\ \A i \in Items : i \in page'[r].tombs => dead[i] # 0
        /\ page[r].tombs = {}
    BY <1>2, TombsRead DEF Paged, Accepted, TypeOK, Pages, Positions
  <2> DEFINE value(i) == IF page[r].rows[i] # 0 THEN page[r].rows[i]
                         ELSE IF i \in page'[r].tombs THEN 0 ELSE Kept(i, mem[r].fullGen)
  <2>3. ASSUME NEW i \in Items, i \notin evicted \/ page[r].rows[i] # 0 \/ i \in page'[r].tombs,
               ver[i] # 0, dead[i] = 0
        PROVE  value(i) = ver[i] \/ After(Position(ver[i], i), page'[r].next.rows)
    <3>1. i \notin page'[r].tombs /\ Reached(r, i) /\ value(i) = PageValue(r, i)
      BY <2>2, <2>3 DEF Reached, PageValue
    <3> QED
      BY <1>5, <2>2, <2>3, <3>1 DEF RowsCover
  <2>4. ASSUME NEW i \in Items, i \notin evicted \/ page[r].rows[i] # 0 \/ i \in page'[r].tombs,
               ~(ver[i] # 0 /\ dead[i] = 0), ~Transcript, value(i) # 0
        PROVE  dead[i] # 0 /\ After(Position(dead[i], i), page'[r].next.tombs)
    <3>1. dead[i] \in Nat /\ ver[i] \in Nat /\ rowGen[i] \in Nat /\ (ver[i] = 0 => store[i] = 0)
      BY DEF Paged, TypeOK, Existing
    <3>2. CASE page[r].rows[i] # 0
      <4>1. ver[i] # 0 /\ dead[i] # 0 /\ page[r].at < dead[i] + Window
        BY <1>2, <2>4, <3>2 DEF Paged, Existing
      <4>2. dead[i] > page'[r].next.tombs[1]
        BY <2>2, <3>1, <4>1, Constants
      <4> QED
        BY <4>1, <4>2 DEF After, Position
    <3>3. CASE page[r].rows[i] = 0
      <4>1. i \notin page'[r].tombs /\ Kept(i, mem[r].fullGen) # 0 /\ i \notin evicted
        BY <2>4, <3>3
      <4>2. dead[i] # 0
        BY <2>4, <3>1, <4>1 DEF Kept
      <4>3. ~mem[r].cursor.full
        <5> SUFFICES ASSUME mem[r].cursor.full PROVE FALSE
          OBVIOUS
        <5>1. mem[r].fullGen # 0 /\ state = mem[r]
          BY <1>2, <2>4 DEF Tracked, Recorded
        <5>2. rowGen[i] < mem[r].fullGen
          BY <2>4, <5>1 DEF Tracked, Generations
        <5> QED
          BY <4>1, <5>1, <5>2 DEF Kept
      <4>4. After(Position(dead[i], i), mem[r].cursor.tombs)
        BY <1>5, <2>4, <4>1, <4>3 DEF Covers, Sound
      <4>5. i \notin purged
        <5> SUFFICES ASSUME i \in purged PROVE FALSE
          OBVIOUS
        <5>1. dead[i] + Retention < page[r].at /\ page[r].at <= mem[r].cursor.tombs[1] + Retention
          BY <1>2, <4>3 DEF Paged, Accepted
        <5>2. mem[r].cursor.tombs[1] \in Nat
          BY DEF Paged, TypeOK, States, Cursors, Positions
        <5>3. dead[i] < mem[r].cursor.tombs[1]
          BY <2>2, <3>1, <5>1, <5>2, Constants
        <5> QED
          BY <3>1, <4>4, <5>2, <5>3 DEF After, Position
      <4>6. TombsFrom(r) = mem[r].cursor.tombs
        BY <4>3 DEF TombsFrom, TombstonesFrom
      <4> QED
        BY <4>1, <4>2, <4>4, <4>5, <4>6, TombsRead DEF Paged
    <3> QED
      BY <3>2, <3>3
  <2>5. \A i \in Items : PageValue(r, i)' = value(i)
    BY <1>2, <2>2 DEF PageValue, Kept, deviceVars
  <2> HIDE DEF value
  <2>6. PageCovers(r)'
    BY <1>2, <2>2, <2>3, <2>4, <2>5 DEF PageCovers, Sound, Reached, serverVars, deviceVars
  <2> QED
    BY <2>1, <2>6
<1>6. RunCovers(r)'
  BY <1>2, <1>5 DEF Tracked, Covered, RunCovers, AllFresh, deviceVars
<1> QED
  BY <1>1, <1>3, <1>4, <1>6 DEF Tracked, Covered

\* Applying a page leaves in the store what the page and the coming sweep say.
LEMMA AppliedValue ==
  ASSUME Paged, NEW r \in Runners, Apply(r), NEW i \in Items
  PROVE  PageValue(r, i) =
           IF Followed(r).fullGen # 0 /\ rowGen'[i] < Followed(r).fullGen THEN 0 ELSE store'[i]
<1> DEFINE g == mem[r].fullGen
           F == Followed(r).fullGen
<1>1. g \in Nat /\ rowGen[i] \in Nat /\ page[r].rows[i] \in Nat /\ store[i] \in Nat
  BY DEF Paged, TypeOK, States, Pages
<1>2. /\ store'[i] = IF Swept(r, i) THEN 0 ELSE AfterPage(r, i)
      /\ rowGen'[i] = IF store'[i] = 0 THEN 0 ELSE GenAfterPage(r, i)
  BY DEF Apply
<1>3. CASE g # 0 /\ page[r].more
  <2>1. F = g
    BY <1>3, FollowedState DEF Paged
  <2> QED
    BY <1>1, <1>2, <1>3, <2>1 DEF PageValue, Kept, Swept, AfterPage, GenAfterPage, WriteGen
<1>4. CASE g # 0 /\ ~page[r].more
  <2>1. F = 0
    BY <1>4, FollowedState DEF Paged
  <2> QED
    BY <1>1, <1>2, <1>4, <2>1 DEF PageValue, Kept, Swept, AfterPage, GenAfterPage, WriteGen
<1>5. CASE g = 0
  <2>1. F = 0
    BY <1>5, FollowedState DEF Paged
  <2> QED
    BY <1>1, <1>2, <1>5, <2>1 DEF PageValue, Kept, Swept, AfterPage
<1> QED
  BY <1>3, <1>4, <1>5

LEMMA TrackedApply ==
  ASSUME OneRun, Paged, Tracked, NEW r \in Runners, Apply(r)
  PROVE  Tracked'
<1>1. \A s \in Runners : s = r
  BY DEF OneRun
<1>2. /\ pc[r] = "apply" /\ pc'[r] \in {"idle", "fetch"} /\ known' = known /\ UNCHANGED <<ver, dead>>
      /\ mem'[r] = (IF pc'[r] = "fetch" THEN Followed(r) ELSE NewState)
      /\ state' = (IF known THEN Followed(r) ELSE state)
  BY ApplyRun DEF Paged, Apply, serverVars
<1>3. known => mem[r] = state
  BY <1>2 DEF Tracked, Recorded
<1>4. Followed(r).cursor = page[r].next /\ ~page[r].next.full
  BY <1>2, FollowedState DEF Paged, Settled
<1>5. Recorded'
  <2>1. ~known' => state' = NewState
    BY <1>2 DEF Tracked, Recorded
  <2>2. ~Transcript => known'
    BY <1>2 DEF Tracked, Recorded
  <2>3. pc'[r] = "fetch" => (known' => mem'[r] = state') /\ ~mem'[r].cursor.full
    BY <1>2, <1>4
  <2> QED
    BY <1>1, <1>2, <2>1, <2>2, <2>3 DEF Recorded
<1>6. Generations'
  <2> SUFFICES ASSUME ~Transcript
               PROVE  /\ state'.fullGen # 0 => state'.gen < state'.fullGen
                      /\ ~state'.cursor.full
                      /\ \A i \in Items : rowGen'[i] <= Max2(state'.gen, state'.fullGen)
    BY DEF Generations
  <2>1. known /\ mem[r] = state /\ state' = Followed(r)
    BY <1>2, <1>3 DEF Tracked, Recorded
  <2>2. mem[r].gen \in Nat /\ mem[r].fullGen \in Nat /\ (mem[r].fullGen # 0 => mem[r].gen < mem[r].fullGen)
    BY <2>1 DEF Tracked, Generations, Paged, TypeOK, States
  <2>3. \A i \in Items : rowGen[i] \in Nat /\ rowGen[i] <= WriteGen(r)
    BY <2>1, <2>2 DEF Tracked, Generations, Paged, TypeOK, Max2, WriteGen
  <2>4. \A i \in Items : rowGen'[i] \in Nat /\ rowGen'[i] <= WriteGen(r)
    <3>1. \A i \in Items : rowGen'[i] = 0 \/ rowGen'[i] = WriteGen(r) \/ rowGen'[i] = rowGen[i]
      BY DEF Apply, GenAfterPage
    <3>2. WriteGen(r) \in Nat
      BY <2>2 DEF WriteGen
    <3> QED
      BY <2>3, <3>1, <3>2
  <2>5. WriteGen(r) = Max2(state'.gen, state'.fullGen) /\ (state'.fullGen # 0 => state'.gen < state'.fullGen)
    <3>1. CASE ~page[r].more /\ mem[r].fullGen # 0
      <4>1. state'.gen = mem[r].fullGen /\ state'.fullGen = 0
        BY <2>1, <3>1, FollowedState DEF Paged
      <4> QED
        BY <2>2, <3>1, <4>1 DEF Max2, WriteGen
    <3>2. CASE page[r].more \/ mem[r].fullGen = 0
      <4>1. state'.gen = mem[r].gen /\ state'.fullGen = mem[r].fullGen
        BY <2>1, <3>2, FollowedState DEF Paged
      <4> QED
        BY <2>2, <4>1 DEF Max2, WriteGen
    <3> QED
      BY <3>1, <3>2
  <2> QED
    BY <1>4, <2>1, <2>4, <2>5
<1>7. ASSUME PageCovers(r)
      PROVE  \A i \in Items \ evicted' :
               Sound(IF Followed(r).fullGen # 0 /\ rowGen'[i] < Followed(r).fullGen THEN 0 ELSE store'[i],
                     ver'[i], dead'[i], i, Followed(r).cursor)
  <2>1. \A i \in Items \ evicted' : Reached(r, i)
    BY DEF Apply, Reached
  <2> QED
    BY <1>2, <1>4, <1>7, <2>1, AppliedValue DEF PageCovers
<1>8. Covers(state)'
  <2>1. CASE known
    <3>1. PageCovers(r)
      BY <1>2, <2>1 DEF Tracked, Covered, RunCovers
    <3>2. state' = Followed(r)
      BY <1>2, <2>1
    <3> QED
      BY <1>7, <3>1, <3>2 DEF Covers, Kept
  <2>2. CASE ~known
    BY <1>2, <2>2, EmptyValues DEF Tracked, Recorded, Covers
  <2> QED
    BY <2>1, <2>2
<1>9. RunCovers(r)'
  <2>1. CASE pc'[r] = "idle"
    BY <1>2, <2>1, EmptyValues, StoppedCovers
  <2>2. CASE pc'[r] = "fetch" /\ PageCovers(r)
    <3>1. mem'[r] = Followed(r)
      BY <1>2, <2>2
    <3>2. Covers(mem[r])'
      BY <1>7, <2>2, <3>1 DEF Covers, Kept
    <3> QED
      BY <2>2, <3>2 DEF RunCovers
  <2>3. CASE pc'[r] = "fetch" /\ ~known /\ AllFresh(r)
    <3>1. mem'[r].fullGen = 0 \/ mem'[r].fullGen = mem[r].fullGen
      BY <1>2, <2>3, FollowedState DEF Paged
    <3>2. ASSUME NEW i \in Items, store'[i] # 0
          PROVE  mem'[r].fullGen <= rowGen'[i]
      <4>1. /\ mem[r].fullGen \in Nat /\ mem[r].gen \in Nat /\ rowGen[i] \in Nat
        BY DEF Paged, TypeOK, States
      <4>2. rowGen'[i] = GenAfterPage(r, i) /\ AfterPage(r, i) # 0
        BY <3>2 DEF Apply
      <4>3. GenAfterPage(r, i) \in Nat /\ mem[r].fullGen <= GenAfterPage(r, i)
        BY <2>3, <4>1, <4>2 DEF GenAfterPage, AfterPage, WriteGen, AllFresh
      <4> QED
        BY <3>1, <4>1, <4>2, <4>3
    <3> QED
      BY <1>2, <2>3, <3>2 DEF RunCovers, AllFresh
  <2> QED
    BY <1>2, <2>1, <2>2, <2>3 DEF Tracked, Covered, RunCovers
<1> QED
  BY <1>1, <1>5, <1>6, <1>8, <1>9 DEF Tracked, Covered

LEMMA TrackedNext ==
  ASSUME OneRun, Paged, Tracked, [Next]_vars
  PROVE  Tracked'
<1>1. CASE UNCHANGED vars \/ Tick \/ \E i \in Items : Purge(i) \/ \E d \in BOOLEAN : Write(i, d)
  <2>1. UNCHANGED <<ver, dead, deviceVars, runVars>>
    BY <1>1 DEF vars, serverVars, Tick, Purge, Write
  <2> QED
    BY <2>1, TrackedSame
<1>2. CASE \E i \in Items : Commit(i) \/ Evict(i)
  BY <1>2, TrackedCommit, TrackedEvict
<1>3. CASE \E r \in Runners : RunStep(r)
  BY <1>3, TrackedBegin, TrackedReset, TrackedFetch, TrackedRefuse, TrackedReadRows, TrackedReadTombs,
     TrackedApply DEF RunStep
<1>4. CASE \E r \in Runners : Abandon(r) \/ Forbidden(r)
  BY <1>4, TrackedStop, TrackedForbidden DEF Abandon
<1> QED
  BY <1>1, <1>2, <1>3, <1>4 DEF Next

\* A list, which has one run at a time: the stored cursor never passes a change the
\* store does not have, for any number of items, page size, window and retention.
THEOREM CursorCoversChanges ==
  ASSUME OneRun, ~Transcript
  PROVE  Spec => []CursorCovers
<1>1. Init => Paged /\ Tracked
  BY PagedInit, TrackedInit
<1>2. Paged /\ Tracked /\ [Next]_vars => (Paged /\ Tracked)'
  BY PagedNext, TrackedNext
<1>3. Paged /\ Tracked => CursorCovers
  <2> SUFFICES ASSUME Tracked, ~state.cursor.full, state.fullGen = 0, NEW i \in Items \ evicted
               PROVE  \/ Current(i)
                      \/ Alive(i) /\ After(Position(ver[i], i), state.cursor.rows)
                      \/ dead[i] # 0 /\ After(Position(dead[i], i), state.cursor.tombs)
    BY DEF CursorCovers
  <2>1. Sound(store[i], ver[i], dead[i], i, state.cursor)
    BY DEF Tracked, Covered, Covers, Kept
  <2> QED
    BY <2>1 DEF Sound, Current, Alive
<1> QED
  BY <1>1, <1>2, <1>3, PTL DEF Spec

\* A list, or a transcript with one run: a page removes an item the server still
\* has only when its last change was still settling, also when retention drops the
\* transcript under its run.
THEOREM ResyncLoses ==
  ASSUME OneRun
  PROVE  Spec => ResyncLosesNothing
<1> DEFINE Keeps == \A i \in Items, r \in Runners :
              pc[r] = "apply" /\ pc'[r] # "apply" /\ store[i] # 0 /\ store'[i] = 0
              => dead[i] # 0 \/ writing[i] # 0 \/ ver[i] > page[r].at - Window
<1>1. Init => Paged /\ Tracked
  BY PagedInit, TrackedInit
<1>2. Paged /\ Tracked /\ [Next]_vars => (Paged /\ Tracked)'
  BY PagedNext, TrackedNext
<1>3. ASSUME Paged, Tracked, Next PROVE Keeps
  <2> SUFFICES ASSUME NEW i \in Items, NEW r \in Runners, pc[r] = "apply", pc'[r] # "apply",
                      store[i] # 0, store'[i] = 0, dead[i] = 0
               PROVE  ver[i] > page[r].at - Window
    OBVIOUS
  <2>1. Apply(r)
    <3>1. \A s \in Runners : s = r
      BY DEF OneRun
    <3>2. ~UNCHANGED <<pc, store>> /\ ~UNCHANGED store /\ ~UNCHANGED pc
      OBVIOUS
    <3>3. ~Tick /\ ~\E j \in Items : Commit(j) \/ Purge(j) \/ Evict(j) \/ \E d \in BOOLEAN : Write(j, d)
      BY <3>2 DEF Tick, Commit, Purge, Evict, Write, runVars, deviceVars
    <3>4. ~Begin(r) /\ ~Reset(r) /\ ~Fetch(r) /\ ~Refuse(r) /\ ~ReadRows(r) /\ ~ReadTombs(r) /\ ~Forbidden(r)
      BY DEF Begin, Reset, Fetch, Refuse, ReadRows, ReadTombs, Forbidden
    <3>5. ~Abandon(r)
      BY <3>2 DEF Abandon, deviceVars
    <3> QED
      BY <1>3, <3>1, <3>3, <3>4, <3>5 DEF Next, RunStep
  <2>2. ver[i] # 0 /\ i \notin evicted /\ i \notin page[r].tombs
    BY <1>3 DEF Paged, Existing
  <2>3. Swept(r, i) /\ page[r].rows[i] = 0
    <3>1. store'[i] = IF Swept(r, i) THEN 0 ELSE AfterPage(r, i)
      BY <2>1 DEF Apply
    <3>2. mem[r].fullGen \in Nat
      BY <1>3 DEF Paged, TypeOK, States
    <3> QED
      BY <2>2, <3>1, <3>2 DEF AfterPage, Swept, GenAfterPage, WriteGen
  <2>4. ~page[r].more /\ mem[r].fullGen # 0 /\ rowGen[i] < mem[r].fullGen
    BY <2>3 DEF Swept, GenAfterPage
  <2>5. PageCovers(r)
    <3>1. mem[r].fullGen \in Nat /\ rowGen[i] \in Nat
      BY <1>3 DEF Paged, TypeOK, States
    <3> QED
      BY <1>3, <2>4, <3>1 DEF Tracked, Covered, RunCovers, AllFresh
  <2>6. After(Position(ver[i], i), page[r].next.rows)
    <3>1. PageValue(r, i) = 0 /\ Reached(r, i)
      BY <2>2, <2>3, <2>4 DEF PageValue, Kept, Reached
    <3> QED
      BY <2>2, <2>5, <3>1 DEF PageCovers, Sound
  <2>7. ~After(Position(page[r].at - Window, LastId), page[r].next.rows)
    BY <1>3, <2>4 DEF Paged, Complete
  <2>8. /\ ver[i] \in Nat /\ page[r].at \in Nat /\ page[r].at - Window \in Nat
        /\ page[r].next.rows[1] \in Nat /\ page[r].next.rows[2] \in Nat
    BY <1>3, Constants DEF Paged, TypeOK, Pages, Cursors, Positions, Settled
  <2> QED
    BY <2>6, <2>7, <2>8, Constants DEF After, Position
<1>4. Paged /\ Tracked /\ [Next]_vars => [Keeps]_vars
  BY <1>3
<1>5. ResyncLosesNothing <=> [][Keeps]_vars
  BY DEF ResyncLosesNothing
<1> HIDE DEF Keeps
<1> QED
  BY <1>1, <1>2, <1>4, <1>5, PTL DEF Spec

=============================================================================
