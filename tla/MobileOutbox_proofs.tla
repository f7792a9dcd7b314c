------------------------ MODULE MobileOutbox_proofs ------------------------
(***************************************************************************)
(* TLAPS proofs about MobileOutbox, for every set of workspaces and every  *)
(* number of messages.                                                     *)
(***************************************************************************)
EXTENDS MobileOutbox, TLAPS, WellFoundedInduction

\* The open database is the active workspace's, and a pass whose connection is
\* the open one works on it.
Bound ==
    /\ open => session # NoWorkspace
    /\ same => open /\ ddb = session
    /\ pc # "idle" => ddb # NoWorkspace

\* Written messages have a home, stored ones a stamp; the live turn belongs to
\* the active workspace.
Placed ==
    /\ \A m \in Messages : m <= written <=> home[m] # NoWorkspace
    /\ \A m \in Messages : stamp[m] <= stored
    /\ \A m \in Messages : stamp[m] # 0 => home[m] # NoWorkspace
    /\ \A m \in Messages : row[m] # "none" => stamp[m] # 0
    /\ live # 0 => /\ session # NoWorkspace /\ home[live] = session
                   /\ stamp[live] = 0 /\ live \in sentLive

\* An item in the hands of a pass is of the pass's workspace, and one about to be
\* removed as sent was admitted there.
Handled ==
    /\ pc \in {"claim", "posting", "write"} =>
          \A m \in todo \cup {cur} : m # 0 /\ home[m] = ddb /\ stamp[m] # 0
    /\ pc \in {"posting", "write"} => row[cur] \in {"sending", "none"}
    /\ pc = "write" /\ outcome = "sent" => <<ddb, cur>> \in admitted

\* The item in hand is the oldest of what the pass has left, and whatever else
\* waits was stored after all of it.
Ordered ==
    pc \in {"claim", "posting", "write"} =>
        /\ \A m \in todo : stamp[cur] <= stamp[m]
        /\ \A m \in Messages : home[m] = ddb /\ row[m] \in Unsent =>
              \/ m \in todo \cup {cur}
              \/ \A n \in todo \cup {cur} : stamp[n] < stamp[m]

\* Behind a request only the outbox made, nothing older waits.
NothingOlderWaits ==
    \A m, n \in Messages :
        /\ <<home[n], n>> \in wire /\ n \notin sentLive
        /\ home[m] = home[n] /\ stamp[m] # 0 /\ stamp[m] < stamp[n]
        => row[m] \notin Unsent

\* The inductive invariant.
IInv == TypeOK /\ Bound /\ Placed /\ Handled /\ Ordered /\ NothingOlderWaits /\ HomeOnly /\ StoredIsNotLost

-----------------------------------------------------------------------------
(* The shapes a pass can take. *)

\* A set of messages has an oldest one (ORDER BY created_ms).
LEMMA FirstIsOldest ==
  ASSUME TypeOK, NEW items \in SUBSET Messages, items # {}
  PROVE  First(items) \in items /\ \A n \in items : stamp[First(items)] <= stamp[n]
<1> DEFINE T == {stamp[m] : m \in items}
<1>1. T \subseteq Nat /\ T # {}
  BY DEF TypeOK
<1>2. \E t \in T : \A u \in T : ~ (<<u, t>> \in OpToRel(<, Nat))
  BY <1>1, WFMin, NatLessThanWellFounded, Zenon
<1>3. PICK t \in T : \A u \in T : ~ (<<u, t>> \in OpToRel(<, Nat))
  BY <1>2
<1>4. \A u \in T : ~ (u < t)
  BY <1>1, <1>3 DEF OpToRel
<1>5. \A u \in T : t <= u
  BY <1>1, <1>4
<1>6. PICK m \in items : t = stamp[m]
  BY <1>3
<1>7. \A n \in items : stamp[m] <= stamp[n]
  BY <1>5, <1>6
<1> QED
  BY <1>6, <1>7 DEF First

\* No item is in hand: the run is over, or waits for rows or for the wake time.
PassLeft(isOpen) ==
    /\ pc' \in {"idle", "read", "wake"}
    /\ todo' = {} /\ late' = {} /\ cur' = 0 /\ outcome' = "none"
    /\ again' \in BOOLEAN /\ same' \in BOOLEAN
    /\ ddb' \in Workspaces \cup {NoWorkspace}
    /\ same' => isOpen /\ ddb' = session
    /\ pc' # "idle" => ddb' # NoWorkspace

LEMMA StartLeft ==
  ASSUME TypeOK, NEW isOpen \in BOOLEAN, isOpen => session # NoWorkspace, StartPass(isOpen)
  PROVE  PassLeft(isOpen)
  BY DEF StartPass, NotRunning, PassLeft, TypeOK

LEMMA EndLeft ==
  ASSUME TypeOK, Bound, EndPass
  PROVE  PassLeft(open)
<1>1. CASE again /\ StartPass(open)
  BY <1>1, StartLeft DEF TypeOK, Bound
<1>2. CASE ~again /\ NotRunning /\ UNCHANGED again
  BY <1>2 DEF NotRunning, PassLeft, TypeOK
<1> QED
  BY <1>1, <1>2 DEF EndPass

LEMMA LeaveLeft ==
  ASSUME TypeOK, Bound, pc # "idle", NEW held, LeaveLoop(held)
  PROVE  PassLeft(open) /\ wake' \in 0 .. MaxMessages
<1>1. CASE ~same /\ EndPass /\ UNCHANGED wake
  BY <1>1, EndLeft DEF TypeOK
<1>2. CASE same /\ held /\ wake' = 0 /\ EndPass
  BY <1>2, EndLeft, MaxMessagesAssumption
<1>3. CASE /\ same /\ ~held
           /\ wake' = 0 /\ pc' = "wake" /\ todo' = {} /\ late' = {} /\ cur' = 0 /\ outcome' = "none"
           /\ UNCHANGED <<ddb, same, again>>
  BY <1>3, MaxMessagesAssumption DEF PassLeft, TypeOK, Bound
<1> QED
  BY <1>1, <1>2, <1>3 DEF LeaveLoop

\* The oldest of the items left is in hand, through the open connection.
PassTakes(items) ==
    /\ pc' = "claim" /\ outcome' = "none" /\ same
    /\ cur' \in items /\ todo' = items \ {cur'} /\ late' \subseteq Messages
    /\ \A m \in items : stamp[cur'] <= stamp[m]
    /\ UNCHANGED <<ddb, same, again, wake>>

LEMMA NextItemTakes ==
  ASSUME TypeOK, Bound, pc # "idle",
         NEW items \in SUBSET Messages, NEW waiting \in SUBSET Messages,
         NextItem(items, waiting)
  PROVE  PassTakes(items) \/ (PassLeft(open) /\ wake' \in 0 .. MaxMessages)
<1> DEFINE blocked == items # {} => First(items) \in waiting
<1>1. CASE blocked /\ LeaveLoop(FALSE)
  BY <1>1, LeaveLeft
<1>2. CASE ~blocked /\ ~same /\ Throw
  BY <1>2 DEF Throw, NotRunning, PassLeft, TypeOK
<1>3. CASE /\ ~blocked /\ same
           /\ pc' = "claim" /\ cur' = First(items) /\ todo' = items \ {First(items)}
           /\ late' = waiting /\ outcome' = "none"
           /\ UNCHANGED <<ddb, same, again, wake>>
  BY <1>3, FirstIsOldest DEF PassTakes
<1> QED
  BY <1>1, <1>2, <1>3 DEF NextItem

LEMMA DrainLeft ==
  ASSUME TypeOK, NEW isOpen \in BOOLEAN, isOpen => session # NoWorkspace, Drain(isOpen)
  PROVE  PassLeft(isOpen) \/ (again' \in BOOLEAN /\ UNCHANGED passVars)
  BY StartLeft DEF Drain

-----------------------------------------------------------------------------
(* What the shapes preserve. *)

\* The typing of the pass, and of everything else.
PassTypeOK ==
    /\ same \in BOOLEAN /\ again \in BOOLEAN
    /\ pc \in {"idle", "read", "claim", "posting", "write", "wake"}
    /\ ddb \in Workspaces \cup {NoWorkspace}
    /\ todo \subseteq Messages /\ late \subseteq Messages
    /\ cur \in 0 .. MaxMessages
    /\ outcome \in {"none", "sent", "failed", "retry", "hold"}

BoxTypeOK ==
    /\ session \in Workspaces \cup {NoWorkspace}
    /\ open \in BOOLEAN /\ online \in BOOLEAN
    /\ written \in 0 .. MaxMessages /\ stored \in Nat
    /\ home \in [Messages -> Workspaces \cup {NoWorkspace}]
    /\ row \in [Messages -> {"none", "queued", "sending", "failed"}]
    /\ stamp \in [Messages -> Nat]
    /\ due \in [Messages -> BOOLEAN]
    /\ live \in 0 .. MaxMessages /\ wake \in 0 .. MaxMessages
    /\ wire \subseteq Workspaces \X Messages /\ admitted \subseteq Workspaces \X Messages
    /\ sentLive \subseteq Messages /\ discarded \subseteq Messages

\* What a pass alone can break, and what the box alone can.
PassInv == PassTypeOK /\ Bound /\ Handled /\ Ordered
BoxInv  == BoxTypeOK /\ Placed /\ NothingOlderWaits /\ HomeOnly /\ StoredIsNotLost

LEMMA Parts == IInv <=> PassInv /\ BoxInv
  BY DEF IInv, PassInv, BoxInv, TypeOK, PassTypeOK, BoxTypeOK

LEMMA PartsNext == IInv' <=> PassInv' /\ BoxInv'
  BY DEF IInv, PassInv, BoxInv, TypeOK, PassTypeOK, BoxTypeOK

\* With nothing in hand a pass has nothing to keep.
LEMMA LeftKeeps ==
  ASSUME IInv, NEW isOpen \in BOOLEAN, PassLeft(isOpen),
         isOpen => session # NoWorkspace, open' = isOpen, session' = session
  PROVE  PassInv'
<1>1. PassTypeOK'
  BY MaxMessagesAssumption DEF PassTypeOK, PassLeft
<1>2. Bound'
  BY DEF Bound, PassLeft
<1>3. Handled' /\ Ordered'
  BY DEF Handled, Ordered, PassLeft
<1> QED
  BY <1>1, <1>2, <1>3 DEF PassInv

\* A box that only loses rows, or stores new ones at its end, keeps the pass.
LEMMA GrowthKeeps ==
  ASSUME IInv, PassTypeOK', UNCHANGED <<pc, ddb, todo, cur, outcome>>,
         \A m \in Messages : home[m] # NoWorkspace => home'[m] = home[m],
         \A m \in Messages : stamp[m] # 0 => stamp'[m] = stamp[m],
         \A m \in Messages : row'[m] # "none" =>
             \/ row'[m] = row[m] /\ home'[m] = home[m] /\ stamp'[m] = stamp[m]
             \/ stamp'[m] \in Nat /\ stored < stamp'[m],
         admitted \subseteq admitted'
  PROVE  Handled' /\ Ordered'
<1>1. CASE pc \in {"claim", "posting", "write"}
  <2>1. /\ todo \cup {cur} \subseteq Messages
        /\ \A m \in todo \cup {cur} :
              m # 0 /\ home'[m] = home[m] /\ home[m] = ddb /\ stamp'[m] = stamp[m] /\ stamp[m] # 0
    BY <1>1 DEF IInv, Handled, TypeOK, Bound, Messages
  <2>2. Handled'
    <3>1. row'[cur] = "none" \/ row'[cur] = row[cur]
      BY <2>1 DEF IInv, Placed, TypeOK
    <3> QED
      BY <1>1, <2>1, <3>1 DEF IInv, Handled
  <2>3. \A m \in todo : stamp'[cur] <= stamp'[m]
    BY <1>1, <2>1 DEF IInv, Ordered
  <2>4. ASSUME NEW m \in Messages, home'[m] = ddb, row'[m] \in Unsent
        PROVE  m \in todo \cup {cur} \/ \A n \in todo \cup {cur} : stamp'[n] < stamp'[m]
    <3>1. CASE row'[m] = row[m] /\ home'[m] = home[m] /\ stamp'[m] = stamp[m]
      BY <1>1, <2>1, <2>4, <3>1 DEF IInv, Ordered
    <3>2. CASE stamp'[m] \in Nat /\ stored < stamp'[m]
      BY <2>1, <3>2 DEF IInv, Placed, TypeOK
    <3> QED
      BY <2>4, <3>1, <3>2 DEF Unsent
  <2>5. Ordered'
    BY <2>3, <2>4 DEF Ordered
  <2> QED
    BY <2>2, <2>5
<1>2. CASE pc \notin {"claim", "posting", "write"}
  BY <1>2 DEF Handled, Ordered
<1> QED
  BY <1>1, <1>2

\* The next item comes into hand in order.
LEMMA TakesKeeps ==
  ASSUME IInv, pc # "idle", NEW items \in SUBSET Messages, PassTakes(items),
         UNCHANGED <<session, open, home, stamp>>,
         \A m \in items : home[m] = ddb /\ stamp[m] # 0,
         \A m \in Messages : home[m] = ddb /\ row'[m] \in Unsent =>
             m \in items \/ \A n \in items : stamp[n] < stamp[m]
  PROVE  PassInv'
<1>1. PassTypeOK'
  BY MaxMessagesAssumption DEF PassTypeOK, PassTakes, IInv, TypeOK, Messages
<1>2. Bound'
  BY DEF Bound, PassTakes, IInv
<1>3. Handled'
  BY DEF Handled, PassTakes, Messages
<1>4. Ordered'
  BY DEF Ordered, PassTakes
<1> QED
  BY <1>1, <1>2, <1>3, <1>4 DEF PassInv

\* A box in which rows are only claimed, refused, put back or taken out keeps
\* its part, when what is taken out was admitted or discarded and a new request
\* is of its workspace and the oldest that waits there.
LEMMA ShrinkKeeps ==
  ASSUME IInv, BoxTypeOK', UNCHANGED <<home, stamp, stored, written, sentLive>>,
         live' = 0 \/ (live' = live /\ session' = session),
         discarded \subseteq discarded', admitted \subseteq admitted',
         \A r \in wire' \cup admitted' : r \in wire \cup admitted \/ home[r[2]] = r[1],
         \A m, n \in Messages :
             /\ <<home[n], n>> \in wire' \ wire /\ home[m] = home[n] /\ stamp[m] < stamp[n]
             => row'[m] \notin Unsent,
         \A m \in Messages : row'[m] \in Unsent => row[m] \in Unsent,
         \A m \in Messages : row'[m] # "none" => row[m] # "none",
         \A m \in Messages : row'[m] = "none" /\ row[m] # "none" =>
             m \in discarded' \/ <<home[m], m>> \in admitted'
  PROVE  BoxInv'
<1>1. Placed'
  BY DEF IInv, Placed
<1>2. NothingOlderWaits'
  BY DEF IInv, NothingOlderWaits
<1>3. HomeOnly'
  BY DEF IInv, HomeOnly
<1>4. StoredIsNotLost'
  BY DEF IInv, StoredIsNotLost
<1> QED
  BY <1>1, <1>2, <1>3, <1>4 DEF BoxInv

-----------------------------------------------------------------------------
(* The steps of a pass. *)

LEMMA ReadRowsKeeps ==
  ASSUME IInv, ReadRows
  PROVE  IInv'
<1> DEFINE items == Rows(ddb, Unsent)
           waiting == {m \in items : ~due[m]}
<1>1. TypeOK /\ Bound /\ Placed /\ pc = "read" /\ items \in SUBSET Messages /\ waiting \in SUBSET Messages
  BY DEF IInv, ReadRows, Rows
<1>2. NextItem(items, waiting)
  BY DEF ReadRows
<1> HIDE DEF waiting
<1>3. PassTakes(items) \/ (PassLeft(open) /\ wake' \in 0 .. MaxMessages)
  BY <1>1, <1>2, NextItemTakes
<1>4. PassInv'
  <2>1. CASE PassTakes(items)
    <3>1. /\ \A m \in items : home[m] = ddb /\ stamp[m] # 0
          /\ \A m \in Messages : home[m] = ddb /\ row[m] \in Unsent => m \in items
      BY <1>1 DEF Rows, Placed, Unsent
    <3>2. UNCHANGED <<session, open, home, stamp, row>>
      BY DEF ReadRows, deviceVars, boxVars
    <3> QED
      BY <1>1, <2>1, <3>1, <3>2, TakesKeeps
  <2>2. CASE PassLeft(open)
    BY <1>1, <2>2, LeftKeeps DEF ReadRows, deviceVars, TypeOK, Bound
  <2> QED
    BY <1>3, <2>1, <2>2
<1>5. wake' \in 0 .. MaxMessages
  BY <1>1, <1>3 DEF PassTakes, TypeOK
<1>6. BoxInv'
  <2>1. BoxTypeOK'
    BY <1>1, <1>5 DEF BoxTypeOK, TypeOK, ReadRows, deviceVars, boxVars, serverVars, history
  <2> QED
    BY <2>1, ShrinkKeeps DEF ReadRows, deviceVars, boxVars, serverVars, history
<1> QED
  BY <1>4, <1>6, PartsNext

LEMMA FailInvalidKeeps ==
  ASSUME IInv, FailInvalid
  PROVE  IInv'
<1>1. /\ TypeOK /\ Bound /\ Handled /\ Ordered /\ pc = "claim" /\ cur \in Messages
      /\ todo \in SUBSET Messages /\ late \in SUBSET Messages
  BY DEF IInv, FailInvalid, TypeOK, Handled, Messages
<1>2. PassTakes(todo) \/ (PassLeft(open) /\ wake' \in 0 .. MaxMessages)
  BY <1>1, NextItemTakes DEF FailInvalid
<1>3. /\ row' \in [Messages -> {"none", "queued", "sending", "failed"}]
      /\ \A m \in Messages : m # cur => row'[m] = row[m]
      /\ row'[cur] \notin Unsent /\ (row'[cur] = "none" <=> row[cur] = "none")
  BY <1>1 DEF FailInvalid, TypeOK, Unsent
<1>4. UNCHANGED <<session, open, online, home, stamp, stored, due, written, live, wire, admitted, sentLive, discarded>>
  BY DEF FailInvalid, deviceVars, serverVars, history
<1>5. PassInv'
  <2>1. CASE PassTakes(todo)
    BY <1>1, <1>3, <1>4, <2>1, TakesKeeps DEF Handled, Ordered
  <2>2. CASE PassLeft(open)
    BY <1>1, <1>4, <2>2, LeftKeeps DEF TypeOK, Bound
  <2> QED
    BY <1>2, <2>1, <2>2
<1>6. BoxInv'
  <2>1. BoxTypeOK'
    BY <1>1, <1>2, <1>3, <1>4 DEF BoxTypeOK, TypeOK, PassTakes
  <2> QED
    BY <1>3, <1>4, <2>1, ShrinkKeeps
<1> QED
  BY <1>5, <1>6, PartsNext

LEMMA ClaimKeeps ==
  ASSUME IInv, Claim
  PROVE  IInv'
<1>1. /\ TypeOK /\ Bound /\ Handled /\ Ordered /\ pc = "claim" /\ cur \in Messages
      /\ todo \in SUBSET Messages /\ late \in SUBSET Messages
      /\ home[cur] = ddb /\ ddb \in Workspaces
  BY DEF IInv, Claim, TypeOK, Bound, Handled, Messages
<1>2. UNCHANGED <<session, open, online, home, stamp, stored, due, written, live, admitted, sentLive, discarded>>
  BY DEF Claim, deviceVars, history
<1>3. CASE row[cur] \notin Unsent /\ NextItem(todo, late) /\ UNCHANGED <<row, wire>>
  <2>1. PassTakes(todo) \/ (PassLeft(open) /\ wake' \in 0 .. MaxMessages)
    BY <1>1, <1>3, NextItemTakes
  <2>2. PassInv'
    <3>1. CASE PassTakes(todo)
      BY <1>1, <1>2, <1>3, <3>1, TakesKeeps DEF Handled, Ordered
    <3>2. CASE PassLeft(open)
      BY <1>1, <1>2, <3>2, LeftKeeps DEF TypeOK, Bound
    <3> QED
      BY <2>1, <3>1, <3>2
  <2>3. BoxTypeOK'
    BY <1>1, <1>2, <1>3, <2>1 DEF BoxTypeOK, TypeOK, PassTakes
  <2>4. BoxInv'
    BY <1>2, <1>3, <2>3, ShrinkKeeps
  <2> QED
    BY <2>2, <2>4, PartsNext
<1>4. CASE row[cur] \in Unsent /\ row' = [row EXCEPT ![cur] = "sending"]
  <2>1. /\ row' \in [Messages -> {"none", "queued", "sending", "failed"}]
        /\ \A m \in Messages : m # cur => row'[m] = row[m]
        /\ row'[cur] = "sending" /\ row[cur] \in Unsent
    BY <1>1, <1>4 DEF TypeOK
  <2>2. \A m \in Messages : /\ row'[m] \in Unsent => row[m] \in Unsent
                            /\ row'[m] = "none" <=> row[m] = "none"
    BY <2>1 DEF Unsent
  <2>3. CASE ~same /\ LeaveLoop(FALSE) /\ UNCHANGED wire
    <3>1. PassLeft(open) /\ wake' \in 0 .. MaxMessages
      BY <1>1, <2>3, LeaveLeft
    <3>2. PassInv'
      BY <1>1, <1>2, <3>1, LeftKeeps DEF TypeOK, Bound
    <3>3. BoxTypeOK'
      BY <1>1, <1>2, <2>1, <2>3, <3>1 DEF BoxTypeOK, TypeOK
    <3>4. BoxInv'
      BY <1>2, <2>2, <2>3, <3>3, ShrinkKeeps
    <3> QED
      BY <3>2, <3>4, PartsNext
  <2>4. CASE /\ same /\ wire' = wire \cup {<<session, cur>>} /\ pc' = "posting"
             /\ UNCHANGED <<ddb, same, todo, late, cur, outcome, again, wake>>
    <3>1. PassInv'
      <4>1. PassTypeOK'
        BY <1>1, <2>4 DEF PassTypeOK, TypeOK
      <4>2. Bound' /\ Handled'
        BY <1>1, <1>2, <2>1, <2>4 DEF Bound, Handled
      <4>3. Ordered'
        BY <1>1, <1>2, <2>2, <2>4 DEF Ordered
      <4> QED
        BY <4>1, <4>2, <4>3 DEF PassInv
    <3>2. session = ddb
      BY <1>1, <2>4 DEF Bound
    <3>3. BoxTypeOK'
      BY <1>1, <1>2, <2>1, <2>4, <3>2 DEF BoxTypeOK, TypeOK
    <3>4. ASSUME NEW m \in Messages, NEW n \in Messages, <<home[n], n>> \in wire' \ wire,
                 home[m] = home[n], stamp[m] < stamp[n]
          PROVE  row'[m] \notin Unsent
      <4>1. n = cur /\ home[m] = ddb
        BY <1>1, <2>4, <3>2, <3>4
      <4>2. stamp[m] \in Nat /\ stamp[cur] \in Nat
        BY <1>1 DEF TypeOK
      <4> QED
        BY <1>1, <2>2, <3>4, <4>1, <4>2 DEF Ordered
    <3>5. \A r \in wire' \cup admitted' : r \in wire \cup admitted \/ home[r[2]] = r[1]
      BY <1>1, <1>2, <2>4, <3>2
    <3>6. BoxInv'
      BY <1>2, <2>2, <3>3, <3>4, <3>5, ShrinkKeeps
    <3> QED
      BY <3>1, <3>6, PartsNext
  <2> QED
    BY <1>4, <2>3, <2>4, <1>1 DEF Claim
<1> QED
  BY <1>3, <1>4 DEF Claim

LEMMA AnswerKeeps ==
  ASSUME IInv, NEW o \in {"sent", "failed", "retry", "hold"}, Answer(o)
  PROVE  IInv'
<1>1. /\ TypeOK /\ Bound /\ Handled /\ Ordered /\ pc = "posting"
      /\ o = "sent" => <<ddb, cur>> \in admitted
  BY DEF IInv, Answer, Answers
<1>2. UNCHANGED <<session, open, online, home, row, stamp, stored, due, written, live,
                  wire, admitted, sentLive, discarded>>
  BY DEF Answer, deviceVars, boxVars, serverVars, history
<1>3. CASE same /\ pc' = "write" /\ outcome' = o /\ UNCHANGED <<ddb, same, todo, late, cur, again, wake>>
  <2>1. PassTypeOK' /\ Bound'
    BY <1>1, <1>2, <1>3 DEF PassTypeOK, TypeOK, Bound
  <2>2. Handled' /\ Ordered'
    BY <1>1, <1>2, <1>3 DEF Handled, Ordered
  <2>3. BoxTypeOK'
    BY <1>1, <1>2, <1>3 DEF BoxTypeOK, TypeOK
  <2>4. BoxInv'
    BY <1>2, <2>3, ShrinkKeeps
  <2> QED
    BY <2>1, <2>2, <2>4, PartsNext DEF PassInv
<1>4. CASE ~same /\ Throw
  <2>1. PassLeft(open) /\ wake' = wake
    BY <1>1, <1>4 DEF Throw, NotRunning, PassLeft, TypeOK
  <2>2. PassInv'
    BY <1>1, <1>2, <2>1, LeftKeeps DEF TypeOK, Bound
  <2>3. BoxTypeOK'
    BY <1>1, <1>2, <2>1 DEF BoxTypeOK, TypeOK
  <2>4. BoxInv'
    BY <1>2, <2>3, ShrinkKeeps
  <2> QED
    BY <2>2, <2>4, PartsNext
<1> QED
  BY <1>3, <1>4 DEF Answer

LEMMA WriteOutcomeKeeps ==
  ASSUME IInv, WriteOutcome
  PROVE  IInv'
<1>1. /\ TypeOK /\ Bound /\ Handled /\ Ordered /\ pc = "write" /\ cur \in Messages
      /\ todo \in SUBSET Messages /\ late \in SUBSET Messages /\ home[cur] = ddb
      /\ row[cur] \in {"sending", "none"}
  BY DEF IInv, WriteOutcome, TypeOK, Handled, Messages
<1>2. UNCHANGED <<session, open, online, home, stamp, stored, written, live, wire, admitted, sentLive, discarded>>
  BY DEF WriteOutcome, deviceVars, serverVars, history
<1>3. /\ row' = [row EXCEPT ![cur] = Recorded(outcome)]
      /\ Recorded(outcome) \in {"none", "queued", "failed"}
      /\ row[cur] = "none" => Recorded(outcome) = "none"
      /\ Recorded(outcome) = "none" => row[cur] = "none" \/ outcome = "sent"
      /\ outcome \in {"sent", "failed"} => Recorded(outcome) \in {"none", "failed"}
  BY <1>1 DEF WriteOutcome, Recorded, TypeOK
<1>4. /\ row' \in [Messages -> {"none", "queued", "sending", "failed"}]
      /\ \A m \in Messages : m # cur => row'[m] = row[m]
      /\ row'[cur] = Recorded(outcome)
  BY <1>1, <1>3 DEF TypeOK
<1>5. due' \in [Messages -> BOOLEAN]
  BY <1>1 DEF WriteOutcome, TypeOK
<1>6. /\ \A m \in Messages : /\ row'[m] \in Unsent => row[m] \in Unsent
                             /\ row'[m] # "none" => row[m] # "none"
      /\ \A m \in Messages : row'[m] = "none" /\ row[m] # "none" => <<home[m], m>> \in admitted
  BY <1>1, <1>3, <1>4 DEF Handled, Unsent
<1>7. PassInv' /\ wake' \in 0 .. MaxMessages
  <2>1. CASE outcome \in {"sent", "failed"}
    <3>1. PassTakes(todo) \/ (PassLeft(open) /\ wake' \in 0 .. MaxMessages)
      BY <1>1, <2>1, NextItemTakes DEF WriteOutcome
    <3>2. CASE PassTakes(todo)
      <4>1. row'[cur] \notin Unsent
        BY <1>3, <1>4, <2>1 DEF Unsent
      <4>2. wake' \in 0 .. MaxMessages
        BY <1>1, <3>2 DEF PassTakes, TypeOK
      <4> QED
        BY <1>1, <1>2, <1>6, <3>2, <4>1, <4>2, TakesKeeps DEF Handled, Ordered
    <3>3. CASE PassLeft(open) /\ wake' \in 0 .. MaxMessages
      BY <1>1, <1>2, <3>3, LeftKeeps DEF TypeOK, Bound
    <3> QED
      BY <3>1, <3>2, <3>3
  <2>2. CASE outcome \notin {"sent", "failed"}
    <3>1. LeaveLoop(outcome = "hold")
      BY <2>2 DEF WriteOutcome
    <3>2. PassLeft(open) /\ wake' \in 0 .. MaxMessages
      BY <1>1, <3>1, LeaveLeft
    <3> QED
      BY <1>1, <1>2, <3>2, LeftKeeps DEF TypeOK, Bound
  <2> QED
    BY <2>1, <2>2
<1>8. BoxInv'
  <2>1. BoxTypeOK'
    BY <1>1, <1>2, <1>4, <1>5, <1>7 DEF BoxTypeOK, TypeOK
  <2> QED
    BY <1>2, <1>6, <2>1, ShrinkKeeps
<1> QED
  BY <1>7, <1>8, PartsNext

LEMMA ScheduleWakeKeeps ==
  ASSUME IInv, ScheduleWake
  PROVE  IInv'
<1>1. TypeOK /\ Bound /\ pc = "wake"
  BY DEF IInv, ScheduleWake
<1>2. PassLeft(open)
  BY <1>1, EndLeft DEF ScheduleWake
<1>3. PassInv'
  BY <1>1, <1>2, LeftKeeps DEF ScheduleWake, deviceVars, TypeOK, Bound
<1>4. wake' \in 0 .. MaxMessages
  <2> DEFINE queued == Rows(ddb, {"queued"})
  <2>1. queued \in SUBSET Messages
    BY DEF Rows
  <2>2. wake' = IF queued = {} THEN 0 ELSE First(queued)
    BY DEF ScheduleWake
  <2>3. queued # {} => First(queued) \in queued
    BY <1>1, <2>1, FirstIsOldest
  <2> QED
    BY <2>1, <2>2, <2>3, MaxMessagesAssumption DEF Messages
<1>5. BoxTypeOK'
  BY <1>1, <1>4 DEF BoxTypeOK, TypeOK, ScheduleWake, deviceVars, boxVars, serverVars, history
<1>6. BoxInv'
  BY <1>5, ShrinkKeeps DEF ScheduleWake, deviceVars, boxVars, serverVars, history
<1> QED
  BY <1>3, <1>6, PartsNext

-----------------------------------------------------------------------------
(* What starts a pass, and what happens beside it. *)

\* drain() beside a box that loses rows or grows at its end.
LEMMA DrainKeeps ==
  ASSUME IInv, NEW isOpen \in BOOLEAN, isOpen => session # NoWorkspace, open => isOpen,
         Drain(isOpen), open' = isOpen, session' = session,
         \A m \in Messages : home[m] # NoWorkspace => home'[m] = home[m],
         \A m \in Messages : stamp[m] # 0 => stamp'[m] = stamp[m],
         \A m \in Messages : row'[m] # "none" =>
             \/ row'[m] = row[m] /\ home'[m] = home[m] /\ stamp'[m] = stamp[m]
             \/ stamp'[m] \in Nat /\ stored < stamp'[m],
         admitted \subseteq admitted'
  PROVE  PassInv'
<1>1. CASE PassLeft(isOpen)
  BY <1>1, LeftKeeps
<1>2. CASE again' \in BOOLEAN /\ UNCHANGED passVars
  <2>1. PassTypeOK'
    BY <1>2 DEF PassTypeOK, passVars, IInv, TypeOK
  <2>2. Bound'
    BY <1>2 DEF Bound, passVars, IInv
  <2>3. Handled' /\ Ordered'
    BY <1>2, <2>1, GrowthKeeps DEF passVars
  <2> QED
    BY <2>1, <2>2, <2>3 DEF PassInv
<1> QED
  BY <1>1, <1>2, DrainLeft DEF IInv

\* A pass nobody touches, whose connection may be closed under it.
LEMMA BesideKeeps ==
  ASSUME IInv, UNCHANGED <<pc, ddb, todo, cur, outcome, again>>, late' \subseteq late,
         same' = same \/ same' = FALSE,
         same' => open' /\ session' = session, open' => session' # NoWorkspace,
         \A m \in Messages : home[m] # NoWorkspace => home'[m] = home[m],
         \A m \in Messages : stamp[m] # 0 => stamp'[m] = stamp[m],
         \A m \in Messages : row'[m] # "none" =>
             \/ row'[m] = row[m] /\ home'[m] = home[m] /\ stamp'[m] = stamp[m]
             \/ stamp'[m] \in Nat /\ stored < stamp'[m],
         admitted \subseteq admitted'
  PROVE  PassInv'
<1>1. PassTypeOK'
  BY DEF PassTypeOK, IInv, TypeOK
<1>2. Bound'
  BY DEF Bound, IInv, TypeOK
<1>3. Handled' /\ Ordered'
  BY <1>1, GrowthKeeps
<1> QED
  BY <1>1, <1>2, <1>3 DEF PassInv

LEMMA ClockKeeps ==
  ASSUME IInv, WakeFires \/ Foreground \/ NetworkChanges \/ OpenStore
  PROVE  IInv'
<1>1. TypeOK /\ Bound
  BY DEF IInv
<1>2. /\ UNCHANGED <<session, boxVars, live, serverVars, history>>
      /\ open' \in BOOLEAN /\ online' \in BOOLEAN /\ wake' \in 0 .. MaxMessages
      /\ open => open'
      /\ open' => session # NoWorkspace
  <2>1. CASE WakeFires
    BY <1>1, <2>1, MaxMessagesAssumption DEF WakeFires, deviceVars, TypeOK, Bound
  <2>2. CASE Foreground
    BY <1>1, <2>2 DEF Foreground, deviceVars, TypeOK, Bound
  <2>3. CASE NetworkChanges
    <3>1. online' \in BOOLEAN
      BY <1>1, <2>3, Zenon DEF NetworkChanges, TypeOK
    <3> QED
      BY <1>1, <2>3, <3>1 DEF NetworkChanges, TypeOK, Bound
  <2>4. CASE OpenStore
    <3>1. open' \in BOOLEAN
      BY <2>4, Zenon DEF OpenStore
    <3> QED
      BY <1>1, <2>4, <3>1 DEF OpenStore, TypeOK
  <2> QED
    BY <2>1, <2>2, <2>3, <2>4
<1>3. Drain(open') \/ (UNCHANGED <<passVars, again, open>>)
  BY DEF WakeFires, Foreground, NetworkChanges, OpenStore, deviceVars
<1>4. PassInv'
  <2>1. CASE Drain(open')
    BY <1>2, <2>1, DrainKeeps DEF boxVars, serverVars
  <2>2. CASE UNCHANGED <<passVars, again, open>>
    BY <1>1, <1>2, <2>2, BesideKeeps DEF boxVars, serverVars, passVars, Bound
  <2> QED
    BY <1>3, <2>1, <2>2
<1>5. BoxTypeOK'
  BY <1>1, <1>2 DEF BoxTypeOK, TypeOK, boxVars, serverVars, history
<1>6. BoxInv'
  BY <1>2, <1>5, ShrinkKeeps DEF boxVars, serverVars, history
<1> QED
  BY <1>4, <1>6, PartsNext

LEMMA DueKeeps ==
  ASSUME IInv, NEW m \in Messages, Tick(m) \/ RetryNow(m)
  PROVE  IInv'
<1>1. TypeOK /\ Bound
  BY DEF IInv
<1>2. /\ UNCHANGED <<session, open, online, home, row, stamp, stored, written, live, wake,
                     wire, admitted, sentLive, discarded>>
      /\ due' = [due EXCEPT ![m] = TRUE]
  BY DEF Tick, RetryNow, deviceVars, serverVars, history
<1>3. due' \in [Messages -> BOOLEAN]
  BY <1>1, <1>2 DEF TypeOK
<1>4. PassInv'
  <2>1. CASE Tick(m)
    BY <1>1, <1>2, <2>1, BesideKeeps DEF Tick, Bound
  <2>2. CASE RetryNow(m)
    BY <1>1, <1>2, <2>2, DrainKeeps DEF RetryNow, Bound, TypeOK
  <2> QED
    BY <2>1, <2>2
<1>5. BoxTypeOK'
  BY <1>1, <1>2, <1>3 DEF BoxTypeOK, TypeOK
<1>6. BoxInv'
  BY <1>2, <1>5, ShrinkKeeps
<1> QED
  BY <1>4, <1>6, PartsNext

\* Closing, ending, switching and admitting change no row.
LEMMA DeviceKeeps ==
  ASSUME IInv, CloseStore \/ LiveEnds \/ Suspend \/ \E w \in Workspaces : Activate(w)
  PROVE  IInv'
<1>1. TypeOK /\ Bound /\ Placed
  BY DEF IInv
<1>2. UNCHANGED <<boxVars, pc, ddb, todo, late, cur, outcome, again, wake, online, serverVars, history>>
  BY DEF CloseStore, LiveEnds, Suspend, Activate, passVars, deviceVars
<1>3. /\ session' \in Workspaces \cup {NoWorkspace} /\ open' \in BOOLEAN
      /\ same' = same \/ same' = FALSE
      /\ open' => open /\ session' # NoWorkspace
      /\ same' => open' /\ session' = session
  <2>1. CASE CloseStore \/ Suspend
    BY <1>1, <2>1 DEF CloseStore, Suspend, TypeOK, Bound
  <2>2. CASE LiveEnds
    BY <1>1, <2>2 DEF LiveEnds, passVars, deviceVars, TypeOK, Bound
  <2>3. CASE \E w \in Workspaces : Activate(w)
    BY <1>1, <2>3, WorkspacesAssumption DEF Activate, passVars, TypeOK, Bound
  <2> QED
    BY <2>1, <2>2, <2>3
<1>4. live' = 0 \/ (live' = live /\ session' = session)
  BY <1>1 DEF CloseStore, LiveEnds, Suspend, Activate, deviceVars, Placed
<1>5. PassInv'
  BY <1>2, <1>3, BesideKeeps DEF boxVars, serverVars
<1>6. BoxTypeOK'
  BY <1>1, <1>2, <1>3, <1>4, MaxMessagesAssumption DEF BoxTypeOK, TypeOK, boxVars, serverVars, history
<1>7. BoxInv'
  BY <1>2, <1>4, <1>6, ShrinkKeeps DEF boxVars, serverVars, history
<1> QED
  BY <1>5, <1>7, PartsNext

LEMMA CrashKeeps ==
  ASSUME IInv, Crash
  PROVE  IInv'
<1>1. TypeOK /\ Bound
  BY DEF IInv
<1>2. PassLeft(FALSE) /\ open' = FALSE /\ session' = session
  BY WorkspacesAssumption DEF Crash, NotRunning, PassLeft
<1>3. PassInv'
  BY <1>2, LeftKeeps
<1>4. BoxTypeOK'
  <2>1. open' \in BOOLEAN
    BY Zenon DEF Crash
  <2>2. live' \in 0 .. MaxMessages /\ wake' \in 0 .. MaxMessages
    BY MaxMessagesAssumption DEF Crash
  <2> QED
    BY <1>1, <2>1, <2>2 DEF BoxTypeOK, TypeOK, Crash, boxVars, serverVars, history
<1>5. BoxInv'
  BY <1>4, ShrinkKeeps DEF Crash, boxVars, serverVars, history
<1> QED
  BY <1>3, <1>5, PartsNext

LEMMA AdmitKeeps ==
  ASSUME IInv, NEW w \in Workspaces, NEW m \in Messages, Admit(w, m)
  PROVE  IInv'
<1>1. TypeOK /\ Bound /\ HomeOnly
  BY DEF IInv
<1>2. /\ UNCHANGED <<deviceVars, boxVars, live, passVars, again, wake, wire, history>>
      /\ <<w, m>> \in wire /\ admitted' = admitted \cup {<<w, m>>}
  BY DEF Admit
<1>3. PassInv'
  BY <1>1, <1>2, BesideKeeps DEF deviceVars, boxVars, passVars, Bound
<1>4. BoxTypeOK'
  BY <1>1, <1>2 DEF BoxTypeOK, TypeOK, deviceVars, boxVars, history
<1>5. BoxInv'
  BY <1>2, <1>4, ShrinkKeeps DEF deviceVars, boxVars, history
<1> QED
  BY <1>3, <1>5, PartsNext

\* What the user or a wipe takes out is recorded as discarded.
LEMMA RemovalKeeps ==
  ASSUME IInv, (\E m \in Messages : Delete(m)) \/ (\E w \in Workspaces : Discard(w))
  PROVE  IInv'
<1>1. TypeOK /\ Bound
  BY DEF IInv
<1>2. /\ UNCHANGED <<session, online, home, stamp, stored, due, written, live, pc, ddb, todo, late,
                     cur, outcome, again, wake, serverVars, sentLive>>
      /\ open' \in BOOLEAN
      /\ open' => open
      /\ \/ same' = same /\ open' = open
         \/ same' = FALSE
  BY <1>1 DEF Delete, Discard, deviceVars, passVars, TypeOK
<1>3. /\ row' \in [Messages -> {"none", "queued", "sending", "failed"}]
      /\ \A m \in Messages : row'[m] = row[m] \/ row'[m] = "none"
      /\ discarded \subseteq discarded' /\ discarded' \subseteq Messages
      /\ \A m \in Messages : row'[m] = "none" /\ row[m] # "none" => m \in discarded'
  <2>1. CASE \E m \in Messages : Delete(m)
    BY <1>1, <2>1 DEF Delete, TypeOK
  <2>2. CASE \E w \in Workspaces : Discard(w)
    BY <1>1, <2>2 DEF Discard, TypeOK, Rows
  <2> QED
    BY <2>1, <2>2
<1>4. PassInv'
  <2>1. same' = same \/ same' = FALSE
    BY <1>2
  <2>2. /\ same' => open' /\ session' = session
        /\ open' => session' # NoWorkspace
    BY <1>1, <1>2 DEF Bound, TypeOK
  <2>3. \A m \in Messages : row'[m] # "none" => row'[m] = row[m] /\ home'[m] = home[m] /\ stamp'[m] = stamp[m]
    BY <1>2, <1>3
  <2> QED
    BY <1>2, <2>1, <2>2, <2>3, BesideKeeps DEF serverVars
<1>5. BoxTypeOK'
  BY <1>1, <1>2, <1>3 DEF BoxTypeOK, TypeOK, serverVars
<1>6. BoxInv'
  <2>1. \A m \in Messages : /\ row'[m] \in Unsent => row[m] \in Unsent
                            /\ row'[m] # "none" => row[m] # "none"
    BY <1>3 DEF Unsent
  <2> QED
    BY <1>2, <1>3, <1>5, <2>1, ShrinkKeeps DEF serverVars
<1> QED
  BY <1>4, <1>6, PartsNext

\* A new message goes to the end of the box or becomes the live turn.
LEMMA SendNewKeeps ==
  ASSUME IInv, NEW rows \in [Messages -> {"none", "queued", "sending", "failed"}], SendNew(rows),
         \A m \in Messages : rows[m] = row[m] \/ rows[m] = "none",
         discarded \subseteq discarded', discarded' \subseteq Messages,
         \A m \in Messages : rows[m] = "none" /\ row[m] # "none" => m \in discarded'
  PROVE  IInv'
<1> DEFINE k == written + 1
<1>1. TypeOK /\ Bound /\ Placed /\ NothingOlderWaits /\ HomeOnly /\ StoredIsNotLost
  BY DEF IInv
<1>2. /\ k \in Messages /\ written' = k /\ k \in 0 .. MaxMessages /\ written < MaxMessages
      /\ session \in Workspaces /\ session # NoWorkspace
      /\ home' = [home EXCEPT ![k] = session]
      /\ UNCHANGED <<session, open, online, wake, admitted>>
  BY <1>1, MaxMessagesAssumption, WorkspacesAssumption DEF SendNew, TypeOK, Messages, deviceVars
<1>3. home[k] = NoWorkspace /\ stamp[k] = 0 /\ row[k] = "none"
  BY <1>1, <1>2 DEF Placed, TypeOK
<1>4. /\ home' \in [Messages -> Workspaces \cup {NoWorkspace}] /\ home'[k] = session
      /\ \A m \in Messages : m # k => home'[m] = home[m]
      /\ \A m \in Messages : home[m] # NoWorkspace => m # k
  BY <1>1, <1>2, <1>3 DEF TypeOK
<1>5. \A r \in wire \cup admitted : r[2] \in Messages /\ r[2] # k /\ r[1] # NoWorkspace
  BY <1>1, <1>3, WorkspacesAssumption DEF HomeOnly, TypeOK
<1>6. \A m \in Messages : m <= k <=> home'[m] # NoWorkspace
  BY <1>1, <1>2, <1>4 DEF Placed, TypeOK, Messages
<1>7. CASE /\ MustQueue /\ Store(k, rows, TRUE)
           /\ IF online THEN Drain(open) ELSE UNCHANGED <<passVars, again>>
           /\ UNCHANGED <<live, wire, sentLive>>
  <2>1. /\ row' = [rows EXCEPT ![k] = "queued"] /\ stamp' = [stamp EXCEPT ![k] = stored + 1]
        /\ stored' = stored + 1 /\ due' = [due EXCEPT ![k] = TRUE]
    BY <1>7 DEF Store
  <2>2. /\ row' \in [Messages -> {"none", "queued", "sending", "failed"}] /\ row'[k] = "queued"
        /\ \A m \in Messages : m # k => row'[m] = rows[m]
        /\ stamp' \in [Messages -> Nat] /\ stamp'[k] = stored + 1 /\ stored' \in Nat
        /\ \A m \in Messages : m # k => stamp'[m] = stamp[m]
        /\ due' \in [Messages -> BOOLEAN]
    BY <1>1, <1>2, <2>1 DEF TypeOK
  <2>3. \A m \in Messages : stamp[m] # 0 => stamp'[m] = stamp[m]
    BY <1>3, <2>2
  <2>4. \A m \in Messages : row'[m] # "none" =>
             \/ row'[m] = row[m] /\ home'[m] = home[m] /\ stamp'[m] = stamp[m]
             \/ stamp'[m] \in Nat /\ stored < stamp'[m]
    BY <1>1, <1>4, <2>2 DEF TypeOK
  <2>5. \A m \in Messages : home[m] # NoWorkspace => home'[m] = home[m]
    BY <1>4
  <2>6. PassInv'
    <3>1. CASE Drain(open)
      BY <1>1, <1>2, <2>3, <2>4, <2>5, <3>1, DrainKeeps DEF TypeOK, Bound
    <3>2. CASE UNCHANGED <<passVars, again>>
      BY <1>1, <1>2, <2>3, <2>4, <2>5, <3>2, BesideKeeps DEF passVars, Bound
    <3> QED
      BY <1>7, <3>1, <3>2
  <2>7. BoxTypeOK'
    BY <1>1, <1>2, <1>4, <1>7, <2>2 DEF BoxTypeOK, TypeOK
  <2>8. Placed'
    <3>1. \A m \in Messages : stamp'[m] <= stored'
      BY <1>1, <2>1, <2>2 DEF Placed, TypeOK
    <3>2. \A m \in Messages : stamp'[m] # 0 => home'[m] # NoWorkspace
      BY <1>1, <1>2, <1>4, <2>2 DEF Placed
    <3>3. \A m \in Messages : row'[m] # "none" => stamp'[m] # 0
      BY <1>1, <1>2, <2>2 DEF Placed, TypeOK
    <3>4. live # 0 => live \in Messages /\ live # k
      BY <1>1, <1>3, <1>2 DEF Placed, TypeOK, Messages
    <3>5. live' # 0 => /\ session' # NoWorkspace /\ home'[live'] = session'
                       /\ stamp'[live'] = 0 /\ live' \in sentLive'
      BY <1>1, <1>2, <1>4, <1>7, <2>2, <3>4 DEF Placed
    <3> QED
      BY <1>2, <1>6, <3>1, <3>2, <3>3, <3>5 DEF Placed
  <2>9. NothingOlderWaits'
    <3> SUFFICES ASSUME NEW m \in Messages, NEW n \in Messages,
                        <<home'[n], n>> \in wire', n \notin sentLive',
                        home'[m] = home'[n], stamp'[m] # 0, stamp'[m] < stamp'[n]
                 PROVE  row'[m] \notin Unsent
      BY DEF NothingOlderWaits
    <3>1. n # k
      BY <1>5, <1>7
    <3>2. stamp'[n] <= stored /\ stamp'[n] \in Nat
      BY <1>1, <2>2, <3>1 DEF Placed, TypeOK
    <3>3. m # k
      BY <1>1, <2>2, <3>2 DEF TypeOK
    <3>4. row[m] \notin Unsent
      BY <1>1, <1>4, <1>7, <2>2, <3>1, <3>3 DEF NothingOlderWaits
    <3> QED
      BY <2>2, <3>3, <3>4 DEF Unsent
  <2>10. HomeOnly'
    BY <1>1, <1>2, <1>4, <1>5, <1>7 DEF HomeOnly
  <2>11. StoredIsNotLost'
    BY <1>1, <1>2, <1>4, <2>2 DEF StoredIsNotLost
  <2> QED
    BY <2>6, <2>7, <2>8, <2>9, <2>10, <2>11, PartsNext DEF BoxInv
<1>8. CASE /\ live' = k /\ sentLive' = sentLive \cup {k}
           /\ wire' = wire \cup {<<session, k>>} /\ row' = rows
           /\ UNCHANGED <<stamp, stored, due, passVars, again>>
  <2>1. \A m \in Messages : row'[m] # "none" => m # k /\ row'[m] = row[m] /\ home'[m] = home[m] /\ stamp'[m] = stamp[m]
    BY <1>3, <1>4, <1>8
  <2>2. PassInv'
    BY <1>1, <1>2, <1>4, <1>8, <2>1, BesideKeeps DEF passVars, Bound
  <2>3. BoxTypeOK'
    BY <1>1, <1>2, <1>4, <1>8 DEF BoxTypeOK, TypeOK
  <2>4. Placed'
    <3>1. \A m \in Messages : stamp'[m] # 0 => home'[m] # NoWorkspace
      BY <1>1, <1>3, <1>4, <1>8 DEF Placed
    <3>2. \A m \in Messages : row'[m] # "none" => stamp'[m] # 0
      BY <1>1, <1>8, <2>1 DEF Placed
    <3>3. /\ session' # NoWorkspace /\ home'[live'] = session'
          /\ stamp'[live'] = 0 /\ live' \in sentLive'
      BY <1>2, <1>3, <1>4, <1>8
    <3> QED
      BY <1>1, <1>2, <1>6, <1>8, <3>1, <3>2, <3>3 DEF Placed
  <2>5. NothingOlderWaits'
    <3> SUFFICES ASSUME NEW m \in Messages, NEW n \in Messages,
                        <<home'[n], n>> \in wire', n \notin sentLive',
                        home'[m] = home'[n], stamp'[m] # 0, stamp'[m] < stamp'[n]
                 PROVE  row'[m] \notin Unsent
      BY DEF NothingOlderWaits
    <3>1. n # k /\ m # k
      BY <1>3, <1>8
    <3>2. row[m] \notin Unsent
      BY <1>1, <1>4, <1>8, <3>1 DEF NothingOlderWaits
    <3> QED
      BY <2>1, <3>2 DEF Unsent
  <2>6. HomeOnly'
    BY <1>1, <1>2, <1>4, <1>5, <1>8 DEF HomeOnly
  <2>7. StoredIsNotLost'
    BY <1>1, <1>2, <1>3, <1>4, <1>8 DEF StoredIsNotLost
  <2> QED
    BY <2>2, <2>3, <2>4, <2>5, <2>6, <2>7, PartsNext DEF BoxInv
<1> QED
  BY <1>2, <1>7, <1>8 DEF SendNew

LEMMA SendKeeps ==
  ASSUME IInv, Send \/ \E m \in Messages : SendAgain(m)
  PROVE  IInv'
<1>1. TypeOK
  BY DEF IInv
<1>2. CASE Send
  BY <1>1, <1>2, SendNewKeeps DEF Send, TypeOK
<1>3. ASSUME NEW m \in Messages, SendAgain(m)
      PROVE  IInv'
  <2> DEFINE rows == [row EXCEPT ![m] = "none"]
  <2>1. /\ rows \in [Messages -> {"none", "queued", "sending", "failed"}]
        /\ \A n \in Messages : rows[n] = row[n] \/ rows[n] = "none"
        /\ \A n \in Messages : rows[n] = "none" /\ row[n] # "none" => n = m
    BY <1>1 DEF TypeOK
  <2>2. SendNew(rows) /\ discarded' = discarded \cup {m}
    BY <1>3 DEF SendAgain
  <2>3. discarded \subseteq discarded' /\ discarded' \subseteq Messages /\ m \in discarded'
    BY <1>1, <2>2 DEF TypeOK
  <2> HIDE DEF rows
  <2> QED
    BY <2>1, <2>2, <2>3, SendNewKeeps
<1> QED
  BY <1>2, <1>3

\* The live message goes to the end of the box.
LEMMA HandOffKeeps ==
  ASSUME IInv, HandOff
  PROVE  IInv'
<1>1. TypeOK /\ Bound /\ Placed /\ NothingOlderWaits /\ HomeOnly /\ StoredIsNotLost
  BY DEF IInv
<1>2. /\ live \in Messages /\ live # 0 /\ open /\ live' = 0 /\ Drain(open)
      /\ row' = [row EXCEPT ![live] = "queued"] /\ stamp' = [stamp EXCEPT ![live] = stored + 1]
      /\ stored' = stored + 1 /\ due' = [due EXCEPT ![live] = FALSE]
      /\ UNCHANGED <<session, open, online, home, written, wake, wire, admitted, sentLive, discarded>>
  <2>1. live \in Messages
    BY <1>1 DEF HandOff, TypeOK, Messages
  <2> QED
    BY <2>1, Zenon DEF HandOff, Store, deviceVars, serverVars, history
<1>3. stamp[live] = 0 /\ live \in sentLive /\ home[live] = session /\ session # NoWorkspace
  BY <1>1, <1>2 DEF Placed
<1>4. /\ row' \in [Messages -> {"none", "queued", "sending", "failed"}] /\ row'[live] = "queued"
      /\ \A m \in Messages : m # live => row'[m] = row[m]
      /\ stamp' \in [Messages -> Nat] /\ stamp'[live] = stored + 1 /\ stored' \in Nat
      /\ \A m \in Messages : m # live => stamp'[m] = stamp[m]
      /\ due' \in [Messages -> BOOLEAN]
  BY <1>1, <1>2 DEF TypeOK
<1>5. PassInv'
  <2>1. \A m \in Messages : row'[m] # "none" =>
             \/ row'[m] = row[m] /\ home'[m] = home[m] /\ stamp'[m] = stamp[m]
             \/ stamp'[m] \in Nat /\ stored < stamp'[m]
    BY <1>1, <1>2, <1>4 DEF TypeOK
  <2>2. \A m \in Messages : stamp[m] # 0 => stamp'[m] = stamp[m]
    BY <1>3, <1>4
  <2> QED
    BY <1>1, <1>2, <2>1, <2>2, DrainKeeps DEF TypeOK, Bound
<1>6. BoxTypeOK'
  BY <1>1, <1>2, <1>4, MaxMessagesAssumption DEF BoxTypeOK, TypeOK
<1>7. Placed'
  <2>1. \A m \in Messages : stamp'[m] <= stored'
    BY <1>1, <1>2, <1>4 DEF Placed, TypeOK
  <2>2. \A m \in Messages : stamp'[m] # 0 => home'[m] # NoWorkspace
    BY <1>1, <1>2, <1>3, <1>4 DEF Placed
  <2>3. \A m \in Messages : row'[m] # "none" => stamp'[m] # 0
    BY <1>1, <1>4 DEF Placed, TypeOK
  <2> QED
    BY <1>1, <1>2, <2>1, <2>2, <2>3 DEF Placed
<1>8. NothingOlderWaits'
  <2> SUFFICES ASSUME NEW m \in Messages, NEW n \in Messages,
                      <<home'[n], n>> \in wire', n \notin sentLive',
                      home'[m] = home'[n], stamp'[m] # 0, stamp'[m] < stamp'[n]
               PROVE  row'[m] \notin Unsent
    BY DEF NothingOlderWaits
  <2>1. n # live
    BY <1>2, <1>3
  <2>2. stamp'[n] <= stored /\ stamp'[n] \in Nat
    BY <1>1, <1>4, <2>1 DEF Placed, TypeOK
  <2>3. m # live
    BY <1>1, <1>4, <2>2 DEF TypeOK
  <2> QED
    BY <1>1, <1>2, <1>4, <2>1, <2>3 DEF NothingOlderWaits
<1>9. HomeOnly' /\ StoredIsNotLost'
  BY <1>1, <1>2, <1>4 DEF HomeOnly, StoredIsNotLost
<1> QED
  BY <1>5, <1>6, <1>7, <1>8, <1>9, PartsNext DEF BoxInv

-----------------------------------------------------------------------------
(* The theorems. *)

LEMMA InitIInv == Init => IInv
<1> SUFFICES ASSUME Init PROVE IInv
  OBVIOUS
<1>1. PassInv
  <2>1. same \in BOOLEAN /\ again \in BOOLEAN
    BY Zenon DEF Init
  <2>2. PassTypeOK
    BY <2>1, MaxMessagesAssumption DEF Init, PassTypeOK
  <2>3. ~open /\ ~same /\ pc = "idle"
    BY DEF Init
  <2> QED
    BY <2>2, <2>3 DEF PassInv, Bound, Handled, Ordered
<1>2. BoxTypeOK
  <2>1. open \in BOOLEAN /\ online \in BOOLEAN
    BY Zenon DEF Init
  <2>2. due \in [Messages -> BOOLEAN]
    BY DEF Init
  <2> QED
    BY <2>1, <2>2, MaxMessagesAssumption DEF Init, BoxTypeOK
<1>3. Placed /\ NothingOlderWaits /\ HomeOnly /\ StoredIsNotLost
  BY MaxMessagesAssumption DEF Init, Placed, NothingOlderWaits, HomeOnly, StoredIsNotLost, Messages
<1> QED
  BY <1>1, <1>2, <1>3, Parts DEF BoxInv

LEMMA NextIInv == IInv /\ [Next]_vars => IInv'
<1> SUFFICES ASSUME IInv, [Next]_vars PROVE IInv'
  OBVIOUS
<1>1. CASE DrainStep
  BY <1>1, ReadRowsKeeps, ClaimKeeps, WriteOutcomeKeeps, ScheduleWakeKeeps DEF DrainStep
<1>2. CASE FailInvalid
  BY <1>2, FailInvalidKeeps
<1>3. CASE \E o \in {"sent", "failed", "retry", "hold"} : Answer(o)
  BY <1>3, AnswerKeeps
<1>4. CASE WakeFires \/ Foreground \/ NetworkChanges \/ OpenStore
  BY <1>4, ClockKeeps
<1>5. CASE CloseStore \/ LiveEnds \/ Suspend \/ \E w \in Workspaces : Activate(w)
  BY <1>5, DeviceKeeps
<1>6. CASE Send \/ \E m \in Messages : SendAgain(m)
  BY <1>6, SendKeeps
<1>7. CASE HandOff
  BY <1>7, HandOffKeeps
<1>8. CASE Crash
  BY <1>8, CrashKeeps
<1>9. CASE \E m \in Messages : Tick(m) \/ RetryNow(m)
  BY <1>9, DueKeeps
<1>10. CASE (\E m \in Messages : Delete(m)) \/ (\E w \in Workspaces : Discard(w))
  BY <1>10, RemovalKeeps
<1>11. CASE \E w \in Workspaces, m \in Messages : Admit(w, m)
  BY <1>11, AdmitKeeps
<1>12. CASE UNCHANGED vars
  BY <1>12 DEF vars, deviceVars, boxVars, passVars, serverVars, history, IInv, TypeOK, Bound, Placed,
     Handled, Ordered, NothingOlderWaits, HomeOnly, StoredIsNotLost, Unsent
<1> QED
  BY <1>1, <1>2, <1>3, <1>4, <1>5, <1>6, <1>7, <1>8, <1>9, <1>10, <1>11, <1>12 DEF Next

LEMMA Invariant == Spec => []IInv
  BY InitIInv, NextIInv, PTL DEF Spec

\* The state of the outbox, its drain and the servers' admissions keeps its types.
THEOREM OutboxTypeCorrect == Spec => []TypeOK
<1>1. IInv => TypeOK
  BY DEF IInv
<1> QED
  BY <1>1, Invariant, PTL

\* Whatever locks, switches, wipes and crashes happen between the awaits of
\* drainOnce, a message is sent through the session of its own workspace only.
THEOREM HomeOnlyCorrect == Spec => []HomeOnly
<1>1. IInv => HomeOnly
  BY DEF IInv
<1> QED
  BY <1>1, Invariant, PTL

\* A row of the outbox is removed only after its workspace admitted the message,
\* or by the user, a wipe or a dropped project.
THEOREM StoredIsNotLostCorrect == Spec => []StoredIsNotLost
<1>1. IInv => StoredIsNotLost
  BY DEF IInv
<1> QED
  BY <1>1, Invariant, PTL

\* The outbox alone never has a message admitted before one that was stored
\* earlier and still waits.
THEOREM QueueOrderCorrect == Spec => QueueOrder
<1> DEFINE Step ==
      \A m, n \in Messages :
         /\ <<home[n], n>> \in admitted' \ admitted /\ n \notin sentLive
         /\ home[m] = home[n] /\ stamp[m] # 0 /\ stamp[m] < stamp[n]
         => row[m] \notin Unsent
<1>1. IInv /\ [Next]_vars => [Step]_vars
  <2> SUFFICES ASSUME IInv, Next PROVE Step
    OBVIOUS
  <2>1. CASE \E w \in Workspaces, m \in Messages : Admit(w, m)
    BY <2>1 DEF IInv, NothingOlderWaits, Admit
  <2>2. CASE ~ \E w \in Workspaces, m \in Messages : Admit(w, m)
    <3>1. admitted' = admitted
      BY <2>2 DEF Next, DrainStep, ReadRows, FailInvalid, Claim, Answer, WriteOutcome, ScheduleWake,
         Tick, WakeFires, Foreground, RetryNow, NetworkChanges, OpenStore, CloseStore, SendNew, Send,
         SendAgain, Delete, Discard, LiveEnds, HandOff, Suspend, Activate, Crash, serverVars
    <3> QED
      BY <3>1
  <2> QED
    BY <2>1, <2>2
<1>2. QueueOrder <=> [][Step]_vars
  BY DEF QueueOrder
<1> QED
  BY <1>1, <1>2, Invariant, PTL DEF Spec

=============================================================================
