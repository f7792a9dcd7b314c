---------------------------- MODULE MobileOutbox ----------------------------
(***************************************************************************)
(* The offline outbox of the mobile app (sync/outbox.ts, appOutbox.ts):    *)
(* messages written offline, or behind one that still waits, are stored in *)
(* the encrypted database of their workspace; one drain at a time sends    *)
(* them in order through the session that is active; a live send nobody    *)
(* answered is handed over to it.                                          *)
(*                                                                         *)
(* Every await of drainOnce is a boundary between two actions.  A database *)
(* call issued before the connection closes still runs (Db.queue), one     *)
(* issued after it throws DbClosedError and ends the run.  A workspace has *)
(* one conversation here, and times are abstracted: an item is due or it   *)
(* waits.  The workspace's server is external: it admits a question_id at  *)
(* most once and answers a repeated one with the original admission.       *)
(***************************************************************************)
EXTENDS Naturals

CONSTANTS
    Workspaces,   \* the workspaces connected on this device
    NoWorkspace,  \* no workspace is active
    MaxMessages   \* BOUND: messages written

ASSUME WorkspacesAssumption == NoWorkspace \notin Workspaces
ASSUME MaxMessagesAssumption == MaxMessages \in Nat

\* A message is its question_id, numbered in the order of writing.
Messages == 1 .. MaxMessages

VARIABLES
    session,    \* the active workspace
    open,       \* offlineStore.get() # null
    online,     \* network.isOnline()
    written,    \* messages written so far
    home,       \* per message: the workspace it was written in
    row,        \* per message: its outbox row's state, "none" when there is no row
    stamp,      \* per message: created_ms, as its place in the order of storing
    stored,     \* messages stored so far
    due,        \* per message: next_attempt_ms has passed
    live,       \* the message of the live turn still being sent, 0 if none
    pc,         \* where OutboxDrainer.running waits, "idle" when it is null
    ddb,        \* the workspace of the pass's database
    same,       \* that connection is still the open one (getDb() === db)
    todo,       \* items of the pass's snapshot still to handle
    late,       \* the ones whose snapshot says they are not due
    cur,        \* the item being handled
    outcome,    \* the answer being recorded
    again,      \* OutboxDrainer.again
    wake,       \* the item the wake timer waits for, 0 if none is armed
    wire,       \* requests sent: <<workspace of the session used, message>>
    admitted,   \* the servers' admissions: <<workspace, message>>
    sentLive,   \* history: messages sent by a live turn
    discarded   \* history: rows removed by the user, a wipe or a dropped project

deviceVars == <<session, open, online>>
boxVars    == <<home, row, stamp, stored, due, written>>
passVars   == <<pc, ddb, same, todo, late, cur, outcome>>
serverVars == <<wire, admitted>>
history    == <<sentLive, discarded>>
vars == <<deviceVars, boxVars, live, passVars, again, wake, serverVars, history>>

Unsent == {"queued", "sending"}

TypeOK ==
    /\ session \in Workspaces \cup {NoWorkspace}
    /\ open \in BOOLEAN /\ online \in BOOLEAN /\ same \in BOOLEAN /\ again \in BOOLEAN
    /\ written \in 0 .. MaxMessages /\ stored \in Nat
    /\ home \in [Messages -> Workspaces \cup {NoWorkspace}]
    /\ row \in [Messages -> {"none", "queued", "sending", "failed"}]
    /\ stamp \in [Messages -> Nat]
    /\ due \in [Messages -> BOOLEAN]
    /\ live \in 0 .. MaxMessages /\ cur \in 0 .. MaxMessages /\ wake \in 0 .. MaxMessages
    /\ pc \in {"idle", "read", "claim", "posting", "write", "wake"}
    /\ ddb \in Workspaces \cup {NoWorkspace}
    /\ todo \subseteq Messages /\ late \subseteq Messages
    /\ outcome \in {"none", "sent", "failed", "retry", "hold"}
    /\ wire \subseteq Workspaces \X Messages /\ admitted \subseteq Workspaces \X Messages
    /\ sentLive \subseteq Messages /\ discarded \subseteq Messages

Init ==
    /\ session \in Workspaces /\ open = FALSE /\ online \in BOOLEAN
    /\ written = 0 /\ stored = 0
    /\ home = [m \in Messages |-> NoWorkspace]
    /\ row = [m \in Messages |-> "none"]
    /\ stamp = [m \in Messages |-> 0]
    /\ due = [m \in Messages |-> TRUE]
    /\ live = 0 /\ wake = 0 /\ again = FALSE
    /\ pc = "idle" /\ ddb = NoWorkspace /\ same = FALSE
    /\ todo = {} /\ late = {} /\ cur = 0 /\ outcome = "none"
    /\ wire = {} /\ admitted = {} /\ sentLive = {} /\ discarded = {}

-----------------------------------------------------------------------------
(* The drain. *)

\* The item with the smallest created_ms (ORDER BY created_ms).
First(items) == CHOOSE m \in items : \A n \in items : stamp[m] <= stamp[n]

Rows(w, states) == {m \in Messages : home[m] = w /\ row[m] \in states}

\* running becomes null.
NotRunning ==
    /\ pc' = "idle" /\ ddb' = NoWorkspace /\ same' = FALSE
    /\ todo' = {} /\ late' = {} /\ cur' = 0 /\ outcome' = "none"

\* drainOnce begins: the rows are asked for, or there is no database.
StartPass(isOpen) ==
    /\ again' = FALSE
    /\ \/ /\ isOpen
          /\ pc' = "read" /\ ddb' = session /\ same' = TRUE
          /\ todo' = {} /\ late' = {} /\ cur' = 0 /\ outcome' = "none"
       \/ ~isOpen /\ NotRunning

\* drain(): start a pass, or ask the running one for one more.
Drain(isOpen) ==
    \/ pc = "idle" /\ StartPass(isOpen)
    \/ pc # "idle" /\ again' = TRUE /\ UNCHANGED passVars

\* drainOnce returned: one more pass if somebody asked for it meanwhile.
EndPass ==
    \/ again /\ StartPass(open)
    \/ ~again /\ NotRunning /\ UNCHANGED again

\* A database call of a closed connection rejects: the loop is left with again as it is.
Throw == NotRunning /\ UNCHANGED <<again, wake>>

\* After the last item: nothing if the connection is not the open one any more,
\* no wake after a hold, else ask for the head of the queue.
LeaveLoop(held) ==
    \/ ~same /\ EndPass /\ UNCHANGED wake
    \/ same /\ held /\ wake' = 0 /\ EndPass
    \/ /\ same /\ ~held
       /\ wake' = 0 /\ pc' = "wake" /\ todo' = {} /\ late' = {} /\ cur' = 0 /\ outcome' = "none"
       /\ UNCHANGED <<ddb, same, again>>

\* The next item of the loop: one in backoff stops it, else it is claimed.
NextItem(items, waiting) ==
    LET blocked == items # {} => First(items) \in waiting
    IN \/ blocked /\ LeaveLoop(FALSE)
       \/ ~blocked /\ ~same /\ Throw
       \/ /\ ~blocked /\ same
          /\ pc' = "claim" /\ cur' = First(items) /\ todo' = items \ {First(items)}
          /\ late' = waiting /\ outcome' = "none"
          /\ UNCHANGED <<ddb, same, again, wake>>

\* The mutated form of ReadRows: rows a crash left 'sending' are not read.
ReadQueuedOnly ==
    /\ pc = "read"
    /\ LET items == Rows(ddb, {"queued"})
       IN NextItem(items, {m \in items : ~due[m]})
    /\ UNCHANGED <<deviceVars, boxVars, live, serverVars, history>>

\* The snapshot of the unsent rows arrives.
ReadRows ==
    /\ pc = "read"
    /\ LET items == Rows(ddb, Unsent)
       IN NextItem(items, {m \in items : ~due[m]})
    /\ UNCHANGED <<deviceVars, boxVars, live, serverVars, history>>

\* The body cannot be read back: the item fails without being claimed.
FailInvalid ==
    /\ pc = "claim"
    /\ row' = IF row[cur] = "none" THEN row ELSE [row EXCEPT ![cur] = "failed"]
    /\ NextItem(todo, late)
    /\ UNCHANGED <<deviceVars, home, stamp, stored, due, written, live, serverVars, history>>

\* The mutated form of Claim: the send starts whatever workspace is active now.
ClaimUnchecked ==
    /\ pc = "claim"
    /\ UNCHANGED <<deviceVars, home, stamp, stored, due, written, live, admitted, history>>
    /\ \/ row[cur] \notin Unsent /\ NextItem(todo, late) /\ UNCHANGED <<row, wire>>
       \/ /\ row[cur] \in Unsent /\ row' = [row EXCEPT ![cur] = "sending"]
          /\ session # NoWorkspace /\ wire' = wire \cup {<<session, cur>>} /\ pc' = "posting"
          /\ UNCHANGED <<ddb, same, todo, late, cur, outcome, again, wake>>

\* The claim ran: a row that is gone or refused is skipped; if the connection is
\* not the open one any more the pass ends; else the POST starts through the
\* active session.
Claim ==
    /\ pc = "claim"
    /\ UNCHANGED <<deviceVars, home, stamp, stored, due, written, live, admitted, history>>
    /\ \/ row[cur] \notin Unsent /\ NextItem(todo, late) /\ UNCHANGED <<row, wire>>
       \/ /\ row[cur] \in Unsent /\ row' = [row EXCEPT ![cur] = "sending"]
          /\ \/ ~same /\ LeaveLoop(FALSE) /\ UNCHANGED wire
             \/ /\ same /\ wire' = wire \cup {<<session, cur>>} /\ pc' = "posting"
                /\ UNCHANGED <<ddb, same, todo, late, cur, outcome, again, wake>>

\* What the POST can come back with: admitted (new or replayed), refused (a
\* bad answer to an admitted one too), no or a passing answer, not this item's
\* fault.
Answers ==
    {"retry", "failed", "hold"} \cup
    (IF <<ddb, cur>> \in admitted THEN {"sent"} ELSE {})

\* The POST settles and its outcome is about to be stored.
Answer(o) ==
    /\ pc = "posting" /\ o \in Answers
    /\ o # "retry" => online
    /\ \/ same /\ pc' = "write" /\ outcome' = o /\ UNCHANGED <<ddb, same, todo, late, cur, again, wake>>
       \/ ~same /\ Throw
    /\ UNCHANGED <<deviceVars, boxVars, live, serverVars, history>>

\* The mutated form of Recorded: the outcome's kind is stored as the row's state.
RecordedAsOutcome(o) == IF row[cur] = "none" \/ o = "sent" THEN "none" ELSE o

\* The row after an outcome (an UPDATE of a row the user deleted changes nothing).
Recorded(o) ==
    IF row[cur] = "none" THEN "none"
    ELSE CASE o = "sent" -> "none" [] o = "failed" -> "failed" [] OTHER -> "queued"

\* The mutated form of WriteOutcome: an unanswered send does not stop the pass.
WriteAndGoOn ==
    /\ pc = "write"
    /\ row' = [row EXCEPT ![cur] = Recorded(outcome)]
    /\ due' = [due EXCEPT ![cur] = IF outcome = "retry" THEN FALSE ELSE @]
    /\ IF outcome = "hold" THEN LeaveLoop(TRUE) ELSE NextItem(todo, late)
    /\ UNCHANGED <<deviceVars, home, stamp, stored, written, live, serverVars, history>>

\* The mutated form of WriteOutcome: a refused message is removed like a sent one.
WriteDropsRefused ==
    /\ pc = "write"
    /\ row' = [row EXCEPT ![cur] = Recorded(IF outcome = "failed" THEN "sent" ELSE outcome)]
    /\ due' = [due EXCEPT ![cur] = IF outcome = "retry" THEN FALSE ELSE @]
    /\ IF outcome \in {"sent", "failed"} THEN NextItem(todo, late) ELSE LeaveLoop(outcome = "hold")
    /\ UNCHANGED <<deviceVars, home, stamp, stored, written, live, serverVars, history>>

\* The outcome is stored; a retry or a hold stops the pass.
WriteOutcome ==
    /\ pc = "write"
    /\ row' = [row EXCEPT ![cur] = Recorded(outcome)]
    /\ due' = [due EXCEPT ![cur] = IF outcome = "retry" THEN FALSE ELSE @]
    /\ IF outcome \in {"sent", "failed"} THEN NextItem(todo, late) ELSE LeaveLoop(outcome = "hold")
    /\ UNCHANGED <<deviceVars, home, stamp, stored, written, live, serverVars, history>>

\* scheduleWake: the timer waits for the head of the queue.
ScheduleWake ==
    /\ pc = "wake"
    /\ LET queued == Rows(ddb, {"queued"})
       IN wake' = IF queued = {} THEN 0 ELSE First(queued)
    /\ EndPass
    /\ UNCHANGED <<deviceVars, boxVars, live, serverVars, history>>

-----------------------------------------------------------------------------
(* What starts a drain. *)

\* An item's backoff ends.
Tick(m) ==
    /\ row[m] = "queued" /\ ~due[m]
    /\ due' = [due EXCEPT ![m] = TRUE] /\ late' = late \ {m}
    /\ UNCHANGED <<deviceVars, home, row, stamp, stored, written, live,
                   pc, ddb, same, todo, cur, outcome, again, wake, serverVars, history>>

WakeFires ==
    /\ wake # 0 /\ due[wake]
    /\ wake' = 0 /\ Drain(open)
    /\ UNCHANGED <<deviceVars, boxVars, live, serverVars, history>>

\* The app returns to the foreground, or the update screen clears.
Foreground ==
    /\ Drain(open)
    /\ UNCHANGED <<deviceVars, boxVars, live, wake, serverVars, history>>

\* "Retry now" on a queued message.
RetryNow(m) ==
    /\ open /\ home[m] = session /\ row[m] = "queued"
    /\ due' = [due EXCEPT ![m] = TRUE] /\ Drain(open)
    /\ UNCHANGED <<deviceVars, home, row, stamp, stored, written, live, wake, serverVars, history>>

NetworkChanges ==
    /\ online' = ~online
    /\ IF online' THEN Drain(open) ELSE UNCHANGED <<passVars, again>>
    /\ UNCHANGED <<session, open, boxVars, live, wake, serverVars, history>>

\* Unlocked with offline storage allowed: the store opens and the drain starts.
OpenStore ==
    /\ session # NoWorkspace /\ ~open
    /\ open' = TRUE /\ Drain(TRUE)
    /\ UNCHANGED <<session, online, boxVars, live, wake, serverVars, history>>

\* The app locks: the connection closes, its queued calls first.
CloseStore ==
    /\ open /\ open' = FALSE /\ same' = FALSE
    /\ UNCHANGED <<session, online, boxVars, live, pc, ddb, todo, late, cur, outcome,
                   again, wake, serverVars, history>>

-----------------------------------------------------------------------------
(* What the user does. *)

\* enqueue: INSERT with created_ms = now.
Store(m, rows, isDue) ==
    /\ row' = [rows EXCEPT ![m] = "queued"]
    /\ stamp' = [stamp EXCEPT ![m] = stored + 1] /\ stored' = stored + 1
    /\ due' = [due EXCEPT ![m] = isDue]

\* shouldQueue() || mustQueueBehindOutbox().
MustQueue == open /\ (~online \/ Rows(session, Unsent) # {})

\* useTurn.send: a new message is queued (and drained when online) or becomes
\* the live turn, whose POST starts; rows is the box the message is added to.
SendNew(rows) ==
    /\ written < MaxMessages /\ session # NoWorkspace
    /\ written' = written + 1
    /\ home' = [home EXCEPT ![written'] = session]
    /\ \/ /\ MustQueue
          /\ Store(written', rows, TRUE)
          /\ IF online THEN Drain(open) ELSE UNCHANGED <<passVars, again>>
          /\ UNCHANGED <<live, wire, sentLive>>
       \/ /\ ~MustQueue
          /\ live' = written' /\ sentLive' = sentLive \cup {written'}
          /\ wire' = wire \cup {<<session, written'>>}
          /\ row' = rows
          /\ UNCHANGED <<stamp, stored, due, passVars, again>>
    /\ UNCHANGED <<deviceVars, wake, admitted>>

\* The composer sends only when no turn is running.
Send == live = 0 /\ SendNew(row) /\ UNCHANGED discarded

\* "Send again" on a refused message: a new question_id; the refused row is
\* removed once send() has returned.  A live turn is replaced.
SendAgain(m) ==
    /\ open /\ home[m] = session /\ row[m] = "failed"
    /\ SendNew([row EXCEPT ![m] = "none"])
    /\ discarded' = discarded \cup {m}

\* "Delete" on a message that shows as queued or refused (it may be claimed meanwhile).
Delete(m) ==
    /\ open /\ home[m] = session /\ row[m] # "none"
    /\ row' = [row EXCEPT ![m] = "none"] /\ discarded' = discarded \cup {m}
    /\ UNCHANGED <<deviceVars, home, stamp, stored, due, written, live, passVars, again, wake,
                   serverVars, sentLive>>

\* Every row of a workspace goes: the project was dropped (403), or the file
\* was wiped (then it is closed first).
Discard(w) ==
    /\ \E closing \in BOOLEAN :
          /\ closing \/ (open /\ session = w)
          /\ IF closing /\ session = w THEN open' = FALSE /\ same' = FALSE ELSE UNCHANGED <<open, same>>
    /\ row' = [m \in Messages |-> IF home[m] = w THEN "none" ELSE row[m]]
    /\ discarded' = discarded \cup Rows(w, {"queued", "sending", "failed"})
    /\ UNCHANGED <<session, online, home, stamp, stored, due, written, live, pc, ddb, todo, late,
                   cur, outcome, again, wake, serverVars, sentLive>>

\* The live POST is answered: admitted, or refused or given up for good.
LiveEnds ==
    /\ live # 0 /\ live' = 0
    /\ UNCHANGED <<deviceVars, boxVars, passVars, again, wake, serverVars, history>>

\* Nobody answers the live POST and the store is open: the outbox takes it over.
HandOff ==
    /\ live # 0 /\ open
    /\ Store(live, row, FALSE) /\ Drain(open) /\ live' = 0
    /\ UNCHANGED <<deviceVars, home, written, wake, serverVars, history>>

\* A switch puts the active workspace aside: the store is closed and what is in
\* memory forgotten before another workspace is bound.
Suspend ==
    /\ session # NoWorkspace
    /\ session' = NoWorkspace /\ open' = FALSE /\ same' = FALSE /\ live' = 0
    /\ UNCHANGED <<online, boxVars, pc, ddb, todo, late, cur, outcome, again, wake, serverVars, history>>

Activate(w) ==
    /\ session = NoWorkspace /\ session' = w
    /\ UNCHANGED <<open, online, boxVars, live, passVars, again, wake, serverVars, history>>

\* The app is killed.
Crash ==
    /\ open' = FALSE /\ live' = 0 /\ again' = FALSE /\ wake' = 0 /\ NotRunning
    /\ UNCHANGED <<session, online, boxVars, serverVars, history>>

\* The server of workspace w admits a message (a request may arrive late).
Admit(w, m) ==
    /\ <<w, m>> \in wire \ admitted
    /\ admitted' = admitted \cup {<<w, m>>}
    /\ UNCHANGED <<deviceVars, boxVars, live, passVars, again, wake, wire, history>>

DrainStep == ReadRows \/ Claim \/ WriteOutcome \/ ScheduleWake

Next ==
    \/ DrainStep \/ FailInvalid
    \/ \E o \in {"sent", "failed", "retry", "hold"} : Answer(o)
    \/ WakeFires \/ Foreground \/ NetworkChanges \/ OpenStore \/ CloseStore
    \/ Send \/ LiveEnds \/ HandOff \/ Suspend \/ Crash
    \/ \E m \in Messages : Tick(m) \/ RetryNow(m) \/ SendAgain(m) \/ Delete(m)
    \/ \E w \in Workspaces : Discard(w) \/ Activate(w) \/ (\E m \in Messages : Admit(w, m))

Spec == Init /\ [][Next]_vars

\* The drain's own steps and its timers run; a request repeated for ever
\* reaches the server, and its answer the app; the user comes back to the app.
Fairness ==
    /\ WF_vars(DrainStep) /\ WF_vars(WakeFires) /\ WF_vars(Foreground)
    /\ \A m \in Messages : WF_vars(Tick(m))
    /\ \A w \in Workspaces, m \in Messages : WF_vars(Admit(w, m))
    /\ \A o \in {"sent", "retry"} : SF_vars(Answer(o))

FairSpec == Spec /\ Fairness

-----------------------------------------------------------------------------
(* Properties. *)

\* A message is sent through, and admitted by, the workspace it was written in
\* only: a pass over one workspace's database never sends through the session of
\* another one (the getDb() check of drainOnce, the awaited close of a switch).
HomeOnly == \A r \in wire \cup admitted : home[r[2]] = r[1]

\* A stored message leaves the outbox only when its own workspace admitted it,
\* or somebody discarded it: no crash, lock, switch or lost answer loses it.
StoredIsNotLost ==
    \A m \in Messages :
        stamp[m] # 0 /\ row[m] = "none" /\ m \notin discarded => <<home[m], m>> \in admitted

\* "Messages are admitted in the order they were written": none that only the
\* outbox sent is admitted while one stored before it still waits.
QueueOrder ==
    [][\A m, n \in Messages :
         /\ <<home[n], n>> \in admitted' \ admitted /\ n \notin sentLive
         /\ home[m] = home[n] /\ stamp[m] # 0 /\ stamp[m] < stamp[n]
         => row[m] \notin Unsent]_vars

\* Once its workspace stays active, unlocked and reachable, every message that
\* waits is sent, refused or discarded: none is stranded as "Sending".
QueueIsServed ==
    \A m \in Messages :
        <>[](open /\ online /\ session = home[m]) => []<>(row[m] \notin Unsent)

=============================================================================
