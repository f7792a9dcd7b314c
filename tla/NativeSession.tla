--------------------------- MODULE NativeSession ---------------------------
(***************************************************************************)
(* The device session of the mobile app (ADR-0025 WP2/WP3): rotating       *)
(* refresh tokens in one keychain slot per workspace, switching between    *)
(* workspaces, and the wipe that ends one (auth/nativeSession.ts,          *)
(* security/endSession.ts, state/workspace.tsx, state/hydrate.ts,          *)
(* state/workspaceCheckIn.ts), against the rotation, re-delivery and reuse *)
(* rules of the server (nativeauth/store.go).                              *)
(*                                                                         *)
(* A token pair is its generation, and a token set its workspace and       *)
(* generation.  Keychain writes are issued by several flows and land in    *)
(* the order issued.  The waits of the code that are bounded by a timer    *)
(* (writes under way 5 s, a refresh put aside 30 s) are assumed to end     *)
(* before it; the 20 s of re-presenting lie inside the server's 30 s.      *)
(***************************************************************************)
EXTENDS Naturals, Sequences, FiniteSets

CONSTANTS
    Workspaces,   \* the connected workspaces
    None,         \* no workspace
    Native,       \* the ones with a native sign-in; a developer sign-in has no device session
    MaxAttempts,  \* REDELIVERY_MAX_ATTEMPTS
    MaxToken,     \* BOUND: the last generation the server issues
    MaxFailures,  \* BOUND: keychain operations that fail
    MaxCrashes    \* BOUND: times the app is killed

ASSUME NoneAssumption == None \notin Workspaces /\ Native \subseteq Workspaces
ASSUME WritersAssumption == Workspaces \cap {"flush", "hook", "sign"} = {}
ASSUME AttemptsAssumption == MaxAttempts \in Nat \ {0}
ASSUME BoundsAssumption == MaxToken \in Nat /\ MaxFailures \in Nat /\ MaxCrashes \in Nat

VARIABLES
    newest,      \* server, per workspace: generation of the unconsumed token, 0 before sign-in
    grace,       \* server: workspaces whose last consumed token may be re-delivered
    revoked,     \* server: workspaces whose device session is revoked
    reused,      \* server: the ones revoked because a consumed token came back
    slot,        \* keychain, per workspace: generation stored, 0 for none
    marker,      \* keychain: workspaces with az.wipe.pending
    registry,    \* keychain: connected workspaces
    lastActive,  \* keychain: the workspace a launch opens
    launch,      \* "down", "resume" (pending wipes first) or "done"
    resumed,     \* workspaces whose wipe this launch has resumed
    bound,       \* boundWorkspace()
    session,     \* getSession().workspaceId
    ending,      \* getSession().ending
    current,     \* the active token set <<workspace, generation>>, or <<>>
    unpersisted, \* the active set is not stored
    detached,    \* sets put aside while a refresh or a flush of theirs is under way
    parked,      \* per workspace: generation kept in memory for its restore, 0 for none
    waits,       \* detachedRefreshes: workspaces whose restore waits
    run,         \* per workspace: its refresh or check-in
    flush,       \* the flush of ensureFresh: the set and the attempts left
    signing,     \* the workspace whose sign-in is being stored, or None
    steps,       \* the flows that end a session: endSession, and the serial chain
    revokedAside,\* workspaces a check-in found dead, waiting for the chain
    keychain,    \* writers whose write is issued and has not landed, in order
    failures,    \* keychain failures so far
    crashes,     \* crashes so far
    excused      \* workspaces whose newest pair was lost to a failure outside the code

serverVars == <<newest, grace, revoked, reused>>
storedVars == <<slot, marker, registry, lastActive>>
launchVars == <<launch, resumed>>
setVars    == <<current, unpersisted, detached, parked, waits>>
vars == <<serverVars, storedVars, launchVars, bound, session, ending, setVars, run, flush,
          signing, steps, revokedAside, keychain, failures, crashes, excused>>

Flows == {"end", "chain"}
Sets == Workspaces \X Nat
NoSet == <<>>

IdleRun == [pc |-> "idle", kind |-> "refresh", from |-> 0, tries |-> 0, answer |-> "none", next |-> 0,
            left |-> 0, aside |-> FALSE]
Runs == [pc : {"idle", "send", "answered", "issue", "writing"}, kind : {"refresh", "checkin"}, from : Nat,
         tries : 0 .. MaxAttempts, answer : {"none", "ok", "revoked"}, next : Nat, left : 0 .. 2, aside : BOOLEAN]

NoFlush == [set |-> NoSet, left |-> 0]
IdleFlow == [pc |-> "idle", ws |-> None, clean |-> TRUE, set |-> NoSet, left |-> 0, inflight |-> FALSE]
FlowStates == {"idle", "mark", "revoke", "hook", "stored", "delete", "reset", "clear",
               "flush", "settle", "open", "restore"}

TypeOK ==
    /\ newest \in [Workspaces -> Nat] /\ slot \in [Workspaces -> Nat] /\ parked \in [Workspaces -> Nat]
    /\ grace \subseteq Workspaces /\ revoked \subseteq Workspaces /\ reused \subseteq revoked
    /\ marker \subseteq Workspaces /\ registry \subseteq Workspaces /\ resumed \subseteq Workspaces
    /\ waits \subseteq Workspaces /\ revokedAside \subseteq Workspaces /\ excused \subseteq Workspaces
    /\ launch \in {"down", "resume", "done"}
    /\ lastActive \in Workspaces \cup {None} /\ signing \in Workspaces \cup {None}
    /\ bound \in Workspaces \cup {None} /\ session \in Workspaces \cup {None} /\ bound \in {session, None}
    /\ ending \in BOOLEAN /\ unpersisted \in BOOLEAN
    /\ current \in Sets \cup {NoSet} /\ detached \subseteq Sets
    /\ run \in [Workspaces -> Runs]
    /\ flush \in [set : Sets \cup {NoSet}, left : 0 .. 2]
    /\ steps \in [Flows -> [pc : FlowStates, ws : Workspaces \cup {None}, clean : BOOLEAN,
                            set : Sets \cup {NoSet}, left : 0 .. 2, inflight : BOOLEAN]]
    /\ keychain \in Seq(Workspaces \cup {"flush", "hook", "sign"})
    /\ failures \in 0 .. MaxFailures /\ crashes \in 0 .. MaxCrashes

Zero == [w \in Workspaces |-> 0]

\* Every workspace is connected and none is signed in.
Init ==
    /\ newest = Zero /\ grace = {} /\ revoked = {} /\ reused = {}
    /\ slot = Zero /\ marker = {} /\ registry = Workspaces /\ lastActive = None
    /\ launch = "done" /\ resumed = {}
    /\ bound = None /\ session = None /\ ending = FALSE
    /\ current = NoSet /\ unpersisted = FALSE /\ detached = {} /\ parked = Zero /\ waits = {}
    /\ run = [w \in Workspaces |-> IdleRun] /\ flush = NoFlush /\ signing = None
    /\ steps = [f \in Flows |-> IdleFlow] /\ revokedAside = {}
    /\ keychain = <<>> /\ failures = 0 /\ crashes = 0 /\ excused = {}

Up == launch = "done"
SetOf(w) == <<w, run[w].from>>
Alive(set) == set # NoSet /\ (current = set \/ set \in detached)
Refreshing(w) == run[w].pc # "idle" /\ run[w].kind = "refresh"
InFlow(f, pcs) == steps[f].pc \in pcs

\* Issue a keychain write for a writer; the write at the head lands or fails.
Issue(writer) == keychain' = Append(keychain, writer)
Landing(writer) == keychain # <<>> /\ Head(keychain) = writer /\ keychain' = Tail(keychain)
Reissue(writer) == keychain # <<>> /\ Head(keychain) = writer /\ keychain' = Append(Tail(keychain), writer)
Fails(w) == failures < MaxFailures /\ failures' = failures + 1 /\ excused' = excused \cup {w}
Works == UNCHANGED <<failures, excused>>

-----------------------------------------------------------------------------
(* The server. *)

\* An administrator revokes the device.
Revoke(w) ==
    /\ newest[w] # 0 /\ w \notin revoked
    /\ revoked' = revoked \cup {w}
    /\ UNCHANGED <<newest, grace, reused, storedVars, launchVars, bound, session, ending, setVars, run, flush,
                   signing, steps, revokedAside, keychain, failures, crashes, excused>>

\* The re-delivery window closes, never under a run that may still re-present.
GraceEnds(w) ==
    /\ w \in grace /\ run[w].pc \notin {"send", "answered"}
    /\ grace' = grace \ {w}
    /\ UNCHANGED <<newest, revoked, reused, storedVars, launchVars, bound, session, ending, setVars, run, flush,
                   signing, steps, revokedAside, keychain, failures, crashes, excused>>

\* Refresh: rotate the unconsumed token, re-deliver the successor of the last
\* consumed one, treat any other as reuse.
Rotates(w)    == w \notin revoked /\ run[w].from = newest[w] /\ newest[w] < MaxToken
Redelivers(w) == w \notin revoked /\ run[w].from + 1 = newest[w] /\ w \in grace
IsReuse(w)    == w \notin revoked /\ run[w].from < newest[w] /\ ~Redelivers(w)

Answered(w, answer, next) ==
    run' = [run EXCEPT ![w].pc = "answered", ![w].answer = answer, ![w].next = next]

\* The server handles a presented token; its answer arrives or is lost.
Serve(w) ==
    /\ run[w].pc = "send"
    /\ \/ /\ Rotates(w) /\ newest' = [newest EXCEPT ![w] = @ + 1] /\ grace' = grace \cup {w}
          /\ Answered(w, "ok", newest[w] + 1) \/ Answered(w, "none", 0)
          /\ UNCHANGED <<revoked, reused>>
       \/ /\ Redelivers(w) /\ Answered(w, "ok", newest[w])
          /\ UNCHANGED serverVars
       \/ /\ IsReuse(w) /\ revoked' = revoked \cup {w} /\ reused' = reused \cup {w}
          /\ Answered(w, "revoked", 0) /\ UNCHANGED <<newest, grace>>
       \/ /\ w \in revoked /\ Answered(w, "revoked", 0) /\ UNCHANGED serverVars
       \/ /\ Answered(w, "none", 0) /\ UNCHANGED serverVars
    /\ UNCHANGED <<storedVars, launchVars, bound, session, ending, setVars, flush,
                   signing, steps, revokedAside, keychain, failures, crashes, excused>>

-----------------------------------------------------------------------------
(* Sign-in and refresh. *)

\* startNativeSession: the first pair is on its way into the bound slot.
SignIn(w) ==
    /\ Up /\ w \in Native /\ bound = w /\ current = NoSet /\ newest[w] = 0 /\ signing = None /\ ~InFlow("chain", {"restore"})
    /\ newest' = [newest EXCEPT ![w] = 1] /\ signing' = w /\ Issue("sign")
    /\ UNCHANGED <<grace, revoked, reused, storedVars, launchVars, bound, session, ending, setVars, run, flush,
                   steps, revokedAside, failures, crashes, excused>>

\* The mutated form of SignedIn: the pair is activated whatever is bound by then.
SignedInAnywhere(w) ==
    /\ signing = w /\ Landing("sign") /\ Works
    /\ slot' = [slot EXCEPT ![w] = 1] /\ signing' = None
    /\ current' = <<w, 1>> /\ unpersisted' = FALSE /\ parked' = [parked EXCEPT ![w] = 0] /\ lastActive' = w
    /\ UNCHANGED <<serverVars, marker, registry, launchVars, bound, session, ending, detached, waits, run, flush,
                   steps, revokedAside, crashes>>

\* It is stored: activated if its workspace is still the bound one.
SignedIn(w) ==
    /\ signing = w /\ Landing("sign") /\ Works
    /\ slot' = [slot EXCEPT ![w] = 1] /\ signing' = None
    /\ IF bound = w /\ session = w
       THEN /\ current' = <<w, 1>> /\ unpersisted' = FALSE /\ parked' = [parked EXCEPT ![w] = 0]
            /\ lastActive' = w
       ELSE UNCHANGED <<current, unpersisted, parked, lastActive>>
    /\ UNCHANGED <<serverVars, marker, registry, launchVars, bound, session, ending, detached, waits, run, flush,
                   steps, revokedAside, crashes>>

SignInFails(w) ==
    /\ signing = w /\ Landing("sign") /\ Fails(w) /\ signing' = None
    /\ UNCHANGED <<serverVars, storedVars, launchVars, bound, session, ending, setVars, run, flush,
                   steps, revokedAside, crashes>>

\* refreshNativeSession: one run for the active set, shared by every caller.
Refresh(w) ==
    /\ Up /\ w \in Native /\ current # NoSet /\ current[1] = w /\ ~ending /\ run[w].pc = "idle"
    /\ run' = [run EXCEPT ![w] = [IdleRun EXCEPT !.pc = "send", !.from = current[2], !.tries = 1]]
    /\ UNCHANGED <<serverVars, storedVars, launchVars, bound, session, ending, setVars, flush,
                   signing, steps, revokedAside, keychain, failures, crashes, excused>>

\* checkInStoredSession: one refresh of a workspace that is put aside.
CheckIn(w) ==
    /\ Up /\ w \in Native \cap registry /\ w \notin {bound, session} /\ w \notin marker
    /\ w \notin waits /\ parked[w] = 0 /\ run[w].pc = "idle" /\ slot[w] # 0
    /\ run' = [run EXCEPT ![w] = [IdleRun EXCEPT !.pc = "send", !.kind = "checkin", !.from = slot[w], !.tries = 1]]
    /\ waits' = waits \cup {w}
    /\ UNCHANGED <<serverVars, storedVars, launchVars, bound, session, ending, current, unpersisted, detached,
                   parked, flush, signing, steps, revokedAside, keychain, failures, crashes, excused>>

\* The mutated form of Finish: the refresh that ends leaves its workspace waiting for it.
FinishKeepsWait(w) ==
    /\ run' = [run EXCEPT ![w] = IdleRun] /\ UNCHANGED waits
    /\ detached' = IF run[w].kind = "refresh" THEN detached \ {SetOf(w)} ELSE detached

\* The run ends: a set put aside is let go, and a restore waiting for it goes on.
Finish(w) ==
    /\ run' = [run EXCEPT ![w] = IdleRun] /\ waits' = waits \ {w}
    /\ detached' = IF run[w].kind = "refresh" THEN detached \ {SetOf(w)} ELSE detached

\* The mutated form of Retry: the token is presented again without end.
RetryForEver(w) ==
    /\ run[w].pc = "answered" /\ run[w].answer = "none"
    /\ run[w].kind = "checkin" \/ Alive(SetOf(w))
    /\ run' = [run EXCEPT ![w].pc = "send", ![w].tries = @ + 1]
    /\ UNCHANGED <<serverVars, storedVars, launchVars, bound, session, ending, setVars, flush,
                   signing, steps, revokedAside, keychain, failures, crashes, excused>>

\* No answer: the same token again, while attempts are left and the set is alive.
Retry(w) ==
    /\ run[w].pc = "answered" /\ run[w].answer = "none"
    /\ run[w].tries < MaxAttempts /\ (run[w].kind = "checkin" \/ Alive(SetOf(w)))
    /\ run' = [run EXCEPT ![w].pc = "send", ![w].tries = @ + 1]
    /\ UNCHANGED <<serverVars, storedVars, launchVars, bound, session, ending, setVars, flush,
                   signing, steps, revokedAside, keychain, failures, crashes, excused>>

\* The run ends without an answer: the pair in hand is kept.  A rotation behind
\* the lost answers is known to the server alone.
GiveUp(w) ==
    /\ run[w].pc = "answered" /\ run[w].answer = "none"
    /\ Finish(w)
    /\ excused' = IF newest[w] # run[w].from THEN excused \cup {w} ELSE excused
    /\ UNCHANGED <<serverVars, storedVars, launchVars, bound, session, ending, current, unpersisted, parked,
                   flush, signing, steps, revokedAside, keychain, failures, crashes>>

\* device_revoked, or a refused grant: the active session ends; a workspace put
\* aside is wiped when a check-in found out.
Dead(w) ==
    /\ run[w].pc = "answered" /\ run[w].answer = "revoked" /\ Finish(w)
    /\ IF run[w].kind = "refresh" /\ current = SetOf(w) /\ steps["end"].pc = "idle"
       THEN steps' = [steps EXCEPT !["end"] = [IdleFlow EXCEPT !.pc = "mark", !.ws = w]]
       ELSE UNCHANGED steps
    /\ revokedAside' = IF run[w].kind = "checkin" THEN revokedAside \cup {w} ELSE revokedAside
    /\ UNCHANGED <<serverVars, storedVars, launchVars, bound, session, ending, current, unpersisted, parked,
                   flush, signing, keychain, failures, crashes, excused>>

\* The mutated form of Rotated: the new pair is used before it is stored.
RotatedUsedFirst(w) ==
    /\ run[w].pc = "answered" /\ run[w].answer = "ok"
    /\ IF run[w].kind = "checkin" \/ Alive(SetOf(w))
       THEN /\ run' = [run EXCEPT ![w].pc = "issue", ![w].left = 2, ![w].aside = current # SetOf(w)]
            /\ current' = IF current = SetOf(w) THEN <<w, run[w].next>> ELSE current
            /\ UNCHANGED <<detached, waits>>
       ELSE Finish(w) /\ UNCHANGED current
    /\ UNCHANGED <<serverVars, storedVars, launchVars, bound, session, ending, unpersisted, parked,
                   flush, signing, steps, revokedAside, keychain, failures, crashes, excused>>

\* A new pair: stored if its set is the active one or put aside, else dropped.
Rotated(w) ==
    /\ run[w].pc = "answered" /\ run[w].answer = "ok"
    /\ IF run[w].kind = "checkin" \/ Alive(SetOf(w))
       THEN /\ run' = [run EXCEPT ![w].pc = "issue", ![w].left = 2, ![w].aside = current # SetOf(w)]
            /\ UNCHANGED <<detached, waits>>
       ELSE Finish(w)
    /\ UNCHANGED <<serverVars, storedVars, launchVars, bound, session, ending, current, unpersisted, parked,
                   flush, signing, steps, revokedAside, keychain, failures, crashes, excused>>

\* The mutated form of MayStore: a set is stored whether or not it is still alive.
MayStoreAnyway(w) == w \notin marker

\* persistWithRetry, persistDetached: who still gets its pair stored.
MayStore(w) ==
    IF run[w].kind = "checkin" THEN w \notin marker
    ELSE current = SetOf(w) \/ (SetOf(w) \in detached /\ w \notin marker)

\* One attempt to store the new pair is issued, or the pair is dropped.
Store(w) ==
    /\ run[w].pc = "issue"
    /\ IF MayStore(w)
       THEN /\ Issue(w) /\ run' = [run EXCEPT ![w].pc = "writing"] /\ UNCHANGED <<detached, waits>>
       ELSE Finish(w) /\ UNCHANGED keychain
    /\ UNCHANGED <<serverVars, storedVars, launchVars, bound, session, ending, current, unpersisted, parked,
                   flush, signing, steps, revokedAside, failures, crashes, excused>>

\* What follows the last attempt: the active set is replaced by the new pair; a
\* set put aside meanwhile gets a second round; what could not be stored for a
\* set put aside, or by a check-in, is parked for the next restore.
Concluded(w, ok) ==
    LET set == SetOf(w)
        park == run[w].kind = "checkin" \/ set \in detached
    IN IF run[w].kind = "refresh" /\ ~run[w].aside /\ current = set
       THEN /\ current' = <<w, run[w].next>> /\ unpersisted' = ~ok /\ Finish(w) /\ UNCHANGED parked
       ELSE /\ UNCHANGED <<current, unpersisted>>
            /\ IF run[w].kind = "refresh" /\ ~run[w].aside /\ ~ok /\ set \in detached
               THEN /\ run' = [run EXCEPT ![w].pc = "issue", ![w].left = 2, ![w].aside = TRUE]
                    /\ UNCHANGED <<parked, detached, waits>>
               ELSE /\ Finish(w)
                    /\ parked' = [parked EXCEPT ![w] =
                          IF ok THEN (IF @ = run[w].from THEN 0 ELSE @) ELSE IF park THEN run[w].next ELSE @]

\* The write lands.
Stored(w) ==
    /\ run[w].pc = "writing" /\ Landing(w) /\ Works
    /\ slot' = [slot EXCEPT ![w] = run[w].next] /\ Concluded(w, TRUE)
    /\ UNCHANGED <<serverVars, marker, registry, lastActive, launchVars, bound, session, ending, flush,
                   signing, steps, revokedAside, crashes>>

\* The write fails: one more attempt, or the end of this round.
StoreFails(w) ==
    /\ run[w].pc = "writing" /\ Landing(w) /\ Fails(w)
    /\ IF run[w].left = 2
       THEN run' = [run EXCEPT ![w].pc = "issue", ![w].left = 1] /\ UNCHANGED setVars
       ELSE Concluded(w, FALSE)
    /\ UNCHANGED <<serverVars, storedVars, launchVars, bound, session, ending, flush,
                   signing, steps, revokedAside, crashes>>

\* ensureFresh: a request finds the active pair not stored and stores it first.
Flush ==
    /\ Up /\ current # NoSet /\ unpersisted /\ flush = NoFlush
    /\ flush' = [set |-> current, left |-> 2] /\ Issue("flush")
    /\ UNCHANGED <<serverVars, storedVars, launchVars, bound, session, ending, setVars, run,
                   signing, steps, revokedAside, failures, crashes, excused>>

Flushed ==
    /\ Landing("flush") /\ Works
    /\ slot' = [slot EXCEPT ![flush.set[1]] = flush.set[2]]
    /\ unpersisted' = FALSE /\ flush' = NoFlush
    /\ UNCHANGED <<serverVars, marker, registry, lastActive, launchVars, bound, session, ending, current,
                   detached, parked, waits, run, signing, steps, revokedAside, crashes>>

\* A failed flush is tried once more while its set is alive and not being wiped.
FlushFails ==
    /\ keychain # <<>> /\ Head(keychain) = "flush" /\ Fails(flush.set[1])
    /\ IF flush.left = 2 /\ (current = flush.set \/ (flush.set \in detached /\ flush.set[1] \notin marker))
       THEN /\ flush' = [flush EXCEPT !.left = 1] /\ Reissue("flush") /\ UNCHANGED <<unpersisted, detached>>
       ELSE /\ flush' = NoFlush /\ Landing("flush") /\ unpersisted' = TRUE
            /\ detached' = IF flush.left = 2 THEN detached \ {flush.set} ELSE detached
    /\ UNCHANGED <<serverVars, storedVars, launchVars, bound, session, ending, current, parked, waits, run,
                   signing, steps, revokedAside, crashes>>

-----------------------------------------------------------------------------
(* Switching workspaces: the serial chain. *)

GoTo(f, pc) == steps' = [steps EXCEPT ![f].pc = pc]

\* suspendActiveWorkspace up to its first wait: the slot is unbound and the
\* active set put aside, with its refresh and with its pair if not yet stored.
Switch(to) ==
    /\ Up /\ InFlow("chain", {"idle"}) /\ InFlow("end", {"idle"})
    /\ to \in registry \cup {None} /\ to # bound
    /\ bound' = None /\ current' = NoSet /\ unpersisted' = FALSE
    /\ LET was == current
           inflight == was # NoSet /\ Refreshing(was[1]) /\ SetOf(was[1]) = was
           flushes == was # NoSet /\ unpersisted
           dropped == flushes /\ was[1] \in marker
       IN /\ detached' = IF (inflight \/ flushes) /\ ~dropped THEN detached \cup {was} ELSE detached
          /\ waits' = IF inflight THEN waits \cup {was[1]} ELSE waits
          /\ steps' = [steps EXCEPT !["chain"] =
                [IdleFlow EXCEPT !.pc = IF flushes /\ ~dropped THEN "flush" ELSE "settle", !.ws = to,
                                 !.set = was, !.left = 2, !.inflight = inflight]]
          /\ IF flushes /\ ~dropped THEN Issue("hook") ELSE UNCHANGED keychain
    /\ UNCHANGED <<serverVars, storedVars, launchVars, session, ending, parked, run, flush,
                   signing, revokedAside, failures, crashes, excused>>

PutAside(w, n, forgetIt) ==
    /\ steps' = [steps EXCEPT !["chain"].pc = "settle"]
    /\ detached' = IF forgetIt \/ ~steps["chain"].inflight THEN detached \ {<<w, n>>} ELSE detached

\* storeDetached: the pair held only in memory is stored into its own slot.
HookStores ==
    /\ InFlow("chain", {"flush"}) /\ Landing("hook") /\ Works
    /\ LET set == steps["chain"].set
       IN /\ slot' = [slot EXCEPT ![set[1]] = set[2]]
          /\ parked' = [parked EXCEPT ![set[1]] = IF @ = set[2] THEN 0 ELSE @]
          /\ PutAside(set[1], set[2], FALSE)
    /\ UNCHANGED <<serverVars, marker, registry, lastActive, launchVars, bound, session, ending, current,
                   unpersisted, waits, run, flush, signing, revokedAside, crashes>>

\* It fails: once more, then it is parked; nothing once its wipe has begun.
HookFails ==
    /\ InFlow("chain", {"flush"}) /\ keychain # <<>> /\ Head(keychain) = "hook"
    /\ LET set == steps["chain"].set
           again == steps["chain"].left = 2 /\ set \in detached /\ set[1] \notin marker
       IN /\ Fails(set[1])
          /\ IF again
             THEN /\ Reissue("hook") /\ steps' = [steps EXCEPT !["chain"].left = 1] /\ UNCHANGED <<detached, parked>>
             ELSE /\ Landing("hook") /\ PutAside(set[1], set[2], steps["chain"].left = 2)
                  /\ parked' = IF steps["chain"].left = 1 /\ set \in detached
                               THEN [parked EXCEPT ![set[1]] = set[2]] ELSE parked
    /\ UNCHANGED <<serverVars, storedVars, launchVars, bound, session, ending, current,
                   unpersisted, waits, run, flush, signing, revokedAside, crashes>>

\* The writes under way have landed; no session is left.
Settle ==
    /\ InFlow("chain", {"settle"}) /\ keychain = <<>>
    /\ session' = None
    /\ steps' = [steps EXCEPT !["chain"] =
          [IdleFlow EXCEPT !.pc = IF steps["chain"].ws = None THEN "idle" ELSE "open", !.ws = steps["chain"].ws]]
    /\ UNCHANGED <<serverVars, storedVars, launchVars, bound, ending, setVars, run, flush,
                   signing, revokedAside, keychain, failures, crashes, excused>>

\* activate: a slot with an unfinished wipe is wiped, any other is bound.
Open ==
    /\ InFlow("chain", {"open"})
    /\ LET to == steps["chain"].ws
       IN IF to \in marker THEN GoTo("chain", "mark") /\ UNCHANGED <<bound, session>>
          ELSE GoTo("chain", "restore") /\ bound' = to /\ session' = to
    /\ UNCHANGED <<serverVars, storedVars, launchVars, ending, setVars, run, flush,
                   signing, revokedAside, keychain, failures, crashes, excused>>

\* The mutated form of Restore: the slot is read without waiting for a refresh under way.
RestoreAtOnce ==
    /\ InFlow("chain", {"restore"})
    /\ LET to == steps["chain"].ws
       IN /\ current' = IF parked[to] # 0 THEN <<to, parked[to]>> ELSE IF slot[to] # 0 THEN <<to, slot[to]>> ELSE NoSet
          /\ unpersisted' = (parked[to] # 0) /\ parked' = [parked EXCEPT ![to] = 0]
          /\ lastActive' = IF current' # NoSet THEN to ELSE lastActive
    /\ steps' = [steps EXCEPT !["chain"] = IdleFlow]
    /\ UNCHANGED <<serverVars, slot, marker, registry, launchVars, bound, session, ending, detached, waits, run,
                   flush, signing, revokedAside, keychain, failures, crashes, excused>>

\* restoreNativeSession: once no refresh of it is under way, the parked pair,
\* else the stored one.
Restore ==
    /\ InFlow("chain", {"restore"}) /\ steps["chain"].ws \notin waits
    /\ LET to == steps["chain"].ws
       IN /\ current' = IF parked[to] # 0 THEN <<to, parked[to]>> ELSE IF slot[to] # 0 THEN <<to, slot[to]>> ELSE NoSet
          /\ unpersisted' = (parked[to] # 0) /\ parked' = [parked EXCEPT ![to] = 0]
          /\ lastActive' = IF current' # NoSet THEN to ELSE lastActive
    /\ steps' = [steps EXCEPT !["chain"] = IdleFlow]
    /\ UNCHANGED <<serverVars, slot, marker, registry, launchVars, bound, session, ending, detached, waits, run,
                   flush, signing, revokedAside, keychain, failures, crashes, excused>>

-----------------------------------------------------------------------------
(* Ending a session: endSession (active) and wipeStoredWorkspace (any other). *)

Start(f, w) == steps' = [steps EXCEPT ![f] = [IdleFlow EXCEPT !.pc = "mark", !.ws = w]]

\* Log out, a policy, a 401 device_revoked: the active workspace ends.
EndSession ==
    /\ Up /\ InFlow("end", {"idle"}) /\ bound # None /\ current # NoSet
    /\ Start("end", bound)
    /\ UNCHANGED <<serverVars, storedVars, launchVars, bound, session, ending, setVars, run, flush,
                   signing, revokedAside, keychain, failures, crashes, excused>>

\* removeWorkspace of one that is not active.
Remove(w) ==
    /\ Up /\ InFlow("chain", {"idle"}) /\ w \in registry /\ bound # w
    /\ Start("chain", w)
    /\ UNCHANGED <<serverVars, storedVars, launchVars, bound, session, ending, setVars, run, flush,
                   signing, revokedAside, keychain, failures, crashes, excused>>

\* wipeRevokedWorkspace, after a check-in.
WipeRevoked(w) ==
    /\ Up /\ InFlow("chain", {"idle"}) /\ w \in revokedAside /\ revokedAside' = revokedAside \ {w}
    /\ IF bound # w THEN Start("chain", w)
       ELSE IF InFlow("end", {"idle"}) THEN Start("end", w) ELSE UNCHANGED steps
    /\ UNCHANGED <<serverVars, storedVars, launchVars, bound, session, ending, setVars, run, flush,
                   signing, keychain, failures, crashes, excused>>

\* markWorkspaceRevoked: a late answer for a workspace no longer in use.
MarkRevoked(w) ==
    /\ Up /\ w \in revoked /\ bound # w /\ w \in registry /\ w \notin marker
    /\ marker' = marker \cup {w}
    /\ UNCHANGED <<serverVars, slot, registry, lastActive, launchVars, bound, session, ending, setVars, run, flush,
                   signing, steps, revokedAside, keychain, failures, crashes, excused>>

\* 1. The marker first (a failure is recorded and the wipe goes on).
Mark(f) ==
    /\ InFlow(f, {"mark"}) /\ GoTo(f, "revoke")
    /\ \/ marker' = marker \cup {steps[f].ws} /\ Works
       \/ Fails(steps[f].ws) /\ UNCHANGED marker
    /\ ending' = (f = "end" \/ ending)
    /\ UNCHANGED <<serverVars, slot, registry, lastActive, launchVars, bound, session, setVars, run, flush,
                   signing, revokedAside, keychain, crashes>>

\* 3. The server revoke, best effort.
RevokeFirst(f) ==
    /\ InFlow(f, {"revoke"}) /\ GoTo(f, IF f = "end" THEN "hook" ELSE "stored")
    /\ revoked' = revoked \/ (newest[steps[f].ws] # 0 /\ revoked' = revoked \cup {steps[f].ws})
    /\ UNCHANGED <<newest, grace, reused, storedVars, launchVars, bound, session, ending, setVars, run, flush,
                   signing, revokedAside, keychain, failures, crashes, excused>>

\* 4. The wipe hook: the active set is forgotten.
Hook ==
    /\ InFlow("end", {"hook"}) /\ GoTo("end", "stored")
    /\ current' = NoSet /\ unpersisted' = FALSE
    /\ UNCHANGED <<serverVars, storedVars, launchVars, bound, session, ending, detached, parked, waits, run, flush,
                   signing, revokedAside, keychain, failures, crashes, excused>>

\* The stored-wipe hook: what memory keeps of the workspace.  endSession gets
\* here only when the writes under way have landed.
StoredHook(f) ==
    /\ InFlow(f, {"stored"}) /\ (f = "end" => keychain = <<>>) /\ GoTo(f, "delete")
    /\ LET w == steps[f].ws
       IN /\ parked' = [parked EXCEPT ![w] = 0] /\ waits' = waits \ {w}
          /\ detached' = {s \in detached : s[1] # w}
    /\ UNCHANGED <<serverVars, storedVars, launchVars, bound, session, ending, current, unpersisted, run, flush,
                   signing, revokedAside, keychain, failures, crashes, excused>>

\* 5. The secure items and the registry entry, once the writes have landed; a key
\* or the entry may be left, and then the marker too.
Delete(f) ==
    /\ InFlow(f, {"delete"}) /\ keychain = <<>>
    /\ LET w == steps[f].ws
       IN \/ /\ slot' = [slot EXCEPT ![w] = 0] /\ registry' = registry \ {w}
             /\ lastActive' = IF lastActive = w THEN None ELSE lastActive
             /\ steps' = [steps EXCEPT ![f].pc = "reset"] /\ Works
          \/ /\ Fails(w)
             /\ steps' = [steps EXCEPT ![f].pc = "reset", ![f].clean = FALSE]
             /\ slot' \in {slot, [slot EXCEPT ![w] = 0]}
             /\ UNCHANGED <<registry, lastActive>>
    /\ UNCHANGED <<serverVars, marker, launchVars, bound, session, ending, setVars, run, flush,
                   signing, revokedAside, keychain, crashes>>

\* 6. The in-memory session.
Reset(f) ==
    /\ InFlow(f, {"reset"}) /\ GoTo(f, "clear")
    /\ IF f = "end" THEN bound' = None /\ session' = None /\ ending' = FALSE
       ELSE UNCHANGED <<bound, session, ending>>
    /\ UNCHANGED <<serverVars, storedVars, launchVars, setVars, run, flush,
                   signing, revokedAside, keychain, failures, crashes, excused>>

\* 7. The marker last, only when everything is gone; it may not go.
Clear(f) ==
    /\ InFlow(f, {"clear"}) /\ steps' = [steps EXCEPT ![f] = IdleFlow]
    /\ \/ marker' = (IF steps[f].clean THEN marker \ {steps[f].ws} ELSE marker) /\ Works
       \/ steps[f].clean /\ Fails(steps[f].ws) /\ UNCHANGED marker
    /\ UNCHANGED <<serverVars, slot, registry, lastActive, launchVars, bound, session, ending, setVars, run, flush,
                   signing, revokedAside, keychain, crashes>>

-----------------------------------------------------------------------------
(* Crash and launch. *)

\* The app is killed: memory and the writes that have not landed are lost.
Crash ==
    /\ launch # "down" /\ crashes < MaxCrashes /\ crashes' = crashes + 1
    /\ launch' = "down" /\ resumed' = {}
    /\ excused' = excused \cup {w \in Workspaces : run[w].pc # "idle"}
    /\ bound' = None /\ session' = None /\ ending' = FALSE
    /\ current' = NoSet /\ unpersisted' = FALSE /\ detached' = {} /\ parked' = Zero /\ waits' = {}
    /\ run' = [w \in Workspaces |-> IdleRun] /\ flush' = NoFlush /\ signing' = None
    /\ steps' = [f \in Flows |-> IdleFlow] /\ revokedAside' = {} /\ keychain' = <<>>
    /\ UNCHANGED <<serverVars, storedVars, failures>>

Launch ==
    /\ launch = "down" /\ launch' = "resume"
    /\ UNCHANGED <<serverVars, storedVars, resumed, bound, session, ending, setVars, run, flush,
                   signing, steps, revokedAside, keychain, failures, crashes, excused>>

\* resumePendingWipes: every marked workspace is wiped before anything is restored.
Resume(w) ==
    /\ launch = "resume" /\ InFlow("chain", {"idle"}) /\ w \in registry \cap marker /\ w \notin resumed
    /\ Start("chain", w) /\ resumed' = resumed \cup {w}
    /\ UNCHANGED <<serverVars, storedVars, launch, bound, session, ending, setVars, run, flush,
                   signing, revokedAside, keychain, failures, crashes, excused>>

\* hydrateOnce: then the workspace last active, unless its wipe was resumed.
Hydrate ==
    /\ launch = "resume" /\ InFlow("chain", {"idle"}) /\ registry \cap marker \subseteq resumed
    /\ launch' = "done"
    /\ IF lastActive # None /\ lastActive \notin resumed
       THEN /\ steps' = [steps EXCEPT !["chain"] = [IdleFlow EXCEPT !.pc = "restore", !.ws = lastActive]]
            /\ bound' = lastActive /\ session' = lastActive
       ELSE UNCHANGED <<steps, bound, session>>
    /\ UNCHANGED <<serverVars, storedVars, resumed, ending, setVars, run, flush,
                   signing, revokedAside, keychain, failures, crashes, excused>>

-----------------------------------------------------------------------------

RunStep(w) ==
    Serve(w) \/ Retry(w) \/ GiveUp(w) \/ Dead(w) \/ Rotated(w) \/ Store(w) \/ Stored(w) \/ StoreFails(w)

WipeStep(f) == Mark(f) \/ RevokeFirst(f) \/ StoredHook(f) \/ Delete(f) \/ Reset(f) \/ Clear(f)

ChainStep == HookStores \/ HookFails \/ Settle \/ Open \/ Restore

Next ==
    \/ \E w \in Workspaces :
          \/ Revoke(w) \/ GraceEnds(w) \/ SignIn(w) \/ SignedIn(w) \/ SignInFails(w)
          \/ Refresh(w) \/ CheckIn(w) \/ RunStep(w)
          \/ Remove(w) \/ WipeRevoked(w) \/ MarkRevoked(w) \/ Resume(w)
    \/ Flush \/ Flushed \/ FlushFails
    \/ (\E to \in Workspaces \cup {None} : Switch(to)) \/ ChainStep
    \/ EndSession \/ Hook \/ (\E f \in Flows : WipeStep(f))
    \/ Crash \/ Launch \/ Hydrate

Spec == Init /\ [][Next]_vars

\* Keychain and network calls settle and the flows go on: none waits on the user.
Fairness ==
    /\ \A w \in Workspaces : WF_vars(RunStep(w)) /\ WF_vars(SignedIn(w))
    /\ WF_vars(Flushed) /\ WF_vars(ChainStep) /\ WF_vars(Hook)
    /\ \A f \in Flows : WF_vars(WipeStep(f))

FairSpec == Spec /\ Fairness

-----------------------------------------------------------------------------
(* Properties. *)

\* The server never sees a consumed token come back, whatever the order of
\* switches, wipes, check-ins and refreshes, unless the newest pair was lost to a
\* keychain failure, to answers that never came, or to a crash in mid-refresh.
NoReuse == reused \subseteq excused

\* A credential is only ever used for the workspace in front: the set a switch
\* or a slow sign-in leaves behind is never the active one of another.
OwnWorkspace == current # NoSet => current[1] = session

\* What a wipe emptied stays empty: the slot of a workspace that is gone from the
\* registry is filled again by no refresh, no flush, no switch and no sign-in that
\* was under way.  The one writer left out is a check-in, which only asks for the
\* marker, gone once the wipe is complete (runStoredCheckIn); see WipedSlotIsEmpty.
WipedStaysEmpty ==
    [][\A w \in Workspaces :
         w \notin registry /\ slot[w] = 0 /\ slot'[w] # 0 => run[w].kind = "checkin" /\ run[w].pc = "writing"]_vars

\* A workspace that is gone has an empty keychain slot, as the comment on the
\* stores of nativeSession.ts says: "A slot whose wipe has begun gets nothing."
\* A check-in under way while its workspace is removed breaks it.
WipedSlotIsEmpty == \A w \in Workspaces : w \notin registry => slot[w] = 0

\* Persist before use: barring those losses the pair in use is the one in its
\* slot, so a kill at any moment leaves the token the server expects.
PersistBeforeUse == current # NoSet /\ current[1] \notin excused => slot[current[1]] = current[2]

\* A wipe ends, a switch ends: no flow waits for ever on the others' writes and
\* refreshes.
FlowsEnd == \A f \in Flows : steps[f].pc # "idle" ~> steps[f].pc = "idle"

=============================================================================
