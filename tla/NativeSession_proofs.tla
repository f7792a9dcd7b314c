------------------------ MODULE NativeSession_proofs ------------------------
(***************************************************************************)
(* TLAPS proofs about NativeSession, for every set of workspaces, every    *)
(* number of tokens, keychain failures and crashes.                        *)
(***************************************************************************)
EXTENDS NativeSession, TLAPS, SequenceTheorems

Switching == {"flush", "settle", "open", "restore"}

\* The flow records, the writers, and a write of theirs that has not landed.
FlowRecords == [pc : FlowStates, ws : Workspaces \cup {None}, clean : BOOLEAN,
                set : Sets \cup {NoSet}, left : 0 .. 2, inflight : BOOLEAN]
Writers == Workspaces \cup {"flush", "hook", "sign"}
In(s, x) == \E i \in 1 .. Len(s) : s[i] = x
Once(s, x) == \A i, j \in 1 .. Len(s) : s[i] = x /\ s[j] = x => i = j

\* The active set is the bound workspace's, which is connected and signed in, and
\* nothing is half-way through storing, leaving or wiping it.
InFront ==
    current # NoSet =>
        /\ bound = current[1] /\ current[1] \in registry /\ newest[current[1]] # 0
        /\ signing = None /\ steps["chain"].pc \notin Switching
        /\ steps["end"].pc \notin {"stored", "delete", "reset", "clear"}

\* A switch has the app for itself, from a workspace in the registry to another;
\* a wipe on the chain is of a workspace that is not bound.
Switched ==
    LET c == steps["chain"]
    IN /\ c.pc \in Switching => /\ steps["end"].pc = "idle" /\ launch = "done"
                                /\ c.ws \in registry \cup {None}
                                /\ c.pc # "restore" => bound = None
       /\ c.pc = "flush" => c.set # NoSet /\ c.set[1] \in registry /\ newest[c.set[1]] # 0
       /\ c.pc \in {"open", "restore"} => signing = None /\ c.ws # None
       /\ c.pc = "restore" => bound = c.ws
       /\ c.pc \notin Switching \cup {"idle"} => c.ws # None /\ bound # c.ws

\* endSession ends a signed-in workspace, the bound one until it is reset.
Ended ==
    LET e == steps["end"]
    IN e.pc # "idle" => /\ e.ws # None /\ newest[e.ws] # 0 /\ signing = None /\ launch = "done"
                        /\ bound \in {e.ws, None} /\ (e.pc = "clear" => bound = None)

\* Nothing is bound before the pending wipes are over.
Launched == launch # "done" => bound = None /\ signing = None

\* The pair of a sign-in is on its way to the slot of the session's workspace.
SignedUp ==
    signing # None =>
        /\ session = signing /\ newest[signing] # 0 /\ signing \in registry
        /\ run[signing].pc = "idle" /\ signing \notin revokedAside
        /\ In(keychain, "sign")

\* Whatever the device holds of a workspace, the server issued it.
Known ==
    \A w \in Workspaces :
        slot[w] # 0 \/ parked[w] # 0 \/ run[w].pc # "idle" \/ w \in revokedAside => newest[w] # 0

\* What could come back to the front is connected, and a wipe that deletes has
\* nothing left of its workspace put aside.
Registered ==
    /\ lastActive \in registry \cup {None}
    /\ bound # None => bound \in registry \/ steps["end"].pc # "idle"
    /\ \A s \in detached : s[1] \in registry
    /\ \A f \in Flows : steps[f].pc = "delete" => \A s \in detached : s[1] # steps[f].ws

\* There is a flush exactly while its one write has not landed.
Flushing ==
    /\ flush.set # NoSet => /\ flush.set[1] \in registry /\ newest[flush.set[1]] # 0
                            /\ In(keychain, "flush")
    /\ In(keychain, "flush") => flush.set # NoSet
    /\ Once(keychain, "flush")

\* A refresh that writes has its write under way, into a connected workspace.
Writing ==
    \A w \in Workspaces : run[w].pc = "writing" =>
        /\ In(keychain, w)
        /\ w \notin registry => run[w].kind = "checkin"

\* The inductive invariant.
IInv == /\ TypeOK /\ InFront /\ Switched /\ Ended /\ Launched /\ SignedUp
        /\ Known /\ Registered /\ Flushing /\ Writing

-----------------------------------------------------------------------------
(* The keychain queue. *)

LEMMA EmptyQueue == \A x : ~ In(<<>>, x) /\ Once(<<>>, x)
  BY DEF In, Once

LEMMA QueueAppend ==
  ASSUME NEW s \in Seq(Writers), NEW x \in Writers
  PROVE  /\ Append(s, x) \in Seq(Writers)
         /\ \A y : In(Append(s, x), y) <=> In(s, y) \/ y = x
         /\ \A y : Once(s, y) /\ (y # x \/ ~ In(s, y)) => Once(Append(s, x), y)
<1>1. /\ Append(s, x) \in Seq(Writers) /\ Len(Append(s, x)) = Len(s) + 1 /\ Len(s) \in Nat
      /\ \A i \in 1 .. Len(s) : Append(s, x)[i] = s[i]
      /\ Append(s, x)[Len(s) + 1] = x
  BY AppendProperties, LenProperties
<1>2. 1 .. Len(Append(s, x)) = (1 .. Len(s)) \cup {Len(s) + 1}
  BY <1>1
<1>3. ASSUME NEW y
      PROVE  In(Append(s, x), y) <=> In(s, y) \/ y = x
  BY <1>1, <1>2 DEF In
<1>4. ASSUME NEW y, Once(s, y), y # x \/ ~ In(s, y)
      PROVE  Once(Append(s, x), y)
  BY <1>1, <1>2, <1>4 DEF In, Once
<1> QED
  BY <1>1, <1>3, <1>4

LEMMA QueueTail ==
  ASSUME NEW s \in Seq(Writers), s # <<>>
  PROVE  /\ Tail(s) \in Seq(Writers) /\ Head(s) \in Writers /\ In(s, Head(s))
         /\ \A y : In(Tail(s), y) => In(s, y)
         /\ \A y : In(s, y) /\ y # Head(s) => In(Tail(s), y)
         /\ \A y : Once(s, y) => Once(Tail(s), y)
         /\ Once(s, Head(s)) => ~ In(Tail(s), Head(s))
<1>1. /\ Tail(s) \in Seq(Writers) /\ Head(s) \in Writers /\ Head(s) = s[1]
      /\ Len(s) \in Nat /\ Len(s) >= 1 /\ Len(Tail(s)) = Len(s) - 1
      /\ \A i \in 1 .. Len(Tail(s)) : Tail(s)[i] = s[i + 1]
  BY HeadTailProperties, LenProperties, EmptySeq
<1>2. \A i \in 1 .. Len(Tail(s)) : i + 1 \in 1 .. Len(s)
  BY <1>1
<1>3. \A i \in 1 .. Len(s) : i = 1 \/ (i - 1 \in 1 .. Len(Tail(s)) /\ Tail(s)[i - 1] = s[i])
  BY <1>1
<1>4. In(s, Head(s))
  BY <1>1 DEF In
<1>5. ASSUME NEW y, In(Tail(s), y)
      PROVE  In(s, y)
  BY <1>1, <1>2, <1>5 DEF In
<1>6. ASSUME NEW y, In(s, y), y # Head(s)
      PROVE  In(Tail(s), y)
  BY <1>1, <1>3, <1>6 DEF In
<1>7. ASSUME NEW y, Once(s, y)
      PROVE  Once(Tail(s), y)
  BY <1>1, <1>2, <1>7 DEF Once
<1>8. ASSUME Once(s, Head(s))
      PROVE  ~ In(Tail(s), Head(s))
  <2>1. SUFFICES ASSUME NEW i \in 1 .. Len(Tail(s)), Tail(s)[i] = Head(s)
                 PROVE  FALSE
    BY DEF In
  <2>2. s[i + 1] = s[1] /\ i + 1 \in 1 .. Len(s) /\ 1 \in 1 .. Len(s) /\ i + 1 # 1
    BY <1>1, <1>2, <2>1
  <2> QED
    BY <1>1, <1>8, <2>2 DEF Once
<1> QED
  BY <1>1, <1>4, <1>5, <1>6, <1>7, <1>8

\* A write is issued.
LEMMA Issued ==
  ASSUME TypeOK, NEW x \in Writers, Issue(x)
  PROVE  /\ keychain' \in Seq(Writers)
         /\ \A y : In(keychain, y)' <=> In(keychain, y) \/ y = x
         /\ \A y : Once(keychain, y) /\ (y # x \/ ~ In(keychain, y)) => Once(keychain, y)'
  BY QueueAppend DEF TypeOK, Issue, Writers

\* A write lands or fails for good.
LEMMA Landed ==
  ASSUME TypeOK, NEW x, Landing(x)
  PROVE  /\ keychain' \in Seq(Writers) /\ x \in Writers /\ In(keychain, x)
         /\ \A y : In(keychain, y)' => In(keychain, y)
         /\ \A y : In(keychain, y) /\ y # x => In(keychain, y)'
         /\ \A y : Once(keychain, y) => Once(keychain, y)'
         /\ Once(keychain, x) => ~ In(keychain, x)'
  BY QueueTail DEF TypeOK, Landing, Writers

\* A write fails and is issued again.
LEMMA Reissued ==
  ASSUME TypeOK, NEW x, Reissue(x)
  PROVE  /\ keychain' \in Seq(Writers) /\ In(keychain, x)
         /\ \A y : In(keychain, y)' <=> In(keychain, y)
         /\ \A y : Once(keychain, y) => Once(keychain, y)'
<1> DEFINE t == Tail(keychain)
<1>1. /\ keychain \in Seq(Writers) /\ keychain # <<>> /\ x = Head(keychain)
      /\ keychain' = Append(t, x)
  BY DEF TypeOK, Reissue, Writers
<1>2. /\ t \in Seq(Writers) /\ x \in Writers /\ In(keychain, x)
      /\ \A y : In(t, y) => In(keychain, y)
      /\ \A y : In(keychain, y) /\ y # x => In(t, y)
      /\ \A y : Once(keychain, y) => Once(t, y)
      /\ Once(keychain, x) => ~ In(t, x)
  BY <1>1, QueueTail
<1> HIDE DEF t
<1>3. /\ Append(t, x) \in Seq(Writers)
      /\ \A y : In(Append(t, x), y) <=> In(t, y) \/ y = x
      /\ \A y : Once(t, y) /\ (y # x \/ ~ In(t, y)) => Once(Append(t, x), y)
  BY <1>2, QueueAppend
<1> QED
  BY <1>1, <1>2, <1>3

-----------------------------------------------------------------------------
(* The records of flows and runs. *)

LEMMA Types ==
  /\ TypeOK => steps \in [Flows -> FlowRecords] /\ keychain \in Seq(Writers)
  /\ "end" \in Flows /\ "chain" \in Flows /\ "end" # "chain"
  BY DEF TypeOK, FlowRecords, Writers, Flows

LEMMA FlowGoes ==
  ASSUME TypeOK, NEW f \in Flows, NEW p \in FlowStates, GoTo(f, p)
  PROVE  /\ steps' \in [Flows -> FlowRecords]
         /\ steps'[f].pc = p /\ steps'[f].ws = steps[f].ws /\ steps'[f].set = steps[f].set
         /\ \A g \in Flows : g # f => steps'[g] = steps[g]
<1>1. steps \in [Flows -> FlowRecords]
  BY Types
<1>2. [steps[f] EXCEPT !.pc = p] \in FlowRecords
  BY <1>1 DEF FlowRecords
<1> QED
  BY <1>1, <1>2 DEF GoTo, FlowRecords

LEMMA IdleFlowType ==
  /\ IdleFlow \in FlowRecords /\ IdleFlow.pc = "idle" /\ IdleFlow.ws = None
  BY DEF IdleFlow, FlowRecords, FlowStates, Sets, NoSet

LEMMA FlowBegins ==
  ASSUME NEW p \in FlowStates, NEW w \in Workspaces \cup {None}
  PROVE  /\ [IdleFlow EXCEPT !.pc = p, !.ws = w] \in FlowRecords
         /\ [IdleFlow EXCEPT !.pc = p, !.ws = w].pc = p
         /\ [IdleFlow EXCEPT !.pc = p, !.ws = w].ws = w
<1> DEFINE r == IdleFlow
<1>1. r \in FlowRecords
  BY IdleFlowType
<1> HIDE DEF r
<1>2. /\ [r EXCEPT !.pc = p, !.ws = w] \in FlowRecords
      /\ [r EXCEPT !.pc = p, !.ws = w].pc = p
      /\ [r EXCEPT !.pc = p, !.ws = w].ws = w
  BY <1>1 DEF FlowRecords
<1> QED
  BY <1>2 DEF r

LEMMA FlowStarts ==
  ASSUME TypeOK, NEW f \in Flows, NEW w \in Workspaces, Start(f, w)
  PROVE  /\ steps' \in [Flows -> FlowRecords]
         /\ steps'[f].pc = "mark" /\ steps'[f].ws = w
         /\ \A g \in Flows : g # f => steps'[g] = steps[g]
<1>1. "mark" \in FlowStates
  BY DEF FlowStates
<1> QED
  BY <1>1, FlowBegins, Types DEF Start

LEMMA FlowIdles ==
  ASSUME TypeOK, NEW f \in Flows, steps' = [steps EXCEPT ![f] = IdleFlow]
  PROVE  /\ steps' \in [Flows -> FlowRecords]
         /\ steps'[f].pc = "idle" /\ steps'[f].ws = None
         /\ \A g \in Flows : g # f => steps'[g] = steps[g]
  BY IdleFlowType, Types

LEMMA FailTypes ==
  ASSUME TypeOK, NEW w \in Workspaces, Fails(w)
  PROVE  failures' \in 0 .. MaxFailures /\ excused' \subseteq Workspaces
  BY BoundsAssumption DEF TypeOK, Fails

LEMMA IdleRunType == IdleRun \in Runs /\ IdleRun.pc = "idle"
  BY AttemptsAssumption DEF IdleRun, Runs

LEMMA RunAnswered ==
  ASSUME NEW r \in Runs, NEW a \in {"none", "ok", "revoked"}, NEW n \in Nat
  PROVE  /\ [r EXCEPT !.pc = "answered", !.answer = a, !.next = n] \in Runs
         /\ [r EXCEPT !.pc = "answered", !.answer = a, !.next = n].pc = "answered"
  BY DEF Runs

LEMMA RunBegins ==
  ASSUME NEW r \in Runs, NEW k \in {"refresh", "checkin"}, NEW n \in Nat
  PROVE  /\ [r EXCEPT !.pc = "send", !.from = n, !.tries = 1] \in Runs
         /\ [r EXCEPT !.pc = "send", !.from = n, !.tries = 1].pc = "send"
         /\ [r EXCEPT !.pc = "send", !.kind = k, !.from = n, !.tries = 1] \in Runs
         /\ [r EXCEPT !.pc = "send", !.kind = k, !.from = n, !.tries = 1].pc = "send"
<1>1. 1 \in 0 .. MaxAttempts
  BY AttemptsAssumption
<1> QED
  BY <1>1 DEF Runs

LEMMA RunRetries ==
  ASSUME NEW r \in Runs, NEW t \in 0 .. MaxAttempts
  PROVE  /\ [r EXCEPT !.pc = "send", !.tries = t] \in Runs
         /\ [r EXCEPT !.pc = "send", !.tries = t].pc = "send"
  BY DEF Runs

LEMMA RunStores ==
  ASSUME NEW r \in Runs, NEW n \in 0 .. 2, NEW a \in BOOLEAN
  PROVE  /\ [r EXCEPT !.pc = "issue", !.left = n, !.aside = a] \in Runs
         /\ [r EXCEPT !.pc = "issue", !.left = n, !.aside = a].pc = "issue"
         /\ [r EXCEPT !.pc = "issue", !.left = n] \in Runs
         /\ [r EXCEPT !.pc = "issue", !.left = n].pc = "issue"
         /\ [r EXCEPT !.pc = "writing"] \in Runs
         /\ [r EXCEPT !.pc = "writing"].pc = "writing"
         /\ [r EXCEPT !.pc = "writing"].kind = r.kind
  BY DEF Runs

LEMMA Finishes ==
  ASSUME TypeOK, NEW w \in Workspaces, Finish(w)
  PROVE  /\ run' \in [Workspaces -> Runs] /\ run'[w].pc = "idle"
         /\ \A v \in Workspaces : v # w => run'[v] = run[v]
         /\ waits' \subseteq waits /\ detached' \subseteq detached
  BY IdleRunType DEF TypeOK, Finish

-----------------------------------------------------------------------------
(* Steps that touch one part of the state. *)

\* What the invariant depends on beyond types.
core == <<newest, slot, parked, registry, lastActive, launch, bound, session, current, detached, run, flush,
          signing, steps, revokedAside, keychain>>

LEMMA FrameKeeps ==
  ASSUME IInv, TypeOK', UNCHANGED core
  PROVE  IInv'
  BY DEF IInv, core, InFront, Switched, Ended, Launched, SignedUp, Known, Registered, Flushing, Writing

\* A run goes on, or ends.
LEMMA RunKeeps ==
  ASSUME IInv, TypeOK', NEW w \in Workspaces, newest[w] # 0, signing # w,
         \A v \in Workspaces : v # w => run'[v] = run[v],
         run'[w].pc = "writing" => In(keychain, w) /\ (w \notin registry => run'[w].kind = "checkin"),
         detached' \subseteq detached,
         UNCHANGED <<newest, slot, parked, registry, lastActive, launch, bound, session, current, flush,
                     signing, steps, revokedAside, keychain>>
  PROVE  IInv'
<1>1. InFront' /\ Switched' /\ Ended' /\ Launched'
  BY DEF IInv, InFront, Switched, Ended, Launched
<1>2. SignedUp'
  BY DEF IInv, SignedUp, TypeOK
<1>3. Known'
  BY DEF IInv, Known
<1>4. Registered'
  BY DEF IInv, Registered
<1>5. Flushing'
  BY DEF IInv, Flushing
<1>6. Writing'
  BY DEF IInv, Writing
<1> QED
  BY <1>1, <1>2, <1>3, <1>4, <1>5, <1>6 DEF IInv

\* A run under way is of a signed-in workspace that is not signing in.
LEMMA RunIsKnown ==
  ASSUME IInv, NEW w \in Workspaces, run[w].pc # "idle"
  PROVE  newest[w] # 0 /\ signing # w
  BY NoneAssumption DEF IInv, Known, SignedUp

LEMMA RevokeKeeps ==
  ASSUME IInv, NEW w \in Workspaces, Revoke(w)
  PROVE  IInv'
<1>1. TypeOK'
  BY DEF IInv, TypeOK, Revoke, storedVars, launchVars, setVars
<1> QED
  BY <1>1, FrameKeeps DEF Revoke, core, storedVars, launchVars, setVars

LEMMA GraceEndsKeeps ==
  ASSUME IInv, NEW w \in Workspaces, GraceEnds(w)
  PROVE  IInv'
<1>1. TypeOK'
  BY DEF IInv, TypeOK, GraceEnds, storedVars, launchVars, setVars
<1> QED
  BY <1>1, FrameKeeps DEF GraceEnds, core, storedVars, launchVars, setVars

LEMMA MarkRevokedKeeps ==
  ASSUME IInv, NEW w \in Workspaces, MarkRevoked(w)
  PROVE  IInv'
<1>1. TypeOK'
  BY DEF IInv, TypeOK, MarkRevoked, serverVars, launchVars, setVars
<1> QED
  BY <1>1, FrameKeeps DEF MarkRevoked, core, serverVars, launchVars, setVars

LEMMA LaunchKeeps ==
  ASSUME IInv, Launch
  PROVE  IInv'
<1>1. TypeOK'
  BY DEF IInv, TypeOK, Launch, serverVars, storedVars, setVars
<1>2. launch # "done" /\ launch' # "done"
  BY DEF Launch
<1> QED
  BY <1>1, <1>2 DEF IInv, Launch, serverVars, storedVars, setVars,
     InFront, Switched, Ended, Launched, SignedUp, Known, Registered, Flushing, Writing

\* The server answers a run, whatever its answer.
LEMMA ServeKeeps ==
  ASSUME IInv, NEW w \in Workspaces, Serve(w)
  PROVE  IInv'
<1>1. /\ TypeOK /\ run[w].pc = "send" /\ newest[w] \in Nat /\ newest[w] # 0
      /\ UNCHANGED <<slot, marker, registry, lastActive, launch, resumed, bound, session, ending, current, unpersisted,
                     detached, parked, waits, flush, signing, steps, revokedAside, keychain, failures, crashes, excused>>
  BY DEF IInv, TypeOK, Serve, Known, storedVars, launchVars, setVars
<1>2. \E a \in {"none", "ok", "revoked"}, n \in Nat : Answered(w, a, n)
  BY <1>1 DEF Serve
<1>3. /\ run' \in [Workspaces -> Runs] /\ run'[w].pc = "answered"
      /\ \A v \in Workspaces : v # w => run'[v] = run[v]
  <2>1. PICK a \in {"none", "ok", "revoked"}, n \in Nat : Answered(w, a, n)
    BY <1>2
  <2> DEFINE r == [run[w] EXCEPT !.pc = "answered", !.answer = a, !.next = n]
  <2>2. run \in [Workspaces -> Runs] /\ run' = [run EXCEPT ![w] = r]
    BY <1>1, <2>1 DEF TypeOK, Answered
  <2>3. run[w] \in Runs
    BY <2>2
  <2>4. r \in Runs /\ r.pc = "answered"
    BY <2>3, RunAnswered, Zenon
  <2> QED
    BY <2>2, <2>4
<1>4. /\ newest' \in [Workspaces -> Nat] /\ \A v \in Workspaces : newest[v] # 0 => newest'[v] # 0
      /\ grace' \subseteq Workspaces /\ revoked' \subseteq Workspaces /\ reused' \subseteq revoked'
  <2>1. CASE newest' = [newest EXCEPT ![w] = @ + 1] /\ grace' = grace \cup {w} /\ UNCHANGED <<revoked, reused>>
    <3>1. newest[w] + 1 \in Nat /\ newest[w] + 1 # 0
      BY <1>1
    <3> QED
      BY <1>1, <2>1, <3>1 DEF TypeOK
  <2>2. CASE revoked' = revoked \cup {w} /\ reused' = reused \cup {w} /\ UNCHANGED <<newest, grace>>
    BY <1>1, <2>2 DEF TypeOK
  <2>3. CASE UNCHANGED serverVars
    BY <1>1, <2>3 DEF TypeOK, serverVars
  <2> QED
    BY <2>1, <2>2, <2>3 DEF Serve
<1>5. TypeOK'
  BY <1>1, <1>3, <1>4 DEF TypeOK
<1>6. InFront'
  BY <1>1, <1>4 DEF IInv, InFront, TypeOK, Sets
<1>7. Switched'
  <2>1. steps["chain"].set # NoSet => steps["chain"].set[1] \in Workspaces
    BY <1>1, Types DEF FlowRecords, Sets
  <2> QED
    BY <1>1, <1>4, <2>1 DEF IInv, Switched
<1>8. Ended' /\ Launched'
  <2>1. steps["end"].ws \in Workspaces \cup {None}
    BY <1>1, Types DEF FlowRecords
  <2> QED
    BY <1>1, <1>4, <2>1 DEF IInv, Ended, Launched
<1>9. SignedUp'
  BY <1>1, <1>3, <1>4 DEF IInv, SignedUp, TypeOK
<1>10. Known' /\ Writing'
  BY <1>1, <1>3, <1>4 DEF IInv, Known, Writing
<1>11. Registered'
  BY <1>1 DEF IInv, Registered
<1>12. Flushing'
  BY <1>1, <1>4 DEF IInv, Flushing, TypeOK, Sets
<1> QED
  BY <1>5, <1>6, <1>7, <1>8, <1>9, <1>10, <1>11, <1>12 DEF IInv

-----------------------------------------------------------------------------
(* Sign-in and refresh. *)

LEMMA SignInKeeps ==
  ASSUME IInv, NEW w \in Workspaces, SignIn(w)
  PROVE  IInv'
<1>1. /\ TypeOK /\ launch = "done" /\ bound = w /\ session = w /\ current = NoSet /\ newest[w] = 0 /\ signing = None
      /\ steps["chain"].pc # "restore" /\ signing' = w /\ Issue("sign")
      /\ newest' = [newest EXCEPT ![w] = 1]
      /\ UNCHANGED <<grace, revoked, reused, slot, marker, registry, lastActive, launch, resumed, bound, session, ending,
                     current, unpersisted, detached, parked, waits, run, flush, steps, revokedAside, failures, crashes, excused>>
  BY NoneAssumption DEF IInv, TypeOK, SignIn, Up, InFlow, storedVars, launchVars, setVars
<1>2. newest' \in [Workspaces -> Nat] /\ newest'[w] # 0 /\ \A v \in Workspaces : newest[v] # 0 => newest'[v] # 0
  BY <1>1 DEF TypeOK
<1>3. /\ keychain' \in Seq(Writers)
      /\ \A y : In(keychain, y)' <=> In(keychain, y) \/ y = "sign"
      /\ \A y : Once(keychain, y) /\ y # "sign" => Once(keychain, y)'
  BY <1>1, Issued DEF Writers
<1>4. /\ steps["end"].pc = "idle" /\ w \in registry /\ run[w].pc = "idle" /\ w \notin revokedAside
      /\ steps["chain"].pc \notin Switching
  BY <1>1, NoneAssumption DEF IInv, Ended, Registered, Known, Switched, Switching
<1>5. TypeOK'
  BY <1>1, <1>2, <1>3 DEF TypeOK, Writers
<1>6. InFront' /\ Ended' /\ Launched'
  BY <1>1, <1>4 DEF InFront, Ended, Launched
<1>7. Switched'
  BY <1>1, <1>4 DEF IInv, Switched, Switching
<1>8. SignedUp'
  BY <1>1, <1>2, <1>3, <1>4 DEF SignedUp
<1>9. Known' /\ Writing'
  BY <1>1, <1>2, <1>3 DEF IInv, Known, Writing
<1>10. Registered'
  BY <1>1 DEF IInv, Registered
<1>11. Flushing'
  BY <1>1, <1>2, <1>3 DEF IInv, Flushing, TypeOK, Sets
<1> QED
  BY <1>5, <1>6, <1>7, <1>8, <1>9, <1>10, <1>11 DEF IInv

LEMMA SignedInKeeps ==
  ASSUME IInv, NEW w \in Workspaces, SignedIn(w)
  PROVE  IInv'
<1>1. /\ TypeOK /\ signing = w /\ w # None /\ Landing("sign") /\ signing' = None /\ slot' = [slot EXCEPT ![w] = 1]
      /\ UNCHANGED <<newest, grace, revoked, reused, marker, registry, launch, resumed, bound, session, ending,
                     detached, waits, run, flush, steps, revokedAside, failures, crashes, excused>>
  BY NoneAssumption DEF IInv, SignedIn, Works, serverVars, launchVars
<1>2. \/ /\ bound = w /\ current' = <<w, 1>> /\ unpersisted' = FALSE /\ parked' = [parked EXCEPT ![w] = 0] /\ lastActive' = w
      \/ UNCHANGED <<current, unpersisted, parked, lastActive>>
  BY DEF SignedIn
<1>3. /\ keychain' \in Seq(Writers)
      /\ \A y : In(keychain, y)' => In(keychain, y)
      /\ \A y : In(keychain, y) /\ y # "sign" => In(keychain, y)'
      /\ \A y : Once(keychain, y) => Once(keychain, y)'
  BY <1>1, Landed
<1>4. /\ newest[w] # 0 /\ w \in registry /\ steps["end"].pc = "idle" /\ launch = "done"
      /\ bound = w => steps["chain"].pc \notin Switching
  BY <1>1 DEF IInv, SignedUp, Ended, Launched, Switched, Switching
<1>5. /\ slot' \in [Workspaces -> Nat] /\ \A v \in Workspaces : v # w => slot'[v] = slot[v]
      /\ parked' \in [Workspaces -> Nat] /\ \A v \in Workspaces : v # w => parked'[v] = parked[v]
  BY <1>1, <1>2 DEF TypeOK
<1>6. TypeOK'
  <2>1. /\ current' \in Sets \cup {NoSet} /\ unpersisted' \in BOOLEAN
        /\ lastActive' \in Workspaces \cup {None} /\ signing' \in Workspaces \cup {None}
    <3>1. <<w, 1>> \in Sets
      BY DEF Sets
    <3> QED
      BY <1>1, <1>2, <3>1 DEF TypeOK
  <2> QED
    BY <1>1, <1>3, <1>5, <2>1 DEF TypeOK, Writers
<1>7. InFront'
  BY <1>1, <1>2, <1>4 DEF IInv, InFront
<1>8. Switched' /\ Ended' /\ Launched' /\ SignedUp'
  BY <1>1, <1>4 DEF IInv, Switched, Ended, Launched, SignedUp
<1>9. Known'
  BY <1>1, <1>4, <1>5 DEF IInv, Known
<1>10. Registered'
  BY <1>1, <1>2, <1>4 DEF IInv, Registered
<1>11. Flushing'
  BY <1>1, <1>3 DEF IInv, Flushing
<1>12. Writing'
  BY <1>1, <1>3, WritersAssumption DEF IInv, Writing
<1> QED
  BY <1>6, <1>7, <1>8, <1>9, <1>10, <1>11, <1>12 DEF IInv

LEMMA SignInFailsKeeps ==
  ASSUME IInv, NEW w \in Workspaces, SignInFails(w)
  PROVE  IInv'
<1>1. /\ TypeOK /\ signing' = None /\ Landing("sign") /\ Fails(w)
      /\ UNCHANGED <<newest, grace, revoked, reused, slot, marker, registry, lastActive, launch, resumed, bound, session, ending,
                     current, unpersisted, detached, parked, waits, run, flush, steps, revokedAside, crashes>>
  BY DEF IInv, SignInFails, serverVars, storedVars, launchVars, setVars
<1>2. /\ keychain' \in Seq(Writers)
      /\ \A y : In(keychain, y)' => In(keychain, y)
      /\ \A y : In(keychain, y) /\ y # "sign" => In(keychain, y)'
      /\ \A y : Once(keychain, y) => Once(keychain, y)'
  BY <1>1, Landed
<1>3. TypeOK'
  BY <1>1, <1>2, FailTypes DEF TypeOK, Writers
<1>4. InFront' /\ Switched' /\ Ended' /\ Launched' /\ SignedUp'
  BY <1>1 DEF IInv, InFront, Switched, Ended, Launched, SignedUp
<1>5. Known' /\ Registered'
  BY <1>1 DEF IInv, Known, Registered
<1>6. Flushing'
  BY <1>1, <1>2 DEF IInv, Flushing
<1>7. Writing'
  BY <1>1, <1>2, WritersAssumption DEF IInv, Writing
<1> QED
  BY <1>3, <1>4, <1>5, <1>6, <1>7 DEF IInv

LEMMA RefreshKeeps ==
  ASSUME IInv, NEW w \in Workspaces, Refresh(w)
  PROVE  IInv'
<1>1. /\ TypeOK /\ current # NoSet /\ current \in Sets /\ current[1] = w /\ run[w].pc = "idle"
      /\ run' = [run EXCEPT ![w] = [IdleRun EXCEPT !.pc = "send", !.from = current[2], !.tries = 1]]
      /\ UNCHANGED <<newest, grace, revoked, reused, slot, marker, registry, lastActive, launch, resumed, bound, session, ending,
                     current, unpersisted, detached, parked, waits, flush, signing, steps, revokedAside, keychain,
                     failures, crashes, excused>>
  BY DEF IInv, TypeOK, Refresh, serverVars, storedVars, launchVars, setVars
<1>2. current[2] \in Nat
  BY <1>1 DEF Sets
<1>3. newest[w] # 0 /\ signing # w
  BY <1>1, NoneAssumption DEF IInv, InFront
<1>4. /\ run' \in [Workspaces -> Runs] /\ run'[w].pc = "send"
      /\ \A v \in Workspaces : v # w => run'[v] = run[v]
  <2>1. /\ [IdleRun EXCEPT !.pc = "send", !.from = current[2], !.tries = 1] \in Runs
        /\ [IdleRun EXCEPT !.pc = "send", !.from = current[2], !.tries = 1].pc = "send"
    BY <1>2, IdleRunType, RunBegins, Zenon
  <2> QED
    BY <1>1, <2>1 DEF TypeOK
<1>5. TypeOK'
  BY <1>1, <1>4 DEF TypeOK
<1> QED
  BY <1>1, <1>3, <1>4, <1>5, RunKeeps

LEMMA CheckInKeeps ==
  ASSUME IInv, NEW w \in Workspaces, CheckIn(w)
  PROVE  IInv'
<1>1. /\ TypeOK /\ session # w /\ run[w].pc = "idle" /\ slot[w] # 0 /\ slot[w] \in Nat /\ waits' = waits \cup {w}
      /\ run' = [run EXCEPT ![w] = [IdleRun EXCEPT !.pc = "send", !.kind = "checkin", !.from = slot[w], !.tries = 1]]
      /\ UNCHANGED <<newest, grace, revoked, reused, slot, marker, registry, lastActive, launch, resumed, bound, session, ending,
                     current, unpersisted, detached, parked, flush, signing, steps, revokedAside, keychain,
                     failures, crashes, excused>>
  BY DEF IInv, TypeOK, CheckIn, serverVars, storedVars, launchVars
<1>2. newest[w] # 0 /\ signing # w
  BY <1>1, NoneAssumption DEF IInv, Known, SignedUp
<1>3. /\ run' \in [Workspaces -> Runs] /\ run'[w].pc = "send"
      /\ \A v \in Workspaces : v # w => run'[v] = run[v]
  <2>1. /\ [IdleRun EXCEPT !.pc = "send", !.kind = "checkin", !.from = slot[w], !.tries = 1] \in Runs
        /\ [IdleRun EXCEPT !.pc = "send", !.kind = "checkin", !.from = slot[w], !.tries = 1].pc = "send"
    BY <1>1, IdleRunType, RunBegins, Zenon
  <2> QED
    BY <1>1, <2>1 DEF TypeOK
<1>4. TypeOK'
  BY <1>1, <1>3 DEF TypeOK
<1> QED
  BY <1>1, <1>2, <1>3, <1>4, RunKeeps

LEMMA RetryKeeps ==
  ASSUME IInv, NEW w \in Workspaces, Retry(w)
  PROVE  IInv'
<1>1. /\ TypeOK /\ run[w].pc # "idle" /\ run[w].tries < MaxAttempts /\ run[w] \in Runs
      /\ run' = [run EXCEPT ![w] = [run[w] EXCEPT !.pc = "send", !.tries = run[w].tries + 1]]
      /\ UNCHANGED <<newest, grace, revoked, reused, slot, marker, registry, lastActive, launch, resumed, bound, session, ending,
                     current, unpersisted, detached, parked, waits, flush, signing, steps, revokedAside, keychain,
                     failures, crashes, excused>>
  BY DEF IInv, TypeOK, Retry, serverVars, storedVars, launchVars, setVars
<1>2. run[w].tries + 1 \in 0 .. MaxAttempts
  BY <1>1, AttemptsAssumption DEF Runs
<1>3. /\ run' \in [Workspaces -> Runs] /\ run'[w].pc = "send"
      /\ \A v \in Workspaces : v # w => run'[v] = run[v]
  <2>1. /\ [run[w] EXCEPT !.pc = "send", !.tries = run[w].tries + 1] \in Runs
        /\ [run[w] EXCEPT !.pc = "send", !.tries = run[w].tries + 1].pc = "send"
    BY <1>1, <1>2, RunRetries, Zenon
  <2> QED
    BY <1>1, <2>1 DEF TypeOK
<1>4. TypeOK'
  BY <1>1, <1>3 DEF TypeOK
<1> QED
  BY <1>1, <1>3, <1>4, RunIsKnown, RunKeeps

LEMMA GiveUpKeeps ==
  ASSUME IInv, NEW w \in Workspaces, GiveUp(w)
  PROVE  IInv'
<1>1. /\ TypeOK /\ run[w].pc # "idle" /\ Finish(w) /\ excused' \subseteq Workspaces
      /\ UNCHANGED <<newest, grace, revoked, reused, slot, marker, registry, lastActive, launch, resumed, bound, session, ending,
                     current, unpersisted, parked, flush, signing, steps, revokedAside, keychain, failures, crashes>>
  BY DEF IInv, TypeOK, GiveUp, serverVars, storedVars, launchVars
<1>2. /\ run' \in [Workspaces -> Runs] /\ run'[w].pc = "idle"
      /\ \A v \in Workspaces : v # w => run'[v] = run[v]
      /\ waits' \subseteq waits /\ detached' \subseteq detached
  BY <1>1, Finishes
<1>3. TypeOK'
  BY <1>1, <1>2 DEF TypeOK
<1> QED
  BY <1>1, <1>2, <1>3, RunIsKnown, RunKeeps

LEMMA DeadKeeps ==
  ASSUME IInv, NEW w \in Workspaces, Dead(w)
  PROVE  IInv'
<1>1. /\ TypeOK /\ run[w].pc # "idle" /\ Finish(w)
      /\ revokedAside' \subseteq revokedAside \cup {w}
      /\ UNCHANGED <<newest, grace, revoked, reused, slot, marker, registry, lastActive, launch, resumed, bound, session, ending,
                     current, unpersisted, parked, flush, signing, keychain, failures, crashes, excused>>
  BY DEF IInv, Dead, serverVars, storedVars, launchVars
<1>2. /\ run' \in [Workspaces -> Runs] /\ run'[w].pc = "idle"
      /\ \A v \in Workspaces : v # w => run'[v] = run[v]
      /\ waits' \subseteq waits /\ detached' \subseteq detached
  BY <1>1, Finishes
<1>3. newest[w] # 0 /\ signing # w
  BY <1>1, RunIsKnown
<1>4. steps' = steps \/ (current # NoSet /\ current[1] = w /\ Start("end", w))
  BY DEF Dead, SetOf, Start, NoSet
<1>5. /\ steps' \in [Flows -> FlowRecords] /\ steps'["chain"] = steps["chain"]
      /\ \/ steps' = steps
         \/ current # NoSet /\ current[1] = w /\ steps'["end"].pc = "mark" /\ steps'["end"].ws = w
  BY <1>1, <1>4, Types, FlowStarts
<1>6. /\ steps'["end"] # steps["end"] =>
           /\ bound = w /\ signing = None /\ launch = "done" /\ steps["chain"].pc \notin Switching
  BY <1>5, NoneAssumption DEF IInv, InFront, Launched, TypeOK
<1>7. TypeOK'
  BY <1>1, <1>2, <1>5 DEF TypeOK, FlowRecords
<1>8. InFront' /\ Switched'
  BY <1>1, <1>5, <1>6 DEF IInv, InFront, Switched, Switching
<1>9. Ended' /\ Launched'
  BY <1>1, <1>3, <1>5, <1>6, NoneAssumption DEF IInv, Ended, Launched
<1>10. SignedUp'
  BY <1>1, <1>2, <1>3, NoneAssumption DEF IInv, SignedUp, TypeOK
<1>11. Known' /\ Writing'
  BY <1>1, <1>2, <1>3 DEF IInv, Known, Writing
<1>12. Registered'
  BY <1>1, <1>2, <1>5 DEF IInv, Registered, Flows
<1>13. Flushing'
  BY <1>1 DEF IInv, Flushing
<1> QED
  BY <1>7, <1>8, <1>9, <1>10, <1>11, <1>12, <1>13 DEF IInv

LEMMA RotatedKeeps ==
  ASSUME IInv, NEW w \in Workspaces, Rotated(w)
  PROVE  IInv'
<1>1. /\ TypeOK /\ run[w].pc # "idle" /\ run \in [Workspaces -> Runs]
      /\ UNCHANGED <<newest, grace, revoked, reused, slot, marker, registry, lastActive, launch, resumed, bound, session, ending,
                     current, unpersisted, parked, flush, signing, steps, revokedAside, keychain, failures, crashes, excused>>
  BY DEF IInv, TypeOK, Rotated, serverVars, storedVars, launchVars
<1>2. /\ run' \in [Workspaces -> Runs] /\ run'[w].pc # "writing"
      /\ \A v \in Workspaces : v # w => run'[v] = run[v]
      /\ waits' \subseteq waits /\ detached' \subseteq detached
  <2>1. CASE /\ run' = [run EXCEPT ![w] = [run[w] EXCEPT !.pc = "issue", !.left = 2, !.aside = current # SetOf(w)]]
             /\ UNCHANGED <<detached, waits>>
    <3> DEFINE b == current # SetOf(w)
    <3>1. 2 \in 0 .. 2 /\ b \in BOOLEAN /\ run[w] \in Runs
      BY <1>1
    <3>2. run' = [run EXCEPT ![w] = [run[w] EXCEPT !.pc = "issue", !.left = 2, !.aside = b]]
      BY <2>1
    <3> HIDE DEF b
    <3>3. /\ [run[w] EXCEPT !.pc = "issue", !.left = 2, !.aside = b] \in Runs
          /\ [run[w] EXCEPT !.pc = "issue", !.left = 2, !.aside = b].pc = "issue"
      BY <3>1 DEF Runs
    <3> QED
      BY <1>1, <2>1, <3>2, <3>3
  <2>2. CASE Finish(w)
    BY <1>1, <2>2, Finishes
  <2> QED
    BY <2>1, <2>2 DEF Rotated
<1>3. TypeOK'
  BY <1>1, <1>2 DEF TypeOK
<1> QED
  BY <1>1, <1>2, <1>3, RunIsKnown, RunKeeps

LEMMA StoreKeeps ==
  ASSUME IInv, NEW w \in Workspaces, Store(w)
  PROVE  IInv'
<1>1. /\ TypeOK /\ run[w].pc = "issue" /\ run \in [Workspaces -> Runs]
      /\ UNCHANGED <<newest, grace, revoked, reused, slot, marker, registry, lastActive, launch, resumed, bound, session, ending,
                     current, unpersisted, parked, flush, signing, steps, revokedAside, failures, crashes, excused>>
  BY DEF IInv, TypeOK, Store, serverVars, storedVars, launchVars
<1>2. newest[w] # 0 /\ signing # w
  BY <1>1, RunIsKnown
<1>3. CASE /\ MayStore(w) /\ Issue(w) /\ run' = [run EXCEPT ![w].pc = "writing"] /\ UNCHANGED <<detached, waits>>
  <2>1. /\ keychain' \in Seq(Writers)
        /\ \A y : In(keychain, y)' <=> In(keychain, y) \/ y = w
        /\ \A y : Once(keychain, y) /\ y # w => Once(keychain, y)'
    BY <1>1, <1>3, Issued DEF Writers
  <2>2. /\ run' \in [Workspaces -> Runs] /\ run'[w].pc = "writing" /\ run'[w].kind = run[w].kind
        /\ \A v \in Workspaces : v # w => run'[v] = run[v]
    <3>1. 2 \in 0 .. 2 /\ TRUE \in BOOLEAN /\ run[w] \in Runs
      BY <1>1
    <3>2. /\ [run[w] EXCEPT !.pc = "writing"] \in Runs
          /\ [run[w] EXCEPT !.pc = "writing"].pc = "writing"
          /\ [run[w] EXCEPT !.pc = "writing"].kind = run[w].kind
      BY <3>1, RunStores, Zenon
    <3> QED
      BY <1>1, <1>3, <3>2
  <2>3. w \notin registry => run[w].kind = "checkin"
    <3>1. SetOf(w)[1] = w
      BY DEF SetOf
    <3>2. SetOf(w) # NoSet
      BY DEF SetOf, NoSet
    <3> QED
      BY <1>3, <3>1, <3>2 DEF IInv, MayStore, InFront, Registered
  <2>4. TypeOK'
    BY <1>1, <1>3, <2>1, <2>2 DEF TypeOK, Writers
  <2>5. InFront' /\ Switched' /\ Ended' /\ Launched'
    BY <1>1 DEF IInv, InFront, Switched, Ended, Launched
  <2>6. SignedUp'
    BY <1>1, <1>2, <2>1, <2>2 DEF IInv, SignedUp, TypeOK
  <2>7. Known' /\ Writing'
    BY <1>1, <1>2, <2>1, <2>2, <2>3 DEF IInv, Known, Writing
  <2>8. Registered'
    BY <1>1, <1>3 DEF IInv, Registered
  <2>9. Flushing'
    BY <1>1, <2>1, WritersAssumption DEF IInv, Flushing
  <2> QED
    BY <2>4, <2>5, <2>6, <2>7, <2>8, <2>9 DEF IInv
<1>4. CASE Finish(w) /\ UNCHANGED keychain
  <2>1. /\ run' \in [Workspaces -> Runs] /\ run'[w].pc = "idle"
        /\ \A v \in Workspaces : v # w => run'[v] = run[v]
        /\ waits' \subseteq waits /\ detached' \subseteq detached
    BY <1>1, <1>4, Finishes
  <2>2. TypeOK'
    BY <1>1, <1>4, <2>1 DEF TypeOK
  <2> QED
    BY <1>1, <1>2, <1>4, <2>1, <2>2, RunKeeps
<1> QED
  BY <1>3, <1>4 DEF Store

\* What the end of a round of writes does to the sets in memory.
LEMMA Concludes ==
  ASSUME TypeOK, NEW w \in Workspaces, NEW ok \in BOOLEAN, Concluded(w, ok)
  PROVE  /\ run' \in [Workspaces -> Runs] /\ run'[w].pc # "writing"
         /\ \A v \in Workspaces : v # w => run'[v] = run[v]
         /\ waits' \subseteq waits /\ detached' \subseteq detached
         /\ parked' \in [Workspaces -> Nat] /\ \A v \in Workspaces : v # w => parked'[v] = parked[v]
         /\ current' \in Sets \cup {NoSet} /\ unpersisted' \in BOOLEAN
         /\ \/ current' = current
            \/ current # NoSet /\ current[1] = w /\ current'[1] = w
<1>1. /\ run \in [Workspaces -> Runs] /\ run[w] \in Runs /\ run[w].from \in Nat /\ run[w].next \in Nat
      /\ parked \in [Workspaces -> Nat] /\ current \in Sets \cup {NoSet} /\ unpersisted \in BOOLEAN
  BY DEF TypeOK, Runs
<1>2. CASE current = SetOf(w) /\ current' = <<w, run[w].next>> /\ unpersisted' = ~ok /\ Finish(w) /\ UNCHANGED parked
  <2>1. /\ current # NoSet /\ current[1] = w /\ current'[1] = w /\ current' \in Sets
        /\ unpersisted' \in BOOLEAN
    BY <1>1, <1>2 DEF SetOf, NoSet, Sets
  <2> QED
    BY <1>1, <1>2, <2>1, Finishes
<1>3. CASE /\ UNCHANGED <<current, unpersisted, parked, detached, waits>>
           /\ run' = [run EXCEPT ![w].pc = "issue", ![w].left = 2, ![w].aside = TRUE]
  <2>1. 2 \in 0 .. 2 /\ TRUE \in BOOLEAN
    OBVIOUS
  <2>2. /\ [run[w] EXCEPT !.pc = "issue", !.left = 2, !.aside = TRUE] \in Runs
        /\ [run[w] EXCEPT !.pc = "issue", !.left = 2, !.aside = TRUE].pc = "issue"
    BY <1>1, <2>1, RunStores, Zenon
  <2> QED
    BY <1>1, <1>3, <2>2
<1>4. CASE /\ UNCHANGED <<current, unpersisted>> /\ Finish(w)
           /\ \E n \in Nat : parked' = [parked EXCEPT ![w] = n]
  BY <1>1, <1>4, Finishes
<1> QED
  BY <1>1, <1>2, <1>3, <1>4 DEF Concluded

\* A write of a run is over.
LEMMA WriteKeeps ==
  ASSUME IInv, TypeOK', NEW w \in Workspaces, run[w].pc = "writing", Landing(w),
         run'[w].pc # "writing", \A v \in Workspaces : v # w => run'[v] = run[v],
         \A v \in Workspaces : v # w => slot'[v] = slot[v] /\ parked'[v] = parked[v],
         detached' \subseteq detached,
         current' = current \/ (current # NoSet /\ current[1] = w /\ current'[1] = w),
         UNCHANGED <<newest, registry, lastActive, launch, bound, session, flush, signing, steps, revokedAside>>
  PROVE  IInv'
<1>1. newest[w] # 0 /\ signing # w /\ TypeOK
  BY RunIsKnown DEF IInv
<1>2. /\ \A y : In(keychain, y)' => In(keychain, y)
      /\ \A y : In(keychain, y) /\ y # w => In(keychain, y)'
      /\ \A y : Once(keychain, y) => Once(keychain, y)'
  BY <1>1, Landed
<1>3. InFront' /\ Switched' /\ Ended' /\ Launched'
  BY DEF IInv, InFront, Switched, Ended, Launched
<1>4. SignedUp'
  BY <1>1, <1>2, WritersAssumption DEF IInv, SignedUp, TypeOK
<1>5. Known' /\ Writing'
  BY <1>1, <1>2 DEF IInv, Known, Writing
<1>6. Registered'
  BY DEF IInv, Registered
<1>7. Flushing'
  BY <1>2, WritersAssumption DEF IInv, Flushing
<1> QED
  BY <1>3, <1>4, <1>5, <1>6, <1>7 DEF IInv

LEMMA StoredKeeps ==
  ASSUME IInv, NEW w \in Workspaces, Stored(w)
  PROVE  IInv'
<1>1. /\ TypeOK /\ run[w].pc = "writing" /\ Landing(w) /\ slot' = [slot EXCEPT ![w] = run[w].next] /\ Concluded(w, TRUE)
      /\ UNCHANGED <<newest, grace, revoked, reused, marker, registry, lastActive, launch, resumed, bound, session, ending,
                     flush, signing, steps, revokedAside, failures, crashes, excused>>
  BY DEF IInv, Stored, Works, serverVars, launchVars
<1>2. slot' \in [Workspaces -> Nat] /\ \A v \in Workspaces : v # w => slot'[v] = slot[v]
  BY <1>1 DEF TypeOK, Runs
<1>3. /\ run' \in [Workspaces -> Runs] /\ run'[w].pc # "writing"
      /\ \A v \in Workspaces : v # w => run'[v] = run[v]
      /\ waits' \subseteq waits /\ detached' \subseteq detached
      /\ parked' \in [Workspaces -> Nat] /\ \A v \in Workspaces : v # w => parked'[v] = parked[v]
      /\ current' \in Sets \cup {NoSet} /\ unpersisted' \in BOOLEAN
      /\ \/ current' = current
         \/ current # NoSet /\ current[1] = w /\ current'[1] = w
  BY <1>1, Concludes
<1>4. keychain' \in Seq(Writers)
  BY <1>1, Landed
<1>5. TypeOK'
  BY <1>1, <1>2, <1>3, <1>4 DEF TypeOK, Writers
<1> QED
  BY <1>1, <1>2, <1>3, <1>5, WriteKeeps

LEMMA StoreFailsKeeps ==
  ASSUME IInv, NEW w \in Workspaces, StoreFails(w)
  PROVE  IInv'
<1>1. /\ TypeOK /\ run[w].pc = "writing" /\ Landing(w) /\ Fails(w) /\ run \in [Workspaces -> Runs]
      /\ UNCHANGED <<newest, grace, revoked, reused, slot, marker, registry, lastActive, launch, resumed, bound, session, ending,
                     flush, signing, steps, revokedAside, crashes>>
  BY DEF IInv, TypeOK, StoreFails, serverVars, storedVars, launchVars
<1>2. /\ run' \in [Workspaces -> Runs] /\ run'[w].pc # "writing"
      /\ \A v \in Workspaces : v # w => run'[v] = run[v]
      /\ waits' \subseteq waits /\ detached' \subseteq detached
      /\ parked' \in [Workspaces -> Nat] /\ \A v \in Workspaces : v # w => parked'[v] = parked[v]
      /\ current' \in Sets \cup {NoSet} /\ unpersisted' \in BOOLEAN
      /\ \/ current' = current
         \/ current # NoSet /\ current[1] = w /\ current'[1] = w
  <2>1. CASE run' = [run EXCEPT ![w].pc = "issue", ![w].left = 1] /\ UNCHANGED setVars
    <3>1. 1 \in 0 .. 2 /\ TRUE \in BOOLEAN /\ run[w] \in Runs
      BY <1>1
    <3>2. /\ [run[w] EXCEPT !.pc = "issue", !.left = 1] \in Runs
          /\ [run[w] EXCEPT !.pc = "issue", !.left = 1].pc = "issue"
      BY <3>1, RunStores, Zenon
    <3> QED
      BY <1>1, <2>1, <3>2 DEF TypeOK, setVars
  <2>2. CASE Concluded(w, FALSE)
    BY <1>1, <2>2, Concludes
  <2> QED
    BY <2>1, <2>2 DEF StoreFails
<1>3. keychain' \in Seq(Writers)
  BY <1>1, Landed
<1>4. TypeOK'
  BY <1>1, <1>2, <1>3, FailTypes DEF TypeOK, Writers
<1> QED
  BY <1>1, <1>2, <1>4, WriteKeeps

LEMMA FlushKeeps ==
  ASSUME IInv, Flush
  PROVE  IInv'
<1>1. /\ TypeOK /\ current # NoSet /\ current \in Sets /\ flush.set = NoSet
      /\ flush' = [set |-> current, left |-> 2] /\ Issue("flush")
      /\ UNCHANGED <<newest, grace, revoked, reused, slot, marker, registry, lastActive, launch, resumed, bound, session, ending,
                     current, unpersisted, detached, parked, waits, run, signing, steps, revokedAside, failures, crashes, excused>>
  BY DEF IInv, TypeOK, Flush, NoFlush, serverVars, storedVars, launchVars, setVars
<1>2. ~ In(keychain, "flush")
  BY <1>1 DEF IInv, Flushing
<1>3. /\ keychain' \in Seq(Writers)
      /\ \A y : In(keychain, y)' <=> In(keychain, y) \/ y = "flush"
      /\ Once(keychain, "flush")'
  BY <1>1, <1>2, Issued DEF IInv, Flushing, Writers
<1>4. flush'.set = current /\ flush' \in [set : Sets \cup {NoSet}, left : 0 .. 2]
  BY <1>1
<1>5. TypeOK'
  BY <1>1, <1>3, <1>4 DEF TypeOK, Writers
<1>6. InFront' /\ Switched' /\ Ended' /\ Launched' /\ Known' /\ Registered'
  BY <1>1 DEF IInv, InFront, Switched, Ended, Launched, Known, Registered
<1>7. SignedUp' /\ Writing'
  BY <1>1, <1>3 DEF IInv, SignedUp, Writing
<1>8. Flushing'
  BY <1>1, <1>3, <1>4 DEF IInv, Flushing, InFront
<1> QED
  BY <1>5, <1>6, <1>7, <1>8 DEF IInv

LEMMA FlushedKeeps ==
  ASSUME IInv, Flushed
  PROVE  IInv'
<1>1. /\ TypeOK /\ Landing("flush") /\ slot' = [slot EXCEPT ![flush.set[1]] = flush.set[2]]
      /\ unpersisted' = FALSE /\ flush' = NoFlush
      /\ UNCHANGED <<newest, grace, revoked, reused, marker, registry, lastActive, launch, resumed, bound, session, ending, current,
                     detached, parked, waits, run, signing, steps, revokedAside, failures, crashes, excused>>
  BY DEF IInv, Flushed, Works, serverVars, launchVars
<1>2. /\ keychain' \in Seq(Writers) /\ In(keychain, "flush")
      /\ \A y : In(keychain, y) /\ y # "flush" => In(keychain, y)'
      /\ Once(keychain, "flush")' /\ ~ In(keychain, "flush")'
  BY <1>1, Landed DEF IInv, Flushing
<1>3. /\ flush.set \in Sets /\ flush.set[1] \in Workspaces /\ flush.set[2] \in Nat /\ newest[flush.set[1]] # 0
  BY <1>1, <1>2 DEF IInv, Flushing, TypeOK, Sets
<1>4. slot' \in [Workspaces -> Nat] /\ \A v \in Workspaces : v # flush.set[1] => slot'[v] = slot[v]
  BY <1>1, <1>3 DEF TypeOK
<1>5. flush'.set = NoSet /\ flush' \in [set : Sets \cup {NoSet}, left : 0 .. 2]
  BY <1>1 DEF NoFlush
<1>6. TypeOK'
  BY <1>1, <1>2, <1>4, <1>5 DEF TypeOK, Writers
<1>7. InFront' /\ Switched' /\ Ended' /\ Launched' /\ Registered'
  BY <1>1 DEF IInv, InFront, Switched, Ended, Launched, Registered
<1>8. SignedUp' /\ Writing'
  BY <1>1, <1>2, WritersAssumption DEF IInv, SignedUp, Writing
<1>9. Known'
  BY <1>1, <1>3, <1>4 DEF IInv, Known
<1>10. Flushing'
  BY <1>2, <1>5 DEF Flushing
<1> QED
  BY <1>6, <1>7, <1>8, <1>9, <1>10 DEF IInv

LEMMA FlushFailsKeeps ==
  ASSUME IInv, FlushFails
  PROVE  IInv'
<1>1. /\ TypeOK /\ keychain # <<>> /\ Head(keychain) = "flush" /\ Fails(flush.set[1]) /\ detached' \subseteq detached
      /\ unpersisted' \in BOOLEAN
      /\ \/ flush' = [flush EXCEPT !.left = 1] /\ Reissue("flush")
         \/ flush' = NoFlush /\ Landing("flush")
      /\ UNCHANGED <<newest, grace, revoked, reused, slot, marker, registry, lastActive, launch, resumed, bound, session, ending, current,
                     parked, waits, run, signing, steps, revokedAside, crashes>>
  BY DEF IInv, TypeOK, FlushFails, serverVars, storedVars, launchVars
<1>2. /\ keychain' \in Seq(Writers) /\ In(keychain, "flush")
      /\ \A y : In(keychain, y) /\ y # "flush" => In(keychain, y)'
      /\ Once(keychain, "flush")'
      /\ \/ flush' = [flush EXCEPT !.left = 1] /\ In(keychain, "flush")'
         \/ flush' = NoFlush /\ ~ In(keychain, "flush")'
  BY <1>1, Landed, Reissued DEF IInv, Flushing
<1>3. flush.set # NoSet /\ flush.set[1] \in Workspaces
  BY <1>1, <1>2 DEF IInv, Flushing, TypeOK, Sets
<1>4. /\ flush' \in [set : Sets \cup {NoSet}, left : 0 .. 2]
      /\ \/ flush'.set = flush.set /\ In(keychain, "flush")'
         \/ flush'.set = NoSet /\ ~ In(keychain, "flush")'
  <2>1. flush \in [set : Sets \cup {NoSet}, left : 0 .. 2]
    BY <1>1 DEF TypeOK
  <2>2. CASE flush' = [flush EXCEPT !.left = 1] /\ In(keychain, "flush")'
    BY <2>1, <2>2
  <2>3. CASE flush' = NoFlush /\ ~ In(keychain, "flush")'
    BY <2>3 DEF NoFlush
  <2> QED
    BY <1>2, <2>2, <2>3
<1>5. TypeOK'
  BY <1>1, <1>2, <1>3, <1>4, FailTypes DEF TypeOK, Writers
<1>6. InFront' /\ Switched' /\ Ended' /\ Launched' /\ Known' /\ Registered'
  BY <1>1 DEF IInv, InFront, Switched, Ended, Launched, Known, Registered
<1>7. SignedUp' /\ Writing'
  BY <1>1, <1>2, WritersAssumption DEF IInv, SignedUp, Writing
<1>8. Flushing'
  BY <1>1, <1>2, <1>3, <1>4 DEF IInv, Flushing
<1> QED
  BY <1>5, <1>6, <1>7, <1>8 DEF IInv

-----------------------------------------------------------------------------
(* Switching. *)

LEMMA SwitchKeeps ==
  ASSUME IInv, NEW to \in Workspaces \cup {None}, Switch(to)
  PROVE  IInv'
<1> DEFINE inflight == current # NoSet /\ Refreshing(current[1]) /\ SetOf(current[1]) = current
           stores == (current # NoSet /\ unpersisted) /\ ~((current # NoSet /\ unpersisted) /\ current[1] \in marker)
           p == IF stores THEN "flush" ELSE "settle"
<1>1. /\ TypeOK /\ launch = "done" /\ steps["chain"].pc = "idle" /\ steps["end"].pc = "idle" /\ to \in registry \cup {None}
      /\ bound' = None /\ current' = NoSet /\ unpersisted' = FALSE
      /\ UNCHANGED <<newest, grace, revoked, reused, slot, marker, registry, lastActive, launch, resumed, session, ending,
                     parked, run, flush, signing, revokedAside, failures, crashes, excused>>
  BY DEF IInv, Switch, Up, InFlow, serverVars, storedVars, launchVars
<1>2. /\ detached' = detached \/ (current # NoSet /\ detached' = detached \cup {current})
      /\ waits' = waits \/ (current # NoSet /\ waits' = waits \cup {current[1]})
      /\ steps' = [steps EXCEPT !["chain"] =
             [IdleFlow EXCEPT !.pc = p, !.ws = to, !.set = current, !.left = 2, !.inflight = inflight]]
      /\ IF stores THEN Issue("hook") ELSE UNCHANGED keychain
  BY DEF Switch
<1>3. /\ p \in FlowStates /\ p \in {"flush", "settle"} /\ (p = "flush" => current # NoSet)
      /\ current \in Sets \cup {NoSet} /\ inflight \in BOOLEAN
      /\ (current # NoSet => current \in Sets /\ current[1] \in Workspaces)
  BY <1>1 DEF FlowStates, TypeOK, Sets
<1>4. /\ keychain' \in Seq(Writers)
      /\ \A y : In(keychain, y) => In(keychain, y)'
      /\ (In(keychain, "flush")' <=> In(keychain, "flush"))
      /\ (Once(keychain, "flush") => Once(keychain, "flush")')
  <2>1. CASE stores
    BY <1>1, <1>2, <2>1, Issued DEF Writers
  <2>2. CASE ~stores
    BY <1>1, <1>2, <2>2, Types
  <2> QED
    BY <2>1, <2>2
<1> HIDE DEF inflight, p
<1>5. /\ steps' \in [Flows -> FlowRecords] /\ steps'["end"] = steps["end"]
      /\ steps'["chain"].pc = p /\ steps'["chain"].ws = to /\ steps'["chain"].set = current
  <2> DEFINE i == IdleFlow
             r == [i EXCEPT !.pc = p, !.ws = to, !.set = current, !.left = 2, !.inflight = inflight]
  <2>1. i \in FlowRecords /\ steps' = [steps EXCEPT !["chain"] = r] /\ 2 \in 0 .. 2
    BY <1>2, IdleFlowType
  <2> HIDE DEF i
  <2>2. r \in FlowRecords /\ r.pc = p /\ r.ws = to /\ r.set = current
    BY <1>3, <2>1 DEF FlowRecords
  <2> HIDE DEF r
  <2> QED
    BY <1>1, <2>1, <2>2, Types
<1>6. TypeOK'
  <2>1. detached' \subseteq Sets /\ waits' \subseteq Workspaces
    BY <1>1, <1>2, <1>3 DEF TypeOK
  <2> QED
    BY <1>1, <1>4, <1>5, <2>1 DEF TypeOK, Writers, FlowRecords
<1>7. InFront' /\ Ended' /\ Launched'
  BY <1>1, <1>5 DEF InFront, Ended, Launched
<1>8. Switched'
  BY <1>1, <1>3, <1>5 DEF IInv, Switched, Switching, InFront
<1>9. SignedUp'
  BY <1>1, <1>4 DEF IInv, SignedUp
<1>10. Known' /\ Writing'
  BY <1>1, <1>4 DEF IInv, Known, Writing
<1>11. Registered'
  <2>1. \A s \in detached' : s[1] \in registry
    BY <1>2 DEF IInv, Registered, InFront
  <2>2. \A f \in Flows : steps'[f].pc # "delete"
    BY <1>1, <1>3, <1>5 DEF Flows
  <2> QED
    BY <1>1, <2>1, <2>2 DEF IInv, Registered
<1>12. Flushing'
  BY <1>1, <1>4 DEF IInv, Flushing
<1> QED
  BY <1>6, <1>7, <1>8, <1>9, <1>10, <1>11, <1>12 DEF IInv

\* The set put aside by a switch has been stored, parked or dropped.
LEMMA HookKeepsChain ==
  ASSUME IInv, TypeOK', steps["chain"].pc = "flush", NEW w \in Workspaces, w = steps["chain"].set[1],
         steps'["end"] = steps["end"], steps'["chain"].pc \in {"flush", "settle"},
         steps'["chain"].ws = steps["chain"].ws, steps'["chain"].set = steps["chain"].set,
         \A v \in Workspaces : v # w => slot'[v] = slot[v] /\ parked'[v] = parked[v],
         detached' \subseteq detached,
         \A y : In(keychain, y) /\ y # "hook" => In(keychain, y)',
         In(keychain, "flush")' => In(keychain, "flush"),
         Once(keychain, "flush")',
         UNCHANGED <<newest, registry, lastActive, launch, bound, session, current, run, flush, signing, revokedAside>>
  PROVE  IInv'
<1>1. InFront' /\ Switched'
  BY DEF IInv, InFront, Switched, Switching
<1>2. Ended' /\ Launched'
  BY DEF IInv, Ended, Launched
<1>3. SignedUp' /\ Writing'
  BY WritersAssumption DEF IInv, SignedUp, Writing
<1>4. Known'
  BY DEF IInv, Known, Switched
<1>5. Registered'
  BY DEF IInv, Registered, Switched, Switching, Flows
<1>6. Flushing'
  BY DEF IInv, Flushing
<1> QED
  BY <1>1, <1>2, <1>3, <1>4, <1>5, <1>6 DEF IInv

\* The set in the hands of a switch.
LEMMA HookSet ==
  ASSUME IInv, steps["chain"].pc = "flush"
  PROVE  /\ steps["chain"].set \in Sets
         /\ steps["chain"].set[1] \in Workspaces /\ steps["chain"].set[2] \in Nat
<1>1. steps["chain"].set \in Sets
  BY Types DEF IInv, Switched, FlowRecords
<1> QED
  BY <1>1 DEF Sets

LEMMA HookStoresKeeps ==
  ASSUME IInv, HookStores
  PROVE  IInv'
<1> DEFINE set == steps["chain"].set
<1>1. /\ TypeOK /\ steps["chain"].pc = "flush" /\ Landing("hook") /\ GoTo("chain", "settle")
      /\ slot' = [slot EXCEPT ![set[1]] = set[2]]
      /\ \E n \in Nat : parked' = [parked EXCEPT ![set[1]] = n]
      /\ detached' \subseteq detached
      /\ UNCHANGED <<newest, grace, revoked, reused, marker, registry, lastActive, launch, resumed, bound, session, ending, current,
                     unpersisted, waits, run, flush, signing, revokedAside, failures, crashes, excused>>
  <2>1. IInv => set[1] \in Workspaces /\ parked \in [Workspaces -> Nat] /\ steps["chain"].pc = "flush"
    BY HookSet DEF HookStores, InFlow, IInv, TypeOK
  <2>2. (IF parked[set[1]] = set[2] THEN 0 ELSE parked[set[1]]) \in Nat
    BY <2>1
  <2> QED
    BY <2>1, <2>2 DEF IInv, HookStores, Works, PutAside, GoTo, serverVars, launchVars
<1>2. set \in Sets /\ set[1] \in Workspaces /\ set[2] \in Nat
  BY <1>1, HookSet
<1>3. /\ slot' \in [Workspaces -> Nat] /\ parked' \in [Workspaces -> Nat]
      /\ \A v \in Workspaces : v # set[1] => slot'[v] = slot[v] /\ parked'[v] = parked[v]
  BY <1>1, <1>2 DEF TypeOK
<1>4. /\ keychain' \in Seq(Writers)
      /\ \A y : In(keychain, y)' => In(keychain, y)
      /\ \A y : In(keychain, y) /\ y # "hook" => In(keychain, y)'
      /\ Once(keychain, "flush")'
  BY <1>1, Landed DEF IInv, Flushing
<1>5. /\ steps' \in [Flows -> FlowRecords] /\ steps'["end"] = steps["end"]
      /\ steps'["chain"].pc = "settle" /\ steps'["chain"].ws = steps["chain"].ws /\ steps'["chain"].set = steps["chain"].set
  BY <1>1, FlowGoes, Types DEF FlowStates
<1>6. TypeOK'
  BY <1>1, <1>3, <1>4, <1>5 DEF TypeOK, Writers, FlowRecords
<1> QED
  BY <1>1, <1>2, <1>3, <1>4, <1>5, <1>6, HookKeepsChain

LEMMA HookFailsKeeps ==
  ASSUME IInv, HookFails
  PROVE  IInv'
<1> DEFINE set == steps["chain"].set
<1>1. /\ TypeOK /\ steps["chain"].pc = "flush" /\ Fails(set[1])
      /\ detached' \subseteq detached
      /\ \/ Reissue("hook") /\ steps' = [steps EXCEPT !["chain"].left = 1]
         \/ Landing("hook") /\ GoTo("chain", "settle")
      /\ parked' = parked \/ parked' = [parked EXCEPT ![set[1]] = set[2]]
      /\ UNCHANGED <<newest, grace, revoked, reused, slot, marker, registry, lastActive, launch, resumed, bound, session, ending, current,
                     unpersisted, waits, run, flush, signing, revokedAside, crashes>>
  BY DEF IInv, HookFails, InFlow, PutAside, GoTo, serverVars, storedVars, launchVars
<1>2. set \in Sets /\ set[1] \in Workspaces /\ set[2] \in Nat
  BY <1>1, HookSet
<1>3. /\ parked' \in [Workspaces -> Nat]
      /\ \A v \in Workspaces : v # set[1] => parked'[v] = parked[v]
  BY <1>1, <1>2 DEF TypeOK
<1>4. /\ keychain' \in Seq(Writers)
      /\ \A y : In(keychain, y)' => In(keychain, y)
      /\ \A y : In(keychain, y) /\ y # "hook" => In(keychain, y)'
      /\ Once(keychain, "flush")'
  BY <1>1, Landed, Reissued DEF IInv, Flushing
<1>5. /\ steps' \in [Flows -> FlowRecords] /\ steps'["end"] = steps["end"]
      /\ steps'["chain"].pc \in {"flush", "settle"}
      /\ steps'["chain"].ws = steps["chain"].ws /\ steps'["chain"].set = steps["chain"].set
  <2>1. CASE steps' = [steps EXCEPT !["chain"].left = 1]
    <3>1. steps \in [Flows -> FlowRecords]
      BY <1>1, Types
    <3>2. [steps["chain"] EXCEPT !.left = 1] \in FlowRecords
      BY <3>1, Types DEF FlowRecords
    <3> QED
      BY <1>1, <2>1, <3>1, <3>2, Types DEF FlowRecords
  <2>2. CASE GoTo("chain", "settle")
    BY <1>1, <2>2, FlowGoes, Types DEF FlowStates
  <2> QED
    BY <1>1, <2>1, <2>2
<1>6. TypeOK'
  BY <1>1, <1>2, <1>3, <1>4, <1>5, FailTypes DEF TypeOK, Writers, FlowRecords
<1> QED
  BY <1>1, <1>2, <1>3, <1>4, <1>5, <1>6, HookKeepsChain

LEMMA SettleKeeps ==
  ASSUME IInv, Settle
  PROVE  IInv'
<1> DEFINE to == steps["chain"].ws
           p == IF to = None THEN "idle" ELSE "open"
<1>1. /\ TypeOK /\ steps["chain"].pc = "settle" /\ keychain = <<>> /\ session' = None
      /\ steps' = [steps EXCEPT !["chain"] = [IdleFlow EXCEPT !.pc = p, !.ws = to]]
      /\ UNCHANGED <<newest, grace, revoked, reused, slot, marker, registry, lastActive, launch, resumed, bound, ending,
                     current, unpersisted, detached, parked, waits, run, flush, signing, revokedAside, keychain,
                     failures, crashes, excused>>
  BY DEF IInv, Settle, InFlow, serverVars, storedVars, launchVars, setVars
<1>2. /\ bound = None /\ steps["end"].pc = "idle" /\ launch = "done" /\ current = NoSet /\ signing = None
      /\ to \in registry \cup {None}
  BY <1>1, EmptyQueue DEF IInv, Switched, InFront, SignedUp, Switching
<1>3. /\ steps' \in [Flows -> FlowRecords] /\ steps'["end"] = steps["end"]
      /\ steps'["chain"].pc = p /\ steps'["chain"].ws = to
  <2>1. p \in FlowStates /\ to \in Workspaces \cup {None}
    BY <1>1, Types DEF FlowStates, FlowRecords
  <2> HIDE DEF p, to
  <2>2. /\ [IdleFlow EXCEPT !.pc = p, !.ws = to] \in FlowRecords
        /\ [IdleFlow EXCEPT !.pc = p, !.ws = to].pc = p
        /\ [IdleFlow EXCEPT !.pc = p, !.ws = to].ws = to
    BY <2>1, FlowBegins, Zenon
  <2> QED
    BY <1>1, <2>2, Types
<1>4. TypeOK'
  BY <1>1, <1>2, <1>3 DEF TypeOK, FlowRecords
<1>5. InFront' /\ Switched' /\ Ended' /\ Launched' /\ SignedUp'
  BY <1>1, <1>2, <1>3 DEF InFront, Switched, Switching, Ended, Launched, SignedUp
<1>6. Known' /\ Flushing' /\ Writing'
  BY <1>1 DEF IInv, Known, Flushing, Writing
<1>7. Registered'
  BY <1>1, <1>2, <1>3 DEF IInv, Registered, Flows
<1> QED
  BY <1>4, <1>5, <1>6, <1>7 DEF IInv

LEMMA OpenKeeps ==
  ASSUME IInv, Open
  PROVE  IInv'
<1> DEFINE to == steps["chain"].ws
<1>1. /\ TypeOK /\ steps["chain"].pc = "open"
      /\ \/ GoTo("chain", "mark") /\ UNCHANGED <<bound, session>>
         \/ GoTo("chain", "restore") /\ bound' = to /\ session' = to
      /\ UNCHANGED <<newest, grace, revoked, reused, slot, marker, registry, lastActive, launch, resumed, ending,
                     current, unpersisted, detached, parked, waits, run, flush, signing, revokedAside, keychain,
                     failures, crashes, excused>>
  BY DEF IInv, Open, InFlow, serverVars, storedVars, launchVars, setVars
<1>2. /\ bound = None /\ steps["end"].pc = "idle" /\ launch = "done" /\ current = NoSet /\ signing = None
      /\ to \in registry /\ to # None
  BY <1>1 DEF IInv, Switched, InFront, Switching
<1>3. /\ steps' \in [Flows -> FlowRecords] /\ steps'["end"] = steps["end"] /\ steps'["chain"].ws = to
      /\ \/ steps'["chain"].pc = "mark" /\ UNCHANGED <<bound, session>>
         \/ steps'["chain"].pc = "restore" /\ bound' = to /\ session' = to
  BY <1>1, FlowGoes, Types DEF FlowStates
<1>4. TypeOK'
  BY <1>1, <1>2, <1>3 DEF TypeOK, FlowRecords
<1>5. InFront' /\ Ended' /\ Launched' /\ SignedUp'
  BY <1>1, <1>2, <1>3 DEF InFront, Ended, Launched, SignedUp
<1>6. Switched'
  BY <1>1, <1>2, <1>3 DEF Switched, Switching
<1>7. Known' /\ Flushing' /\ Writing'
  BY <1>1 DEF IInv, Known, Flushing, Writing
<1>8. Registered'
  BY <1>1, <1>2, <1>3 DEF IInv, Registered, Flows
<1> QED
  BY <1>4, <1>5, <1>6, <1>7, <1>8 DEF IInv

LEMMA RestoreKeeps ==
  ASSUME IInv, Restore
  PROVE  IInv'
<1> DEFINE to == steps["chain"].ws
<1>1. /\ TypeOK /\ steps["chain"].pc = "restore"
      /\ current' = IF parked[to] # 0 THEN <<to, parked[to]>> ELSE IF slot[to] # 0 THEN <<to, slot[to]>> ELSE NoSet
      /\ unpersisted' \in BOOLEAN /\ parked' = [parked EXCEPT ![to] = 0]
      /\ lastActive' = to \/ lastActive' = lastActive
      /\ steps' = [steps EXCEPT !["chain"] = IdleFlow]
      /\ UNCHANGED <<newest, grace, revoked, reused, slot, marker, registry, launch, resumed, bound, session, ending,
                     detached, waits, run, flush, signing, revokedAside, keychain, failures, crashes, excused>>
  BY DEF IInv, Restore, InFlow, serverVars, launchVars
<1>2. /\ bound = to /\ steps["end"].pc = "idle" /\ launch = "done" /\ signing = None
      /\ to \in registry /\ to \in Workspaces
  BY <1>1 DEF IInv, Switched, Switching, TypeOK
<1>3. /\ steps' \in [Flows -> FlowRecords] /\ steps'["end"] = steps["end"] /\ steps'["chain"].pc = "idle"
  BY <1>1, FlowIdles, Types
<1>4. /\ parked' \in [Workspaces -> Nat] /\ parked'[to] = 0 /\ \A v \in Workspaces : v # to => parked'[v] = parked[v]
  BY <1>1, <1>2 DEF TypeOK
<1>5. /\ current' \in Sets \cup {NoSet}
      /\ current' # NoSet => current'[1] = to /\ newest[to] # 0
  <2>1. parked[to] \in Nat /\ slot[to] \in Nat /\ (parked[to] # 0 \/ slot[to] # 0 => newest[to] # 0)
    BY <1>1, <1>2 DEF TypeOK, IInv, Known
  <2>2. <<to, parked[to]>> \in Sets /\ <<to, slot[to]>> \in Sets
    BY <1>2, <2>1 DEF Sets
  <2> QED
    BY <1>1, <2>1, <2>2
<1>6. TypeOK'
  BY <1>1, <1>2, <1>3, <1>4, <1>5 DEF TypeOK, FlowRecords
<1>7. InFront' /\ Switched' /\ Ended' /\ Launched' /\ SignedUp'
  BY <1>1, <1>2, <1>3, <1>5 DEF InFront, Switched, Switching, Ended, Launched, SignedUp
<1>8. Known'
  BY <1>1, <1>4 DEF IInv, Known
<1>9. Flushing' /\ Writing'
  BY <1>1 DEF IInv, Flushing, Writing
<1>10. Registered'
  BY <1>1, <1>2, <1>3 DEF IInv, Registered, Flows
<1> QED
  BY <1>6, <1>7, <1>8, <1>9, <1>10 DEF IInv

-----------------------------------------------------------------------------
(* Wipes, crash and launch. *)

\* A wipe goes from one of its steps to the next, or ends; what it may have
\* changed on the way is not in the invariant.
LEMMA WipeGoesKeeps ==
  ASSUME IInv, TypeOK', NEW f \in Flows, \A g \in Flows : g # f => steps'[g] = steps[g],
         steps[f].pc \notin Switching \cup {"idle"}, steps'[f].pc \notin Switching \cup {"delete"},
         steps'[f].pc = "idle" \/ steps'[f].ws = steps[f].ws,
         f = "end" /\ steps'[f].pc \in {"stored", "reset", "clear"} => current = NoSet,
         f = "end" /\ steps'[f].pc \in {"idle", "clear"} => bound = None,
         UNCHANGED <<newest, slot, parked, registry, lastActive, launch, bound, session, current, detached, run, flush,
                     signing, revokedAside, keychain>>
  PROVE  IInv'
<1>1. InFront'
  BY Types DEF IInv, InFront, Flows, Switching
<1>2. Switched'
  BY Types DEF IInv, Switched, Flows, Switching
<1>3. Ended' /\ Launched'
  BY Types DEF IInv, Ended, Launched, Flows
<1>4. SignedUp' /\ Known' /\ Flushing' /\ Writing'
  BY DEF IInv, SignedUp, Known, Flushing, Writing
<1>5. Registered'
  BY Types DEF IInv, Registered, Flows
<1> QED
  BY <1>1, <1>2, <1>3, <1>4, <1>5 DEF IInv

\* A wipe begins: of the workspace in front by endSession, of any other on the
\* chain.
LEMMA WipeBeginsKeeps ==
  ASSUME IInv, TypeOK', NEW f \in Flows, NEW w \in Workspaces, Start(f, w), steps[f].pc = "idle",
         f = "chain" => bound # w,
         f = "end" => /\ bound = w /\ newest[w] # 0 /\ signing = None /\ launch = "done"
                      /\ steps["chain"].pc \notin Switching,
         revokedAside' \subseteq revokedAside,
         UNCHANGED <<newest, slot, parked, registry, lastActive, launch, bound, session, current, detached, run, flush,
                     signing, keychain>>
  PROVE  IInv'
<1>1. /\ steps'[f].pc = "mark" /\ steps'[f].ws = w /\ w # None
      /\ \A g \in Flows : g # f => steps'[g] = steps[g]
  BY FlowStarts, NoneAssumption DEF IInv
<1>2. InFront'
  BY <1>1, Types DEF IInv, InFront, Flows, Switching
<1>3. Switched'
  BY <1>1, Types DEF IInv, Switched, Flows, Switching
<1>4. Ended' /\ Launched'
  BY <1>1, Types DEF IInv, Ended, Launched, Flows
<1>5. SignedUp' /\ Known' /\ Flushing' /\ Writing'
  BY DEF IInv, SignedUp, Known, Flushing, Writing
<1>6. Registered'
  BY <1>1, Types DEF IInv, Registered, Flows
<1> QED
  BY <1>2, <1>3, <1>4, <1>5, <1>6 DEF IInv

LEMMA EndSessionKeeps ==
  ASSUME IInv, EndSession
  PROVE  IInv'
<1>1. /\ TypeOK /\ launch = "done" /\ steps["end"].pc = "idle" /\ bound # None /\ bound \in Workspaces /\ current # NoSet
      /\ Start("end", bound)
      /\ UNCHANGED <<newest, grace, revoked, reused, slot, marker, registry, lastActive, launch, resumed, bound, session, ending,
                     current, unpersisted, detached, parked, waits, run, flush, signing, revokedAside, keychain,
                     failures, crashes, excused>>
  BY DEF IInv, TypeOK, EndSession, Up, InFlow, serverVars, storedVars, launchVars, setVars
<1>2. newest[bound] # 0 /\ signing = None /\ steps["chain"].pc \notin Switching
  BY <1>1 DEF IInv, InFront
<1>3. TypeOK'
  <2>1. steps' \in [Flows -> FlowRecords]
    BY <1>1, FlowStarts, Types
  <2> QED
    BY <1>1, <2>1 DEF TypeOK, FlowRecords
<1> QED
  BY <1>1, <1>2, <1>3, WipeBeginsKeeps, Types

LEMMA RemoveKeeps ==
  ASSUME IInv, NEW w \in Workspaces, Remove(w)
  PROVE  IInv'
<1>1. /\ TypeOK /\ steps["chain"].pc = "idle" /\ bound # w /\ Start("chain", w)
      /\ UNCHANGED <<newest, grace, revoked, reused, slot, marker, registry, lastActive, launch, resumed, bound, session, ending,
                     current, unpersisted, detached, parked, waits, run, flush, signing, revokedAside, keychain,
                     failures, crashes, excused>>
  BY DEF IInv, Remove, InFlow, serverVars, storedVars, launchVars, setVars
<1>2. TypeOK'
  <2>1. steps' \in [Flows -> FlowRecords]
    BY <1>1, FlowStarts, Types
  <2> QED
    BY <1>1, <2>1 DEF TypeOK, FlowRecords
<1> QED
  BY <1>1, <1>2, WipeBeginsKeeps, Types

LEMMA WipeRevokedKeeps ==
  ASSUME IInv, NEW w \in Workspaces, WipeRevoked(w)
  PROVE  IInv'
<1>1. /\ TypeOK /\ launch = "done" /\ steps["chain"].pc = "idle" /\ w \in revokedAside
      /\ revokedAside' = revokedAside \ {w}
      /\ UNCHANGED <<newest, grace, revoked, reused, slot, marker, registry, lastActive, launch, resumed, bound, session, ending,
                     current, unpersisted, detached, parked, waits, run, flush, signing, keychain, failures, crashes, excused>>
  BY DEF IInv, WipeRevoked, Up, InFlow, serverVars, storedVars, launchVars, setVars
<1>2. newest[w] # 0 /\ (bound = w => signing = None)
  BY <1>1, NoneAssumption DEF IInv, Known, SignedUp, TypeOK
<1>3. CASE bound # w /\ Start("chain", w)
  <2>1. steps' \in [Flows -> FlowRecords]
    BY <1>1, <1>3, FlowStarts, Types
  <2>2. TypeOK'
    BY <1>1, <2>1 DEF TypeOK, FlowRecords
  <2> QED
    BY <1>1, <1>3, <2>2, WipeBeginsKeeps, Types
<1>4. CASE bound = w /\ steps["end"].pc = "idle" /\ Start("end", w)
  <2>1. steps' \in [Flows -> FlowRecords]
    BY <1>1, <1>4, FlowStarts, Types
  <2>2. TypeOK'
    BY <1>1, <2>1 DEF TypeOK, FlowRecords
  <2> QED
    BY <1>1, <1>2, <1>4, <2>2, WipeBeginsKeeps, Types DEF Switching
<1>5. CASE UNCHANGED steps
  <2>1. TypeOK'
    BY <1>1, <1>5 DEF TypeOK
  <2>2. InFront' /\ Switched' /\ Ended' /\ Launched'
    BY <1>1, <1>5 DEF IInv, InFront, Switched, Ended, Launched
  <2>3. SignedUp' /\ Known' /\ Registered' /\ Flushing' /\ Writing'
    BY <1>1, <1>5 DEF IInv, SignedUp, Known, Registered, Flushing, Writing
  <2> QED
    BY <2>1, <2>2, <2>3 DEF IInv
<1> QED
  BY <1>1, <1>3, <1>4, <1>5 DEF WipeRevoked, InFlow

LEMMA ResumeKeeps ==
  ASSUME IInv, NEW w \in Workspaces, Resume(w)
  PROVE  IInv'
<1>1. /\ TypeOK /\ launch = "resume" /\ steps["chain"].pc = "idle" /\ Start("chain", w) /\ resumed' = resumed \cup {w}
      /\ UNCHANGED <<newest, grace, revoked, reused, slot, marker, registry, lastActive, launch, bound, session, ending,
                     current, unpersisted, detached, parked, waits, run, flush, signing, revokedAside, keychain,
                     failures, crashes, excused>>
  BY DEF IInv, Resume, InFlow, serverVars, storedVars, setVars
<1>2. bound # w
  BY <1>1, NoneAssumption DEF IInv, Launched
<1>3. TypeOK'
  <2>1. steps' \in [Flows -> FlowRecords]
    BY <1>1, FlowStarts, Types
  <2> QED
    BY <1>1, <2>1 DEF TypeOK, FlowRecords
<1> QED
  BY <1>1, <1>2, <1>3, WipeBeginsKeeps, Types

LEMMA MarkKeeps ==
  ASSUME IInv, NEW f \in Flows, Mark(f)
  PROVE  IInv'
<1>1. /\ TypeOK /\ steps[f].pc = "mark" /\ GoTo(f, "revoke") /\ ending' \in BOOLEAN
      /\ UNCHANGED <<newest, grace, revoked, reused, slot, registry, lastActive, launch, resumed, bound, session,
                     current, unpersisted, detached, parked, waits, run, flush, signing, revokedAside, keychain, crashes>>
  BY DEF IInv, TypeOK, Mark, InFlow, serverVars, launchVars, setVars
<1>2. /\ steps' \in [Flows -> FlowRecords] /\ steps'[f].pc = "revoke" /\ steps'[f].ws = steps[f].ws
      /\ \A g \in Flows : g # f => steps'[g] = steps[g]
  BY <1>1, FlowGoes DEF FlowStates
<1>3. steps[f].ws \in Workspaces
  BY <1>1, Types DEF IInv, Switched, Ended, Switching, Flows, FlowRecords
<1>4. /\ marker' \subseteq Workspaces /\ failures' \in 0 .. MaxFailures /\ excused' \subseteq Workspaces
  <2>1. CASE marker' = marker \cup {steps[f].ws} /\ Works
    BY <1>1, <1>3, <2>1 DEF TypeOK, Works
  <2>2. CASE Fails(steps[f].ws) /\ UNCHANGED marker
    BY <1>1, <1>3, <2>2, FailTypes DEF TypeOK
  <2> QED
    BY <2>1, <2>2 DEF Mark
<1>5. TypeOK'
  BY <1>1, <1>2, <1>4 DEF TypeOK, FlowRecords
<1> QED
  BY <1>1, <1>2, <1>5, WipeGoesKeeps DEF Switching

LEMMA RevokeFirstKeeps ==
  ASSUME IInv, NEW f \in Flows, RevokeFirst(f)
  PROVE  IInv'
<1>1. /\ TypeOK /\ steps[f].pc = "revoke" /\ GoTo(f, IF f = "end" THEN "hook" ELSE "stored")
      /\ revoked' = revoked \/ revoked' = revoked \cup {steps[f].ws}
      /\ UNCHANGED <<newest, grace, reused, slot, marker, registry, lastActive, launch, resumed, bound, session, ending,
                     current, unpersisted, detached, parked, waits, run, flush, signing, revokedAside, keychain,
                     failures, crashes, excused>>
  BY DEF IInv, RevokeFirst, InFlow, storedVars, launchVars, setVars
<1>2. /\ steps' \in [Flows -> FlowRecords] /\ steps'[f].ws = steps[f].ws
      /\ steps'[f].pc = IF f = "end" THEN "hook" ELSE "stored"
      /\ \A g \in Flows : g # f => steps'[g] = steps[g]
  <2>1. (IF f = "end" THEN "hook" ELSE "stored") \in FlowStates
    BY DEF FlowStates
  <2> QED
    BY <1>1, <2>1, FlowGoes
<1>3. steps[f].ws \in Workspaces
  BY <1>1, Types DEF IInv, Switched, Ended, Switching, Flows, FlowRecords
<1>4. TypeOK'
  <2>1. revoked' \subseteq Workspaces /\ reused' \subseteq revoked'
    BY <1>1, <1>3 DEF TypeOK
  <2> QED
    BY <1>1, <1>2, <2>1 DEF TypeOK, FlowRecords
<1> QED
  BY <1>1, <1>2, <1>4, WipeGoesKeeps DEF Switching

LEMMA HookKeeps ==
  ASSUME IInv, Hook
  PROVE  IInv'
<1>1. /\ TypeOK /\ steps["end"].pc = "hook" /\ GoTo("end", "stored") /\ current' = NoSet /\ unpersisted' = FALSE
      /\ UNCHANGED <<newest, grace, revoked, reused, slot, marker, registry, lastActive, launch, resumed, bound, session, ending,
                     detached, parked, waits, run, flush, signing, revokedAside, keychain, failures, crashes, excused>>
  BY DEF IInv, Hook, InFlow, serverVars, storedVars, launchVars
<1>2. /\ steps' \in [Flows -> FlowRecords] /\ steps'["end"].pc = "stored" /\ steps'["end"].ws = steps["end"].ws
      /\ steps'["chain"] = steps["chain"]
  BY <1>1, FlowGoes, Types DEF FlowStates
<1>3. TypeOK'
  BY <1>1, <1>2 DEF TypeOK, FlowRecords
<1>4. InFront' /\ Switched'
  BY <1>1, <1>2 DEF IInv, InFront, Switched
<1>5. Ended' /\ Launched'
  BY <1>1, <1>2 DEF IInv, Ended, Launched
<1>6. SignedUp' /\ Known' /\ Flushing' /\ Writing'
  BY <1>1 DEF IInv, SignedUp, Known, Flushing, Writing
<1>7. Registered'
  BY <1>1, <1>2 DEF IInv, Registered, Flows
<1> QED
  BY <1>3, <1>4, <1>5, <1>6, <1>7 DEF IInv

LEMMA StoredHookKeeps ==
  ASSUME IInv, NEW f \in Flows, StoredHook(f)
  PROVE  IInv'
<1> DEFINE w == steps[f].ws
<1>1. /\ TypeOK /\ steps[f].pc = "stored" /\ GoTo(f, "delete")
      /\ parked' = [parked EXCEPT ![w] = 0] /\ waits' = waits \ {w} /\ detached' = {s \in detached : s[1] # w}
      /\ UNCHANGED <<newest, grace, revoked, reused, slot, marker, registry, lastActive, launch, resumed, bound, session, ending,
                     current, unpersisted, run, flush, signing, revokedAside, keychain, failures, crashes, excused>>
  BY DEF IInv, StoredHook, InFlow, serverVars, storedVars, launchVars
<1>2. /\ steps' \in [Flows -> FlowRecords] /\ steps'[f].pc = "delete" /\ steps'[f].ws = w
      /\ \A g \in Flows : g # f => steps'[g] = steps[g]
  BY <1>1, FlowGoes DEF FlowStates
<1>3. /\ parked' \in [Workspaces -> Nat] /\ \A v \in Workspaces : parked'[v] # 0 => parked[v] # 0
  BY <1>1 DEF TypeOK
<1>4. TypeOK'
  BY <1>1, <1>2, <1>3 DEF TypeOK, FlowRecords
<1>5. InFront'
  BY <1>1, <1>2, Types DEF IInv, InFront, Flows, Switching
<1>6. Switched'
  BY <1>1, <1>2, Types DEF IInv, Switched, Flows, Switching
<1>7. Ended' /\ Launched'
  BY <1>1, <1>2, Types DEF IInv, Ended, Launched, Flows
<1>8. SignedUp' /\ Known' /\ Flushing' /\ Writing'
  BY <1>1, <1>3 DEF IInv, SignedUp, Known, Flushing, Writing
<1>9. Registered'
  <2>1. ASSUME NEW g \in Flows, steps'[g].pc = "delete"
        PROVE  \A s \in detached' : s[1] # steps'[g].ws
    BY <1>1, <1>2, <2>1 DEF IInv, Registered
  <2> QED
    BY <1>1, <1>2, <2>1 DEF IInv, Registered, Flows
<1> QED
  BY <1>4, <1>5, <1>6, <1>7, <1>8, <1>9 DEF IInv

LEMMA DeleteKeeps ==
  ASSUME IInv, NEW f \in Flows, Delete(f)
  PROVE  IInv'
<1> DEFINE w == steps[f].ws
<1>1. /\ TypeOK /\ steps[f].pc = "delete" /\ keychain = <<>>
      /\ UNCHANGED <<newest, grace, revoked, reused, marker, launch, resumed, bound, session, ending,
                     current, unpersisted, detached, parked, waits, run, flush, signing, revokedAside, keychain, crashes>>
  BY DEF IInv, Delete, InFlow, serverVars, launchVars, setVars
<1>2. w \in Workspaces /\ (f = "chain" => bound # w)
  BY <1>1, Types DEF IInv, Switched, Ended, Switching, Flows, FlowRecords
<1>3. /\ slot' = slot \/ slot' = [slot EXCEPT ![w] = 0]
      /\ \/ registry' = registry \ {w} /\ lastActive' = (IF lastActive = w THEN None ELSE lastActive)
         \/ UNCHANGED <<registry, lastActive>>
  BY DEF Delete
<1>4. /\ steps' \in [Flows -> FlowRecords] /\ steps'[f].pc = "reset" /\ steps'[f].ws = w
      /\ \A g \in Flows : g # f => steps'[g] = steps[g]
  <2>1. steps \in [Flows -> FlowRecords] /\ "reset" \in FlowStates
    BY <1>1, Types DEF FlowStates
  <2>2. CASE GoTo(f, "reset")
    BY <1>1, <2>1, <2>2, FlowGoes
  <2>3. CASE steps' = [steps EXCEPT ![f].pc = "reset", ![f].clean = FALSE]
    <3> DEFINE r == steps[f]
    <3>1. r \in FlowRecords /\ r.ws = w /\ steps' = [steps EXCEPT ![f] = [r EXCEPT !.pc = "reset", !.clean = FALSE]]
      BY <2>1, <2>3
    <3> HIDE DEF r
    <3>2. /\ [r EXCEPT !.pc = "reset", !.clean = FALSE] \in FlowRecords
          /\ [r EXCEPT !.pc = "reset", !.clean = FALSE].pc = "reset"
          /\ [r EXCEPT !.pc = "reset", !.clean = FALSE].ws = r.ws
      BY <2>1, <3>1 DEF FlowRecords
    <3> QED
      BY <2>1, <3>1, <3>2
  <2> QED
    BY <2>2, <2>3 DEF Delete, GoTo
<1>5. failures' \in 0 .. MaxFailures /\ excused' \subseteq Workspaces
  BY <1>1, <1>2, FailTypes DEF Delete, Works, TypeOK
<1>6. /\ slot' \in [Workspaces -> Nat] /\ \A v \in Workspaces : slot'[v] # 0 => slot[v] # 0
      /\ registry' \subseteq registry /\ \A v \in registry : v # w => v \in registry'
      /\ lastActive' \in Workspaces \cup {None} /\ lastActive' \in registry' \cup {None}
  <2>1. slot' \in [Workspaces -> Nat] /\ \A v \in Workspaces : slot'[v] # 0 => slot[v] # 0
    <3>1. slot \in [Workspaces -> Nat]
      BY <1>1 DEF TypeOK
    <3>2. CASE slot' = [slot EXCEPT ![w] = 0]
      BY <1>2, <3>1, <3>2
    <3> QED
      BY <1>3, <3>1, <3>2
  <2>2. lastActive \in Workspaces \cup {None} /\ lastActive \in registry \cup {None}
    BY <1>1 DEF TypeOK, IInv, Registered
  <2> QED
    BY <1>3, <2>1, <2>2
<1>7. TypeOK'
  BY <1>1, <1>4, <1>5, <1>6 DEF TypeOK, FlowRecords
<1>8. \A y : ~ In(keychain, y)
  BY <1>1, EmptyQueue
<1>9. /\ signing = None /\ flush.set = NoSet /\ \A v \in Workspaces : run[v].pc # "writing"
  BY <1>8 DEF IInv, SignedUp, Flushing, Writing
<1>10. f = "end" => current = NoSet
  BY <1>1 DEF IInv, InFront
<1>11. InFront'
  <2>1. CASE current = NoSet
    BY <1>1, <2>1 DEF InFront
  <2>2. CASE current # NoSet
    <3>1. f = "chain" /\ steps'["end"] = steps["end"] /\ steps'["chain"].pc = "reset"
      BY <1>4, <1>10, <2>2, Types DEF Flows
    <3>2. current[1] \in registry /\ current[1] = bound /\ bound # w
      BY <1>2, <2>2, <3>1 DEF IInv, InFront
    <3>3. current[1] \in registry'
      BY <1>6, <3>2
    <3> QED
      BY <1>1, <3>1, <3>2, <3>3 DEF IInv, InFront, Switching
  <2> QED
    BY <2>1, <2>2
<1>12. Switched'
  <2>1. f = "end" => steps["chain"].pc \notin Switching
    BY <1>1 DEF IInv, Switched
  <2> QED
    BY <1>1, <1>2, <1>4, <2>1, Types DEF IInv, Switched, Flows, Switching
<1>13. Ended' /\ Launched'
  BY <1>1, <1>4, Types DEF IInv, Ended, Launched, Flows
<1>14. SignedUp' /\ Known' /\ Flushing' /\ Writing'
  BY <1>1, <1>6, <1>9 DEF IInv, SignedUp, Known, Flushing, Writing
<1>15. Registered'
  <2>1. \A s \in detached : s[1] \in registry'
    BY <1>1, <1>6 DEF IInv, Registered
  <2>2. bound # None => bound \in registry' \/ steps'["end"].pc # "idle"
    <3>1. CASE f = "chain"
      BY <1>2, <1>4, <1>6, <3>1, Types DEF IInv, Registered, Flows
    <3>2. CASE f = "end"
      BY <1>4, <3>2
    <3> QED
      BY <3>1, <3>2 DEF Flows
  <2>3. \A g \in Flows : steps'[g].pc = "delete" => \A s \in detached : s[1] # steps'[g].ws
    BY <1>4 DEF IInv, Registered
  <2> QED
    BY <1>1, <1>6, <2>1, <2>2, <2>3 DEF Registered
<1> QED
  BY <1>7, <1>11, <1>12, <1>13, <1>14, <1>15 DEF IInv

LEMMA ResetKeeps ==
  ASSUME IInv, NEW f \in Flows, Reset(f)
  PROVE  IInv'
<1>1. /\ TypeOK /\ steps[f].pc = "reset" /\ GoTo(f, "clear")
      /\ IF f = "end" THEN bound' = None /\ session' = None /\ ending' = FALSE ELSE UNCHANGED <<bound, session, ending>>
      /\ UNCHANGED <<newest, grace, revoked, reused, slot, marker, registry, lastActive, launch, resumed,
                     current, unpersisted, detached, parked, waits, run, flush, signing, revokedAside, keychain,
                     failures, crashes, excused>>
  BY DEF IInv, Reset, InFlow, serverVars, storedVars, launchVars, setVars
<1>2. /\ steps' \in [Flows -> FlowRecords] /\ steps'[f].pc = "clear" /\ steps'[f].ws = steps[f].ws
      /\ \A g \in Flows : g # f => steps'[g] = steps[g]
  BY <1>1, FlowGoes DEF FlowStates
<1>3. TypeOK'
  BY <1>1, <1>2 DEF TypeOK, FlowRecords
<1>4. CASE f = "chain"
  BY <1>1, <1>2, <1>3, <1>4, WipeGoesKeeps DEF Switching
<1>5. CASE f = "end"
  <2>1. /\ bound' = None /\ session' = None /\ steps'["chain"] = steps["chain"] /\ current = NoSet /\ signing = None
        /\ steps'["end"].pc = "clear" /\ steps'["end"].ws = steps["end"].ws /\ launch = "done"
        /\ steps["chain"].pc \notin Switching
    BY <1>1, <1>2, <1>5, Types DEF IInv, InFront, Ended, Switched
  <2>2. InFront' /\ Launched' /\ SignedUp'
    BY <1>1, <2>1 DEF InFront, Launched, SignedUp
  <2>3. Switched'
    BY <1>1, <2>1 DEF IInv, Switched, Switching
  <2>4. Ended'
    BY <1>1, <1>5, <2>1 DEF IInv, Ended
  <2>5. Known' /\ Flushing' /\ Writing'
    BY <1>1 DEF IInv, Known, Flushing, Writing
  <2>6. Registered'
    BY <1>1, <2>1 DEF IInv, Registered, Flows
  <2> QED
    BY <1>3, <2>2, <2>3, <2>4, <2>5, <2>6 DEF IInv
<1> QED
  BY <1>4, <1>5 DEF Flows

LEMMA ClearKeeps ==
  ASSUME IInv, NEW f \in Flows, Clear(f)
  PROVE  IInv'
<1>1. /\ TypeOK /\ steps[f].pc = "clear" /\ steps' = [steps EXCEPT ![f] = IdleFlow] /\ marker' \subseteq marker
      /\ UNCHANGED <<newest, grace, revoked, reused, slot, registry, lastActive, launch, resumed, bound, session, ending,
                     current, unpersisted, detached, parked, waits, run, flush, signing, revokedAside, keychain, crashes>>
  BY DEF IInv, Clear, InFlow, serverVars, launchVars, setVars
<1>2. /\ steps' \in [Flows -> FlowRecords] /\ steps'[f].pc = "idle"
      /\ \A g \in Flows : g # f => steps'[g] = steps[g]
  BY <1>1, FlowIdles
<1>3. steps[f].ws \in Workspaces
  BY <1>1, Types DEF IInv, Switched, Ended, Switching, Flows, FlowRecords
<1>4. failures' \in 0 .. MaxFailures /\ excused' \subseteq Workspaces
  BY <1>1, <1>3, FailTypes DEF Clear, Works, TypeOK
<1>5. TypeOK'
  BY <1>1, <1>2, <1>4 DEF TypeOK, FlowRecords
<1>6. f = "end" => bound = None /\ current = NoSet
  BY <1>1 DEF IInv, Ended, InFront
<1> QED
  BY <1>1, <1>2, <1>5, <1>6, WipeGoesKeeps DEF Switching

\* With nothing in memory only the stored part of the invariant is left.
LEMMA NothingInMemory ==
  ASSUME TypeOK, bound = None, current = NoSet, detached = {}, signing = None, revokedAside = {},
         \A w \in Workspaces : run[w].pc = "idle" /\ parked[w] = 0 /\ (slot[w] # 0 => newest[w] # 0),
         \A f \in Flows : steps[f].pc = "idle",
         flush.set = NoSet, keychain = <<>>, lastActive \in registry \cup {None}
  PROVE  IInv
<1>1. InFront /\ Switched /\ Ended /\ Launched /\ SignedUp
  BY Types DEF InFront, Switched, Switching, Ended, Launched, SignedUp
<1>2. Known /\ Registered /\ Writing
  BY Types DEF Known, Registered, Writing
<1>3. Flushing
  BY EmptyQueue DEF Flushing
<1> QED
  BY <1>1, <1>2, <1>3 DEF IInv

LEMMA Initially == Init => IInv
<1> SUFFICES ASSUME Init PROVE IInv
  OBVIOUS
<1>1. /\ run \in [Workspaces -> Runs] /\ steps \in [Flows -> FlowRecords]
      /\ \A w \in Workspaces : run[w].pc = "idle"
      /\ \A f \in Flows : steps[f].pc = "idle"
  BY IdleRunType, IdleFlowType DEF Init
<1>2. flush.set = NoSet /\ flush \in [set : Sets \cup {NoSet}, left : 0 .. 2]
  BY DEF Init, NoFlush
<1>3. TypeOK
  <2>1. keychain \in Seq(Writers)
    BY DEF Init
  <2>2. /\ newest \in [Workspaces -> Nat] /\ slot \in [Workspaces -> Nat] /\ parked \in [Workspaces -> Nat]
    BY DEF Init, Zero
  <2>3. failures \in 0 .. MaxFailures /\ crashes \in 0 .. MaxCrashes
    BY BoundsAssumption DEF Init
  <2> QED
    BY <1>1, <1>2, <2>1, <2>2, <2>3 DEF Init, TypeOK, FlowRecords, Writers
<1> QED
  BY <1>1, <1>2, <1>3, NothingInMemory DEF Init, Zero

LEMMA CrashKeeps ==
  ASSUME IInv, Crash
  PROVE  IInv'
<1>1. /\ TypeOK /\ launch' = "down" /\ resumed' = {} /\ bound' = None /\ session' = None /\ ending' = FALSE
      /\ current' = NoSet /\ unpersisted' = FALSE /\ detached' = {} /\ parked' = Zero /\ waits' = {}
      /\ run' = [w \in Workspaces |-> IdleRun] /\ flush' = NoFlush /\ signing' = None
      /\ steps' = [f \in Flows |-> IdleFlow] /\ revokedAside' = {} /\ keychain' = <<>>
      /\ excused' \subseteq Workspaces
      /\ UNCHANGED <<newest, grace, revoked, reused, slot, marker, registry, lastActive, failures>>
  BY DEF IInv, TypeOK, Crash, serverVars, storedVars
<1>2. crashes' \in 0 .. MaxCrashes
  BY BoundsAssumption DEF IInv, TypeOK, Crash
<1>3. /\ run' \in [Workspaces -> Runs] /\ steps' \in [Flows -> FlowRecords]
      /\ \A w \in Workspaces : run'[w].pc = "idle"
      /\ \A f \in Flows : steps'[f].pc = "idle"
  BY <1>1, IdleRunType, IdleFlowType
<1>4. flush'.set = NoSet /\ flush' \in [set : Sets \cup {NoSet}, left : 0 .. 2]
  BY <1>1 DEF NoFlush
<1>5. /\ parked' \in [Workspaces -> Nat] /\ \A w \in Workspaces : parked'[w] = 0
  BY <1>1 DEF Zero
<1>6. TypeOK'
  <2>1. keychain' \in Seq(Writers)
    BY <1>1
  <2> QED
    BY <1>1, <1>2, <1>3, <1>4, <1>5, <2>1 DEF TypeOK, FlowRecords, Writers
<1>7. InFront' /\ Switched' /\ Ended' /\ Launched' /\ SignedUp'
  BY <1>1, <1>3, Types DEF InFront, Switched, Switching, Ended, Launched, SignedUp
<1>8. Known' /\ Registered' /\ Writing'
  BY <1>1, <1>3, <1>5, Types DEF IInv, Known, Registered, Writing
<1>9. Flushing'
  BY <1>1, <1>4, EmptyQueue DEF Flushing
<1> QED
  BY <1>6, <1>7, <1>8, <1>9 DEF IInv

LEMMA HydrateKeeps ==
  ASSUME IInv, Hydrate
  PROVE  IInv'
<1>1. /\ TypeOK /\ launch = "resume" /\ launch' = "done" /\ steps["chain"].pc = "idle"
      /\ \/ /\ lastActive # None /\ bound' = lastActive /\ session' = lastActive
            /\ steps' = [steps EXCEPT !["chain"] = [IdleFlow EXCEPT !.pc = "restore", !.ws = lastActive]]
         \/ UNCHANGED <<steps, bound, session>>
      /\ UNCHANGED <<newest, grace, revoked, reused, slot, marker, registry, lastActive, resumed, ending,
                     current, unpersisted, detached, parked, waits, run, flush, signing, revokedAside, keychain,
                     failures, crashes, excused>>
  BY DEF IInv, Hydrate, InFlow, serverVars, storedVars, setVars
<1>2. /\ bound = None /\ signing = None /\ steps["end"].pc = "idle" /\ current = NoSet
      /\ lastActive \in registry \cup {None} /\ lastActive \in Workspaces \cup {None}
  BY <1>1, NoneAssumption DEF IInv, Launched, Ended, InFront, Registered, TypeOK
<1>3. CASE UNCHANGED <<steps, bound, session>>
  <2>1. TypeOK'
    BY <1>1, <1>3 DEF TypeOK
  <2>2. InFront' /\ Switched' /\ Ended' /\ Launched' /\ SignedUp'
    BY <1>1, <1>2, <1>3 DEF IInv, InFront, Switched, Ended, Launched, SignedUp
  <2>3. Known' /\ Registered' /\ Flushing' /\ Writing'
    BY <1>1, <1>3 DEF IInv, Known, Registered, Flushing, Writing
  <2> QED
    BY <2>1, <2>2, <2>3 DEF IInv
<1>4. CASE /\ lastActive # None /\ bound' = lastActive /\ session' = lastActive
           /\ steps' = [steps EXCEPT !["chain"] = [IdleFlow EXCEPT !.pc = "restore", !.ws = lastActive]]
  <2>1. /\ steps' \in [Flows -> FlowRecords] /\ steps'["end"] = steps["end"]
        /\ steps'["chain"].pc = "restore" /\ steps'["chain"].ws = lastActive
    <3> DEFINE to == lastActive
    <3>1. to \in Workspaces \cup {None} /\ "restore" \in FlowStates
      BY <1>2 DEF FlowStates
    <3> HIDE DEF to
    <3>2. /\ [IdleFlow EXCEPT !.pc = "restore", !.ws = to] \in FlowRecords
          /\ [IdleFlow EXCEPT !.pc = "restore", !.ws = to].pc = "restore"
          /\ [IdleFlow EXCEPT !.pc = "restore", !.ws = to].ws = to
      BY <3>1, FlowBegins, Zenon
    <3> QED
      BY <1>1, <1>4, <3>2, Types DEF to
  <2>2. TypeOK'
    BY <1>1, <1>2, <1>4, <2>1 DEF TypeOK, FlowRecords
  <2>3. InFront' /\ Ended' /\ Launched' /\ SignedUp'
    BY <1>1, <1>2, <2>1 DEF InFront, Ended, Launched, SignedUp
  <2>4. Switched'
    BY <1>1, <1>2, <1>4, <2>1 DEF Switched, Switching
  <2>5. Known' /\ Flushing' /\ Writing'
    BY <1>1 DEF IInv, Known, Flushing, Writing
  <2>6. Registered'
    BY <1>1, <1>2, <1>4, <2>1 DEF IInv, Registered, Flows
  <2> QED
    BY <2>2, <2>3, <2>4, <2>5, <2>6 DEF IInv
<1> QED
  BY <1>1, <1>3, <1>4

-----------------------------------------------------------------------------
(* The theorems. *)

LEMMA Stuttering == IInv /\ UNCHANGED vars => IInv'
<1> SUFFICES ASSUME IInv, UNCHANGED vars PROVE IInv'
  OBVIOUS
<1>1. TypeOK'
  BY DEF IInv, TypeOK, vars, serverVars, storedVars, launchVars, setVars
<1> QED
  BY <1>1, FrameKeeps DEF vars, core, serverVars, storedVars, launchVars, setVars

\* Every step keeps the invariant.
LEMMA Inductive == IInv /\ [Next]_vars => IInv'
<1> SUFFICES ASSUME IInv, [Next]_vars PROVE IInv'
  OBVIOUS
<1>1. ASSUME NEW w \in Workspaces,
             \/ Revoke(w) \/ GraceEnds(w) \/ SignIn(w) \/ SignedIn(w) \/ SignInFails(w)
             \/ Refresh(w) \/ CheckIn(w) \/ Remove(w) \/ WipeRevoked(w) \/ MarkRevoked(w) \/ Resume(w)
      PROVE  IInv'
  BY <1>1, RevokeKeeps, GraceEndsKeeps, SignInKeeps, SignedInKeeps, SignInFailsKeeps, RefreshKeeps, CheckInKeeps,
     RemoveKeeps, WipeRevokedKeeps, MarkRevokedKeeps, ResumeKeeps
<1>2. ASSUME NEW w \in Workspaces, RunStep(w)
      PROVE  IInv'
  BY <1>2, ServeKeeps, RetryKeeps, GiveUpKeeps, DeadKeeps, RotatedKeeps, StoreKeeps, StoredKeeps, StoreFailsKeeps DEF RunStep
<1>3. CASE Flush \/ Flushed \/ FlushFails
  BY <1>3, FlushKeeps, FlushedKeeps, FlushFailsKeeps
<1>4. CASE (\E to \in Workspaces \cup {None} : Switch(to)) \/ ChainStep
  BY <1>4, SwitchKeeps, HookStoresKeeps, HookFailsKeeps, SettleKeeps, OpenKeeps, RestoreKeeps DEF ChainStep
<1>5. ASSUME NEW f \in Flows, WipeStep(f)
      PROVE  IInv'
  BY <1>5, MarkKeeps, RevokeFirstKeeps, StoredHookKeeps, DeleteKeeps, ResetKeeps, ClearKeeps DEF WipeStep
<1>6. CASE EndSession \/ Hook \/ Crash \/ Launch \/ Hydrate
  BY <1>6, EndSessionKeeps, HookKeeps, CrashKeeps, LaunchKeeps, HydrateKeeps
<1>7. CASE UNCHANGED vars
  BY <1>7, Stuttering
<1> QED
  BY <1>1, <1>2, <1>3, <1>4, <1>5, <1>6, <1>7 DEF Next

LEMMA Invariance == Spec => []IInv
  BY Initially, Inductive, PTL DEF Spec

\* The session, its sets, its runs, its flows and the keychain queue keep their
\* types.
THEOREM TypeCorrect == Spec => []TypeOK
<1>1. IInv => TypeOK
  BY DEF IInv
<1> QED
  BY <1>1, Invariance, PTL

\* With any number of workspaces the active credential is the one of the session's
\* workspace: getSession().workspaceId and the token set never differ, whatever a
\* switch, a slow sign-in, a wipe or a launch interrupts.
THEOREM CredentialOfItsWorkspace == Spec => []OwnWorkspace
<1>1. IInv => OwnWorkspace
  BY NoneAssumption DEF IInv, InFront, OwnWorkspace, TypeOK, Sets
<1> QED
  BY <1>1, Invariance, PTL

\* A write that lands fills the slot of a connected workspace, unless it is a
\* check-in's.
LEMMA OnlyCheckInRefills ==
  ASSUME IInv, Next, NEW w \in Workspaces, w \notin registry, slot[w] = 0, slot'[w] # 0
  PROVE  run[w].kind = "checkin" /\ run[w].pc = "writing"
<1>1. TypeOK /\ slot \in [Workspaces -> Nat]
  BY DEF IInv, TypeOK
<1>2. CASE \E v \in Workspaces : Stored(v)
  <2>1. PICK v \in Workspaces : Stored(v)
    BY <1>2
  <2>2. run[v].pc = "writing" /\ slot' = [slot EXCEPT ![v] = run[v].next]
    BY <2>1 DEF Stored
  <2>3. v = w
    BY <1>1, <2>2
  <2> QED
    BY <2>2, <2>3 DEF IInv, Writing
<1>3. CASE \E v \in Workspaces : SignedIn(v)
  <2>1. PICK v \in Workspaces : SignedIn(v)
    BY <1>3
  <2>2. signing = v /\ v # None /\ slot' = [slot EXCEPT ![v] = 1]
    BY <2>1, NoneAssumption DEF SignedIn
  <2>3. v = w /\ v \in registry
    BY <1>1, <2>2 DEF IInv, SignedUp
  <2> QED
    BY <2>3
<1>4. CASE Flushed
  <2>1. Landing("flush") /\ slot' = [slot EXCEPT ![flush.set[1]] = flush.set[2]]
    BY <1>4 DEF Flushed
  <2>2. flush.set[1] \in registry
    BY <1>1, <2>1, Landed DEF IInv, Flushing
  <2> QED
    BY <1>1, <2>1, <2>2
<1>5. CASE HookStores
  <2>1. steps["chain"].pc = "flush" /\ slot' = [slot EXCEPT ![steps["chain"].set[1]] = steps["chain"].set[2]]
    BY <1>5 DEF HookStores, InFlow
  <2>2. steps["chain"].set[1] \in registry
    BY <2>1 DEF IInv, Switched
  <2> QED
    BY <1>1, <2>1, <2>2
<1>6. CASE \E f \in Flows : Delete(f)
  <2>1. PICK f \in Flows : slot' = slot \/ slot' = [slot EXCEPT ![steps[f].ws] = 0]
    BY <1>6 DEF Delete
  <2> QED
    BY <1>1, <2>1
<1>7. CASE UNCHANGED slot
  BY <1>7
<1>8. \/ UNCHANGED slot \/ Flushed \/ HookStores \/ \E f \in Flows : Delete(f)
      \/ \E v \in Workspaces : Stored(v) \/ SignedIn(v)
  <2>1. ASSUME NEW v \in Workspaces,
               \/ Revoke(v) \/ GraceEnds(v) \/ SignIn(v) \/ SignInFails(v) \/ Refresh(v) \/ CheckIn(v)
               \/ Remove(v) \/ WipeRevoked(v) \/ MarkRevoked(v) \/ Resume(v)
        PROVE  UNCHANGED slot
    BY <2>1 DEF Revoke, GraceEnds, SignIn, SignInFails, Refresh, CheckIn, Remove, WipeRevoked, MarkRevoked, Resume, storedVars
  <2>2. ASSUME NEW v \in Workspaces, RunStep(v)
        PROVE  UNCHANGED slot \/ Stored(v)
    BY <2>2 DEF RunStep, Serve, Retry, GiveUp, Dead, Rotated, Store, StoreFails, storedVars
  <2>3. CASE Flush \/ FlushFails \/ EndSession \/ Hook \/ Crash \/ Launch \/ Hydrate
    BY <2>3 DEF Flush, FlushFails, EndSession, Hook, Crash, Launch, Hydrate, storedVars
  <2>4. ASSUME NEW to, Switch(to)
        PROVE  UNCHANGED slot
    BY <2>4 DEF Switch, storedVars
  <2>5. ChainStep => UNCHANGED slot \/ HookStores
    BY DEF ChainStep, HookFails, Settle, Open, Restore, storedVars
  <2>6. ASSUME NEW f \in Flows, WipeStep(f)
        PROVE  UNCHANGED slot \/ Delete(f)
    BY <2>6 DEF WipeStep, Mark, RevokeFirst, StoredHook, Reset, Clear, storedVars
  <2> QED
    BY <2>1, <2>2, <2>3, <2>4, <2>5, <2>6 DEF Next
<1> QED
  BY <1>2, <1>3, <1>4, <1>5, <1>6, <1>7, <1>8

\* With any number of workspaces, tokens, failures and crashes the slot a wipe
\* emptied is filled again by nothing but a check-in that was storing its pair.
THEOREM WipeIsFinal == Spec => WipedStaysEmpty
<1>1. IInv /\ [Next]_vars =>
        [\A w \in Workspaces :
           w \notin registry /\ slot[w] = 0 /\ slot'[w] # 0 => run[w].kind = "checkin" /\ run[w].pc = "writing"]_vars
  BY OnlyCheckInRefills
<1> QED
  BY <1>1, Invariance, PTL DEF Spec, WipedStaysEmpty

=============================================================================
