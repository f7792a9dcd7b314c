------------------------ MODULE NativeTokens_proofs ------------------------
(***************************************************************************)
(* TLAPS proofs that the device never presents a consumed refresh token    *)
(* and stores a pair before it uses it, for every set of workspaces, every *)
(* number of tokens, attempts, keychain failures and crashes.              *)
(***************************************************************************)
EXTENDS NativeSession_proofs

-----------------------------------------------------------------------------
(* The invariant. *)

\* A wipe has begun or is over: nothing of the workspace is presented again.
Gone(w) == w \in marker \/ w \notin registry

\* The active set is one of the workspace.
InUse(w) == current # NoSet /\ current[1] = w

\* While a flush has not landed no other workspace comes to the front: the switch
\* waits for the write.
FlushApart ==
    flush.set # NoSet => /\ bound \in {None, flush.set[1]} /\ launch = "done"
                         /\ steps["chain"].pc \notin {"open", "restore"}

FirstPair == signing # None => newest[signing] = 1

\* A restore is of a workspace with no wipe pending; past its first step a wipe has
\* left its marker, and one that is complete has taken the registry entry.
Marked ==
    /\ steps["chain"].pc = "restore" => steps["chain"].ws \notin marker
    /\ \A f \in Flows : steps[f].ws \notin excused =>
          /\ steps[f].pc \in {"revoke", "hook", "stored", "delete"} => Gone(steps[f].ws)
          /\ steps[f].pc \in {"reset", "clear"} /\ steps[f].clean => steps[f].ws \notin registry

\* Nothing of a workspace is held in memory only; its active pair is the stored one.
Saved(w) ==
    /\ parked[w] = 0
    /\ flush.set # NoSet => flush.set[1] # w
    /\ steps["chain"].pc = "flush" => steps["chain"].set[1] # w
    /\ InUse(w) => ~unpersisted /\ slot[w] = current[2]

\* A run is the one of the active set, or the restore of its workspace waits for it.
Own(w) ==
    run[w].pc # "idle" =>
        /\ InUse(w) => run[w].kind = "refresh" /\ current[2] = run[w].from /\ ~run[w].aside
        /\ Gone(w) \/ w \in waits \/ current = SetOf(w)

\* Between runs the device has the unconsumed token.
Newest(w) ==
    run[w].pc = "idle" =>
        /\ Gone(w) \/ slot[w] \in {0, newest[w]}
        /\ InUse(w) => current[2] = newest[w]

\* During a run it has the token the run presents, which is the unconsumed one or
\* the last consumed one in its grace, and the answer carries the unconsumed one.
Presented(w) ==
    run[w].pc # "idle" =>
        /\ Gone(w) \/ slot[w] \in {0, run[w].from}
        /\ run[w].kind = "refresh" => Gone(w) \/ Alive(SetOf(w))
        /\ run[w].pc = "send" \/ (run[w].pc = "answered" /\ run[w].answer = "none") =>
              newest[w] = run[w].from \/ (newest[w] = run[w].from + 1 /\ w \in grace)
        /\ run[w].pc \in {"issue", "writing"} \/ (run[w].pc = "answered" /\ run[w].answer = "ok") =>
              run[w].next = newest[w]
        /\ ~(run[w].pc = "answered" /\ run[w].answer = "revoked")

Safe(w) == Saved(w) /\ Own(w) /\ (w \notin revoked => Newest(w) /\ Presented(w))

Tokens ==
    /\ FlushApart /\ FirstPair /\ Marked
    /\ \A w \in Workspaces \ excused : Safe(w)

TInv == IInv /\ Tokens /\ NoReuse

-----------------------------------------------------------------------------
(* What a step leaves alone. *)

\* A workspace whose run, pairs and sets a step leaves alone stays safe.
LEMMA SameTokens ==
  ASSUME NEW v \in Workspaces, Safe(v),
         Gone(v) => Gone(v)', v \in revoked => v \in revoked',
         run'[v] = run[v], slot'[v] = slot[v], newest'[v] = newest[v], parked'[v] = parked[v],
         v \in grace => v \in grace' \/ run[v].pc \notin {"send", "answered"}, v \in waits => v \in waits',
         \A s \in detached : s[1] = v => s \in detached',
         InUse(v) \/ InUse(v)' => UNCHANGED <<current, unpersisted>>,
         flush'.set # NoSet /\ flush'.set[1] = v => flush'.set = flush.set,
         steps'["chain"].pc = "flush" /\ steps'["chain"].set[1] = v =>
             steps["chain"].pc = "flush" /\ steps["chain"].set[1] = v
  PROVE  Safe(v)'
<1>1. InUse(v)' => InUse(v)
  BY DEF InUse
<1>2. Saved(v)'
  BY <1>1 DEF Safe, Saved
<1>3. SetOf(v)' = SetOf(v) /\ SetOf(v)[1] = v /\ SetOf(v) # NoSet
  BY DEF SetOf, NoSet
<1>4. current = SetOf(v) => current' = SetOf(v)
  BY <1>3 DEF InUse
<1>5. Own(v)'
  BY <1>1, <1>3, <1>4 DEF Safe, Own
<1>6. Alive(SetOf(v)) => Alive(SetOf(v))'
  BY <1>3, <1>4 DEF Alive
<1>7. ASSUME v \notin revoked'
      PROVE  Newest(v)' /\ Presented(v)'
  <2>1. Newest(v)'
    BY <1>1, <1>7 DEF Safe, Newest
  <2>2. Presented(v)'
    BY <1>6, <1>7 DEF Safe, Presented
  <2> QED
    BY <2>1, <2>2
<1> QED
  BY <1>2, <1>5, <1>7 DEF Safe

\* A step of the flows that touches no set, no run and no slot.
LEMMA FrameTokens ==
  ASSUME Tokens, excused \subseteq excused', revoked \subseteq revoked', signing' \in {signing, None}, Marked',
         \A v \in Workspaces \ excused' : Gone(v) => Gone(v)',
         flush.set # NoSet => /\ bound' \in {bound, None} /\ launch' = launch
                              /\ steps'["chain"].pc \notin {"open", "restore"},
         steps'["chain"].pc = "flush" => steps["chain"].pc = "flush" /\ steps'["chain"].set = steps["chain"].set,
         UNCHANGED <<newest, grace, slot, current, unpersisted, detached, parked, waits, run, flush>>
  PROVE  Tokens'
<1>1. FlushApart' /\ FirstPair'
  BY DEF Tokens, FlushApart, FirstPair
<1>2. ASSUME NEW v \in Workspaces \ excused'
      PROVE  Safe(v)'
  BY SameTokens DEF Tokens
<1> QED
  BY <1>1, <1>2 DEF Tokens

LEMMA GoesClean ==
  ASSUME TypeOK, NEW f \in Flows, NEW p \in FlowStates, GoTo(f, p)
  PROVE  steps'[f].clean = steps[f].clean
  BY Types DEF GoTo, FlowRecords

\* Wipes do not touch a marker or a registry entry that another wipe relies on.
LEMMA MarkedSame ==
  ASSUME Marked, UNCHANGED <<steps, registry, marker>>, excused \subseteq excused'
  PROVE  Marked'
  BY DEF Marked, Gone

LEMMA RevokeTokens ==
  ASSUME Tokens, NEW w \in Workspaces, Revoke(w)
  PROVE  Tokens'
<1>1. Marked' /\ \A v \in Workspaces : Gone(v) => Gone(v)'
  BY MarkedSame DEF Tokens, Revoke, storedVars, Gone
<1> QED
  BY <1>1, FrameTokens DEF Revoke, storedVars, launchVars, setVars, Tokens, FlushApart

LEMMA SignInFailsTokens ==
  ASSUME Tokens, NEW w \in Workspaces, SignInFails(w)
  PROVE  Tokens'
<1>1. Marked' /\ \A v \in Workspaces : Gone(v) => Gone(v)'
  BY MarkedSame DEF Tokens, SignInFails, Fails, storedVars, Gone
<1> QED
  BY <1>1, FrameTokens DEF SignInFails, Fails, serverVars, storedVars, launchVars, setVars, Tokens, FlushApart

LEMMA MarkRevokedTokens ==
  ASSUME IInv, Tokens, NEW w \in Workspaces, MarkRevoked(w)
  PROVE  Tokens'
<1>1. \A v \in Workspaces : Gone(v) => Gone(v)'
  BY DEF MarkRevoked, Gone
<1>2. Marked'
  BY DEF Tokens, Marked, MarkRevoked, Gone, IInv, Switched
<1> QED
  BY <1>1, <1>2, FrameTokens DEF MarkRevoked, serverVars, launchVars, setVars, Tokens, FlushApart

LEMMA LaunchTokens ==
  ASSUME Tokens, Launch
  PROVE  Tokens'
<1>1. Marked' /\ \A v \in Workspaces : Gone(v) => Gone(v)'
  BY MarkedSame DEF Tokens, Launch, storedVars, Gone
<1> QED
  BY <1>1, FrameTokens DEF Launch, serverVars, storedVars, setVars, Tokens, FlushApart

LEMMA StutteringTokens ==
  ASSUME Tokens, UNCHANGED vars
  PROVE  Tokens'
<1>1. Marked' /\ \A v \in Workspaces : Gone(v) => Gone(v)'
  BY MarkedSame DEF Tokens, vars, storedVars, Gone
<1> QED
  BY <1>1, FrameTokens DEF vars, serverVars, storedVars, launchVars, setVars, Tokens, FlushApart

\* A wipe is about to begin: the flow has done nothing yet.
LEMMA BeginsTokens ==
  ASSUME IInv, Tokens, NEW f \in Flows, NEW w \in Workspaces, Start(f, w),
         UNCHANGED <<newest, grace, revoked, slot, marker, registry, launch, bound, current, unpersisted, detached,
                     parked, waits, run, flush, signing, excused>>
  PROVE  Tokens'
<1>1. steps'[f].pc = "mark" /\ \A g \in Flows : g # f => steps'[g] = steps[g]
  BY FlowStarts DEF IInv
<1>2. Marked' /\ \A v \in Workspaces : Gone(v) => Gone(v)'
  BY <1>1, Types DEF Tokens, Marked, Gone
<1>3. steps'["chain"] = steps["chain"] \/ steps'["chain"].pc = "mark"
  BY <1>1, Types
<1> QED
  BY <1>2, <1>3, FrameTokens DEF Tokens, FlushApart

LEMMA EndSessionTokens ==
  ASSUME IInv, Tokens, EndSession
  PROVE  Tokens'
<1>1. bound \in Workspaces
  BY DEF EndSession, IInv, TypeOK
<1> QED
  BY <1>1, BeginsTokens, Types DEF EndSession, serverVars, storedVars, launchVars, setVars

LEMMA RemoveTokens ==
  ASSUME IInv, Tokens, NEW w \in Workspaces, Remove(w)
  PROVE  Tokens'
  BY BeginsTokens, Types DEF Remove, serverVars, storedVars, launchVars, setVars

LEMMA ResumeTokens ==
  ASSUME IInv, Tokens, NEW w \in Workspaces, Resume(w)
  PROVE  Tokens'
  BY BeginsTokens, Types DEF Resume, serverVars, storedVars, setVars

LEMMA WipeRevokedTokens ==
  ASSUME IInv, Tokens, NEW w \in Workspaces, WipeRevoked(w)
  PROVE  Tokens'
<1>1. UNCHANGED <<newest, grace, revoked, slot, marker, registry, launch, bound, current, unpersisted, detached,
                  parked, waits, run, flush, signing, excused>>
  BY DEF WipeRevoked, serverVars, storedVars, launchVars, setVars
<1>2. CASE Start("chain", w) \/ Start("end", w)
  BY <1>1, <1>2, BeginsTokens, Types
<1>3. CASE UNCHANGED steps
  <2>1. Marked' /\ \A v \in Workspaces : Gone(v) => Gone(v)'
    BY <1>1, <1>3, MarkedSame DEF Tokens, Gone
  <2> QED
    BY <1>1, <1>3, <2>1, FrameTokens DEF Tokens, FlushApart
<1> QED
  BY <1>2, <1>3 DEF WipeRevoked

\* A wipe goes on to its next step.
LEMMA GoesTokens ==
  ASSUME IInv, Tokens, NEW f \in Flows, steps[f].pc \in {"mark", "revoke", "reset"},
         NEW p \in {"revoke", "hook", "stored", "clear"}, GoTo(f, p),
         marker \subseteq marker', \A v \in Workspaces : v \in marker' => v \in marker \/ (steps[f].pc = "mark" /\ v = steps[f].ws),
         p \in {"revoke", "hook", "stored"} /\ steps[f].ws \notin excused' =>
             steps[f].ws \in marker' \/ steps[f].ws \notin registry',
         p = "clear" => steps[f].pc = "reset",
         excused \subseteq excused', revoked \subseteq revoked', bound' \in {bound, None},
         UNCHANGED <<newest, grace, slot, registry, launch, current, unpersisted, detached,
                     parked, waits, run, flush, signing>>
  PROVE  Tokens'
<1>1. p \in FlowStates
  BY DEF FlowStates
<1>2. /\ steps'[f].pc = p /\ steps'[f].ws = steps[f].ws /\ steps'[f].clean = steps[f].clean
      /\ \A g \in Flows : g # f => steps'[g] = steps[g]
  BY <1>1, FlowGoes, GoesClean DEF IInv
<1>3. \A v \in Workspaces : Gone(v) => Gone(v)'
  BY DEF Gone
<1>4. steps'["chain"] = steps["chain"] \/ steps'["chain"].pc = p
  BY <1>2, Types
<1>5. Marked'
  <2>1. ASSUME steps'["chain"].pc = "restore" PROVE steps'["chain"].ws \notin marker'
    <3>1. f # "chain" /\ f = "end" /\ steps'["chain"] = steps["chain"]
      BY <1>2, <2>1 DEF Flows
    <3>2. steps["end"].pc = "idle"
      BY <2>1, <3>1 DEF IInv, Switched, Switching
    <3> QED
      BY <3>1, <3>2
  <2>2. ASSUME NEW g \in Flows, steps'[g].ws \notin excused'
        PROVE  /\ steps'[g].pc \in {"revoke", "hook", "stored", "delete"} =>
                     steps'[g].ws \in marker' \/ steps'[g].ws \notin registry'
               /\ steps'[g].pc \in {"reset", "clear"} /\ steps'[g].clean => steps'[g].ws \notin registry'
    <3>1. CASE g = f
      BY <1>2, <2>2, <3>1 DEF Tokens, Marked
    <3>2. CASE g # f
      BY <1>2, <2>2, <3>2 DEF Tokens, Marked, Gone
    <3> QED
      BY <3>1, <3>2
  <2> QED
    BY <2>1, <2>2 DEF Marked, Gone
<1> QED
  BY <1>3, <1>4, <1>5, FrameTokens DEF Tokens, FlushApart

LEMMA MarkTokens ==
  ASSUME IInv, Tokens, NEW f \in Flows, Mark(f)
  PROVE  Tokens'
<1>1. /\ steps[f].pc = "mark" /\ GoTo(f, "revoke")
      /\ UNCHANGED <<newest, grace, revoked, slot, registry, launch, bound, current, unpersisted, detached,
                     parked, waits, run, flush, signing>>
  BY DEF Mark, InFlow, serverVars, launchVars, setVars
<1>2. \/ marker' = marker \cup {steps[f].ws} /\ excused' = excused
      \/ marker' = marker /\ excused' = excused \cup {steps[f].ws}
  BY DEF Mark, Works, Fails
<1>3. steps[f].ws \notin excused' => steps[f].ws \in marker' \/ steps[f].ws \notin registry'
  BY <1>2
<1>4. /\ marker \subseteq marker' /\ excused \subseteq excused'
      /\ \A v \in Workspaces : v \in marker' => v \in marker \/ (steps[f].pc = "mark" /\ v = steps[f].ws)
  BY <1>1, <1>2
<1> QED
  BY <1>1, <1>3, <1>4, GoesTokens

LEMMA RevokeFirstTokens ==
  ASSUME IInv, Tokens, NEW f \in Flows, RevokeFirst(f)
  PROVE  Tokens'
<1>1. /\ steps[f].pc = "revoke"
      /\ UNCHANGED <<newest, grace, slot, marker, registry, launch, bound, current, unpersisted, detached,
                     parked, waits, run, flush, signing, excused>>
      /\ revoked \subseteq revoked'
  BY DEF RevokeFirst, InFlow, storedVars, launchVars, setVars
<1>2. PICK p \in {"hook", "stored"} : GoTo(f, p)
  BY DEF RevokeFirst
<1>3. steps[f].ws \notin excused' => steps[f].ws \in marker' \/ steps[f].ws \notin registry'
  BY <1>1 DEF Gone, Tokens, Marked
<1>4. p \in {"revoke", "hook", "stored", "clear"} /\ p # "clear" /\ marker \subseteq marker' /\ excused \subseteq excused'
  BY <1>1
<1> QED
  BY <1>1, <1>2, <1>3, <1>4, GoesTokens

LEMMA ResetTokens ==
  ASSUME IInv, Tokens, NEW f \in Flows, Reset(f)
  PROVE  Tokens'
<1>1. /\ steps[f].pc = "reset" /\ GoTo(f, "clear") /\ bound' \in {bound, None}
      /\ UNCHANGED <<newest, grace, revoked, slot, marker, registry, launch, current, unpersisted, detached,
                     parked, waits, run, flush, signing, excused>>
  BY DEF Reset, InFlow, serverVars, storedVars, launchVars, setVars
<1>2. marker \subseteq marker' /\ excused \subseteq excused' /\ revoked \subseteq revoked'
  BY <1>1
<1> QED
  BY <1>1, <1>2, GoesTokens

LEMMA ClearTokens ==
  ASSUME IInv, Tokens, NEW f \in Flows, Clear(f)
  PROVE  Tokens'
<1>1. /\ steps[f].pc = "clear" /\ steps' = [steps EXCEPT ![f] = IdleFlow]
      /\ UNCHANGED <<newest, grace, revoked, slot, registry, launch, bound, current, unpersisted, detached,
                     parked, waits, run, flush, signing>>
  BY DEF Clear, InFlow, serverVars, launchVars, setVars
<1>2. steps'[f].pc = "idle" /\ \A g \in Flows : g # f => steps'[g] = steps[g]
  BY <1>1, FlowIdles DEF IInv
<1>3. /\ excused \subseteq excused' /\ marker' \subseteq marker
      /\ marker' = marker \/ (steps[f].clean /\ marker' = marker \ {steps[f].ws})
  BY DEF Clear, Works, Fails
<1>4. \A v \in Workspaces \ excused' : Gone(v) => Gone(v)'
  BY <1>1, <1>3 DEF Gone, Tokens, Marked
<1>5. Marked'
  <2>1. ASSUME NEW g \in Flows, g # f, steps[g].ws \notin excused', steps[g].pc \in {"revoke", "hook", "stored", "delete"}
        PROVE  steps[g].ws \in marker' \/ steps[g].ws \notin registry
    BY <1>1, <1>3, <2>1 DEF Tokens, Marked, Gone
  <2> QED
    BY <1>1, <1>2, <1>3, <2>1 DEF Tokens, Marked, Gone
<1>6. steps'["chain"] = steps["chain"] \/ steps'["chain"].pc = "idle"
  BY <1>2, Types
<1> QED
  BY <1>1, <1>3, <1>4, <1>5, <1>6, FrameTokens DEF Tokens, FlushApart

LEMMA SettleTokens ==
  ASSUME IInv, Tokens, Settle
  PROVE  Tokens'
<1> DEFINE p == IF steps["chain"].ws = None THEN "idle" ELSE "open"
<1>1. /\ steps["chain"].pc = "settle" /\ keychain = <<>>
      /\ UNCHANGED <<newest, grace, revoked, slot, marker, registry, launch, bound, current, unpersisted, detached,
                     parked, waits, run, flush, signing, excused>>
  BY DEF Settle, InFlow, serverVars, storedVars, launchVars, setVars
<1>2. flush.set = NoSet
  BY <1>1, EmptyQueue DEF IInv, Flushing
<1>3. steps'["chain"].pc = p /\ steps'["end"] = steps["end"]
  <2>1. steps["chain"].ws \in Workspaces \cup {None} /\ steps \in [Flows -> FlowRecords]
    BY Types DEF IInv, FlowRecords
  <2>2. p \in FlowStates
    BY DEF FlowStates
  <2>3. [IdleFlow EXCEPT !.pc = p, !.ws = steps["chain"].ws].pc = p
    <3> HIDE DEF p
    <3> QED
      BY <2>1, <2>2, FlowBegins
  <2> QED
    BY <2>1, <2>3, Types DEF Settle
<1>4. Marked' /\ \A v \in Workspaces : Gone(v) => Gone(v)'
  BY <1>1, <1>3 DEF Tokens, Marked, Gone, Flows
<1> QED
  BY <1>1, <1>2, <1>3, <1>4, FrameTokens

LEMMA OpenTokens ==
  ASSUME IInv, Tokens, Open
  PROVE  Tokens'
<1>1. /\ steps["chain"].pc = "open" /\ flush.set = NoSet
      /\ UNCHANGED <<newest, grace, revoked, slot, marker, registry, launch, current, unpersisted, detached,
                     parked, waits, run, flush, signing, excused>>
  BY DEF Open, InFlow, Tokens, FlushApart, serverVars, storedVars, launchVars, setVars
<1>2. PICK p \in {"mark", "restore"} : GoTo("chain", p) /\ (p = "restore" => steps["chain"].ws \notin marker)
  BY DEF Open
<1>3. /\ steps'["chain"].pc = p /\ steps'["chain"].ws = steps["chain"].ws /\ steps'["end"] = steps["end"]
  <2>1. p \in FlowStates
    BY DEF FlowStates
  <2> QED
    BY <1>2, <2>1, FlowGoes, Types DEF IInv
<1>4. Marked' /\ \A v \in Workspaces : Gone(v) => Gone(v)'
  BY <1>1, <1>2, <1>3 DEF Tokens, Marked, Gone, Flows
<1> QED
  BY <1>1, <1>3, <1>4, FrameTokens

LEMMA HydrateTokens ==
  ASSUME IInv, Tokens, Hydrate
  PROVE  Tokens'
<1>1. /\ launch = "resume" /\ steps["chain"].pc = "idle" /\ registry \cap marker \subseteq resumed /\ flush.set = NoSet
      /\ UNCHANGED <<newest, grace, revoked, slot, marker, registry, current, unpersisted, detached,
                     parked, waits, run, flush, signing, excused>>
  BY DEF Hydrate, InFlow, Tokens, FlushApart, serverVars, storedVars, setVars
<1>2. CASE UNCHANGED steps
  <2>1. Marked' /\ \A v \in Workspaces : Gone(v) => Gone(v)'
    BY <1>1, <1>2, MarkedSame DEF Tokens, Gone
  <2> QED
    BY <1>1, <1>2, <2>1, FrameTokens
<1>3. CASE /\ steps' = [steps EXCEPT !["chain"] = [IdleFlow EXCEPT !.pc = "restore", !.ws = lastActive]]
           /\ lastActive # None /\ lastActive \notin resumed
  <2>1. lastActive \in Workspaces \cup {None} /\ "restore" \in FlowStates
    BY DEF IInv, TypeOK, FlowStates
  <2>2. /\ [IdleFlow EXCEPT !.pc = "restore", !.ws = lastActive].pc = "restore"
        /\ [IdleFlow EXCEPT !.pc = "restore", !.ws = lastActive].ws = lastActive
    BY <2>1, FlowBegins
  <2>3. steps'["chain"].pc = "restore" /\ steps'["chain"].ws = lastActive /\ steps'["end"] = steps["end"]
    BY <1>3, <2>2, Types DEF IInv
  <2>4. lastActive \notin marker
    BY <1>1, <1>3 DEF IInv, Registered
  <2>5. Marked' /\ \A v \in Workspaces : Gone(v) => Gone(v)'
    BY <1>1, <2>3, <2>4 DEF Tokens, Marked, Gone, Flows
  <2> QED
    BY <1>1, <2>3, <2>5, FrameTokens
<1> QED
  BY <1>2, <1>3 DEF Hydrate

-----------------------------------------------------------------------------
(* Refreshes and check-ins. *)

\* A step of one workspace leaves every other safe.
LEMMA OneTokens ==
  ASSUME Tokens, NEW w \in Workspaces, FlushApart', FirstPair', Marked',
         excused \subseteq excused', revoked \subseteq revoked',
         \A v \in Workspaces \ excused' : v # w =>
            /\ run'[v] = run[v] /\ slot'[v] = slot[v] /\ newest'[v] = newest[v] /\ parked'[v] = parked[v]
            /\ (Gone(v) => Gone(v)') /\ (v \in grace => v \in grace') /\ (v \in waits => v \in waits')
            /\ (\A s \in detached : s[1] = v => s \in detached')
            /\ (InUse(v) \/ InUse(v)' => UNCHANGED <<current, unpersisted>>)
            /\ (flush'.set # NoSet /\ flush'.set[1] = v => flush'.set = flush.set)
            /\ (steps'["chain"].pc = "flush" /\ steps'["chain"].set[1] = v =>
                   steps["chain"].pc = "flush" /\ steps["chain"].set[1] = v),
         w \notin excused' => Safe(w)'
  PROVE  Tokens'
<1>1. ASSUME NEW v \in Workspaces \ excused', v # w
      PROVE  Safe(v)'
  BY <1>1, SameTokens DEF Tokens
<1> QED
  BY <1>1 DEF Tokens

\* FirstPair is a matter of the workspace that signs in.
LEMMA StillFirst ==
  ASSUME IInv, Tokens, NEW w \in Workspaces, signing # w, UNCHANGED signing,
         \A v \in Workspaces : v # w => newest'[v] = newest[v]
  PROVE  FirstPair'
  BY NoneAssumption DEF IInv, TypeOK, Tokens, FirstPair

\* A run of one workspace goes on; nothing else but its waiting and its set moves.
LEMMA RunTokens ==
  ASSUME IInv, Tokens, NEW w \in Workspaces, excused \subseteq excused', revoked \subseteq revoked',
         \A v \in Workspaces : v # w => run'[v] = run[v] /\ newest'[v] = newest[v],
         signing # w, grace \ {w} \subseteq grace', waits \ {w} \subseteq waits',
         \A s \in detached : s[1] # w => s \in detached',
         UNCHANGED <<slot, marker, registry, launch, bound, current, unpersisted, parked, flush, signing, steps>>,
         w \notin excused' => Safe(w)'
  PROVE  Tokens'
<1>1. FlushApart' /\ Marked' /\ FirstPair'
  BY MarkedSame, StillFirst DEF Tokens, FlushApart
<1>2. ASSUME NEW v \in Workspaces \ excused', v # w
      PROVE  Safe(v)'
  <2>1. Safe(v) /\ (Gone(v) => Gone(v)')
    BY DEF Tokens, Gone
  <2>2. InUse(v) \/ InUse(v)' => UNCHANGED <<current, unpersisted>>
    OBVIOUS
  <2> QED
    BY <1>2, <2>1, <2>2, SameTokens
<1>3. Safe(w)' \/ w \in excused'
  OBVIOUS
<1> QED
  BY <1>1, <1>2, <1>3 DEF Tokens

LEMMA RunFields ==
  ASSUME NEW r \in Runs, NEW a \in {"none", "ok", "revoked"}, NEW n \in Nat
  PROVE  LET q == [r EXCEPT !.pc = "answered", !.answer = a, !.next = n]
         IN q.pc = "answered" /\ q.answer = a /\ q.next = n /\ q.kind = r.kind /\ q.from = r.from /\ q.aside = r.aside
  BY DEF Runs

\* The run ends: its set is let go.
LEMMA FinishedRun ==
  ASSUME TypeOK, NEW w \in Workspaces, Finish(w)
  PROVE  /\ run'[w].pc = "idle" /\ \A v \in Workspaces : v # w => run'[v] = run[v]
         /\ waits \ {w} \subseteq waits' /\ \A s \in detached : s[1] # w => s \in detached'
<1>1. SetOf(w)[1] = w
  BY DEF SetOf
<1> QED
  BY <1>1, IdleRunType DEF TypeOK, Finish

LEMMA GraceEndsTokens ==
  ASSUME IInv, Tokens, NEW w \in Workspaces, GraceEnds(w)
  PROVE  Tokens'
<1>1. /\ grace' = grace \ {w} /\ run[w].pc \notin {"send", "answered"}
      /\ UNCHANGED <<newest, revoked, slot, marker, registry, launch, bound, current, unpersisted, detached, parked, waits,
                     run, flush, signing, steps, excused>>
  BY DEF GraceEnds, storedVars, launchVars, setVars
<1>2. FlushApart' /\ FirstPair' /\ Marked'
  BY <1>1, MarkedSame DEF Tokens, FlushApart, FirstPair
<1>3. ASSUME NEW v \in Workspaces \ excused'
      PROVE  Safe(v)'
  <2>1. Safe(v) /\ (Gone(v) => Gone(v)')
    BY <1>1 DEF Tokens, Gone
  <2>2. v \in grace => v \in grace' \/ run[v].pc \notin {"send", "answered"}
    BY <1>1
  <2> QED
    BY <1>1, <2>1, <2>2, SameTokens
<1> QED
  BY <1>2, <1>3 DEF Tokens

\* The server answers: a token that is not the unconsumed one is in its grace, so
\* no answer is a revocation for reuse.
LEMMA ServeTokens ==
  ASSUME IInv, Tokens, NoReuse, NEW w \in Workspaces, Serve(w)
  PROVE  Tokens' /\ NoReuse'
<1>1. /\ run[w].pc = "send" /\ TypeOK /\ newest[w] \in Nat /\ run[w] \in Runs /\ run[w].from \in Nat
      /\ UNCHANGED <<slot, marker, registry, launch, bound, current, unpersisted, detached, parked, waits,
                     flush, signing, steps, excused>>
  BY DEF Serve, IInv, TypeOK, Runs, storedVars, launchVars, setVars
<1>2. PICK a \in {"none", "ok", "revoked"}, n \in Nat :
        /\ Answered(w, a, n)
        /\ \/ /\ Rotates(w) /\ newest' = [newest EXCEPT ![w] = @ + 1] /\ grace' = grace \cup {w}
              /\ (a = "ok" /\ n = newest[w] + 1) \/ a = "none"
              /\ UNCHANGED <<revoked, reused>>
           \/ Redelivers(w) /\ a = "ok" /\ n = newest[w] /\ UNCHANGED serverVars
           \/ /\ IsReuse(w) /\ a = "revoked" /\ revoked' = revoked \cup {w} /\ reused' = reused \cup {w}
              /\ UNCHANGED <<newest, grace>>
           \/ w \in revoked /\ a = "revoked" /\ UNCHANGED serverVars
           \/ a = "none" /\ UNCHANGED serverVars
  BY <1>1 DEF Serve
<1>3. /\ run'[w].pc = "answered" /\ run'[w].answer = a /\ run'[w].next = n /\ run'[w].kind = run[w].kind
      /\ run'[w].from = run[w].from /\ run'[w].aside = run[w].aside
      /\ \A v \in Workspaces : v # w => run'[v] = run[v]
  <2> DEFINE q == [run[w] EXCEPT !.pc = "answered", !.answer = a, !.next = n]
  <2>1. run \in [Workspaces -> Runs] /\ run' = [run EXCEPT ![w] = q]
    BY <1>1, <1>2 DEF TypeOK, Answered
  <2>2. 0 \in 0 .. MaxAttempts /\ 0 \in 0 .. 2 /\ TRUE \in BOOLEAN
    BY AttemptsAssumption
  <2>3. /\ q.pc = "answered" /\ q.answer = a /\ q.next = n /\ q.kind = run[w].kind /\ q.from = run[w].from
        /\ q.aside = run[w].aside
    BY <1>1, <2>2, RunFields
  <2> HIDE DEF q
  <2> QED
    BY <2>1, <2>3
<1>4. /\ revoked \subseteq revoked' /\ grace \subseteq grace' /\ \A v \in Workspaces : v # w => newest'[v] = newest[v]
  BY <1>1, <1>2 DEF TypeOK, serverVars
<1>5. w \notin excused /\ w \notin revoked => ~IsReuse(w)
  BY <1>1 DEF Tokens, Safe, Presented, IsReuse, Redelivers
<1>6. NoReuse'
  BY <1>1, <1>2, <1>5 DEF NoReuse, IsReuse, serverVars
<1>7. ASSUME w \notin excused PROVE Safe(w)'
  <2>1. Safe(w) /\ SetOf(w)' = SetOf(w)
    BY <1>1, <1>3, <1>7 DEF Tokens, SetOf
  <2>2. Saved(w)' /\ Own(w)'
    BY <1>1, <1>3, <2>1 DEF Safe, Saved, Own, InUse, Gone
  <2>3. Newest(w)'
    BY <1>3 DEF Newest
  <2>4. ASSUME w \notin revoked' PROVE Presented(w)'
    <3>1. /\ Presented(w) /\ w \notin revoked /\ ~IsReuse(w)
      BY <1>4, <1>5, <1>7, <2>1, <2>4 DEF Safe
    <3>2. /\ Gone(w)' \/ slot'[w] \in {0, run'[w].from}
          /\ run'[w].kind = "refresh" => Gone(w)' \/ Alive(SetOf(w))'
      BY <1>1, <1>3, <2>1, <3>1 DEF Presented, Gone, Alive
    <3>3. /\ a = "none" => newest'[w] = run[w].from \/ (newest'[w] = run[w].from + 1 /\ w \in grace')
          /\ a = "ok" => n = newest'[w]
          /\ a # "revoked"
      <4>1. newest[w] = run[w].from \/ (newest[w] = run[w].from + 1 /\ w \in grace)
        BY <1>1, <3>1 DEF Presented
      <4> QED
        BY <1>1, <1>2, <3>1, <4>1 DEF TypeOK, Rotates, Redelivers, serverVars
    <3> QED
      BY <1>3, <3>2, <3>3 DEF Presented
  <2> QED
    BY <2>2, <2>3, <2>4 DEF Safe
<1>8. signing # w
  BY <1>1, RunIsKnown
<1> QED
  BY <1>1, <1>3, <1>4, <1>6, <1>7, <1>8, RunTokens

LEMMA RefreshTokens ==
  ASSUME IInv, Tokens, NEW w \in Workspaces, Refresh(w)
  PROVE  Tokens'
<1>1. /\ TypeOK /\ current # NoSet /\ current[1] = w /\ run[w].pc = "idle" /\ current \in Sets
      /\ UNCHANGED <<newest, grace, revoked, slot, marker, registry, launch, bound, current, unpersisted, detached, parked,
                     waits, flush, signing, steps, excused>>
  BY DEF Refresh, IInv, TypeOK, serverVars, storedVars, launchVars, setVars
<1>2. current[2] \in Nat /\ current = <<w, current[2]>>
  BY <1>1 DEF Sets
<1>3. /\ run'[w].pc = "send" /\ run'[w].kind = "refresh" /\ run'[w].from = current[2] /\ ~run'[w].aside
      /\ \A v \in Workspaces : v # w => run'[v] = run[v]
  <2> DEFINE q == [IdleRun EXCEPT !.pc = "send", !.from = current[2], !.tries = 1]
  <2>1. run \in [Workspaces -> Runs] /\ run' = [run EXCEPT ![w] = q]
    BY <1>1 DEF TypeOK, Refresh
  <2>2. q.pc = "send" /\ q.kind = "refresh" /\ q.from = current[2] /\ ~q.aside
    BY DEF IdleRun
  <2> HIDE DEF q
  <2> QED
    BY <2>1, <2>2
<1>4. ASSUME w \notin excused PROVE Safe(w)'
  <2>1. Safe(w) /\ InUse(w) /\ SetOf(w)' = current
    BY <1>1, <1>2, <1>3, <1>4 DEF Tokens, SetOf, InUse
  <2>2. Saved(w)' /\ Own(w)'
    BY <1>1, <1>3, <2>1 DEF Safe, Saved, Own, InUse
  <2>3. Newest(w)'
    BY <1>3 DEF Newest
  <2>4. ASSUME w \notin revoked' PROVE Presented(w)'
    <3>1. slot[w] = current[2] /\ current[2] = newest[w]
      BY <1>1, <2>1, <2>4 DEF Safe, Saved, Newest
    <3> QED
      BY <1>1, <1>3, <2>1, <3>1 DEF Presented, Alive
  <2> QED
    BY <2>2, <2>3, <2>4 DEF Safe
<1>5. signing # w
  BY <1>1, NoneAssumption DEF IInv, InFront
<1> QED
  BY <1>1, <1>3, <1>4, <1>5, RunTokens

LEMMA CheckInTokens ==
  ASSUME IInv, Tokens, NEW w \in Workspaces, CheckIn(w)
  PROVE  Tokens'
<1>1. /\ TypeOK /\ w \in registry /\ w # bound /\ w # session /\ w \notin marker /\ run[w].pc = "idle" /\ slot[w] # 0
      /\ waits' = waits \cup {w} /\ slot[w] \in Nat
      /\ UNCHANGED <<newest, grace, revoked, slot, marker, registry, launch, bound, current, unpersisted, detached, parked,
                     flush, signing, steps, excused>>
  BY DEF CheckIn, IInv, TypeOK, serverVars, storedVars, launchVars
<1>2. /\ run'[w].pc = "send" /\ run'[w].kind = "checkin" /\ run'[w].from = slot[w]
      /\ \A v \in Workspaces : v # w => run'[v] = run[v]
  <2> DEFINE q == [IdleRun EXCEPT !.pc = "send", !.kind = "checkin", !.from = slot[w], !.tries = 1]
  <2>1. run \in [Workspaces -> Runs] /\ run' = [run EXCEPT ![w] = q]
    BY <1>1 DEF TypeOK, CheckIn
  <2>2. q.pc = "send" /\ q.kind = "checkin" /\ q.from = slot[w]
    BY DEF IdleRun
  <2> HIDE DEF q
  <2> QED
    BY <2>1, <2>2
<1>3. ASSUME w \notin excused PROVE Safe(w)'
  <2>1. Safe(w) /\ ~InUse(w)' /\ ~Gone(w)
    BY <1>1, <1>3 DEF Tokens, InUse, IInv, InFront, Gone
  <2>2. Saved(w)' /\ Own(w)'
    BY <1>1, <1>2, <2>1 DEF Safe, Saved, Own
  <2>3. Newest(w)'
    BY <1>2 DEF Newest
  <2>4. ASSUME w \notin revoked' PROVE Presented(w)'
    <3>1. slot[w] = newest[w]
      BY <1>1, <2>1, <2>4 DEF Safe, Newest
    <3> QED
      BY <1>1, <1>2, <3>1 DEF Presented
  <2> QED
    BY <2>2, <2>3, <2>4 DEF Safe
<1>4. signing # w
  BY <1>1, NoneAssumption DEF IInv, SignedUp
<1> QED
  BY <1>1, <1>2, <1>3, <1>4, RunTokens

LEMMA RetryTokens ==
  ASSUME IInv, Tokens, NEW w \in Workspaces, Retry(w)
  PROVE  Tokens'
<1>1. /\ TypeOK /\ run[w].pc = "answered" /\ run[w].answer = "none"
      /\ UNCHANGED <<newest, grace, revoked, slot, marker, registry, launch, bound, current, unpersisted, detached, parked,
                     waits, flush, signing, steps, excused>>
  BY DEF Retry, IInv, TypeOK, serverVars, storedVars, launchVars, setVars
<1>2. /\ run'[w].pc = "send" /\ run'[w].kind = run[w].kind /\ run'[w].from = run[w].from /\ run'[w].aside = run[w].aside
      /\ \A v \in Workspaces : v # w => run'[v] = run[v]
  <2> DEFINE q == [run[w] EXCEPT !.pc = "send", !.tries = @ + 1]
  <2>1. run \in [Workspaces -> Runs] /\ run' = [run EXCEPT ![w] = q]
    BY <1>1 DEF TypeOK, Retry
  <2>2. q.pc = "send" /\ q.kind = run[w].kind /\ q.from = run[w].from /\ q.aside = run[w].aside
    BY <2>1 DEF Runs
  <2> HIDE DEF q
  <2> QED
    BY <2>1, <2>2
<1>3. ASSUME w \notin excused PROVE Safe(w)'
  <2>1. Safe(w) /\ SetOf(w)' = SetOf(w)
    BY <1>1, <1>2, <1>3 DEF Tokens, SetOf
  <2>2. Saved(w)' /\ Own(w)'
    BY <1>1, <1>2, <2>1 DEF Safe, Saved, Own, InUse, Gone
  <2>3. Newest(w)'
    BY <1>2 DEF Newest
  <2>4. ASSUME w \notin revoked' PROVE Presented(w)'
    BY <1>1, <1>2, <2>1, <2>4 DEF Safe, Presented, Gone, Alive
  <2> QED
    BY <2>2, <2>3, <2>4 DEF Safe
<1>4. signing # w
  BY <1>1, RunIsKnown
<1> QED
  BY <1>1, <1>2, <1>3, <1>4, RunTokens

\* A run that ends without storing a pair: the device has the unconsumed token, or
\* the workspace is revoked, gone or excused.
LEMMA FinishTokens ==
  ASSUME IInv, Tokens, NEW w \in Workspaces, run[w].pc # "idle", Finish(w), excused \subseteq excused',
         w \notin excused' /\ w \notin revoked =>
             /\ Gone(w) \/ slot[w] \in {0, newest[w]}
             /\ InUse(w) => current[2] = newest[w],
         UNCHANGED <<newest, grace, revoked, slot, marker, registry, launch, bound, current, unpersisted, parked,
                     flush, signing, steps>>
  PROVE  Tokens'
<1>1. /\ run'[w].pc = "idle" /\ \A v \in Workspaces : v # w => run'[v] = run[v]
      /\ waits \ {w} \subseteq waits' /\ \A s \in detached : s[1] # w => s \in detached'
  BY FinishedRun DEF IInv
<1>2. ASSUME w \notin excused' PROVE Safe(w)'
  <2>1. Saved(w)' /\ Own(w)' /\ Presented(w)'
    BY <1>1, <1>2 DEF Tokens, Safe, Saved, Own, Presented, InUse
  <2>2. w \notin revoked' => Newest(w)'
    BY <1>2 DEF Newest, Gone, InUse
  <2> QED
    BY <2>1, <2>2 DEF Safe
<1>3. signing # w
  BY RunIsKnown
<1> QED
  BY <1>1, <1>2, <1>3, RunTokens

\* What a run has in hand.
LEMMA InHand ==
  ASSUME IInv, Tokens, NEW w \in Workspaces, run[w].pc # "idle", w \notin excused
  PROVE  /\ InUse(w) => current = SetOf(w) /\ run[w].kind = "refresh" /\ ~run[w].aside
         /\ w \notin revoked => Presented(w)
<1>1. InUse(w) => current[2] = run[w].from /\ run[w].kind = "refresh" /\ ~run[w].aside
  BY DEF Tokens, Safe, Own
<1>2. InUse(w) => current = <<w, current[2]>>
  BY DEF IInv, TypeOK, Sets, InUse
<1> QED
  BY <1>1, <1>2 DEF Tokens, Safe, SetOf

LEMMA GiveUpTokens ==
  ASSUME IInv, Tokens, NEW w \in Workspaces, GiveUp(w)
  PROVE  Tokens'
<1>1. /\ run[w].pc = "answered" /\ run[w].answer = "none" /\ Finish(w)
      /\ excused' = IF newest[w] # run[w].from THEN excused \cup {w} ELSE excused
      /\ UNCHANGED <<newest, grace, revoked, slot, marker, registry, launch, bound, current, unpersisted, parked,
                     flush, signing, steps>>
  BY DEF GiveUp, serverVars, storedVars, launchVars
<1>2. ASSUME w \notin excused', w \notin revoked
      PROVE  (Gone(w) \/ slot[w] \in {0, newest[w]}) /\ (InUse(w) => current[2] = newest[w])
  <2>1. newest[w] = run[w].from /\ w \notin excused
    BY <1>1, <1>2
  <2>2. Presented(w) /\ (InUse(w) => current = SetOf(w))
    BY <1>1, <1>2, <2>1, InHand
  <2> QED
    BY <1>1, <2>1, <2>2 DEF Presented, SetOf
<1> QED
  BY <1>1, <1>2, FinishTokens

LEMMA RotatedTokens ==
  ASSUME IInv, Tokens, NEW w \in Workspaces, Rotated(w)
  PROVE  Tokens'
<1>1. /\ run[w].pc = "answered" /\ run[w].answer = "ok" /\ TypeOK
      /\ UNCHANGED <<newest, grace, revoked, slot, marker, registry, launch, bound, current, unpersisted, parked,
                     flush, signing, steps, excused>>
  BY DEF Rotated, IInv, serverVars, storedVars, launchVars
<1>2. CASE run[w].kind = "checkin" \/ Alive(SetOf(w))
  <2>1. /\ run'[w].pc = "issue" /\ run'[w].kind = run[w].kind /\ run'[w].from = run[w].from /\ run'[w].next = run[w].next
        /\ run'[w].aside = (current # SetOf(w)) /\ UNCHANGED <<detached, waits>>
        /\ \A v \in Workspaces : v # w => run'[v] = run[v]
    <3> DEFINE b == current # SetOf(w)
               q == [run[w] EXCEPT !.pc = "issue", !.left = 2, !.aside = b]
    <3>1. run \in [Workspaces -> Runs] /\ run' = [run EXCEPT ![w] = q] /\ UNCHANGED <<detached, waits>>
      BY <1>1, <1>2 DEF TypeOK, Rotated
    <3>2. q.pc = "issue" /\ q.kind = run[w].kind /\ q.from = run[w].from /\ q.next = run[w].next /\ q.aside = b
      <4> HIDE DEF b
      <4> QED
        BY <3>1 DEF Runs
    <3> HIDE DEF q
    <3> QED
      BY <3>1, <3>2
  <2>2. ASSUME w \notin excused PROVE Safe(w)'
    <3>1. Safe(w) /\ SetOf(w)' = SetOf(w) /\ (InUse(w) => current = SetOf(w))
      BY <1>1, <2>1, <2>2, InHand DEF Tokens, SetOf
    <3>2. Saved(w)' /\ Own(w)'
      BY <1>1, <2>1, <3>1 DEF Safe, Saved, Own, InUse, Gone
    <3>3. Newest(w)'
      BY <2>1 DEF Newest
    <3>4. ASSUME w \notin revoked' PROVE Presented(w)'
      BY <1>1, <2>1, <3>1, <3>4 DEF Safe, Presented, Gone, Alive
    <3> QED
      BY <3>2, <3>3, <3>4 DEF Safe
  <2>3. signing # w
    BY <1>1, RunIsKnown
  <2> QED
    BY <1>1, <2>1, <2>2, <2>3, RunTokens
<1>3. CASE ~(run[w].kind = "checkin" \/ Alive(SetOf(w)))
  <2>1. Finish(w) /\ run[w].kind = "refresh"
    BY <1>1, <1>3 DEF Rotated, TypeOK, Runs
  <2>2. ASSUME w \notin excused', w \notin revoked
        PROVE  (Gone(w) \/ slot[w] \in {0, newest[w]}) /\ (InUse(w) => current[2] = newest[w])
    <3>1. Presented(w) /\ (InUse(w) => current = SetOf(w))
      BY <1>1, <2>2, InHand
    <3> QED
      BY <1>1, <1>3, <2>1, <3>1 DEF Presented, Alive, InUse
  <2> QED
    BY <1>1, <2>1, <2>2, FinishTokens
<1> QED
  BY <1>2, <1>3

LEMMA StoreTokens ==
  ASSUME IInv, Tokens, NEW w \in Workspaces, Store(w)
  PROVE  Tokens'
<1>1. /\ run[w].pc = "issue" /\ TypeOK
      /\ UNCHANGED <<newest, grace, revoked, slot, marker, registry, launch, bound, current, unpersisted, parked,
                     flush, signing, steps, excused>>
  BY DEF Store, IInv, serverVars, storedVars, launchVars
<1>2. CASE MayStore(w)
  <2>1. /\ run'[w].pc = "writing" /\ run'[w].kind = run[w].kind /\ run'[w].from = run[w].from /\ run'[w].next = run[w].next
        /\ run'[w].aside = run[w].aside /\ UNCHANGED <<detached, waits>>
        /\ \A v \in Workspaces : v # w => run'[v] = run[v]
    <3> DEFINE q == [run[w] EXCEPT !.pc = "writing"]
    <3>1. run \in [Workspaces -> Runs] /\ run' = [run EXCEPT ![w] = q] /\ UNCHANGED <<detached, waits>>
      BY <1>1, <1>2 DEF TypeOK, Store
    <3>2. q.pc = "writing" /\ q.kind = run[w].kind /\ q.from = run[w].from /\ q.next = run[w].next /\ q.aside = run[w].aside
      BY <3>1 DEF Runs
    <3> HIDE DEF q
    <3> QED
      BY <3>1, <3>2
  <2>2. ASSUME w \notin excused PROVE Safe(w)'
    <3>1. Safe(w) /\ SetOf(w)' = SetOf(w)
      BY <1>1, <2>1, <2>2 DEF Tokens, SetOf
    <3>2. Saved(w)' /\ Own(w)'
      BY <1>1, <2>1, <3>1 DEF Safe, Saved, Own, InUse, Gone
    <3>3. Newest(w)'
      BY <2>1 DEF Newest
    <3>4. ASSUME w \notin revoked' PROVE Presented(w)'
      BY <1>1, <2>1, <3>1, <3>4 DEF Safe, Presented, Gone, Alive
    <3> QED
      BY <3>2, <3>3, <3>4 DEF Safe
  <2>3. signing # w
    BY <1>1, RunIsKnown
  <2> QED
    BY <1>1, <2>1, <2>2, <2>3, RunTokens
<1>3. CASE ~MayStore(w)
  <2>1. Finish(w)
    BY <1>3 DEF Store
  <2>2. ASSUME w \notin excused', w \notin revoked
        PROVE  (Gone(w) \/ slot[w] \in {0, newest[w]}) /\ (InUse(w) => current[2] = newest[w])
    <3>1. Presented(w) /\ (InUse(w) => current = SetOf(w) /\ run[w].kind = "refresh")
      BY <1>1, <2>2, InHand
    <3>2. run[w].kind \in {"refresh", "checkin"}
      BY <1>1 DEF TypeOK, Runs
    <3> QED
      BY <1>1, <1>3, <3>1, <3>2 DEF Presented, Alive, MayStore, Gone
  <2> QED
    BY <1>1, <2>1, <2>2, FinishTokens
<1> QED
  BY <1>2, <1>3

\* A refused token ends the run; an end of the active session may begin.
LEMMA DeadTokens ==
  ASSUME IInv, Tokens, NEW w \in Workspaces, Dead(w)
  PROVE  Tokens'
<1>1. /\ run[w].pc = "answered" /\ run[w].answer = "revoked" /\ Finish(w) /\ TypeOK
      /\ UNCHANGED <<newest, grace, revoked, slot, marker, registry, launch, bound, current, unpersisted, parked,
                     flush, signing, excused>>
  BY DEF Dead, IInv, serverVars, storedVars, launchVars
<1>2. /\ run'[w].pc = "idle" /\ \A v \in Workspaces : v # w => run'[v] = run[v]
      /\ waits \ {w} \subseteq waits' /\ \A s \in detached : s[1] # w => s \in detached'
  BY <1>1, FinishedRun
<1>3. steps'["chain"] = steps["chain"] /\ (steps' = steps \/ steps'["end"].pc = "mark")
  <2>1. CASE UNCHANGED steps
    BY <2>1
  <2>2. CASE Start("end", w)
    BY <1>1, <2>2, FlowStarts, Types
  <2> QED
    BY <2>1, <2>2 DEF Dead, Start
<1>4. FlushApart' /\ FirstPair' /\ Marked'
  BY <1>1, <1>3 DEF Tokens, FlushApart, FirstPair, Marked, Gone, Flows
<1>5. ASSUME w \notin excused PROVE Safe(w)'
  <2>1. Safe(w) /\ w \in revoked
    BY <1>1, <1>5 DEF Tokens, Safe, Presented
  <2>2. Saved(w)' /\ Own(w)'
    BY <1>1, <1>2, <1>3, <2>1 DEF Safe, Saved, Own, InUse
  <2> QED
    BY <1>1, <2>1, <2>2 DEF Safe
<1>6. \A v \in Workspaces \ excused' : v # w =>
         /\ (Gone(v) => Gone(v)') /\ (InUse(v) \/ InUse(v)' => UNCHANGED <<current, unpersisted>>)
         /\ (v \in waits => v \in waits')
         /\ (\A s \in detached : s[1] = v => s \in detached')
  BY <1>1, <1>2 DEF Gone
<1> QED
  BY <1>1, <1>2, <1>3, <1>4, <1>5, <1>6, OneTokens

\* The end of a round of attempts to store touches one workspace.
LEMMA ConcludedOthers ==
  ASSUME TypeOK, NEW w \in Workspaces, NEW ok \in BOOLEAN, Concluded(w, ok)
  PROVE  /\ \A v \in Workspaces : v # w =>
              /\ run'[v] = run[v] /\ parked'[v] = parked[v] /\ (v \in waits => v \in waits')
              /\ (\A s \in detached : s[1] = v => s \in detached')
              /\ (InUse(v) \/ InUse(v)' => UNCHANGED <<current, unpersisted>>)
<1>1. run \in [Workspaces -> Runs] /\ parked \in [Workspaces -> Nat]
  BY DEF TypeOK
<1>2. SetOf(w)[1] = w /\ <<w, run[w].next>>[1] = w
  BY DEF SetOf
<1>3. CASE run[w].kind = "refresh" /\ ~run[w].aside /\ current = SetOf(w)
  <2>1. current' = <<w, run[w].next>> /\ Finish(w) /\ parked' = parked
    BY <1>3 DEF Concluded
  <2>2. \A v \in Workspaces : v # w => ~InUse(v) /\ ~InUse(v)'
    BY <1>2, <1>3, <2>1 DEF InUse
  <2> QED
    BY <2>1, <2>2, FinishedRun
<1>4. CASE ~(run[w].kind = "refresh" /\ ~run[w].aside /\ current = SetOf(w))
  <2>1. UNCHANGED <<current, unpersisted>>
    BY <1>4 DEF Concluded
  <2>2. CASE run' = [run EXCEPT ![w].pc = "issue", ![w].left = 2, ![w].aside = TRUE] /\ UNCHANGED <<parked, detached, waits>>
    BY <1>1, <2>1, <2>2
  <2>3. CASE Finish(w) /\ \E n : parked' = [parked EXCEPT ![w] = n]
    <3>1. \A v \in Workspaces : v # w => parked'[v] = parked[v]
      BY <1>1, <2>3
    <3> QED
      BY <2>1, <2>3, <3>1, FinishedRun
  <2>4. \/ run' = [run EXCEPT ![w].pc = "issue", ![w].left = 2, ![w].aside = TRUE] /\ UNCHANGED <<parked, detached, waits>>
        \/ Finish(w) /\ parked' = [parked EXCEPT ![w] = IF ok THEN (IF @ = run[w].from THEN 0 ELSE @)
                                    ELSE IF run[w].kind = "checkin" \/ SetOf(w) \in detached THEN run[w].next ELSE @]
    BY <1>4 DEF Concluded
  <2> QED
    BY <2>2, <2>3, <2>4
<1> QED
  BY <1>3, <1>4

\* The new pair is in the slot before it is the active one.
LEMMA StoredTokens ==
  ASSUME IInv, Tokens, NEW w \in Workspaces, Stored(w)
  PROVE  Tokens'
<1>1. /\ run[w].pc = "writing" /\ TypeOK /\ Concluded(w, TRUE) /\ slot' = [slot EXCEPT ![w] = run[w].next]
      /\ UNCHANGED <<newest, grace, revoked, marker, registry, launch, bound, flush, signing, steps, excused>>
  BY DEF Stored, IInv, Works, serverVars, launchVars
<1>2. slot'[w] = run[w].next /\ \A v \in Workspaces : v # w => slot'[v] = slot[v]
  BY <1>1 DEF TypeOK
<1>3. FlushApart' /\ FirstPair' /\ Marked'
  BY <1>1, MarkedSame DEF Tokens, FlushApart, FirstPair
<1>4. ASSUME w \notin excused PROVE Safe(w)'
  <2>1. /\ Safe(w) /\ parked[w] = 0 /\ (w \notin revoked => run[w].next = newest[w])
        /\ (InUse(w) => current = SetOf(w) /\ run[w].kind = "refresh" /\ ~run[w].aside)
    BY <1>1, <1>4, InHand DEF Tokens, Safe, Saved, Presented
  <2>2. CASE InUse(w)
    <3>1. current' = <<w, run[w].next>> /\ unpersisted' = FALSE /\ Finish(w) /\ parked' = parked
      BY <1>1, <2>1, <2>2 DEF Concluded
    <3>2. run'[w].pc = "idle"
      BY <1>1, <3>1, FinishedRun
    <3>3. Saved(w)' /\ Own(w)' /\ Presented(w)'
      BY <1>1, <1>2, <2>1, <3>1, <3>2 DEF Safe, Saved, Own, Presented, InUse
    <3>4. w \notin revoked' => Newest(w)'
      BY <1>1, <1>2, <2>1, <3>1 DEF Newest, InUse
    <3> QED
      BY <3>3, <3>4 DEF Safe
  <2>3. CASE ~InUse(w)
    <3>1. current # SetOf(w)
      BY <2>3 DEF InUse, SetOf, NoSet
    <3>2. UNCHANGED <<current, unpersisted>> /\ Finish(w)
          /\ parked' = [parked EXCEPT ![w] = IF @ = run[w].from THEN 0 ELSE @]
      BY <1>1, <3>1 DEF Concluded
    <3>3. run'[w].pc = "idle" /\ parked'[w] = 0
      BY <1>1, <2>1, <3>2, FinishedRun DEF TypeOK
    <3>4. ~InUse(w)'
      BY <2>3, <3>2 DEF InUse
    <3>5. Saved(w)' /\ Own(w)' /\ Presented(w)'
      BY <1>1, <2>1, <3>3, <3>4 DEF Safe, Saved, Own, Presented
    <3>6. w \notin revoked' => Newest(w)'
      BY <1>1, <1>2, <2>1, <3>4 DEF Newest
    <3> QED
      BY <3>5, <3>6 DEF Safe
  <2> QED
    BY <2>2, <2>3
<1>5. \A v \in Workspaces : v # w =>
              /\ run'[v] = run[v] /\ parked'[v] = parked[v] /\ (v \in waits => v \in waits')
              /\ (\A s \in detached : s[1] = v => s \in detached')
              /\ (InUse(v) \/ InUse(v)' => UNCHANGED <<current, unpersisted>>)
              /\ (Gone(v) => Gone(v)')
  BY <1>1, ConcludedOthers DEF Gone
<1> QED
  BY <1>1, <1>2, <1>3, <1>4, <1>5, OneTokens

LEMMA StoreFailsTokens ==
  ASSUME IInv, Tokens, NEW w \in Workspaces, StoreFails(w)
  PROVE  Tokens'
<1>1. /\ TypeOK /\ excused' = excused \cup {w}
      /\ UNCHANGED <<newest, grace, revoked, slot, marker, registry, launch, bound, flush, signing, steps>>
  BY DEF StoreFails, IInv, Fails, serverVars, storedVars, launchVars
<1>2. FlushApart' /\ FirstPair' /\ Marked'
  BY <1>1, MarkedSame DEF Tokens, FlushApart, FirstPair
<1>3. \A v \in Workspaces : v # w =>
              /\ run'[v] = run[v] /\ parked'[v] = parked[v] /\ (v \in waits => v \in waits')
              /\ (\A s \in detached : s[1] = v => s \in detached')
              /\ (InUse(v) \/ InUse(v)' => UNCHANGED <<current, unpersisted>>)
  <2>1. CASE run[w].left = 2
    BY <1>1, <2>1 DEF StoreFails, setVars, TypeOK
  <2>2. CASE run[w].left # 2
    BY <1>1, <2>2, ConcludedOthers DEF StoreFails
  <2> QED
    BY <2>1, <2>2
<1>4. \A v \in Workspaces : Gone(v) => Gone(v)'
  BY <1>1 DEF Gone
<1>5. excused \subseteq excused' /\ w \in excused'
  BY <1>1
<1> QED
  BY <1>1, <1>2, <1>3, <1>4, <1>5, OneTokens

-----------------------------------------------------------------------------
(* Sign-in, flush and switch. *)

LEMMA SignInTokens ==
  ASSUME IInv, Tokens, NEW w \in Workspaces, SignIn(w)
  PROVE  Tokens'
<1>1. /\ TypeOK /\ current = NoSet /\ newest[w] = 0 /\ signing' = w /\ newest' = [newest EXCEPT ![w] = 1]
      /\ UNCHANGED <<grace, revoked, slot, marker, registry, launch, bound, current, unpersisted, detached, parked, waits,
                     run, flush, steps, excused>>
  BY DEF SignIn, IInv, storedVars, launchVars, setVars
<1>2. slot[w] = 0 /\ run[w].pc = "idle" /\ newest'[w] = 1 /\ \A v \in Workspaces : v # w => newest'[v] = newest[v]
  BY <1>1 DEF IInv, Known, TypeOK
<1>3. FlushApart' /\ FirstPair' /\ Marked'
  BY <1>1, <1>2, MarkedSame DEF Tokens, FlushApart, FirstPair
<1>4. ASSUME w \notin excused PROVE Safe(w)'
  <2>1. Saved(w)' /\ Own(w)' /\ Presented(w)' /\ Newest(w)'
    BY <1>1, <1>2, <1>4 DEF Tokens, Safe, Saved, Own, Presented, Newest, InUse
  <2> QED
    BY <2>1 DEF Safe
<1>5. \A v \in Workspaces : (Gone(v) => Gone(v)') /\ (InUse(v) \/ InUse(v)' => UNCHANGED <<current, unpersisted>>)
  BY <1>1 DEF Gone
<1> QED
  BY <1>1, <1>2, <1>3, <1>4, <1>5, OneTokens

LEMMA SignedInTokens ==
  ASSUME IInv, Tokens, NEW w \in Workspaces, SignedIn(w)
  PROVE  Tokens'
<1>1. /\ TypeOK /\ signing = w /\ signing # None /\ signing' = None /\ slot' = [slot EXCEPT ![w] = 1]
      /\ UNCHANGED <<newest, grace, revoked, marker, registry, launch, bound, detached, waits, run, flush, steps, excused>>
  BY NoneAssumption DEF SignedIn, IInv, Works, serverVars, launchVars
<1>2. \/ current' = <<w, 1>> /\ unpersisted' = FALSE /\ parked' = [parked EXCEPT ![w] = 0]
      \/ UNCHANGED <<current, unpersisted, parked>>
  BY DEF SignedIn
<1>3. /\ current = NoSet /\ run[w].pc = "idle" /\ newest[w] = 1 /\ slot'[w] = 1
      /\ \A v \in Workspaces : v # w => slot'[v] = slot[v] /\ parked'[v] = parked[v]
  BY <1>1, <1>2 DEF IInv, InFront, SignedUp, Tokens, FirstPair, TypeOK
<1>4. FlushApart' /\ FirstPair' /\ Marked'
  BY <1>1, MarkedSame DEF Tokens, FlushApart, FirstPair
<1>5. ASSUME w \notin excused PROVE Safe(w)'
  <2>1. parked'[w] = 0 /\ Saved(w)
    BY <1>1, <1>2, <1>5 DEF TypeOK, Tokens, Safe, Saved
  <2>2. Saved(w)'
    BY <1>1, <1>2, <1>3, <2>1 DEF Saved, InUse
  <2>3. Own(w)' /\ Presented(w)'
    BY <1>1, <1>3 DEF Own, Presented
  <2>4. Newest(w)'
    BY <1>1, <1>2, <1>3 DEF Newest, InUse
  <2> QED
    BY <2>2, <2>3, <2>4 DEF Safe
<1>6. \A v \in Workspaces : v # w => (Gone(v) => Gone(v)') /\ ~InUse(v) /\ ~InUse(v)'
  BY <1>1, <1>2, <1>3 DEF Gone, InUse
<1> QED
  BY <1>1, <1>3, <1>4, <1>5, <1>6, OneTokens

\* A flush is only ever of a pair that could not be stored.
LEMMA FlushTokens ==
  ASSUME IInv, Tokens, Flush
  PROVE  Tokens'
<1>1. /\ TypeOK /\ current # NoSet /\ unpersisted /\ launch = "done" /\ current[1] \in Workspaces
      /\ UNCHANGED <<newest, grace, revoked, slot, marker, registry, launch, bound, current, unpersisted, detached, parked,
                     waits, run, signing, steps, excused>>
      /\ flush'.set = current
  BY DEF Flush, Up, IInv, TypeOK, Sets, serverVars, storedVars, launchVars, setVars
<1>2. current[1] \in excused
  BY <1>1 DEF Tokens, Safe, Saved, InUse
<1>3. FlushApart' /\ FirstPair' /\ Marked'
  BY <1>1, MarkedSame DEF Tokens, FlushApart, FirstPair, IInv, InFront, Switching
<1>4. \A v \in Workspaces : (Gone(v) => Gone(v)') /\ (InUse(v) \/ InUse(v)' => UNCHANGED <<current, unpersisted>>)
  BY <1>1 DEF Gone
<1>5. excused \subseteq excused' /\ current[1] \in excused'
  BY <1>1, <1>2
<1> QED
  BY <1>1, <1>3, <1>4, <1>5, OneTokens

\* A flush that ends, stored or not, is not of the other workspaces.
LEMMA FlushOf ==
  ASSUME IInv, Tokens, keychain # <<>>, Head(keychain) = "flush"
  PROVE  /\ flush.set # NoSet /\ flush.set[1] \in Workspaces /\ flush.set[1] \in excused
         /\ \A v \in Workspaces : v # flush.set[1] => ~InUse(v)
<1>1. TypeOK /\ keychain \in Seq(Writers)
  BY Types DEF IInv
<1>2. flush.set # NoSet
  BY <1>1, QueueTail DEF IInv, Flushing
<1>3. flush.set[1] \in Workspaces
  BY <1>1, <1>2 DEF TypeOK, Sets
<1>4. flush.set[1] \in excused
  BY <1>2, <1>3 DEF Tokens, Safe, Saved
<1>5. \A v \in Workspaces : InUse(v) => v = flush.set[1]
  BY <1>2, NoneAssumption DEF Tokens, FlushApart, IInv, InFront, InUse
<1> QED
  BY <1>2, <1>3, <1>4, <1>5

LEMMA FlushedTokens ==
  ASSUME IInv, Tokens, Flushed
  PROVE  Tokens'
<1> DEFINE w == flush.set[1]
<1>1. /\ w \in Workspaces /\ w \in excused /\ TypeOK
      /\ \A v \in Workspaces : v # w => ~InUse(v)
  BY FlushOf DEF Flushed, Landing, IInv
<1>2. /\ slot' = [slot EXCEPT ![w] = flush.set[2]] /\ flush'.set = NoSet
      /\ UNCHANGED <<newest, grace, revoked, marker, registry, launch, bound, current, detached, parked,
                     waits, run, signing, steps, excused>>
  BY DEF Flushed, Works, NoFlush, serverVars, launchVars
<1> HIDE DEF w
<1>3. FlushApart' /\ FirstPair' /\ Marked'
  BY <1>2, MarkedSame DEF Tokens, FlushApart, FirstPair
<1>4. \A v \in Workspaces : v # w => slot'[v] = slot[v] /\ (Gone(v) => Gone(v)') /\ ~InUse(v) /\ ~InUse(v)'
  BY <1>1, <1>2 DEF Gone, InUse, TypeOK
<1>5. excused \subseteq excused' /\ w \in excused' /\ revoked \subseteq revoked'
  BY <1>1, <1>2
<1> QED
  BY <1>1, <1>2, <1>3, <1>4, <1>5, OneTokens

LEMMA FlushFailsTokens ==
  ASSUME IInv, Tokens, FlushFails
  PROVE  Tokens'
<1> DEFINE w == flush.set[1]
<1>1. /\ w \in Workspaces /\ w \in excused /\ flush.set # NoSet /\ TypeOK
      /\ \A v \in Workspaces : v # w => ~InUse(v)
  BY FlushOf DEF FlushFails, IInv
<1>2. /\ flush'.set \in {flush.set, NoSet} /\ excused \subseteq excused'
      /\ UNCHANGED <<newest, grace, revoked, slot, marker, registry, launch, bound, current, parked,
                     waits, run, signing, steps>>
  BY <1>1 DEF FlushFails, Fails, NoFlush, serverVars, storedVars, launchVars, TypeOK
<1>3. \A s \in detached : s[1] # w => s \in detached'
  BY DEF FlushFails
<1> HIDE DEF w
<1>4. FlushApart' /\ FirstPair' /\ Marked'
  BY <1>2, MarkedSame DEF Tokens, FlushApart, FirstPair
<1>5. \A v \in Workspaces : v # w => (Gone(v) => Gone(v)') /\ ~InUse(v) /\ ~InUse(v)'
  BY <1>1, <1>2 DEF Gone, InUse
<1>6. w \in excused' /\ revoked \subseteq revoked'
  BY <1>1, <1>2
<1> QED
  BY <1>1, <1>2, <1>3, <1>4, <1>5, <1>6, OneTokens

\* The set put aside by a switch: with its refresh the workspace waits for it.
LEMMA SwitchTokens ==
  ASSUME IInv, Tokens, NEW to \in Workspaces \cup {None}, Switch(to)
  PROVE  Tokens'
<1> DEFINE inflight == current # NoSet /\ Refreshing(current[1]) /\ SetOf(current[1]) = current
           stores == (current # NoSet /\ unpersisted) /\ ~((current # NoSet /\ unpersisted) /\ current[1] \in marker)
           p == IF stores THEN "flush" ELSE "settle"
<1>1. /\ TypeOK /\ launch = "done" /\ steps["chain"].pc = "idle" /\ current \in Sets \cup {NoSet}
      /\ bound' = None /\ current' = NoSet /\ unpersisted' = FALSE
      /\ UNCHANGED <<newest, grace, revoked, slot, marker, registry, launch, parked, run, flush, signing, excused>>
  BY DEF IInv, TypeOK, Switch, Up, InFlow, serverVars, storedVars, launchVars
<1>2. /\ detached \subseteq detached' /\ waits \subseteq waits'
      /\ inflight => current[1] \in waits' /\ (~unpersisted => current \in detached')
      /\ steps' = [steps EXCEPT !["chain"] =
             [IdleFlow EXCEPT !.pc = p, !.ws = to, !.set = current, !.left = 2, !.inflight = inflight]]
  BY DEF Switch
<1>3. /\ p \in FlowStates /\ p \in {"flush", "settle"} /\ (p = "flush" => current # NoSet /\ unpersisted)
      /\ inflight \in BOOLEAN
  BY DEF FlowStates
<1>4. /\ steps'["end"] = steps["end"] /\ steps'["chain"].pc = p /\ steps'["chain"].set = current
  <2> DEFINE i == IdleFlow
             r == [i EXCEPT !.pc = p, !.ws = to, !.set = current, !.left = 2, !.inflight = inflight]
  <2>1. i \in FlowRecords /\ steps' = [steps EXCEPT !["chain"] = r] /\ 2 \in 0 .. 2
    BY <1>2, IdleFlowType
  <2> HIDE DEF i, p, inflight
  <2>2. r.pc = p /\ r.set = current
    BY <1>1, <1>3, <2>1 DEF FlowRecords
  <2> HIDE DEF r
  <2> QED
    BY <1>1, <2>1, <2>2, Types
<1>5. inflight <=> (current # NoSet /\ Refreshing(current[1]) /\ SetOf(current[1]) = current)
  OBVIOUS
<1> HIDE DEF inflight, p, stores
<1>6. FlushApart' /\ FirstPair'
  BY <1>1, <1>3, <1>4 DEF Tokens, FlushApart, FirstPair
<1>7. Marked'
  BY <1>1, <1>3, <1>4 DEF Tokens, Marked, Gone, Flows
<1>8. ASSUME NEW v \in Workspaces \ excused, ~InUse(v)
      PROVE  Safe(v)'
  <2>1. ~InUse(v)' /\ (Gone(v) => Gone(v)') /\ Safe(v)
    BY <1>1, <1>8 DEF InUse, Gone, Tokens
  <2>2. ~(steps'["chain"].pc = "flush" /\ steps'["chain"].set[1] = v)
    BY <1>3, <1>4, <1>8 DEF InUse
  <2> QED
    BY <1>1, <1>2, <1>8, <2>1, <2>2, SameTokens
<1>9. ASSUME NEW v \in Workspaces \ excused, InUse(v)
      PROVE  Safe(v)'
  <2>1. /\ Safe(v) /\ Saved(v) /\ ~unpersisted /\ ~InUse(v)' /\ (Gone(v) => Gone(v)') /\ SetOf(v)' = SetOf(v)
        /\ current[1] = v
    BY <1>1, <1>9 DEF InUse, Gone, Tokens, Safe, Saved, SetOf
  <2>2. Saved(v)'
    BY <1>1, <1>3, <1>4, <2>1 DEF Saved
  <2>3. current = <<v, current[2]>> /\ SetOf(v) = <<v, run[v].from>> /\ SetOf(v) # NoSet
    BY <1>1, <1>9 DEF Sets, InUse, SetOf, NoSet
  <2>4. run[v].pc # "idle" => v \in waits' /\ SetOf(v) \in detached'
    <3>1. run[v].pc # "idle" => run[v].kind = "refresh" /\ current = SetOf(v)
      BY <1>9, <2>1, <2>3 DEF Safe, Own
    <3> QED
      BY <1>2, <1>5, <1>9, <2>1, <3>1 DEF Refreshing, InUse
  <2>5. Own(v)'
    BY <1>1, <2>1, <2>4 DEF Own
  <2>6. Newest(v) => Newest(v)'
    BY <1>1, <2>1 DEF Newest
  <2>7. Presented(v) => Presented(v)'
    BY <1>1, <2>1, <2>3, <2>4 DEF Presented, Alive
  <2> QED
    BY <1>1, <2>1, <2>2, <2>5, <2>6, <2>7 DEF Safe
<1> QED
  BY <1>1, <1>6, <1>7, <1>8, <1>9 DEF Tokens

\* The pair a switch stores is one that could not be stored before.
LEMMA HookOf ==
  ASSUME IInv, Tokens, steps["chain"].pc = "flush"
  PROVE  /\ steps["chain"].set[1] \in Workspaces /\ steps["chain"].set[1] \in excused /\ current = NoSet
<1>1. steps["chain"].set[1] \in Workspaces
  BY HookSet
<1>2. steps["chain"].set[1] \in excused
  BY <1>1 DEF Tokens, Safe, Saved
<1>3. current = NoSet
  BY DEF IInv, InFront, Switching
<1> QED
  BY <1>1, <1>2, <1>3

LEMMA HookDoneTokens ==
  ASSUME IInv, Tokens, steps["chain"].pc = "flush", NEW w, w = steps["chain"].set[1],
         steps'["end"] = steps["end"], steps'["chain"].pc \in {"flush", "settle"}, steps'["chain"].set = steps["chain"].set,
         excused \subseteq excused',
         \A v \in Workspaces : v # w => slot'[v] = slot[v] /\ parked'[v] = parked[v],
         \A s \in detached : s[1] # w => s \in detached',
         UNCHANGED <<newest, grace, revoked, marker, registry, launch, bound, current, unpersisted, waits, run, flush, signing>>
  PROVE  Tokens'
<1>1. w \in Workspaces /\ w \in excused' /\ revoked \subseteq revoked'
  BY HookOf
<1>2. FlushApart' /\ FirstPair'
  BY DEF Tokens, FlushApart, FirstPair
<1>3. Marked'
  BY DEF Tokens, Marked, Gone, Flows
<1>4. \A v \in Workspaces : v # w =>
         /\ run'[v] = run[v] /\ slot'[v] = slot[v] /\ newest'[v] = newest[v] /\ parked'[v] = parked[v]
         /\ (Gone(v) => Gone(v)') /\ (v \in grace => v \in grace') /\ (v \in waits => v \in waits')
         /\ (\A s \in detached : s[1] = v => s \in detached')
         /\ (InUse(v) \/ InUse(v)' => UNCHANGED <<current, unpersisted>>)
  BY DEF Gone
<1>5. \A v \in Workspaces : v # w =>
         /\ (flush'.set # NoSet /\ flush'.set[1] = v => flush'.set = flush.set)
         /\ (steps'["chain"].pc = "flush" /\ steps'["chain"].set[1] = v =>
                steps["chain"].pc = "flush" /\ steps["chain"].set[1] = v)
  OBVIOUS
<1> QED
  BY <1>1, <1>2, <1>3, <1>4, <1>5, OneTokens

LEMMA HookStoresTokens ==
  ASSUME IInv, Tokens, HookStores
  PROVE  Tokens'
<1> DEFINE w == steps["chain"].set[1]
<1>1. /\ TypeOK /\ steps["chain"].pc = "flush" /\ GoTo("chain", "settle") /\ excused' = excused
      /\ slot' = [slot EXCEPT ![w] = steps["chain"].set[2]]
      /\ \E n : parked' = [parked EXCEPT ![w] = n]
      /\ detached' = detached \/ detached' = detached \ {<<w, steps["chain"].set[2]>>}
      /\ UNCHANGED <<newest, grace, revoked, marker, registry, launch, bound, current, unpersisted, waits, run, flush, signing>>
  BY DEF IInv, HookStores, InFlow, Works, PutAside, GoTo, serverVars, launchVars
<1>2. /\ \A v \in Workspaces : v # w => slot'[v] = slot[v] /\ parked'[v] = parked[v]
      /\ \A s \in detached : s[1] # w => s \in detached'
  BY <1>1 DEF TypeOK
<1>3. steps'["end"] = steps["end"] /\ steps'["chain"].pc = "settle" /\ steps'["chain"].set = steps["chain"].set
  BY <1>1, FlowGoes, Types DEF FlowStates
<1> QED
  BY <1>1, <1>2, <1>3, HookDoneTokens

LEMMA HookFailsTokens ==
  ASSUME IInv, Tokens, HookFails
  PROVE  Tokens'
<1> DEFINE w == steps["chain"].set[1]
<1>1. /\ TypeOK /\ steps["chain"].pc = "flush" /\ excused' = excused \cup {w}
      /\ steps' = [steps EXCEPT !["chain"].left = 1] \/ GoTo("chain", "settle")
      /\ parked' = parked \/ parked' = [parked EXCEPT ![w] = steps["chain"].set[2]]
      /\ detached' = detached \/ detached' = detached \ {<<w, steps["chain"].set[2]>>}
      /\ UNCHANGED <<newest, grace, revoked, slot, marker, registry, launch, bound, current, unpersisted, waits, run, flush, signing>>
  BY DEF IInv, HookFails, InFlow, Fails, PutAside, GoTo, serverVars, storedVars, launchVars
<1>2. /\ \A v \in Workspaces : v # w => slot'[v] = slot[v] /\ parked'[v] = parked[v]
      /\ \A s \in detached : s[1] # w => s \in detached'
  <2> HIDE DEF w
  <2>1. \A v \in Workspaces : v # w => parked'[v] = parked[v]
    BY <1>1 DEF TypeOK
  <2>2. \A s \in detached : s[1] # w => s \in detached'
    BY <1>1
  <2> QED
    BY <1>1, <2>1, <2>2
<1>3. /\ steps'["end"] = steps["end"] /\ steps'["chain"].pc \in {"flush", "settle"}
      /\ steps'["chain"].set = steps["chain"].set
  <2>1. CASE steps' = [steps EXCEPT !["chain"].left = 1]
    BY <1>1, <2>1, Types DEF FlowRecords
  <2>2. CASE GoTo("chain", "settle")
    BY <1>1, <2>2, FlowGoes, Types DEF FlowStates
  <2> QED
    BY <1>1, <2>1, <2>2
<1> QED
  BY <1>1, <1>2, <1>3, HookDoneTokens

\* A restore takes the stored pair: nothing of the workspace is under way or parked.
LEMMA RestoreTokens ==
  ASSUME IInv, Tokens, Restore
  PROVE  Tokens'
<1>0. PICK to \in Workspaces : to = steps["chain"].ws
  BY DEF IInv, TypeOK, Restore, InFlow, Switched
<1>1. /\ TypeOK /\ steps["chain"].pc = "restore" /\ to \notin waits
      /\ current' = IF parked[to] # 0 THEN <<to, parked[to]>> ELSE IF slot[to] # 0 THEN <<to, slot[to]>> ELSE NoSet
      /\ unpersisted' = (parked[to] # 0) /\ parked' = [parked EXCEPT ![to] = 0]
      /\ steps' = [steps EXCEPT !["chain"] = IdleFlow]
      /\ UNCHANGED <<newest, grace, revoked, slot, marker, registry, launch, bound,
                     detached, waits, run, flush, signing, excused>>
  BY <1>0 DEF IInv, Restore, InFlow, serverVars, launchVars
<1>2. /\ current = NoSet /\ to \in registry /\ to \in Workspaces /\ to \notin marker /\ flush.set = NoSet
  BY <1>0, <1>1 DEF IInv, Switched, Switching, InFront, TypeOK, Tokens, Marked, FlushApart
<1>3. /\ steps'["chain"].pc = "idle" /\ steps'["end"] = steps["end"]
  BY <1>1, FlowIdles, Types
<1>4. FlushApart' /\ FirstPair' /\ Marked'
  BY <1>1, <1>2, <1>3 DEF Tokens, FlushApart, FirstPair, Marked, Gone, Flows
<1>5. ASSUME NEW v \in Workspaces \ excused, v # to
      PROVE  Safe(v)'
  <2>1. ~InUse(v) /\ ~InUse(v)' /\ (Gone(v) => Gone(v)') /\ Safe(v)
    BY <1>1, <1>2, <1>5 DEF InUse, Gone, Tokens
  <2>2. parked'[v] = parked[v]
    BY <1>1, <1>5 DEF TypeOK
  <2> QED
    BY <1>1, <1>3, <1>5, <2>1, <2>2, SameTokens
<1>6. ASSUME to \notin excused
      PROVE  Safe(to)'
  <2>1. Safe(to) /\ parked[to] = 0 /\ parked'[to] = 0 /\ ~Gone(to) /\ ~InUse(to)
    BY <1>1, <1>2, <1>6 DEF Tokens, Safe, Saved, Gone, InUse, TypeOK
  <2>2. SetOf(to) # NoSet
    BY DEF SetOf, NoSet
  <2>3. run[to].pc = "idle"
    BY <1>1, <1>2, <2>1, <2>2 DEF Safe, Own
  <2>4. /\ slot[to] # 0 => current'[1] = to /\ current'[2] = slot[to]
        /\ slot[to] = 0 => current' = NoSet
        /\ unpersisted' = FALSE
    BY <1>1, <2>1
  <2>5. Saved(to)'
    BY <1>1, <1>2, <1>3, <2>1, <2>4 DEF Saved, InUse
  <2>6. Own(to)' /\ Presented(to)'
    BY <1>1, <2>3 DEF Own, Presented
  <2>7. Newest(to) => Newest(to)'
    BY <1>1, <2>1, <2>3, <2>4 DEF Newest, InUse, Gone
  <2> QED
    BY <1>1, <2>1, <2>5, <2>6, <2>7 DEF Safe
<1> QED
  BY <1>1, <1>2, <1>4, <1>5, <1>6 DEF Tokens

-----------------------------------------------------------------------------
(* The rest of a wipe, crash and launch. *)

\* A wipe past its marker is of a workspace that is gone, unless the marker failed.
LEMMA WipeOf ==
  ASSUME IInv, Tokens, NEW f \in Flows, steps[f].pc \in {"hook", "stored", "delete"}
  PROVE  steps[f].ws \in Workspaces /\ (steps[f].ws \notin excused => Gone(steps[f].ws))
<1>1. steps[f].ws \in Workspaces
  BY Types DEF IInv, Switched, Ended, Switching, Flows, FlowRecords
<1>2. steps[f].ws \notin excused => Gone(steps[f].ws)
  BY DEF Tokens, Marked
<1> QED
  BY <1>1, <1>2

LEMMA HookTokens ==
  ASSUME IInv, Tokens, Hook
  PROVE  Tokens'
<1>1. /\ TypeOK /\ steps["end"].pc = "hook" /\ GoTo("end", "stored") /\ current' = NoSet /\ unpersisted' = FALSE
      /\ UNCHANGED <<newest, grace, revoked, slot, marker, registry, launch, bound,
                     detached, parked, waits, run, flush, signing, excused>>
  BY DEF IInv, Hook, InFlow, serverVars, storedVars, launchVars
<1>2. PICK w \in Workspaces : w = steps["end"].ws /\ (w \notin excused => Gone(w))
  BY <1>1, WipeOf, Types
<1>3. /\ steps'["end"].pc = "stored" /\ steps'["end"].ws = w /\ steps'["chain"] = steps["chain"]
  BY <1>1, <1>2, FlowGoes, Types DEF FlowStates
<1>4. \A v \in Workspaces : (InUse(v) => v = w) /\ ~InUse(v)' /\ (Gone(v) => Gone(v)')
  BY <1>1, <1>2, NoneAssumption DEF IInv, InFront, Ended, InUse, Gone
<1>5. FlushApart' /\ FirstPair' /\ Marked'
  BY <1>1, <1>2, <1>3 DEF Tokens, FlushApart, FirstPair, Marked, Gone, Flows
<1>6. ASSUME w \notin excused PROVE Safe(w)'
  <2>1. Safe(w) /\ Gone(w)'
    BY <1>2, <1>4, <1>6 DEF Tokens
  <2>2. Saved(w)'
    BY <1>1, <1>3, <1>4, <2>1 DEF Safe, Saved
  <2>3. Own(w)' /\ (Newest(w) => Newest(w)')
    BY <1>1, <1>4, <2>1 DEF Safe, Own, Newest
  <2>4. Presented(w) => Presented(w)'
    BY <1>1, <2>1 DEF Presented
  <2> QED
    BY <1>1, <2>1, <2>2, <2>3, <2>4 DEF Safe
<1>7. ASSUME NEW v \in Workspaces \ excused, v # w PROVE Safe(v)'
  <2>1. Safe(v) /\ ~InUse(v) /\ ~InUse(v)' /\ (Gone(v) => Gone(v)')
    BY <1>4, <1>7 DEF Tokens
  <2> QED
    BY <1>1, <1>3, <1>7, <2>1, SameTokens
<1> QED
  BY <1>1, <1>5, <1>6, <1>7 DEF Tokens

LEMMA StoredHookTokens ==
  ASSUME IInv, Tokens, NEW f \in Flows, StoredHook(f)
  PROVE  Tokens'
<1>1. /\ TypeOK /\ steps[f].pc = "stored" /\ GoTo(f, "delete")
      /\ UNCHANGED <<newest, grace, revoked, slot, marker, registry, launch, bound,
                     current, unpersisted, run, flush, signing, excused>>
  BY DEF IInv, StoredHook, InFlow, serverVars, storedVars, launchVars
<1>2. PICK w \in Workspaces : w = steps[f].ws /\ (w \notin excused => Gone(w))
  BY <1>1, WipeOf
<1>3. parked' = [parked EXCEPT ![w] = 0] /\ waits' = waits \ {w} /\ detached' = {s \in detached : s[1] # w}
  BY <1>2 DEF StoredHook
<1>4. /\ steps'[f].pc = "delete" /\ steps'[f].ws = w /\ \A g \in Flows : g # f => steps'[g] = steps[g]
  BY <1>1, <1>2, FlowGoes DEF FlowStates
<1>5. \A v \in Workspaces : Gone(v) <=> Gone(v)'
  BY <1>1 DEF Gone
<1>6. /\ steps'["chain"].pc = "flush" => steps'["chain"] = steps["chain"]
      /\ steps'["chain"].pc \in {"open", "restore"} => steps'["chain"] = steps["chain"]
  BY <1>4, Types
<1>7. FlushApart' /\ FirstPair'
  BY <1>1, <1>6 DEF Tokens, FlushApart, FirstPair
<1>8. Marked'
  BY <1>1, <1>2, <1>4, <1>6 DEF Tokens, Marked, Gone
<1>9. ASSUME w \notin excused PROVE Safe(w)'
  <2>1. Safe(w) /\ Gone(w)' /\ parked'[w] = 0 /\ (InUse(w)' <=> InUse(w))
    BY <1>1, <1>2, <1>3, <1>5, <1>9 DEF Tokens, TypeOK, InUse
  <2>2. Saved(w)'
    BY <1>1, <1>6, <2>1 DEF Safe, Saved
  <2>3. Own(w)' /\ (Newest(w) => Newest(w)')
    BY <1>1, <2>1 DEF Safe, Own, Newest
  <2>4. Presented(w) => Presented(w)'
    BY <1>1, <2>1 DEF Presented
  <2> QED
    BY <1>1, <2>1, <2>2, <2>3, <2>4 DEF Safe
<1>10. ASSUME NEW v \in Workspaces \ excused, v # w PROVE Safe(v)'
  <2>1. /\ Safe(v) /\ (Gone(v) => Gone(v)') /\ parked'[v] = parked[v] /\ (v \in waits => v \in waits')
        /\ \A s \in detached : s[1] = v => s \in detached'
    BY <1>1, <1>3, <1>5, <1>10 DEF Tokens, TypeOK
  <2> QED
    BY <1>1, <1>6, <1>10, <2>1, SameTokens
<1> QED
  BY <1>1, <1>7, <1>8, <1>9, <1>10 DEF Tokens

\* What the wipe deletes is not in use; what it fails to delete is lost to the failure.
LEMMA DeleteTokens ==
  ASSUME IInv, Tokens, NEW f \in Flows, Delete(f)
  PROVE  Tokens'
<1>1. /\ TypeOK /\ steps[f].pc = "delete"
      /\ UNCHANGED <<newest, grace, revoked, marker, launch, bound, current, unpersisted, detached, parked, waits, run,
                     flush, signing>>
  BY DEF IInv, Delete, InFlow, serverVars, launchVars, setVars
<1>2. PICK w \in Workspaces : w = steps[f].ws /\ (w \notin excused => Gone(w))
  BY <1>1, WipeOf
<1>3. /\ slot' = slot \/ slot' = [slot EXCEPT ![w] = 0]
      /\ \/ excused' = excused /\ slot' = [slot EXCEPT ![w] = 0] /\ registry' = registry \ {w}
         \/ excused' = excused \cup {w} /\ registry' = registry
  BY <1>2 DEF Delete, Works, Fails
<1>4. /\ steps'[f].pc = "reset" /\ steps'[f].ws = w /\ \A g \in Flows : g # f => steps'[g] = steps[g]
  <2>1. steps \in [Flows -> FlowRecords]
    BY <1>1, Types
  <2>2. CASE steps' = [steps EXCEPT ![f].pc = "reset"]
    BY <1>2, <2>1, <2>2 DEF FlowRecords
  <2>3. CASE steps' = [steps EXCEPT ![f].pc = "reset", ![f].clean = FALSE]
    BY <1>2, <2>1, <2>3 DEF FlowRecords
  <2> QED
    BY <2>2, <2>3 DEF Delete
<1>5. ~InUse(w)
  BY <1>1, <1>2, Types DEF IInv, InFront, Switched, Switching, InUse, Flows
<1>6. /\ excused \subseteq excused' /\ revoked \subseteq revoked' /\ (w \notin excused' => w \notin registry' /\ slot'[w] = 0)
      /\ \A v \in Workspaces : (v # w => slot'[v] = slot[v]) /\ (Gone(v) => Gone(v)')
  BY <1>1, <1>2, <1>3 DEF TypeOK, Gone
<1>7. /\ steps'["chain"].pc = "flush" => steps'["chain"] = steps["chain"]
      /\ steps'["chain"].pc \in {"open", "restore"} => steps'["chain"] = steps["chain"]
  BY <1>4, Types
<1>8. FlushApart' /\ FirstPair'
  BY <1>1, <1>7 DEF Tokens, FlushApart, FirstPair
<1>9. Marked'
  <2>1. registry' \subseteq registry
    BY <1>3
  <2>2. ASSUME NEW g \in Flows, g # f, steps'[g].ws \notin excused'
        PROVE  /\ steps'[g].pc \in {"revoke", "hook", "stored", "delete"} => steps'[g].ws \in marker' \/ steps'[g].ws \notin registry'
               /\ steps'[g].pc \in {"reset", "clear"} /\ steps'[g].clean => steps'[g].ws \notin registry'
    BY <1>1, <1>4, <1>6, <2>1, <2>2 DEF Tokens, Marked, Gone
  <2>3. steps'[f].ws \notin excused' => steps'[f].ws \notin registry'
    BY <1>4, <1>6
  <2>4. steps'["chain"].pc = "restore" => steps'["chain"].ws \notin marker'
    BY <1>1, <1>7 DEF Tokens, Marked
  <2> QED
    BY <2>2, <2>3, <2>4 DEF Marked, Gone
<1>10. ASSUME w \notin excused' PROVE Safe(w)'
  <2>1. Safe(w) /\ Gone(w)' /\ ~InUse(w)'
    BY <1>1, <1>2, <1>5, <1>6, <1>10 DEF Tokens, InUse
  <2>2. Saved(w)'
    BY <1>1, <1>7, <2>1 DEF Safe, Saved
  <2>3. Own(w)' /\ Newest(w)'
    BY <1>1, <2>1 DEF Safe, Own, Newest
  <2>4. Presented(w) => Presented(w)'
    BY <1>1, <2>1 DEF Presented
  <2> QED
    BY <1>1, <2>1, <2>2, <2>3, <2>4 DEF Safe
<1>11. ASSUME NEW v \in Workspaces \ excused', v # w PROVE Safe(v)'
  <2>1. Safe(v) /\ (Gone(v) => Gone(v)') /\ slot'[v] = slot[v]
    BY <1>6, <1>11 DEF Tokens
  <2> QED
    BY <1>1, <1>6, <1>7, <1>11, <2>1, SameTokens
<1> QED
  BY <1>8, <1>9, <1>10, <1>11 DEF Tokens

\* With nothing in memory it is the slots that count.
LEMMA SlotsTokens ==
  ASSUME signing = None, current = NoSet, flush.set = NoSet,
         \A f \in Flows : steps[f].pc = "idle",
         \A w \in Workspaces : run[w].pc = "idle" /\ parked[w] = 0,
         \A w \in Workspaces \ (excused \cup revoked) : Gone(w) \/ slot[w] \in {0, newest[w]}
  PROVE  Tokens
<1>1. FlushApart /\ FirstPair /\ Marked
  BY Types DEF FlushApart, FirstPair, Marked
<1>2. ASSUME NEW w \in Workspaces \ excused
      PROVE  Safe(w)
  <2>1. Saved(w) /\ Own(w) /\ Presented(w)
    BY Types DEF Saved, Own, Presented, InUse
  <2>2. w \notin revoked => Newest(w)
    BY DEF Newest, InUse
  <2> QED
    BY <2>1, <2>2 DEF Safe
<1> QED
  BY <1>1, <1>2 DEF Tokens

LEMMA CrashTokens ==
  ASSUME IInv, Tokens, Crash
  PROVE  Tokens'
<1>1. /\ current' = NoSet /\ parked' = Zero /\ signing' = None /\ flush' = NoFlush
      /\ run' = [w \in Workspaces |-> IdleRun] /\ steps' = [f \in Flows |-> IdleFlow]
      /\ excused' = excused \cup {w \in Workspaces : run[w].pc # "idle"}
      /\ UNCHANGED <<newest, grace, revoked, slot, marker, registry>>
  BY DEF Crash, serverVars, storedVars
<1>2. flush'.set = NoSet /\ \A f \in Flows : steps'[f].pc = "idle"
  BY <1>1, IdleFlowType DEF NoFlush
<1>3. \A w \in Workspaces : run'[w].pc = "idle" /\ parked'[w] = 0
  BY <1>1, IdleRunType DEF Zero
<1>4. ASSUME NEW w \in Workspaces \ (excused' \cup revoked')
      PROVE  Gone(w)' \/ slot'[w] \in {0, newest'[w]}
  BY <1>1, <1>4 DEF Tokens, Safe, Newest, Gone
<1>5. FlushApart' /\ FirstPair' /\ Marked'
  BY <1>1, <1>2, Types DEF FlushApart, FirstPair, Marked
<1>6. ASSUME NEW w \in Workspaces \ excused'
      PROVE  Safe(w)'
  <2>1. Saved(w)' /\ Own(w)' /\ Presented(w)'
    BY <1>1, <1>2, <1>3, Types DEF Saved, Own, Presented, InUse
  <2>2. w \notin revoked' => Newest(w)'
    BY <1>1, <1>4 DEF Newest, InUse
  <2> QED
    BY <2>1, <2>2 DEF Safe
<1> QED
  BY <1>5, <1>6 DEF Tokens

LEMMA TokensInit == Init => TInv
<1> SUFFICES ASSUME Init PROVE TInv
  OBVIOUS
<1>1. /\ \A w \in Workspaces : run[w].pc = "idle" /\ parked[w] = 0 /\ slot[w] = 0
      /\ \A f \in Flows : steps[f].pc = "idle"
      /\ flush.set = NoSet
  BY IdleRunType, IdleFlowType DEF Init, NoFlush, Zero
<1>2. Tokens
  BY <1>1, SlotsTokens DEF Init
<1>3. NoReuse
  BY DEF Init, NoReuse
<1> QED
  BY <1>2, <1>3, Initially DEF TInv

-----------------------------------------------------------------------------
(* The theorems. *)

\* Only an answer of the server makes a reuse, and no step takes an excuse back.
LEMMA OnlyServed ==
  ASSUME Next, \A w \in Workspaces : ~Serve(w)
  PROVE  reused' = reused /\ excused \subseteq excused'
<1>1. ASSUME NEW w \in Workspaces,
             \/ Revoke(w) \/ GraceEnds(w) \/ SignIn(w) \/ SignedIn(w) \/ SignInFails(w)
             \/ Refresh(w) \/ CheckIn(w) \/ Remove(w) \/ WipeRevoked(w) \/ MarkRevoked(w) \/ Resume(w)
      PROVE  reused' = reused /\ excused \subseteq excused'
  BY <1>1 DEF Revoke, GraceEnds, SignIn, SignedIn, SignInFails, Refresh, CheckIn, Remove, WipeRevoked, MarkRevoked,
     Resume, Works, Fails, serverVars
<1>2. ASSUME NEW w \in Workspaces,
             Retry(w) \/ GiveUp(w) \/ Dead(w) \/ Rotated(w) \/ Store(w) \/ Stored(w) \/ StoreFails(w)
      PROVE  reused' = reused /\ excused \subseteq excused'
  BY <1>2 DEF Retry, GiveUp, Dead, Rotated, Store, Stored, StoreFails, Works, Fails, serverVars
<1>3. CASE Flush \/ Flushed \/ FlushFails
  BY <1>3 DEF Flush, Flushed, FlushFails, Works, Fails, serverVars
<1>4. CASE (\E to \in Workspaces \cup {None} : Switch(to)) \/ ChainStep
  BY <1>4 DEF Switch, ChainStep, HookStores, HookFails, Settle, Open, Restore, Works, Fails, serverVars
<1>5. ASSUME NEW f \in Flows, WipeStep(f)
      PROVE  reused' = reused /\ excused \subseteq excused'
  BY <1>5 DEF WipeStep, Mark, RevokeFirst, StoredHook, Delete, Reset, Clear, Works, Fails, serverVars
<1>6. CASE EndSession \/ Hook \/ Crash \/ Launch \/ Hydrate
  BY <1>6 DEF EndSession, Hook, Crash, Launch, Hydrate, serverVars
<1> QED
  BY <1>1, <1>2, <1>3, <1>4, <1>5, <1>6 DEF Next, RunStep

LEMMA TokensNext == TInv /\ [Next]_vars => TInv'
<1> SUFFICES ASSUME TInv, [Next]_vars PROVE TInv'
  OBVIOUS
<1>0. IInv /\ Tokens /\ NoReuse /\ IInv'
  BY Inductive DEF TInv
<1>1. ASSUME NEW w \in Workspaces,
             \/ Revoke(w) \/ GraceEnds(w) \/ SignIn(w) \/ SignedIn(w) \/ SignInFails(w)
             \/ Refresh(w) \/ CheckIn(w) \/ Remove(w) \/ WipeRevoked(w) \/ MarkRevoked(w) \/ Resume(w)
      PROVE  Tokens'
  BY <1>0, <1>1, RevokeTokens, GraceEndsTokens, SignInTokens, SignedInTokens, SignInFailsTokens, RefreshTokens,
     CheckInTokens, RemoveTokens, WipeRevokedTokens, MarkRevokedTokens, ResumeTokens
<1>2. ASSUME NEW w \in Workspaces, RunStep(w)
      PROVE  Tokens'
  BY <1>0, <1>2, ServeTokens, RetryTokens, GiveUpTokens, DeadTokens, RotatedTokens, StoreTokens, StoredTokens,
     StoreFailsTokens DEF RunStep
<1>3. ASSUME Flush \/ Flushed \/ FlushFails
      PROVE  Tokens'
  BY <1>0, <1>3, FlushTokens, FlushedTokens, FlushFailsTokens
<1>4. ASSUME (\E to \in Workspaces \cup {None} : Switch(to)) \/ ChainStep
      PROVE  Tokens'
  BY <1>0, <1>4, SwitchTokens, HookStoresTokens, HookFailsTokens, SettleTokens, OpenTokens, RestoreTokens DEF ChainStep
<1>5. ASSUME NEW f \in Flows, WipeStep(f)
      PROVE  Tokens'
  BY <1>0, <1>5, MarkTokens, RevokeFirstTokens, StoredHookTokens, DeleteTokens, ResetTokens, ClearTokens DEF WipeStep
<1>6. ASSUME EndSession \/ Hook \/ Crash \/ Launch \/ Hydrate
      PROVE  Tokens'
  BY <1>0, <1>6, EndSessionTokens, HookTokens, CrashTokens, LaunchTokens, HydrateTokens
<1>7. ASSUME UNCHANGED vars
      PROVE  Tokens'
  BY <1>0, <1>7, StutteringTokens
<1>8. Tokens'
  BY <1>1, <1>2, <1>3, <1>4, <1>5, <1>6, <1>7 DEF Next
<1>9. NoReuse'
  <2>1. CASE \E w \in Workspaces : Serve(w)
    BY <1>0, <2>1, ServeTokens
  <2>2. CASE Next /\ \A w \in Workspaces : ~Serve(w)
    BY <1>0, <2>2, OnlyServed DEF NoReuse
  <2>3. CASE UNCHANGED vars
    BY <1>0, <2>3 DEF NoReuse, vars, serverVars
  <2> QED
    BY <2>1, <2>2, <2>3
<1> QED
  BY <1>0, <1>8, <1>9 DEF TInv

LEMMA TokensHold == Spec => []TInv
  BY TokensInit, TokensNext, PTL DEF Spec

\* The server revokes no family because a consumed refresh token came back
\* (nativeauth/store.go), in any interleaving of switches, wipes, check-ins,
\* refreshes and sign-ins over any number of workspaces, except where the newest
\* pair was lost to a keychain failure, to lost answers or to a crash in mid-refresh.
THEOREM NoTokenReused == Spec => []NoReuse
<1>1. TInv => NoReuse
  BY DEF TInv
<1> QED
  BY <1>1, TokensHold, PTL

\* With the same exceptions the pair in use is always the one in its keychain
\* slot: a refresh stores the pair it received before it makes it the active one
\* (persistWithRetry in nativeSession.ts).
THEOREM StoredBeforeUsed == Spec => []PersistBeforeUse
<1>1. TInv => PersistBeforeUse
  <2> SUFFICES ASSUME TInv, current # NoSet, current[1] \notin excused
               PROVE  slot[current[1]] = current[2]
    BY DEF PersistBeforeUse
  <2>1. current[1] \in Workspaces
    BY DEF TInv, IInv, TypeOK, Sets
  <2> QED
    BY <2>1 DEF TInv, Tokens, Safe, Saved, InUse
<1> QED
  BY <1>1, TokensHold, PTL

=============================================================================
