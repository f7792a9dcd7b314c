------------------------ MODULE CommandDispatch_proofs ------------------------
(***************************************************************************)
(* TLAPS proofs about CommandDispatch, for any number of publishers,       *)
(* sessions, envelopes, messages and claims and every capability.  The     *)
(* database steps are steps of RuntimeExecution, so what is proved of it   *)
(* holds here too and is used.                                             *)
(***************************************************************************)
EXTENDS CommandDispatch, RuntimeContract_proofs

\* Who holds which envelope: a publisher past StorePrepared and every stored
\* message have the envelope the outbox selected.
Envelopes ==
    /\ \A p \in Publishers : pc[p] = "STORE" => selected[p] \in Digests
    /\ \A p \in Publishers :
          pc[p] \in {"APPEND", "MARK"} => prepared \in Digests /\ selected[p] = prepared
    /\ stored > 0 => prepared \in Digests
    /\ OneEnvelope

\* What the stream owes the database: a message is acknowledged only for a settled
\* generation, authority comes from a stored message, and the stored message of
\* an open command that workers can verify is still there.
Retained ==
    /\ live => stored > 0
    /\ \A s \in Sessions : phase[s] = "ACK" => state \in Settled
    /\ authority => stored > 0 /\ prepared \notin Unverifiable
    /\ stored > 0 /\ prepared \notin Unverifiable /\ state \notin Final /\ ~aged => live

DispatchInv ==
    IInv /\ QuarantineClosesClaims /\ DispatchTypeOK /\ Envelopes /\ Retained

LEMMA InitDispatchInv == DispatchInit => DispatchInv
<1> SUFFICES ASSUME DispatchInit PROVE DispatchInv
  OBVIOUS
<1>0. IInv /\ TypeOK
  BY InitIInv DEF DispatchInit, IInv
<1>1. QuarantineClosesClaims
  BY DEF DispatchInit, Init, QuarantineClosesClaims
<1>2. DispatchTypeOK
  <2>1. /\ pc \in [Publishers -> {"IDLE", "STORE", "APPEND", "MARK"}]
        /\ selected \in [Publishers -> Digests \cup {None}]
        /\ body \in [Messages -> Digests \cup {None}]
        /\ phase \in [Sessions -> {"IDLE", "FRESH", "WORKING", "ACK"}]
    BY DEF DispatchInit
  <2>2. live \in BOOLEAN /\ window \in BOOLEAN /\ aged \in BOOLEAN
    BY DEF DispatchInit
  <2>3. /\ stored \in 0 .. MaxStored
        /\ held \in [Sessions -> 0 .. MaxStored]
        /\ \A s \in Sessions : held[s] <= stored /\ (held[s] = 0 <=> phase[s] = "IDLE")
    BY MaxStoredAssumption DEF DispatchInit
  <2>4. QED
    BY <1>0, <2>1, <2>2, <2>3 DEF DispatchTypeOK
<1>3. Envelopes
  BY DEF DispatchInit, Envelopes, OneEnvelope
<1>4. Retained
  BY DEF DispatchInit, Init, Retained
<1>5. QED
  BY <1>0, <1>1, <1>2, <1>3, <1>4 DEF DispatchInv

-----------------------------------------------------------------------------
(* Every step is a step of the database or leaves it alone. *)

\* The envelope a session claims with is the selected one.
LEMMA HeldIsPrepared ==
  ASSUME DispatchInv, NEW s \in Sessions, phase[s] = "FRESH"
  PROVE  /\ held[s] \in 1 .. stored
         /\ body[held[s]] = prepared /\ prepared \in Digests
<1>1. held[s] \in 1 .. stored
  BY MaxStoredAssumption DEF DispatchInv, DispatchTypeOK
<1>2. QED
  BY <1>1, MaxStoredAssumption DEF DispatchInv, DispatchTypeOK, Envelopes, OneEnvelope

LEMMA RuntimeStep ==
  DispatchInv /\ [DispatchNext]_dispatchVars => [Next]_vars
<1> SUFFICES ASSUME DispatchInv, DispatchNext PROVE [Next]_vars
  BY DEF dispatchVars
<1>1. CASE Sweep
  BY <1>1 DEF Sweep, Next
<1>2. CASE Elsewhere
  BY <1>2 DEF Elsewhere, Next
<1>3. CASE WindowCloses \/ MaxAgeRemoves
  BY <1>3 DEF WindowCloses, MaxAgeRemoves
<1>4. ASSUME NEW p \in Publishers, NEW d \in Digests, BeginDispatch(p, d) PROVE [Next]_vars
  BY <1>4 DEF BeginDispatch
<1>5. ASSUME NEW p \in Publishers, StoreCandidate(p) PROVE [Next]_vars
  <2>1. selected[p] \in Digests
    BY <1>5 DEF StoreCandidate, DispatchInv, Envelopes
  <2>2. QED
    BY <1>5, <2>1 DEF StoreCandidate, Next
<1>6. ASSUME NEW p \in Publishers, AppendPrepared(p) \/ PublisherFails(p) PROVE [Next]_vars
  BY <1>6 DEF AppendPrepared, PublisherFails
<1>7. ASSUME NEW p \in Publishers, MarkAppended(p) PROVE [Next]_vars
  <2>1. selected[p] \in Digests
    BY <1>7 DEF MarkAppended, DispatchInv, Envelopes
  <2>2. QED
    BY <1>7, <2>1 DEF MarkAppended, Next
<1>8. ASSUME NEW s \in Sessions, Deliver(s) \/ LetGo(s) \/ TermPoison(s) \/ AckMessage(s)
      PROVE  [Next]_vars
  BY <1>8 DEF Deliver, LetGo, TermPoison, AckMessage, Remove
<1>9. ASSUME NEW s \in Sessions, SessionClaims(s) PROVE [Next]_vars
  <2>1. body[held[s]] \in Digests
    BY <1>9, HeldIsPrepared DEF SessionClaims
  <2>2. ClaimCommand(s, body[held[s]])
    BY <1>9 DEF SessionClaims, ClaimCommand
  <2>3. QED
    BY <2>1, <2>2 DEF Next
<1>10. ASSUME NEW a \in Attempts, NEW r \in outputs, SessionSettles(a, r) PROVE [Next]_vars
  BY <1>10 DEF SessionSettles, Next
<1>11. QED
  BY <1>1, <1>2, <1>3, <1>4, <1>5, <1>6, <1>7, <1>8, <1>9, <1>10 DEF DispatchNext

\* Final states and the selected envelope stay; quoted for the steps below.
LEMMA DatabaseKeeps ==
  ASSUME DispatchInv, [DispatchNext]_dispatchVars
  PROVE  /\ IInv' /\ QuarantineClosesClaims' /\ TypeOK'
         /\ state \in Final => state' = state
         /\ prepared # None => prepared' = prepared
<1>1. [Next]_vars
  BY RuntimeStep
<1>2. IInv' /\ QuarantineClosesClaims'
  BY <1>1, NextIInv, NextQuarantineClosesClaims DEF DispatchInv
<1>3. [WrittenOnce]_vars
  BY <1>1, WrittenOnceStep DEF DispatchInv
<1>4. QED
  BY <1>2, <1>3 DEF IInv, WrittenOnce, Final, vars, jobVars, outboxVars

-----------------------------------------------------------------------------
(* The invariant is kept. *)

LEMMA NextDispatchTypeOK ==
  DispatchInv /\ [DispatchNext]_dispatchVars => DispatchTypeOK'
<1> SUFFICES ASSUME DispatchInv, [DispatchNext]_dispatchVars PROVE DispatchTypeOK'
  OBVIOUS
<1> USE MaxStoredAssumption
    DEF DispatchTypeOK, Messages, publisherVars, busVars, sessionVars
<1>0. TypeOK' /\ DispatchTypeOK
  BY DatabaseKeeps DEF DispatchInv
<1>1. CASE UNCHANGED <<publisherVars, busVars, sessionVars>>
  BY <1>0, <1>1
<1>2. CASE WindowCloses \/ MaxAgeRemoves
  BY <1>0, <1>2 DEF WindowCloses, MaxAgeRemoves
<1>3. ASSUME NEW p \in Publishers, NEW d \in Digests, BeginDispatch(p, d)
      PROVE  DispatchTypeOK'
  BY <1>0, <1>3 DEF BeginDispatch, Goto, TypeOK
<1>4. ASSUME NEW p \in Publishers, StoreCandidate(p) PROVE DispatchTypeOK'
  BY <1>0, <1>4 DEF StoreCandidate, Goto, Winner, TypeOK
<1>5. ASSUME NEW p \in Publishers, AppendPrepared(p) PROVE DispatchTypeOK'
  <2>1. CASE UNCHANGED busVars
    BY <1>0, <1>5, <2>1 DEF AppendPrepared, Goto
  <2>2. CASE ~UNCHANGED busVars
    <3>1. /\ stored < MaxStored /\ stored' = stored + 1
          /\ body' = [body EXCEPT ![stored + 1] = selected[p]]
          /\ UNCHANGED <<selected, held, phase>>
      BY <1>5, <2>2 DEF AppendPrepared
    <3>2. live' \in BOOLEAN /\ window' \in BOOLEAN /\ aged' \in BOOLEAN
      BY <1>0, <1>5, <2>2 DEF AppendPrepared
    <3>3. pc' \in [Publishers -> {"IDLE", "STORE", "APPEND", "MARK"}]
      BY <1>0, <1>5 DEF AppendPrepared, Goto
    <3>4. stored' \in 0 .. MaxStored /\ body' \in [Messages -> Digests \cup {None}]
      BY <1>0, <3>1
    <3>5. \A s \in Sessions :
             held'[s] <= stored' /\ (held'[s] = 0 <=> phase'[s] = "IDLE")
      BY <1>0, <3>1
    <3>6. QED
      BY <1>0, <3>1, <3>2, <3>3, <3>4, <3>5
  <2>3. QED
    BY <2>1, <2>2
<1>6. ASSUME NEW p \in Publishers, MarkAppended(p) \/ PublisherFails(p)
      PROVE  DispatchTypeOK'
  BY <1>0, <1>6 DEF MarkAppended, PublisherFails, Goto
<1>7. ASSUME NEW s \in Sessions, Deliver(s) PROVE DispatchTypeOK'
  BY <1>0, <1>7 DEF Deliver, DispatchInv, Retained
<1>8. ASSUME NEW s \in Sessions, LetGo(s) PROVE DispatchTypeOK'
  BY <1>0, <1>8 DEF LetGo
<1>9. ASSUME NEW s \in Sessions, TermPoison(s) \/ AckMessage(s) PROVE DispatchTypeOK'
  <2>1. Remove(s)
    BY <1>9 DEF TermPoison, AckMessage
  <2>2. live' \in BOOLEAN
    BY <2>1 DEF Remove
  <2>3. /\ held' = [held EXCEPT ![s] = 0] /\ phase' = [phase EXCEPT ![s] = "IDLE"]
        /\ UNCHANGED <<pc, selected, stored, body, window, aged>>
    BY <2>1 DEF Remove
  <2>4. QED
    BY <1>0, <2>2, <2>3
<1>10. ASSUME NEW s \in Sessions, SessionClaims(s) PROVE DispatchTypeOK'
  <2>1. PICK v : Answered(s, v) /\ phase[s] = "FRESH"
    BY <1>10 DEF SessionClaims
  <2>2. QED
    BY <1>0, <2>1 DEF Answered, Route
<1>11. ASSUME NEW a \in Attempts, NEW r \in outputs, SessionSettles(a, r)
       PROVE  DispatchTypeOK'
  BY <1>0, <1>11 DEF SessionSettles
<1>12. QED
  BY <1>1, <1>2, <1>3, <1>4, <1>5, <1>6, <1>7, <1>8, <1>9, <1>10, <1>11
     DEF DispatchNext, Sweep, Elsewhere, dispatchVars

LEMMA NextEnvelopes ==
  DispatchInv /\ [DispatchNext]_dispatchVars => Envelopes'
<1> SUFFICES ASSUME DispatchInv, [DispatchNext]_dispatchVars PROVE Envelopes'
  OBVIOUS
<1> USE MaxStoredAssumption, NoneAssumption
    DEF Envelopes, OneEnvelope, publisherVars, busVars, sessionVars
<1>0. /\ Envelopes /\ DispatchTypeOK
      /\ prepared \in Digests => prepared' = prepared
  BY DatabaseKeeps DEF DispatchInv
<1>1. CASE UNCHANGED <<publisherVars, stored, body>>
  BY <1>0, <1>1 DEF DispatchTypeOK
<1>2. ASSUME NEW p \in Publishers, NEW d \in Digests, BeginDispatch(p, d) PROVE Envelopes'
  <2>1. prepared \in Digests \cup {None} /\ UNCHANGED prepared
    BY <1>2 DEF DispatchInv, IInv, TypeOK, BeginDispatch, vars, outboxVars
  <2>2. QED
    BY <1>0, <1>2, <2>1 DEF BeginDispatch, Goto, DispatchTypeOK
<1>3. ASSUME NEW p \in Publishers, StoreCandidate(p) PROVE Envelopes'
  <2>1. selected'[p] = prepared' /\ prepared' \in Digests
    BY <1>0, <1>3
       DEF StoreCandidate, StorePrepared, Winner, DispatchInv, DispatchTypeOK, TypeOK, vars,
           outboxVars
  <2>2. prepared \in Digests \/ stored = 0
    BY <1>0 DEF DispatchTypeOK
  <2>3. \A q \in Publishers : q # p => pc'[q] = pc[q] /\ selected'[q] = selected[q]
    BY <1>0, <1>3 DEF StoreCandidate, Goto, DispatchTypeOK
  <2>4. UNCHANGED <<stored, body>> /\ pc'[p] = "APPEND"
    BY <1>0, <1>3 DEF StoreCandidate, Goto, DispatchTypeOK
  <2>5. QED
    BY <1>0, <2>1, <2>2, <2>3, <2>4
<1>4. ASSUME NEW p \in Publishers, AppendPrepared(p) PROVE Envelopes'
  <2>1. UNCHANGED <<prepared, selected>> /\ selected[p] = prepared /\ prepared \in Digests
    BY <1>0, <1>4 DEF AppendPrepared, vars, outboxVars
  <2>2. QED
    BY <1>0, <1>4, <2>1 DEF AppendPrepared, Goto, DispatchTypeOK, Messages
<1>5. ASSUME NEW p \in Publishers, MarkAppended(p) \/ PublisherFails(p) PROVE Envelopes'
  BY <1>0, <1>5 DEF MarkAppended, PublisherFails, Goto, DispatchTypeOK
<1>6. QED
  BY <1>1, <1>2, <1>3, <1>4, <1>5
     DEF DispatchNext, Sweep, Elsewhere, WindowCloses, MaxAgeRemoves, Deliver, LetGo,
         TermPoison, AckMessage, Remove, SessionClaims, Answered, SessionSettles, dispatchVars

LEMMA NextRetained ==
  DispatchInv /\ [DispatchNext]_dispatchVars => Retained'
<1> SUFFICES ASSUME DispatchInv, [DispatchNext]_dispatchVars PROVE Retained'
  OBVIOUS
<1> USE MaxStoredAssumption, NoneAssumption
    DEF Retained, publisherVars, busVars, sessionVars
<1>0. /\ Retained /\ DispatchTypeOK /\ Settled \subseteq Final
      /\ state \in Final => state' = state
      /\ prepared # None => prepared' = prepared
      /\ stored > 0 => prepared # None
  BY DatabaseKeeps DEF DispatchInv, Envelopes, Final
\* The database moves and gives no authority; stream and sessions stand still.
<1>1. CASE UNCHANGED <<busVars, sessionVars>> /\ authority' = authority
  <2>1. stored \in Nat
    BY <1>0 DEF DispatchTypeOK
  <2>2. stored > 0 => prepared' = prepared
    BY <1>0
  <2>3. QED
    BY <1>0, <1>1, <2>1, <2>2
<1>2. CASE WindowCloses \/ MaxAgeRemoves
  <2>1. UNCHANGED <<state, authority, prepared, stored, phase>>
    BY <1>2 DEF WindowCloses, MaxAgeRemoves, vars, jobVars, outboxVars
  <2>2. (live' = live /\ aged' = aged) \/ (live' = FALSE /\ aged' = TRUE)
    BY <1>2 DEF WindowCloses, MaxAgeRemoves
  <2>3. QED
    BY <1>0, <2>1, <2>2
<1>3. ASSUME NEW p \in Publishers, AppendPrepared(p) PROVE Retained'
  <2>1. UNCHANGED <<state, authority, prepared, phase>>
    BY <1>3 DEF AppendPrepared, vars, jobVars, outboxVars
  <2>2. CASE UNCHANGED busVars
    BY <1>0, <2>1, <2>2
  <2>3. CASE stored' = stored + 1 /\ live' = TRUE
    BY <1>0, <2>1, <2>3 DEF DispatchTypeOK
  <2>4. QED
    BY <1>3, <2>2, <2>3 DEF AppendPrepared
<1>4. ASSUME NEW s \in Sessions, Deliver(s) \/ LetGo(s) PROVE Retained'
  <2>1. UNCHANGED <<state, authority, prepared, stored, live, aged>>
    BY <1>4 DEF Deliver, LetGo, vars, jobVars, outboxVars
  <2>2. \A q \in Sessions : phase'[q] = "ACK" => phase[q] = "ACK"
    BY <1>0, <1>4 DEF Deliver, LetGo, DispatchTypeOK
  <2>3. QED
    BY <1>0, <2>1, <2>2
\* What +TERM removes nobody can verify, and what +ACK removes is settled.
<1>5. ASSUME NEW s \in Sessions, TermPoison(s) \/ AckMessage(s) PROVE Retained'
  <2>1. Remove(s)
    BY <1>5 DEF TermPoison, AckMessage
  <2>2. UNCHANGED <<state, authority, prepared, stored, aged>> /\ (live' => live)
    BY <2>1 DEF Remove, vars, jobVars, outboxVars
  <2>3. \A q \in Sessions : phase'[q] = "ACK" => phase[q] = "ACK"
    BY <1>0, <2>1 DEF Remove, DispatchTypeOK
  <2>4. prepared \in Unverifiable \/ state \in Final
    BY <1>0, <1>5, HeldIsPrepared DEF TermPoison, AckMessage
  <2>5. QED
    BY <1>0, <2>2, <2>3, <2>4
<1>6. ASSUME NEW s \in Sessions, SessionClaims(s) PROVE Retained'
  <2>1. /\ UNCHANGED busVars /\ prepared \notin Unverifiable
        /\ held[s] \in 1 .. stored
    BY <1>6, HeldIsPrepared DEF SessionClaims, Answered
  <2>2. stored > 0 /\ stored \in Nat
    BY <1>0, <2>1 DEF DispatchTypeOK
  <2>3. PICK v : Answered(s, v) /\ (Route(v) = "ACK" => state' \in Settled)
    <3> DEFINE d == body[held[s]]
    <3>1. CASE ClaimRetired(d) \/ ClaimRetires(d) \/ ClaimObsolete(d) \/ ClaimRetiresAtGrant(d)
      <4>1. state' \in Settled
        BY <3>1 DEF ClaimRetired, ClaimRetires, ClaimObsolete, ClaimRetiresAtGrant,
                    RetireLocked, Settled, jobVars
      <4>2. QED
        BY <1>6, <4>1 DEF SessionClaims
    <3>2. CASE ClaimOnlyReleases(d) /\ Answered(s, "RETRY_LATER_NOACK")
      BY <3>2 DEF Route
    <3>3. CASE ClaimGrants(s, d) /\ Answered(s, GrantFor(attempts + 1))
      <4>1. Route(GrantFor(attempts + 1)) = "ACK" => state \in Settled
        BY DEF Route, GrantFor
      <4>2. QED
        BY <1>0, <3>3, <4>1
    <3>4. QED
      BY <1>6, <3>1, <3>2, <3>3 DEF SessionClaims
  <2>4. \A q \in Sessions : phase'[q] = "ACK" => state' \in Settled
    BY <1>0, <2>3 DEF Answered, DispatchTypeOK
  <2>5. QED
    BY <1>0, <2>1, <2>2, <2>4
<1>7. ASSUME NEW a \in Attempts, NEW r \in outputs, SessionSettles(a, r) PROVE Retained'
  <2>1. state' \in Settled
    BY <1>7 DEF SessionSettles, PrepareSettlement, SettlementJobState, DispatchInv, IInv,
                TypeOK, OutputRows
  <2>2. UNCHANGED <<authority, prepared, stored, live, aged>>
    BY <1>7 DEF SessionSettles, PrepareSettlement, outboxVars
  <2>3. QED
    BY <1>0, <2>1, <2>2
<1>8. CASE UNCHANGED <<busVars, sessionVars>> /\ UNCHANGED vars
  BY <1>1, <1>8 DEF vars, outboxVars
<1>9. CASE Sweep \/ Elsewhere
  <2>1. UNCHANGED <<authority, busVars, sessionVars>>
    BY <1>9 DEF Sweep, Elsewhere, RetireNoAuthority, RetireLocked, QuarantineIndexMeta, Cancel,
          DeadlinePasses, LeaseExpires, DeliverInputs, AbortClaim, BeginExecution,
          AuthorizeInvocation, StoreOutput, MaterializeCancellation, outboxVars
  <2>2. QED
    BY <1>1, <2>1
<1>10. ASSUME NEW p \in Publishers, StoreCandidate(p) \/ MarkAppended(p) PROVE Retained'
  <2>1. UNCHANGED <<authority, busVars, sessionVars>>
    BY <1>10 DEF StoreCandidate, MarkAppended, StorePrepared, MarkPublished, vars, outboxVars
  <2>2. QED
    BY <1>1, <2>1
<1>11. QED
  BY <1>2, <1>3, <1>4, <1>5, <1>6, <1>7, <1>8, <1>9, <1>10
     DEF DispatchNext, BeginDispatch, PublisherFails, dispatchVars

-----------------------------------------------------------------------------
LEMMA DispatchInvariance == DispatchSpec => []DispatchInv
<1>1. DispatchInv /\ [DispatchNext]_dispatchVars => DispatchInv'
  BY DatabaseKeeps, NextDispatchTypeOK, NextEnvelopes, NextRetained DEF DispatchInv
<1>2. QED
  BY InitDispatchInv, <1>1, PTL DEF DispatchSpec

\* Publishers, stream and sessions only ever drive the database through its own
\* transactions: whatever is proved of RuntimeExecution holds of the composition
\* (ValidationDispatcher.Dispatch, ToolkitDeliveryRouter.route).
THEOREM DispatchImplementsRuntime == DispatchSpec => Spec
<1>1. DispatchInit => Init
  BY DEF DispatchInit
<1>2. QED
  BY <1>1, DispatchInvariance, RuntimeStep, PTL DEF DispatchSpec, Spec

\* The composition stays well typed, and a session names a stored message exactly
\* while it works on one.
THEOREM DispatchTypeCorrect == DispatchSpec => []DispatchTypeOK
<1>1. DispatchInv => DispatchTypeOK
  BY DEF DispatchInv
<1>2. QED
  BY <1>1, DispatchInvariance, PTL

\* However many replicas sign, race, fail and repeat, every message ever stored
\* on the subject is the one envelope the outbox selected
\* (StorePreparedValidation, JetStreamAppender.append).
THEOREM OneEnvelopeCorrect == DispatchSpec => []OneEnvelope
<1>1. DispatchInv => OneEnvelope
  BY DEF DispatchInv, Envelopes
<1>2. QED
  BY <1>1, DispatchInvariance, PTL

\* The message of a command that ever gave a worker authority is in the stream
\* until the generation is final or MaxAge took it (ListPendingValidationIDs no
\* longer offers such a command, so a lost message would end its delivery).
THEOREM AuthorityKeepsMessageCorrect == DispatchSpec => []AuthorityKeepsMessage
<1>1. DispatchInv => AuthorityKeepsMessage
  BY DEF DispatchInv, Retained, AuthorityKeepsMessage
<1>2. QED
  BY <1>1, DispatchInvariance, PTL
=============================================================================
