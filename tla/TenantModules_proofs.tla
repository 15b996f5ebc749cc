------------------------ MODULE TenantModules_proofs ------------------------
(***************************************************************************)
(* Proofs about TenantModules, for any modules and any number of updates:  *)
(* type correctness, that an update during which nobody else writes is all *)
(* or nothing, and that updates one after the other leave the overrides in *)
(* agreement with the CRM.                                                 *)
(***************************************************************************)
EXTENDS TenantModules, TLAPS

\* The platform is written and the CRM is not: the update is halfway.
Halfway(r) == req[r].pc \in {"crm", "compensate"}

\* What a handler that runs alone knows of the rows.  What it read is what was
\* there when it began, and still is, or has its own update on top of it.
Knows(r) ==
  /\ req[r].pc = "overrides" \/ req[r].pc = "platform" =>
       enabled = began[r].enabled /\ override = began[r].override
  /\ Halfway(r) =>
       override = Upserted(began[r].override, req[r].asked)
  /\ req[r].pc \in {"overrides", "platform", "crm", "compensate"} =>
       req[r].seen = began[r].enabled /\ crm = began[r].crm
  /\ req[r].pc \in {"platform", "crm", "compensate"} => req[r].before = began[r].override

LoneHandlersKnow == \A r \in Requests : Running(r) /\ began[r].alone => Knows(r)

\* A handler that saw an organization is right about it, and is halfway only
\* if it saw one; an organization comes with all its switches.
Linking ==
  /\ \A r \in Requests : req[r].linked => link = "linked"
  /\ \A r \in Requests : Halfway(r) => req[r].linked
  /\ link = "none" => crm = Unset

FreshAreAlone == \A r \in Requests : req[r].pc = "idle" => began[r].alone

\* Nothing but orderly updates so far, the ones that are running included.
OrderlySoFar(r) ==
  /\ ~req[r].lost /\ began[r].alone /\ req[r].pc # "failed"
  /\ req[r].pc = "done" => req[r].linked

\* As long as updates are orderly, overrides and switches agree; while one is
\* halfway, those that it found do.
AgreeSoFar ==
  (\A r \in Requests : OrderlySoFar(r)) =>
    /\ (\A r \in Requests : ~Halfway(r)) => Agree(override, crm)
    /\ \A r \in Requests : Halfway(r) => Agree(began[r].override, began[r].crm)

IInv == TypeOK /\ LoneHandlersKnow /\ Linking /\ FreshAreAlone /\ AgreeSoFar

-----------------------------------------------------------------------------
(* Switches.                                                               *)

LEMMA UpsertedType ==
  ASSUME NEW rows \in Switches, NEW asked \in Switches
  PROVE  Upserted(rows, asked) \in Switches
  BY DEF Upserted, Switches, Switch

LEMMA ConstantRows == Unset \in Switches /\ AllOn \in Switches
  BY DEF Unset, AllOn, Switches, Switch

\* Writing the same switches on both sides keeps them in agreement.
LEMMA UpsertedAgree ==
  ASSUME NEW overrides \in Switches, NEW rows \in Switches, NEW asked \in Switches,
         Agree(overrides, rows)
  PROVE  Agree(Upserted(overrides, asked), Upserted(rows, asked))
  BY DEF Agree, Upserted, Switches, Switch

\* Where there is no organization, agreement means that there is no override,
\* and then anything agrees.
LEMMA NoOverrides ==
  ASSUME NEW overrides \in Switches, NEW rows, Agree(overrides, Unset)
  PROVE  Agree(overrides, rows)
  BY DEF Agree, Unset

-----------------------------------------------------------------------------
(* Type correctness.                                                       *)

\* A handler that moves on keeps its type.
LEMMA GotoType ==
  ASSUME TypeOK, NEW r \in Requests, NEW pc \in PC, Goto(r, pc)
  PROVE  req' \in [Requests -> Request]
  BY DEF TypeOK, Goto, Request

LEMMA DisturbType ==
  ASSUME TypeOK, NEW writers, DisturbAllBut(writers)
  PROVE  began' \in [Requests -> Beginning]
  BY DEF TypeOK, DisturbAllBut, Beginning

LEMMA InitType == Init => TypeOK
  BY ConstantRows DEF Init, TypeOK, Request, Beginning, PC, Ended

LEMMA StepType ==
  ASSUME TypeOK, NEW r \in Requests, Step(r)
  PROVE  TypeOK'
<1> USE DEF PC, Ended
<1>0. req[r] \in Request /\ override \in Switches /\ crm \in Switches
  BY DEF TypeOK
<1>00. /\ req[r].asked \in Switches /\ req[r].before \in Switches
       /\ req[r].seen \subseteq Modules
  BY <1>0 DEF Request
<1>1. CASE UpdateRead(r)
  <2>1. PICK asked \in Switches, pc \in {"overrides", "refused"} :
          req' = [req EXCEPT ![r] = [pc |-> pc, asked |-> asked, linked |-> link = "linked",
                                     seen |-> enabled, before |-> Unset, lost |-> FALSE]]
    BY <1>1 DEF UpdateRead
  <2>2. req' \in [Requests -> Request]
    BY <2>1, ConstantRows DEF TypeOK, Request
  <2>3. began' \in [Requests -> Beginning]
    BY <1>1 DEF UpdateRead, TypeOK, Beginning
  <2> QED
    BY <1>1, <2>2, <2>3 DEF UpdateRead, TypeOK, stores
<1>2. CASE OverridesRead(r)
  <2>1. req' \in [Requests -> Request]
    BY <1>2 DEF OverridesRead, TypeOK, Request
  <2> QED
    BY <1>2, <2>1 DEF OverridesRead, TypeOK, stores
<1>3. CASE PlatformCommit(r)
  <2>1. override' \in Switches /\ enabled' \subseteq Modules
    BY <1>00, <1>0, <1>3, UpsertedType DEF PlatformCommit, EnabledKeys
  <2>2. began' \in [Requests -> Beginning]
    BY <1>3, DisturbType DEF PlatformCommit
  <2>3. req' \in [Requests -> Request]
    BY <1>3, GotoType DEF PlatformCommit
  <2> QED
    BY <1>3, <2>1, <2>2, <2>3 DEF PlatformCommit, TypeOK
<1>4. CASE PlatformRollback(r)
  BY <1>4, GotoType DEF PlatformRollback, TypeOK, stores
<1>5. CASE CrmCommit(r)
  <2>1. crm' \in Switches
    BY <1>00, <1>0, <1>5, UpsertedType DEF CrmCommit
  <2>2. began' \in [Requests -> Beginning]
    BY <1>5, DisturbType DEF CrmCommit
  <2>3. req' \in [Requests -> Request]
    BY <1>5, GotoType DEF CrmCommit
  <2> QED
    BY <1>5, <2>1, <2>2, <2>3 DEF CrmCommit, TypeOK
<1>6. CASE CrmRollback(r)
  BY <1>6, GotoType DEF CrmRollback, TypeOK, stores
<1>7. CASE Compensate(r)
  <2>1. began' \in [Requests -> Beginning]
    BY <1>7, DisturbType DEF Compensate
  <2>2. req' \in [Requests -> Request]
    BY <1>7, GotoType DEF Compensate
  <2> QED
    BY <1>7, <1>00, <2>1, <2>2 DEF Compensate, TypeOK
<1>8. CASE CompensateFails(r)
  BY <1>8, GotoType DEF CompensateFails, TypeOK, stores
<1>9. CASE Crash(r)
  <2>1. req' \in [Requests -> Request]
    BY <1>9 DEF Crash, TypeOK, Request
  <2> QED
    BY <1>9, <2>1 DEF Crash, TypeOK, stores
<1> QED
  BY <1>1, <1>2, <1>3, <1>4, <1>5, <1>6, <1>7, <1>8, <1>9 DEF Step

LEMMA NextType == TypeOK /\ [Next]_vars => TypeOK'
<1> SUFFICES ASSUME TypeOK, [Next]_vars PROVE TypeOK'
  OBVIOUS
<1>1. CASE Provision
  BY <1>1, ConstantRows, DisturbType DEF Provision, TypeOK
<1>2. CASE LinkWrite
  BY <1>2, DisturbType DEF LinkWrite, TypeOK
<1>3. CASE UNCHANGED vars
  BY <1>3 DEF vars, TypeOK
<1> QED
  BY <1>1, <1>2, <1>3, StepType DEF Next, AllServed

-----------------------------------------------------------------------------
(* Steps.                                                                  *)

\* A handler that is still alone after a write is the writer, or does not run.
LEMMA LoneAfterWrite ==
  ASSUME TypeOK, NEW writers, DisturbAllBut(writers), NEW q \in Requests, began'[q].alone
  PROVE  began'[q] = began[q] /\ (q \in writers \/ ~Running(q))
  BY DEF DisturbAllBut, TypeOK, Beginning

LEMMA OthersStay ==
  ASSUME TypeOK, NEW r \in Requests, Step(r), NEW q \in Requests, q # r
  PROVE  req'[q] = req[q]
  BY DEF Step, UpdateRead, OverridesRead, PlatformCommit, PlatformRollback, CrmCommit, CrmRollback,
     Compensate, CompensateFails, Crash, Goto, TypeOK

\* The steps of a handler that write a row, and those that write none.
Writes(r) == PlatformCommit(r) \/ CrmCommit(r) \/ Compensate(r)

LEMMA Writers ==
  ASSUME TypeOK, NEW r \in Requests, Step(r)
  PROVE  \/ Writes(r) /\ DisturbAllBut({r})
         \/ ~Writes(r) /\ UNCHANGED stores /\ \A q \in Requests : q # r => began'[q] = began[q]
  BY DEF Step, UpdateRead, OverridesRead, PlatformCommit, PlatformRollback, CrmCommit, CrmRollback,
     Compensate, CompensateFails, Crash, TypeOK, Writes, stores

\* Of the other handlers, the ones that run alone after a step ran alone
\* before it, and nothing was written.
LEMMA OthersKnow ==
  ASSUME IInv, NEW r \in Requests, Step(r), NEW q \in Requests, q # r, Running(q)', began'[q].alone
  PROVE  Knows(q)'
<1>1. req'[q] = req[q] /\ Running(q)
  BY OthersStay DEF IInv, Running
<1>2. ~Writes(r) /\ UNCHANGED stores /\ began'[q] = began[q]
  <2>1. ~DisturbAllBut({r})
    BY <1>1, LoneAfterWrite DEF IInv
  <2> QED
    BY <2>1, Writers DEF IInv
<1>3. Knows(q)
  BY <1>1, <1>2 DEF IInv, LoneHandlersKnow
<1> QED
  BY <1>1, <1>2, <1>3 DEF Knows, Halfway, stores

\* The handler that takes the step.
LEMMA ActorKnows ==
  ASSUME IInv, NEW r \in Requests, Step(r), Running(r)', began'[r].alone
  PROVE  Knows(r)'
<1> USE DEF Ended
<1>0. TypeOK /\ req[r] \in Request /\ req \in [Requests -> Request] /\ began \in [Requests -> Beginning]
  BY DEF IInv, TypeOK
<1>1. CASE UpdateRead(r)
  <2>1. req'[r].pc \in {"overrides", "refused"} /\ req'[r].seen = enabled
    BY <1>1, <1>0 DEF UpdateRead
  <2>2. /\ began'[r].enabled = enabled /\ began'[r].override = override /\ began'[r].crm = crm
    BY <1>1, <1>0 DEF UpdateRead
  <2> QED
    BY <1>1, <2>1, <2>2 DEF UpdateRead, Knows, Halfway, stores
<1> SUFFICES ASSUME ~UpdateRead(r) PROVE Knows(r)'
  BY <1>1
<1>2. Running(r)
  BY <1>0 DEF Step, OverridesRead, PlatformCommit, PlatformRollback, CrmCommit, CrmRollback,
     Compensate, CompensateFails, Crash, At, Running, Goto, Request
<1>3. began'[r] = began[r]
  <2>1. ASSUME DisturbAllBut({r}) PROVE began'[r] = began[r]
    BY <2>1, <1>0, LoneAfterWrite
  <2> QED
    BY <2>1 DEF Step, OverridesRead, PlatformCommit, PlatformRollback, CrmCommit, CrmRollback,
       Compensate, CompensateFails, Crash
<1>4. Knows(r)
  BY <1>2, <1>3 DEF IInv, LoneHandlersKnow
<1>5. CASE OverridesRead(r)
  <2>1. req'[r] = [req[r] EXCEPT !.pc = "platform", !.before = override]
    BY <1>5, <1>0 DEF OverridesRead
  <2>2. /\ req'[r].pc = "platform" /\ req'[r].before = override /\ req'[r].seen = req[r].seen
    BY <2>1, <1>0 DEF Request
  <2> QED
    BY <1>3, <1>4, <1>5, <2>2 DEF OverridesRead, At, Knows, Halfway, stores
<1>6. CASE PlatformCommit(r)
  <2>1. /\ req'[r].pc \in {"crm", "done"} /\ req'[r].seen = req[r].seen
        /\ req'[r].before = req[r].before /\ req'[r].asked = req[r].asked
    BY <1>6, <1>0 DEF PlatformCommit, Goto, Request
  <2> QED
    BY <1>3, <1>4, <1>6, <2>1 DEF PlatformCommit, At, Knows, Halfway
<1>7. CASE CrmRollback(r)
  <2>1. /\ req'[r].pc = "compensate" /\ req'[r].seen = req[r].seen
        /\ req'[r].before = req[r].before /\ req'[r].asked = req[r].asked
    BY <1>7, <1>0 DEF CrmRollback, Goto, Request
  <2> QED
    BY <1>3, <1>4, <1>7, <2>1 DEF CrmRollback, At, Knows, Halfway, stores
<1>8. CASE PlatformRollback(r) \/ CrmCommit(r) \/ Compensate(r) \/ CompensateFails(r) \/ Crash(r)
  <2>1. ~Running(r)'
    BY <1>8, <1>0 DEF PlatformRollback, CrmCommit, Compensate, CompensateFails, Crash, Goto,
       Running, Request
  <2> QED
    BY <2>1
<1> QED
  BY <1>5, <1>6, <1>7, <1>8 DEF Step

LEMMA StepKnows ==
  ASSUME IInv, NEW r \in Requests, Step(r)
  PROVE  LoneHandlersKnow'
  BY OthersKnow, ActorKnows DEF LoneHandlersKnow

\* What a handler saw and where the tenant stands.
LEMMA StepLinking ==
  ASSUME IInv, NEW r \in Requests, Step(r)
  PROVE  Linking'
<1>0. TypeOK /\ req[r] \in Request /\ req \in [Requests -> Request]
  BY DEF IInv, TypeOK
<1>1. UNCHANGED link
  BY DEF Step, UpdateRead, OverridesRead, PlatformCommit, PlatformRollback, CrmCommit, CrmRollback,
     Compensate, CompensateFails, Crash, stores
<1>2. ASSUME NEW q \in Requests PROVE (req'[q].linked => link' = "linked") /\ (Halfway(q)' => req'[q].linked)
  <2>1. CASE q # r
    BY <1>0, <1>1, <2>1, OthersStay DEF IInv, Linking, Halfway
  <2>2. CASE q = r /\ UpdateRead(r)
    <3>1. req'[r].linked = (link = "linked") /\ req'[r].pc \in {"overrides", "refused"}
      BY <2>2, <1>0 DEF UpdateRead
    <3> QED
      BY <3>1, <1>1, <2>2 DEF Halfway
  <2>3. CASE q = r /\ ~UpdateRead(r)
    <3>1. req'[r].linked = req[r].linked
      BY <2>3, <1>0 DEF Step, OverridesRead, PlatformCommit, PlatformRollback, CrmCommit, CrmRollback,
         Compensate, CompensateFails, Crash, Goto, Request
    <3>2. CASE PlatformCommit(r)
      <4>1. req'[r].pc = IF req[r].linked THEN "crm" ELSE "done"
        BY <3>2, <1>0 DEF PlatformCommit, Goto
      <4> QED
        BY <4>1, <3>1, <1>1, <2>3 DEF IInv, Linking, Halfway
    <3>3. CASE ~PlatformCommit(r)
      <4>1. Halfway(r)' => Halfway(r)
        <5>1. CASE CrmRollback(r)
          BY <5>1 DEF CrmRollback, At, Halfway
        <5>2. CASE Crash(r)
          <6>1. req'[r] = [req[r] EXCEPT !.lost = TRUE]
            BY <5>2, <1>0 DEF Crash
          <6>2. req'[r].pc = req[r].pc
            BY <6>1, <1>0 DEF Request
          <6> QED
            BY <6>2 DEF Halfway
        <5>3. CASE OverridesRead(r)
          <6>1. req'[r] = [req[r] EXCEPT !.pc = "platform", !.before = override]
            BY <5>3, <1>0 DEF OverridesRead
          <6>2. req'[r].pc = "platform"
            BY <6>1, <1>0 DEF Request
          <6> QED
            BY <6>2 DEF Halfway
        <5>4. CASE PlatformRollback(r) \/ CrmCommit(r) \/ Compensate(r) \/ CompensateFails(r)
          <6>1. req'[r].pc \in {"done", "refused", "reverted", "failed"}
            BY <5>4, <1>0 DEF PlatformRollback, CrmCommit, Compensate, CompensateFails, Goto, Request
          <6> QED
            BY <6>1 DEF Halfway
        <5> QED
          BY <5>1, <5>2, <5>3, <5>4, <2>3, <3>3 DEF Step
      <4> QED
        BY <4>1, <3>1, <1>1, <2>3 DEF IInv, Linking
    <3> QED
      BY <3>2, <3>3
  <2> QED
    BY <2>1, <2>2, <2>3
<1>3. link' = "none" => crm' = Unset
  <2>1. CASE CrmCommit(r)
    BY <2>1, <1>1 DEF CrmCommit, At, IInv, Linking, Halfway
  <2>2. CASE ~CrmCommit(r)
    BY <2>2, <1>1 DEF IInv, Linking, Step, UpdateRead, OverridesRead, PlatformCommit,
       PlatformRollback, CrmRollback, Compensate, CompensateFails, Crash, stores
  <2> QED
    BY <2>1, <2>2
<1> QED
  BY <1>2, <1>3 DEF Linking

\* Nobody disturbs a handler that has not begun.
LEMMA StepFresh ==
  ASSUME IInv, NEW r \in Requests, Step(r)
  PROVE  FreshAreAlone'
<1>0. TypeOK /\ req[r] \in Request /\ req \in [Requests -> Request] /\ began \in [Requests -> Beginning]
  BY DEF IInv, TypeOK
<1>1. ASSUME NEW q \in Requests, q # r, req'[q].pc = "idle" PROVE began'[q].alone
  <2>1. req[q].pc = "idle"
    BY <1>0, <1>1, OthersStay
  <2>2. began[q].alone /\ ~Running(q)
    BY <2>1 DEF IInv, FreshAreAlone, Running
  <2>3. CASE DisturbAllBut({r})
    BY <1>0, <2>2, <2>3 DEF DisturbAllBut
  <2> QED
    BY <1>0, <1>1, <2>2, <2>3, Writers
<1>2. req'[r].pc # "idle"
  <2>1. CASE Crash(r)
    <3>1. req'[r] = [req[r] EXCEPT !.lost = TRUE]
      BY <1>0, <2>1 DEF Crash
    <3>2. req'[r].pc = req[r].pc
      BY <3>1, <1>0 DEF Request
    <3> QED
      BY <2>1, <3>2 DEF Crash, Running
  <2>2. CASE UpdateRead(r)
    <3>1. req'[r].pc \in {"overrides", "refused"}
      BY <1>0, <2>2 DEF UpdateRead
    <3> QED
      BY <3>1
  <2>3. CASE OverridesRead(r)
    <3>1. req'[r] = [req[r] EXCEPT !.pc = "platform", !.before = override]
      BY <2>3, <1>0 DEF OverridesRead
    <3> QED
      BY <3>1, <1>0 DEF Request
  <2>4. CASE \/ PlatformCommit(r) \/ PlatformRollback(r) \/ CrmCommit(r) \/ CrmRollback(r)
             \/ Compensate(r) \/ CompensateFails(r)
    BY <2>4, <1>0 DEF PlatformCommit, PlatformRollback, CrmCommit, CrmRollback, Compensate,
       CompensateFails, Goto, Request
  <2> QED
    BY <2>1, <2>2, <2>3, <2>4 DEF Step
<1> QED
  BY <1>1, <1>2 DEF FreshAreAlone

-----------------------------------------------------------------------------
(* Updates one after the other.                                            *)

\* A step that writes nothing keeps every update halfway or not, and makes
\* none orderly.
LEMMA QuietStepAgrees ==
  ASSUME IInv, NEW r \in Requests, Step(r), ~Writes(r), \A q \in Requests : OrderlySoFar(q)'
  PROVE  AgreeSoFar'
<1>0. TypeOK /\ req[r] \in Request /\ req \in [Requests -> Request] /\ began \in [Requests -> Beginning]
  BY DEF IInv, TypeOK
<1>1. UNCHANGED stores /\ \A q \in Requests : q # r => began'[q] = began[q] /\ req'[q] = req[q]
  BY <1>0, Writers, OthersStay
<1>2. /\ OrderlySoFar(r)
      /\ Halfway(r)' = Halfway(r)
      /\ Halfway(r) => began'[r] = began[r]
  <2>1. CASE UpdateRead(r)
    <3>1. req'[r].pc \in {"overrides", "refused"} /\ req[r].pc = "idle" /\ ~req[r].lost
      BY <2>1, <1>0 DEF UpdateRead, At
    <3> QED
      BY <3>1 DEF OrderlySoFar, Halfway, IInv, FreshAreAlone
  <2>2. CASE OverridesRead(r)
    <3>1. req'[r] = [req[r] EXCEPT !.pc = "platform", !.before = override]
      BY <2>2, <1>0 DEF OverridesRead
    <3>2. req'[r].pc = "platform" /\ req'[r].lost = req[r].lost
      BY <3>1, <1>0 DEF Request
    <3> QED
      BY <2>2, <3>2 DEF OverridesRead, OrderlySoFar, Halfway, At
  <2>3. CASE PlatformRollback(r)
    <3>1. req'[r].pc = "refused" /\ req'[r].lost = req[r].lost
      BY <2>3, <1>0 DEF PlatformRollback, Goto, Request
    <3> QED
      BY <2>3, <3>1 DEF PlatformRollback, OrderlySoFar, Halfway, At
  <2>4. CASE CrmRollback(r)
    <3>1. req'[r].pc = "compensate" /\ req'[r].lost = req[r].lost
      BY <2>4, <1>0 DEF CrmRollback, Goto, Request
    <3> QED
      BY <2>4, <3>1 DEF CrmRollback, OrderlySoFar, Halfway, At
  <2>5. CASE CompensateFails(r)
    <3>1. req'[r].pc = "failed"
      BY <2>5, <1>0 DEF CompensateFails, Goto, Request
    <3> QED
      BY <3>1 DEF OrderlySoFar
  <2>6. CASE Crash(r)
    <3>1. req'[r] = [req[r] EXCEPT !.lost = TRUE]
      BY <2>6, <1>0 DEF Crash
    <3>2. req'[r].lost
      BY <3>1, <1>0 DEF Request
    <3> QED
      BY <3>2 DEF OrderlySoFar
  <2> QED
    BY <2>1, <2>2, <2>3, <2>4, <2>5, <2>6 DEF Step, Writes
<1>3. \A q \in Requests : OrderlySoFar(q)
  <2> TAKE q \in Requests
  <2>1. CASE q = r
    BY <2>1, <1>2
  <2>2. CASE q # r
    BY <2>2, <1>1 DEF OrderlySoFar
  <2> QED
    BY <2>1, <2>2
<1>4. \A q \in Requests : Halfway(q)' = Halfway(q) /\ (Halfway(q) => began'[q] = began[q])
  BY <1>1, <1>2 DEF Halfway
<1> QED
  BY <1>1, <1>3, <1>4 DEF AgreeSoFar, IInv, stores

\* The writer is alone with its write: everyone else has ended, or not begun.
LEMMA WriteAgrees ==
  ASSUME IInv, NEW r \in Requests, Step(r), Writes(r), \A q \in Requests : OrderlySoFar(q)'
  PROVE  AgreeSoFar'
<1>0. TypeOK /\ req[r] \in Request /\ req \in [Requests -> Request] /\ began \in [Requests -> Beginning]
  BY DEF IInv, TypeOK
<1>00. /\ began[r] \in Beginning /\ began[r].override \in Switches /\ began[r].crm \in Switches
       /\ req[r].asked \in Switches
  BY <1>0 DEF Beginning, Request
<1>1. DisturbAllBut({r})
  BY <1>0, Writers
<1>2. began'[r] = began[r]
  BY <1>0, <1>1 DEF DisturbAllBut
<1>3. Running(r) /\ began[r].alone
  BY <1>2 DEF Writes, PlatformCommit, CrmCommit, Compensate, At, Running, Ended, OrderlySoFar
<1>4. Knows(r)
  BY <1>3 DEF IInv, LoneHandlersKnow
<1>5. OrderlySoFar(r)
  BY <1>3 DEF Writes, PlatformCommit, CrmCommit, Compensate, At, OrderlySoFar
<1>6. ASSUME NEW q \in Requests, q # r PROVE OrderlySoFar(q) /\ ~Halfway(q) /\ ~Halfway(q)'
  <2>1. req'[q] = req[q] /\ began'[q].alone /\ ~req[q].lost
    BY <1>0, <1>6, OthersStay DEF OrderlySoFar
  <2>2. began'[q] = began[q] /\ ~Running(q)
    BY <1>0, <1>1, <1>6, <2>1, LoneAfterWrite
  <2> QED
    BY <2>1, <2>2 DEF OrderlySoFar, Running, Halfway, Ended
<1>7. CASE PlatformCommit(r)
  <2>1. Agree(override, crm)
    BY <1>5, <1>6, <1>7 DEF IInv, AgreeSoFar, PlatformCommit, At, Halfway
  <2>2. override = began[r].override /\ crm = began[r].crm
    BY <1>4, <1>7 DEF Knows, PlatformCommit, At
  <2>3. Halfway(r)'
    <3>1. /\ req'[r].pc = IF req[r].linked THEN "crm" ELSE "done"
          /\ req'[r].linked = req[r].linked
      BY <1>0, <1>7 DEF PlatformCommit, Goto, Request
    <3> QED
      BY <3>1 DEF OrderlySoFar, Halfway
  <2> QED
    BY <1>2, <1>6, <2>1, <2>2, <2>3 DEF AgreeSoFar
<1>8. CASE CrmCommit(r)
  <2>1. Agree(began[r].override, began[r].crm)
    BY <1>5, <1>6, <1>8 DEF IInv, AgreeSoFar, CrmCommit, At, Halfway
  <2>2. /\ override' = Upserted(began[r].override, req[r].asked)
        /\ crm' = Upserted(began[r].crm, req[r].asked)
    BY <1>4, <1>8 DEF Knows, CrmCommit, At, Halfway
  <2>3. Agree(override, crm)'
    BY <1>00, <2>1, <2>2, UpsertedAgree DEF Agree
  <2>4. ~Halfway(r)'
    BY <1>0, <1>8 DEF CrmCommit, Goto, Halfway, Request
  <2> QED
    BY <1>6, <2>3, <2>4 DEF AgreeSoFar
<1>9. CASE Compensate(r)
  <2>1. Agree(began[r].override, began[r].crm)
    BY <1>5, <1>6, <1>9 DEF IInv, AgreeSoFar, Compensate, At, Halfway
  <2>2. override' = began[r].override /\ crm' = began[r].crm
    BY <1>4, <1>9 DEF Knows, Compensate, At
  <2>3. ~Halfway(r)'
    BY <1>0, <1>9 DEF Compensate, Goto, Halfway, Request
  <2> QED
    BY <1>6, <2>1, <2>2, <2>3 DEF AgreeSoFar
<1> QED
  BY <1>7, <1>8, <1>9 DEF Writes

-----------------------------------------------------------------------------
(* The inductive invariant.                                                *)

LEMMA InitInvariant == Init => IInv
<1> SUFFICES ASSUME Init PROVE IInv
  OBVIOUS
<1>1. TypeOK
  BY InitType
<1>2. \A r \in Requests : req[r].pc = "idle" /\ ~req[r].linked /\ began[r].alone
  BY DEF Init
<1>3. LoneHandlersKnow
  BY <1>2 DEF LoneHandlersKnow, Running
<1>4. Linking /\ FreshAreAlone
  BY <1>2 DEF Linking, FreshAreAlone, Halfway, Init
<1>5. Agree(override, crm)
  BY DEF Init, Agree, Unset
<1>6. AgreeSoFar
  BY <1>2, <1>5 DEF AgreeSoFar, Halfway
<1> QED
  BY <1>1, <1>3, <1>4, <1>6 DEF IInv

\* Provisioning disturbs every update that runs.
LEMMA ProvisioningInvariant ==
  ASSUME IInv, Provision \/ LinkWrite
  PROVE  IInv'
<1>1. TypeOK /\ TypeOK' /\ req' = req /\ override' = override /\ DisturbAllBut({})
  BY NextType DEF IInv, Next, Provision, LinkWrite
<1>2. \A q \in Requests : began'[q].alone => began'[q] = began[q] /\ ~Running(q)
  BY <1>1, LoneAfterWrite
<1>3. LoneHandlersKnow'
  BY <1>1, <1>2 DEF LoneHandlersKnow, Running
<1>4. Linking'
  BY <1>1 DEF IInv, Linking, Halfway, Provision, LinkWrite
<1>5. FreshAreAlone'
  BY <1>1 DEF IInv, FreshAreAlone, DisturbAllBut, Running
<1>6. AgreeSoFar'
  <2> SUFFICES ASSUME \A q \in Requests : OrderlySoFar(q)' PROVE AgreeSoFar'
    BY DEF AgreeSoFar
  <2>1. ASSUME NEW q \in Requests PROVE OrderlySoFar(q) /\ ~Halfway(q) /\ ~Halfway(q)'
    BY <1>1, <1>2 DEF OrderlySoFar, Halfway, Running, Ended
  <2>2. Agree(override, crm)
    BY <2>1 DEF IInv, AgreeSoFar
  <2>3. Agree(override, crm)'
    <3>1. CASE Provision
      BY <1>1, <2>2, <3>1 DEF Provision, IInv, Linking, Agree, Unset
    <3>2. CASE LinkWrite
      BY <2>2, <3>2 DEF LinkWrite, Agree
    <3> QED
      BY <3>1, <3>2
  <2> QED
    BY <2>1, <2>3 DEF AgreeSoFar
<1> QED
  BY <1>1, <1>3, <1>4, <1>5, <1>6 DEF IInv

LEMMA StutterInvariant == IInv /\ UNCHANGED vars => IInv'
  BY DEF IInv, TypeOK, LoneHandlersKnow, Linking, FreshAreAlone, AgreeSoFar, OrderlySoFar, Knows,
     Halfway, Running, Agree, vars

LEMMA NextInvariant == IInv /\ [Next]_vars => IInv'
<1> SUFFICES ASSUME IInv, [Next]_vars PROVE IInv'
  OBVIOUS
<1>1. ASSUME NEW r \in Requests, Step(r) PROVE IInv'
  <2>1. AgreeSoFar'
    <3> SUFFICES ASSUME \A q \in Requests : OrderlySoFar(q)' PROVE AgreeSoFar'
      BY DEF AgreeSoFar
    <3> QED
      BY <1>1, QuietStepAgrees, WriteAgrees
  <2> QED
    BY <1>1, <2>1, StepType, StepKnows, StepLinking, StepFresh DEF IInv
<1> QED
  BY <1>1, ProvisioningInvariant, StutterInvariant DEF Next, AllServed

\* The invariant of every reachable state: the types, what lone handlers know
\* of the rows (updateModules and its two reads), and agreement so far.
THEOREM Inductive == Spec => []IInv
  BY InitInvariant, NextInvariant, PTL DEF Spec

\* Every variable of the module has its type, whatever the updates do.
THEOREM TypeCorrect == Spec => []TypeOK
<1>1. IInv => TypeOK
  BY DEF IInv
<1> QED
  BY <1>1, Inductive, PTL

\* Updates of the modules one after the other leave overrides and CRM in
\* agreement, also when some of them fail in the CRM and are compensated.
THEOREM SerialUpdatesKeepAgreement == Spec => []SerialUpdatesAgree
<1>1. IInv => SerialUpdatesAgree
  <2> SUFFICES ASSUME IInv, \A r \in Requests : Orderly(r) PROVE Agree(override, crm)
    BY DEF SerialUpdatesAgree
  <2>1. \A r \in Requests : OrderlySoFar(r) /\ ~Halfway(r)
    BY DEF Orderly, OrderlySoFar, Halfway
  <2> QED
    BY <2>1 DEF IInv, AgreeSoFar
<1> QED
  BY <1>1, Inductive, PTL

-----------------------------------------------------------------------------
(* All or nothing.                                                         *)

LEMMA ActorWhole ==
  ASSUME IInv, NEW r \in Requests, Step(r), began[r].alone
  PROVE  Whole(r)
<1>0. TypeOK /\ req[r] \in Request /\ req \in [Requests -> Request]
  BY DEF IInv, TypeOK
<1>1. Running(r) => Knows(r)
  BY DEF IInv, LoneHandlersKnow
<1>2. CASE UpdateRead(r)
  <2>1. req[r].pc = "idle" /\ req'[r].pc # "done"
    BY <1>0, <1>2 DEF UpdateRead, At
  <2> QED
    BY <2>1 DEF Whole, Answered
<1>3. CASE OverridesRead(r)
  <2>1. req'[r] = [req[r] EXCEPT !.pc = "platform", !.before = override]
    BY <1>0, <1>3 DEF OverridesRead
  <2>2. req'[r].pc = "platform"
    BY <2>1, <1>0 DEF Request
  <2> QED
    BY <2>2 DEF Whole, Answered
<1>4. CASE PlatformCommit(r)
  <2>1. req'[r].pc = IF req[r].linked THEN "crm" ELSE "done"
    BY <1>0, <1>4 DEF PlatformCommit, Goto
  <2>2. Knows(r) /\ req[r].pc = "platform"
    BY <1>1, <1>4 DEF PlatformCommit, At, Running, Ended
  <2> QED
    BY <1>4, <2>1, <2>2 DEF PlatformCommit, Knows, Whole, Answered
<1>5. CASE PlatformRollback(r)
  <2>1. req'[r].pc = "refused"
    BY <1>0, <1>5 DEF PlatformRollback, Goto, Request
  <2>2. Knows(r) /\ req[r].pc = "platform"
    BY <1>1, <1>5 DEF PlatformRollback, At, Running, Ended
  <2> QED
    BY <1>5, <2>1, <2>2 DEF PlatformRollback, Knows, Whole, Answered, PlatformAsBefore, stores
<1>6. CASE CrmCommit(r)
  <2>1. req'[r].pc = "done"
    BY <1>0, <1>6 DEF CrmCommit, Goto, Request
  <2>2. Knows(r) /\ req[r].pc = "crm"
    BY <1>1, <1>6 DEF CrmCommit, At, Running, Ended
  <2>3. req[r].linked
    BY <2>2 DEF IInv, Linking, Halfway
  <2> QED
    BY <1>6, <2>1, <2>2, <2>3 DEF CrmCommit, Knows, Halfway, Whole, Answered
<1>7. CASE CrmRollback(r)
  <2>1. req'[r].pc = "compensate"
    BY <1>0, <1>7 DEF CrmRollback, Goto, Request
  <2> QED
    BY <2>1 DEF Whole, Answered
<1>8. CASE Compensate(r)
  <2>1. req'[r].pc = "reverted"
    BY <1>0, <1>8 DEF Compensate, Goto, Request
  <2>2. Knows(r) /\ req[r].pc = "compensate"
    BY <1>1, <1>8 DEF Compensate, At, Running, Ended
  <2> QED
    BY <1>8, <2>1, <2>2 DEF Compensate, Knows, Whole, Answered, PlatformAsBefore
<1>9. CASE CompensateFails(r)
  <2>1. req'[r].pc = "failed"
    BY <1>0, <1>9 DEF CompensateFails, Goto, Request
  <2> QED
    BY <2>1 DEF Whole, Answered
<1>10. CASE Crash(r)
  <2>1. req'[r] = [req[r] EXCEPT !.lost = TRUE]
    BY <1>0, <1>10 DEF Crash
  <2>2. req'[r].pc = req[r].pc
    BY <2>1, <1>0 DEF Request
  <2> QED
    BY <2>2 DEF Whole, Answered
<1> QED
  BY <1>2, <1>3, <1>4, <1>5, <1>6, <1>7, <1>8, <1>9, <1>10 DEF Step

\* An update of the modules during which nobody else writes takes effect in
\* both databases or in neither, and its answer says which.
THEOREM UpdatesAreAllOrNothing == Spec => AllOrNothing
<1>1. IInv /\ [Next]_vars => [\A r \in Requests : began[r].alone => Whole(r)]_vars
  <2> SUFFICES ASSUME IInv, Next, NEW r \in Requests, began[r].alone PROVE Whole(r)
    OBVIOUS
  <2>1. CASE req'[r] = req[r]
    BY <2>1 DEF Whole, Answered
  <2>2. CASE req'[r] # req[r]
    <3>1. Step(r)
      BY <2>2, OthersStay DEF Next, Provision, LinkWrite, AllServed, vars, IInv
    <3> QED
      BY <3>1, ActorWhole
  <2> QED
    BY <2>1, <2>2
<1> QED
  BY <1>1, Inductive, PTL DEF Spec, AllOrNothing
=============================================================================
