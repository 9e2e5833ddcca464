--------------------------- MODULE TransitionProofs ---------------------------
(***************************************************************************)
(* The validator agrees with the chain about every batch, and so does the  *)
(* withdraw command, for every upgrade height, number of batches and       *)
(* schedule.                                                               *)
(***************************************************************************)
EXTENDS Withdrawal, TLAPS

USE DEF Indexes, Forms

\* A canonical root is a state root.
LEMMA CanonicalRoot ==
  ASSUME NEW b, b.prev \in Prevs \cup {EmptyPrev}, b.wroot \in WithdrawalRoots,
         NEW form \in Forms
  PROVE  batchTransitionRoot(b, form) \in StateRoots
<1> DEFINE f == [prev |-> b.prev, wroot |-> b.wroot]
<1>1. f \in Fields
  BY DEF Fields
<1>2. batchTransitionRoot(f, form) = batchTransitionRoot(b, form)
  BY DEF batchTransitionRoot
<1>3. QED
  BY <1>1, <1>2 DEF StateRoots

\* transitionRootVersionForBatch finds the binding the chain gave the batch:
\* the upgrade height decides, read before the upgrade, in it or after it.
LEMMA VersionFound ==
  ASSUME TypeOK, NEW b, b.submittedAt \in Nat, b.submittedAt <= height,
         b.bound = (b.submittedAt >= UpgradeHeight)
  PROVE  transitionRootVersionForBatch(b) = ChainForm(b)
<1>1. height \in Nat /\ UpgradeHeight \in Nat \ {0}
  BY TransitionAssumption DEF TypeOK
<1>2. CASE b.submittedAt >= UpgradeHeight
  <2>1. b.bound
    BY <1>2, Zenon
  <2>2. AppliedPlanHeight > 0 /\ b.submittedAt >= AppliedPlanHeight
    BY <1>1, <1>2 DEF AppliedPlanHeight
  <2> QED BY <2>1, <2>2 DEF transitionRootVersionForBatch, ChainForm
<1>3. CASE ~(b.submittedAt >= UpgradeHeight)
  <2>1. ~b.bound
    BY <1>3, Zenon
  <2>2. ~(AppliedPlanHeight > 0 /\ b.submittedAt >= AppliedPlanHeight)
    BY <1>1, <1>3 DEF AppliedPlanHeight
  <2> QED BY <2>1, <2>2 DEF transitionRootVersionForBatch, ChainForm
<1> QED BY <1>2, <1>3

\* So it does for every batch of the chain.
LEMMA VersionIsTheChains ==
  ASSUME TypeOK, NEW b \in Batch, WellBound(b)
  PROVE  transitionRootVersionForBatch(b) = ChainForm(b)
BY VersionFound DEF Batch, WellBound

\* The next height leaves every batch well bound.
LEMMA HeightStep ==
  ASSUME TypeOK, NEW b \in Batch, WellBound(b),
         height' = height \/ height' = height + 1
  PROVE  WellBound(b)'
BY DEF TypeOK, Batch, WellBound

\* A batch included now is well bound and changes no other.
LEMMA IncludeStep ==
  ASSUME TypeOK, NEW i \in Indexes,
         \A j \in Indexes : batches[j] # NoBatch => WellBound(batches[j]),
         NEW f, f.prev \in Prevs \cup {EmptyPrev}, f.wroot \in WithdrawalRoots,
         NEW root \in StateRoots, NEW at \in 0 .. MaxHeight, at <= height,
         at # 0 => root = batchTransitionRoot(f, FormAt(at)),
         Include(i, f, root, at)
  PROVE  /\ batches' \in [Indexes -> Batch \cup {NoBatch}]
         /\ \A j \in Indexes : batches'[j] # NoBatch => WellBound(batches[j])'
         /\ height' = height /\ serves' = serves
<1> DEFINE b == [prev |-> f.prev, wroot |-> f.wroot, root |-> root, submittedAt |-> height,
                 bound |-> height >= UpgradeHeight, status |-> "submitted", computedAt |-> at]
<1>1. b \in Batch
  BY DEF TypeOK, Batch
<1>2. batches' = [batches EXCEPT ![i] = b] /\ height' = height /\ serves' = serves
  BY DEF Include
<1>3. batches' \in [Indexes -> Batch \cup {NoBatch}]
  BY <1>1, <1>2 DEF TypeOK
<1>4. WellBound(b)'
  <2>1. batchTransitionRoot(b, FormAt(at)) = batchTransitionRoot(f, FormAt(at))
    BY DEF batchTransitionRoot
  <2>2. QED
    BY <1>2, <2>1 DEF TypeOK, WellBound, FormAt, batchTransitionRoot
<1>5. ASSUME NEW j \in Indexes, batches'[j] # NoBatch
      PROVE  WellBound(batches[j])'
  <2>1. CASE j = i
    BY <1>2, <1>4, <2>1 DEF TypeOK
  <2>2. CASE j # i
    <3>1. batches'[j] = batches[j]
      BY <1>2, <2>2 DEF TypeOK
    <3>2. QED
      BY <1>2, <1>5, <3>1 DEF WellBound, FormAt, batchTransitionRoot
  <2>3. QED
    BY <2>1, <2>2
<1>6. QED
  BY <1>2, <1>3, <1>5

\* Rejecting changes statuses only.
LEMMA RejectStep ==
  ASSUME TypeOK, NEW i \in Indexes, height' = height,
         \A j \in Indexes : batches[j] # NoBatch => WellBound(batches[j]),
         Reject(i)
  PROVE  /\ batches' \in [Indexes -> Batch \cup {NoBatch}]
         /\ \A j \in Indexes : batches'[j] # NoBatch => WellBound(batches[j])'
<1>1. ASSUME NEW j \in Indexes
      PROVE  /\ batches'[j] \in Batch \cup {NoBatch}
             /\ batches'[j] # NoBatch => WellBound(batches[j])'
  <2>1. CASE (j = i \/ (j > i /\ height >= UpgradeHeight)) /\ batches[j] # NoBatch /\ batches[j].status = "submitted"
    <3>1. batches'[j] = [batches[j] EXCEPT !.status = "rejected"]
      BY <2>1 DEF Reject
    <3>2. batches[j] \in Batch /\ WellBound(batches[j])
      BY <2>1 DEF TypeOK
    <3>3. batches'[j] \in Batch
      BY <3>1, <3>2 DEF Batch
    <3>4. QED
      BY <3>1, <3>2, <3>3 DEF Batch, WellBound, FormAt, batchTransitionRoot
  <2>2. CASE ~((j = i \/ (j > i /\ height >= UpgradeHeight)) /\ batches[j] # NoBatch /\ batches[j].status = "submitted")
    <3>1. batches'[j] = batches[j]
      BY <2>2 DEF Reject
    <3>2. QED
      BY <3>1 DEF TypeOK, WellBound, FormAt, batchTransitionRoot
  <2>3. QED
    BY <2>1, <2>2
<1>2. QED
  BY <1>1 DEF Reject

\* The parts of BindInv that are about the challenger depend on nothing but
\* the challenger's variables and the height.
LEMMA TowerKept ==
  ASSUME BindInv, UNCHANGED towerVars, height' = height \/ height' = height + 1
  PROVE  /\ (pc # "idle" \/ verdict # "none" => view # NoBatch)'
         /\ (view # NoBatch => WellBound(view) /\ view.status = "submitted")'
         /\ (pc = "send" => Upheld(view, proof))'
         /\ VerdictIsTheChains' /\ ~forfeits'
<1>1. pc' = pc /\ view' = view /\ proof' = proof /\ verdict' = verdict /\ forfeits' = forfeits
  BY DEF towerVars
<1>2. view # NoBatch => WellBound(view)'
  BY <1>1, HeightStep DEF BindInv, TypeOK, WellBound, FormAt, batchTransitionRoot
<1>3. QED
  BY <1>1, <1>2
  DEF BindInv, Upheld, VerdictIsTheChains, ChainForm, batchTransitionRoot, WellBound, FormAt

\* Initially nothing is submitted, read or lost.
LEMMA BindInit == Init => BindInv
<1> SUFFICES ASSUME Init PROVE BindInv
  OBVIOUS
<1>1. TypeOK
  <2>1. Other \in StateRoots
    BY DEF StateRoots
  <2>2. 0 \in Indexes /\ 0 \in 0 .. MaxFaults /\ 1 \in 1 .. MaxHeight
    BY TransitionAssumption
  <2>3. batches \in [Indexes -> Batch \cup {NoBatch}]
    BY DEF Init
  <2>4. QED
    BY <2>1, <2>2, <2>3 DEF Init, TypeOK
<1>2. QED
  BY <1>1 DEF Init, BindInv, VerdictIsTheChains

\* Every step keeps the invariant.
LEMMA BindStep == BindInv /\ [Next]_vars => BindInv'
<1> SUFFICES ASSUME BindInv, [Next]_vars PROVE BindInv'
  OBVIOUS
<1> USE DEF BindInv
<1>1. CASE NewBlock
  <2>1. \A i \in Indexes : batches[i] # NoBatch => WellBound(batches[i])'
    BY <1>1, HeightStep DEF NewBlock, TypeOK, WellBound, FormAt, batchTransitionRoot
  <2>2. TypeOK'
    BY <1>1, TransitionAssumption DEF NewBlock, TypeOK, seqVars, towerVars
  <2>3. QED
    <3>1. /\ height' = height + 1 /\ height \in Nat
          /\ UNCHANGED <<batches, seqPc, draft, towerVars>>
      BY <1>1 DEF NewBlock, TypeOK, seqVars
    <3>2. (seqPc = "submit" => draft.at <= height /\ draft.form = FormAt(draft.at))'
      BY <3>1 DEF FormAt, Draft
    <3>3. QED
      BY <2>1, <2>2, <3>1, <3>2, TowerKept
<1>2. ASSUME NEW i \in Indexes, OthersReject(i)
      PROVE  BindInv'
  <2>1. Reject(i) /\ height' = height /\ serves' = serves
        /\ UNCHANGED <<seqVars, towerVars, faults>>
    BY <1>2 DEF OthersReject
  <2>2. TypeOK'
    BY <2>1, RejectStep DEF TypeOK, seqVars, towerVars
  <2>3. QED
    BY <2>1, <2>2, RejectStep, TowerKept DEF seqVars, FormAt
<1>3. ASSUME NEW i \in Indexes, Finalize(i)
      PROVE  BindInv'
  <2>1. batches' = [batches EXCEPT ![i] = [batches[i] EXCEPT !.status = "finalized"]]
        /\ height' = height /\ serves' = serves /\ UNCHANGED <<seqVars, towerVars, faults>>
    BY <1>3 DEF Finalize
  <2>2. batches[i] \in Batch /\ WellBound(batches[i])
    BY <1>3 DEF Finalize, Pending, TypeOK
  <2>3. [batches[i] EXCEPT !.status = "finalized"] \in Batch
    BY <2>2 DEF Batch
  <2>4. TypeOK'
    BY <2>1, <2>3 DEF TypeOK, seqVars, towerVars
  <2>5. ASSUME NEW j \in Indexes, batches'[j] # NoBatch
        PROVE  WellBound(batches[j])'
    <3>1. CASE j = i
      BY <2>1, <2>2, <3>1 DEF TypeOK, Batch, WellBound, FormAt, batchTransitionRoot
    <3>2. CASE j # i
      <4>1. batches'[j] = batches[j]
        BY <2>1, <3>2 DEF TypeOK
      <4>2. QED
        BY <2>1, <2>5, <4>1 DEF WellBound, FormAt, batchTransitionRoot
    <3>3. QED
      BY <3>1, <3>2
  <2>6. QED
    BY <2>1, <2>4, <2>5, TowerKept DEF seqVars, FormAt
<1>4. ASSUME NEW i \in Indexes, SubmitDraft(i)
      PROVE  BindInv'
  <2>1. draft \in Draft /\ draft.at <= height /\ draft.form = FormAt(draft.at)
    BY <1>4 DEF SubmitDraft
  <2> DEFINE r == batchTransitionRoot(draft, draft.form)
  <2>2. r \in StateRoots
    BY <2>1, CanonicalRoot DEF Draft
  <2>3. Include(i, draft, r, draft.at) /\ seqPc' = "idle" /\ draft' = NoBatch
        /\ UNCHANGED <<towerVars, faults>>
    BY <1>4 DEF SubmitDraft
  <2>4. /\ batches' \in [Indexes -> Batch \cup {NoBatch}]
        /\ \A j \in Indexes : batches'[j] # NoBatch => WellBound(batches[j])'
        /\ height' = height /\ serves' = serves
    <3> HIDE DEF r
    <3>1. draft.at # 0 => r = batchTransitionRoot(draft, FormAt(draft.at))
      BY <2>1 DEF r
    <3>2. QED
      BY <2>1, <2>2, <2>3, <3>1, IncludeStep DEF Draft
  <2>5. TypeOK'
    BY <2>3, <2>4 DEF TypeOK, towerVars
  <2>6. QED
    BY <2>3, <2>4, <2>5, TowerKept
<1>5. ASSUME NEW i \in Indexes, ReadBatch(i)
      PROVE  BindInv'
  <2>1. /\ pc' = "validate" /\ index' = i /\ view' = batches[i] /\ verdict' = "none"
        /\ UNCHANGED <<height, batches, serves, seqPc, draft, proof, forfeits, faults>>
    BY <1>5 DEF ReadBatch, chainVars, seqVars
  <2>2. batches[i] # NoBatch /\ batches[i].status = "submitted"
    BY <1>5 DEF ReadBatch, Pending
  <2>3. TypeOK'
    BY <2>1 DEF TypeOK
  <2>4. \A j \in Indexes : batches[j] # NoBatch => WellBound(batches[j])'
    BY <2>1 DEF WellBound, FormAt, batchTransitionRoot
  <2>5. QED
    BY <2>1, <2>2, <2>3, <2>4
    DEF FormAt, VerdictIsTheChains, WellBound, batchTransitionRoot
<1>6. ASSUME NEW i \in Indexes, NEW f \in Fields, NEW form \in Forms \cup {"none"},
             SubmitOther(i, f, form)
      PROVE  BindInv'
  <2> DEFINE r == IF form = "none" THEN Other ELSE batchTransitionRoot(f, form)
  <2>1. r \in StateRoots
    BY CanonicalRoot DEF Fields, StateRoots
  <2>2. Include(i, f, r, 0) /\ UNCHANGED <<seqVars, towerVars, faults>>
    BY <1>6 DEF SubmitOther
  <2>3. /\ batches' \in [Indexes -> Batch \cup {NoBatch}]
        /\ \A j \in Indexes : batches'[j] # NoBatch => WellBound(batches[j])'
        /\ height' = height /\ serves' = serves
    <3> HIDE DEF r
    <3>1. f.prev \in Prevs \cup {EmptyPrev} /\ f.wroot \in WithdrawalRoots
      BY DEF Fields
    <3>2. 0 \in 0 .. MaxHeight /\ 0 <= height
      BY TransitionAssumption DEF TypeOK
    <3>3. QED
      BY <2>1, <2>2, <3>1, <3>2, IncludeStep
  <2>4. TypeOK'
    BY <2>2, <2>3 DEF TypeOK, seqVars, towerVars
  <2>5. QED
    BY <2>2, <2>3, <2>4, TowerKept DEF seqVars, FormAt
<1>7. ASSUME NEW f \in Fields, StartBatch(f)
      PROVE  BindInv'
  <2>1. /\ seqPc' = "feature"
        /\ draft' = [prev |-> f.prev, wroot |-> f.wroot, form |-> "v1", at |-> 0]
        /\ UNCHANGED <<height, batches, serves, towerVars, faults>>
    BY <1>7 DEF StartBatch, chainVars
  <2>2. draft' \in Draft
    BY <2>1, TransitionAssumption DEF Draft, Fields
  <2>3. TypeOK'
    BY <2>1, <2>2 DEF TypeOK, towerVars
  <2>4. QED
    BY <2>1, <2>2, <2>3, TowerKept DEF WellBound, FormAt, batchTransitionRoot
<1>8. CASE ReadFeature
  <2>1. /\ seqPc = "feature" /\ seqPc' = "submit" /\ draft \in Draft
        /\ draft' = [draft EXCEPT !.form = transitionRootVersionFor, !.at = height]
        /\ UNCHANGED <<height, batches, serves, towerVars, faults>>
    BY <1>8 DEF ReadFeature, chainVars
  <2>2. draft' \in Draft /\ draft'.at = height /\ draft'.form = FormAt(height)
    <3>1. height \in 0 .. MaxHeight /\ transitionRootVersionFor \in Forms
          /\ transitionRootVersionFor = FormAt(height)
      BY DEF TypeOK, transitionRootVersionFor, FormAt
    <3>2. QED
      BY <2>1, <3>1 DEF Draft
  <2>3. TypeOK'
    BY <2>1, <2>2 DEF TypeOK, towerVars
  <2>4. QED
    BY <2>1, <2>2, <2>3, TowerKept DEF TypeOK, WellBound, FormAt, batchTransitionRoot
<1>9. CASE FeatureFails
  <2>1. /\ seqPc' = "idle" /\ draft' = NoBatch
        /\ UNCHANGED <<height, batches, serves, towerVars>>
    BY <1>9 DEF FeatureFails, chainVars
  <2>2. TypeOK'
    BY <1>9, <2>1, TransitionAssumption DEF FeatureFails, TypeOK, towerVars
  <2>3. QED
    BY <2>1, <2>2, TowerKept DEF WellBound, FormAt, batchTransitionRoot
<1>10. CASE Validate
  <2>1. /\ pc = "validate" /\ pc' \in {"idle", "proof"} /\ verdict' \in {"valid", "invalid"}
        /\ verdict' = "valid" <=> view.root = canonicalRootFor(view)
        /\ UNCHANGED <<height, batches, serves, seqPc, draft, index, view, proof, forfeits, faults>>
    BY <1>10 DEF Validate, chainVars, seqVars
  <2>2. view # NoBatch /\ view \in Batch /\ WellBound(view)
    BY <2>1 DEF TypeOK
  <2>3. canonicalRootFor(view) = batchTransitionRoot(view, ChainForm(view))
    BY <2>2, VersionIsTheChains DEF canonicalRootFor
  <2>4. TypeOK'
    BY <2>1 DEF TypeOK
  <2>5. QED
    BY <2>1, <2>2, <2>3, <2>4
    DEF VerdictIsTheChains, ChainForm, WellBound, FormAt, batchTransitionRoot
<1>11. CASE PlanHeightFails
  <2>1. /\ pc' = "idle" /\ faults' \in 0 .. MaxFaults
        /\ UNCHANGED <<height, batches, serves, seqPc, draft, index, view, proof, verdict, forfeits>>
    BY <1>11, TransitionAssumption DEF PlanHeightFails, chainVars, seqVars, TypeOK
  <2>2. TypeOK'
    BY <2>1 DEF TypeOK
  <2>3. QED
    BY <2>1, <2>2 DEF VerdictIsTheChains, ChainForm, WellBound, FormAt, batchTransitionRoot
<1>12. CASE fraudProofForBatch
  <2>1. /\ pc = "proof" /\ pc' \in {"idle", "send"}
        /\ pc' = "send" => view.root # canonicalRootFor(view) /\ proof' = canonicalRootFor(view)
        /\ pc' # "send" => proof' = proof
        /\ UNCHANGED <<height, batches, serves, seqPc, draft, index, view, verdict, forfeits, faults>>
    BY <1>12 DEF fraudProofForBatch, chainVars, seqVars
  <2>2. view # NoBatch /\ view \in Batch /\ WellBound(view)
    BY <2>1 DEF TypeOK
  <2>3. canonicalRootFor(view) = batchTransitionRoot(view, ChainForm(view))
    BY <2>2, VersionIsTheChains DEF canonicalRootFor
  <2>4. canonicalRootFor(view) \in StateRoots
    BY <2>2, <2>3, CanonicalRoot DEF Batch, ChainForm
  <2>5. TypeOK'
    BY <2>1, <2>4 DEF TypeOK
  <2>6. (pc = "send" => Upheld(view, proof))'
    BY <2>1, <2>3 DEF Upheld, ChainForm, batchTransitionRoot
  <2>7. QED
    BY <2>1, <2>2, <2>5, <2>6
    DEF VerdictIsTheChains, ChainForm, WellBound, FormAt, batchTransitionRoot
<1>13. CASE Challenge
  <2>1. /\ pc = "send" /\ pc' = "idle" /\ proof' = Other
        /\ UNCHANGED <<height, serves, seqPc, draft, index, view, verdict, faults>>
    BY <1>13 DEF Challenge, seqVars
  <2>2. view # NoBatch /\ view.status = "submitted" /\ Upheld(view, proof)
    BY <2>1
  <2>3. batches[index] = view => Pending(index) /\ Upheld(batches[index], proof)
    BY <2>2 DEF Pending
  <2>4. ~forfeits'
    BY <1>13, <2>3 DEF Challenge
  <2>5. /\ batches' \in [Indexes -> Batch \cup {NoBatch}]
        /\ \A j \in Indexes : batches'[j] # NoBatch => WellBound(batches[j])'
    <3>1. CASE Reject(index)
      BY <2>1, <3>1, RejectStep DEF TypeOK
    <3>2. CASE batches' = batches
      BY <2>1, <3>2 DEF TypeOK, WellBound, FormAt, batchTransitionRoot
    <3>3. QED
      BY <1>13, <3>1, <3>2 DEF Challenge
  <2>6. TypeOK'
    <3>1. Other \in StateRoots
      BY DEF StateRoots
    <3>2. forfeits' \in BOOLEAN
      BY <1>13 DEF Challenge, TypeOK
    <3>3. QED
      BY <2>1, <2>5, <3>1, <3>2 DEF TypeOK
  <2>7. QED
    BY <2>1, <2>2, <2>4, <2>5, <2>6
    DEF VerdictIsTheChains, ChainForm, WellBound, FormAt, batchTransitionRoot
<1>14. CASE UNCHANGED vars
  <2>1. UNCHANGED <<height, batches, serves, seqPc, draft, towerVars, faults>>
    BY <1>14 DEF vars, chainVars, seqVars
  <2>2. TypeOK'
    BY <2>1 DEF TypeOK, towerVars
  <2>3. QED
    BY <2>1, <2>2, TowerKept DEF WellBound, FormAt, batchTransitionRoot
<1>15. QED
  BY <1>1, <1>2, <1>3, <1>4, <1>5, <1>6, <1>7, <1>8, <1>9, <1>10, <1>11, <1>12, <1>13, <1>14
  DEF Next

\* The invariant holds throughout.
THEOREM BindInvariant == Spec => []BindInv
BY BindInit, BindStep, PTL DEF Spec

\* transitionRootValidator's verdict is the chain's: it calls a batch valid
\* exactly when no challenge against it could be upheld.
THEOREM VerdictsAreTheChains == Spec => []VerdictIsTheChains
<1>1. BindInv => VerdictIsTheChains
  BY DEF BindInv
<1>2. QED
  BY <1>1, BindInvariant, PTL

\* A challenge built by fraudProofForBatch never loses its bond on the batch
\* it was built for.
THEOREM BondsKept == Spec => []NoBondLost
<1>1. BindInv => NoBondLost
  BY DEF BindInv, NoBondLost
<1>2. QED
  BY <1>1, BindInvariant, PTL

\* A root computed with transitionRootVersionFor fails only if the upgrade
\* came between computing it and including its batch.
THEOREM HonestStand == Spec => []HonestBatchesStand
<1>1. BindInv => HonestBatchesStand
  <2> SUFFICES ASSUME BindInv, verdict = "invalid", view.computedAt # 0
               PROVE  view.computedAt < UpgradeHeight /\ view.submittedAt >= UpgradeHeight
    BY DEF HonestBatchesStand
  <2>1. view \in Batch /\ WellBound(view)
    BY DEF BindInv, TypeOK
  <2>2. view.root # batchTransitionRoot(view, ChainForm(view))
    BY DEF BindInv, VerdictIsTheChains
  <2>3. FormAt(view.computedAt) # ChainForm(view)
    BY <2>1, <2>2 DEF WellBound
  <2>4. view.computedAt \in Nat /\ view.submittedAt \in Nat
    BY <2>1 DEF Batch
  <2>5. QED
    <3>1. view.computedAt <= view.submittedAt
      BY <2>1 DEF WellBound
    <3>2. FormAt(view.submittedAt) = ChainForm(view)
      BY <2>1, Zenon DEF WellBound, FormAt, ChainForm
    <3>3. QED
      BY <2>3, <2>4, <3>1, <3>2, TransitionAssumption DEF FormAt
<1>2. QED
  BY <1>1, BindInvariant, PTL

(***************************************************************************)
(* The withdraw command.  What it read of the batch stays bound the way    *)
(* the chain bound it, its proof is one of the root it read, and a batch   *)
(* that is final when the transaction is executed stays as it is.          *)
(***************************************************************************)

ViewOK ==
  wView # NoBatch =>
    /\ wView.wroot \in WithdrawalRoots
    /\ wView.submittedAt \in Nat /\ wView.submittedAt <= height
    /\ wView.bound = (wView.submittedAt >= UpgradeHeight)

\* The encoding is asked for a batch that was read, for a file of withdrawals.
VersionOK == wPc = "version" => wView # NoBatch /\ spec.kind = "withdrawals"

\* A proof that is sent is of the root the command read, for the file's index.
ProofOK ==
  wPc \in {"connect", "send"} =>
    /\ ~dryRun /\ wView # NoBatch
    /\ wProof.root = wView.wroot /\ wProof.index = spec.index
    /\ \/ /\ spec.kind = "withdrawals" /\ spec.index \in DOMAIN spec.list
          /\ wProof.root = <<ChainForm(wView), spec.list>>
          /\ wProof.says = spec.list[spec.index]
       \/ spec.kind = "leaves" /\ wProof.root = <<spec.form, spec.list>>

\* Whoever has a batch's answer for or against a proof has that of a final batch.
FinalNow(i) == batches[i] # NoBatch /\ batches[i].status = "finalized"

AnswerOK ==
  /\ refusal = "proof" => FinalNow(spec.batch) /\ wPc = "exit" /\ ProofRefusedOnlyIfReplaced
  /\ wPc = "exit" /\ code = 0 /\ ~dryRun => FinalNow(spec.batch) /\ ExitZeroPaysTheListed

WInv ==
  /\ BindInv
  /\ spec \in Files
  /\ ViewOK
  /\ VersionOK
  /\ ProofOK
  /\ AnswerOK

\* The height only grows.
LEMMA HeightGrows ==
  ASSUME BindInv, [Next]_vars
  PROVE  height' = height \/ height' = height + 1
  BY DEF Next, vars, chainVars, NewBlock, OthersReject, Finalize, SubmitDraft, ReadBatch, Include,
         SubmitOther, StartBatch, ReadFeature, FeatureFails, Validate, PlanHeightFails,
         fraudProofForBatch, Challenge

\* Nothing touches a final batch.
LEMMA FinalStays ==
  ASSUME BindInv, [Next]_vars, NEW i \in Indexes, FinalNow(i)
  PROVE  batches'[i] = batches[i]
<1>0. batches \in [Indexes -> Batch \cup {NoBatch}]
  BY DEF BindInv, TypeOK
<1>1. ASSUME NEW j \in Indexes, Reject(j)
      PROVE  batches'[i] = batches[i]
  BY <1>1 DEF Reject, FinalNow
<1>2. ASSUME NEW j \in Indexes, Finalize(j)
      PROVE  batches'[i] = batches[i]
  <2>1. j # i
    BY <1>2 DEF Finalize, Pending, FinalNow
  <2> QED BY <1>0, <1>2, <2>1 DEF Finalize
<1>3. ASSUME NEW j \in Indexes, NEW f, NEW root, NEW at, Include(j, f, root, at)
      PROVE  batches'[i] = batches[i]
  <2>1. j # i
    BY <1>3 DEF Include, Free, FinalNow
  <2> QED BY <1>0, <1>3, <2>1 DEF Include
<1>4. CASE UNCHANGED batches
  BY <1>4
<1>5. CASE \E j \in Indexes : OthersReject(j) \/ Finalize(j) \/ SubmitDraft(j) \/ ReadBatch(j)
  BY <1>1, <1>2, <1>3, <1>4, <1>5 DEF OthersReject, SubmitDraft, ReadBatch, chainVars
<1>6. CASE \E j \in Indexes, f \in Fields, form \in Forms \cup {"none"} : SubmitOther(j, f, form)
  BY <1>3, <1>6 DEF SubmitOther
<1>7. CASE Challenge
  <2>1. index \in Indexes
    BY DEF BindInv, TypeOK
  <2> QED BY <1>1, <1>4, <1>7, <2>1 DEF Challenge
<1> QED BY <1>4, <1>5, <1>6, <1>7
        DEF Next, vars, chainVars, NewBlock, StartBatch, ReadFeature, FeatureFails, Validate,
            PlanHeightFails, fraudProofForBatch

\* The command has no file, no view and no answer at first.
LEMMA WInvInit == WInit => WInv
<1> SUFFICES ASSUME WInit
             PROVE  WInv
  OBVIOUS
<1>1. BindInv
  BY BindInit DEF WInit
<1>2. spec \in Files
  BY TransitionAssumption DEF WInit, NoFile, Files
<1> QED BY <1>1, <1>2 DEF WInit, WInv, ViewOK, VersionOK, ProofOK, AnswerOK

\* What others do while the command waits.
LEMMA OthersKeep ==
  ASSUME WInv, [Next]_vars, UNCHANGED wVars
  PROVE  WInv'
<1>0. UNCHANGED <<wPc, spec, dryRun, wView, wProof, refusal, paidOut, code>>
  BY DEF wVars
<1>1. BindInv'
  BY BindStep DEF WInv
<1>2. height' = height \/ height' = height + 1
  BY HeightGrows DEF WInv
<1>3. height \in Nat
  BY DEF WInv, BindInv, TypeOK
<1>4. spec.batch \in Indexes
  BY DEF WInv, Files
<1>5. FinalNow(spec.batch) => batches'[spec.batch] = batches[spec.batch]
  BY <1>4, FinalStays DEF WInv
<1>6. ViewOK'
  BY <1>0, <1>2, <1>3 DEF WInv, ViewOK
<1>7. ProofOK'
  BY <1>0 DEF WInv, ProofOK, ChainForm
<1>8. AnswerOK'
  <2>1. ASSUME refusal = "proof"
        PROVE  FinalNow(spec.batch)' /\ ProofRefusedOnlyIfReplaced'
    BY <1>0, <1>5, <2>1 DEF WInv, AnswerOK, FinalNow, ProofRefusedOnlyIfReplaced
  <2>2. ASSUME wPc = "exit" /\ code = 0 /\ ~dryRun
        PROVE  FinalNow(spec.batch)' /\ ExitZeroPaysTheListed'
    BY <1>0, <1>5, <2>2 DEF WInv, AnswerOK, FinalNow, ExitZeroPaysTheListed
  <2> QED BY <1>0, <2>1, <2>2 DEF WInv, AnswerOK
<1> QED BY <1>0, <1>1, <1>6, <1>7, <1>8 DEF WInv, VersionOK

\* A failed read of the command's is a fault and nothing more.
LEMMA FaultKeepsBind ==
  ASSUME BindInv, faults < MaxFaults, faults' = faults + 1,
         UNCHANGED <<chainVars, seqVars, towerVars>>
  PROVE  BindInv'
<1>1. UNCHANGED <<height, batches, serves, seqPc, draft, towerVars>>
  BY DEF chainVars, seqVars
<1>2. faults' \in 0 .. MaxFaults
  BY TransitionAssumption DEF BindInv, TypeOK
<1>3. TypeOK'
  BY <1>1, <1>2 DEF BindInv, TypeOK, towerVars
<1> QED BY <1>1, <1>3, TowerKept DEF BindInv, WellBound, FormAt, batchTransitionRoot

\* A step of the command that has neither answer nor proof to send yet keeps
\* what is known of the batch.
LEMMA EarlyKeeps ==
  ASSUME WInv, BindInv', spec' \in Files, UNCHANGED <<height, refusal>>,
         wPc # "exit", wView' = wView, wPc' = "exit" => code' = 1,
         wPc' \notin {"version", "connect", "send"}
  PROVE  WInv'
<1>1. ViewOK'
  BY DEF WInv, ViewOK
<1>2. ProofOK'
  BY DEF ProofOK
<1>3. AnswerOK'
  BY DEF WInv, AnswerOK
<1> QED BY <1>1, <1>2, <1>3 DEF WInv, VersionOK

\* What the root check leaves: a proof of the root that was read, or the end.
LEMMA CheckedFacts ==
  ASSUME NEW b, NEW p, Checked(b, p)
  PROVE  \/ wPc' = "exit" /\ code' = 1
         \/ wPc' = "exit" /\ dryRun
         \/ /\ wPc' = "connect" /\ ~dryRun
            /\ b # NoBatch => b.wroot = p.root
  BY DEF Checked, Exit

\* The command's reading of a batch.
LEMMA SeenIsBound ==
  ASSUME BindInv, NEW i \in Indexes
  PROVE  Seen(batches[i]) # NoBatch =>
           /\ Seen(batches[i]).wroot \in WithdrawalRoots
           /\ Seen(batches[i]).submittedAt \in Nat /\ Seen(batches[i]).submittedAt <= height
           /\ Seen(batches[i]).bound = (Seen(batches[i]).submittedAt >= UpgradeHeight)
<1> SUFFICES ASSUME batches[i] # NoBatch
             PROVE  /\ batches[i].wroot \in WithdrawalRoots
                    /\ batches[i].submittedAt \in Nat /\ batches[i].submittedAt <= height
                    /\ batches[i].bound = (batches[i].submittedAt >= UpgradeHeight)
  BY DEF Seen
<1>1. batches[i] \in Batch /\ WellBound(batches[i])
  BY DEF BindInv, TypeOK
<1> QED BY <1>1 DEF Batch, WellBound

\* A batch read, or not: the view is bound, and leaves have their proof.
LEMMA WithBatchKeeps ==
  ASSUME WInv, BindInv', UNCHANGED height, NEW b, WithBatch(b),
         b # NoBatch => /\ b.wroot \in WithdrawalRoots
                        /\ b.submittedAt \in Nat /\ b.submittedAt <= height
                        /\ b.bound = (b.submittedAt >= UpgradeHeight)
  PROVE  WInv'
<1>0. /\ wPc = "batch" /\ wView' = b /\ UNCHANGED <<spec, dryRun, refusal, paidOut>>
  BY DEF WithBatch
<1>1. ViewOK'
  BY <1>0 DEF ViewOK
<1>2. spec \in Files /\ refusal # "proof"
  BY <1>0 DEF WInv, AnswerOK
<1>3. CASE \/ wPc' = "exit" /\ code' = 1
           \/ wPc' = "version" /\ b # NoBatch /\ spec.kind = "withdrawals"
  BY <1>0, <1>1, <1>2, <1>3 DEF WInv, VersionOK, ProofOK, AnswerOK
<1>4. CASE ~(\/ wPc' = "exit" /\ code' = 1
             \/ wPc' = "version" /\ b # NoBatch /\ spec.kind = "withdrawals")
  <2>1. /\ b = NoBatch => dryRun
        /\ spec.kind = "leaves"
        /\ wProof' = assembleWithdrawalProof(withdrawalsTree(spec.list, spec.form),
                                             spec.index, spec.says)
        /\ Checked(b, wProof')
    <3>1. spec.kind \in {"withdrawals", "leaves", "neither"}
      BY <1>2 DEF Files
    <3> QED BY <1>4, <3>1 DEF WithBatch, Exit
  <2>2. wProof'.root = <<spec.form, spec.list>> /\ wProof'.index = spec.index
    BY <2>1 DEF assembleWithdrawalProof, withdrawalsTree
  <2>3. CASE wPc' = "exit" /\ dryRun
    BY <1>0, <1>1, <1>2, <2>3 DEF WInv, VersionOK, ProofOK, AnswerOK
  <2>4. CASE /\ wPc' = "connect" /\ ~dryRun
             /\ b # NoBatch => b.wroot = wProof'.root
    BY <1>0, <1>1, <1>2, <2>1, <2>2, <2>4 DEF WInv, VersionOK, ProofOK, AnswerOK
  <2> QED BY <1>4, <2>1, <2>3, <2>4, CheckedFacts
<1> QED BY <1>3, <1>4

\* The encoding is found and the tree built: the proof is of the root the batch
\* commits under the chain's own encoding.
LEMMA BuildProofKeeps == ASSUME WInv, BuildProof PROVE WInv'
<1>0. /\ wPc = "version" /\ UNCHANGED vars
      /\ UNCHANGED <<spec, dryRun, wView, refusal, paidOut>>
  BY DEF BuildProof
<1>1. BindInv' /\ UNCHANGED height
  BY <1>0, BindStep DEF WInv, vars, chainVars
<1>2. spec \in Files /\ refusal # "proof" /\ ViewOK'
  BY <1>0, <1>1 DEF WInv, AnswerOK, ViewOK
<1>3. CASE wPc' = "exit" /\ code' = 1
  BY <1>0, <1>1, <1>2, <1>3 DEF WInv, VersionOK, ProofOK, AnswerOK
<1>4. CASE ~(wPc' = "exit" /\ code' = 1)
  <2>1. /\ spec.index \in DOMAIN spec.list
        /\ wProof' = assembleWithdrawalProof(
                       withdrawalsTree(spec.list, transitionRootVersionForBatch(wView)),
                       spec.index, spec.list[spec.index])
        /\ Checked(wView, wProof')
    BY <1>4 DEF BuildProof, Exit
  <2>2. /\ wProof'.root = <<transitionRootVersionForBatch(wView), spec.list>>
        /\ wProof'.index = spec.index /\ wProof'.says = spec.list[spec.index]
    BY <2>1 DEF assembleWithdrawalProof, withdrawalsTree
  <2>3. CASE wPc' = "exit" /\ dryRun
    BY <1>0, <1>1, <1>2, <2>3 DEF WInv, VersionOK, ProofOK, AnswerOK
  <2>4. CASE /\ wPc' = "connect" /\ ~dryRun
             /\ wView # NoBatch => wView.wroot = wProof'.root
    <3>1. wView # NoBatch /\ spec.kind = "withdrawals"
      BY <1>0 DEF WInv, VersionOK
    <3>2. transitionRootVersionForBatch(wView) = ChainForm(wView)
      BY <3>1, VersionFound DEF WInv, ViewOK, BindInv
    <3>3. ChainForm(wView)' = ChainForm(wView)
      BY <1>0 DEF ChainForm
    <3> QED BY <1>0, <1>1, <1>2, <2>1, <2>2, <2>4, <3>1, <3>2, <3>3
            DEF WInv, ProofOK, AnswerOK, VersionOK
  <2> QED BY <1>4, <2>1, <2>3, <2>4, CheckedFacts
<1> QED BY <1>3, <1>4

\* The transaction is executed.  A proof of the batch that was read is not refused,
\* and one that is not refused pays what the file lists.
LEMMA ExecuteKeeps == ASSUME WInv, ExecuteWithdrawal PROVE WInv'
<1> DEFINE b == batches[spec.batch]
<1>0. /\ wPc = "send" /\ wPc' = "exit" /\ UNCHANGED vars
      /\ refusal' = ChainAnswer(b, wProof) /\ code' = ExitCode(refusal')
      /\ UNCHANGED <<spec, dryRun, wView, wProof>>
  BY DEF ExecuteWithdrawal, Exit
<1>1. BindInv' /\ UNCHANGED <<height, batches>>
  BY <1>0, BindStep DEF WInv, vars, chainVars
<1>2. /\ spec \in Files /\ spec.batch \in Indexes /\ ViewOK' /\ ProofOK'
  BY <1>0, <1>1 DEF WInv, ViewOK, ProofOK, Files
<1>3. /\ ~dryRun /\ wView # NoBatch
      /\ wProof.root = wView.wroot /\ wProof.index = spec.index
      /\ \/ /\ spec.kind = "withdrawals" /\ spec.index \in DOMAIN spec.list
            /\ wProof.root = <<ChainForm(wView), spec.list>>
            /\ wProof.says = spec.list[spec.index]
         \/ spec.kind = "leaves" /\ wProof.root = <<spec.form, spec.list>>
  BY <1>0 DEF WInv, ProofOK
<1>4. refusal' \in {"proof", "none"} => FinalNow(spec.batch)
  BY <1>0 DEF ChainAnswer, FinalNow
<1>5. ASSUME refusal' = "proof", spec.kind = "withdrawals"
      PROVE  b.submittedAt # wView.submittedAt \/ b.wroot # wView.wroot
  <2> SUFFICES ASSUME b.submittedAt = wView.submittedAt, b.wroot = wView.wroot
               PROVE  Verifies(b, wProof)
    BY <1>0, <1>5 DEF ChainAnswer
  <2>1. WellBound(b)
    BY <1>2, <1>4, <1>5 DEF WInv, BindInv, FinalNow
  <2>2. b.bound = wView.bound
    BY <1>3, <2>1 DEF WInv, ViewOK, WellBound
  <2>3. ChainForm(b) = ChainForm(wView)
    BY <2>2 DEF ChainForm
  <2> QED BY <1>3, <1>5, <2>3 DEF Verifies
<1>6. ASSUME refusal' = "none"
      PROVE  ExitZeroPaysTheListed'
  <2> DEFINE w == [batch |-> spec.batch, index |-> wProof.index, withdrawal |-> wProof.says]
  <2>1. w \in paidOut'
    BY <1>6 DEF ExecuteWithdrawal
  <2>2. Verifies(b, wProof)
    BY <1>0, <1>6 DEF ChainAnswer
  <2>3. wProof.says = b.wroot[2][spec.index] /\ b.wroot[2] = spec.list
    BY <1>3, <2>2 DEF Verifies
  <2>4. /\ w.batch = spec.batch /\ w.index = spec.index
        /\ w.withdrawal = spec.list[spec.index]
        /\ batches[w.batch].wroot[2][w.index] = w.withdrawal
    BY <1>3, <2>3
  <2> HIDE DEF w
  <2> QED BY <1>0, <1>1, <2>1, <2>4 DEF ExitZeroPaysTheListed
<1>7. AnswerOK'
  <2>1. ASSUME refusal' = "proof"
        PROVE  FinalNow(spec.batch)' /\ ProofRefusedOnlyIfReplaced'
    BY <1>0, <1>1, <1>4, <1>5, <2>1 DEF FinalNow, ProofRefusedOnlyIfReplaced
  <2>2. ASSUME code' = 0
        PROVE  FinalNow(spec.batch)' /\ ExitZeroPaysTheListed'
    BY <1>0, <1>1, <1>4, <1>6, <2>2 DEF FinalNow, ExitCode
  <2> QED BY <1>0, <2>1, <2>2 DEF AnswerOK
<1> QED BY <1>0, <1>1, <1>2, <1>7 DEF WInv, VersionOK

\* Every step of the command and of the others keeps the invariant.
LEMMA WInvStep == WInv /\ [WNext]_<<vars, wVars>> => WInv'
<1> SUFFICES ASSUME WInv, [WNext]_<<vars, wVars>>
             PROVE  WInv'
  OBVIOUS
<1>1. CASE Next /\ UNCHANGED wVars
  BY <1>1, OthersKeep
<1>2. ASSUME NEW f \in Files, NEW dry \in BOOLEAN, Run(f, dry)
      PROVE  WInv'
  <2>1. UNCHANGED vars /\ spec' \in Files /\ wPc = "idle" /\ wPc' = "batch"
        /\ UNCHANGED <<wView, refusal>>
    BY <1>2 DEF Run
  <2>2. BindInv' /\ UNCHANGED height
    BY <2>1, BindStep DEF WInv, vars, chainVars
  <2> QED BY <2>1, <2>2, EarlyKeeps
<1>3. CASE GetBatch
  <2>1. UNCHANGED vars /\ WithBatch(Seen(batches[spec.batch])) /\ spec.batch \in Indexes
    BY <1>3 DEF GetBatch, WInv, Files
  <2>2. BindInv' /\ UNCHANGED height
    BY <2>1, BindStep DEF WInv, vars, chainVars
  <2> QED BY <2>1, <2>2, SeenIsBound, WithBatchKeeps DEF WInv
<1>4. CASE GetBatchFails
  <2>1. BindInv' /\ UNCHANGED height /\ WithBatch(NoBatch)
    BY <1>4, FaultKeepsBind DEF GetBatchFails, WInv, chainVars
  <2> QED BY <2>1, WithBatchKeeps
<1>5. CASE BuildProof
  BY <1>5, BuildProofKeeps
<1>6. CASE VersionFails \/ ConnectFails
  <2>1. BindInv' /\ UNCHANGED height
    BY <1>6, FaultKeepsBind DEF VersionFails, ConnectFails, WInv, chainVars
  <2>2. /\ wPc \in {"version", "connect"} /\ wPc' = "exit" /\ code' = 1
        /\ UNCHANGED <<spec, wView, refusal>>
    BY <1>6 DEF VersionFails, ConnectFails, Exit
  <2> QED BY <2>1, <2>2, EarlyKeeps DEF WInv
<1>7. CASE Connect
  <2>1. /\ UNCHANGED vars /\ wPc = "connect"
        /\ wPc' = "send" \/ (wPc' = "exit" /\ code' = 1)
        /\ UNCHANGED <<spec, dryRun, wView, wProof, refusal, paidOut>>
    BY <1>7 DEF Connect, Exit
  <2>2. BindInv' /\ UNCHANGED height
    BY <2>1, BindStep DEF WInv, vars, chainVars
  <2>3. ProofOK' /\ ViewOK' /\ AnswerOK'
    BY <2>1, <2>2 DEF WInv, ProofOK, ViewOK, AnswerOK, ChainForm
  <2> QED BY <2>1, <2>2, <2>3 DEF WInv, VersionOK
<1>8. CASE ExecuteWithdrawal
  BY <1>8, ExecuteKeeps
<1>9. CASE UNCHANGED <<vars, wVars>>
  BY <1>9, OthersKeep
<1> QED BY <1>1, <1>2, <1>3, <1>4, <1>5, <1>6, <1>7, <1>8, <1>9 DEF WNext

\* What the command knows of its batch is true of it throughout.
THEOREM WithdrawInvariant == WSpec => []WInv
  BY WInvInit, WInvStep, PTL DEF WSpec

\* The chain refuses no proof built from the batch's withdrawals, before, in and
\* after the upgrade, unless another batch took the place of the one that was read.
THEOREM ProofsRefusedOnlyIfReplaced == WSpec => []ProofRefusedOnlyIfReplaced
<1>1. WInv => ProofRefusedOnlyIfReplaced
  BY DEF WInv, AnswerOK, ProofRefusedOnlyIfReplaced
<1> QED BY <1>1, WithdrawInvariant, PTL

\* Exit code 0 without --dry-run is a withdrawal executed, the one the file lists.
THEOREM ExitZeroPays == WSpec => []ExitZeroPaysTheListed
<1>1. WInv => ExitZeroPaysTheListed
  BY DEF WInv, AnswerOK, ExitZeroPaysTheListed
<1> QED BY <1>1, WithdrawInvariant, PTL

===============================================================================
