------------------------------ MODULE Transition ------------------------------
(***************************************************************************)
(* The transition binding: the state root a sequencer publishes, the       *)
(* validator a watchtower judges it with and the fraud proof a challenger  *)
(* builds, while the chain goes through the upgrade that changes the       *)
(* binding and batches are rejected, finalized and submitted anew.         *)
(***************************************************************************)
EXTENDS Naturals

CONSTANTS
  Prevs,          \* previous state roots of 32 bytes
  EmptyPrev,      \* a previous state root left out (prevStateRoot is optional)
  WithdrawalRoots,
  NotCovered,     \* in place of a root the hash does not cover
  Other,          \* a published root that is no canonical root
  NoBatch,        \* nothing under an index, no batch read, no draft
  UpgradeHeight,  \* where WITHDRAWALS_BINDING_UPGRADE is applied
  MaxIndex,       \* bound: batch indexes are 0 .. MaxIndex
  MaxHeight,      \* bound: Main Chain height
  MaxFaults       \* bound: failed reads

\* A root left out is none of the roots, and Other no hash of them.
ASSUME RootAssumption ==
  /\ EmptyPrev \notin Prevs /\ NotCovered \notin WithdrawalRoots
  /\ Other \notin {"v1", "v2"} \X (Prevs \cup {EmptyPrev}) \X (WithdrawalRoots \cup {NotCovered})

ASSUME TransitionAssumption ==
  /\ UpgradeHeight \in Nat \ {0}
  /\ MaxIndex \in Nat /\ MaxHeight \in Nat \ {0} /\ MaxFaults \in Nat

Indexes == 0 .. MaxIndex
Forms == {"v1", "v2"}
Fields == [prev : Prevs \cup {EmptyPrev}, wroot : WithdrawalRoots]

\* batchTransitionRoot.  The hash keeps apart what it covers; v1 does not
\* cover the withdrawals root.  The chain id, rollup id, data hash and
\* transaction count are the same throughout.
batchTransitionRoot(b, form) ==
  IF form = "v2" THEN <<"v2", b.prev, b.wroot>> ELSE <<"v1", b.prev, NotCovered>>

StateRoots == {batchTransitionRoot(b, form) : b \in Fields, form \in Forms} \cup {Other}

\* computedAt is a history: the height at which transitionRootVersionFor was
\* read for the root, 0 if it was not.
Batch ==
  [prev : Prevs \cup {EmptyPrev}, wroot : WithdrawalRoots, root : StateRoots,
   submittedAt : 1 .. MaxHeight, bound : BOOLEAN,
   status : {"submitted", "rejected", "finalized"}, computedAt : 0 .. MaxHeight]

Draft == [prev : Prevs \cup {EmptyPrev}, wroot : WithdrawalRoots, form : Forms,
          at : 0 .. MaxHeight]

VARIABLES
  height,    \* chain: Main Chain height
  batches,   \* chain: index -> batch
  serves,    \* whether the node serves withdrawals_bound
  seqPc,     \* sequencer: "idle", "feature" or "submit"
  draft,     \* sequencer: the batch being put together
  pc,        \* challenger: "idle", "validate", "proof", "send"
  index,     \* challenger: the index of the batch it read
  view,      \* challenger: that batch as it was read
  proof,     \* challenger: the fraud proof's correct root
  verdict,   \* challenger: validate's answer, "none" before there is one
  forfeits,  \* history: bonds the challenger lost while the batch was the one it read
  faults

chainVars == <<height, batches, serves>>
seqVars == <<seqPc, draft>>
towerVars == <<pc, index, view, proof, verdict, forfeits>>
vars == <<chainVars, seqVars, towerVars, faults>>

\* All variables have their types.
TypeOK ==
  /\ height \in 1 .. MaxHeight
  /\ batches \in [Indexes -> Batch \cup {NoBatch}]
  /\ serves \in BOOLEAN
  /\ seqPc \in {"idle", "feature", "submit"}
  /\ draft \in Draft \cup {NoBatch}
  /\ pc \in {"idle", "validate", "proof", "send"}
  /\ index \in Indexes
  /\ view \in Batch \cup {NoBatch}
  /\ proof \in StateRoots
  /\ verdict \in {"none", "valid", "invalid"}
  /\ forfeits \in BOOLEAN
  /\ faults \in 0 .. MaxFaults

Init ==
  /\ height = 1
  /\ batches = [i \in Indexes |-> NoBatch]
  /\ serves \in BOOLEAN
  /\ seqPc = "idle"
  /\ draft = NoBatch
  /\ pc = "idle" /\ index = 0 /\ view = NoBatch /\ proof = Other
  /\ verdict = "none" /\ forfeits = FALSE /\ faults = 0

(***************************************************************************)
(* The chain.                                                              *)
(***************************************************************************)

NewBlock ==
  /\ height < MaxHeight /\ height' = height + 1
  /\ UNCHANGED <<batches, serves, seqVars, towerVars, faults>>

\* From the upgrade on a rejected index is used again.
Free(i) ==
  batches[i] # NoBatch => height >= UpgradeHeight /\ batches[i].status = "rejected"

\* A batch included now gets the binding in force now.
Include(i, f, root, computedAt) ==
  /\ Free(i) /\ \A j \in 0 .. i - 1 : ~Free(j)
  /\ batches' = [batches EXCEPT ![i] =
       [prev |-> f.prev, wroot |-> f.wroot, root |-> root, submittedAt |-> height,
        bound |-> height >= UpgradeHeight, status |-> "submitted", computedAt |-> computedAt]]
  /\ UNCHANGED <<height, serves>>

\* The binding the chain judges a batch by.
ChainForm(b) == IF b.bound THEN "v2" ELSE "v1"

\* A challenge to b naming correct is upheld.
Upheld(b, correct) ==
  /\ b.root # batchTransitionRoot(b, ChainForm(b))
  /\ correct = batchTransitionRoot(b, ChainForm(b))

\* The batch is rejected, and with it, from the upgrade on, every later one not
\* yet final.
Reject(i) ==
  batches' = [j \in Indexes |->
    IF (j = i \/ (j > i /\ height >= UpgradeHeight)) /\ batches[j] # NoBatch /\ batches[j].status = "submitted"
    THEN [batches[j] EXCEPT !.status = "rejected"] ELSE batches[j]]

Pending(i) == batches[i] # NoBatch /\ batches[i].status = "submitted"

\* Another challenger gets there first.
OthersReject(i) ==
  /\ Pending(i) /\ batches[i].root # batchTransitionRoot(batches[i], ChainForm(batches[i]))
  /\ Reject(i)
  /\ UNCHANGED <<height, serves, seqVars, towerVars, faults>>

Finalize(i) ==
  /\ Pending(i)
  /\ batches' = [batches EXCEPT ![i].status = "finalized"]
  /\ UNCHANGED <<height, serves, seqVars, towerVars, faults>>

\* A sequencer that does not follow the protocol, or only by luck.
SubmitOther(i, f, form) ==
  /\ Include(i, f, IF form = "none" THEN Other ELSE batchTransitionRoot(f, form), 0)
  /\ UNCHANGED <<seqVars, towerVars, faults>>

(***************************************************************************)
(* The sequencer: version, root, submit.                                   *)
(***************************************************************************)

StartBatch(f) ==
  /\ seqPc = "idle" /\ seqPc' = "feature"
  /\ draft' = [prev |-> f.prev, wroot |-> f.wroot, form |-> "v1", at |-> 0]
  /\ UNCHANGED <<chainVars, towerVars, faults>>

\* Mutant: the feature is taken to be off.
VersionForOld == "v1"

\* The feature route: enabled at the current height; a chain without the
\* route answers 404 or 501, which reads as not enabled.
transitionRootVersionFor == IF height >= UpgradeHeight THEN "v2" ELSE "v1"

ReadFeature ==
  /\ seqPc = "feature" /\ seqPc' = "submit"
  /\ draft' = [draft EXCEPT !.form = transitionRootVersionFor, !.at = height]
  /\ UNCHANGED <<chainVars, towerVars, faults>>

\* Any other error is raised.
FeatureFails ==
  /\ seqPc = "feature" /\ seqPc' = "idle"
  /\ draft' = NoBatch
  /\ faults < MaxFaults /\ faults' = faults + 1
  /\ UNCHANGED <<chainVars, towerVars>>

SubmitDraft(i) ==
  /\ seqPc = "submit" /\ seqPc' = "idle"
  /\ Include(i, draft, batchTransitionRoot(draft, draft.form), draft.at)
  /\ draft' = NoBatch
  /\ UNCHANGED <<towerVars, faults>>

(***************************************************************************)
(* The challenger: transitionRootValidator, fraudProofForBatch, challenge. *)
(***************************************************************************)

\* A live batch reaches validate.
ReadBatch(i) ==
  /\ pc = "idle" /\ Pending(i)
  /\ pc' = "validate" /\ index' = i /\ view' = batches[i] /\ verdict' = "none"
  /\ UNCHANGED <<chainVars, seqVars, proof, forfeits, faults>>

AppliedPlanHeight == IF height >= UpgradeHeight THEN UpgradeHeight ELSE 0

\* Mutant: the upgrade block itself is left out.
VersionAfterUpgrade(b) ==
  IF \/ serves /\ b.bound
     \/ AppliedPlanHeight > 0 /\ b.submittedAt > AppliedPlanHeight
  THEN "v2" ELSE "v1"

\* Mutant: the binding of a batch submitted now.
VersionNow(b) == transitionRootVersionFor

transitionRootVersionForBatch(b) ==
  IF \/ serves /\ b.bound
     \/ AppliedPlanHeight > 0 /\ b.submittedAt >= AppliedPlanHeight
  THEN "v2" ELSE "v1"

canonicalRootFor(b) == batchTransitionRoot(b, transitionRootVersionForBatch(b))

\* Valid: nothing to challenge.  Invalid: onInvalid asks for a proof.
Validate ==
  /\ pc = "validate"
  /\ IF view.root = canonicalRootFor(view)
     THEN pc' = "idle" /\ verdict' = "valid"
     ELSE pc' = "proof" /\ verdict' = "invalid"
  /\ UNCHANGED <<chainVars, seqVars, index, view, proof, forfeits, faults>>

\* getAppliedPlanHeight fails: validate or fraudProofForBatch rejects.
PlanHeightFails ==
  /\ pc \in {"validate", "proof"} /\ pc' = "idle"
  /\ faults < MaxFaults /\ faults' = faults + 1
  /\ UNCHANGED <<chainVars, seqVars, index, view, proof, verdict, forfeits>>

\* The binding is read again; fraudProof throws without a 32-byte previous
\* root, and there is no challenge.
fraudProofForBatch ==
  /\ pc = "proof"
  /\ IF view.root = canonicalRootFor(view) \/ view.prev = EmptyPrev
     THEN pc' = "idle" /\ UNCHANGED proof
     ELSE pc' = "send" /\ proof' = canonicalRootFor(view)
  /\ UNCHANGED <<chainVars, seqVars, index, view, verdict, forfeits, faults>>

\* The chain takes the challenge against whatever is under the index by then.
Challenge ==
  /\ pc = "send" /\ pc' = "idle"
  /\ IF Pending(index) /\ Upheld(batches[index], proof)
     THEN Reject(index) /\ UNCHANGED forfeits
     ELSE UNCHANGED batches /\ forfeits' = (forfeits \/ batches[index] = view)
  /\ proof' = Other
  /\ UNCHANGED <<height, serves, seqVars, index, view, verdict, faults>>

Next ==
  \/ NewBlock
  \/ \E i \in Indexes : OthersReject(i) \/ Finalize(i) \/ SubmitDraft(i) \/ ReadBatch(i)
  \/ \E i \in Indexes, f \in Fields, form \in Forms \cup {"none"} : SubmitOther(i, f, form)
  \/ \E f \in Fields : StartBatch(f)
  \/ ReadFeature \/ FeatureFails
  \/ Validate \/ PlanHeightFails \/ fraudProofForBatch \/ Challenge

Spec == Init /\ [][Next]_vars

(***************************************************************************)
(* Properties.                                                             *)
(***************************************************************************)

\* "valid exactly when its published state root equals the canonical
\* transition root under the binding the chain judges that batch by",
\* whichever side of the upgrade the batch was included and judged on and
\* whether or not the node serves withdrawals_bound.
VerdictIsTheChains ==
  verdict # "none" =>
    (verdict = "valid" <=> view.root = batchTransitionRoot(view, ChainForm(view)))

\* "A batch it rejects is one a challenge ... wins": no bond is lost on a
\* batch that is still pending as the challenger read it.
NoBondLost == ~forfeits

\* A root computed by transitionRootVersionFor and judged invalid is one whose
\* batch was included across the upgrade: computed before, included after.
HonestBatchesStand ==
  verdict = "invalid" /\ view.computedAt # 0 =>
    view.computedAt < UpgradeHeight /\ view.submittedAt >= UpgradeHeight

(***************************************************************************)
(* The inductive invariant of the proofs.                                  *)
(***************************************************************************)

FormAt(h) == IF h >= UpgradeHeight THEN "v2" ELSE "v1"

\* What holds of every batch of the chain, and of every view of one.
WellBound(b) ==
  /\ b.submittedAt <= height
  /\ b.bound = (b.submittedAt >= UpgradeHeight)
  /\ b.computedAt <= b.submittedAt
  /\ b.computedAt # 0 => b.root = batchTransitionRoot(b, FormAt(b.computedAt))

BindInv ==
  /\ TypeOK
  /\ \A i \in Indexes : batches[i] # NoBatch => WellBound(batches[i])
  /\ seqPc # "idle" => draft \in Draft
  /\ seqPc = "submit" => draft.at <= height /\ draft.form = FormAt(draft.at)
  /\ pc # "idle" \/ verdict # "none" => view # NoBatch
  /\ view # NoBatch => WellBound(view) /\ view.status = "submitted"
  /\ pc = "send" => Upheld(view, proof)
  /\ VerdictIsTheChains
  /\ ~forfeits

==============================================================================
