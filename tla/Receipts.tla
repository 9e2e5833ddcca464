------------------------------- MODULE Receipts -------------------------------
(***************************************************************************)
(* Settlement receipts: buildSettlementReceipt puts one together from the  *)
(* chain, it passes through other hands, and verifySettlementReceipt reads *)
(* the chain again, one await after the other, while batches are           *)
(* submitted, resubmitted and anchored.                                    *)
(***************************************************************************)
EXTENDS Naturals, Sequences

CONSTANTS
  Roots,          \* state roots
  NoRoot,         \* no batch under an index
  Absent,         \* a field the receipt does not carry
  MaxBatches,     \* bound: batch indexes are 0 .. MaxBatches - 1
  MaxAnchors,     \* bound: anchors of the layer
  MaxHeight,      \* bound: Main Chain height
  TxCounts,       \* transaction counts of a batch
  V2Height,       \* anchorSignV2Height: the v2 anchor message holds from here
  MaxFaults       \* bound: failed reads

ASSUME ReceiptAssumption ==
  /\ NoRoot \notin Roots
  /\ Absent \notin TxCounts /\ Absent \notin {"ours", "theirs"}
  /\ MaxBatches \in Nat /\ MaxAnchors \in Nat /\ MaxHeight \in Nat \ {0}
  /\ TxCounts \subseteq Nat /\ V2Height \in Nat /\ MaxFaults \in Nat

\* A chain, layer, creator, key, algorithm, validator set or proof: the one of
\* these anchors, or another.
Either == {"ours", "theirs"}

Indexes == 0 .. MaxBatches - 1

VARIABLES
  roots,     \* chain: index -> state root of the batch
  anchors,   \* chain: the layer's anchors, newest first
  height,    \* chain: Main Chain height
  pc,        \* the await, "held" by someone, "valid", "invalid", "signed", "unsigned"
  receipt,   \* the receipt; version 0 until one is built
  root,      \* the batch root the call has read
  matched,   \* the chain's anchor the receipt was matched to; main 0 if none
  altered,   \* history: the receipt is not what was built
  replaced,  \* history: the batch of the receipt, or of its anchor, was resubmitted
  faults

chainVars == <<roots, anchors, height>>
vars == <<chainVars, pc, receipt, root, matched, altered, replaced, faults>>

(***************************************************************************)
(* The anchor message.  v1 covers neither the chain nor the transaction    *)
(* count nor the compressed proof; its fields have no length prefix, which *)
(* is no matter for the fixed-length fields of a batch.                    *)
(***************************************************************************)
anchorSignBytesV1(a) == <<"v1", a.layer, a.layerHeight, a.root, a.vset>>

anchorSignBytesV2(a, chain) ==
  <<"v2", chain, a.layer, a.layerHeight, a.root, a.vset, a.txCount, a.proof>>

\* Mutant: v2 only above the height, not at it.
SignBytesVersionAbove(main) == IF main > V2Height THEN "v2" ELSE "v1"

anchorSignBytesVersionFor(main) == IF main >= V2Height THEN "v2" ELSE "v1"

SignBytes(a, chain, form) ==
  IF form = "v2" THEN anchorSignBytesV2(a, chain) ELSE anchorSignBytesV1(a)

\* signatureOver: a signature says which key signed which message.
SignatureOver(a, key, chain, form) ==
  a.signature = <<key, SignBytes(a, chain, form)>>

\* The anchor the chain records for a batch its creator signed, at the time of
\* its block.
AnchorOf(i, r, n, main) ==
  LET a == [layer |-> "ours", layerHeight |-> i, root |-> r, vset |-> "ours", txCount |-> n,
            proof |-> "ours"]
      form == IF main >= V2Height THEN "v2" ELSE "v1"
  IN  [layer |-> "ours", layerHeight |-> i, root |-> r, vset |-> "ours", txCount |-> n,
       proof |-> "ours", main |-> main, at |-> main,
       signature |-> <<"ours", SignBytes(a, "ours", form)>>]

\* receiptFromParts.
ReceiptFrom(i, a, batchRoot) ==
  [version |-> 2, chain |-> "ours", layer |-> a.layer, index |-> i, creator |-> "ours",
   algorithm |-> "ours", root |-> a.root, layerHeight |-> a.layerHeight, vset |-> a.vset,
   main |-> a.main, at |-> a.at, signature |-> a.signature, batchRoot |-> batchRoot,
   txCount |-> a.txCount, proof |-> a.proof]

Init ==
  /\ roots = [i \in Indexes |-> NoRoot]
  /\ anchors = <<>>
  /\ height = 1
  /\ pc = "build"
  /\ receipt = [version |-> 0] /\ root = NoRoot /\ matched = [main |-> 0]
  /\ altered = FALSE /\ replaced = FALSE /\ faults = 0

(***************************************************************************)
(* The chain.                                                              *)
(***************************************************************************)

NewBlock ==
  /\ height < MaxHeight
  /\ height' = height + 1
  /\ UNCHANGED <<roots, anchors, pc, receipt, root, matched, altered, replaced, faults>>

\* A batch is submitted, or resubmitted after a rejection, anchored or not.
SubmitBatch(i, r, n, anchored) ==
  /\ i > 0 => roots[i - 1] # NoRoot
  /\ roots' = [roots EXCEPT ![i] = r]
  /\ IF anchored
     THEN Len(anchors) < MaxAnchors /\ anchors' = <<AnchorOf(i, r, n, height)>> \o anchors
     ELSE UNCHANGED anchors
  /\ replaced' = (replaced \/ (receipt.version # 0 /\ i \in {receipt.index, receipt.layerHeight}))
  /\ UNCHANGED <<height, pc, receipt, root, matched, altered, faults>>

(***************************************************************************)
(* Building.                                                               *)
(***************************************************************************)

Still == UNCHANGED <<chainVars, altered, replaced>>

\* getRollup and getBatch.
BuildReadBatch(i) ==
  /\ pc = "build"
  /\ roots[i] # NoRoot
  /\ root' = roots[i]
  /\ receipt' = [version |-> 0, index |-> i]
  /\ pc' = "buildAnchors"
  /\ Still /\ UNCHANGED <<matched, faults>>

\* anchors.find: the first of the positions whose anchors pass its test.
FirstOf(positions) == {n \in positions : \A m \in positions : n <= m}

Covering == {n \in DOMAIN anchors : anchors[n].root = root}

\* The newest anchor with the batch's root; without one the call throws.
BuildReadAnchors ==
  /\ pc = "buildAnchors"
  /\ \/ /\ Covering = {} /\ pc' = "build"
        /\ receipt' = [version |-> 0] /\ replaced' = FALSE
     \/ \E n \in FirstOf(Covering) :
          /\ pc' = "held"
          /\ receipt' = ReceiptFrom(receipt.index, anchors[n], root)
          /\ replaced' = (roots[receipt.index] # root)
  /\ root' = NoRoot
  /\ UNCHANGED <<chainVars, altered, matched, faults>>

\* The holder changes a field, or hands on a version-1 receipt.
Tamper ==
  /\ pc = "held" /\ ~altered
  /\ \/ /\ altered' = TRUE
        /\ \/ \E i \in Indexes \ {receipt.index} : receipt' = [receipt EXCEPT !.index = i]
           \/ \E i \in Indexes \ {receipt.layerHeight} : receipt' = [receipt EXCEPT !.layerHeight = i]
           \/ \E r \in Roots \ {receipt.root} :
                receipt' \in {[receipt EXCEPT !.root = r], [receipt EXCEPT !.batchRoot = r],
                              [receipt EXCEPT !.root = r, !.batchRoot = r]}
           \/ \E n \in TxCounts \ {receipt.txCount} : receipt' = [receipt EXCEPT !.txCount = n]
           \/ receipt' \in {[receipt EXCEPT !.main = @ + 1], [receipt EXCEPT !.at = @ + 1]}
           \/ receipt' \in {[receipt EXCEPT !.chain = "theirs"], [receipt EXCEPT !.layer = "theirs"],
                            [receipt EXCEPT !.creator = "theirs"], [receipt EXCEPT !.version = 3],
                            [receipt EXCEPT !.algorithm = "theirs"], [receipt EXCEPT !.vset = "theirs"],
                            [receipt EXCEPT !.proof = "theirs"],
                            [receipt EXCEPT !.signature[1] = "theirs"]}
     \/ /\ receipt.version = 2
        /\ receipt' = [receipt EXCEPT !.version = 1, !.chain = Absent, !.txCount = Absent,
                                       !.proof = Absent]
        /\ UNCHANGED altered
  /\ UNCHANGED <<chainVars, pc, root, matched, replaced, faults>>

(***************************************************************************)
(* Verifying.                                                              *)
(***************************************************************************)

\* receiptSchemaError.
SchemaOK ==
  /\ receipt.version \in {1, 2} /\ receipt.algorithm = "ours"
  /\ receipt.version = 2 =>
       receipt.chain # Absent /\ receipt.txCount # Absent /\ receipt.proof # Absent

\* Without a client a key may be supplied; without either nothing is checked.
Start(client) ==
  /\ pc = "held"
  /\ pc' \in IF ~SchemaOK THEN {"invalid"}
            ELSE IF client THEN {"rollup"} ELSE {"offline", "unsigned"}
  /\ Still /\ UNCHANGED <<receipt, root, matched, faults>>

\* Without a client: the receipt's own fields, under either message.
Offline(key) ==
  LET a == [receipt EXCEPT !.txCount = IF @ = Absent THEN 0 ELSE @,
                           !.proof = IF @ = Absent THEN "" ELSE @]
      ok == \/ receipt.chain # Absent /\ SignatureOver(a, key, receipt.chain, "v2")
            \/ SignatureOver(a, key, "", "v1")
  IN  /\ pc = "offline"
      /\ pc' = IF ok THEN "signed" ELSE "unsigned"
      /\ Still /\ UNCHANGED <<receipt, root, matched, faults>>

\* A failed read is a failed verification.
ReadFails ==
  /\ pc \in {"rollup", "batch", "anchors", "key"}
  /\ faults < MaxFaults /\ faults' = faults + 1
  /\ pc' = "invalid"
  /\ Still /\ UNCHANGED <<receipt, root, matched>>

\* Step 1: the rollup's layer.
VerifyRollup ==
  /\ pc = "rollup"
  /\ pc' = IF receipt.layer = "ours" THEN "batch" ELSE "invalid"
  /\ Still /\ UNCHANGED <<receipt, root, matched, faults>>

\* Mutant: the receipt's own copy of the batch root is not compared.
BatchRootClaimed(r) == r # NoRoot /\ r = receipt.root

BatchRootOK(r) == r # NoRoot /\ r = receipt.root /\ r = receipt.batchRoot

\* Step 2: the chain's batch.
VerifyBatch ==
  /\ pc = "batch"
  /\ root' = roots[receipt.index]
  /\ pc' = IF BatchRootOK(root') THEN "anchors" ELSE "invalid"
  /\ Still /\ UNCHANGED <<receipt, matched, faults>>

\* anchorFieldMismatch finds none.
FieldsAgree(a) ==
  /\ receipt.vset = a.vset /\ receipt.main = a.main /\ receipt.at = a.at
  /\ receipt.txCount \in {Absent, a.txCount} /\ receipt.proof \in {Absent, a.proof}

Matching ==
  {n \in DOMAIN anchors : /\ anchors[n].root = receipt.root
                          /\ anchors[n].layerHeight = receipt.layerHeight
                          /\ anchors[n].signature = receipt.signature}

\* Step 3: the first anchor that matches, and every other field of it.
VerifyAnchors ==
  /\ pc = "anchors"
  /\ \/ Matching = {} /\ pc' = "invalid" /\ UNCHANGED matched
     \/ \E n \in FirstOf(Matching) :
          IF FieldsAgree(anchors[n]) THEN pc' = "key" /\ matched' = anchors[n]
          ELSE pc' = "invalid" /\ UNCHANGED matched
  /\ Still /\ UNCHANGED <<receipt, root, faults>>

\* Steps 4 to 6: the creator and its key, the chain, the signature.
VerifySignature ==
  /\ pc = "key"
  /\ pc' = IF /\ receipt.creator = "ours"
              /\ receipt.chain \in {Absent, "ours"}
              /\ SignatureOver(matched, "ours", "ours", anchorSignBytesVersionFor(matched.main))
           THEN "valid" ELSE "invalid"
  /\ Still /\ UNCHANGED <<receipt, root, matched, faults>>

Next ==
  \/ NewBlock
  \/ \E i \in Indexes, r \in Roots, n \in TxCounts, anchored \in BOOLEAN :
       SubmitBatch(i, r, n, anchored)
  \/ \E i \in Indexes : BuildReadBatch(i)
  \/ BuildReadAnchors \/ Tamper
  \/ \E client \in BOOLEAN : Start(client)
  \/ \E key \in Either : Offline(key)
  \/ ReadFails \/ VerifyRollup \/ VerifyBatch \/ VerifyAnchors \/ VerifySignature

Spec == Init /\ [][Next]_vars

(***************************************************************************)
(* Properties.                                                             *)
(***************************************************************************)

\* "valid: true only when the receipt reproduces what the chain actually
\* holds": an anchor of the chain agrees with a valid receipt on every field
\* the receipt states, and so does the batch that was read.
ValidReproducesChain ==
  pc = "valid" =>
    /\ receipt.creator = "ours" /\ receipt.layer = "ours"
    /\ receipt.chain \in {Absent, "ours"} /\ receipt.version \in {1, 2} /\ receipt.algorithm = "ours"
    /\ receipt.batchRoot = root /\ receipt.root = root
    /\ \E n \in DOMAIN anchors :
         /\ anchors[n].layerHeight = receipt.layerHeight /\ anchors[n].main = receipt.main
         /\ anchors[n].root = receipt.root /\ anchors[n].signature = receipt.signature
         /\ anchors[n].vset = receipt.vset /\ anchors[n].at = receipt.at
         /\ receipt.txCount \in {Absent, anchors[n].txCount}
         /\ receipt.proof \in {Absent, anchors[n].proof}

\* A receipt that nobody changed verifies, "Version-1 receipts" too, whenever
\* neither its batch nor the anchored one was resubmitted and no read fails.
BuiltReceiptsVerify ==
  pc = "invalid" /\ ~altered /\ faults = 0 => replaced

==============================================================================
