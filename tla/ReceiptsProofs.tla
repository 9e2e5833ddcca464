---------------------------- MODULE ReceiptsProofs ----------------------------
(***************************************************************************)
(* What a verified settlement receipt says of the chain, and that a        *)
(* receipt nobody changed verifies: for any number of batches, anchors and *)
(* heights, wherever the new anchor message comes into force.  Anchors are *)
(* only ever added in front, so the one a receipt was built from or        *)
(* matched to stays in the list; and one that could hide it there is the   *)
(* anchor of a resubmitted batch.                                          *)
(***************************************************************************)
EXTENDS Receipts, SequenceTheorems, TLAPS

\* The fields of an anchor a receipt states.
Agrees(a) ==
  /\ a.layerHeight = receipt.layerHeight /\ a.main = receipt.main
  /\ a.root = receipt.root /\ a.signature = receipt.signature
  /\ a.vset = receipt.vset /\ a.at = receipt.at
  /\ receipt.txCount \in {Absent, a.txCount} /\ receipt.proof \in {Absent, a.proof}

\* An anchor's signature is its creator's, over the message of its height.
Signed(a) == SignatureOver(a, "ours", "ours", anchorSignBytesVersionFor(a.main))

\* What the chain anchors.
Anchors ==
  {AnchorOf(i, r, n, main) : i \in Indexes, r \in Roots, n \in TxCounts, main \in 0 .. MaxHeight}

ChainOK ==
  /\ height \in 0 .. MaxHeight
  /\ roots \in [Indexes -> Roots \cup {NoRoot}]
  /\ anchors \in Seq(Anchors)

\* The last await a verification has passed, and what it established.
PastBatch == receipt.version \in {1, 2} /\ receipt.algorithm = "ours" /\ receipt.layer = "ours"
             /\ receipt.batchRoot = root /\ receipt.root = root

PastAnchors ==
  /\ PastBatch
  /\ Signed(matched) /\ \E n \in DOMAIN anchors : anchors[n] = matched /\ Agrees(matched)

VerifyingOK ==
  /\ pc \in {"rollup", "batch"} => receipt.version \in {1, 2} /\ receipt.algorithm = "ours"
  /\ pc = "batch" => receipt.layer = "ours"
  /\ pc = "anchors" => PastBatch
  /\ pc = "key" => PastAnchors
  /\ pc = "valid" => /\ PastAnchors
                     /\ receipt.creator = "ours" /\ receipt.chain \in {Absent, "ours"}

Building == {"build", "buildAnchors"}

BuildingOK ==
  /\ pc = "build" => receipt.version = 0
  /\ pc = "buildAnchors" => receipt.version = 0 /\ receipt.index \in Indexes /\ root \in Roots

ReceiptFields ==
  {"version", "chain", "layer", "index", "creator", "root", "layerHeight", "main", "signature",
   "batchRoot", "txCount", "algorithm", "vset", "at", "proof"}

\* As it was built, or as an older version of it.
AsBuilt ==
  /\ DOMAIN receipt = ReceiptFields
  /\ receipt.creator = "ours" /\ receipt.layer = "ours" /\ receipt.algorithm = "ours"
  /\ \/ /\ receipt.version = 1 /\ receipt.chain = Absent
        /\ receipt.txCount = Absent /\ receipt.proof = Absent
     \/ /\ receipt.version = 2 /\ receipt.chain = "ours"
        /\ receipt.txCount \in TxCounts /\ receipt.proof = "ours"
  /\ receipt.index \in Indexes /\ receipt.root = receipt.batchRoot /\ receipt.batchRoot \in Roots

\* Its batch and its anchor are on the chain, and no newer anchor of that height has
\* its root.
OnChain ==
  /\ roots[receipt.index] = receipt.batchRoot
  /\ \E n \in DOMAIN anchors :
       /\ Agrees(anchors[n])
       /\ \A m \in 1 .. n - 1 : ~(/\ anchors[m].root = receipt.root
                                  /\ anchors[m].layerHeight = receipt.layerHeight)

HeldOK ==
  pc \notin Building /\ ~altered =>
    /\ AsBuilt
    /\ ~replaced => OnChain
    /\ pc = "invalid" /\ faults = 0 => replaced

ReceiptInv ==
  /\ ChainOK
  /\ BuildingOK
  /\ VerifyingOK
  /\ HeldOK
  /\ faults \in Nat

\* At first there is no batch, no anchor and no receipt.
LEMMA ReceiptInit == Init => ReceiptInv
<1> SUFFICES ASSUME Init
             PROVE  ReceiptInv
  OBVIOUS
<1>1. ChainOK
  BY ReceiptAssumption DEF Init, ChainOK
<1>2. BuildingOK /\ VerifyingOK /\ HeldOK /\ faults \in Nat
  BY DEF Init, BuildingOK, VerifyingOK, HeldOK, Building
<1> QED BY <1>1, <1>2 DEF ReceiptInv

\* An anchor of the chain is its creator's and signed by its key.
LEMMA AnchorFacts ==
  ASSUME NEW a \in Anchors
  PROVE  /\ a.layer = "ours" /\ a.root \in Roots /\ a.txCount \in TxCounts /\ a.proof = "ours"
         /\ Signed(a)
<1>1. PICK i \in Indexes, r \in Roots, n \in TxCounts, main \in 0 .. MaxHeight :
        a = AnchorOf(i, r, n, main)
  BY DEF Anchors
<1>2. /\ a.layer = "ours" /\ a.layerHeight = i /\ a.root = r /\ a.txCount = n /\ a.main = main
      /\ a.vset = "ours" /\ a.proof = "ours"
      /\ a.signature =
           <<"ours", SignBytes([layer |-> "ours", layerHeight |-> i, root |-> r, vset |-> "ours",
                                txCount |-> n, proof |-> "ours"],
                               "ours", IF main >= V2Height THEN "v2" ELSE "v1")>>
  BY <1>1 DEF AnchorOf
<1>3. Signed(a)
  BY <1>2 DEF Signed, SignatureOver, SignBytes, anchorSignBytesV1, anchorSignBytesV2,
              anchorSignBytesVersionFor
<1> QED BY <1>2, <1>3

\* An anchor added in front moves the others by one.
LEMMA AnchorAdded ==
  ASSUME anchors \in Seq(Anchors), NEW a \in Anchors, anchors' = <<a>> \o anchors
  PROVE  /\ anchors' \in Seq(Anchors) /\ Len(anchors) \in Nat /\ DOMAIN anchors = 1 .. Len(anchors)
         /\ DOMAIN anchors' = 1 .. Len(anchors) + 1
         /\ anchors'[1] = a /\ \A n \in 1 .. Len(anchors) : anchors'[n + 1] = anchors[n]
<1>1. <<a>> \in Seq(Anchors) /\ Len(<<a>>) = 1 /\ Len(anchors) \in Nat
  OBVIOUS
<1>2. /\ anchors' \in Seq(Anchors) /\ Len(anchors') = Len(anchors) + 1
      /\ DOMAIN anchors = 1 .. Len(anchors) /\ DOMAIN anchors' = 1 .. Len(anchors) + 1
      /\ anchors'[1] = a
  BY <1>1
<1>3. ASSUME NEW n \in 1 .. Len(anchors)
      PROVE  anchors'[n + 1] = anchors[n]
  <2>1. \A i \in 1 .. Len(<<a>>) + Len(anchors) :
          anchors'[i] = IF i <= Len(<<a>>) THEN <<a>>[i] ELSE anchors[i - Len(<<a>>)]
    BY <1>1, ConcatProperties, Zenon
  <2>2. \A i \in 1 .. Len(anchors) + 1 : i > 1 => anchors'[i] = anchors[i - 1]
    BY <1>1, <2>1
  <2>3. n + 1 \in 1 .. Len(anchors) + 1 /\ n + 1 > 1 /\ (n + 1) - 1 = n
    BY <1>2
  <2> QED BY <2>2, <2>3
<1> QED BY <1>1, <1>2, <1>3

\* An anchor of the list is still in it after a step of the chain.
LEMMA AnchorsStay ==
  ASSUME anchors \in Seq(Anchors),
         anchors' = anchors \/ \E a \in Anchors : anchors' = <<a>> \o anchors,
         NEW n \in DOMAIN anchors
  PROVE  \E k \in DOMAIN anchors' : anchors'[k] = anchors[n]
<1>1. CASE anchors' = anchors
  BY <1>1
<1>2. CASE \E a \in Anchors : anchors' = <<a>> \o anchors
  <2>1. PICK a \in Anchors : anchors' = <<a>> \o anchors
    BY <1>2
  <2>2. n \in 1 .. Len(anchors) /\ n + 1 \in DOMAIN anchors' /\ anchors'[n + 1] = anchors[n]
    BY <2>1, AnchorAdded
  <2> QED BY <2>2
<1> QED BY <1>1, <1>2

\* A batch submitted or resubmitted, anchored or not.
LEMMA SubmitKeeps ==
  ASSUME ReceiptInv, NEW i \in Indexes, NEW r \in Roots, NEW n \in TxCounts,
         NEW anchored \in BOOLEAN, SubmitBatch(i, r, n, anchored)
  PROVE  ReceiptInv'
<1> DEFINE a == AnchorOf(i, r, n, height)
<1>0. /\ UNCHANGED <<height, pc, receipt, root, matched, altered, faults>>
      /\ roots' = [roots EXCEPT ![i] = r]
      /\ anchors' = anchors \/ anchors' = <<a>> \o anchors
  BY DEF SubmitBatch
<1>1. a \in Anchors
  BY DEF Anchors, ReceiptInv, ChainOK
<1>2. a.layerHeight = i
  BY DEF AnchorOf
<1> HIDE DEF a
<1>3. ChainOK'
  <2>1. anchors' \in Seq(Anchors)
    BY <1>0, <1>1, AnchorAdded DEF ReceiptInv, ChainOK
  <2>2. roots' \in [Indexes -> Roots \cup {NoRoot}]
    BY <1>0 DEF ReceiptInv, ChainOK
  <2> QED BY <1>0, <2>1, <2>2 DEF ReceiptInv, ChainOK
<1>4. BuildingOK' /\ faults' \in Nat
  BY <1>0 DEF ReceiptInv, BuildingOK
<1>5. VerifyingOK'
  <2>1. PastBatch => PastBatch'
    BY <1>0 DEF PastBatch
  <2>2. PastAnchors => PastAnchors'
    <3> SUFFICES ASSUME PastAnchors
                 PROVE  PastAnchors'
      OBVIOUS
    <3>1. PICK k \in DOMAIN anchors : anchors[k] = matched
      BY DEF PastAnchors
    <3>2. PICK l \in DOMAIN anchors' : anchors'[l] = matched
      BY <1>0, <1>1, <3>1, AnchorsStay DEF ReceiptInv, ChainOK
    <3>3. Agrees(matched)' /\ Signed(matched)'
      BY <1>0 DEF PastAnchors, Agrees, Signed, SignatureOver
    <3> QED BY <1>0, <2>1, <3>2, <3>3 DEF PastAnchors
  <2> QED BY <1>0, <2>1, <2>2 DEF ReceiptInv, VerifyingOK
<1>6. HeldOK'
  <2> SUFFICES ASSUME pc \notin Building, ~altered
               PROVE  /\ AsBuilt'
                      /\ ~replaced' => OnChain'
                      /\ pc = "invalid" /\ faults = 0 => replaced'
    BY <1>0 DEF HeldOK, Building
  <2>1. AsBuilt /\ AsBuilt'
    BY <1>0 DEF ReceiptInv, HeldOK, AsBuilt
  <2>2. replaced => replaced'
    BY DEF SubmitBatch
  <2>3. ~replaced' => i # receipt.index /\ i # receipt.layerHeight
    <3>1. receipt.version # 0
      BY <2>1 DEF AsBuilt
    <3> QED BY <3>1, Zenon DEF SubmitBatch
  <2>4. ASSUME ~replaced'
        PROVE  OnChain'
    <3>1. OnChain
      BY <2>2, <2>4 DEF ReceiptInv, HeldOK
    <3>2. roots'[receipt.index] = roots[receipt.index]
      BY <1>0, <2>1, <2>3, <2>4 DEF ReceiptInv, ChainOK, AsBuilt
    <3>3. PICK k \in DOMAIN anchors :
            /\ Agrees(anchors[k])
            /\ \A m \in 1 .. k - 1 : ~(/\ anchors[m].root = receipt.root
                                       /\ anchors[m].layerHeight = receipt.layerHeight)
      BY <3>1 DEF OnChain
    <3>4. CASE anchors' = anchors
      BY <1>0, <3>1, <3>2, <3>4 DEF OnChain, Agrees
    <3>5. CASE anchors' = <<a>> \o anchors
      <4>1. /\ Len(anchors) \in Nat /\ DOMAIN anchors = 1 .. Len(anchors)
            /\ DOMAIN anchors' = 1 .. Len(anchors) + 1
            /\ anchors'[1] = a /\ \A l \in 1 .. Len(anchors) : anchors'[l + 1] = anchors[l]
        BY <1>1, <3>5, AnchorAdded DEF ReceiptInv, ChainOK
      <4>2. k + 1 \in DOMAIN anchors' /\ anchors'[k + 1] = anchors[k] /\ k \in Nat
        BY <4>1
      <4>3. ASSUME NEW m \in 1 .. k
            PROVE  ~(/\ anchors'[m].root = receipt.root
                     /\ anchors'[m].layerHeight = receipt.layerHeight)
        <5>1. CASE m = 1
          BY <1>2, <2>3, <2>4, <4>1, <5>1
        <5>2. CASE m # 1
          <6>1. m - 1 \in 1 .. k - 1 /\ m - 1 \in 1 .. Len(anchors) /\ (m - 1) + 1 = m
            BY <4>1, <4>2, <5>2
          <6>2. anchors'[m] = anchors[m - 1]
            BY <4>1, <6>1
          <6> QED BY <3>3, <6>1, <6>2
        <5> QED BY <5>1, <5>2
      <4>4. (k + 1) - 1 = k
        BY <4>2
      <4> QED BY <1>0, <3>1, <3>2, <3>3, <4>2, <4>3, <4>4 DEF OnChain, Agrees
    <3> QED BY <1>0, <3>4, <3>5
  <2> QED BY <2>1, <2>2, <2>4 DEF ReceiptInv, HeldOK
<1> QED BY <1>3, <1>4, <1>5, <1>6 DEF ReceiptInv

\* A receipt built from the newest anchor with the root of its batch.
LEMMA BuildKeeps == ASSUME ReceiptInv, BuildReadAnchors PROVE ReceiptInv'
<1>0. /\ pc = "buildAnchors" /\ UNCHANGED <<height, roots, anchors, altered, matched, faults>>
  BY DEF BuildReadAnchors, chainVars
<1>1. ChainOK' /\ faults' \in Nat
  BY <1>0 DEF ReceiptInv, ChainOK
<1>2. receipt.index \in Indexes /\ root \in Roots
  BY <1>0 DEF ReceiptInv, BuildingOK
<1>3. CASE pc' = "build" /\ receipt' = [version |-> 0]
  BY <1>0, <1>1, <1>3 DEF ReceiptInv, BuildingOK, VerifyingOK, HeldOK, Building
<1>4. CASE \E n \in FirstOf(Covering) :
             /\ pc' = "held"
             /\ receipt' = ReceiptFrom(receipt.index, anchors[n], root)
             /\ replaced' = (roots[receipt.index] # root)
  <2>1. PICK n \in FirstOf(Covering) :
             /\ pc' = "held"
             /\ receipt' = ReceiptFrom(receipt.index, anchors[n], root)
             /\ replaced' = (roots[receipt.index] # root)
    BY <1>4
  <2>2. n \in DOMAIN anchors /\ n \in Nat /\ anchors[n] \in Anchors /\ anchors[n].root = root
    BY <2>1 DEF FirstOf, Covering, ReceiptInv, ChainOK
  <2>3. \A m \in 1 .. n - 1 : anchors[m].root # root
    <3>1. \A m \in DOMAIN anchors : anchors[m].root = root => n <= m
      BY <2>1 DEF FirstOf, Covering
    <3>2. \A m \in 1 .. n - 1 : m \in DOMAIN anchors /\ ~(n <= m)
      BY <2>2 DEF ReceiptInv, ChainOK
    <3> QED BY <3>1, <3>2
  <2>4. /\ DOMAIN receipt' = ReceiptFields
        /\ receipt'.version = 2 /\ receipt'.chain = "ours" /\ receipt'.layer = "ours"
        /\ receipt'.index = receipt.index /\ receipt'.creator = "ours" /\ receipt'.root = root
        /\ receipt'.layerHeight = anchors[n].layerHeight /\ receipt'.main = anchors[n].main
        /\ receipt'.signature = anchors[n].signature /\ receipt'.batchRoot = root
        /\ receipt'.txCount = anchors[n].txCount /\ receipt'.txCount \in TxCounts
        /\ receipt'.algorithm = "ours" /\ receipt'.vset = anchors[n].vset
        /\ receipt'.at = anchors[n].at
        /\ receipt'.proof = anchors[n].proof /\ receipt'.proof = "ours"
    BY <2>1, <2>2, AnchorFacts DEF ReceiptFrom, ReceiptFields
  <2>5. AsBuilt'
    BY <1>2, <2>4 DEF AsBuilt, ReceiptFields
  <2>6. ~replaced' => OnChain'
    BY <1>0, <2>1, <2>2, <2>3, <2>4, ZenonT(40) DEF OnChain, Agrees
  <2> QED BY <1>1, <2>1, <2>5, <2>6 DEF ReceiptInv, BuildingOK, VerifyingOK, HeldOK, Building
<1> QED BY <1>3, <1>4 DEF BuildReadAnchors

\* A field changed, or an older version handed on.
LEMMA TamperKeeps == ASSUME ReceiptInv, Tamper PROVE ReceiptInv'
<1>0. pc = "held" /\ pc' = "held"
      /\ UNCHANGED <<height, roots, anchors, root, matched, replaced, faults>>
  BY DEF Tamper, chainVars
<1>1. ChainOK' /\ BuildingOK' /\ VerifyingOK' /\ faults' \in Nat
  BY <1>0 DEF ReceiptInv, ChainOK, BuildingOK, VerifyingOK
<1>2. CASE altered'
  BY <1>1, <1>2 DEF ReceiptInv, HeldOK
<1>3. CASE /\ receipt' = [receipt EXCEPT !.version = 1, !.chain = Absent, !.txCount = Absent,
                                      !.proof = Absent]
           /\ UNCHANGED altered /\ ~altered
  <2>1. AsBuilt /\ (~replaced => OnChain)
    BY <1>0, <1>3 DEF ReceiptInv, HeldOK, Building
  <2>2. /\ DOMAIN receipt' = ReceiptFields
        /\ receipt'.version = 1 /\ receipt'.chain = Absent /\ receipt'.txCount = Absent
        /\ receipt'.proof = Absent /\ receipt'.algorithm = receipt.algorithm
        /\ receipt'.vset = receipt.vset /\ receipt'.at = receipt.at
        /\ receipt'.layer = receipt.layer /\ receipt'.index = receipt.index
        /\ receipt'.creator = receipt.creator /\ receipt'.root = receipt.root
        /\ receipt'.layerHeight = receipt.layerHeight /\ receipt'.main = receipt.main
        /\ receipt'.signature = receipt.signature /\ receipt'.batchRoot = receipt.batchRoot
    BY <1>3, <2>1 DEF AsBuilt, ReceiptFields
  <2>3. AsBuilt'
    BY <2>1, <2>2 DEF AsBuilt, ReceiptFields
  <2>4. OnChain => OnChain'
    BY <1>0, <2>2 DEF OnChain, Agrees
  <2> QED BY <1>0, <1>1, <1>3, <2>1, <2>3, <2>4 DEF ReceiptInv, HeldOK
<1> QED BY <1>2, <1>3 DEF Tamper

\* A step of the verification changes neither the chain nor the receipt: what is
\* left to show is that it goes on with what it needs, and says no to a receipt
\* as it was built only if its batch was replaced.
LEMMA VerifyingKeeps ==
  ASSUME ReceiptInv, pc \notin Building, pc' \notin Building,
         UNCHANGED <<height, roots, anchors, altered, replaced, receipt>>,
         faults' \in Nat, VerifyingOK',
         ~altered /\ AsBuilt /\ (~replaced => OnChain) /\ pc' = "invalid" /\ faults' = 0 => replaced
  PROVE  ReceiptInv'
<1>1. ChainOK' /\ BuildingOK'
  BY DEF ReceiptInv, ChainOK, BuildingOK, Building
<1>2. HeldOK'
  <2>1. AsBuilt' <=> AsBuilt
    BY DEF AsBuilt
  <2>2. OnChain' <=> OnChain
    BY DEF OnChain, Agrees
  <2> QED BY <2>1, <2>2 DEF ReceiptInv, HeldOK
<1> QED BY <1>1, <1>2 DEF ReceiptInv

\* Every step of the chain, the holder and the two calls keeps the invariant.
LEMMA ReceiptStep == ReceiptInv /\ [Next]_vars => ReceiptInv'
<1> SUFFICES ASSUME ReceiptInv, [Next]_vars
             PROVE  ReceiptInv'
  OBVIOUS
<1>0. faults \in Nat
  BY DEF ReceiptInv
<1>1. CASE NewBlock
  <2>1. /\ height' \in 0 .. MaxHeight
        /\ UNCHANGED <<roots, anchors, pc, receipt, root, matched, altered, replaced, faults>>
    BY <1>1, ReceiptAssumption DEF NewBlock, ReceiptInv, ChainOK
  <2>2. ChainOK' /\ BuildingOK' /\ faults' \in Nat
    BY <2>1 DEF ReceiptInv, ChainOK, BuildingOK
  <2>3. VerifyingOK'
    BY <2>1 DEF ReceiptInv, VerifyingOK, PastBatch, PastAnchors, Agrees, Signed, SignatureOver
  <2>4. HeldOK'
    BY <2>1 DEF ReceiptInv, HeldOK, AsBuilt, OnChain, Agrees
  <2> QED BY <2>2, <2>3, <2>4 DEF ReceiptInv
<1>2. ASSUME NEW i \in Indexes, NEW r \in Roots, NEW n \in TxCounts, NEW anchored \in BOOLEAN,
             SubmitBatch(i, r, n, anchored)
      PROVE  ReceiptInv'
  BY <1>2, SubmitKeeps
<1>3. ASSUME NEW i \in Indexes, BuildReadBatch(i)
      PROVE  ReceiptInv'
  <2>1. /\ roots[i] \in Roots /\ root' = roots[i] /\ pc' = "buildAnchors"
        /\ receipt' = [version |-> 0, index |-> i]
        /\ UNCHANGED <<height, roots, anchors, faults>>
    BY <1>3 DEF BuildReadBatch, Still, chainVars, ReceiptInv, ChainOK
  <2> QED BY <2>1 DEF ReceiptInv, ChainOK, BuildingOK, VerifyingOK, HeldOK, Building
<1>4. CASE BuildReadAnchors
  BY <1>4, BuildKeeps
<1>5. CASE Tamper
  BY <1>5, TamperKeeps
<1>6. ASSUME NEW client \in BOOLEAN, Start(client)
      PROVE  ReceiptInv'
  <2>1. /\ pc = "held"
        /\ \/ pc' = "invalid" /\ ~SchemaOK
           \/ pc' \in {"rollup", "offline", "unsigned"} /\ SchemaOK
        /\ UNCHANGED <<height, roots, anchors, altered, replaced, receipt, root, matched, faults>>
    BY <1>6 DEF Start, Still, chainVars
  <2>2. AsBuilt => SchemaOK
    BY ReceiptAssumption DEF AsBuilt, SchemaOK
  <2>3. VerifyingOK'
    BY <2>1 DEF VerifyingOK, SchemaOK
  <2> QED BY <1>0, <2>1, <2>2, <2>3, VerifyingKeeps DEF Building
<1>7. ASSUME NEW key \in Either, Offline(key)
      PROVE  ReceiptInv'
  <2>1. /\ pc = "offline" /\ pc' \in {"signed", "unsigned"}
        /\ UNCHANGED <<height, roots, anchors, altered, replaced, receipt, root, matched, faults>>
    BY <1>7 DEF Offline, Still, chainVars
  <2>2. VerifyingOK'
    BY <2>1 DEF VerifyingOK
  <2> QED BY <1>0, <2>1, <2>2, VerifyingKeeps DEF Building
<1>8. CASE ReadFails
  <2>1. /\ pc \in {"rollup", "batch", "anchors", "key"} /\ pc' = "invalid" /\ faults' = faults + 1
        /\ UNCHANGED <<height, roots, anchors, altered, replaced, receipt, root, matched>>
    BY <1>8 DEF ReadFails, Still, chainVars
  <2>2. VerifyingOK' /\ faults' \in Nat /\ faults' # 0
    BY <1>0, <2>1 DEF VerifyingOK
  <2> QED BY <2>1, <2>2, VerifyingKeeps DEF Building
<1>9. CASE VerifyRollup
  <2>1. /\ pc = "rollup" /\ pc' = IF receipt.layer = "ours" THEN "batch" ELSE "invalid"
        /\ UNCHANGED <<height, roots, anchors, altered, replaced, receipt, root, matched, faults>>
    BY <1>9 DEF VerifyRollup, Still, chainVars
  <2>2. VerifyingOK' /\ pc' \notin Building
    BY <2>1 DEF ReceiptInv, VerifyingOK, Building
  <2>3. AsBuilt => pc' # "invalid"
    BY <2>1 DEF AsBuilt
  <2> QED BY <1>0, <2>1, <2>2, <2>3, VerifyingKeeps DEF Building
<1>10. CASE VerifyBatch
  <2>1. /\ pc = "batch" /\ root' = roots[receipt.index]
        /\ pc' = IF BatchRootOK(roots[receipt.index]) THEN "anchors" ELSE "invalid"
        /\ UNCHANGED <<height, roots, anchors, altered, replaced, receipt, matched, faults>>
    BY <1>10 DEF VerifyBatch, Still, chainVars
  <2>2. VerifyingOK' /\ pc' \notin Building
    BY <2>1 DEF ReceiptInv, VerifyingOK, Building, PastBatch, BatchRootOK
  <2>3. AsBuilt /\ OnChain => pc' # "invalid"
    BY <2>1, ReceiptAssumption DEF AsBuilt, OnChain, BatchRootOK
  <2> QED BY <1>0, <2>1, <2>2, <2>3, VerifyingKeeps DEF Building
<1>11. CASE VerifyAnchors
  <2>1. /\ pc = "anchors" /\ PastBatch
        /\ UNCHANGED <<height, roots, anchors, altered, replaced, receipt, root, faults>>
    BY <1>11 DEF VerifyAnchors, Still, chainVars, ReceiptInv, VerifyingOK
  <2>2. \/ pc' = "invalid"
        \/ pc' = "key" /\ \E n \in Matching : FieldsAgree(anchors[n]) /\ matched' = anchors[n]
    BY <1>11 DEF VerifyAnchors, FirstOf
  <2>3. VerifyingOK'
    <3>1. CASE pc' = "invalid"
      BY <3>1 DEF VerifyingOK
    <3>2. CASE pc' = "key" /\ \E n \in Matching : FieldsAgree(anchors[n]) /\ matched' = anchors[n]
      <4>1. PICK n \in Matching : FieldsAgree(anchors[n]) /\ matched' = anchors[n]
        BY <3>2
      <4>2. n \in DOMAIN anchors /\ anchors[n] \in Anchors
        BY <4>1 DEF Matching, ReceiptInv, ChainOK
      <4>3. Agrees(anchors[n]) /\ Signed(anchors[n])
        BY <4>1, <4>2, AnchorFacts DEF Matching, FieldsAgree, Agrees
      <4>4. PastAnchors'
        BY <2>1, <4>1, <4>2, <4>3 DEF PastAnchors, PastBatch, Agrees, Signed, SignatureOver
      <4> QED BY <3>2, <4>4 DEF VerifyingOK
    <3> QED BY <2>2, <3>1, <3>2
  <2>4. OnChain => pc' # "invalid"
    <3> SUFFICES ASSUME OnChain, pc' = "invalid"
                 PROVE  FALSE
      OBVIOUS
    <3>1. PICK k \in DOMAIN anchors :
            /\ Agrees(anchors[k])
            /\ \A m \in 1 .. k - 1 : ~(/\ anchors[m].root = receipt.root
                                       /\ anchors[m].layerHeight = receipt.layerHeight)
      BY DEF OnChain
    <3>2. k \in Matching /\ FieldsAgree(anchors[k]) /\ k \in Nat
      BY <3>1 DEF Matching, Agrees, FieldsAgree, ReceiptInv, ChainOK
    <3>3. PICK n \in FirstOf(Matching) : ~FieldsAgree(anchors[n])
      BY <1>11, <3>2 DEF VerifyAnchors
    <3>4. n \in DOMAIN anchors /\ n \in Nat /\ n >= 1 /\ n <= k
      BY <3>2, <3>3 DEF FirstOf, Matching, ReceiptInv, ChainOK
    <3>5. n # k
      BY <3>2, <3>3
    <3>6. n \in 1 .. k - 1
      BY <3>2, <3>4, <3>5
    <3> QED BY <3>1, <3>3, <3>6 DEF FirstOf, Matching
  <2>5. pc' \notin Building
    BY <2>2 DEF Building
  <2> QED BY <1>0, <2>1, <2>3, <2>4, <2>5, VerifyingKeeps DEF Building
<1>12. CASE VerifySignature
  <2> DEFINE ok == /\ receipt.creator = "ours"
                   /\ receipt.chain \in {Absent, "ours"}
                   /\ Signed(matched)
  <2>1. /\ pc = "key" /\ pc' = IF ok THEN "valid" ELSE "invalid"
        /\ UNCHANGED <<height, roots, anchors, altered, replaced, receipt, root, matched, faults>>
    BY <1>12 DEF VerifySignature, Still, chainVars, Signed
  <2>2. PastAnchors /\ PastAnchors'
    BY <2>1 DEF ReceiptInv, VerifyingOK, PastAnchors, PastBatch, Agrees, Signed, SignatureOver
  <2>3. VerifyingOK' /\ pc' \notin Building
    BY <2>1, <2>2 DEF VerifyingOK, Building
  <2>4. AsBuilt => pc' # "invalid"
    BY <2>1, <2>2 DEF AsBuilt, PastAnchors
  <2> QED BY <1>0, <2>1, <2>3, <2>4, VerifyingKeeps DEF Building
<1>13. CASE UNCHANGED vars
  <2>1. UNCHANGED <<height, roots, anchors, pc, receipt, root, matched, altered, replaced, faults>>
    BY <1>13 DEF vars, chainVars
  <2>2. ChainOK' /\ BuildingOK' /\ faults' \in Nat
    BY <2>1 DEF ReceiptInv, ChainOK, BuildingOK
  <2>3. VerifyingOK'
    BY <2>1 DEF ReceiptInv, VerifyingOK, PastBatch, PastAnchors, Agrees, Signed, SignatureOver
  <2>4. HeldOK'
    BY <2>1 DEF ReceiptInv, HeldOK, AsBuilt, OnChain, Agrees
  <2> QED BY <2>2, <2>3, <2>4 DEF ReceiptInv
<1> QED BY <1>1, <1>2, <1>3, <1>4, <1>5, <1>6, <1>7, <1>8, <1>9, <1>10, <1>11, <1>12, <1>13
        DEF Next

\* The invariant holds of every receipt, from building to verification.
THEOREM ReceiptInvariant == Spec => []ReceiptInv
  BY ReceiptInit, ReceiptStep, PTL DEF Spec

\* A receipt is valid only if an anchor of the chain, signed by the rollup's
\* creator, and the batch that was read agree with it on all it states.
THEOREM ValidMeansOnChain == Spec => []ValidReproducesChain
<1>1. ReceiptInv => ValidReproducesChain
  BY DEF ReceiptInv, VerifyingOK, PastAnchors, PastBatch, Agrees, ValidReproducesChain
<1> QED BY <1>1, ReceiptInvariant, PTL

\* A receipt nobody changed verifies, on either side of the height the anchor
\* message changes at, unless a batch was resubmitted or a read fails.
THEOREM BuiltVerify == Spec => []BuiltReceiptsVerify
<1>1. ReceiptInv => BuiltReceiptsVerify
  BY DEF ReceiptInv, HeldOK, Building, BuiltReceiptsVerify
<1> QED BY <1>1, ReceiptInvariant, PTL

===============================================================================
