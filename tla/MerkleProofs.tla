----------------------------- MODULE MerkleProofs -----------------------------
(***************************************************************************)
(* A proof of a tree that pairs odd nodes with themselves verifies for the *)
(* leaf it was made for, for trees of every size over every set of leaves. *)
(***************************************************************************)
EXTENDS Merkle, WellFoundedInduction, TLAPS

\* Appending keeps a sequence, its elements and its length.
LEMMA AppendIsSeq ==
  ASSUME NEW s, IsSeq(s), NEW e
  PROVE  /\ IsSeq(Append(s, e))
         /\ Len(s) \in Nat
         /\ Len(Append(s, e)) = Len(s) + 1
         /\ \A i \in 1 .. Len(s) : Append(s, e)[i] = s[i]
         /\ Append(s, e)[Len(s) + 1] = e
<1> DEFINE S == {s[i] : i \in DOMAIN s} \cup {e}
           t == Append(s, e)
<1>1. s \in Seq(S)
  BY DEF IsSeq
<1>2. /\ t \in Seq(S) /\ Len(s) \in Nat /\ Len(t) = Len(s) + 1
      /\ \A i \in 1 .. Len(s) : t[i] = s[i]
      /\ t[Len(s) + 1] = e
  BY <1>1
<1>3. t \in Seq({t[i] : i \in DOMAIN t})
  BY <1>2
<1> QED
  BY <1>2, <1>3 DEF IsSeq

\* A function on 1 .. n is a sequence of length n.
LEMMA FunctionIsSeq ==
  ASSUME NEW f, NEW n \in Nat, DOMAIN f = 1 .. n, f = [i \in 1 .. n |-> f[i]]
  PROVE  IsSeq(f) /\ Len(f) = n
<1> DEFINE S == {f[i] : i \in DOMAIN f}
<1>1. f \in [1 .. n -> S]
  OBVIOUS
<1>2. f \in Seq(S)
  BY <1>1
<1> QED
  BY <1>2 DEF IsSeq

\* A position is twice its half and its parity.
LEMMA Halving ==
  ASSUME NEW i \in Nat
  PROVE  /\ Half(i) \in Nat /\ Parity(i) \in {0, 1}
         /\ i = 2 * Half(i) + Parity(i)
BY DEF Half, Parity

\* What the proof takes from a level of at least two nodes.
Sibling(s, i) == IF SiblingIdx(i) < Len(s) THEN Nth(s, SiblingIdx(i)) ELSE Nth(s, i)

\* One level up, the path is at half the position, and the node there is the
\* old one joined with what the proof takes.
LEMMA LevelUp ==
  ASSUME DuplicateOdd, NEW s, IsSeq(s), Len(s) > 1, NEW i \in 0 .. Len(s) - 1
  PROVE  /\ IsSeq(NextLevel(s))
         /\ Len(NextLevel(s)) \in 1 .. Len(s)
         /\ Half(i) \in 0 .. Len(NextLevel(s)) - 1
         /\ Nth(NextLevel(s), Half(i)) = Join(i, Nth(s, i), Sibling(s, i))
<1> DEFINE n == Len(s)
           up == NextLevel(s)
           h == Half(i)
<1>1. n \in Nat
  BY DEF IsSeq
<1>2. /\ Half(n + 1) \in Nat /\ Parity(n + 1) \in {0, 1}
      /\ n + 1 = 2 * Half(n + 1) + Parity(n + 1)
  <2>1. n + 1 \in Nat
    BY <1>1
  <2> HIDE DEF n
  <2> QED
    BY <2>1, Halving, Zenon
<1>3. h \in Nat /\ Parity(i) \in {0, 1} /\ i = 2 * h + Parity(i)
  <2>1. i \in Nat
    BY <1>1
  <2> QED
    BY <2>1, Halving, Zenon
<1>4. IsSeq(up) /\ Len(up) = Half(n + 1)
  <2>1. DOMAIN up = 1 .. Half(n + 1) /\ up = [j \in 1 .. Half(n + 1) |-> up[j]]
    BY DEF NextLevel
  <2> HIDE DEF up
  <2> QED
    BY <1>2, <2>1, FunctionIsSeq
<1>5. Half(n + 1) \in 1 .. n /\ h \in 0 .. Half(n + 1) - 1
  <2> HIDE DEF h
  <2> QED
    BY <1>1, <1>2, <1>3
<1>6. up[h + 1] = IF 2 * (h + 1) <= n THEN Hash(s[2 * (h + 1) - 1], s[2 * (h + 1)])
                  ELSE Hash(s[2 * (h + 1) - 1], s[2 * (h + 1) - 1])
  <2> HIDE DEF h
  <2>1. h + 1 \in 1 .. Half(n + 1)
    BY <1>2, <1>3, <1>5
  <2> QED
    BY <2>1 DEF NextLevel
<1>7. CASE Parity(i) = 1
  <2>1. SiblingIdx(i) = i - 1 /\ i - 1 < n /\ 2 * (h + 1) - 1 = i /\ 2 * (h + 1) = i + 1 /\ i + 1 <= n
    <3> HIDE DEF h
    <3> QED
      BY <1>1, <1>3, <1>7 DEF SiblingIdx
  <2> HIDE DEF h, up
  <2>2. Sibling(s, i) = s[i] /\ Nth(s, i) = s[i + 1]
    <3>1. Sibling(s, i) = Nth(s, i - 1)
      BY <2>1 DEF Sibling
    <3>2. i - 1 + 1 = i
      BY <1>1
    <3> QED
      BY <3>1, <3>2 DEF Nth
  <2>3. up[h + 1] = Hash(s[i], s[i + 1])
    BY <1>6, <2>1
  <2>4. Join(i, Nth(s, i), Sibling(s, i)) = Hash(s[i], s[i + 1])
    BY <1>7, <2>2 DEF Join
  <2> QED
    BY <1>4, <1>5, <2>3, <2>4 DEF Nth, h, up
<1>8. CASE Parity(i) = 0
  <2>1. SiblingIdx(i) = i + 1 /\ 2 * (h + 1) - 1 = i + 1 /\ 2 * (h + 1) = i + 2
        /\ (i + 1 < n <=> 2 * (h + 1) <= n)
    <3> HIDE DEF h
    <3> QED
      BY <1>1, <1>3, <1>8 DEF SiblingIdx
  <2> HIDE DEF h, up
  <2>2. Nth(s, i) = s[i + 1] /\ Nth(s, i + 1) = s[i + 2]
    <3>1. i + 1 + 1 = i + 2
      BY <1>1
    <3> QED
      BY <3>1 DEF Nth
  <2>3. Join(i, Nth(s, i), Sibling(s, i)) = Hash(s[i + 1], Sibling(s, i))
    BY <1>8, <2>2 DEF Join
  <2>4. up[h + 1] = Hash(s[i + 1], Sibling(s, i))
    <3>1. CASE i + 1 < n
      BY <1>6, <2>1, <2>2, <3>1 DEF Sibling
    <3>2. CASE ~(i + 1 < n)
      BY <1>6, <2>1, <2>2, <3>2 DEF Sibling
    <3> QED
      BY <3>1, <3>2
  <2> QED
    BY <1>4, <1>5, <2>3, <2>4 DEF Nth, h, up
<1> QED
  BY <1>3, <1>7, <1>8

\* The invariant holds of a proof that has not begun to climb.
LEMMA MerkleStarts == ASSUME DuplicateOdd, MerkleInit PROVE MerkleInv
<1>1. PICK n \in 1 .. MaxLeaves : leaves \in [1 .. n -> Leaf]
  BY DEF MerkleInit, Trees
<1>2. leaves \in Seq(Leaf) /\ Len(leaves) = n /\ n \in Nat
  BY <1>1, MerkleAssumption
<1>3. IsSeq(level) /\ Len(level) = n
  <2>1. DOMAIN level = 1 .. n /\ level = [j \in 1 .. n |-> level[j]]
    BY <1>2 DEF MerkleInit
  <2> QED
    BY <1>2, <2>1, FunctionIsSeq
<1>4. level[idx + 1] = LeafNode(leaves[leafIndex + 1])
  <2>1. idx = leafIndex /\ leafIndex \in 0 .. n - 1 /\ level = [j \in 1 .. n |-> LeafNode(leaves[j])]
    BY <1>2 DEF MerkleInit
  <2> QED
    BY <1>2, <2>1
<1>5. IsSeq(siblings) /\ IsSeq(trail) /\ IsSeq(steps) /\ Len(siblings) = 0
      /\ Len(trail) = 1 /\ Len(steps) = 1 /\ trail[1] = LeafNode(Nth(leaves, leafIndex)) /\ steps[1] = leafIndex
  BY DEF MerkleInit, IsSeq
<1>6. MerkleTypeOK
  <2>1. leafIndex \in 0 .. n - 1 /\ claimed \in 0 .. n - 1 /\ idx = leafIndex /\ phase = "prove"
        /\ at = 0 /\ verified = FALSE
    BY <1>2 DEF MerkleInit
  <2>2. n \in 1 .. MaxLeaves /\ Len(leaves) = n /\ Len(level) = n /\ Len(siblings) = 0 /\ n \in Nat
    BY <1>1, <1>2, <1>3, <1>5
  <2>3. phase \in {"prove", "verify", "done"} /\ verified \in BOOLEAN
    BY <2>1
  <2>4. Len(leaves) \in 1 .. MaxLeaves /\ Len(level) \in 1 .. Len(leaves)
    BY <2>2
  <2>5. leafIndex \in 0 .. Len(leaves) - 1 /\ claimed \in 0 .. Len(leaves) - 1
        /\ idx \in 0 .. Len(level) - 1 /\ at \in 0 .. Len(siblings)
    BY <2>1, <2>2
  <2> QED
    BY <2>3, <2>4, <2>5 DEF MerkleTypeOK
<1>7. PathInv
  BY <1>3, <1>4, <1>5 DEF MerkleInit, PathInv, Nth
<1>8. ClimbInv
  BY DEF MerkleInit, ClimbInv
<1> QED
  BY <1>6, <1>7, <1>8 DEF MerkleInv

\* A step up the tree, in the proof or in its verification, keeps it.
LEMMA MerkleStep == ASSUME DuplicateOdd, MerkleInv, [MerkleNext]_merkleVars PROVE MerkleInv'
<1> USE DEF MerkleInv
<1>0. Len(leaves) \in Nat /\ Len(level) \in Nat /\ Len(siblings) \in Nat /\ leafIndex \in Nat
  <2>1. Len(level) \in Nat /\ Len(siblings) \in Nat
    BY DEF PathInv, IsSeq
  <2>2. Len(leaves) \in 1 .. MaxLeaves /\ leafIndex \in 0 .. Len(leaves) - 1
    BY DEF MerkleTypeOK
  <2> QED
    BY <2>1, <2>2, MerkleAssumption
<1>1. CASE Climb
  <2> DEFINE e == Sibling(level, idx)
  <2>1. /\ IsSeq(level') /\ Len(level') \in 1 .. Len(level)
        /\ idx' \in 0 .. Len(level') - 1
        /\ Nth(level', idx') = Join(idx, Nth(level, idx), e)
    BY <1>1, LevelUp DEF Climb, MerkleTypeOK, PathInv
  <2>2. siblings' = Append(siblings, e)
    BY <1>1 DEF Climb, Extended, Sibling
  <2> HIDE DEF e
  <2>3. /\ IsSeq(siblings') /\ Len(siblings') = Len(siblings) + 1
        /\ \A i \in 1 .. Len(siblings) : siblings'[i] = siblings[i]
        /\ siblings'[Len(siblings) + 1] = e
    BY <2>2, AppendIsSeq DEF PathInv
  <2>4. /\ IsSeq(trail') /\ Len(trail') = Len(trail) + 1
        /\ \A i \in 1 .. Len(trail) : trail'[i] = trail[i]
        /\ trail'[Len(trail) + 1] = Nth(level', idx')
    BY <1>1, AppendIsSeq DEF Climb, PathInv
  <2>5. /\ IsSeq(steps') /\ Len(steps') = Len(steps) + 1
        /\ \A i \in 1 .. Len(steps) : steps'[i] = steps[i]
        /\ steps'[Len(steps) + 1] = idx'
    BY <1>1, AppendIsSeq DEF Climb, PathInv
  <2>6. UNCHANGED <<phase, root, leaves, leafIndex, claim, claimed, node, at, place, verified>>
        /\ idx' = Half(idx) /\ phase = "prove"
    BY <1>1 DEF Climb, inputVars, verifyingVars
  <2>7. MerkleTypeOK'
    BY <1>0, <2>1, <2>3, <2>6 DEF MerkleTypeOK
  <2>8. \A n \in 1 .. Len(siblings') :
          /\ steps'[n + 1] = Half(steps'[n])
          /\ trail'[n + 1] = Join(steps'[n], trail'[n], siblings'[n])
    <3> SUFFICES ASSUME NEW n \in 1 .. Len(siblings')
                 PROVE  /\ steps'[n + 1] = Half(steps'[n])
                        /\ trail'[n + 1] = Join(steps'[n], trail'[n], siblings'[n])
      OBVIOUS
    <3>1. CASE n = Len(siblings) + 1
      <4>1. n = Len(trail) /\ n = Len(steps) /\ n \in 1 .. Len(trail)
        BY <1>0, <3>1 DEF PathInv
      <4>2. steps'[n] = idx /\ trail'[n] = Nth(level, idx) /\ siblings'[n] = e
        BY <2>3, <2>4, <2>5, <3>1, <4>1 DEF PathInv
      <4> QED
        BY <2>1, <2>4, <2>5, <2>6, <4>1, <4>2
    <3>2. CASE n \in 1 .. Len(siblings)
      <4>1. n \in 1 .. Len(trail) /\ n + 1 \in 1 .. Len(trail) /\ n \in 1 .. Len(steps)
            /\ n + 1 \in 1 .. Len(steps)
        BY <1>0, <3>2 DEF PathInv
      <4> QED
        BY <2>3, <2>4, <2>5, <3>2, <4>1 DEF PathInv
    <3> QED
      BY <1>0, <2>3, <3>1, <3>2
  <2>9. PathInv'
    <3>1. 1 \in 1 .. Len(trail) /\ 1 \in 1 .. Len(steps)
      BY <1>0 DEF PathInv
    <3>2. Nth(leaves, leafIndex)' = Nth(leaves, leafIndex)
      BY <2>6 DEF Nth
    <3>3. LeafNode(Nth(leaves, leafIndex))' = LeafNode(Nth(leaves, leafIndex))
      BY <3>2 DEF LeafNode
    <3> QED
      BY <1>0, <2>1, <2>3, <2>4, <2>5, <2>6, <2>8, <3>1, <3>3 DEF PathInv
  <2>10. ClimbInv'
    BY <2>6 DEF ClimbInv
  <2> QED
    BY <2>7, <2>9, <2>10
<1>2. CASE Rooted
  <2>1. PathInv'
    BY <1>2 DEF Rooted, PathInv, inputVars, Nth, LeafNode
  <2>2. MerkleTypeOK'
    <3>1. UNCHANGED <<leaves, leafIndex, claimed, level, idx, siblings, verified>>
          /\ phase' = "verify" /\ at' = 0
      BY <1>2 DEF Rooted, inputVars
    <3> QED
      BY <1>0, <3>1 DEF MerkleTypeOK
  <2>3. ClimbInv'
    <3>1. idx = 0
      BY <1>0, <1>2 DEF Rooted, MerkleTypeOK
    <3>2. root' = trail[Len(trail)]
      BY <1>2, <3>1 DEF Rooted, PathInv
    <3> QED
      BY <1>2, <3>2 DEF Rooted, ClimbInv, PathInv, inputVars, Nth, LeafNode
  <2> QED
    BY <2>1, <2>2, <2>3
<1>3. CASE VerifyStep
  <2>0. UNCHANGED <<phase, verified, leaves, leafIndex, claim, claimed, level, idx, siblings, trail, steps, root>>
    BY <1>3 DEF VerifyStep, inputVars, provingVars
  <2>1. PathInv'
    BY <2>0 DEF PathInv, Nth, LeafNode
  <2>2. MerkleTypeOK'
    BY <1>0, <1>3, <2>0 DEF VerifyStep, MerkleTypeOK
  <2>3. ClimbInv'
    <3> SUFFICES ASSUME claimed = leafIndex, claim = Nth(leaves, leafIndex)
                 PROVE  node' = trail[at' + 1] /\ place' = steps[at' + 1]
      BY <1>3, <2>0 DEF VerifyStep, ClimbInv, Nth
    <3>1. at + 1 \in 1 .. Len(siblings) /\ at' = at + 1
      BY <1>0, <1>3 DEF VerifyStep, MerkleTypeOK
    <3>2. node = trail[at + 1] /\ place = steps[at + 1]
      BY <1>3 DEF VerifyStep, ClimbInv
    <3>3. /\ steps[at + 1 + 1] = Half(place)
          /\ trail[at + 1 + 1] = Join(place, node, siblings[at + 1])
      BY <3>1, <3>2 DEF PathInv
    <3> QED
      BY <1>3, <3>1, <3>3 DEF VerifyStep, Nth
  <2> QED
    BY <2>1, <2>2, <2>3
<1>4. CASE Decide
  <2>0. UNCHANGED <<node, at, place, leaves, leafIndex, claim, claimed, level, idx, siblings, trail, steps, root>>
    BY <1>4 DEF Decide, inputVars, provingVars
  <2>1. PathInv'
    BY <2>0 DEF PathInv, Nth, LeafNode
  <2>2. MerkleTypeOK'
    BY <1>4, <2>0 DEF Decide, MerkleTypeOK, SameBytes
  <2>3. ClimbInv'
    BY <1>4, <2>0 DEF Decide, ClimbInv, Nth, SameBytes
  <2> QED
    BY <2>1, <2>2, <2>3
<1>5. CASE UNCHANGED merkleVars
  BY <1>5 DEF merkleVars, inputVars, provingVars, verifyingVars, MerkleTypeOK, PathInv, ClimbInv, Nth, LeafNode
<1> QED
  BY <1>1, <1>2, <1>3, <1>4, <1>5 DEF MerkleNext

\* The invariant gives the property: at the end of the path is the root.
LEMMA MerkleInvSuffices == ASSUME MerkleInv PROVE HonestProofVerifies
<1>1. Len(siblings) \in Nat
  BY DEF MerkleInv, PathInv, IsSeq
<1> QED
  BY <1>1 DEF MerkleInv, ClimbInv, PathInv, HonestProofVerifies

(***************************************************************************)
(* binaryMerkleProof and verifyBinaryMerkleProof agree on the chain's tree *)
(* (an odd last node paired with itself): the proof made for a leaf        *)
(* verifies for it, for every number of leaves and with or without the     *)
(* hashing of leaves.                                                      *)
(***************************************************************************)
THEOREM HonestProofs == ASSUME DuplicateOdd PROVE MerkleSpec => []HonestProofVerifies
<1>1. MerkleInit => MerkleInv
  BY MerkleStarts
<1>2. MerkleInv /\ [MerkleNext]_merkleVars => MerkleInv'
  BY MerkleStep
<1>3. MerkleInv => HonestProofVerifies
  BY MerkleInvSuffices
<1> QED
  BY <1>1, <1>2, <1>3, PTL DEF MerkleSpec

(***************************************************************************)
(* A proof binds its leaf.                                                 *)
(***************************************************************************)

\* The hash is free: parents that agree have the same node on the same side.
LEMMA SameSide ==
  ASSUME NEW i, NEW m, NEW n, NEW s, NEW t, Join(i, m, s) = Join(i, n, t)
  PROVE  m = n
BY DEF Join, Hash

\* Parents over one sibling have the same node, whatever its side.
LEMMA SameSibling ==
  ASSUME NEW i, NEW j, NEW m, NEW n, NEW s, Join(i, m, s) = Join(j, n, s)
  PROVE  m = n
BY DEF Join, Hash

\* Leaves are told apart by their nodes.
LEMMA LeafInjective ==
  ASSUME NEW l, NEW m, LeafNode(l) = LeafNode(m)
  PROVE  l = m
BY DEF LeafNode

\* The invariant holds of a proof that has not begun to climb.
LEMMA BindInit == ASSUME MerkleInit, MerkleInv PROVE ReachInv
<1>1. PICK n \in 1 .. MaxLeaves : leaves \in [1 .. n -> Leaf]
  BY DEF MerkleInit, Trees
<1>2. leaves \in Seq(Leaf) /\ Len(leaves) = n /\ n \in Nat
  BY <1>1, MerkleAssumption
<1>3. /\ level = [j \in 1 .. n |-> LeafNode(leaves[j])] /\ claimed \in 0 .. n - 1
      /\ siblings = <<>> /\ reach = <<claimed>> /\ steps = <<leafIndex>> /\ phase = "prove"
      /\ trail = <<LeafNode(Nth(leaves, leafIndex))>>
  BY <1>2 DEF MerkleInit
<1>4. Len(level) = n
  BY <1>2, <1>3
<1>5. /\ IsSeq(reach) /\ Len(reach) = 1 /\ Len(steps) = 1 /\ Len(siblings) = 0
      /\ Len(trail) = 1 /\ reach[1] = claimed /\ trail[1] = LeafNode(Nth(leaves, leafIndex))
  BY <1>3 DEF IsSeq
<1>6. Nth(level, claimed) = LeafNode(Nth(leaves, claimed))
  BY <1>2, <1>3 DEF Nth
<1>7. Nth(level, reach[Len(reach)]) = trail[Len(trail)] =>
        Nth(leaves, claimed) = Nth(leaves, leafIndex)
  BY <1>5, <1>6, LeafInjective
<1> QED
  BY <1>2, <1>3, <1>4, <1>5, <1>7 DEF ReachInv

\* A level up, two paths that meet and are shared below met already.
LEMMA BindClimb ==
  ASSUME DuplicateOdd, MerkleInv, MerkleInv', ReachInv, Climb
  PROVE  ReachInv'
<1> DEFINE n == Len(siblings) + 1
           r == reach[Len(reach)]
           e == Sibling(level, idx)
<1>1. /\ Len(siblings) \in Nat /\ Len(steps) = n /\ Len(trail) = n /\ Len(reach) = n
      /\ IsSeq(siblings) /\ IsSeq(trail) /\ IsSeq(level) /\ IsSeq(reach)
  BY DEF MerkleInv, PathInv, ReachInv, IsSeq
<1>2. /\ r \in 0 .. Len(level) - 1 /\ Len(level) > 1 /\ phase = "prove"
      /\ level' = NextLevel(level) /\ reach' = Append(reach, Half(r))
      /\ UNCHANGED <<phase, leaves, leafIndex, claim, claimed>>
  BY DEF ReachInv, Climb, inputVars
<1>3. siblings' = Append(siblings, e) /\ trail' = Append(trail, Nth(level', idx'))
  BY DEF Climb, Extended, Sibling
<1> HIDE DEF e
<1>4. /\ Len(siblings') = Len(siblings) + 1 /\ siblings'[n] = e
      /\ \A m \in 1 .. Len(siblings) : siblings'[m] = siblings[m]
  BY <1>1, <1>3, AppendIsSeq
<1>5. /\ Len(trail') = Len(trail) + 1
      /\ \A m \in 1 .. Len(trail) : trail'[m] = trail[m]
  BY <1>1, <1>3, AppendIsSeq
<1> HIDE DEF r
<1>6. /\ IsSeq(reach') /\ Len(reach') = Len(reach) + 1 /\ reach'[Len(reach) + 1] = Half(r)
      /\ \A m \in 1 .. Len(reach) : reach'[m] = reach[m]
  BY <1>1, <1>2, AppendIsSeq
<1>7. /\ Half(r) \in 0 .. Len(level') - 1
      /\ Nth(level', Half(r)) = Join(r, Nth(level, r), Sibling(level, r))
  BY <1>1, <1>2, LevelUp
<1>8. Len(steps') = Len(trail')
  BY DEF MerkleInv, PathInv
<1>9. r = reach[n]
  BY <1>1 DEF r
<1> HIDE DEF n
<1>10. n \in Nat /\ n = Len(siblings) + 1 /\ n \in 1 .. Len(reach) /\ 1 \in 1 .. Len(reach)
  BY <1>1 DEF n
<1>11. \A m \in 1 .. Len(siblings') : reach'[m + 1] = Half(reach'[m])
  <2> SUFFICES ASSUME NEW m \in 1 .. Len(siblings') PROVE reach'[m + 1] = Half(reach'[m])
    OBVIOUS
  <2>1. CASE m = n
    BY <1>1, <1>6, <1>9, <1>10, <2>1
  <2>2. CASE m \in 1 .. Len(siblings)
    <3>1. m \in 1 .. Len(reach) /\ m + 1 \in 1 .. Len(reach)
      BY <1>1, <1>10, <2>2
    <3> QED BY <1>6, <2>2, <3>1 DEF ReachInv
  <2> QED BY <1>1, <1>4, <1>10, <2>1, <2>2
<1>12. ASSUME Shared(Len(siblings))', Nth(level', reach'[Len(reach')]) = trail'[Len(trail')]
       PROVE  Nth(leaves, claimed) = Nth(leaves, leafIndex)
  <2>1. \A m \in 1 .. n : Join(reach[m], trail[m], siblings'[m]) = trail'[m + 1]
    <3> SUFFICES ASSUME NEW m \in 1 .. n
                 PROVE  Join(reach[m], trail[m], siblings'[m]) = trail'[m + 1]
      OBVIOUS
    <3>1. m \in 1 .. Len(siblings') /\ m \in 1 .. Len(reach) /\ m \in 1 .. Len(trail)
      BY <1>1, <1>4, <1>10
    <3>2. Join(reach'[m], trail'[m], siblings'[m]) = trail'[m + 1]
      BY <1>12, <3>1 DEF Shared
    <3> QED BY <1>5, <1>6, <3>1, <3>2
  <2>2. Join(r, trail[n], e) = trail'[n + 1]
    BY <1>4, <1>9, <1>10, <2>1
  <2>3. Join(r, Nth(level, r), Sibling(level, r)) = trail'[n + 1]
    <3>1. Len(reach) = n /\ Len(trail) = n /\ Len(reach') = n + 1 /\ Len(trail') = n + 1
      BY <1>1, <1>5, <1>6, <1>10
    <3>2. reach'[n + 1] = Half(r)
      BY <1>6, <3>1
    <3> QED BY <1>7, <1>12, <3>1, <3>2
  <2>4. Nth(level, r) = trail[n]
    BY <2>2, <2>3, SameSide
  <2>5. Shared(Len(siblings))
    <3> SUFFICES ASSUME NEW m \in 1 .. Len(siblings)
                 PROVE  Join(reach[m], trail[m], siblings[m]) = trail[m + 1]
      BY DEF Shared
    <3>1. m \in 1 .. n /\ m + 1 \in 1 .. Len(trail)
      BY <1>1, <1>10
    <3> QED BY <1>4, <1>5, <2>1, <3>1
  <2> QED BY <1>1, <1>9, <1>10, <2>4, <2>5 DEF ReachInv
<1>13. /\ Len(reach') = Len(steps') /\ reach'[1] = claimed'
       /\ reach'[Len(reach')] \in 0 .. Len(level') - 1
  BY <1>1, <1>2, <1>5, <1>6, <1>7, <1>8, <1>10 DEF ReachInv
<1>14. Nth(leaves, claimed)' = Nth(leaves, claimed) /\ Nth(leaves, leafIndex)' = Nth(leaves, leafIndex)
  BY <1>2 DEF Nth
<1>15. Nth(level, reach[Len(reach)])' = Nth(level', reach'[Len(reach')])
  BY DEF Nth
<1> QED BY <1>2, <1>6, <1>11, <1>12, <1>13, <1>14, <1>15 DEF ReachInv

\* A verification that comes to a node of the path was on it, and the
\* sibling it took gives the same parent on its side.
LEMMA BindVerify ==
  ASSUME MerkleInv, ReachInv, VerifyStep
  PROVE  ReachInv'
<1>1. /\ UNCHANGED <<phase, leaves, leafIndex, claim, claimed, level, siblings, trail, steps, reach>>
      /\ phase = "verify" /\ at < Len(siblings) /\ at' = at + 1 /\ place' = Half(place)
      /\ node' = Join(place, node, siblings[at + 1])
  BY DEF VerifyStep, inputVars, provingVars, Nth
<1>2. Len(siblings) \in Nat /\ at \in Nat
  BY DEF MerkleInv, PathInv, IsSeq, MerkleTypeOK
<1>3. at + 1 \in 1 .. Len(siblings)
  BY <1>1, <1>2
<1>4. place = reach[at + 1] /\ Half(reach[at + 1]) = reach[at + 1 + 1]
  BY <1>1, <1>3 DEF ReachInv
<1>5. \A m : Shared(m)' <=> Shared(m)
  BY <1>1 DEF Shared
<1>6. ASSUME node' = trail[at + 1 + 1]
      PROVE  Shared(at + 1) /\ claim = Nth(leaves, leafIndex)
  <2>1. trail[at + 1 + 1] = Join(steps[at + 1], trail[at + 1], siblings[at + 1])
    BY <1>3 DEF MerkleInv, PathInv
  <2>2. node = trail[at + 1]
    <3>1. Join(place, node, siblings[at + 1]) = Join(steps[at + 1], trail[at + 1], siblings[at + 1])
      BY <1>1, <1>6, <2>1
    <3> QED BY <3>1, SameSibling
  <2>3. Shared(at) /\ claim = Nth(leaves, leafIndex)
    BY <1>1, <2>2 DEF ReachInv
  <2>4. Join(reach[at + 1], trail[at + 1], siblings[at + 1]) = trail[at + 1 + 1]
    BY <1>1, <1>4, <1>6, <2>2
  <2>5. Shared(at + 1)
    <3>1. \A m \in 1 .. at + 1 : m \in 1 .. at \/ m = at + 1
      BY <1>2
    <3> QED BY <2>3, <2>4, <3>1 DEF Shared
  <2> QED BY <2>3, <2>5
<1> QED BY <1>1, <1>4, <1>5, <1>6 DEF ReachInv, Nth

(***************************************************************************)
(* verifyBinaryMerkleProof accepts no leaf at an index where the tree has  *)
(* another one, given the siblings of any of its leaves and the chain's    *)
(* tree (an odd last node paired with itself), as far as the hash tells    *)
(* its arguments apart.                                                    *)
(***************************************************************************)
THEOREM ProofsBind == ASSUME DuplicateOdd PROVE MerkleSpec => []ProofBindsLeaf
<1>1. MerkleInit => MerkleInv /\ ReachInv
  BY MerkleStarts, BindInit
<1>2. MerkleInv /\ ReachInv /\ [MerkleNext]_merkleVars => (MerkleInv /\ ReachInv)'
  <2> SUFFICES ASSUME MerkleInv, ReachInv, [MerkleNext]_merkleVars PROVE MerkleInv' /\ ReachInv'
    OBVIOUS
  <2>0. MerkleInv'
    BY MerkleStep
  <2>1. CASE Climb
    BY <2>0, <2>1, BindClimb
  <2>2. CASE VerifyStep
    BY <2>0, <2>2, BindVerify
  <2>3. CASE Rooted
    <3>1. /\ UNCHANGED <<leaves, leafIndex, claim, claimed, level, siblings, trail, steps, reach>>
          /\ phase' = "verify" /\ Len(level) = 1 /\ at' = 0 /\ place' = claimed
          /\ node' = LeafNode(claim)
      BY <2>3 DEF Rooted, inputVars
    <3>2. Shared(0)
      BY DEF Shared
    <3>3. node' = trail[1] => claim = Nth(leaves, leafIndex)
      BY <3>1, LeafInjective DEF MerkleInv, PathInv
    <3>4. ReachInv'
      BY <3>1, <3>2, <3>3 DEF ReachInv, Shared, Nth
    <3> QED BY <2>0, <3>4
  <2>4. CASE Decide
    <3>1. /\ UNCHANGED <<leaves, leafIndex, claim, claimed, level, siblings, trail, steps, reach, node, at>>
          /\ phase' = "done" /\ phase = "verify"
      BY <2>4 DEF Decide, inputVars, provingVars
    <3> QED BY <2>0, <3>1 DEF ReachInv, Shared, Nth
  <2>5. CASE UNCHANGED merkleVars
    BY <2>0, <2>5 DEF merkleVars, inputVars, provingVars, verifyingVars, ReachInv, Shared, Nth
  <2> QED BY <2>1, <2>2, <2>3, <2>4, <2>5 DEF MerkleNext
<1>3. MerkleInv /\ ReachInv => ProofBindsLeaf
  <2> SUFFICES ASSUME MerkleInv, ReachInv, phase = "done", verified
               PROVE  claim = Nth(leaves, claimed)
    BY DEF ProofBindsLeaf
  <2>1. Len(siblings) \in Nat /\ Len(trail) = Len(siblings) + 1 /\ Len(reach) = Len(trail)
    BY DEF MerkleInv, PathInv, ReachInv, IsSeq
  <2>2. node = trail[Len(trail)] /\ at = Len(siblings)
    BY DEF MerkleInv, ClimbInv
  <2>3. Shared(Len(siblings)) /\ claim = Nth(leaves, leafIndex) /\ Len(level) = 1
    BY <2>1, <2>2 DEF ReachInv
  <2>4. reach[Len(reach)] = 0 /\ idx = 0
    BY <2>3 DEF ReachInv, MerkleInv, MerkleTypeOK
  <2>5. Nth(level, reach[Len(reach)]) = trail[Len(trail)]
    BY <2>4 DEF MerkleInv, PathInv
  <2> QED BY <2>3, <2>5 DEF ReachInv
<1> QED
  BY <1>1, <1>2, <1>3, PTL DEF MerkleSpec

(***************************************************************************)
(* The root is that of the reference tree.                                 *)
(***************************************************************************)

\* A set of numbers that is not empty has a least one.
LEMMA Least ==
  ASSUME NEW S, S \subseteq Nat, S # {}
  PROVE  \E m \in S : \A j \in S : m <= j
<1> DEFINE R == OpToRel(<, Nat)
<1>1. IsWellFoundedOn(R, Nat)
  BY NatLessThanWellFounded
<1>2. \A a, b \in Nat : <<a, b>> \in R <=> a < b
  BY DEF OpToRel
<1> HIDE DEF R
<1>3. PICK x \in S : \A y \in S : ~(<<y, x>> \in R)
  BY <1>1, WFMin, Zenon
<1>4. ASSUME NEW y \in S PROVE x <= y
  <2>1. ~(y < x)
    BY <1>2, <1>3
  <2> QED BY <2>1
<1> QED BY <1>4

\* Induction, for a set of numbers.
LEMMA Induction ==
  ASSUME NEW P, 0 \in P, \A k \in Nat : k \in P => k + 1 \in P
  PROVE  \A k \in Nat : k \in P
<1> DEFINE S == Nat \ P
<1> SUFFICES ASSUME S # {} PROVE FALSE
  OBVIOUS
<1>1. PICK m \in S : \A j \in S : m <= j
  BY Least
<1>2. m \in Nat /\ m # 0 /\ m \notin P
  OBVIOUS
<1>3. m - 1 \in Nat /\ m - 1 \notin S
  BY <1>1, <1>2
<1>4. m - 1 + 1 \in P
  BY <1>3
<1> QED BY <1>2, <1>4

\* The widths of the levels satisfy their recursion: a function that does so
\* up to a depth extends to the next one.
LEMMA WidthsEquation ==
  ASSUME NEW n
  PROVE  Widths(n) = [l \in Depths |-> IF l = 0 THEN n ELSE Half(Widths(n)[l - 1] + 1)]
<1> DEFINE Good(f, k) == f = [l \in 0 .. k |-> IF l = 0 THEN n ELSE Half(f[l - 1] + 1)]
           P == {k \in Nat : \E f : Good(f, k)}
<1>1. 0 \in P
  <2>1. Good([l \in 0 .. 0 |-> n], 0)
    OBVIOUS
  <2> QED BY <2>1
<1>2. ASSUME NEW k \in Nat, k \in P PROVE k + 1 \in P
  <2>1. PICK f : Good(f, k)
    BY <1>2
  <2> DEFINE g == [l \in 0 .. k + 1 |-> IF l = k + 1 THEN Half(f[k] + 1) ELSE f[l]]
  <2>2. ASSUME NEW l \in 0 .. k + 1
        PROVE  g[l] = IF l = 0 THEN n ELSE Half(g[l - 1] + 1)
    <3>1. CASE l = k + 1
      BY <3>1
    <3>2. CASE l # k + 1
      <4>1. l \in 0 .. k /\ g[l] = f[l] /\ (l # 0 => g[l - 1] = f[l - 1])
        BY <3>2
      <4>2. f[l] = IF l = 0 THEN n ELSE Half(f[l - 1] + 1)
        BY <2>1, <4>1
      <4> QED BY <4>1, <4>2
    <3> QED BY <3>1, <3>2
  <2>3. Good(g, k + 1)
    BY <2>2
  <2>4. k + 1 \in Nat
    OBVIOUS
  <2> HIDE DEF g
  <2> QED BY <2>3, <2>4, Zenon
<1>3. MaxLeaves \in P
  <2> HIDE DEF P
  <2> QED BY <1>1, <1>2, Induction, MerkleAssumption
<1>4. PICK w : w = [l \in Depths |-> IF l = 0 THEN n ELSE Half(w[l - 1] + 1)]
  BY <1>3 DEF Depths
<1> QED BY <1>4, Zenon DEF Widths

\* The reference tree satisfies its recursion, by the same argument.
LEMMA RefTreeEquation ==
  ASSUME NEW tree
  PROVE  RefTree(tree) =
           [l \in Depths |->
              IF l = 0 THEN [i \in 0 .. Len(tree) - 1 |-> LeafNode(Nth(tree, i))]
              ELSE Over(RefTree(tree)[l - 1], Widths(Len(tree))[l - 1])]
<1> DEFINE n == Len(tree)
           base == [i \in 0 .. n - 1 |-> LeafNode(Nth(tree, i))]
           Good(f, k) == f = [l \in 0 .. k |-> IF l = 0 THEN base
                                               ELSE Over(f[l - 1], Widths(n)[l - 1])]
           P == {k \in Nat : \E f : Good(f, k)}
<1>1. \E r : r = [l \in Depths |-> IF l = 0 THEN base ELSE Over(r[l - 1], Widths(n)[l - 1])]
  <2> HIDE DEF n, base
  <2>1. 0 \in P
    <3>1. Good([l \in 0 .. 0 |-> base], 0)
      OBVIOUS
    <3> QED BY <3>1
  <2>2. ASSUME NEW k \in Nat, k \in P PROVE k + 1 \in P
    <3>1. PICK f : Good(f, k)
      BY <2>2
    <3> DEFINE g == [l \in 0 .. k + 1 |-> IF l = k + 1 THEN Over(f[k], Widths(n)[k]) ELSE f[l]]
    <3>2. ASSUME NEW l \in 0 .. k + 1
          PROVE  g[l] = IF l = 0 THEN base ELSE Over(g[l - 1], Widths(n)[l - 1])
      <4>1. CASE l = k + 1
        BY <4>1
      <4>2. CASE l # k + 1
        <5>1. l \in 0 .. k /\ g[l] = f[l] /\ (l # 0 => g[l - 1] = f[l - 1])
          BY <4>2
        <5>2. f[l] = IF l = 0 THEN base ELSE Over(f[l - 1], Widths(n)[l - 1])
          BY <3>1, <5>1
        <5> QED BY <5>1, <5>2
      <4> QED BY <4>1, <4>2
    <3>3. Good(g, k + 1)
      BY <3>2
    <3>4. k + 1 \in Nat
      OBVIOUS
    <3> HIDE DEF g
    <3> QED BY <3>3, <3>4, Zenon
  <2>3. MaxLeaves \in P
    <3> HIDE DEF P
    <3> QED BY <2>1, <2>2, Induction, MerkleAssumption
  <2> QED BY <2>3 DEF Depths
<1> QED BY <1>1, Zenon DEF RefTree

\* One level up in the reference tree.
LEMMA RefTreeUp ==
  ASSUME NEW tree, NEW k \in Nat, k + 1 \in Depths
  PROVE  /\ Widths(Len(tree))[k + 1] = Half(Widths(Len(tree))[k] + 1)
         /\ RefTree(tree)[k + 1] = Over(RefTree(tree)[k], Widths(Len(tree))[k])
<1>1. k + 1 # 0 /\ k + 1 - 1 = k
  OBVIOUS
<1> DEFINE n == Len(tree)
           w == Widths(n)
           t == RefTree(tree)
           base == [i \in 0 .. n - 1 |-> LeafNode(Nth(tree, i))]
<1> HIDE DEF n
<1>2. w = [l \in Depths |-> IF l = 0 THEN n ELSE Half(w[l - 1] + 1)]
  BY WidthsEquation
<1>3. t = [l \in Depths |-> IF l = 0 THEN base ELSE Over(t[l - 1], w[l - 1])]
  BY RefTreeEquation DEF n
<1> HIDE DEF w, t, base
<1>4. w[k + 1] = Half(w[k] + 1)
  BY <1>1, <1>2
<1>5. t[k + 1] = Over(t[k], w[k])
  BY <1>1, <1>3
<1> QED BY <1>4, <1>5 DEF n, w, t

\* The level above a level of the reference tree is the next one of it.
LEMMA LevelAbove ==
  ASSUME NEW s, IsSeq(s), Len(s) > 1, NEW below,
         \A i \in 0 .. Len(s) - 1 : Nth(s, i) = below[i]
  PROVE  /\ IsSeq(NextLevel(s)) /\ Len(NextLevel(s)) = Half(Len(s) + 1)
         /\ Half(Len(s) + 1) \in 1 .. Len(s) - 1
         /\ \A i \in 0 .. Half(Len(s) + 1) - 1 : Nth(NextLevel(s), i) = Over(below, Len(s))[i]
<1> DEFINE n == Len(s)
           h == Half(n + 1)
           up == NextLevel(s)
<1>1. n \in Nat /\ n > 1
  BY DEF IsSeq
<1>2. h \in Nat /\ Parity(n + 1) \in {0, 1} /\ n + 1 = 2 * h + Parity(n + 1)
  <2>1. n + 1 \in Nat
    BY <1>1
  <2> HIDE DEF n
  <2> QED BY <2>1, Halving, Zenon
<1>3. h \in 1 .. n - 1
  <2> HIDE DEF n, h
  <2> QED BY <1>1, <1>2
<1>4. IsSeq(up) /\ Len(up) = h
  <2>1. DOMAIN up = 1 .. h /\ up = [j \in 1 .. h |-> up[j]]
    BY DEF NextLevel
  <2> HIDE DEF up, h
  <2> QED BY <1>2, <2>1, FunctionIsSeq
<1>5. ASSUME NEW i \in 0 .. h - 1 PROVE Nth(up, i) = Over(below, n)[i]
  <2>1. up[i + 1] = IF 2 * (i + 1) <= n THEN Hash(s[2 * (i + 1) - 1], s[2 * (i + 1)])
                    ELSE IF DuplicateOdd THEN Hash(s[2 * (i + 1) - 1], s[2 * (i + 1) - 1])
                    ELSE s[2 * (i + 1) - 1]
    <3>1. i + 1 \in 1 .. h
      <4> HIDE DEF h
      <4> QED BY <1>2
    <3> QED BY <3>1 DEF NextLevel
  <2>2. Over(below, n)[i] = IF 2 * i + 1 < n THEN Hash(below[2 * i], below[2 * i + 1])
                            ELSE IF DuplicateOdd THEN Hash(below[2 * i], below[2 * i])
                            ELSE below[2 * i]
    BY DEF Over
  <2> HIDE DEF up, n, h
  <2>3. /\ 2 * (i + 1) - 1 = 2 * i + 1 /\ 2 * (i + 1) = 2 * i + 1 + 1
        /\ (2 * (i + 1) <= n <=> 2 * i + 1 < n) /\ 2 * i \in 0 .. n - 1
    BY <1>1, <1>2
  <2>4. s[2 * i + 1] = below[2 * i]
    BY <2>3 DEF Nth, n
  <2>5. CASE 2 * i + 1 < n
    <3>1. 2 * i + 1 \in 0 .. n - 1
      BY <1>1, <2>3, <2>5
    <3>2. s[2 * i + 1 + 1] = below[2 * i + 1]
      BY <3>1 DEF Nth, n
    <3> QED BY <2>1, <2>2, <2>3, <2>4, <2>5, <3>2 DEF Nth
  <2>6. CASE ~(2 * i + 1 < n)
    BY <2>1, <2>2, <2>3, <2>4, <2>6 DEF Nth
  <2> QED BY <2>5, <2>6
<1> QED BY <1>3, <1>4, <1>5

\* The invariant holds of a proof that has not begun to climb.
LEMMA TreeInit == ASSUME MerkleInit PROVE TreeInv
<1>1. PICK n \in 1 .. MaxLeaves : leaves \in [1 .. n -> Leaf]
  BY DEF MerkleInit, Trees
<1>2. leaves \in Seq(Leaf) /\ Len(leaves) = n /\ n \in Nat /\ n >= 1
  BY <1>1, MerkleAssumption
<1>3. level = [j \in 1 .. n |-> LeafNode(leaves[j])] /\ phase = "prove"
      /\ trail = <<LeafNode(Nth(leaves, leafIndex))>>
  BY <1>2 DEF MerkleInit
<1>4. IsSeq(trail) /\ Len(trail) = 1
  BY <1>3 DEF IsSeq
<1>5. IsSeq(level) /\ Len(level) = n
  <2>1. DOMAIN level = 1 .. n /\ level = [j \in 1 .. n |-> level[j]]
    BY <1>3
  <2> QED BY <1>2, <2>1, FunctionIsSeq
<1>6. 0 \in Depths
  BY MerkleAssumption DEF Depths
<1>7. Widths(n)[0] = n
  BY <1>6, WidthsEquation
<1>8. RefTree(leaves)[0] = [i \in 0 .. n - 1 |-> LeafNode(Nth(leaves, i))]
  BY <1>2, <1>6, RefTreeEquation
<1>9. \A i \in 0 .. n - 1 : Nth(level, i) = RefTree(leaves)[0][i]
  BY <1>2, <1>3, <1>8 DEF Nth
<1>10. Len(trail) - 1 = 0
  BY <1>4
<1>11. n \in 1 .. MaxLeaves /\ 0 + n <= n /\ 1 >= 1
  BY <1>1, <1>2
<1> QED
  BY <1>2, <1>3, <1>4, <1>5, <1>7, <1>9, <1>10, <1>11, Zenon DEF TreeInv

\* A level up, in a tree whose odd nodes are paired with themselves or move up.
LEMMA TreeClimb == ASSUME TreeInv, Climb PROVE TreeInv'
<1> DEFINE l == Len(trail) - 1
           n == Len(level)
           below == RefTree(leaves)[l]
<1>1. /\ phase = "prove" /\ phase' = "prove" /\ leaves' = leaves /\ n > 1
      /\ level' = NextLevel(level) /\ trail' = Append(trail, Nth(level', idx'))
  BY DEF Climb, inputVars
<1>2. /\ IsSeq(trail) /\ Len(trail) \in Nat /\ Len(trail) >= 1 /\ IsSeq(level) /\ n \in Nat
      /\ Len(leaves) \in 1 .. MaxLeaves /\ Len(leaves) \in Nat
      /\ l + n <= Len(leaves) /\ n = Widths(Len(leaves))[l]
      /\ \A i \in 0 .. n - 1 : Nth(level, i) = below[i]
  BY MerkleAssumption DEF TreeInv, IsSeq
<1>3. IsSeq(trail') /\ Len(trail') = Len(trail) + 1
  BY <1>1, <1>2, AppendIsSeq
<1>4. /\ IsSeq(level') /\ Len(level') = Half(n + 1) /\ Half(n + 1) \in 1 .. n - 1
      /\ \A i \in 0 .. Half(n + 1) - 1 : Nth(level', i) = Over(below, n)[i]
  <2> HIDE DEF below
  <2> QED BY <1>1, <1>2, LevelAbove
<1>5. /\ Len(trail') - 1 = l + 1 /\ l \in Nat /\ l + 1 \in Depths
      /\ l + 1 + Len(level') <= Len(leaves) /\ Len(level') >= 1
  BY <1>2, <1>3, <1>4, MerkleAssumption DEF Depths
<1> HIDE DEF l, n
<1>6. Widths(Len(leaves))[l + 1] = Half(n + 1)
  BY <1>2, <1>5, RefTreeUp
<1>7. RefTree(leaves)[l + 1] = Over(below, n)
  BY <1>2, <1>5, RefTreeUp
<1> HIDE DEF below
<1>8. \A i \in 0 .. Len(level') - 1 : Nth(level', i) = RefTree(leaves)[l + 1][i]
  BY <1>4, <1>7
<1>9. \A i : Nth(level, i)' = Nth(level', i)
  BY DEF Nth
<1>10. /\ IsSeq(trail)' /\ Len(trail') >= 1 /\ IsSeq(level)'
  BY <1>2, <1>3, <1>4 DEF IsSeq
<1> QED
  BY <1>1, <1>2, <1>4, <1>5, <1>6, <1>8, <1>9, <1>10, Zenon DEF TreeInv

(***************************************************************************)
(* binaryMerkleRoot and the climb of binaryMerkleProof compute the tree:   *)
(* levels halve, rounded up, node i over nodes 2i and 2i+1, to the one     *)
(* node at the top, for every number of leaves, either rule for odd nodes, *)
(* with or without the hashing of leaves.                                  *)
(***************************************************************************)
THEOREM RootsAreReference == MerkleSpec => []RootIsReference
<1>1. MerkleInit => TreeInv
  BY TreeInit
<1>2. TreeInv /\ [MerkleNext]_merkleVars => TreeInv'
  <2> SUFFICES ASSUME TreeInv, [MerkleNext]_merkleVars PROVE TreeInv'
    OBVIOUS
  <2>1. CASE Climb
    BY <2>1, TreeClimb
  <2>2. CASE Rooted
    <3>1. UNCHANGED <<leaves, level, trail>> /\ Len(level) = 1 /\ root' = Nth(level, 0)
      BY <2>2 DEF Rooted, inputVars
    <3> QED BY <3>1 DEF TreeInv, Nth, IsSeq
  <2>3. CASE VerifyStep \/ Decide
    <3>1. UNCHANGED <<leaves, level, trail, root>> /\ phase # "prove"
      BY <2>3 DEF VerifyStep, Decide, inputVars, provingVars
    <3> QED BY <3>1 DEF TreeInv, Nth, IsSeq
  <2>4. CASE UNCHANGED merkleVars
    <3>1. UNCHANGED <<leaves, level, trail, root, phase>>
      BY <2>4 DEF merkleVars, inputVars, provingVars
    <3> QED BY <3>1 DEF TreeInv, Nth, IsSeq
  <2> QED BY <2>1, <2>2, <2>3, <2>4 DEF MerkleNext
<1>3. TreeInv => RootIsReference
  <2> SUFFICES ASSUME TreeInv, phase # "prove"
               PROVE  /\ Widths(Len(leaves))[Len(trail) - 1] = 1
                      /\ root = RefTree(leaves)[Len(trail) - 1][0]
    BY DEF RootIsReference
  <2>1. Len(level) = 1 /\ root = Nth(level, 0) /\ 0 \in 0 .. Len(level) - 1
    BY DEF TreeInv
  <2> QED BY <2>1 DEF TreeInv
<1> QED
  BY <1>1, <1>2, <1>3, PTL DEF MerkleSpec

==============================================================================
